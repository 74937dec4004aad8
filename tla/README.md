# A verification of vaelen/appletalk in TLA+

`appletalk` is a Rust program that routes AppleTalk: between LocalTalk
(TashTalk serial adapters and LToUDP multicast) and Ethernet (EtherTalk, raw
captures), and through AURP tunnels to other routers over UDP.  It can also
bridge one LocalTalk network onto an Ethernet one, monitor an Ethernet, and act
as a plain node.  This directory holds TLA+ models of it, the TLC configurations
that check them on small instances, and proofs checked by TLAPS that hold for
every instance.  Source paths below are relative to the repository's own `src/`.

Contents: 1 inventory, 2 what is modelled and how, 3 the runs, 4 the proofs,
5 where code and documents disagree, 6 what is not modelled, 7 the plan.

## 1. Inventory

The router is one thread of control that owns all state, fed by reader threads
over one bounded queue.  It is therefore seldom the router's own threads that
make it hard, but several routers running the same rules at once, timers that
race packets, a network that loses, and long histories of legal steps whose
effect on the tables must stay exact.

| Component | State | Operations | Talks to | Module |
|---|---|---|---|---|
| Routing and zone tables, `router/table.rs` | routes (range, distance, target, next, state, age), the incumbent best per range, zone lists with an expected total | learn, age, remove a target, remove or move one network, add zones | called by the services and AURP; every change is returned as a `RouteChange` | `RoutingTable` |
| AURP connections, `router/aurp.rs` | per peer: receiver state, connection ID, expected number, retries; sender state, the outstanding packet, pages left, pending events, probe flag | open, export, update, acknowledge, tickle, shut down; retry and give-up timers | the peer's other end over UDP; the tables | `AurpConnection`, `Transfer` |
| AURP zone exchange, `router/aurp.rs` | lists in the tables, re-request timer | SZI flag, ZI-Req, ZI-Rsp in pages and chunks | the peer; the tables | `ZoneExchange` |
| AURP peer table, `router/aurp.rs` | peers by address, configured names with their resolution, back-off | resolved, accept an unknown peer, retain, reconnect scan, timers, shutdown | the resolver thread, the run loop | `Peers` |
| Router core, `router/mod.rs` | ports, tables, AURP, counters | `arrived`, `forward`, `emit`: hop counts, loop rules, delivery | ports, tables, AURP, services | `Forwarding` |
| Loops, `router/mod.rs`, `bridge.rs`, `text.rs` | the event queue, shutdown deadline, signals | read, wake after 250 ms, signals, drop reports | readers, `step` | `EventLoop` |
| Link readers, `capture.rs`, `ltoudp.rs`, `tashtalk.rs` | drop counts, the frame being decoded | read, drop and count when the queue is full | the queue | `EventLoop` |
| ATP sessions of the monitor, `session.rs` | open transactions (at most 512) | push, flush, expire | monitor output | `EventLoop` |
| RTMP and ZIP learning, `router/local.rs` | beacon and query timers | beacons, notify-neighbour, ZIP queries and replies | tables | `Internet` |
| NBP, ZIP and AEP answers, `router/local.rs` | none of their own | BrRq, FwdReq, GetNetInfo, GetZoneList, echo | tables, forwarding | `Requests` |
| Ports, `router/ports.rs` | address claim, AARP table | probe and claim a node number, glean, frame | links | `AddressClaim`, `Forwarding` |
| Node, `node.rs` | its address, the AARP table, the last request | claim, GetNetInfo, lookup, ping, zone list, each with retries | one link | `AddressClaim`, `Requests` |
| Bridge, `bridge.rs` | where each node is, doubts, cross-link queries | confirm, ask, settle, expire, relay both ways | two links | `Bridge` |
| Configuration and command line, `config.rs`, `cli.rs` | configuration files | parse, merge, validate, import peers | main | `Configuration` |
| Wire codecs, `wire/` | none | parse, encode | everybody | in part |
| Monitor text, `text.rs` | none | print | the terminal | none |

What is hard in each, and what makes it correct:

- **Tables.**  Ranges arrive from cables and tunnels in any order; a lookup by
  number must find one range, our own networks must not be displaced, a tie must
  not move traffic, and AURP must be told exactly the changes of best routes.
- **AURP connections.**  Loss, restarts, crossing retransmissions, a 16-bit
  number that restarts at 1 whenever an RI-Req arrives.  The receiver must end
  up with exactly the sender's export, never by taking new data for a duplicate.
- **Zone exchange.**  Nothing in it is acknowledged; a list must neither be
  taken for whole in part nor stay incomplete.
- **Peer table.**  Addresses and names come and go under live connections; what
  a dead peer leaves must go, what was configured must come back.
- **Forwarding.**  Routers whose tables disagree while they converge, cables
  with several routers, tunnels that count no hop of their own: nothing may
  loop for ever or be delivered twice.
- **Loops and readers.**  Timers against steady traffic, a full queue, shutdown
  with acks still out, fragments lost between.
- **RTMP and ZIP.**  Convergence round loops of cables, count to infinity, zone
  lists that come in several packets.
- **Requests.**  Retries whose answers cross, answers meant for others.
- **Address claims.**  Two stations claiming one number over a lossy link.
- **Bridge.**  A node that moves, or is heard as a reflection of our own
  forwarding; queries that are answered late.
- **Configuration.**  A file that a person, an import and a router use at once.

`PROJECT.json` lists every component with its status, and every hazard with its
source line and the properties that would catch it going wrong.

## 2. What is modelled

Names follow the source: an action carries the name of its handler where there
is one, a variable the name of its field.

### RoutingTable: `Tables` of `router/table.rs`

`routes` is the vector of routes, `best` the incumbents, `zones` the zone lists.
`told` is a history variable: what a listener holds that has applied every
`RouteChange` returned so far, as the AURP senders do.  One action per operation:
`LearnFromCable` and `LearnFromPeer` (`learn`, with the distance arithmetic of
their callers: 15 is kept as 15 and is the last distance that counts as reached,
31 is the bad-news value), `Elapse` and `Age` (the clock and the validity timer:
good to suspect to bad to worst to gone), `RemoveTarget`, `Remove`,
`SetDistance`, `ZoneReply` (`add_zones`).  Each learns, drops or rewrites
routes and then settles the ranges it touched (`settle`), as the code does.

`Ranges` are any pairs of numbers: neither parser nor `learn` asks whether a range
ends before it starts, and one that does overlaps nothing it lies in.

Abstracted: the order of the vector.  Where two usable routes tie and neither
is the incumbent, the code takes the one learned first and the model either.
Zone names are model values, compared exactly.

### AurpConnection: one one-way connection of `router/aurp.rs`

A `Peer` of the code holds the receiver half of one connection and the sender
half of another.  The module has one connection with both of its halves, on
two routers, and the datagrams in flight.

- Receiver: `receiver`, `conn_local`, `seq_recv`, `recv_tries`, and `routes`,
  its table's routes via this peer.
- Sender: `sender`, `conn_remote`, `seq_send`, `outstanding`, `tries`, `pages`,
  `pending`, `probing`, and `home`, its table's best route of each network.
- Network: `toSender` and `toReceiver`, sequences that lose any head and keep
  the order of the rest.
- `applied` is history: the last sequenced packet processed as new.
- `spoilt` and `ghosts` are history too, of what the code gets wrong (section 5), so
  that the properties can say where exactly it stops being right.  A connection is
  `spoilt` once its sender begins its numbers again under the receiver: an update or
  a probe goes out before the RI-Req came (`Overtaken`), or an RI-Req comes when the
  export has moved on or changed (`RiReqArrives`).  A network is one of `ghosts` when
  it was exported while its addition was still pending, or when the receiver kept a
  route to it from a connection given up, until an update names it.
- `budget` bounds openings, route changes, losses, restarts, pings and probes.

Actions, receiver: `Open` (`reconnect`, `open`), `OpenRspArrives`,
`RiRspArrives`, `RiUpdArrives`, `RdArrives`, `TickleAckArrives`,
`ReceiverDiscards`, `OpeningTimeout`, `GoneQuiet`, `TickleTimeout`, `ping`,
`ReceiverRestarts`.  Sender: `open_req`, `RiReqArrives`, `ri_ack`,
`TickleArrives`, `SenderDiscards`, `SenderTimeout`, `SendUpdate`,
`HomeChanges` (`route_changed` with `queue`'s collapse of pending events),
`ProbeThisWay`, `shutdown`, `SenderRestarts`.  The other connection of the pair
appears only as what it can do to this one.

Time is abstracted: a timer may fire whenever it is set.  With `Prompt` a
retransmission timer waits until its packet and the answer are handled or
lost, the usual case of a 10 s timer on a working network.  Zones enter only
as "complete or not", which decides whether a network is exported.

### Transfer: what sequenced packets promise

The abstract specification of a connection: the sender offers one packet at a
time, the receiver takes what is offered, once, and the sender goes on only when
it has been taken.  No numbers, acks, timers or loss.  `AurpConnection`
implements it under the mapping `Transferred`:

| Transfer | AurpConnection |
|---|---|
| `conn` | `conn_remote` while the sender serves it and it is not `spoilt`, else 0 |
| `held` | `conn_local` while the receiver is open, else 0 |
| `offered` | `outstanding`, if `conn` is not 0 (an RD is none: it ends the connection) |
| `taken` | `applied` |

So it says, of every step: a packet is acked and left behind only after the
receiver processed that very packet (not one of the same number), no packet is
processed twice, and a connection ends or starts over with nothing half done.
A connection that is `spoilt` is served no longer in the mapping: that is where the
promise ends, and only there.

### ZoneExchange: the zones of a tunnel's networks (`router/aurp.rs`)

The sender's lists (`home`) and pending events, the one RI packet outstanding, the
receiver's routes and lists, and `mail`: RI-Acks with SZI, ZI-Reqs and ZI-Rsps, a
set that loses, repeats and reorders.  `zi_pages` packs whole lists into pages (one
network's list at a time, `packed`) and cuts a long one into chunks that announce
its size; `encode_zi_rsp` and `parse_zi_rsp` are the offset form of a repeated
name.  The connection under it is as `AurpConnection` says: one RI packet at a time,
processed once.  `flapped` is history: the networks that came back, in this
connection, when the receiver still had a route, an event or a question about them
(`Unheard` is that it has none).  `Announced` is the byte a paged ZIP reply gives to
a list's size, which stops at 255.  What every module has is called `ExchangeInit`,
`ExchangeNext`, `ExchangeSpec` here, so that `Configuration_proofs` can extend this
module beside `Configuration`.

### Peers: the peer table of one router (`router/aurp.rs`)

`held` and `peers` are the table, `via` the addresses the routing table has
routes through, `alive` where a router runs at the other end.  A packet is what
it does to the entry that receives it, and any may come from where a router
runs.  A step of the clock is 10 s (`RETRY`, the reconnect scan and the update
interval); back-off and silence are counted in it, and a `tick` comes any number of
steps after the last (`Later`), as traffic may hold the timers up.  Actions: `resolved`, the
arrivals (accepted from strangers if `Open` and below `MaxOpenPeers`),
`receiver_timers`, `sender_timers`, the reconnect scan, `retain`, `ping`,
`shutdown`, and routers that stop and start.

### Forwarding: one datagram among several routers (`router/mod.rs`, `ports.rs`)

`frames` holds the copies of one datagram on the links, each with the routers that
are still to hear it; `claimed` the ports that hold a node; `handed` and `home`
record the ways (the routers in order) by which it got to services and to the
destination network.  `arrived` and `forward` are the two functions of the same
name, with `Dropped` the tests for hops, route, return (`is`) and port, and `Free`
the rule for a crossing that counts no hop.  The tables are a constant relation: at
every router the datagram may be forwarded by any route of `RoutesOf`, so they may
disagree and change under it.  A frame is heard by those it is meant for and by any
others of its link (`Hearers`): captures are promiscuous, LToUDP is a multicast
group, and no port looks at the hardware address a frame was sent to.  Its `Init`,
`Next` and so on are named `ForwardInit`, `ForwardNext` and so on, so that it can be
proved about together with `Internet`.

### EventLoop: readers, queue and loops

The program runs as router, bridge or monitor (`mode`).  A reader takes an event
off its link, reports what it had to drop, and posts (`Read`, `Report`, `Send`);
link readers drop when the queue is full, the AURP reader waits.  `RouterTurn`
and `RouterEnd` are the two halves of one turn of the router's loop, between
which the actions go out (`execute`) and signals may come; `BridgeTurn` and
`MonitorTurn` are the others.  The monitor's session is `push`, `expire` and
`flush` of `session.rs`.  `untold` is history: what a link lost that the loop
has not been told.

### Internet: RTMP and ZIP among routers (`router/local.rs`)

One network behind router `Home` and a loop of routers behind that.  A period is one
beacon of each router in any order; `advertisable` is what a beacon says (split
horizon, 31 for bad news), `Learnt` and `age` are the tables', `tick` also asks for
zones that are missing, and `learn_zones` takes the replies, page by page.  `pages`
announces the size of the whole list, or 255 (`MaxTotal`) if it is longer than its
one byte can say.  `Home` dies and returns; beacons and replies are lost.  Ranges do
not meet (`Apart`), as on any internet that is numbered right, so one network can be
followed by itself.

`Table(r)` is an instance of `RoutingTable` for each router, and `TablesKept` says
that every step on a table is one of its operations.  The mapping makes a whole
table of what is followed: `Rows` adds the direct routes of the router's cables to
what it holds of the network, `Incumbents`, `Lists` and `Told` give every range its
incumbent, zone list and last report, and `PerStart` names what is one for each.

### Requests: a node's questions and the services' answers

The node of `run_node` (`node.rs`): GetNetInfo, a lookup, pings, the zone list
with its pages, each asked again on a deadline.  The routers of an internet
answer (`brrq`, `fwd_req`, `net_info`, `zone_list`, `echo`), from settled tables.
Packets are lost or late, and answers to other nodes are overheard: to their
GetNetInfo (`OtherInfos`), lookups (`OtherNames`) and zone lists (`OtherPages`).
Lookup numbers start over in each process and are cut to eight bits, so another
node's may well be ours.  `Blank` is the name a GetNetInfo carries, which is no
zone's, and `Star` the one NBP keeps for "this zone".

### AddressClaim: who gets which node number (`router/ports.rs`, `node.rs`)

Stations on one cable, Ethernet, LToUDP or TashTalk, start, probe (`Ask`, as
often as `schedule` says), take the address (`claimed`) or give way (`restart`,
`claim_in_range`), defend it (`Answer`), leave and come back.  A node moves from
the startup range to the cable's own.  A TashTalk adapter answers for the ID in
`firmware`, even after its router is gone.  Frames are lost or come an interval
late.

### Bridge: `Bridge` of `bridge.rs`

`nodes` is the node table, `pending` the queries in flight with what is owed,
`sent` what the last step sent.  A side is a link: MAC addresses, and the table
of addresses on other networks, are data that decide no step.  Every input of
`Bridge::step` is an action that begins with `expire`, as the code does:
`EtherResponse`, `EtherAsks` and `EtherDdp`, `LocalEnq`, `LocalAck` and
`LocalDdp`, and `Tick` for a wake-up without input.  Inside, `confirm` is split
into `agreed` and `contradicted`; `ask`, `settle` and `Evidence` (the test of a
proxy answer) are those of the code.  `Elapse` is the clock.  The environment is
open: any node may be heard on either side at any time, with or without having
been asked.  Three history variables let the properties speak of it: `last`,
the side a node was last heard on, `contested`, whether the side believed has
spoken since the doubt, and `claim`, the time since a LocalTalk node last
enquired for the ID.  Which of several requesters an answer goes to is left out.

### Configuration: files, flags and imports (`config.rs`, `cli.rs`)

`file` and `tmp` are the configuration files and the temporary ones of imports.
A router starts from a file and flags (`parse_file`, `merge`, `validate`), an
import reads, writes beside and renames, a person edits in between, and a crash
may come at any of it, in the middle of a write too (`Half`).

### How they fit together

`RoutingTable` gives what the others presume, and `Internet` uses its operations
as its own.  `DirectAlone` is `RoutesAssumption` of `Forwarding` (a network of
ours goes to its own port, any other is a router away).  The changes it reports
(`ReportsAreComplete`) are those `HomeChanges` of `AurpConnection` passes to the
peer, and learning from a tunnel there is what the receiver does to its table.
`AurpConnection` implements `Transfer`, whose packet-at-a-time `ZoneExchange`
builds on, and shows what `Peers` presumes of one connection.  `RunningIsSound`
of `Configuration` is the assumption on ports of `RoutingTable`.
`EventLoop` gives `Peers`, `Internet` and `Bridge` their timers, as far as its
`TimersRun` holds (section 5).  `AddressClaim` gives `Forwarding` its `claimed`.

## 3. The runs

| Run | Question | Properties |
|---|---|---|
| `table` | every operation in every order, ranges that match, overlap, miss and end before they start | `NoOverlap DirectAlone IncumbentIsBest ReportsAreComplete ZonesHaveRoutes TunnelRoutesStayGood IncumbentKept` |
| `aurp` | an export of two pages, any two changes of two networks, a loss, a restart, a ping, a probe, refused openings | `StopAndWait NothingLost InStep OpensAfresh ImplementsTransfer` |
| `aurp_live` | an export of two pages, two losses, a restart: both ends agree in the end | `Converges` |
| `forwarding` | a mesh of cables and tunnels whose tables say anything and where anybody may hear a frame, and beside it a line whose tables have settled | `CrossingsBounded OneCopy Delivers` |
| `bridge` | anything that may be heard of two nodes, at any time | `LastWordCounts DoubtIsAsked ProxyHasEvidence AcksAreEarned DoubtEnds` |
| `event_loop` | the program as router, bridge and monitor on a queue of two events | `LossesCounted WholeMessages Stops` |
| `peers` | a peer that talks, dies and returns, a name that moves, room for one stranger and two who ask | `DeadRoutesLeave SilentStrangersLeave ConfiguredComeBack` |
| `requests` | every command of a node on an internet of two routers and four cables | `ZoneListWhole LookupWhole AnswersAreOurs` |
| `claims` | two stations, router or node, on a cable of each kind, three frames lost or late | `OneHolder GivesWayToOthers` |
| `internet` | a triangle of routers, the router behind it dies and returns, a packet is lost | `CompleteIsWhole Settles TablesKept` |
| `config` | eight hand-written files, eleven sets of flags, an import that may be interrupted | `NeverHalf RunningIsSound ImportOnlyAdds` |
| `zone_exchange` | three networks behind a peer, one list in two chunks, a loss, a repeat, a removal, a return, a restart | `CompleteIsWhole ZonesArrive` |

What the less obvious properties say:

- `IncumbentIsBest`: the recorded incumbent names exactly the best route, so
  the tie-break always has something true to go by.
- `NoOverlap`: no network number lies in two ranges of the table.  (Two pairs may
  have one start, as 5-4 and 5-6, since the first holds no number at all.)
- `ReportsAreComplete`: replaying the reported changes reproduces the table.
- `NothingLost`: once the export is through, the receiver's routes with the
  outstanding update and the pending events applied are what the sender would
  export now.  It relates both tables, both sequence numbers, the collapse of
  pending events and the duplicate test, at every intermediate state.
- `ImplementsTransfer`: the refinement of section 2.  `InStep`: what is
  outstanding is what the receiver would process or re-ack.
- These three hold of a connection until it is `spoilt`, and `NothingLost` of a
  network that is not of the `ghosts`.  No step is forbidden for them: updates go out
  before the RI-Req, exports of two pages start over, and the state goes on from there.
- `Converges`: as long as the timers run, the two ends are linked for good in the
  end, and every route agrees, `ghosts` and `spoilt` connections apart.
- `OpensAfresh`: no connection ID is used that the sender or a datagram in
  flight still has.
- `CrossingsBounded`: a copy crosses at most 2 * MAX_HOPS + 1 routers.  The
  bound is reached: a datagram made by a router may alternate free and counted
  crossings.
- `OneCopy`: a copy that was put on its network, or handed to a router's services,
  does not come there again, and no router makes two of what it hears once.  Copies
  that do arrive came by ways that part, where several routers heard one frame; a
  broadcast heard by every router of its own cable is not repeated there.
- `LastWordCounts`, `DoubtIsAsked`: the bridge's belief follows what was heard
  last, or a question about it is out; between them they say what a move, a
  reflection, a late answer and a timeout may do to each other.
- `ProxyHasEvidence`, `AcksAreEarned`: the two frames the bridge sends in a
  node's name are true when sent, and in time for whoever asked.
- `DoubtEnds`: a node that is eventually heard on one side only does not stay
  in doubt, whatever is heard of it.
- `LossesCounted`: whatever a link lost is in its reader's count or in a report
  in the queue, exactly once; routing packets are never lost to a full queue.
- `WholeMessages`: a message the monitor shows is made of the segments of one
  response, although the next response carries the same key.
- `Stops`: a STOP ends the router under any traffic, with its RDs on the wire,
  a second STOP or not.
- `DeadRoutesLeave`, `SilentStrangersLeave`, `ConfiguredComeBack`: between them,
  no combination of half-open connections, pings, back-offs and give-ups keeps
  the routes or the room of a peer that is gone, or keeps one that is there out, as
  long as the timers run, however late each time.
- `LookupWhole`: a lookup finds every entity of its zone across the internet if
  nothing is lost, and nothing of another zone whatever happens.
- `OneHolder`: two stations share an address only if as many frames were lost or
  late as the claim has probes.
- `Settles`: whatever two faults happened, if period after period comes to its end,
  the tables end on shortest paths and complete lists, or on nothing if the network is
  gone: count to infinity ends.
- `CompleteIsWhole` (`internet`): a list that counts as complete has every zone, or
  as many as its one byte can announce.  (`zone_exchange`): the receiver's list is
  whole, but of a network that `flapped`, or that itself came with too many zones for
  that byte.  `ZonesArrive`: as long as both loops tick, every list gets there.
- `TablesKept`: every router's table in `internet` changes by operations of
  `RoutingTable` only, on what a neighbour just said.  It connects the two modules.
- `ImportOnlyAdds`: whatever flags a router is started with, after an import it
  starts as before with at most more peers.

**Bounds.**  `table` has a network of our own and, of four more ranges, one that
overlaps it, two that overlap each other and one that ends before it starts at the
start of the contested one; one cable router and one peer: every branch of `learn`
and the zone rules is met, at the distances where they change (0, 14, 15, 31).  The
connection runs allow two openings (`aurp_live` any number), so that a connection
can follow another, two changes, one or two losses and one restart, in any order,
over two networks with one to a page, so that an export may be cut in two, started
over half way or met by a change of either half; numbers go up to 5 (4 in
`aurp_live`), so that they wrap and skip 0.  Retries and tickle retries are 1 or 2
where the code has 5 and 10: enough to tell "try again" from "give up".  `MAX_HOPS`
is 3, where loops exist in the mesh and a datagram that starts with two hops reaches
the end of the line only just.  `bridge` counts time in units of `QUERY_TIMEOUT` and
lets an entry live for two (the code has 2 s and 600 s): a query can end before the
entry it is about, and an entry can end with no query out, which is what the order
of the two decides.  Two nodes suffice, since a step touches one entry and at most
one query, of the same or of another node.  `event_loop` has room for two events, so
a report and an event may each find it full, three transactions for two places, and
one key used twice, at the soonest the timeout allows.  `peers` has a talker, an
address that sends strays and never answers (`Passers`), one name for both and room
for one stranger, so that either may find the table full of the other; a back-off
and a silence of one step and two tries let every timer end before and after every
other, and a tick that is two steps late finds both over at once.  `requests` gets
one name to a page, so that every list has pages, and hears one foreign answer at
any point.  `claims` has three candidates for two stations, probes 3 times where the
code does 10 (Ethernet) and 2 for the LocalTalk enquiries, so that the losses that
allow sharing are within reach and one fewer is not enough.  `internet` lets a route
live for two beacons and takes two faults: a network may die in the middle of any
exchange and be back in the middle of its own bad news; its list has three zones
where the byte counts to two. `config` has MAX_NET 3, where every kind of overlap
occurs.  `zone_exchange` puts three names in a packet: two lists share one, the
third needs two.

A timer that fires while the answer is still under way (`Prompt` FALSE) is
covered by the proofs of section 4, not by a run: they hold whatever it is.

**Deadlock.**  It is checked for `table`, `bridge`, `claims`, `peers` and
`internet`, which always have a next step.  The connection runs and
`zone_exchange` use up their budgets, a datagram, a command and an
editing session end, and a stopped router is gone: those systems really stop.

**Fairness.**  Always weak unless said otherwise, and only of the program's own
steps.  Timers have none: `mod.rs:490-514` runs `In::Tick` only when no input came
for 250 ms, or after a report of drops or an error, and under steady traffic it never
does (`TimersRun` of `EventLoop` is false, section 5).  What needs them therefore says
so: `Converges`, `DeadRoutesLeave`, `SilentStrangersLeave`, `ConfiguredComeBack`,
`Settles` and `ZonesArrive` have the form `TimersRun => ...`, where `TimersRun` of their
module says that what is due is done again and again, which is so of a router whose
traffic leaves it idle now and then.  In `Peers` a tick may also be late by any time.

What is assumed of the program is only that input is read.  `AurpConnection`: each
half takes the datagrams that reach it.  Losses, restarts and changes have no
fairness and end with the budget; openings are unbounded in `aurp_live`.
`Forwarding` asks that a frame heard is read from the queue, and `Bridge` that time
passes and the loop wakes, which its 250 ms timeout sees to. `EventLoop`: the loop
takes its turns, and strongly, that the deadline passes while it waits (it is
sampled once a turn, so it is enabled again and again rather than all the time).
`Peers`: strongly, that an Open-Rsp and the last RI-Rsp of a router that stays up
arrive in time in one of infinitely many attempts.  `Internet`: replies that are not
lost are read.  `ZoneExchange`: so are acks, ZI-Reqs and ZI-Rsps, each kind of
which, sent again and again, is not lost every time (losses are bounded).

## 4. The proofs

| Module | Theorems about | Theorems |
|---|---|---|
| `RoutingTable_proofs` | `RoutingTable` | `TypeCorrect RangesDisjoint OwnNetworksStand IncumbentsExact ReportsExact NoOrphanZones TiesKeepTheIncumbent TunnelRoutesGood` |
| `AurpConnection_proofs` | `AurpConnection`, `Transfer` | `TypesKept SenderWaits FreshConnections EndsInStep ChangesGetThrough TransferImplemented` |
| `Internet_proofs` | `Internet` over `RoutingTable` | `ListsAreWhole TablesAreTables` |
| `Internet_proofs` | `Forwarding` | `FramesWellFormed LoopsEnd NoDuplicates` |
| `Bridge_proofs` | `Bridge` | `TypesKept LastWordKept DoubtAsked ProxyEvidenced AcksEarned` |
| `AddressClaim_proofs` | `AddressClaim` | `ClaimsAreCounted NoClashWithoutLosses ClaimsYieldToOthersOnly` |
| `Configuration_proofs` | `Configuration` | `FilesStayWhole RunsOnSoundPorts ImportsOnlyAdd` |
| `Configuration_proofs` | `ZoneExchange` | `ListsArriveWhole` |
| `EventLoop_proofs` | `EventLoop` | `LossesAreTold MessagesAreWhole` |
| `Requests_proofs` | `Requests` | `AnswersAnswer LookupsReachTheZone ZoneListsAreWhole` |

They hold for every value of the constants that meets the assumptions named in
the modules: any ports, ranges, peers, networks, page sizes, bounds, topologies,
routes, node IDs, timeouts, files, queue lengths and zone lists.  Some need a
hypothesis more, which is named below with what happens without it.

**Tables.**  `TypeCorrect`, `RangesDisjoint`, `OwnNetworksStand`,
`IncumbentsExact`, `ReportsExact`, `NoOrphanZones`, `TiesKeepTheIncumbent`,
`TunnelRoutesGood`: all seven properties of the run `table`, and the types.
Nothing is presumed of the ranges announced: a pair may end before it starts and
then lies in others and shares their start.  So `NoOverlap` speaks of the numbers a
range contains, and the incumbent, which `best` keeps by start and path, is that of
whichever range `best_for_start` takes.
`TableInv` is the conjunction of these invariants with one route per path to a range
(`OneRoutePerPath`) and the shape of direct routes.  None of them is inductive
alone: that the incumbent is exact needs one route per path, that needs disjoint
ranges, and that an AURP removal does not touch our own networks needs
`DirectAlone`.  The argument has two halves: what each operation does to the set of
routes (`LearnTable`, `AgeTable`, ...: the invariants over `routes` alone), and
`SettleKeepsInv`, which shows once that settling the touched ranges restores
`best`, `zones` and `told`.  From the ports the proof uses that configured ranges do
not overlap, which `config.rs` enforces (`RunningIsSound` of `config`).

**Connection.**  `TypesKept`: every packet put in flight is one the formats
carry, whatever the order of timers.  `SenderWaits`: `StopAndWait` needs only
types, because every action that changes the state of the sender also sets or
clears what is outstanding.  `FreshConnections` proves `OpensAfresh` as long
as the connection IDs do not wrap (`NoWrap`: fewer openings than IDs).  Its
invariant `IdInv` adds to the types two counters read off the budget: the
receiver's ID never exceeds the openings and restarts used up (`IdsLeft`), and
the IDs at the sender and in flight never exceed the receiver's, and are below
the next one whenever it is closed (`IdsUsed`).  Without `NoWrap` the property
is false in principle, after 65535 openings against a sender that never forgets.

The transfer needs `NoWrap` as well, and nothing else: exports have any number of
pages, routes change and updates go out at any time, and so do timers (`Prompt` is not
presumed).  What the code then does wrong is in the histories (section 2): the theorems
hold of a connection up to the step that makes it `spoilt`, and say nothing behind it.
`TransferInv` says what may be in flight, and in which order: connections reach the
sender in the order of their IDs (`Sorted`), an Open-Req still on its way is ahead of
all else of its connection (`AsksOK`), a connection of which the sender has yet to
export has no data anywhere (`EarlyOK`), data carry the number the receiver waits for or
the one before, and never go back to that one (`DataOK`), an ack is of what is
outstanding or of the packet before it (`AcksOK`), and what was processed last is what
is outstanding or has been left behind (`AppliedOK`, `StepOK`).

- `EndsInStep` (`InStep`) follows from it at once.
- `ChangesGetThrough` (`NothingLost`) adds `ChangesInv`: there is a value that what is
  pending *follows* to what the sender would export (`Follows`), and that the receiver
  stores, or will when it has had the update outstanding or the pages still to come
  (`Carries`, `Left`).  It is stronger than the property, which only compares results: an
  addition is pending only for what the receiver does not have, so `queue` may cancel
  it by a deletion.  That is what fails of `ghosts`, and `RoutesOK` says that a receiver
  begins with no other routes.
- `TransferImplemented` (`ImplementsTransfer`) names, for each action, the step of
  `Transfer` it is (`Begins`, `Offers`, `Advances`, `Takes`, `Rests`, `Ends`, ... or
  a stutter) and shows each from `TransferInv`.

**Forwarding.**  `LoopsEnd`: `CrossingsBounded` is not inductive, because it forgets
whether the last crossing counted.  `CrossedFew` ties the length of the path to the
hop count and to the link the copy is on: 0 inside its own router, at most 2 * hops
+ 1 on a tunnel and 2 * hops + 2 on a cable, which a free crossing may have led to.
`NamedOnCable` adds that network 0 ("this cable") is named only on a cable.
`FramesWellFormed` comes from the same invariant, `FramesInv`: the count never
leaves 0..MAX_HOPS and so fits its four bits.  `NoDuplicates` (`OneCopy`) holds
whoever hears a frame: `CopyInv` says of the copies yet to be heard that no two came
by one way (`OneOfAWay`), that a copy goes on by a way that is new (`NewWays`), and
that a copy on its own network (`OnTheCable`) or at its end (`HomeIsTheEnd`) goes
nowhere from there.  That one datagram arrives once does not follow, and is false
(`MCForwardingTwiceFinding.cfg`).

**Internet.**  `ListsAreWhole` (`CompleteIsWhole`): `ListsInv` says of every list,
and of every reply on its way, that it is whole or knows the size announced of the
whole one, the true one or `MaxTotal`, so `complete` is wrong of no list that its
byte can count, and of a longer one only when it has as many zones as that.
`TablesAreTables` (`TablesKept`) shows that `Internet` implements `RoutingTable` at
every router, step by step.  `RowsInv` is what the tables must keep to for that: one
route per path, entries as `learn` and `age` write them, the incumbent one of the
shortest usable (`Chosen`), no list without a route.  One lemma shows `settle` to be
that of `RoutingTable` (`SettleIsTable`), one for each operation that it is one
(`LearnIsTable`, `AgeIsTable`, `ReplyIsTable`, `ElapseIsTable`, and `InitIsTable`),
the premises of `Learn`, that a neighbour really tells what is learned, included.

**Bridge.**  `TypesKept`, `LastWordKept`, `DoubtAsked`, `ProxyEvidenced` and
`AcksEarned`: every safety property of the run `bridge`, for any set of node IDs
and any timeout of a query below the life of an entry (`TimesAssumption`).
`BridgeInv` needs two facts the properties do not state.  A check is no younger
than its doubt (`e.age <= q.age` in `Sound`), so a doubtful entry cannot age out
under a check that would then overwrite whatever has been learned since; here
the assumption on the two times is used.  And a query that owes an
acknowledgement is no younger than the last enquiry (`Recent`), so what is paid
is paid in time.  `ExpireFacts`, `ConfirmReady`, `AskReady`, `SettleReady` and
`SendReady` say what each function of the code keeps; the actions compose them.

**Claims.**  `NoClashWithoutLosses` (`OneHolder`) follows from `Counted`: of two
stations that ask for, or hold, one address, every interval that both have
asked in cost a frame, except one whose frames are still on their way
(`Exchange`).  Stations that begin anew have no interval in common with anybody, a
question heard makes the rival object or give way, and a frame lost or late covers
the interval it was of.  `ClaimsYieldToOthersOnly` (`GivesWayToOthers`) needs
`OwnAnswer`: a station that hears its own answer holds the address, or has left
the startup range since.  For any number of stations, addresses and intervals.

**Configuration.**  `RunsOnSoundPorts` (`RunningIsSound`): what `merge` returns
and `validate` accepts keeps every port's range of its kind and clear of the
others'.  `FilesStayWhole` (`NeverHalf`) and `ImportsOnlyAdd` (`ImportOnlyAdds`) hold
of one import at a time (`OneAtATime`): two share one `.toml.tmp` and can put half a
file in place (section 5).  `ImportOK` follows an import from what it read to what
it is to write, `Whole` adds that the temporary file says that before the rename,
and `FirstThere` that the file found is the first of the places looked in, so a
router started after the rename reads what it read before or the merged text.

**Zone exchange.**  `ListsArriveWhole` (`CompleteIsWhole`) has no hypothesis.
`ExchangeInv` has three parts.  A list, at either end, is empty, whole, or knows the
size of the whole one (`Received`), so `complete` is never wrong (`CompleteIsAll`).  A
list the sender holds in part is of a network the receiver neither knows nor has been
told of or asked about (`ToldWhenComplete`, `Unheard`), unless it is of `Doubtful`: it
came back before its removal was dealt with, or its size is more than a byte.  And a
ZI-Rsp on its way has lists that are whole, or names of one list and its size (`RspOK`),
of every network but those.  The steps that send need that the answer is so: a list held
whole is packed whole or in chunks that tell its length (`NamedWhole`, `PackedSent`,
`PagesSent`), and a name written as an offset is read as that name (`ParsedAsEncoded`).

**Event loop.**  `LossesAreTold` (`LossesCounted`): the reports in the queue are
summed by a running count (`Counts`), and the sum, with what the reader still
counts, is what was lost.  `MessagesAreWhole` (`WholeMessages`): fragments of one
key arrive in the order of their uses, which lie `TXN_TIMEOUT` apart (`OrderOK`), so
what is open is of one use (`OpenOK`) and is expired before another's fragment is
pushed; and no more than `MAX_OPEN` are open.

**Requests.**  `AnswersAnswer` (`AnswersAreOurs`): the zone taken for ours is the
cable's default, and a ping counted answered was echoed.  `LookupsReachTheZone`
(`LookupWhole`): every entity of the zone is found, or one of the four packets that
lead to it is on its way (`Reaches`), as long as nothing is lost.  It supposes that
no zone is called "*" (`NoStar`), the name NBP keeps for "this zone"; `config.rs`
refuses no such name.  `ZoneListsAreWhole` (`ZoneListWhole`): the pages so far hold
just the names before `start` (`SoFar`), and a reply that carries our number is the
page asked for (`PagesOK`).  It supposes that the list takes no more than
`MAX_ZONE_PAGES` pages (`FewZones`): a longer one is cut (section 6).

**Recursion.**  `merge_peers`, `all_zones`, `zi_pages` and their like go through a list
one element at a time.  They are recursive functions here, whose values are proved by
the least number for which a claim fails (`NatLessThanWellFounded` and `WFMin` of
the libraries).

**Model-checked only.**  Liveness is out of TLAPS's reach: `Converges`,
`Delivers`, `DoubtEnds`, `Stops`, `DeadRoutesLeave`, `SilentStrangersLeave`,
`ConfiguredComeBack`, `Settles` and `ZonesArrive`.  So the module `Peers`, which
states nothing else, has no proof.  Every invariant and action property of the runs
is stated by a theorem.

## 5. Where code and documents disagree

Each has a configuration here beside the run's own, under which TLC finds a
counterexample to the property named (`tlc -config X.cfg MCModule`).

- `MCAurpDupFinding.cfg` (`AlwaysTransferred`): an update sent between the
  Open-Rsp and the RI-Req makes the receiver take the whole export for a
  duplicate.  No loss is needed.  `MCAurpPageFinding.cfg` (`AlwaysConverges`): with
  two pages the two ends never agree.
- `MCAurpGhostFinding.cfg` (`AtRestAgree`): a network added, exported in answer
  to an RI-Req, and deleted while the addition is still pending is never
  withdrawn: `queue` presumes the peer never heard of it.
- `MCAurpRefreshFinding.cfg` (`AlwaysInStep`): an RI-Req that is repeated after two
  pages restarts the export at 1, but the receiver goes on expecting 3.
- `MCZonePartialFinding.cfg` (`AlwaysWhole`): `docs/AURP.md:351` says never to
  export a network until its zone list is complete.  `zi_pages`
  (`router/aurp.rs:1025`) looks only whether the list has names: one that is
  learned again, of which a first page is in, is sent as whole to a peer that
  still asks, which has no way to tell.
- `MCForwardingTwiceFinding.cfg` (`UnicastOnce`): `router/ports.rs:285-288` sends a
  datagram for another network to the next router's own hardware address, because
  every router that hears it forwards it.  Neither port kind looks at that address
  when it hears a frame: two routers that join the same two cables both forward a
  unicast sent to one of them.
- `MCBridgeAckFinding.cfg` (`AcksArePaid`): a LocalTalk node claims an ID that the
  table has on LocalTalk, from a node since gone.  When Ethernet answers the
  probe, the answer contradicts the entry; `confirm` replaces the query by a
  check of its own and the acknowledgement owed for it is forgotten.
- `MCEventLoopTimersFinding.cfg` (`TimersRun`): `router/mod.rs:36` calls TICK "the
  longest a datagram may wait before the timers get a look in", but the timers run
  only when the queue stays empty for that long, or a report of drops or an error
  comes: under steady traffic never.
- `MCPeersMovedFinding.cfg` (`MovedRoutesLeave`): `resolved` says that the routes
  learned from the address a name has left stay until its tickles run out; the
  entry that would count them is gone, and they stay for good.
  `OneAddressPerName`, checked as an invariant, fails too: an
  address handed from one name to another leaves the first with a second peer.
- `MCInternetGhostFinding.cfg` (`Forgotten`): after a network is gone, entries in
  the notify-neighbour state that routers announce to each other round a loop
  of cables count as heard (`learn` sets `seen`, `router/table.rs:206`), so none
  of them is ever dropped.  They are unusable; `Settles` holds.
- `MCRequestsZoneFinding.cfg` (`ZoneListAnswered`): `node.rs:749-751` says a stale
  retransmission of our own previous page must not be mistaken for this page's
  answer.  It is recognised, but stays in the session's messages, and the next
  page takes the oldest one: that page's names are never listed, and `zone_list`
  returns without an error.

Read off the code, without a configuration: a repeated Open-Req takes a sender
that is shutting down back to Connected and its RD is abandoned (`open_req`); a
datagram for node 255 of a network behind a tunnel crosses it, though
`docs/AURP.md` says unicast only (`forward`); a doubtful destination gets its
LocalTalk traffic broadcast on Ethernet, though the comment on `doubted` says
nothing is forwarded to it (`local_ddp`); two imports share one `.toml.tmp`
and together can leave half a configuration (`Importers = {1, 2}`, `NeverHalf`);
an edit saved between an import's read and its rename is lost; an import into
`./appletalk.toml` where there was none hides the ports of the one in `/etc`.

The passing runs do not keep clear of these.  What their properties say is true
nevertheless, because it names the case: a connection that is `spoilt`, a network of
`ghosts` or one that `flapped`, a copy by another way, a peer that is `orphaned`,
timers that do run. `ZoneListWhole` speaks of lists where no reply came but those
waited for.

## 6. What is not modelled

- Parsing and encoding (`wire/`), except that of a ZI-Rsp: pure functions of one
  packet, covered by round-trip tests in the source.
- The TashTalk frame decoder (`tashtalk.rs`): a function of the bytes read, with
  no other actor; tests cover its escapes and resynchronisation.
- Device access (`ltoudp.rs`, the rest of `tashtalk.rs` and `capture.rs`): I/O.
- Answers that only read: RTMP Requests and RDRs, GZN and GDZL requests, dumps.
- Hardware addresses of ports and the bridge, and sends that fail.
- The report of a ping, counters, logs and wording everywhere, the monitor's
  text, the service files in `contrib/`.

Limits of what is modelled.  `Internet`: the beacon and the ZIP query have one
period.  `AurpConnection`: of a
`spoilt` connection nothing is promised but that it ends when it is given up; IDs
do not wrap where they are checked.  `Peers`: a pair's packets are not in flight, they
arrive or not.  A stranger left with nothing but the connection it opened stays
(`SilentStrangersLeave` says so: nothing is sent on it, so nothing notices).
`Requests`: the tables are settled, failing sends are not followed, and a
list longer than `MAX_ZONE_PAGES` allows is cut without a word.  `AddressClaim`:
an objection that is still in the queue when the interval ends counts as late; a
write to an adapter succeeds.  `Configuration`: there is
no loss of a file already renamed (the code does not sync), and looking for a file
and reading it are one step.

## 7. Plan

To prove next: what a `spoilt` connection still keeps (that whatever it holds is of
some export of its own); an abstract specification of delivery that
`Forwarding` implements, each copy's way to its network in one step; and the bound
that open peering keeps in `Peers` (`MaxOpenPeers`), stated first as an invariant.

To model next: both connections of a pair of routers in one composition of
`AurpConnection`, and a TashTalk decoder on lost bytes.
