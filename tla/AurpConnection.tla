--------------------------- MODULE AurpConnection ---------------------------
(***************************************************************************)
(* One one-way AURP connection (src/router/aurp.rs): the data receiver     *)
(* half of the router that opened it and the data sender half of the       *)
(* router it was opened to, with the datagrams in flight between them.     *)
(* The receiver learns the sender's routes; the sender exports them once   *)
(* and then sends the changes, one sequenced packet outstanding at a time. *)
(*                                                                         *)
(* A Peer of the code holds one half of two such connections, one each     *)
(* way.  What the other connection does to this one is an action here that *)
(* may happen at any time: its Open-Req makes us open this one (Open), its *)
(* RD takes our sender half down (SenderRestarts), its death makes the     *)
(* sender probe this one (ProbeThisWay).                                   *)
(*                                                                         *)
(* Time is abstracted: a timer may fire whenever it is set.  With Prompt   *)
(* the retransmission timers wait until their packet and its answer have   *)
(* been handled or lost, which is what 10 s are for.  Zones are not here:  *)
(* the SZI flag of an RI-Ack and the ZI exchange carry no route.           *)
(***************************************************************************)
EXTENDS Integers, Sequences, FiniteSets

CONSTANTS
    Net,          \* the networks behind the sender (range starts)
    HomeRoutes,   \* best routes the sender may have for a network
    FirstHome,    \* its best routes when it starts
    PageSize,     \* tuples that fit one RI-Rsp (MAX_BODY)
    MaxNumber,    \* 65535: the largest sequence number and connection ID
    Retries,      \* RETRIES
    TickleRetries,\* TICKLE_RETRIES
    OpenForms,    \* {TRUE}: our Open-Reqs; FALSE stands for a refused one
    Prompt,       \* a packet is answered or lost before its timer fires
    MaxFlight,    \* bound on datagrams in flight one way
    Budget        \* bounds on the events listed in its domain

Absent == 16
Dists == 0..15
Routes == [via : {"None", "Port", "Peer"}, dist : Dists, zoned : BOOLEAN]

ASSUME NetsAssumption == Net \subseteq Nat /\ IsFiniteSet(Net)
ASSUME HomeAssumption == HomeRoutes \subseteq Routes /\ FirstHome \in [Net -> HomeRoutes]
ASSUME NumbersAssumption ==
    /\ PageSize \in Nat \ {0}
    /\ MaxNumber \in Nat \ 0..3
    /\ Retries \in Nat \ {0}
    /\ TickleRetries \in Nat \ {0}
    /\ MaxFlight \in Nat \ {0}
ASSUME FlagsAssumption ==
    /\ OpenForms \subseteq BOOLEAN /\ Prompt \in BOOLEAN
ASSUME BudgetAssumption ==
    \E D \in SUBSET {"Open", "Change", "Lose", "Restart", "Ping", "Probe"} : Budget \in [D -> Nat]

VARIABLES
    \* the data receiver (Peer, on the router that opened the connection)
    receiver, conn_local, seq_recv, recv_tries,
    routes,        \* its table's routes via this peer: stored distance or Absent
    applied,       \* history: the last sequenced packet it processed as new
    \* the data sender (Peer, on the router it was opened to)
    sender, conn_remote, seq_send, outstanding, tries, pages, pending, probing,
    home,          \* its table's best route of each network
    \* datagrams in flight
    toSender, toReceiver,
    \* history: connections whose export an update, a probe or another RI-Req
    \* overtook, and networks whose route in this one nothing vouches for
    spoilt, ghosts,
    \* what is left of each bounded kind of event
    budget

receiverVars == <<receiver, conn_local, seq_recv, recv_tries, routes, applied>>
senderVars == <<sender, conn_remote, seq_send, outstanding, tries, pages, pending, probing>>
history == <<spoilt, ghosts>>
vars == <<receiverVars, senderVars, home, toSender, toReceiver, history, budget>>

Numbers == 1..MaxNumber
succ(n) == (n % MaxNumber) + 1
pred(n) == IF n <= 1 THEN MaxNumber ELSE n - 1

Spend(k) == IF k \in DOMAIN budget
            THEN budget[k] > 0 /\ budget' = [budget EXCEPT ![k] = @ - 1]
            ELSE budget' = budget
-----------------------------------------------------------------------------
(* Packets.  Tuples are distances by network, events one per network; the   *)
(* order inside a packet is abstracted, as no two name the same network.    *)
Tuples == [Net -> Dists \cup {Absent}]
NoTuples == [n \in Net |-> Absent]
Event(c, d) == [code |-> c, dist |-> d]
NoEvent == Event("None", 0)
Events == [Net -> [code : {"None", "NA", "ND", "NRC", "NDC"}, dist : Dists]]
NoEvents == [n \in Net |-> NoEvent]

OpenReq(c, plain) == [kind |-> "OpenReq", conn |-> c, plain |-> plain]
OpenRsp(c, ok) == [kind |-> "OpenRsp", conn |-> c, ok |-> ok]
Transaction(k, c) == [kind |-> k, conn |-> c]
RiAck(c, s) == [kind |-> "RiAck", conn |-> c, seq |-> s]
RiRsp(c, s, last, t) == [kind |-> "RiRsp", conn |-> c, seq |-> s, last |-> last, tuples |-> t]
RiUpd(c, s, e) == [kind |-> "RiUpd", conn |-> c, seq |-> s, events |-> e]
Rd(c, s) == [kind |-> "Rd", conn |-> c, seq |-> s]
None == [kind |-> "None", conn |-> 0]

Conns == 0..MaxNumber
Sequenced == [kind : {"RiRsp"}, conn : Conns, seq : Numbers, last : BOOLEAN, tuples : Tuples]
             \cup [kind : {"RiUpd"}, conn : Conns, seq : Numbers, events : Events]
             \cup [kind : {"Rd"}, conn : Conns, seq : Numbers]
ReceiverPackets == Sequenced \cup [kind : {"OpenRsp"}, conn : Conns, ok : BOOLEAN]
                   \cup [kind : {"TickleAck"}, conn : Conns]
SenderPackets == [kind : {"OpenReq"}, conn : Conns, plain : BOOLEAN]
                 \cup [kind : {"RiReq", "Tickle"}, conn : Conns]
                 \cup [kind : {"RiAck"}, conn : Conns, seq : Numbers]

\* What has to be over before a retransmission timer can fire, if Prompt.
Settled(asks, answers) ==
    IF Prompt
    THEN /\ \A i \in DOMAIN toSender : toSender[i].kind \notin asks
         /\ \A i \in DOMAIN toReceiver : toReceiver[i].kind \notin answers
    ELSE Len(toSender) < MaxFlight /\ Len(toReceiver) < MaxFlight
-----------------------------------------------------------------------------
(* The sender's export and its changes.                                     *)
Local(r) == r.via = "Port" /\ r.dist < 15
Exported(r) == Local(r) /\ r.zoned
Export == [n \in Net |-> IF Exported(home[n]) THEN home[n].dist ELSE Absent]

\* RI-Rsp pages, at least one.
Page(t, p) == [n \in Net |->
    IF t[n] # Absent /\ Cardinality({m \in Net : m < n /\ t[m] # Absent}) \div PageSize = p
    THEN t[n] ELSE Absent]
split_tuples(t) ==
    LET count == Cardinality({n \in Net : t[n] # Absent})
        last == IF count = 0 THEN 0 ELSE (count - 1) \div PageSize
    IN  [i \in 1..last + 1 |-> Page(t, i - 1)]

\* A best route moves from old to new; completed zones report no old route.
route_changed(old, new) ==
    LET was == Local(old) /\ ~(new.zoned /\ ~old.zoned)
        is == Exported(new)
    IN  CASE ~was /\ ~is -> NoEvent
          [] ~was /\ is -> Event("NA", new.dist)
          [] was /\ ~is -> Event(IF new.via = "Peer" THEN "NRC" ELSE "ND", 0)
          [] was /\ is -> IF old.dist = new.dist THEN NoEvent ELSE Event("NDC", new.dist)

\* Mutant: deleted and added back is nothing to tell.
queue_BackIsNothing(p, e) ==
    CASE e = NoEvent -> p
      [] p.code = "NA" /\ e.code \in {"ND", "NRC"} -> NoEvent
      [] p.code = "NA" /\ e.code = "NDC" -> Event("NA", e.dist)
      [] p.code \in {"ND", "NRC"} /\ e.code = "NA" -> NoEvent
      [] OTHER -> e
queue(p, e) ==
    CASE e = NoEvent -> p
      [] p.code = "NA" /\ e.code \in {"ND", "NRC"} -> NoEvent
      [] p.code = "NA" /\ e.code = "NDC" -> Event("NA", e.dist)
      [] p.code \in {"ND", "NRC"} /\ e.code = "NA" -> Event("NDC", e.dist)
      [] OTHER -> e

\* What an event does to the receiver's route; distances count the tunnel hop.
apply(d, e) ==
    CASE e.code \in {"NA", "NDC"} /\ e.dist < 15 -> e.dist + 1
      [] e.code \in {"ND", "NRC"} -> Absent
      [] e.code = "NDC" /\ e.dist = 15 -> Absent
      [] OTHER -> d
learned(d, t) == IF t < 15 THEN t + 1 ELSE d
-----------------------------------------------------------------------------
Init ==
    /\ receiver = "Unconnected" /\ conn_local = 1 /\ seq_recv = 1 /\ recv_tries = 0
    /\ routes = NoTuples /\ applied = None
    /\ sender = "Unconnected" /\ conn_remote = 0 /\ seq_send = 0
    /\ outstanding = None /\ tries = 0 /\ pages = <<>>
    /\ pending = NoEvents /\ probing = FALSE
    /\ home = FirstHome
    /\ toSender = <<>> /\ toReceiver = <<>>
    /\ spoilt = {} /\ ghosts = {}
    /\ budget = Budget
-----------------------------------------------------------------------------
(* The data receiver.                                                       *)
ReceiverOpen == receiver \notin {"Unconnected", "WaitOpenRsp"}

Ask(m) == toSender' = Append(toSender, m)
Hears(k) == toReceiver # <<>> /\ Head(toReceiver).kind = k /\ Head(toReceiver).conn = conn_local
Heard == toReceiver' = Tail(toReceiver)

\* Mutant: the next Open-Req carries the ID of the last connection.
close_receiver_SameConn ==
    /\ receiver' = "Unconnected"
    /\ conn_local' = conn_local
    /\ seq_recv' = 1
    /\ recv_tries' = 0
close_receiver ==
    /\ receiver' = "Unconnected"
    /\ conn_local' = succ(conn_local)
    /\ seq_recv' = 1
    /\ recv_tries' = 0

\* The reconnect scan, or an Open-Req of the peer on the other connection.
\* Routes left by a connection given up may be of networks long gone.
Open == \E plain \in OpenForms :
    /\ receiver = "Unconnected"
    /\ Spend("Open")
    /\ receiver' = "WaitOpenRsp" /\ seq_recv' = 1 /\ recv_tries' = 1
    /\ Ask(OpenReq(conn_local, plain))
    /\ spoilt' = spoilt \ {conn_local}
    /\ ghosts' = {n \in Net : routes[n] # Absent}
    /\ UNCHANGED <<conn_local, routes, applied, senderVars, home, toReceiver>>

OpenRspArrives ==
    /\ Hears("OpenRsp") /\ receiver = "WaitOpenRsp" /\ Heard
    /\ \/ /\ Head(toReceiver).ok
          /\ receiver' = "WaitRiRsp" /\ seq_recv' = 1 /\ recv_tries' = 1
          /\ Ask(Transaction("RiReq", conn_local))
          /\ UNCHANGED conn_local
       \/ /\ ~Head(toReceiver).ok
          /\ close_receiver
          /\ UNCHANGED toSender
    /\ UNCHANGED <<routes, applied, senderVars, home, history, budget>>

\* The sequence check of a sequenced packet m: New does what the packet says.
check_seq(m, new, state) ==
    LET n == m.seq
        isNew == n = seq_recv
        isDup == ~isNew /\ n = pred(seq_recv)
        isAhead == ~isNew /\ ~isDup /\ n = succ(seq_recv)
    IN  \/ /\ isNew
           /\ routes' = new /\ receiver' = state /\ applied' = m
           /\ seq_recv' = succ(n)
           /\ Ask(RiAck(conn_local, n))
           /\ UNCHANGED <<conn_local, recv_tries>>
        \/ /\ isDup
           /\ Ask(RiAck(conn_local, n))
           /\ UNCHANGED receiverVars
        \/ /\ isAhead
           /\ close_receiver
           /\ UNCHANGED <<routes, applied, toSender>>
        \/ /\ ~isNew /\ ~isDup /\ ~isAhead
           /\ UNCHANGED <<receiverVars, toSender>>

RiRspArrives ==
    /\ Hears("RiRsp") /\ ReceiverOpen /\ Heard
    /\ LET m == Head(toReceiver)
       IN  check_seq(m, [n \in Net |-> learned(routes[n], m.tuples[n])],
                     IF m.last THEN "Connected" ELSE receiver)
    /\ UNCHANGED <<senderVars, home, history, budget>>

RiUpdArrives ==
    /\ Hears("RiUpd") /\ ReceiverOpen /\ Heard
    /\ LET m == Head(toReceiver)
       IN  check_seq(m, [n \in Net |-> apply(routes[n], m.events[n])], receiver)
    /\ UNCHANGED <<senderVars, home, history, budget>>

RdArrives ==
    /\ Hears("Rd") /\ ReceiverOpen /\ Heard
    /\ Ask(RiAck(conn_local, Head(toReceiver).seq))
    /\ routes' = NoTuples
    /\ close_receiver
    /\ UNCHANGED <<applied, senderVars, home, history, budget>>

TickleAckArrives ==
    /\ Hears("TickleAck") /\ receiver = "WaitTickleAck" /\ Heard
    /\ receiver' = "Connected" /\ recv_tries' = 0
    /\ UNCHANGED <<conn_local, seq_recv, routes, applied, senderVars, home, toSender, history, budget>>

ReceiverDiscards ==
    /\ toReceiver # <<>>
    /\ LET m == Head(toReceiver)
       IN  ~ /\ m.conn = conn_local
             /\ CASE m.kind = "OpenRsp" -> receiver = "WaitOpenRsp"
                  [] m.kind = "TickleAck" -> receiver = "WaitTickleAck"
                  [] OTHER -> ReceiverOpen
    /\ Heard
    /\ UNCHANGED <<receiverVars, senderVars, home, toSender, history, budget>>

\* No Open-Rsp, or no (last) RI-Rsp.  Giving up leaves the routes alone.
OpeningTimeout ==
    /\ \/ receiver = "WaitOpenRsp" /\ Settled({"OpenReq"}, {"OpenRsp"})
       \/ receiver = "WaitRiRsp" /\ Settled({"RiReq", "RiAck"}, {"RiRsp"})
    /\ \/ /\ recv_tries >= Retries
          /\ close_receiver
          /\ UNCHANGED toSender
       \/ /\ recv_tries < Retries
          /\ recv_tries' = recv_tries + 1
          /\ Ask(IF receiver = "WaitOpenRsp" THEN OpenReq(conn_local, TRUE)
                                             ELSE Transaction("RiReq", conn_local))
          /\ UNCHANGED <<receiver, conn_local, seq_recv>>
    /\ UNCHANGED <<routes, applied, senderVars, home, toReceiver, history, budget>>

\* 90 s without a packet from the sender.
GoneQuiet ==
    /\ receiver = "Connected"
    /\ Len(toSender) < MaxFlight
    /\ receiver' = "WaitTickleAck" /\ recv_tries' = 1
    /\ Ask(Transaction("Tickle", conn_local))
    /\ UNCHANGED <<conn_local, seq_recv, routes, applied, senderVars, home, toReceiver, history, budget>>

\* Mutant: the tickles go on for ever.
TickleTimeout_Forever ==
    /\ receiver = "WaitTickleAck"
    /\ Settled({"Tickle"}, {"TickleAck"})
    /\ Ask(Transaction("Tickle", conn_local))
    /\ UNCHANGED <<receiverVars, senderVars, home, toReceiver, history, budget>>

TickleTimeout ==
    /\ receiver = "WaitTickleAck"
    /\ Settled({"Tickle"}, {"TickleAck"})
    /\ \/ /\ recv_tries >= TickleRetries
          /\ routes' = NoTuples
          /\ close_receiver
          /\ UNCHANGED toSender
       \/ /\ recv_tries < TickleRetries
          /\ recv_tries' = recv_tries + 1
          /\ Ask(Transaction("Tickle", conn_local))
          /\ UNCHANGED <<receiver, conn_local, seq_recv, routes>>
    /\ UNCHANGED <<applied, senderVars, home, toReceiver, history, budget>>

\* The operator's ping: one more Tickle, the retry count left alone.
ping ==
    /\ Spend("Ping")
    /\ \/ receiver = "Connected" /\ receiver' = "WaitTickleAck" /\ recv_tries' = 1
       \/ receiver = "WaitTickleAck" /\ UNCHANGED <<receiver, recv_tries>>
    /\ Ask(Transaction("Tickle", conn_local))
    /\ UNCHANGED <<conn_local, seq_recv, routes, applied, senderVars, home, toReceiver, history>>

\* The receiving router starts again: nothing is persisted, and the clock
\* gives it a connection ID it has not used (seed_conn).
ReceiverRestarts ==
    /\ Spend("Restart")
    /\ close_receiver
    /\ routes' = NoTuples
    /\ UNCHANGED <<applied, senderVars, home, toSender, toReceiver, history>>
-----------------------------------------------------------------------------
(* The data sender.                                                         *)
Answer(m) == toReceiver' = Append(toReceiver, m)
Asked(k) == toSender # <<>> /\ Head(toSender).kind = k
Taken == toSender' = Tail(toSender)

\* Record a sequenced packet as the one outstanding and send it.
send_sequenced(m) ==
    /\ seq_send' = m.seq
    /\ outstanding' = m /\ tries' = 1
    /\ Answer(m)

\* Mutant: closing forgets to clear what was outstanding.
close_sender_KeepsOutstanding ==
    /\ sender' = "Unconnected" /\ conn_remote' = 0 /\ seq_send' = 0
    /\ UNCHANGED <<outstanding, tries>>
    /\ pages' = <<>> /\ pending' = NoEvents /\ probing' = FALSE
close_sender ==
    /\ sender' = "Unconnected" /\ conn_remote' = 0 /\ seq_send' = 0
    /\ outstanding' = None /\ tries' = 0
    /\ pages' = <<>> /\ pending' = NoEvents /\ probing' = FALSE

\* Send the first of the pages left, Last set on the final one.
send_page(left, seq) ==
    /\ send_sequenced(RiRsp(conn_remote, seq, Len(left) = 1, Head(left)))
    /\ pages' = Tail(left)
    /\ sender' = "WaitRiRspAck"

open_req == LET m == Head(toSender) IN
    /\ Asked("OpenReq") /\ Taken
    /\ \/ /\ ~m.plain
          /\ Answer(OpenRsp(m.conn, FALSE))
          /\ UNCHANGED senderVars
       \/ /\ m.plain /\ sender # "Unconnected" /\ m.conn # conn_remote
          /\ ~probing /\ outstanding = None
          /\ probing' = TRUE
          /\ send_sequenced(RiUpd(conn_remote, succ(seq_send), NoEvents))
          /\ sender' = "WaitRiUpdAck"
          /\ UNCHANGED <<conn_remote, pages, pending>>
       \/ /\ m.plain /\ sender # "Unconnected" /\ m.conn # conn_remote
          /\ probing \/ outstanding # None
          /\ UNCHANGED <<senderVars, toReceiver>>
       \/ /\ m.plain /\ (sender = "Unconnected" \/ m.conn = conn_remote)
          /\ conn_remote' = m.conn /\ seq_send' = 0
          /\ outstanding' = None /\ tries' = 0 /\ pages' = <<>>
          /\ sender' = "Connected"
          /\ Answer(OpenRsp(m.conn, TRUE))
          /\ UNCHANGED <<pending, probing>>
    /\ UNCHANGED <<receiverVars, home, history, budget>>

\* The RI-Req of a connection, or one that is late: harmless only while it asks
\* for what is on its way already.  An addition that is pending is exported,
\* and may yet be cancelled before it is sent.
RiReqArrives ==
    /\ Asked("RiReq") /\ Head(toSender).conn = conn_remote /\ Taken
    /\ sender \in {"Connected", "WaitRiRspAck", "WaitRiUpdAck"}
    /\ send_page(split_tuples(Export), 1)
    /\ spoilt' = IF seq_send = 0 \/ (outstanding' = outstanding /\ pages' = pages)
                 THEN spoilt ELSE spoilt \cup {conn_remote}
    /\ ghosts' = IF seq_send = 0 /\ conn_remote = conn_local
                 THEN {n \in ghosts : Export[n] = Absent} \cup {n \in Net : pending[n].code = "NA"}
                 ELSE ghosts
    /\ UNCHANGED <<conn_remote, pending, probing, receiverVars, home, budget>>

\* Mutant: an ack counts whatever its number.
Acked_AnyNumber == /\ Asked("RiAck") /\ Head(toSender).conn = conn_remote
                   /\ outstanding # None
Acked == /\ Asked("RiAck") /\ Head(toSender).conn = conn_remote
         /\ outstanding # None /\ Head(toSender).seq = outstanding.seq

ri_ack ==
    /\ Acked /\ Taken
    /\ \/ /\ sender = "WaitRiRspAck" /\ pages # <<>>
          /\ send_page(pages, succ(seq_send))
          /\ UNCHANGED <<conn_remote, pending, probing>>
       \/ /\ sender = "WaitRiUpdAck" \/ (sender = "WaitRiRspAck" /\ pages = <<>>)
          /\ sender' = "Connected" /\ probing' = FALSE
          /\ outstanding' = None /\ tries' = 0
          /\ UNCHANGED <<conn_remote, seq_send, pages, pending, toReceiver>>
       \/ /\ sender = "WaitRdAck"
          /\ close_sender
          /\ UNCHANGED toReceiver
    /\ UNCHANGED <<receiverVars, home, history, budget>>

TickleArrives ==
    /\ Asked("Tickle") /\ Head(toSender).conn = conn_remote /\ Taken
    /\ sender # "Unconnected"
    /\ Answer(Transaction("TickleAck", conn_remote))
    /\ UNCHANGED <<receiverVars, senderVars, home, history, budget>>

SenderDiscards ==
    /\ toSender # <<>>
    /\ LET m == Head(toSender)
       IN  /\ m.kind # "OpenReq"
           /\ ~ /\ m.conn = conn_remote
                /\ CASE m.kind = "RiReq" -> sender \in {"Connected", "WaitRiRspAck", "WaitRiUpdAck"}
                     [] m.kind = "Tickle" -> sender # "Unconnected"
                     [] OTHER -> Acked
    /\ Taken
    /\ UNCHANGED <<receiverVars, senderVars, home, toReceiver, history, budget>>

\* No ack of the outstanding packet: repeat it as it was, or give up.
SenderTimeout ==
    /\ outstanding # None
    /\ Settled({"RiAck"}, {outstanding.kind})
    /\ \/ /\ tries >= Retries
          /\ close_sender
          /\ UNCHANGED toReceiver
       \/ /\ tries < Retries
          /\ tries' = tries + 1
          /\ Answer(outstanding)
          /\ UNCHANGED <<sender, conn_remote, seq_send, outstanding, pages, pending, probing>>
    /\ UNCHANGED <<receiverVars, home, toSender, history, budget>>

\* An update before the RI-Req takes the number of the export's first page.
Overtaken == IF seq_send = 0 THEN spoilt \cup {conn_remote} ELSE spoilt

\* Mutant: the update repeats the last number.
SendUpdate_SameNumber ==
    /\ outstanding = None /\ sender = "Connected" /\ pending # NoEvents
    /\ send_sequenced(RiUpd(conn_remote, seq_send, pending))
    /\ pending' = NoEvents
    /\ sender' = "WaitRiUpdAck"
    /\ spoilt' = Overtaken
    /\ ghosts' = IF conn_remote = conn_local THEN {n \in ghosts : pending[n].code = "None"} ELSE ghosts
    /\ UNCHANGED <<conn_remote, pages, probing, receiverVars, home, toSender, budget>>

\* At least an update interval since the last update.
SendUpdate ==
    /\ outstanding = None /\ sender = "Connected" /\ pending # NoEvents
    /\ send_sequenced(RiUpd(conn_remote, succ(seq_send), pending))
    /\ pending' = NoEvents
    /\ sender' = "WaitRiUpdAck"
    /\ spoilt' = Overtaken
    /\ ghosts' = IF conn_remote = conn_local THEN {n \in ghosts : pending[n].code = "None"} ELSE ghosts
    /\ UNCHANGED <<conn_remote, pages, probing, receiverVars, home, toSender, budget>>

\* The table reports one change of the best route of n, or n's zone list is
\* complete: a route loses its zones when the range is gone, and gains them
\* by a reply while the route stays.
HomeChanges == \E n \in Net, new \in HomeRoutes :
    /\ LET old == home[n]
       IN  \/ /\ <<old.via, old.dist>> # <<new.via, new.dist>>
              /\ new.zoned = (old.zoned /\ new.via # "None")
           \/ /\ new = [old EXCEPT !.zoned = TRUE]
              /\ old.via # "None" /\ ~old.zoned
    /\ Spend("Change")
    /\ home' = [home EXCEPT ![n] = new]
    /\ pending' = IF sender = "Unconnected" THEN pending
                  ELSE [pending EXCEPT ![n] = queue(@, route_changed(home[n], new))]
    /\ UNCHANGED <<sender, conn_remote, seq_send, outstanding, tries, pages, probing,
                   receiverVars, toSender, toReceiver, history>>

\* The tickles of the other connection went unanswered.
ProbeThisWay ==
    /\ sender = "Connected"
    /\ Spend("Probe")
    /\ send_sequenced(RiUpd(conn_remote, succ(seq_send), NoEvents))
    /\ sender' = "WaitRiUpdAck"
    /\ spoilt' = Overtaken
    /\ UNCHANGED <<conn_remote, pages, pending, probing, receiverVars, home, toSender, ghosts>>

shutdown ==
    /\ sender \notin {"Unconnected", "WaitRdAck"}
    /\ Spend("Restart")
    /\ send_sequenced(Rd(conn_remote, succ(seq_send)))
    /\ pages' = <<>>
    /\ sender' = "WaitRdAck"
    /\ UNCHANGED <<conn_remote, pending, probing, receiverVars, home, toSender, history>>

\* The sending router starts again and learns its own routes back; or an RD
\* arrived on the other connection, which takes this half down as well.
SenderRestarts ==
    /\ Spend("Restart")
    /\ close_sender
    /\ UNCHANGED <<receiverVars, home, toSender, toReceiver, history>>
-----------------------------------------------------------------------------
(* The network loses datagrams and keeps the order of the rest.             *)
LoseToSender ==
    /\ toSender # <<>> /\ Spend("Lose")
    /\ toSender' = Tail(toSender)
    /\ UNCHANGED <<receiverVars, senderVars, home, toReceiver, history>>

LoseToReceiver ==
    /\ toReceiver # <<>> /\ Spend("Lose")
    /\ toReceiver' = Tail(toReceiver)
    /\ UNCHANGED <<receiverVars, senderVars, home, toSender, history>>

ReceiverTakes ==
    OpenRspArrives \/ RiRspArrives \/ RiUpdArrives \/ RdArrives \/ TickleAckArrives
    \/ ReceiverDiscards
SenderTakes ==
    open_req \/ RiReqArrives \/ ri_ack \/ TickleArrives \/ SenderDiscards

Next ==
    \/ Open \/ OpeningTimeout \/ GoneQuiet \/ TickleTimeout \/ ping
    \/ ReceiverTakes \/ ReceiverRestarts
    \/ SenderTakes \/ SenderTimeout \/ SendUpdate \/ HomeChanges
    \/ ProbeThisWay \/ shutdown \/ SenderRestarts
    \/ LoseToSender \/ LoseToReceiver

Spec == Init /\ [][Next]_vars
-----------------------------------------------------------------------------
(* Properties.                                                              *)

\* The state machines' variables keep their types, and what is in flight is
\* what the packet formats carry: no event or tuple a peer could not parse.
TypeOK ==
    /\ receiver \in {"Unconnected", "WaitOpenRsp", "WaitRiRsp", "Connected", "WaitTickleAck"}
    /\ conn_local \in Numbers /\ seq_recv \in Numbers /\ recv_tries \in Nat
    /\ routes \in [Net -> 1..15 \cup {Absent}]
    /\ sender \in {"Unconnected", "Connected", "WaitRiRspAck", "WaitRiUpdAck", "WaitRdAck"}
    /\ conn_remote \in Conns /\ seq_send \in Conns
    /\ outstanding \in Sequenced \cup {None} /\ tries \in Nat
    /\ pages \in Seq(Tuples) /\ pending \in Events /\ probing \in BOOLEAN
    /\ home \in [Net -> HomeRoutes]
    /\ toSender \in Seq(SenderPackets) /\ toReceiver \in Seq(ReceiverPackets)
    /\ spoilt \subseteq Conns /\ ghosts \subseteq Net

\* Stop and wait (docs/AURP.md, "One-way connections"): a sender waits for an
\* ack exactly when a packet of its own connection is outstanding, of the kind
\* its state names and under its last number; pages are left only while the
\* export goes on, and a closed sender keeps nothing of its connection.  A
\* state that waits with nothing outstanding would never be retransmitted.
StopAndWait ==
    /\ (outstanding = None) = (sender \in {"Unconnected", "Connected"})
    /\ outstanding # None =>
         /\ outstanding.conn = conn_remote /\ outstanding.seq = seq_send
         /\ outstanding.kind = CASE sender = "WaitRiRspAck" -> "RiRsp"
                                 [] sender = "WaitRiUpdAck" -> "RiUpd"
                                 [] OTHER -> "Rd"
    /\ pages # <<>> => sender = "WaitRiRspAck"
    /\ sender = "Unconnected" =>
         conn_remote = 0 /\ seq_send = 0 /\ pending = NoEvents /\ ~probing

\* A receiver opens only with an ID that neither its sender nor any datagram
\* in flight still uses, or the Open-Req is taken for a retransmission of an
\* old one (close_receiver; docs/AURP.md, "Connection IDs").
Fresh(c) ==
    /\ c # conn_remote
    /\ \A i \in DOMAIN toSender : toSender[i].conn # c
    /\ \A i \in DOMAIN toReceiver : toReceiver[i].conn # c
OpensAfresh == [][receiver = "Unconnected" /\ receiver' = "WaitOpenRsp" => Fresh(conn_local')]_vars

Linked == ReceiverOpen /\ sender # "Unconnected" /\ conn_local = conn_remote

\* The changes the receiver has yet to process: the outstanding update, unless
\* it has and only the ack is missing, and then what is pending.
Coming(n, d) ==
    IF outstanding.kind = "RiUpd" /\ outstanding.seq = seq_recv
    THEN apply(d, outstanding.events[n]) ELSE d
Stored(n) == IF Export[n] = Absent THEN Absent ELSE Export[n] + 1

\* No change is ever lost between the two: once the export is through, what
\* the receiver holds, with what is outstanding and pending applied in order,
\* is what the sender would export now (queue's collapse, send_sequenced,
\* check_seq and apply together).  That of a network exported with its addition
\* still pending may be: until an update names it, its removal can cancel the
\* addition and leave the receiver a route nobody takes back.
NothingLost ==
    Linked /\ conn_local \notin spoilt /\ receiver # "WaitRiRsp" /\ sender # "WaitRdAck" =>
        \A n \in Net \ ghosts : apply(Coming(n, routes[n]), pending[n]) = Stored(n)

\* Every page and update is processed once, while it is the one the sender is
\* trying to get through, and the sender goes on only then: whatever is lost,
\* repeated or acknowledged twice, and wherever a connection ends
\* (docs/AURP.md, "Sequence numbers"; check_seq, send_sequenced and ri_ack
\* together).  An RD is not such a packet: it ends the connection.  So does
\* whatever makes the sender use a number twice, an update before its RI-Req
\* or an RI-Req when the export has moved on: from there on nothing is promised.
served == IF sender \in {"Unconnected", "WaitRdAck"} \/ conn_remote \in spoilt THEN 0 ELSE conn_remote
Transferred == INSTANCE Transfer WITH
    None    <- None,
    conn    <- served,
    held    <- IF receiver = "Unconnected" THEN 0 ELSE conn_local,
    offered <- IF served = 0 THEN None ELSE outstanding,
    taken   <- applied
ImplementsTransfer == Transferred!Spec

\* The export page or update outstanding is one the receiver processes or
\* re-acks when it hears it: the two ends do not get out of step unless the
\* sender begins its numbers again.  (An RD is obeyed whatever its number.)
InStep == Linked /\ conn_local \notin spoilt /\ outstanding.kind \in {"RiRsp", "RiUpd"} =>
    outstanding.seq \in {seq_recv, pred(seq_recv)}

\* Routes that stop changing over a network that stops losing are in the end
\* known to the receiver, for good, as long as both loops tick; those of the
\* two histories may be wrong for as long as the connection lasts.
Agreed == Linked /\ (conn_local \in spoilt \/ \A n \in Net \ ghosts : routes[n] = Stored(n))
\* What the loops do when they tick: the reconnect scan, the retransmissions,
\* the tickles and the updates.  No loop owes it (EventLoop).
TimersRun ==
    /\ WF_vars(Open) /\ WF_vars(OpeningTimeout) /\ WF_vars(GoneQuiet) /\ WF_vars(TickleTimeout)
    /\ WF_vars(SenderTimeout) /\ WF_vars(SendUpdate)
Converges == TimersRun => <>[]Agreed

\* The run loops read whatever arrives.
Fairness == WF_vars(ReceiverTakes) /\ WF_vars(SenderTakes)
LiveSpec == Spec /\ Fairness
=============================================================================
