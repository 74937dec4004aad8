------------------------------ MODULE Requests ------------------------------
(***************************************************************************)
(* A stand-alone node asking questions (run_node of main.rs, the requests  *)
(* of node.rs) and the services that answer it (router/local.rs): which    *)
(* network is this, who has a name, are you there, which zones are there.  *)
(*                                                                         *)
(* The node has claimed its address (AddressClaim) and runs one command.   *)
(* A request is sent, waited for, and sent again; requests and answers are *)
(* lost or late, and what other nodes ask and are answered is on the wire  *)
(* as well.  The router's tables are settled.                              *)
(***************************************************************************)
EXTENDS Naturals, Sequences, FiniteSets, SequencesExt

CONSTANTS
    Router, Cable,  \* the internet: its routers, its cables
    PortsOf,        \* the cables of each router
    CableZones,     \* the zones of each cable, its default zone first
    OurCable,       \* the cable the node is on
    OurRouter,      \* its router; the others are behind its tunnels
    Entity,         \* named entities
    At, InZone,     \* the cable and the zone each has registered in
    Commands,       \* what the user may ask, with the zone named if any
    Starts,         \* the cables, in the order our router learned of them
    PageNames,      \* names that fit one ATP response (ATP_MAX)
    Tries,          \* NETINFO_TRIES, LOOKUP_TRIES and ZONE_TRIES
    MaxPages,       \* MAX_ZONE_PAGES
    Probes,         \* count of a ping
    MaxMessages,    \* MAX_MESSAGES
    MaxForeign,     \* bound on the answers to others that are overheard
    None

Zones == UNION {ToSet(CableZones[c]) : c \in Cable}
Star == "*"
Blank == ""
ASSUME InternetAssumption ==
    /\ PortsOf \in [Router -> SUBSET Cable] /\ UNION {PortsOf[r] : r \in Router} = Cable
    /\ OurRouter \in Router /\ OurCable \in PortsOf[OurRouter]
    /\ DOMAIN CableZones = Cable /\ \A c \in Cable : CableZones[c] \in Seq(Zones) \ {<<>>}
    /\ Starts \in Seq(Cable) /\ ToSet(Starts) = Cable
    /\ At \in [Entity -> Cable] /\ Router \cap Entity = {}
    /\ \A e \in Entity : InZone[e] \in ToSet(CableZones[At[e]])
ASSUME RequestsAssumption ==
    /\ {PageNames, MaxPages, MaxMessages, Probes} \subseteq Nat \ {0} /\ MaxForeign \in Nat
    /\ Tries \in [{"NetInfo", "Lookup", "Zones"} -> Nat \ {0}]
    /\ None \notin Zones /\ Blank \notin Zones
    /\ Commands \subseteq [what : {"Nodes", "Ping", "PingName", "Zones"}, zone : Zones \cup {None}]

VARIABLES
    command,   \* what the user asked for
    phase,     \* "NetInfo", "Lookup", "Ping", "Pace", "Zones" or "Done"
    tries,     \* requests sent of those this wait may send
    id,        \* next_id: the last lookup or transaction number given out
    zone, router, \* what the node learned; None if no router answered
    found,     \* the lookup's answers
    seq, answered, \* the ping's probe and the probes it counts as answered
    start, zones, \* the page of the zone list asked for, the names so far
    messages,  \* the ZIP replies the session completed, oldest first
    failed,    \* zone_list gave up: the router stopped answering
    wire,      \* packets on their way
    foreign,   \* answers to others put on the wire
    lost,      \* history: a packet was lost
    stray,     \* history: a ZIP reply was heard that answers no request of
               \* ours or one already answered
    echoed     \* history: the probes whose echo was heard

asked == <<phase, tries, id>>
learned == <<zone, router>>
pinged == <<seq, answered>>
list == <<start, zones, failed>>
history == <<lost, stray, echoed>>
vars == <<command, asked, learned, found, pinged, list, messages, wire, foreign, history>>
node == <<command, asked, learned, found, pinged, list, messages>>

Waits == {"NetInfo", "Lookup", "Ping", "Pace", "Zones"}
-----------------------------------------------------------------------------
(* Packets.  The n of a zone list tells the retries of a request apart; no  *)
(* field of the packet does.                                                *)
GetNetInfo == [kind |-> "GetNetInfo", zone |-> Blank]
NetInfoReply(z, d, all) == [kind |-> "NetInfoReply", zone |-> z, default |-> d, all |-> all]
BrRq(i, z) == [kind |-> "BrRq", id |-> i, zone |-> z]
FwdReq(i, z, c) == [kind |-> "FwdReq", id |-> i, zone |-> z, cable |-> c]
LkUp(i, z, c) == [kind |-> "LkUp", id |-> i, zone |-> z, cable |-> c]
LkUpReply(i, e) == [kind |-> "LkUpReply", id |-> i, who |-> e]
EchoRequest(s) == [kind |-> "EchoRequest", seq |-> s]
EchoReply(s) == [kind |-> "EchoReply", seq |-> s]
GetZoneList(i, s, n) == [kind |-> "GetZoneList", id |-> i, start |-> s, n |-> n]
ZoneReply(i, names, last, n) ==
    [kind |-> "ZoneReply", id |-> i, names |-> names, last |-> last, n |-> n]

Requested == {"GetNetInfo", "BrRq", "FwdReq", "LkUp", "EchoRequest", "GetZoneList"}
Lookups == {"BrRq", "FwdReq", "LkUp", "LkUpReply"}
-----------------------------------------------------------------------------
(* The services.                                                            *)
has_zone(c, z) == z \in ToSet(CableZones[c])
default_zone(c) == CableZones[c][1]
nets_in_zone(z) == {c \in Cable : has_zone(c, z)}

net_info(p) ==
    LET valid == p.zone # Blank /\ has_zone(OurCable, p.zone)
    IN  {NetInfoReply(p.zone, IF valid THEN None ELSE default_zone(OurCable), FALSE)}

\* The router itself is found in the zones of the cable that asked.
reply(r, c, p) == IF p.zone = Star \/ has_zone(c, p.zone) THEN {LkUpReply(p.id, r)} ELSE {}

resolve(p, c) == IF p.zone \in {Star, Blank} THEN default_zone(c) ELSE p.zone
direct_port(c) == c \in PortsOf[OurRouter]

\* Mutant: a cable of ours other than the one that asked is left out.
brrq_OneCable(p) ==
    LET z == resolve(p, OurCable)
    IN  {LkUp(p.id, z, c) : c \in {OurCable} \cap nets_in_zone(z)}
        \cup {FwdReq(p.id, z, c) : c \in {d \in nets_in_zone(z) : ~direct_port(d)}}
        \cup reply(OurRouter, OurCable, p)
brrq(p) ==
    LET z == resolve(p, OurCable)
    IN  {LkUp(p.id, z, c) : c \in {d \in nets_in_zone(z) : direct_port(d)}}
        \cup {FwdReq(p.id, z, c) : c \in {d \in nets_in_zone(z) : ~direct_port(d)}}
        \cup reply(OurRouter, OurCable, p)

\* The first router of the cable puts the lookup on each of its own.
fwd_req(p) ==
    LET r == CHOOSE r \in Router : p.cable \in PortsOf[r]
    IN  {LkUp(p.id, p.zone, c) : c \in {d \in PortsOf[r] : has_zone(d, p.zone)}}
        \cup reply(r, p.cable, p)

\* The entities of a cable answer; a router on it that is not the one asking
\* would too.
Bound(p) == {LkUpReply(p.id, e) : e \in {f \in Entity : At[f] = p.cable /\ p.zone \in {Star, InZone[f]}}}

echo(p) == {EchoReply(p.seq)}

\* Behind the names at hand, those that are not among them.
WithNames(old, names) ==
    LET upto[n \in 0..Len(names)] ==
          IF n = 0 THEN old
          ELSE IF names[n] \in ToSet(upto[n - 1]) THEN upto[n - 1]
          ELSE Append(upto[n - 1], names[n])
    IN  upto[Len(names)]
all_zones ==
    LET upto[n \in 0..Len(Starts)] ==
          IF n = 0 THEN <<>> ELSE WithNames(upto[n - 1], CableZones[Starts[n]])
    IN  upto[Len(Starts)]
rest(s) == IF s = 0 THEN all_zones ELSE SubSeq(all_zones, s, Len(all_zones))
page(s) == IF Len(rest(s)) <= PageNames THEN rest(s) ELSE SubSeq(rest(s), 1, PageNames)
zone_list(p) == {ZoneReply(p.id, page(p.start), Len(rest(p.start)) <= PageNames, p.n)}

handle(p) ==
    CASE p.kind = "GetNetInfo" -> net_info(p)
      [] p.kind = "BrRq" -> brrq(p)
      [] p.kind = "FwdReq" -> fwd_req(p)
      [] p.kind = "LkUp" -> Bound(p)
      [] p.kind = "EchoRequest" -> echo(p)
      [] p.kind = "GetZoneList" -> zone_list(p)

Serve ==
    /\ \E p \in wire : p.kind \in Requested /\ wire' = (wire \ {p}) \cup handle(p)
    /\ UNCHANGED <<node, foreign, history>>

Lose ==
    /\ \E p \in wire : wire' = wire \ {p}
    /\ lost' = TRUE
    /\ UNCHANGED <<node, foreign, stray, echoed>>

\* What others are answered: a broadcast reply about another zone, a lookup
\* or a page of the zone list, under numbers of their own.
OtherInfos == {NetInfoReply(z, None, TRUE) : z \in Zones}
OtherNames == {LkUpReply(i, e) : i \in {2, 3}, e \in Entity}
OtherPages == {ZoneReply(i, page(s), Len(rest(s)) <= PageNames, 0) : i \in {2, 3}, s \in 1..Len(all_zones)}
Overheard == OtherInfos \cup OtherNames \cup OtherPages
Overhear ==
    /\ foreign < MaxForeign /\ foreign' = foreign + 1
    /\ phase \in Waits
    /\ \E p \in Overheard \ wire : wire' = wire \cup {p}
    /\ UNCHANGED <<node, history>>
-----------------------------------------------------------------------------
(* The node: what it sends.  w is the wire without what has just been read. *)
Init ==
    /\ command \in Commands
    /\ phase = "NetInfo" /\ tries = 1 /\ id = 1
    /\ zone = None /\ router = None
    /\ found = {} /\ seq = 0 /\ answered = {} /\ start = 1 /\ zones = <<>> /\ failed = FALSE
    /\ messages = <<>>
    /\ wire = {GetNetInfo} /\ foreign = 0
    /\ lost = FALSE /\ stray = FALSE /\ echoed = {}

Wait(p, w, packet) == phase' = p /\ tries' = 1 /\ wire' = w \cup {packet}
Stop(w) == phase' = "Done" /\ wire' = w /\ UNCHANGED <<tries, id>>

lookup_request(i, r, z) ==
    LET name == IF command.zone # None THEN command.zone ELSE IF z # None THEN z ELSE Star
    IN  IF r # None THEN BrRq(i, name) ELSE LkUp(i, name, OurCable)
next_id == id + 1
AskWho(w, r, z) == id' = next_id /\ Wait("Lookup", w, lookup_request(next_id, r, z))

Probe(w, s) ==
    /\ seq' = s
    /\ IF s < Probes THEN id' = id /\ Wait("Ping", w, EchoRequest(s)) ELSE Stop(w)

AskPage(w, s) ==
    IF id > MaxPages THEN Stop(w)
    ELSE id' = next_id /\ Wait("Zones", w, GetZoneList(next_id, s, 1))

\* The command, once the node knows what get_net_info found.
Begin(w, r, z) ==
    CASE command.what \in {"Nodes", "PingName"} -> AskWho(w, r, z) /\ UNCHANGED <<pinged, list>>
      [] command.what = "Ping" -> Probe(w, 0) /\ UNCHANGED <<answered, list>>
      [] command.what = "Zones" ->
            (IF r = None THEN Stop(w) ELSE AskPage(w, 1)) /\ UNCHANGED <<pinged, list>>
-----------------------------------------------------------------------------
(* What it hears while it waits.                                            *)
Append_capped(r) == IF Len(messages) < MaxMessages THEN Append(messages, r) ELSE Tail(Append(messages, r))
\* Mutant: a reply about another zone is taken.
netinfo_verdict_AnyZone(p) == p.kind = "NetInfoReply"
netinfo_verdict(p) == p.kind = "NetInfoReply" /\ p.zone = Blank
lookup_replies(p) == p.kind = "LkUpReply" /\ p.id = id
echo_match(p) == p.kind = "EchoReply" /\ p.seq = seq
zone_reply_matches(p) == p.kind = "ZoneReply" /\ p.id = id

HearNetInfo(p) ==
    /\ phase = "NetInfo" /\ netinfo_verdict(p)
    /\ router' = OurRouter /\ zone' = IF p.default # None THEN p.default ELSE p.zone
    /\ Begin(wire \ {p}, router', zone')
    /\ UNCHANGED <<command, found, messages, foreign, history>>

\* A lookup is asked again: the same one answers more than once.
merge(into, who) == into \cup {who}
HearName(p) ==
    /\ phase = "Lookup" /\ lookup_replies(p)
    /\ found' = merge(found, p.who) /\ wire' = wire \ {p}
    /\ UNCHANGED <<command, asked, learned, pinged, list, messages, foreign, history>>

\* The rest of the interval is waited out before the next probe.
HearEcho(p) ==
    /\ phase = "Ping" /\ echo_match(p)
    /\ answered' = answered \cup {seq} /\ phase' = "Pace" /\ wire' = wire \ {p}
    /\ echoed' = echoed \cup {p.seq}
    /\ UNCHANGED <<command, tries, id, learned, found, seq, list, messages, foreign, lost, stray>>

\* Mutant: the index is taken for a count from 0.
next_start_Late(s, r) == IF ~r.last /\ r.names # <<>> THEN s + Len(r.names) + 1 ELSE 0
\* Where the next page starts, or 0 at the end of the list.
next_start(s, r) == IF ~r.last /\ r.names # <<>> THEN s + Len(r.names) ELSE 0
\* The oldest reply of those completed is taken for the page's.
HearZones(p) ==
    /\ phase = "Zones" /\ zone_reply_matches(p)
    /\ LET heard == Append_capped(p)
           r == heard[1]
           next == next_start(start, r)
       IN  /\ zones' = WithNames(zones, r.names)
           /\ IF next = 0 THEN start' = start /\ Stop(wire \ {p})
              ELSE start' = next /\ AskPage(wire \ {p}, next)
    /\ messages' = <<>>
    /\ stray' = (stray \/ p.n = 0)
    /\ UNCHANGED <<command, learned, found, pinged, failed, foreign, lost, echoed>>

Takes(p) == \/ phase = "NetInfo" /\ netinfo_verdict(p)
            \/ phase = "Lookup" /\ lookup_replies(p)
            \/ phase = "Ping" /\ echo_match(p)
            \/ phase = "Zones" /\ zone_reply_matches(p)
HearOther(p) ==
    /\ phase \in Waits /\ ~Takes(p)
    /\ wire' = wire \ {p}
    /\ messages' = IF p.kind = "ZoneReply" THEN Append_capped(p) ELSE messages
    /\ stray' = (stray \/ p.kind = "ZoneReply")
    /\ echoed' = IF p.kind = "EchoReply" THEN echoed \cup {p.seq} ELSE echoed
    /\ UNCHANGED <<command, asked, learned, found, pinged, list, foreign, lost>>

Hear == \E p \in {q \in wire : q.kind \notin Requested} :
            HearNetInfo(p) \/ HearName(p) \/ HearEcho(p) \/ HearZones(p) \/ HearOther(p)
-----------------------------------------------------------------------------
(* Its deadlines.                                                           *)
Again(p) == wire' = wire \cup {p} /\ tries' = tries + 1 /\ UNCHANGED <<phase, id>>

NoNetInfo ==
    /\ phase = "NetInfo"
    /\ IF tries < Tries["NetInfo"]
       THEN Again(GetNetInfo) /\ UNCHANGED <<pinged, list>>
       ELSE Begin(wire, None, None)
    /\ UNCHANGED <<learned, found>>

LookupOver ==
    /\ phase = "Lookup"
    /\ CASE tries < Tries["Lookup"] -> Again(lookup_request(id, router, zone)) /\ UNCHANGED pinged
         [] tries = Tries["Lookup"] /\ command.what = "PingName" /\ found # {} ->
               Probe(wire, 0) /\ UNCHANGED answered
         [] OTHER -> Stop(wire) /\ UNCHANGED pinged
    /\ UNCHANGED <<learned, found, list>>

NextProbe ==
    /\ phase \in {"Ping", "Pace"}
    /\ Probe(wire, seq + 1)
    /\ UNCHANGED <<learned, found, answered, list>>

NoZones ==
    /\ phase = "Zones"
    /\ IF tries < Tries["Zones"]
       THEN Again(GetZoneList(id, start, tries + 1)) /\ failed' = failed
       ELSE Stop(wire) /\ failed' = TRUE
    /\ UNCHANGED <<learned, found, pinged, start, zones>>

TimeOut == /\ NoNetInfo \/ LookupOver \/ NextProbe \/ NoZones
           /\ UNCHANGED <<command, messages, foreign, history>>

Next == Serve \/ Lose \/ Overhear \/ Hear \/ TimeOut
Spec == Init /\ [][Next]_vars
-----------------------------------------------------------------------------
(* Properties                                                               *)

\* zone_list returns every zone of its router once, whatever is lost and
\* asked again: as long as no reply comes but the ones it waits for.
ZoneListWhole ==
    phase = "Done" /\ command.what = "Zones" /\ router # None /\ ~failed /\ ~stray
    => ToSet(zones) = Zones

\* A lookup finds every entity of the zone wherever in the internet it is,
\* when nothing was lost or cut short; whatever happens, nothing of another
\* zone but what was overheard.
LookupWhole ==
    LET name == IF command.zone # None THEN command.zone ELSE default_zone(OurCable)
        there == {e \in Entity : InZone[e] = name}
    IN  /\ foreign = 0 /\ router # None => found \cap Entity \subseteq there
        /\ phase = "Done" /\ command.what = "Nodes" /\ router # None /\ ~lost
           /\ (\A p \in wire : p.kind \notin Lookups) => there \subseteq found

\* What a request took for its answer answers it: a probe counted answered
\* was echoed, the zone adopted is the cable's default zone.
AnswersAreOurs ==
    /\ answered \subseteq echoed
    /\ zone \in {None, default_zone(OurCable)}

\* zone_reply_matches: another node's reply, or a stale retransmission of our
\* own previous page, must not be mistaken for this page's answer.
ZoneListAnswered ==
    phase = "Done" /\ command.what = "Zones" /\ router # None /\ ~failed => ToSet(zones) = Zones
=============================================================================
