-------------------------- MODULE Requests_proofs --------------------------
(***************************************************************************)
(* What TLAPS proves of Requests, for any internet, command, number of      *)
(* tries and pages, and whatever is lost, late or overheard: what a request *)
(* takes for its answer answers it, a lookup reaches the whole zone and     *)
(* nothing else, and a zone list is whole.                                  *)
(***************************************************************************)
EXTENDS Requests, TLAPS, NaturalsInduction, WellFoundedInduction, SequenceTheorems

OurZone == default_zone(OurCable)
\* What the command looks for, once the node knows its zone.
Name == IF command.zone # None THEN command.zone ELSE OurZone
There == {e \in Entity : InZone[e] = Name}

\* A GetNetInfo names no zone, and who names no zone is told the cable's.
AnswersInv ==
    /\ command \in Commands
    /\ zone \in {None, OurZone} /\ (router # None => zone = OurZone)
    /\ answered \subseteq echoed
    /\ \A p \in wire : /\ p.kind = "GetNetInfo" => p.zone = Blank
                       /\ p.kind = "NetInfoReply" /\ p.zone = Blank => p.default = OurZone
-----------------------------------------------------------------------------
(* The internet and the packets.                                            *)

LEMMA ZoneFacts ==
    /\ \A c \in Cable : /\ CableZones[c] \in Seq(Zones) /\ CableZones[c] # <<>>
                        /\ default_zone(c) \in Zones /\ has_zone(c, default_zone(c))
    /\ OurCable \in Cable /\ OurZone \in Zones /\ OurZone # None /\ OurZone # Blank
    /\ None \notin Zones /\ Blank \notin Zones
  <1>1. \A c \in Cable : CableZones[c] \in Seq(Zones) /\ CableZones[c] # <<>>
    BY InternetAssumption
  <1>2. ASSUME NEW c \in Cable PROVE default_zone(c) \in Zones /\ has_zone(c, default_zone(c))
    <2>1. CableZones[c] \in Seq(Zones) /\ CableZones[c] # <<>>
      BY <1>1
    <2>2. CableZones[c][1] \in Zones /\ 1 \in DOMAIN CableZones[c]
      BY <2>1
    <2>. QED  BY <2>2 DEF default_zone, has_zone, ToSet
  <1>3. OurCable \in Cable
    BY InternetAssumption
  <1>4. None \notin Zones /\ Blank \notin Zones
    BY RequestsAssumption
  <1>. QED  BY <1>1, <1>2, <1>3, <1>4 DEF OurZone

LEMMA PacketKinds ==
    /\ GetNetInfo.kind = "GetNetInfo" /\ GetNetInfo.zone = Blank
    /\ \A z, d, all : /\ NetInfoReply(z, d, all).kind = "NetInfoReply"
                      /\ NetInfoReply(z, d, all).zone = z /\ NetInfoReply(z, d, all).default = d
    /\ \A i, z : BrRq(i, z).kind = "BrRq" /\ BrRq(i, z).id = i /\ BrRq(i, z).zone = z
    /\ \A i, z, c : /\ FwdReq(i, z, c).kind = "FwdReq" /\ FwdReq(i, z, c).id = i
                    /\ FwdReq(i, z, c).zone = z /\ FwdReq(i, z, c).cable = c
                    /\ LkUp(i, z, c).kind = "LkUp" /\ LkUp(i, z, c).id = i
                    /\ LkUp(i, z, c).zone = z /\ LkUp(i, z, c).cable = c
    /\ \A i, e : LkUpReply(i, e).kind = "LkUpReply" /\ LkUpReply(i, e).id = i /\ LkUpReply(i, e).who = e
    /\ \A s : EchoRequest(s).kind = "EchoRequest" /\ EchoReply(s).kind = "EchoReply"
    /\ \A i, s, n : /\ GetZoneList(i, s, n).kind = "GetZoneList" /\ GetZoneList(i, s, n).id = i
                    /\ GetZoneList(i, s, n).start = s /\ GetZoneList(i, s, n).n = n
    /\ \A i, names, last, n :
          /\ ZoneReply(i, names, last, n).kind = "ZoneReply" /\ ZoneReply(i, names, last, n).id = i
          /\ ZoneReply(i, names, last, n).names = names /\ ZoneReply(i, names, last, n).last = last
          /\ ZoneReply(i, names, last, n).n = n
  BY DEF GetNetInfo, NetInfoReply, BrRq, FwdReq, LkUp, LkUpReply, EchoRequest, EchoReply,
         GetZoneList, ZoneReply

\* What each service puts on the wire.
LEMMA HandleCases ==
    ASSUME NEW p, p.kind \in Requested
    PROVE  /\ p.kind = "GetNetInfo" => handle(p) = net_info(p)
           /\ p.kind = "BrRq" => handle(p) = brrq(p)
           /\ p.kind = "FwdReq" => handle(p) = fwd_req(p)
           /\ p.kind = "LkUp" => handle(p) = Bound(p)
           /\ p.kind = "EchoRequest" => handle(p) = echo(p)
           /\ p.kind = "GetZoneList" => handle(p) = zone_list(p)
  BY DEF handle, Requested

LEMMA HandleKinds ==
    ASSUME NEW p, p.kind \in Requested, NEW q \in handle(p)
    PROVE  \/ p.kind = "GetNetInfo" /\ q \in net_info(p) /\ q.kind = "NetInfoReply"
           \/ p.kind = "BrRq" /\ q \in brrq(p) /\ q.kind \in {"LkUp", "FwdReq", "LkUpReply"}
           \/ p.kind = "FwdReq" /\ q \in fwd_req(p) /\ q.kind \in {"LkUp", "LkUpReply"}
           \/ p.kind = "LkUp" /\ q \in Bound(p) /\ q.kind = "LkUpReply"
           \/ p.kind = "EchoRequest" /\ q \in echo(p) /\ q.kind = "EchoReply"
           \/ p.kind = "GetZoneList" /\ q \in zone_list(p) /\ q.kind = "ZoneReply"
  <1>1. \A r, c : \A x \in reply(r, c, p) : x.kind = "LkUpReply"
    BY PacketKinds DEF reply
  <1>2. CASE p.kind = "GetNetInfo"
    <2>1. \A x \in net_info(p) : \E z, d, all : x = NetInfoReply(z, d, all)
      BY DEF net_info
    <2>. QED  BY <1>2, <2>1, HandleCases, PacketKinds
  <1>3. CASE p.kind = "BrRq"
    <2>1. \A x \in brrq(p) : \/ \E i, z, c : x = LkUp(i, z, c) \/ x = FwdReq(i, z, c)
                             \/ \E r, c : x \in reply(r, c, p)
      BY DEF brrq
    <2>2. \A x \in brrq(p) : x.kind \in {"LkUp", "FwdReq", "LkUpReply"}
      BY <2>1, <1>1, PacketKinds
    <2>. QED  BY <1>3, <2>2, HandleCases
  <1>4. CASE p.kind = "FwdReq"
    <2>1. \A x \in fwd_req(p) : \/ \E i, z, c : x = LkUp(i, z, c)
                                \/ \E r, c : x \in reply(r, c, p)
      BY DEF fwd_req
    <2>2. \A x \in fwd_req(p) : x.kind \in {"LkUp", "LkUpReply"}
      BY <2>1, <1>1, PacketKinds
    <2>. QED  BY <1>4, <2>2, HandleCases
  <1>5. CASE p.kind = "LkUp"
    BY <1>5, HandleCases, PacketKinds DEF Bound
  <1>6. CASE p.kind = "EchoRequest"
    BY <1>6, HandleCases, PacketKinds DEF echo
  <1>7. CASE p.kind = "GetZoneList"
    BY <1>7, HandleCases, PacketKinds DEF zone_list
  <1>. QED  BY <1>2, <1>3, <1>4, <1>5, <1>6, <1>7 DEF Requested

LEMMA OverheardKinds ==
    /\ \A p \in OtherInfos : p.kind = "NetInfoReply" /\ p.zone # Blank
    /\ \A p \in OtherNames : p.kind = "LkUpReply"
    /\ \A p \in OtherPages : p.kind = "ZoneReply" /\ p.n = 0
  <1>1. \A p \in OtherInfos : p.kind = "NetInfoReply" /\ p.zone # Blank
    BY ZoneFacts DEF OtherInfos, NetInfoReply
  <1>2. \A p \in OtherNames : p.kind = "LkUpReply"
    BY DEF OtherNames, LkUpReply
  <1>3. \A p \in OtherPages : p.kind = "ZoneReply" /\ p.n = 0
    BY DEF OtherPages, ZoneReply
  <1>. QED  BY <1>1, <1>2, <1>3
-----------------------------------------------------------------------------
(* A request's answer answers it.                                           *)

LEMMA AnswersInit == Init => AnswersInv
  <1>. SUFFICES ASSUME Init PROVE AnswersInv
    OBVIOUS
  <1>1. \A p \in wire : p = GetNetInfo
    BY DEF Init
  <1>. QED  BY <1>1, PacketKinds DEF Init, AnswersInv

\* What the node puts on the wire names no zone to a GetNetInfo and answers
\* nobody.
LEMMA Sent ==
    ASSUME AnswersInv, NEW more,
           \A q \in more : q.kind # "NetInfoReply" /\ (q.kind = "GetNetInfo" => q.zone = Blank),
           wire' \subseteq wire \cup more,
           command' = command, zone' \in {None, OurZone}, router' # None => zone' = OurZone,
           answered' \subseteq echoed'
    PROVE  AnswersInv'
  <1>1. \A p \in wire' : /\ p.kind = "GetNetInfo" => p.zone = Blank
                         /\ p.kind = "NetInfoReply" /\ p.zone = Blank => p.default = OurZone
    BY DEF AnswersInv
  <1>. QED  BY <1>1 DEF AnswersInv

\* The commands begin with questions of their own.
LEMMA BeginSends ==
    ASSUME command \in Commands, NEW w, NEW r, NEW z, Begin(w, r, z)
    PROVE  /\ \E q : /\ wire' \subseteq w \cup {q}
                     /\ q.kind \in {"BrRq", "LkUp", "EchoRequest", "GetZoneList"}
           /\ UNCHANGED <<answered, zones, failed>>
  <1>1. command.what \in {"Nodes", "Ping", "PingName", "Zones"}
    BY RequestsAssumption
  <1>2. CASE command.what \in {"Nodes", "PingName"}
    <2>1. AskWho(w, r, z) /\ UNCHANGED <<pinged, list>>
      BY <1>2, <1>1 DEF Begin
    <2>2. lookup_request(next_id, r, z).kind \in {"BrRq", "LkUp"}
      BY PacketKinds DEF lookup_request
    <2>. QED  BY <2>1, <2>2 DEF AskWho, Wait, pinged, list
  <1>3. CASE command.what = "Ping"
    <2>1. Probe(w, 0) /\ UNCHANGED <<answered, list>>
      BY <1>3, <1>1 DEF Begin
    <2>2. CASE 0 < Probes
      BY <2>1, <2>2, PacketKinds DEF Probe, Wait, list
    <2>3. CASE ~(0 < Probes)
      BY <2>1, <2>3, PacketKinds DEF Probe, Stop, list
    <2>. QED  BY <2>2, <2>3
  <1>4. CASE command.what = "Zones"
    <2>1. (IF r = None THEN Stop(w) ELSE AskPage(w, 1)) /\ UNCHANGED <<pinged, list>>
      BY <1>4, <1>1 DEF Begin
    <2>2. Stop(w) \/ AskPage(w, 1)
      BY <2>1
    <2>3. wire' = w \/ wire' = w \cup {GetZoneList(next_id, 1, 1)}
      BY <2>2 DEF Stop, AskPage, Wait
    <2>. QED  BY <2>1, <2>3, PacketKinds DEF pinged, list
  <1>. QED  BY <1>1, <1>2, <1>3, <1>4

LEMMA AnswersServed ==
    ASSUME AnswersInv, Serve
    PROVE  AnswersInv'
  <1>1. PICK p \in wire : p.kind \in Requested /\ wire' = (wire \ {p}) \cup handle(p)
    BY DEF Serve
  <1>2. UNCHANGED <<command, zone, router, answered, echoed>>
    BY DEF Serve, node, learned, pinged, history
  <1>3. ASSUME NEW q \in handle(p)
        PROVE  /\ q.kind # "GetNetInfo"
               /\ q.kind = "NetInfoReply" /\ q.zone = Blank => q.default = OurZone
    <2>1. CASE q.kind # "NetInfoReply"
      <3>1. q.kind \in {"NetInfoReply", "LkUp", "FwdReq", "LkUpReply", "EchoReply", "ZoneReply"}
        BY <1>1, HandleKinds
      <3>. QED  BY <2>1, <3>1
    <2>2. CASE q.kind = "NetInfoReply"
      <3>1. p.kind = "GetNetInfo" /\ q \in net_info(p)
        BY <2>2, <1>1, HandleKinds
      <3>2. p.zone = Blank
        BY <3>1 DEF AnswersInv
      <3>3. q = NetInfoReply(p.zone, OurZone, FALSE)
        BY <3>1, <3>2 DEF net_info, OurZone
      <3>4. q.kind = "NetInfoReply" /\ q.default = OurZone
        BY <3>3 DEF NetInfoReply
      <3>. QED  BY <3>4
    <2>. QED  BY <2>1, <2>2
  <1>. QED  BY <1>1, <1>2, <1>3 DEF AnswersInv

LEMMA AnswersHeard ==
    ASSUME AnswersInv, Hear
    PROVE  AnswersInv'
  <1>1. PICK p \in wire : HearNetInfo(p) \/ HearName(p) \/ HearEcho(p) \/ HearZones(p) \/ HearOther(p)
    BY DEF Hear
  <1>2. CASE HearNetInfo(p)
    <2>1. p.kind = "NetInfoReply" /\ p.default = OurZone
      BY <1>2 DEF HearNetInfo, netinfo_verdict, AnswersInv
    <2>2. zone' = OurZone /\ UNCHANGED <<command, echoed>>
      BY <1>2, <2>1, ZoneFacts DEF HearNetInfo, history
    <2>3. command \in Commands /\ Begin(wire \ {p}, router', zone')
      BY <1>2 DEF HearNetInfo, AnswersInv
    <2>4. PICK q : /\ wire' \subseteq (wire \ {p}) \cup {q} /\ answered' = answered
                   /\ q.kind \in {"BrRq", "LkUp", "EchoRequest", "GetZoneList"}
      BY <2>3, BeginSends
    <2>5. \A x \in {q} : x.kind # "NetInfoReply" /\ (x.kind = "GetNetInfo" => x.zone = Blank)
      BY <2>4
    <2>6. /\ answered' \subseteq echoed' /\ wire' \subseteq wire \cup {q} /\ command' = command
          /\ zone' \in {None, OurZone} /\ (router' # None => zone' = OurZone)
      BY <2>2, <2>4 DEF AnswersInv
    <2>. DEFINE more == {q}
    <2>7. wire' \subseteq wire \cup more
          /\ \A x \in more : x.kind # "NetInfoReply" /\ (x.kind = "GetNetInfo" => x.zone = Blank)
      BY <2>5, <2>6
    <2>. HIDE DEF more
    <2>. QED  BY <2>6, <2>7, Sent
  <1>3. CASE HearName(p)
    <2>1. wire' \subseteq wire \cup {} /\ UNCHANGED <<command, zone, router, answered, echoed>>
      BY <1>3 DEF HearName, learned, pinged, history
    <2>. QED  BY <2>1, Sent DEF AnswersInv
  <1>4. CASE HearEcho(p)
    <2>1. wire' \subseteq wire \cup {} /\ UNCHANGED <<command, zone, router>>
      BY <1>4 DEF HearEcho, learned
    <2>2. answered' = answered \cup {seq} /\ echoed' = echoed \cup {p.seq} /\ p.seq = seq
      BY <1>4 DEF HearEcho, echo_match
    <2>3. answered' \subseteq echoed'
      BY <2>2 DEF AnswersInv
    <2>. QED  BY <2>1, <2>3, Sent DEF AnswersInv
  <1>5. CASE HearZones(p)
    <2>1. UNCHANGED <<command, zone, router, answered, echoed>>
      BY <1>5 DEF HearZones, learned, pinged
    <2>2. PICK s : Stop(wire \ {p}) \/ AskPage(wire \ {p}, s)
      <3>1. LET s == next_start(start, Append_capped(p)[1])
            IN  Stop(wire \ {p}) \/ AskPage(wire \ {p}, s)
        BY <1>5 DEF HearZones
      <3>. QED  BY <3>1
    <2>3. wire' \subseteq wire \cup {GetZoneList(next_id, s, 1)}
      BY <2>2 DEF Stop, AskPage, Wait
    <2>4. \A x \in {GetZoneList(next_id, s, 1)} :
              x.kind # "NetInfoReply" /\ (x.kind = "GetNetInfo" => x.zone = Blank)
      BY PacketKinds
    <2>. QED  BY <2>1, <2>3, <2>4, Sent DEF AnswersInv
  <1>6. CASE HearOther(p)
    <2>1. wire' \subseteq wire \cup {} /\ UNCHANGED <<command, zone, router, answered>>
      BY <1>6 DEF HearOther, learned, pinged
    <2>2. echoed \subseteq echoed'
      BY <1>6 DEF HearOther
    <2>. QED  BY <2>1, <2>2, Sent DEF AnswersInv
  <1>. QED  BY <1>1, <1>2, <1>3, <1>4, <1>5, <1>6

\* A question of the node's, GetNetInfo but for its zone.
Question(q) == /\ q.kind \in {"GetNetInfo", "BrRq", "LkUp", "EchoRequest", "GetZoneList"}
               /\ q.kind = "GetNetInfo" => q.zone = Blank

LEMMA TimeOutSends ==
    ASSUME command \in Commands, TimeOut
    PROVE  /\ \E q : Question(q) /\ wire' \subseteq wire \cup {q}
           /\ UNCHANGED <<command, zone, router, answered, messages, found, foreign, history>>
  <1>1. UNCHANGED <<command, messages, foreign, history>>
    BY DEF TimeOut
  <1>2. \A i, r, z : Question(lookup_request(i, r, z))
    BY PacketKinds DEF lookup_request, Question
  <1>3. \A i, s, n : Question(EchoRequest(s)) /\ Question(GetZoneList(i, s, n)) /\ Question(GetNetInfo)
    BY PacketKinds DEF Question
  <1>4. CASE NoNetInfo
    <2>1. UNCHANGED <<zone, router, found>>
      BY <1>4 DEF NoNetInfo, learned
    <2>2. CASE tries < Tries["NetInfo"]
      BY <2>1, <2>2, <1>1, <1>3, <1>4 DEF NoNetInfo, Again, pinged
    <2>3. CASE ~(tries < Tries["NetInfo"])
      <3>1. Begin(wire, None, None)
        BY <2>3, <1>4 DEF NoNetInfo
      <3>. QED  BY <3>1, <2>1, <1>1, BeginSends DEF Question
    <2>. QED  BY <2>2, <2>3
  <1>5. CASE LookupOver
    <2>1. UNCHANGED <<zone, router, found>>
      BY <1>5 DEF LookupOver, learned
    <2>2. \/ Again(lookup_request(id, router, zone)) /\ UNCHANGED pinged
          \/ Probe(wire, 0) /\ UNCHANGED answered
          \/ Stop(wire) /\ UNCHANGED pinged
      BY <1>5 DEF LookupOver
    <2>3. Probe(wire, 0) => wire' \subseteq wire \cup {EchoRequest(0)}
      BY DEF Probe, Wait, Stop
    <2>4. answered' = answered
      BY <2>2 DEF pinged
    <2>5. \/ wire' \subseteq wire \cup {lookup_request(id, router, zone)}
          \/ wire' \subseteq wire \cup {EchoRequest(0)}
      BY <2>2, <2>3 DEF Again, Stop
    <2>. QED  BY <2>1, <2>4, <2>5, <1>1, <1>2, <1>3
  <1>6. CASE NextProbe
    <2>1. UNCHANGED <<zone, router, found, answered>> /\ Probe(wire, seq + 1)
      BY <1>6 DEF NextProbe, learned
    <2>2. wire' \subseteq wire \cup {EchoRequest(seq + 1)}
      BY <2>1 DEF Probe, Wait, Stop
    <2>. QED  BY <2>1, <2>2, <1>1, <1>3
  <1>7. CASE NoZones
    <2>1. UNCHANGED <<zone, router, found, answered>>
      BY <1>7 DEF NoZones, learned, pinged
    <2>2. wire' \subseteq wire \cup {GetZoneList(id, start, tries + 1)}
      BY <1>7 DEF NoZones, Again, Stop
    <2>. QED  BY <2>1, <2>2, <1>1, <1>3
  <1>. QED  BY <1>4, <1>5, <1>6, <1>7 DEF TimeOut

LEMMA AnswersNext == AnswersInv /\ [Next]_vars => AnswersInv'
  <1>. SUFFICES ASSUME AnswersInv, [Next]_vars PROVE AnswersInv'
    OBVIOUS
  <1>1. CASE Serve
    BY <1>1, AnswersServed
  <1>2. CASE Lose
    <2>1. wire' \subseteq wire \cup {} /\ UNCHANGED <<command, zone, router, answered, echoed>>
      BY <1>2 DEF Lose, node, learned, pinged
    <2>. QED  BY <2>1, Sent DEF AnswersInv
  <1>3. CASE Overhear
    <2>1. PICK p \in Overheard : wire' = wire \cup {p}
      BY <1>3 DEF Overhear
    <2>2. UNCHANGED <<command, zone, router, answered, echoed>>
      BY <1>3 DEF Overhear, node, learned, pinged, history
    <2>3. p.kind # "GetNetInfo" /\ (p.kind = "NetInfoReply" => p.zone # Blank)
      <3>. QED  BY OverheardKinds DEF Overheard
    <2>. QED  BY <2>1, <2>2, <2>3 DEF AnswersInv
  <1>4. CASE Hear
    BY <1>4, AnswersHeard
  <1>5. CASE TimeOut
    <2>1. PICK q : Question(q) /\ wire' \subseteq wire \cup {q}
      BY <1>5, TimeOutSends DEF AnswersInv
    <2>2. UNCHANGED <<command, zone, router, answered, history>>
      BY <1>5, TimeOutSends DEF AnswersInv
    <2>. DEFINE more == {q}
    <2>3. /\ \A x \in more : x.kind # "NetInfoReply" /\ (x.kind = "GetNetInfo" => x.zone = Blank)
          /\ wire' \subseteq wire \cup more
      BY <2>1 DEF Question
    <2>4. /\ command' = command /\ answered' \subseteq echoed'
          /\ zone' \in {None, OurZone} /\ (router' # None => zone' = OurZone)
      BY <2>2 DEF AnswersInv, history
    <2>. HIDE DEF more
    <2>. QED  BY <2>3, <2>4, Sent
  <1>6. CASE UNCHANGED vars
    BY <1>6 DEF vars, AnswersInv, learned, pinged, history
  <1>. QED  BY <1>1, <1>2, <1>3, <1>4, <1>5, <1>6 DEF Next

\* A probe counted answered was echoed, and the zone adopted is the cable's
\* default zone (get_net_info, netinfo_verdict, ping, echo_match): whatever is
\* lost, late or overheard.
THEOREM AnswersAnswer == Spec => []AnswersAreOurs
  <1>1. AnswersInv => AnswersAreOurs
    BY DEF AnswersInv, AnswersAreOurs, OurZone
  <1>. QED  BY <1>1, AnswersInit, AnswersNext, PTL DEF Spec

-----------------------------------------------------------------------------
(* A lookup reaches the whole zone and nothing else.                        *)

\* NBP keeps the name for "this zone"; nothing in the code refuses it.
NoStar == Star \notin Zones

\* On its way to e, the lookup is in one of these packets.
Asks(e) == {BrRq(id, Name), FwdReq(id, Name, At[e]), LkUp(id, Name, At[e]), LkUpReply(id, e)}
Reaches(e) == e \in found \/ \E p \in Asks(e) : p \in wire

\* Before the node knows its zone nothing is looked up.
BeforeOK ==
    phase = "NetInfo" => /\ found = {} /\ router = None
                         /\ \A p \in wire : p.kind \in Lookups => p.kind = "LkUpReply" /\ foreign # 0

\* Every lookup is for the zone, and so is whoever answers it.
ZoneOK ==
    router # None =>
        /\ \A p \in wire : /\ p.kind \in {"BrRq", "FwdReq", "LkUp"} => p.zone = Name
                           /\ p.kind = "LkUpReply" /\ foreign = 0 => p.who \in There \cup Router
        /\ foreign = 0 => found \subseteq There \cup Router

LookupInv ==
    /\ foreign \in Nat
    /\ \A p \in wire : p.kind = "FwdReq" => p.cable \in Cable
    /\ BeforeOK /\ ZoneOK
    /\ command.what = "Nodes" => phase \in {"NetInfo", "Lookup", "Done"}
    /\ router # None /\ command.what = "Nodes" /\ phase # "NetInfo" /\ ~lost
       => \A e \in There : Reaches(e)

LEMMA NameFacts ==
    ASSUME AnswersInv
    PROVE  Name \in Zones /\ Name # Blank /\ Name # None
  <1>1. command.zone \in Zones \cup {None}
    BY RequestsAssumption DEF AnswersInv
  <1>. QED  BY <1>1, ZoneFacts DEF Name

LEMMA LookupInit == Init => LookupInv
  <1>. SUFFICES ASSUME Init PROVE LookupInv
    OBVIOUS
  <1>1. \A p \in wire : p.kind = "GetNetInfo"
    BY PacketKinds DEF Init
  <1>2. foreign = 0 /\ found = {} /\ router = None /\ phase = "NetInfo"
    BY DEF Init
  <1>. QED  BY <1>1, <1>2 DEF LookupInv, BeforeOK, ZoneOK, Lookups

\* What the router sends on a lookup is for the zone looked up.
LEMMA BrRqServed ==
    ASSUME AnswersInv, NoStar, NEW p, p.zone = Name, NEW q \in brrq(p)
    PROVE  /\ q.kind \in {"FwdReq", "LkUp"} => q.zone = Name /\ q.cable \in Cable
           /\ q.kind = "LkUpReply" => q.who \in Router
  <1>1. resolve(p, OurCable) = Name
    BY NameFacts DEF resolve, NoStar
  <1>. DEFINE z == resolve(p, OurCable)
  <1>2. CASE q \in {LkUp(p.id, z, c) : c \in {d \in nets_in_zone(z) : direct_port(d)}}
    BY <1>1, <1>2, PacketKinds DEF nets_in_zone
  <1>3. CASE q \in {FwdReq(p.id, z, c) : c \in {d \in nets_in_zone(z) : ~direct_port(d)}}
    BY <1>1, <1>3, PacketKinds DEF nets_in_zone
  <1>4. CASE q \in reply(OurRouter, OurCable, p)
    <2>1. q = LkUpReply(p.id, OurRouter)
      BY <1>4 DEF reply
    <2>. QED  BY <2>1, PacketKinds, InternetAssumption
  <1>. HIDE DEF z
  <1>5. brrq(p) = {LkUp(p.id, z, c) : c \in {d \in nets_in_zone(z) : direct_port(d)}}
                  \cup {FwdReq(p.id, z, c) : c \in {d \in nets_in_zone(z) : ~direct_port(d)}}
                  \cup reply(OurRouter, OurCable, p)
    BY DEF brrq, z
  <1>. QED  BY <1>2, <1>3, <1>4, <1>5

LEMMA FwdReqServed ==
    ASSUME NEW p, p.cable \in Cable, NEW q \in fwd_req(p)
    PROVE  /\ q.kind = "LkUp" => q.zone = p.zone /\ q.cable \in Cable
           /\ q.kind = "LkUpReply" => q.who \in Router
           /\ q.kind # "FwdReq"
  <1>. DEFINE r == CHOOSE r \in Router : p.cable \in PortsOf[r]
  <1>1. r \in Router /\ p.cable \in PortsOf[r]
    BY InternetAssumption
  <1>2. PortsOf[r] \subseteq Cable
    BY <1>1, InternetAssumption
  <1>. HIDE DEF r
  <1>3. fwd_req(p) = {LkUp(p.id, p.zone, c) : c \in {d \in PortsOf[r] : has_zone(d, p.zone)}}
                     \cup reply(r, p.cable, p)
    BY DEF fwd_req, r
  <1>4. CASE q \in {LkUp(p.id, p.zone, c) : c \in {d \in PortsOf[r] : has_zone(d, p.zone)}}
    BY <1>2, <1>4, PacketKinds
  <1>5. CASE q \in reply(r, p.cable, p)
    <2>1. q = LkUpReply(p.id, r)
      BY <1>5 DEF reply
    <2>. QED  BY <1>1, <2>1, PacketKinds
  <1>. QED  BY <1>3, <1>4, <1>5

LEMMA LkUpServed ==
    ASSUME NoStar, AnswersInv, NEW p, p.zone = Name, NEW q \in Bound(p)
    PROVE  q.kind = "LkUpReply" /\ q.who \in There
  <1>1. PICK f \in Entity : q = LkUpReply(p.id, f) /\ At[f] = p.cable /\ p.zone \in {Star, InZone[f]}
    BY DEF Bound
  <1>2. InZone[f] = Name
    BY <1>1, NameFacts DEF NoStar
  <1>. QED  BY <1>1, <1>2, PacketKinds DEF There

\* A packet on the way to e, served, leaves another in its place.
LEMMA ReachServed ==
    ASSUME AnswersInv, NoStar, NEW e \in There, NEW p \in Asks(e), p.kind \in Requested
    PROVE  \E q \in Asks(e) : q \in handle(p)
  <1>1. e \in Entity /\ InZone[e] = Name
    BY DEF There
  <1>2. At[e] \in Cable /\ has_zone(At[e], Name)
    BY <1>1, InternetAssumption DEF has_zone
  <1>3. At[e] \in nets_in_zone(Name)
    BY <1>2 DEF nets_in_zone
  <1>4. CASE p = BrRq(id, Name)
    <2>1. handle(p) = brrq(p) /\ p.zone = Name /\ p.id = id
      BY <1>4, HandleCases, PacketKinds
    <2>2. resolve(p, OurCable) = Name
      BY <2>1, NameFacts DEF resolve, NoStar
    <2>3. CASE direct_port(At[e])
      <3>1. LkUp(id, Name, At[e]) \in brrq(p)
        BY <2>1, <2>2, <2>3, <1>3 DEF brrq
      <3>. QED  BY <2>1, <3>1 DEF Asks
    <2>4. CASE ~direct_port(At[e])
      <3>1. FwdReq(id, Name, At[e]) \in brrq(p)
        BY <2>1, <2>2, <2>4, <1>3 DEF brrq
      <3>. QED  BY <2>1, <3>1 DEF Asks
    <2>. QED  BY <2>3, <2>4
  <1>5. CASE p = FwdReq(id, Name, At[e])
    <2>1. handle(p) = fwd_req(p) /\ p.zone = Name /\ p.id = id /\ p.cable = At[e]
      BY <1>5, HandleCases, PacketKinds
    <2>. DEFINE r == CHOOSE r \in Router : p.cable \in PortsOf[r]
    <2>2. p.cable \in PortsOf[r]
      BY <1>2, <2>1, InternetAssumption
    <2>3. fwd_req(p) = {LkUp(p.id, p.zone, c) : c \in {d \in PortsOf[r] : has_zone(d, p.zone)}}
                       \cup reply(r, p.cable, p)
      BY DEF fwd_req
    <2>. HIDE DEF r
    <2>4. LkUp(id, Name, At[e]) \in fwd_req(p)
      BY <1>2, <2>1, <2>2, <2>3
    <2>. QED  BY <2>1, <2>4 DEF Asks
  <1>6. CASE p = LkUp(id, Name, At[e])
    <2>1. handle(p) = Bound(p) /\ p.zone = Name /\ p.id = id /\ p.cable = At[e]
      BY <1>6, HandleCases, PacketKinds
    <2>2. LkUpReply(id, e) \in Bound(p)
      BY <1>1, <2>1 DEF Bound
    <2>. QED  BY <2>1, <2>2 DEF Asks
  <1>7. CASE p = LkUpReply(id, e)
    BY <1>7, PacketKinds DEF Requested
  <1>. QED  BY <1>4, <1>5, <1>6, <1>7 DEF Asks


LEMMA ForwardedTo ==
    ASSUME NEW p, NEW q \in brrq(p), q.kind = "FwdReq"
    PROVE  q.cable \in Cable
  <1>. DEFINE z == resolve(p, OurCable)
  <1>1. CASE q \in {LkUp(p.id, z, c) : c \in {d \in nets_in_zone(z) : direct_port(d)}}
    BY <1>1, PacketKinds
  <1>2. CASE q \in {FwdReq(p.id, z, c) : c \in {d \in nets_in_zone(z) : ~direct_port(d)}}
    BY <1>2, PacketKinds DEF nets_in_zone
  <1>3. CASE q \in reply(OurRouter, OurCable, p)
    BY <1>3, PacketKinds DEF reply
  <1>. HIDE DEF z
  <1>4. brrq(p) = {LkUp(p.id, z, c) : c \in {d \in nets_in_zone(z) : direct_port(d)}}
                  \cup {FwdReq(p.id, z, c) : c \in {d \in nets_in_zone(z) : ~direct_port(d)}}
                  \cup reply(OurRouter, OurCable, p)
    BY DEF brrq, z
  <1>. QED  BY <1>1, <1>2, <1>3, <1>4

LEMMA LookupServed ==
    ASSUME NoStar, AnswersInv, LookupInv, Serve
    PROVE  LookupInv'
  <1>1. PICK p \in wire : p.kind \in Requested /\ wire' = (wire \ {p}) \cup handle(p)
    BY DEF Serve
  <1>2. UNCHANGED <<command, phase, id, zone, router, found, foreign, lost>>
    BY DEF Serve, node, asked, learned, history
  <1>3. Name' = Name /\ There' = There /\ \A e : Asks(e)' = Asks(e)
    BY <1>2 DEF Name, There, Asks
  <1>4. ASSUME NEW q \in handle(p)
        PROVE  /\ q.kind = "FwdReq" => q.cable \in Cable
               /\ phase = "NetInfo" => q.kind \notin Lookups
               /\ router # None => /\ q.kind \in {"BrRq", "FwdReq", "LkUp"} => q.zone = Name
                                   /\ q.kind = "LkUpReply" => q.who \in There \cup Router
    <2>1. CASE p.kind = "BrRq"
      <3>1. q \in brrq(p) /\ q.kind \in {"LkUp", "FwdReq", "LkUpReply"}
        BY <2>1, <1>1, HandleKinds
      <3>2. phase # "NetInfo" /\ (router # None => p.zone = Name)
        BY <2>1, <1>1 DEF LookupInv, BeforeOK, ZoneOK, Lookups
      <3>. QED  BY <3>1, <3>2, ForwardedTo, BrRqServed
    <2>2. CASE p.kind = "FwdReq"
      <3>1. q \in fwd_req(p) /\ q.kind \in {"LkUp", "LkUpReply"}
        BY <2>2, <1>1, HandleKinds
      <3>2. phase # "NetInfo" /\ (router # None => p.zone = Name) /\ p.cable \in Cable
        BY <2>2, <1>1 DEF LookupInv, BeforeOK, ZoneOK, Lookups
      <3>. QED  BY <3>1, <3>2, FwdReqServed
    <2>3. CASE p.kind = "LkUp"
      <3>1. q \in Bound(p) /\ q.kind = "LkUpReply"
        BY <2>3, <1>1, HandleKinds
      <3>2. phase # "NetInfo" /\ (router # None => p.zone = Name)
        BY <2>3, <1>1 DEF LookupInv, BeforeOK, ZoneOK, Lookups
      <3>. QED  BY <3>1, <3>2, LkUpServed
    <2>4. CASE p.kind \notin {"BrRq", "FwdReq", "LkUp"}
      <3>1. q.kind \in {"NetInfoReply", "EchoReply", "ZoneReply"}
        BY <2>4, <1>1, HandleKinds
      <3>. QED  BY <3>1 DEF Lookups
    <2>. QED  BY <2>1, <2>2, <2>3, <2>4
  <1>5. \A q \in wire' : q \in wire \/ q \in handle(p)
    BY <1>1
  <1>6. foreign' \in Nat /\ \A q \in wire' : q.kind = "FwdReq" => q.cable \in Cable
    BY <1>2, <1>4, <1>5 DEF LookupInv
  <1>7. BeforeOK'
    BY <1>2, <1>4, <1>5 DEF LookupInv, BeforeOK
  <1>8. ZoneOK'
    <2>. SUFFICES ASSUME router # None
                  PROVE  /\ \A q \in wire' : /\ q.kind \in {"BrRq", "FwdReq", "LkUp"} => q.zone = Name
                                             /\ q.kind = "LkUpReply" /\ foreign = 0 => q.who \in There \cup Router
                         /\ foreign = 0 => found \subseteq There \cup Router
      BY <1>2, <1>3 DEF ZoneOK
    <2>. QED  BY <1>4, <1>5 DEF LookupInv, ZoneOK
  <1>9. ASSUME NEW e \in There, Reaches(e)
        PROVE  Reaches(e)'
    <2>1. CASE e \in found
      BY <2>1, <1>2 DEF Reaches
    <2>2. CASE \E a \in Asks(e) : a \in wire
      <3>1. PICK a \in Asks(e) : a \in wire
        BY <2>2
      <3>2. CASE a # p
        BY <3>1, <3>2, <1>1, <1>3 DEF Reaches
      <3>3. CASE a = p
        <4>1. \E q \in Asks(e) : q \in handle(p)
          BY <3>1, <3>3, <1>1, ReachServed
        <4>. QED  BY <4>1, <1>1, <1>3 DEF Reaches
      <3>. QED  BY <3>2, <3>3
    <2>. QED  BY <1>9, <2>1, <2>2 DEF Reaches
  <1>. QED  BY <1>2, <1>3, <1>6, <1>7, <1>8, <1>9 DEF LookupInv

\* The command begins with one packet; a lookup with the one that is to reach
\* the whole zone.
LEMMA BeginAsks ==
    ASSUME AnswersInv, NEW w, NEW r, NEW z, r # None => z = OurZone, Begin(w, r, z)
    PROVE  /\ \E q : /\ wire' \subseteq w \cup {q}
                     /\ q.kind \in {"BrRq", "LkUp", "EchoRequest", "GetZoneList"}
                     /\ r # None => q.kind # "LkUp" /\ (q.kind = "BrRq" => q.zone = Name)
           /\ phase' # "NetInfo"
           /\ command.what = "Nodes" =>
                phase' = "Lookup" /\ (r # None => BrRq(id', Name) \in wire')
  <1>1. command.what \in {"Nodes", "Ping", "PingName", "Zones"}
    BY RequestsAssumption DEF AnswersInv
  <1>2. CASE command.what \in {"Nodes", "PingName"}
    <2>1. AskWho(w, r, z)
      BY <1>2, <1>1 DEF Begin
    <2>. DEFINE q == lookup_request(next_id, r, z)
    <2>2. phase' = "Lookup" /\ id' = next_id /\ wire' = w \cup {q}
      BY <2>1 DEF AskWho, Wait
    <2>3. r # None => q = BrRq(next_id, Name)
      BY ZoneFacts DEF lookup_request, Name
    <2>4. q.kind \in {"BrRq", "LkUp"}
      BY PacketKinds DEF lookup_request
    <2>. HIDE DEF q
    <2>5. r # None => q.kind = "BrRq" /\ q.zone = Name
      BY <2>3, PacketKinds
    <2>. QED  BY <2>2, <2>3, <2>4, <2>5
  <1>3. CASE command.what = "Ping"
    <2>1. Probe(w, 0)
      BY <1>3, <1>1 DEF Begin
    <2>2. wire' \subseteq w \cup {EchoRequest(0)} /\ phase' \in {"Ping", "Done"}
      BY <2>1 DEF Probe, Wait, Stop
    <2>. QED  BY <1>3, <2>2, PacketKinds
  <1>4. CASE command.what = "Zones"
    <2>1. Stop(w) \/ AskPage(w, 1)
      BY <1>4, <1>1 DEF Begin
    <2>2. wire' \subseteq w \cup {GetZoneList(next_id, 1, 1)} /\ phase' \in {"Zones", "Done"}
      BY <2>1 DEF Stop, AskPage, Wait
    <2>. QED  BY <1>4, <2>2, PacketKinds
  <1>. QED  BY <1>1, <1>2, <1>3, <1>4


\* A question about the zone, or one that is no lookup, disturbs nothing.
Harmless(q, r) == /\ q.kind \notin {"FwdReq", "LkUpReply"}
                  /\ q.kind \in Lookups => phase' # "NetInfo"
                  /\ r # None => q.kind # "LkUp" /\ (q.kind = "BrRq" => q.zone = Name)

LEMMA LookupKept ==
    ASSUME LookupInv, NEW more, wire' \subseteq wire \cup more,
           \A q \in more : Harmless(q, router'),
           UNCHANGED <<command, found, foreign>>,
           router' = router \/ phase = "NetInfo",
           phase' = "NetInfo" => phase = "NetInfo" /\ router' = router
    PROVE  /\ foreign' \in Nat
           /\ \A p \in wire' : p.kind = "FwdReq" => p.cable \in Cable
           /\ BeforeOK' /\ ZoneOK'
  <1>1. Name' = Name /\ There' = There
    BY DEF Name, There
  <1>2. \A p \in wire' : p \in wire \/ Harmless(p, router')
    OBVIOUS
  <1>3. \A p \in wire' : p.kind = "FwdReq" => p.cable \in Cable
    BY <1>2 DEF Harmless, LookupInv
  <1>4. BeforeOK'
    BY <1>2 DEF Harmless, LookupInv, BeforeOK, Lookups
  <1>5. ZoneOK'
    <2>. SUFFICES ASSUME router' # None
                  PROVE  /\ \A p \in wire' : /\ p.kind \in {"BrRq", "FwdReq", "LkUp"} => p.zone = Name
                                             /\ p.kind = "LkUpReply" /\ foreign = 0 => p.who \in There \cup Router
                         /\ foreign = 0 => found \subseteq There \cup Router
      BY <1>1 DEF ZoneOK
    <2>1. CASE phase = "NetInfo"
      <3>1. found = {} /\ \A p \in wire : p.kind \in Lookups => p.kind = "LkUpReply" /\ foreign # 0
        BY <2>1 DEF LookupInv, BeforeOK
      <3>. QED  BY <3>1, <1>2 DEF Harmless, Lookups
    <2>2. CASE phase # "NetInfo"
      <3>1. router # None
        BY <2>2
      <3>. QED  BY <3>1, <1>2 DEF Harmless, LookupInv, ZoneOK
    <2>. QED  BY <2>1, <2>2
  <1>. QED  BY <1>3, <1>4, <1>5 DEF LookupInv

LEMMA LookupHeard ==
    ASSUME NoStar, AnswersInv, LookupInv, Hear
    PROVE  LookupInv'
  <1>1. PICK p \in wire : /\ p.kind \notin Requested
                          /\ HearNetInfo(p) \/ HearName(p) \/ HearEcho(p) \/ HearZones(p) \/ HearOther(p)
    BY DEF Hear
  <1>2. command' = command /\ Name' = Name /\ There' = There
    BY <1>1 DEF HearNetInfo, HearName, HearEcho, HearZones, HearOther, Name, There
  <1>3. CASE HearNetInfo(p)
    <2>1. p.default = OurZone /\ phase = "NetInfo"
      BY <1>1, <1>3 DEF HearNetInfo, netinfo_verdict, AnswersInv
    <2>2. zone' = OurZone /\ UNCHANGED <<found, foreign, lost>>
      BY <1>3, <2>1, ZoneFacts DEF HearNetInfo, history
    <2>3. Begin(wire \ {p}, router', zone') /\ (router' # None => zone' = OurZone)
      BY <1>3, <2>2 DEF HearNetInfo
    <2>4. PICK q : /\ wire' \subseteq (wire \ {p}) \cup {q}
                   /\ q.kind \in {"BrRq", "LkUp", "EchoRequest", "GetZoneList"}
                   /\ router' # None => q.kind # "LkUp" /\ (q.kind = "BrRq" => q.zone = Name)
      BY <2>3, BeginAsks
    <2>5. phase' # "NetInfo"
      BY <2>3, BeginAsks
    <2>6. command.what = "Nodes" => phase' = "Lookup" /\ (router' # None => BrRq(id', Name) \in wire')
      BY <2>3, BeginAsks
    <2>. DEFINE more == {q}
    <2>7. wire' \subseteq wire \cup more /\ \A x \in more : Harmless(x, router')
      BY <2>4, <2>5 DEF Harmless
    <2>. HIDE DEF more
    <2>8. foreign' \in Nat /\ BeforeOK' /\ ZoneOK' /\ \A x \in wire' : x.kind = "FwdReq" => x.cable \in Cable
      BY <1>2, <2>1, <2>2, <2>5, <2>7, LookupKept
    <2>9. command.what = "Nodes" /\ router' # None => \A e \in There : Reaches(e)'
      BY <2>6, <1>2 DEF Reaches, Asks
    <2>. QED  BY <1>2, <2>6, <2>8, <2>9 DEF LookupInv
  <1>4. CASE HearName(p)
    <2>1. /\ p.kind = "LkUpReply" /\ p.id = id /\ phase = "Lookup"
          /\ found' = found \cup {p.who} /\ wire' = wire \ {p}
          /\ UNCHANGED <<phase, id, router, foreign, lost>>
      BY <1>4 DEF HearName, lookup_replies, merge, asked, learned, history
    <2>2. ZoneOK'
      <3>. SUFFICES ASSUME router # None
                    PROVE  /\ \A q \in wire' : /\ q.kind \in {"BrRq", "FwdReq", "LkUp"} => q.zone = Name
                                               /\ q.kind = "LkUpReply" /\ foreign = 0 => q.who \in There \cup Router
                           /\ foreign = 0 => found' \subseteq There \cup Router
        BY <1>2, <2>1 DEF ZoneOK
      <3>. QED  BY <1>1, <2>1 DEF LookupInv, ZoneOK
    <2>3. ASSUME NEW e \in There, Reaches(e) PROVE Reaches(e)'
      <3>1. CASE e \in found
        BY <3>1, <2>1 DEF Reaches
      <3>2. CASE \E a \in Asks(e) : a \in wire
        <4>1. PICK a \in Asks(e) : a \in wire
          BY <3>2
        <4>2. a \in Asks(e)'
          BY <1>2, <2>1 DEF Asks
        <4>3. a = p => p = LkUpReply(id, e)
          BY <2>1, PacketKinds DEF Asks
        <4>4. a = p => p.who = e
          BY <4>3, PacketKinds
        <4>. QED  BY <2>1, <4>1, <4>2, <4>4 DEF Reaches
      <3>. QED  BY <2>3, <3>1, <3>2 DEF Reaches
    <2>. QED  BY <1>2, <2>1, <2>2, <2>3 DEF LookupInv, BeforeOK
  <1>5. CASE HearEcho(p)
    <2>1. /\ phase = "Ping" /\ phase' = "Pace" /\ wire' \subseteq wire
          /\ UNCHANGED <<command, found, foreign, router>>
      BY <1>5 DEF HearEcho, learned
    <2>2. command'.what # "Nodes"
      BY <2>1 DEF LookupInv
    <2>. DEFINE more == {}
    <2>3. wire' \subseteq wire \cup more /\ \A q \in more : Harmless(q, router')
      BY <2>1
    <2>. HIDE DEF more
    <2>4. foreign' \in Nat /\ BeforeOK' /\ ZoneOK' /\ \A x \in wire' : x.kind = "FwdReq" => x.cable \in Cable
      BY <2>1, <2>3, LookupKept
    <2>. QED  BY <2>2, <2>4 DEF LookupInv
  <1>6. CASE HearZones(p)
    <2>1. phase = "Zones" /\ UNCHANGED <<command, found, foreign, router>>
      BY <1>6 DEF HearZones, learned
    <2>2. PICK s : Stop(wire \ {p}) \/ AskPage(wire \ {p}, s)
      <3>1. LET s == next_start(start, Append_capped(p)[1])
            IN  Stop(wire \ {p}) \/ AskPage(wire \ {p}, s)
        BY <1>6 DEF HearZones
      <3>. QED  BY <3>1
    <2>. DEFINE more == {GetZoneList(next_id, s, 1)}
    <2>3. wire' \subseteq wire \cup more /\ phase' \in {"Zones", "Done"}
      BY <2>2 DEF Stop, AskPage, Wait
    <2>4. \A q \in more : Harmless(q, router')
      BY PacketKinds DEF Harmless, Lookups
    <2>5. command.what # "Nodes"
      BY <2>1 DEF LookupInv
    <2>. HIDE DEF more
    <2>6. foreign' \in Nat /\ BeforeOK' /\ ZoneOK' /\ \A x \in wire' : x.kind = "FwdReq" => x.cable \in Cable
      BY <2>1, <2>3, <2>4, LookupKept
    <2>7. command'.what # "Nodes"
      BY <2>1, <2>5
    <2>. QED  BY <2>6, <2>7 DEF LookupInv
  <1>7. CASE HearOther(p)
    <2>1. /\ phase \in Waits /\ ~Takes(p) /\ wire' = wire \ {p}
          /\ UNCHANGED <<command, phase, id, found, foreign, router, lost>>
      BY <1>7 DEF HearOther, learned, asked
    <2>. DEFINE more == {}
    <2>2. wire' \subseteq wire \cup more /\ \A q \in more : Harmless(q, router')
      BY <2>1
    <2>. HIDE DEF more
    <2>3. foreign' \in Nat /\ BeforeOK' /\ ZoneOK' /\ \A x \in wire' : x.kind = "FwdReq" => x.cable \in Cable
      BY <2>1, <2>2, LookupKept
    <2>4. ASSUME phase = "Lookup", NEW e \in There, Reaches(e) PROVE Reaches(e)'
      <3>1. p \notin Asks(e)
        BY <1>1, <2>1, <2>4, PacketKinds DEF Asks, Takes, lookup_replies, Requested
      <3>2. Asks(e)' = Asks(e)
        BY <1>2, <2>1 DEF Asks
      <3>. QED  BY <2>1, <2>4, <3>1, <3>2 DEF Reaches
    <2>5. command.what = "Nodes" => phase \in {"NetInfo", "Lookup"}
      BY <2>1 DEF LookupInv, Waits
    <2>. QED  BY <1>2, <2>1, <2>3, <2>4, <2>5 DEF LookupInv
  <1>. QED  BY <1>1, <1>3, <1>4, <1>5, <1>6, <1>7


\* A deadline sends a question again or the next command's first one; a
\* lookup that is over stops there.
LEMMA TimeOutAsks ==
    ASSUME AnswersInv, LookupInv, TimeOut
    PROVE  /\ \E q : wire' \subseteq wire \cup {q} /\ Harmless(q, router)
           /\ wire \subseteq wire'
           /\ phase' = "NetInfo" => phase = "NetInfo"
           /\ command.what = "Nodes" => /\ phase' \in {"NetInfo", "Lookup", "Done"}
                                        /\ phase # "NetInfo" => id' = id
                                        /\ phase = "NetInfo" /\ router # None => phase' = "NetInfo"
  <1>1. \A i, s, n : /\ Harmless(GetNetInfo, router) /\ Harmless(EchoRequest(s), router)
                     /\ Harmless(GetZoneList(i, s, n), router)
    BY PacketKinds DEF Harmless, Lookups
  <1>2. CASE NoNetInfo
    <2>1. phase = "NetInfo" /\ router = None
      BY <1>2 DEF NoNetInfo, LookupInv, BeforeOK
    <2>2. CASE tries < Tries["NetInfo"]
      BY <2>1, <2>2, <1>1, <1>2 DEF NoNetInfo, Again
    <2>3. CASE ~(tries < Tries["NetInfo"])
      <3>1. Begin(wire, None, None)
        BY <2>3, <1>2 DEF NoNetInfo
      <3>2. PICK q : wire' \subseteq wire \cup {q} /\ q.kind \in {"BrRq", "LkUp", "EchoRequest", "GetZoneList"}
        BY <3>1, BeginAsks
      <3>3. phase' # "NetInfo" /\ (command.what = "Nodes" => phase' = "Lookup")
        BY <3>1, BeginAsks
      <3>4. Harmless(q, router)
        BY <2>1, <3>2, <3>3 DEF Harmless
      <3>5. wire \subseteq wire'
        <4>1. command.what \in {"Nodes", "Ping", "PingName", "Zones"}
          BY RequestsAssumption DEF AnswersInv
        <4>2. AskWho(wire, None, None) \/ Probe(wire, 0) \/ Stop(wire)
          BY <3>1, <4>1 DEF Begin
        <4>. QED  BY <4>2 DEF AskWho, Probe, Stop, Wait
      <3>. QED  BY <2>1, <3>2, <3>3, <3>4, <3>5
    <2>. QED  BY <2>2, <2>3
  <1>3. CASE LookupOver
    <2>1. phase = "Lookup"
      BY <1>3 DEF LookupOver
    <2>2. \/ Again(lookup_request(id, router, zone))
          \/ command.what = "PingName" /\ Probe(wire, 0)
          \/ Stop(wire)
      BY <1>3 DEF LookupOver
    <2>3. CASE Again(lookup_request(id, router, zone))
      <3>. DEFINE q == lookup_request(id, router, zone)
      <3>1. q.kind \in {"BrRq", "LkUp"}
        BY PacketKinds DEF lookup_request
      <3>2. router # None => q = BrRq(id, Name)
        <4>1. router # None => zone = OurZone
          BY DEF AnswersInv
        <4>. QED  BY <4>1, ZoneFacts DEF lookup_request, Name
      <3>3. wire' = wire \cup {q} /\ phase' = phase /\ id' = id
        BY <2>3 DEF Again
      <3>. HIDE DEF q
      <3>4. Harmless(q, router)
        BY <2>1, <3>1, <3>2, <3>3, PacketKinds DEF Harmless
      <3>. QED  BY <2>1, <3>3, <3>4
    <2>4. CASE command.what = "PingName" /\ Probe(wire, 0)
      <3>1. wire' \subseteq wire \cup {EchoRequest(0)} /\ wire \subseteq wire' /\ phase' \in {"Ping", "Done"}
        BY <2>4 DEF Probe, Wait, Stop
      <3>. QED  BY <2>1, <2>4, <3>1, <1>1
    <2>5. CASE Stop(wire)
      BY <2>1, <2>5, <1>1 DEF Stop
    <2>. QED  BY <2>2, <2>3, <2>4, <2>5
  <1>4. CASE NextProbe
    <2>1. phase \in {"Ping", "Pace"} /\ Probe(wire, seq + 1)
      BY <1>4 DEF NextProbe
    <2>2. wire' \subseteq wire \cup {EchoRequest(seq + 1)} /\ wire \subseteq wire' /\ phase' \in {"Ping", "Done"}
      BY <2>1 DEF Probe, Wait, Stop
    <2>3. command.what # "Nodes"
      BY <2>1 DEF LookupInv
    <2>. QED  BY <2>2, <2>3, <1>1
  <1>5. CASE NoZones
    <2>1. phase = "Zones" /\ (Again(GetZoneList(id, start, tries + 1)) \/ Stop(wire))
      BY <1>5 DEF NoZones
    <2>2. wire' \subseteq wire \cup {GetZoneList(id, start, tries + 1)} /\ wire \subseteq wire' /\ phase' \in {"Zones", "Done"}
      BY <2>1 DEF Again, Stop
    <2>3. command.what # "Nodes"
      BY <2>1 DEF LookupInv
    <2>. QED  BY <2>2, <2>3, <1>1
  <1>. QED  BY <1>2, <1>3, <1>4, <1>5 DEF TimeOut

LEMMA LookupTimedOut ==
    ASSUME AnswersInv, LookupInv, TimeOut
    PROVE  LookupInv'
  <1>1. UNCHANGED <<command, zone, router, found, foreign, lost>>
    BY TimeOutSends DEF AnswersInv, history
  <1>2. PICK q : wire' \subseteq wire \cup {q} /\ Harmless(q, router)
    BY TimeOutAsks
  <1>. DEFINE more == {q}
  <1>3. wire' \subseteq wire \cup more /\ \A x \in more : Harmless(x, router')
    <2>1. \A x \in more : Harmless(x, router)
      BY <1>2
    <2>. QED  BY <2>1, <1>1, <1>2
  <1>. HIDE DEF more
  <1>4. phase' = "NetInfo" => phase = "NetInfo"
    BY TimeOutAsks
  <1>5. foreign' \in Nat /\ BeforeOK' /\ ZoneOK' /\ \A x \in wire' : x.kind = "FwdReq" => x.cable \in Cable
    BY <1>1, <1>3, <1>4, LookupKept
  <1>6. CASE command.what = "Nodes"
    <2>1. /\ wire \subseteq wire' /\ phase' \in {"NetInfo", "Lookup", "Done"}
          /\ phase # "NetInfo" => id' = id
          /\ phase = "NetInfo" /\ router # None => phase' = "NetInfo"
      BY <1>6, TimeOutAsks
    <2>2. Name' = Name /\ There' = There
      BY <1>1 DEF Name, There
    <2>3. ASSUME NEW e \in There, phase # "NetInfo", Reaches(e) PROVE Reaches(e)'
      <3>1. Asks(e)' = Asks(e)
        BY <2>1, <2>2, <2>3 DEF Asks
      <3>. QED  BY <1>1, <2>1, <2>3, <3>1 DEF Reaches
    <2>. QED  BY <1>1, <1>5, <2>1, <2>2, <2>3 DEF LookupInv
  <1>7. CASE command.what # "Nodes"
    <2>1. command'.what # "Nodes"
      BY <1>1, <1>7
    <2>. QED  BY <1>5, <2>1 DEF LookupInv
  <1>. QED  BY <1>6, <1>7


LEMMA LookupNext == NoStar /\ AnswersInv /\ LookupInv /\ [Next]_vars => LookupInv'
  <1>. SUFFICES ASSUME NoStar, AnswersInv, LookupInv, [Next]_vars PROVE LookupInv'
    OBVIOUS
  <1>1. CASE Serve
    BY <1>1, LookupServed
  <1>2. CASE Lose
    <2>1. lost' = TRUE /\ wire' \subseteq wire /\ UNCHANGED <<command, phase, found, router, foreign>>
      BY <1>2 DEF Lose, node, asked, learned
    <2>. DEFINE more == {}
    <2>2. wire' \subseteq wire \cup more /\ \A q \in more : Harmless(q, router')
      BY <2>1
    <2>. HIDE DEF more
    <2>3. foreign' \in Nat /\ BeforeOK' /\ ZoneOK' /\ \A x \in wire' : x.kind = "FwdReq" => x.cable \in Cable
      BY <2>1, <2>2, LookupKept
    <2>. QED  BY <2>1, <2>3 DEF LookupInv
  <1>3. CASE Overhear
    <2>1. PICK p \in Overheard : wire' = wire \cup {p}
      BY <1>3 DEF Overhear
    <2>2. /\ foreign' \in Nat \ {0}
          /\ UNCHANGED <<command, phase, id, zone, router, found, lost>>
      <3>1. foreign \in Nat /\ foreign' = foreign + 1
        BY <1>3 DEF Overhear, LookupInv
      <3>2. UNCHANGED <<command, phase, id, zone, router, found, lost>>
        BY <1>3 DEF Overhear, node, asked, learned, history
      <3>. QED  BY <3>1, <3>2
    <2>3. p.kind \in {"NetInfoReply", "LkUpReply", "ZoneReply"}
      BY OverheardKinds DEF Overheard
    <2>4. Name' = Name /\ There' = There /\ \A e : Asks(e)' = Asks(e)
      BY <2>2 DEF Name, There, Asks
    <2>5. BeforeOK'
      BY <2>1, <2>2, <2>3 DEF LookupInv, BeforeOK, Lookups
    <2>6. ZoneOK'
      <3>. SUFFICES ASSUME router # None
                    PROVE  \A q \in wire' : q.kind \in {"BrRq", "FwdReq", "LkUp"} => q.zone = Name
        BY <2>2, <2>4 DEF ZoneOK
      <3>. QED  BY <2>1, <2>3 DEF LookupInv, ZoneOK
    <2>7. \A q \in wire' : q.kind = "FwdReq" => q.cable \in Cable
      BY <2>1, <2>3 DEF LookupInv
    <2>8. ASSUME NEW e, Reaches(e) PROVE Reaches(e)'
      BY <2>1, <2>2, <2>4, <2>8 DEF Reaches
    <2>. QED  BY <2>2, <2>4, <2>5, <2>6, <2>7, <2>8 DEF LookupInv
  <1>4. CASE Hear
    BY <1>4, LookupHeard
  <1>5. CASE TimeOut
    BY <1>5, LookupTimedOut
  <1>6. CASE UNCHANGED vars
    <2>1. UNCHANGED <<command, phase, id, zone, router, found, foreign, lost, wire>>
      BY <1>6 DEF vars, asked, learned, history
    <2>2. Name' = Name /\ There' = There /\ \A e : Asks(e)' = Asks(e)
      BY <2>1 DEF Name, There, Asks
    <2>3. \A e : Reaches(e)' <=> Reaches(e)
      BY <2>1, <2>2 DEF Reaches
    <2>4. BeforeOK' /\ ZoneOK'
      BY <2>1, <2>2 DEF LookupInv, BeforeOK, ZoneOK
    <2>. QED  BY <2>1, <2>2, <2>3, <2>4 DEF LookupInv
  <1>. QED  BY <1>1, <1>2, <1>3, <1>4, <1>5, <1>6 DEF Next

\* A lookup finds the zone's entities on every cable of the internet, through
\* the cables of its router and the tunnels (brrq, fwd_req, collect_lookups),
\* when nothing was lost and its last answers have come; and nothing of
\* another zone, unless what others were answered was overheard.
THEOREM LookupsReachTheZone ==
    ASSUME NoStar
    PROVE  Spec => []LookupWhole
  <1>1. AnswersInv /\ LookupInv => LookupWhole
    <2>. SUFFICES ASSUME AnswersInv, LookupInv PROVE LookupWhole
      OBVIOUS
    <2>1. Name = IF command.zone # None THEN command.zone ELSE default_zone(OurCable)
      BY DEF Name, OurZone
    <2>2. foreign = 0 /\ router # None => found \cap Entity \subseteq There
      <3>1. Router \cap Entity = {}
        BY InternetAssumption
      <3>. QED  BY <3>1 DEF LookupInv, ZoneOK
    <2>3. ASSUME phase = "Done", command.what = "Nodes", router # None, ~lost,
                 \A p \in wire : p.kind \notin Lookups
          PROVE  There \subseteq found
      <3>1. \A e \in There : Reaches(e)
        BY <2>3 DEF LookupInv
      <3>2. \A e : \A a \in Asks(e) : a.kind \in Lookups
        BY PacketKinds DEF Asks, Lookups
      <3>. QED  BY <2>3, <3>1, <3>2 DEF Reaches
    <2>. HIDE DEF Name
    <2>. QED  BY <2>1, <2>2, <2>3 DEF LookupWhole, There
  <1>2. Init => AnswersInv /\ LookupInv
    BY AnswersInit, LookupInit
  <1>3. AnswersInv /\ LookupInv /\ [Next]_vars => (AnswersInv /\ LookupInv)'
    BY AnswersNext, LookupNext
  <1>. QED  BY <1>1, <1>2, <1>3, PTL DEF Spec

-----------------------------------------------------------------------------
(* Induction: a set of numbers has a least one, and what goes from each     *)
(* number to the next can be followed to any.                               *)

LEMMA LeastNumber ==
    ASSUME NEW T, T \subseteq Nat, T # {}
    PROVE  \E n \in T : \A m \in T : n <= m
  <1>. DEFINE R == OpToRel(<, Nat)
  <1>1. IsWellFoundedOn(R, Nat)
    BY NatLessThanWellFounded
  <1>2. \A p : p \in R <=> p \in Nat \X Nat /\ p[1] < p[2]
    BY DEF OpToRel
  <1>. HIDE DEF R
  <1>3. PICK n \in T : \A m \in T : ~ (<<m, n>> \in R)
    BY <1>1, WFMin
  <1>4. ASSUME NEW m \in T PROVE n <= m
    <2>1. <<m, n>> \in Nat \X Nat /\ <<m, n>>[1] = m /\ <<m, n>>[2] = n
      OBVIOUS
    <2>2. ~(m < n)
      BY <2>1, <1>2, <1>3
    <2>. QED  BY <2>2
  <1>. QED  BY <1>4

\* Good is a set of numbers with 0 and, below len, with n the next.
LEMMA Induction ==
    ASSUME NEW len \in Nat, NEW Good, 0 \in Good,
           \A n \in 0..(len - 1) : n \in Good => n + 1 \in Good
    PROVE  0..len \subseteq Good
  <1>. DEFINE Bad == {n \in 0..len : n \notin Good}
  <1>. SUFFICES ASSUME Bad # {} PROVE FALSE
    OBVIOUS
  <1>1. PICK n \in Bad : \A m \in Bad : n <= m
    <2>1. Bad \subseteq Nat
      OBVIOUS
    <2>. HIDE DEF Bad
    <2>. QED  BY <2>1, LeastNumber
  <1>2. n \in 0..len /\ n \notin Good /\ n # 0
    BY <1>1
  <1>3. n - 1 \in 0..(len - 1) /\ n - 1 \in 0..len /\ ~(n <= n - 1)
    BY <1>2
  <1>4. n - 1 \in Good
    BY <1>1, <1>3
  <1>. QED  BY <1>2, <1>3, <1>4

\* f goes from base through what step[<<n, x>>] says follows x at n.
Follows(f, len, S, base, step) ==
    f \in [0..len -> S] /\ f[0] = base /\ \A n \in 1..len : f[n] = step[<<n, f[n - 1]>>]

LEMMA Recursion ==
    ASSUME NEW len \in Nat, NEW S, NEW base \in S, NEW step,
           \A n \in 1..len, x \in S : step[<<n, x>>] \in S
    PROVE  \E f : Follows(f, len, S, base, step)
  <1>. DEFINE Is(n, f) == /\ f \in [0..n -> S] /\ f[0] = base
                          /\ \A m \in 1..n : f[m] = step[<<m, f[m - 1]>>]
              Good == {n \in 0..len : \E f : Is(n, f)}
  <1>1. 0 \in Good
    <2>1. Is(0, [n \in 0..0 |-> base])
      OBVIOUS
    <2>2. 0 \in 0..len
      OBVIOUS
    <2>. HIDE DEF Is
    <2>. QED  BY <2>1, <2>2
  <1>2. ASSUME NEW n \in 0..(len - 1), n \in Good
        PROVE  n + 1 \in Good
    <2>1. PICK f : Is(n, f)
      BY <1>2
    <2>2. n \in Nat /\ n + 1 \in 1..len /\ f[n] \in S /\ step[<<n + 1, f[n]>>] \in S
      BY <2>1
    <2>. DEFINE g == [m \in 0..(n + 1) |-> IF m = n + 1 THEN step[<<n + 1, f[n]>>] ELSE f[m]]
    <2>3. g \in [0..(n + 1) -> S] /\ g[0] = base
      BY <2>1, <2>2
    <2>4. ASSUME NEW m \in 1..(n + 1) PROVE g[m] = step[<<m, g[m - 1]>>]
      <3>1. m \in 0..(n + 1) /\ m - 1 \in 0..(n + 1) /\ m - 1 # n + 1
        BY <2>2
      <3>2. g[m - 1] = f[m - 1]
        BY <3>1
      <3>3. CASE m = n + 1
        BY <3>1, <3>2, <3>3, <2>2
      <3>4. CASE m # n + 1
        <4>1. m \in 1..n
          BY <3>4, <2>2
        <4>2. g[m] = f[m]
          BY <3>1, <3>4
        <4>. QED  BY <4>1, <4>2, <3>2, <2>1
      <3>. QED  BY <3>3, <3>4
    <2>5. Is(n + 1, g)
      BY <2>3, <2>4
    <2>. HIDE DEF g, Is
    <2>. QED  BY <2>2, <2>5
  <1>. HIDE DEF Is
  <1>3. 0..len \subseteq Good
    <2>. HIDE DEF Good
    <2>. QED  BY <1>1, <1>2, Induction
  <1>4. len \in Good
    BY <1>3
  <1>. QED  BY <1>4 DEF Is, Follows

-----------------------------------------------------------------------------
(* Lists of zones.                                                          *)

LEMMA ToSetFacts ==
    ASSUME NEW s \in Seq(Zones)
    PROVE  /\ ToSet(s) = {s[i] : i \in 1..Len(s)}
           /\ \A z \in Zones : Append(s, z) \in Seq(Zones) /\ ToSet(Append(s, z)) = ToSet(s) \cup {z}
  <1>1. ToSet(s) = {s[i] : i \in 1..Len(s)}
    BY DEF ToSet
  <1>2. ASSUME NEW z \in Zones
        PROVE  Append(s, z) \in Seq(Zones) /\ ToSet(Append(s, z)) = ToSet(s) \cup {z}
    <2>. DEFINE t == Append(s, z)
    <2>1. /\ t \in Seq(Zones) /\ Len(t) = Len(s) + 1 /\ t[Len(s) + 1] = z
          /\ \A i \in 1..Len(s) : t[i] = s[i]
      OBVIOUS
    <2>2. Len(s) \in Nat /\ 1..Len(t) = 1..Len(s) \cup {Len(s) + 1}
      BY <2>1
    <2>3. ToSet(t) = {t[i] : i \in 1..Len(t)}
      BY <2>1 DEF ToSet
    <2>. HIDE DEF t
    <2>4. \A x : x \in ToSet(t) <=> (\E i \in 1..Len(s) : x = s[i]) \/ x = z
      BY <2>1, <2>2, <2>3
    <2>5. \A x : x \in ToSet(s) <=> \E i \in 1..Len(s) : x = s[i]
      BY <1>1
    <2>6. ToSet(t) = ToSet(s) \cup {z}
      BY <2>4, <2>5
    <2>. QED  BY <2>1, <2>6 DEF t
  <1>. QED  BY <1>1, <1>2

\* Every name is among those of the list it is put behind, and no other.
LEMMA WithNamesFacts ==
    ASSUME NEW old \in Seq(Zones), NEW names \in Seq(Zones)
    PROVE  WithNames(old, names) \in Seq(Zones) /\ ToSet(WithNames(old, names)) = ToSet(old) \cup ToSet(names)
  <1>. DEFINE len == Len(names)
              S == Seq(Zones)
              After(n, p) == IF names[n] \in ToSet(p) THEN p ELSE Append(p, names[n])
              Is(f) == f = [n \in 0..len |-> IF n = 0 THEN old
                                             ELSE IF names[n] \in ToSet(f[n - 1]) THEN f[n - 1]
                                             ELSE Append(f[n - 1], names[n])]
              step == [x \in (1..len) \X S |-> After(x[1], x[2])]
              upto == CHOOSE f : Is(f)
  <1>1. len \in Nat /\ \A n \in 1..len : names[n] \in Zones
    OBVIOUS
  <1>2. ASSUME NEW n \in 1..len, NEW p \in S
        PROVE  After(n, p) \in S /\ ToSet(After(n, p)) = ToSet(p) \cup {names[n]}
    <2>1. CASE names[n] \in ToSet(p)
      BY <2>1
    <2>2. CASE names[n] \notin ToSet(p)
      BY <2>2, <1>1, ToSetFacts
    <2>. QED  BY <2>1, <2>2
  <1>3. \A n \in 1..len, p \in S : step[<<n, p>>] = After(n, p)
    OBVIOUS
  <1>4. PICK f \in [0..len -> S] : f[0] = old /\ \A n \in 1..len : f[n] = step[<<n, f[n - 1]>>]
    <2>1. old \in S /\ \A n \in 1..len, x \in S : step[<<n, x>>] \in S
      BY <1>2, <1>3
    <2>. HIDE DEF step, len, S
    <2>2. \E f : Follows(f, len, S, old, step)
      BY <1>1, <2>1, Recursion
    <2>. QED  BY <2>2 DEF Follows
  <1>5. \A n \in 1..len : f[n - 1] \in S /\ f[n] = After(n, f[n - 1])
    <2>. SUFFICES ASSUME NEW n \in 1..len PROVE f[n - 1] \in S /\ f[n] = After(n, f[n - 1])
      OBVIOUS
    <2>. HIDE DEF step, After, len, S
    <2>1. n - 1 \in 0..len
      BY <1>1
    <2>. QED  BY <2>1, <1>3, <1>4
  <1>6. Is(f)
    <2>1. ASSUME NEW n \in 0..len
          PROVE  f[n] = IF n = 0 THEN old ELSE IF names[n] \in ToSet(f[n - 1]) THEN f[n - 1]
                                               ELSE Append(f[n - 1], names[n])
      <3>1. CASE n = 0
        BY <3>1, <1>4
      <3>2. CASE n # 0
        <4>1. n \in 1..len
          BY <3>2, <1>1
        <4>. QED  BY <3>2, <4>1, <1>5
      <3>. QED  BY <3>1, <3>2
    <2>. HIDE DEF step, upto, len, S
    <2>. QED  BY <2>1, <1>4
  <1>7. Is(upto)
    <2>. HIDE DEF Is
    <2>. QED  BY <1>6
  <1>8. WithNames(old, names) = upto[len]
    BY DEF WithNames
  <1>9. upto[0] = old /\ \A n \in 1..len : upto[n] = After(n, upto[n - 1])
    <2>. HIDE DEF upto, len
    <2>1. ASSUME NEW g, Is(g)
          PROVE  g[0] = old /\ \A n \in 1..len : g[n] = After(n, g[n - 1])
      <3>1. 0 \in 0..len /\ \A n \in 1..len : n \in 0..len /\ n # 0
        BY <1>1
      <3>2. \A n \in 0..len : g[n] = IF n = 0 THEN old ELSE After(n, g[n - 1])
        BY <2>1
      <3>. HIDE DEF After, Is
      <3>. QED  BY <3>1, <3>2
    <2>. HIDE DEF Is
    <2>. QED  BY <2>1, <1>7
  <1>. DEFINE Seen(n) == {names[i] : i \in 1..n}
              Good == {n \in 0..len : upto[n] \in S /\ ToSet(upto[n]) = ToSet(old) \cup Seen(n)}
  <1>10. 0 \in Good
    <2>. HIDE DEF upto, len
    <2>. QED  BY <1>1, <1>9
  <1>11. ASSUME NEW n \in 0..(len - 1), n \in Good PROVE n + 1 \in Good
    <2>. HIDE DEF upto, len, S
    <2>1. n \in Nat /\ n + 1 \in 1..len /\ n + 1 \in 0..len /\ (n + 1) - 1 = n
      BY <1>1
    <2>2. upto[n + 1] = After(n + 1, upto[n])
      BY <2>1, <1>9
    <2>3. Seen(n + 1) = Seen(n) \cup {names[n + 1]}
      <3>1. \A i : i \in 1..(n + 1) <=> i \in 1..n \/ i = n + 1
        BY <2>1
      <3>. QED  BY <3>1
    <2>. HIDE DEF After, Seen
    <2>4. upto[n + 1] \in S /\ ToSet(upto[n + 1]) = ToSet(upto[n]) \cup {names[n + 1]}
      BY <2>1, <2>2, <1>2, <1>11
    <2>. QED  BY <2>1, <2>3, <2>4, <1>11
  <1>12. ToSet(names) = Seen(len)
    BY ToSetFacts
  <1>. HIDE DEF upto, len, Good
  <1>13. len \in Good
    <2>1. 0..len \subseteq Good
      BY <1>1, <1>10, <1>11, Induction
    <2>. QED  BY <2>1, <1>1
  <1>. QED  BY <1>8, <1>12, <1>13 DEF Good


\* The list a router keeps names every zone of the internet.
LEMMA AllZonesFacts == all_zones \in Seq(Zones) /\ ToSet(all_zones) = Zones
  <1>. DEFINE len == Len(Starts)
              S == Seq(Zones)
              After(n, p) == WithNames(p, CableZones[Starts[n]])
              Is(f) == f = [n \in 0..len |-> IF n = 0 THEN <<>> ELSE WithNames(f[n - 1], CableZones[Starts[n]])]
              step == [x \in (1..len) \X S |-> After(x[1], x[2])]
              upto == CHOOSE f : Is(f)
  <1>1. len \in Nat /\ \A n \in 1..len : Starts[n] \in Cable
    BY InternetAssumption
  <1>2. ASSUME NEW n \in 1..len, NEW p \in S
        PROVE  After(n, p) \in S /\ ToSet(After(n, p)) = ToSet(p) \cup ToSet(CableZones[Starts[n]])
    BY <1>1, ZoneFacts, WithNamesFacts
  <1>3. \A n \in 1..len, p \in S : step[<<n, p>>] = After(n, p)
    OBVIOUS
  <1>. DEFINE empty == <<>>
  <1>0. empty \in S /\ ToSet(empty) = {}
    BY DEF ToSet
  <1>. HIDE DEF empty
  <1>4. PICK f \in [0..len -> S] : f[0] = empty /\ \A n \in 1..len : f[n] = step[<<n, f[n - 1]>>]
    <2>. HIDE DEF After
    <2>1. empty \in S /\ \A n \in 1..len, x \in S : step[<<n, x>>] \in S
      BY <1>0, <1>2, <1>3
    <2>. HIDE DEF step, len, S
    <2>2. \E f : Follows(f, len, S, empty, step)
      BY <1>1, <2>1, Recursion
    <2>. QED  BY <2>2 DEF Follows
  <1>5. \A n \in 1..len : f[n - 1] \in S /\ f[n] = After(n, f[n - 1])
    <2>. SUFFICES ASSUME NEW n \in 1..len PROVE f[n - 1] \in S /\ f[n] = After(n, f[n - 1])
      OBVIOUS
    <2>. HIDE DEF step, After, len, S
    <2>1. n - 1 \in 0..len
      BY <1>1
    <2>. QED  BY <2>1, <1>3, <1>4
  <1>6. Is(f)
    <2>1. ASSUME NEW n \in 0..len
          PROVE  f[n] = IF n = 0 THEN <<>> ELSE WithNames(f[n - 1], CableZones[Starts[n]])
      <3>1. CASE n = 0
        BY <3>1, <1>4 DEF empty
      <3>2. CASE n # 0
        <4>1. n \in 1..len
          BY <3>2, <1>1
        <4>. QED  BY <3>2, <4>1, <1>5
      <3>. QED  BY <3>1, <3>2
    <2>. HIDE DEF step, upto, len, S
    <2>. QED  BY <2>1, <1>4
  <1>7. Is(upto)
    <2>. HIDE DEF Is
    <2>. QED  BY <1>6
  <1>8. all_zones = upto[len]
    BY DEF all_zones
  <1>9. upto[0] = empty /\ \A n \in 1..len : upto[n] = After(n, upto[n - 1])
    <2>. HIDE DEF upto, len
    <2>1. ASSUME NEW g, Is(g)
          PROVE  g[0] = empty /\ \A n \in 1..len : g[n] = After(n, g[n - 1])
      <3>1. 0 \in 0..len /\ \A n \in 1..len : n \in 0..len /\ n # 0
        BY <1>1
      <3>2. \A n \in 0..len : g[n] = IF n = 0 THEN empty ELSE After(n, g[n - 1])
        BY <2>1 DEF empty
      <3>. HIDE DEF After, Is
      <3>. QED  BY <3>1, <3>2
    <2>. HIDE DEF Is
    <2>. QED  BY <2>1, <1>7
  <1>. DEFINE Seen(n) == UNION {ToSet(CableZones[Starts[i]]) : i \in 1..n}
              Good == {n \in 0..len : upto[n] \in S /\ ToSet(upto[n]) = Seen(n)}
  <1>10. 0 \in Good
    <2>. HIDE DEF upto, len
    <2>. QED  BY <1>0, <1>1, <1>9
  <1>11. ASSUME NEW n \in 0..(len - 1), n \in Good PROVE n + 1 \in Good
    <2>. HIDE DEF upto, len, S
    <2>1. n \in Nat /\ n + 1 \in 1..len /\ n + 1 \in 0..len /\ (n + 1) - 1 = n
      BY <1>1
    <2>2. upto[n + 1] = After(n + 1, upto[n])
      BY <2>1, <1>9
    <2>3. Seen(n + 1) = Seen(n) \cup ToSet(CableZones[Starts[n + 1]])
      <3>1. \A i : i \in 1..(n + 1) <=> i \in 1..n \/ i = n + 1
        BY <2>1
      <3>. QED  BY <3>1
    <2>. HIDE DEF After, Seen
    <2>4. upto[n + 1] \in S /\ ToSet(upto[n + 1]) = ToSet(upto[n]) \cup ToSet(CableZones[Starts[n + 1]])
      BY <2>1, <2>2, <1>2, <1>11
    <2>. QED  BY <2>1, <2>3, <2>4, <1>11
  <1>12. Zones = Seen(len)
    <2>1. Cable = {Starts[i] : i \in 1..len}
      <3>1. Starts \in Seq(Cable) /\ ToSet(Starts) = Cable
        BY InternetAssumption
      <3>2. DOMAIN Starts = 1..len
        BY <3>1
      <3>3. ToSet(Starts) = {Starts[i] : i \in 1..len}
        BY <3>2 DEF ToSet
      <3>. QED  BY <3>1, <3>3
    <2>. QED  BY <2>1 DEF Zones
  <1>. HIDE DEF upto, len, Good
  <1>13. len \in Good
    <2>1. 0..len \subseteq Good
      BY <1>1, <1>10, <1>11, Induction
    <2>. QED  BY <2>1, <1>1
  <1>. QED  BY <1>8, <1>12, <1>13 DEF Good

\* A page begins where it was asked for and ends after PageNames names or
\* with the list, which it says.
LEMMA PageFacts ==
    ASSUME NEW s \in 1..Len(all_zones)
    PROVE  /\ page(s) \in Seq(Zones)
           /\ \A i \in 1..Len(page(s)) : page(s)[i] = all_zones[s + i - 1]
           /\ Len(rest(s)) <= PageNames => Len(page(s)) = Len(all_zones) - s + 1
           /\ ~(Len(rest(s)) <= PageNames) => Len(page(s)) = PageNames /\ s + PageNames <= Len(all_zones)
  <1>. DEFINE all == all_zones
              r == SubSeq(all, s, Len(all))
              first == SubSeq(r, 1, PageNames)
  <1>1. all \in Seq(Zones) /\ PageNames \in Nat \ {0}
    BY AllZonesFacts, RequestsAssumption
  <1>. HIDE DEF all
  <1>2. s \in 1..Len(all) /\ Len(all) \in Nat
    BY <1>1 DEF all
  <1>3. r \in Seq(Zones) /\ Len(r) = Len(all) - s + 1 /\ \A i \in 1..Len(r) : r[i] = all[s + i - 1]
    BY <1>1, <1>2
  <1>4. rest(s) = r
    BY <1>2 DEF rest, all
  <1>. HIDE DEF r
  <1>5. ~(Len(r) <= PageNames) =>
            first \in Seq(Zones) /\ Len(first) = PageNames /\ \A i \in 1..PageNames : first[i] = r[i]
    BY <1>1, <1>2, <1>3
  <1>6. page(s) = IF Len(r) <= PageNames THEN r ELSE first
    BY <1>4 DEF page
  <1>. HIDE DEF first
  <1>7. CASE Len(r) <= PageNames
    BY <1>3, <1>4, <1>6, <1>7 DEF all
  <1>8. CASE ~(Len(r) <= PageNames)
    <2>1. page(s) = first
      BY <1>6, <1>8
    <2>2. \A i \in 1..PageNames : i \in 1..Len(r) /\ first[i] = all[s + i - 1]
      <3>1. Len(r) \in Nat /\ Len(r) > PageNames
        BY <1>1, <1>2, <1>3, <1>8
      <3>2. \A i \in 1..PageNames : i \in 1..Len(r)
        BY <3>1, <1>1
      <3>. QED  BY <3>2, <1>3, <1>5, <1>8
    <2>. QED  BY <1>1, <1>2, <1>3, <1>4, <1>5, <1>8, <2>1, <2>2 DEF all
  <1>. QED  BY <1>7, <1>8

-----------------------------------------------------------------------------
(* A zone list is whole.                                                    *)

\* zone_list stops asking after MAX_ZONE_PAGES pages.
FewZones == Len(all_zones) <= MaxPages * PageNames

\* The reply to a request of ours, whichever of its retries is answered, is
\* the page asked for.
PagesOK ==
    \A p \in wire :
        /\ p.kind = "GetZoneList" => /\ p.n # 0 /\ p.id \in Nat /\ p.id <= id
                                     /\ phase = "Zones" /\ p.id = id => p.start = start
        /\ p.kind = "ZoneReply" /\ p.n # 0 =>
              /\ p.id \in Nat /\ p.id <= id
              /\ phase = "Zones" /\ p.id = id =>
                     p.names = page(start) /\ (p.last <=> Len(rest(start)) <= PageNames)

NoPage(q) == q.kind # "GetZoneList" /\ (q.kind = "ZoneReply" => q.n = 0)
NothingYet ==
    phase = "NetInfo" => /\ id = 1 /\ router = None /\ start = 1 /\ zones = <<>>
                         /\ \A p \in wire : NoPage(p)

\* Page after page, each of PageNames names: where the next one starts, the
\* names so far end.
SoFar ==
    phase = "Zones" =>
        /\ router # None /\ id >= 2 /\ start = (id - 2) * PageNames + 1
        /\ start \in 1..Len(all_zones)
        /\ zones \in Seq(Zones) /\ ToSet(zones) = {all_zones[i] : i \in 1..(start - 1)}

AllFound ==
    phase = "Done" /\ command.what = "Zones" /\ router # None /\ ~failed => ToSet(zones) = Zones

ListOK ==
    /\ id \in Nat \ {0} /\ tries \in Nat /\ messages = <<>>
    /\ command.what = "Zones" => phase \in {"NetInfo", "Zones", "Done"}
    /\ PagesOK /\ NothingYet /\ SoFar /\ AllFound

LEMMA ListInit == Init => ListOK
  <1>. SUFFICES ASSUME Init PROVE ListOK
    OBVIOUS
  <1>1. /\ phase = "NetInfo" /\ tries = 1 /\ id = 1 /\ router = None /\ start = 1 /\ zones = <<>>
        /\ messages = <<>> /\ wire = {GetNetInfo}
    BY DEF Init
  <1>2. \A p \in wire : p.kind = "GetNetInfo"
    BY <1>1, PacketKinds
  <1>. QED  BY <1>1, <1>2 DEF ListOK, PagesOK, NothingYet, NoPage, SoFar, AllFound

\* What carries no page, at any time but when a page is asked for or heard.
LEMMA ListQuiet ==
    ASSUME ListOK, NEW more, wire' \subseteq wire \cup more, \A q \in more : NoPage(q),
           UNCHANGED <<command, router, start, zones, failed, messages, id>>, tries' \in Nat,
           \/ phase' = phase
           \/ command.what # "Zones" /\ phase' \notin {"NetInfo", "Zones"}
    PROVE  ListOK'
  <1>1. \A q \in wire' : q \in wire \/ NoPage(q)
    OBVIOUS
  <1>2. PagesOK'
    <2>. SUFFICES ASSUME NEW p \in wire', p \in wire
                  PROVE  /\ p.kind = "GetZoneList" => /\ p.n # 0 /\ p.id \in Nat /\ p.id <= id
                                                      /\ phase' = "Zones" /\ p.id = id => p.start = start
                         /\ p.kind = "ZoneReply" /\ p.n # 0 =>
                               /\ p.id \in Nat /\ p.id <= id
                               /\ phase' = "Zones" /\ p.id = id =>
                                      p.names = page(start) /\ (p.last <=> Len(rest(start)) <= PageNames)
      BY <1>1 DEF PagesOK, NoPage
    <2>1. phase' = "Zones" => phase = "Zones"
      OBVIOUS
    <2>. QED  BY <2>1 DEF ListOK, PagesOK
  <1>3. NothingYet'
    BY <1>1 DEF ListOK, NothingYet
  <1>4. SoFar'
    BY DEF ListOK, SoFar
  <1>5. AllFound'
    BY DEF ListOK, AllFound
  <1>6. command'.what = "Zones" => phase' \in {"NetInfo", "Zones", "Done"}
    BY DEF ListOK
  <1>. QED  BY <1>2, <1>3, <1>4, <1>5, <1>6 DEF ListOK

\* The first page, when the command is to list the zones.
LEMMA ListBegun ==
    ASSUME AnswersInv, ListOK, phase = "NetInfo", NEW w, w \subseteq wire, NEW r, NEW z, Begin(w, r, z),
           router' = r, UNCHANGED <<command, messages>>
    PROVE  ListOK'
  <1>1. id = 1 /\ start = 1 /\ zones = <<>> /\ \A p \in wire : NoPage(p)
    BY DEF ListOK, NothingYet
  <1>2. command.what \in {"Nodes", "Ping", "PingName", "Zones"}
    BY RequestsAssumption DEF AnswersInv
  <1>3. ASSUME NEW q, NoPage(q), wire' \subseteq w \cup {q}, phase' \notin {"NetInfo", "Zones"},
               id' \in {1, 2}, tries' \in Nat, command.what = "Zones" => r = None /\ phase' = "Done"
        PROVE  ListOK'
    <2>1. \A p \in wire' : NoPage(p)
      BY <1>1, <1>3
    <2>. QED  BY <2>1, <1>3 DEF ListOK, PagesOK, NoPage, NothingYet, SoFar, AllFound
  <1>4. CASE command.what \in {"Nodes", "PingName"}
    <2>1. AskWho(w, r, z)
      BY <1>4, <1>2 DEF Begin
    <2>2. lookup_request(next_id, r, z).kind \in {"BrRq", "LkUp"}
      BY PacketKinds DEF lookup_request
    <2>3. /\ phase' = "Lookup" /\ id' = 2 /\ tries' = 1
          /\ wire' = w \cup {lookup_request(next_id, r, z)}
      BY <2>1, <1>1 DEF AskWho, Wait, next_id
    <2>. QED  BY <1>3, <1>4, <2>2, <2>3 DEF NoPage
  <1>5. CASE command.what = "Ping"
    <2>1. Probe(w, 0)
      BY <1>5, <1>2 DEF Begin
    <2>2. wire' \subseteq w \cup {EchoRequest(0)} /\ phase' \in {"Ping", "Done"} /\ id' = 1 /\ tries' \in Nat
      BY <2>1, <1>1 DEF Probe, Wait, Stop, ListOK
    <2>3. NoPage(EchoRequest(0))
      BY PacketKinds DEF NoPage
    <2>. QED  BY <1>3, <1>5, <2>2, <2>3
  <1>6. CASE command.what = "Zones" /\ r = None
    <2>1. Stop(w)
      BY <1>6, <1>2 DEF Begin
    <2>2. wire' \subseteq w \cup {GetNetInfo} /\ phase' = "Done" /\ id' = 1 /\ tries' \in Nat
      BY <2>1, <1>1 DEF Stop, ListOK
    <2>3. NoPage(GetNetInfo)
      BY PacketKinds DEF NoPage
    <2>. QED  BY <1>3, <1>6, <2>2, <2>3
  <1>7. CASE command.what = "Zones" /\ r # None
    <2>1. AskPage(w, 1) /\ UNCHANGED list
      BY <1>7, <1>2 DEF Begin
    <2>2. /\ phase' = "Zones" /\ tries' = 1 /\ id' = 2 /\ wire' = w \cup {GetZoneList(2, 1, 1)}
          /\ start' = 1 /\ zones' = <<>>
      BY <2>1, <1>1, RequestsAssumption DEF AskPage, Wait, next_id, list
    <2>3. Len(all_zones) \in Nat \ {0}
      <3>1. \E i \in DOMAIN all_zones : TRUE
        BY AllZonesFacts, ZoneFacts DEF ToSet
      <3>. QED  BY <3>1, AllZonesFacts
    <2>4. PagesOK'
      BY <1>1, <2>2, PacketKinds DEF PagesOK, NoPage
    <2>5. SoFar'
      <3>. DEFINE empty == <<>>
      <3>1. empty \in Seq(Zones) /\ ToSet(empty) = {}
        BY DEF ToSet
      <3>2. (2 - 2) * PageNames + 1 = 1
        BY RequestsAssumption
      <3>3. {all_zones[i] : i \in 1..(1 - 1)} = {}
        OBVIOUS
      <3>. QED  BY <1>7, <2>2, <2>3, <3>1, <3>2, <3>3 DEF SoFar
    <2>. QED  BY <2>2, <2>4, <2>5 DEF ListOK, NothingYet, AllFound
  <1>. QED  BY <1>2, <1>4, <1>5, <1>6, <1>7


LEMMA ListServed ==
    ASSUME ListOK, Serve
    PROVE  ListOK'
  <1>1. PICK p \in wire : p.kind \in Requested /\ wire' = (wire \ {p}) \cup handle(p)
    BY DEF Serve
  <1>2. UNCHANGED <<command, phase, tries, id, router, start, zones, failed, messages>>
    BY DEF Serve, node, asked, learned, list
  <1>3. CASE p.kind # "GetZoneList"
    <2>. DEFINE more == handle(p)
    <2>1. \A q \in more : NoPage(q)
      <3>. SUFFICES ASSUME NEW q \in more PROVE NoPage(q)
        OBVIOUS
      <3>1. q.kind \in {"NetInfoReply", "LkUp", "FwdReq", "LkUpReply", "EchoReply"}
        BY <1>1, <1>3, HandleKinds
      <3>. QED  BY <3>1 DEF NoPage
    <2>2. wire' \subseteq wire \cup more /\ tries' \in Nat
      BY <1>1, <1>2 DEF ListOK
    <2>. HIDE DEF more
    <2>. QED  BY <1>2, <2>1, <2>2, ListQuiet
  <1>4. CASE p.kind = "GetZoneList"
    <2>. DEFINE end == Len(rest(p.start)) <= PageNames
                q == ZoneReply(p.id, page(p.start), end, p.n)
    <2>1. handle(p) = {q}
      BY <1>1, <1>4, HandleCases DEF zone_list
    <2>2. /\ q.kind = "ZoneReply" /\ q.id = p.id /\ q.names = page(p.start)
          /\ q.last = end /\ q.n = p.n
      BY Zenon DEF ZoneReply
    <2>3. q.last <=> Len(rest(p.start)) <= PageNames
      BY <2>2, Zenon
    <2>. HIDE DEF q, end
    <2>4. /\ p.n # 0 /\ p.id \in Nat /\ p.id <= id
          /\ phase = "Zones" /\ p.id = id => p.start = start
      BY <1>1, <1>4 DEF ListOK, PagesOK
    <2>5. PagesOK'
      <3>. SUFFICES ASSUME NEW x \in wire'
                    PROVE  /\ x.kind = "GetZoneList" => /\ x.n # 0 /\ x.id \in Nat /\ x.id <= id
                                                        /\ phase = "Zones" /\ x.id = id => x.start = start
                           /\ x.kind = "ZoneReply" /\ x.n # 0 =>
                                 /\ x.id \in Nat /\ x.id <= id
                                 /\ phase = "Zones" /\ x.id = id =>
                                        x.names = page(start) /\ (x.last <=> Len(rest(start)) <= PageNames)
        BY <1>2 DEF PagesOK
      <3>1. CASE x \in wire
        BY <3>1 DEF ListOK, PagesOK
      <3>2. CASE x = q
        BY <3>2, <2>2, <2>3, <2>4
      <3>. QED  BY <3>1, <3>2, <1>1, <2>1
    <2>6. phase # "NetInfo"
      BY <1>1, <1>4 DEF ListOK, NothingYet, NoPage
    <2>. QED  BY <1>2, <2>5, <2>6 DEF ListOK, NothingYet, SoFar, AllFound
  <1>. QED  BY <1>3, <1>4

\* The page heard is the next one: the names so far and its names are those
\* up to where the page after it starts, and the last page ends the list.
LEMMA ListHeardPage ==
    ASSUME FewZones, ListOK, ~stray', NEW p \in wire, HearZones(p)
    PROVE  ListOK'
  <1>. DEFINE all == all_zones
  <1>1. /\ phase = "Zones" /\ p.kind = "ZoneReply" /\ p.id = id /\ p.n # 0
        /\ messages = <<>> /\ messages' = <<>> /\ UNCHANGED <<command, router, failed>>
    BY DEF HearZones, zone_reply_matches, learned, ListOK
  <1>2. p.names = page(start) /\ (p.last <=> Len(rest(start)) <= PageNames)
    BY <1>1 DEF ListOK, PagesOK
  <1>3. /\ router # None /\ id >= 2 /\ id \in Nat /\ start = (id - 2) * PageNames + 1
        /\ start \in 1..Len(all) /\ tries \in Nat
        /\ zones \in Seq(Zones) /\ ToSet(zones) = {all[i] : i \in 1..(start - 1)}
    BY <1>1 DEF ListOK, SoFar
  <1>4. Append_capped(p)[1] = p
    <2>1. Append_capped(p) = Append(<<>>, p)
      BY <1>1, RequestsAssumption DEF Append_capped
    <2>. QED  BY <2>1
  <1>. DEFINE next == next_start(start, p)
  <1>5. /\ zones' = WithNames(zones, page(start))
        /\ IF next = 0 THEN start' = start /\ Stop(wire \ {p})
           ELSE start' = next /\ AskPage(wire \ {p}, next)
    BY <1>2, <1>4 DEF HearZones
  <1>6. /\ page(start) \in Seq(Zones)
        /\ \A i \in 1..Len(page(start)) : page(start)[i] = all[start + i - 1]
        /\ Len(rest(start)) <= PageNames => Len(page(start)) = Len(all) - start + 1
        /\ ~(Len(rest(start)) <= PageNames) => Len(page(start)) = PageNames /\ start + PageNames <= Len(all)
    BY <1>3, PageFacts
  <1>7. all \in Seq(Zones) /\ ToSet(all) = Zones /\ PageNames \in Nat \ {0} /\ MaxPages \in Nat \ {0}
    BY AllZonesFacts, RequestsAssumption
  <1>. HIDE DEF all
  <1>8. /\ zones' \in Seq(Zones)
        /\ ToSet(zones') = {all[i] : i \in 1..(start + Len(page(start)) - 1)}
    <2>. DEFINE names == page(start)
    <2>1. names \in Seq(Zones) /\ \A i \in 1..Len(names) : names[i] = all[start + i - 1]
      BY <1>6
    <2>. HIDE DEF names
    <2>2. zones' \in Seq(Zones) /\ ToSet(zones') = ToSet(zones) \cup ToSet(names)
      BY <1>3, <1>5, <2>1, WithNamesFacts DEF names
    <2>3. ToSet(names) = {names[i] : i \in 1..Len(names)}
      BY <2>1, ToSetFacts
    <2>4. start \in Nat \ {0} /\ Len(names) \in Nat
      BY <1>3, <2>1
    <2>5. ASSUME NEW i \in 1..(start + Len(names) - 1), i \notin 1..(start - 1)
          PROVE  \E j \in 1..Len(names) : all[i] = names[j]
      <3>1. i - start + 1 \in 1..Len(names) /\ start + (i - start + 1) - 1 = i
        BY <2>4, <2>5
      <3>. QED  BY <3>1, <2>1
    <2>6. ASSUME NEW j \in 1..Len(names)
          PROVE  \E i \in 1..(start + Len(names) - 1) : names[j] = all[i]
      <3>1. start + j - 1 \in 1..(start + Len(names) - 1)
        BY <2>4
      <3>. QED  BY <3>1, <2>1
    <2>7. \A i \in 1..(start - 1) : i \in 1..(start + Len(names) - 1)
      BY <2>4
    <2>8. \A x : x \in ToSet(zones') <=> x \in {all[i] : i \in 1..(start + Len(names) - 1)}
      BY <1>3, <2>2, <2>3, <2>5, <2>6, <2>7
    <2>. QED  BY <2>2, <2>8 DEF names
  <1>9. CASE Len(rest(start)) <= PageNames
    <2>1. next = 0
      BY <1>2, <1>9 DEF next_start
    <2>2. Stop(wire \ {p})
      BY <1>5, <2>1
    <2>3. phase' = "Done" /\ wire' \subseteq wire /\ UNCHANGED <<tries, id>>
      BY <2>2 DEF Stop
    <2>4. start + Len(page(start)) - 1 = Len(all)
      BY <1>3, <1>6, <1>7, <1>9
    <2>5. ToSet(zones') = Zones
      <3>1. ToSet(all) = {all[i] : i \in 1..Len(all)}
        BY <1>7, ToSetFacts
      <3>. QED  BY <1>7, <1>8, <2>4, <3>1
    <2>6. PagesOK'
      BY <2>3 DEF ListOK, PagesOK
    <2>. QED  BY <1>1, <1>3, <2>3, <2>5, <2>6 DEF ListOK, NothingYet, SoFar, AllFound
  <1>10. CASE ~(Len(rest(start)) <= PageNames)
    <2>1. Len(page(start)) = PageNames /\ start + PageNames <= Len(all) /\ page(start) # <<>>
      BY <1>6, <1>7, <1>10
    <2>2. next = start + PageNames
      BY <1>2, <1>10, <2>1 DEF next_start
    <2>3. next # 0 /\ next \in 1..Len(all)
      BY <1>3, <1>7, <2>1, <2>2
    <2>4. start' = next /\ AskPage(wire \ {p}, next)
      BY <1>5, <2>3
    <2>5. next = (id - 1) * PageNames + 1
      BY <1>3, <1>7, <2>2
    <2>6. ~(id > MaxPages)
      <3>. SUFFICES ASSUME id > MaxPages PROVE FALSE
        OBVIOUS
      <3>1. Len(all) <= MaxPages * PageNames
        BY DEF FewZones, all
      <3>2. MaxPages * PageNames <= (id - 1) * PageNames
        BY <1>3, <1>7
      <3>. QED  BY <1>3, <1>7, <2>3, <2>5, <3>1, <3>2
    <2>7. /\ id' = id + 1 /\ phase' = "Zones" /\ tries' = 1
          /\ wire' = (wire \ {p}) \cup {GetZoneList(id + 1, next, 1)}
      BY <2>4, <2>6 DEF AskPage, Wait, next_id
    <2>. HIDE DEF next
    <2>8. PagesOK'
      <3>. SUFFICES ASSUME NEW x \in wire'
                    PROVE  /\ x.kind = "GetZoneList" => /\ x.n # 0 /\ x.id \in Nat /\ x.id <= id'
                                                        /\ x.id = id' => x.start = start'
                           /\ x.kind = "ZoneReply" /\ x.n # 0 => x.id \in Nat /\ x.id < id'
        BY <1>3, <2>7 DEF PagesOK
      <3>1. CASE x \in wire
        <4>1. /\ x.kind = "GetZoneList" => x.n # 0 /\ x.id \in Nat /\ x.id <= id
              /\ x.kind = "ZoneReply" /\ x.n # 0 => x.id \in Nat /\ x.id <= id
          BY <3>1 DEF ListOK, PagesOK
        <4>. QED  BY <4>1, <1>3, <2>7
      <3>2. CASE x = GetZoneList(id + 1, next, 1)
        BY <3>2, <1>3, <2>4, <2>7, PacketKinds
      <3>. QED  BY <3>1, <3>2, <2>7
    <2>9. start + Len(page(start)) - 1 = start' - 1
      BY <1>3, <1>7, <2>1, <2>2, <2>4
    <2>10. SoFar'
      BY <1>1, <1>3, <1>8, <2>3, <2>4, <2>5, <2>7, <2>9 DEF SoFar, all
    <2>. QED  BY <1>1, <1>3, <2>7, <2>8, <2>10 DEF ListOK, NothingYet, AllFound
  <1>. QED  BY <1>9, <1>10


LEMMA ListHeard ==
    ASSUME FewZones, AnswersInv, ListOK, ~stray', Hear
    PROVE  ListOK'
  <1>1. PICK p \in wire : /\ p.kind \notin Requested
                          /\ HearNetInfo(p) \/ HearName(p) \/ HearEcho(p) \/ HearZones(p) \/ HearOther(p)
    BY DEF Hear
  <1>. DEFINE more == {}
  <1>2. \A q \in more : NoPage(q)
    OBVIOUS
  <1>3. CASE HearNetInfo(p)
    <2>1. /\ phase = "NetInfo" /\ Begin(wire \ {p}, router', zone')
          /\ UNCHANGED <<command, messages>>
      BY <1>3 DEF HearNetInfo
    <2>. QED  BY <2>1, ListBegun
  <1>4. CASE HearName(p)
    <2>1. /\ wire' \subseteq wire \cup more /\ tries' \in Nat
          /\ UNCHANGED <<command, phase, router, start, zones, failed, messages, id>>
      BY <1>4 DEF HearName, learned, list, asked, ListOK
    <2>. HIDE DEF more
    <2>. QED  BY <1>2, <2>1, ListQuiet
  <1>5. CASE HearEcho(p)
    <2>1. /\ wire' \subseteq wire \cup more /\ tries' \in Nat /\ phase = "Ping" /\ phase' = "Pace"
          /\ UNCHANGED <<command, router, start, zones, failed, messages, id>>
      BY <1>5 DEF HearEcho, learned, list, ListOK
    <2>2. command.what # "Zones" /\ phase' \notin {"NetInfo", "Zones"}
      BY <2>1 DEF ListOK
    <2>. HIDE DEF more
    <2>. QED  BY <1>2, <2>1, <2>2, ListQuiet
  <1>6. CASE HearZones(p)
    BY <1>6, ListHeardPage
  <1>7. CASE HearOther(p)
    <2>1. p.kind # "ZoneReply"
      BY <1>7 DEF HearOther
    <2>2. /\ wire' \subseteq wire \cup more /\ tries' \in Nat
          /\ UNCHANGED <<command, phase, router, start, zones, failed, messages, id>>
      BY <1>7, <2>1 DEF HearOther, learned, list, asked, ListOK
    <2>. HIDE DEF more
    <2>. QED  BY <1>2, <2>2, ListQuiet
  <1>. QED  BY <1>1, <1>3, <1>4, <1>5, <1>6, <1>7

LEMMA ListTimedOut ==
    ASSUME AnswersInv, ListOK, TimeOut
    PROVE  ListOK'
  <1>1. UNCHANGED <<command, router, messages>>
    BY TimeOutSends DEF AnswersInv
  <1>2. tries \in Nat /\ tries + 1 \in Nat /\ tries + 1 # 0
    BY DEF ListOK
  <1>3. ASSUME NEW q, NoPage(q), wire' \subseteq wire \cup {q}, tries' \in Nat,
               UNCHANGED <<start, zones, failed, id>>,
               phase' = phase \/ (command.what # "Zones" /\ phase' \notin {"NetInfo", "Zones"})
        PROVE  ListOK'
    <2>. DEFINE more == {q}
    <2>1. wire' \subseteq wire \cup more /\ \A x \in more : NoPage(x)
      BY <1>3
    <2>. HIDE DEF more
    <2>. QED  BY <1>1, <1>3, <2>1, ListQuiet
  <1>4. CASE NoNetInfo
    <2>1. phase = "NetInfo"
      BY <1>4 DEF NoNetInfo
    <2>2. CASE tries < Tries["NetInfo"]
      <3>1. Again(GetNetInfo) /\ UNCHANGED list
        BY <1>4, <2>2 DEF NoNetInfo
      <3>. DEFINE q == GetNetInfo
      <3>2. NoPage(q)
        BY PacketKinds DEF NoPage
      <3>3. wire' \subseteq wire \cup {q} /\ tries' \in Nat /\ UNCHANGED <<phase, start, zones, failed, id>>
        BY <1>2, <3>1 DEF Again, list
      <3>. HIDE DEF q
      <3>. QED  BY <1>3, <3>2, <3>3
    <2>3. CASE ~(tries < Tries["NetInfo"])
      <3>1. Begin(wire, None, None)
        BY <1>4, <2>3 DEF NoNetInfo
      <3>2. router' = None
        BY <1>1, <2>1 DEF ListOK, NothingYet
      <3>. QED  BY <1>1, <2>1, <3>1, <3>2, ListBegun
    <2>. QED  BY <2>2, <2>3
  <1>5. CASE LookupOver
    <2>1. phase = "Lookup" /\ command.what # "Zones" /\ UNCHANGED <<start, zones, failed>>
      BY <1>5 DEF LookupOver, list, ListOK
    <2>2. \/ Again(lookup_request(id, router, zone))
          \/ Probe(wire, 0)
          \/ Stop(wire)
      BY <1>5 DEF LookupOver
    <2>3. CASE Again(lookup_request(id, router, zone))
      <3>. DEFINE q == lookup_request(id, router, zone)
      <3>1. NoPage(q)
        <4>1. q.kind \in {"BrRq", "LkUp"}
          BY PacketKinds DEF lookup_request
        <4>. QED  BY <4>1 DEF NoPage
      <3>2. wire' \subseteq wire \cup {q} /\ tries' \in Nat /\ UNCHANGED <<phase, id>>
        BY <2>3, <1>2 DEF Again
      <3>. HIDE DEF q
      <3>. QED  BY <1>3, <2>1, <3>1, <3>2
    <2>4. CASE Probe(wire, 0) \/ Stop(wire)
      <3>1. wire' \subseteq wire \cup {EchoRequest(0)} /\ tries' \in Nat /\ id' = id /\ phase' \in {"Ping", "Done"}
        BY <2>4, <1>2 DEF Probe, Wait, Stop
      <3>2. NoPage(EchoRequest(0))
        BY PacketKinds DEF NoPage
      <3>. QED  BY <1>3, <2>1, <3>1, <3>2
    <2>. QED  BY <2>2, <2>3, <2>4
  <1>6. CASE NextProbe
    <2>1. phase \in {"Ping", "Pace"} /\ Probe(wire, seq + 1) /\ UNCHANGED <<start, zones, failed>>
      BY <1>6 DEF NextProbe, list
    <2>2. command.what # "Zones"
      BY <2>1 DEF ListOK
    <2>3. wire' \subseteq wire \cup {EchoRequest(seq + 1)} /\ tries' \in Nat /\ id' = id /\ phase' \in {"Ping", "Done"}
      BY <2>1, <1>2 DEF Probe, Wait, Stop
    <2>4. NoPage(EchoRequest(seq + 1))
      BY PacketKinds DEF NoPage
    <2>. QED  BY <1>3, <2>1, <2>2, <2>3, <2>4
  <1>7. CASE NoZones
    <2>1. phase = "Zones" /\ UNCHANGED <<start, zones>>
      BY <1>7 DEF NoZones
    <2>2. CASE tries < Tries["Zones"]
      <3>1. Again(GetZoneList(id, start, tries + 1)) /\ failed' = failed
        BY <1>7, <2>2 DEF NoZones
      <3>2. /\ wire' = wire \cup {GetZoneList(id, start, tries + 1)} /\ tries' \in Nat
            /\ UNCHANGED <<phase, id>>
        BY <3>1, <1>2 DEF Again
      <3>3. PagesOK'
        <4>. SUFFICES ASSUME NEW x \in wire'
                      PROVE  /\ x.kind = "GetZoneList" => /\ x.n # 0 /\ x.id \in Nat /\ x.id <= id
                                                          /\ x.id = id => x.start = start
                             /\ x.kind = "ZoneReply" /\ x.n # 0 =>
                                   /\ x.id \in Nat /\ x.id <= id
                                   /\ x.id = id => x.names = page(start) /\ (x.last <=> Len(rest(start)) <= PageNames)
          BY <2>1, <3>2 DEF PagesOK
        <4>1. CASE x \in wire
          BY <4>1, <2>1 DEF ListOK, PagesOK
        <4>2. CASE x = GetZoneList(id, start, tries + 1)
          BY <4>2, <1>2, PacketKinds DEF ListOK
        <4>. QED  BY <4>1, <4>2, <3>2
      <3>. QED  BY <1>1, <2>1, <3>1, <3>2, <3>3 DEF ListOK, NothingYet, SoFar, AllFound
    <2>3. CASE ~(tries < Tries["Zones"])
      <3>1. /\ wire' \subseteq wire /\ phase' = "Done" /\ failed' = TRUE /\ UNCHANGED <<tries, id>>
        BY <1>7, <2>3 DEF NoZones, Stop
      <3>2. PagesOK'
        BY <3>1 DEF ListOK, PagesOK
      <3>. QED  BY <1>1, <3>1, <3>2 DEF ListOK, NothingYet, SoFar, AllFound
    <2>. QED  BY <2>2, <2>3
  <1>. QED  BY <1>4, <1>5, <1>6, <1>7 DEF TimeOut

ListInv == ~stray => ListOK

LEMMA ListNext == FewZones /\ AnswersInv /\ ListInv /\ [Next]_vars => ListInv'
  <1>. SUFFICES ASSUME FewZones, AnswersInv, ListInv, [Next]_vars, ~stray' PROVE ListOK'
    BY DEF ListInv
  <1>. DEFINE more == {}
  <1>1. \A q \in more : NoPage(q)
    OBVIOUS
  <1>2. CASE Serve
    <2>1. ListOK
      BY <1>2 DEF Serve, history, ListInv
    <2>. QED  BY <1>2, <2>1, ListServed
  <1>3. CASE Lose
    <2>1. ListOK /\ tries' \in Nat
      BY <1>3 DEF Lose, node, asked, ListInv, ListOK
    <2>2. /\ wire' \subseteq wire \cup more
          /\ UNCHANGED <<command, phase, router, start, zones, failed, messages, id>>
      BY <1>3 DEF Lose, node, asked, learned, list
    <2>. HIDE DEF more
    <2>. QED  BY <1>1, <2>1, <2>2, ListQuiet
  <1>4. CASE Overhear
    <2>1. PICK p \in Overheard : wire' = wire \cup {p}
      BY <1>4 DEF Overhear
    <2>2. ListOK /\ tries' \in Nat
      BY <1>4 DEF Overhear, history, node, asked, ListInv, ListOK
    <2>3. UNCHANGED <<command, phase, router, start, zones, failed, messages, id>>
      BY <1>4 DEF Overhear, node, asked, learned, list
    <2>. DEFINE heard == {p}
    <2>4. wire' \subseteq wire \cup heard /\ \A q \in heard : NoPage(q)
      BY <2>1, OverheardKinds DEF Overheard, NoPage
    <2>. HIDE DEF heard
    <2>. QED  BY <2>2, <2>3, <2>4, ListQuiet
  <1>5. CASE Hear
    <2>1. ~stray
      BY <1>5 DEF Hear, HearNetInfo, HearName, HearEcho, HearZones, HearOther, history
    <2>. QED  BY <1>5, <2>1, ListHeard DEF ListInv
  <1>6. CASE TimeOut
    <2>1. ListOK
      BY <1>6 DEF TimeOut, history, ListInv
    <2>. QED  BY <1>6, <2>1, ListTimedOut
  <1>7. CASE UNCHANGED vars
    <2>1. ListOK /\ tries' \in Nat
      BY <1>7 DEF vars, history, asked, ListInv, ListOK
    <2>2. /\ wire' \subseteq wire \cup more
          /\ UNCHANGED <<command, phase, router, start, zones, failed, messages, id>>
      BY <1>7 DEF vars, asked, learned, list
    <2>. HIDE DEF more
    <2>. QED  BY <1>1, <2>1, <2>2, ListQuiet
  <1>. QED  BY <1>2, <1>3, <1>4, <1>5, <1>6, <1>7 DEF Next

\* A zone list that was not given up names every zone of the internet,
\* whatever was lost, late or asked again (zone_list, next_start, all_zones),
\* if no reply was heard but those waited for and it takes no more than
\* MAX_ZONE_PAGES pages.
THEOREM ZoneListsAreWhole ==
    ASSUME FewZones
    PROVE  Spec => []ZoneListWhole
  <1>1. Init => AnswersInv /\ ListInv
    BY AnswersInit, ListInit DEF ListInv
  <1>2. AnswersInv /\ ListInv /\ [Next]_vars => (AnswersInv /\ ListInv)'
    BY AnswersNext, ListNext
  <1>3. ListInv => ZoneListWhole
    BY DEF ListInv, ListOK, AllFound, ZoneListWhole
  <1>. QED  BY <1>1, <1>2, <1>3, PTL DEF Spec
=============================================================================
