------------------------- MODULE AddressClaim_proofs -------------------------
(***************************************************************************)
(* What TLAPS proves of AddressClaim, for any stations on any cable, any    *)
(* range of IDs, any number of tries and any losses: two stations hold one  *)
(* address only after as many losses as a claim has probes, and a claim is  *)
(* given up only for somebody else.                                         *)
(***************************************************************************)
EXTENDS AddressClaim, TLAPS

Everyone == Port \cup Node

TypeOK ==
    /\ cable \in Cables
    /\ st \in [Everyone -> [phase : {"Off", "Claiming", "Holding"}, addr : Addr \cup {None},
                            tries : Nat, tried : Nat,
                            want : {None, "Port", "Discover", "Net", "Addr"}]]
    /\ firmware \in [Everyone -> Ids \cup {None}]
    /\ wire \subseteq [to : Everyone, kind : {"Ask", "Claimed"}, addr : Addr, by : Everyone,
                       late : BOOLEAN]
    /\ lost \in Nat

\* What a claim is made of: a station that is on asks for an address or has
\* one, and a claim asks no more often than its schedule.
ClaimOK(s) ==
    /\ st[s].phase = "Off" <=> st[s].addr = None
    /\ Claiming(s) => st[s].tries <= schedule

\* Only the adapter of TashTalk answers on its own, and for the address held.
AdapterOK(s) ==
    /\ firmware[s] # None => medium = "Tashtalk" /\ ~Claiming(s)
    /\ medium = "Tashtalk" /\ Holding(s) => firmware[s] = st[s].addr[2]

\* The intervals s has asked for its address in.
Asked(s) == IF Holding(s) THEN schedule ELSE st[s].tries

\* A frame from t that still can cost a claim to the address s and t share.
Underway(f, s, t) ==
    /\ ~f.late /\ f.addr = st[s].addr /\ f.to = s /\ f.by = t
    /\ Claiming(s) \/ (f.kind = "Ask" /\ Claiming(t))
Exchange(s, t) == \E f \in wire : Underway(f, s, t) \/ Underway(f, t, s)

Rivals(s, t) == /\ s # t /\ st[s].phase # "Off" /\ st[t].phase # "Off"
                /\ st[s].addr = st[t].addr

\* The intervals that two stations with one address both asked in are lost
\* ones, but for the one whose frames are on their way.
Counted(s, t) ==
    Rivals(s, t) => /\ Asked(s) <= lost + 1 \/ Asked(t) <= lost + 1
                    /\ Exchange(s, t) \/ Asked(s) <= lost \/ Asked(t) <= lost

\* An answer of one's own is heard back on Ethernet only, and only while the
\* address is held or, after the startup range was left, by a new claim.
OwnAnswer(f) ==
    LET a == st[f.to].addr
        moved == f.addr[1] = "startup" /\ a # None /\ a[1] = "cable"
    IN  f.by = f.to =>
            /\ medium = "Ether"
            /\ f.kind = "Claimed" => moved \/ (Holding(f.to) /\ f.addr = a)

ClaimInv ==
    /\ TypeOK
    /\ \A s \in Station : ClaimOK(s)
    /\ \A s \in Station : AdapterOK(s)
    /\ \A f \in wire : f.to \in Station /\ f.by \in Station
    /\ \A f \in wire : OwnAnswer(f)
    /\ \A s, t \in Station : Counted(s, t)
-----------------------------------------------------------------------------
LEMMA CableFacts ==
    ASSUME TypeOK
    PROVE  /\ medium \in {"Ether", "Ltoudp", "Tashtalk"} /\ Station \subseteq Everyone
           /\ medium # "Ether" => Station \subseteq Port
           /\ schedule \in Nat \ {0}
BY ClaimAssumption DEF TypeOK, Everyone, medium, Station, schedule

LEMMA FrameFacts ==
    ASSUME NEW t \in Everyone, NEW kind \in {"Ask", "Claimed"}, NEW a \in Addr, NEW by \in Everyone
    PROVE  /\ Frame(t, kind, a, by).to = t /\ Frame(t, kind, a, by).kind = kind
           /\ Frame(t, kind, a, by).addr = a /\ Frame(t, kind, a, by).by = by
           /\ Frame(t, kind, a, by).late = FALSE
           /\ Frame(t, kind, a, by) \in [to : Everyone, kind : {"Ask", "Claimed"}, addr : Addr,
                                         by : Everyone, late : BOOLEAN]
BY DEF Frame

\* A claim begun anew has asked for nothing yet.
LEMMA CandidateFacts ==
    ASSUME NEW a \in Addr, NEW want \in {"Port", "Discover", "Net", "Addr"}
    PROVE  /\ Candidate(a, want).phase = "Claiming" /\ Candidate(a, want).addr = a
           /\ Candidate(a, want).tries = 0 /\ Candidate(a, want).want = want
           /\ Candidate(a, want) \in [phase : {"Off", "Claiming", "Holding"}, addr : Addr \cup {None},
                                      tries : Nat, tried : Nat,
                                      want : {None, "Port", "Discover", "Net", "Addr"}]
BY DEF Candidate

LEMMA OffFacts ==
    /\ Off.phase = "Off" /\ Off.addr = None /\ Off.tries = 0
    /\ Off \in [phase : {"Off", "Claiming", "Holding"}, addr : Addr \cup {None},
                tries : Nat, tried : Nat, want : {None, "Port", "Discover", "Net", "Addr"}]
BY DEF Off

\* What two rivals asked in is unchanged by a step that leaves both alone and
\* the frames between them on their way.
LEMMA CountedStays ==
    ASSUME NEW s \in Station, NEW t \in Station, Counted(s, t),
           st'[s] = st[s], st'[t] = st[t], cable' = cable, lost' = lost,
           Exchange(s, t) => Exchange(s, t)'
    PROVE  Counted(s, t)'
BY DEF Counted, Rivals, Asked, Holding, schedule, medium

\* A station that begins again has no interval in common with anybody.
LEMMA CountedAnew ==
    ASSUME NEW s \in Station, NEW t \in Station, lost' \in Nat,
           \/ st'[s].phase = "Off" \/ (st'[s].phase = "Claiming" /\ st'[s].tries = 0)
           \/ st'[t].phase = "Off" \/ (st'[t].phase = "Claiming" /\ st'[t].tries = 0)
    PROVE  Counted(s, t)'
BY DEF Counted, Rivals, Asked, Holding

\* A frame on its way between two rivals is underway still.
LEMMA ExchangeStays ==
    ASSUME NEW s \in Station, NEW t \in Station, st'[s] = st[s], st'[t] = st[t],
           \A f \in wire : f \notin wire' => ~Underway(f, s, t) /\ ~Underway(f, t, s)
    PROVE  Exchange(s, t) => Exchange(s, t)'
  <1>. SUFFICES ASSUME NEW f \in wire, Underway(f, s, t) \/ Underway(f, t, s)
                PROVE  Exchange(s, t)'
    BY DEF Exchange
  <1>1. f \in wire'
    OBVIOUS
  <1>. QED  BY <1>1 DEF Exchange, Underway, Claiming
-----------------------------------------------------------------------------
(* The steps, one by one.                                                   *)
LEMMA InitClaim == Init => ClaimInv
  <1>. SUFFICES ASSUME Init PROVE ClaimInv
    OBVIOUS
  <1>1. TypeOK
    BY OffFacts DEF Init, TypeOK, Everyone
  <1>2. \A s \in Station : st[s] = Off /\ firmware[s] = None
    BY <1>1, CableFacts DEF Init, Everyone
  <1>. QED
    BY <1>1, <1>2, OffFacts DEF Init, ClaimInv, ClaimOK, AdapterOK, Counted, Rivals, Claiming, Holding

LEMMA StartKeeps ==
    ASSUME ClaimInv, NEW s \in Station, Start(s)
    PROVE  ClaimInv'
  <1>. USE DEF ClaimInv
  <1>0. TypeOK /\ s \in Everyone /\ Station' = Station /\ medium' = medium /\ st[s].phase = "Off"
    BY CableFacts DEF Start, Station, medium
  <1>1. PICK a \in Addr, want \in {"Port", "Discover", "Net", "Addr"} :
             st' = [st EXCEPT ![s] = Candidate(a, want)]
    <2>1. \A want \in {"Port", "Discover", "Net", "Addr"}, id \in Ids : <<NetOf(want), id>> \in Addr
      BY DEF NetOf, Addr
    <2>. QED  BY <2>1 DEF Start
  <1>2. st'[s] = Candidate(a, want) /\ firmware'[s] = None
    BY <1>0, <1>1 DEF TypeOK, Start
  <1>3. \A t \in Station \ {s} : st'[t] = st[t] /\ firmware'[t] = firmware[t]
    BY <1>0, <1>1, CableFacts DEF TypeOK, Start
  <1>4. TypeOK'
    BY <1>0, <1>1, CandidateFacts DEF TypeOK, Start
  <1>5. \A t \in Station : ClaimOK(t)' /\ AdapterOK(t)'
    BY <1>0, <1>2, <1>3, CandidateFacts, ClaimAssumption, CableFacts
       DEF ClaimOK, AdapterOK, Claiming, Holding, schedule, medium
  <1>6. \A f \in wire' : f.to \in Station' /\ f.by \in Station' /\ OwnAnswer(f)'
    <2>. SUFFICES ASSUME NEW f \in wire PROVE OwnAnswer(f)'
      BY <1>0 DEF Start
    <2>1. CASE f.to = s
      BY <2>1, <1>0 DEF OwnAnswer, ClaimOK, Holding
    <2>2. CASE f.to # s
      BY <2>2, <1>0, <1>3 DEF OwnAnswer, Holding
    <2>. QED  BY <2>1, <2>2
  <1>7. ASSUME NEW t \in Station, NEW u \in Station
        PROVE  Counted(t, u)'
    <2>1. CASE t = s \/ u = s
      BY <2>1, <1>2, <1>4, CandidateFacts, CountedAnew DEF TypeOK
    <2>2. CASE t # s /\ u # s
      BY <2>2, <1>3, ExchangeStays, CountedStays DEF Start
    <2>. QED  BY <2>1, <2>2
  <1>. QED  BY <1>0, <1>4, <1>5, <1>6, <1>7

LEMMA LeaveKeeps ==
    ASSUME ClaimInv, NEW s \in Station, Leave(s)
    PROVE  ClaimInv'
  <1>. USE DEF ClaimInv
  <1>0. TypeOK /\ s \in Everyone /\ Station' = Station /\ medium' = medium /\ wire' \subseteq wire
    BY CableFacts DEF Leave, Station, medium
  <1>1. st'[s] = Off /\ \A t \in Station \ {s} : st'[t] = st[t]
    BY <1>0, CableFacts DEF TypeOK, Leave
  <1>2. TypeOK'
    BY <1>0, OffFacts DEF TypeOK, Leave
  <1>3. \A t \in Station : ClaimOK(t)' /\ AdapterOK(t)'
    BY <1>0, <1>1, OffFacts, CableFacts
       DEF ClaimOK, AdapterOK, Claiming, Holding, schedule, medium, Leave
  <1>4. ASSUME NEW f \in wire'
        PROVE  f.to \in Station' /\ f.by \in Station' /\ OwnAnswer(f)'
    <2>1. f \in wire /\ f.to \in Station
      BY <1>0
    <2>2. CASE f.to = s
      <3>1. firmware[s] # None
        BY <2>2 DEF Leave
      <3>2. medium = "Tashtalk"
        BY <3>1, CableFacts DEF AdapterOK
      <3>. QED  BY <1>0, <2>1, <2>2, <3>2 DEF OwnAnswer
    <2>3. CASE f.to # s
      BY <2>1, <2>3, <1>0, <1>1 DEF OwnAnswer, Holding
    <2>. QED  BY <1>0, <2>1, <2>2, <2>3
  <1>5. ASSUME NEW t \in Station, NEW u \in Station
        PROVE  Counted(t, u)'
    <2>1. CASE t = s \/ u = s
      BY <2>1, <1>1, <1>2, OffFacts, CountedAnew DEF TypeOK
    <2>2. CASE t # s /\ u # s
      <3>1. \A f \in wire : f \notin wire' => f.to = s
        BY DEF Leave
      <3>. QED
        BY <2>2, <1>1, <3>1, ExchangeStays, CountedStays DEF Leave, Underway
    <2>. QED  BY <2>1, <2>2
  <1>. QED  BY <1>0, <1>2, <1>3, <1>4, <1>5

LEMMA RepickKeeps ==
    ASSUME ClaimInv, NEW n \in Station \cap Node, Repick(n)
    PROVE  ClaimInv'
  <1>. USE DEF ClaimInv
  <1>0. /\ TypeOK /\ n \in Everyone /\ Station' = Station /\ medium' = medium /\ wire' = wire
        /\ Holding(n) /\ st[n].addr[1] = "startup" /\ firmware' = firmware
    BY CableFacts DEF Repick, Station, medium
  <1>1. PICK id \in Ids : st' = [st EXCEPT ![n] = Candidate(<<"cable", id>>, "Discover")]
    BY DEF Repick
  <1>. DEFINE a == <<"cable", id>>
  <1>2. a \in Addr /\ a[1] = "cable"
    BY DEF Addr
  <1>. HIDE DEF a
  <1>3. st'[n] = Candidate(a, "Discover") /\ \A t \in Station \ {n} : st'[t] = st[t]
    BY <1>0, <1>1, CableFacts DEF TypeOK, a
  <1>4. TypeOK'
    BY <1>0, <1>1, <1>2, CandidateFacts DEF TypeOK, Repick, a
  <1>5. firmware[n] = None
    <2>1. medium = "Ether"
      BY CableFacts, ClaimAssumption
    <2>. QED  BY <2>1 DEF AdapterOK
  <1>6. \A t \in Station : ClaimOK(t)' /\ AdapterOK(t)'
    BY <1>0, <1>2, <1>3, <1>5, CandidateFacts, ClaimAssumption, CableFacts
       DEF ClaimOK, AdapterOK, Claiming, Holding, schedule, medium
  <1>7. \A f \in wire' : f.to \in Station' /\ f.by \in Station' /\ OwnAnswer(f)'
    <2>. SUFFICES ASSUME NEW f \in wire PROVE OwnAnswer(f)'
      BY <1>0
    <2>1. CASE f.to = n
      <3>1. OwnAnswer(f) /\ st[n].addr[1] = "startup" /\ st'[n].addr = a
        BY <1>0, <1>2, <1>3, CandidateFacts
      <3>. QED
        BY <2>1, <3>1, <1>0, <1>2, ClaimAssumption DEF OwnAnswer
    <2>2. CASE f.to # n
      BY <2>2, <1>0, <1>3 DEF OwnAnswer, Holding
    <2>. QED  BY <2>1, <2>2
  <1>8. ASSUME NEW t \in Station, NEW u \in Station
        PROVE  Counted(t, u)'
    <2>1. CASE t = n \/ u = n
      BY <2>1, <1>2, <1>3, <1>4, CandidateFacts, CountedAnew DEF TypeOK
    <2>2. CASE t # n /\ u # n
      BY <2>2, <1>3, ExchangeStays, CountedStays DEF Repick
    <2>. QED  BY <2>1, <2>2
  <1>. QED  BY <1>0, <1>4, <1>6, <1>7, <1>8

\* A question may have been in vain so far; the interval it opens is the one
\* interval that need not be lost yet.
LEMMA AskKeeps ==
    ASSUME ClaimInv, NEW s \in Station, tick(s), Ask(s)
    PROVE  ClaimInv'
  <1>. USE DEF ClaimInv
  <1>0. /\ TypeOK /\ s \in Everyone /\ Station' = Station /\ medium' = medium /\ Claiming(s)
        /\ firmware' = firmware /\ lost' = lost /\ wire \subseteq wire'
        /\ \A f \in wire : f.late
    BY CableFacts DEF tick, Ask, Station, medium
  <1>1. /\ st'[s].tries = st[s].tries + 1 /\ st'[s].phase = st[s].phase /\ st'[s].addr = st[s].addr
        /\ \A t \in Station \ {s} : st'[t] = st[t]
    BY <1>0, CableFacts DEF TypeOK, Ask
  <1>2. st[s].addr \in Addr /\ st[s].tries < schedule /\ st[s].tries \in Nat
    BY <1>0 DEF TypeOK, ClaimOK, Claiming, Ask
  <1>3. ASSUME NEW t \in Heard(s)
        PROVE  LET f == Frame(t, "Ask", st[s].addr, s)
               IN  /\ f \in wire' /\ f.to = t /\ f.by = s /\ f.kind = "Ask" /\ f.addr = st[s].addr
                   /\ ~f.late /\ t \in Station /\ t \in Everyone /\ (t # s \/ medium = "Ether")
                   /\ f \in [to : Everyone, kind : {"Ask", "Claimed"}, addr : Addr, by : Everyone,
                             late : BOOLEAN]
    <2>1. t \in Station /\ t \in Everyone /\ (t # s \/ medium = "Ether")
      BY <1>0, CableFacts DEF Heard
    <2>2. Frame(t, "Ask", st[s].addr, s) \in wire'
      BY DEF Ask
    <2>. QED  BY <2>1, <2>2, <1>0, <1>2 DEF Frame
  <1>4. \A f \in wire' : f \in wire \/ \E t \in Heard(s) : f = Frame(t, "Ask", st[s].addr, s)
    BY DEF Ask
  <1>5. TypeOK'
    <2>1. st' \in [Everyone -> [phase : {"Off", "Claiming", "Holding"}, addr : Addr \cup {None},
                            tries : Nat, tried : Nat,
                            want : {None, "Port", "Discover", "Net", "Addr"}]]
      BY <1>0 DEF TypeOK, Ask
    <2>2. wire' \subseteq [to : Everyone, kind : {"Ask", "Claimed"}, addr : Addr, by : Everyone,
                       late : BOOLEAN]
      BY <1>0, <1>3, <1>4 DEF TypeOK
    <2>. QED  BY <2>1, <2>2, <1>0 DEF TypeOK, tick
  <1>6. \A t \in Station : ClaimOK(t)' /\ AdapterOK(t)'
    BY <1>0, <1>1, <1>2, CableFacts DEF ClaimOK, AdapterOK, Claiming, Holding, schedule, medium
  <1>7. ASSUME NEW f \in wire'
        PROVE  f.to \in Station' /\ f.by \in Station' /\ OwnAnswer(f)'
    <2>1. CASE f \in wire
      BY <2>1, <1>0, <1>1 DEF OwnAnswer, Holding
    <2>2. CASE f \notin wire
      BY <2>2, <1>0, <1>3, <1>4 DEF OwnAnswer
    <2>. QED  BY <2>1, <2>2
  <1>8. ASSUME NEW t \in Station, NEW u \in Station
        PROVE  Counted(t, u)'
    <2>1. CASE t # s /\ u # s
      BY <2>1, <1>0, <1>1, ExchangeStays, CountedStays DEF tick
    <2>2. ASSUME NEW v \in Station, v # s, Rivals(s, v)'
          PROVE  /\ Exchange(s, v)' /\ Exchange(v, s)'
                 /\ Asked(s)' <= lost' + 1 \/ Asked(v)' <= lost' + 1
      <3>1. st'[v] = st[v] /\ Rivals(s, v) /\ v \in Heard(s)
        BY <2>2, <1>0, <1>1 DEF Rivals, Heard, Hears
      <3>2. Exchange(s, v)' /\ Exchange(v, s)'
        BY <3>1, <1>0, <1>1, <1>3 DEF Exchange, Underway, Claiming, Rivals
      <3>3. ~Exchange(s, v)
        BY <1>0 DEF Exchange, Underway
      <3>4. Asked(s) <= lost \/ Asked(v) <= lost
        BY <3>1, <3>3 DEF Counted
      <3>5. Asked(s) = st[s].tries /\ Asked(s)' = st[s].tries + 1
        BY <1>0, <1>1 DEF Asked, Holding, Claiming
      <3>6. Asked(v)' = Asked(v) /\ Asked(v) \in Nat
        BY <3>1, <1>0, CableFacts DEF Asked, Holding, TypeOK, schedule, medium
      <3>. QED  BY <3>2, <3>4, <3>5, <3>6, <1>0, <1>2 DEF TypeOK
    <2>3. CASE t = s
      BY <2>2, <2>3 DEF Counted, Rivals
    <2>4. CASE u = s
      <3>1. Rivals(t, u)' => t # s /\ Rivals(s, t)'
        BY <2>4 DEF Rivals
      <3>. QED  BY <2>2, <2>4, <3>1 DEF Counted
    <2>. QED  BY <2>1, <2>3, <2>4
  <1>. QED  BY <1>0, <1>5, <1>6, <1>7, <1>8

\* An address is taken when its last interval is over, which adds none.
LEMMA claimedKeeps ==
    ASSUME ClaimInv, NEW s \in Station, tick(s), claimed(s)
    PROVE  ClaimInv'
  <1>. USE DEF ClaimInv
  <1>0. /\ TypeOK /\ s \in Everyone /\ Station' = Station /\ medium' = medium /\ Claiming(s)
        /\ lost' = lost /\ wire' = wire /\ cable' = cable /\ lost \in Nat
        /\ \A f \in wire : f.late
    BY CableFacts DEF tick, claimed, Station, medium, TypeOK
  <1>1. /\ st'[s].phase = "Holding" /\ st'[s].addr = st[s].addr
        /\ \A t \in Station \ {s} : st'[t] = st[t] /\ firmware'[t] = firmware[t]
    BY <1>0, CableFacts DEF TypeOK, claimed
  <1>2. /\ st[s].addr \in Addr /\ st[s].addr[2] \in Ids
        /\ st[s].tries \in Nat /\ schedule \in Nat /\ schedule <= st[s].tries
    BY <1>0, CableFacts DEF TypeOK, ClaimOK, Claiming, claimed, Addr
  <1>3. firmware'[s] = IF medium = "Tashtalk" THEN st[s].addr[2] ELSE firmware[s]
    BY <1>0 DEF TypeOK, claimed
  <1>4. TypeOK'
    BY <1>0, <1>2 DEF TypeOK, claimed
  <1>5. \A t \in Station : ClaimOK(t)' /\ AdapterOK(t)'
    BY <1>0, <1>1, <1>2, <1>3, ClaimAssumption
       DEF ClaimOK, AdapterOK, Claiming, Holding, schedule, medium
  <1>6. ASSUME NEW f \in wire'
        PROVE  f.to \in Station' /\ f.by \in Station' /\ OwnAnswer(f)'
    BY <1>0, <1>1 DEF OwnAnswer, Holding, Claiming
  <1>7. ASSUME NEW t \in Station, NEW u \in Station
        PROVE  Counted(t, u)'
    <2>1. CASE t # s /\ u # s
      BY <2>1, <1>0, <1>1, ExchangeStays, CountedStays
    <2>2. ASSUME NEW v \in Station, v # s, Rivals(s, v)'
          PROVE  Asked(s)' <= lost' \/ Asked(v)' <= lost'
      <3>1. st'[v] = st[v] /\ Rivals(s, v)
        BY <2>2, <1>0, <1>1 DEF Rivals, Claiming
      <3>2. ~Exchange(s, v)
        BY <1>0 DEF Exchange, Underway
      <3>3. Asked(s) <= lost \/ Asked(v) <= lost
        BY <3>1, <3>2 DEF Counted
      <3>4. Asked(s) = st[s].tries /\ Asked(s)' = schedule
        BY <1>0, <1>1 DEF Asked, Holding, Claiming, schedule, medium
      <3>5. Asked(v)' = Asked(v)
        BY <3>1, <1>0 DEF Asked, Holding, schedule, medium
      <3>. QED  BY <3>3, <3>4, <3>5, <1>0, <1>2
    <2>3. ASSUME NEW v \in Station, v # s, Rivals(s, v)'
          PROVE  /\ Asked(s)' <= lost' + 1 \/ Asked(v)' <= lost' + 1
                 /\ Asked(s)' <= lost' \/ Asked(v)' <= lost'
      <3>1. Asked(s)' \in Nat /\ Asked(v)' \in Nat /\ lost' \in Nat
        BY <1>0, <1>2, <1>4, CableFacts DEF Asked, TypeOK, schedule, medium
      <3>. QED  BY <2>2, <2>3, <3>1
    <2>4. CASE t = s
      BY <2>3, <2>4 DEF Counted, Rivals
    <2>5. CASE u = s
      <3>1. Rivals(t, u)' => t # s /\ Rivals(s, t)'
        BY <2>5 DEF Rivals
      <3>. QED  BY <2>3, <2>5, <3>1 DEF Counted
    <2>. QED  BY <2>1, <2>4, <2>5
  <1>. QED  BY <1>0, <1>4, <1>5, <1>6, <1>7
-----------------------------------------------------------------------------
(* What a frame means.                                                      *)

\* Whoever has the address asked for objects, or answers.
LEMMA MeansToRival ==
    ASSUME ClaimInv, NEW s \in Station, NEW t \in Station, Rivals(s, t),
           NEW f \in wire, Underway(f, s, t)
    PROVE  IF Claiming(s) THEN Means(f, s) = "Conflict"
           ELSE Means(f, s) = "Answer" /\ Claiming(t) /\ f.kind = "Ask"
  <1>. USE DEF ClaimInv
  <1>1. TypeOK /\ f.by # s /\ f.addr = st[s].addr /\ st[s].phase # "Off" /\ f.kind \in {"Ask", "Claimed"}
    BY DEF Rivals, Underway, TypeOK
  <1>2. s \in Everyone /\ st[s].phase \in {"Off", "Claiming", "Holding"} /\ firmware[s] \in Ids \cup {None}
    BY <1>1, CableFacts DEF TypeOK
  <1>3. CASE Claiming(s)
    <2>1. aarp_action(f, s) = "Conflict" /\ inbound_ether(f, s) = "Conflict"
      BY <1>1, <1>3 DEF aarp_action, inbound_ether
    <2>2. inbound_llap(f, s) = "Conflict"
      BY <1>1, <1>3 DEF inbound_llap, Claiming, Holding
    <2>. QED
      BY <2>1, <2>2, <1>1, <1>2, <1>3, CableFacts DEF Means, Everyone
  <1>4. CASE ~Claiming(s)
    <2>1. Holding(s) /\ f.kind = "Ask" /\ Claiming(t)
      BY <1>1, <1>2, <1>4 DEF Underway, Claiming, Holding
    <2>2. aarp_action(f, s) = "Answer" /\ inbound_ether(f, s) = "Answer"
      BY <1>1, <1>4, <2>1 DEF aarp_action, inbound_ether
    <2>3. medium = "Tashtalk" => firmware[s] = st[s].addr[2] /\ firmware[s] # None
      <3>1. st[s].addr \in Addr
        BY <1>1, <1>2 DEF ClaimOK, TypeOK
      <3>2. st[s].addr[2] \in Ids
        BY <3>1 DEF Addr
      <3>. QED  BY <2>1, <3>2, ClaimAssumption DEF AdapterOK
    <2>4. medium # "Ether" => inbound_llap(f, s) = "Answer"
      BY <1>1, <1>4, <2>1, <2>3, CableFacts DEF inbound_llap
    <2>. QED
      BY <1>1, <1>2, <1>4, <2>1, <2>2, <2>4, CableFacts DEF Means, Everyone
  <1>. QED  BY <1>3, <1>4

\* Only who holds the address, on Ethernet, or whose adapter does answers.
LEMMA MeansAnswer ==
    ASSUME ClaimInv, NEW f \in wire, Means(f, f.to) = "Answer"
    PROVE  /\ f.kind = "Ask"
           /\ medium = "Ether" => f.by # f.to /\ Holding(f.to) /\ f.addr = st[f.to].addr
  <1>. USE DEF ClaimInv
  <1>. DEFINE s == f.to
  <1>1. TypeOK /\ s \in Station /\ s \in Everyone /\ f.kind \in {"Ask", "Claimed"} /\ f.addr \in Addr
    BY CableFacts DEF TypeOK
  <1>. HIDE DEF s
  <1>2. CASE medium # "Ether"
    BY <1>1, <1>2 DEF Means, inbound_llap, AdapterOK, s
  <1>3. CASE medium = "Ether"
    <2>1. aarp_action(f, s) = "Answer" /\ (s \in Port => f.by # s)
      BY <1>1, <1>3, ClaimAssumption DEF Means, inbound_ether, Everyone, s
    <2>2. f.addr = st[s].addr /\ f.kind = "Ask" /\ f.by # s /\ ~Claiming(s)
      BY <2>1, <1>1 DEF aarp_action
    <2>3. Holding(s)
      BY <2>2, <1>1, ClaimAssumption DEF ClaimOK, Holding, Claiming, TypeOK
    <2>. QED  BY <2>2, <2>3 DEF s
  <1>. QED  BY <1>2, <1>3

\* A claim is never in conflict with a frame of its own.
LEMMA MeansConflict ==
    ASSUME ClaimInv, NEW f \in wire, Means(f, f.to) = "Conflict", Claiming(f.to)
    PROVE  f.by # f.to
  <1>. USE DEF ClaimInv
  <1>1. TypeOK /\ f.to \in Station /\ OwnAnswer(f) /\ f.to \in Everyone
    BY CableFacts
  <1>2. CASE medium # "Ether"
    BY <1>1, <1>2 DEF OwnAnswer
  <1>3. CASE medium = "Ether"
    <2>. SUFFICES ASSUME f.by = f.to PROVE FALSE
      OBVIOUS
    <2>1. aarp_action(f, f.to) = "Conflict"
      BY <1>1, <1>3 DEF Means, inbound_ether, Everyone
    <2>2. f.addr = st[f.to].addr /\ f.kind = "Claimed"
      BY <2>1 DEF aarp_action
    <2>. QED  BY <1>1, <2>2 DEF OwnAnswer, Holding, Claiming
  <1>. QED  BY <1>2, <1>3

-----------------------------------------------------------------------------
(* The frames heard.                                                        *)

\* A question answered is the answer on its way to who asked.
LEMMA AnswerKeeps ==
    ASSUME ClaimInv, NEW f \in wire, Answer(f, f.to), UNCHANGED <<cable, firmware, lost>>
    PROVE  ClaimInv'
  <1>. USE DEF ClaimInv
  <1>. DEFINE s == f.to
  <1>0. /\ TypeOK /\ s \in Station /\ s \in Everyone /\ Station' = Station /\ medium' = medium
        /\ st' = st /\ f.by \in Station /\ f.by \in Everyone /\ f.addr \in Addr
    BY CableFacts DEF Answer, Station, medium, TypeOK
  <1>1. PICK T \in {{f.by}, Heard(s)} :
            /\ medium # "Ether" => T = Heard(s)
            /\ wire' = (wire \ {f}) \cup {Frame(t, "Claimed", f.addr, s) : t \in {u \in T : Hears(u)}}
    BY DEF Answer
  <1>2. /\ f.kind = "Ask" /\ Means(f, s) = "Answer"
        /\ medium = "Ether" => f.by # s /\ Holding(s) /\ f.addr = st[s].addr
    BY MeansAnswer DEF Answer
  <1>. HIDE DEF s
  <1>3. ASSUME NEW t \in T, Hears(t)
        PROVE  LET g == Frame(t, "Claimed", f.addr, s)
               IN  /\ g \in wire' /\ g.to = t /\ g.by = s /\ g.kind = "Claimed" /\ g.addr = f.addr
                   /\ ~g.late /\ t \in Station
                   /\ (t # s \/ (medium = "Ether" /\ Holding(s) /\ f.addr = st[s].addr))
                   /\ g \in [to : Everyone, kind : {"Ask", "Claimed"}, addr : Addr, by : Everyone,
                             late : BOOLEAN]
    <2>1. t \in Station /\ t \in Everyone /\ (t # s \/ (medium = "Ether" /\ Holding(s) /\ f.addr = st[s].addr))
      BY <1>0, <1>1, <1>2, CableFacts DEF Heard
    <2>2. Frame(t, "Claimed", f.addr, s) \in wire'
      BY <1>1, <1>3
    <2>. QED  BY <2>1, <2>2, <1>0 DEF Frame
  <1>4. \A g \in wire' : \/ g \in wire
                         \/ \E t \in T : Hears(t) /\ g = Frame(t, "Claimed", f.addr, s)
    BY <1>1
  <1>5. TypeOK'
    <2>1. wire' \subseteq [to : Everyone, kind : {"Ask", "Claimed"}, addr : Addr, by : Everyone,
                       late : BOOLEAN]
      BY <1>0, <1>3, <1>4 DEF TypeOK
    <2>. QED  BY <2>1, <1>0 DEF TypeOK
  <1>6. \A t \in Station : ClaimOK(t)' /\ AdapterOK(t)'
    BY <1>0 DEF ClaimOK, AdapterOK, Claiming, Holding, schedule, medium
  <1>7. ASSUME NEW g \in wire'
        PROVE  g.to \in Station' /\ g.by \in Station' /\ OwnAnswer(g)'
    <2>1. CASE g \in wire
      BY <2>1, <1>0 DEF OwnAnswer, Holding
    <2>2. CASE g \notin wire
      <3>1. PICK t \in T : Hears(t) /\ g = Frame(t, "Claimed", f.addr, s)
        BY <2>2, <1>4
      <3>2. g.to = t /\ g.by = s /\ g.addr = f.addr /\ t \in Station
        BY <3>1, <1>3
      <3>3. t # s \/ (medium = "Ether" /\ Holding(s) /\ f.addr = st[s].addr)
        BY <3>1, <1>3
      <3>. QED  BY <3>2, <3>3, <1>0 DEF OwnAnswer, Holding
    <2>. QED  BY <2>1, <2>2
  <1>8. ASSUME NEW t \in Station, NEW u \in Station, Rivals(t, u), Underway(f, t, u)
        PROVE  Exchange(t, u)'
    <2>1. t = s /\ ~Claiming(t) /\ Claiming(u) /\ f.by = u /\ f.addr = st[t].addr
      BY <1>2, <1>8, MeansToRival DEF Underway, s
    <2>2. u \in T /\ Hears(u)
      BY <1>1, <1>8, <2>1 DEF Heard, Hears, Rivals
    <2>. DEFINE g == Frame(u, "Claimed", f.addr, s)
    <2>3. g \in wire' /\ g.to = u /\ g.by = s /\ g.addr = f.addr /\ ~g.late
      BY <2>2, <1>3
    <2>. HIDE DEF g
    <2>4. Underway(g, u, t)'
      BY <2>1, <2>3, <1>0, <1>8 DEF Underway, Rivals, Claiming
    <2>. QED  BY <2>3, <2>4 DEF Exchange
  <1>9. ASSUME NEW t \in Station, NEW u \in Station
        PROVE  Counted(t, u)'
    <2>. SUFFICES ASSUME Rivals(t, u), Exchange(t, u) PROVE Exchange(t, u)'
      BY <1>0 DEF Counted, Rivals, Asked, Holding, schedule, medium
    <2>1. PICK g \in wire : Underway(g, t, u) \/ Underway(g, u, t)
      BY DEF Exchange
    <2>2. CASE g = f
      <3>1. Rivals(u, t)
        BY DEF Rivals
      <3>. QED  BY <2>1, <2>2, <3>1, <1>8 DEF Exchange
    <2>3. CASE g # f
      <3>1. g \in wire'
        BY <2>3, <1>1
      <3>2. Underway(g, t, u)' \/ Underway(g, u, t)'
        BY <2>1, <1>0 DEF Underway, Claiming
      <3>. QED  BY <3>1, <3>2 DEF Exchange
    <2>. QED  BY <2>2, <2>3
  <1>. QED  BY <1>0, <1>5, <1>6, <1>7, <1>9

\* What a station that gives way has of its claim afterwards.
LEMMA GiveWayFacts ==
    ASSUME ClaimInv, NEW f \in wire, GiveWay(f, f.to)
    PROVE  /\ st' \in [Everyone -> [phase : {"Off", "Claiming", "Holding"}, addr : Addr \cup {None},
                                    tries : Nat, tried : Nat,
                                    want : {None, "Port", "Discover", "Net", "Addr"}]]
           /\ \A t \in Station \ {f.to} : st'[t] = st[t]
           /\ \/ st'[f.to] = Off
              \/ /\ st'[f.to].phase = "Claiming" /\ st'[f.to].tries = 0
                 /\ st'[f.to].addr \in Addr /\ st'[f.to].addr[1] = st[f.to].addr[1]
  <1>. USE DEF ClaimInv
  <1>. DEFINE s == f.to
  <1>0. /\ TypeOK /\ s \in Station /\ s \in Everyone /\ Claiming(s)
        /\ st[s].addr \in Addr /\ st[s].addr[1] \in {"cable", "startup"}
    BY CableFacts DEF GiveWay, TypeOK, ClaimOK, Claiming, Addr
  <1>1. /\ Station \subseteq Everyone
        /\ \A id \in Ids : <<st[s].addr[1], id>> \in Addr /\ <<st[s].addr[1], id>>[1] = st[s].addr[1]
    BY <1>0, CableFacts DEF Addr
  <1>2. restart(s) \/ claim_in_range(s)
    BY DEF GiveWay
  <1>. HIDE DEF s
  <1>3. CASE restart(s)
    <2>1. PICK id \in Ids : st' = [st EXCEPT ![s] = Candidate(<<st[s].addr[1], id>>, "Port")]
      BY <1>3 DEF restart
    <2>. DEFINE a == <<st[s].addr[1], id>>
    <2>2. a \in Addr /\ a[1] = st[s].addr[1]
      BY <1>1
    <2>. HIDE DEF a
    <2>3. st' = [st EXCEPT ![s] = Candidate(a, "Port")]
      BY <2>1 DEF a
    <2>. QED  BY <2>2, <2>3, <1>0, <1>1, CandidateFacts DEF TypeOK, s
  <1>4. CASE st' = [st EXCEPT ![s] = Off]
    BY <1>4, <1>0, <1>1, OffFacts DEF TypeOK, s
  <1>5. ASSUME NEW id \in Ids,
               st' = [st EXCEPT ![s].addr = <<@[1], id>>, ![s].tries = 0, ![s].tried = @ + 1]
        PROVE  /\ st' \in [Everyone -> [phase : {"Off", "Claiming", "Holding"}, addr : Addr \cup {None},
                                    tries : Nat, tried : Nat,
                                    want : {None, "Port", "Discover", "Net", "Addr"}]]
               /\ \A t \in Station \ {s} : st'[t] = st[t]
               /\ st'[s].phase = "Claiming" /\ st'[s].tries = 0
               /\ st'[s].addr \in Addr /\ st'[s].addr[1] = st[s].addr[1]
    <2>. DEFINE a == <<st[s].addr[1], id>>
    <2>1. a \in Addr /\ a[1] = st[s].addr[1]
      BY <1>1
    <2>2. st'[s].phase = st[s].phase /\ st'[s].addr = a /\ st'[s].tries = 0
      BY <1>0, <1>5 DEF TypeOK
    <2>3. \A t \in Station \ {s} : st'[t] = st[t]
      BY <1>0, <1>1, <1>5 DEF TypeOK
    <2>4. st' \in [Everyone -> [phase : {"Off", "Claiming", "Holding"}, addr : Addr \cup {None},
                                tries : Nat, tried : Nat,
                                want : {None, "Port", "Discover", "Net", "Addr"}]]
      BY <1>0, <1>5, <2>1 DEF TypeOK
    <2>. QED  BY <2>1, <2>2, <2>3, <2>4, <1>0 DEF Claiming
  <1>. QED  BY <1>2, <1>3, <1>4, <1>5 DEF claim_in_range, s

LEMMA GiveWayKeeps ==
    ASSUME ClaimInv, NEW f \in wire, GiveWay(f, f.to), UNCHANGED <<cable, firmware, lost>>
    PROVE  ClaimInv'
  <1>. USE DEF ClaimInv
  <1>. DEFINE s == f.to
  <1>0. /\ TypeOK /\ s \in Station /\ s \in Everyone /\ Station' = Station /\ medium' = medium
        /\ Claiming(s) /\ wire' \subseteq wire
        /\ \A g \in wire : g \notin wire' => g.to = s
        /\ \A g \in wire' : st'[s].phase # "Off" \/ g.to # s
    BY CableFacts DEF GiveWay, Station, medium
  <1>1. /\ \A t \in Station \ {s} : st'[t] = st[t]
        /\ \/ st'[s] = Off
           \/ /\ st'[s].phase = "Claiming" /\ st'[s].tries = 0
              /\ st'[s].addr \in Addr /\ st'[s].addr[1] = st[s].addr[1]
    BY GiveWayFacts
  <1>2. TypeOK'
    BY <1>0, GiveWayFacts DEF TypeOK
  <1>. HIDE DEF s
  <1>3. \A t \in Station : ClaimOK(t)' /\ AdapterOK(t)'
    BY <1>0, <1>1, OffFacts, CableFacts, ClaimAssumption
       DEF ClaimOK, AdapterOK, Claiming, Holding, schedule, medium
  <1>4. ASSUME NEW g \in wire'
        PROVE  g.to \in Station' /\ g.by \in Station' /\ OwnAnswer(g)'
    <2>1. g \in wire /\ OwnAnswer(g)
      BY <1>0
    <2>2. CASE g.to = s
      BY <2>1, <2>2, <1>0, <1>1, OffFacts, ClaimAssumption DEF OwnAnswer, Holding, Claiming
    <2>3. CASE g.to # s
      BY <2>1, <2>3, <1>0, <1>1 DEF OwnAnswer, Holding
    <2>. QED  BY <1>0, <2>1, <2>2, <2>3
  <1>5. ASSUME NEW t \in Station, NEW u \in Station
        PROVE  Counted(t, u)'
    <2>1. CASE t = s \/ u = s
      BY <2>1, <1>1, <1>2, OffFacts, CountedAnew DEF TypeOK
    <2>2. CASE t # s /\ u # s
      BY <2>2, <1>0, <1>1, ExchangeStays, CountedStays DEF Underway
    <2>. QED  BY <2>1, <2>2
  <1>. QED  BY <1>0, <1>2, <1>3, <1>4, <1>5

\* What is let go by is no objection to a claim two stations share.
LEMMA IgnoreKeeps ==
    ASSUME ClaimInv, NEW f \in wire, Ignore(f, f.to), UNCHANGED <<cable, firmware, lost>>
    PROVE  ClaimInv'
  <1>. USE DEF ClaimInv
  <1>0. TypeOK /\ Station' = Station /\ medium' = medium /\ st' = st /\ wire' = wire \ {f}
    BY DEF Ignore, Station, medium
  <1>1. TypeOK'
    BY <1>0 DEF TypeOK
  <1>2. \A t \in Station : ClaimOK(t)' /\ AdapterOK(t)'
    BY <1>0 DEF ClaimOK, AdapterOK, Claiming, Holding, schedule, medium
  <1>3. \A g \in wire' : g.to \in Station' /\ g.by \in Station' /\ OwnAnswer(g)'
    BY <1>0 DEF OwnAnswer, Holding
  <1>4. \A t, u \in Station : Rivals(t, u) => ~Underway(f, t, u)
    BY MeansToRival DEF Ignore, Underway
  <1>5. ASSUME NEW t \in Station, NEW u \in Station
        PROVE  Counted(t, u)'
    <2>1. Rivals(t, u) => ~Underway(f, t, u) /\ ~Underway(f, u, t)
      BY <1>4 DEF Rivals
    <2>2. CASE Rivals(t, u)
      BY <2>1, <2>2, <1>0, ExchangeStays, CountedStays
    <2>3. CASE ~Rivals(t, u)
      BY <2>3, <1>0 DEF Counted, Rivals
    <2>. QED  BY <2>2, <2>3
  <1>. QED  BY <1>0, <1>1, <1>2, <1>3, <1>5

\* A frame lost or late is one loss more, which covers the interval it was of.
LEMMA LoseKeeps ==
    ASSUME ClaimInv, Lose \/ Delay
    PROVE  ClaimInv'
  <1>. USE DEF ClaimInv
  <1>0. /\ TypeOK /\ Station' = Station /\ medium' = medium /\ st' = st /\ firmware' = firmware
        /\ cable' = cable /\ lost' = lost + 1
    BY DEF Lose, Delay, Station, medium
  <1>1. ASSUME NEW g \in wire'
        PROVE  \E f \in wire : /\ g.to = f.to /\ g.by = f.by /\ g.kind = f.kind /\ g.addr = f.addr
                               /\ g \in [to : Everyone, kind : {"Ask", "Claimed"}, addr : Addr,
                                         by : Everyone, late : BOOLEAN]
    <2>1. CASE g \in wire
      BY <2>1, <1>0 DEF TypeOK
    <2>2. CASE g \notin wire
      <3>1. PICK f \in wire : g = [f EXCEPT !.late = TRUE]
        BY <2>2 DEF Lose, Delay
      <3>. QED  BY <3>1, <1>0 DEF TypeOK
    <2>. QED  BY <2>1, <2>2
  <1>2. TypeOK'
    BY <1>0, <1>1 DEF TypeOK
  <1>3. \A t \in Station : ClaimOK(t)' /\ AdapterOK(t)'
    BY <1>0 DEF ClaimOK, AdapterOK, Claiming, Holding, schedule, medium
  <1>4. \A g \in wire' : g.to \in Station' /\ g.by \in Station' /\ OwnAnswer(g)'
    BY <1>0, <1>1 DEF OwnAnswer, Holding
  <1>5. ASSUME NEW t \in Station, NEW u \in Station
        PROVE  Counted(t, u)'
    <2>1. Asked(t) \in Nat /\ Asked(u) \in Nat /\ lost \in Nat
      BY <1>0, CableFacts DEF Asked, TypeOK
    <2>2. Asked(t)' = Asked(t) /\ Asked(u)' = Asked(u)
      BY <1>0 DEF Asked, Holding, schedule, medium
    <2>3. Rivals(t, u)' => Asked(t) <= lost + 1 \/ Asked(u) <= lost + 1
      BY <1>0 DEF Rivals, Counted
    <2>4. Rivals(t, u)' => \/ Asked(t)' <= lost'
                          \/ Asked(u)' <= lost'
      BY <2>2, <2>3, <1>0
    <2>5. Rivals(t, u)' => \/ Asked(t)' <= lost' + 1
                          \/ Asked(u)' <= lost' + 1
      BY <2>1, <2>2, <2>3, <1>0
    <2>. QED  BY <2>4, <2>5 DEF Counted
  <1>. QED  BY <1>0, <1>2, <1>3, <1>4, <1>5

LEMMA ClaimStep == ClaimInv /\ [Next]_vars => ClaimInv'
  <1>. SUFFICES ASSUME ClaimInv, [Next]_vars PROVE ClaimInv'
    OBVIOUS
  <1>1. ASSUME NEW s \in Station, Start(s) PROVE ClaimInv'
    BY <1>1, StartKeeps
  <1>2. ASSUME NEW s \in Station, Leave(s) PROVE ClaimInv'
    BY <1>2, LeaveKeeps
  <1>3. ASSUME NEW s \in Station, tick(s) PROVE ClaimInv'
    BY <1>3, AskKeeps, claimedKeeps DEF tick
  <1>4. CASE Hear
    BY <1>4, AnswerKeeps, GiveWayKeeps, IgnoreKeeps DEF Hear
  <1>5. ASSUME NEW n \in Station \cap Node, Repick(n) PROVE ClaimInv'
    BY <1>5, RepickKeeps
  <1>6. CASE Lose \/ Delay
    BY <1>6, LoseKeeps
  <1>7. CASE UNCHANGED vars
    BY <1>7 DEF vars, ClaimInv, TypeOK, ClaimOK, AdapterOK, Counted, Rivals, Asked, Exchange,
                Underway, OwnAnswer, Claiming, Holding, Station, medium, schedule
  <1>. QED  BY <1>1, <1>2, <1>3, <1>4, <1>5, <1>6, <1>7 DEF Next

\* The claims, the adapters and the frames on the cable are in order whatever
\* stations come and go and whatever is lost.
THEOREM ClaimsAreCounted == Spec => []ClaimInv
  <1>. QED  BY InitClaim, ClaimStep, PTL DEF Spec

\* Two stations hold one address only after as many frames were lost or late
\* as a claim has intervals: probes answered in time never end in a clash.
THEOREM NoClashWithoutLosses == Spec => []OneHolder
  <1>1. ClaimInv => OneHolder
    <2>. SUFFICES ASSUME ClaimInv, NEW s \in Station, NEW t \in Station, s # t,
                         Holding(s), Holding(t), st[s].addr = st[t].addr
                  PROVE  lost >= schedule
      BY DEF OneHolder
    <2>1. Rivals(s, t) /\ ~Exchange(s, t)
      BY DEF Rivals, Exchange, Underway, Holding, Claiming
    <2>2. Counted(s, t) /\ schedule \in Nat /\ lost \in Nat
      BY CableFacts DEF ClaimInv, TypeOK
    <2>. QED  BY <2>1, <2>2 DEF Counted, Asked
  <1>. QED  BY <1>1, ClaimsAreCounted, PTL

\* Only what another station sent makes a claim begin again: a reflected probe
\* or answer of one's own is never an objection.
THEOREM ClaimsYieldToOthersOnly == Spec => GivesWayToOthers
  <1>1. ClaimInv /\ [Next]_vars =>
            [\A s \in Station : LetsGo(s) => \E f \in wire \ wire' : f.to = s /\ f.by # s]_vars
    <2>. SUFFICES ASSUME ClaimInv, Next, NEW s \in Station, LetsGo(s)
                  PROVE  \E f \in wire \ wire' : f.to = s /\ f.by # s
      OBVIOUS
    <2>. USE DEF ClaimInv
    <2>0. TypeOK /\ Claiming(s) /\ st'[s].phase = "Claiming" /\ st'[s].tries < st[s].tries /\ s \in Everyone
      BY CableFacts DEF LetsGo
    <2>1. st'[s] # st[s]
      BY <2>0 DEF TypeOK
    <2>2. ASSUME NEW t \in Station, Start(t) PROVE FALSE
      BY <2>0, <2>1, <2>2 DEF Start, Claiming, TypeOK
    <2>3. ASSUME NEW t \in Station, Leave(t) PROVE FALSE
      <3>1. st' = [st EXCEPT ![t] = Off]
        BY <2>3 DEF Leave
      <3>. QED  BY <3>1, <2>0, <2>1, OffFacts DEF TypeOK
    <2>4. ASSUME NEW t \in Station, tick(t) PROVE FALSE
      <3>1. t \in Everyone
        BY <2>0, CableFacts
      <3>2. CASE Ask(t)
        BY <3>1, <3>2, <2>0, <2>1 DEF Ask, TypeOK
      <3>3. CASE claimed(t)
        BY <3>1, <3>3, <2>0, <2>1 DEF claimed, TypeOK
      <3>. QED  BY <2>4, <3>2, <3>3 DEF tick
    <2>5. ASSUME NEW n \in Station \cap Node, Repick(n) PROVE FALSE
      BY <2>0, <2>1, <2>5 DEF Repick, Claiming, Holding, TypeOK
    <2>6. CASE Lose \/ Delay
      BY <2>1, <2>6 DEF Lose, Delay
    <2>7. CASE Hear
      <3>1. PICK f \in wire : GiveWay(f, f.to)
        BY <2>1, <2>7 DEF Hear, Answer, Ignore
      <3>2. f.to = s
        BY <2>1, <3>1, GiveWayFacts
      <3>3. f.by # f.to
        BY <3>1, MeansConflict DEF GiveWay
      <3>4. f \notin wire'
        BY <3>1 DEF GiveWay
      <3>. QED  BY <3>2, <3>3, <3>4
    <2>. QED  BY <2>2, <2>3, <2>4, <2>5, <2>6, <2>7 DEF Next
  <1>. QED  BY <1>1, ClaimsAreCounted, PTL DEF Spec, GivesWayToOthers
=============================================================================
