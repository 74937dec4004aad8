------------------------ MODULE RoutingTable_proofs ------------------------
(***************************************************************************)
(* Proofs about RoutingTable, for every choice of ports, peers, ranges,    *)
(* distances and zone names.                                               *)
(*                                                                         *)
(* All operations but Elapse and AddZones end in Settle, so the argument   *)
(* has two halves: what the set of routes an operation leaves looks like   *)
(* (TableOK, and untouched ranges unchanged), and what Settle then does to *)
(* the incumbents and the reports.                                         *)
(***************************************************************************)
EXTENDS RoutingTable, TLAPS

\* The conjuncts of the inductive invariant that speak of the routes alone.
TableOK(rs) ==
    /\ rs \subseteq Routes
    /\ \A r, q \in rs : r.range = q.range \/ ~Overlaps(r.range, q.range)
    /\ \A r, q \in rs : r.range = q.range /\ Key(r) = Key(q) => r = q
    /\ \A p \in Ports :
          /\ DirectRoute(p) \in rs
          /\ \A r \in rs : Overlaps(r.range, PortRange[p]) => r = DirectRoute(p)

\* The routes of every range start outside touched are as they were.
Untouched(touched, after) ==
    \A s \in Starts \ touched :
        {r \in after : Start(r) = s} = {r \in routes : Start(r) = s}

\* The inductive invariant.
TableInv ==
    /\ TypeOK
    /\ TableOK(routes)
    /\ IncumbentIsBest
    /\ ReportsAreComplete
    /\ ZonesHaveRoutes

-----------------------------------------------------------------------------

LEMMA RangeFacts ==
    /\ \A rg \in Ranges : rg[1] \in Nat /\ rg[2] \in Nat /\ rg[1] \in Starts
    /\ \A a, b \in Ranges : Overlaps(a, b) => Overlaps(b, a)
    /\ \A p \in Ports : Overlaps(PortRange[p], PortRange[p])
    /\ \A p, q \in Ports : PortRange[p][1] = PortRange[q][1] => p = q
BY RangesAssumption, PortsAssumption DEF Overlaps, Starts

\* Two ranges that hold one number overlap.
LEMMA MeetingOverlaps ==
    ASSUME NEW r \in Routes, NEW q \in Routes, NEW n \in Starts, Contains(r, n), Contains(q, n)
    PROVE  Overlaps(r.range, q.range)
<1>1. n \in Nat /\ r.range \in Ranges /\ q.range \in Ranges
  BY RangeFacts DEF Routes, Starts
<1>. QED BY <1>1, RangeFacts DEF Contains, Overlaps

LEMMA DirectRouteType ==
    ASSUME NEW p \in Ports
    PROVE  DirectRoute(p) \in Routes /\ Direct(DirectRoute(p)) /\ DirectRoute(p).range = PortRange[p]
<1>1. 0 \in 0..Validity BY NumbersAssumption
<1>. QED BY <1>1, PortsAssumption DEF DirectRoute, Entry, Routes, Direct, States, Targets, Nexts

LEMMA RewrittenFacts ==
    ASSUME NEW r \in Routes, NEW d \in 0..15, NEW state \in States
    PROVE  /\ Rewritten(r, d, state) \in Routes
           /\ Rewritten(r, d, state).range = r.range
           /\ Key(Rewritten(r, d, state)) = Key(r)
BY NumbersAssumption DEF Rewritten, Entry, Routes, Key

-----------------------------------------------------------------------------
(* The routes each operation leaves                                        *)

\* Replacing the route of one path by a fresh one, which learn does.
LEMMA LearnedTable ==
    ASSUME TableOK(routes), NEW rg \in Ranges, NEW t \in Targets, NEW n \in Nexts,
           ~Dropped(rg), NEW new \in Routes,
           new.range = rg, new.target = t, new.next = n
    PROVE  /\ TableOK((routes \ SamePath(rg, t, n)) \cup {new})
           /\ Untouched({rg[1]}, (routes \ SamePath(rg, t, n)) \cup {new})
<1> DEFINE after == (routes \ SamePath(rg, t, n)) \cup {new}
<1>1. \A r \in routes : r.range = rg \/ ~Overlaps(r.range, rg)
  BY DEF Dropped
<1>2. \A r \in routes \ SamePath(rg, t, n) : r.range = rg => Key(r) # Key(new)
  BY DEF SamePath, Key
<1>3. \A p \in Ports : DirectRoute(p) \in routes \ SamePath(rg, t, n) /\ ~Overlaps(rg, PortRange[p])
  BY DirectRouteType, RangeFacts, PortsAssumption DEF Dropped, TableOK, SamePath
<1>4. after \subseteq Routes
  BY DEF TableOK
<1>5. \A r, q \in after : r.range = q.range \/ ~Overlaps(r.range, q.range)
  BY <1>1, <1>4, RangeFacts DEF TableOK, Routes
<1>6. \A r, q \in after : r.range = q.range /\ Key(r) = Key(q) => r = q
  BY <1>2 DEF TableOK
<1>7. \A p \in Ports :
         /\ DirectRoute(p) \in after
         /\ \A r \in after : Overlaps(r.range, PortRange[p]) => r = DirectRoute(p)
  BY <1>3 DEF TableOK
<1>8. Untouched({rg[1]}, after)
  BY DEF Untouched, SamePath, Start
<1>. QED BY <1>4, <1>5, <1>6, <1>7, <1>8 DEF TableOK

\* Taking away routes that are not our own networks'.
LEMMA SmallerTable ==
    ASSUME TableOK(routes), NEW after \in SUBSET routes,
           \A p \in Ports : DirectRoute(p) \in after
    PROVE  TableOK(after)
BY DEF TableOK

\* Changing routes in place, without moving any to another range or path and
\* without touching our own networks'.
LEMMA RewrittenTable ==
    ASSUME TableOK(routes), NEW named \in SUBSET routes, NEW f,
           \A r \in named : ~Direct(r),
           \A r \in named : /\ f[r] \in Routes
                            /\ f[r].range = r.range
                            /\ Key(f[r]) = Key(r)
    PROVE  TableOK((routes \ named) \cup {f[r] : r \in named})
<1> DEFINE after == (routes \ named) \cup {f[r] : r \in named}
<1> DEFINE From(q, r) == r \in routes /\ r.range = q.range /\ Key(r) = Key(q)
                         /\ IF r \in named THEN q = f[r] ELSE q = r
<1>1. \A q \in after : \E r \in routes : From(q, r)
  OBVIOUS
<1>2. after \subseteq Routes
  BY DEF TableOK
<1>3. \A r, q \in after : r.range = q.range \/ ~Overlaps(r.range, q.range)
  <2>1. SUFFICES ASSUME NEW r \in after, NEW q \in after
                 PROVE  r.range = q.range \/ ~Overlaps(r.range, q.range)
    OBVIOUS
  <2>2. PICK r0 \in routes : From(r, r0)
    BY <1>1
  <2>3. PICK q0 \in routes : From(q, q0)
    BY <1>1
  <2>. QED BY <2>2, <2>3 DEF TableOK
<1>4. \A r, q \in after : r.range = q.range /\ Key(r) = Key(q) => r = q
  <2>1. SUFFICES ASSUME NEW r \in after, NEW q \in after,
                        r.range = q.range, Key(r) = Key(q)
                 PROVE  r = q
    OBVIOUS
  <2>2. PICK r0 \in routes : From(r, r0)
    BY <1>1
  <2>3. PICK q0 \in routes : From(q, q0)
    BY <1>1
  <2>4. r0 = q0
    BY <2>1, <2>2, <2>3 DEF TableOK
  <2>. QED BY <2>2, <2>3, <2>4
<1>5. ASSUME NEW p \in Ports
      PROVE  /\ DirectRoute(p) \in after
             /\ \A r \in after : Overlaps(r.range, PortRange[p]) => r = DirectRoute(p)
  <2>1. DirectRoute(p) \in routes /\ DirectRoute(p) \notin named
    BY DirectRouteType DEF TableOK
  <2>2. ASSUME NEW r \in after, Overlaps(r.range, PortRange[p])
        PROVE  r = DirectRoute(p)
    <3>1. PICK r0 \in routes : From(r, r0)
      BY <1>1
    <3>2. r0 = DirectRoute(p)
      BY <3>1, <2>2 DEF TableOK
    <3>. QED BY <3>1, <3>2, <2>1
  <2>. QED BY <2>1, <2>2
<1>. QED BY <1>2, <1>3, <1>4, <1>5 DEF TableOK

LEMMA LearnTable ==
    ASSUME TableOK(routes), NEW rg \in Ranges, NEW d \in Distances,
           NEW t \in Targets, NEW n \in Nexts, ~Dropped(rg)
    PROVE  /\ LearnReachable(rg, d, t, n) =>
                 \E after : TableOK(after) /\ Untouched({rg[1]}, after) /\ Settle({rg[1]}, after)
           /\ LearnBad(rg, d, t, n) =>
                 \E after : TableOK(after) /\ Untouched({rg[1]}, after) /\ Settle({rg[1]}, after)
           /\ LearnUnreachable(rg, d, t, n) =>
                 \E after : TableOK(after) /\ Untouched({rg[1]}, after) /\ Settle({rg[1]}, after)
<1> DEFINE same == SamePath(rg, t, n)
<1>0. \A r \in same : r \in routes /\ r.range = rg /\ ~Direct(r)
  BY DEF SamePath, Dropped
<1>1. CASE LearnReachable(rg, d, t, n)
  <2> DEFINE new == Entry(rg, t, n, d + 1, "good")
  <2>1. new \in Routes /\ new.range = rg /\ new.target = t /\ new.next = n
    BY <1>1, NumbersAssumption DEF LearnReachable, Entry, Routes, States
  <2>2. Settle({rg[1]}, (routes \ same) \cup {new})
    BY <1>1 DEF LearnReachable
  <2>. QED BY <2>1, <2>2, LearnedTable
<1>2. CASE LearnBad(rg, d, t, n)
  <2> DEFINE f == [r \in same |-> Rewritten(r, r.distance, "bad")]
             after == (routes \ same) \cup {f[r] : r \in same}
  <2>1. \A r \in same : f[r] \in Routes /\ f[r].range = r.range /\ Key(f[r]) = Key(r)
    <3>1. \A r \in same : r \in Routes /\ r.distance \in 0..15
      BY <1>0 DEF TableOK, Routes
    <3>. QED BY <3>1, RewrittenFacts DEF States
  <2>2. TableOK(after)
    <3>1. same \in SUBSET routes /\ \A r \in same : ~Direct(r)
      BY <1>0
    <3>. HIDE DEF f, same
    <3>. QED BY <3>1, <2>1, RewrittenTable
  <2>3. Untouched({rg[1]}, after)
    BY <1>0, <2>1 DEF Untouched, Start
  <2>4. Settle({rg[1]}, after)
    BY <1>2 DEF LearnBad
  <2>. QED BY <2>2, <2>3, <2>4
<1>3. CASE LearnUnreachable(rg, d, t, n)
  <2>1. TableOK(routes \ same)
    BY <1>0, DirectRouteType, SmallerTable DEF TableOK
  <2>2. Untouched({rg[1]}, routes \ same)
    BY <1>0 DEF Untouched, Start
  <2>3. Settle({rg[1]}, routes \ same)
    BY <1>3 DEF LearnUnreachable
  <2>. QED BY <2>1, <2>2, <2>3
<1>. QED BY <1>1, <1>2, <1>3

LEMMA RemoveTargetTable ==
    ASSUME TableOK(routes), RemoveTarget
    PROVE  \E touched \in SUBSET Starts : \E after :
              TableOK(after) /\ Untouched(touched, after) /\ Settle(touched, after)
<1>1. PICK e \in Peers : LET gone == {r \in routes : r.target = e}
                         IN  Settle({Start(r) : r \in gone}, routes \ gone)
  BY DEF RemoveTarget
<1> DEFINE gone == {r \in routes : r.target = e}
           touched == {Start(r) : r \in gone}
<1>2. \A p \in Ports : DirectRoute(p) \notin gone
  BY TargetsAssumption DEF DirectRoute, Entry
<1>3. TableOK(routes \ gone)
  BY <1>2, SmallerTable DEF TableOK
<1>4. Untouched(touched, routes \ gone)
  BY DEF Untouched
<1>5. touched \in SUBSET Starts
  BY RangeFacts DEF TableOK, Routes, Start
<1>. QED BY <1>1, <1>3, <1>4, <1>5

LEMMA RemoveTable ==
    ASSUME TableOK(routes), Remove
    PROVE  \E touched \in SUBSET Starts : \E after :
              TableOK(after) /\ Untouched(touched, after) /\ Settle(touched, after)
<1>1. PICK e \in Peers, s \in Starts :
         Settle({s}, {r \in routes : ~(r.target = e /\ Start(r) = s)})
  BY DEF Remove
<1> DEFINE after == {r \in routes : ~(r.target = e /\ Start(r) = s)}
<1>2. \A p \in Ports : DirectRoute(p) \in routes /\ DirectRoute(p).target # e
  BY TargetsAssumption DEF DirectRoute, Entry, TableOK
<1>3. TableOK(after)
  BY <1>2, SmallerTable
<1>4. Untouched({s}, after)
  BY DEF Untouched
<1>. QED BY <1>1, <1>3, <1>4

LEMMA SetDistanceTable ==
    ASSUME TableOK(routes), SetDistance
    PROVE  \E touched \in SUBSET Starts : \E after :
              TableOK(after) /\ Untouched(touched, after) /\ Settle(touched, after)
<1>1. PICK e \in Peers, s \in Starts, d \in Distances :
         d < 15 /\
         Settle({s}, (routes \ {r \in routes : r.target = e /\ Start(r) = s}) \cup
                       {Rewritten(r, d + 1, r.state) :
                          r \in {r \in routes : r.target = e /\ Start(r) = s}})
  BY DEF SetDistance
<1> DEFINE named == {r \in routes : r.target = e /\ Start(r) = s}
           f == [r \in named |-> Rewritten(r, d + 1, r.state)]
           after == (routes \ named) \cup {f[r] : r \in named}
<1>2. \A r \in named : f[r] \in Routes /\ f[r].range = r.range /\ Key(f[r]) = Key(r)
  <2>1. \A r \in named : r \in Routes /\ r.state \in States
    BY DEF TableOK, Routes
  <2>2. d + 1 \in 0..15
    BY <1>1, NumbersAssumption
  <2>. QED BY <2>1, <2>2, RewrittenFacts
<1>3. named \in SUBSET routes /\ \A r \in named : ~Direct(r)
  BY TargetsAssumption DEF Direct
<1>4. TableOK(after)
  <2>. HIDE DEF f, named
  <2>. QED BY <1>2, <1>3, RewrittenTable
<1>5. Untouched({s}, after)
  BY <1>2 DEF Untouched, Start
<1>6. Settle({s}, after)
  BY <1>1
<1>. QED BY <1>4, <1>5, <1>6

LEMMA AgeTable ==
    ASSUME TableOK(routes), Age
    PROVE  \E touched \in SUBSET Starts : \E after :
              TableOK(after) /\ Untouched(touched, after) /\ Settle(touched, after)
<1> DEFINE touched == {Start(r) : r \in routes}
           named == {x \in routes : Expired(x) /\ x.state # "worst"}
           left == {r \in routes : ~Expired(r)}
           f == [r \in named |-> Aged(r)]
           aged == (routes \ named) \cup {f[r] : r \in named}
           after == left \cup {f[r] : r \in named}
<1>1. \A r \in named : f[r] \in Routes /\ f[r].range = r.range /\ Key(f[r]) = Key(r)
  <2>1. \A r \in named : r \in Routes /\ r.distance \in 0..15 /\ Older[r.state] \in States
    BY DEF TableOK, Routes, Older, States
  <2>. QED BY <2>1, RewrittenFacts DEF Aged
<1>2. named \in SUBSET routes /\ \A r \in named : ~Direct(r)
  BY DEF Expired, Ageing
<1>3. TableOK(aged)
  <2>. HIDE DEF f, named
  <2>. QED BY <1>1, <1>2, RewrittenTable
<1>4. TableOK(after)
  <2>1. after \subseteq aged
    OBVIOUS
  <2>2. \A p \in Ports : DirectRoute(p) \in left
    BY DirectRouteType DEF TableOK, Expired, Ageing
  <2>. HIDE DEF aged, left, named, f
  <2>. QED BY <1>3, <2>1, <2>2 DEF TableOK
<1>5. Untouched(touched, after)
  <2>1. \A q \in after : Start(q) \in touched
    <3>1. \A r \in named : Start(f[r]) = Start(r)
      BY <1>1 DEF Start
    <3>. HIDE DEF f
    <3>. QED BY <3>1
  <2>2. \A q \in routes : Start(q) \in touched
    OBVIOUS
  <2>. HIDE DEF after, touched
  <2>. QED BY <2>1, <2>2 DEF Untouched
<1>6. touched \in SUBSET Starts
  BY RangeFacts DEF TableOK, Routes, Start
<1>7. Settle(touched, after)
  BY DEF Age, AfterAging
<1>. QED BY <1>4, <1>5, <1>6, <1>7

-----------------------------------------------------------------------------
(* What Settle makes of them                                               *)

\* A pick is one of the routes, or stands for their absence.
LEMMA PickFacts ==
    ASSUME NEW rs \in SUBSET Routes, NEW incumbents, NEW s, NEW r \in Pick(rs, incumbents, s)
    PROVE  /\ r # None => r \in Shortest(rs, s) /\ r \in rs /\ Start(r) = s
           /\ r = None => Shortest(rs, s) = {}
           /\ r # None => PathOf(r) \in Targets \X Nexts /\ Seen(r) \in Targets \X Nat
           /\ r = None => PathOf(r) = None /\ Seen(r) = None
<1>1. Shortest(rs, s) \subseteq rs /\ \A q \in Shortest(rs, s) : Start(q) = s
  BY DEF Shortest
<1>2. None \notin rs
  BY NoneAssumption
<1>3. /\ r # None => r \in Shortest(rs, s)
      /\ r = None => Shortest(rs, s) = {}
  BY <1>1, <1>2 DEF Pick
<1>. QED BY <1>1, <1>3 DEF PathOf, Seen, Key, Routes

\* There is always something to pick.
LEMMA PickExists ==
    ASSUME NEW rs, NEW incumbents, NEW s
    PROVE  Pick(rs, incumbents, s) # {}
BY DEF Pick

\* Once the pick's own path is the incumbent, whatever is picked is as good:
\* it has the same path, target and distance.
LEMMA PickSettles ==
    ASSUME NEW rs \in SUBSET Routes, NEW was, NEW now, NEW s, NEW r \in Pick(rs, was, s),
           now[s] = PathOf(r), NEW q \in Pick(rs, now, s)
    PROVE  PathOf(q) = PathOf(r) /\ Seen(q) = Seen(r)
<1>1. CASE r = None
  <2>1. Shortest(rs, s) = {}
    BY <1>1, PickFacts
  <2>2. q = None
    BY <2>1 DEF Pick
  <2>. QED BY <1>1, <2>2
<1>2. CASE r # None
  <2>1. r \in Shortest(rs, s) /\ now[s] = Key(r)
    BY <1>2, PickFacts DEF PathOf
  <2>2. q \in Shortest(rs, s) /\ Key(q) = Key(r)
    BY <2>1 DEF Pick
  <2>3. q # None /\ r \in Routes /\ q \in Routes
    BY <2>1, <2>2, NoneAssumption DEF Shortest
  <2>4. q.distance = r.distance
    <3>1. r.distance <= q.distance /\ q.distance <= r.distance
      BY <2>1, <2>2 DEF Shortest
    <3>2. r.distance \in Nat /\ q.distance \in Nat
      BY <2>3 DEF Routes
    <3>. QED BY <3>1, <3>2
  <2>. QED BY <1>2, <2>2, <2>3, <2>4 DEF PathOf, Seen, Key
<1>. QED BY <1>1, <1>2

\* Every operation that ends in Settle keeps the whole invariant.
LEMMA SettleKeepsInv ==
    ASSUME TableInv, NEW touched \in SUBSET Starts, NEW after, TableOK(after),
           Untouched(touched, after), Settle(touched, after)
    PROVE  TableInv'
<1>1. PICK pick \in [touched -> after \cup {None}] :
        /\ \A s \in touched : pick[s] \in Pick(after, best, s)
        /\ routes' = after
        /\ best' = [s \in Starts |->
                      IF s \in touched THEN PathOf(pick[s]) ELSE best[s]]
        /\ zones' = [s \in Starts |->
                       IF s \in touched /\ ~\E r \in after : Start(r) = s
                       THEN None ELSE zones[s]]
        /\ told' = [s \in Starts |->
                      IF s \in touched /\ Seen(Current(s)) # Seen(pick[s])
                      THEN Seen(pick[s]) ELSE told[s]]
  BY DEF Settle, Moved, Incumbent, ZonesLeft
<1>2. after \in SUBSET Routes
  BY DEF TableOK
<1>3. ASSUME NEW s \in touched
      PROVE  /\ best'[s] = PathOf(pick[s]) /\ told'[s] = Seen(pick[s])
             /\ \A r \in Pick(after, best', s) : PathOf(r) = PathOf(pick[s]) /\ Seen(r) = Seen(pick[s])
  <2>1. best'[s] = PathOf(pick[s])
    BY <1>1
  <2>2. told[s] = Seen(Current(s))
    BY PickExists DEF Current, TableInv, ReportsAreComplete
  <2>3. told'[s] = Seen(pick[s])
    BY <1>1, <2>2
  <2>. QED BY <1>1, <1>2, <2>1, <2>3, PickSettles
<1>4. ASSUME NEW s \in Starts \ touched
      PROVE  Pick(after, best', s) = Pick(routes, best, s)
  <2>1. best'[s] = best[s]
    BY <1>1
  <2>2. Shortest(after, s) = Shortest(routes, s)
    <3>1. \A rs : Shortest(rs, s) = {r \in {x \in rs : Start(x) = s} : Usable(r) /\
                     \A q \in {x \in rs : Start(x) = s} : Usable(q) => r.distance <= q.distance}
      BY DEF Shortest
    <3>2. {x \in after : Start(x) = s} = {x \in routes : Start(x) = s}
      BY DEF Untouched
    <3>. QED BY <3>1, <3>2
  <2>. QED BY <2>1, <2>2 DEF Pick
<1>5. \A s \in Starts \ touched : best'[s] = best[s] /\ told'[s] = told[s]
  BY <1>1
<1>6. TypeOK'
  <2>1. \A s \in touched : /\ PathOf(pick[s]) \in (Targets \X Nexts) \cup {None}
                           /\ Seen(pick[s]) \in (Targets \X Nat) \cup {None}
    BY <1>1, <1>2, PickFacts
  <2>2. zones' \in [Starts -> ZoneLists \cup {None}]
    BY <1>1 DEF TableInv, TypeOK
  <2>3. best' \in [Starts -> (Targets \X Nexts) \cup {None}]
    BY <1>1, <2>1 DEF TableInv, TypeOK
  <2>4. told' \in [Starts -> (Targets \X Nat) \cup {None}]
    BY <1>1, <2>1 DEF TableInv, TypeOK
  <2>. QED BY <1>1, <1>2, <2>2, <2>3, <2>4 DEF TypeOK
<1>7. TableOK(routes)'
  BY <1>1 DEF TableOK, Key
<1>8. IncumbentIsBest'
  BY <1>1, <1>3, <1>4, <1>5 DEF IncumbentIsBest, TableInv
<1>9. ReportsAreComplete'
  BY <1>1, <1>3, <1>4, <1>5 DEF ReportsAreComplete, TableInv
<1>10. ZonesHaveRoutes'
  <2>1. \A s \in Starts \ touched : (\E r \in routes : Start(r) = s) => \E r \in after : Start(r) = s
    BY DEF Untouched
  <2>. QED BY <1>1, <2>1 DEF ZonesHaveRoutes, TableInv, Start
<1>. QED BY <1>6, <1>7, <1>8, <1>9, <1>10 DEF TableInv

-----------------------------------------------------------------------------
(* The steps that do not end in Settle                                     *)

\* Time passing moves no route and no choice.
LEMMA ElapseKeepsInv ==
    ASSUME TableInv, Elapse
    PROVE  TableInv'
<1> DEFINE Tick(r) == IF Ageing(r) /\ r.quiet < Validity
                      THEN [r EXCEPT !.quiet = r.quiet + 1] ELSE r
           tick == [r \in routes |-> Tick(r)]
<1>1. \A r \in routes : /\ tick[r] \in Routes
                        /\ tick[r].range = r.range /\ tick[r].distance = r.distance
                        /\ tick[r].target = r.target /\ tick[r].next = r.next
                        /\ tick[r].state = r.state
                        /\ Direct(r) => tick[r] = r
  BY NumbersAssumption DEF TableInv, TableOK, Routes, Ageing
<1>2. routes' = {tick[r] : r \in routes}
  BY DEF Elapse
<1>3. best' = best /\ zones' = zones /\ told' = told
  BY DEF Elapse
<1> HIDE DEF tick
<1>4. \A r, q \in routes : tick[r] = tick[q] => r = q
  BY <1>1 DEF TableInv, TableOK, Key
<1>5. ASSUME NEW s \in Starts
      PROVE  Shortest(routes', s) = {tick[r] : r \in Shortest(routes, s)}
  BY <1>1, <1>2 DEF Shortest, Start, Usable
<1>6. ASSUME NEW s \in Starts, NEW q \in Pick(routes', best', s)
      PROVE  best'[s] = PathOf(q) /\ told'[s] = Seen(q)
  <2>1. PICK r \in Pick(routes, best, s) : TRUE
    BY PickExists
  <2>2. best[s] = PathOf(r)
    BY <2>1 DEF TableInv, IncumbentIsBest
  <2>3. routes \in SUBSET Routes
    BY DEF TableInv, TableOK
  <2>4. CASE r = None
    <3>1. Shortest(routes, s) = {}
      BY <2>1, <2>3, <2>4, PickFacts
    <3>2. Shortest(routes', s) = {}
      BY <1>5, <3>1
    <3>3. q = None
      BY <3>2 DEF Pick
    <3>. QED BY <1>3, <2>1, <2>4, <3>3 DEF TableInv, IncumbentIsBest, ReportsAreComplete
  <2>5. CASE r # None
    <3>1. r \in Shortest(routes, s) /\ r \in routes /\ best[s] = Key(r)
      BY <2>1, <2>2, <2>3, <2>5, PickFacts DEF PathOf
    <3>2. tick[r] \in Shortest(routes', s) /\ Key(tick[r]) = best'[s]
      BY <1>1, <1>3, <1>5, <3>1 DEF Key
    <3>3. q \in Shortest(routes', s) /\ Key(q) = best'[s]
      BY <3>2 DEF Pick
    <3>4. PICK x \in Shortest(routes, s) : q = tick[x]
      BY <1>5, <3>3
    <3>5. x \in routes
      BY DEF Shortest
    <3>6. Key(x) = best[s] /\ q # None /\ x # None
      BY <1>1, <1>3, <2>3, <3>3, <3>4, <3>5, NoneAssumption DEF Key
    <3>7. x \in Pick(routes, best, s)
      BY <3>6 DEF Pick
    <3>8. best[s] = PathOf(x) /\ told[s] = Seen(x)
      BY <3>7 DEF TableInv, IncumbentIsBest, ReportsAreComplete
    <3>. QED BY <1>1, <1>3, <3>4, <3>5, <3>6, <3>8 DEF PathOf, Seen, Key
  <2>. QED BY <2>4, <2>5
<1>7. TypeOK'
  BY <1>1, <1>2, <1>3 DEF TableInv, TypeOK
<1>8. TableOK(routes)'
  <2>1. \A q \in routes' : \E r \in routes : q = tick[r]
    BY <1>2
  <2>2. routes' \subseteq Routes
    BY <1>1, <2>1
  <2>3. \A r, q \in routes' : r.range = q.range \/ ~Overlaps(r.range, q.range)
    BY <1>1, <2>1 DEF TableInv, TableOK
  <2>4. \A r, q \in routes' : r.range = q.range /\ Key(r) = Key(q) => r = q
    BY <1>1, <2>1 DEF TableInv, TableOK, Key
  <2>5. \A p \in Ports :
          /\ DirectRoute(p) \in routes'
          /\ \A r \in routes' : Overlaps(r.range, PortRange[p]) => r = DirectRoute(p)
    BY <1>1, <1>2, <2>1, DirectRouteType DEF TableInv, TableOK
  <2>. QED BY <2>2, <2>3, <2>4, <2>5 DEF TableOK, Key
<1>9. IncumbentIsBest' /\ ReportsAreComplete'
  BY <1>3, <1>6 DEF TableInv, IncumbentIsBest, ReportsAreComplete
<1>10. ZonesHaveRoutes'
  BY <1>1, <1>2, <1>3 DEF ZonesHaveRoutes, TableInv, Start
<1>. QED BY <1>7, <1>8, <1>9, <1>10 DEF TableInv

\* A zone reply moves no route, and what it reports is already known.
LEMMA ZoneReplyKeepsInv ==
    ASSUME TableInv, ZoneReply
    PROVE  TableInv'
<1>1. PICK s \in Starts, names \in (SUBSET ZoneNames) \ {{}}, total \in Totals \cup {None} :
         AddZones(s, names, total)
  BY DEF ZoneReply
<1> DEFINE old == IF zones[s] = None THEN [names |-> {}, expected |-> None] ELSE zones[s]
           new == [names |-> old.names \cup names,
                   expected |-> IF total = None THEN old.expected ELSE total]
<1>2. routes' = routes /\ best' = best
  BY <1>1 DEF AddZones
<1>3. told' = told
  <2>1. told[s] = Seen(Current(s))
    BY PickExists DEF Current, TableInv, ReportsAreComplete
  <2>. QED BY <1>1, <2>1 DEF AddZones, TableInv, TypeOK
<1>4. zones' \in [Starts -> ZoneLists \cup {None}]
  <2>1. old \in ZoneLists
    BY DEF TableInv, TypeOK, ZoneLists
  <2>2. new \in ZoneLists
    BY <2>1 DEF ZoneLists
  <2>3. zones' = [zones EXCEPT ![s] = new]
    BY <1>1 DEF AddZones
  <2>. QED BY <2>2, <2>3 DEF TableInv, TypeOK
<1>5. \A x \in Starts : Pick(routes, best, x)' = Pick(routes, best, x)
  BY <1>2 DEF Pick, Shortest, Key, Start, Usable
<1>6. ZonesHaveRoutes'
  BY <1>1, <1>2 DEF AddZones, ZonesHaveRoutes, TableInv, TypeOK, Start
<1>. QED BY <1>2, <1>3, <1>4, <1>5, <1>6
         DEF TableInv, TypeOK, TableOK, Key, IncumbentIsBest, ReportsAreComplete

-----------------------------------------------------------------------------

LEMMA InitEstablishesInv == Init => TableInv
<1> SUFFICES ASSUME Init PROVE TableInv
  OBVIOUS
<1>1. \A p, q \in Ports : PortRange[p][1] = PortRange[q][1] => p = q
  BY RangeFacts, PortsAssumption
<1>2. \A s \in Starts : HasPort(s) => /\ PortOf(s) \in Ports
                                      /\ PortRange[PortOf(s)][1] = s
  BY DEF HasPort, PortOf
<1>3. routes \subseteq Routes
  BY DirectRouteType DEF Init
<1>4. TableOK(routes)
  <2>1. \A r \in routes : \E p \in Ports : r = DirectRoute(p)
    BY DEF Init
  <2>. QED BY <1>3, <2>1, DirectRouteType, PortsAssumption, RangeFacts DEF TableOK, Init
<1>5. ASSUME NEW s \in Starts
      PROVE  /\ Shortest(routes, s) = IF HasPort(s) THEN {DirectRoute(PortOf(s))} ELSE {}
             /\ best[s] = IF HasPort(s) THEN Key(DirectRoute(PortOf(s))) ELSE None
             /\ told[s] = IF HasPort(s) THEN Seen(DirectRoute(PortOf(s))) ELSE None
  <2>1. \A r \in routes : /\ Usable(r)
                          /\ Start(r) = s => HasPort(s) /\ r = DirectRoute(PortOf(s))
    BY <1>1, <1>2 DEF Init, DirectRoute, Entry, Start, Usable, HasPort
  <2>2. HasPort(s) => DirectRoute(PortOf(s)) \in routes /\ Start(DirectRoute(PortOf(s))) = s
    BY <1>2 DEF Init, DirectRoute, Entry, Start
  <2>3. \A r \in routes : r.distance = 0
    BY DEF Init, DirectRoute, Entry
  <2>4. Shortest(routes, s) = IF HasPort(s) THEN {DirectRoute(PortOf(s))} ELSE {}
    BY <2>1, <2>2, <2>3 DEF Shortest
  <2>5. HasPort(s) => DirectRoute(PortOf(s)) # None
    BY <1>3, <2>2, NoneAssumption
  <2>. QED BY <2>4, <2>5 DEF Init, Key, Seen, DirectRoute, Entry
<1>6. ASSUME NEW s \in Starts
      PROVE  \A r \in Pick(routes, best, s) : best[s] = PathOf(r) /\ told[s] = Seen(r)
  <2>1. CASE HasPort(s)
    <3>1. DirectRoute(PortOf(s)) # None
      BY <1>2, <2>1, DirectRouteType, NoneAssumption
    <3>2. Pick(routes, best, s) = {DirectRoute(PortOf(s))}
      BY <1>5, <2>1 DEF Pick
    <3>. QED BY <1>5, <2>1, <3>1, <3>2 DEF PathOf
  <2>2. CASE ~HasPort(s)
    <3>1. Pick(routes, best, s) = {None}
      BY <1>5, <2>2 DEF Pick
    <3>. QED BY <1>5, <2>2, <3>1 DEF PathOf, Seen
  <2>. QED BY <2>1, <2>2
<1>7. TypeOK
  <2>1. \A s \in Starts : HasPort(s) => PortZones[PortOf(s)] \in SUBSET ZoneNames
    BY <1>2, PortsAssumption
  <2>2. zones \in [Starts -> ZoneLists \cup {None}]
    BY <2>1 DEF Init, ZoneLists
  <2>. QED BY <1>2, <1>3, <2>2 DEF Init, TypeOK, Targets, Nexts
<1>8. ZonesHaveRoutes
  <2>1. \A s \in Starts : HasPort(s) => /\ DirectRoute(PortOf(s)) \in routes
                                        /\ Start(DirectRoute(PortOf(s))) = s
    BY <1>2 DEF Init, DirectRoute, Entry, Start
  <2>2. \A s \in Starts : zones[s] # None => HasPort(s)
    BY DEF Init
  <2>. QED BY <2>1, <2>2 DEF ZonesHaveRoutes
<1>. QED BY <1>4, <1>6, <1>7, <1>8 DEF TableInv, IncumbentIsBest, ReportsAreComplete

\* Every step is time passing, a zone reply, or an operation that settles.
LEMMA StepShape ==
    ASSUME TableOK(routes), Next
    PROVE  \/ Elapse
           \/ ZoneReply
           \/ \E touched \in SUBSET Starts : \E after :
                 TableOK(after) /\ Untouched(touched, after) /\ Settle(touched, after)
<1>1. ASSUME NEW rg \in Ranges, NEW d \in Distances, NEW t \in Targets, NEW n \in Nexts,
             Learn(rg, d, t, n)
      PROVE  \E touched \in SUBSET Starts : \E after :
                TableOK(after) /\ Untouched(touched, after) /\ Settle(touched, after)
  <2>1. {rg[1]} \in SUBSET Starts
    BY RangeFacts
  <2>. QED BY <1>1, <2>1, LearnTable DEF Learn
<1>2. CASE LearnFromCable
  BY <1>1, <1>2 DEF LearnFromCable, Targets, Nexts
<1>3. CASE LearnFromPeer
  BY <1>1, <1>3 DEF LearnFromPeer, Targets, Nexts
<1>. QED BY <1>2, <1>3, AgeTable, RemoveTargetTable, RemoveTable, SetDistanceTable DEF Next

LEMMA NextKeepsInv == TableInv /\ [Next]_vars => TableInv'
<1> SUFFICES ASSUME TableInv, [Next]_vars PROVE TableInv'
  OBVIOUS
<1>1. CASE Next
  <2>1. TableOK(routes)
    BY DEF TableInv
  <2>. QED BY <1>1, <2>1, StepShape, ElapseKeepsInv, ZoneReplyKeepsInv, SettleKeepsInv
<1>2. CASE UNCHANGED vars
  <2>1. \A s \in Starts : Pick(routes, best, s)' = Pick(routes, best, s)
    BY <1>2 DEF vars, Pick, Shortest, Key, Start, Usable
  <2>. QED BY <1>2, <2>1 DEF vars, TableInv, TypeOK, TableOK, Key, Start,
                             IncumbentIsBest, ReportsAreComplete, ZonesHaveRoutes
<1>. QED BY <1>1, <1>2

LEMMA TableInvariant == Spec => []TableInv
BY InitEstablishesInv, NextKeepsInv, PTL DEF Spec

\* The tables keep their types through every operation.
THEOREM TypeCorrect == Spec => []TypeOK
BY TableInvariant, PTL DEF TableInv

\* Lookup by network number is unambiguous: no number lies in two of the
\* ranges in the table, and no path to a range has two entries.
THEOREM RangesDisjoint == Spec => [](NoOverlap /\ OneRoutePerPath)
<1>1. TableInv => NoOverlap /\ OneRoutePerPath
  BY MeetingOverlaps DEF TableInv, TableOK, NoOverlap, OneRoutePerPath
<1>. QED BY <1>1, TableInvariant, PTL

\* Nothing anyone announces displaces or shadows a network of our own.
THEOREM OwnNetworksStand == Spec => []DirectAlone
<1>1. TableInv => DirectAlone
  BY DEF TableInv, TableOK, DirectAlone
<1>. QED BY <1>1, TableInvariant, PTL

\* The incumbents are always the best routes' paths.
THEOREM IncumbentsExact == Spec => []IncumbentIsBest
BY TableInvariant, PTL DEF TableInv

\* The change reports are a complete account of the best routes.
THEOREM ReportsExact == Spec => []ReportsAreComplete
BY TableInvariant, PTL DEF TableInv

\* A zone list goes with the last route of its range.
THEOREM NoOrphanZones == Spec => []ZonesHaveRoutes
BY TableInvariant, PTL DEF TableInv

\* Traffic is never moved off a path that is still among the shortest.
THEOREM TiesKeepTheIncumbent == Spec => IncumbentKept
<1>1. TableInv /\ [Next]_vars => [IncumbentHolds]_vars
  <2> SUFFICES ASSUME TableInv, Next PROVE IncumbentHolds
    BY DEF vars
  <2>1. TableOK(routes)
    BY DEF TableInv
  <2>2. ASSUME NEW touched \in SUBSET Starts, NEW after,
               TableOK(after), Settle(touched, after)
        PROVE  IncumbentHolds
    <3>1. PICK pick \in [touched -> after \cup {None}] :
            /\ \A s \in touched : pick[s] \in Pick(after, best, s)
            /\ routes' = after
            /\ best' = [s \in Starts |->
                          IF s \in touched THEN PathOf(pick[s]) ELSE best[s]]
      BY <2>2 DEF Settle, Incumbent
    <3>2. SUFFICES ASSUME NEW s \in touched, best'[s] # best[s],
                          NEW r \in Shortest(after, s), Key(r) = best[s], r \in after
                   PROVE  FALSE
      BY <3>1 DEF IncumbentHolds
    <3>3. r \in {q \in Shortest(after, s) : Key(q) = best[s]}
      BY <3>2
    <3>4. pick[s] \in {q \in Shortest(after, s) : Key(q) = best[s]}
      BY <3>1, <3>3 DEF Pick
    <3>5. PathOf(pick[s]) = best[s]
      <4>1. after \in SUBSET Routes /\ pick[s] \in after
        BY <3>4, <2>2 DEF Shortest, TableOK
      <4>. QED BY <4>1, <3>4, NoneAssumption DEF PathOf
    <3>. QED BY <3>1, <3>2, <3>5
  <2>3. CASE Elapse \/ ZoneReply
    BY <2>3 DEF Elapse, ZoneReply, AddZones, IncumbentHolds
  <2>. QED BY <2>1, <2>2, <2>3, StepShape
<1>. QED BY <1>1, TableInvariant, PTL DEF Spec, IncumbentKept

\* Only the peer can take its routes away or degrade them, and what it can
\* make of their distance stays within what DDP can count.
THEOREM TunnelRoutesGood == Spec => []TunnelRoutesStayGood
<1> DEFINE Good(r) == r.target \in Peers => r.state = "good" /\ r.distance \in 1..15
<1>1. Init => TunnelRoutesStayGood
  BY TargetsAssumption DEF Init, TunnelRoutesStayGood, DirectRoute, Entry
<1>2. TableInv /\ TunnelRoutesStayGood /\ [Next]_vars => TunnelRoutesStayGood'
  <2> SUFFICES ASSUME TableInv, TunnelRoutesStayGood, [Next]_vars
               PROVE  TunnelRoutesStayGood'
    OBVIOUS
  <2>0. (\A r \in routes : Good(r)) /\ Distances \subseteq Nat
    BY NumbersAssumption DEF TunnelRoutesStayGood
  <2>1. ASSUME NEW rg \in Ranges, NEW d \in Distances, NEW p \in Ports, NEW n \in Routers,
               Learn(rg, d, p, n)
        PROVE  \A r \in routes' : Good(r)
    <3>1. p \notin Peers
      BY TargetsAssumption
    <3>2. \A r \in routes' : r \in routes \/ r.target = p
      <4>1. CASE LearnReachable(rg, d, p, n)
        <5>1. routes' = (routes \ SamePath(rg, p, n)) \cup {Entry(rg, p, n, d + 1, "good")}
          BY <4>1 DEF LearnReachable, Settle
        <5>. QED BY <5>1 DEF Entry
      <4>2. CASE LearnBad(rg, d, p, n)
        <5>1. routes' = (routes \ SamePath(rg, p, n)) \cup
                          {Rewritten(r, r.distance, "bad") : r \in SamePath(rg, p, n)}
          BY <4>2 DEF LearnBad, Settle
        <5>. QED BY <5>1 DEF Rewritten, Entry, SamePath
      <4>3. CASE LearnUnreachable(rg, d, p, n)
        BY <4>3 DEF LearnUnreachable, Settle
      <4>. QED BY <2>1, <4>1, <4>2, <4>3 DEF Learn
    <3>. QED BY <2>0, <3>1, <3>2
  <2>2. ASSUME NEW rg \in Ranges, NEW d \in Distances, NEW e \in Peers, d < 15,
               Learn(rg, d, e, NoNext)
        PROVE  \A r \in routes' : Good(r)
    <3>1. LearnReachable(rg, d, e, NoNext)
      BY <2>0, <2>2 DEF Learn, LearnBad, LearnUnreachable
    <3>2. \A r \in {Entry(rg, e, NoNext, d + 1, "good")} : Good(r)
      BY <2>0, <2>2 DEF Entry
    <3>. QED BY <2>0, <3>1, <3>2 DEF LearnReachable, Settle
  <2>3. CASE LearnFromCable \/ LearnFromPeer
    BY <2>1, <2>2, <2>3 DEF LearnFromCable, LearnFromPeer, TunnelRoutesStayGood
  <2>4. CASE Elapse
    <3>1. routes' = {IF Ageing(r) /\ r.quiet < Validity
                     THEN [r EXCEPT !.quiet = r.quiet + 1] ELSE r : r \in routes}
      BY <2>4 DEF Elapse
    <3>2. \A r \in routes : r.target \in Peers => ~Ageing(r)
      BY DEF Ageing
    <3>3. \A r \in routes : [r EXCEPT !.quiet = r.quiet + 1].target = r.target
      BY DEF TableInv, TableOK, Routes
    <3>. QED BY <2>0, <3>1, <3>2, <3>3 DEF TunnelRoutesStayGood
  <2>5. CASE Age
    <3>1. \A r \in routes : Expired(r) => r.target \notin Peers
      BY DEF Expired, Ageing
    <3>2. \A r \in routes : \A d, state : Rewritten(r, d, state).target = r.target
      BY DEF Rewritten, Entry
    <3>3. \A q \in routes' : \/ q \in routes
                             \/ \E r \in routes : /\ Expired(r)
                                                  /\ q = Rewritten(r, r.distance, Older[r.state])
      BY <2>5 DEF Age, AfterAging, Aged, Settle
    <3>. QED BY <2>0, <3>1, <3>2, <3>3 DEF TunnelRoutesStayGood
  <2>6. CASE RemoveTarget \/ Remove
    BY <2>0, <2>6 DEF RemoveTarget, Remove, Settle, TunnelRoutesStayGood
  <2>7. CASE SetDistance
    <3>1. PICK e \in Peers, s \in Starts, d \in Distances :
             /\ d < 15
             /\ routes' = (routes \ {r \in routes : r.target = e /\ Start(r) = s}) \cup
                            {Rewritten(r, d + 1, r.state) :
                               r \in {r \in routes : r.target = e /\ Start(r) = s}}
      BY <2>7 DEF SetDistance, Settle
    <3>2. \A r \in routes : r.target = e => Good(Rewritten(r, d + 1, r.state))
      BY <2>0, <3>1 DEF Rewritten, Entry
    <3>. QED BY <2>0, <3>1, <3>2 DEF TunnelRoutesStayGood
  <2>8. CASE ZoneReply \/ UNCHANGED vars
    BY <2>8 DEF ZoneReply, AddZones, vars, TunnelRoutesStayGood
  <2>. QED BY <2>3, <2>4, <2>5, <2>6, <2>7, <2>8 DEF Next
<1>. QED BY <1>1, <1>2, TableInvariant, PTL DEF Spec

=============================================================================
