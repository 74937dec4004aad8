---------------------------- MODULE RoutingTable ----------------------------
(***************************************************************************)
(* The routing and zone tables of one router (src/router/table.rs, struct  *)
(* Tables).  Every operation that changes them is an action:               *)
(*                                                                         *)
(*   Learn         one RTMP tuple heard on a port, or one AURP tuple heard *)
(*                 from a tunnel peer                                      *)
(*   Age           the validity timer                                      *)
(*   RemoveTarget  everything learned from one peer goes                   *)
(*   Remove        one network of one peer goes                            *)
(*   SetDistance   one network of one peer moves                           *)
(*   AddZones      a ZIP or ZI reply names zones of a network              *)
(*                                                                         *)
(* Each of them ends in settle, which recomputes the best route of the     *)
(* ranges it touched and returns the changes its caller must be told of.   *)
(*                                                                         *)
(* The order of the routes in the vector is abstracted: where no tied      *)
(* route is the incumbent, the code takes the one learned first and the    *)
(* model any of them.  The `extended' flag and the spelling of zone names  *)
(* (compared without case by the code) are data no property looks at.      *)
(***************************************************************************)
EXTENDS Naturals, FiniteSets

CONSTANTS
    Ports,        \* our ports: the targets of directly attached networks
    Peers,        \* the tunnel peers: the other kind of target
    Routers,      \* next routers on a cable
    NoNext,       \* the next router of a direct or a tunnel route
    Ranges,       \* network ranges that may be announced, <<first, last>>,
                  \* whichever of the two is larger: the parsers do not look
    PortRange,    \* the configured range of each port
    PortZones,    \* the configured zones of each port
    Distances,    \* distances a tuple may carry
    ZoneNames,    \* zone names a reply may carry
    Totals,       \* zone totals an extended reply may carry
    Validity,     \* the validity timer, in units of Elapse
    None          \* absent: no route, no zone list, no total

Overlaps(a, b) == a[1] <= b[2] /\ b[1] <= a[2]

ASSUME RangesAssumption == Ranges \subseteq Nat \X Nat

\* config.rs refuses ports whose networks are not ranges or overlap.
ASSUME PortsAssumption ==
    /\ PortRange \in [Ports -> Ranges]
    /\ \A p \in Ports : PortRange[p][1] <= PortRange[p][2]
    /\ PortZones \in [Ports -> (SUBSET ZoneNames) \ {{}}]
    /\ \A p, q \in Ports : p # q => ~Overlaps(PortRange[p], PortRange[q])

ASSUME TargetsAssumption ==
    /\ Ports \cap Peers = {}
    /\ NoNext \notin Routers

ASSUME NumbersAssumption ==
    /\ Distances \subseteq 0..31
    /\ Totals \subseteq Nat
    /\ Validity \in Nat \ {0}

Targets == Ports \cup Peers
Nexts == Routers \cup {NoNext}
Starts == {rg[1] : rg \in Ranges}
States == {"good", "suspect", "bad", "worst"}

\* quiet is how long ago `seen' is, up to Validity.
Routes == [range : Ranges, distance : 0..15, target : Targets, next : Nexts,
           state : States, quiet : 0..Validity]

ZoneLists == [names : SUBSET ZoneNames, expected : Totals \cup {None}]

\* None is none of the things whose absence it marks.
ASSUME NoneAssumption ==
    /\ None \notin Routes
    /\ None \notin ZoneLists
    /\ None \notin Totals
    /\ None \notin Targets \X Nexts
    /\ None \notin Targets \X Nat

VARIABLES
    routes,       \* the routes held, one per path to a range
    best,         \* range start -> the path in use, so that a tie keeps it
    zones,        \* range start -> its zone list
    told          \* range start -> what a listener that applied every
                  \* reported change holds: the best route's target, distance

vars == <<routes, best, zones, told>>

-----------------------------------------------------------------------------
(* Choosing the best route of a range                                      *)

Start(r) == r.range[1]
Key(r) == <<r.target, r.next>>
Usable(r) == r.state \in {"good", "suspect"}
Direct(r) == r.distance = 0 /\ r.target \in Ports

\* A route written now, and a held route written over now.
Entry(rg, t, n, d, state) ==
    [range |-> rg, distance |-> d, target |-> t, next |-> n, state |-> state, quiet |-> 0]
Rewritten(r, d, state) == Entry(r.range, r.target, r.next, d, state)

Shortest(rs, s) ==
    LET usable == {r \in rs : Start(r) = s /\ Usable(r)}
    IN  {r \in usable : \A q \in usable : r.distance <= q.distance}

\* The routes best_for_start may return: the incumbent if it is among the
\* shortest, else the shortest; None when the range has no usable route.
Pick_FirstFound(rs, incumbents, s) ==
    IF Shortest(rs, s) # {} THEN Shortest(rs, s) ELSE {None}
Pick(rs, incumbents, s) ==
    LET kept == {r \in Shortest(rs, s) : Key(r) = incumbents[s]}
    IN  IF kept # {} THEN kept
        ELSE IF Shortest(rs, s) # {} THEN Shortest(rs, s) ELSE {None}

Current(s) == CHOOSE r \in Pick(routes, best, s) : TRUE

Complete(z) == /\ z # None
               /\ z.names # {}
               /\ z.expected # None => z.expected <= Cardinality(z.names)

\* What the export to a tunnel peer may name: a range best reached through a
\* port, near enough, with a complete zone list.
Exportable(r, z) ==
    r # None /\ r.target \in Ports /\ r.distance < 15 /\ Complete(z)

\* What a change report says of a route.
Seen(r) == IF r = None THEN None ELSE <<r.target, r.distance>>
PathOf(r) == IF r = None THEN None ELSE Key(r)

(* Tables::settle for the range starts in touched, `after' being the routes *)
(* the operation leaves: the incumbents are recorded, a zone list goes with *)
(* its last route, and a change is reported where the best route's target,  *)
(* distance or existence differs from the snapshot.                         *)

Moved_IgnoringDistance(old, new) == (old = None) # (new = None)
Moved(old, new) == Seen(old) # Seen(new)

Incumbent_NeverRemoved(was, new) == IF new = None THEN was ELSE Key(new)
Incumbent(was, new) == PathOf(new)

ZonesLeft_Kept(s, after) == zones[s]
ZonesLeft(s, after) == IF \E r \in after : Start(r) = s THEN zones[s] ELSE None

Settle(touched, after) ==
    \E pick \in [touched -> after \cup {None}] :
        /\ \A s \in touched : pick[s] \in Pick(after, best, s)
        /\ routes' = after
        /\ best' = [s \in Starts |->
                      IF s \in touched THEN Incumbent(best[s], pick[s]) ELSE best[s]]
        /\ zones' = [s \in Starts |->
                       IF s \in touched THEN ZonesLeft(s, after) ELSE zones[s]]
        /\ told' = [s \in Starts |->
                      IF s \in touched /\ Moved(Current(s), pick[s])
                      THEN Seen(pick[s]) ELSE told[s]]

-----------------------------------------------------------------------------
(* add_port for every configured port, in Router::new                      *)

DirectRoute(p) == Entry(PortRange[p], p, NoNext, 0, "good")

HasPort(s) == \E p \in Ports : PortRange[p][1] = s
PortOf(s) == CHOOSE p \in Ports : PortRange[p][1] = s

Init ==
    /\ routes = {DirectRoute(p) : p \in Ports}
    /\ best = [s \in Starts |-> IF HasPort(s) THEN <<PortOf(s), NoNext>> ELSE None]
    /\ zones = [s \in Starts |->
                  IF HasPort(s) THEN [names |-> PortZones[PortOf(s)], expected |-> None]
                  ELSE None]
    /\ told = [s \in Starts |-> IF HasPort(s) THEN <<PortOf(s), 0>> ELSE None]

-----------------------------------------------------------------------------
(* Tables::learn                                                           *)

\* A tuple that overlaps an entry without matching it, or that matches a
\* network of our own, is dropped.
Dropped_OwnOnly(rg) == \E r \in routes : r.range = rg /\ Direct(r)
Dropped_OverlapOnly(rg) == \E r \in routes : r.range # rg /\ Overlaps(r.range, rg)
Dropped(rg) ==
    \E r \in routes : \/ r.range # rg /\ Overlaps(r.range, rg)
                      \/ r.range = rg /\ Direct(r)

SamePath(rg, t, n) ==
    {r \in routes : r.range = rg /\ r.target = t /\ r.next = n}

\* Replace-Entry, or Create-New-Entry.
LearnReachable(rg, d, t, n) ==
    /\ d < 15
    /\ Settle({rg[1]},
              (routes \ SamePath(rg, t, n)) \cup
                {Entry(rg, t, n, d + 1, "good")})

\* Notify neighbour: an existing entry turns bad and keeps its distance.
LearnBad(rg, d, t, n) ==
    /\ d = 31
    /\ Settle({rg[1]},
              (routes \ SamePath(rg, t, n)) \cup
                {Rewritten(r, r.distance, "bad") : r \in SamePath(rg, t, n)})

\* One hop more than DDP can count: the entry goes.
LearnUnreachable(rg, d, t, n) ==
    /\ d >= 15 /\ d # 31
    /\ Settle({rg[1]}, routes \ SamePath(rg, t, n))

Learn(rg, d, t, n) ==
    /\ ~Dropped(rg)
    /\ \/ LearnReachable(rg, d, t, n)
       \/ LearnBad(rg, d, t, n)
       \/ LearnUnreachable(rg, d, t, n)

\* An RTMP data packet from a router on one of our cables.
LearnFromCable ==
    \E rg \in Ranges, d \in Distances, p \in Ports, n \in Routers : Learn(rg, d, p, n)

\* An RI-Rsp tuple, an NA event or an NDC event for an unknown network: the
\* callers pass only distances below 15, and there is no next router.
LearnFromPeer ==
    \E rg \in Ranges, d \in Distances, e \in Peers :
        d < 15 /\ Learn(rg, d, e, NoNext)

-----------------------------------------------------------------------------
(* The validity timer                                                      *)

\* Direct routes and routes learned over a tunnel never age.
Ageing_TunnelsToo(r) == ~Direct(r)
Ageing(r) == ~Direct(r) /\ r.target \notin Peers

\* Time passes. Only the clocks of ageing routes are ever read.
Elapse ==
    /\ routes' = {IF Ageing(r) /\ r.quiet < Validity
                  THEN [r EXCEPT !.quiet = r.quiet + 1] ELSE r : r \in routes}
    /\ UNCHANGED <<best, zones, told>>

Expired(r) == Ageing(r) /\ r.quiet >= Validity

Older == [good |-> "suspect", suspect |-> "bad", bad |-> "worst"]

Aged(r) == Rewritten(r, r.distance, Older[r.state])

AfterAging == {r \in routes : ~Expired(r)} \cup
                {Aged(r) : r \in {x \in routes : Expired(x) /\ x.state # "worst"}}

\* Tables::age: every expired route takes one step; past worst it goes.
Age == Settle({Start(r) : r \in routes}, AfterAging)

-----------------------------------------------------------------------------
(* What the AURP peers do to the tables                                    *)

\* Tables::remove_target: a Router Down, or ten tickles unanswered.
RemoveTarget ==
    \E e \in Peers :
        LET gone == {r \in routes : r.target = e}
        IN  Settle({Start(r) : r \in gone}, routes \ gone)

\* Tables::remove: an ND, an NRC, or an NDC beyond reach.
Remove ==
    \E e \in Peers, s \in Starts :
        Settle({s}, {r \in routes : ~(r.target = e /\ Start(r) = s)})

\* Tables::set_distance: an NDC for a network the peer announced before. The
\* state is not touched.
SetDistance ==
    \E e \in Peers, s \in Starts, d \in Distances :
        LET named == {r \in routes : r.target = e /\ Start(r) = s}
        IN  /\ named # {}
            /\ d < 15
            /\ Settle({s}, (routes \ named) \cup
                             {Rewritten(r, d + 1, r.state) : r \in named})

-----------------------------------------------------------------------------
(* Tables::add_zones: a reply extends the list of a range that has a       *)
(* route; the network is reported as an addition when it has just become   *)
(* exportable.                                                             *)

AddZones(s, names, total) ==
    LET old == IF zones[s] = None THEN [names |-> {}, expected |-> None] ELSE zones[s]
        new == [names |-> old.names \cup names,
                expected |-> IF total = None THEN old.expected ELSE total]
    IN  /\ \E r \in routes : Start(r) = s
        /\ zones' = [zones EXCEPT ![s] = new]
        /\ told' = IF Exportable(Current(s), new) /\ ~Exportable(Current(s), zones[s])
                   THEN [told EXCEPT ![s] = Seen(Current(s))] ELSE told
        /\ UNCHANGED <<routes, best>>

ZoneReply ==
    \E s \in Starts, names \in (SUBSET ZoneNames) \ {{}}, total \in Totals \cup {None} :
        AddZones(s, names, total)

-----------------------------------------------------------------------------

Next == \/ LearnFromCable
        \/ LearnFromPeer
        \/ Elapse
        \/ Age
        \/ RemoveTarget
        \/ Remove
        \/ SetDistance
        \/ ZoneReply

Spec == Init /\ [][Next]_vars

-----------------------------------------------------------------------------
(* Properties                                                              *)

\* Type invariant.
TypeOK ==
    /\ routes \subseteq Routes
    /\ best \in [Starts -> (Targets \X Nexts) \cup {None}]
    /\ zones \in [Starts -> ZoneLists \cup {None}]
    /\ told \in [Starts -> (Targets \X Nat) \cup {None}]

\* A network number lies in one range at most, whatever mix of cables and
\* tunnels announced them, ranges that end before they start included: what
\* learn's overlap check promises to best, which looks networks up by number.
\* (Of two ranges that meet, the one that starts later starts in the other.)
Contains(r, n) == r.range[1] <= n /\ n <= r.range[2]
NoOverlap ==
    \A r, q \in routes, n \in Starts : Contains(r, n) /\ Contains(q, n) => r.range = q.range

\* There is one route per path (target, next router) to a range, so replacing
\* an entry never leaves a stale twin that could win the next lookup.
OneRoutePerPath ==
    \A r, q \in routes : r.range = q.range /\ Key(r) = Key(q) => r = q

\* A network of our own keeps its direct route for ever, good, and no other
\* route for it or for a range overlapping it exists.
DirectAlone ==
    \A p \in Ports :
        /\ DirectRoute(p) \in routes
        /\ \A r \in routes : Overlaps(r.range, PortRange[p]) => r = DirectRoute(p)

\* The recorded incumbent is always exactly the path of the best route: no
\* operation leaves it naming a route that is gone, unusable or longer than
\* another, and a range with a usable route always has an incumbent.  (Two
\* ranges with one start may share a path; best_for_start takes either.)
IncumbentIsBest ==
    \A s \in Starts : \A r \in Pick(routes, best, s) : best[s] = PathOf(r)

\* A listener that applies every change the operations return always holds
\* the target and distance of the best route of every range: no change goes
\* unreported (the AURP senders and the log live by these reports alone).
ReportsAreComplete ==
    \A s \in Starts : \A r \in Pick(routes, best, s) : told[s] = Seen(r)

\* A zone list never outlives the last route of its range: it would be handed
\* to whatever network is learned there next.
ZonesHaveRoutes ==
    \A s \in Starts : zones[s] # None => \E r \in routes : Start(r) = s

\* A tunnel route is always good: only the peer can take it away, and no
\* timer on our side may.
TunnelRoutesStayGood ==
    \A r \in routes : r.target \in Peers => r.state = "good" /\ r.distance \in 1..15

\* A tie never moves traffic: the path in use to a range changes only when
\* the route it named is gone or unusable, or another one is shorter.
IncumbentHolds ==
    \A s \in Starts :
       best[s] # None /\ best'[s] # best[s] =>
          ~\E r \in routes' : Key(r) = best[s] /\ r \in Shortest(routes', s)
IncumbentKept == [][IncumbentHolds]_vars
=============================================================================
