------------------------------ MODULE Internet ------------------------------
(***************************************************************************)
(* Routers that learn of a network from each other's RTMP beacons and of   *)
(* its zones from ZIP (router/local.rs over router/table.rs), round loops   *)
(* of cables, while the router that network hangs on comes and goes.       *)
(*                                                                         *)
(* Networks do not disturb each other in a table: one is followed.  The    *)
(* clock is the beacon's: all beacon once a period, in any order, and a    *)
(* route expires when Validity periods have passed over it.                *)
(***************************************************************************)
EXTENDS Integers, FiniteSets

CONSTANTS
    Router, Cable,
    On,         \* the routers on each cable
    Home,       \* the router the network followed hangs on
    Network,    \* the range of that network
    PortRange,  \* the range of each cable
    Zones,      \* the zones of the network
    Pages,      \* the replies a router makes of them
    MaxTotal,   \* the most zones an Extended Reply can announce, its one byte
    Validity,   \* VALIDITY, in periods of RTMP_INTERVAL
    MaxFaults,  \* bound on Home's comings and goings and on packets lost
    Distance,   \* how far the network really is from each router
    None

\* No network is in two ranges, so those of a table do not disturb each other.
Apart(g, h) == g[2] < h[1] \/ h[2] < g[1]

ASSUME InternetAssumption ==
    /\ On \in [Cable -> SUBSET Router] /\ Home \in Router
    /\ \A r, s \in Router : r # s => Cardinality({c \in Cable : {r, s} \subseteq On[c]}) <= 1
    /\ IsFiniteSet(Cable) /\ IsFiniteSet(Zones) /\ UNION Pages = Zones
    /\ Network \in Nat \X Nat /\ PortRange \in [Cable -> Nat \X Nat]
    /\ \A g \in {Network} \cup {PortRange[c] : c \in Cable} : g[1] <= g[2]
    /\ \A c \in Cable : /\ Apart(Network, PortRange[c])
                         /\ \A d \in Cable \ {c} : Apart(PortRange[c], PortRange[d])
    /\ Distance \in [Router -> 0..14]
    /\ {Validity, MaxFaults, MaxTotal} \subseteq Nat /\ Validity > 0 /\ MaxTotal > 0

VARIABLES
    up,      \* Home is running
    routes,  \* the routes to the network, `at' the router that holds it
    best,    \* the path in use at each other router, None if there is none
    zones,   \* its zone list, None if there is none
    mail,    \* ZIP replies on their way
    owed,    \* routers that have yet to beacon in this period
    faults

tables == <<routes, best, zones>>
vars == <<up, tables, mail, owed, faults>>

Others == Router \ {Home}
Live == IF up THEN Router ELSE Others
CablesOf(r) == {c \in Cable : r \in On[c]}
Neighbours(r) == {s \in Others \ {r} : \E c \in Cable : {r, s} \subseteq On[c]}
-----------------------------------------------------------------------------
(* One router's table of the network.                                       *)
key(e) == <<e.target, e.next>>
usable(e) == e.state \in {"good", "suspect"}
Held(r) == {e \in routes : e.at = r}
Best(r) == {e \in Held(r) : key(e) = best[r]}

Shortest(rs) == {e \in rs : usable(e) /\ \A f \in rs : usable(f) => e.distance <= f.distance}
\* Mutant: a tie moves the traffic.
Picks_NoIncumbent(rs, incumbent) == IF Shortest(rs) = {} THEN {None} ELSE {key(e) : e \in Shortest(rs)}
\* The incumbent on a tie; else the code takes the first found, we any.
Picks(rs, incumbent) ==
    LET keys == {key(e) : e \in Shortest(rs)}
    IN  IF keys = {} THEN {None} ELSE IF incumbent \in keys THEN {incumbent} ELSE keys

complete(z) == z # None /\ z.names # {} /\ (z.expected # None => z.expected <= Cardinality(z.names))

settle(touched) ==
    LET picks(r) == Picks({e \in routes' : e.at = r}, best[r])
    IN  /\ \E chosen \in [touched -> UNION {picks(r) : r \in touched}] :
              /\ \A r \in touched : chosen[r] \in picks(r)
              /\ best' = [r \in Others |-> IF r \in touched THEN chosen[r] ELSE best[r]]
        /\ zones' = [r \in Others |-> IF \E e \in routes' : e.at = r THEN zones[r] ELSE None]

\* learn: what router t.at makes of one tuple, heard on t.target from t.next.
Same(t) == {e \in routes : e.at = t.at /\ key(e) = key(t)}
\* Mutant: only a shorter distance replaces the one held.
Learnt_Shorter(t) ==
    IF t.distance = 31 THEN {[e EXCEPT !.state = "bad", !.quiet = 0] : e \in Same(t)}
    ELSE IF Same(t) = {} THEN {[t EXCEPT !.distance = @ + 1]}
    ELSE {[t EXCEPT !.distance = IF e.distance < t.distance THEN e.distance ELSE t.distance + 1] : e \in Same(t)}
Learnt(t) ==
    IF t.distance = 31 THEN {[e EXCEPT !.state = "bad", !.quiet = 0] : e \in Same(t)}
    ELSE {[t EXCEPT !.distance = @ + 1]}
-----------------------------------------------------------------------------
(* What a router tells a cable, and what the others make of it.             *)

\* Split horizon, notify neighbour; nothing if the network is left out.
tuples_for(r, c) ==
    LET e == CHOOSE x \in Held(r) : best[r] # None => key(x) = best[r]
    IN  IF Held(r) = {} \/ e.target = c THEN {}
        ELSE IF best[r] = None THEN {31} ELSE {e.distance} \cap 0..14

\* A network with no zone list yet is not advertised.
advertisable(r, c) ==
    IF r = Home THEN {0} ELSE IF complete(zones[r]) THEN tuples_for(r, c) ELSE {}

beacon(r, hearers) ==
    LET heard == UNION {{[at |-> s, target |-> c, next |-> r, distance |-> d,
                          state |-> "good", quiet |-> 0] : d \in advertisable(r, c), s \in On[c] \cap hearers}
                        : c \in CablesOf(r)}
    IN  /\ routes' = (routes \ UNION {Same(t) : t \in heard}) \cup UNION {Learnt(t) : t \in heard}
        /\ settle(hearers)

ListOf(r) == IF r = Home THEN Zones ELSE zones[r].names
Carrying(total, r) == {[names |-> p \cap ListOf(r), total |-> total[p]] : p \in {q \in Pages : q \cap ListOf(r) # {}}}
pages_OfPage(r) == Carrying([p \in Pages |-> Cardinality(p)], r)
\* One Reply, or Extended Replies that announce the size of the whole list, as
\* far as one byte goes: a longer list is announced as one of MaxTotal.
Announced(n) == IF n > MaxTotal THEN MaxTotal ELSE n
pages(r) == Carrying([p \in Pages |->
    IF Cardinality(Pages) = 1 THEN None ELSE Announced(Cardinality(ListOf(r)))], r)
query_reply(r) == IF r = Home \/ complete(zones[r]) THEN pages(r) ELSE {}

\* The router on the way to the network is asked for the zones it lacks.
zip_queries(r) ==
    IF r = Home \/ complete(zones[r]) THEN {}
    ELSE {[to |-> r, reply |-> p] : p \in UNION {query_reply(e.next) : e \in {x \in Best(r) : x.next \in Live}}}

Expired(e) == e.quiet >= Validity
tick(r) ==
    /\ r \in owed /\ owed' = owed \ {r}
    /\ \A e \in Held(r) : ~Expired(e)
    /\ \E deaf \in SUBSET Neighbours(r) :
          /\ faults + Cardinality(deaf) <= MaxFaults /\ faults' = faults + Cardinality(deaf)
          /\ beacon(r, Neighbours(r) \ deaf)
    /\ mail' = mail \cup zip_queries(r)
    /\ UNCHANGED up
-----------------------------------------------------------------------------
Older == [good |-> "suspect", suspect |-> "bad", bad |-> "worst"]
age(r) ==
    LET expired == {e \in Held(r) : Expired(e)}
        aged == {[e EXCEPT !.state = Older[@], !.quiet = 0] : e \in {x \in expired : x.state # "worst"}}
    IN  /\ expired # {}
        /\ routes' = (routes \ expired) \cup aged
        /\ settle({r})
        /\ UNCHANGED <<up, mail, owed, faults>>

\* add_zones: the list of a network that has a route grows.
learn_zones ==
    /\ \E m \in mail :
          LET old == IF zones[m.to] = None THEN [names |-> {}, expected |-> None] ELSE zones[m.to]
              new == [names |-> old.names \cup m.reply.names,
                      expected |-> IF m.reply.total = None THEN old.expected ELSE m.reply.total]
          IN  /\ mail' = mail \ {m}
              /\ zones' = IF Held(m.to) = {} THEN zones ELSE [zones EXCEPT ![m.to] = new]
    /\ UNCHANGED <<up, routes, best, owed, faults>>

\* A period is over: everybody has beaconed, what expired has been aged.
Period ==
    /\ owed = {} /\ mail = {} /\ owed' = Live
    /\ \A e \in routes : ~Expired(e)
    /\ routes' = {[e EXCEPT !.quiet = @ + 1] : e \in routes}
    /\ UNCHANGED <<up, best, zones, mail, faults>>

Lose ==
    /\ faults < MaxFaults /\ faults' = faults + 1
    /\ \E m \in mail : mail' = mail \ {m}
    /\ UNCHANGED <<up, tables, owed>>

Die ==
    /\ faults < MaxFaults /\ faults' = faults + 1
    /\ up /\ up' = FALSE /\ owed' = owed \ {Home}
    /\ UNCHANGED <<tables, mail>>
Return ==
    /\ faults < MaxFaults /\ faults' = faults + 1
    /\ ~up /\ up' = TRUE /\ owed' = owed \cup {Home}
    /\ UNCHANGED <<tables, mail>>

Init ==
    /\ up = TRUE /\ routes = {}
    /\ best = [r \in Others |-> None] /\ zones = [r \in Others |-> None]
    /\ mail = {} /\ owed = Router /\ faults = 0

Next == \/ \E r \in Router : tick(r)
        \/ \E r \in Others : age(r)
        \/ learn_zones \/ Period \/ Lose \/ Die \/ Return
Spec == Init /\ [][Next]_vars
\* A reply that is not lost is read.  The timers have no fairness of their own:
\* Router::step runs In::Tick only when no input comes for 250 ms.
LiveSpec == Spec /\ WF_vars(learn_zones)
-----------------------------------------------------------------------------
\* A zone list counts as complete only when it holds every zone, or as many as
\* the byte that counts them can say.
CompleteIsWhole == \A r \in Others : complete(zones[r]) =>
    \/ zones[r].names = Zones
    \/ Cardinality(Pages) > 1 /\ Cardinality(zones[r].names) >= MaxTotal

\* Every router's loop goes idle again and again, so that period after period
\* comes to its end with all that was due in it done.
TimersRun == []<><<Period>>_vars

Right == \A r \in Others :
    IF up THEN complete(zones[r]) /\ \E e \in Best(r) : e.distance = Distance[r]
    ELSE best[r] = None
Settles == TimersRun => <>[]Right

Forgotten == TimersRun => <>[](up \/ routes = {})

\* The tables of these routers are RoutingTable's: the rows of router r, with
\* its own cables beside them, and of every change the last one reported.
Row(e) == [range |-> Network, distance |-> e.distance, target |-> e.target, next |-> e.next,
           state |-> e.state, quiet |-> e.quiet]
DirectRow(c) == [range |-> PortRange[c], distance |-> 0, target |-> c, next |-> None,
                 state |-> "good", quiet |-> 0]

\* None is none of what it stands beside.
ASSUME NoneAssumption ==
    /\ None \notin Nat /\ None \notin Cable \X Router
    /\ None \notin [range : {Network} \cup {PortRange[c] : c \in Cable}, distance : Nat, target : Cable,
                     next : Router \cup {None}, state : {"good", "suspect", "bad", "worst"}, quiet : Nat]

Rows(r, rs) == {DirectRow(c) : c \in CablesOf(r)} \cup {Row(e) : e \in rs}

AllRanges == {Network} \cup {PortRange[c] : c \in Cable}
PerStart(r, followed, own) == [s \in {g[1] : g \in AllRanges} |->
    IF s = Network[1] THEN followed
    ELSE LET c == CHOOSE c \in Cable : PortRange[c][1] = s
         IN  IF c \in CablesOf(r) THEN own[c] ELSE None]
Incumbents(r) == PerStart(r, best[r], [c \in Cable |-> <<c, None>>])
Lists(r) == PerStart(r, zones[r], [c \in Cable |-> [names |-> Zones, expected |-> None]])
Reported(r) == IF best[r] = None THEN None
               ELSE LET e == CHOOSE e \in Best(r) : TRUE IN <<e.target, e.distance>>
Told(r) == PerStart(r, Reported(r), [c \in Cable |-> <<c, 0>>])

Table(r) == INSTANCE RoutingTable WITH
    Ports <- CablesOf(r), Peers <- {}, Routers <- Router, NoNext <- None,
    Ranges <- AllRanges, PortZones <- [c \in CablesOf(r) |-> Zones],
    Distances <- 0..31, ZoneNames <- Zones, Totals <- 0..Cardinality(Zones),
    routes <- Rows(r, Held(r)), best <- Incumbents(r), zones <- Lists(r), told <- Told(r)

\* No step changes a table but as one operation of RoutingTable does (so each
\* behaviour satisfies Table(r)!Spec); what it learns is what the router named
\* as the next one just said on that cable, or a reply sent to it.
TableStep(r) ==
    \/ UNCHANGED <<Held(r), best[r], zones[r]>>
    \/ \E c \in CablesOf(r) : \E n \in On[c] \ {r} : \E d \in advertisable(n, c) :
          Table(r)!Learn(Network, d, c, n)
    \/ \E m \in mail : m.to = r /\ Table(r)!AddZones(Network[1], m.reply.names, m.reply.total)
    \/ Table(r)!Elapse \/ Table(r)!Age
TablesKept == (\A r \in Others : Table(r)!Init) /\ [][\A r \in Others : TableStep(r)]_vars
=============================================================================
