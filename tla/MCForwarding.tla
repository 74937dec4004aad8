---------------------------- MODULE MCForwarding ----------------------------
(* Small internets for Forwarding.                                          *)
EXTENDS Forwarding, TLC

CONSTANTS A, B, C, D, E, F

Port(n, next, d) == [target |-> <<"Port", n>>, next |-> next, distance |-> d]
Peer(r, d) == [target |-> <<"Peer", r>>, next |-> r, distance |-> d]

\* Two internets side by side.  A, B and C have a tunnel between any two and
\* one cable in common, 30; A and C have one more each.  Tables may say
\* anything, and not all ports hold a node yet.
MeshNets == {10, 20, 30}
MeshAttached == 10 :> {A} @@ 20 :> {C} @@ 30 :> {A, B, C}
AnyRoutes == [r \in {A, B, C} |-> [n \in Nets |->
    IF n \notin MeshNets THEN {NoRoute}
    ELSE IF r \in MeshAttached[n] THEN {Port(n, r, 0)}
    ELSE {NoRoute} \cup {Port(30, s, 1) : s \in {A, B, C} \ {r}} \cup {Peer(s, 1) : s \in {A, B, C} \ {r}}]]

\* D and E have a tunnel, and F is behind E: the tables have settled.
LineNets == {50, 60, 70, 80}
LineAttached == 50 :> {D} @@ 60 :> {E} @@ 70 :> {E, F} @@ 80 :> {F}
LineRoutes == [r \in {D, E, F} |-> [n \in MeshNets |-> {NoRoute}] @@ (CASE
    r = D -> 50 :> {Port(50, D, 0)} @@ 60 :> {Peer(E, 1)} @@ 70 :> {Peer(E, 1)} @@ 80 :> {Peer(E, 2)}
 [] r = E -> 50 :> {Peer(D, 1)} @@ 60 :> {Port(60, E, 0)} @@ 70 :> {Port(70, E, 0)} @@ 80 :> {Port(70, F, 1)}
 [] r = F -> 50 :> {Port(70, E, 2)} @@ 60 :> {Port(70, E, 1)} @@ 70 :> {Port(70, F, 0)} @@ 80 :> {Port(80, F, 0)})]

BothNets == MeshNets \cup LineNets
BothAttached == MeshAttached @@ LineAttached
BothTunnels == A :> {B, C} @@ B :> {A, C} @@ C :> {A, B} @@ D :> {E} @@ E :> {D} @@ F :> {}
BothRoutes == AnyRoutes @@ LineRoutes
BothClaimed == A :> {10} @@ B :> {30} @@ C :> {20, 30} @@ D :> {50} @@ E :> {60, 70} @@ F :> {70, 80}

\* A and C both join the cables 10 and 30: two ways between them.
PairNets == {10, 30}
PairAttached == 10 :> {A, C} @@ 30 :> {A, C}
PairRoutes == [r \in Routers |-> [n \in PairNets |-> {Port(n, r, 0)}]]
PairClaimed == [r \in Routers |-> PairNets]
NoTunnels == [r \in Routers |-> {}]
=============================================================================
