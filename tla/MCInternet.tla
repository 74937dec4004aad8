------------------------------ MODULE MCInternet ------------------------------
(* A network behind one router, and behind that a loop: two routers joined   *)
(* by two cables, or three in a triangle.                                    *)
EXTENDS Internet
CONSTANTS h, r1, r2, r3, c0, c1, c2, c3, z1, z2, z3
Pair == [c \in {c0, c1, c2} |-> IF c = c0 THEN {h, r1} ELSE {r1, r2}]
Triangle == [c \in {c0, c1, c2, c3} |->
    CASE c = c0 -> {h, r1} [] c = c1 -> {r1, r2} [] c = c2 -> {r2, r3} [] c = c3 -> {r1, r3}]
Nets == [c \in Cable |->
    CASE c = c0 -> <<20, 20>> [] c = c1 -> <<30, 31>> [] c = c2 -> <<40, 41>> [] c = c3 -> <<50, 50>>]
Far == <<1, 10>>
Hops == [r \in Router |-> CASE r = h -> 0 [] r = r1 -> 1 [] OTHER -> 2]
TwoPages == {{z1}, {z2, z3}}
=============================================================================
