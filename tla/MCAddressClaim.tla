---------------------------- MODULE MCAddressClaim ----------------------------
(* A router and a stand-alone node, two routers, on cables of each kind.     *)
EXTENDS AddressClaim, TLC
CONSTANTS p1, p2, n1, i1, i2, i3
SomeCables == {<<"Ether", {p1, n1}>>, <<"Ether", {p1, p2}>>,
               <<"Ltoudp", {p1, p2}>>, <<"Tashtalk", {p1, p2}>>}
SomeTries == [asked \in {"Probe", "Enq"} |-> IF asked = "Probe" THEN 3 ELSE 2]
Alike == Permutations(Ids)
=============================================================================
