----------------------------- MODULE MCRequests -----------------------------
(* Our router has two cables, another router two more behind a tunnel; a zone *)
(* of our cable reaches over both.                                            *)
EXTENDS Requests
CONSTANTS ours, far, c1, c2, c3, c4, e2, e3, z1, z2, z3
Ports == (ours :> {c1, c2}) @@ (far :> {c3, c4})
ZonesOf == (c1 :> <<z1, z2>>) @@ (c2 :> <<z2>>) @@ (c3 :> <<z2>>) @@ (c4 :> <<z2, z3>>)
Where == (e2 :> c2) @@ (e3 :> c4)
Named == (e2 :> z2) @@ (e3 :> z2)
SomeCommands == [what : {"Nodes"}, zone : {z2, z3, None}] \cup [what : {"PingName"}, zone : {z3}]
                \cup [what : {"Ping", "Zones"}, zone : {None}]
Learned == <<c1, c2, c3, c4>>
SomeTries == [k \in {"NetInfo", "Lookup", "Zones"} |-> IF k = "Zones" THEN 2 ELSE 1]
=============================================================================
