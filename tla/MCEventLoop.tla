---------------------------- MODULE MCEventLoop ----------------------------
(* EventLoop with a queue of two events and three transactions, the ID of   *)
(* one of which is used twice.                                              *)
EXTENDS EventLoop, TLC

AllLinks == [m \in {"Router", "Bridge", "Monitor"} |->
    IF m = "Bridge" THEN {"nic", "lt"} ELSE {"nic"}]

CONSTANTS k1, k2, k3
SomeHeard == k1 :> {0, 1} @@ k2 :> {0} @@ k3 :> {1}
FewUses == k1 :> 2 @@ k2 :> 1 @@ k3 :> 1
=============================================================================
