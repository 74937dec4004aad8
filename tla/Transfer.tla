------------------------------ MODULE Transfer ------------------------------
(***************************************************************************)
(* What the sequenced packets of an AURP connection promise (docs/AURP.md, *)
(* "Sequence numbers"), without numbers, acknowledgements, repetition or   *)
(* timers: the sender offers one packet at a time; the receiver takes what *)
(* is offered, once; and the sender goes on to the next packet, or back to *)
(* rest, only when the one it offered has been taken or the receiver has   *)
(* left.  AurpConnection implements this under the mapping Transferred.    *)
(***************************************************************************)
CONSTANT None      \* no packet

VARIABLES
    conn,          \* the connection the sender serves, or 0
    held,          \* the one the receiver has open, or 0
    offered,       \* the packet the sender tries to get through, or None
    taken          \* the last packet the receiver took

vars == <<conn, held, offered, taken>>

Init == conn = 0 /\ held = 0 /\ offered = None /\ taken = None

\* The receiver opens a connection, or leaves the one it has.
Turn == (held = 0 \/ held' = 0) /\ UNCHANGED <<conn, offered, taken>>

\* The sender begins one, drops one, whatever was on its way, or begins again
\* the one it has, which the receiver has left.
Begin == conn' # 0 /\ (conn' = conn => held # conn) /\ offered' = None /\ UNCHANGED <<held, taken>>
End == conn' = 0 /\ offered' = None /\ UNCHANGED <<held, taken>>

Another == offered' # None /\ offered'.conn = conn /\ UNCHANGED <<conn, held, taken>>
Offer == conn # 0 /\ offered = None /\ Another
Through == offered # None /\ taken = offered
\* What it sends on a connection the receiver has left reaches nobody.
Advance == offered # None /\ (Through \/ held # conn) /\ Another
Rest == Through /\ offered' = None /\ UNCHANGED <<conn, held, taken>>

Take == /\ offered # None /\ held = conn /\ taken # offered /\ taken' = offered
        /\ UNCHANGED <<conn, held, offered>>
\* What is still on its way on a connection the sender has dropped.
TakeOld == held # conn /\ taken'.conn = held /\ UNCHANGED <<conn, held, offered>>

Next == Turn \/ Begin \/ End \/ Offer \/ Advance \/ Rest \/ Take \/ TakeOld

Spec == Init /\ [][Next]_vars
=============================================================================
