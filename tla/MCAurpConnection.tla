-------------------------- MODULE MCAurpConnection --------------------------
(* AurpConnection on small networks: two networks behind the sender, with   *)
(* every kind of change of their best routes, and an export of two pages.   *)
EXTENDS AurpConnection

Route(via, dist, zoned) == [via |-> via, dist |-> dist, zoned |-> zoned]
Nowhere == Route("None", 0, FALSE)

\* A route of every kind a change can lead to: not there, zones not known yet,
\* on a cable nearby and as far as a tunnel carries, and on a tunnel.
AllRoutes == {Nowhere, Route("Port", 1, FALSE), Route("Port", 1, TRUE),
              Route("Port", 14, TRUE), Route("Peer", 1, TRUE)}
\* A network that comes and goes.
ComesAndGoes == {Nowhere, Route("Port", 0, FALSE), Route("Port", 0, TRUE)}
Steady == {Route("Port", 0, TRUE), Route("Port", 1, TRUE)}

KnownHome == [n \in Net |-> Route("Port", 1, TRUE)]
OwnHome == [n \in Net |-> Route("Port", 0, TRUE)]
LateHome == [n \in Net |-> Route("Port", 0, FALSE)]

Bounds(open, change, lose, restart, pings, probe) ==
    [k \in {"Open", "Change", "Lose", "Restart", "Ping", "Probe"} |->
        CASE k = "Open" -> open [] k = "Change" -> change [] k = "Lose" -> lose
          [] k = "Restart" -> restart [] k = "Ping" -> pings [] k = "Probe" -> probe]
ChangesBudget == Bounds(2, 2, 1, 1, 1, 1)
QuietBudget == Bounds(1, 3, 0, 0, 0, 0)
OneLossBudget == Bounds(1, 0, 1, 0, 0, 0)
\* Nothing bounds how often the receiver opens.
LiveBudget == [k \in {"Change", "Lose", "Restart", "Ping", "Probe"} |->
                  IF k \in {"Ping", "Probe"} THEN 0 ELSE IF k = "Restart" THEN 1 ELSE 2]
-----------------------------------------------------------------------------
(* What docs/AURP.md says of every connection, with no exception.  The code  *)
(* does not keep it.                                                         *)
Always == INSTANCE Transfer WITH
    None <- None, conn <- IF sender \in {"Unconnected", "WaitRdAck"} THEN 0 ELSE conn_remote,
    held <- IF receiver = "Unconnected" THEN 0 ELSE conn_local,
    offered <- IF outstanding.kind = "Rd" THEN None ELSE outstanding, taken <- applied
AlwaysTransferred == Always!Spec
AlwaysInStep == Linked /\ outstanding.kind \in {"RiRsp", "RiUpd"} =>
    outstanding.seq \in {seq_recv, pred(seq_recv)}
\* Both ends idle, nothing in flight: the receiver's routes are the export.
AtRestAgree ==
    /\ Linked /\ receiver = "Connected" /\ sender = "Connected"
    /\ pending = NoEvents /\ toSender = <<>> /\ toReceiver = <<>>
    => \A n \in Net : routes[n] = Stored(n)
AlwaysConverges == TimersRun => <>[](Linked /\ \A n \in Net : routes[n] = Stored(n))
=============================================================================
