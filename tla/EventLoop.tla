------------------------------ MODULE EventLoop ------------------------------
(***************************************************************************)
(* How the program runs: the reader threads of the links, the one bounded  *)
(* queue they post events to, and the one loop that takes them out         *)
(* (main.rs, capture.rs, ltoudp.rs, tashtalk.rs and the loops of           *)
(* router/mod.rs, bridge.rs and text.rs, with session.rs behind the last). *)
(*                                                                         *)
(* The program runs as a router, as a bridge or as a monitor (mode).  What *)
(* an event says matters to the monitor only, whose session puts ATP       *)
(* responses together again; to the others it is a packet that has to be   *)
(* handled, and the loop's own duties are what is followed: its timers,    *)
(* its signals, its reports and its end.                                   *)
(***************************************************************************)
EXTENDS Naturals, Sequences, FiniteSets

CONSTANTS
    Links,       \* the links read in each way of running looked at
    Capacity,    \* QUEUE
    MaxUntold,   \* bound on the losses of a link that are still to be told
    Signals,     \* bound on the signals the operator sends
    Keys,        \* ATP transactions: addresses, sockets and ID
    Segments,    \* datagrams of a response
    Heard,       \* those of each transaction that get as far as the NIC
    Uses,        \* bound on the responses that carry each key
    TxnTimeout,  \* TXN_TIMEOUT
    MaxOpen,     \* MAX_OPEN
    MaxTime      \* bound on the monitor's clock

\* Only a bridge and a router read more than the NIC.
ASSUME LinksAssumption ==
    /\ \E Modes \in SUBSET {"Router", "Bridge", "Monitor"} :
          Links \in [Modes -> SUBSET {"nic", "lt"}]
    /\ "Monitor" \in DOMAIN Links => Links["Monitor"] = {"nic"}
ASSUME BoundsAssumption ==
    /\ {Capacity, MaxUntold, Segments, TxnTimeout, MaxOpen} \subseteq Nat \ {0}
    /\ {Signals, MaxTime} \subseteq Nat
    /\ IsFiniteSet(Keys) /\ Heard \in [Keys -> SUBSET (0..Segments - 1)]
    /\ Uses \in [Keys -> Nat \ {0}]

VARIABLES
    mode,
    stage,     \* of each reader: "Read", "Report", "Post" or "Done"
    hand,      \* the event it has read
    dropped,   \* its count since its last report
    untold,    \* history: what it has lost that the loop was not told
    queue,
    phase,     \* of the loop: "Receive", "Execute" or "Gone"
    \* the router's duties
    raised,    \* signals waiting for the loop: STOP, PING
    signals,   \* what the operator may still send
    scan,      \* next_scan has come
    deadline,  \* of the shutdown: "None", "Set" or "Over"
    report,    \* of the ping: "None", "Set" or "Due"
    actions,   \* what this turn has to put on the wire of its duties
    rds,       \* history: the RDs of the shutdown are on the wire
    ticked,    \* history: the last turn ran the timers
    \* the monitor's session and what its link carries
    open, message, use, now

readerVars == <<stage, hand, dropped, untold>>
dutyVars == <<raised, signals, scan, deadline, report, actions, rds>>
sessionVars == <<open, message>>
wireVars == <<use, now>>
vars == <<mode, readerVars, queue, phase, dutyVars, ticked, sessionVars, wireVars>>

\* The router reads its AURP socket as well.
LinkReaders == Links[mode]
Readers == IF mode = "Router" THEN LinkReaders \cup {"aurp"} ELSE LinkReaders
AllReaders == {"nic", "lt", "aurp"}

Nothing == [kind |-> "Nothing"]
Packet == [kind |-> "Packet"]
Error == [kind |-> "Error"]
Dropped(r, n) == [kind |-> "Dropped", by |-> r, count |-> n]
\* Segment s of the u-th response that carries this key, read at t.
Fragment(k, u, s, t) == [kind |-> "Fragment", key |-> k, use |-> u, seq |-> s, at |-> t]
Events == {Packet, Error}
    \cup [kind : {"Fragment"}, key : Keys, use : Nat, seq : 0..Segments - 1, at : Nat]
    \cup [kind : {"Dropped"}, by : AllReaders, count : Nat]

Init ==
    /\ mode \in DOMAIN Links
    /\ stage = [r \in AllReaders |-> IF r \in Readers THEN "Read" ELSE "Done"]
    /\ hand = [r \in AllReaders |-> Nothing]
    /\ dropped = [r \in AllReaders |-> 0] /\ untold = dropped
    /\ queue = <<>> /\ phase = "Receive"
    /\ raised = {} /\ signals = (IF mode = "Router" THEN Signals ELSE 0)
    /\ scan = (mode = "Router") /\ deadline = "None" /\ report = "None"
    /\ actions = {} /\ rds = FALSE /\ ticked = FALSE
    /\ open = <<>> /\ message = {}
    /\ use = [k \in Keys |-> [nr |-> 1, heard |-> 0]] /\ now = 0
-----------------------------------------------------------------------------
(* The readers.                                                             *)
Room == Len(queue) < Capacity
Gone == phase = "Gone"
Post(e) == queue' = Append(queue, e)

\* A frame, a datagram or an error comes off r's link.
Takes(r, e) ==
    /\ stage[r] = "Read" /\ untold[r] < MaxUntold
    /\ hand' = [hand EXCEPT ![r] = e]
    /\ stage' = [stage EXCEPT ![r] = IF dropped[r] > 0 THEN "Report" ELSE "Post"]
    /\ UNCHANGED <<mode, dropped, untold, queue, phase, dutyVars, sessionVars, ticked>>

Read == \E r \in Readers, e \in {Packet, Error} :
    mode # "Monitor" /\ Takes(r, e) /\ UNCHANGED wireVars

\* What the monitor hears are responses, their segments repeated and out of
\* order as they may be.  A key is used again when nothing of its last use has
\* been heard for TXN_TIMEOUT.
ReadFragment == \E r \in Readers, k \in Keys : \E s \in Heard[k], u \in 1..Uses[k] :
    /\ mode = "Monitor"
    /\ \/ u = use[k].nr
       \/ u = use[k].nr + 1 /\ now >= use[k].heard + TxnTimeout
    /\ Takes(r, Fragment(k, u, s, now))
    /\ use' = [use EXCEPT ![k] = [nr |-> u, heard |-> now]]
    /\ UNCHANGED now

\* Mutant: the count is cleared though there was no room to report it.
Report_Forgets == \E r \in LinkReaders :
    /\ stage[r] = "Report" /\ ~Gone
    /\ IF Room THEN Post(Dropped(r, dropped[r])) ELSE UNCHANGED queue
    /\ dropped' = [dropped EXCEPT ![r] = 0]
    /\ stage' = [stage EXCEPT ![r] = "Post"]
    /\ UNCHANGED <<mode, hand, untold, phase, dutyVars, sessionVars, wireVars, ticked>>
\* "Report accumulated drops as soon as there is room to say so": a try of its
\* own, before that of the event.
Report == \E r \in LinkReaders :
    /\ stage[r] = "Report" /\ ~Gone
    /\ IF Room THEN Post(Dropped(r, dropped[r])) /\ dropped' = [dropped EXCEPT ![r] = 0]
               ELSE UNCHANGED <<queue, dropped>>
    /\ stage' = [stage EXCEPT ![r] = "Post"]
    /\ UNCHANGED <<mode, hand, untold, phase, dutyVars, sessionVars, wireVars, ticked>>

\* A link reader drops what does not fit; the AURP reader waits for room.
Send == \E r \in Readers :
    /\ stage[r] = "Post" /\ ~Gone /\ (Room \/ r # "aurp")
    /\ IF Room THEN Post(hand[r]) /\ UNCHANGED <<dropped, untold>>
               ELSE /\ dropped' = [dropped EXCEPT ![r] = @ + 1]
                    /\ untold' = [untold EXCEPT ![r] = @ + 1]
                    /\ UNCHANGED queue
    /\ stage' = [stage EXCEPT ![r] = "Read"] /\ hand' = [hand EXCEPT ![r] = Nothing]
    /\ UNCHANGED <<mode, phase, dutyVars, sessionVars, wireVars, ticked>>

\* The receiver is gone: so is the reader, at its next event.
HangUp == \E r \in Readers :
    /\ stage[r] \in {"Report", "Post"} /\ Gone
    /\ stage' = [stage EXCEPT ![r] = "Done"] /\ hand' = [hand EXCEPT ![r] = Nothing]
    /\ UNCHANGED <<mode, dropped, untold, queue, phase, dutyVars, sessionVars, wireVars, ticked>>
-----------------------------------------------------------------------------
(* The monitor's session: Transactions of session.rs.  A segment is known by  *)
(* the use it belongs to, 0 while it is missing.                             *)

\* Mutant: a transaction is kept until it is complete.
expire_Never(t, kept) == kept = DOMAIN open
\* The transactions kept: begun within the time, the youngest at the cap.
expire(t, kept) ==
    LET alive == {k \in DOMAIN open : t - open[k].first_seen < TxnTimeout}
    IN  /\ kept \subseteq alive
        /\ Cardinality(kept) = IF Cardinality(alive) >= MaxOpen THEN MaxOpen - 1
                                                                ELSE Cardinality(alive)
        /\ \A k \in kept, j \in alive \ kept : open[k].first_seen >= open[j].first_seen

NoSegments(t) ==
    [segments |-> [s \in 0..Segments - 1 |-> 0], last |-> FALSE, first_seen |-> t]
Whole(p) == p.last /\ \A s \in 0..Segments - 1 : p.segments[s] # 0

push(e) == \E kept \in SUBSET DOMAIN open :
    LET was == IF e.key \in kept THEN open[e.key] ELSE NoSegments(e.at)
        is == [was EXCEPT !.segments[e.seq] = e.use, !.last = @ \/ e.seq = Segments - 1]
        others == kept \ {e.key}
    IN  /\ expire(e.at, kept)
        /\ \/ /\ Whole(is)
              /\ message' = {is.segments[s] : s \in 0..Segments - 1}
              /\ open' = [k \in others |-> open[k]]
           \/ /\ ~Whole(is)
              /\ message' = {}
              /\ open' = [k \in others \cup {e.key} |-> IF k = e.key THEN is ELSE open[k]]

\* After a gap nothing open can be trusted.
flush == open' = <<>> /\ message' = {}
-----------------------------------------------------------------------------
(* The loops.  Each takes the next event, or wakes after TICK without one.   *)
Takes_out ==
    /\ queue # <<>> /\ queue' = Tail(queue)
    /\ LET e == Head(queue)
       IN  untold' = IF e.kind = "Dropped" THEN [untold EXCEPT ![e.by] = @ - e.count] ELSE untold
Wakes == queue = <<>> /\ UNCHANGED <<queue, untold>>
\* The event that runs the timers: none, a report of drops or an error.
Ticks == queue = <<>> \/ Head(queue).kind \in {"Dropped", "Error"}

MonitorTurn ==
    /\ mode = "Monitor" /\ Takes_out
    /\ LET e == Head(queue)
       IN  CASE e.kind = "Fragment" -> push(e)
             [] e.kind = "Dropped"  -> flush
             [] OTHER               -> UNCHANGED sessionVars
    /\ UNCHANGED <<mode, stage, hand, dropped, phase, dutyVars, wireVars, ticked>>

BridgeTurn ==
    /\ mode = "Bridge" /\ (Takes_out \/ Wakes)
    /\ ticked' = Ticks
    /\ UNCHANGED <<mode, stage, hand, dropped, phase, dutyVars, sessionVars, wireVars>>

\* The event's step, the reconnect scan, the signals; what they want sent.
RouterTurn ==
    /\ mode = "Router" /\ phase = "Receive" /\ (Takes_out \/ Wakes)
    /\ ticked' = Ticks
    /\ scan' = FALSE
    /\ report' = IF "PING" \in raised THEN "Set" ELSE IF report = "Due" THEN "None" ELSE report
    /\ IF deadline = "None" /\ "STOP" \in raised
       THEN deadline' = "Set" /\ actions' = {"Rds"} /\ raised' = {}
       ELSE raised' = raised \ {"PING"} /\ UNCHANGED <<deadline, actions>>
    /\ phase' = "Execute"
    /\ UNCHANGED <<mode, stage, hand, dropped, signals, rds, sessionVars, wireVars>>

\* Everything the turn wants sent is tried; what fails is reported and dropped.
execute == rds' = (rds \/ "Rds" \in actions) /\ actions' = {}

\* Mutant: the second look at STOP comes before the actions.
RouterEnd_Early ==
    /\ phase = "Execute"
    /\ raised' = IF deadline = "Set" THEN raised \ {"STOP"} ELSE raised
    /\ IF deadline = "Over" \/ (deadline = "Set" /\ "STOP" \in raised)
       THEN phase' = "Gone" /\ UNCHANGED rds
       ELSE phase' = "Receive" /\ rds' = (rds \/ "Rds" \in actions)
    /\ actions' = {}
    /\ UNCHANGED <<mode, readerVars, queue, signals, scan, deadline, report, sessionVars,
                   wireVars, ticked>>
\* The actions go out; then the end, out of time or at a second STOP.
RouterEnd ==
    /\ phase = "Execute"
    /\ execute
    /\ raised' = IF deadline = "Set" THEN raised \ {"STOP"} ELSE raised
    /\ phase' = IF deadline = "Over" \/ (deadline = "Set" /\ "STOP" \in raised)
                THEN "Gone" ELSE "Receive"
    /\ UNCHANGED <<mode, readerVars, queue, signals, scan, deadline, report, sessionVars,
                   wireVars, ticked>>

\* The operator's signals, in the middle of anything.
Signal == \E s \in {"STOP", "PING"} :
    /\ signals > 0 /\ signals' = signals - 1
    /\ raised' = raised \cup {s}
    /\ UNCHANGED <<mode, readerVars, queue, phase, scan, deadline, report, actions, rds,
                   sessionVars, wireVars, ticked>>

\* Time, which the router's loop samples once a turn.
DeadlinePasses ==
    /\ phase = "Receive" /\ deadline = "Set" /\ deadline' = "Over"
    /\ UNCHANGED <<mode, readerVars, queue, phase, raised, signals, scan, report, actions, rds,
                   sessionVars, wireVars, ticked>>
TimesCome ==
    /\ mode = "Router" /\ phase = "Receive"
    /\ \/ ~scan /\ scan' = TRUE /\ UNCHANGED report
       \/ report = "Set" /\ report' = "Due" /\ UNCHANGED scan
    /\ UNCHANGED <<mode, readerVars, queue, phase, raised, signals, deadline, actions, rds,
                   sessionVars, wireVars, ticked>>
Clock ==
    /\ mode = "Monitor" /\ now < MaxTime /\ now' = now + 1
    /\ UNCHANGED <<mode, readerVars, queue, phase, dutyVars, sessionVars, use, ticked>>

Turn == RouterTurn \/ RouterEnd \/ BridgeTurn \/ MonitorTurn
Next ==
    \/ Read \/ ReadFragment \/ Report \/ Send \/ HangUp
    \/ Turn \/ Signal \/ DeadlinePasses \/ TimesCome \/ Clock
Spec == Init /\ [][Next]_vars
\* The loop goes round, and time passes while it does; nobody has to stop
\* sending.
LiveSpec == Spec /\ WF_vars(Turn) /\ SF_vars(DeadlinePasses)
-----------------------------------------------------------------------------
(* Properties.                                                              *)

\* Whatever a link lost is on its way to the loop exactly once: still counted
\* by its reader or in a report in the queue (capture_loop, read_loop, post).
\* Routing packets are never lost to a full queue (spawn_aurp).
Reports(r, e) == IF e.kind = "Dropped" /\ e.by = r THEN e.count ELSE 0
\* told[n] is what the first n events of the queue report of r.
Tells(r, told) ==
    /\ told[0] = 0
    /\ \A n \in 1..Len(queue) : told[n] = told[n - 1] + Reports(r, queue[n])
LossesCounted ==
    /\ \A r \in AllReaders : \E told \in [0..Len(queue) -> 0..MaxUntold] :
          Tells(r, told) /\ untold[r] = dropped[r] + told[Len(queue)]
    /\ untold["aurp"] = 0

\* A message the monitor shows is made of the segments of one response, at
\* whatever order, losses and repetitions, as long as its key is not used
\* again within TXN_TIMEOUT; and the open ones never exceed MAX_OPEN.
WholeMessages == Cardinality(message) <= 1 /\ Cardinality(DOMAIN open) <= MaxOpen

\* A first STOP ends the router, under any traffic, and not before the RDs it
\* owes its peers are on the wire, a second STOP or not.
Stops == (mode = "Router" /\ "STOP" \in raised) ~> (Gone /\ rds)

\* router/mod.rs:36 calls TICK "the longest a datagram may wait before the
\* timers get a look in": the timers run again and again, whatever is heard.
TimersRun == mode # "Monitor" => []<>(ticked \/ Gone)
=============================================================================
