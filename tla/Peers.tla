-------------------------------- MODULE Peers --------------------------------
(***************************************************************************)
(* The AURP peers of one router (Peers of src/router/aurp.rs): who is in   *)
(* the table, from the configuration or by open peering, the two halves of *)
(* each peer, the timers that run over all of them, and the routes the     *)
(* router holds through each.                                              *)
(*                                                                         *)
(* AurpConnection follows the packets of one connection; here a packet is  *)
(* what it does to the peer that receives it, and any may come from an     *)
(* address where a router runs.  Time passes in steps of RETRY, which is   *)
(* RECONNECT_SCAN and UPDATE_INTERVAL too: whatever was sent before a tick *)
(* has been out for RETRY, and a tick that traffic held up is late by any  *)
(* number of steps.                                                        *)
(***************************************************************************)
EXTENDS Naturals, FiniteSets

CONSTANTS
    Addr,         \* addresses peers may have
    Talkers,      \* those where a router may run
    Passers,      \* bound: those of them that open and answer nothing, and may
                  \* send a stray datagram at any time
    Name,         \* the configured names
    Open,         \* open_peering
    MaxOpenPeers, \* MAX_OPEN_PEERS
    Retries,      \* RETRIES
    TickleRetries,\* TICKLE_RETRIES
    LastHeard,    \* LAST_HEARD, in steps
    Backoff,      \* RECONNECT_BACKOFF, in steps
    None

ASSUME AddrAssumption == IsFiniteSet(Addr) /\ Passers \subseteq Talkers /\ Talkers \subseteq Addr
ASSUME NoneAssumption == None \notin Name
ASSUME NumbersAssumption ==
    /\ {MaxOpenPeers, Retries, TickleRetries, LastHeard, Backoff} \subseteq Nat \ {0}
    /\ Open \in BOOLEAN

VARIABLES
    held,      \* the addresses with an entry in the table
    peers,     \* their entries; Blank for the others
    via,       \* the addresses routes of the routing table go through
    orphaned,  \* history: those whose entry went because its name moved
    alive,     \* where a router runs
    stopping   \* shutdown has been called

vars == <<held, peers, via, orphaned, alive, stopping>>

Receivers == {"Unconnected", "WaitOpenRsp", "WaitRiRsp", "Connected", "WaitTickleAck"}
Senders == {"Unconnected", "Connected", "WaitRiRspAck", "WaitRiUpdAck", "WaitRdAck"}

\* tries counts the sends of the packet outstanding, 0 when there is none;
\* heard and opened are the steps since last_heard and last_reconnect.
Peer == [configured : Name \cup {None},
         receiver : Receivers, recv_tries : 0..Retries + TickleRetries,
         heard : 0..LastHeard + 1, opened : 0..Backoff + 1,
         sender : Senders, tries : 0..Retries, probing : BOOLEAN]
New(name) == [configured |-> name, receiver |-> "Unconnected", recv_tries |-> 0,
              heard |-> 0, opened |-> Backoff + 1,
              sender |-> "Unconnected", tries |-> 0, probing |-> FALSE]
Blank == New(None)

Named(a) == peers[a].configured # None

Init ==
    /\ held = {}
    /\ peers = [a \in Addr |-> Blank]
    /\ via = {}
    /\ orphaned = {}
    /\ alive = Talkers
    /\ stopping = FALSE
-----------------------------------------------------------------------------
(* The two halves of a peer.                                                *)
open(p) == [p EXCEPT !.receiver = "WaitOpenRsp", !.recv_tries = 1, !.opened = 0]
close_receiver(p) == [p EXCEPT !.receiver = "Unconnected", !.recv_tries = 0]
close_sender(p) == [p EXCEPT !.sender = "Unconnected", !.tries = 0, !.probing = FALSE]
receiver_open(p) == p.receiver \notin {"Unconnected", "WaitOpenRsp"}
send_sequenced(p, state) == [p EXCEPT !.sender = state, !.tries = 1]
hear(p) == [p EXCEPT !.heard = 0]

\* An Open-Req, plain or with a version or options we refuse; same if its ID
\* is the one of the connection the sender holds.
open_req(p, plain, same) ==
    IF ~plain THEN p
    ELSE IF p.sender # "Unconnected" /\ ~same
    THEN IF ~p.probing /\ p.tries = 0
         THEN [send_sequenced(p, "WaitRiUpdAck") EXCEPT !.probing = TRUE] ELSE p
    ELSE LET q == [p EXCEPT !.sender = "Connected", !.tries = 0]
         IN  IF q.receiver = "Unconnected" THEN open(q) ELSE q

\* The ack of the packet outstanding; more if RI-Rsp pages are left.
ri_ack(p, more) ==
    CASE p.sender = "WaitRiRspAck" /\ more -> send_sequenced(p, "WaitRiRspAck")
      [] p.sender = "WaitRdAck" -> close_sender(p)
      [] p.sender = "WaitRiUpdAck" \/ (p.sender = "WaitRiRspAck" /\ ~more) ->
            [p EXCEPT !.sender = "Connected", !.tries = 0, !.probing = FALSE]
      [] OTHER -> [p EXCEPT !.tries = 0]
-----------------------------------------------------------------------------
(* Datagrams.  One from an unknown address makes an entry if open peering   *)
(* has room for it.                                                         *)
Admits(a) ==
    \/ a \in held
    \/ Open /\ Cardinality(held) < MaxOpenPeers

packet(a, p) ==
    /\ a \in alive /\ Admits(a)
    /\ held' = held \cup {a}
    /\ peers' = [peers EXCEPT ![a] = p] /\ orphaned' = orphaned \ {a}
    /\ UNCHANGED <<alive, stopping>>
Keeps == via' = via
Learns(a) == via' \in {via, via \cup {a}}
Loses(a) == via' = via \ {a}

OpenReq(a) ==
    /\ \E plain, same \in BOOLEAN : packet(a, open_req(peers[a], plain, same))
    /\ Keeps

\* Whatever is discarded or answered without a trace: Tickle, ZI-Req, GZN-Req,
\* GDZL-Req and packets for other connections.
Other(a) == packet(a, peers[a]) /\ Keeps

\* Encapsulated DDP; the same for a ZI-Rsp on an open connection.
Data(a) == packet(a, hear(peers[a])) /\ Keeps

RiReq(a) ==
    /\ peers[a].sender \in {"Connected", "WaitRiRspAck", "WaitRiUpdAck"}
    /\ packet(a, send_sequenced(peers[a], "WaitRiRspAck"))
    /\ Keeps

RiAck(a) ==
    /\ peers[a].tries > 0
    /\ \E more \in BOOLEAN : packet(a, ri_ack(peers[a], more))
    /\ Keeps

OpenRsp(a) ==
    /\ peers[a].receiver = "WaitOpenRsp"
    /\ packet(a, [hear(peers[a]) EXCEPT !.receiver = "WaitRiRsp", !.recv_tries = 1])
    /\ Keeps

OpenRefused(a) ==
    /\ peers[a].receiver = "WaitOpenRsp"
    /\ packet(a, close_receiver(peers[a]))
    /\ Keeps

\* A page in sequence; a repeated or stale one is heard and no more.
RiRsp(a) ==
    /\ receiver_open(peers[a])
    /\ packet(a, hear(peers[a]))
    /\ Learns(a)

LastRiRsp(a) ==
    /\ receiver_open(peers[a])
    /\ packet(a, [hear(peers[a]) EXCEPT !.receiver = "Connected"])
    /\ Learns(a)

\* An update in sequence: it may take the last route away.
RiUpd(a) ==
    /\ receiver_open(peers[a])
    /\ packet(a, hear(peers[a]))
    /\ Loses(a) \/ Learns(a)

\* RI-Rsp or RI-Upd with number n+1: something is missing.
Ahead(a) ==
    /\ receiver_open(peers[a])
    /\ packet(a, close_receiver(hear(peers[a])))
    /\ Keeps

Rd(a) ==
    /\ receiver_open(peers[a])
    /\ packet(a, close_sender(close_receiver(peers[a])))
    /\ Loses(a)

TickleAck(a) ==
    /\ peers[a].receiver = "WaitTickleAck"
    /\ packet(a, [hear(peers[a]) EXCEPT !.receiver = "Connected", !.recv_tries = 0])
    /\ Keeps
-----------------------------------------------------------------------------
(* Names.  The run loop resolves every configured name at each scan.        *)
resolved(n, a) ==
    LET old == IF a \in held THEN {} ELSE {b \in held : peers[b].configured = n}
    IN  /\ held' = (held \ old) \cup {a}
        /\ peers' = [b \in Addr |-> CASE b = a -> [peers[a] EXCEPT !.configured = n]
                                      [] b \in old -> Blank
                                      [] OTHER -> peers[b]]
        /\ orphaned' = (orphaned \cup (old \cap via)) \ {a}

Resolve ==
    /\ ~stopping
    /\ \E n \in Name, a \in Addr : resolved(n, a)
    /\ UNCHANGED <<via, alive, stopping>>
-----------------------------------------------------------------------------
(* Timers.                                                                  *)
Later(n, steps, most) == IF n + steps > most THEN most + 1 ELSE n + steps
age(p, steps) == [p EXCEPT !.heard = Later(@, steps, LastHeard), !.opened = Later(@, steps, Backoff)]

\* Mutant: the first back-off never ends.
Reconnects_Once(p) ==
    p.configured # None /\ p.receiver = "Unconnected" /\ p.opened = Backoff + 1 /\ p.heard <= LastHeard
Reconnects(p) ==
    p.configured # None /\ p.receiver = "Unconnected" /\ p.opened > Backoff

\* All tickles are out and none was answered.
GivesUp(p) == p.receiver = "WaitTickleAck" /\ p.recv_tries >= TickleRetries

\* Mutant: a tickle that is repeated is not counted.
receiver_timers_NotCounting(p) ==
    CASE p.receiver \in {"WaitOpenRsp", "WaitRiRsp"} ->
            IF p.recv_tries >= Retries THEN close_receiver(p)
            ELSE [p EXCEPT !.recv_tries = @ + 1]
      [] p.receiver = "Connected" /\ p.heard > LastHeard ->
            [p EXCEPT !.receiver = "WaitTickleAck", !.recv_tries = 1]
      [] GivesUp(p) ->
            IF p.sender = "Connected" THEN send_sequenced(close_receiver(p), "WaitRiUpdAck")
            ELSE close_receiver(p)
      [] OTHER -> p
receiver_timers(p) ==
    CASE p.receiver \in {"WaitOpenRsp", "WaitRiRsp"} ->
            IF p.recv_tries >= Retries THEN close_receiver(p)
            ELSE [p EXCEPT !.recv_tries = @ + 1]
      [] p.receiver = "Connected" /\ p.heard > LastHeard ->
            [p EXCEPT !.receiver = "WaitTickleAck", !.recv_tries = 1]
      [] p.receiver = "WaitTickleAck" /\ ~GivesUp(p) -> [p EXCEPT !.recv_tries = @ + 1]
      [] GivesUp(p) ->
            IF p.sender = "Connected" THEN send_sequenced(close_receiver(p), "WaitRiUpdAck")
            ELSE close_receiver(p)
      [] OTHER -> p

\* Mutant: a packet nobody acks is sent for ever.
sender_timers_Forever(p, changed) ==
    CASE p.tries = 0 /\ p.sender = "Connected" /\ changed -> send_sequenced(p, "WaitRiUpdAck")
      [] OTHER -> p
\* changed if route changes are pending for the peer.
sender_timers(p, changed) ==
    CASE p.tries >= Retries -> close_sender(p)
      [] p.tries \in 1..Retries - 1 -> [p EXCEPT !.tries = @ + 1]
      [] p.tries = 0 /\ p.sender = "Connected" /\ changed -> send_sequenced(p, "WaitRiUpdAck")
      [] OTHER -> p

\* A probe sent by the receiver's timers has only just gone out.
timers(p, changed) ==
    LET q == IF Reconnects(p) THEN open(p) ELSE receiver_timers(p)
    IN  IF p.tries = 0 /\ q.tries = 1 THEN q ELSE sender_timers(q, changed)

retain(p) ==
    \/ p.configured # None
    \/ p.receiver # "Unconnected"
    \/ p.sender # "Unconnected"
    \/ p.heard < LastHeard

tick ==
    /\ ~stopping
    /\ \E changed \in SUBSET held, steps \in 1..LastHeard + 1 :
          LET after == [a \in held |-> timers(age(peers[a], steps), a \in changed)]
          IN  /\ held' = {a \in held : retain(after[a])}
              /\ peers' = [a \in Addr |-> IF a \in held' THEN after[a] ELSE Blank]
    /\ via' = via \ {a \in held : GivesUp(peers[a])}
    /\ UNCHANGED <<orphaned, alive, stopping>>
-----------------------------------------------------------------------------
(* The operator.                                                            *)
ping ==
    /\ peers' = [a \in Addr |-> IF peers[a].receiver = "Connected"
                                THEN [peers[a] EXCEPT !.receiver = "WaitTickleAck", !.recv_tries = 1]
                                ELSE peers[a]]
    /\ UNCHANGED <<held, via, orphaned, alive, stopping>>

\* The loop serves what comes for two seconds more; no step of ours is left.
shutdown ==
    /\ ~stopping /\ stopping' = TRUE
    /\ peers' = [a \in Addr |-> IF peers[a].sender \in {"Unconnected", "WaitRdAck"} THEN peers[a]
                                ELSE send_sequenced(peers[a], "WaitRdAck")]
    /\ UNCHANGED <<held, via, orphaned, alive>>
-----------------------------------------------------------------------------
(* The routers at the other ends.                                           *)
Die(a) == a \in alive /\ alive' = alive \ {a} /\ UNCHANGED <<held, peers, via, orphaned, stopping>>
Return(a) == a \in Talkers \ alive /\ alive' = alive \cup {a} /\ UNCHANGED <<held, peers, via, orphaned, stopping>>

FromPeer(a) ==
    \/ OpenReq(a) \/ Other(a) \/ Data(a) \/ RiReq(a) \/ RiAck(a) \/ OpenRsp(a) \/ OpenRefused(a)
    \/ RiRsp(a) \/ LastRiRsp(a) \/ RiUpd(a) \/ Ahead(a) \/ Rd(a) \/ TickleAck(a)

Next == \/ \E a \in Talkers \ Passers : FromPeer(a) \/ Die(a) \/ Return(a)
        \/ \E a \in Passers : Other(a) \/ Data(a)
        \/ Resolve \/ tick \/ ping \/ shutdown

Spec == Init /\ [][Next]_vars

\* A router that runs and is asked time and again answers, from its own loop
\* (AurpConnection).  The timers have no fairness: the run loop ticks only when
\* no input comes for 250 ms, or one was dropped.
LiveSpec == Spec /\ \A a \in Talkers \ Passers : SF_vars(OpenRsp(a)) /\ SF_vars(LastRiRsp(a))
-----------------------------------------------------------------------------
(* Properties                                                               *)

\* Traffic leaves the loop idle again and again, so that what is due is done.
TimersRun == WF_vars(tick)

\* Where timers run, a peer that was connected and has fallen silent loses its
\* routes, pinged or not and whatever the other half is doing, unless its name
\* moved away.
DeadRoutesLeave == TimersRun =>
    \A a \in Addr :
        a \notin alive /\ peers[a].receiver \in {"Connected", "WaitTickleAck"}
        ~> a \notin via \/ a \in alive \/ a \in orphaned \/ stopping

\* Where timers run, a stranger that has fallen silent leaves the table and its
\* room to others, unless the connection it opened is all that is left of it:
\* nothing goes out on that until a route changes, so nothing notices.
SilentStrangersLeave == TimersRun =>
    \A a \in Addr :
        a \in held /\ a \notin alive /\ ~Named(a)
        ~> \/ a \notin held \/ a \in alive \/ Named(a) \/ stopping
           \/ peers[a].receiver = "Unconnected" /\ peers[a].sender = "Connected"

\* Where timers run, a configured peer whose router stays up is connected again
\* and again, whatever closed the connection before and however full strangers
\* keep the table: the back-off always ends.
ConfiguredComeBack == TimersRun =>
    \A a \in Talkers \ Passers :
        <>[](a \in alive /\ Named(a) /\ ~stopping) => []<>(peers[a].receiver = "Connected")

\* What it also says: once a name has moved, the old address is not its peer.
OneAddressPerName ==
    \A a, b \in held : Named(a) /\ peers[a].configured = peers[b].configured => a = b

\* What Peers::resolved says of a name that moved: the routes learned from
\* the old address stay until its tickles run out.
MovedRoutesLeave == TimersRun =>
    \A a \in Addr : a \in orphaned ~> a \notin via \/ a \in held \/ stopping
=============================================================================
