---------------------------- MODULE AddressClaim ----------------------------
(***************************************************************************)
(* How stations come by their addresses: the ports of routers              *)
(* (router/ports.rs) and, on Ethernet, stand-alone nodes (node.rs) on one  *)
(* cable.  A station asks for an address, several times at an interval, and *)
(* takes it if nobody objects.  Frames are lost or come after the interval *)
(* they belong to; stations stop and come back at any time.                *)
(*                                                                         *)
(* Of an AARP packet or an ENQ the station asking and the address asked    *)
(* for are kept; an AARP request moves no claim and is left out.  The seeds *)
(* of the candidates are clocks: any may come.  A write to an adapter       *)
(* succeeds.                                                                *)
(***************************************************************************)
EXTENDS Naturals, FiniteSets

CONSTANTS
    Port, Node,   \* the stations
    Cables,       \* what may be looked at: the kind of a cable, who is on it
    Ids,          \* node IDs of the medium's range
    Tries,        \* PROBE_TRIES and ENQ_TRIES
    AddressTries, \* ADDRESS_TRIES
    MaxLost,      \* bound on the frames lost or late
    None

\* A router's port takes its node on the cable's network, a node that knows
\* nothing of the cable in the startup range.
Addr == {"cable", "startup"} \X Ids

ASSUME ClaimAssumption ==
    /\ Port \cap Node = {}
    /\ Cables \subseteq ({"Ether"} \X SUBSET (Port \cup Node))
                        \cup ({"Ltoudp", "Tashtalk"} \X SUBSET Port)
    /\ Cardinality(Ids) > 1 /\ None \notin Ids \cup Addr
    /\ Tries \in [{"Probe", "Enq"} -> Nat \ {0}]
    /\ AddressTries \in Nat \ {0} /\ MaxLost \in Nat

VARIABLES
    cable,
    st,       \* the claim of each station
    firmware, \* the ID a TashTalk adapter answers for
    wire,     \* frames on their way to a station
    lost      \* history: frames lost or late

vars == <<cable, st, firmware, wire, lost>>

medium == cable[1]
Station == cable[2]
Off == [phase |-> "Off", addr |-> None, tries |-> 0, tried |-> 0, want |-> None]
Claiming(s) == st[s].phase = "Claiming"
Holding(s) == st[s].phase = "Holding"
Hears(s) == st[s].phase # "Off" \/ firmware[s] # None

Frame(t, kind, a, by) == [to |-> t, kind |-> kind, addr |-> a, by |-> by, late |-> FALSE]
\* Everybody hears what is broadcast, on some cables its sender too.
Heard(s) == {t \in Station : Hears(t) /\ (t # s \/ medium = "Ether")}

Init ==
    /\ cable \in Cables
    /\ st = [s \in Port \cup Node |-> Off]
    /\ firmware = [s \in Port \cup Node |-> None]
    /\ wire = {} /\ lost = 0
-----------------------------------------------------------------------------
(* A station begins, and stops.                                             *)
Candidate(a, want) == [phase |-> "Claiming", addr |-> a, tries |-> 0, tried |-> 1, want |-> want]
NetOf(want) == IF want = "Discover" THEN "startup" ELSE "cable"

\* A node is told its address, or its network, or neither.
Start(s) ==
    /\ st[s].phase = "Off"
    /\ \E want \in (IF s \in Port THEN {"Port"} ELSE {"Discover", "Net", "Addr"}), id \in Ids :
          st' = [st EXCEPT ![s] = Candidate(<<NetOf(want), id>>, want)]
    /\ firmware' = [firmware EXCEPT ![s] = None]
    /\ UNCHANGED <<cable, wire, lost>>

\* An adapter goes on answering for a router that is gone.
Leave(s) ==
    /\ st[s].phase # "Off"
    /\ st' = [st EXCEPT ![s] = Off]
    /\ wire' = {f \in wire : f.to # s \/ firmware[s] # None}
    /\ UNCHANGED <<cable, firmware, lost>>
-----------------------------------------------------------------------------
(* An interval is over.  Whatever was to come within it has come, or is late. *)
schedule == IF medium = "Ether" THEN Tries["Probe"] ELSE Tries["Enq"]

Ask(s) ==
    /\ st[s].tries < schedule
    /\ st' = [st EXCEPT ![s].tries = @ + 1]
    /\ wire' = wire \cup {Frame(t, "Ask", st[s].addr, s) : t \in Heard(s)}
    /\ UNCHANGED firmware

\* Mutant: the address is taken an interval early.
claimed_Early(s) ==
    /\ st[s].tries + 1 >= schedule
    /\ st' = [st EXCEPT ![s].phase = "Holding"]
    /\ firmware' = IF medium = "Tashtalk" THEN [firmware EXCEPT ![s] = st[s].addr[2]] ELSE firmware
    /\ UNCHANGED wire
claimed(s) ==
    /\ st[s].tries >= schedule
    /\ st' = [st EXCEPT ![s].phase = "Holding"]
    /\ firmware' = IF medium = "Tashtalk" THEN [firmware EXCEPT ![s] = st[s].addr[2]] ELSE firmware
    /\ UNCHANGED wire

tick(s) ==
    /\ Claiming(s) /\ \A f \in wire : f.late
    /\ Ask(s) \/ claimed(s)
    /\ UNCHANGED <<cable, lost>>
-----------------------------------------------------------------------------
(* What a frame means for the address of the station that hears it.         *)

\* Mutant: a probe of one's own that comes back is somebody else's.
aarp_action_Reflected(f, s) ==
    CASE f.addr # st[s].addr -> "Ignore"
      [] f.addr = st[s].addr /\ f.kind = "Claimed" -> "Conflict"
      [] f.addr = st[s].addr /\ f.kind = "Ask" -> IF Claiming(s) THEN "Conflict" ELSE "Answer"
aarp_action(f, s) ==
    CASE f.addr = st[s].addr /\ f.kind = "Claimed" -> "Conflict"
      [] f.addr = st[s].addr /\ f.kind = "Ask" /\ f.by # s ->
            IF Claiming(s) THEN "Conflict" ELSE "Answer"
      [] OTHER -> "Ignore"

inbound_ether(f, s) == IF f.by = s THEN "Ignore" ELSE aarp_action(f, s)

\* The adapter answers for the router, which hears the question too.
inbound_llap(f, s) ==
    CASE Claiming(s) /\ f.addr = st[s].addr -> "Conflict"
      [] ~Claiming(s) /\ firmware[s] # None /\ f.kind = "Ask" /\ f.addr[2] = firmware[s] -> "Answer"
      [] medium = "Ltoudp" /\ Holding(s) /\ f.kind = "Ask" /\ f.addr = st[s].addr -> "Answer"
      [] OTHER -> "Ignore"

Means(f, s) ==
    CASE medium # "Ether" -> inbound_llap(f, s)
      [] medium = "Ether" /\ s \in Port -> inbound_ether(f, s)
      [] medium = "Ether" /\ s \in Node -> aarp_action(f, s)

\* An answer goes to the station that asked; others may overhear it, and on
\* LocalTalk all do.
Answer(f, s) ==
    /\ Means(f, s) = "Answer"
    /\ \E T \in {{f.by}, Heard(s)} :
          /\ medium # "Ether" => T = Heard(s)
          /\ wire' = (wire \ {f}) \cup {Frame(t, "Claimed", f.addr, s) : t \in {u \in T : Hears(u)}}
    /\ UNCHANGED st

\* A port asks for another one.
restart(s) ==
    \E id \in Ids \ {st[s].addr[2]} :
        st' = [st EXCEPT ![s] = Candidate(<<st[s].addr[1], id>>, "Port")]

\* A node picks again, the same one perhaps, and gives up after a while.
claim_in_range(s) ==
    IF st[s].want = "Addr" \/ st[s].tried = AddressTries
    THEN st' = [st EXCEPT ![s] = Off]
    ELSE \E id \in Ids :
            st' = [st EXCEPT ![s].addr = <<@[1], id>>, ![s].tries = 0, ![s].tried = @ + 1]

GiveWay(f, s) ==
    /\ Means(f, s) = "Conflict" /\ Claiming(s)
    /\ \/ s \in Port /\ restart(s)
       \/ s \in Node /\ claim_in_range(s)
    /\ wire' = {g \in wire \ {f} : st'[s].phase # "Off" \/ g.to # s}

\* Once the address is held an objection to it is only worth a log line.
Ignore(f, s) ==
    /\ Means(f, s) = "Ignore" \/ (Means(f, s) = "Conflict" /\ ~Claiming(s))
    /\ wire' = wire \ {f}
    /\ UNCHANGED st

Hear ==
    /\ \E f \in wire : Answer(f, f.to) \/ GiveWay(f, f.to) \/ Ignore(f, f.to)
    /\ UNCHANGED <<cable, firmware, lost>>

\* A router told the node that its network is not the cable's: it claims an
\* address in the cable's range, and answers for none meanwhile.
Repick(n) ==
    /\ Holding(n) /\ st[n].want = "Discover" /\ st[n].addr[1] = "startup"
    /\ \E p \in Port : Holding(p)
    /\ \E id \in Ids : st' = [st EXCEPT ![n] = Candidate(<<"cable", id>>, "Discover")]
    /\ UNCHANGED <<cable, firmware, wire, lost>>
-----------------------------------------------------------------------------
(* The cable.                                                               *)
Lose ==
    /\ lost < MaxLost /\ lost' = lost + 1
    /\ \E f \in wire : ~f.late /\ f.to # f.by /\ wire' = wire \ {f}
    /\ UNCHANGED <<cable, st, firmware>>
Delay ==
    /\ lost < MaxLost /\ lost' = lost + 1
    /\ \E f \in wire : ~f.late /\ f.to # f.by /\ wire' = (wire \ {f}) \cup {[f EXCEPT !.late = TRUE]}
    /\ UNCHANGED <<cable, st, firmware>>

Next == \/ \E s \in Station : Start(s) \/ Leave(s) \/ tick(s)
        \/ Hear
        \/ \E n \in Station \cap Node : Repick(n)
        \/ Lose \/ Delay
Spec == Init /\ [][Next]_vars
-----------------------------------------------------------------------------
(* Properties                                                               *)

\* Two stations hold one address only if every probe of one of them was lost,
\* or its answer was: whatever stations come, go, ask for the same at once,
\* and whichever of them is a router.
OneHolder ==
    (\E s, t \in Station : s # t /\ Holding(s) /\ Holding(t) /\ st[s].addr = st[t].addr)
    => lost >= schedule

\* A station lets go of the address it asks for only because another one has
\* asked for it or holds it: its own frames heard back never cost it a claim.
LetsGo(s) == Claiming(s) /\ st'[s].phase = "Claiming" /\ st'[s].tries < st[s].tries
GivesWayToOthers ==
    [][\A s \in Station : LetsGo(s) => \E f \in wire \ wire' : f.to = s /\ f.by # s]_vars
=============================================================================
