------------------------------- MODULE Bridge -------------------------------
(***************************************************************************)
(* The bridge (src/bridge.rs): which of its two links each node ID of its  *)
(* network lives on, learned from what it hears, doubted when a node turns *)
(* up on the other link, and asked about with one question per ID.  Every  *)
(* input is one Bridge::step: expire first, then the handler.              *)
(*                                                                         *)
(* Anything may arrive from either link at any time, late and in any       *)
(* order.  Hardware addresses, and with them the table of addresses on     *)
(* other networks, are data that decide no step: a side is a link.  What   *)
(* is sent is kept for one step; which requester a proxy answer goes to is *)
(* left out.                                                               *)
(***************************************************************************)
EXTENDS Naturals, FiniteSets

CONSTANTS
    Nodes,         \* ordinary node IDs of the bridge's network
    Ttl,           \* ENTRY_TTL, in units of Elapse
    QueryTimeout   \* QUERY_TIMEOUT

ASSUME TimesAssumption == Ttl \in Nat /\ QueryTimeout \in 1..Ttl - 1
ASSUME NodesAssumption == Nodes \cap {"Us", "Zero", "All", "Beyond"} = {}

Sides == {"Ether", "Local"}
Ids == Nodes \cup {"Us", "Zero", "All"}   \* what a node field may say
\* Where a datagram goes: a node, one that is not to cross from Ethernet (we,
\* or on another network), or everybody, on this network or another
\* (node 0, which crosses and is never asked after, is sent like everybody).
Dsts == Nodes \cup {"Beyond", "All"}

Entry(side, age, doubted) == [side |-> side, age |-> age, doubted |-> doubted]
Entries == [side : Sides, age : 0..Ttl, doubted : BOOLEAN]
NoEntry == Entry("None", 0, FALSE)

Query(age, owed, moved_to) == [age |-> age, owed |-> owed, moved_to |-> moved_to]
Queries == [age : 0..QueryTimeout, owed : {"LocalAck", "EtherResponse", "Nothing"},
            moved_to : Sides \cup {"None"}]
NoQuery == Query(0, "None", "None")

Frame(to, kind, node) == [to |-> to, kind |-> kind, node |-> node]
Frames == [to : Sides, kind : {"Request", "Probe", "Response", "Enq", "Ack", "Ddp"},
           node : Ids \cup Dsts]

VARIABLES
    nodes, pending,
    sent,        \* the frames the last step sent
    last,        \* history: the side each node was last heard on
    contested,   \* history: the side believed has spoken since the doubt
    claim        \* history: time since a LocalTalk node last enquired for the ID

vars == <<nodes, pending, sent, last, contested, claim>>

\* What a step works on: the tables and the frames to send.
States == [nodes : [Ids -> Entries \cup {NoEntry}], pending : [Ids -> Queries \cup {NoQuery}],
           sent : SUBSET Frames]
Put(s, n, e) == [s EXCEPT !.nodes = [s.nodes EXCEPT ![n] = e]]
PutQuery(s, n, q) == [s EXCEPT !.pending = [s.pending EXCEPT ![n] = q]]
Send(s, fs) == [s EXCEPT !.sent = s.sent \cup fs]

Doubted(s, n) == s.nodes[n].doubted
Live(s, n) == IF Doubted(s, n) THEN "None" ELSE s.nodes[n].side
Checking(s, n) == s.pending[n].moved_to # "None"
Other(side) == IF side = "Ether" THEN "Local" ELSE "Ether"

Init ==
    /\ \E known \in SUBSET Nodes :   \* gleaned on Ethernet while the address was claimed
        /\ nodes = [n \in Ids |-> IF n \in known THEN Entry("Ether", 0, FALSE) ELSE NoEntry]
        /\ last = [n \in Nodes |-> IF n \in known THEN "Ether" ELSE "None"]
    /\ pending = [n \in Ids |-> NoQuery]
    /\ sent = {}
    /\ contested = [n \in Nodes |-> FALSE]
    /\ claim = [n \in Nodes |-> QueryTimeout]
-----------------------------------------------------------------------------
\* Mutant: only a move-check runs out of time.
Overdue_ChecksOnly(n) == pending[n].moved_to # "None" /\ pending[n].age >= QueryTimeout
Overdue(n) == pending[n] # NoQuery /\ pending[n].age >= QueryTimeout

\* Old entries go, and queries out of time: a check nobody answered is a move.
expire ==
    [nodes |-> [n \in Ids |->
        IF Overdue(n) /\ pending[n].moved_to # "None" THEN Entry(pending[n].moved_to, 0, FALSE)
        ELSE IF nodes[n].age < Ttl THEN nodes[n] ELSE NoEntry],
     pending |-> [n \in Ids |-> IF Overdue(n) THEN NoQuery ELSE pending[n]],
     sent |-> {}]

\* The frames that put the question; a Probe reaches a node that is claiming.
Questions(n, links, owed) ==
    {Frame(link, IF link = "Local" THEN "Enq" ELSE IF owed = "LocalAck" THEN "Probe" ELSE "Request", n) :
        link \in links}

ask(s, n, links, owed, moved_to) ==
    IF n \in {"Zero", "All"} \/ s.pending[n] # NoQuery THEN s
    ELSE Send(PutQuery(s, n, Query(0, owed, moved_to)), Questions(n, links, owed))

\* Mutant: a contradiction waits for the query in flight.
contradicted_NotDisplacing(s, n, side) ==
    IF Doubted(s, n) THEN s
    ELSE ask(Put(s, n, Entry(Other(side), 0, TRUE)), n, {Other(side)}, "Nothing", side)
\* n is heard on the side it should not be on: it moved, or this is a
\* reflection.  Believe neither side and ask the one believed so far.
contradicted(s, n, side) ==
    IF Doubted(s, n) THEN s
    ELSE ask(PutQuery(Put(s, n, Entry(Other(side), 0, TRUE)), n, NoQuery),
             n, {Other(side)}, "Nothing", side)

\* Mutants: traffic keeps a doubted entry alive; a check stays open when the
\* side it asks has spoken.
agreed_KeepsContested(s, n, side) ==
    IF Checking(s, n) THEN PutQuery(s, n, NoQuery)
    ELSE Put(s, n, Entry(side, 0, Doubted(s, n)))
agreed_LeavesCheck(s, n, side) ==
    IF Doubted(s, n) THEN s ELSE Put(s, n, Entry(side, 0, FALSE))
\* n is heard on the side believed.  A check that asked for it finds the ID
\* held on both sides, and the doubt stays until the entry ages out.
agreed(s, n, side) ==
    IF Checking(s, n) THEN PutQuery(s, n, NoQuery)
    ELSE IF Doubted(s, n) THEN s
    ELSE Put(s, n, Entry(side, 0, FALSE))

Ordinary(n) == n \in Nodes

confirm(s, n, side) ==
    IF ~Ordinary(n) THEN s
    ELSE IF s.nodes[n] = NoEntry THEN Put(s, n, Entry(side, 0, FALSE))
    ELSE IF s.nodes[n].side = side THEN agreed(s, n, side)
    ELSE contradicted(s, n, side)

\* Mutant: whoever acknowledges is answered for.
Evidence_None(s, n) == TRUE
\* Nothing in the table says or suspects that n is not on LocalTalk.
Evidence(s, n) == s.nodes[n] = NoEntry \/ Live(s, n) = "Local"

\* n answered on side: pay what is owed.
settle(s, n, side) ==
    LET q == s.pending[n]
    IN  IF q.owed = "LocalAck" /\ side = "Ether"
        THEN Send(PutQuery(s, n, NoQuery), {Frame("Local", "Ack", n)})
        ELSE IF q.owed = "EtherResponse" /\ side = "Local"
        THEN Send(PutQuery(s, n, NoQuery),
                  IF Evidence(s, n) THEN {Frame("Ether", "Response", n)} ELSE {})
        ELSE s

\* A step ends in s; n was heard on side, unless it is no node of ours.
Becomes(s, n, side) ==
    /\ nodes' = s.nodes /\ pending' = s.pending /\ sent' = s.sent
    /\ last' = [m \in Nodes |-> IF m = n THEN side ELSE last[m]]
    /\ contested' = [m \in Nodes |->
         /\ s.nodes[m].doubted
         /\ contested[m] \/ (m = n /\ side = s.nodes[m].side)]
Ends(s) == Becomes(s, "Beyond", "None")
-----------------------------------------------------------------------------
(* Inputs from Ethernet.                                                    *)

\* A node of the cable answers an AARP Request or Probe, to us or another.
EtherAnswers(n) ==
    /\ Becomes(settle(confirm(expire, n, "Ether"), n, "Ether"), n, "Ether")
    /\ UNCHANGED claim
EtherResponse == \E n \in Ids : EtherAnswers(n)

\* A Request may be answered from memory: it only routes traffic.  A Probe is
\* a claim and may not.
EtherAsks == \E n \in Ids, kind \in {"Request", "Probe"} :
    LET answers == Send(expire, {Frame("Ether", "Response", n)})
    IN  /\ \/ n = "Us" /\ Ends(answers)
           \/ n # "Us" /\ Live(expire, n) = "Local" /\ kind = "Request" /\ Ends(answers)
           \/ n # "Us" /\ Live(expire, n) = "Ether" /\ Ends(expire)
           \/ /\ n # "Us"
              /\ Live(expire, n) = "None" \/ (Live(expire, n) = "Local" /\ kind = "Probe")
              /\ Ends(ask(expire, n, {"Local"}, "EtherResponse", "None"))
        /\ UNCHANGED claim

\* A datagram from src, "Beyond" standing for all that are no node of ours.
\* One whose lengths disagree is fit for no LocalTalk frame.
EtherDdp == \E src \in Nodes \cup {"Beyond"}, dst \in Dsts :
    LET s == confirm(expire, src, "Ether")
        held == src \in Nodes /\ Doubted(s, src)
        crossed == {s, Send(s, {Frame("Local", "Ddp", dst)})}
    IN  /\ \/ /\ held \/ dst = "Beyond"
              /\ Becomes(s, src, "Ether")
           \/ /\ ~held /\ dst \in Nodes
              /\ Doubted(s, dst) \/ Live(s, dst) = "Ether"
              /\ Becomes(s, src, "Ether")
           \/ /\ ~held
              /\ dst = "All" \/ (dst \in Nodes /\ Live(s, dst) = "Local")
              /\ \E c \in crossed : Becomes(c, src, "Ether")
           \/ /\ ~held
              /\ dst \in Nodes /\ s.nodes[dst] = NoEntry
              /\ \E c \in crossed : Becomes(ask(c, dst, Sides, "Nothing", "None"), src, "Ether")
        /\ UNCHANGED claim
-----------------------------------------------------------------------------
(* Inputs from LocalTalk.                                                   *)

\* Our own ID is defended at once; any other is asked after on Ethernet.
LocalEnq == \E n \in Ids :
    /\ Ends(IF n = "Us" THEN Send(expire, {Frame("Local", "Ack", n)})
            ELSE ask(expire, n, {"Ether"}, "LocalAck", "None"))
    /\ claim' = [m \in Nodes |-> IF m = n THEN 0 ELSE claim[m]]

LocalAck == \E n \in Ids :
    /\ Becomes(settle(confirm(expire, n, "Local"), n, "Local"), n, "Local")
    /\ UNCHANGED claim

\* A datagram of either header form, or one that does not parse.
LocalDdp == \E src \in Nodes \cup {"Beyond"}, dst \in Dsts :
    LET s == confirm(expire, src, "Local")
        held == src \in Nodes /\ Doubted(s, src)
    IN  /\ \/ Becomes(s, src, "Local")
           \/ /\ ~held /\ ~(dst \in Nodes /\ Live(s, dst) = "Local")
              /\ Becomes(Send(s, {Frame("Ether", "Ddp", dst)}), src, "Local")
        /\ UNCHANGED claim
-----------------------------------------------------------------------------
\* Nothing arrived for a while, or a frame that is nobody's business here.
Tick == Ends(expire) /\ UNCHANGED claim

Older(age, limit) == IF age < limit THEN age + 1 ELSE limit
Elapse ==
    /\ nodes' = [n \in Ids |-> IF nodes[n] = NoEntry THEN NoEntry
                               ELSE [nodes[n] EXCEPT !.age = Older(@, Ttl)]]
    /\ pending' = [n \in Ids |-> IF pending[n] = NoQuery THEN NoQuery
                                 ELSE [pending[n] EXCEPT !.age = Older(@, QueryTimeout)]]
    /\ claim' = [n \in Nodes |-> Older(claim[n], QueryTimeout)]
    /\ sent' = {}
    /\ UNCHANGED <<last, contested>>

Next == \/ EtherResponse \/ EtherAsks \/ EtherDdp
        \/ LocalEnq \/ LocalAck \/ LocalDdp
        \/ Tick \/ Elapse
Spec == Init /\ [][Next]_vars
\* The clock runs and the loop wakes every 250 ms.
LiveSpec == Spec /\ WF_vars(Tick) /\ WF_vars(Elapse)
-----------------------------------------------------------------------------
\* The tables are over the node IDs of the network: the bridge itself and the
\* reserved IDs are never entries, and no question names a reserved ID or us.
TypeOK ==
    /\ nodes \in [Ids -> Entries \cup {NoEntry}]
    /\ pending \in [Ids -> Queries \cup {NoQuery}]
    /\ sent \subseteq Frames
    /\ last \in [Nodes -> Sides \cup {"None"}]
    /\ contested \in [Nodes -> BOOLEAN] /\ claim \in [Nodes -> 0..QueryTimeout]
    /\ \A n \in Ids \ Nodes : nodes[n] = NoEntry /\ pending[n] = NoQuery

\* A node is believed to be where it was last heard, however its frames, the
\* checks and the timeouts interleave (confirm, expire).
LastWordCounts == \A n \in Nodes :
    nodes[n] # NoEntry /\ ~nodes[n].doubted => last[n] = nodes[n].side

\* A doubt is always being looked into, by a check that asks the side believed
\* about the other one, unless that side has answered; and nothing else is
\* checked (confirm: "otherwise the node stays dark for ENTRY_TTL").
DoubtIsAsked == \A n \in Nodes :
    /\ nodes[n].doubted => pending[n].moved_to # "None" \/ contested[n]
    /\ pending[n].moved_to # "None" =>
         nodes[n].doubted /\ ~contested[n] /\ pending[n].moved_to = Other(nodes[n].side)

\* An answer on a LocalTalk node's behalf is never given against the table
\* (settle: "Never proxy against evidence"): n was last heard on LocalTalk, or
\* nobody remembers it on Ethernet.
ProxyHasEvidence == \A n \in Nodes :
    Frame("Ether", "Response", n) \in sent => last[n] = "Local" /\ ~nodes[n].doubted

\* An ID is denied to a LocalTalk node only while it asks for it, and only on
\* Ethernet's word, never from memory (QUERY_TIMEOUT: "a debt is never settled
\* after the creditor gave up").
AcksAreEarned == \A n \in Nodes :
    Frame("Local", "Ack", n) \in sent => last[n] = "Ether" /\ claim[n] < QueryTimeout

\* A node that is not heard on both sides for ever does not stay in doubt.
DoubtEnds == \A n \in Nodes :
    (\E side \in Sides : <>[](last[n] = side)) => []<>~nodes[n].doubted

\* bridge.md: an acknowledgement is owed for an enquiry "if Ethernet answers".
\* (If a LocalTalk node has been heard with the ID since, it denies it itself.)
AcksArePaid == [][\A n \in Nodes :
    /\ EtherAnswers(n) /\ pending[n].owed = "LocalAck" /\ ~Overdue(n)
    /\ nodes[n] = NoEntry \/ nodes[n].age > claim[n]
    => Frame("Local", "Ack", n) \in sent']_vars
=============================================================================
