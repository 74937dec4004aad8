---------------------------- MODULE Bridge_proofs ----------------------------
(***************************************************************************)
(* What TLAPS proves of Bridge, for any set of node IDs and any times with *)
(* the timeout of a query below the life of an entry: the invariants and   *)
(* what may be sent.  Only DoubtEnds, a liveness property, is left to TLC. *)
(***************************************************************************)
EXTENDS Bridge, TLAPS

\* The two tables, whatever was sent, as a step finds them.
Now == [nodes |-> nodes, pending |-> pending, sent |-> {}]

\* What the tables say of n, given the side l it was last heard on and c,
\* whether the side believed has spoken since the doubt.
Sound(e, q, l, c) ==
    /\ e # NoEntry /\ ~e.doubted => l = e.side
    /\ e.doubted => q.moved_to # "None" \/ c
    /\ c => e.doubted
    /\ q.moved_to # "None" => /\ e.doubted /\ ~c /\ q.owed = "Nothing"
                              /\ q.moved_to = Other(e.side) /\ l = q.moved_to
                              /\ e.age <= q.age \/ q.age >= QueryTimeout
SoundAt(s, n, l, c) == Sound(s.nodes[n], s.pending[n], l, c)

\* An enquiry asked on a node's behalf is as old as the query, at most.
Recent(q, t) == q.owed = "LocalAck" => t <= q.age

Reserved(s) == \A n \in Ids \ Nodes : s.nodes[n] = NoEntry /\ s.pending[n] = NoQuery

BridgeInv ==
    /\ TypeOK /\ ProxyHasEvidence /\ AcksAreEarned
    /\ \A n \in Nodes : SoundAt(Now, n, last[n], contested[n]) /\ Recent(pending[n], claim[n])

LEMMA IdFacts ==
    /\ Nodes \subseteq Ids /\ {"Us", "Zero", "All"} \subseteq Ids
    /\ "Us" \notin Nodes /\ "Zero" \notin Nodes /\ "All" \notin Nodes /\ "Beyond" \notin Nodes
BY NodesAssumption DEF Ids

LEMMA EntryFacts ==
    /\ NoEntry.side = "None" /\ ~NoEntry.doubted /\ NoEntry.age = 0 /\ NoEntry \notin Entries
    /\ \A side \in Sides :
         /\ Entry(side, 0, FALSE) \in Entries /\ Entry(side, 0, TRUE) \in Entries
         /\ Entry(side, 0, FALSE).side = side /\ Entry(side, 0, TRUE).side = side
         /\ Entry(side, 0, FALSE).age = 0 /\ Entry(side, 0, TRUE).age = 0
         /\ ~Entry(side, 0, FALSE).doubted /\ Entry(side, 0, TRUE).doubted
BY TimesAssumption DEF NoEntry, Entry, Entries, Sides

LEMMA QueryFacts ==
    /\ NoQuery.moved_to = "None" /\ NoQuery.owed = "None" /\ NoQuery.age = 0 /\ NoQuery \notin Queries
    /\ \A age \in 0..QueryTimeout, owed \in {"LocalAck", "EtherResponse", "Nothing"},
          to \in Sides \cup {"None"} :
         /\ Query(age, owed, to) \in Queries
         /\ Query(age, owed, to).age = age /\ Query(age, owed, to).owed = owed
         /\ Query(age, owed, to).moved_to = to
BY DEF NoQuery, Query, Queries, Sides

LEMMA OtherFacts ==
    \A side \in Sides : Other(side) \in Sides /\ Other(side) # side /\ Other(Other(side)) = side
BY DEF Sides, Other

\* What Put, PutQuery and Send do to a state.
LEMMA PutFacts ==
    ASSUME NEW s \in States, NEW n \in Ids, NEW e \in Entries \cup {NoEntry}
    PROVE  LET t == Put(s, n, e)
           IN  /\ t \in States /\ t.pending = s.pending /\ t.sent = s.sent
               /\ t.nodes[n] = e /\ \A m \in Ids : m # n => t.nodes[m] = s.nodes[m]
BY DEF Put, States

LEMMA PutQueryFacts ==
    ASSUME NEW s \in States, NEW n \in Ids, NEW q \in Queries \cup {NoQuery}
    PROVE  LET t == PutQuery(s, n, q)
           IN  /\ t \in States /\ t.nodes = s.nodes /\ t.sent = s.sent
               /\ t.pending[n] = q /\ \A m \in Ids : m # n => t.pending[m] = s.pending[m]
BY DEF PutQuery, States

LEMMA SendFacts ==
    ASSUME NEW s \in States, NEW fs \in SUBSET Frames
    PROVE  LET t == Send(s, fs)
           IN  t \in States /\ t.nodes = s.nodes /\ t.pending = s.pending /\ t.sent = s.sent \cup fs
BY DEF Send, States

\* A question is put to the links named, unless one is out or n is reserved.
LEMMA AskFacts ==
    ASSUME NEW s \in States, NEW n \in Ids, NEW links \in SUBSET Sides,
           NEW owed, NEW to, Query(0, owed, to) \in Queries
    PROVE  LET t == ask(s, n, links, owed, to)
           IN  /\ t \in States /\ t.nodes = s.nodes
               /\ \A m \in Ids : m # n => t.pending[m] = s.pending[m]
               /\ t.pending[n] = IF n \in {"Zero", "All"} \/ s.pending[n] # NoQuery
                                 THEN s.pending[n] ELSE Query(0, owed, to)
               /\ \A f \in t.sent \ s.sent : f.kind \in {"Enq", "Request", "Probe"}
<1> DEFINE q == Query(0, owed, to)
           fs == Questions(n, links, owed)
           u == PutQuery(s, n, q)
           t == ask(s, n, links, owed, to)
<1>1. q \in Queries
  OBVIOUS
<1>2. fs \in SUBSET Frames /\ \A f \in fs : f.kind \in {"Enq", "Request", "Probe"}
  <2>1. ASSUME NEW link \in links, NEW kind \in {"Enq", "Request", "Probe"}
        PROVE  Frame(link, kind, n) \in Frames /\ Frame(link, kind, n).kind = kind
    BY DEF Frame, Frames
  <2>2. ASSUME NEW f \in fs
        PROVE  \E link \in links, kind \in {"Enq", "Request", "Probe"} : f = Frame(link, kind, n)
    BY DEF Questions
  <2>. HIDE DEF fs
  <2>. QED BY <2>1, <2>2
<1>3. /\ u \in States /\ u.nodes = s.nodes /\ u.sent = s.sent
      /\ u.pending[n] = q /\ \A m \in Ids : m # n => u.pending[m] = s.pending[m]
  BY <1>1, PutQueryFacts
<1>4. LET v == Send(u, fs)
      IN  v \in States /\ v.nodes = u.nodes /\ v.pending = u.pending /\ v.sent = u.sent \cup fs
  BY <1>2, <1>3, SendFacts
<1>5. t = IF n \in {"Zero", "All"} \/ s.pending[n] # NoQuery THEN s ELSE Send(u, fs)
  BY DEF ask
<1>. HIDE DEF q, fs, u, t
<1>. QED BY <1>2, <1>3, <1>4, <1>5 DEF q, t
-----------------------------------------------------------------------------
(* The parts of a step.                                                     *)

\* expire leaves the tables sound, and no query that is out of time.
LEMMA ExpireFacts ==
    ASSUME BridgeInv
    PROVE  /\ expire \in States /\ Reserved(expire) /\ expire.sent = {}
           /\ \A n \in Nodes :
                /\ SoundAt(expire, n, last[n], contested[n] /\ Doubted(expire, n))
                /\ Recent(expire.pending[n], claim[n])
                /\ expire.pending[n].owed = "LocalAck" => expire.pending[n].age < QueryTimeout
                /\ contested[n] => Doubted(expire, n) \/ expire.nodes[n] = NoEntry
<1> DEFINE x == expire
<1>1. ASSUME NEW n \in Ids
      PROVE  /\ Overdue(n) /\ pending[n].moved_to # "None" =>
                  x.nodes[n] = Entry(pending[n].moved_to, 0, FALSE)
             /\ ~(Overdue(n) /\ pending[n].moved_to # "None") =>
                  x.nodes[n] = nodes[n] \/ (x.nodes[n] = NoEntry /\ ~(nodes[n].age < Ttl))
             /\ Overdue(n) => x.pending[n] = NoQuery
             /\ ~Overdue(n) => x.pending[n] = pending[n]
  BY DEF expire
<1>2. /\ nodes \in [Ids -> Entries \cup {NoEntry}] /\ pending \in [Ids -> Queries \cup {NoQuery}]
      /\ \A n \in Ids \ Nodes : nodes[n] = NoEntry /\ pending[n] = NoQuery
      /\ \A n \in Nodes : Sound(nodes[n], pending[n], last[n], contested[n])
      /\ \A n \in Nodes : Recent(pending[n], claim[n]) /\ claim[n] \in 0..QueryTimeout
      /\ \A n \in Nodes : contested[n] \in BOOLEAN
  BY DEF BridgeInv, TypeOK, SoundAt, Now
<1>3. /\ x = [nodes |-> x.nodes, pending |-> x.pending, sent |-> {}] /\ x.sent = {}
      /\ x.nodes = [n \in Ids |-> x.nodes[n]] /\ x.pending = [n \in Ids |-> x.pending[n]]
  BY DEF expire
<1>. HIDE DEF x
<1>4. ASSUME NEW n \in Ids PROVE x.nodes[n] \in Entries \cup {NoEntry} /\ x.pending[n] \in Queries \cup {NoQuery}
  <2>1. CASE Overdue(n) /\ pending[n].moved_to # "None"
    <3>1. pending[n].moved_to \in Sides
      BY <1>2, <2>1, QueryFacts DEF Queries
    <3>. QED BY <1>1, <2>1, <3>1, EntryFacts
  <2>2. CASE ~(Overdue(n) /\ pending[n].moved_to # "None")
    <3>1. x.nodes[n] = nodes[n] \/ x.nodes[n] = NoEntry
      BY <1>1, <2>2
    <3>2. x.pending[n] = pending[n] \/ x.pending[n] = NoQuery
      BY <1>1
    <3>. QED BY <1>2, <3>1, <3>2
  <2>. QED BY <2>1, <2>2
<1>5. x \in States
  BY <1>3, <1>4 DEF States
<1>6. Reserved(x)
  <2>1. ASSUME NEW n \in Ids \ Nodes PROVE x.nodes[n] = NoEntry /\ x.pending[n] = NoQuery
    <3>1. ~Overdue(n) /\ nodes[n] = NoEntry /\ pending[n] = NoQuery
      BY <1>2 DEF Overdue
    <3>. QED BY <1>1, <3>1
  <2>. QED BY <2>1 DEF Reserved
<1>7. ASSUME NEW n \in Nodes
      PROVE  /\ SoundAt(x, n, last[n], contested[n] /\ Doubted(x, n))
             /\ Recent(x.pending[n], claim[n])
             /\ x.pending[n].owed = "LocalAck" => x.pending[n].age < QueryTimeout
             /\ contested[n] => Doubted(x, n) \/ x.nodes[n] = NoEntry
  <2> DEFINE e == nodes[n]
             q == pending[n]
             d == x.nodes[n]
             p == x.pending[n]
             l == last[n]
             c == contested[n]
             t == claim[n]
  <2>0. n \in Ids
    BY IdFacts
  <2>1. /\ e \in Entries \cup {NoEntry} /\ q \in Queries \cup {NoQuery} /\ c \in BOOLEAN
        /\ Sound(e, q, l, c) /\ Recent(q, t) /\ t \in 0..QueryTimeout
    BY <1>2, <2>0
  <2>2. /\ q # NoQuery => q.age \in 0..QueryTimeout /\ (~Overdue(n) => q.age < QueryTimeout)
        /\ e # NoEntry => e.age \in 0..Ttl
    BY <2>1, TimesAssumption DEF Overdue, Queries, Entries
  <2>3. \/ /\ q.moved_to # "None" /\ q.moved_to \in Sides
           /\ d = Entry(q.moved_to, 0, FALSE) /\ p = NoQuery
        \/ /\ q.moved_to = "None" /\ p = NoQuery
           /\ d = e \/ d = NoEntry
        \/ /\ p = q /\ (q # NoQuery => q.age < QueryTimeout)
           /\ d = e \/ (d = NoEntry /\ (e = NoEntry \/ e.age = Ttl))
    <3>1. CASE Overdue(n) /\ q.moved_to # "None"
      <4>1. q.moved_to \in Sides
        BY <2>1, <3>1, QueryFacts DEF Queries
      <4>. QED BY <1>1, <2>0, <3>1, <4>1
    <3>2. CASE Overdue(n) /\ q.moved_to = "None"
      BY <1>1, <2>0, <3>2
    <3>3. CASE ~Overdue(n)
      <4>1. p = q /\ (d = e \/ (d = NoEntry /\ ~(e.age < Ttl)))
        BY <1>1, <2>0, <3>3
      <4>2. e # NoEntry /\ ~(e.age < Ttl) => e.age = Ttl
        BY <2>2, TimesAssumption
      <4>. QED BY <2>2, <3>3, <4>1, <4>2
    <3>. QED BY <3>1, <3>2, <3>3
  <2>. HIDE DEF e, q, d, p, l, c, t
  <2>4. Sound(d, p, l, c /\ d.doubted) /\ Recent(p, t) /\ (p.owed = "LocalAck" => p.age < QueryTimeout)
    <3>1. CASE /\ q.moved_to # "None" /\ q.moved_to \in Sides
               /\ d = Entry(q.moved_to, 0, FALSE) /\ p = NoQuery
      <4>1. d.side = q.moved_to /\ ~d.doubted
        BY <3>1, EntryFacts
      <4>. QED BY <2>1, <3>1, <4>1, QueryFacts DEF Sound, Recent
    <3>2. CASE /\ q.moved_to = "None" /\ p = NoQuery
               /\ d = e \/ d = NoEntry
      BY <2>1, <3>2, EntryFacts, QueryFacts DEF Sound, Recent
    <3>3. CASE /\ p = q /\ (q # NoQuery => q.age < QueryTimeout)
               /\ d = e
      BY <2>1, <3>3, QueryFacts DEF Sound, Recent
    <3>4. CASE /\ p = q /\ (q # NoQuery => q.age < QueryTimeout)
               /\ d = NoEntry /\ (e = NoEntry \/ e.age = Ttl)
      <4>1. q.moved_to = "None"
        <5>1. SUFFICES ASSUME q.moved_to # "None" PROVE FALSE
          OBVIOUS
        <5>2. e.doubted /\ (e.age <= q.age \/ q.age >= QueryTimeout)
          BY <2>1, <5>1 DEF Sound
        <5>3. e.age = Ttl /\ q # NoQuery
          BY <3>4, <5>1, <5>2, EntryFacts, QueryFacts
        <5>. QED BY <2>2, <3>4, <5>2, <5>3, TimesAssumption
      <4>. QED BY <2>1, <3>4, <4>1, EntryFacts, QueryFacts DEF Sound, Recent
    <3>. QED BY <2>3, <3>1, <3>2, <3>3, <3>4
  <2>5. c => d.doubted \/ d = NoEntry
    BY <2>1, <2>3 DEF Sound
  <2>. QED BY <2>4, <2>5 DEF SoundAt, Doubted, d, p, l, c, t
<1>. QED BY <1>3, <1>5, <1>6, <1>7 DEF x

\* What a step that ends in s, having heard n on side, makes of m's history;
\* and what holds of m then, t after the last enquiry for it.
Heard(m, n, side) == IF m = n THEN side ELSE last[m]
Contest(s, m, n, side) ==
    Doubted(s, m) /\ (contested[m] \/ (m = n /\ side = s.nodes[m].side))
Holds(s, m, l, c, t) ==
    /\ SoundAt(s, m, l, c) /\ Recent(s.pending[m], t)
    /\ s.pending[m].owed = "LocalAck" => s.pending[m].age < QueryTimeout
    /\ Frame("Ether", "Response", m) \in s.sent => l = "Local" /\ ~Doubted(s, m)
    /\ Frame("Local", "Ack", m) \in s.sent => l = "Ether" /\ t < QueryTimeout
Ready(s, n, side, age) ==
    /\ s \in States /\ Reserved(s)
    /\ \A m \in Nodes : /\ Holds(s, m, Heard(m, n, side), Contest(s, m, n, side), age[m])
                        /\ age[m] \in 0..QueryTimeout

LEMMA ExpireReady ==
    ASSUME BridgeInv
    PROVE  Ready(expire, "Beyond", "None", claim)
<1>1. /\ expire \in States /\ Reserved(expire) /\ expire.sent = {}
      /\ \A n \in Nodes :
           /\ SoundAt(expire, n, last[n], contested[n] /\ Doubted(expire, n))
           /\ Recent(expire.pending[n], claim[n])
           /\ expire.pending[n].owed = "LocalAck" => expire.pending[n].age < QueryTimeout
  BY ExpireFacts
<1>2. ASSUME NEW m \in Nodes
      PROVE  Holds(expire, m, Heard(m, "Beyond", "None"), Contest(expire, m, "Beyond", "None"), claim[m])
  <2>1. Heard(m, "Beyond", "None") = last[m] /\ m # "Beyond"
    BY IdFacts DEF Heard
  <2>2. Contest(expire, m, "Beyond", "None") = (contested[m] /\ Doubted(expire, m))
    BY <2>1 DEF Contest
  <2>. QED BY <1>1, <2>1, <2>2 DEF Holds
<1>3. \A m \in Nodes : claim[m] \in 0..QueryTimeout
  BY DEF BridgeInv, TypeOK
<1>. QED BY <1>1, <1>2, <1>3 DEF Ready

\* Hearing n on side settles where it is, or leaves a doubt with a question.
LEMMA ContradictedFacts ==
    ASSUME NEW s \in States, NEW n \in Nodes, NEW side \in Sides, NEW l, NEW c \in BOOLEAN,
           SoundAt(s, n, l, c), s.nodes[n] # NoEntry, s.nodes[n].side # side
    PROVE  LET t == contradicted(s, n, side)
           IN  /\ t \in States
               /\ \A m \in Ids : m # n => t.nodes[m] = s.nodes[m] /\ t.pending[m] = s.pending[m]
               /\ SoundAt(t, n, side, Doubted(t, n) /\ (c \/ side = t.nodes[n].side))
               /\ t.pending[n] = s.pending[n] \/ t.pending[n].owed = "Nothing"
               /\ \A f \in t.sent \ s.sent : f.kind \notin {"Response", "Ack"}
<1> DEFINE t == contradicted(s, n, side)
           e == Entry(Other(side), 0, TRUE)
           u == Put(s, n, e)
           v == PutQuery(u, n, NoQuery)
           w == ask(v, n, {Other(side)}, "Nothing", side)
           q == Query(0, "Nothing", side)
<1>1. n \in Ids /\ n \notin {"Zero", "All"}
  BY IdFacts
<1>2. s.nodes[n] \in Entries /\ s.nodes[n].side = Other(side) /\ Other(side) # side
      /\ Other(side) \in Sides /\ side # "None" /\ side = Other(Other(side))
  <2>1. s.nodes[n] \in Entries
    BY <1>1 DEF States
  <2>. QED BY <2>1 DEF Entries, Sides, Other
<1>3. CASE Doubted(s, n)
  <2>1. t = s
    BY <1>3 DEF contradicted
  <2>. HIDE DEF t
  <2>2. SoundAt(s, n, side, Doubted(s, n) /\ (c \/ side = s.nodes[n].side))
    BY <1>2, <1>3 DEF SoundAt, Sound, Doubted
  <2>. QED BY <2>1, <2>2 DEF t
<1>4. CASE ~Doubted(s, n)
  <2>1. t = w
    BY <1>4 DEF contradicted
  <2>2. /\ e \in Entries /\ e.side = Other(side) /\ e.doubted /\ e.age = 0 /\ e # NoEntry
        /\ q.moved_to = side /\ q.owed = "Nothing" /\ q.age = 0
    <3>1. q.moved_to = side /\ q.owed = "Nothing" /\ q.age = 0
      BY DEF Query
    <3>. QED BY <1>2, <3>1, EntryFacts
  <2>. HIDE DEF t, e
  <2>3. /\ u \in States /\ u.pending = s.pending /\ u.sent = s.sent
        /\ u.nodes[n] = e /\ \A m \in Ids : m # n => u.nodes[m] = s.nodes[m]
    <3>1. e \in Entries \cup {NoEntry}
      BY <2>2
    <3>. QED BY <1>1, <3>1, PutFacts
  <2>. HIDE DEF u
  <2>4. /\ v \in States /\ v.nodes = u.nodes /\ v.sent = u.sent
        /\ v.pending[n] = NoQuery /\ \A m \in Ids : m # n => v.pending[m] = u.pending[m]
    <3>1. NoQuery \in Queries \cup {NoQuery}
      OBVIOUS
    <3>. QED BY <1>1, <2>3, <3>1, PutQueryFacts
  <2>. HIDE DEF v
  <2>5. /\ w \in States /\ w.nodes = v.nodes
        /\ \A m \in Ids : m # n => w.pending[m] = v.pending[m]
        /\ w.pending[n] = q
        /\ \A f \in w.sent \ v.sent : f.kind \in {"Enq", "Request", "Probe"}
    <3>. DEFINE links == {Other(side)}
    <3>1. links \in SUBSET Sides /\ Query(0, "Nothing", side) \in Queries
      BY <1>2, TimesAssumption DEF Query, Queries
    <3>. HIDE DEF links
    <3>2. LET x == ask(v, n, links, "Nothing", side)
          IN  /\ x \in States /\ x.nodes = v.nodes
              /\ \A m \in Ids : m # n => x.pending[m] = v.pending[m]
              /\ x.pending[n] = IF n \in {"Zero", "All"} \/ v.pending[n] # NoQuery
                                THEN v.pending[n] ELSE Query(0, "Nothing", side)
              /\ \A f \in x.sent \ v.sent : f.kind \in {"Enq", "Request", "Probe"}
      BY <1>1, <2>4, <3>1, AskFacts
    <3>. QED BY <1>1, <2>4, <3>2 DEF links
  <2>6. c = FALSE
    BY <1>4 DEF SoundAt, Sound, Doubted
  <2>. HIDE DEF w, q
  <2>7. SoundAt(w, n, side, Doubted(w, n) /\ (c \/ side = w.nodes[n].side))
    <3>1. w.nodes[n] = e /\ w.pending[n] = q
      BY <2>3, <2>4, <2>5
    <3>2. e.age <= q.age
      BY <2>2
    <3>. QED BY <1>2, <2>2, <2>6, <3>1, <3>2 DEF SoundAt, Sound, Doubted
  <2>. QED BY <2>1, <2>2, <2>3, <2>4, <2>5, <2>7 DEF t
<1>. QED BY <1>3, <1>4

LEMMA AgreedFacts ==
    ASSUME NEW s \in States, NEW n \in Nodes, NEW side \in Sides, NEW l, NEW c \in BOOLEAN,
           SoundAt(s, n, l, c), s.nodes[n] # NoEntry, s.nodes[n].side = side
    PROVE  LET t == agreed(s, n, side)
           IN  /\ t \in States /\ t.sent = s.sent
               /\ \A m \in Ids : m # n => t.nodes[m] = s.nodes[m] /\ t.pending[m] = s.pending[m]
               /\ SoundAt(t, n, side, Doubted(t, n) /\ (c \/ side = t.nodes[n].side))
               /\ t.pending[n] = s.pending[n] \/ t.pending[n] = NoQuery
<1> DEFINE t == agreed(s, n, side)
           e == Entry(side, 0, FALSE)
           u == Put(s, n, e)
           v == PutQuery(s, n, NoQuery)
<1>1. n \in Ids
  BY IdFacts
<1>2. CASE Checking(s, n)
  <2>1. t = v
    BY <1>2 DEF agreed
  <2>2. /\ v \in States /\ v.nodes = s.nodes /\ v.sent = s.sent
        /\ v.pending[n] = NoQuery /\ \A m \in Ids : m # n => v.pending[m] = s.pending[m]
    <3>1. NoQuery \in Queries \cup {NoQuery}
      OBVIOUS
    <3>. QED BY <1>1, <3>1, PutQueryFacts
  <2>. HIDE DEF t, v
  <2>3. SoundAt(v, n, side, Doubted(v, n) /\ (c \/ side = v.nodes[n].side))
    BY <1>2, <2>2, QueryFacts DEF SoundAt, Sound, Doubted, Checking
  <2>. QED BY <2>1, <2>2, <2>3 DEF t
<1>3. CASE ~Checking(s, n) /\ Doubted(s, n)
  <2>1. t = s
    BY <1>3 DEF agreed
  <2>. HIDE DEF t
  <2>2. SoundAt(s, n, side, Doubted(s, n) /\ (c \/ side = s.nodes[n].side))
    BY <1>3 DEF SoundAt, Sound, Doubted, Checking
  <2>. QED BY <2>1, <2>2 DEF t
<1>4. CASE ~Checking(s, n) /\ ~Doubted(s, n)
  <2>1. t = u
    BY <1>4 DEF agreed
  <2>2. e \in Entries \cup {NoEntry} /\ e.side = side /\ ~e.doubted
    BY EntryFacts
  <2>. HIDE DEF t, e
  <2>3. /\ u \in States /\ u.pending = s.pending /\ u.sent = s.sent
        /\ u.nodes[n] = e /\ \A m \in Ids : m # n => u.nodes[m] = s.nodes[m]
    BY <1>1, <2>2, PutFacts
  <2>. HIDE DEF u
  <2>4. SoundAt(u, n, side, Doubted(u, n) /\ (c \/ side = u.nodes[n].side))
    BY <1>4, <2>2, <2>3 DEF SoundAt, Sound, Doubted, Checking
  <2>. QED BY <2>1, <2>3, <2>4 DEF t
<1>. QED BY <1>2, <1>3, <1>4

LEMMA FirstFacts ==
    ASSUME NEW s \in States, NEW n \in Nodes, NEW side \in Sides, NEW l, NEW c \in BOOLEAN,
           SoundAt(s, n, l, c), s.nodes[n] = NoEntry
    PROVE  LET t == Put(s, n, Entry(side, 0, FALSE))
           IN  /\ t \in States /\ t.sent = s.sent
               /\ \A m \in Ids : m # n => t.nodes[m] = s.nodes[m] /\ t.pending[m] = s.pending[m]
               /\ SoundAt(t, n, side, Doubted(t, n) /\ (c \/ side = t.nodes[n].side))
               /\ t.pending[n] = s.pending[n] /\ ~Doubted(t, n)
<1> DEFINE e == Entry(side, 0, FALSE)
           u == Put(s, n, e)
<1>1. n \in Ids
  BY IdFacts
<1>2. e \in Entries \cup {NoEntry} /\ e.side = side /\ ~e.doubted
  BY EntryFacts
<1>. HIDE DEF e
<1>3. /\ u \in States /\ u.pending = s.pending /\ u.sent = s.sent
      /\ u.nodes[n] = e /\ \A m \in Ids : m # n => u.nodes[m] = s.nodes[m]
  BY <1>1, <1>2, PutFacts
<1>. HIDE DEF u
<1>4. SoundAt(u, n, side, Doubted(u, n) /\ (c \/ side = u.nodes[n].side))
  BY <1>2, <1>3, EntryFacts DEF SoundAt, Sound, Doubted
<1>5. ~Doubted(u, n)
  BY <1>2, <1>3 DEF Doubted
<1>. QED BY <1>3, <1>4, <1>5 DEF u, e

\* Hearing n makes ready a step that found the tables sound.
LEMMA ConfirmReady ==
    ASSUME BridgeInv, NEW n \in Ids \cup {"Beyond"}, NEW side \in Sides
    PROVE  Ready(confirm(expire, n, side), n, side, claim)
<1> DEFINE s == expire
           t == confirm(s, n, side)
<1>1. /\ s \in States /\ Reserved(s)
      /\ \A m \in Nodes : /\ m \in Ids /\ contested[m] \in BOOLEAN
                          /\ Holds(s, m, last[m], contested[m] /\ Doubted(s, m), claim[m])
                          /\ contested[m] => Doubted(s, m) \/ s.nodes[m] = NoEntry
                          /\ claim[m] \in 0..QueryTimeout
  <2>1. ASSUME NEW m \in Nodes
        PROVE  /\ Heard(m, "Beyond", "None") = last[m]
               /\ Contest(s, m, "Beyond", "None") = (contested[m] /\ Doubted(s, m))
    BY IdFacts DEF Heard, Contest
  <2>. HIDE DEF s
  <2>2. Ready(s, "Beyond", "None", claim)
    BY ExpireReady DEF s
  <2>3. \A m \in Nodes : contested[m] => Doubted(s, m) \/ s.nodes[m] = NoEntry
    BY ExpireFacts DEF s
  <2>. QED BY <2>1, <2>2, <2>3, IdFacts DEF Ready, BridgeInv, TypeOK
<1>. HIDE DEF s
<1>2. CASE n \notin Nodes
  <2>1. t = s
    BY <1>2 DEF confirm, Ordinary
  <2>. HIDE DEF t
  <2>2. ASSUME NEW m \in Nodes
        PROVE Heard(m, n, side) = last[m] /\ Contest(s, m, n, side) = (contested[m] /\ Doubted(s, m))
    BY <1>2 DEF Heard, Contest
  <2>3. Ready(s, n, side, claim)
    BY <1>1, <2>2 DEF Ready
  <2>. QED BY <2>1, <2>3 DEF t, s
<1>3. CASE n \in Nodes
  <2> DEFINE c == contested[n] /\ Doubted(s, n)
  <2>1. /\ t \in States
        /\ \A m \in Ids : m # n => t.nodes[m] = s.nodes[m] /\ t.pending[m] = s.pending[m]
        /\ SoundAt(t, n, side, Doubted(t, n) /\ (c \/ side = t.nodes[n].side))
        /\ t.pending[n] = s.pending[n] \/ t.pending[n] = NoQuery \/ t.pending[n].owed = "Nothing"
        /\ \A f \in t.sent \ s.sent : f.kind \notin {"Response", "Ack"}
        /\ s.nodes[n] = NoEntry => ~Doubted(t, n)
    <3>1. SoundAt(s, n, last[n], c) /\ c \in BOOLEAN
      BY <1>1, <1>3 DEF Holds
    <3>. HIDE DEF c
    <3>2. CASE s.nodes[n] = NoEntry
      <4> DEFINE u == Put(s, n, Entry(side, 0, FALSE))
      <4>1. t = u
        BY <1>3, <3>2 DEF confirm, Ordinary
      <4>2. /\ u \in States /\ u.sent = s.sent
            /\ \A m \in Ids : m # n => u.nodes[m] = s.nodes[m] /\ u.pending[m] = s.pending[m]
            /\ SoundAt(u, n, side, Doubted(u, n) /\ (c \/ side = u.nodes[n].side))
            /\ u.pending[n] = s.pending[n] /\ ~Doubted(u, n)
        BY <1>1, <1>3, <3>1, <3>2, FirstFacts
      <4>. HIDE DEF t, u
      <4>. QED BY <4>1, <4>2
    <3>3. CASE s.nodes[n] # NoEntry /\ s.nodes[n].side = side
      <4>1. t = agreed(s, n, side)
        BY <1>3, <3>3 DEF confirm, Ordinary
      <4>. HIDE DEF t
      <4>. QED BY <1>1, <1>3, <3>1, <3>3, <4>1, AgreedFacts
    <3>4. CASE s.nodes[n] # NoEntry /\ s.nodes[n].side # side
      <4>1. t = contradicted(s, n, side)
        BY <1>3, <3>4 DEF confirm, Ordinary
      <4>. HIDE DEF t
      <4>. QED BY <1>1, <1>3, <3>1, <3>4, <4>1, ContradictedFacts
    <3>. QED BY <3>2, <3>3, <3>4
  <2>. HIDE DEF t
  <2>2. Contest(t, n, n, side) = (Doubted(t, n) /\ (c \/ side = t.nodes[n].side))
    BY <1>1, <1>3, <2>1 DEF Contest
  <2>. HIDE DEF c
  <2>3. ASSUME NEW m \in Nodes
        PROVE  Holds(t, m, Heard(m, n, side), Contest(t, m, n, side), claim[m])
    <3>1. /\ Frame("Ether", "Response", m) \notin t.sent \ s.sent
          /\ Frame("Local", "Ack", m) \notin t.sent \ s.sent
      BY <2>1 DEF Frame
    <3>2. s.sent = {}
      BY ExpireFacts DEF s
    <3>3. CASE m = n
      <4>1. Heard(m, n, side) = side
        BY <3>3 DEF Heard
      <4>2. /\ Recent(t.pending[n], claim[n])
            /\ t.pending[n].owed = "LocalAck" => t.pending[n].age < QueryTimeout
        BY <1>1, <1>3, <2>1, QueryFacts DEF Holds, Recent
      <4>. QED BY <2>1, <2>2, <3>1, <3>2, <3>3, <4>1, <4>2 DEF Holds
    <3>4. CASE m # n
      <4>1. t.nodes[m] = s.nodes[m] /\ t.pending[m] = s.pending[m]
        BY <1>1, <2>1, <3>4
      <4>2. Heard(m, n, side) = last[m] /\ Contest(t, m, n, side) = (contested[m] /\ Doubted(s, m))
        BY <1>1, <3>4, <4>1 DEF Heard, Contest, Doubted
      <4>. QED BY <1>1, <3>1, <3>2, <4>1, <4>2 DEF Holds, SoundAt
    <3>. QED BY <3>3, <3>4
  <2>4. Reserved(t)
    BY <1>1, <1>3, <2>1 DEF Reserved
  <2>. QED BY <1>1, <2>1, <2>3, <2>4 DEF Ready, t, s
<1>. QED BY <1>2, <1>3

\* Sending keeps a step ready when what is sent on a node's behalf is true.
LEMMA SendReady ==
    ASSUME NEW s, NEW n, NEW side, NEW age, Ready(s, n, side, age), NEW fs \in SUBSET Frames,
           \A m \in Nodes :
             /\ Frame("Ether", "Response", m) \in fs => Heard(m, n, side) = "Local" /\ ~Doubted(s, m)
             /\ Frame("Local", "Ack", m) \in fs => Heard(m, n, side) = "Ether" /\ age[m] < QueryTimeout
    PROVE  Ready(Send(s, fs), n, side, age)
<1> DEFINE t == Send(s, fs)
<1>1. s \in States
  BY DEF Ready
<1>2. t \in States /\ t.nodes = s.nodes /\ t.pending = s.pending /\ t.sent = s.sent \cup fs
  BY <1>1, SendFacts
<1>. HIDE DEF t
<1>3. \A m \in Nodes : Doubted(t, m) = Doubted(s, m) /\ Contest(t, m, n, side) = Contest(s, m, n, side)
  BY <1>2 DEF Doubted, Contest
<1>4. \A m \in Nodes : Holds(t, m, Heard(m, n, side), Contest(t, m, n, side), age[m])
  BY <1>2, <1>3 DEF Ready, Holds, SoundAt
<1>. QED BY <1>2, <1>4 DEF Ready, Reserved, t

\* A question that checks no doubt does not disturb what is known.
LEMMA AskReady ==
    ASSUME NEW s, NEW n, NEW side, NEW age, Ready(s, n, side, age),
           NEW k \in Ids \ {"Us"}, NEW links \in SUBSET Sides,
           NEW owed \in {"LocalAck", "EtherResponse", "Nothing"},
           owed = "LocalAck" /\ k \in Nodes => age[k] = 0
    PROVE  Ready(ask(s, k, links, owed, "None"), n, side, age)
<1> DEFINE to == "None"
           t == ask(s, k, links, owed, to)
           q == Query(0, owed, to)
<1>1. s \in States /\ Reserved(s)
  BY DEF Ready
<1>2. /\ t \in States /\ t.nodes = s.nodes
      /\ \A m \in Ids : m # k => t.pending[m] = s.pending[m]
      /\ t.pending[k] = IF k \in {"Zero", "All"} \/ s.pending[k] # NoQuery THEN s.pending[k] ELSE q
      /\ \A f \in t.sent \ s.sent : f.kind \in {"Enq", "Request", "Probe"}
  <2>1. k \in Ids /\ links \in SUBSET Sides /\ Query(0, owed, to) \in Queries
    BY TimesAssumption DEF Query, Queries
  <2>. HIDE DEF to
  <2>2. LET x == ask(s, k, links, owed, to)
        IN  /\ x \in States /\ x.nodes = s.nodes
            /\ \A m \in Ids : m # k => x.pending[m] = s.pending[m]
            /\ x.pending[k] = IF k \in {"Zero", "All"} \/ s.pending[k] # NoQuery
                              THEN s.pending[k] ELSE Query(0, owed, to)
            /\ \A f \in x.sent \ s.sent : f.kind \in {"Enq", "Request", "Probe"}
    BY <1>1, <2>1, AskFacts
  <2>. QED BY <2>2
<1>3. q.age = 0 /\ q.owed = owed /\ q.moved_to = "None"
  BY DEF Query
<1>. HIDE DEF t, q
<1>4. \A m \in Ids : t.pending[m] = s.pending[m] \/ (m = k /\ s.pending[m] = NoQuery /\ t.pending[m] = q)
  BY <1>2
<1>5. Reserved(t)
  BY <1>1, <1>2, <1>4, IdFacts DEF Reserved, Ids
<1>6. ASSUME NEW m \in Nodes
      PROVE  Holds(t, m, Heard(m, n, side), Contest(t, m, n, side), age[m])
  <2> DEFINE l == Heard(m, n, side)
             c == Contest(s, m, n, side)
  <2>1. m \in Ids /\ Holds(s, m, l, c, age[m])
    BY IdFacts DEF Ready
  <2>2. Doubted(t, m) = Doubted(s, m) /\ Contest(t, m, n, side) = c
    BY <1>2 DEF Doubted, Contest
  <2>3. /\ Frame("Ether", "Response", m) \notin t.sent \ s.sent
        /\ Frame("Local", "Ack", m) \notin t.sent \ s.sent
    BY <1>2 DEF Frame
  <2>. HIDE DEF l, c
  <2>4. CASE t.pending[m] = s.pending[m]
    BY <1>2, <2>1, <2>2, <2>3, <2>4 DEF Holds, SoundAt, l
  <2>5. CASE m = k /\ s.pending[m] = NoQuery /\ t.pending[m] = q
    <3>1. Sound(t.nodes[m], q, l, c)
      BY <1>2, <1>3, <2>1, <2>5, QueryFacts DEF Holds, SoundAt, Sound
    <3>2. Recent(q, age[m]) /\ (q.owed = "LocalAck" => q.age < QueryTimeout)
      BY <1>3, <2>5, TimesAssumption DEF Recent
    <3>. QED BY <2>1, <2>2, <2>3, <2>5, <3>1, <3>2 DEF Holds, SoundAt, l
  <2>. QED BY <1>4, <2>1, <2>4, <2>5
<1>7. \A m \in Nodes : age[m] \in 0..QueryTimeout
  BY DEF Ready
<1>. QED BY <1>2, <1>5, <1>6, <1>7 DEF Ready, t

\* What is owed is paid on the word of the node just heard.
LEMMA SettleReady ==
    ASSUME NEW s, NEW n \in Ids, NEW side \in Sides, NEW age, Ready(s, n, side, age)
    PROVE  Ready(settle(s, n, side), n, side, age)
<1> DEFINE q == s.pending[n]
           u == PutQuery(s, n, NoQuery)
           t == settle(s, n, side)
<1>1. s \in States /\ Reserved(s)
  BY DEF Ready
<1>2. CASE t = s
  BY <1>2
<1>3. CASE /\ q.owed = "LocalAck" \/ q.owed = "EtherResponse"
           /\ q.owed = "LocalAck" => side = "Ether" /\ t = Send(u, {Frame("Local", "Ack", n)})
           /\ q.owed = "EtherResponse" => side = "Local" /\
                t = Send(u, IF Evidence(s, n) THEN {Frame("Ether", "Response", n)} ELSE {})
  <2>1. /\ u \in States /\ u.nodes = s.nodes /\ u.sent = s.sent
        /\ u.pending[n] = NoQuery /\ \A m \in Ids : m # n => u.pending[m] = s.pending[m]
    <3>1. NoQuery \in Queries \cup {NoQuery}
      OBVIOUS
    <3>. QED BY <1>1, <3>1, PutQueryFacts
  <2>. HIDE DEF t, u
  <2>2. ASSUME NEW m \in Nodes
        PROVE  Holds(u, m, Heard(m, n, side), Contest(u, m, n, side), age[m])
    <3> DEFINE l == Heard(m, n, side)
               c == Contest(s, m, n, side)
    <3>1. m \in Ids /\ Holds(s, m, l, c, age[m])
      BY IdFacts DEF Ready
    <3>2. Doubted(u, m) = Doubted(s, m) /\ Contest(u, m, n, side) = c
      BY <2>1 DEF Doubted, Contest
    <3>. HIDE DEF l, c
    <3>3. CASE m = n
      <4>1. Sound(s.nodes[m], NoQuery, l, c)
        BY <1>3, <3>1, <3>3, QueryFacts DEF Holds, SoundAt, Sound
      <4>2. Recent(NoQuery, age[m]) /\ NoQuery.owed # "LocalAck"
        BY QueryFacts DEF Recent
      <4>. QED BY <2>1, <3>1, <3>2, <3>3, <4>1, <4>2 DEF Holds, SoundAt, l
    <3>4. CASE m # n
      BY <2>1, <3>1, <3>2, <3>4 DEF Holds, SoundAt, l
    <3>. QED BY <3>3, <3>4
  <2>3. Reserved(u)
    BY <1>1, <2>1 DEF Reserved
  <2>4. Ready(u, n, side, age)
    BY <2>1, <2>2, <2>3 DEF Ready
  <2>5. CASE q.owed = "LocalAck"
    <3> DEFINE fs == {Frame("Local", "Ack", n)}
    <3>1. fs \in SUBSET Frames
      BY DEF Frame, Frames, Sides
    <3>2. \A m \in Nodes :
            /\ Frame("Ether", "Response", m) \notin fs
            /\ Frame("Local", "Ack", m) \in fs => m = n
      BY DEF Frame
    <3>3. n \in Nodes => age[n] < QueryTimeout
      <4>1. ASSUME n \in Nodes PROVE age[n] < QueryTimeout
        <5>1. Recent(q, age[n]) /\ q.age < QueryTimeout /\ age[n] \in 0..QueryTimeout
          BY <2>5, <4>1 DEF Ready, Holds
        <5>2. q.age \in 0..QueryTimeout
          BY <1>1, <2>5, QueryFacts DEF States, Queries
        <5>. QED BY <5>1, <5>2, <2>5, TimesAssumption DEF Recent
      <4>. QED BY <4>1
    <3>4. t = Send(u, fs) /\ side = "Ether"
      BY <1>3, <2>5
    <3>. HIDE DEF fs, q
    <3>5. \A m \in Nodes :
            /\ Frame("Ether", "Response", m) \in fs => Heard(m, n, side) = "Local" /\ ~Doubted(u, m)
            /\ Frame("Local", "Ack", m) \in fs => Heard(m, n, side) = "Ether" /\ age[m] < QueryTimeout
      BY <3>2, <3>3, <3>4 DEF Heard
    <3>6. Ready(Send(u, fs), n, side, age)
      BY <2>4, <3>1, <3>5, SendReady
    <3>. QED BY <3>4, <3>6 DEF t
  <2>6. CASE q.owed = "EtherResponse"
    <3> DEFINE fs == IF Evidence(s, n) THEN {Frame("Ether", "Response", n)} ELSE {}
    <3>1. fs \in SUBSET Frames
      <4>1. Frame("Ether", "Response", n) \in Frames
        BY DEF Frame, Frames, Sides
      <4>. QED BY <4>1
    <3>2. \A m \in Nodes :
            /\ Frame("Local", "Ack", m) \notin fs
            /\ Frame("Ether", "Response", m) \in fs => m = n /\ Evidence(s, n)
      BY DEF Frame
    <3>3. Evidence(s, n) => ~Doubted(u, n)
      BY <2>1, EntryFacts DEF Evidence, Live, Doubted
    <3>4. t = Send(u, fs) /\ side = "Local"
      BY <1>3, <2>6
    <3>. HIDE DEF fs, q
    <3>5. \A m \in Nodes :
            /\ Frame("Ether", "Response", m) \in fs => Heard(m, n, side) = "Local" /\ ~Doubted(u, m)
            /\ Frame("Local", "Ack", m) \in fs => Heard(m, n, side) = "Ether" /\ age[m] < QueryTimeout
      BY <3>2, <3>3, <3>4 DEF Heard
    <3>6. Ready(Send(u, fs), n, side, age)
      BY <2>4, <3>1, <3>5, SendReady
    <3>. QED BY <3>4, <3>6 DEF t
  <2>. QED BY <1>3, <2>5, <2>6 DEF t
<1>. QED BY <1>2, <1>3 DEF settle
-----------------------------------------------------------------------------
(* The steps.                                                               *)

LEMMA BecomesKeeps ==
    ASSUME BridgeInv, NEW s, NEW n, NEW side, n \in Nodes => side \in Sides,
           Ready(s, n, side, claim'), claim' \in [Nodes -> 0..QueryTimeout], Becomes(s, n, side)
    PROVE  BridgeInv'
<1>1. /\ s \in States /\ Reserved(s)
      /\ \A m \in Nodes : Holds(s, m, Heard(m, n, side), Contest(s, m, n, side), claim'[m])
  BY DEF Ready
<1>2. /\ nodes' = s.nodes /\ pending' = s.pending /\ sent' = s.sent
      /\ last' = [m \in Nodes |-> Heard(m, n, side)]
      /\ contested' = [m \in Nodes |-> Contest(s, m, n, side)]
  BY DEF Becomes, Heard, Contest, Doubted
<1>3. TypeOK'
  <2>1. last' \in [Nodes -> Sides \cup {"None"}]
    BY <1>2 DEF BridgeInv, TypeOK, Heard
  <2>2. contested' \in [Nodes -> BOOLEAN]
    <3>1. \A m \in Nodes : Contest(s, m, n, side) \in BOOLEAN
      BY DEF Contest
    <3>. QED BY <1>2, <3>1
  <2>3. /\ nodes' \in [Ids -> Entries \cup {NoEntry}] /\ pending' \in [Ids -> Queries \cup {NoQuery}]
        /\ sent' \subseteq Frames
    BY <1>1, <1>2 DEF States
  <2>4. \A m \in Ids \ Nodes : nodes'[m] = NoEntry /\ pending'[m] = NoQuery
    BY <1>1, <1>2 DEF Reserved
  <2>. QED BY <2>1, <2>2, <2>3, <2>4 DEF TypeOK
<1>4. \A m \in Nodes : /\ last'[m] = Heard(m, n, side) /\ contested'[m] = Contest(s, m, n, side)
                       /\ nodes'[m].doubted = Doubted(s, m)
  BY <1>2 DEF Doubted
<1>5. ProxyHasEvidence' /\ AcksAreEarned'
  BY <1>1, <1>2, <1>4 DEF ProxyHasEvidence, AcksAreEarned, Holds
<1>6. ASSUME NEW m \in Nodes
      PROVE  (SoundAt(Now, m, last[m], contested[m]) /\ Recent(pending[m], claim[m]))'
  BY <1>1, <1>2, <1>4 DEF Holds, SoundAt, Now
<1>. QED BY <1>3, <1>5, <1>6 DEF BridgeInv

\* A frame from n on side is confirmed, then settled or passed on.
LEMMA ExpireStep ==
    ASSUME BridgeInv, UNCHANGED claim
    PROVE  /\ Ready(expire, "Beyond", "None", claim') /\ claim' \in [Nodes -> 0..QueryTimeout]
           /\ \A n \in Ids \cup {"Beyond"}, side \in Sides :
                Ready(confirm(expire, n, side), n, side, claim')
<1>1. claim' = claim /\ claim \in [Nodes -> 0..QueryTimeout]
  BY DEF BridgeInv, TypeOK
<1>. QED BY <1>1, ExpireReady, ConfirmReady

LEMMA AnswerKeeps ==
    ASSUME BridgeInv, UNCHANGED claim, NEW n \in Ids, NEW side \in Sides,
           Becomes(settle(confirm(expire, n, side), n, side), n, side)
    PROVE  BridgeInv'
<1> DEFINE s == confirm(expire, n, side)
           t == settle(s, n, side)
<1>1. Ready(s, n, side, claim') /\ claim' \in [Nodes -> 0..QueryTimeout]
  BY ExpireStep
<1>. HIDE DEF s
<1>2. Ready(t, n, side, claim')
  BY <1>1, SettleReady
<1>3. Becomes(t, n, side)
  BY DEF s
<1>. HIDE DEF t
<1>. QED BY <1>1, <1>2, <1>3, BecomesKeeps

LEMMA EtherAsksKeeps ==
    ASSUME BridgeInv, EtherAsks
    PROVE  BridgeInv'
<1>1. claim' = claim
  BY DEF EtherAsks
<1>2. Ready(expire, "Beyond", "None", claim') /\ claim' \in [Nodes -> 0..QueryTimeout]
  BY <1>1, ExpireStep
<1>3. PICK n \in Ids :
        \/ /\ n = "Us" \/ Live(expire, n) = "Local"
           /\ Ends(Send(expire, {Frame("Ether", "Response", n)}))
        \/ Ends(expire)
        \/ n # "Us" /\ Ends(ask(expire, n, {"Local"}, "EtherResponse", "None"))
  BY DEF EtherAsks
<1> DEFINE s == expire
           fs == {Frame("Ether", "Response", n)}
           t == Send(s, fs)
           links == {"Local"}
           owed == "EtherResponse"
           u == ask(s, n, links, owed, "None")
<1>4. n = "Us" \/ Live(s, n) = "Local" => Ready(t, "Beyond", "None", claim')
  <2>1. SUFFICES ASSUME n = "Us" \/ Live(s, n) = "Local"
                 PROVE  Ready(t, "Beyond", "None", claim')
    OBVIOUS
  <2>2. fs \in SUBSET Frames
    <3>1. Frame("Ether", "Response", n) \in Frames
      BY DEF Frame, Frames, Sides
    <3>. QED BY <3>1
  <2>3. \A m \in Nodes : Frame("Local", "Ack", m) \notin fs
                         /\ (Frame("Ether", "Response", m) \in fs => m = n)
    BY DEF Frame
  <2>. HIDE DEF s, fs
  <2>4. n \in Nodes => Heard(n, "Beyond", "None") = "Local" /\ ~Doubted(s, n)
    <3>1. ASSUME n \in Nodes PROVE Heard(n, "Beyond", "None") = "Local" /\ ~Doubted(s, n)
      <4>1. s.nodes[n].side = "Local" /\ ~Doubted(s, n)
        BY <2>1, <3>1, IdFacts DEF Live
      <4>2. Sound(s.nodes[n], s.pending[n], Heard(n, "Beyond", "None"), Contest(s, n, "Beyond", "None"))
        BY <1>2, <3>1 DEF Ready, Holds, SoundAt, s
      <4>. QED BY <4>1, <4>2, EntryFacts DEF Sound, Doubted
    <3>. QED BY <3>1
  <2>5. \A m \in Nodes :
          /\ Frame("Ether", "Response", m) \in fs =>
               Heard(m, "Beyond", "None") = "Local" /\ ~Doubted(s, m)
          /\ Frame("Local", "Ack", m) \in fs =>
               Heard(m, "Beyond", "None") = "Ether" /\ claim'[m] < QueryTimeout
    BY <2>3, <2>4
  <2>6. Ready(s, "Beyond", "None", claim')
    BY <1>2 DEF s
  <2>. QED BY <2>2, <2>5, <2>6, SendReady
<1>5. n # "Us" => Ready(u, "Beyond", "None", claim')
  <2>1. SUFFICES ASSUME n # "Us" PROVE Ready(u, "Beyond", "None", claim')
    OBVIOUS
  <2>2. n \in Ids \ {"Us"} /\ links \in SUBSET Sides /\ owed # "LocalAck"
        /\ owed \in {"LocalAck", "EtherResponse", "Nothing"}
    BY <2>1 DEF Sides
  <2>. HIDE DEF s, links, owed
  <2>3. Ready(s, "Beyond", "None", claim')
    BY <1>2 DEF s
  <2>. QED BY <2>2, <2>3, AskReady
<1>6. \E z \in {t, s, u} : Ready(z, "Beyond", "None", claim') /\ Becomes(z, "Beyond", "None")
  BY <1>2, <1>3, <1>4, <1>5 DEF Ends
<1>. QED BY <1>2, <1>6, BecomesKeeps, IdFacts

LEMMA PassReady ==
    ASSUME NEW s, NEW n, NEW side, NEW age, Ready(s, n, side, age),
           NEW to \in Sides, NEW dst \in Dsts
    PROVE  Ready(Send(s, {Frame(to, "Ddp", dst)}), n, side, age)
<1> DEFINE fs == {Frame(to, "Ddp", dst)}
<1>1. fs \in SUBSET Frames
  BY DEF Frame, Frames
<1>2. \A m \in Nodes : Frame("Local", "Ack", m) \notin fs /\ Frame("Ether", "Response", m) \notin fs
  BY DEF Frame
<1>. HIDE DEF fs
<1>3. Ready(Send(s, fs), n, side, age)
  BY <1>1, <1>2, SendReady
<1>. QED BY <1>3 DEF fs

LEMMA EtherDdpKeeps ==
    ASSUME BridgeInv, EtherDdp
    PROVE  BridgeInv'
<1>1. claim' = claim
  BY DEF EtherDdp
<1>2. PICK n \in Nodes \cup {"Beyond"}, dst \in Dsts :
        LET s == confirm(expire, n, "Ether")
        IN  \E c \in {s, Send(s, {Frame("Local", "Ddp", dst)})} :
              \/ Becomes(c, n, "Ether")
              \/ dst \in Nodes /\ Becomes(ask(c, dst, Sides, "Nothing", "None"), n, "Ether")
  BY DEF EtherDdp
<1> DEFINE s == confirm(expire, n, "Ether")
           t == Send(s, {Frame("Local", "Ddp", dst)})
           ether == "Ether"
<1>3. n \in Ids \cup {"Beyond"} /\ ether \in Sides /\ "Local" \in Sides
  BY IdFacts DEF Sides
<1>4. Ready(s, n, ether, claim') /\ claim' \in [Nodes -> 0..QueryTimeout]
  BY <1>1, <1>3, ExpireStep
<1>5. PICK c \in {s, t} :
        \/ Becomes(c, n, ether)
        \/ dst \in Nodes /\ Becomes(ask(c, dst, Sides, "Nothing", "None"), n, ether)
  BY <1>2
<1>. HIDE DEF s, ether
<1>6. Ready(t, n, ether, claim')
  BY <1>3, <1>4, PassReady
<1>. HIDE DEF t
<1>7. Ready(c, n, ether, claim')
  BY <1>4, <1>6
<1>8. CASE Becomes(c, n, ether)
  BY <1>3, <1>4, <1>7, <1>8, BecomesKeeps
<1>9. CASE dst \in Nodes /\ Becomes(ask(c, dst, Sides, "Nothing", "None"), n, ether)
  <2> DEFINE owed == "Nothing"
             links == Sides
             u == ask(c, dst, links, owed, "None")
  <2>1. dst \in Ids \ {"Us"} /\ links \in SUBSET Sides /\ owed # "LocalAck"
        /\ owed \in {"LocalAck", "EtherResponse", "Nothing"}
    BY <1>9, IdFacts
  <2>2. Becomes(u, n, ether)
    BY <1>9
  <2>. HIDE DEF owed, links
  <2>3. Ready(u, n, ether, claim')
    BY <1>7, <2>1, AskReady
  <2>. HIDE DEF u
  <2>. QED BY <1>3, <1>4, <2>2, <2>3, BecomesKeeps
<1>. QED BY <1>5, <1>8, <1>9

LEMMA LocalDdpKeeps ==
    ASSUME BridgeInv, LocalDdp
    PROVE  BridgeInv'
<1>1. claim' = claim
  BY DEF LocalDdp
<1>2. PICK n \in Nodes \cup {"Beyond"}, dst \in Dsts :
        LET s == confirm(expire, n, "Local")
        IN  \E c \in {s, Send(s, {Frame("Ether", "Ddp", dst)})} : Becomes(c, n, "Local")
  BY DEF LocalDdp
<1> DEFINE s == confirm(expire, n, "Local")
           t == Send(s, {Frame("Ether", "Ddp", dst)})
           local == "Local"
<1>3. n \in Ids \cup {"Beyond"} /\ local \in Sides /\ "Ether" \in Sides
  BY IdFacts DEF Sides
<1>4. Ready(s, n, local, claim') /\ claim' \in [Nodes -> 0..QueryTimeout]
  BY <1>1, <1>3, ExpireStep
<1>5. PICK c \in {s, t} : Becomes(c, n, local)
  BY <1>2
<1>. HIDE DEF s, local
<1>6. Ready(t, n, local, claim')
  BY <1>3, <1>4, PassReady
<1>. HIDE DEF t
<1>. QED BY <1>3, <1>4, <1>5, <1>6, BecomesKeeps

LEMMA LocalEnqKeeps ==
    ASSUME BridgeInv, LocalEnq
    PROVE  BridgeInv'
<1>1. PICK n \in Ids :
        /\ Ends(IF n = "Us" THEN Send(expire, {Frame("Local", "Ack", n)})
                ELSE ask(expire, n, {"Ether"}, "LocalAck", "None"))
        /\ claim' = [m \in Nodes |-> IF m = n THEN 0 ELSE claim[m]]
  BY DEF LocalEnq
<1> DEFINE s == expire
<1>2. claim' \in [Nodes -> 0..QueryTimeout] /\ \A m \in Nodes : claim'[m] = 0 \/ claim'[m] = claim[m]
  BY <1>1, TimesAssumption DEF BridgeInv, TypeOK
<1>3. Ready(s, "Beyond", "None", claim) /\ s.sent = {}
  BY ExpireReady, ExpireFacts
<1>. HIDE DEF s
<1>4. Ready(s, "Beyond", "None", claim')
  <2>1. s \in States /\ Reserved(s)
    BY <1>3 DEF Ready
  <2>2. ASSUME NEW m \in Nodes, s.pending[m].owed = "LocalAck"
        PROVE  s.pending[m].age \in Nat
    BY <2>1, <2>2, QueryFacts, IdFacts DEF States, Queries
  <2>3. ASSUME NEW m \in Nodes
        PROVE  Holds(s, m, Heard(m, "Beyond", "None"), Contest(s, m, "Beyond", "None"), claim'[m])
    BY <1>2, <1>3, <2>2 DEF Ready, Holds, Recent
  <2>. QED BY <1>2, <2>1, <2>3 DEF Ready
<1>5. CASE n = "Us"
  <2> DEFINE fs == {Frame("Local", "Ack", n)}
             t == Send(s, fs)
  <2>1. fs \in SUBSET Frames
    BY DEF Frame, Frames, Sides
  <2>2. \A m \in Nodes : Frame("Local", "Ack", m) \notin fs /\ Frame("Ether", "Response", m) \notin fs
    BY <1>5, IdFacts DEF Frame
  <2>3. Becomes(t, "Beyond", "None")
    BY <1>1, <1>5 DEF Ends, s
  <2>. HIDE DEF fs
  <2>4. Ready(t, "Beyond", "None", claim')
    BY <1>4, <2>1, <2>2, SendReady
  <2>. HIDE DEF t
  <2>. QED BY <1>2, <2>3, <2>4, BecomesKeeps, IdFacts
<1>6. CASE n # "Us"
  <2> DEFINE owed == "LocalAck"
             links == {"Ether"}
             t == ask(s, n, links, owed, "None")
  <2>1. n \in Ids \ {"Us"} /\ links \in SUBSET Sides /\ (n \in Nodes => claim'[n] = 0)
        /\ owed \in {"LocalAck", "EtherResponse", "Nothing"}
    BY <1>1, <1>6 DEF Sides
  <2>2. Becomes(t, "Beyond", "None")
    BY <1>1, <1>6 DEF Ends, s
  <2>. HIDE DEF owed, links
  <2>3. Ready(t, "Beyond", "None", claim')
    BY <1>4, <2>1, AskReady
  <2>. HIDE DEF t
  <2>. QED BY <1>2, <2>2, <2>3, BecomesKeeps, IdFacts
<1>. QED BY <1>5, <1>6

\* Time keeps a check no younger than the doubt, nor an enquiry older than its query.
LEMMA ElapseKeeps ==
    ASSUME BridgeInv, Elapse
    PROVE  BridgeInv'
<1>1. /\ nodes \in [Ids -> Entries \cup {NoEntry}] /\ pending \in [Ids -> Queries \cup {NoQuery}]
      /\ claim \in [Nodes -> 0..QueryTimeout]
      /\ \A n \in Ids \ Nodes : nodes[n] = NoEntry /\ pending[n] = NoQuery
      /\ sent' = {} /\ last' = last /\ contested' = contested
  BY DEF BridgeInv, TypeOK, Elapse
<1>2. ASSUME NEW limit \in Nat, NEW age \in 0..limit
      PROVE  /\ Older(age, limit) \in 0..limit
             /\ Older(age, limit) = age + 1 \/ (age = limit /\ Older(age, limit) = limit)
  BY DEF Older
<1>3. ASSUME NEW n \in Ids
      PROVE  \/ nodes[n] = NoEntry /\ nodes'[n] = NoEntry
             \/ /\ nodes[n] \in Entries /\ nodes'[n] \in Entries /\ nodes[n].age \in 0..Ttl
                /\ nodes'[n].side = nodes[n].side /\ nodes'[n].doubted = nodes[n].doubted
                /\ nodes'[n].age = Older(nodes[n].age, Ttl)
  <2>1. nodes'[n] = IF nodes[n] = NoEntry THEN NoEntry
                    ELSE [nodes[n] EXCEPT !.age = Older(@, Ttl)]
    BY DEF Elapse
  <2>2. CASE nodes[n] = NoEntry
    BY <2>1, <2>2
  <2>3. CASE nodes[n] # NoEntry
    <3>1. nodes[n] \in Entries /\ nodes[n].age \in 0..Ttl
      BY <1>1, <2>3 DEF Entries
    <3>2. Older(nodes[n].age, Ttl) \in 0..Ttl
      BY <1>2, <3>1, TimesAssumption
    <3>. QED BY <2>1, <2>3, <3>1, <3>2 DEF Entries
  <2>. QED BY <2>2, <2>3
<1>4. ASSUME NEW n \in Ids
      PROVE  \/ pending[n] = NoQuery /\ pending'[n] = NoQuery
             \/ /\ pending[n] \in Queries /\ pending'[n] \in Queries
                /\ pending[n].age \in 0..QueryTimeout
                /\ pending'[n].owed = pending[n].owed /\ pending'[n].moved_to = pending[n].moved_to
                /\ pending'[n].age = Older(pending[n].age, QueryTimeout)
  <2>1. pending'[n] = IF pending[n] = NoQuery THEN NoQuery
                      ELSE [pending[n] EXCEPT !.age = Older(@, QueryTimeout)]
    BY DEF Elapse
  <2>2. CASE pending[n] = NoQuery
    BY <2>1, <2>2
  <2>3. CASE pending[n] # NoQuery
    <3>1. pending[n] \in Queries /\ pending[n].age \in 0..QueryTimeout
      BY <1>1, <2>3 DEF Queries
    <3>2. Older(pending[n].age, QueryTimeout) \in 0..QueryTimeout
      BY <1>2, <3>1, TimesAssumption
    <3>. QED BY <2>1, <2>3, <3>1, <3>2 DEF Queries
  <2>. QED BY <2>2, <2>3
<1>5. \A n \in Nodes : /\ claim'[n] \in 0..QueryTimeout
                       /\ claim'[n] <= claim[n] + 1
  BY <1>1, <1>2, TimesAssumption DEF Elapse
<1>6. TypeOK'
  <2>1. nodes' \in [Ids -> Entries \cup {NoEntry}] /\ pending' \in [Ids -> Queries \cup {NoQuery}]
    <3>1. nodes' = [n \in Ids |-> nodes'[n]] /\ pending' = [n \in Ids |-> pending'[n]]
      BY DEF Elapse
    <3>. QED BY <1>3, <1>4, <3>1
  <2>2. claim' \in [Nodes -> 0..QueryTimeout]
    <3>1. claim' = [n \in Nodes |-> claim'[n]]
      BY DEF Elapse
    <3>. QED BY <1>5, <3>1
  <2>3. \A n \in Ids \ Nodes : nodes'[n] = NoEntry /\ pending'[n] = NoQuery
    BY <1>1, <1>3, <1>4, EntryFacts, QueryFacts
  <2>. QED BY <1>1, <2>1, <2>2, <2>3 DEF BridgeInv, TypeOK
<1>7. ASSUME NEW n \in Nodes
      PROVE  /\ Sound(nodes'[n], pending'[n], last[n], contested[n])
             /\ Recent(pending'[n], claim'[n])
  <2> DEFINE e == nodes[n]
             q == pending[n]
             d == nodes'[n]
             p == pending'[n]
             l == last[n]
             c == contested[n]
  <2>0. n \in Ids
    BY IdFacts
  <2>1. Sound(e, q, l, c) /\ Recent(q, claim[n]) /\ claim[n] \in 0..QueryTimeout
    BY <1>1 DEF BridgeInv, SoundAt, Now
  <2>2. /\ d.side = e.side /\ d.doubted = e.doubted /\ (d = NoEntry <=> e = NoEntry)
        /\ e # NoEntry => e.age \in 0..Ttl /\ d.age \in Nat /\ d.age <= e.age + 1
    <3>1. CASE e = NoEntry
      BY <1>3, <2>0, <3>1, EntryFacts
    <3>2. CASE e # NoEntry
      <4>1. /\ e.age \in 0..Ttl /\ d.age = Older(e.age, Ttl) /\ d \in Entries
            /\ d.side = e.side /\ d.doubted = e.doubted
        BY <1>3, <2>0, <3>2
      <4>2. d # NoEntry
        BY <4>1, EntryFacts
      <4>. HIDE DEF e, d
      <4>. QED BY <1>2, <3>2, <4>1, <4>2, TimesAssumption
    <3>. QED BY <3>1, <3>2
  <2>3. /\ p.owed = q.owed /\ p.moved_to = q.moved_to
        /\ q = NoQuery => p = NoQuery
        /\ q # NoQuery => /\ q.age \in 0..QueryTimeout /\ p.age \in Nat
                          /\ p.age = q.age + 1 \/ (q.age = QueryTimeout /\ p.age = QueryTimeout)
    <3>1. CASE q = NoQuery
      BY <1>4, <2>0, <3>1, QueryFacts
    <3>2. CASE q # NoQuery
      <4>1. /\ q.age \in 0..QueryTimeout /\ p.age = Older(q.age, QueryTimeout)
            /\ p.owed = q.owed /\ p.moved_to = q.moved_to
        BY <1>4, <2>0, <3>2
      <4>. HIDE DEF q, p
      <4>. QED BY <1>2, <3>2, <4>1, TimesAssumption
    <3>. QED BY <3>1, <3>2
  <2>4. claim'[n] \in Nat /\ claim'[n] <= claim[n] + 1 /\ claim'[n] <= QueryTimeout
    BY <1>5, TimesAssumption
  <2>. HIDE DEF e, q, d, p, l, c
  <2>5. Recent(p, claim'[n])
    <3>1. SUFFICES ASSUME p.owed = "LocalAck" PROVE claim'[n] <= p.age
      BY DEF Recent
    <3>2. q # NoQuery /\ claim[n] <= q.age
      BY <2>1, <2>3, <3>1, QueryFacts DEF Recent
    <3>. QED BY <2>1, <2>3, <2>4, <3>2, TimesAssumption
  <2>6. p.moved_to # "None" => d.age <= p.age \/ p.age >= QueryTimeout
    <3>1. SUFFICES ASSUME p.moved_to # "None" PROVE d.age <= p.age \/ p.age >= QueryTimeout
      OBVIOUS
    <3>2. q # NoQuery /\ e # NoEntry /\ (e.age <= q.age \/ q.age >= QueryTimeout)
      BY <2>1, <2>3, <3>1, EntryFacts, QueryFacts DEF Sound
    <3>. QED BY <2>2, <2>3, <3>2, TimesAssumption
  <2>7. Sound(d, p, l, c)
    BY <2>1, <2>2, <2>3, <2>6 DEF Sound
  <2>. QED BY <2>5, <2>7 DEF d, p, l, c
<1>8. \A n \in Nodes : (SoundAt(Now, n, last[n], contested[n]) /\ Recent(pending[n], claim[n]))'
  BY <1>1, <1>7 DEF SoundAt, Now
<1>9. ProxyHasEvidence' /\ AcksAreEarned'
  BY <1>1 DEF ProxyHasEvidence, AcksAreEarned
<1>. QED BY <1>6, <1>8, <1>9 DEF BridgeInv

LEMMA InitSound == Init => BridgeInv
<1>1. SUFFICES ASSUME Init PROVE BridgeInv
  OBVIOUS
<1>2. PICK known \in SUBSET Nodes :
        /\ nodes = [n \in Ids |-> IF n \in known THEN Entry("Ether", 0, FALSE) ELSE NoEntry]
        /\ last = [n \in Nodes |-> IF n \in known THEN "Ether" ELSE "None"]
  BY <1>1 DEF Init
<1>3. /\ pending = [n \in Ids |-> NoQuery] /\ sent = {}
      /\ contested = [n \in Nodes |-> FALSE] /\ claim = [n \in Nodes |-> QueryTimeout]
  BY <1>1 DEF Init
<1>4. "Ether" \in Sides
  BY DEF Sides
<1>5. TypeOK
  <2>1. nodes \in [Ids -> Entries \cup {NoEntry}]
    BY <1>2, <1>4, EntryFacts
  <2>2. last \in [Nodes -> Sides \cup {"None"}]
    BY <1>2, <1>4
  <2>3. claim \in [Nodes -> 0..QueryTimeout]
    BY <1>3, TimesAssumption
  <2>. QED BY <1>2, <1>3, <2>1, <2>2, <2>3 DEF TypeOK
<1>6. ASSUME NEW n \in Nodes
      PROVE  SoundAt(Now, n, last[n], contested[n]) /\ Recent(pending[n], claim[n])
  <2>1. n \in Ids /\ pending[n] = NoQuery /\ contested[n] = FALSE
    BY <1>3, IdFacts
  <2>2. nodes[n] = NoEntry \/ (nodes[n] = Entry("Ether", 0, FALSE) /\ last[n] = "Ether")
    BY <1>2, <2>1
  <2>3. ~nodes[n].doubted /\ (nodes[n] # NoEntry => last[n] = nodes[n].side)
    BY <1>4, <2>2, EntryFacts
  <2>. QED BY <2>1, <2>3, QueryFacts DEF SoundAt, Now, Sound, Recent
<1>. QED BY <1>3, <1>5, <1>6 DEF BridgeInv, ProxyHasEvidence, AcksAreEarned

LEMMA StepSound == BridgeInv /\ [Next]_vars => BridgeInv'
<1>1. SUFFICES ASSUME BridgeInv, [Next]_vars PROVE BridgeInv'
  OBVIOUS
<1>2. CASE EtherResponse
  <2>1. PICK n \in Ids : EtherAnswers(n)
    BY <1>2 DEF EtherResponse
  <2>. QED BY <1>1, <2>1, AnswerKeeps DEF EtherAnswers, Sides
<1>3. CASE EtherAsks
  BY <1>1, <1>3, EtherAsksKeeps
<1>4. CASE EtherDdp
  BY <1>1, <1>4, EtherDdpKeeps
<1>5. CASE LocalEnq
  BY <1>1, <1>5, LocalEnqKeeps
<1>6. CASE LocalAck
  BY <1>1, <1>6, AnswerKeeps DEF LocalAck, Sides
<1>7. CASE LocalDdp
  BY <1>1, <1>7, LocalDdpKeeps
<1>8. CASE Tick
  BY <1>1, <1>8, ExpireStep, BecomesKeeps, IdFacts DEF Tick, Ends
<1>9. CASE Elapse
  BY <1>1, <1>9, ElapseKeeps
<1>10. CASE UNCHANGED vars
  BY <1>1, <1>10 DEF vars, BridgeInv, TypeOK, ProxyHasEvidence, AcksAreEarned, SoundAt, Now
<1>. QED BY <1>1, <1>2, <1>3, <1>4, <1>5, <1>6, <1>7, <1>8, <1>9, <1>10 DEF Next

THEOREM InvKept == Spec => []BridgeInv
BY InitSound, StepSound, PTL DEF Spec
-----------------------------------------------------------------------------
\* The bridge never enters itself or a reserved ID in its tables, or asks
\* after them (confirm's range check, ask's).
THEOREM TypesKept == Spec => []TypeOK
<1>1. BridgeInv => TypeOK
  BY DEF BridgeInv
<1>. QED BY <1>1, InvKept, PTL

\* Whatever order answers, traffic and timeouts come in, a node that is in no
\* doubt is believed to be on the side it was last heard on.
THEOREM LastWordKept == Spec => []LastWordCounts
<1>1. BridgeInv => LastWordCounts
  BY DEF BridgeInv, SoundAt, Now, Sound, LastWordCounts
<1>. QED BY <1>1, InvKept, PTL

\* No doubt is ever left without a question, and no question is left checking
\* what is not doubted.
THEOREM DoubtAsked == Spec => []DoubtIsAsked
<1>1. BridgeInv => DoubtIsAsked
  BY DEF BridgeInv, SoundAt, Now, Sound, DoubtIsAsked
<1>. QED BY <1>1, InvKept, PTL

\* A proxy answer is never sent for a node known or suspected on Ethernet.
THEOREM ProxyEvidenced == Spec => []ProxyHasEvidence
<1>1. BridgeInv => ProxyHasEvidence
  BY DEF BridgeInv
<1>. QED BY <1>1, InvKept, PTL

\* An ID is denied only on Ethernet's word and while somebody wants it.
THEOREM AcksEarned == Spec => []AcksAreEarned
<1>1. BridgeInv => AcksAreEarned
  BY DEF BridgeInv
<1>. QED BY <1>1, InvKept, PTL
=============================================================================
