--------------------------- MODULE Internet_proofs ---------------------------
(***************************************************************************)
(* What TLAPS proves of an internet of these routers.                      *)
(*                                                                         *)
(* Of Internet, for any cables and routers whose network numbers do not    *)
(* clash: a zone list a router takes as complete is whole, or as long as   *)
(* the byte that counts it can say (ListsAreWhole), and the table of every *)
(* router changes only as RoutingTable's operations change it              *)
(* (TablesAreTables).                                                      *)
(*                                                                         *)
(* Of Forwarding, for any routes the tables may hold at any time and       *)
(* whoever hears a frame: every copy of a datagram is one the formats can  *)
(* carry (FramesWellFormed), none goes round for ever (LoopsEnd) and none  *)
(* comes back to where it was delivered (NoDuplicates).                    *)
(***************************************************************************)
EXTENDS Internet, Forwarding, TLAPS, FiniteSetTheorems

\* A reply in one packet holds the list; of several, each announces its size
\* as far as a byte can say it, whoever sends it.
Page(names, total) ==
    /\ names \subseteq Zones
    /\ IF Cardinality(Pages) = 1 THEN total = None /\ names = Zones ELSE total = Announced(Cardinality(Zones))
\* So a list that has names is whole, or knows the size it is to have.
Part(names, expected) ==
    /\ names \subseteq Zones
    /\ IF Cardinality(Pages) = 1 THEN expected = None /\ (names = {} \/ names = Zones)
       ELSE names = {} \/ expected = Announced(Cardinality(Zones))
\* A list taken as complete: of one packet all of it, of several all or MaxTotal.
Enough(names) ==
    \/ names = Zones
    \/ Cardinality(Pages) > 1 /\ Cardinality(names) >= MaxTotal
\* The inductive invariant of the lists: no list and no reply is anything else.
ListsInv ==
    /\ zones = [r \in Others |-> zones[r]]
    /\ \A r \in Others : zones[r] # None => Part(zones[r].names, zones[r].expected)
    /\ \A m \in mail : m.to \in Others /\ Page(m.reply.names, m.reply.total)

\* A list of one page has no other.
LEMMA PagesFacts ==
    /\ Cardinality(Zones) \in Nat
    /\ Cardinality(Pages) = 1 => Pages = {Zones}
    /\ Zones # {} => Cardinality(Pages) \in Nat /\ Cardinality(Pages) # 0
<1>1. Cardinality(Zones) \in Nat
  BY FS_CardinalityType, InternetAssumption
<1>2. IsFiniteSet(Pages)
  <2>1. IsFiniteSet(SUBSET Zones) /\ Pages \in SUBSET SUBSET Zones
    BY FS_SUBSET, InternetAssumption
  <2>. QED BY <2>1, FS_Subset
<1>3. ASSUME Cardinality(Pages) = 1 PROVE Pages = {Zones}
  <2>1. PICK p : Pages = {p}
    BY <1>2, <1>3, FS_Singleton
  <2>. QED BY <2>1, InternetAssumption
<1>4. ASSUME Zones # {} PROVE Cardinality(Pages) \in Nat /\ Cardinality(Pages) # 0
  <2>1. Pages # {}
    BY <1>4, InternetAssumption
  <2>. QED BY <1>2, <2>1, FS_CardinalityType, FS_EmptySet
<1>. QED BY <1>1, <1>3, <1>4

\* The size a list of some of the zones announces.
LEMMA Sizes ==
    ASSUME NEW names, names \subseteq Zones
    PROVE  /\ Cardinality(names) \in Nat /\ Cardinality(names) <= Cardinality(Zones)
           /\ Cardinality(names) = Cardinality(Zones) => names = Zones
           /\ Cardinality(Zones) \in Nat /\ MaxTotal \in Nat \ {0}
<1>1. IsFiniteSet(Zones) /\ MaxTotal \in Nat \ {0}
  BY InternetAssumption
<1>2. IsFiniteSet(names) /\ Cardinality(names) <= Cardinality(Zones)
      /\ (Cardinality(names) = Cardinality(Zones) => names = Zones)
  BY <1>1, FS_Subset
<1>. QED BY <1>1, <1>2, FS_CardinalityType

\* The rule of complete: a list is taken as whole only when it is, or when it
\* has as many names as the count can say.
LEMMA WholeLists ==
    ASSUME NEW z, z # None, Part(z.names, z.expected), complete(z)
    PROVE  Enough(z.names)
<1>1. z.names \subseteq Zones /\ z.names # {}
  BY DEF Part, complete
<1>2. CASE Cardinality(Pages) = 1
  BY <1>1, <1>2 DEF Part, Enough
<1>3. CASE Cardinality(Pages) # 1
  <2>1. z.expected = Announced(Cardinality(Zones))
    BY <1>1, <1>3 DEF Part
  <2>2. Announced(Cardinality(Zones)) \in Nat
    BY <1>1, Sizes DEF Announced
  <2>3. Announced(Cardinality(Zones)) <= Cardinality(z.names)
    BY <2>1, <2>2, NoneAssumption DEF complete
  <2>4. Cardinality(z.names) = Cardinality(Zones) \/ Cardinality(z.names) >= MaxTotal
    BY <1>1, <2>3, Sizes DEF Announced
  <2>5. Cardinality(Pages) > 1
    BY <1>1, <1>3, PagesFacts
  <2>. QED BY <1>1, <2>4, <2>5, Sizes DEF Enough
<1>. QED BY <1>2, <1>3

\* Only a router with a list it takes as complete answers; what it announces is
\* what Home would, the size of the whole list as far as the count goes.
LEMMA RepliesAreParts ==
    ASSUME ListsInv, NEW r \in Router, NEW m \in zip_queries(r)
    PROVE  m.to \in Others /\ Page(m.reply.names, m.reply.total)
<1>1. r \in Others
  BY DEF zip_queries, Others
<1>2. PICK e, p : /\ e \in Best(r) /\ e.next \in Live /\ p \in query_reply(e.next)
                  /\ m = [to |-> r, reply |-> p]
  BY DEF zip_queries
<1>. DEFINE n == e.next
            list == ListOf(n)
<1>3. n = Home \/ (n \in Others /\ complete(zones[n]))
  BY <1>2, InternetAssumption DEF query_reply, Live, Others
<1>4. p \in pages(n)
  BY <1>2 DEF query_reply
<1>5. list \subseteq Zones /\ Enough(list)
  <2>1. CASE n = Home
    BY <2>1 DEF ListOf, Enough
  <2>2. CASE n # Home
    <3>1. n \in Others /\ complete(zones[n]) /\ zones[n] # None
      BY <1>3, <2>2 DEF complete
    <3>. DEFINE z == zones[n]
    <3>2. Part(z.names, z.expected)
      BY <3>1 DEF ListsInv
    <3>3. list = z.names
      BY <2>2 DEF ListOf
    <3>. HIDE DEF list
    <3>. QED BY <3>1, <3>2, <3>3, WholeLists DEF Part
  <2>. QED BY <2>1, <2>2
<1>6. PICK q \in Pages : p = [names |-> q \cap list,
            total |-> IF Cardinality(Pages) = 1 THEN None ELSE Announced(Cardinality(list))]
  BY <1>4 DEF pages, Carrying
<1>. HIDE DEF list
<1>7. ASSUME Cardinality(Pages) = 1 PROVE Page(p.names, p.total)
  BY <1>5, <1>6, <1>7, PagesFacts DEF Page, Enough
<1>8. ASSUME Cardinality(Pages) # 1 PROVE Page(p.names, p.total)
  <2>1. Announced(Cardinality(list)) = Announced(Cardinality(Zones))
    BY <1>5, Sizes DEF Announced, Enough
  <2>. QED BY <1>5, <1>6, <1>8, <2>1 DEF Page
<1>9. Page(p.names, p.total)
  BY <1>7, <1>8
<1>. QED BY <1>1, <1>2, <1>9

\* A route that goes may take its list with it; no list is changed otherwise.
LEMMA SettleKeepsLists ==
    ASSUME ListsInv, NEW touched, settle(touched), mail' \subseteq mail \cup UNION {zip_queries(r) : r \in Router}
    PROVE  ListsInv'
<1>1. /\ zones' = [r \in Others |-> zones'[r]]
      /\ \A r \in Others : zones'[r] = zones[r] \/ zones'[r] = None
  BY DEF settle
<1>2. \A m \in mail' : m.to \in Others /\ Page(m.reply.names, m.reply.total)
  BY RepliesAreParts DEF ListsInv
<1>. QED BY <1>1, <1>2 DEF ListsInv, Part, Page, Others

LEMMA SizesAre == Announced(Cardinality(Zones)) \in Nat
  BY Sizes DEF Announced

LEMMA ListsNext == ListsInv /\ [Next]_vars => ListsInv'
<1>. SUFFICES ASSUME ListsInv, [Next]_vars PROVE ListsInv'
  OBVIOUS
<1>1. ASSUME zones' = zones, mail' \subseteq mail PROVE ListsInv'
  BY <1>1 DEF ListsInv, Part, Page, Others
<1>2. ASSUME NEW r \in Router, tick(r) PROVE ListsInv'
  <2>1. PICK deaf \in SUBSET Neighbours(r) : beacon(r, Neighbours(r) \ deaf)
    BY <1>2 DEF tick
  <2>. DEFINE hearers == Neighbours(r) \ deaf
  <2>3. settle(hearers)
    BY <2>1 DEF beacon
  <2>. HIDE DEF hearers
  <2>2. mail' = mail \cup zip_queries(r)
    BY <1>2 DEF tick
  <2>. QED BY <2>2, <2>3, SettleKeepsLists
<1>3. ASSUME NEW r \in Others, age(r) PROVE ListsInv'
  <2>1. settle({r}) /\ mail' = mail
    BY <1>3 DEF age
  <2>. DEFINE more == {r}
  <2>2. settle(more)
    BY <2>1
  <2>. HIDE DEF more
  <2>. QED BY <2>1, <2>2, SettleKeepsLists
<1>4. ASSUME learn_zones PROVE ListsInv'
  <2>1. PICK m \in mail :
          LET old == IF zones[m.to] = None THEN [names |-> {}, expected |-> None] ELSE zones[m.to]
              new == [names |-> old.names \cup m.reply.names,
                      expected |-> IF m.reply.total = None THEN old.expected ELSE m.reply.total]
          IN  /\ mail' = mail \ {m}
              /\ zones' = IF Held(m.to) = {} THEN zones ELSE [zones EXCEPT ![m.to] = new]
    BY <1>4 DEF learn_zones
  <2>. DEFINE old == IF zones[m.to] = None THEN [names |-> {}, expected |-> None] ELSE zones[m.to]
              new == [names |-> old.names \cup m.reply.names,
                      expected |-> IF m.reply.total = None THEN old.expected ELSE m.reply.total]
  <2>2. m.to \in Others /\ Page(m.reply.names, m.reply.total)
    BY DEF ListsInv
  <2>3. Part(old.names, old.expected)
    <3>1. CASE zones[m.to] = None
      BY <3>1 DEF Part
    <3>2. CASE zones[m.to] # None
      BY <3>2, <2>2 DEF ListsInv
    <3>. QED BY <3>1, <3>2
  <2>. HIDE DEF old
  <2>4. Part(new.names, new.expected)
    <3>1. new.names = old.names \cup m.reply.names
          /\ new.expected = IF m.reply.total = None THEN old.expected ELSE m.reply.total
      OBVIOUS
    <3>. HIDE DEF new
    <3>2. CASE Cardinality(Pages) = 1
      BY <2>2, <2>3, <3>1, <3>2 DEF Part, Page
    <3>3. CASE Cardinality(Pages) # 1
      BY <2>2, <2>3, <3>1, <3>3, SizesAre, NoneAssumption DEF Part, Page
    <3>. QED BY <3>2, <3>3
  <2>5. zones' = zones \/ zones' = [zones EXCEPT ![m.to] = new]
    BY <2>1 DEF old
  <2>. HIDE DEF new
  <2>6. /\ zones' = [r \in Others |-> zones'[r]]
        /\ \A r \in Others : zones'[r] = zones[r] \/ zones'[r] = new
    BY <2>5 DEF ListsInv
  <2>7. mail' \subseteq mail
    BY <2>1
  <2>. QED BY <2>4, <2>6, <2>7 DEF ListsInv, Part, Page, Others
<1>5. CASE Period
  BY <1>1, <1>5 DEF Period
<1>6. CASE Lose
  BY <1>1, <1>6 DEF Lose, tables
<1>7. CASE Die \/ Return
  BY <1>1, <1>7 DEF Die, Return, tables
<1>8. CASE UNCHANGED vars
  BY <1>1, <1>8 DEF vars, tables
<1>. QED BY <1>2, <1>3, <1>4, <1>5, <1>6, <1>7, <1>8 DEF Next

\* ZIP over several routers: whoever has a list it takes to be complete has all
\* the zones of the network, or at least as many as the byte that announces them
\* can say, whatever replies were lost or came late, and after any comings and
\* goings of the router it hangs on (complete, query_reply, pages, add_zones); so
\* a list of at most MaxTotal zones is never passed on with zones missing.
THEOREM ListsAreWhole == Spec => []CompleteIsWhole
<1>1. Init => ListsInv
  BY DEF Init, ListsInv
<1>2. ListsInv => CompleteIsWhole
  <2>. SUFFICES ASSUME ListsInv, NEW r \in Others, complete(zones[r]) PROVE Enough(zones[r].names)
    BY DEF CompleteIsWhole, Enough
  <2>. DEFINE z == zones[r]
  <2>1. z # None /\ Part(z.names, z.expected) /\ complete(z)
    BY DEF ListsInv, complete
  <2>. HIDE DEF z
  <2>2. Enough(z.names)
    BY <2>1, WholeLists
  <2>. QED BY <2>2 DEF z
<1>. QED BY <1>1, <1>2, ListsNext, PTL DEF Spec
-----------------------------------------------------------------------------
(* Each table is a RoutingTable.                                           *)

\* The start of the network followed, and of the cables.
N == Network[1]
States == {"good", "suspect", "bad", "worst"}
\* What a router may hold of it: one entry for each way there.
Entries(r) == [at : {r}, target : CablesOf(r), next : Router, distance : 1..15,
               state : States, quiet : 0..Validity]
OnePath(rs) == \A e, f \in rs : key(e) = key(f) => e = f
Starts == {rg[1] : rg \in AllRanges}
StartOf(c) == PortRange[c][1]

\* The ranges do not meet, so each has a start of its own.
LEMMA StartsApart ==
    /\ \A c \in Cable : StartOf(c) # N
    /\ \A c, d \in Cable : StartOf(c) = StartOf(d) => c = d
<1>1. \A c \in Cable : /\ PortRange[c][1] \in Nat /\ PortRange[c][2] \in Nat
                       /\ PortRange[c][1] <= PortRange[c][2]
  BY InternetAssumption
<1>2. Network[1] \in Nat /\ Network[2] \in Nat /\ Network[1] <= Network[2]
  BY InternetAssumption
<1>3. \A c \in Cable : /\ Apart(Network, PortRange[c])
                       /\ \A d \in Cable \ {c} : Apart(PortRange[c], PortRange[d])
  BY InternetAssumption
<1>. QED BY <1>1, <1>2, <1>3 DEF Apart, StartOf, N

\* The cable of a start is the one it is the start of.
LEMMA ChooseCable ==
    ASSUME NEW c \in Cable
    PROVE  (CHOOSE d \in Cable : PortRange[d][1] = PortRange[c][1]) = c
BY StartsApart DEF StartOf

\* A table keeps a place for each of those starts.
LEMMA StartsFacts ==
    /\ N \in Starts /\ \A c \in Cable : StartOf(c) \in Starts /\ StartOf(c) # N
    /\ \A s \in Starts : s = N \/ \E c \in Cable : s = StartOf(c)
    /\ \A c, d \in Cable : StartOf(c) = StartOf(d) => c = d
BY StartsApart DEF N, Starts, AllRanges, StartOf

\* A function over the range starts, read off at each.
LEMMA PerStartFacts ==
    ASSUME NEW r \in Others, NEW followed, NEW own
    PROVE  LET g == PerStart(r, followed, own)
           IN  /\ g = [s \in Starts |-> g[s]]
               /\ g[N] = followed
               /\ \A c \in Cable : g[StartOf(c)] = IF c \in CablesOf(r) THEN own[c] ELSE None
<1>. DEFINE cable(s) == CHOOSE c \in Cable : PortRange[c][1] = s
            g == PerStart(r, followed, own)
<1>1. g = [s \in Starts |-> IF s = N THEN followed
                            ELSE IF cable(s) \in CablesOf(r) THEN own[cable(s)] ELSE None]
  BY DEF PerStart, N, Starts
<1>2. \A c \in Cable : cable(StartOf(c)) = c
  BY ChooseCable DEF StartOf
<1>. HIDE DEF cable, g
<1>3. \A c \in Cable : g[StartOf(c)] = IF c \in CablesOf(r) THEN own[c] ELSE None
  BY <1>1, <1>2, StartsFacts
<1>. QED BY <1>1, <1>3, StartsFacts DEF g

\* The three maps a router's table is made of, at each start, before a step
\* and after it.
LEMMA BestFacts ==
    ASSUME NEW r \in Others
    PROVE  /\ Incumbents(r) = [s \in Starts |-> Incumbents(r)[s]]
           /\ Incumbents(r)[N] = best[r]
           /\ \A c \in Cable : Incumbents(r)[StartOf(c)] = IF c \in CablesOf(r) THEN <<c, None>> ELSE None
           /\ Incumbents(r)' = [s \in Starts |-> Incumbents(r)'[s]]
           /\ Incumbents(r)'[N] = best[r]'
           /\ \A c \in Cable : Incumbents(r)'[StartOf(c)] = IF c \in CablesOf(r) THEN <<c, None>> ELSE None
<1>. DEFINE own == [c \in Cable |-> <<c, None>>]
<1>1. Incumbents(r) = PerStart(r, best[r], own) /\ Incumbents(r)' = PerStart(r, best[r]', own)
  BY DEF Incumbents, PerStart, CablesOf
<1>2. \A c \in Cable : own[c] = <<c, None>>
  OBVIOUS
<1>. HIDE DEF own
<1>. QED BY <1>1, <1>2, PerStartFacts

LEMMA ZonesFacts ==
    ASSUME NEW r \in Others
    PROVE  /\ Lists(r) = [s \in Starts |-> Lists(r)[s]]
           /\ Lists(r)[N] = zones[r]
           /\ \A c \in Cable : Lists(r)[StartOf(c)] = IF c \in CablesOf(r) THEN [names |-> Zones, expected |-> None] ELSE None
           /\ Lists(r)' = [s \in Starts |-> Lists(r)'[s]]
           /\ Lists(r)'[N] = zones[r]'
           /\ \A c \in Cable : Lists(r)'[StartOf(c)] = IF c \in CablesOf(r) THEN [names |-> Zones, expected |-> None] ELSE None
<1>. DEFINE own == [c \in Cable |-> [names |-> Zones, expected |-> None]]
<1>1. Lists(r) = PerStart(r, zones[r], own) /\ Lists(r)' = PerStart(r, zones[r]', own)
  BY DEF Lists, PerStart, CablesOf
<1>2. \A c \in Cable : own[c] = [names |-> Zones, expected |-> None]
  OBVIOUS
<1>. HIDE DEF own
<1>. QED BY <1>1, <1>2, PerStartFacts

LEMMA ToldFacts ==
    ASSUME NEW r \in Others
    PROVE  /\ Told(r) = [s \in Starts |-> Told(r)[s]]
           /\ Told(r)[N] = Reported(r)
           /\ \A c \in Cable : Told(r)[StartOf(c)] = IF c \in CablesOf(r) THEN <<c, 0>> ELSE None
           /\ Told(r)' = [s \in Starts |-> Told(r)'[s]]
           /\ Told(r)'[N] = Reported(r)'
           /\ \A c \in Cable : Told(r)'[StartOf(c)] = IF c \in CablesOf(r) THEN <<c, 0>> ELSE None
<1>. DEFINE own == [c \in Cable |-> <<c, 0>>]
<1>1. Told(r) = PerStart(r, Reported(r), own) /\ Told(r)' = PerStart(r, Reported(r)', own)
  BY DEF Told, PerStart, CablesOf
<1>2. \A c \in Cable : own[c] = <<c, 0>>
  OBVIOUS
<1>. HIDE DEF own
<1>. QED BY <1>1, <1>2, PerStartFacts

\* The row of an entry, and the one of a cable.
LEMMA RowFacts ==
    ASSUME NEW r \in Others, NEW e \in Entries(r)
    PROVE  /\ Row(e).range = Network /\ Row(e).distance = e.distance /\ Row(e).target = e.target
           /\ Row(e).next = e.next /\ Row(e).state = e.state /\ Row(e).quiet = e.quiet
           /\ \A f \in Entries(r) : Row(e) = Row(f) => e = f
BY DEF Row, Entries

LEMMA AttachedFacts ==
    ASSUME NEW c
    PROVE  /\ DirectRow(c).range = PortRange[c] /\ DirectRow(c).distance = 0 /\ DirectRow(c).target = c
           /\ DirectRow(c).next = None /\ DirectRow(c).state = "good" /\ DirectRow(c).quiet = 0
BY DEF DirectRow

\* No row and no path is mistaken for there being none.
LEMMA RowsAreNotNone ==
    ASSUME NEW r \in Others
    PROVE  /\ \A e \in Entries(r) : Row(e) # None /\ key(e) # None
           /\ \A c \in CablesOf(r) : DirectRow(c) # None
BY InternetAssumption, NoneAssumption DEF Row, DirectRow, key, Entries, CablesOf, States

\* The shortest usable rows of each start.
LEMMA ShortestRows ==
    ASSUME NEW r \in Others, NEW rs \in SUBSET Entries(r)
    PROVE  /\ Table(r)!Shortest(Rows(r, rs), N) = {Row(e) : e \in Shortest(rs)}
           /\ \A c \in CablesOf(r) : Table(r)!Shortest(Rows(r, rs), StartOf(c)) = {DirectRow(c)}
           /\ \A c \in Cable \ CablesOf(r) : Table(r)!Shortest(Rows(r, rs), StartOf(c)) = {}
<1>. DEFINE all == Rows(r, rs)
            us(s) == {x \in all : Table(r)!Start(x) = s /\ Table(r)!Usable(x)}
<1>0. CablesOf(r) \subseteq Cable
  BY DEF CablesOf
<1>1. us(N) = {Row(e) : e \in {x \in rs : usable(x)}}
  BY <1>0, RowFacts, AttachedFacts, StartsFacts DEF Rows, usable, Table!Start, Table!Usable, N, StartOf
<1>2. \A c \in CablesOf(r) : us(StartOf(c)) = {DirectRow(c)}
  BY <1>0, RowFacts, AttachedFacts, StartsFacts DEF Rows, usable, Table!Start, Table!Usable, N, StartOf
<1>3. \A c \in Cable \ CablesOf(r) : us(StartOf(c)) = {}
  BY <1>0, RowFacts, AttachedFacts, StartsFacts DEF Rows, usable, Table!Start, Table!Usable, N, StartOf
<1>4. \A s : Table(r)!Shortest(all, s) = {x \in us(s) : \A q \in us(s) : x.distance <= q.distance}
  BY DEF Table!Shortest
<1>. HIDE DEF us, all
<1>5. Table(r)!Shortest(all, N) = {Row(e) : e \in Shortest(rs)}
  BY <1>1, <1>4, RowFacts DEF Shortest
<1>6. \A c \in CablesOf(r) : Table(r)!Shortest(all, StartOf(c)) = {DirectRow(c)}
  BY <1>2, <1>4, AttachedFacts
<1>7. \A c \in Cable \ CablesOf(r) : Table(r)!Shortest(all, StartOf(c)) = {}
  BY <1>3, <1>4
<1>. QED BY <1>5, <1>6, <1>7 DEF all

\* What RoutingTable picks of them: the entries' choice for the network
\* followed, each cable of ours for itself, nothing for a cable that is not.
LEMMA PickRows ==
    ASSUME NEW r \in Others, NEW rs \in SUBSET Entries(r), OnePath(rs), NEW b,
           \A c \in CablesOf(r) : b[StartOf(c)] = <<c, None>>
    PROVE  /\ Shortest(rs) = {} => Table(r)!Pick(Rows(r, rs), b, N) = {None}
           /\ \A e \in Shortest(rs) :
                /\ key(e) \in Picks(rs, b[N]) => Row(e) \in Table(r)!Pick(Rows(r, rs), b, N)
                /\ key(e) = b[N] => Table(r)!Pick(Rows(r, rs), b, N) = {Row(e)}
           /\ \A c \in CablesOf(r) : Table(r)!Pick(Rows(r, rs), b, StartOf(c)) = {DirectRow(c)}
           /\ \A c \in Cable \ CablesOf(r) : Table(r)!Pick(Rows(r, rs), b, StartOf(c)) = {None}
<1>. DEFINE sh(s) == Table(r)!Shortest(Rows(r, rs), s)
            pk(s) == Table(r)!Pick(Rows(r, rs), b, s)
<1>1. \A s : LET kept == {x \in sh(s) : <<x.target, x.next>> = b[s]}
             IN  pk(s) = IF kept # {} THEN kept ELSE IF sh(s) # {} THEN sh(s) ELSE {None}
  BY DEF Table!Pick, Table!Key
<1>2. /\ sh(N) = {Row(e) : e \in Shortest(rs)}
      /\ \A c \in CablesOf(r) : sh(StartOf(c)) = {DirectRow(c)}
      /\ \A c \in Cable \ CablesOf(r) : sh(StartOf(c)) = {}
  BY ShortestRows
<1>. HIDE DEF sh, pk
<1>3. Shortest(rs) \subseteq rs
  BY DEF Shortest
<1>4. \A e \in rs : <<Row(e).target, Row(e).next>> = key(e)
  BY RowFacts DEF key
<1>5. Shortest(rs) = {} => pk(N) = {None}
  BY <1>1, <1>2
<1>6. ASSUME NEW e \in Shortest(rs), key(e) = b[N] PROVE pk(N) = {Row(e)}
  <2>1. {x \in sh(N) : <<x.target, x.next>> = b[N]} = {Row(e)}
    BY <1>2, <1>3, <1>4, <1>6 DEF OnePath
  <2>. QED BY <1>1, <2>1
<1>7. ASSUME NEW e \in Shortest(rs), key(e) \in Picks(rs, b[N]) PROVE Row(e) \in pk(N)
  <2>1. CASE key(e) = b[N]
    BY <1>6, <2>1
  <2>2. CASE key(e) # b[N]
    <3>1. \A f \in Shortest(rs) : key(f) # b[N]
      BY <1>7, <2>2 DEF Picks
    <3>2. {x \in sh(N) : <<x.target, x.next>> = b[N]} = {}
      BY <1>2, <1>3, <1>4, <3>1
    <3>. QED BY <1>1, <1>2, <3>2
  <2>. QED BY <2>1, <2>2
<1>8. ASSUME NEW c \in CablesOf(r) PROVE pk(StartOf(c)) = {DirectRow(c)}
  <2>1. <<DirectRow(c).target, DirectRow(c).next>> = b[StartOf(c)]
    BY AttachedFacts
  <2>. QED BY <1>1, <1>2, <2>1
<1>9. \A c \in Cable \ CablesOf(r) : pk(StartOf(c)) = {None}
  BY <1>1, <1>2
<1>. QED BY <1>5, <1>6, <1>7, <1>8, <1>9 DEF pk

\* A router uses the shortest way it has, and has a zone list only while it has
\* a way.
Chosen(r) ==
    IF Shortest(Held(r)) = {} THEN best[r] = None
    ELSE \E e \in Shortest(Held(r)) : key(e) = best[r]
Good(r) ==
    /\ Held(r) \in SUBSET Entries(r) /\ OnePath(Held(r))
    /\ Chosen(r)
    /\ zones[r] # None => Held(r) # {}

\* What a table shows as its current route is what it was last told.
LEMMA CurrentFacts ==
    ASSUME NEW r \in Others, Good(r)
    PROVE  \A s \in Starts : Table(r)!Seen(Table(r)!Current(s)) = Told(r)[s]
<1>. DEFINE rs == Held(r)
            cur(s) == Table(r)!Current(s)
<1>0. CablesOf(r) \subseteq Cable
  BY DEF CablesOf
<1>1. \A s : cur(s) = CHOOSE x \in Table(r)!Pick(Rows(r, rs), Incumbents(r), s) : TRUE
  BY DEF Table!Current
<1>2. \A c \in CablesOf(r) : Incumbents(r)[StartOf(c)] = <<c, None>>
  BY BestFacts, <1>0
<1>3. ASSUME NEW c \in Cable PROVE Table(r)!Seen(cur(StartOf(c))) = Told(r)[StartOf(c)]
  <2>1. CASE c \in CablesOf(r)
    <3>1. cur(StartOf(c)) = DirectRow(c)
      BY <1>1, <1>2, <2>1, PickRows DEF Good
    <3>. QED BY <3>1, <2>1, ToldFacts, AttachedFacts, RowsAreNotNone DEF Table!Seen
  <2>2. CASE c \notin CablesOf(r)
    <3>1. cur(StartOf(c)) = None
      BY <1>1, <1>2, <2>2, PickRows DEF Good
    <3>. QED BY <3>1, <2>2, ToldFacts DEF Table!Seen
  <2>. QED BY <2>1, <2>2
<1>4. Table(r)!Seen(cur(N)) = Told(r)[N]
  <2>1. Told(r)[N] = Reported(r)
    BY ToldFacts
  <2>2. CASE Shortest(rs) = {}
    <3>1. cur(N) = None
      BY <1>1, <1>2, <2>2, PickRows DEF Good
    <3>. QED BY <3>1, <2>1, <2>2 DEF Table!Seen, Reported, Good, Chosen
  <2>3. CASE Shortest(rs) # {}
    <3>1. PICK e \in Shortest(rs) : key(e) = best[r]
      BY <2>3 DEF Good, Chosen
    <3>2. e \in rs /\ e \in Entries(r)
      BY DEF Shortest, Good
    <3>3. Incumbents(r)[N] = best[r]
      BY BestFacts
    <3>4. cur(N) = Row(e)
      BY <1>1, <1>2, <3>1, <3>3, PickRows DEF Good
    <3>5. Best(r) = {e}
      BY <3>1, <3>2 DEF Best, Good, OnePath
    <3>6. Row(e) # None /\ best[r] # None
      BY <3>1, <3>2, RowsAreNotNone
    <3>7. Reported(r) = <<e.target, e.distance>>
      BY <3>5, <3>6 DEF Reported
    <3>. QED BY <2>1, <3>2, <3>4, <3>6, <3>7, RowFacts DEF Table!Seen
  <2>. QED BY <2>2, <2>3
<1>. QED BY <1>3, <1>4, StartsFacts

\* A step that picks again among a router's entries is RoutingTable's Settle,
\* whatever other starts it touches besides.
LEMMA SettleIsTable ==
    ASSUME NEW r \in Others, Good(r), Good(r)',
           best[r]' \in Picks(Held(r)', best[r]),
           zones[r]' = IF Held(r)' # {} THEN zones[r] ELSE None,
           NEW touched \in SUBSET Starts, N \in touched
    PROVE  Table(r)!Settle(touched, Rows(r, Held(r)'))
<1>. DEFINE rs == Held(r)'
            after == Rows(r, rs)
            path == best[r]'
            Cur(x) == IF Shortest(rs) = {} THEN x = None
                      ELSE \E e \in Shortest(rs) : key(e) = path /\ x = Row(e)
            cur == CHOOSE x : Cur(x)
            own(s) == CHOOSE c \in CablesOf(r) : s = StartOf(c)
            picked(s) == IF s = N THEN cur
                         ELSE IF \E c \in CablesOf(r) : s = StartOf(c) THEN DirectRow(own(s)) ELSE None
            pick == [s \in touched |-> picked(s)]
<1>0. CablesOf(r) \subseteq Cable
  BY DEF CablesOf
<1>1. /\ rs \in SUBSET Entries(r) /\ OnePath(rs)
      /\ Shortest(rs) = {} => path = None
      /\ Shortest(rs) # {} => \E e \in Shortest(rs) : key(e) = path
  BY DEF Good, Chosen, Entries, OnePath, CablesOf, Shortest, usable, key, States
<1>2. path \in Picks(rs, best[r])
  BY DEF Picks, Shortest, usable, key
<1>3. Cur(cur)
  BY <1>1
<1>4. Table(r)!Seen(cur) = Reported(r)' /\ Table(r)!PathOf(cur) = path
  <2>1. CASE Shortest(rs) = {}
    BY <1>1, <1>3, <2>1 DEF Table!Seen, Table!PathOf, Reported
  <2>2. CASE Shortest(rs) # {}
    <3>1. PICK e \in Shortest(rs) : key(e) = path /\ cur = Row(e)
      BY <1>3, <2>2
    <3>2. e \in rs /\ e \in Entries(r)
      BY <1>1 DEF Shortest
    <3>3. {f \in rs : key(f) = path} = {e}
      BY <1>1, <3>1, <3>2 DEF OnePath
    <3>4. Best(r)' = {f \in rs : key(f) = path}
      BY DEF Best, key
    <3>5. Row(e) # None /\ path # None
      BY <3>1, <3>2, RowsAreNotNone
    <3>6. Reported(r)' = <<e.target, e.distance>>
      BY <3>3, <3>4, <3>5 DEF Reported
    <3>. QED BY <3>1, <3>2, <3>5, <3>6, RowFacts DEF Table!Seen, Table!PathOf, Table!Key, key
  <2>. QED BY <2>1, <2>2
<1>5. cur \in Table(r)!Pick(after, Incumbents(r), N)
  <2>1. \A c \in CablesOf(r) : Incumbents(r)[StartOf(c)] = <<c, None>>
    BY <1>0, BestFacts
  <2>2. CASE Shortest(rs) = {}
    BY <1>1, <1>3, <2>1, <2>2, PickRows
  <2>3. CASE Shortest(rs) # {}
    <3>1. PICK e \in Shortest(rs) : key(e) = path /\ cur = Row(e)
      BY <1>3, <2>3
    <3>2. key(e) \in Picks(rs, Incumbents(r)[N])
      BY <1>2, <3>1, BestFacts
    <3>. QED BY <1>1, <2>1, <3>1, <3>2, PickRows
  <2>. QED BY <2>2, <2>3
<1>6. cur \in after \cup {None}
  BY <1>3 DEF Rows, Shortest
<1>. HIDE DEF cur, Cur, rs
<1>7. ASSUME NEW c \in CablesOf(r) PROVE picked(StartOf(c)) = DirectRow(c)
  BY <1>0, StartsFacts, <1>7
<1>8. ASSUME NEW c \in Cable \ CablesOf(r) PROVE picked(StartOf(c)) = None
  BY <1>0, StartsFacts, <1>8
<1>9. picked(N) = cur
  OBVIOUS
<1>. HIDE DEF picked
<1>10. ASSUME NEW s \in Starts
       PROVE  /\ picked(s) \in Table(r)!Pick(after, Incumbents(r), s)
              /\ picked(s) \in after \cup {None}
              /\ Table(r)!Seen(picked(s)) = Told(r)'[s]
              /\ Table(r)!PathOf(picked(s)) = Incumbents(r)'[s]
  <2>1. CASE s = N
    BY <1>4, <1>5, <1>6, <1>9, <2>1, BestFacts, ToldFacts
  <2>2. ASSUME NEW c \in CablesOf(r), s = StartOf(c) PROVE <1>10!2
    <3>1. \A d \in CablesOf(r) : Incumbents(r)[StartOf(d)] = <<d, None>>
      BY <1>0, BestFacts
    <3>2. Table(r)!Pick(after, Incumbents(r), s) = {DirectRow(c)}
      BY <1>1, <2>2, <3>1, PickRows
    <3>3. Told(r)'[s] = <<c, 0>> /\ Incumbents(r)'[s] = <<c, None>>
      BY <1>0, <2>2, BestFacts, ToldFacts
    <3>4. DirectRow(c) \in after /\ DirectRow(c) # None
      BY RowsAreNotNone DEF Rows
    <3>. QED BY <1>7, <2>2, <3>2, <3>3, <3>4, AttachedFacts DEF Table!Seen, Table!PathOf, Table!Key
  <2>3. ASSUME NEW c \in Cable \ CablesOf(r), s = StartOf(c) PROVE <1>10!2
    <3>1. \A d \in CablesOf(r) : Incumbents(r)[StartOf(d)] = <<d, None>>
      BY <1>0, BestFacts
    <3>2. Table(r)!Pick(after, Incumbents(r), s) = {None}
      BY <1>1, <2>3, <3>1, PickRows
    <3>3. Told(r)'[s] = None /\ Incumbents(r)'[s] = None
      BY <2>3, BestFacts, ToldFacts
    <3>. QED BY <1>8, <2>3, <3>2, <3>3 DEF Table!Seen, Table!PathOf
  <2>. QED BY <1>0, <2>1, <2>2, <2>3, StartsFacts
<1>11. ASSUME NEW s \in Starts
       PROVE  /\ s \notin touched => Incumbents(r)'[s] = Incumbents(r)[s] /\ Told(r)'[s] = Told(r)[s]
              /\ Lists(r)'[s] = IF \E x \in after : Table(r)!Start(x) = s THEN Lists(r)[s] ELSE None
              /\ s \notin touched => Lists(r)'[s] = Lists(r)[s]
  <2>1. CASE s = N
    <3>1. (\E x \in after : Table(r)!Start(x) = s) <=> rs # {}
      BY <1>0, <1>1, <2>1, RowFacts, AttachedFacts, StartsFacts DEF Rows, Table!Start, N, StartOf
    <3>2. Lists(r)'[s] = IF rs # {} THEN Lists(r)[s] ELSE None
      BY <2>1, ZonesFacts DEF rs
    <3>. QED BY <2>1, <3>1, <3>2
  <2>2. ASSUME NEW c \in Cable, s = StartOf(c) PROVE <1>11!2
    <3>1. Incumbents(r)'[s] = Incumbents(r)[s] /\ Told(r)'[s] = Told(r)[s] /\ Lists(r)'[s] = Lists(r)[s]
      <4>1. Incumbents(r)'[s] = Incumbents(r)[s]
        BY <2>2, BestFacts
      <4>2. Told(r)'[s] = Told(r)[s]
        BY <2>2, ToldFacts
      <4>3. Lists(r)'[s] = Lists(r)[s]
        BY <2>2, ZonesFacts
      <4>. QED BY <4>1, <4>2, <4>3
    <3>2. CASE c \in CablesOf(r)
      <4>1. DirectRow(c) \in after /\ Table(r)!Start(DirectRow(c)) = s
        BY <2>2, <3>2, AttachedFacts DEF Rows, Table!Start, StartOf
      <4>. QED BY <3>1, <4>1
    <3>3. CASE c \notin CablesOf(r)
      BY <2>2, <3>1, <3>3, ZonesFacts
    <3>. QED BY <3>2, <3>3
  <2>. QED BY <2>1, <2>2, StartsFacts
<1>12. pick \in [touched -> after \cup {None}] /\ \A s \in touched : pick[s] = picked(s)
  BY <1>10
<1>13. \A s \in Starts : Table(r)!Seen(Table(r)!Current(s)) = Told(r)[s]
  BY CurrentFacts
<1>14. Rows(r, Held(r))' = after
  BY DEF Rows, rs, Row, DirectRow, CablesOf
<1>15. Incumbents(r)' = [s \in Starts |-> IF s \in touched THEN Table(r)!PathOf(pick[s]) ELSE Incumbents(r)[s]]
  BY <1>10, <1>11, <1>12, BestFacts
<1>16. Lists(r)' = [s \in Starts |-> IF s \in touched
            THEN IF \E x \in after : Table(r)!Start(x) = s THEN Lists(r)[s] ELSE None ELSE Lists(r)[s]]
  BY <1>11, ZonesFacts
<1>17. Told(r)' = [s \in Starts |-> IF s \in touched /\ Table(r)!Seen(Table(r)!Current(s)) # Table(r)!Seen(pick[s])
            THEN Table(r)!Seen(pick[s]) ELSE Told(r)[s]]
  BY <1>10, <1>11, <1>12, <1>13, ToldFacts
<1>18. Table(r)!Starts = Starts /\ Held(r)' = rs
  BY DEF Table!Starts, Starts, rs
<1>. HIDE DEF pick, after
<1>19. \A s \in touched : pick[s] \in Table(r)!Pick(after, Incumbents(r), s)
  BY <1>10, <1>12
<1>20. Table(r)!Settle(touched, after)
  BY <1>12, <1>14, <1>15, <1>16, <1>17, <1>18, <1>19
     DEF Table!Settle, Table!Incumbent, Table!ZonesLeft, Table!Moved
<1>. QED BY <1>20 DEF after, rs

\* The inductive invariant: every router is Good, and entries and replies are of
\* routers that learn.
RowsInv ==
    /\ \A e \in routes : e.at \in Others
    /\ best = [r \in Others |-> best[r]] /\ zones = [r \in Others |-> zones[r]]
    /\ \A r \in Others : Good(r)
    /\ \A m \in mail : m.to \in Others

\* What settle leaves at each router.
LEMMA SettleFacts ==
    ASSUME NEW touched \in SUBSET Others, settle(touched), NEW r \in Others
    PROVE  /\ r \in touched => best[r]' \in Picks(Held(r)', best[r])
           /\ r \notin touched => best[r]' = best[r]
           /\ zones[r]' = IF Held(r)' # {} THEN zones[r] ELSE None
           /\ best' = [s \in Others |-> best'[s]] /\ zones' = [s \in Others |-> zones'[s]]
<1>1. Held(r)' = {e \in routes' : e.at = r}
  BY DEF Held
<1>2. PICK chosen : /\ \A s \in touched : chosen[s] \in Picks({e \in routes' : e.at = s}, best[s])
                    /\ best' = [s \in Others |-> IF s \in touched THEN chosen[s] ELSE best[s]]
  BY DEF settle
<1>3. zones' = [s \in Others |-> IF \E e \in routes' : e.at = s THEN zones[s] ELSE None]
  BY DEF settle
<1>. QED BY <1>1, <1>2, <1>3

\* A router that has settled is Good.
LEMMA SettleGood ==
    ASSUME NEW r \in Others, Held(r)' \in SUBSET Entries(r), OnePath(Held(r)'),
           best[r]' \in Picks(Held(r)', best[r]),
           zones[r]' = IF Held(r)' # {} THEN zones[r] ELSE None
    PROVE  Good(r)'
<1>. DEFINE rs == Held(r)'
<1>1. Chosen(r)' <=> IF Shortest(rs) = {} THEN best[r]' = None
                     ELSE \E e \in Shortest(rs) : key(e) = best[r]'
  BY DEF Chosen, Shortest, usable, key
<1>2. Good(r)' <=> /\ rs \in SUBSET Entries(r) /\ OnePath(rs) /\ Chosen(r)'
                   /\ (zones[r]' # None => rs # {})
  BY DEF Good, OnePath, Entries, States, CablesOf, key
<1>. HIDE DEF rs
<1>3. best[r]' \in Picks(rs, best[r])
  BY DEF rs, Picks, Shortest, usable, key
<1>4. IF Shortest(rs) = {} THEN best[r]' = None ELSE \E e \in Shortest(rs) : key(e) = best[r]'
  BY <1>3 DEF Picks
<1>. QED BY <1>1, <1>2, <1>4 DEF rs

\* So is one whose entries stay, and nothing of it changes.
LEMMA LeftAlone ==
    ASSUME NEW r \in Others, Good(r), Held(r)' = Held(r), best[r]' = best[r],
           zones[r]' = IF Held(r)' # {} THEN zones[r] ELSE None
    PROVE  Good(r)' /\ UNCHANGED <<Held(r), best[r], zones[r]>>
<1>1. zones[r]' = zones[r]
  BY DEF Good
<1>2. Chosen(r)' <=> Chosen(r)
  BY DEF Chosen, Shortest, usable, key
<1>3. Good(r)' <=> /\ Held(r) \in SUBSET Entries(r) /\ OnePath(Held(r)) /\ Chosen(r)'
                   /\ (zones[r] # None => Held(r) # {})
  BY <1>1 DEF Good, OnePath, Entries, States, CablesOf, key
<1>. QED BY <1>1, <1>2, <1>3 DEF Good

\* Writing over the distance, the state or the clock of an entry.
LEMMA EntriesFacts ==
    ASSUME NEW r \in Others, NEW e \in Entries(r)
    PROVE  /\ e.at = r /\ e.target \in CablesOf(r) /\ e.next \in Router /\ e.distance \in 1..15
           /\ e.state \in States /\ e.quiet \in 0..Validity
           /\ \A x, q : LET f == [e EXCEPT !.state = x, !.quiet = q]
                        IN  /\ f.at = r /\ f.target = e.target /\ f.next = e.next /\ f.distance = e.distance
                            /\ f.state = x /\ f.quiet = q /\ key(f) = key(e)
                            /\ x \in States /\ q \in 0..Validity => f \in Entries(r)
           /\ \A q : LET f == [e EXCEPT !.quiet = q]
                     IN  /\ f.at = r /\ f.target = e.target /\ f.next = e.next /\ f.distance = e.distance
                         /\ f.state = e.state /\ f.quiet = q /\ key(f) = key(e)
                         /\ q \in 0..Validity => f \in Entries(r)
BY DEF Entries, key

\* Two routers share one cable at most, so a beacon is heard once.
LEMMA OneCable ==
    ASSUME NEW r \in Router, NEW s \in Router, r # s,
           NEW c \in CablesOf(r) \cap CablesOf(s), NEW d \in CablesOf(r) \cap CablesOf(s)
    PROVE  c = d
<1>. DEFINE both == {x \in Cable : {r, s} \subseteq On[x]}
<1>1. c \in both /\ d \in both
  BY DEF CablesOf
<1>2. IsFiniteSet(both) /\ Cardinality(both) <= 1
  BY InternetAssumption, FS_Subset
<1>. HIDE DEF both
<1>3. Cardinality(both) \in Nat
  BY <1>2, FS_CardinalityType
<1>4. Cardinality(both) = 0 \/ Cardinality(both) = 1
  BY <1>2, <1>3
<1>5. both = {} \/ \E x : both = {x}
  BY <1>2, <1>4, FS_EmptySet, FS_Singleton
<1>. QED BY <1>1, <1>5

\* One tuple learned from a cable, at the router that hears it.
Tuple(s, c, r, d) == [at |-> s, target |-> c, next |-> r, distance |-> d, state |-> "good", quiet |-> 0]

LEMMA TupleFacts ==
    ASSUME NEW s, NEW c, NEW r, NEW d
    PROVE  LET t == Tuple(s, c, r, d)
           IN  /\ t.at = s /\ t.target = c /\ t.next = r /\ t.distance = d
               /\ key(t) = <<c, r>>
BY DEF Tuple, key

\* One distance, or notify neighbour, is told on a cable.
LEMMA AdvertisedFacts ==
    ASSUME NEW r, NEW c
    PROVE  /\ advertisable(r, c) \subseteq (0..14) \cup {31}
           /\ \A d, f \in advertisable(r, c) : d = f
BY DEF advertisable, tuples_for

\* A router writes in its own table only.
LEMMA LearntAt ==
    ASSUME RowsInv, NEW x, NEW c, NEW r, NEW d
    PROVE  \A e \in Learnt(Tuple(x, c, r, d)) : e.at = x
<1>. DEFINE t == Tuple(x, c, r, d)
<1>1. t.at = x /\ t.distance = d
  BY TupleFacts
<1>2. CASE d = 31
  <2>1. ASSUME NEW e \in Same(t) PROVE [e EXCEPT !.state = "bad", !.quiet = 0].at = x
    <3>1. e \in routes /\ e.at = x /\ e.at \in Others /\ e \in Held(e.at)
      BY <1>1 DEF Same, Held, RowsInv
    <3>2. e \in Entries(e.at)
      BY <3>1 DEF RowsInv, Good
    <3>. QED BY <3>1, <3>2 DEF Entries
  <2>. HIDE DEF t
  <2>. QED BY <1>1, <1>2, <2>1 DEF Learnt, t
<1>3. CASE d # 31
  <2>1. \A f : [t EXCEPT !.distance = f].at = x
    BY DEF Tuple
  <2>. HIDE DEF t
  <2>. QED BY <1>1, <1>3, <2>1 DEF Learnt, t
<1>. QED BY <1>2, <1>3

\* What a beacon does to a router's entries: nothing, or one tuple is learned
\* from the cable it shares with the sender.
LEMMA HeardAt ==
    ASSUME RowsInv, NEW r \in Router, NEW hearers \in SUBSET Neighbours(r), beacon(r, hearers), NEW s \in Others
    PROVE  \/ Held(s)' = Held(s)
           \/ /\ s \in hearers
              /\ \E c \in CablesOf(s) : \E d \in advertisable(r, c) :
                    /\ r \in On[c] \ {s}
                    /\ Held(s)' = (Held(s) \ Same(Tuple(s, c, r, d))) \cup Learnt(Tuple(s, c, r, d))
<1>. DEFINE heard == UNION {{[at |-> x, target |-> c, next |-> r, distance |-> d,
                              state |-> "good", quiet |-> 0] : d \in advertisable(r, c), x \in On[c] \cap hearers}
                            : c \in CablesOf(r)}
            here == {t \in heard : t.at = s}
<1>1. routes' = (routes \ UNION {Same(t) : t \in heard}) \cup UNION {Learnt(t) : t \in heard}
  BY DEF beacon
<1>2. \A t : t \in heard <=> \E c \in CablesOf(r) : \E d \in advertisable(r, c), x \in On[c] \cap hearers :
                                t = Tuple(x, c, r, d)
  BY DEF Tuple
<1>. HIDE DEF heard
<1>3. \A t \in heard : (\A e \in Same(t) : e.at = t.at) /\ (\A e \in Learnt(t) : e.at = t.at)
  <2>1. ASSUME NEW t \in heard PROVE (\A e \in Same(t) : e.at = t.at)
    BY DEF Same
  <2>2. ASSUME NEW t \in heard PROVE (\A e \in Learnt(t) : e.at = t.at)
    <3>1. PICK x, c, d : t = Tuple(x, c, r, d)
      BY <1>2
    <3>. QED BY <3>1, LearntAt, TupleFacts
  <2>. QED BY <2>1, <2>2
<1>4. Held(s)' = (Held(s) \ UNION {Same(t) : t \in here}) \cup UNION {Learnt(t) : t \in here}
  BY <1>1, <1>3 DEF Held
<1>5. CASE here = {}
  BY <1>4, <1>5
<1>6. CASE here # {}
  <2>1. PICK t \in here : TRUE
    BY <1>6
  <2>2. PICK c \in CablesOf(r) : \E f \in advertisable(r, c) : s \in On[c] \cap hearers /\ t = Tuple(s, c, r, f)
    BY <1>2, <2>1, TupleFacts
  <2>7. PICK d \in advertisable(r, c) : s \in On[c] \cap hearers /\ t = Tuple(s, c, r, d)
    BY <2>2
  <2>3. s \in Router /\ r # s /\ c \in CablesOf(s)
    BY <2>2 DEF Neighbours, CablesOf, Others
  <2>4. here = {t}
    <3>. SUFFICES ASSUME NEW u \in here PROVE u = t
      BY <2>1
    <3>1. PICK b \in CablesOf(r) : \E f \in advertisable(r, b) : s \in On[b] \cap hearers /\ u = Tuple(s, b, r, f)
      BY <1>2, TupleFacts
    <3>2. b \in CablesOf(s)
      BY <3>1 DEF CablesOf
    <3>3. b = c
      BY <2>2, <2>3, <3>1, <3>2, OneCable
    <3>. QED BY <2>7, <3>1, <3>3, AdvertisedFacts
  <2>5. Held(s)' = (Held(s) \ Same(t)) \cup Learnt(t)
    BY <1>4, <2>4
  <2>6. r \in On[c] \ {s}
    BY <2>2, <2>3 DEF CablesOf
  <2>. QED BY <2>3, <2>5, <2>6, <2>7
<1>. QED BY <1>5, <1>6

\* The rows of a set of entries.
Learned(rs) == {Row(e) : e \in rs}

\* Entries written over are rows written over.
LEMMA RowsChanged ==
    ASSUME NEW r \in Others, NEW rs \in SUBSET Entries(r), NEW old \in SUBSET Entries(r), NEW new
    PROVE  Rows(r, (rs \ old) \cup new) = (Rows(r, rs) \ Learned(old)) \cup Learned(new)
<1>1. \A e, f \in Entries(r) : Row(e) = Row(f) => e = f
  BY RowFacts
<1>2. \A c \in CablesOf(r), e \in Entries(r) : DirectRow(c) # Row(e)
  BY RowFacts, AttachedFacts, StartsApart DEF CablesOf, StartOf, N
<1>3. {Row(e) : e \in rs \ old} = {Row(e) : e \in rs} \ Learned(old)
  BY <1>1 DEF Learned
<1>4. \A c \in CablesOf(r) : DirectRow(c) \notin Learned(old)
  BY <1>2 DEF Learned
<1>. QED BY <1>3, <1>4 DEF Rows, Learned

\* The range followed never clashes with what a table holds.
LEMMA NotDropped ==
    ASSUME NEW r \in Others, Good(r)
    PROVE  ~Table(r)!Dropped(Network)
<1>1. Network[1] \in Nat /\ Network[2] \in Nat
  BY InternetAssumption
<1>. SUFFICES ASSUME NEW x \in Rows(r, Held(r)),
                     \/ x.range # Network /\ Table(r)!Overlaps(x.range, Network)
                     \/ x.range = Network /\ Table(r)!Direct(x)
              PROVE  FALSE
  BY DEF Table!Dropped
<1>2. CASE x \in {Row(e) : e \in Held(r)}
  <2>1. PICK e \in Held(r) : x = Row(e)
    BY <1>2
  <2>2. e \in Entries(r)
    BY DEF Good
  <2>3. x.range = Network /\ x.distance = e.distance /\ e.distance \in 1..15
    BY <2>1, <2>2, RowFacts, EntriesFacts
  <2>. QED BY <2>3 DEF Table!Direct
<1>3. CASE x \in {DirectRow(c) : c \in CablesOf(r)}
  <2>1. PICK c \in CablesOf(r) : x = DirectRow(c)
    BY <1>3
  <2>2. c \in Cable /\ x.range = PortRange[c]
    BY <2>1, AttachedFacts DEF CablesOf
  <2>3. PortRange[c][1] \in Nat /\ PortRange[c][2] \in Nat /\ Apart(Network, PortRange[c])
    BY <2>2, InternetAssumption
  <2>4. PortRange[c] # Network
    BY <2>2, StartsApart DEF StartOf, N
  <2>. QED BY <1>1, <2>2, <2>3, <2>4 DEF Table!Overlaps, Apart
<1>. QED BY <1>2, <1>3 DEF Rows

\* A tuple heard is one Learn of RoutingTable.
LEMMA LearnIsTable ==
    ASSUME NEW s \in Others, Good(s), NEW c \in CablesOf(s), NEW r \in Router, NEW d \in (0..14) \cup {31},
           Held(s)' = (Held(s) \ Same(Tuple(s, c, r, d))) \cup Learnt(Tuple(s, c, r, d)),
           best[s]' \in Picks(Held(s)', best[s]),
           zones[s]' = IF Held(s)' # {} THEN zones[s] ELSE None
    PROVE  Good(s)' /\ Table(s)!Learn(Network, d, c, r)
<1>. DEFINE rs == Held(s)
            t == Tuple(s, c, r, d)
            old == Same(t)
            after == Rows(s, Held(s)')
<1>1. rs \in SUBSET Entries(s) /\ OnePath(rs)
  BY DEF Good
<1>2. old = {e \in rs : key(e) = <<c, r>>}
  BY TupleFacts DEF Same, Held
<1>3. Table(s)!SamePath(Network, c, r) = Learned(old)
  <2>1. \A e \in rs : key(e) = <<c, r>> <=> Row(e).range = Network /\ Row(e).target = c /\ Row(e).next = r
    BY <1>1, RowFacts DEF key
  <2>2. \A b \in CablesOf(s) : DirectRow(b).range # Network
    BY AttachedFacts, StartsApart DEF CablesOf, StartOf, N
  <2>. QED BY <1>2, <2>1, <2>2 DEF Table!SamePath, Rows, Learned
<1>4. Held(s)' = (rs \ old) \cup Learnt(t)
  OBVIOUS
<1>5. after = (Rows(s, rs) \ Learned(old)) \cup Learned(Learnt(t))
  <2>. DEFINE new == Learnt(t)
  <2>1. old \in SUBSET Entries(s)
    BY <1>1, <1>2
  <2>. HIDE DEF new, rs, old
  <2>2. Rows(s, (rs \ old) \cup new) = (Rows(s, rs) \ Learned(old)) \cup Learned(new)
    BY <1>1, <2>1, RowsChanged
  <2>. QED BY <1>4, <2>2 DEF new
<1>6. ASSUME Learnt(t) \subseteq Entries(s), OnePath(Learnt(t)), \A e \in Learnt(t) : key(e) = <<c, r>>
      PROVE  Good(s)' /\ Table(s)!Settle({Network[1]}, after)
  <2>1. Held(s)' \in SUBSET Entries(s) /\ OnePath(Held(s)')
    BY <1>1, <1>2, <1>4, <1>6 DEF OnePath
  <2>2. Good(s)'
    BY <2>1, SettleGood
  <2>. DEFINE touched == {Network[1]}
  <2>3. touched \in SUBSET Starts /\ N \in touched
    BY StartsFacts DEF N
  <2>. HIDE DEF touched
  <2>4. Table(s)!Settle(touched, after)
    BY <2>2, <2>3, SettleIsTable
  <2>. QED BY <2>2, <2>4 DEF touched
<1>. HIDE DEF old, after
<1>7. CASE d # 31
  <2>. DEFINE new == [t EXCEPT !.distance = d + 1]
  <2>1. Learnt(t) = {new}
    <3>1. t.distance = d
      BY TupleFacts
    <3>. HIDE DEF t
    <3>. QED BY <1>7, <3>1 DEF Learnt
  <2>2. new \in Entries(s) /\ key(new) = <<c, r>> /\ Row(new) = Table(s)!Entry(Network, c, r, d + 1, "good")
    <3>1. new = [at |-> s, target |-> c, next |-> r, distance |-> d + 1, state |-> "good", quiet |-> 0]
      BY DEF Tuple
    <3>2. d + 1 \in 1..15 /\ 0 \in 0..Validity
      BY <1>7, InternetAssumption
    <3>. QED BY <3>1, <3>2 DEF Entries, States, key, Row, Table!Entry
  <2>. HIDE DEF new
  <2>3. Good(s)' /\ Table(s)!Settle({Network[1]}, after)
    BY <1>6, <2>1, <2>2 DEF OnePath
  <2>4. after = (Rows(s, rs) \ Table(s)!SamePath(Network, c, r)) \cup {Table(s)!Entry(Network, c, r, d + 1, "good")}
    BY <1>3, <1>5, <2>1, <2>2 DEF Learned
  <2>5. d < 15
    BY <1>7
  <2>6. Table(s)!LearnReachable(Network, d, c, r)
    BY <2>3, <2>4, <2>5 DEF Table!LearnReachable
  <2>. QED BY <2>3, <2>6, NotDropped DEF Table!Learn
<1>8. CASE d = 31
  <2>1. Learnt(t) = {[e EXCEPT !.state = "bad", !.quiet = 0] : e \in old}
    <3>1. t.distance = d
      BY TupleFacts
    <3>. HIDE DEF t
    <3>. QED BY <1>8, <3>1 DEF Learnt, old
  <2>2. ASSUME NEW e \in old
        PROVE  /\ [e EXCEPT !.state = "bad", !.quiet = 0] \in Entries(s)
               /\ key([e EXCEPT !.state = "bad", !.quiet = 0]) = <<c, r>>
               /\ Row([e EXCEPT !.state = "bad", !.quiet = 0]) = Table(s)!Rewritten(Row(e), Row(e).distance, "bad")
    <3>1. e \in Entries(s) /\ key(e) = <<c, r>>
      BY <1>1, <1>2
    <3>2. 0 \in 0..Validity
      BY InternetAssumption
    <3>. QED BY <3>1, <3>2 DEF Entries, States, key, Row, Table!Rewritten, Table!Entry
  <2>3. OnePath(Learnt(t))
    BY <1>1, <1>2, <2>1 DEF OnePath
  <2>4. Good(s)' /\ Table(s)!Settle({Network[1]}, after)
    BY <1>6, <2>1, <2>2, <2>3
  <2>5. after = (Rows(s, rs) \ Table(s)!SamePath(Network, c, r)) \cup
                  {Table(s)!Rewritten(x, x.distance, "bad") : x \in Table(s)!SamePath(Network, c, r)}
    <3>1. {Table(s)!Rewritten(x, x.distance, "bad") : x \in Table(s)!SamePath(Network, c, r)}
            = {Table(s)!Rewritten(Row(e), Row(e).distance, "bad") : e \in old}
      BY <1>3 DEF Learned
    <3>2. Learned(Learnt(t)) = {Row([e EXCEPT !.state = "bad", !.quiet = 0]) : e \in old}
      BY <2>1 DEF Learned
    <3>3. Learned(Learnt(t)) = {Table(s)!Rewritten(Row(e), Row(e).distance, "bad") : e \in old}
      BY <2>2, <3>2
    <3>. QED BY <1>3, <1>5, <3>1, <3>3
  <2>6. Table(s)!LearnBad(Network, d, c, r)
    BY <1>8, <2>4, <2>5 DEF Table!LearnBad
  <2>. QED BY <2>4, <2>6, NotDropped DEF Table!Learn
<1>. QED BY <1>7, <1>8

\* The entries that expired turn at once, as the rows of Age do.
LEMMA AgeIsTable ==
    ASSUME RowsInv, NEW r \in Others, age(r)
    PROVE  Good(r)' /\ Table(r)!Age
<1>. DEFINE rs == Held(r)
            expired == {e \in rs : Expired(e)}
            Turned(e) == [e EXCEPT !.state = Older[@], !.quiet = 0]
            aged == {Turned(e) : e \in {x \in expired : x.state # "worst"}}
            after == Rows(r, Held(r)')
<1>1. rs \in SUBSET Entries(r) /\ OnePath(rs)
  BY DEF RowsInv, Good
<1>2. expired # {} /\ routes' = (routes \ expired) \cup aged
  BY DEF age
<1>3. ASSUME NEW e \in rs, e.state # "worst"
      PROVE  Turned(e) \in Entries(r) /\ key(Turned(e)) = key(e) /\ Turned(e).at = r
  <2>1. e \in Entries(r) /\ 0 \in 0..Validity
    BY <1>1, InternetAssumption
  <2>2. Older[e.state] \in States
    BY <1>3, <2>1 DEF Entries, States, Older
  <2>. QED BY <2>1, <2>2 DEF Entries, key
<1>4. Held(r)' = (rs \ expired) \cup aged
  BY <1>2, <1>3 DEF Held
<1>5. Held(r)' \in SUBSET Entries(r) /\ OnePath(Held(r)')
  <2>. HIDE DEF Turned
  <2>1. aged \subseteq Entries(r) /\ \A f \in aged : \E e \in expired : f = Turned(e) /\ key(f) = key(e)
    BY <1>3
  <2>2. OnePath(aged)
    <3>. SUFFICES ASSUME NEW f \in aged, NEW g \in aged, key(f) = key(g) PROVE f = g
      BY DEF OnePath
    <3>1. PICK e \in expired : f = Turned(e) /\ key(f) = key(e)
      BY <2>1
    <3>2. PICK d \in expired : g = Turned(d) /\ key(g) = key(d)
      BY <2>1
    <3>. QED BY <1>1, <3>1, <3>2 DEF OnePath
  <2>. QED BY <1>1, <1>4, <2>1, <2>2 DEF OnePath
<1>6. best[r]' \in Picks(Held(r)', best[r]) /\ zones[r]' = IF Held(r)' # {} THEN zones[r] ELSE None
  <2>. DEFINE touched == {r}
  <2>1. settle(touched) /\ touched \in SUBSET Others /\ r \in touched
    BY DEF age
  <2>. HIDE DEF touched
  <2>. QED BY <2>1, SettleFacts
<1>7. Good(r)'
  BY <1>5, <1>6, SettleGood
<1>8. {Table(r)!Start(x) : x \in Rows(r, rs)} \in SUBSET Starts /\ N \in {Table(r)!Start(x) : x \in Rows(r, rs)}
  <2>1. \A c \in CablesOf(r) : Table(r)!Start(DirectRow(c)) \in Starts
    BY AttachedFacts, StartsFacts DEF CablesOf, Table!Start, StartOf
  <2>2. \A e \in rs : Table(r)!Start(Row(e)) = N
    BY <1>1, RowFacts DEF Table!Start, N
  <2>3. PICK e \in rs : TRUE
    BY <1>2
  <2>. QED BY <2>1, <2>2, <2>3, StartsFacts DEF Rows
<1>9. after = Table(r)!AfterAging
  <2>1. ASSUME NEW e \in rs
        PROVE  /\ Table(r)!Expired(Row(e)) <=> Expired(e)
               /\ Row(e).state = e.state
               /\ e.state # "worst" => Table(r)!Aged(Row(e)) = Row(Turned(e))
    <3>1. e \in Entries(r)
      BY <1>1
    <3>2. Table(r)!Expired(Row(e)) <=> Expired(e)
      <4>1. Row(e).distance \in 1..15 /\ Row(e).quiet = e.quiet
        <5>1. e.distance \in 1..15
          BY <3>1 DEF Entries
        <5>. QED BY <3>1, <5>1, RowFacts
      <4>. QED BY <4>1 DEF Table!Expired, Table!Ageing, Table!Direct, Expired
    <3>3. ASSUME e.state # "worst" PROVE Table(r)!Aged(Row(e)) = Row(Turned(e))
      BY <3>1, <3>3 DEF Table!Aged, Table!Rewritten, Table!Entry, Table!Older, Older, Entries, Row, States
    <3>. QED BY <3>1, <3>2, <3>3, RowFacts
  <2>2. \A c \in CablesOf(r) : ~Table(r)!Expired(DirectRow(c))
    BY AttachedFacts DEF Table!Expired, Table!Ageing, Table!Direct
  <2>3. {x \in Rows(r, rs) : ~Table(r)!Expired(x)} =
            {DirectRow(c) : c \in CablesOf(r)} \cup {Row(e) : e \in rs \ expired}
    BY <2>1, <2>2 DEF Rows
  <2>4. {x \in Rows(r, rs) : Table(r)!Expired(x) /\ x.state # "worst"} =
            {Row(e) : e \in {x \in expired : x.state # "worst"}}
    BY <2>1, <2>2 DEF Rows
  <2>5. {Table(r)!Aged(x) : x \in {x \in Rows(r, rs) : Table(r)!Expired(x) /\ x.state # "worst"}} =
            {Row(e) : e \in aged}
    <3>. HIDE DEF Turned
    <3>. QED BY <2>1, <2>4
  <2>6. after = {DirectRow(c) : c \in CablesOf(r)} \cup {Row(e) : e \in rs \ expired} \cup {Row(e) : e \in aged}
    BY <1>4 DEF Rows
  <2>. QED BY <2>3, <2>5, <2>6 DEF Table!AfterAging
<1>10. Good(r)
  BY DEF RowsInv
<1>. DEFINE touched == {Table(r)!Start(x) : x \in Rows(r, rs)}
<1>11. touched \in SUBSET Starts /\ N \in touched
  BY <1>8
<1>. HIDE DEF touched
<1>12. Table(r)!Settle(touched, after)
  BY <1>6, <1>7, <1>10, <1>11, SettleIsTable
<1>. QED BY <1>7, <1>9, <1>12 DEF Table!Age, touched

\* A reply is one AddZones.
LEMMA ReplyIsTable ==
    ASSUME RowsInv, NEW m \in mail, Held(m.to) # {}, UNCHANGED <<routes, best>>,
           zones' = LET old == IF zones[m.to] = None THEN [names |-> {}, expected |-> None] ELSE zones[m.to]
                        new == [names |-> old.names \cup m.reply.names,
                                expected |-> IF m.reply.total = None THEN old.expected ELSE m.reply.total]
                    IN  [zones EXCEPT ![m.to] = new]
    PROVE  Table(m.to)!AddZones(Network[1], m.reply.names, m.reply.total)
<1>. DEFINE r == m.to
            List(z) == [names |-> z.names \cup m.reply.names,
                        expected |-> IF m.reply.total = None THEN z.expected ELSE m.reply.total]
            old == IF zones[r] = None THEN [names |-> {}, expected |-> None] ELSE zones[r]
            new == List(old)
<1>1. r \in Others /\ Good(r)
  BY DEF RowsInv
<1>2. zones[r]' = new
  BY <1>1 DEF RowsInv
<1>3. Lists(r)' = [Lists(r) EXCEPT ![N] = new]
  <2>. HIDE DEF new
  <2>1. \A s \in Starts : Lists(r)'[s] = IF s = N THEN new ELSE Lists(r)[s]
    <3>1. Lists(r)'[N] = new
      BY <1>1, <1>2, ZonesFacts
    <3>2. ASSUME NEW c \in Cable PROVE Lists(r)'[StartOf(c)] = Lists(r)[StartOf(c)]
      BY <1>1, ZonesFacts
    <3>. QED BY <3>1, <3>2, StartsFacts
  <2>. QED BY <1>1, <2>1, ZonesFacts
<1>4. Lists(r)[N] = zones[r]
  BY <1>1, ZonesFacts
<1>5. Told(r)[N] = Table(r)!Seen(Table(r)!Current(N))
  BY <1>1, CurrentFacts, StartsFacts
<1>6. /\ Rows(r, Held(r))' = Rows(r, Held(r)) /\ Incumbents(r)' = Incumbents(r)
      /\ Told(r)' = Told(r)
  BY DEF Rows, Held, Incumbents, PerStart, CablesOf, Told, Reported, Best, Row, DirectRow, key
<1>7. Told(r) = [Told(r) EXCEPT ![N] = Told(r)[N]]
  BY <1>1, ToldFacts
<1>8. \E x \in Rows(r, Held(r)) : Table(r)!Start(x) = N
  <2>1. PICK e \in Held(r) : e \in Entries(r)
    BY <1>1 DEF Good
  <2>. QED BY <1>1, <2>1, RowFacts DEF Rows, Table!Start, N
<1>. QED BY <1>3, <1>4, <1>5, <1>6, <1>7, <1>8 DEF Table!AddZones, N

\* A period goes over all the rows that age, as in Elapse.
LEMMA ElapseIsTable ==
    ASSUME RowsInv, NEW r \in Others, Period
    PROVE  Good(r)' /\ Table(r)!Elapse
<1>. DEFINE rs == Held(r)
            Later(e) == [e EXCEPT !.quiet = @ + 1]
<1>1. rs \in SUBSET Entries(r) /\ OnePath(rs) /\ Good(r)
  BY DEF RowsInv, Good
<1>2. ASSUME NEW e \in rs
      PROVE  /\ Later(e) \in Entries(r) /\ key(Later(e)) = key(e) /\ Later(e).at = r
             /\ Later(e).distance = e.distance /\ Later(e).target = e.target
             /\ usable(Later(e)) <=> usable(e)
             /\ Row(Later(e)) = [Row(e) EXCEPT !.quiet = @ + 1] /\ Row(e).quiet < Validity
  <2>1. e \in Entries(r) /\ e \in routes /\ e.quiet \in Nat /\ Validity \in Nat
    BY <1>1, InternetAssumption DEF Held, Entries
  <2>2. e.quiet < Validity
    BY <2>1 DEF Period, Expired
  <2>3. e.quiet + 1 \in 0..Validity
    BY <2>1, <2>2
  <2>4. Row(e).quiet = e.quiet
    BY <2>1, RowFacts
  <2>. QED BY <2>1, <2>2, <2>3, <2>4 DEF Entries, key, usable, Row
<1>3. routes' = {Later(e) : e \in routes} /\ UNCHANGED <<best, zones>>
  BY DEF Period
<1>4. Held(r)' = {Later(e) : e \in rs}
  <2>1. \A e \in routes : Later(e).at = e.at
    <3>. SUFFICES ASSUME NEW e \in routes PROVE Later(e).at = e.at
      OBVIOUS
    <3>1. e.at \in Others /\ e \in Held(e.at)
      BY DEF RowsInv, Held
    <3>2. e \in Entries(e.at)
      BY <3>1 DEF RowsInv, Good
    <3>. QED BY <3>2 DEF Entries
  <2>. HIDE DEF Later
  <2>. QED BY <1>3, <2>1 DEF Held
<1>. HIDE DEF Later
<1>5. Shortest(Held(r)') = {Later(e) : e \in Shortest(rs)}
  BY <1>2, <1>4 DEF Shortest
<1>6. Good(r)'
  <2>1. Held(r)' \in SUBSET Entries(r) /\ OnePath(Held(r)')
    BY <1>1, <1>2, <1>4 DEF OnePath
  <2>2. best[r]' \in Picks(Held(r)', best[r])
    <3>1. {key(e) : e \in Shortest(Held(r)')} = {key(e) : e \in Shortest(rs)}
      BY <1>2, <1>5 DEF Shortest
    <3>2. CASE Shortest(rs) = {}
      BY <1>1, <1>3, <3>1, <3>2 DEF Picks, Good, Chosen
    <3>3. CASE Shortest(rs) # {}
      <4>1. best[r] \in {key(e) : e \in Shortest(rs)}
        BY <1>1, <3>3 DEF Good, Chosen
      <4>. QED BY <1>3, <3>1, <4>1 DEF Picks
    <3>. QED BY <3>2, <3>3
  <2>3. zones[r]' = IF Held(r)' # {} THEN zones[r] ELSE None
    BY <1>1, <1>3, <1>4 DEF Good
  <2>. QED BY <2>1, <2>2, <2>3, SettleGood
<1>7. Reported(r)' = Reported(r)
  <2>. SUFFICES ASSUME best[r] # None PROVE Reported(r)' = Reported(r)
    BY <1>3 DEF Reported
  <2>1. PICK e \in Shortest(rs) : key(e) = best[r]
    BY <1>1 DEF Good, Chosen
  <2>2. e \in rs
    BY DEF Shortest
  <2>3. Best(r) = {e}
    BY <1>1, <2>1, <2>2 DEF Best, OnePath
  <2>4. Best(r)' = {Later(e)}
    <3>1. Best(r)' = {f \in Held(r)' : key(f) = best[r]}
      BY <1>3 DEF Best, key
    <3>. QED BY <1>1, <1>2, <1>4, <2>1, <2>2, <3>1 DEF OnePath
  <2>5. Reported(r)' = <<Later(e).target, Later(e).distance>>
    BY <1>3, <2>4 DEF Reported
  <2>6. Reported(r) = <<e.target, e.distance>>
    BY <2>3 DEF Reported
  <2>. QED BY <1>2, <2>2, <2>5, <2>6
<1>8. Rows(r, Held(r)') = {IF Table(r)!Ageing(x) /\ x.quiet < Validity
                                THEN [x EXCEPT !.quiet = x.quiet + 1] ELSE x : x \in Rows(r, rs)}
  <2>1. \A e \in rs : Table(r)!Ageing(Row(e)) /\ Row(e).quiet < Validity /\ Row(Later(e)) = [Row(e) EXCEPT !.quiet = Row(e).quiet + 1]
    <3>. SUFFICES ASSUME NEW e \in rs PROVE Table(r)!Ageing(Row(e))
      BY <1>2
    <3>1. e \in Entries(r) /\ e.distance \in 1..15
      BY <1>1 DEF Entries
    <3>2. Row(e).distance = e.distance
      BY <3>1, RowFacts
    <3>. QED BY <3>1, <3>2 DEF Table!Ageing, Table!Direct
  <2>2. \A c \in CablesOf(r) : ~Table(r)!Ageing(DirectRow(c))
    BY AttachedFacts DEF Table!Ageing, Table!Direct
  <2>. QED BY <1>4, <2>1, <2>2 DEF Rows
<1>9. Rows(r, Held(r))' = Rows(r, Held(r)')
  BY DEF Rows, Row, DirectRow, CablesOf, Held
<1>10. UNCHANGED <<Incumbents(r), Lists(r), Told(r)>>
  <2>1. Incumbents(r)' = Incumbents(r)
    <3>1. Incumbents(r)'[N] = Incumbents(r)[N]
      BY <1>3, BestFacts
    <3>2. ASSUME NEW c \in Cable PROVE Incumbents(r)'[StartOf(c)] = Incumbents(r)[StartOf(c)]
      BY BestFacts
    <3>3. \A s \in Starts : Incumbents(r)'[s] = Incumbents(r)[s]
      BY <3>1, <3>2, StartsFacts
    <3>. QED BY <3>3, BestFacts
  <2>2. Lists(r)' = Lists(r)
    BY <1>3, ZonesFacts, StartsFacts
  <2>3. Told(r)' = Told(r)
    <3>1. Told(r)'[N] = Told(r)[N]
      BY <1>7, ToldFacts
    <3>2. ASSUME NEW c \in Cable PROVE Told(r)'[StartOf(c)] = Told(r)[StartOf(c)]
      BY ToldFacts
    <3>3. \A s \in Starts : Told(r)'[s] = Told(r)[s]
      BY <3>1, <3>2, StartsFacts
    <3>. QED BY <3>3, ToldFacts
  <2>. QED BY <2>1, <2>2, <2>3
<1>. QED BY <1>6, <1>8, <1>9, <1>10 DEF Table!Elapse

\* A router starts with its cables alone.
LEMMA InitIsTable ==
    ASSUME Init, NEW r \in Others
    PROVE  Table(r)!Init /\ Good(r)
<1>1. Held(r) = {} /\ best[r] = None /\ zones[r] = None
  BY DEF Init, Held
<1>2. Rows(r, Held(r)) = {Table(r)!DirectRoute(c) : c \in CablesOf(r)}
  <2>1. Rows(r, Held(r)) = {DirectRow(c) : c \in CablesOf(r)}
    BY <1>1 DEF Rows
  <2>2. \A c \in CablesOf(r) : DirectRow(c) = Table(r)!DirectRoute(c)
    BY DEF DirectRow, Table!DirectRoute, Table!Entry
  <2>. QED BY <2>1, <2>2
<1>3. ASSUME NEW c \in Cable
      PROVE  /\ Table(r)!HasPort(StartOf(c)) <=> c \in CablesOf(r)
             /\ c \in CablesOf(r) => Table(r)!PortOf(StartOf(c)) = c
  BY StartsApart DEF Table!HasPort, Table!PortOf, CablesOf, StartOf
<1>4. ~Table(r)!HasPort(N)
  BY StartsApart DEF Table!HasPort, CablesOf, StartOf
<1>5. Reported(r) = None
  BY <1>1 DEF Reported
<1>6. Incumbents(r) = [s \in Starts |-> IF Table(r)!HasPort(s) THEN <<Table(r)!PortOf(s), None>> ELSE None]
  <2>. DEFINE at(s) == IF Table(r)!HasPort(s) THEN <<Table(r)!PortOf(s), None>> ELSE None
  <2>1. Incumbents(r)[N] = at(N)
    BY <1>1, <1>4, BestFacts
  <2>2. ASSUME NEW c \in Cable PROVE Incumbents(r)[StartOf(c)] = at(StartOf(c))
    BY <1>3, BestFacts
  <2>. HIDE DEF at
  <2>3. \A s \in Starts : Incumbents(r)[s] = at(s)
    BY <2>1, <2>2, StartsFacts
  <2>4. Incumbents(r) = [s \in Starts |-> at(s)]
    BY <2>3, BestFacts
  <2>. QED BY <2>4 DEF at
<1>7. Lists(r) = [s \in Starts |-> IF Table(r)!HasPort(s)
                      THEN [names |-> [c \in CablesOf(r) |-> Zones][Table(r)!PortOf(s)], expected |-> None] ELSE None]
  BY <1>1, <1>3, <1>4, ZonesFacts, StartsFacts
<1>8. Told(r) = [s \in Starts |-> IF Table(r)!HasPort(s) THEN <<Table(r)!PortOf(s), 0>> ELSE None]
  <2>. DEFINE at(s) == IF Table(r)!HasPort(s) THEN <<Table(r)!PortOf(s), 0>> ELSE None
  <2>1. Told(r)[N] = at(N)
    BY <1>5, <1>4, ToldFacts
  <2>2. ASSUME NEW c \in Cable PROVE Told(r)[StartOf(c)] = at(StartOf(c))
    BY <1>3, ToldFacts
  <2>. HIDE DEF at
  <2>3. \A s \in Starts : Told(r)[s] = at(s)
    BY <2>1, <2>2, StartsFacts
  <2>4. Told(r) = [s \in Starts |-> at(s)]
    BY <2>3, ToldFacts
  <2>. QED BY <2>4 DEF at
<1>9. Table(r)!Starts = Starts
  BY DEF Table!Starts, Starts
<1>10. Good(r)
  BY <1>1 DEF Good, Chosen, Shortest, OnePath
<1>. QED BY <1>2, <1>6, <1>7, <1>8, <1>9, <1>10 DEF Table!Init

\* So every step of the internet is, at every other router, a step of its
\* table or none: a beacon, a timer, a reply and a period.
LEMMA BeaconIsTables ==
    ASSUME RowsInv, NEW r \in Router, tick(r), NEW s \in Others
    PROVE  Good(s)' /\ TableStep(s)
<1>1. PICK deaf \in SUBSET Neighbours(r) : beacon(r, Neighbours(r) \ deaf)
  BY DEF tick
<1>. DEFINE hearers == Neighbours(r) \ deaf
<1>2. settle(hearers) /\ hearers \in SUBSET Neighbours(r) /\ hearers \in SUBSET Others /\ beacon(r, hearers)
  BY <1>1 DEF beacon, Neighbours
<1>3. Good(s)
  BY DEF RowsInv
<1>. HIDE DEF hearers
<1>4. /\ s \in hearers => best[s]' \in Picks(Held(s)', best[s])
      /\ s \notin hearers => best[s]' = best[s]
      /\ zones[s]' = IF Held(s)' # {} THEN zones[s] ELSE None
  BY <1>2, SettleFacts
<1>5. CASE Held(s)' = Held(s)
  <2>1. best[s]' = best[s]
    <3>1. Picks(Held(s), best[s]) = {best[s]}
      BY <1>3 DEF Good, Chosen, Picks
    <3>. QED BY <1>4, <1>5, <3>1
  <2>. QED BY <1>3, <1>4, <1>5, <2>1, LeftAlone DEF TableStep
<1>6. ASSUME s \in hearers, NEW c \in CablesOf(s), NEW d \in advertisable(r, c), r \in On[c] \ {s},
             Held(s)' = (Held(s) \ Same(Tuple(s, c, r, d))) \cup Learnt(Tuple(s, c, r, d))
      PROVE  Good(s)' /\ TableStep(s)
  <2>1. d \in (0..14) \cup {31}
    BY AdvertisedFacts
  <2>2. Good(s)' /\ Table(s)!Learn(Network, d, c, r)
    BY <1>3, <1>4, <1>6, <2>1, LearnIsTable
  <2>. QED BY <1>6, <2>2 DEF TableStep
<1>. QED BY <1>2, <1>5, <1>6, HeardAt

LEMMA AgeIsTables ==
    ASSUME RowsInv, NEW r \in Others, age(r), NEW s \in Others
    PROVE  Good(s)' /\ TableStep(s)
<1>1. CASE s = r
  BY <1>1, AgeIsTable DEF TableStep
<1>2. CASE s # r
  <2>. DEFINE touched == {r}
  <2>1. settle(touched) /\ touched \in SUBSET Others /\ s \notin touched
    BY <1>2 DEF age
  <2>. HIDE DEF touched
  <2>2. Held(s)' = Held(s)
    <3>. DEFINE expired == {e \in Held(r) : Expired(e)}
                Turned(e) == [e EXCEPT !.state = Older[@], !.quiet = 0]
                aged == {Turned(e) : e \in {x \in expired : x.state # "worst"}}
    <3>1. routes' = (routes \ expired) \cup aged
      BY DEF age
    <3>2. \A e \in expired : Turned(e).at = r /\ e.at = r
      BY DEF RowsInv, Good, Entries, Held
    <3>. HIDE DEF Turned
    <3>. QED BY <1>2, <3>1, <3>2 DEF Held
  <2>3. best[s]' = best[s] /\ zones[s]' = IF Held(s)' # {} THEN zones[s] ELSE None
    BY <2>1, SettleFacts
  <2>4. Good(s)
    BY DEF RowsInv
  <2>. QED BY <2>2, <2>3, <2>4, LeftAlone DEF TableStep
<1>. QED BY <1>1, <1>2

LEMMA RepliesAreTables ==
    ASSUME RowsInv, learn_zones, NEW s \in Others
    PROVE  Good(s)' /\ TableStep(s)
<1>1. PICK m \in mail :
          zones' = IF Held(m.to) = {} THEN zones
                   ELSE LET old == IF zones[m.to] = None THEN [names |-> {}, expected |-> None] ELSE zones[m.to]
                            new == [names |-> old.names \cup m.reply.names,
                                    expected |-> IF m.reply.total = None THEN old.expected ELSE m.reply.total]
                        IN  [zones EXCEPT ![m.to] = new]
  BY DEF learn_zones
<1>2. UNCHANGED <<routes, best>>
  BY DEF learn_zones
<1>3. Held(s)' = Held(s) /\ best[s]' = best[s] /\ Good(s)
  BY <1>2 DEF Held, RowsInv
<1>4. CASE zones[s]' = zones[s]
  <2>1. zones[s]' = IF Held(s)' # {} THEN zones[s] ELSE None
    BY <1>3, <1>4 DEF Good
  <2>. QED BY <1>3, <2>1, LeftAlone DEF TableStep
<1>5. CASE s = m.to /\ Held(m.to) # {}
  <2>1. Table(m.to)!AddZones(Network[1], m.reply.names, m.reply.total)
    BY <1>1, <1>2, <1>5, ReplyIsTable
  <2>2. Good(s)'
    <3>1. Chosen(s)' <=> Chosen(s)
      BY <1>3 DEF Chosen, Shortest, usable, key
    <3>2. Good(s)' <=> /\ Held(s) \in SUBSET Entries(s) /\ OnePath(Held(s)) /\ Chosen(s)'
                       /\ (zones[s]' # None => Held(s) # {})
      BY <1>3 DEF Good, OnePath, Entries, States, CablesOf, key
    <3>. QED BY <1>3, <1>5, <3>1, <3>2 DEF Good
  <2>. QED BY <1>5, <2>1, <2>2 DEF TableStep
<1>6. CASE Held(m.to) = {}
  BY <1>1, <1>4, <1>6
<1>7. CASE s # m.to
  <2>1. zones[s]' = zones[s]
    BY <1>1, <1>7 DEF RowsInv
  <2>. QED BY <1>4, <2>1
<1>. QED BY <1>5, <1>6, <1>7

LEMMA NextIsTables ==
    ASSUME RowsInv, [Next]_vars, NEW s \in Others
    PROVE  Good(s)' /\ TableStep(s)
<1>1. ASSUME NEW r \in Router, tick(r) PROVE Good(s)' /\ TableStep(s)
  BY <1>1, BeaconIsTables
<1>2. ASSUME NEW r \in Others, age(r) PROVE Good(s)' /\ TableStep(s)
  BY <1>2, AgeIsTables
<1>3. CASE learn_zones
  BY <1>3, RepliesAreTables
<1>4. CASE Period
  BY <1>4, ElapseIsTable DEF TableStep
<1>5. CASE UNCHANGED tables
  <2>1. Held(s)' = Held(s) /\ best[s]' = best[s] /\ zones[s]' = zones[s] /\ Good(s)
    BY <1>5 DEF tables, Held, RowsInv
  <2>2. zones[s]' = IF Held(s)' # {} THEN zones[s] ELSE None
    BY <2>1 DEF Good
  <2>. QED BY <2>1, <2>2, LeftAlone DEF TableStep
<1>6. CASE Lose \/ Die \/ Return \/ UNCHANGED vars
  BY <1>5, <1>6 DEF Lose, Die, Return, vars
<1>. QED BY <1>1, <1>2, <1>3, <1>4, <1>6 DEF Next

\* The inductive invariant of the tables.
LEMMA NextKeepsRows ==
    ASSUME RowsInv, [Next]_vars, \A m \in mail' : m.to \in Others
    PROVE  RowsInv'
<1>1. \A r \in Others : Good(r)'
  BY NextIsTables
<1>2. ASSUME NEW touched \in SUBSET Others, settle(touched)
      PROVE  best' = [s \in Others |-> best'[s]] /\ zones' = [s \in Others |-> zones'[s]]
  BY <1>2 DEF settle
<1>3. ASSUME \A e \in routes' : e.at \in Others,
             best' = [s \in Others |-> best'[s]] /\ zones' = [s \in Others |-> zones'[s]]
      PROVE  RowsInv'
  BY <1>1, <1>3 DEF RowsInv, Others
<1>4. ASSUME NEW r \in Router, tick(r) PROVE RowsInv'
  <2>1. PICK deaf \in SUBSET Neighbours(r) : beacon(r, Neighbours(r) \ deaf)
    BY <1>4 DEF tick
  <2>. DEFINE hearers == Neighbours(r) \ deaf
              heard == UNION {{[at |-> x, target |-> c, next |-> r, distance |-> d,
                              state |-> "good", quiet |-> 0] : d \in advertisable(r, c), x \in On[c] \cap hearers}
                            : c \in CablesOf(r)}
  <2>2. hearers \in SUBSET Others /\ settle(hearers)
    BY <2>1 DEF beacon, Neighbours
  <2>3. routes' = (routes \ UNION {Same(t) : t \in heard}) \cup UNION {Learnt(t) : t \in heard}
    BY <2>1 DEF beacon
  <2>4. \A t \in heard : \E x \in hearers : \E c, d : t = Tuple(x, c, r, d)
    BY DEF Tuple
  <2>. HIDE DEF heard, hearers
  <2>5. \A t \in heard : \A e \in Learnt(t) : e.at \in Others
    BY <2>2, <2>4, LearntAt
  <2>6. \A e \in routes' : e.at \in Others
    BY <2>3, <2>5 DEF RowsInv
  <2>. QED BY <1>2, <1>3, <2>2, <2>6
<1>5. ASSUME NEW r \in Others, age(r) PROVE RowsInv'
  <2>. DEFINE touched == {r}
  <2>1. settle(touched) /\ touched \in SUBSET Others
    BY <1>5 DEF age
  <2>. HIDE DEF touched
  <2>2. \A e \in routes' : e.at \in Others
    <3>. DEFINE expired == {e \in Held(r) : Expired(e)}
                Turned(e) == [e EXCEPT !.state = Older[@], !.quiet = 0]
                aged == {Turned(e) : e \in {x \in expired : x.state # "worst"}}
    <3>1. routes' = (routes \ expired) \cup aged
      BY <1>5 DEF age
    <3>2. \A e \in expired : Turned(e).at = r
      BY DEF RowsInv, Good, Entries
    <3>. HIDE DEF Turned
    <3>. QED BY <3>1, <3>2 DEF RowsInv
  <2>. QED BY <1>2, <1>3, <2>1, <2>2
<1>6. CASE learn_zones
  BY <1>3, <1>6 DEF learn_zones, RowsInv
<1>7. CASE Period
  <2>1. ASSUME NEW e \in routes PROVE [e EXCEPT !.quiet = @ + 1].at \in Others
    <3>1. e.at \in Others /\ e \in Held(e.at)
      BY DEF RowsInv, Held
    <3>2. e \in Entries(e.at)
      BY <3>1 DEF RowsInv, Good
    <3>. QED BY <3>1, <3>2 DEF Entries
  <2>2. routes' = {[e EXCEPT !.quiet = @ + 1] : e \in routes} /\ UNCHANGED <<best, zones>>
    BY <1>7 DEF Period
  <2>. QED BY <1>3, <2>1, <2>2 DEF RowsInv
<1>8. CASE Lose \/ Die \/ Return \/ UNCHANGED vars
  BY <1>3, <1>8 DEF Lose, Die, Return, vars, tables, RowsInv
<1>. QED BY <1>4, <1>5, <1>6, <1>7, <1>8 DEF Next

\* Every router's table refines RoutingTable, step by step: the routes to one
\* network that RTMP carries round loops of cables are written by Learn, Age,
\* Elapse and AddZones alone, with tuples the neighbours really tell and
\* replies really sent (tick, age, learn_zones, Period).
THEOREM TablesAreTables == Spec => TablesKept
<1>. DEFINE IInv == ListsInv /\ RowsInv
<1>1. Init => IInv /\ \A r \in Others : Table(r)!Init
  BY InitIsTable DEF RowsInv, ListsInv, Init
<1>2. IInv /\ [Next]_vars => IInv' /\ [\A r \in Others : TableStep(r)]_vars
  <2>. SUFFICES ASSUME IInv, [Next]_vars
                PROVE  IInv' /\ \A r \in Others : TableStep(r)
    OBVIOUS
  <2>1. ListsInv'
    BY ListsNext
  <2>2. \A m \in mail' : m.to \in Others
    BY <2>1 DEF ListsInv, Others
  <2>3. RowsInv'
    BY <2>2, NextKeepsRows
  <2>. QED BY <2>1, <2>3, NextIsTables
<1>. QED BY <1>1, <1>2, PTL DEF Spec, TablesKept
-----------------------------------------------------------------------------
(* A datagram that crosses such an internet (module Forwarding), by any     *)
(* routes the tables may hold.                                              *)


\* What a copy on each kind of link may have crossed.  A hop is counted at
\* every crossing but the first and those from a tunnel to a cable; the last
\* of these needs a hop to spare.
Crossed(link, hops, path) ==
    /\ link[1] = "Local" => Len(path) = 0
    /\ link[1] = "Peer" => Len(path) <= 2 * hops + 1
    /\ link[1] = "Port" => Len(path) <= 2 * hops + 2
    /\ Len(path) <= 2 * MaxHops + 1
CrossedFew == \A f \in frames : Crossed(f.link, f.hops, f.path)
\* "This cable" names one only on the cable itself.
NamedOnCable == \A f \in frames : f.dst.net = 0 => f.link[1] = "Port"
FramesInv == TypeOK /\ CrossedFew /\ NamedOnCable

LEMMA FrameFields ==
    ASSUME NEW link, NEW hears, NEW hops, NEW dst, NEW path
    PROVE  LET f == Frame(link, hears, hops, dst, path)
           IN  /\ f.link = link /\ f.hears = hears /\ f.hops = hops
               /\ f.dst = dst /\ f.path = path
               /\ link \in Links /\ hears \subseteq Routers /\ hops \in 0..MaxHops
                  /\ dst \in Dsts /\ path \in Seq(Routers) => f \in Frames
BY DEF Frame, Frames

\* Hearing a copy leaves it as it was, for the others.
LEMMA RestKeeps ==
    ASSUME FramesInv, NEW f \in frames, NEW r
    PROVE  /\ Rest(r, f) \subseteq Frames
           /\ \A g \in Rest(r, f) : /\ Crossed(g.link, g.hops, g.path)
                                    /\ g.dst.net = 0 => g.link[1] = "Port"
<1>. DEFINE g == Frame(f.link, f.hears \ {r}, f.hops, f.dst, f.path)
<1>1. f \in Frames
  BY DEF FramesInv, TypeOK
<1>2. /\ f.link \in Links /\ f.hears \subseteq Routers /\ f.hops \in 0..MaxHops
      /\ f.dst \in Dsts /\ f.path \in Seq(Routers)
  BY <1>1 DEF Frames
<1>3. /\ g \in Frames /\ g.link = f.link /\ g.hops = f.hops
      /\ g.path = f.path /\ g.dst = f.dst
  BY <1>2, FrameFields
<1>4. Rest(r, f) = (frames \ {f}) \cup {g}
  BY DEF Rest
<1>. HIDE DEF g
<1>. QED BY <1>3, <1>4 DEF FramesInv, TypeOK, CrossedFew, NamedOnCable

\* Crossing one more router.
LEMMA CrossingCounts ==
    ASSUME NEW f \in Frames, NEW r \in Routers, NEW route \in Route,
           Crossed(f.link, f.hops, f.path), ~Dropped(r, f.link, f.hops, route)
    PROVE  LET hops == IF Free(f.link, route.target) THEN f.hops ELSE f.hops + 1
               path == Append(f.path, r)
           IN  /\ hops \in 0..MaxHops /\ path \in Seq(Routers)
               /\ \A n : /\ route.target[1] = "Peer" => Crossed(<<"Peer", n>>, hops, path)
                         /\ route.target[1] = "Port" => Crossed(<<"Port", n>>, hops, path)
<1>. DEFINE hops == IF Free(f.link, route.target) THEN f.hops ELSE f.hops + 1
            path == Append(f.path, r)
<1>1. f.hops \in Nat /\ MaxHops \in Nat /\ f.hops < MaxHops
  BY HopsAssumption DEF Frames, Dropped
<1>2. path \in Seq(Routers) /\ Len(path) = Len(f.path) + 1 /\ Len(f.path) \in Nat
  BY DEF Frames
<1>3. f.link[1] \in {"Local", "Peer", "Port"} /\ route.target[1] \in {"Peer", "Port"}
  BY DEF Frames, Links, Targets, Route
<1>4. hops \in 0..MaxHops /\ hops \in Nat
  BY <1>1
<1>5. /\ route.target[1] = "Peer" => Len(path) <= 2 * hops + 1
      /\ route.target[1] = "Port" => Len(path) <= 2 * hops + 2
      /\ Len(path) <= 2 * MaxHops + 1
  <2> DEFINE len == Len(f.path)
             more == Len(path)
             h == f.hops
  <2>0. h \in Nat /\ MaxHops \in Nat /\ h < MaxHops /\ len \in Nat /\ more = len + 1
    BY <1>1, <1>2
  <2>1. hops = h \/ hops = h + 1
    OBVIOUS
  <2>2. CASE f.link[1] = "Local"
    <3>1. len = 0 /\ hops = h
      BY <2>2 DEF Crossed, Free
    <3>. HIDE DEF hops, path, len, more, h
    <3>2. more <= 2 * hops + 1 /\ more <= 2 * hops + 2 /\ more <= 2 * MaxHops + 1
      BY <2>0, <3>1
    <3>. QED BY <3>2 DEF more
  <2>3. CASE f.link[1] = "Peer"
    <3>1. len <= 2 * h + 1
      BY <2>3 DEF Crossed
    <3>2. route.target[1] = "Peer" => hops = h + 1
      BY <2>3 DEF Free
    <3>. HIDE DEF hops, path, len, more, h
    <3>3. route.target[1] = "Peer" => more <= 2 * hops + 1
      BY <2>0, <3>1, <3>2
    <3>4. more <= 2 * hops + 2
      BY <2>0, <2>1, <3>1
    <3>5. more <= 2 * MaxHops + 1
      BY <2>0, <3>1
    <3>. QED BY <3>3, <3>4, <3>5 DEF more
  <2>4. CASE f.link[1] = "Port"
    <3>1. hops = h + 1 /\ len <= 2 * h + 2
      BY <2>4 DEF Crossed, Free
    <3>. HIDE DEF hops, path, len, more, h
    <3>2. more <= 2 * hops + 1 /\ more <= 2 * hops + 2 /\ more <= 2 * MaxHops + 1
      BY <2>0, <3>1
    <3>. QED BY <3>2 DEF more
  <2>. QED BY <1>3, <2>2, <2>3, <2>4
<1>. HIDE DEF hops, path
<1>6. \A n : /\ route.target[1] = "Peer" => Crossed(<<"Peer", n>>, hops, path)
             /\ route.target[1] = "Port" => Crossed(<<"Port", n>>, hops, path)
  BY <1>5 DEF Crossed
<1>. QED BY <1>2, <1>4, <1>6 DEF hops, path

\* What a step may add to the copies of Rest.
FitsLink(g) == g \in Frames /\ Crossed(g.link, g.hops, g.path) /\ g.dst.net # 0

LEMMA ForwardKeeps ==
    ASSUME FramesInv, NEW f \in frames, NEW r \in f.hears, NEW dst \in Dsts, dst.net \in Nets,
           forward(r, f, dst), UNCHANGED claimed,
           handed' = handed \/ handed' = handed \cup {Append(f.path, r)}
    PROVE  FramesInv'
<1>1. f \in Frames /\ r \in Routers /\ Crossed(f.link, f.hops, f.path)
  BY DEF FramesInv, TypeOK, CrossedFew, Frames
<1>2. PICK route \in RoutesOf[r][dst.net] :
        LET hops == IF Free(f.link, route.target) THEN f.hops ELSE f.hops + 1
            path == Append(f.path, r)
            n == route.target[2]
            dest == IF route.distance = 0 THEN dst.node ELSE route.next
        IN  \/ /\ Dropped(r, f.link, f.hops, route)
               /\ frames' = Rest(r, f) /\ UNCHANGED home
            \/ /\ ~Dropped(r, f.link, f.hops, route) /\ route.target[1] = "Peer"
               /\ frames' = Rest(r, f) \cup {Frame(<<"Peer", r>>, {n}, hops, dst, path)}
               /\ UNCHANGED home
            \/ /\ ~Dropped(r, f.link, f.hops, route) /\ route.target[1] = "Port"
               /\ \E S \in Hearers(r, n, dest) :
                    frames' = Rest(r, f) \cup {Frame(<<"Port", n>>, S, hops, dst, path)}
               /\ home' = IF route.distance = 0 THEN home \cup {path} ELSE home
  BY DEF forward
<1>. DEFINE hops == IF Free(f.link, route.target) THEN f.hops ELSE f.hops + 1
            path == Append(f.path, r)
            n == route.target[2]
<1>3. route \in Route \/ Dropped(r, f.link, f.hops, route)
  BY <1>1, RoutesAssumption DEF Dropped
<1>4. path \in Seq(Routers) /\ f.path \in Seq(Routers)
  BY <1>1 DEF Frames
<1>5. TypeOK => home' \subseteq Seq(Routers) /\ handed' \subseteq Seq(Routers)
  <2>1. home' = home \/ home' = home \cup {path}
    BY <1>2
  <2>2. handed' = handed \/ handed' = handed \cup {path}
    OBVIOUS
  <2>. HIDE DEF path
  <2>. QED BY <1>1, <1>4, <2>1, <2>2 DEF TypeOK
<1>6. frames' = Rest(r, f) \/ \E g : frames' = Rest(r, f) \cup {g} /\ FitsLink(g)
  <2>1. CASE Dropped(r, f.link, f.hops, route)
    BY <1>2, <2>1
  <2>2. CASE ~Dropped(r, f.link, f.hops, route) /\ route.target[1] = "Peer"
    <3>. DEFINE g == Frame(<<"Peer", r>>, {n}, hops, dst, path)
    <3>1. frames' = Rest(r, f) \cup {g}
      BY <1>2, <2>2
    <3>2. n \in Routers /\ <<"Peer", r>> \in Links
      BY <1>1, <1>3, <2>2 DEF Route, Targets, Links
    <3>3. hops \in 0..MaxHops /\ Crossed(<<"Peer", r>>, hops, path)
      BY <1>1, <1>3, <2>2, CrossingCounts
    <3>. HIDE DEF hops, path, n
    <3>4. FitsLink(g)
      BY <1>4, <3>2, <3>3, FrameFields, NetsAssumption DEF FitsLink
    <3>. QED BY <3>1, <3>4
  <2>3. CASE ~Dropped(r, f.link, f.hops, route) /\ route.target[1] = "Port"
    <3>. DEFINE dest == IF route.distance = 0 THEN dst.node ELSE route.next
    <3>1. PICK S \in Hearers(r, n, dest) :
            frames' = Rest(r, f) \cup {Frame(<<"Port", n>>, S, hops, dst, path)}
      BY <1>2, <2>3
    <3>. DEFINE g == Frame(<<"Port", n>>, S, hops, dst, path)
    <3>2. n \in Nets /\ <<"Port", n>> \in Links
      BY <1>1, <1>3, <2>3 DEF Route, Targets, Links
    <3>3. S \subseteq Routers
      BY <3>1, <3>2, NetsAssumption DEF Hearers
    <3>4. hops \in 0..MaxHops /\ Crossed(<<"Port", n>>, hops, path)
      BY <1>1, <1>3, <2>3, CrossingCounts
    <3>. HIDE DEF hops, path, n, dest
    <3>5. FitsLink(g)
      BY <1>4, <3>2, <3>3, <3>4, FrameFields, NetsAssumption DEF FitsLink
    <3>. QED BY <3>1, <3>5
  <2>. QED BY <1>2, <2>1, <2>2, <2>3
<1>. HIDE DEF hops, path, n
<1>7. /\ frames' \subseteq Frames
      /\ \A g \in frames' : /\ Crossed(g.link, g.hops, g.path)
                            /\ g.dst.net = 0 => g.link[1] = "Port"
  BY <1>6, RestKeeps DEF FitsLink
<1>. QED BY <1>5, <1>7 DEF FramesInv, TypeOK, CrossedFew, NamedOnCable

LEMMA HearKeeps == FramesInv /\ Hear => FramesInv'
<1>. SUFFICES ASSUME FramesInv, NEW f \in frames, NEW r \in f.hears,
                     arrived(r, f), UNCHANGED claimed
              PROVE  FramesInv'
  BY DEF Hear
<1>1. f \in Frames /\ r \in Routers /\ (f.dst.net = 0 => f.link[1] = "Port")
  BY DEF FramesInv, TypeOK, NamedOnCable, Frames
<1>2. Named(f) \in Dsts /\ Named(f).net \in Nets
  <2>1. f.dst \in Dsts /\ f.link \in Links
    BY <1>1 DEF Frames
  <2>2. f.dst.net = 0 => f.link[2] \in Nets
    BY <1>1, <2>1 DEF Links, Targets
  <2>. QED BY <2>1, <2>2 DEF Named, Dsts
<1>3. CASE forward(r, f, Named(f)) /\ (handed' = handed \/ handed' = handed \cup {Append(f.path, r)})
  BY <1>2, <1>3, ForwardKeeps
<1>4. CASE /\ frames' = Rest(r, f) /\ UNCHANGED home
           /\ handed' = handed \cup {Append(f.path, r)}
  <2>1. f.path \in Seq(Routers)
    BY <1>1 DEF Frames
  <2>2. Append(f.path, r) \in Seq(Routers)
    BY <1>1, <2>1
  <2>. QED BY <1>1, <1>4, <2>2, RestKeeps DEF FramesInv, TypeOK, CrossedFew, NamedOnCable
<1>. QED BY <1>3, <1>4 DEF arrived

LEMMA ClaimKeeps == FramesInv /\ Claim => FramesInv'
<1>. SUFFICES ASSUME FramesInv, NEW r \in Routers, NEW n \in Ports(r) \ claimed[r],
                     claimed' = [claimed EXCEPT ![r] = @ \cup {n}],
                     UNCHANGED <<frames, handed, home>>
              PROVE  FramesInv'
  BY DEF Claim
<1>1. claimed' \in [Routers -> SUBSET Nets]
  BY DEF FramesInv, TypeOK, Ports
<1>. QED BY <1>1 DEF FramesInv, TypeOK, CrossedFew, NamedOnCable

LEMMA FramesInit == ForwardInit => FramesInv
<1>. SUFFICES ASSUME ForwardInit PROVE FramesInv
  OBVIOUS
<1>. DEFINE start == <<>>
<1>1. start \in Seq(Routers) /\ Len(start) = 0
  OBVIOUS
<1>2. MaxHops \in Nat /\ FirstHops \subseteq 0..MaxHops
  BY HopsAssumption
<1>3. PICK dst \in Dsts :
        \/ \E n \in Nets, h \in FirstHops : \E first \in Attached[n] :
            \E S \in Hearers("Host", n, first) : frames = {Frame(<<"Port", n>>, S, h, dst, start)}
        \/ \E r \in Routers :
            dst.net # 0 /\ frames = {Frame(<<"Local", r>>, {r}, 0, dst, start)}
  BY DEF ForwardInit
<1>. HIDE DEF start
<1>4. \E g \in Frames : /\ frames = {g} /\ Crossed(g.link, g.hops, g.path)
                        /\ g.dst.net = 0 => g.link[1] = "Port"
  <2>1. ASSUME NEW n \in Nets, NEW h \in FirstHops, NEW S \in SUBSET Routers,
               frames = {Frame(<<"Port", n>>, S, h, dst, start)}
        PROVE  \E g \in Frames : /\ frames = {g} /\ Crossed(g.link, g.hops, g.path)
                                 /\ g.dst.net = 0 => g.link[1] = "Port"
    <3>. DEFINE g == Frame(<<"Port", n>>, S, h, dst, start)
    <3>1. <<"Port", n>> \in Links /\ h \in 0..MaxHops
      BY <1>2 DEF Links, Targets
    <3>2. g \in Frames /\ g.link = <<"Port", n>> /\ g.hops = h /\ g.path = start
      BY <1>1, <1>3, <3>1 DEF Frame, Frames
    <3>. HIDE DEF g
    <3>. QED BY <1>1, <1>2, <2>1, <3>1, <3>2 DEF Crossed, g
  <2>2. ASSUME NEW r \in Routers, dst.net # 0,
               frames = {Frame(<<"Local", r>>, {r}, 0, dst, start)}
        PROVE  \E g \in Frames : /\ frames = {g} /\ Crossed(g.link, g.hops, g.path)
                                 /\ g.dst.net = 0 => g.link[1] = "Port"
    <3>. DEFINE g == Frame(<<"Local", r>>, {r}, 0, dst, start)
    <3>1. <<"Local", r>> \in Links /\ 0 \in 0..MaxHops
      BY <1>2 DEF Links
    <3>2. /\ g \in Frames /\ g.link = <<"Local", r>> /\ g.hops = 0 /\ g.path = start
          /\ g.dst = dst
      BY <1>1, <1>3, <3>1 DEF Frame, Frames
    <3>3. frames = {g} /\ g.dst.net # 0
      BY <2>2, <3>2
    <3>4. Crossed(<<"Local", r>>, 0, start)
      BY <1>1, <1>2 DEF Crossed
    <3>. HIDE DEF g
    <3>. QED BY <3>2, <3>3, <3>4
  <2>. QED BY <1>3, <2>1, <2>2, NetsAssumption DEF Hearers
<1>. QED BY <1>4, ClaimAssumption DEF ForwardInit, FramesInv, TypeOK, CrossedFew, NamedOnCable

LEMMA FramesNext == FramesInv /\ [ForwardNext]_forwardVars => FramesInv'
<1>1. FramesInv /\ UNCHANGED forwardVars => FramesInv'
  BY DEF forwardVars, FramesInv, TypeOK, CrossedFew, NamedOnCable
<1>. QED BY <1>1, HearKeeps, ClaimKeeps DEF ForwardNext

\* Hop counts fit their four bits (MaxHops of them), and a copy is only ever on
\* a link between routers that exist (wire, forward).
THEOREM FramesWellFormed == ForwardSpec => []TypeOK
<1>1. FramesInv => TypeOK
  BY DEF FramesInv
<1>. QED BY <1>1, FramesInit, FramesNext, PTL DEF ForwardSpec

\* A datagram's life ends after 2 * MAX_HOPS + 1 routers at the latest, by the
\* hop rule of forward alone: for any tables, changing at any time.
THEOREM LoopsEnd == ForwardSpec => []CrossingsBounded
<1>1. FramesInv => CrossingsBounded
  BY DEF FramesInv, CrossedFew, Crossed, CrossingsBounded
<1>. QED BY <1>1, FramesInit, FramesNext, PTL DEF ForwardSpec
-----------------------------------------------------------------------------
(* No copy comes back.                                                      *)

\* Somebody is yet to hear it; it has got to its network.
Awaited(f) == f.hears # {}
AtHome(f) == f.link = <<"Port", Named(f).net>>
\* The way a copy has come when r has heard it, and where copies have been.
Way(r, f) == Append(f.path, r)
Been == home \cup handed \cup {f.path : f \in frames}

\* Who is yet to hear a copy is on its cable and is not who put it there; where
\* the datagram has been by that way is new; and what has got to its network, or
\* to a service there, goes nowhere else.
OnTheCable == \A f \in frames : f.link[1] = "Port" =>
    /\ f.hears \subseteq Attached[f.link[2]]
    /\ f.path # <<>> => At(f.path) \notin f.hears
NewWays == \A f \in frames : \A r \in f.hears : \A q \in Been : ~Begins(Way(r, f), q)
OneOfAWay == \A f, g \in frames : Awaited(f) /\ Awaited(g) /\ f.path = g.path => f = g
HomeIsTheEnd == \A f \in frames : Awaited(f) =>
    \A q \in home \cup handed : Begins(q, f.path) => q = f.path /\ AtHome(f)
WaysTaken == \A q \in home \cup handed : q # <<>>
CopyInv == FramesInv /\ OnTheCable /\ NewWays /\ OneOfAWay /\ HomeIsTheEnd /\ WaysTaken /\ OneCopy

\* A way with one router more.
LEMMA WaysGrow ==
    ASSUME NEW p \in Seq(Routers), NEW q \in Seq(Routers), NEW r \in Routers
    PROVE  /\ Append(p, r) \in Seq(Routers) /\ Append(p, r) # <<>> /\ Append(p, r) # p
           /\ At(Append(p, r)) = r
           /\ Begins(q, Append(p, r)) => q = Append(p, r) \/ Begins(q, p)
           /\ Begins(Append(p, r), q) => Begins(p, q)
           /\ ~Begins(Append(p, r), p) /\ Begins(p, p)
<1>. DEFINE w == Append(p, r)
<1>1. /\ w \in Seq(Routers) /\ Len(w) = Len(p) + 1 /\ Len(p) \in Nat /\ Len(q) \in Nat
      /\ \A i \in 1..Len(p) : w[i] = p[i]
      /\ w[Len(w)] = r
  OBVIOUS
<1>2. w # <<>> /\ w # p /\ At(w) = r
  BY <1>1 DEF At
<1>3. ASSUME Begins(q, w) PROVE q = w \/ Begins(q, p)
  <2>. HIDE DEF w
  <2>1. CASE Len(q) <= Len(p)
    BY <1>1, <1>3, <2>1 DEF Begins
  <2>2. CASE Len(q) = Len(w)
    BY <1>1, <1>3, <2>2 DEF Begins
  <2>. QED BY <1>1, <1>3, <2>1, <2>2 DEF Begins
<1>4. ASSUME Begins(w, q) PROVE Begins(p, q)
  <2>. HIDE DEF w
  <2>. QED BY <1>1, <1>4 DEF Begins
<1>5. ~Begins(w, p) /\ Begins(p, p)
  <2>. HIDE DEF w
  <2>. QED BY <1>1 DEF Begins
<1>. QED BY <1>1, <1>2, <1>3, <1>4, <1>5

\* The ways there are, and what has been by them.
LEMMA WaysAreWays ==
    ASSUME FramesInv
    PROVE  /\ Been \subseteq Seq(Routers)
           /\ \A f \in frames : f.path \in Seq(Routers) /\ f.hears \subseteq Routers
BY DEF FramesInv, TypeOK, Been, Frames

LEMMA HearersFacts ==
    ASSUME NEW station, NEW n \in Nets, NEW dest, NEW S \in Hearers(station, n, dest)
    PROVE  S \subseteq Attached[n] /\ station \notin S
BY DEF Hearers

\* A copy that was heard is one router less to hear it, and as it was otherwise.
LEMMA RestIsFewer ==
    ASSUME NEW f \in frames, NEW r, NEW g \in Rest(r, f)
    PROVE  \/ g \in frames \ {f}
           \/ /\ g.hears = f.hears \ {r} /\ g.link = f.link /\ g.path = f.path
              /\ AtHome(g) <=> AtHome(f)
              /\ g = Frame(f.link, f.hears \ {r}, f.hops, f.dst, f.path)
<1>. DEFINE h == Frame(f.link, f.hears \ {r}, f.hops, f.dst, f.path)
<1>1. h.hears = f.hears \ {r} /\ h.link = f.link /\ h.dst = f.dst /\ h.path = f.path
  BY FrameFields
<1>2. AtHome(h) <=> AtHome(f)
  BY <1>1 DEF AtHome, Named
<1>3. g = h \/ g \in frames \ {f}
  BY DEF Rest
<1>. HIDE DEF h
<1>. QED BY <1>1, <1>2, <1>3 DEF h

\* The copy a router puts on another link, by its own way: on the network, if
\* the router is on it, or another hop to go.
Further(f, r, g, dst) ==
    /\ ~AtHome(f) /\ g.path = Way(r, f)
    /\ g.link[1] = "Port" => g.hears \subseteq Attached[g.link[2]] /\ r \notin g.hears
    /\ \/ r \in Attached[dst.net] /\ AtHome(g) /\ home' = home \cup {Way(r, f)}
       \/ r \notin Attached[dst.net] /\ home' = home

LEMMA ForwardGoesOn ==
    ASSUME CopyInv, NEW f \in frames, NEW r \in f.hears, Named(f) \in Dsts,
           Named(f).net \in Nets, forward(r, f, Named(f))
    PROVE  \/ frames' = Rest(r, f) /\ home' = home
           \/ \E g : frames' = Rest(r, f) \cup {g} /\ Further(f, r, g, Named(f))
<1>. DEFINE dst == Named(f)
<1>1. f \in Frames /\ r \in Routers
  BY DEF CopyInv, FramesInv, TypeOK, Frames
<1>2. PICK route \in RoutesOf[r][dst.net] :
        LET hops == IF Free(f.link, route.target) THEN f.hops ELSE f.hops + 1
            path == Append(f.path, r)
            n == route.target[2]
            dest == IF route.distance = 0 THEN dst.node ELSE route.next
        IN  \/ /\ Dropped(r, f.link, f.hops, route)
               /\ frames' = Rest(r, f) /\ UNCHANGED home
            \/ /\ ~Dropped(r, f.link, f.hops, route) /\ route.target[1] = "Peer"
               /\ frames' = Rest(r, f) \cup {Frame(<<"Peer", r>>, {n}, hops, dst, path)}
               /\ UNCHANGED home
            \/ /\ ~Dropped(r, f.link, f.hops, route) /\ route.target[1] = "Port"
               /\ \E S \in Hearers(r, n, dest) :
                    frames' = Rest(r, f) \cup {Frame(<<"Port", n>>, S, hops, dst, path)}
               /\ home' = IF route.distance = 0 THEN home \cup {path} ELSE home
  BY DEF forward
<1>. DEFINE hops == IF Free(f.link, route.target) THEN f.hops ELSE f.hops + 1
            path == Append(f.path, r)
            n == route.target[2]
            dest == IF route.distance = 0 THEN dst.node ELSE route.next
<1>3. CASE Dropped(r, f.link, f.hops, route)
  BY <1>2, <1>3
<1>4. ASSUME ~Dropped(r, f.link, f.hops, route)
      PROVE  /\ route \in Route /\ f.link # route.target
             /\ route.distance = 0 <=> r \in Attached[dst.net]
             /\ route.distance = 0 => route.target = <<"Port", dst.net>>
  <2>1. route # NoRoute
    BY <1>4 DEF Dropped
  <2>2. route \in Route /\ f.link # route.target
    BY <1>1, <1>4, <2>1, RoutesAssumption DEF Dropped, is
  <2>3. /\ (route.distance = 0) = (dst.net \in Ports(r))
        /\ route.distance = 0 => route.target = <<"Port", dst.net>>
    BY <1>1, <2>1, RoutesAssumption
  <2>. QED BY <2>2, <2>3 DEF Ports
<1>5. r \in Attached[dst.net] \/ ~AtHome(f)
  <2>1. f.link = <<"Port", dst.net>> => r \in Attached[f.link[2]]
    BY DEF CopyInv, OnTheCable
  <2>. QED BY <2>1 DEF AtHome
<1>6. CASE ~Dropped(r, f.link, f.hops, route) /\ route.target[1] = "Peer"
  <2>. DEFINE g == Frame(<<"Peer", r>>, {n}, hops, dst, path)
  <2>1. frames' = Rest(r, f) \cup {g} /\ home' = home
    BY <1>2, <1>6
  <2>2. g.link = <<"Peer", r>> /\ g.path = Way(r, f)
    <3>1. g.link = <<"Peer", r>> /\ g.path = path
      <4>. HIDE DEF path, hops, n, dst
      <4>. QED BY FrameFields
    <3>. QED BY <3>1 DEF Way
  <2>3. r \notin Attached[dst.net]
    BY <1>4, <1>6
  <2>. HIDE DEF g, dst
  <2>4. Further(f, r, g, dst)
    BY <1>5, <2>1, <2>2, <2>3 DEF Further
  <2>. QED BY <2>1, <2>4 DEF dst
<1>7. CASE ~Dropped(r, f.link, f.hops, route) /\ route.target[1] = "Port"
  <2>1. PICK S \in Hearers(r, n, dest) :
          frames' = Rest(r, f) \cup {Frame(<<"Port", n>>, S, hops, dst, path)}
    BY <1>2, <1>7
  <2>. DEFINE g == Frame(<<"Port", n>>, S, hops, dst, path)
  <2>2. home' = IF route.distance = 0 THEN home \cup {Way(r, f)} ELSE home
    BY <1>2, <1>7 DEF Way
  <2>3. g.link = <<"Port", n>> /\ g.hears = S /\ g.dst = dst /\ g.path = Way(r, f)
    <3>1. g.link = <<"Port", n>> /\ g.hears = S /\ g.dst = dst /\ g.path = path
      <4>. HIDE DEF path, hops, n, dst
      <4>. QED BY FrameFields
    <3>. QED BY <3>1 DEF Way
  <2>4. n \in Nets /\ route.target = <<"Port", n>>
    BY <1>4, <1>7 DEF Route, Targets
  <2>5. S \subseteq Attached[n] /\ r \notin S
    BY <2>1, <2>4, HearersFacts
  <2>6. dst.net # 0
    BY NetsAssumption
  <2>7. Named(g) = dst
    BY <2>3, <2>6 DEF Named
  <2>8. Further(f, r, g, dst)
    <3>1. CASE route.distance = 0
      <4>1. r \in Attached[dst.net] /\ n = dst.net /\ f.link # <<"Port", dst.net>>
        BY <1>4, <1>7, <2>4, <3>1
      <4>. HIDE DEF g, dst, path, n, hops
      <4>. QED BY <3>1, <4>1, <2>2, <2>3, <2>5, <2>7 DEF Further, AtHome, dst
    <3>2. CASE route.distance # 0
      <4>1. r \notin Attached[dst.net]
        BY <1>4, <1>7, <3>2
      <4>. HIDE DEF g, dst, path, n, hops
      <4>. QED BY <3>2, <4>1, <2>2, <2>3, <2>5, <1>5 DEF Further
    <3>. QED BY <3>1, <3>2
  <2>. HIDE DEF g
  <2>. QED BY <2>1, <2>8 DEF g
<1>. QED BY <1>2, <1>3, <1>6, <1>7

\* What hearing f at r leads to: the datagram has come by Way(r, f) to r's
\* services, to its network or to a further copy, or has gone no further.
Heard(f, r) ==
    /\ handed' \subseteq handed \cup {Way(r, f)} /\ home' \subseteq home \cup {Way(r, f)}
    /\ home \subseteq home' /\ handed \subseteq handed'
    /\ home' # home => ~AtHome(f)
    /\ \/ frames' = Rest(r, f)
       \/ \E g : /\ frames' = Rest(r, f) \cup {g} /\ ~AtHome(f) /\ g.path = Way(r, f)
                 /\ g.link[1] = "Port" => g.hears \subseteq Attached[g.link[2]] /\ r \notin g.hears
                 /\ home' # home \/ handed' # handed => AtHome(g)

LEMMA HearIsHeard ==
    ASSUME CopyInv, Hear
    PROVE  \E f \in frames : \E r \in f.hears : Heard(f, r)
<1>1. PICK f \in frames : \E r \in f.hears : arrived(r, f)
  BY DEF Hear
<1>a. PICK r \in f.hears : arrived(r, f)
  BY <1>1
<1>. DEFINE dst == Named(f)
<1>2. /\ f \in Frames /\ dst \in Dsts /\ dst.net \in Nets
      /\ f.dst.net = 0 => f.link[1] = "Port"
  <2>1. f \in Frames /\ f.dst \in Dsts /\ f.link \in Links /\ (f.dst.net = 0 => f.link[1] = "Port")
    BY DEF CopyInv, FramesInv, TypeOK, NamedOnCable, Frames
  <2>2. f.dst.net = 0 => f.link[2] \in Nets
    BY <2>1 DEF Links, Targets
  <2>. QED BY <2>1, <2>2 DEF Named, Dsts
<1>3. ForUs(r, dst) => r \in Attached[dst.net]
  BY DEF ForUs
<1>4. ASSUME forward(r, f, dst),
             handed' = handed \/ (handed' = handed \cup {Way(r, f)} /\ r \in Attached[dst.net])
      PROVE  Heard(f, r)
  <2>1. CASE frames' = Rest(r, f) /\ home' = home
    BY <1>4, <2>1 DEF Heard
  <2>2. CASE \E g : frames' = Rest(r, f) \cup {g} /\ Further(f, r, g, dst)
    BY <1>4, <2>2 DEF Heard, Further
  <2>. QED BY <1>2, <1>4, <2>1, <2>2, ForwardGoesOn
<1>5. CASE frames' = Rest(r, f) /\ home' = home /\ handed' = handed \cup {Way(r, f)}
  <2>1. Heard(f, r)
    BY <1>5 DEF Heard
  <2>. QED BY <2>1
<1>. HIDE DEF dst
<1>. QED BY <1>a, <1>3, <1>4, <1>5 DEF arrived, dst, Way

LEMMA HeardKeepsOne ==
    ASSUME CopyInv, FramesInv', NEW f \in frames, NEW r \in f.hears, Heard(f, r)
    PROVE  /\ OnTheCable' /\ NewWays' /\ OneOfAWay' /\ HomeIsTheEnd' /\ WaysTaken' /\ OneCopy'
<1>. DEFINE w == Way(r, f)
<1>1. /\ r \in Routers /\ f.path \in Seq(Routers) /\ Been \subseteq Seq(Routers)
      /\ \A g \in frames : g.path \in Seq(Routers) /\ g.hears \subseteq Routers
  BY WaysAreWays DEF CopyInv
<1>2. /\ w \in Seq(Routers) /\ w # <<>> /\ At(w) = r
      /\ \A q \in Seq(Routers) : /\ Begins(q, w) => q = w \/ Begins(q, f.path)
                                 /\ Begins(w, q) => Begins(f.path, q)
      /\ ~Begins(w, f.path) /\ Begins(w, w)
  BY <1>1, WaysGrow DEF Way
<1>3. home \subseteq Been /\ handed \subseteq Been /\ \A g \in frames : g.path \in Been
  BY DEF Been
\* The way is new, and what begins like it ended at home.
<1>4. /\ \A q \in Been : ~Begins(w, q)
      /\ \A q \in home \cup handed : Begins(q, f.path) => q = f.path /\ AtHome(f)
      /\ Awaited(f)
  BY DEF CopyInv, NewWays, HomeIsTheEnd, Awaited
<1>5. AtHome(f) => f.link[1] = "Port"
  BY DEF AtHome
<1>6. /\ handed' \subseteq handed \cup {w} /\ home' \subseteq home \cup {w}
      /\ home' # home => ~AtHome(f)
  BY DEF Heard
<1>7. WaysTaken'
  BY <1>2, <1>6 DEF CopyInv, WaysTaken
<1>8. OneCopy'
  <2>1. ASSUME NEW q \in handed, Begins(q, w), At(q) = r PROVE q = w
    <3>1. q = w \/ (q = f.path /\ AtHome(f))
      BY <1>1, <1>2, <1>3, <1>4, <2>1
    <3>2. q # <<>> /\ (f.path # <<>> /\ AtHome(f) => At(f.path) \notin f.hears)
      BY <1>5 DEF CopyInv, WaysTaken, OnTheCable
    <3>. QED BY <2>1, <3>1, <3>2
  <2>2. ASSUME NEW q \in home, ~AtHome(f) PROVE ~Begins(q, w)
    <3>1. q # w
      BY <1>2, <1>3, <1>4
    <3>. QED BY <1>1, <1>2, <1>3, <1>4, <2>2, <3>1
  <2>. HIDE DEF w
  <2>3. ASSUME NEW p \in home', NEW q \in home', Begins(p, q) PROVE p = q
    <3>1. CASE p \in home /\ q \in home
      BY <2>3, <3>1 DEF CopyInv, OneCopy
    <3>2. CASE p = w /\ q \in home
      BY <1>3, <1>4, <2>3, <3>2
    <3>3. CASE p \in home /\ q = w /\ w \notin home
      BY <1>6, <2>2, <2>3, <3>3
    <3>. QED BY <1>6, <3>1, <3>2, <3>3
  <2>4. ASSUME NEW p \in handed', NEW q \in handed', Begins(p, q), At(p) = At(q) PROVE p = q
    <3>1. CASE p \in handed /\ q \in handed
      BY <2>4, <3>1 DEF CopyInv, OneCopy
    <3>2. CASE p = w /\ q \in handed
      BY <1>3, <1>4, <2>4, <3>2
    <3>3. CASE p \in handed /\ q = w
      BY <1>2, <2>1, <2>4, <3>3
    <3>. QED BY <1>6, <3>1, <3>2, <3>3
  <2>. QED BY <2>3, <2>4 DEF OneCopy
\* The copies there are then: old ones, the rest of f, and the new one.
<1>9. ASSUME NEW g \in frames'
      PROVE  \/ g \in frames \ {f}
             \/ /\ g.hears = f.hears \ {r} /\ g.link = f.link /\ g.path = f.path
                /\ AtHome(g) <=> AtHome(f)
                /\ g = Frame(f.link, f.hears \ {r}, f.hops, f.dst, f.path)
             \/ /\ ~AtHome(f) /\ g.path = w
                /\ g.link[1] = "Port" => g.hears \subseteq Attached[g.link[2]] /\ r \notin g.hears
                /\ home' # home \/ handed' # handed => AtHome(g)
                /\ \A h \in frames' : h.path = w => h = g
  <2>1. CASE g \in Rest(r, f)
    BY <2>1, RestIsFewer
  <2>2. CASE g \notin Rest(r, f)
    <3>1. /\ frames' = Rest(r, f) \cup {g} /\ ~AtHome(f) /\ g.path = w
          /\ g.link[1] = "Port" => g.hears \subseteq Attached[g.link[2]] /\ r \notin g.hears
          /\ home' # home \/ handed' # handed => AtHome(g)
      BY <2>2 DEF Heard
    <3>2. ASSUME NEW h \in Rest(r, f) PROVE h.path # w
      <4>1. h.path \in Been
        <5>1. h \in frames \/ h.path = f.path
          BY RestIsFewer
        <5>. QED BY <1>3, <5>1
      <4>. HIDE DEF w
      <4>. QED BY <1>2, <1>4, <4>1
    <3>. HIDE DEF w
    <3>. QED BY <3>1, <3>2
  <2>. QED BY <2>1, <2>2
<1>. HIDE DEF w
<1>10. OnTheCable'
  <2>. SUFFICES ASSUME NEW g \in frames', g.link[1] = "Port"
                PROVE  /\ g.hears \subseteq Attached[g.link[2]]
                       /\ g.path # <<>> => At(g.path) \notin g.hears
    BY DEF OnTheCable
  <2>. QED BY <1>2, <1>9 DEF CopyInv, OnTheCable
<1>11. OneOfAWay'
  <2>. SUFFICES ASSUME NEW g \in frames', NEW h \in frames', Awaited(g), Awaited(h), g.path = h.path
                PROVE  g = h
    BY DEF OneOfAWay, Awaited
  <2>1. \A k \in frames : k.path # w
    BY <1>2, <1>3, <1>4
  <2>2. \A k \in frames : Awaited(k) /\ k.path = f.path => k = f
    BY <1>4 DEF CopyInv, OneOfAWay
  <2>3. CASE g.path = w
    <3>1. f.path # w
      BY <2>1
    <3>. QED BY <1>9, <2>1, <2>3, <3>1
  <2>4. CASE g.path # w
    <3>1. CASE g.path = f.path
      BY <1>9, <2>2, <2>4, <3>1
    <3>2. CASE g.path # f.path
      <4>1. g \in frames /\ h \in frames
        BY <1>9, <2>4, <3>2
      <4>. QED BY <4>1 DEF CopyInv, OneOfAWay
    <3>. QED BY <3>1, <3>2
  <2>. QED BY <2>3, <2>4
\* Whoever is yet to hear a copy, of old ones another one than r of f.
<1>12. ASSUME NEW g \in frames', NEW s \in g.hears
       PROVE  \/ g.path = w
              \/ \E h \in frames : /\ s \in h.hears /\ h.path = g.path /\ (AtHome(g) <=> AtHome(h))
                                   /\ h = f => s # r
  BY <1>9
<1>13. \A q \in Been' : q \in Been \/ q = w
  <2>1. \A g \in frames' : g.path \in Been \/ g.path = w
    BY <1>3, <1>9
  <2>. QED BY <1>3, <1>6, <2>1 DEF Been
<1>14. NewWays'
  <2>. SUFFICES ASSUME NEW g \in frames', NEW s \in g.hears, NEW q \in Been', Begins(Way(s, g), q)
                PROVE  FALSE
    BY DEF NewWays, Way
  <2>1. s \in Routers /\ g.path \in Seq(Routers) /\ q \in Seq(Routers)
    <3>1. FramesInv' => g \in Frames'
      BY DEF FramesInv, TypeOK
    <3>. QED BY <1>1, <1>2, <1>13, <3>1 DEF Frames
  <2>2. CASE g.path = w
    <3>1. Begins(w, q)
      BY <2>1, <2>2, WaysGrow DEF Way
    <3>2. q = w
      BY <1>4, <1>13, <3>1
    <3>. QED BY <2>1, <2>2, <3>2, WaysGrow DEF Way
  <2>3. ASSUME NEW h \in frames, s \in h.hears, h.path = g.path, h = f => s # r PROVE FALSE
    <3>1. ~Begins(Way(s, h), q) \/ q = w
      BY <1>13, <2>3 DEF CopyInv, NewWays
    <3>2. q = w /\ Way(s, h) = Way(s, g)
      BY <3>1, <2>3 DEF Way
    <3>3. Way(s, h) = w \/ Begins(Way(s, h), f.path)
      BY <1>2, <2>1, <2>3, <3>2, WaysGrow DEF Way
    <3>4. Way(s, h) = w
      BY <1>3, <2>3, <3>3 DEF CopyInv, NewWays
    <3>5. s = r
      <4>1. At(Append(h.path, s)) = s
        BY <1>1, <2>1, <2>3, WaysGrow
      <4>. QED BY <1>2, <3>4, <4>1 DEF Way
    <3>6. h.path = f.path
      <4>1. Begins(h.path, f.path) /\ Begins(f.path, h.path)
        <5>1. Begins(h.path, w) /\ Begins(f.path, Way(s, h))
          BY <1>1, <1>2, <2>1, <2>3, <3>4, WaysGrow DEF Way
        <5>2. h.path # w /\ f.path # Way(s, h)
          BY <1>1, <1>2, <1>3, <1>4, <2>3, <3>4
        <5>. QED BY <1>1, <1>2, <2>1, <2>3, <5>1, <5>2, WaysGrow DEF Way
      <4>. QED BY <1>1, <2>3, <4>1 DEF Begins
    <3>7. h = f
      BY <1>4, <2>3, <3>6 DEF CopyInv, OneOfAWay, Awaited
    <3>. QED BY <2>3, <3>5, <3>7
  <2>. QED BY <1>12, <2>2, <2>3
<1>15. HomeIsTheEnd'
  <2>. SUFFICES ASSUME NEW g \in frames', Awaited(g), NEW q \in (home \cup handed)', Begins(q, g.path)
                PROVE  q = g.path /\ AtHome(g)
    BY DEF HomeIsTheEnd, Awaited, AtHome, Named
  <2>0. PICK s \in g.hears : TRUE
    BY DEF Awaited
  <2>1. q \in Seq(Routers) /\ (q \in home \cup handed \/ q = w)
    BY <1>1, <1>2, <1>3, <1>6
  <2>2. CASE g.path = w
    <3>1. ~AtHome(f) /\ (home' # home \/ handed' # handed => AtHome(g))
      <4>1. \A k \in frames : k.path # w
        BY <1>2, <1>3, <1>4
      <4>. QED BY <1>9, <2>2, <4>1
    <3>2. q \notin home \cup handed
      <4>1. q # w => (q \in home \cup handed => ~Begins(q, w))
        BY <1>2, <1>4, <2>1, <3>1
      <4>2. w \notin home \cup handed
        BY <1>2, <1>3, <1>4
      <4>. QED BY <2>2, <4>1, <4>2
    <3>. QED BY <2>1, <2>2, <3>1, <3>2
  <2>3. CASE g.path # w
    <3>1. PICK h \in frames : s \in h.hears /\ h.path = g.path /\ (AtHome(g) <=> AtHome(h))
      BY <1>12, <2>3
    <3>2. q # w
      BY <1>3, <1>4, <3>1
    <3>. QED BY <2>1, <3>1, <3>2 DEF CopyInv, HomeIsTheEnd, Awaited
  <2>. QED BY <2>2, <2>3
<1>. QED BY <1>7, <1>8, <1>10, <1>11, <1>14, <1>15

LEMMA InitIsOne ==
    ASSUME ForwardInit
    PROVE  OnTheCable /\ NewWays /\ OneOfAWay /\ HomeIsTheEnd /\ WaysTaken /\ OneCopy
<1>. DEFINE start == <<>>
<1>0. home = {} /\ handed = {} /\ start \in Seq(Routers)
  BY DEF ForwardInit
<1>1. PICK dst \in Dsts :
        \/ \E n \in Nets, h \in FirstHops : \E first \in Attached[n] :
            \E S \in Hearers("Host", n, first) : frames = {Frame(<<"Port", n>>, S, h, dst, start)}
        \/ \E r \in Routers :
            dst.net # 0 /\ frames = {Frame(<<"Local", r>>, {r}, 0, dst, start)}
  BY DEF ForwardInit
<1>2. \E g : /\ frames = {g} /\ g.path = start
             /\ g.link[1] = "Port" => g.hears \subseteq Attached[g.link[2]]
  <2>. HIDE DEF start
  <2>1. ASSUME NEW n \in Nets, NEW h \in FirstHops, NEW first \in Attached[n],
               NEW S \in Hearers("Host", n, first), frames = {Frame(<<"Port", n>>, S, h, dst, start)}
        PROVE  \E g : /\ frames = {g} /\ g.path = start
                      /\ g.link[1] = "Port" => g.hears \subseteq Attached[g.link[2]]
    <3>1. S \subseteq Attached[n]
      BY HearersFacts
    <3>. QED BY <2>1, <3>1, FrameFields
  <2>2. ASSUME NEW r \in Routers, frames = {Frame(<<"Local", r>>, {r}, 0, dst, start)}
        PROVE  \E g : /\ frames = {g} /\ g.path = start
                      /\ g.link[1] = "Port" => g.hears \subseteq Attached[g.link[2]]
    BY <2>2, FrameFields
  <2>. QED BY <1>1, <2>1, <2>2
<1>3. PICK g : /\ frames = {g} /\ g.path = start
               /\ g.link[1] = "Port" => g.hears \subseteq Attached[g.link[2]]
  BY <1>2
<1>4. Been = {start} /\ g.hears \subseteq Routers
  <2>1. ForwardInit => FramesInv
    BY FramesInit
  <2>. QED BY <1>0, <1>3, <2>1, WaysAreWays DEF Been
<1>5. NewWays
  <2>1. \A r \in Routers : ~Begins(Append(start, r), start)
    BY <1>0, WaysGrow
  <2>. HIDE DEF start
  <2>. QED BY <1>3, <1>4, <2>1 DEF NewWays, Way
<1>. QED BY <1>0, <1>3, <1>5 DEF OnTheCable, OneOfAWay, HomeIsTheEnd, WaysTaken, OneCopy

\* For any internet, any tables, changing at any time, and whoever hears a frame
\* that was not for it: a copy that has got to its network, or to the services of
\* a router, does not come there again, and no router makes two of what it hears
\* once.  A broadcast a router hears on the cable it is meant for is not sent
\* there again (arrived, forward).
THEOREM NoDuplicates == ForwardSpec => []OneCopy
<1>1. ForwardInit => CopyInv
  BY FramesInit, InitIsOne DEF CopyInv
<1>2. CopyInv /\ [ForwardNext]_forwardVars => CopyInv'
  <2>1. CopyInv /\ UNCHANGED forwardVars => CopyInv'
    BY DEF forwardVars, CopyInv, FramesInv, TypeOK, CrossedFew, NamedOnCable, OnTheCable, NewWays, OneOfAWay,
           HomeIsTheEnd, WaysTaken, OneCopy, Awaited, AtHome, Named, Been
  <2>2. CopyInv /\ Claim => CopyInv'
    BY ClaimKeeps DEF Claim, CopyInv, OnTheCable, NewWays, OneOfAWay, HomeIsTheEnd, WaysTaken, OneCopy,
                      Awaited, AtHome, Named, Been
  <2>3. CopyInv /\ Hear => CopyInv'
    BY HearKeeps, HearIsHeard, HeardKeepsOne DEF CopyInv
  <2>. QED BY <2>1, <2>2, <2>3 DEF ForwardNext
<1>3. CopyInv => OneCopy
  BY DEF CopyInv
<1>. QED BY <1>1, <1>2, <1>3, PTL DEF ForwardSpec
=============================================================================
