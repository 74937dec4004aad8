------------------------- MODULE Configuration_proofs -------------------------
(***************************************************************************)
(* What TLAPS proves of Configuration and of ZoneExchange.                  *)
(*                                                                         *)
(* Configuration, for any files, flags and lists: a router runs only with   *)
(* ports the routing table can be built on, and, with one import at a time, *)
(* no file is left half written and an import changes nothing but peers.    *)
(* What merge_peers makes of a list of any length is proved by induction    *)
(* over its lines.                                                          *)
(*                                                                         *)
(* ZoneExchange, for any networks, lists and packet size: a zone list taken *)
(* as complete is whole, but where the sender answers with a part of it.    *)
(* What zi_pages makes of any number of lists is proved by induction over   *)
(* the networks asked for.                                                  *)
(***************************************************************************)
EXTENDS Configuration, ZoneExchange, TLAPS, NaturalsInduction, WellFoundedInduction,
        FiniteSetTheorems, SequenceTheorems

\* Imports share the name of the file they write to, so they run one by one.
OneAtATime == \A i, j \in Importers : i = j

Text(t) == t \in {Absent, Garbage, Half} \/ IsDocument(t)

\* What an import is to write differs from what it has read in peers alone.
ImportOK(m) ==
    \/ m = Idle
    \/ /\ m.pc = "read" /\ m = [pc |-> "read", path |-> m.path, lines |-> m.lines]
       /\ m.path \in Files /\ m.lines \in Lists
    \/ /\ m.pc \in {"open", "write", "rename"} /\ m.path \in Files
       /\ m = [pc |-> m.pc, path |-> m.path, text |-> m.text, doc |-> m.doc]
       /\ IsDocument(m.text) /\ IsDocument(m.doc)
       /\ m.doc.set = m.text.set /\ m.doc.ports = m.text.ports
       /\ AddsOnly(m.text.peers, m.doc.peers)

TypeOK ==
    /\ file = [f \in Files |-> file[f]] /\ tmp = [f \in Files |-> tmp[f]]
    /\ import = [i \in Importers |-> import[i]]
    /\ \A f \in Files : Text(file[f]) /\ Text(tmp[f])
    /\ \A i \in Importers : ImportOK(import[i])

\* No file is half written, and what an import puts in place is what it was
\* to write.
Whole ==
    /\ \A f \in Files : file[f] # Half
    /\ \A i \in Importers : import[i].pc = "rename" => tmp[import[i].path] = import[i].doc

\* The ports a router runs with are of the kind they are listed under.
RunningOK ==
    running # None =>
        /\ validate(running)
        /\ \A k \in ToSet(Kinds) : /\ running.ports[k] \in Seq(PortSpec)
                                   /\ \A p \in ToSet(running.ports[k]) : net_of(k, p.net)
-----------------------------------------------------------------------------
(* Induction: a set of numbers has a least one, and what goes from each     *)
(* number to the next can be followed to any.                               *)

LEMMA LeastNumber ==
    ASSUME NEW T, T \subseteq Nat, T # {}
    PROVE  \E n \in T : \A m \in T : n <= m
  <1>. DEFINE R == OpToRel(<, Nat)
  <1>1. IsWellFoundedOn(R, Nat)
    BY NatLessThanWellFounded
  <1>2. \A p : p \in R <=> p \in Nat \X Nat /\ p[1] < p[2]
    BY DEF OpToRel
  <1>. HIDE DEF R
  <1>3. PICK n \in T : \A m \in T : ~ (<<m, n>> \in R)
    BY <1>1, WFMin
  <1>4. ASSUME NEW m \in T PROVE n <= m
    <2>1. <<m, n>> \in Nat \X Nat /\ <<m, n>>[1] = m /\ <<m, n>>[2] = n
      OBVIOUS
    <2>2. ~(m < n)
      BY <2>1, <1>2, <1>3
    <2>. QED  BY <2>2
  <1>. QED  BY <1>4

\* Good is a set of numbers with 0 and, below len, with n the next.
LEMMA Induction ==
    ASSUME NEW len \in Nat, NEW Good, 0 \in Good,
           \A n \in 0..(len - 1) : n \in Good => n + 1 \in Good
    PROVE  0..len \subseteq Good
  <1>. DEFINE Bad == {n \in 0..len : n \notin Good}
  <1>. SUFFICES ASSUME Bad # {} PROVE FALSE
    OBVIOUS
  <1>1. PICK n \in Bad : \A m \in Bad : n <= m
    <2>1. Bad \subseteq Nat
      OBVIOUS
    <2>. HIDE DEF Bad
    <2>. QED  BY <2>1, LeastNumber
  <1>2. n \in 0..len /\ n \notin Good /\ n # 0
    BY <1>1
  <1>3. n - 1 \in 0..(len - 1) /\ n - 1 \in 0..len /\ ~(n <= n - 1)
    BY <1>2
  <1>4. n - 1 \in Good
    BY <1>1, <1>3
  <1>. QED  BY <1>2, <1>3, <1>4

\* f goes from base through what step[<<n, x>>] says follows x at n.
Follows(f, len, S, base, step) ==
    f \in [0..len -> S] /\ f[0] = base /\ \A n \in 1..len : f[n] = step[<<n, f[n - 1]>>]

LEMMA Recursion ==
    ASSUME NEW len \in Nat, NEW S, NEW base \in S, NEW step,
           \A n \in 1..len, x \in S : step[<<n, x>>] \in S
    PROVE  \E f : Follows(f, len, S, base, step)
  <1>. DEFINE Is(n, f) == /\ f \in [0..n -> S] /\ f[0] = base
                          /\ \A m \in 1..n : f[m] = step[<<m, f[m - 1]>>]
              Good == {n \in 0..len : \E f : Is(n, f)}
  <1>1. 0 \in Good
    <2>1. Is(0, [n \in 0..0 |-> base])
      OBVIOUS
    <2>2. 0 \in 0..len
      OBVIOUS
    <2>. HIDE DEF Is
    <2>. QED  BY <2>1, <2>2
  <1>2. ASSUME NEW n \in 0..(len - 1), n \in Good
        PROVE  n + 1 \in Good
    <2>1. PICK f : Is(n, f)
      BY <1>2
    <2>2. n \in Nat /\ n + 1 \in 1..len /\ f[n] \in S /\ step[<<n + 1, f[n]>>] \in S
      BY <2>1
    <2>. DEFINE g == [m \in 0..(n + 1) |-> IF m = n + 1 THEN step[<<n + 1, f[n]>>] ELSE f[m]]
    <2>3. g \in [0..(n + 1) -> S] /\ g[0] = base
      BY <2>1, <2>2
    <2>4. ASSUME NEW m \in 1..(n + 1) PROVE g[m] = step[<<m, g[m - 1]>>]
      <3>1. m \in 0..(n + 1) /\ m - 1 \in 0..(n + 1) /\ m - 1 # n + 1
        BY <2>2
      <3>2. g[m - 1] = f[m - 1]
        BY <3>1
      <3>3. CASE m = n + 1
        BY <3>1, <3>2, <3>3, <2>2
      <3>4. CASE m # n + 1
        <4>1. m \in 1..n
          BY <3>4, <2>2
        <4>2. g[m] = f[m]
          BY <3>1, <3>4
        <4>. QED  BY <4>1, <4>2, <3>2, <2>1
      <3>. QED  BY <3>3, <3>4
    <2>5. Is(n + 1, g)
      BY <2>3, <2>4
    <2>. HIDE DEF g, Is
    <2>. QED  BY <2>2, <2>5
  <1>. HIDE DEF Is
  <1>3. 0..len \subseteq Good
    <2>. HIDE DEF Good
    <2>. QED  BY <1>1, <1>2, Induction
  <1>4. len \in Good
    BY <1>3
  <1>. QED  BY <1>4 DEF Is, Follows

-----------------------------------------------------------------------------
(* What merge_peers makes of a list.                                        *)

LEMMA PrefixFacts ==
    ASSUME NEW S, NEW s \in Seq(S), NEW t \in Seq(S)
    PROVE  IsPrefix(s, t) <=> Len(s) <= Len(t) /\ \A i \in 1..Len(s) : s[i] = t[i]
  <1>1. SubSeq(s, 1, Len(s)) = s
    OBVIOUS
  <1>2. Len(s) \in Nat /\ Len(t) \in Nat
    OBVIOUS
  <1>. SUFFICES ASSUME Len(s) <= Len(t)
                PROVE  SubSeq(t, 1, Len(s)) = s <=> \A i \in 1..Len(s) : s[i] = t[i]
    BY <1>1, <1>2 DEF IsPrefix
  <1>3. /\ SubSeq(t, 1, Len(s)) \in Seq(S) /\ Len(SubSeq(t, 1, Len(s))) = Len(s)
        /\ \A i \in 1..Len(s) : SubSeq(t, 1, Len(s))[i] = t[i]
    BY <1>2
  <1>4. ASSUME \A i \in 1..Len(s) : s[i] = t[i] PROVE SubSeq(t, 1, Len(s)) = s
    <2>. DEFINE u == SubSeq(t, 1, Len(s))
    <2>1. u \in Seq(S) /\ Len(u) = Len(s) /\ \A i \in 1..Len(s) : u[i] = s[i]
      BY <1>3, <1>4
    <2>. HIDE DEF u
    <2>2. u = s
      BY <2>1, SeqEqual
    <2>. QED  BY <2>2 DEF u
  <1>. QED  BY <1>3, <1>4

\* Nothing added, and one host that was not known.
LEMMA AddsNothing == ASSUME NEW p \in Seq(Spelled) PROVE AddsOnly(p, p)
BY PrefixFacts DEF AddsOnly

LEMMA AddsOne ==
    ASSUME NEW p \in Seq(Spelled), NEW q \in Seq(Spelled), NEW h \in Spelled, AddsOnly(p, q), ~Known(h, q)
    PROVE  AddsOnly(p, Append(q, h))
  <1>. DEFINE r == Append(q, h)
  <1>1. /\ r \in Seq(Spelled) /\ Len(r) = Len(q) + 1 /\ r[Len(q) + 1] = h
        /\ \A i \in 1..Len(q) : r[i] = q[i]
    OBVIOUS
  <1>2. Len(q) \in Nat /\ Len(p) \in Nat
    OBVIOUS
  <1>3. Len(p) <= Len(q) /\ \A i \in 1..Len(p) : p[i] = q[i]
    BY PrefixFacts DEF AddsOnly
  <1>4. \A i \in 1..Len(q) : Lower[q[i]] # Lower[h]
    BY DEF Known, ToSet
  <1>. HIDE DEF r
  <1>5. IsPrefix(p, r)
    <2>1. Len(p) <= Len(r) /\ \A i \in 1..Len(p) : p[i] = r[i]
      BY <1>1, <1>2, <1>3
    <2>. QED  BY <2>1, <1>1, PrefixFacts
  <1>6. ASSUME NEW j \in (Len(p) + 1)..Len(r), NEW k \in 1..(j - 1)
        PROVE  Lower[r[j]] # Lower[r[k]]
    <2>1. k \in 1..Len(q) /\ r[k] = q[k]
      BY <1>1, <1>2
    <2>2. CASE j = Len(q) + 1
      BY <2>1, <2>2, <1>1, <1>4
    <2>3. CASE j # Len(q) + 1
      <3>1. j \in (Len(p) + 1)..Len(q) /\ j \in 1..Len(q)
        BY <2>3, <1>1, <1>2
      <3>. QED  BY <2>1, <3>1, <1>1 DEF AddsOnly
    <2>. QED  BY <2>2, <2>3
  <1>. QED  BY <1>5, <1>6 DEF AddsOnly, r

\* The peers of the file stay, in their order, and no line adds one of them
\* or of the lines before it again.
LEMMA MergePeersFacts ==
    ASSUME NEW peers \in Seq(Spelled), NEW lines \in Lists
    PROVE  merge_peers(peers, lines) \in Seq(Spelled) /\ AddsOnly(peers, merge_peers(peers, lines))
  <1>. DEFINE len == Len(lines)
              After(n, p) == IF ~is_host(lines[n]) \/ Known(lines[n], p) THEN p ELSE Append(p, lines[n])
              Merged(f) == f = [n \in 0..len |-> IF n = 0 THEN peers ELSE
                                  IF ~is_host(lines[n]) \/ Known(lines[n], f[n - 1]) THEN f[n - 1]
                                  ELSE Append(f[n - 1], lines[n])]
              step == [x \in (1..len) \X Seq(Spelled) |-> After(x[1], x[2])]
              merged == CHOOSE f : Merged(f)
  <1>1. len \in Nat
    BY ConfigurationAssumption
  <1>2. \A n, p : p \in Seq(Spelled) => After(n, p) \in Seq(Spelled)
    BY ConfigurationAssumption DEF is_host
  <1>3. /\ step \in [(1..len) \X Seq(Spelled) -> Seq(Spelled)]
        /\ \A n \in 1..len, p \in Seq(Spelled) : step[<<n, p>>] = After(n, p)
    BY <1>2
  <1>4. PICK f \in [0..len -> Seq(Spelled)] :
            f[0] = peers /\ \A n \in 1..len : f[n] = step[<<n, f[n - 1]>>]
    <2>. DEFINE S == Seq(Spelled)
    <2>1. peers \in S /\ \A n \in 1..len, x \in S : step[<<n, x>>] \in S
      BY <1>2, <1>3
    <2>. HIDE DEF step, len, S
    <2>2. \E f : Follows(f, len, S, peers, step)
      BY <1>1, <2>1, Recursion
    <2>. QED  BY <2>2 DEF S, Follows
  <1>5. \A n \in 1..len : f[n - 1] \in Seq(Spelled) /\ f[n] = After(n, f[n - 1])
    <2>. SUFFICES ASSUME NEW n \in 1..len PROVE f[n - 1] \in Seq(Spelled) /\ f[n] = After(n, f[n - 1])
      OBVIOUS
    <2>. HIDE DEF step, After, len
    <2>1. n - 1 \in 0..len
      BY <1>1
    <2>. QED  BY <2>1, <1>3, <1>4
  <1>6. Merged(f)
    <2>1. ASSUME NEW n \in 0..len
          PROVE  f[n] = IF n = 0 THEN peers ELSE
                          IF ~is_host(lines[n]) \/ Known(lines[n], f[n - 1]) THEN f[n - 1]
                          ELSE Append(f[n - 1], lines[n])
      <3>1. CASE n = 0
        BY <3>1, <1>4
      <3>2. CASE n # 0
        <4>1. n \in 1..len
          BY <3>2, <1>1
        <4>. QED  BY <3>2, <4>1, <1>5
      <3>. QED  BY <3>1, <3>2
    <2>. HIDE DEF step, merged, len
    <2>. QED  BY <2>1, <1>4
  <1>7. Merged(merged)
    <2>. HIDE DEF Merged
    <2>. QED  BY <1>6
  <1>8. merge_peers(peers, lines) = merged[len]
    BY DEF merge_peers


  <1>. DEFINE Good == {n \in 0..len : merged[n] \in Seq(Spelled) /\ AddsOnly(peers, merged[n])}
  <1>9. merged[0] = peers /\ \A n \in 1..len : merged[n] = After(n, merged[n - 1])
    <2>. HIDE DEF merged, len
    <2>1. ASSUME NEW g, Merged(g)
          PROVE  g[0] = peers /\ \A n \in 1..len : g[n] = After(n, g[n - 1])
      <3>1. 0 \in 0..len /\ \A n \in 1..len : n \in 0..len /\ n # 0
        BY <1>1
      <3>2. \A n \in 0..len : g[n] = IF n = 0 THEN peers ELSE After(n, g[n - 1])
        BY <2>1
      <3>. HIDE DEF After, Merged
      <3>. QED  BY <3>1, <3>2
    <2>. HIDE DEF Merged
    <2>. QED  BY <2>1, <1>7
  <1>10. 0 \in Good
    <2>. HIDE DEF merged, len
    <2>. QED  BY <1>1, <1>9, AddsNothing
  <1>11. ASSUME NEW n \in 0..(len - 1), n \in Good PROVE n + 1 \in Good
    <2>. HIDE DEF merged, len
    <2>1. n + 1 \in 1..len /\ n + 1 \in 0..len /\ (n + 1) - 1 = n
      BY <1>1
    <2>2. merged[n + 1] = After(n + 1, merged[n])
      BY <2>1, <1>9
    <2>3. After(n + 1, merged[n]) \in Seq(Spelled)
      BY <1>2, <1>11
    <2>4. AddsOnly(peers, After(n + 1, merged[n]))
      BY <1>11, AddsOne, ConfigurationAssumption DEF is_host
    <2>. HIDE DEF After
    <2>. QED  BY <2>1, <2>2, <2>3, <2>4
  <1>. HIDE DEF merged, len, Good
  <1>12. 0..len \subseteq Good
    BY <1>1, <1>10, <1>11, Induction
  <1>13. len \in Good
    BY <1>1, <1>12
  <1>. QED  BY <1>8, <1>13 DEF Good

-----------------------------------------------------------------------------
(* What the variables hold, however many imports run.                       *)

LEMMA KindsAre == ToSet(Kinds) = {"ethertalk", "ltoudp", "tashtalk"}
<1>1. DOMAIN Kinds = 1..3
  BY DEF Kinds
<1>2. 1..3 = {1, 2, 3}
  OBVIOUS
<1>. QED  BY <1>1, <1>2 DEF ToSet, Kinds

LEMMA EmptyIsDocument == IsDocument(Empty)
<1>1. <<>> \in Seq(Spelled) /\ <<>> \in Seq(PortSpec)
  OBVIOUS
<1>. HIDE DEF PortSpec
<1>2. Empty.ports \in [ToSet(Kinds) -> Seq(PortSpec)]
  BY <1>1 DEF Empty
<1>. QED  BY <1>1, <1>2 DEF IsDocument, Empty

LEMMA DocumentsDiffer ==
    ASSUME NEW t, IsDocument(t)
    PROVE  t # Absent /\ t # Garbage /\ t # Half
<1>1. DOMAIN t = {"set", "peers", "ports"}
  BY DEF IsDocument
<1>2. DOMAIN Absent = {"holds"} /\ DOMAIN Garbage = {"holds"} /\ DOMAIN Half = {"holds"}
  BY DEF Absent, Garbage, Half
<1>3. "set" # "holds"
  OBVIOUS
<1>. QED  BY <1>1, <1>2, <1>3

LEMMA TextsDiffer == Absent # Garbage /\ Absent # Half /\ Garbage # Half
<1>1. Absent.holds # Garbage.holds /\ Absent.holds # Half.holds /\ Garbage.holds # Half.holds
  BY DEF Absent, Garbage, Half
<1>. QED  BY <1>1

\* The first of the files looked in that is there, or none is.
FirstThere ==
    \/ default_config = None /\ \A i \in 1..Len(DEFAULTS) : file[DEFAULTS[i]] = Absent
    \/ \E i \in 1..Len(DEFAULTS) :
          /\ default_config = DEFAULTS[i] /\ file[DEFAULTS[i]] # Absent
          /\ \A j \in 1..Len(DEFAULTS) : file[DEFAULTS[j]] # Absent => i <= j

LEMMA DefaultFacts == FirstThere
<1>. DEFINE there == {i \in DOMAIN DEFAULTS : file[DEFAULTS[i]] # Absent}
            first == CHOOSE i \in there : \A j \in there : i <= j
<1>1. DOMAIN DEFAULTS = 1..Len(DEFAULTS) /\ Len(DEFAULTS) \in Nat
  BY ConfigurationAssumption
<1>2. CASE there = {}
  BY <1>1, <1>2 DEF default_config, FirstThere
<1>3. CASE there # {}
  <2>1. there \subseteq Nat
    BY <1>1
  <2>2. \E i \in there : \A j \in there : i <= j
    <3>. HIDE DEF there
    <3>. QED  BY <2>1, <1>3, LeastNumber
  <2>3. first \in there /\ \A j \in there : first <= j
    <3>. HIDE DEF there
    <3>. QED  BY <2>2
  <2>4. default_config = DEFAULTS[first]
    BY <1>3 DEF default_config
  <2>. HIDE DEF first
  <2>. QED  BY <1>1, <2>3, <2>4 DEF FirstThere
<1>. QED  BY <1>2, <1>3

LEMMA DefaultFactsNext == FirstThere'
BY DefaultFacts, PTL

LEMMA FindFacts ==
    ASSUME NEW given \in Files \cup {None}
    PROVE  /\ find_config(given) \in Files \cup {None}
           /\ FileToImport(given) \in Files
<1>1. default_config \in Files \cup {None}
  BY DefaultFacts, ConfigurationAssumption DEF FirstThere
<1>2. Head(DEFAULTS) \in Files
  BY ConfigurationAssumption
<1>. QED  BY <1>1, <1>2 DEF find_config, FileToImport

\* A text parse_file accepts is a document.
LEMMA ParsedIsDocument ==
    ASSUME NEW t, Text(t), t # Absent, parse_file(t)
    PROVE  IsDocument(t)
BY DEF Text, parse_file


\* One import comes to m, and the other variables TypeOK is about stay.
LEMMA OneImport ==
    ASSUME TypeOK, NEW i \in Importers, NEW m, ImportOK(m),
           import' = [import EXCEPT ![i] = m], UNCHANGED <<file, tmp>>
    PROVE  TypeOK'
<1>1. DOMAIN import = Importers
  BY DEF TypeOK
<1>2. import' = [j \in Importers |-> import'[j]]
  BY <1>1
<1>3. \A j \in Importers : import'[j] = IF j = i THEN m ELSE import[j]
  BY <1>1
<1>. HIDE DEF ImportOK, Text
<1>4. \A j \in Importers : ImportOK(import'[j])
  BY <1>3 DEF TypeOK
<1>. QED  BY <1>2, <1>4 DEF TypeOK

LEMMA IdleOK == ImportOK(Idle)
BY DEF ImportOK

\* What an import that has read its configuration goes on with.
LEMMA HasRead ==
    ASSUME NEW m, ImportOK(m), m.pc \in {"open", "write", "rename"}
    PROVE  /\ m.path \in Files /\ IsDocument(m.text) /\ IsDocument(m.doc)
           /\ m.doc.set = m.text.set /\ m.doc.ports = m.text.ports
           /\ AddsOnly(m.text.peers, m.doc.peers)
           /\ m = [pc |-> m.pc, path |-> m.path, text |-> m.text, doc |-> m.doc]
BY DEF ImportOK, Idle

LEMMA ReadsToo ==
    ASSUME NEW m, ImportOK(m), m.pc = "read"
    PROVE  m.path \in Files /\ m.lines \in Lists
BY DEF ImportOK, Idle

LEMMA NextPc ==
    ASSUME NEW m, ImportOK(m), m.pc \in {"open", "write", "rename"},
           NEW pc \in {"open", "write", "rename"}
    PROVE  ImportOK([m EXCEPT !.pc = pc])
<1>. DEFINE n == [m EXCEPT !.pc = pc]
<1>1. n = [pc |-> pc, path |-> m.path, text |-> m.text, doc |-> m.doc]
  BY HasRead
<1>2. n.pc = pc /\ n.path = m.path /\ n.text = m.text /\ n.doc = m.doc
  BY <1>1
<1>. HIDE DEF n
<1>3. ImportOK(n)
  BY HasRead, <1>1, <1>2 DEF ImportOK
<1>. QED  BY <1>3 DEF n

LEMMA InitTypeOK == Init => TypeOK
BY IdleOK DEF Init, TypeOK, Text

LEMMA ImportListTypeOK ==
    ASSUME TypeOK, NEW i \in Importers, NEW given \in Files \cup {None}, NEW lines \in Lists,
           ImportList(i, given, lines)
    PROVE  TypeOK'
<1>. DEFINE m == [pc |-> "read", path |-> FileToImport(given), lines |-> lines]
<1>1. ImportOK(m)
  BY FindFacts DEF ImportOK
<1>. HIDE DEF m
<1>. QED  BY <1>1, OneImport DEF ImportList, m

LEMMA TextReadIs ==
    ASSUME TypeOK, NEW f \in Files, parse_file(TextRead(f))
    PROVE  IsDocument(TextRead(f))
BY EmptyIsDocument, ParsedIsDocument DEF TypeOK, TextRead

LEMMA ReadConfigTypeOK ==
    ASSUME TypeOK, NEW i \in Importers, ReadConfig(i)
    PROVE  TypeOK'
<1>. DEFINE text == TextRead(import[i].path)
            doc == [text EXCEPT !.peers = merge_peers(@, import[i].lines)]
            m == IF doc = text THEN Idle
                 ELSE [pc |-> "open", path |-> import[i].path, text |-> text, doc |-> doc]
<1>1. ImportOK(import[i]) /\ DOMAIN import = Importers
  BY DEF TypeOK
<1>2. import[i].path \in Files /\ import[i].lines \in Lists
  BY <1>1, ReadsToo DEF ReadConfig
<1>3. IsDocument(text)
  BY <1>2, TextReadIs DEF ReadConfig
<1>4. import' = [import EXCEPT ![i] = m] /\ UNCHANGED <<file, tmp>>
  BY <1>1 DEF ReadConfig
<1>. HIDE DEF text
<1>5. /\ merge_peers(text.peers, import[i].lines) \in Seq(Spelled)
      /\ AddsOnly(text.peers, merge_peers(text.peers, import[i].lines))
  BY <1>2, <1>3, MergePeersFacts DEF IsDocument
<1>6. /\ doc = [set |-> text.set, peers |-> merge_peers(text.peers, import[i].lines),
                ports |-> text.ports]
  BY <1>3 DEF IsDocument
<1>7. /\ doc.set = text.set /\ doc.ports = text.ports /\ IsDocument(doc)
      /\ doc.peers = merge_peers(text.peers, import[i].lines)
  BY <1>3, <1>5, <1>6 DEF IsDocument
<1>. HIDE DEF doc
<1>8. ImportOK(m)
  BY <1>2, <1>3, <1>5, <1>7, IdleOK DEF ImportOK
<1>. HIDE DEF m
<1>. QED  BY <1>4, <1>8, OneImport

LEMMA OpenTmpTypeOK ==
    ASSUME TypeOK, NEW i \in Importers, OpenTmp(i)
    PROVE  TypeOK'
<1>. DEFINE m == [import[i] EXCEPT !.pc = "write"]
<1>1. ImportOK(m)
  BY NextPc DEF OpenTmp, TypeOK
<1>2. import' = [import EXCEPT ![i] = m] /\ DOMAIN import = Importers /\ DOMAIN tmp = Files
  BY DEF OpenTmp, TypeOK
<1>. HIDE DEF m
<1>3. \A j \in Importers : import'[j] = IF j = i THEN m ELSE import[j]
  BY <1>2
<1>4. \A f \in Files : tmp'[f] \in {Half, tmp[f]}
  BY <1>2 DEF OpenTmp
<1>5. Text(Half)
  BY DEF Text
<1>. HIDE DEF ImportOK, Text
<1>6. (\A j \in Importers : ImportOK(import'[j])) /\ \A f \in Files : Text(tmp'[f])
  BY <1>1, <1>3, <1>4, <1>5 DEF TypeOK
<1>7. import' = [j \in Importers |-> import'[j]] /\ tmp' = [f \in Files |-> tmp'[f]]
  BY <1>2 DEF OpenTmp
<1>. QED  BY <1>6, <1>7 DEF TypeOK, OpenTmp

LEMMA WriteTmpTypeOK ==
    ASSUME TypeOK, NEW i \in Importers, WriteTmp(i)
    PROVE  TypeOK'
<1>. DEFINE m == [import[i] EXCEPT !.pc = "rename"]
<1>1. ImportOK(m) /\ IsDocument(import[i].doc)
  BY NextPc, HasRead DEF WriteTmp, TypeOK
<1>2. import' = [import EXCEPT ![i] = m] /\ DOMAIN import = Importers /\ DOMAIN tmp = Files
  BY DEF WriteTmp, TypeOK
<1>. HIDE DEF m
<1>3. \A j \in Importers : import'[j] = IF j = i THEN m ELSE import[j]
  BY <1>2
<1>4. \A f \in Files : tmp'[f] \in {import[i].doc, tmp[f]}
  BY <1>2 DEF WriteTmp
<1>5. Text(import[i].doc)
  BY <1>1 DEF Text
<1>. HIDE DEF ImportOK, Text
<1>6. (\A j \in Importers : ImportOK(import'[j])) /\ \A f \in Files : Text(tmp'[f])
  BY <1>1, <1>3, <1>4, <1>5 DEF TypeOK
<1>7. import' = [j \in Importers |-> import'[j]] /\ tmp' = [f \in Files |-> tmp'[f]]
  BY <1>2 DEF WriteTmp
<1>. QED  BY <1>6, <1>7 DEF TypeOK, WriteTmp

LEMMA RenameTypeOK ==
    ASSUME TypeOK, NEW i \in Importers, Rename(i)
    PROVE  TypeOK'
<1>1. DOMAIN import = Importers /\ DOMAIN tmp = Files /\ DOMAIN file = Files
  BY DEF TypeOK
<1>2. import[i].path \in Files
  BY HasRead DEF TypeOK, Rename
<1>3. \A j \in Importers : import'[j] \in {Idle, import[j]}
  BY <1>1 DEF Rename
<1>4. \A f \in Files : tmp'[f] \in {Absent, tmp[f]} /\ file'[f] \in {tmp[f], file[f]}
  BY <1>1 DEF Rename
<1>5. Text(Absent)
  BY DEF Text
<1>. HIDE DEF ImportOK, Text
<1>6. /\ \A j \in Importers : ImportOK(import'[j])
      /\ \A f \in Files : Text(tmp'[f]) /\ Text(file'[f])
  BY <1>3, <1>4, <1>5, IdleOK DEF TypeOK
<1>7. /\ import' = [j \in Importers |-> import'[j]] /\ tmp' = [f \in Files |-> tmp'[f]]
      /\ file' = [f \in Files |-> file'[f]]
  BY <1>1 DEF Rename
<1>. QED  BY <1>6, <1>7 DEF TypeOK

LEMMA EditTypeOK ==
    ASSUME TypeOK, NEW f \in Files, NEW text \in Written \cup {Absent}, Edit(f, text)
    PROVE  TypeOK'
<1>1. DOMAIN file = Files
  BY DEF TypeOK
<1>2. Text(text)
  BY ConfigurationAssumption DEF Text
<1>3. \A g \in Files : file'[g] \in {text, file[g]}
  BY <1>1 DEF Edit
<1>. HIDE DEF ImportOK, Text
<1>4. \A g \in Files : Text(file'[g])
  BY <1>2, <1>3 DEF TypeOK
<1>5. file' = [g \in Files |-> file'[g]]
  BY <1>1 DEF Edit
<1>. QED  BY <1>4, <1>5 DEF TypeOK, Edit

LEMMA NextTypeOK == TypeOK /\ [Next]_vars => TypeOK'
<1>. SUFFICES ASSUME TypeOK, [Next]_vars PROVE TypeOK'
  OBVIOUS
<1>1. ASSUME UNCHANGED <<file, tmp, import>> PROVE TypeOK'
  BY <1>1 DEF TypeOK, Text, ImportOK
<1>2. ASSUME NEW args \in Flags, Start(args) PROVE TypeOK'
  BY <1>1, <1>2 DEF Start
<1>3. CASE Stop
  BY <1>1, <1>3 DEF Stop
<1>4. ASSUME NEW i \in Importers, EndEarly(i) PROVE TypeOK'
  BY <1>4, IdleOK, OneImport DEF EndEarly
<1>5. CASE UNCHANGED vars
  BY <1>1, <1>5 DEF vars
<1>. QED
  BY <1>2, <1>3, <1>4, <1>5, ImportListTypeOK, ReadConfigTypeOK, OpenTmpTypeOK, WriteTmpTypeOK,
     RenameTypeOK, EditTypeOK DEF Next

-----------------------------------------------------------------------------
(* One import at a time: no file is left half written.                      *)

\* The import that runs comes to m and leaves its temporary file as it was, or
\* has it say what is to be put in place.
LEMMA StaysWhole ==
    ASSUME OneAtATime, TypeOK, Whole, NEW i \in Importers, NEW m,
           import' = [import EXCEPT ![i] = m],
           m.pc = "rename" => tmp'[m.path] = m.doc,
           \A f \in Files : file'[f] # Half
    PROVE  Whole'
<1>1. DOMAIN import = Importers /\ \A j \in Importers : j = i
  BY DEF TypeOK, OneAtATime
<1>2. \A j \in Importers : import'[j] = m
  BY <1>1
<1>. QED  BY <1>2 DEF Whole

LEMMA NextWhole ==
    ASSUME OneAtATime, TypeOK, Whole, [Next]_vars
    PROVE  Whole'
<1>1. /\ DOMAIN import = Importers /\ DOMAIN file = Files /\ DOMAIN tmp = Files
      /\ \A f \in Files : file[f] # Half
  BY DEF TypeOK, Whole
<1>2. ASSUME UNCHANGED <<file, tmp, import>> PROVE Whole'
  BY <1>2 DEF Whole
<1>3. ASSUME NEW args \in Flags, Start(args) PROVE Whole'
  BY <1>2, <1>3 DEF Start
<1>4. CASE Stop
  BY <1>2, <1>4 DEF Stop
<1>5. CASE UNCHANGED vars
  BY <1>2, <1>5 DEF vars
<1>6. ASSUME NEW i \in Importers, NEW given \in Files \cup {None}, NEW lines \in Lists,
             ImportList(i, given, lines)
      PROVE  Whole'
  <2>. DEFINE m == [pc |-> "read", path |-> FileToImport(given), lines |-> lines]
  <2>1. import' = [import EXCEPT ![i] = m] /\ UNCHANGED <<file, tmp>> /\ m.pc # "rename"
    BY <1>6 DEF ImportList
  <2>. HIDE DEF m
  <2>. QED  BY <1>1, <2>1, StaysWhole
<1>7. ASSUME NEW i \in Importers, ReadConfig(i) PROVE Whole'
  <2>. DEFINE m == import'[i]
  <2>1. import' = [import EXCEPT ![i] = m] /\ UNCHANGED <<file, tmp>> /\ m.pc # "rename"
    BY <1>1, <1>7 DEF ReadConfig, Idle
  <2>. HIDE DEF m
  <2>. QED  BY <1>1, <2>1, StaysWhole
<1>8. ASSUME NEW i \in Importers, OpenTmp(i) PROVE Whole'
  <2>. DEFINE m == import'[i]
  <2>1. m = [import[i] EXCEPT !.pc = "write"] /\ UNCHANGED file
    BY <1>1, <1>8 DEF OpenTmp
  <2>2. "pc" \in DOMAIN import[i]
    BY <1>8, HasRead DEF TypeOK, OpenTmp
  <2>3. import' = [import EXCEPT ![i] = m] /\ m.pc # "rename"
    BY <1>1, <1>8, <2>1, <2>2 DEF OpenTmp
  <2>. HIDE DEF m
  <2>. QED  BY <1>1, <2>1, <2>3, StaysWhole
<1>9. ASSUME NEW i \in Importers, WriteTmp(i) PROVE Whole'
  <2>. DEFINE m == import'[i]
  <2>1. m = [import[i] EXCEPT !.pc = "rename"] /\ UNCHANGED file
    BY <1>1, <1>9 DEF WriteTmp
  <2>2. import[i].path \in Files /\ m.path = import[i].path /\ m.doc = import[i].doc
    BY <1>9, <2>1, HasRead DEF TypeOK, WriteTmp
  <2>3. tmp'[m.path] = m.doc
    BY <1>1, <1>9, <2>2 DEF WriteTmp
  <2>4. import' = [import EXCEPT ![i] = m]
    BY <1>1, <1>9 DEF WriteTmp
  <2>. HIDE DEF m
  <2>. QED  BY <1>1, <2>1, <2>3, <2>4, StaysWhole
<1>10. ASSUME NEW i \in Importers, Rename(i) PROVE Whole'
  <2>1. import[i].path \in Files /\ IsDocument(import[i].doc)
    BY <1>10, HasRead DEF TypeOK, Rename
  <2>2. tmp[import[i].path] = import[i].doc /\ import[i].doc # Half
    BY <1>10, <2>1, DocumentsDiffer DEF Whole, Rename
  <2>3. \A f \in Files : file'[f] \in {file[f], import[i].doc}
    BY <1>1, <1>10, <2>2 DEF Rename
  <2>4. import' = [import EXCEPT ![i] = Idle] /\ Idle.pc # "rename"
    BY <1>10 DEF Rename, Idle
  <2>. QED  BY <1>1, <2>2, <2>3, <2>4, StaysWhole
<1>11. ASSUME NEW i \in Importers, EndEarly(i) PROVE Whole'
  <2>1. import' = [import EXCEPT ![i] = Idle] /\ UNCHANGED <<file, tmp>> /\ Idle.pc # "rename"
    BY <1>11 DEF EndEarly, Idle
  <2>. QED  BY <1>1, <2>1, StaysWhole
<1>12. ASSUME NEW f \in Files, NEW text \in Written \cup {Absent}, Edit(f, text) PROVE Whole'
  <2>1. text # Half
    BY ConfigurationAssumption, DocumentsDiffer, TextsDiffer
  <2>2. \A g \in Files : file'[g] \in {file[g], text}
    BY <1>1, <1>12 DEF Edit
  <2>. QED  BY <1>1, <1>12, <2>1, <2>2 DEF Whole, Edit
<1>. QED
  BY <1>3, <1>4, <1>5, <1>6, <1>7, <1>8, <1>9, <1>10, <1>11, <1>12 DEF Next

LEMMA InitWhole == Init => Whole
BY TextsDiffer DEF Init, Whole, Idle

(* With one import at a time a configuration file is always what somebody   *)
(* wrote or what a whole import made of it, wherever an import was          *)
(* interrupted (config.rs:513, write beside and rename).                    *)
THEOREM FilesStayWhole == OneAtATime => (Spec => []NeverHalf)
<1>. SUFFICES ASSUME OneAtATime PROVE Spec => []NeverHalf
  OBVIOUS
<1>1. Init => TypeOK /\ Whole
  BY InitTypeOK, InitWhole
<1>2. TypeOK /\ Whole /\ [Next]_vars => (TypeOK /\ Whole)'
  BY NextTypeOK, NextWhole
<1>3. TypeOK /\ Whole => NeverHalf
  BY DEF Whole, NeverHalf
<1>. QED  BY <1>1, <1>2, <1>3, PTL DEF Spec

-----------------------------------------------------------------------------
(* What a router runs with.                                                 *)

LEMMA TextForFacts ==
    ASSUME TypeOK, NEW args \in Flags
    PROVE  \/ find_config(args.config) = None /\ TextFor(args) = Empty
           \/ /\ find_config(args.config) \in Files
              /\ TextFor(args) = file[find_config(args.config)] /\ Text(TextFor(args))
BY FindFacts, ConfigurationAssumption DEF TextFor, TypeOK

\* A list merged from a file's and the flags' has what all of them have.
LEMMA MergedList ==
    ASSUME NEW S, NEW list \in Seq(S), NEW flags, flags.replace \in Seq(S), flags.add \in Seq(S)
    PROVE  /\ merge_list(list, flags) \in Seq(S)
           /\ ToSet(merge_list(list, flags)) \subseteq
                 ToSet(list) \cup ToSet(flags.replace) \cup ToSet(flags.add)
<1>1. <<>> \in Seq(S) /\ ToSet(<<>>) = {}
  BY DEF ToSet
<1>2. list \o flags.add \in Seq(S)
  OBVIOUS
<1>3. ToSet(list \o flags.add) \subseteq ToSet(list) \cup ToSet(flags.add)
  <2>1. ASSUME NEW n \in DOMAIN (list \o flags.add)
        PROVE  (list \o flags.add)[n] \in ToSet(list) \cup ToSet(flags.add)
    <3>1. n \in 1..(Len(list) + Len(flags.add)) /\ Len(list) \in Nat /\ Len(flags.add) \in Nat
      OBVIOUS
    <3>2. CASE n <= Len(list)
      <4>1. n \in DOMAIN list /\ (list \o flags.add)[n] = list[n]
        BY <3>1, <3>2
      <4>. QED  BY <4>1 DEF ToSet
    <3>3. CASE n > Len(list)
      <4>1. /\ n - Len(list) \in DOMAIN flags.add
            /\ (list \o flags.add)[n] = flags.add[n - Len(list)]
        BY <3>1, <3>3
      <4>. QED  BY <4>1 DEF ToSet
    <3>. QED  BY <3>1, <3>2, <3>3
  <2>. QED  BY <2>1 DEF ToSet
<1>. QED  BY <1>1, <1>2, <1>3 DEF merge_list

LEMMA LoadedIsDocument ==
    ASSUME TypeOK, NEW args \in Flags, Loads(args)
    PROVE  IsDocument(TextFor(args)) /\ parse_file(TextFor(args))
BY TextForFacts, EmptyIsDocument, ParsedIsDocument DEF Loads

LEMMA ConfigOfFacts ==
    ASSUME NEW text, IsDocument(text)
    PROVE  ConfigOf(text) = [set |-> Over(text.set, Default.set), peers |-> text.peers,
                             ports |-> text.ports]
BY DEF ConfigOf, IsDocument

LEMMA StartRunningOK ==
    ASSUME TypeOK, NEW args \in Flags, Start(args)
    PROVE  RunningOK'
<1>. DEFINE t == TextFor(args)
            c == merge(ConfigOf(t), args)
<1>1. Loads(args) /\ running' = c
  BY DEF Start
<1>2. IsDocument(t) /\ parse_file(t) /\ specs_parse(args) /\ validate(c)
  BY <1>1, LoadedIsDocument DEF Loads
<1>. HIDE DEF t
<1>3. ConfigOf(t).ports = t.ports
  BY <1>2, ConfigOfFacts
<1>4. ASSUME NEW k \in ToSet(Kinds)
      PROVE  c.ports[k] \in Seq(PortSpec) /\ \A p \in ToSet(c.ports[k]) : net_of(k, p.net)
  <2>. DEFINE flags == args.lists[k]
  <2>1. c.ports[k] = merge_list(t.ports[k], flags)
    BY <1>3 DEF merge
  <2>2. t.ports[k] \in Seq(PortSpec)
    BY <1>2 DEF IsDocument
  <2>3. flags.replace \in Seq(PortSpec) /\ flags.add \in Seq(PortSpec)
    BY ConfigurationAssumption
  <2>4. \A p \in ToSet(t.ports[k]) : net_of(k, p.net)
    BY <1>2 DEF parse_file
  <2>5. \A p \in ToSet(flags.replace) \cup ToSet(flags.add) : net_of(k, p.net)
    BY <1>2 DEF specs_parse, parse_spec
  <2>. HIDE DEF c, flags
  <2>. QED  BY <2>1, <2>2, <2>3, <2>4, <2>5, MergedList
<1>. HIDE DEF c
<1>. QED  BY <1>1, <1>2, <1>4 DEF RunningOK

LEMMA NextRunningOK == TypeOK /\ RunningOK /\ [Next]_vars => RunningOK'
<1>. SUFFICES ASSUME TypeOK, RunningOK, [Next]_vars PROVE RunningOK'
  OBVIOUS
<1>1. ASSUME UNCHANGED running PROVE RunningOK'
  BY <1>1 DEF RunningOK
<1>2. CASE Stop
  BY <1>2 DEF RunningOK, Stop
<1>3. CASE UNCHANGED vars
  BY <1>1, <1>3 DEF vars
<1>4. ASSUME NEW i \in Importers,
             \/ \E given \in Files \cup {None}, lines \in Lists : ImportList(i, given, lines)
             \/ ReadConfig(i) \/ OpenTmp(i) \/ WriteTmp(i) \/ Rename(i) \/ EndEarly(i)
      PROVE  RunningOK'
  BY <1>1, <1>4 DEF ImportList, ReadConfig, OpenTmp, WriteTmp, Rename, EndEarly
<1>5. ASSUME NEW f \in Files, NEW text \in Written \cup {Absent}, Edit(f, text) PROVE RunningOK'
  BY <1>1, <1>5 DEF Edit
<1>. QED  BY <1>2, <1>3, <1>4, <1>5, StartRunningOK DEF Next

\* The numbers of two ranges that do not meet.
LEMMA Apart ==
    ASSUME NEW p, NEW q, p.net \in Nat \X Nat, q.net \in Nat \X Nat, ~meet(p.net, q.net)
    PROVE  Networks(p) \cap Networks(q) = {}
BY ConfigurationAssumption DEF Networks, meet

LEMMA ValidPorts ==
    ASSUME NEW c, validate(c), \A k \in ToSet(Kinds) : c.ports[k] \in Seq(PortSpec)
    PROVE  /\ ports(c) \in Seq(PortSpec) /\ Len(ports(c)) \in Nat \ {0}
           /\ DOMAIN ports(c) = 1..Len(ports(c)) /\ DOMAIN port_specs(c) = DOMAIN ports(c)
           /\ \A i \in DOMAIN ports(c) :
                 /\ ports(c)[i] \in PortSpec /\ port_specs(c)[i].net = ports(c)[i].net
                 /\ port_specs(c)[i].zones = ports(c)[i].zones
<1>1. ports(c) \in Seq(PortSpec)
  BY KindsAre DEF ports
<1>2. ports(c) # <<>>
  BY DEF validate
<1>. DEFINE all == ports(c)
<1>3. all \in Seq(PortSpec) /\ all # <<>>
  BY <1>1, <1>2
<1>4. port_specs(c) = [i \in DOMAIN all |->
                         [net |-> <<all[i].net[1], all[i].net[2]>>, zones |-> all[i].zones]]
  BY DEF port_specs
<1>. HIDE DEF all
<1>5. DOMAIN all = 1..Len(all) /\ Len(all) \in Nat \ {0} /\ \A i \in DOMAIN all : all[i] \in PortSpec
  <2>. HIDE DEF PortSpec
  <2>. QED  BY <1>3
<1>6. \A i \in DOMAIN all : all[i].net \in Nat \X Nat
  BY <1>5 DEF PortSpec
<1>7. DOMAIN port_specs(c) = DOMAIN all
  BY <1>4
<1>8. ASSUME NEW i \in DOMAIN all
      PROVE  port_specs(c)[i].net = all[i].net /\ port_specs(c)[i].zones = all[i].zones
  <2>1. port_specs(c)[i] = [net |-> <<all[i].net[1], all[i].net[2]>>, zones |-> all[i].zones]
    BY <1>4
  <2>2. <<all[i].net[1], all[i].net[2]>> = all[i].net
    BY <1>6
  <2>. QED  BY <2>1, <2>2
<1>. QED  BY <1>3, <1>5, <1>7, <1>8 DEF all

LEMMA RunsSoundly == TypeOK /\ RunningOK => RunningIsSound
<1>. SUFFICES ASSUME running # None, RunningOK PROVE RunningIsSound
  BY DEF RunningIsSound
<1>. DEFINE P == ports(running)
            all == port_specs(running)
<1>1. /\ P \in Seq(PortSpec) /\ Len(P) \in Nat \ {0} /\ DOMAIN P = 1..Len(P) /\ DOMAIN all = DOMAIN P
      /\ \A i \in DOMAIN P : P[i] \in PortSpec /\ all[i].net = P[i].net /\ all[i].zones = P[i].zones
  BY ValidPorts DEF RunningOK
<1>2. /\ roman(running.set["name"])
      /\ \A i \in DOMAIN P :
            /\ \A j \in 1..(i - 1) : /\ P[j].interface # P[i].interface
                                     /\ ~meet(P[j].net, P[i].net)
            /\ parse_net(P[i].net)
            /\ P[i].zones # <<>> /\ \A z \in ToSet(P[i].zones) : roman(z)
  BY DEF RunningOK, validate
<1>. HIDE DEF P, all
<1>3. \A i \in DOMAIN P : P[i].net \in Nat \X Nat
  BY <1>1 DEF PortSpec
<1>4. all # <<>>
  <2>1. 1 \in DOMAIN all /\ DOMAIN (<<>>) = {}
    BY <1>1
  <2>. QED  BY <2>1
<1>5. ASSUME NEW i \in DOMAIN all, NEW j \in DOMAIN all, i # j
      PROVE  Networks(all[i]) \cap Networks(all[j]) = {} /\ P[i].interface # P[j].interface
  <2>1. i \in DOMAIN P /\ j \in DOMAIN P /\ (i \in 1..(j - 1) \/ j \in 1..(i - 1))
    BY <1>1, <1>5
  <2>2. ~meet(P[i].net, P[j].net) \/ ~meet(P[j].net, P[i].net)
    BY <2>1, <1>2
  <2>3. Networks(all[i]) \cap Networks(all[j]) = {}
    BY <2>1, <2>2, <1>1, <1>3, Apart
  <2>. QED  BY <2>1, <2>3, <1>2
<1>6. ASSUME NEW i \in DOMAIN all
      PROVE  /\ Networks(all[i]) # {} /\ Networks(all[i]) \subseteq 1..MAX_NET
             /\ all[i].zones # <<>> /\ ToSet(all[i].zones) \subseteq MacRoman
  <2>1. parse_net(all[i].net) /\ all[i].net \in Nat \X Nat
    BY <1>1, <1>2, <1>3
  <2>2. all[i].net[1] \in Networks(all[i])
    BY <2>1, ConfigurationAssumption DEF parse_net, Networks
  <2>3. Networks(all[i]) \subseteq 1..MAX_NET
    BY <2>1, ConfigurationAssumption DEF parse_net, Networks
  <2>. QED  BY <2>2, <2>3, <1>1, <1>2 DEF roman
<1>7. \A p \in ToSet(all) : \E i \in DOMAIN all : p = all[i]
  BY DEF ToSet
<1>8. ASSUME NEW k \in {"ltoudp", "tashtalk"}, NEW p \in ToSet(running.ports[k])
      PROVE  Cardinality(Networks(p)) = 1
  <2>1. k \in ToSet(Kinds) /\ k # "ethertalk"
    BY KindsAre
  <2>2. one_net(p.net) /\ running.ports[k] \in Seq(PortSpec)
    BY <2>1 DEF RunningOK, net_of
  <2>3. p \in PortSpec
    <3>. HIDE DEF PortSpec
    <3>. QED  BY <2>2 DEF ToSet
  <2>4. p.net \in Nat \X Nat
    BY <2>3 DEF PortSpec
  <2>5. Networks(p) = {p.net[1]}
    BY <2>2, <2>4, ConfigurationAssumption DEF one_net, parse_net, Networks
  <2>. QED  BY <2>5, FS_Singleton
<1>9. roman(running.set["name"])
  BY <1>2
<1>. QED  BY <1>4, <1>5, <1>6, <1>7, <1>8, <1>9 DEF RunningIsSound, P, all, roman

(* Whatever the files hold and the flags say, however many imports run, a   *)
(* router runs only with ports the routing table can be built on            *)
(* (config.rs:238, validate, with parse_file and merge).                    *)
THEOREM RunsOnSoundPorts == Spec => []RunningIsSound
<1>1. Init => TypeOK /\ RunningOK
  BY InitTypeOK DEF Init, RunningOK
<1>2. TypeOK /\ RunningOK /\ [Next]_vars => (TypeOK /\ RunningOK)'
  BY NextTypeOK, NextRunningOK
<1>. QED  BY <1>1, <1>2, RunsSoundly, PTL DEF Spec

-----------------------------------------------------------------------------
(* With one import at a time, an import changes nothing but peers.          *)

\* The import puts in place what it has made of the text that is there.
Renamed(path, text, doc) ==
    /\ path \in Files /\ IsDocument(text) /\ IsDocument(doc)
    /\ doc.set = text.set /\ doc.ports = text.ports /\ AddsOnly(text.peers, doc.peers)
    /\ file' = [file EXCEPT ![path] = doc]
    /\ TextRead(path) = text
    /\ file[path] # Absent \/ default_config = None

LEMMA RenamingIs ==
    ASSUME OneAtATime, TypeOK, Whole, [Next]_vars, NEW i \in Importers, Renaming(i)
    PROVE  Renamed(import[i].path, import[i].text, import[i].doc)
<1>1. import[i].pc = "rename" /\ import'[i] = Idle /\ import[i] # Idle /\ file' # file
  BY DEF Renaming, Idle
<1>2. PICK j \in Importers : Rename(j)
  <2>1. ASSUME NEW args \in Flags, Start(args) PROVE FALSE
    BY <1>1, <2>1 DEF Start
  <2>2. ASSUME NEW f \in Files, NEW text \in Written \cup {Absent}, Edit(f, text) PROVE FALSE
    BY <1>1, <2>2 DEF Edit
  <2>3. ASSUME NEW j \in Importers,
               \/ \E given \in Files \cup {None}, lines \in Lists : ImportList(j, given, lines)
               \/ ReadConfig(j) \/ OpenTmp(j) \/ WriteTmp(j) \/ EndEarly(j)
        PROVE  FALSE
    BY <1>1, <2>3 DEF ImportList, ReadConfig, OpenTmp, WriteTmp, EndEarly
  <2>. QED  BY <1>1, <2>1, <2>2, <2>3 DEF Next, Stop, vars
<1>3. j = i
  BY DEF OneAtATime
<1>4. file' = [file EXCEPT ![import[i].path] = import[i].doc]
  BY <1>1, <1>2, <1>3 DEF Rename, Whole
<1>5. ImportOK(import[i])
  BY DEF TypeOK
<1>. QED  BY <1>1, <1>4, <1>5, HasRead DEF Renaming, Renamed

\* A router reads what it read before, or the text the import started from and
\* then what it has made of that.
LEMMA TextAfter ==
    ASSUME TypeOK, NEW path, NEW text, NEW doc, Renamed(path, text, doc),
           NEW args \in Flags, TextFor(args) # Absent
    PROVE  \/ TextFor(args)' = TextFor(args)
           \/ TextFor(args) = text /\ TextFor(args)' = doc
<1>1. /\ DOMAIN file = Files /\ path \in Files /\ doc # Absent /\ Text(doc)
      /\ \A f \in Files : file'[f] = IF f = path THEN doc ELSE file[f]
  BY DocumentsDiffer DEF TypeOK, Renamed, Text
<1>2. /\ args.config \in Files \cup {None} /\ None \notin Files
      /\ \A n \in 1..Len(DEFAULTS) : DEFAULTS[n] \in Files
  BY ConfigurationAssumption
<1>3. file[path] # Absent => text = file[path]
  BY DEF Renamed, TextRead
<1>4. CASE args.config # None
  <2>1. TextFor(args) = file[args.config] /\ TextFor(args)' = file'[args.config]
    BY <1>4 DEF TextFor, find_config
  <2>. QED  BY <2>1, <1>1, <1>2, <1>3, <1>4
<1>5. CASE args.config = None
  <2>1. /\ TextFor(args) = IF default_config = None THEN Empty ELSE file[default_config]
        /\ TextFor(args)' = IF default_config' = None THEN Empty ELSE file'[default_config']
    BY <1>5 DEF TextFor, find_config
  <2>2. FirstThere /\ FirstThere'
    BY DefaultFacts, DefaultFactsNext
  <2>3. CASE file[path] # Absent
    <3>1. \A n \in 1..Len(DEFAULTS) : file'[DEFAULTS[n]] # Absent <=> file[DEFAULTS[n]] # Absent
      BY <1>1, <1>2, <2>3
    <3>2. default_config' = default_config /\ default_config \in Files \cup {None}
      <4>1. CASE default_config = None
        BY <4>1, <3>1, <2>2, <1>2 DEF FirstThere
      <4>2. CASE default_config # None
        <5>1. PICK n \in 1..Len(DEFAULTS) :
                  /\ default_config = DEFAULTS[n] /\ file[DEFAULTS[n]] # Absent
                  /\ \A m \in 1..Len(DEFAULTS) : file[DEFAULTS[m]] # Absent => n <= m
          BY <2>2, <4>2 DEF FirstThere
        <5>2. PICK n2 \in 1..Len(DEFAULTS) :
                  /\ default_config' = DEFAULTS[n2] /\ file'[DEFAULTS[n2]] # Absent
                  /\ \A m \in 1..Len(DEFAULTS) : file'[DEFAULTS[m]] # Absent => n2 <= m
          BY <2>2, <3>1, <5>1 DEF FirstThere
        <5>3. n <= n2 /\ n2 <= n
          BY <3>1, <5>1, <5>2
        <5>. QED  BY <1>2, <5>1, <5>2, <5>3
      <4>. QED  BY <4>1, <4>2
    <3>. QED  BY <2>1, <2>3, <3>2, <1>1, <1>2, <1>3
  <2>4. CASE file[path] = Absent
    <3>1. default_config = None
      BY <2>4 DEF Renamed
    <3>2. text = Empty /\ TextFor(args) = Empty
      BY <2>1, <2>4, <3>1 DEF Renamed, TextRead
    <3>3. default_config' = None \/ default_config' = path
      <4>1. \A n \in 1..Len(DEFAULTS) : file[DEFAULTS[n]] = Absent
        BY <2>2, <3>1, <1>2 DEF FirstThere
      <4>2. \A n \in 1..Len(DEFAULTS) : file'[DEFAULTS[n]] # Absent => DEFAULTS[n] = path
        BY <4>1, <1>1, <1>2
      <4>. QED  BY <4>2, <2>2 DEF FirstThere
    <3>. QED  BY <2>1, <3>2, <3>3, <1>1, <1>2
  <2>. QED  BY <2>3, <2>4
<1>. QED  BY <1>4, <1>5

\* A text and what an import makes of it do alike for a router, but for peers.
LEMMA ReadsAlike ==
    ASSUME NEW text, NEW doc, IsDocument(text), IsDocument(doc),
           doc.set = text.set, doc.ports = text.ports, AddsOnly(text.peers, doc.peers),
           NEW args \in Flags, parse_file(text), validate(merge(ConfigOf(text), args))
    PROVE  /\ parse_file(doc) /\ validate(merge(ConfigOf(doc), args))
           /\ Same(merge(ConfigOf(text), args), merge(ConfigOf(doc), args))
           /\ \/ AddsOnly(merge(ConfigOf(text), args).peers, merge(ConfigOf(doc), args).peers)
              \/ args.lists["peers"].add # <<>>
<1>1. parse_file(doc)
  BY DocumentsDiffer DEF parse_file
<1>2. /\ ConfigOf(text).set = ConfigOf(doc).set /\ ConfigOf(text).ports = ConfigOf(doc).ports
      /\ ConfigOf(text).peers = text.peers /\ ConfigOf(doc).peers = doc.peers
  BY ConfigOfFacts
<1>. DEFINE b == merge(ConfigOf(text), args)
            c == merge(ConfigOf(doc), args)
            flags == args.lists["peers"]
<1>3. /\ b.set = c.set /\ b.ports = c.ports
      /\ b.peers = merge_list(text.peers, flags) /\ c.peers = merge_list(doc.peers, flags)
  BY <1>2 DEF merge
<1>4. validate(c)
  <2>1. validate(b)
    OBVIOUS
  <2>. HIDE DEF b, c
  <2>. QED  BY <1>3, <2>1 DEF validate, ports
<1>5. AddsOnly(b.peers, c.peers) \/ flags.add # <<>>
  <2>1. flags.replace \in Seq(Spelled) /\ text.peers \in Seq(Spelled) /\ doc.peers \in Seq(Spelled)
    BY ConfigurationAssumption DEF IsDocument
  <2>. HIDE DEF b, c, flags
  <2>2. CASE flags.replace # <<>>
    BY <1>3, <2>1, <2>2, AddsNothing DEF merge_list
  <2>3. CASE flags.replace = <<>> /\ flags.none
    <3>1. <<>> \in Seq(Spelled) /\ b.peers = <<>> /\ c.peers = <<>>
      BY <1>3, <2>3 DEF merge_list
    <3>. QED  BY <3>1, AddsNothing
  <2>4. CASE flags.replace = <<>> /\ ~flags.none /\ flags.add = <<>>
    <3>1. b.peers = text.peers \o <<>> /\ c.peers = doc.peers \o <<>>
      BY <1>3, <2>4 DEF merge_list
    <3>2. b.peers = text.peers /\ c.peers = doc.peers
      BY <2>1, <3>1
    <3>. QED  BY <3>2
  <2>. QED  BY <2>2, <2>3, <2>4
<1>. QED  BY <1>1, <1>3, <1>4, <1>5 DEF Same

LEMMA RenamingAdds ==
    ASSUME OneAtATime, TypeOK, Whole, [Next]_vars, NEW i \in Importers, Renaming(i),
           NEW args \in Flags, Loads(args)
    PROVE  /\ Loads(args)'
           /\ Same(ConfigFor(args), ConfigFor(args)')
           /\ \/ AddsOnly(ConfigFor(args).peers, ConfigFor(args).peers')
              \/ args.lists["peers"].add # <<>>
<1>1. PICK path, text, doc : Renamed(path, text, doc)
  BY RenamingIs
<1>. DEFINE t == TextFor(args)
            u == TextFor(args)'
<1>2. IsDocument(t) /\ t # Absent
  BY LoadedIsDocument DEF Loads
<1>3. u = t \/ (t = text /\ u = doc)
  BY <1>1, <1>2, TextAfter
<1>4. /\ IsDocument(u) /\ u.set = t.set /\ u.ports = t.ports /\ AddsOnly(t.peers, u.peers)
  <2>1. AddsOnly(t.peers, t.peers)
    BY <1>2, AddsNothing DEF IsDocument
  <2>. HIDE DEF t, u
  <2>. QED  BY <1>1, <1>2, <1>3, <2>1 DEF Renamed
<1>5. parses(args) /\ specs_parse(args) /\ parse_file(t) /\ validate(merge(ConfigOf(t), args))
  BY DEF Loads
<1>6. u # Absent
  BY <1>4, DocumentsDiffer
<1>7. /\ parse_file(u) /\ validate(merge(ConfigOf(u), args))
      /\ Same(merge(ConfigOf(t), args), merge(ConfigOf(u), args))
      /\ \/ AddsOnly(merge(ConfigOf(t), args).peers, merge(ConfigOf(u), args).peers)
         \/ args.lists["peers"].add # <<>>
  <2>. HIDE DEF t, u
  <2>. QED  BY <1>2, <1>4, <1>5, ReadsAlike
<1>8. Loads(args)'
  BY <1>5, <1>6, <1>7 DEF Loads
<1>. QED  BY <1>7, <1>8 DEF ConfigFor

(* With one import at a time, what an import puts in place changes nothing  *)
(* for any router but its peers, whatever the list, the file and the flags  *)
(* say (config.rs:440-514, import_peers and merge_peers, with find_config). *)
THEOREM ImportsOnlyAdd == OneAtATime => (Spec => ImportOnlyAdds)
<1>. SUFFICES ASSUME OneAtATime PROVE Spec => ImportOnlyAdds
  OBVIOUS
<1>. DEFINE Adds == \A i \in Importers : Renaming(i) =>
              \A args \in Flags : Loads(args) =>
                  /\ Loads(args)'
                  /\ Same(ConfigFor(args), ConfigFor(args)')
                  /\ \/ AddsOnly(ConfigFor(args).peers, ConfigFor(args).peers')
                     \/ args.lists["peers"].add # <<>>
<1>1. Init => TypeOK /\ Whole
  BY InitTypeOK, InitWhole
<1>2. TypeOK /\ Whole /\ [Next]_vars => (TypeOK /\ Whole)'
  BY NextTypeOK, NextWhole
<1>3. TypeOK /\ Whole /\ [Next]_vars => [Adds]_vars
  BY RenamingAdds
<1>. HIDE DEF Adds
<1>4. Spec => [][Adds]_vars
  BY <1>1, <1>2, <1>3, PTL DEF Spec
<1>. QED  BY <1>4 DEF ImportOnlyAdds, Adds
-----------------------------------------------------------------------------
(* The zone exchange (module ZoneExchange): what a list becomes on its way. *)

ListNames == UNION {Zones(n) : n \in Net}
Pairs == Net \X ListNames
\* The names given for n.
NamesOf(P, n) == {p[2] : p \in {q \in P : q[1] = n}}

\* Networks the sender holds whole when it tells of them.
Sure == Net \ Doubtful

\* What a packet gives of such a list: nothing, or all, or a part and its length.
Gives(names, total, n) ==
    \/ names = {}
    \/ total = Nothing /\ names = Zones(n)
    \/ total = Len(List[n]) /\ names \subseteq Zones(n)
RspOK(m) == \A n \in Sure : Gives(NamesOf(parse_zi_rsp(m.tuples), n), m.extended, n)

\* So the receiver has nothing of a list, or all, or knows how long it is.
Received(n, z) ==
    /\ z.names \subseteq Zones(n)
    /\ \/ z.expected = Nothing /\ z.names = {}
       \/ z.expected = Nothing /\ z.names = Zones(n)
       \/ z.expected = Len(List[n])

\* The names of a list, and how many they are.
LEMMA ListFacts ==
    ASSUME NEW n \in Net
    PROVE  /\ Len(List[n]) \in Nat /\ List[n] \in [1..Len(List[n]) -> Zones(n)]
           /\ Zones(n) = {List[n][i] : i \in 1..Len(List[n])}
           /\ IsFiniteSet(Zones(n)) /\ Cardinality(Zones(n)) = Len(List[n])
  <1>. DEFINE s == List[n]
  <1>1. s \in Seq(Zones(n)) /\ IsInjective(s)
    BY ExchangeAssumption
  <1>2. Len(s) \in Nat /\ s \in [1..Len(s) -> Zones(n)] /\ DOMAIN s = 1..Len(s)
    BY <1>1
  <1>3. Zones(n) = {s[i] : i \in 1..Len(s)}
    BY <1>2 DEF Zones, Range
  <1>4. IsFiniteSet(1..Len(s)) /\ Cardinality(1..Len(s)) = Len(s)
    BY <1>2, FS_Interval
  <1>5. s \in Bijection(1..Len(s), Zones(n))
    BY <1>1, <1>2, <1>3 DEF IsInjective, Bijection, Injection, Surjection
  <1>. QED  BY <1>2, <1>3, <1>4, <1>5, FS_Bijection DEF ExistsBijection

\* A list counted as complete is whole.
LEMMA CompleteIsAll ==
    ASSUME NEW n \in Net, NEW z, Received(n, z), complete(z)
    PROVE  z.names = Zones(n)
  <1>1. CASE z.expected = Len(List[n])
    <2>1. z.expected <= Cardinality(z.names)
      BY <1>1, ListFacts, NothingAssumption DEF complete
    <2>2. /\ IsFiniteSet(z.names) /\ Cardinality(z.names) \in Nat
          /\ Cardinality(z.names) <= Cardinality(Zones(n))
          /\ Cardinality(z.names) = Cardinality(Zones(n)) => z.names = Zones(n)
      BY ListFacts, FS_Subset, FS_CardinalityType DEF Received
    <2>. QED  BY <1>1, <2>1, <2>2, ListFacts
  <1>. QED  BY <1>1 DEF Received, complete

\* A name that is an offset to where it stands first is that name again.
LEMMA ParsedAsEncoded ==
    ASSUME NEW S, NEW T, NEW s \in Seq(S \X T)
    PROVE  parse_zi_rsp(encode_zi_rsp(s)) = Range(s)
  <1>. DEFINE Is(i, j) == s[j][2] = s[i][2] /\ \A k \in 1..j - 1 : s[k][2] # s[i][2]
              first(i) == CHOOSE j \in DOMAIN s : Is(i, j)
              t == encode_zi_rsp(s)
  <1>1. Len(s) \in Nat /\ DOMAIN s = 1..Len(s) /\ \A i \in 1..Len(s) : s[i] = <<s[i][1], s[i][2]>>
    OBVIOUS
  <1>2. t = [i \in DOMAIN s |-> [net |-> s[i][1], name |-> IF first(i) = i THEN s[i][2] ELSE Nothing,
                                 at |-> first(i)]]
    BY DEF encode_zi_rsp
  <1>. HIDE DEF t
  <1>3. ASSUME NEW i \in DOMAIN s PROVE first(i) \in DOMAIN s /\ Is(i, first(i))
    <2>. DEFINE Alike == {j \in DOMAIN s : s[j][2] = s[i][2]}
    <2>1. Alike \subseteq Nat /\ Alike # {}
      BY <1>1
    <2>. HIDE DEF Alike
    <2>2. PICK j \in Alike : \A k \in Alike : j <= k
      BY <2>1, LeastNumber
    <2>3. j \in DOMAIN s /\ s[j][2] = s[i][2]
      BY DEF Alike
    <2>4. ASSUME NEW k \in 1..j - 1 PROVE s[k][2] # s[i][2]
      <3>1. k \in DOMAIN s /\ ~(j <= k)
        BY <1>1, <2>3
      <3>. QED  BY <3>1, <2>2 DEF Alike
    <2>5. \E x \in DOMAIN s : Is(i, x)
      BY <2>3, <2>4
    <2>. QED  BY <2>5
  <1>. HIDE DEF first
  <1>4. ASSUME NEW i \in DOMAIN s
        PROVE  first(first(i)) = first(i)
    <2>. DEFINE j == first(i)
                l == first(j)
    <2>1. j \in DOMAIN s /\ s[j][2] = s[i][2] /\ \A k \in 1..j - 1 : s[k][2] # s[i][2]
      BY <1>3
    <2>. HIDE DEF j
    <2>2. l \in DOMAIN s /\ s[l][2] = s[j][2] /\ \A k \in 1..l - 1 : s[k][2] # s[j][2]
      BY <1>3, <2>1
    <2>. HIDE DEF l
    <2>3. ~(l < j) /\ ~(j < l)
      BY <1>1, <2>1, <2>2
    <2>4. l = j
      BY <1>1, <2>1, <2>2, <2>3
    <2>. QED  BY <2>4 DEF l, j
  <1>5. ASSUME NEW i \in DOMAIN s
        PROVE  i \in DOMAIN t /\ t[i].net = s[i][1] /\ t[t[i].at].name = s[i][2]
    <2>1. first(i) \in DOMAIN s /\ s[first(i)][2] = s[i][2]
      BY <1>3
    <2>. QED  BY <1>2, <1>4, <2>1
  <1>6. DOMAIN t = DOMAIN s
    BY <1>2
  <1>7. parse_zi_rsp(t) = {<<t[i].net, t[t[i].at].name>> : i \in DOMAIN t}
    BY DEF parse_zi_rsp, Range
  <1>. QED  BY <1>1, <1>5, <1>6, <1>7 DEF Range, t

\* What is told of a list is of that list.
LEMMA NamedPart ==
    ASSUME NEW n \in Net
    PROVE  Named(n) \in Seq({n} \X Zones(n))
  <1>. DEFINE len == Len(List[n])
              S == Seq({n} \X Zones(n))
              After(i, t) == IF List[n][i] \in home[n].names THEN Append(t, <<n, List[n][i]>>) ELSE t
              Held(f) == f = [i \in 0..len |-> IF i = 0 THEN <<>>
                                ELSE IF List[n][i] \in home[n].names THEN Append(f[i - 1], <<n, List[n][i]>>)
                                ELSE f[i - 1]]
              held == CHOOSE f : Held(f)
              step == [x \in (1..len) \X S |-> After(x[1], x[2])]
  <1>1. /\ len \in Nat /\ List[n] \in [1..len -> Zones(n)]
    BY ListFacts
  <1>2. Named(n) = held[len]
    BY DEF Named
  <1>3. ASSUME NEW i \in 1..len, NEW t \in S PROVE After(i, t) \in S
    <2>1. <<n, List[n][i]>> \in {n} \X Zones(n)
      BY <1>1
    <2>2. Append(t, <<n, List[n][i]>>) \in S
      BY <2>1
    <2>. QED  BY <2>2
  <1>4. <<>> \in S
    OBVIOUS
  <1>5. \A i \in 1..len, t \in S : step[<<i, t>>] = After(i, t) /\ step[<<i, t>>] \in S
    <2>. HIDE DEF S, After
    <2>. QED  BY <1>3
  <1>6. \E f : f \in [0..len -> S] /\ f[0] = <<>> /\ \A i \in 1..len : f[i] = After(i, f[i - 1])
    <2>. HIDE DEF step, S, After, len
    <2>1. PICK f : Follows(f, len, S, <<>>, step)
      BY <1>1, <1>4, <1>5, Recursion
    <2>2. \A i \in 1..len : i - 1 \in 0..len
      BY <1>1
    <2>. QED  BY <1>5, <2>1, <2>2 DEF Follows
  <1>7. \E f : Held(f)
    <2>. HIDE DEF S
    <2>1. PICK f : f \in [0..len -> S] /\ f[0] = <<>> /\ \A i \in 1..len : f[i] = After(i, f[i - 1])
      BY <1>6
    <2>2. ASSUME NEW i \in 0..len
          PROVE  f[i] = IF i = 0 THEN <<>>
                        ELSE IF List[n][i] \in home[n].names THEN Append(f[i - 1], <<n, List[n][i]>>)
                        ELSE f[i - 1]
      <3>1. i = 0 \/ i \in 1..len
        BY <1>1
      <3>. HIDE DEF len
      <3>. QED  BY <2>1, <3>1
    <2>. HIDE DEF len, After
    <2>3. Held(f)
      BY <2>1, <2>2
    <2>. QED  BY <2>3
  <1>8. Held(held)
    <2>. HIDE DEF Held
    <2>. QED  BY <1>7
  <1>9. held[0] = <<>> /\ \A i \in 1..len : held[i] = After(i, held[i - 1])
    <2>. HIDE DEF held, len
    <2>1. 0 \in 0..len /\ \A i \in 1..len : i \in 0..len /\ i # 0
      BY <1>1
    <2>. QED  BY <1>8, <2>1
  <1>. DEFINE Good == {i \in 0..len : held[i] \in S}
  <1>10. 0 \in Good
    <2>. HIDE DEF held, len, S
    <2>. QED  BY <1>1, <1>4, <1>9
  <1>11. ASSUME NEW i \in 0..(len - 1), i \in Good PROVE i + 1 \in Good
    <2>. HIDE DEF held, len, S, After
    <2>1. i + 1 \in 1..len /\ i + 1 \in 0..len /\ (i + 1) - 1 = i
      BY <1>1
    <2>. QED  BY <2>1, <1>3, <1>9, <1>11
  <1>12. 0..len \subseteq Good
    <2>. HIDE DEF Good, len
    <2>. QED  BY <1>1, <1>10, <1>11, Induction
  <1>13. len \in 0..len
    BY <1>1
  <1>14. len \in Good
    <2>. HIDE DEF Good
    <2>. QED  BY <1>12, <1>13
  <1>. HIDE DEF held, len, S
  <1>15. Named(n) \in S
    BY <1>2, <1>14
  <1>. QED  BY <1>15 DEF S

\* What is left of a list held whole, as pairs.
LEMMA NamedWhole ==
    ASSUME NEW n \in Net, home[n].names = Zones(n)
    PROVE  /\ Named(n) \in Seq(Pairs) /\ Len(Named(n)) = Len(List[n])
           /\ Range(Named(n)) = {n} \X Zones(n)
  <1>. DEFINE len == Len(List[n])
              Held(f) == f = [i \in 0..len |-> IF i = 0 THEN <<>>
                                ELSE IF List[n][i] \in home[n].names THEN Append(f[i - 1], <<n, List[n][i]>>)
                                ELSE f[i - 1]]
              held == CHOOSE f : Held(f)
              upto(i) == [j \in 1..i |-> <<n, List[n][j]>>]
  <1>1. /\ len \in Nat /\ List[n] \in [1..len -> Zones(n)]
        /\ Zones(n) = {List[n][i] : i \in 1..len}
    BY ListFacts
  <1>2. Named(n) = held[len]
    BY DEF Named
  <1>3. \A i \in 1..len : <<n, List[n][i]>> \in Pairs
    BY <1>1 DEF Pairs, ListNames
  <1>4. ASSUME NEW i \in 0..len
        PROVE  upto(i) \in Seq(Pairs) /\ Len(upto(i)) = i
    <2>1. i \in Nat /\ \A j \in 1..i : <<n, List[n][j]>> \in Pairs
      BY <1>1, <1>3
    <2>. QED  BY <2>1
  <1>5. ASSUME NEW i \in 1..len
        PROVE  Append(upto(i - 1), <<n, List[n][i]>>) = upto(i)
    <2>. DEFINE p == <<n, List[n][i]>>
                u == upto(i - 1)
                v == upto(i)
    <2>1. i \in 0..len /\ i - 1 \in 0..len
      BY <1>1
    <2>2. u \in Seq(Pairs) /\ Len(u) = i - 1 /\ v \in Seq(Pairs) /\ Len(v) = i /\ p \in Pairs
      BY <1>3, <1>4, <2>1
    <2>3. \A j \in 1..i : v[j] = IF j = i THEN p ELSE u[j]
      BY <1>1
    <2>. HIDE DEF p, u, v
    <2>4. /\ Append(u, p) \in Seq(Pairs) /\ Len(Append(u, p)) = i
          /\ \A j \in 1..i : Append(u, p)[j] = v[j]
      BY <2>1, <2>2, <2>3
    <2>5. Append(u, p) = v
      BY <2>2, <2>4, SeqEqual
    <2>. QED  BY <2>5 DEF u, v, p
  <1>6. ASSUME NEW i \in 1..len PROVE List[n][i] \in home[n].names
    BY <1>1
  <1>7. Held([i \in 0..len |-> upto(i)])
    <2>. DEFINE g == [i \in 0..len |-> upto(i)]
    <2>1. ASSUME NEW i \in 0..len
          PROVE  g[i] = IF i = 0 THEN <<>>
                        ELSE IF List[n][i] \in home[n].names THEN Append(g[i - 1], <<n, List[n][i]>>)
                        ELSE g[i - 1]
      <3>1. CASE i = 0
        BY <3>1
      <3>2. CASE i # 0
        <4>1. i \in 1..len /\ i - 1 \in 0..len
          BY <3>2, <1>1
        <4>2. g[i] = upto(i) /\ g[i - 1] = upto(i - 1)
          BY <4>1
        <4>. HIDE DEF g, upto
        <4>. QED  BY <3>2, <4>1, <4>2, <1>5, <1>6
      <3>. QED  BY <3>1, <3>2
    <2>2. g = [i \in 0..len |-> g[i]]
      OBVIOUS
    <2>. HIDE DEF g, upto, len
    <2>3. Held(g)
      BY <2>1, <2>2
    <2>. QED  BY <2>3 DEF g
  <1>8. Held(held)
    <2>. HIDE DEF Held
    <2>. QED  BY <1>7
  <1>. DEFINE Good == {i \in 0..len : held[i] = upto(i)}
  <1>9. held[0] = <<>> /\ \A i \in 1..len : held[i] = Append(held[i - 1], <<n, List[n][i]>>)
    <2>. HIDE DEF held, len
    <2>1. ASSUME NEW g, Held(g)
          PROVE  g[0] = <<>> /\ \A i \in 1..len : g[i] = Append(g[i - 1], <<n, List[n][i]>>)
      <3>1. 0 \in 0..len /\ \A i \in 1..len : i \in 0..len /\ i # 0
        BY <1>1
      <3>. QED  BY <3>1, <2>1, <1>6
    <2>. HIDE DEF Held
    <2>. QED  BY <2>1, <1>8
  <1>10. 0 \in Good
    <2>1. upto(0) = <<>>
      OBVIOUS
    <2>. HIDE DEF held, len, upto
    <2>. QED  BY <1>1, <1>9, <2>1
  <1>11. ASSUME NEW i \in 0..(len - 1), i \in Good PROVE i + 1 \in Good
    <2>. HIDE DEF held, len, upto
    <2>1. i + 1 \in 1..len /\ i + 1 \in 0..len /\ (i + 1) - 1 = i
      BY <1>1
    <2>. QED  BY <2>1, <1>5, <1>9, <1>11
  <1>12. len \in Good
    <2>1. 0..len \subseteq Good
      <3>. HIDE DEF Good, len
      <3>. QED  BY <1>1, <1>10, <1>11, Induction
    <2>2. len \in 0..len
      BY <1>1
    <2>. HIDE DEF Good
    <2>. QED  BY <2>1, <2>2
  <1>13. Named(n) = upto(len) /\ len \in 0..len
    <2>. HIDE DEF held, upto, len
    <2>. QED  BY <1>2, <1>12
  <1>14. Range(upto(len)) = {n} \X Zones(n)
    <2>1. Range(upto(len)) = {<<n, List[n][i]>> : i \in 1..len}
      BY DEF Range
    <2>. HIDE DEF upto, len
    <2>. QED  BY <1>1, <2>1
  <1>. HIDE DEF upto, held
  <1>. QED  BY <1>4, <1>13, <1>14

-----------------------------------------------------------------------------
(* What zi_pages sends.                                                     *)

Messages == {ZiRsp(x, encode_zi_rsp(s)) : x \in Nat \cup {Nothing}, s \in Seq(Pairs)}
PageOK(s) ==
    /\ s \in Seq(Pairs)
    /\ \A n \in Sure : NamesOf(Range(s), n) \in {{}, Zones(n)}
\* The list of n: all of it, or nothing, if n is one to be sure of.
ListOK(n, s) ==
    /\ s \in Seq(Pairs) /\ Range(s) \subseteq {n} \X ListNames
    /\ n \in Sure => s = <<>> \/ (Range(s) = {n} \X Zones(n) /\ Len(s) = Len(List[n]))
Sent(out) == out \in SUBSET Messages /\ \A m \in out : m.kind = "ZiRsp" /\ RspOK(m)

\* A page of whole lists is sent as one.
LEMMA PlainSent == ASSUME NEW s, PageOK(s) PROVE Sent(plain(s))
  <1>. DEFINE m == ZiRsp(Nothing, encode_zi_rsp(s))
  <1>1. m \in Messages
    BY DEF PageOK, Messages
  <1>2. m.kind = "ZiRsp" /\ m.extended = Nothing /\ m.tuples = encode_zi_rsp(s)
    BY DEF ZiRsp
  <1>3. parse_zi_rsp(m.tuples) = Range(s)
    BY <1>2, ParsedAsEncoded DEF PageOK, Pairs
  <1>4. plain(s) = {} \/ plain(s) = {m}
    BY DEF plain
  <1>. HIDE DEF m
  <1>5. RspOK(m)
    BY <1>2, <1>3 DEF RspOK, PageOK, Gives
  <1>. QED  BY <1>1, <1>2, <1>4, <1>5 DEF Sent

\* A chunk is of the list it is cut from.
LEMMA ChunkFacts ==
    ASSUME NEW s \in Seq(Pairs), NEW c \in Chunks(s)
    PROVE  c \in Seq(Pairs) /\ Range(c) \subseteq Range(s)
  <1>1. PICK i \in DOMAIN s :
            c = SubSeq(s, i, IF i + Capacity - 1 > Len(s) THEN Len(s) ELSE i + Capacity - 1)
    BY DEF Chunks
  <1>. DEFINE j == IF i + Capacity - 1 > Len(s) THEN Len(s) ELSE i + Capacity - 1
  <1>2. Len(s) \in Nat /\ DOMAIN s = 1..Len(s) /\ i \in 1..Len(s) /\ j \in 1..Len(s) /\ i <= j
    BY ExchangeAssumption
  <1>3. c = SubSeq(s, i, j)
    BY <1>1
  <1>. HIDE DEF j
  <1>4. /\ c \in Seq(Pairs) /\ Len(c) = j - i + 1
        /\ \A k \in 1..Len(c) : c[k] = s[i + k - 1]
    BY <1>2, <1>3
  <1>5. ASSUME NEW k \in 1..Len(c) PROVE c[k] \in Range(s)
    <2>1. i + k - 1 \in 1..Len(s)
      BY <1>2, <1>4
    <2>. QED  BY <1>2, <1>4, <2>1 DEF Range
  <1>6. DOMAIN c = 1..Len(c)
    BY <1>4
  <1>. QED  BY <1>4, <1>5, <1>6 DEF Range

\* The chunks of a long list tell its length.
LEMMA ExtendedSent ==
    ASSUME NEW n \in Net, NEW s, ListOK(n, s), s # <<>>
    PROVE  Sent(extended(s))
  <1>. SUFFICES ASSUME NEW c \in Chunks(s)
                PROVE  LET m == ZiRsp(Len(s), encode_zi_rsp(c))
                       IN  m \in Messages /\ m.kind = "ZiRsp" /\ RspOK(m)
    BY DEF extended, Sent
  <1>. DEFINE m == ZiRsp(Len(s), encode_zi_rsp(c))
  <1>1. s \in Seq(Pairs)
    BY DEF ListOK
  <1>2. c \in Seq(Pairs) /\ Range(c) \subseteq Range(s) /\ Len(s) \in Nat
    BY <1>1, ChunkFacts
  <1>3. m \in Messages
    BY <1>2 DEF Messages
  <1>4. m.kind = "ZiRsp" /\ m.extended = Len(s) /\ m.tuples = encode_zi_rsp(c)
    BY DEF ZiRsp
  <1>5. parse_zi_rsp(m.tuples) = Range(c)
    BY <1>2, <1>4, ParsedAsEncoded DEF Pairs
  <1>. HIDE DEF m
  <1>6. ASSUME NEW k \in Sure PROVE Gives(NamesOf(Range(c), k), m.extended, k)
    <2>1. CASE k = n
      <3>1. Range(s) = {n} \X Zones(n) /\ Len(s) = Len(List[n])
        BY <2>1, <1>6 DEF ListOK
      <3>2. \A q \in Range(c) : q[2] \in Zones(n)
        BY <3>1, <1>2
      <3>3. NamesOf(Range(c), k) \subseteq Zones(n)
        BY <3>2 DEF NamesOf
      <3>. QED  BY <2>1, <3>1, <3>3, <1>4 DEF Gives
    <2>2. CASE k # n
      <3>1. \A q \in Range(c) : q[1] = n
        BY <1>2 DEF ListOK
      <3>2. NamesOf(Range(c), k) = {}
        BY <2>2, <3>1 DEF NamesOf
      <3>. QED  BY <3>2 DEF Gives
    <2>. QED  BY <2>1, <2>2
  <1>7. RspOK(m)
    BY <1>5, <1>6 DEF RspOK
  <1>. QED  BY <1>3, <1>4, <1>7 DEF m

\* A list put behind the page is there, and the page's lists are as they were.
LEMMA PageGrows ==
    ASSUME NEW p, PageOK(p), NEW n \in Net, NEW s, ListOK(n, s)
    PROVE  PageOK(p \o s)
  <1>. DEFINE q == p \o s
  <1>1. p \in Seq(Pairs) /\ s \in Seq(Pairs)
    BY DEF PageOK, ListOK
  <1>2. /\ q \in Seq(Pairs) /\ Len(p) \in Nat /\ Len(s) \in Nat /\ Len(q) = Len(p) + Len(s)
        /\ \A i \in 1..Len(p) : q[i] = p[i]
        /\ \A i \in 1..Len(s) : q[Len(p) + i] = s[i]
    BY <1>1
  <1>3. DOMAIN q = 1..Len(q) /\ DOMAIN p = 1..Len(p) /\ DOMAIN s = 1..Len(s)
    BY <1>1, <1>2
  <1>. HIDE DEF q
  <1>4. Range(q) = Range(p) \cup Range(s)
    <2>1. ASSUME NEW x \in Range(q) PROVE x \in Range(p) \cup Range(s)
      <3>1. PICK i \in 1..Len(q) : x = q[i]
        BY <1>3 DEF Range
      <3>2. CASE i <= Len(p)
        BY <3>1, <3>2, <1>2, <1>3 DEF Range
      <3>3. CASE ~(i <= Len(p))
        <4>1. i - Len(p) \in 1..Len(s) /\ Len(p) + (i - Len(p)) = i
          BY <3>3, <1>2
        <4>2. x = s[i - Len(p)]
          BY <3>1, <4>1, <1>2
        <4>. QED  BY <4>1, <4>2, <1>3 DEF Range
      <3>. QED  BY <3>2, <3>3
    <2>2. Range(p) \subseteq Range(q)
      <3>1. \A i \in 1..Len(p) : i \in 1..Len(q)
        BY <1>2
      <3>. QED  BY <3>1, <1>2, <1>3 DEF Range
    <2>3. Range(s) \subseteq Range(q)
      <3>1. \A i \in 1..Len(s) : Len(p) + i \in 1..Len(q)
        BY <1>2
      <3>. QED  BY <3>1, <1>2, <1>3 DEF Range
    <2>. QED  BY <2>1, <2>2, <2>3
  <1>5. s = <<>> => Range(s) = {}
    BY DEF Range
  <1>6. ASSUME NEW k \in Sure
        PROVE  NamesOf(Range(q), k) \in {{}, Zones(k)}
    <2>1. NamesOf(Range(p), k) \in {{}, Zones(k)}
      BY DEF PageOK
    <2>2. NamesOf(Range(q), k) = NamesOf(Range(p), k) \cup NamesOf(Range(s), k)
      BY <1>4 DEF NamesOf
    <2>3. NamesOf(Range(s), k) \in {{}, Zones(k)}
      <3>1. CASE k # n
        <4>1. \A x \in Range(s) : x[1] = n
          BY DEF ListOK
        <4>. QED  BY <3>1, <4>1 DEF NamesOf
      <3>2. CASE k = n /\ s = <<>>
        BY <1>5, <3>2 DEF NamesOf
      <3>3. CASE k = n /\ s # <<>>
        <4>1. Range(s) = {n} \X Zones(n)
          BY <1>6, <3>3 DEF ListOK
        <4>2. ASSUME NEW x \in NamesOf(Range(s), k) PROVE x \in Zones(n)
          <5>1. PICK y \in {n} \X Zones(n) : y[2] = x
            BY <4>1 DEF NamesOf
          <5>. QED  BY <5>1
        <4>3. ASSUME NEW x \in Zones(n) PROVE x \in NamesOf(Range(s), k)
          <5>1. <<n, x>> \in Range(s) /\ <<n, x>>[1] = k /\ <<n, x>>[2] = x
            BY <3>3, <4>1
          <5>. QED  BY <5>1 DEF NamesOf
        <4>. QED  BY <3>3, <4>2, <4>3
      <3>. QED  BY <3>1, <3>2, <3>3
    <2>. QED  BY <2>1, <2>2, <2>3
  <1>. QED  BY <1>2, <1>6 DEF PageOK, q

\* So does zi_pages with each network's list.
LEMMA PackedSent ==
    ASSUME NEW out, Sent(out), NEW p, PageOK(p), NEW n \in Net, NEW s, ListOK(n, s)
    PROVE  /\ packed(out, p, s) = [out |-> packed(out, p, s).out, page |-> packed(out, p, s).page]
           /\ Sent(packed(out, p, s).out) /\ PageOK(packed(out, p, s).page)
  <1>1. Sent(plain(p)) /\ PageOK(<<>>)
    <2>1. Range(<<>>) = {} /\ <<>> \in Seq(Pairs)
      BY DEF Range
    <2>2. \A n1 : NamesOf({}, n1) = {}
      BY DEF NamesOf
    <2>. QED  BY <2>1, <2>2, PlainSent DEF PageOK
  <1>2. Len(<<>>) = 0 /\ Capacity \in Nat \ {0}
    BY ExchangeAssumption
  <1>3. CASE Len(s) > Capacity
    <2>1. s # <<>>
      BY <1>2, <1>3
    <2>2. Sent(extended(s))
      BY <2>1, ExtendedSent
    <2>3. packed(out, p, s) = [out |-> out \cup plain(p) \cup extended(s), page |-> <<>>]
      BY <1>3 DEF packed
    <2>. QED  BY <1>1, <2>2, <2>3 DEF Sent
  <1>4. CASE ~(Len(s) > Capacity)
    <2>1. PageOK(p \o s)
      BY PageGrows
    <2>2. PageOK(s)
      <3>1. PageOK(<<>> \o s)
        BY <1>1, PageGrows
      <3>2. <<>> \o s = s
        BY DEF ListOK
      <3>. QED  BY <3>1, <3>2
    <2>3. Sent(out \cup plain(p))
      BY <1>1 DEF Sent
    <2>4. \/ packed(out, p, s) = [out |-> out \cup plain(p), page |-> s]
          \/ packed(out, p, s) = [out |-> out, page |-> p \o s]
      BY <1>4 DEF packed
    <2>5. CASE packed(out, p, s) = [out |-> out \cup plain(p), page |-> s]
      BY <2>2, <2>3, <2>5
    <2>6. CASE packed(out, p, s) = [out |-> out, page |-> p \o s]
      <3>. DEFINE q == p \o s
      <3>1. packed(out, p, s) = [out |-> out, page |-> q] /\ PageOK(q)
        BY <2>1, <2>6
      <3>. HIDE DEF q
      <3>. QED  BY <3>1
    <2>. QED  BY <2>4, <2>5, <2>6
  <1>. QED  BY <1>3, <1>4

\* Asked about networks whose lists it holds whole, or not at all, the sender
\* answers with whole lists and parts of long ones that tell their length.
LEMMA PagesSent ==
    ASSUME NEW nets, \A n \in Sure : n \in nets => home[n] = Nothing \/ home[n].names = Zones(n)
    PROVE  Sent(zi_pages(nets))
  <1>. DEFINE len == Len(Nets)
              list(n) == IF n \in nets /\ home[n] # Nothing THEN Named(n) ELSE <<>>
              Upto(f) == f = [i \in 0..len |-> IF i = 0 THEN [out |-> {}, page |-> <<>>]
                                ELSE packed(f[i - 1].out, f[i - 1].page, list(Nets[i]))]
              upto == CHOOSE f : Upto(f)
              S == {st \in [out : SUBSET Messages, page : Seq(Pairs)] : Sent(st.out) /\ PageOK(st.page)}
              base == [out |-> {}, page |-> <<>>]
              After(i, st) == packed(st.out, st.page, list(Nets[i]))
              step == [x \in (1..len) \X S |-> After(x[1], x[2])]
  <1>1. len \in Nat /\ \A i \in 1..len : Nets[i] \in Net
    BY ExchangeAssumption
  <1>2. ASSUME NEW n \in Net PROVE ListOK(n, list(n))
    <2>1. CASE n \notin nets \/ home[n] = Nothing
      <3>1. list(n) = <<>> /\ Range(<<>>) = {} /\ <<>> \in Seq(Pairs)
        BY <2>1 DEF Range
      <3>. QED  BY <3>1 DEF ListOK
    <2>2. CASE n \in nets /\ home[n] # Nothing
      <3>1. list(n) = Named(n) /\ Named(n) \in Seq({n} \X Zones(n)) /\ Zones(n) \subseteq ListNames
        BY <2>2, NamedPart DEF ListNames
      <3>. DEFINE t == Named(n)
      <3>. HIDE DEF t, list
      <3>2. t \in Seq(Pairs) /\ Range(t) \subseteq {n} \X ListNames
        <4>1. Len(t) \in Nat /\ DOMAIN t = 1..Len(t) /\ \A i \in 1..Len(t) : t[i] \in {n} \X Zones(n)
          BY <3>1 DEF t
        <4>2. t = [i \in 1..Len(t) |-> t[i]]
          BY <3>1 DEF t
        <4>3. {n} \X Zones(n) \subseteq {n} \X ListNames /\ {n} \X Zones(n) \subseteq Pairs
          BY <3>1 DEF Pairs
        <4>4. \A i \in 1..Len(t) : t[i] \in Pairs /\ t[i] \in {n} \X ListNames
          BY <4>1, <4>3
        <4>. HIDE DEF Pairs
        <4>. QED  BY <4>1, <4>2, <4>4 DEF Range
      <3>3. n \in Sure => Range(t) = {n} \X Zones(n) /\ Len(t) = Len(List[n])
        BY <2>2, NamedWhole DEF t
      <3>. QED  BY <3>1, <3>2, <3>3 DEF ListOK, t
    <2>. QED  BY <2>1, <2>2
  <1>3. ASSUME NEW i \in 1..len, NEW st \in S
        PROVE  After(i, st) \in S
    <2>1. Sent(st.out) /\ PageOK(st.page) /\ Nets[i] \in Net /\ ListOK(Nets[i], list(Nets[i]))
      BY <1>1, <1>2
    <2>. HIDE DEF list, len
    <2>2. /\ After(i, st) = [out |-> After(i, st).out, page |-> After(i, st).page]
          /\ Sent(After(i, st).out) /\ PageOK(After(i, st).page)
      BY <2>1, PackedSent
    <2>. HIDE DEF After
    <2>. QED  BY <2>2 DEF Sent, PageOK
  <1>4. base \in S
    <2>1. <<>> \in Seq(Pairs) /\ Range(<<>>) = {} /\ \A n \in Sure : NamesOf({}, n) = {}
      BY DEF Range, NamesOf
    <2>2. PageOK(<<>>)
      BY <2>1 DEF PageOK
    <2>. QED  BY <2>1, <2>2 DEF Sent
  <1>5. \A i \in 1..len, st \in S : step[<<i, st>>] = After(i, st) /\ step[<<i, st>>] \in S
    <2>. HIDE DEF S, After
    <2>. QED  BY <1>3
  <1>6. \E f : f \in [0..len -> S] /\ f[0] = base /\ \A i \in 1..len : f[i] = After(i, f[i - 1])
    <2>. HIDE DEF step, S, After, base, len
    <2>1. PICK f : Follows(f, len, S, base, step)
      BY <1>1, <1>4, <1>5, Recursion
    <2>2. \A i \in 1..len : i - 1 \in 0..len
      BY <1>1
    <2>. QED  BY <1>5, <2>1, <2>2 DEF Follows
  <1>7. \E f : Upto(f)
    <2>. HIDE DEF S
    <2>1. PICK f : f \in [0..len -> S] /\ f[0] = base /\ \A i \in 1..len : f[i] = After(i, f[i - 1])
      BY <1>6
    <2>2. ASSUME NEW i \in 0..len
          PROVE  f[i] = IF i = 0 THEN [out |-> {}, page |-> <<>>]
                        ELSE packed(f[i - 1].out, f[i - 1].page, list(Nets[i]))
      <3>1. i = 0 \/ i \in 1..len
        BY <1>1
      <3>. HIDE DEF list, len
      <3>. QED  BY <2>1, <3>1
    <2>. HIDE DEF list, len, After, base
    <2>3. Upto(f)
      BY <2>1, <2>2
    <2>. QED  BY <2>3
  <1>8. Upto(upto)
    <2>. HIDE DEF Upto
    <2>. QED  BY <1>7
  <1>9. upto[0] = base /\ \A i \in 1..len : upto[i] = After(i, upto[i - 1])
    <2>. HIDE DEF upto, len, list
    <2>1. 0 \in 0..len /\ \A i \in 1..len : i \in 0..len /\ i # 0
      BY <1>1
    <2>. QED  BY <1>8, <2>1
  <1>. DEFINE Good == {i \in 0..len : upto[i] \in S}
  <1>10. 0 \in Good
    <2>. HIDE DEF upto, len, S, base
    <2>. QED  BY <1>1, <1>4, <1>9
  <1>11. ASSUME NEW i \in 0..(len - 1), i \in Good PROVE i + 1 \in Good
    <2>. HIDE DEF upto, len, S, After
    <2>1. i + 1 \in 1..len /\ i + 1 \in 0..len /\ (i + 1) - 1 = i
      BY <1>1
    <2>. QED  BY <2>1, <1>3, <1>9, <1>11
  <1>12. upto[len] \in S
    <2>1. 0..len \subseteq Good
      <3>. HIDE DEF Good, len
      <3>. QED  BY <1>1, <1>10, <1>11, Induction
    <2>2. len \in 0..len
      BY <1>1
    <2>3. len \in Good
      <3>. HIDE DEF Good
      <3>. QED  BY <2>1, <2>2
    <2>. HIDE DEF upto, len, S
    <2>. QED  BY <2>3
  <1>13. zi_pages(nets) = upto[len].out \cup plain(upto[len].page)
    BY DEF zi_pages
  <1>14. Sent(upto[len].out) /\ PageOK(upto[len].page)
    <2>. HIDE DEF upto, len
    <2>. QED  BY <1>12
  <1>. HIDE DEF upto, len
  <1>. QED  BY <1>13, <1>14, PlainSent DEF Sent

-----------------------------------------------------------------------------
(* Both sides.  A list the sender holds in part is nothing the receiver has   *)
(* heard of, unless the network is a doubtful one.                           *)

ExchangeShape ==
    /\ home = [n \in Net |-> home[n]] /\ pending = [n \in Net |-> pending[n]]
    /\ zones = [n \in Net |-> zones[n]]
    /\ outstanding # Nothing =>
          outstanding = [events |-> outstanding.events, heard |-> outstanding.heard]
HomeSound == \A n \in Net \ Oversize : home[n] # Nothing => Received(n, home[n])
ToldWhenComplete == \A n \in Sure : home[n] # Nothing /\ ~complete(home[n]) => Unheard(n)
ListsSound == \A n \in Sure \ Own : Received(n, zones[n])
MailSound == \A m \in mail : m.kind = "ZiRsp" => RspOK(m)
ExchangeInv == ExchangeShape /\ HomeSound /\ ToldWhenComplete /\ ListsSound /\ MailSound

LEMMA EmptyReceived == ASSUME NEW n \in Net PROVE Received(n, NoList)
  BY DEF Received, NoList

\* A list that grows by what a packet gives of it.
LEMMA ReceivedGrows ==
    ASSUME NEW n \in Net, NEW z, Received(n, z), NEW names, NEW total, Gives(names, total, n),
           names = {} => total \in {Nothing, Len(List[n])}
    PROVE  Received(n, AddZones(z, names, total))
  BY ListFacts, NothingAssumption DEF Received, AddZones, Gives

\* More names leave a complete list complete.
LEMMA StaysComplete ==
    ASSUME NEW n \in Net, NEW z, Received(n, z), complete(z), NEW names, NEW total,
           Received(n, AddZones(z, names, total))
    PROVE  complete(AddZones(z, names, total))
  <1>. DEFINE w == AddZones(z, names, total)
  <1>1. z.names = Zones(n) /\ z.names # {}
    BY CompleteIsAll DEF complete
  <1>2. w.names = z.names \cup names /\ w.names \subseteq Zones(n)
        /\ (w.expected = Nothing \/ w.expected = Len(List[n]))
    BY DEF AddZones, Received
  <1>. HIDE DEF w
  <1>3. w.names = Zones(n) /\ w.names # {}
    BY <1>1, <1>2
  <1>4. ASSUME w.expected # Nothing PROVE w.expected <= Cardinality(w.names)
    <2>1. w.expected = Len(List[n]) /\ Cardinality(w.names) = Len(List[n]) /\ Len(List[n]) \in Nat
      BY <1>2, <1>3, <1>4, ListFacts
    <2>. QED  BY <2>1
  <1>5. complete(w)
    BY <1>3, <1>4 DEF complete
  <1>. QED  BY <1>5 DEF w

\* A ZIP reply gives the whole list, or some of it and its size.
LEMMA ReplyGives ==
    ASSUME NEW n \in Net \ Oversize, NEW names \in Replies[n]
    PROVE  Gives(names, Announced(n), n) /\ Announced(n) \in {Nothing, Len(List[n])}
  <1>1. UNION Replies[n] = Zones(n)
    BY ExchangeAssumption
  <1>2. names \subseteq Zones(n) /\ Replies[n] \subseteq SUBSET Zones(n)
    BY <1>1
  <1>3. IsFiniteSet(Replies[n])
    BY <1>2, ListFacts, FS_SUBSET, FS_Subset
  <1>4. CASE Cardinality(Replies[n]) = 1
    <2>1. PICK x : Replies[n] = {x}
      BY <1>3, <1>4, FS_Singleton
    <2>. QED  BY <1>1, <1>4, <2>1 DEF Gives, Announced
  <1>5. CASE Cardinality(Replies[n]) # 1
    <2>1. Announced(n) # Nothing
      BY <1>5, ListFacts, ExchangeAssumption, NothingAssumption DEF Announced
    <2>2. ~(Cardinality(Zones(n)) > MaxTotal)
      BY <2>1 DEF Oversize
    <2>3. Announced(n) = Len(List[n])
      BY <1>5, <2>2, ListFacts DEF Announced
    <2>. QED  BY <1>2, <2>3 DEF Gives
  <1>. QED  BY <1>4, <1>5

\* A packet put together as zi_pages does keeps every list sound.
LEMMA RspReceived ==
    ASSUME ExchangeShape, ListsSound, NEW m, RspOK(m), zi_rsp(m), UNCHANGED flapped
    PROVE  zones' = [n \in Net |-> zones'[n]] /\ ListsSound'
  <1>. DEFINE P == parse_zi_rsp(m.tuples)
              heard == {p[1] : p \in P} \cap (routes \ Own)
  <1>1. zones' = [n \in Net |-> IF n \in heard THEN AddZones(zones[n], NamesOf(P, n), m.extended)
                                ELSE zones[n]]
    BY DEF zi_rsp, NamesOf
  <1>2. ASSUME NEW n \in Sure \ Own PROVE Received(n, zones[n])
    BY DEF ListsSound
  <1>3. ASSUME NEW n \in Sure \ Own, n \in heard PROVE Received(n, AddZones(zones[n], NamesOf(P, n), m.extended))
    <2>1. Gives(NamesOf(P, n), m.extended, n)
      BY DEF RspOK
    <2>2. NamesOf(P, n) # {}
      BY <1>3 DEF NamesOf
    <2>. HIDE DEF P
    <2>. QED  BY <1>2, <2>1, <2>2, ReceivedGrows DEF Sure
  <1>. HIDE DEF heard, P
  <1>4. \A n \in Sure \ Own : Received(n, zones'[n])
    BY <1>1, <1>2, <1>3 DEF Sure
  <1>5. zones' = [n \in Net |-> zones'[n]]
    BY <1>1
  <1>. QED  BY <1>4, <1>5 DEF ListsSound, Sure, Doubtful

\* It holds when the peer opens.
LEMMA ExchangeInitInv == ExchangeInit => ExchangeInv
  <1>. SUFFICES ASSUME ExchangeInit PROVE ExchangeInv
    OBVIOUS
  <1>1. /\ pending = [n \in Net |-> Nothing] /\ outstanding = Export /\ routes = {}
        /\ zones = [n \in Net |-> NoList] /\ mail = {}
        /\ home = [n \in Net |-> IF n \in FirstKnown THEN [names |-> Zones(n), expected |-> Nothing] ELSE NoList]
    BY DEF ExchangeInit
  <1>2. ExchangeShape
    BY <1>1 DEF ExchangeShape, Export
  <1>3. HomeSound /\ ListsSound /\ MailSound
    <2>1. \A n \in Net : Received(n, [names |-> Zones(n), expected |-> Nothing])
      BY DEF Received
    <2>2. \A n \in Net : home[n] = [names |-> Zones(n), expected |-> Nothing] \/ home[n] = NoList
      BY <1>1
    <2>3. HomeSound
      BY <2>1, <2>2, EmptyReceived DEF HomeSound, Sure
    <2>4. ListsSound
      BY <1>1, EmptyReceived DEF ListsSound, Sure
    <2>. QED  BY <1>1, <2>3, <2>4 DEF MailSound
  <1>4. ToldWhenComplete
    BY <1>1 DEF ToldWhenComplete, Unheard, Export, exportable, Sure
  <1>. QED  BY <1>2, <1>3, <1>4 DEF ExchangeInv

\* Whatever the receiver asks for, and whatever the sender told it of, the
\* sender holds whole or not at all.
LEMMA AskedWhole ==
    ASSUME ExchangeInv, NEW nets, \A n \in Sure : n \in nets => ~Unheard(n)
    PROVE  Sent(zi_pages(nets))
  <1>1. ASSUME NEW n \in Sure, n \in nets, home[n] # Nothing PROVE home[n].names = Zones(n)
    <2>1. complete(home[n]) /\ Received(n, home[n])
      BY <1>1 DEF ExchangeInv, ToldWhenComplete, HomeSound, Sure, Doubtful
    <2>. QED  BY <2>1, CompleteIsAll DEF Sure
  <1>. QED  BY <1>1, PagesSent

\* Each step keeps the invariant.
LEMMA HomeLearnsInv == ASSUME ExchangeInv, HomeLearns PROVE ExchangeInv'
  <1>. DEFINE Learns(k, names) ==
          LET list == AddZones(home[k], names, Announced(k))
          IN  /\ home[k] # Nothing
              /\ home' = [home EXCEPT ![k] = list]
              /\ pending' = IF complete(list) /\ ~complete(home[k])
                            THEN [pending EXCEPT ![k] = queue(@, "NA")] ELSE pending
  <1>0. PICK k \in Net : \E names \in Replies[k] : Learns(k, names)
    BY DEF HomeLearns
  <1>1. PICK names \in Replies[k] : Learns(k, names)
    BY <1>0
  <1>. DEFINE list == AddZones(home[k], names, Announced(k))
  <1>2. UNCHANGED <<outstanding, routes, zones, mail, flapped>>
    BY DEF HomeLearns
  <1>3. ExchangeShape /\ HomeSound /\ ToldWhenComplete /\ ListsSound /\ MailSound
    BY DEF ExchangeInv
  <1>4. k \notin Oversize => Received(k, home[k])
    BY <1>1, <1>3 DEF HomeSound
  <1>5. k \notin Oversize => Gives(names, Announced(k), k) /\ Announced(k) \in {Nothing, Len(List[k])}
    BY ReplyGives
  <1>6. /\ home[k] # Nothing /\ home' = [home EXCEPT ![k] = list]
        /\ pending' = IF complete(list) /\ ~complete(home[k])
                      THEN [pending EXCEPT ![k] = queue(@, "NA")] ELSE pending
    BY <1>1
  <1>7. k \notin Oversize => Received(k, list)
    BY <1>4, <1>5, ReceivedGrows
  <1>8. k \notin Oversize /\ complete(home[k]) => complete(list)
    BY <1>4, <1>7, StaysComplete
  <1>. HIDE DEF list
  <1>9. home' = [n \in Net |-> home'[n]] /\ home'[k] = list /\ \A n \in Net \ {k} : home'[n] = home[n]
    BY <1>3, <1>6 DEF ExchangeShape
  <1>10. pending' = [n \in Net |-> pending'[n]] /\ \A n \in Net \ {k} : pending'[n] = pending[n]
    BY <1>3, <1>6 DEF ExchangeShape
  <1>11. ExchangeShape'
    BY <1>2, <1>3, <1>9, <1>10 DEF ExchangeShape
  <1>12. HomeSound'
    BY <1>3, <1>7, <1>9 DEF HomeSound
  <1>13. ToldWhenComplete'
    <2>. SUFFICES ASSUME NEW n \in Sure, home'[n] # Nothing, ~complete(home'[n]) PROVE Unheard(n)'
      BY <1>2 DEF ToldWhenComplete, complete, Sure, Doubtful
    <2>1. home[n] # Nothing /\ ~complete(home[n]) /\ pending'[n] = pending[n]
      <3>1. CASE n = k
        BY <1>6, <1>8, <1>9, <3>1 DEF Sure, Doubtful
      <3>2. CASE n # k
        BY <1>9, <1>10, <3>2 DEF Sure
      <3>. QED  BY <3>1, <3>2
    <2>2. Unheard(n)
      BY <1>3, <2>1 DEF ToldWhenComplete
    <2>. QED  BY <1>2, <2>1, <2>2 DEF Unheard
  <1>14. ListsSound' /\ MailSound'
    BY <1>2, <1>3 DEF ListsSound, MailSound, RspOK, Sure, Doubtful
  <1>. QED  BY <1>11, <1>12, <1>13, <1>14 DEF ExchangeInv

LEMMA HomeLosesInv == ASSUME ExchangeInv, HomeLoses PROVE ExchangeInv'
  <1>1. PICK k \in Net : /\ home' = [home EXCEPT ![k] = Nothing]
                         /\ pending' = [pending EXCEPT ![k] = queue(@, "ND")]
    BY DEF HomeLoses
  <1>2. UNCHANGED <<outstanding, routes, zones, mail, flapped>>
    BY DEF HomeLoses
  <1>3. ExchangeShape /\ HomeSound /\ ToldWhenComplete /\ ListsSound /\ MailSound
    BY DEF ExchangeInv
  <1>4. /\ home' = [n \in Net |-> home'[n]] /\ home'[k] = Nothing
        /\ pending' = [n \in Net |-> pending'[n]]
        /\ \A n \in Net \ {k} : home'[n] = home[n] /\ pending'[n] = pending[n]
    BY <1>1, <1>3 DEF ExchangeShape
  <1>5. ExchangeShape'
    BY <1>2, <1>3, <1>4 DEF ExchangeShape
  <1>6. HomeSound'
    BY <1>3, <1>4 DEF HomeSound
  <1>7. ToldWhenComplete'
    <2>. SUFFICES ASSUME NEW n \in Sure, home'[n] # Nothing, ~complete(home'[n]) PROVE Unheard(n)'
      BY <1>2 DEF ToldWhenComplete, complete, Sure, Doubtful
    <2>1. home[n] # Nothing /\ ~complete(home[n]) /\ pending'[n] = pending[n]
      BY <1>4 DEF Sure
    <2>2. Unheard(n)
      BY <1>3, <2>1 DEF ToldWhenComplete
    <2>. QED  BY <1>2, <2>1, <2>2 DEF Unheard
  <1>8. ListsSound' /\ MailSound'
    BY <1>2, <1>3 DEF ListsSound, MailSound, RspOK, Sure, Doubtful
  <1>. QED  BY <1>5, <1>6, <1>7, <1>8 DEF ExchangeInv

LEMMA HomeReturnsInv == ASSUME ExchangeInv, HomeReturns PROVE ExchangeInv'
  <1>1. PICK k \in Net : /\ home' = [home EXCEPT ![k] = NoList]
                         /\ flapped' = IF Unheard(k) THEN flapped ELSE flapped \cup {k}
    BY DEF HomeReturns
  <1>2. UNCHANGED <<pending, outstanding, routes, zones, mail>>
    BY DEF HomeReturns
  <1>3. ExchangeShape /\ HomeSound /\ ToldWhenComplete /\ ListsSound /\ MailSound
    BY DEF ExchangeInv
  <1>4. /\ home' = [n \in Net |-> home'[n]] /\ home'[k] = NoList
        /\ \A n \in Net \ {k} : home'[n] = home[n]
    BY <1>1, <1>3 DEF ExchangeShape
  <1>5. Sure' \subseteq Sure /\ (k \in Sure' => Unheard(k))
    BY <1>1 DEF Sure, Doubtful
  <1>6. ExchangeShape'
    BY <1>2, <1>3, <1>4 DEF ExchangeShape
  <1>7. HomeSound'
    BY <1>3, <1>4, EmptyReceived DEF HomeSound
  <1>8. ToldWhenComplete'
    <2>. SUFFICES ASSUME NEW n \in Sure', home'[n] # Nothing, ~complete(home'[n]) PROVE Unheard(n)'
      BY DEF ToldWhenComplete, complete
    <2>1. Unheard(n)
      <3>1. CASE n = k
        BY <1>5, <3>1
      <3>2. CASE n # k
        BY <1>3, <1>4, <1>5, <3>2 DEF ToldWhenComplete, Sure
      <3>. QED  BY <3>1, <3>2
    <2>. QED  BY <1>2, <2>1 DEF Unheard
  <1>9. ListsSound' /\ MailSound'
    <2>1. \A m \in mail : m.kind = "ZiRsp" => RspOK(m)'
      BY <1>3, <1>5 DEF MailSound, RspOK
    <2>. QED  BY <1>2, <1>3, <1>5, <2>1 DEF ListsSound, MailSound
  <1>. QED  BY <1>6, <1>7, <1>8, <1>9 DEF ExchangeInv

LEMMA SendUpdateInv == ASSUME ExchangeInv, SendUpdate PROVE ExchangeInv'
  <1>1. /\ outstanding' = [events |-> pending, heard |-> FALSE]
        /\ pending' = [n \in Net |-> Nothing] /\ UNCHANGED <<home, routes, zones, mail, flapped>>
    BY DEF SendUpdate
  <1>2. ExchangeShape /\ HomeSound /\ ToldWhenComplete /\ ListsSound /\ MailSound
    BY DEF ExchangeInv
  <1>3. ExchangeShape'
    BY <1>1, <1>2 DEF ExchangeShape
  <1>4. ToldWhenComplete'
    <2>. SUFFICES ASSUME NEW n \in Sure, home[n] # Nothing, ~complete(home[n]) PROVE Unheard(n)'
      BY <1>1 DEF ToldWhenComplete, complete, Sure, Doubtful
    <2>1. Unheard(n)
      BY <1>2 DEF ToldWhenComplete
    <2>. QED  BY <1>1, <2>1 DEF Unheard, Sure
  <1>5. HomeSound' /\ ListsSound' /\ MailSound'
    BY <1>1, <1>2 DEF HomeSound, ListsSound, MailSound, RspOK, Sure, Doubtful
  <1>. QED  BY <1>3, <1>4, <1>5 DEF ExchangeInv

LEMMA UpdateArrivesInv == ASSUME ExchangeInv, UpdateArrives PROVE ExchangeInv'
  <1>. DEFINE e == outstanding.events
              gone == {n \in Net : e[n] = "ND"}
              told == {n \in Net : e[n] \in {"NA", "NDC"}}
              ack == RiAck(outstanding.heard \/ Added(outstanding) # {})
  <1>1. /\ outstanding # Nothing /\ mail' = mail \cup {ack}
        /\ outstanding' = [outstanding EXCEPT !.heard = TRUE] /\ UNCHANGED <<home, pending, flapped>>
    BY DEF UpdateArrives, Send
  <1>2. \/ UNCHANGED <<routes, zones>>
        \/ /\ routes' = (routes \ gone) \cup told
           /\ zones' = [n \in Net |-> IF n \in gone \ Own THEN NoList ELSE zones[n]]
    BY DEF UpdateArrives
  <1>3. ack.kind = "RiAck"
    BY DEF RiAck
  <1>. HIDE DEF gone, ack
  <1>4. ExchangeShape /\ HomeSound /\ ToldWhenComplete /\ ListsSound /\ MailSound
    BY DEF ExchangeInv
  <1>5. outstanding' = [events |-> outstanding.events, heard |-> TRUE]
    BY <1>1, <1>4 DEF ExchangeShape
  <1>6. ExchangeShape'
    BY <1>1, <1>2, <1>4, <1>5 DEF ExchangeShape
  <1>7. ToldWhenComplete'
    <2>. SUFFICES ASSUME NEW n \in Sure, home[n] # Nothing, ~complete(home[n]) PROVE Unheard(n)'
      BY <1>1 DEF ToldWhenComplete, complete, Sure, Doubtful
    <2>1. Unheard(n)
      BY <1>4 DEF ToldWhenComplete
    <2>2. n \notin told /\ n \notin routes
      BY <1>1, <2>1, NothingAssumption DEF Unheard
    <2>. HIDE DEF told
    <2>3. n \notin routes'
      BY <1>2, <2>2
    <2>4. \A m \in mail' : m.kind = "ZiReq" => n \notin m.nets
      BY <1>1, <1>3, <2>1 DEF Unheard
    <2>. QED  BY <1>1, <1>5, <2>1, <2>3, <2>4 DEF Unheard
  <1>8. ListsSound'
    BY <1>1, <1>2, <1>4, EmptyReceived DEF ListsSound, Sure, Doubtful
  <1>9. HomeSound' /\ MailSound'
    BY <1>1, <1>3, <1>4 DEF HomeSound, MailSound, RspOK, Sure, Doubtful
  <1>. QED  BY <1>6, <1>7, <1>8, <1>9 DEF ExchangeInv

\* What the sender answers takes its place in the mail.
LEMMA AnswerInv ==
    ASSUME ExchangeInv, NEW old, NEW sent, Sent(sent), old \subseteq mail, mail' = old \cup sent,
           outstanding' = Nothing \/ outstanding' = outstanding,
           UNCHANGED <<home, pending, routes, zones, flapped>>
    PROVE  ExchangeInv'
  <1>1. ExchangeShape /\ HomeSound /\ ToldWhenComplete /\ ListsSound /\ MailSound
    BY DEF ExchangeInv
  <1>2. \A m \in sent : m.kind = "ZiRsp" /\ RspOK(m)
    BY DEF Sent
  <1>3. ExchangeShape'
    BY <1>1 DEF ExchangeShape
  <1>4. ToldWhenComplete'
    <2>. SUFFICES ASSUME NEW n \in Sure, home[n] # Nothing, ~complete(home[n]) PROVE Unheard(n)'
      BY DEF ToldWhenComplete, complete, Sure, Doubtful
    <2>1. Unheard(n)
      BY <1>1 DEF ToldWhenComplete
    <2>2. \A m \in mail' : m.kind = "ZiReq" => n \notin m.nets
      BY <1>2, <2>1 DEF Unheard
    <2>. QED  BY <2>1, <2>2 DEF Unheard
  <1>5. MailSound'
    BY <1>1, <1>2 DEF MailSound, RspOK, Sure, Doubtful
  <1>6. HomeSound' /\ ListsSound'
    BY <1>1 DEF HomeSound, ListsSound, Sure, Doubtful
  <1>. QED  BY <1>3, <1>4, <1>5, <1>6 DEF ExchangeInv

LEMMA NothingSent == Sent({})
  BY DEF Sent

LEMMA RiAckInv == ASSUME ExchangeInv, ri_ack PROVE ExchangeInv'
  <1>1. PICK m \in mail :
          /\ outstanding # Nothing /\ outstanding' = Nothing
          /\ mail' = {x \in mail : x.kind # "RiAck"}
                        \cup (IF m.szi THEN zi_pages(Added(outstanding)) ELSE {})
    BY DEF ri_ack
  <1>2. UNCHANGED <<home, pending, routes, zones, flapped>>
    BY DEF ri_ack
  <1>. DEFINE old == {x \in mail : x.kind # "RiAck"}
              sent == IF m.szi THEN zi_pages(Added(outstanding)) ELSE {}
  <1>3. \A n \in Sure : n \in Added(outstanding) => ~Unheard(n)
    BY <1>1, NothingAssumption DEF Added, Unheard
  <1>4. Sent(zi_pages(Added(outstanding)))
    BY <1>3, AskedWhole
  <1>5. Sent(sent)
    BY <1>4, NothingSent
  <1>6. old \subseteq mail /\ mail' = old \cup sent
    BY <1>1
  <1>. HIDE DEF old, sent
  <1>. QED  BY <1>1, <1>2, <1>5, <1>6, AnswerInv

LEMMA ZiReqArrivesInv == ASSUME ExchangeInv, ZiReqArrives PROVE ExchangeInv'
  <1>1. PICK m \in mail : m.kind = "ZiReq" /\ mail' = (mail \ {m}) \cup zi_pages(m.nets)
    BY DEF ZiReqArrives
  <1>2. UNCHANGED <<home, pending, outstanding, routes, zones, flapped>>
    BY DEF ZiReqArrives
  <1>3. \A n \in Sure : n \in m.nets => ~Unheard(n)
    BY <1>1 DEF Unheard
  <1>4. Sent(zi_pages(m.nets))
    BY <1>3, AskedWhole
  <1>5. mail \ {m} \subseteq mail
    OBVIOUS
  <1>. QED  BY <1>1, <1>2, <1>4, <1>5, AnswerInv

LEMMA ZiRerequestInv == ASSUME ExchangeInv, zi_rerequest PROVE ExchangeInv'
  <1>1. mail' = mail \cup {ZiReq(zoneless)} /\ UNCHANGED <<home, pending, outstanding, routes, zones, flapped>>
    BY DEF zi_rerequest, Send
  <1>2. ExchangeShape /\ HomeSound /\ ToldWhenComplete /\ ListsSound /\ MailSound
    BY DEF ExchangeInv
  <1>3. ZiReq(zoneless).kind = "ZiReq" /\ ZiReq(zoneless).nets = zoneless /\ zoneless \subseteq routes
    BY DEF ZiReq, zoneless
  <1>4. ToldWhenComplete'
    <2>. SUFFICES ASSUME NEW n \in Sure, home[n] # Nothing, ~complete(home[n]) PROVE Unheard(n)'
      BY <1>1 DEF ToldWhenComplete, complete, Sure, Doubtful
    <2>1. Unheard(n)
      BY <1>2 DEF ToldWhenComplete
    <2>2. \A m \in mail' : m.kind = "ZiReq" => n \notin m.nets
      BY <1>1, <1>3, <2>1 DEF Unheard
    <2>. QED  BY <1>1, <2>1, <2>2 DEF Unheard
  <1>5. MailSound'
    BY <1>1, <1>2, <1>3 DEF MailSound, RspOK, Sure, Doubtful
  <1>6. ExchangeShape' /\ HomeSound' /\ ListsSound'
    BY <1>1, <1>2 DEF ExchangeShape, HomeSound, ListsSound, Sure, Doubtful
  <1>. QED  BY <1>4, <1>5, <1>6 DEF ExchangeInv

\* Datagrams that go, and lists that stay sound.
LEMMA MailShrinks ==
    ASSUME ExchangeInv, mail' \subseteq mail, zones' = [n \in Net |-> zones'[n]], ListsSound',
           UNCHANGED <<home, pending, outstanding, routes, flapped>>
    PROVE  ExchangeInv'
  <1>1. ExchangeShape /\ HomeSound /\ ToldWhenComplete /\ ListsSound /\ MailSound
    BY DEF ExchangeInv
  <1>2. ToldWhenComplete'
    <2>. SUFFICES ASSUME NEW n \in Sure, home[n] # Nothing, ~complete(home[n]) PROVE Unheard(n)'
      BY DEF ToldWhenComplete, complete, Sure, Doubtful
    <2>1. Unheard(n)
      BY <1>1 DEF ToldWhenComplete
    <2>. QED  BY <2>1 DEF Unheard
  <1>3. ExchangeShape' /\ HomeSound' /\ MailSound'
    BY <1>1 DEF ExchangeShape, HomeSound, MailSound, RspOK, Sure, Doubtful
  <1>. QED  BY <1>2, <1>3 DEF ExchangeInv

LEMMA ZiRspArrivesInv == ASSUME ExchangeInv, ZiRspArrives PROVE ExchangeInv'
  <1>1. PICK m \in mail : Takes(m)
    BY DEF ZiRspArrives
  <1>2. RspOK(m) /\ ExchangeShape /\ ListsSound
    BY <1>1 DEF ExchangeInv, MailSound, Takes
  <1>3. zones' = [n \in Net |-> zones'[n]] /\ ListsSound'
    BY <1>1, <1>2, RspReceived DEF Takes
  <1>. QED  BY <1>1, <1>3, MailShrinks DEF Takes

LEMMA RepeatsInv == ASSUME ExchangeInv, Repeats PROVE ExchangeInv'
  <1>1. PICK m \in mail : m.kind = "ZiRsp" /\ zi_rsp(m) /\ UNCHANGED flapped
    BY DEF Repeats
  <1>2. RspOK(m) /\ ExchangeShape /\ ListsSound
    BY <1>1 DEF ExchangeInv, MailSound
  <1>3. zones' = [n \in Net |-> zones'[n]] /\ ListsSound'
    BY <1>1, <1>2, RspReceived
  <1>. QED  BY <1>3, MailShrinks DEF Repeats

LEMMA LoseInv == ASSUME ExchangeInv, Lose PROVE ExchangeInv'
  <1>1. mail' \subseteq mail /\ UNCHANGED <<home, pending, outstanding, routes, zones, flapped>>
    BY DEF Lose
  <1>2. zones' = [n \in Net |-> zones'[n]] /\ ListsSound'
    BY <1>1 DEF ExchangeInv, ExchangeShape, ListsSound, Sure, Doubtful
  <1>. QED  BY <1>1, <1>2, MailShrinks

LEMMA ReopensInv == ASSUME ExchangeInv, Reopens PROVE ExchangeInv'
  <1>1. /\ routes' = {} /\ zones' = [n \in Net |-> IF n \in Own THEN zones[n] ELSE NoList]
        /\ mail' = {} /\ outstanding' = Export /\ UNCHANGED <<home, pending>>
        /\ flapped' = {n \in flapped : pending[n] # Nothing /\ ~exportable(n)}
    BY DEF Reopens
  <1>2. ExchangeShape /\ HomeSound /\ ToldWhenComplete /\ ListsSound /\ MailSound
    BY DEF ExchangeInv
  <1>3. ExchangeShape'
    BY <1>1, <1>2 DEF ExchangeShape, Export
  <1>4. ToldWhenComplete'
    <2>. SUFFICES ASSUME NEW n \in Sure', home[n] # Nothing, ~complete(home[n]) PROVE Unheard(n)'
      BY <1>1 DEF ToldWhenComplete, complete
    <2>1. n \in Net /\ ~exportable(n)
      BY DEF Sure, exportable
    <2>2. pending[n] = Nothing
      <3>1. CASE n \in Sure
        BY <1>2, <3>1 DEF ToldWhenComplete, Unheard
      <3>2. CASE n \notin Sure
        BY <1>1, <2>1, <3>2 DEF Sure, Doubtful
      <3>. QED  BY <3>1, <3>2
    <2>3. Export.events[n] = Nothing
      BY <2>1 DEF Export
    <2>. QED  BY <1>1, <2>2, <2>3 DEF Unheard
  <1>5. ListsSound'
    BY <1>1, <1>2, EmptyReceived DEF ListsSound, Sure
  <1>6. HomeSound' /\ MailSound'
    BY <1>1, <1>2 DEF HomeSound, MailSound
  <1>. QED  BY <1>3, <1>4, <1>5, <1>6 DEF ExchangeInv

\* A list the receiver counts as complete is the network's whole list, of
\* however many networks and names and over any number of lost, repeated and
\* overtaken packets, removals, returns and restarts, but for that of a network
\* that came back before its removal was dealt with, or that has more zones
\* than a byte can announce (ZoneList::complete, zi_pages, zi_rsp).
THEOREM ListsArriveWhole == ExchangeSpec => []CompleteIsWhole
  <1>1. ExchangeInv => CompleteIsWhole
    BY CompleteIsAll DEF ExchangeInv, ListsSound, CompleteIsWhole, Sure
  <1>2. ExchangeInv /\ [ExchangeNext]_exchangeVars => ExchangeInv'
    <2>. SUFFICES ASSUME ExchangeInv, [ExchangeNext]_exchangeVars PROVE ExchangeInv'
      OBVIOUS
    <2>1. CASE UNCHANGED exchangeVars
      <3>1. UNCHANGED <<home, pending, outstanding, routes, zones, mail, flapped>>
        BY <2>1 DEF exchangeVars
      <3>2. zones' = [n \in Net |-> zones'[n]] /\ ListsSound'
        BY <3>1 DEF ExchangeInv, ExchangeShape, ListsSound, Sure, Doubtful
      <3>. QED  BY <3>1, <3>2, MailShrinks
    <2>. QED  BY <2>1, HomeLearnsInv, HomeLosesInv, HomeReturnsInv, SendUpdateInv, UpdateArrivesInv,
                 RiAckInv, ZiRerequestInv, ZiReqArrivesInv, ZiRspArrivesInv, ReopensInv, LoseInv, RepeatsInv
              DEF ExchangeNext
  <1>. QED  BY <1>1, <1>2, ExchangeInitInv, PTL DEF ExchangeSpec
=============================================================================
