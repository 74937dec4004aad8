-------------------------- MODULE EventLoop_proofs --------------------------
(***************************************************************************)
(* What TLAPS proves of EventLoop, for a queue of any length, any number   *)
(* of transactions and any clock: every loss of a link is told to the loop *)
(* or still counted, once, and every message of the monitor is made of the *)
(* segments of one response.                                               *)
(***************************************************************************)
EXTENDS EventLoop, TLAPS, FiniteSetTheorems

Stages == {"Read", "Report", "Post", "Done"}

ClockOK == now \in Nat /\ use \in [Keys -> [nr : Nat, heard : Nat]]

\* A reader that holds an event had told the loop of all but MaxUntold of its
\* losses when it took it, and the AURP reader has none.
CountsOK ==
    /\ mode \in DOMAIN Links /\ queue \in Seq(Events)
    /\ stage \in [AllReaders -> Stages] /\ hand \in [AllReaders -> Events \cup {Nothing}]
    /\ dropped \in [AllReaders -> Nat] /\ untold \in [AllReaders -> Nat]
    /\ \A r \in AllReaders :
          /\ hand[r].kind # "Dropped"
          /\ stage[r] \in {"Report", "Post"} => hand[r] \in Events /\ untold[r] < MaxUntold
    /\ dropped["aurp"] = 0 /\ untold["aurp"] = 0

\* The running count of the losses r reports in q, which never falls.
Counts(r, q, told, all) ==
    /\ told \in [0..Len(q) -> 0..MaxUntold] /\ told[0] = 0
    /\ \A n \in 1..Len(q) : told[n] = told[n - 1] + Reports(r, q[n])
    /\ \A m, n \in 0..Len(q) : m <= n => told[m] <= told[n]
    /\ told[Len(q)] = all

TellsAll(r) == \E told : Counts(r, queue, told, untold[r] - dropped[r])

LossesInv == CountsOK /\ \A r \in AllReaders : untold[r] <= MaxUntold /\ TellsAll(r)
-----------------------------------------------------------------------------
(* Events and the counts of the losses they report.                         *)

LEMMA Bounds ==
    /\ Capacity \in Nat \ {0} /\ MaxUntold \in Nat \ {0} /\ Segments \in Nat \ {0}
    /\ TxnTimeout \in Nat \ {0} /\ MaxOpen \in Nat \ {0} /\ MaxTime \in Nat
    /\ IsFiniteSet(Keys) /\ \A k \in Keys : Heard[k] \subseteq 0..Segments - 1
  BY BoundsAssumption

LEMMA EventFacts ==
    /\ Packet \in Events /\ Error \in Events
    /\ Packet.kind = "Packet" /\ Error.kind = "Error" /\ Nothing.kind = "Nothing"
    /\ \A k \in Keys, u \in Nat, s \in 0..Segments - 1, t \in Nat :
          /\ Fragment(k, u, s, t) \in Events /\ Fragment(k, u, s, t).kind = "Fragment"
          /\ Fragment(k, u, s, t).key = k /\ Fragment(k, u, s, t).use = u
          /\ Fragment(k, u, s, t).seq = s /\ Fragment(k, u, s, t).at = t
    /\ \A r \in AllReaders, n \in Nat :
          /\ Dropped(r, n) \in Events /\ Dropped(r, n).kind = "Dropped"
          /\ Dropped(r, n).by = r /\ Dropped(r, n).count = n
  BY DEF Packet, Error, Nothing, Fragment, Dropped, Events

LEMMA EventCases ==
    ASSUME NEW e \in Events
    PROVE  /\ e.kind \in {"Packet", "Error", "Fragment", "Dropped"}
           /\ e.kind = "Fragment" => e.key \in Keys /\ e.use \in Nat /\ e.at \in Nat
                                     /\ e.seq \in 0..Segments - 1
           /\ e.kind = "Dropped" => e.by \in AllReaders /\ e.count \in Nat
           /\ \A r : Reports(r, e) \in Nat
  BY DEF Events, Packet, Error, Reports

\* An event at the end adds what it reports to the count.
LEMMA CountsAppend ==
    ASSUME NEW q \in Seq(Events), NEW e \in Events, NEW r, NEW told, NEW all \in Nat,
           Counts(r, q, told, all), all + Reports(r, e) <= MaxUntold
    PROVE  \E more : Counts(r, Append(q, e), more, all + Reports(r, e))
  <1>. DEFINE len == Len(q)
              more == [n \in 0..Len(Append(q, e)) |-> IF n <= len THEN told[n] ELSE all + Reports(r, e)]
  <1>1. Reports(r, e) \in Nat
    BY EventCases
  <1>2. len \in Nat /\ Len(Append(q, e)) = len + 1 /\ MaxUntold \in Nat
    BY Bounds
  <1>3. \A n \in 1..len : Append(q, e)[n] = q[n]
    OBVIOUS
  <1>4. Append(q, e)[len + 1] = e
    OBVIOUS
  <1>5. /\ \A n \in 0..len : told[n] \in 0..MaxUntold /\ told[n] <= all
        /\ \A m, n \in 0..len : m <= n => told[m] <= told[n]
    BY <1>2 DEF Counts
  <1>6. told[0] = 0 /\ told[len] = all /\ \A n \in 1..len : told[n] = told[n - 1] + Reports(r, q[n])
    BY DEF Counts
  <1>7. \A n \in 0..len : more[n] = told[n]
    BY <1>2
  <1>8. more[len + 1] = all + Reports(r, e)
    BY <1>2
  <1>9. more \in [0..Len(Append(q, e)) -> 0..MaxUntold]
    BY <1>1, <1>2, <1>5
  <1>. HIDE DEF more, len
  <1>10. more[0] = 0
    BY <1>2, <1>6, <1>7
  <1>11. ASSUME NEW n \in 1..(len + 1)
         PROVE  more[n] = more[n - 1] + Reports(r, Append(q, e)[n])
    <2>1. CASE n = len + 1
      <3>1. n - 1 = len /\ len \in 0..len
        BY <2>1, <1>2
      <3>2. more[n - 1] = all
        BY <3>1, <1>6, <1>7
      <3>. QED  BY <2>1, <3>2, <1>4, <1>8
    <2>2. CASE n # len + 1
      <3>1. n \in 1..len /\ n \in 0..len /\ n - 1 \in 0..len
        BY <2>2, <1>2
      <3>. QED  BY <3>1, <1>3, <1>6, <1>7
    <2>. QED  BY <2>1, <2>2
  <1>12. ASSUME NEW m \in 0..(len + 1), NEW n \in 0..(len + 1), m <= n
         PROVE  more[m] <= more[n]
    <2>1. n \in 0..len \/ n = len + 1
      BY <1>2
    <2>2. m \in 0..len \/ (m = len + 1 /\ n = len + 1)
      BY <1>2, <1>12
    <2>3. \A x \in 0..len : more[x] \in Nat /\ more[x] <= all
      BY <1>2, <1>5, <1>7
    <2>4. CASE n \in 0..len
      <3>1. m \in 0..len
        BY <2>4, <1>2, <1>12
      <3>. QED  BY <2>4, <3>1, <1>5, <1>7, <1>12
    <2>5. CASE n = len + 1
      BY <2>2, <2>3, <2>5, <1>1, <1>8
    <2>. QED  BY <2>1, <2>4, <2>5
  <1>. QED  BY <1>2, <1>8, <1>9, <1>10, <1>11, <1>12 DEF Counts

\* An event taken out takes what it reports with it.
LEMMA CountsTail ==
    ASSUME NEW q \in Seq(Events), q # <<>>, NEW r, NEW told, NEW all \in Nat,
           Counts(r, q, told, all)
    PROVE  /\ Reports(r, Head(q)) <= all
           /\ \E less : Counts(r, Tail(q), less, all - Reports(r, Head(q)))
  <1>. DEFINE len == Len(q)
              c == Reports(r, Head(q))
              less == [n \in 0..Len(Tail(q)) |-> told[n + 1] - c]
  <1>1. len \in Nat \ {0} /\ Len(Tail(q)) = len - 1 /\ MaxUntold \in Nat /\ q[1] = Head(q)
        /\ Head(q) \in Events
    BY Bounds
  <1>2. \A n \in 1..(len - 1) : Tail(q)[n] = q[n + 1]
    OBVIOUS
  <1>3. \A n \in 1..len : q[n] \in Events
    OBVIOUS
  <1>4. \A n \in 1..len : Reports(r, q[n]) \in Nat
    BY <1>3, EventCases
  <1>5. c \in Nat
    BY <1>1, <1>4
  <1>6. /\ \A n \in 0..len : told[n] \in 0..MaxUntold /\ told[n] <= all
        /\ \A m, n \in 0..len : m <= n => told[m] <= told[n]
    BY <1>1 DEF Counts
  <1>7. told[0] = 0 /\ told[len] = all /\ \A n \in 1..len : told[n] = told[n - 1] + Reports(r, q[n])
    BY DEF Counts
  <1>8. told[1] = c
    <2>1. 1 \in 1..len /\ 1 - 1 = 0
      BY <1>1
    <2>. QED  BY <2>1, <1>1, <1>5, <1>7
  <1>9. \A n \in 0..(len - 1) : less[n] = told[n + 1] - c
    BY <1>1
  <1>10. DOMAIN less = 0..(len - 1) /\ less = [n \in 0..(len - 1) |-> less[n]]
    BY <1>1
  <1>. HIDE DEF less, c, len
  <1>11. \A n \in 0..(len - 1) : n + 1 \in 1..len /\ n + 1 \in 0..len /\ 1 \in 0..len
    BY <1>1
  <1>12. \A n \in 0..(len - 1) : /\ told[n + 1] \in Nat /\ told[n + 1] <= MaxUntold
                                 /\ c <= told[n + 1] /\ told[n + 1] <= all
    BY <1>1, <1>6, <1>8, <1>11
  <1>13. c <= all /\ less[0] = 0 /\ less[len - 1] = all - c
    <2>1. 0 \in 0..(len - 1) /\ len - 1 \in 0..(len - 1) /\ (len - 1) + 1 = len /\ 0 + 1 = 1
      BY <1>1
    <2>. QED  BY <2>1, <1>5, <1>7, <1>8, <1>9, <1>12
  <1>14. less \in [0..(len - 1) -> 0..MaxUntold]
    <2>1. \A n \in 0..(len - 1) : less[n] \in 0..MaxUntold
      BY <1>1, <1>5, <1>9, <1>12
    <2>. QED  BY <2>1, <1>10
  <1>15. ASSUME NEW m \in 0..(len - 1), NEW n \in 0..(len - 1), m <= n
         PROVE  less[m] <= less[n]
    <2>1. m + 1 \in 0..len /\ n + 1 \in 0..len /\ m + 1 <= n + 1
      BY <1>1, <1>15
    <2>. QED  BY <2>1, <1>5, <1>6, <1>9, <1>12
  <1>16. ASSUME NEW n \in 1..(len - 1)
         PROVE  less[n] = less[n - 1] + Reports(r, Tail(q)[n])
    <2>1. n \in 0..(len - 1) /\ n - 1 \in 0..(len - 1) /\ n + 1 \in 1..len /\ (n - 1) + 1 = n
          /\ (n + 1) - 1 = n /\ n \in Nat
      BY <1>1
    <2>2. told[n + 1] = told[(n + 1) - 1] + Reports(r, q[n + 1])
      BY <2>1, <1>7
    <2>3. told[n + 1] = told[n] + Reports(r, q[n + 1])
      BY <2>1, <2>2
    <2>4. less[n] = told[n + 1] - c /\ less[n - 1] = told[n] - c
      BY <2>1, <1>9
    <2>5. told[n] \in Nat /\ told[n + 1] \in Nat /\ Reports(r, q[n + 1]) \in Nat
      BY <2>1, <1>4, <1>12
    <2>6. Tail(q)[n] = q[n + 1]
      BY <1>2
    <2>. DEFINE before == told[n]
                more == Reports(r, q[n + 1])
    <2>7. (before + more) - c = (before - c) + more
      <3>. HIDE DEF before, more
      <3>1. ASSUME before \in Nat, more \in Nat PROVE (before + more) - c = (before - c) + more
        BY <3>1, <1>5
      <3>. QED  BY <3>1, <2>5 DEF before, more
    <2>8. less[n] = (before + more) - c /\ less[n - 1] = before - c
      BY <2>3, <2>4
    <2>. QED  BY <2>6, <2>7, <2>8
  <1>17. Counts(r, Tail(q), less, all - c)
    BY <1>1, <1>13, <1>14, <1>15, <1>16 DEF Counts
  <1>. QED  BY <1>13, <1>17 DEF c

LEMMA ClockInit == Init => ClockOK
  BY DEF Init, ClockOK

LEMMA ClockNext == ClockOK /\ [Next]_vars => ClockOK'
  <1>. SUFFICES ASSUME ClockOK, [Next]_vars PROVE ClockOK'
    OBVIOUS
  <1>1. CASE ReadFragment
    <2>1. PICK k \in Keys : \E u \in 1..Uses[k] : use' = [use EXCEPT ![k] = [nr |-> u, heard |-> now]]
      BY <1>1 DEF ReadFragment
    <2>2. now' = now
      BY <1>1 DEF ReadFragment
    <2>3. PICK u \in 1..Uses[k] : use' = [use EXCEPT ![k] = [nr |-> u, heard |-> now]]
      BY <2>1
    <2>4. u \in Nat
      BY BoundsAssumption
    <2>5. [nr |-> u, heard |-> now] \in [nr : Nat, heard : Nat]
      BY <2>4 DEF ClockOK
    <2>. QED  BY <2>2, <2>3, <2>5 DEF ClockOK
  <1>2. CASE Clock
    BY <1>2 DEF Clock, ClockOK
  <1>3. CASE UNCHANGED wireVars
    BY <1>3 DEF wireVars, ClockOK
  <1>4. ReadFragment \/ Clock \/ UNCHANGED wireVars
    BY DEF Next, Turn, vars, wireVars, Read, Report, Send, HangUp, RouterTurn, RouterEnd, BridgeTurn,
           MonitorTurn, Signal, DeadlinePasses, TimesCome
  <1>. QED  BY <1>1, <1>2, <1>3, <1>4
-----------------------------------------------------------------------------
(* Losses.                                                                  *)

LEMMA LinkNames == mode \in DOMAIN Links => LinkReaders \subseteq {"nic", "lt"} /\ Readers \subseteq AllReaders
  <1>1. mode \in DOMAIN Links => Links[mode] \subseteq {"nic", "lt"}
    BY LinksAssumption
  <1>. QED  BY <1>1 DEF LinkReaders, Readers, AllReaders

LEMMA TellsNat ==
    ASSUME NEW r, CountsOK, r \in AllReaders, TellsAll(r)
    PROVE  untold[r] - dropped[r] \in Nat
  <1>1. PICK told : Counts(r, queue, told, untold[r] - dropped[r])
    BY DEF TellsAll
  <1>2. Len(queue) \in Nat /\ MaxUntold \in Nat
    BY Bounds DEF CountsOK
  <1>. QED  BY <1>1, <1>2 DEF Counts

LEMMA LossesInit == Init => LossesInv
  <1>. SUFFICES ASSUME Init PROVE LossesInv
    OBVIOUS
  <1>. USE DEF Init
  <1>1. CountsOK
    BY EventFacts, Bounds DEF CountsOK, Stages, AllReaders
  <1>2. ASSUME NEW r \in AllReaders PROVE untold[r] <= MaxUntold /\ TellsAll(r)
    <2>. DEFINE told == [n \in 0..0 |-> 0]
    <2>1. Len(queue) = 0 /\ untold[r] = 0 /\ untold[r] - dropped[r] = 0 /\ MaxUntold \in Nat
      BY Bounds
    <2>2. told \in [0..0 -> 0..MaxUntold] /\ told[0] = 0 /\ 1..0 = {} /\ \A m \in 0..0 : m = 0
      BY <2>1
    <2>. HIDE DEF told
    <2>3. Counts(r, queue, told, untold[r] - dropped[r])
      BY <2>1, <2>2 DEF Counts
    <2>. QED  BY <2>1, <2>3 DEF TellsAll
  <1>. QED  BY <1>1, <1>2 DEF LossesInv

\* What was told stays so while queue and counts do.
LEMMA TellsStays ==
    ASSUME NEW r, TellsAll(r), queue' = queue, untold'[r] = untold[r], dropped'[r] = dropped[r]
    PROVE  TellsAll(r)'
  BY DEF TellsAll, Counts

LEMMA TakesCounted ==
    ASSUME LossesInv, NEW r \in AllReaders, NEW e \in Events, e.kind # "Dropped", Takes(r, e)
    PROVE  LossesInv'
  <1>. USE DEF LossesInv, Takes
  <1>1. stage' \in [AllReaders -> Stages] /\ hand' \in [AllReaders -> Events \cup {Nothing}]
    BY DEF CountsOK, Stages
  <1>2. ASSUME NEW x \in AllReaders
        PROVE  /\ hand'[x].kind # "Dropped"
               /\ stage'[x] \in {"Report", "Post"} => hand'[x] \in Events /\ untold'[x] < MaxUntold
    BY <1>2 DEF CountsOK
  <1>3. CountsOK'
    BY <1>1, <1>2 DEF CountsOK
  <1>4. \A x \in AllReaders : TellsAll(x)'
    BY TellsStays
  <1>. QED  BY <1>3, <1>4

LEMMA ReportCounted ==
    ASSUME LossesInv, Report
    PROVE  LossesInv'
  <1>. USE DEF LossesInv
  <1>1. PICK r \in LinkReaders :
          /\ stage[r] = "Report"
          /\ IF Room THEN Post(Dropped(r, dropped[r])) /\ dropped' = [dropped EXCEPT ![r] = 0]
             ELSE UNCHANGED <<queue, dropped>>
          /\ stage' = [stage EXCEPT ![r] = "Post"]
          /\ UNCHANGED <<mode, hand, untold>>
    BY DEF Report
  <1>2. r \in AllReaders /\ r # "aurp"
    BY LinkNames DEF CountsOK, AllReaders
  <1>. DEFINE e == Dropped(r, dropped[r])
  <1>3. /\ dropped[r] \in Nat /\ dropped[r] <= untold[r] /\ untold[r] <= MaxUntold
        /\ \A x \in AllReaders : untold[x] \in Nat /\ dropped[x] \in Nat /\ untold[x] - dropped[x] \in Nat
    <2>1. \A x \in AllReaders : untold[x] \in Nat /\ dropped[x] \in Nat /\ untold[x] <= MaxUntold
      BY DEF CountsOK
    <2>2. \A x \in AllReaders : untold[x] - dropped[x] \in Nat
      BY TellsNat
    <2>. QED  BY <1>2, <2>1, <2>2
  <1>4. e \in Events /\ e.kind = "Dropped" /\ e.by = r /\ e.count = dropped[r]
    BY <1>2, <1>3, EventFacts
  <1>. HIDE DEF e
  <1>5. Reports(r, e) = dropped[r] /\ \A x : x # r => Reports(x, e) = 0
    BY <1>4 DEF Reports
  <1>6. CASE Room
    <2>1. queue' = Append(queue, e) /\ dropped' = [dropped EXCEPT ![r] = 0]
      BY <1>1, <1>6 DEF Post, e
    <2>2. CountsOK'
      <3>1. queue' \in Seq(Events) /\ mode' \in DOMAIN Links
        BY <2>1, <1>1, <1>4 DEF CountsOK
      <3>2. stage' \in [AllReaders -> Stages] /\ dropped' \in [AllReaders -> Nat]
        BY <2>1, <1>1 DEF CountsOK, Stages
      <3>3. \A x \in AllReaders : stage'[x] \in {"Report", "Post"} => stage[x] \in {"Report", "Post"}
        BY <1>1, <1>2 DEF CountsOK
      <3>4. dropped'["aurp"] = 0
        BY <2>1, <1>2 DEF CountsOK
      <3>. QED  BY <3>1, <3>2, <3>3, <3>4, <1>1 DEF CountsOK
    <2>3. ASSUME NEW x \in AllReaders PROVE TellsAll(x)'
      <3>1. PICK told : Counts(x, queue, told, untold[x] - dropped[x])
        BY <2>3 DEF TellsAll
      <3>2. (untold[x] - dropped[x]) + Reports(x, e) = untold'[x] - dropped'[x]
        <4>1. CASE x = r
          BY <4>1, <1>1, <1>2, <1>3, <1>5, <2>1 DEF CountsOK
        <4>2. CASE x # r
          BY <4>2, <1>1, <1>3, <1>5, <2>1 DEF CountsOK
        <4>. QED  BY <4>1, <4>2
      <3>3. (untold[x] - dropped[x]) + Reports(x, e) <= MaxUntold
        <4>1. CASE x = r
          BY <4>1, <1>3, <1>5, Bounds
        <4>2. CASE x # r
          BY <4>2, <1>3, <1>5, Bounds
        <4>. QED  BY <4>1, <4>2
      <3>4. queue \in Seq(Events)
        BY DEF CountsOK
      <3>5. PICK more : Counts(x, Append(queue, e), more, (untold[x] - dropped[x]) + Reports(x, e))
        BY <3>1, <3>3, <3>4, <1>3, <1>4, CountsAppend
      <3>6. Counts(x, queue', more, untold'[x] - dropped'[x])
        BY <3>5, <3>2, <2>1
      <3>. QED  BY <3>6 DEF TellsAll, Counts
    <2>. QED  BY <2>2, <2>3, <1>1
  <1>7. CASE ~Room
    <2>1. queue' = queue /\ dropped' = dropped
      BY <1>1, <1>7
    <2>2. \A x \in AllReaders : stage'[x] \in {"Report", "Post"} => stage[x] \in {"Report", "Post"}
      BY <1>1, <1>2 DEF CountsOK
    <2>3. stage' \in [AllReaders -> Stages]
      BY <1>1 DEF CountsOK, Stages
    <2>4. CountsOK'
      BY <2>1, <2>2, <2>3, <1>1 DEF CountsOK
    <2>. QED  BY <2>1, <2>4, <1>1, TellsStays
  <1>. QED  BY <1>6, <1>7

LEMMA SendCounted ==
    ASSUME LossesInv, Send
    PROVE  LossesInv'
  <1>. USE DEF LossesInv
  <1>1. PICK r \in Readers :
          /\ stage[r] = "Post" /\ (Room \/ r # "aurp")
          /\ IF Room THEN Post(hand[r]) /\ UNCHANGED <<dropped, untold>>
                     ELSE /\ dropped' = [dropped EXCEPT ![r] = @ + 1]
                          /\ untold' = [untold EXCEPT ![r] = @ + 1]
                          /\ UNCHANGED queue
          /\ stage' = [stage EXCEPT ![r] = "Read"] /\ hand' = [hand EXCEPT ![r] = Nothing]
          /\ UNCHANGED mode
    BY DEF Send
  <1>2. r \in AllReaders /\ mode' \in DOMAIN Links
    BY <1>1, LinkNames DEF CountsOK
  <1>3. /\ stage' \in [AllReaders -> Stages] /\ hand' \in [AllReaders -> Events \cup {Nothing}]
        /\ \A x \in AllReaders : hand'[x].kind # "Dropped"
        /\ \A x \in AllReaders : stage'[x] \in {"Report", "Post"}
                                 => /\ x # r /\ hand'[x] = hand[x]
                                    /\ stage[x] \in {"Report", "Post"}
    BY <1>1, <1>2, EventFacts DEF CountsOK, Stages
  <1>4. /\ \A x \in AllReaders : untold[x] \in Nat /\ dropped[x] \in Nat /\ untold[x] <= MaxUntold
        /\ untold[r] < MaxUntold /\ MaxUntold \in Nat
    BY <1>1, <1>2, Bounds DEF CountsOK
  <1>5. CASE Room
    <2>1. queue' = Append(queue, hand[r]) /\ dropped' = dropped /\ untold' = untold
      BY <1>1, <1>5 DEF Post
    <2>2. hand[r] \in Events /\ hand[r].kind # "Dropped" /\ queue \in Seq(Events)
      BY <1>1, <1>2 DEF CountsOK
    <2>3. CountsOK'
      <3>1. queue' \in Seq(Events)
        BY <2>1, <2>2
      <3>. QED  BY <1>2, <1>3, <2>1, <3>1 DEF CountsOK
    <2>4. ASSUME NEW x \in AllReaders PROVE TellsAll(x)'
      <3>1. PICK told : Counts(x, queue, told, untold[x] - dropped[x])
        BY <2>4 DEF TellsAll
      <3>2. Reports(x, hand[r]) = 0 /\ untold[x] - dropped[x] \in Nat
        BY <2>2, <2>4, TellsNat DEF Reports
      <3>3. /\ (untold[x] - dropped[x]) + Reports(x, hand[r]) = untold[x] - dropped[x]
            /\ (untold[x] - dropped[x]) + Reports(x, hand[r]) <= MaxUntold
        BY <3>2, <1>4
      <3>4. PICK more :
              Counts(x, Append(queue, hand[r]), more, (untold[x] - dropped[x]) + Reports(x, hand[r]))
        BY <3>1, <3>2, <3>3, <2>2, CountsAppend
      <3>5. Counts(x, queue', more, untold'[x] - dropped'[x])
        BY <3>3, <3>4, <2>1
      <3>. QED  BY <3>5 DEF TellsAll, Counts
    <2>. QED  BY <2>1, <2>3, <2>4
  <1>6. CASE ~Room
    <2>1. /\ queue' = queue /\ r # "aurp"
          /\ dropped' = [dropped EXCEPT ![r] = @ + 1] /\ untold' = [untold EXCEPT ![r] = @ + 1]
      BY <1>1, <1>6
    <2>2. CountsOK'
      <3>1. dropped' \in [AllReaders -> Nat] /\ untold' \in [AllReaders -> Nat]
        BY <2>1, <1>2, <1>4 DEF CountsOK
      <3>2. \A x \in AllReaders : stage'[x] \in {"Report", "Post"} => untold'[x] < MaxUntold
        BY <2>1, <1>2, <1>3 DEF CountsOK
      <3>3. dropped'["aurp"] = 0 /\ untold'["aurp"] = 0
        BY <2>1, <1>2 DEF CountsOK
      <3>. QED  BY <1>2, <1>3, <2>1, <3>1, <3>2, <3>3 DEF CountsOK
    <2>3. ASSUME NEW x \in AllReaders PROVE untold'[x] <= MaxUntold /\ TellsAll(x)'
      <3>1. untold'[x] - dropped'[x] = untold[x] - dropped[x] /\ untold'[x] <= MaxUntold
        <4>1. CASE x = r
          BY <4>1, <2>1, <1>2, <1>4 DEF CountsOK
        <4>2. CASE x # r
          BY <4>2, <2>1, <1>2, <1>4 DEF CountsOK
        <4>. QED  BY <4>1, <4>2
      <3>2. PICK told : Counts(x, queue, told, untold[x] - dropped[x])
        BY <2>3 DEF TellsAll
      <3>3. Counts(x, queue', told, untold'[x] - dropped'[x])
        BY <3>1, <3>2, <2>1
      <3>. QED  BY <3>1, <3>3 DEF TellsAll, Counts
    <2>. QED  BY <2>2, <2>3
  <1>. QED  BY <1>5, <1>6

LEMMA HangUpCounted ==
    ASSUME LossesInv, HangUp
    PROVE  LossesInv'
  <1>. USE DEF LossesInv
  <1>1. PICK r \in Readers :
          /\ stage' = [stage EXCEPT ![r] = "Done"] /\ hand' = [hand EXCEPT ![r] = Nothing]
          /\ UNCHANGED <<mode, dropped, untold, queue>>
    BY DEF HangUp
  <1>2. r \in AllReaders
    BY LinkNames DEF CountsOK
  <1>3. /\ stage' \in [AllReaders -> Stages] /\ hand' \in [AllReaders -> Events \cup {Nothing}]
        /\ \A x \in AllReaders : hand'[x].kind # "Dropped"
        /\ \A x \in AllReaders : stage'[x] \in {"Report", "Post"}
                                 => hand'[x] = hand[x] /\ stage[x] \in {"Report", "Post"}
    BY <1>1, <1>2, EventFacts DEF CountsOK, Stages
  <1>4. CountsOK'
    BY <1>1, <1>3 DEF CountsOK
  <1>. QED  BY <1>1, <1>4, TellsStays

\* Of a report taken out its count is told; nothing else the loop takes out
\* tells of losses.
LEMMA TakeOutCounted ==
    ASSUME LossesInv, Takes_out, UNCHANGED <<mode, stage, hand, dropped>>
    PROVE  LossesInv'
  <1>. USE DEF LossesInv
  <1>. DEFINE e == Head(queue)
  <1>1. queue \in Seq(Events) /\ queue # <<>> /\ queue' = Tail(queue)
    BY DEF CountsOK, Takes_out
  <1>2. e \in Events /\ Tail(queue) \in Seq(Events)
    BY <1>1
  <1>3. untold' = IF e.kind = "Dropped" THEN [untold EXCEPT ![e.by] = @ - e.count] ELSE untold
    BY DEF Takes_out
  <1>. HIDE DEF e
  <1>4. \A x \in AllReaders : /\ untold[x] \in Nat /\ dropped[x] \in Nat
                              /\ untold[x] <= MaxUntold /\ untold[x] - dropped[x] \in Nat
    BY TellsNat DEF CountsOK
  <1>5. ASSUME NEW x \in AllReaders
        PROVE  /\ Reports(x, e) \in Nat /\ Reports(x, e) <= untold[x] - dropped[x]
               /\ \E less : Counts(x, Tail(queue), less, (untold[x] - dropped[x]) - Reports(x, e))
    <2>1. PICK told : Counts(x, queue, told, untold[x] - dropped[x])
      BY <1>5 DEF TellsAll
    <2>. QED  BY <2>1, <1>1, <1>2, <1>4, CountsTail, EventCases DEF e
  <1>6. ASSUME NEW x \in AllReaders PROVE untold'[x] = untold[x] - Reports(x, e)
    <2>1. untold = [y \in AllReaders |-> untold[y]]
      BY DEF CountsOK
    <2>2. e.kind = "Dropped" => e.by \in AllReaders /\ e.count \in Nat
      BY <1>2, EventCases
    <2>3. CASE e.kind = "Dropped" /\ e.by = x
      BY <1>3, <2>1, <2>2, <2>3 DEF Reports
    <2>4. CASE e.kind = "Dropped" /\ e.by # x
      BY <1>3, <1>4, <2>1, <2>2, <2>4 DEF Reports
    <2>5. CASE e.kind # "Dropped"
      BY <1>3, <1>4, <2>5 DEF Reports
    <2>. QED  BY <2>3, <2>4, <2>5
  <1>7. ASSUME NEW x \in AllReaders
        PROVE  /\ untold'[x] \in Nat /\ untold'[x] <= untold[x]
               /\ untold'[x] - dropped'[x] = (untold[x] - dropped[x]) - Reports(x, e)
    BY <1>4, <1>5, <1>6
  <1>8. CountsOK'
    <2>1. untold' \in [AllReaders -> Nat]
      <3>1. DOMAIN untold = AllReaders /\ untold = [y \in AllReaders |-> untold[y]]
        BY DEF CountsOK
      <3>2. untold' = [y \in AllReaders |-> untold'[y]]
        BY <1>3, <3>1
      <3>. QED  BY <3>2, <1>7
    <2>2. untold'["aurp"] = 0
      BY <1>7 DEF CountsOK, AllReaders
    <2>3. \A x \in AllReaders : untold[x] < MaxUntold => untold'[x] < MaxUntold
      BY <1>4, <1>7, Bounds
    <2>. QED  BY <1>1, <1>2, <2>1, <2>2, <2>3 DEF CountsOK
  <1>9. ASSUME NEW x \in AllReaders PROVE untold'[x] <= MaxUntold /\ TellsAll(x)'
    <2>1. PICK less : Counts(x, Tail(queue), less, (untold[x] - dropped[x]) - Reports(x, e))
      BY <1>5
    <2>2. Counts(x, queue', less, untold'[x] - dropped'[x])
      BY <1>1, <1>7, <2>1
    <2>3. untold'[x] <= MaxUntold
      BY <1>4, <1>7, Bounds
    <2>. QED  BY <2>2, <2>3 DEF TellsAll, Counts
  <1>. QED  BY <1>8, <1>9

LEMMA LossesStay ==
    ASSUME LossesInv, UNCHANGED <<mode, readerVars, queue>>
    PROVE  LossesInv'
  BY TellsStays DEF LossesInv, CountsOK, readerVars

LEMMA LossesNext == ClockOK /\ LossesInv /\ [Next]_vars => LossesInv'
  <1>. SUFFICES ASSUME ClockOK, LossesInv, [Next]_vars PROVE LossesInv'
    OBVIOUS
  <1>1. CASE Read
    <2>1. PICK r \in Readers, e \in {Packet, Error} : Takes(r, e)
      BY <1>1 DEF Read
    <2>2. r \in AllReaders /\ e \in Events /\ e.kind # "Dropped"
      BY LinkNames, EventFacts DEF LossesInv, CountsOK
    <2>. QED  BY <2>1, <2>2, TakesCounted
  <1>2. CASE ReadFragment
    <2>1. PICK r \in Readers, k \in Keys : \E s \in Heard[k], u \in 1..Uses[k] :
            Takes(r, Fragment(k, u, s, now))
      BY <1>2 DEF ReadFragment
    <2>2. PICK s \in Heard[k], u \in 1..Uses[k] : Takes(r, Fragment(k, u, s, now))
      BY <2>1
    <2>3. s \in 0..Segments - 1 /\ u \in Nat /\ now \in Nat
      BY Bounds, BoundsAssumption DEF ClockOK
    <2>4. Fragment(k, u, s, now) \in Events /\ Fragment(k, u, s, now).kind = "Fragment"
      BY <2>3, EventFacts
    <2>5. r \in AllReaders
      BY LinkNames DEF LossesInv, CountsOK
    <2>. QED  BY <2>2, <2>4, <2>5, TakesCounted
  <1>3. CASE Report
    BY <1>3, ReportCounted
  <1>4. CASE Send
    BY <1>4, SendCounted
  <1>5. CASE HangUp
    BY <1>5, HangUpCounted
  <1>6. CASE RouterTurn \/ BridgeTurn \/ MonitorTurn
    <2>1. UNCHANGED <<mode, stage, hand, dropped>> /\ (Takes_out \/ Wakes)
      BY <1>6 DEF RouterTurn, BridgeTurn, MonitorTurn
    <2>2. CASE Takes_out
      BY <2>1, <2>2, TakeOutCounted
    <2>3. CASE Wakes
      BY <2>1, <2>3, LossesStay DEF Wakes, readerVars
    <2>. QED  BY <2>1, <2>2, <2>3
  <1>7. CASE RouterEnd \/ Signal \/ DeadlinePasses \/ TimesCome \/ Clock \/ UNCHANGED vars
    BY <1>7, LossesStay DEF RouterEnd, Signal, DeadlinePasses, TimesCome, Clock, vars
  <1>. QED  BY <1>1, <1>2, <1>3, <1>4, <1>5, <1>6, <1>7 DEF Next, Turn

LEMMA LossesTold == LossesInv => LossesCounted
  <1>. SUFFICES ASSUME LossesInv PROVE LossesCounted
    OBVIOUS
  <1>1. ASSUME NEW r \in AllReaders
        PROVE  \E told \in [0..Len(queue) -> 0..MaxUntold] :
                 Tells(r, told) /\ untold[r] = dropped[r] + told[Len(queue)]
    <2>1. PICK told : Counts(r, queue, told, untold[r] - dropped[r])
      BY DEF LossesInv, TellsAll
    <2>2. untold[r] \in Nat /\ dropped[r] \in Nat
      BY DEF LossesInv, CountsOK
    <2>. QED  BY <2>1, <2>2 DEF Counts, Tells
  <1>. QED  BY <1>1 DEF LossesCounted, LossesInv, CountsOK

\* Every loss of a link is still counted by its reader or told in a report of
\* the queue, once, and routing packets are never lost to a full queue
\* (capture_loop, read_loop, post, spawn_aurp): whatever the length of the
\* queue and however many links there are.
THEOREM LossesAreTold == Spec => []LossesCounted
  <1>1. Init => ClockOK /\ LossesInv
    BY ClockInit, LossesInit
  <1>2. (ClockOK /\ LossesInv) /\ [Next]_vars => (ClockOK /\ LossesInv)'
    BY ClockNext, LossesNext
  <1>. QED  BY <1>1, <1>2, LossesTold, PTL DEF Spec

-----------------------------------------------------------------------------
(* The monitor's messages.                                                  *)

Frag(e) == e.kind = "Fragment"

\* What was heard of a key as use v at w is of the same use as what was heard
\* as use u at t, or comes TXN_TIMEOUT after it.
Later(u, t, v, w) == t <= w /\ (u = v \/ t + TxnTimeout <= w)
Precedes(u, t, e) == Later(u, t, e.use, e.at)

\* Of use u of k, heard at t, nothing that is still to come is another use
\* within the time.
Lasts(k, u, t) ==
    /\ \A n \in 1..Len(queue) : Frag(queue[n]) /\ queue[n].key = k => Precedes(u, t, queue[n])
    /\ Frag(hand["nic"]) /\ hand["nic"].key = k => Precedes(u, t, hand["nic"])
    /\ Later(u, t, use[k].nr, use[k].heard)

\* An open transaction is of one use.
Partial(u) == [segments : [0..Segments - 1 -> {0, u}], last : BOOLEAN, first_seen : Nat]
OpenOK(k) == \E u \in Nat : open[k] \in Partial(u) /\ Lasts(k, u, open[k].first_seen)

SessionTypes ==
    /\ mode \in DOMAIN Links
    /\ queue \in Seq(Events) /\ hand \in [AllReaders -> Events \cup {Nothing}]
    /\ \A k \in Keys : use[k].heard <= now
    /\ DOMAIN open \subseteq Keys /\ open = [k \in DOMAIN open |-> open[k]]

\* Fragments come from the NIC, in the order in which they were heard.
OrderOK ==
    /\ \A r \in AllReaders \ {"nic"} : ~Frag(hand[r])
    /\ \A m, n \in 1..Len(queue) :
          m < n /\ Frag(queue[m]) /\ Frag(queue[n]) /\ queue[m].key = queue[n].key
          => Precedes(queue[m].use, queue[m].at, queue[n])
    /\ \A n \in 1..Len(queue) : Frag(queue[n]) /\ Frag(hand["nic"]) /\ queue[n].key = hand["nic"].key
          => Precedes(queue[n].use, queue[n].at, hand["nic"])
    /\ \A n \in 1..Len(queue) : Frag(queue[n])
          => Later(queue[n].use, queue[n].at, use[queue[n].key].nr, use[queue[n].key].heard)
    /\ Frag(hand["nic"])
          => Later(hand["nic"].use, hand["nic"].at, use[hand["nic"].key].nr, use[hand["nic"].key].heard)

SessionInv ==
    /\ SessionTypes /\ OrderOK
    /\ \A k \in DOMAIN open : OpenOK(k)
    /\ \E u : message \subseteq {u}
    /\ Cardinality(DOMAIN open) <= MaxOpen

LEMMA SessionInit == Init => SessionInv
  <1>. SUFFICES ASSUME Init PROVE SessionInv
    OBVIOUS
  <1>. USE DEF Init
  <1>1. DOMAIN open = {} /\ Cardinality(DOMAIN open) = 0
    BY FS_EmptySet
  <1>2. Len(queue) = 0 /\ \A r \in AllReaders : ~Frag(hand[r])
    BY EventFacts DEF Frag
  <1>3. "nic" \in AllReaders
    BY DEF AllReaders
  <1>4. SessionTypes
    BY <1>1, Bounds DEF SessionTypes, ClockOK
  <1>5. OrderOK
    BY <1>2, <1>3 DEF OrderOK
  <1>. QED  BY <1>1, <1>4, <1>5, Bounds DEF SessionInv

\* The next thing heard of a key follows all that is remembered of it.
LEMMA HeardFollows ==
    ASSUME ClockOK, SessionInv, NEW k \in Keys, NEW v \in Nat, NEW u \in Nat, NEW t \in Nat,
           v = use[k].nr \/ (v = use[k].nr + 1 /\ now >= use[k].heard + TxnTimeout),
           Later(u, t, use[k].nr, use[k].heard)
    PROVE  Later(u, t, v, now)
  <1>1. use[k].nr \in Nat /\ use[k].heard \in Nat /\ now \in Nat /\ use[k].heard <= now
    BY DEF ClockOK, SessionInv, SessionTypes
  <1>2. TxnTimeout \in Nat
    BY Bounds
  <1>. QED  BY <1>1, <1>2 DEF Later

LEMMA FragFacts ==
    ASSUME SessionInv
    PROVE  /\ \A n \in 1..Len(queue) : queue[n] \in Events
           /\ \A n \in 1..Len(queue) : Frag(queue[n]) => /\ queue[n].key \in Keys /\ queue[n].use \in Nat
                                                         /\ queue[n].at \in Nat
           /\ Frag(hand["nic"]) => /\ hand["nic"] \in Events /\ hand["nic"].key \in Keys
                                   /\ hand["nic"].use \in Nat /\ hand["nic"].at \in Nat
  <1>1. queue \in Seq(Events) /\ hand["nic"] \in Events \cup {Nothing}
    BY DEF SessionInv, SessionTypes, AllReaders
  <1>2. \A n \in 1..Len(queue) : queue[n] \in Events
    BY <1>1
  <1>3. Frag(hand["nic"]) => hand["nic"] \in Events
    BY <1>1, EventFacts DEF Frag
  <1>. QED  BY <1>2, <1>3, EventCases DEF Frag

\* What a reader takes other than a fragment leaves the session as it is.
LEMMA OtherTaken ==
    ASSUME SessionInv, NEW r \in AllReaders, NEW e \in Events \cup {Nothing}, ~Frag(e),
           hand' = [hand EXCEPT ![r] = e],
           UNCHANGED <<mode, queue, sessionVars, wireVars>>
    PROVE  SessionInv'
  <1>. USE DEF SessionInv, sessionVars, wireVars
  <1>1. /\ hand' \in [AllReaders -> Events \cup {Nothing}]
        /\ \A x \in AllReaders : Frag(hand'[x]) => hand'[x] = hand[x]
        /\ "nic" \in AllReaders
    BY DEF SessionTypes, AllReaders
  <1>2. SessionTypes'
    BY <1>1 DEF SessionTypes
  <1>3. OrderOK'
    BY <1>1 DEF OrderOK
  <1>4. ASSUME NEW k \in DOMAIN open' PROVE OpenOK(k)'
    <2>1. PICK u \in Nat : open[k] \in Partial(u) /\ Lasts(k, u, open[k].first_seen)
      BY <1>4 DEF OpenOK
    <2>2. Lasts(k, u, open[k].first_seen)'
      BY <2>1, <1>1 DEF Lasts
    <2>. QED  BY <2>1, <2>2 DEF OpenOK
  <1>. QED  BY <1>2, <1>3, <1>4

LEMMA FragmentTaken ==
    ASSUME ClockOK, SessionInv, ReadFragment
    PROVE  SessionInv'
  <1>. USE DEF SessionInv
  <1>1. PICK r \in Readers, k \in Keys : \E s \in Heard[k], v \in 1..Uses[k] :
          /\ \/ v = use[k].nr
             \/ v = use[k].nr + 1 /\ now >= use[k].heard + TxnTimeout
          /\ Takes(r, Fragment(k, v, s, now))
          /\ use' = [use EXCEPT ![k] = [nr |-> v, heard |-> now]]
    BY DEF ReadFragment
  <1>2. PICK s \in Heard[k], v \in 1..Uses[k] :
          /\ \/ v = use[k].nr
             \/ v = use[k].nr + 1 /\ now >= use[k].heard + TxnTimeout
          /\ Takes(r, Fragment(k, v, s, now))
          /\ use' = [use EXCEPT ![k] = [nr |-> v, heard |-> now]]
    BY <1>1
  <1>3. mode = "Monitor" /\ now' = now
    BY DEF ReadFragment
  <1>4. r = "nic" /\ "nic" \in AllReaders
    <2>1. Links["Monitor"] = {"nic"}
      BY <1>3, LinksAssumption DEF SessionTypes
    <2>. QED  BY <1>3, <2>1 DEF Readers, LinkReaders, AllReaders
  <1>5. v \in Nat /\ s \in 0..Segments - 1 /\ now \in Nat
    BY Bounds, BoundsAssumption DEF ClockOK
  <1>. DEFINE e == Fragment(k, v, s, now)
  <1>6. e \in Events /\ e.kind = "Fragment" /\ e.key = k /\ e.use = v /\ e.at = now
    BY <1>5, EventFacts
  <1>7. /\ hand' = [hand EXCEPT !["nic"] = e]
        /\ UNCHANGED <<mode, queue, open, message>>
    BY <1>2, <1>4 DEF Takes, sessionVars
  <1>. HIDE DEF e
  <1>8. /\ hand' \in [AllReaders -> Events \cup {Nothing}] /\ hand'["nic"] = e
        /\ \A x \in AllReaders : x # "nic" => hand'[x] = hand[x]
    BY <1>4, <1>6, <1>7 DEF SessionTypes
  <1>9. /\ use'[k].nr = v /\ use'[k].heard = now
        /\ \A j \in Keys : j # k => use'[j] = use[j]
    BY <1>2 DEF ClockOK
  <1>10. ASSUME NEW u \in Nat, NEW t \in Nat, Later(u, t, use[k].nr, use[k].heard)
         PROVE  Later(u, t, v, now)
    BY <1>10, <1>2, <1>5, HeardFollows
  <1>11. Later(v, now, v, now)
    BY <1>5 DEF Later
  <1>12. SessionTypes'
    <2>1. \A j \in Keys : use'[j].heard <= now
      BY <1>5, <1>9 DEF SessionTypes
    <2>. QED  BY <1>3, <1>7, <1>8, <2>1 DEF SessionTypes
  <1>13. OrderOK'
    <2>1. \A x \in AllReaders \ {"nic"} : ~Frag(hand'[x])
      BY <1>8 DEF OrderOK
    <2>2. ASSUME NEW n \in 1..Len(queue), Frag(queue[n])
          PROVE  /\ queue[n].key = k => Later(queue[n].use, queue[n].at, v, now)
                 /\ Later(queue[n].use, queue[n].at, use'[queue[n].key].nr, use'[queue[n].key].heard)
      <3>1. /\ queue[n].key \in Keys /\ queue[n].use \in Nat /\ queue[n].at \in Nat
            /\ Later(queue[n].use, queue[n].at, use[queue[n].key].nr, use[queue[n].key].heard)
        BY <2>2, FragFacts DEF OrderOK
      <3>2. CASE queue[n].key = k
        BY <3>1, <3>2, <1>9, <1>10
      <3>3. CASE queue[n].key # k
        BY <3>1, <3>3, <1>9
      <3>. QED  BY <3>2, <3>3
    <2>3. ASSUME NEW n \in 1..Len(queue), Frag(queue[n]), queue[n].key = hand'["nic"].key
          PROVE  Precedes(queue[n].use, queue[n].at, hand'["nic"])
      BY <2>2, <2>3, <1>6, <1>8 DEF Precedes
    <2>4. Later(hand'["nic"].use, hand'["nic"].at,
                use'[hand'["nic"].key].nr, use'[hand'["nic"].key].heard)
      BY <1>6, <1>8, <1>9, <1>11
    <2>. QED  BY <2>1, <2>2, <2>3, <2>4, <1>7 DEF OrderOK
  <1>14. ASSUME NEW j \in DOMAIN open' PROVE OpenOK(j)'
    <2>1. PICK u \in Nat : open[j] \in Partial(u) /\ Lasts(j, u, open[j].first_seen)
      BY <1>7, <1>14 DEF OpenOK
    <2>2. j \in Keys
      BY <1>7, <1>14 DEF SessionTypes
    <2>3. Lasts(j, u, open[j].first_seen)'
      <3>1. CASE j = k
        <4>1. Later(u, open[j].first_seen, v, now)
          BY <2>1, <3>1, <1>10 DEF Lasts, Partial
        <4>. QED  BY <3>1, <4>1, <2>1, <1>6, <1>7, <1>8, <1>9 DEF Lasts, Precedes
      <3>2. CASE j # k
        BY <3>2, <2>1, <2>2, <1>6, <1>7, <1>8, <1>9 DEF Lasts
      <3>. QED  BY <3>1, <3>2
    <2>. QED  BY <2>1, <2>3, <1>7 DEF OpenOK
  <1>. QED  BY <1>7, <1>12, <1>13, <1>14

\* An event at the end of the queue: a fragment out of the NIC's hand, or
\* none.
LEMMA Posted ==
    ASSUME SessionInv, NEW r \in AllReaders, NEW e \in Events, queue' = Append(queue, e),
           \/ ~Frag(e) /\ hand' = hand
           \/ e = hand[r] /\ hand' = [hand EXCEPT ![r] = Nothing],
           UNCHANGED <<mode, sessionVars, wireVars>>
    PROVE  SessionInv'
  <1>. USE DEF SessionInv, sessionVars, wireVars
  <1>. DEFINE len == Len(queue)
  <1>1. queue \in Seq(Events) /\ len \in Nat /\ Len(queue') = len + 1 /\ queue'[len + 1] = e
        /\ \A n \in 1..len : queue'[n] = queue[n]
    BY DEF SessionTypes
  <1>2. hand' \in [AllReaders -> Events \cup {Nothing}] /\ "nic" \in AllReaders
    BY DEF SessionTypes, AllReaders
  <1>3. \A x \in AllReaders : Frag(hand'[x]) => hand'[x] = hand[x] /\ ~(Frag(e) /\ x = "nic")
    <2>1. CASE ~Frag(e) /\ hand' = hand
      BY <2>1
    <2>2. CASE e = hand[r] /\ hand' = [hand EXCEPT ![r] = Nothing]
      <3>1. Frag(e) => r = "nic"
        BY <2>2 DEF OrderOK
      <3>2. ~Frag(Nothing)
        BY EventFacts DEF Frag
      <3>3. \A x \in AllReaders : hand'[x] = IF x = r THEN Nothing ELSE hand[x]
        BY <2>2 DEF SessionTypes
      <3>. QED  BY <3>1, <3>2, <3>3
    <2>. QED  BY <2>1, <2>2
  <1>4. Frag(e) => e = hand["nic"]
    BY DEF OrderOK
  <1>5. \A n \in 1..(len + 1) : n \in 1..len \/ n = len + 1
    BY <1>1
  <1>. HIDE DEF len
  <1>6. SessionTypes'
    <2>1. queue' \in Seq(Events)
      BY <1>1
    <2>. QED  BY <2>1, <1>2 DEF SessionTypes
  <1>7. OrderOK'
    <2>1. ASSUME NEW m \in 1..(len + 1), NEW n \in 1..(len + 1), m < n, Frag(queue'[m]), Frag(queue'[n]),
                 queue'[m].key = queue'[n].key
          PROVE  Precedes(queue'[m].use, queue'[m].at, queue'[n])
      <3>1. m \in 1..len
        BY <2>1, <1>1
      <3>2. CASE n \in 1..len
        BY <3>1, <3>2, <2>1, <1>1 DEF OrderOK, len
      <3>3. CASE n = len + 1
        BY <3>1, <3>3, <2>1, <1>1, <1>4 DEF OrderOK, len
      <3>. QED  BY <3>2, <3>3, <1>5
    <2>2. ASSUME NEW n \in 1..(len + 1), Frag(queue'[n])
          PROVE  /\ Frag(hand'["nic"]) /\ queue'[n].key = hand'["nic"].key
                       => Precedes(queue'[n].use, queue'[n].at, hand'["nic"])
                 /\ Later(queue'[n].use, queue'[n].at, use[queue'[n].key].nr, use[queue'[n].key].heard)
      <3>1. CASE n \in 1..len
        <4>1. queue'[n] = queue[n]
          BY <3>1, <1>1
        <4>2. Later(queue[n].use, queue[n].at, use[queue[n].key].nr, use[queue[n].key].heard)
          BY <4>1, <3>1, <2>2 DEF OrderOK, len
        <4>3. ASSUME Frag(hand'["nic"]), queue[n].key = hand'["nic"].key
              PROVE  Precedes(queue[n].use, queue[n].at, hand'["nic"])
          BY <4>1, <4>3, <3>1, <2>2, <1>2, <1>3 DEF OrderOK, len
        <4>. QED  BY <4>1, <4>2, <4>3
      <3>2. CASE n = len + 1
        BY <3>2, <2>2, <1>1, <1>2, <1>3, <1>4 DEF OrderOK
      <3>. QED  BY <3>1, <3>2, <1>5
    <2>3. \A x \in AllReaders \ {"nic"} : ~Frag(hand'[x])
      BY <1>3 DEF OrderOK
    <2>4. Frag(hand'["nic"]) => Later(hand'["nic"].use, hand'["nic"].at,
                                      use[hand'["nic"].key].nr, use[hand'["nic"].key].heard)
      BY <1>2, <1>3 DEF OrderOK
    <2>. QED  BY <2>1, <2>2, <2>3, <2>4, <1>1 DEF OrderOK
  <1>8. ASSUME NEW k \in DOMAIN open' PROVE OpenOK(k)'
    <2>1. PICK u \in Nat : open[k] \in Partial(u) /\ Lasts(k, u, open[k].first_seen)
      BY <1>8 DEF OpenOK
    <2>2. ASSUME NEW n \in 1..(len + 1), Frag(queue'[n]), queue'[n].key = k
          PROVE  Precedes(u, open[k].first_seen, queue'[n])
      BY <2>1, <2>2, <1>1, <1>4, <1>5 DEF Lasts, len
    <2>3. Lasts(k, u, open[k].first_seen)'
      BY <2>1, <2>2, <1>1, <1>2, <1>3 DEF Lasts
    <2>. QED  BY <2>1, <2>3 DEF OpenOK
  <1>. QED  BY <1>6, <1>7, <1>8

LEMMA TailFacts ==
    ASSUME NEW q \in Seq(Events), q # <<>>
    PROVE  /\ Tail(q) \in Seq(Events) /\ Len(q) \in Nat \ {0} /\ Len(Tail(q)) = Len(q) - 1
           /\ Head(q) = q[1] /\ Head(q) \in Events
           /\ \A n \in 1..Len(Tail(q)) : n + 1 \in 1..Len(q) /\ Tail(q)[n] = q[n + 1]
  OBVIOUS

\* What is left of the queue is in order still, and so is what is remembered.
LEMMA LeftInOrder ==
    ASSUME SessionInv, queue # <<>>, NEW e, e = Head(queue), queue' = Tail(queue),
           UNCHANGED <<mode, hand, wireVars>>
    PROVE  /\ OrderOK' /\ queue' \in Seq(Events)
           /\ \A k \in Keys, u \in Nat, t \in Nat : Lasts(k, u, t) => Lasts(k, u, t)'
           /\ Frag(e) => Lasts(e.key, e.use, e.at)'
  <1>. USE DEF SessionInv, wireVars
  <1>. DEFINE q == Tail(queue)
  <1>1. queue \in Seq(Events)
    BY DEF SessionTypes
  <1>2. /\ q \in Seq(Events) /\ Len(queue) \in Nat \ {0} /\ Len(q) = Len(queue) - 1
        /\ Head(queue) = queue[1]
        /\ \A n \in 1..Len(q) : n + 1 \in 1..Len(queue) /\ q[n] = queue[n + 1]
    BY <1>1, TailFacts
  <1>3. queue' = q
    OBVIOUS
  <1>. HIDE DEF q
  <1>4. OrderOK'
    <2>1. ASSUME NEW m \in 1..Len(q), NEW n \in 1..Len(q), m < n, Frag(q[m]), Frag(q[n]),
                 q[m].key = q[n].key
          PROVE  Precedes(q[m].use, q[m].at, q[n])
      <3>1. m + 1 \in 1..Len(queue) /\ n + 1 \in 1..Len(queue) /\ m + 1 < n + 1
        BY <1>2, <2>1
      <3>. QED  BY <3>1, <2>1, <1>2 DEF OrderOK
    <2>2. ASSUME NEW n \in 1..Len(q), Frag(q[n])
          PROVE  /\ Frag(hand["nic"]) /\ q[n].key = hand["nic"].key
                       => Precedes(q[n].use, q[n].at, hand["nic"])
                 /\ Later(q[n].use, q[n].at, use[q[n].key].nr, use[q[n].key].heard)
      BY <2>2, <1>2 DEF OrderOK
    <2>. QED  BY <2>1, <2>2, <1>3 DEF OrderOK
  <1>5. ASSUME NEW k \in Keys, NEW u \in Nat, NEW t \in Nat, Lasts(k, u, t) PROVE Lasts(k, u, t)'
    BY <1>5, <1>2, <1>3 DEF Lasts
  <1>6. ASSUME Frag(e) PROVE Lasts(e.key, e.use, e.at)'
    <2>1. e = queue[1] /\ 1 \in 1..Len(queue)
      BY <1>2
    <2>2. ASSUME NEW n \in 1..Len(q), Frag(q[n]), q[n].key = e.key
          PROVE  Precedes(e.use, e.at, q[n])
      <3>1. n + 1 \in 1..Len(queue) /\ 1 < n + 1
        BY <1>2, <2>2
      <3>. QED  BY <3>1, <2>1, <2>2, <1>2, <1>6 DEF OrderOK
    <2>3. Frag(hand["nic"]) /\ hand["nic"].key = e.key => Precedes(e.use, e.at, hand["nic"])
      BY <2>1, <1>6 DEF OrderOK
    <2>4. Later(e.use, e.at, use[e.key].nr, use[e.key].heard)
      BY <2>1, <1>6 DEF OrderOK
    <2>. QED  BY <2>2, <2>3, <2>4, <1>3 DEF Lasts
  <1>. QED  BY <1>2, <1>3, <1>4, <1>5, <1>6

\* A turn that leaves the session alone, and one that flushes it.
LEMMA TakenOut ==
    ASSUME SessionInv, queue # <<>>, queue' = Tail(queue), UNCHANGED <<mode, hand, wireVars>>,
           UNCHANGED sessionVars \/ (open' = <<>> /\ message' = {})
    PROVE  SessionInv'
  <1>1. PICK e : e = Head(queue)
    OBVIOUS
  <1>2. /\ OrderOK' /\ queue' \in Seq(Events)
        /\ \A k \in Keys, u \in Nat, t \in Nat : Lasts(k, u, t) => Lasts(k, u, t)'
    BY <1>1, LeftInOrder
  <1>. USE DEF SessionInv, sessionVars
  <1>3. CASE UNCHANGED sessionVars
    <2>1. ASSUME NEW k \in DOMAIN open' PROVE OpenOK(k)'
      <3>1. PICK u \in Nat, t \in Nat : open[k] \in Partial(u) /\ t = open[k].first_seen /\ Lasts(k, u, t)
        BY <1>3, <2>1 DEF OpenOK, Partial
      <3>2. k \in Keys
        BY <1>3, <2>1 DEF SessionTypes
      <3>3. Lasts(k, u, t)'
        BY <3>1, <3>2, <1>2
      <3>4. t = open'[k].first_seen
        BY <3>1, <1>3
      <3>5. Lasts(k, u, open[k].first_seen)'
        BY <3>3, <3>4 DEF Lasts
      <3>. QED  BY <3>1, <3>5, <1>3 DEF OpenOK
    <2>2. SessionTypes'
      BY <1>2, <1>3 DEF SessionTypes, wireVars
    <2>. QED  BY <1>2, <1>3, <2>1, <2>2
  <1>4. CASE open' = <<>> /\ message' = {}
    <2>1. DOMAIN open' = {} /\ Cardinality(DOMAIN open') = 0
      BY <1>4, FS_EmptySet
    <2>2. SessionTypes'
      BY <1>2, <1>4, <2>1 DEF SessionTypes, wireVars
    <2>. QED  BY <1>2, <1>4, <2>1, <2>2, Bounds
  <1>. QED  BY <1>3, <1>4

\* There is room for one more behind what expire keeps.
LEMMA RoomForOne ==
    ASSUME NEW t, SessionInv, NEW kept, kept \subseteq DOMAIN open, expire(t, kept)
    PROVE  IsFiniteSet(kept) /\ Cardinality(kept) + 1 <= MaxOpen
  <1>. DEFINE alive == {k \in DOMAIN open : t - open[k].first_seen < TxnTimeout}
  <1>1. IsFiniteSet(DOMAIN open)
    BY Bounds, FS_Subset DEF SessionInv, SessionTypes
  <1>2. IsFiniteSet(alive)
    BY <1>1, FS_Subset
  <1>3. Cardinality(alive) \in Nat
    BY <1>2, FS_CardinalityType
  <1>4. IsFiniteSet(kept) /\ Cardinality(kept) = IF Cardinality(alive) >= MaxOpen THEN MaxOpen - 1
                                                                              ELSE Cardinality(alive)
    BY <1>1, FS_Subset DEF expire
  <1>. HIDE DEF alive
  <1>. QED  BY <1>3, <1>4, Bounds

LEMMA Pushed ==
    ASSUME SessionInv, NEW e, e = Head(queue), Frag(e), queue # <<>>, queue' = Tail(queue),
           push(e), UNCHANGED <<mode, hand, wireVars>>
    PROVE  SessionInv'
  <1>. USE DEF SessionInv
  <1>1. /\ OrderOK' /\ queue' \in Seq(Events)
        /\ \A k \in Keys, u \in Nat, t \in Nat : Lasts(k, u, t) => Lasts(k, u, t)'
        /\ Lasts(e.key, e.use, e.at)'
    BY LeftInOrder
  <1>2. e \in Events /\ e.key \in Keys /\ e.use \in Nat /\ e.at \in Nat /\ e.seq \in 0..Segments - 1
    BY TailFacts, EventCases DEF SessionTypes, Frag
  <1>3. PICK kept \in SUBSET DOMAIN open :
          LET was == IF e.key \in kept THEN open[e.key] ELSE NoSegments(e.at)
              is == [was EXCEPT !.segments[e.seq] = e.use, !.last = @ \/ e.seq = Segments - 1]
              others == kept \ {e.key}
          IN  /\ expire(e.at, kept)
              /\ \/ /\ Whole(is)
                    /\ message' = {is.segments[s] : s \in 0..Segments - 1}
                    /\ open' = [k \in others |-> open[k]]
                 \/ /\ ~Whole(is)
                    /\ message' = {}
                    /\ open' = [k \in others \cup {e.key} |-> IF k = e.key THEN is ELSE open[k]]
    BY DEF push
  <1>. DEFINE was == IF e.key \in kept THEN open[e.key] ELSE NoSegments(e.at)
              is == [was EXCEPT !.segments[e.seq] = e.use, !.last = @ \/ e.seq = Segments - 1]
              others == kept \ {e.key}
  <1>4. PICK t \in Nat : was \in Partial(e.use) /\ was.first_seen = t /\ Lasts(e.key, e.use, t)'
    <2>1. CASE e.key \in kept
      <3>1. PICK u \in Nat, t \in Nat : /\ open[e.key] \in Partial(u) /\ t = open[e.key].first_seen
                                        /\ Lasts(e.key, u, t)
        BY <2>1 DEF OpenOK, Partial
      <3>2. e.at - t < TxnTimeout
        BY <2>1, <1>3, <3>1 DEF expire
      <3>3. Later(u, t, e.use, e.at)
        <4>1. 1 \in 1..Len(queue) /\ queue[1] = e
          BY TailFacts DEF SessionTypes
        <4>. QED  BY <3>1, <4>1 DEF Lasts, Precedes
      <3>4. u = e.use
        BY <3>2, <3>3, <1>2, Bounds DEF Later
      <3>5. Lasts(e.key, u, t)'
        BY <3>1, <1>1, <1>2
      <3>. QED  BY <2>1, <3>1, <3>4, <3>5
    <2>2. CASE e.key \notin kept
      <3>1. NoSegments(e.at) \in Partial(e.use) /\ NoSegments(e.at).first_seen = e.at
        BY <1>2 DEF NoSegments, Partial
      <3>. QED  BY <2>2, <3>1, <1>1, <1>2
    <2>. QED  BY <2>1, <2>2
  <1>. HIDE DEF was
  <1>5. is \in Partial(e.use) /\ is.first_seen = t
    BY <1>2, <1>4 DEF Partial
  <1>. HIDE DEF is
  <1>6. ASSUME NEW k \in others PROVE open[k] = open[k] /\ \E u \in Nat, x \in Nat :
          open[k] \in Partial(u) /\ open[k].first_seen = x /\ Lasts(k, u, x)'
    <2>1. k \in DOMAIN open /\ k \in Keys
      BY <1>6 DEF SessionTypes
    <2>2. PICK u \in Nat, x \in Nat : open[k] \in Partial(u) /\ x = open[k].first_seen /\ Lasts(k, u, x)
      BY <2>1 DEF OpenOK, Partial
    <2>. QED  BY <2>1, <2>2, <1>1
  <1>7. expire(e.at, kept)
    BY <1>3
  <1>8. \/ /\ Whole(is)
           /\ message' = {is.segments[s] : s \in 0..Segments - 1}
           /\ open' = [k \in others |-> open[k]]
        \/ /\ message' = {}
           /\ open' = [k \in others \cup {e.key} |-> IF k = e.key THEN is ELSE open[k]]
    BY <1>3 DEF is, was
  <1>9. DOMAIN open' \subseteq others \cup {e.key} /\ open' = [k \in DOMAIN open' |-> open'[k]]
    BY <1>8
  <1>10. ASSUME NEW k \in DOMAIN open'
         PROVE  \/ k \in others /\ open'[k] = open[k]
                \/ k = e.key /\ open'[k] = is
    BY <1>8, <1>10
  <1>11. ASSUME NEW k \in DOMAIN open' PROVE OpenOK(k)'
    <2>1. PICK u \in Nat, x \in Nat : open'[k] \in Partial(u) /\ open'[k].first_seen = x /\ Lasts(k, u, x)'
      BY <1>2, <1>4, <1>5, <1>6, <1>10, <1>11
    <2>2. Lasts(k, u, open[k].first_seen)'
      BY <2>1 DEF Lasts
    <2>. QED  BY <2>1, <2>2 DEF OpenOK, Partial
  <1>12. SessionTypes'
    <2>1. others \cup {e.key} \subseteq Keys
      BY <1>2 DEF SessionTypes
    <2>. QED  BY <2>1, <1>1, <1>9 DEF SessionTypes, wireVars
  <1>13. \E u : message' \subseteq {u}
    <2>1. CASE message' = {}
      BY <2>1
    <2>2. CASE Whole(is) /\ message' = {is.segments[s] : s \in 0..Segments - 1}
      <3>1. \A s \in 0..Segments - 1 : is.segments[s] \in {0, e.use} /\ is.segments[s] # 0
        BY <2>2, <1>5 DEF Whole, Partial
      <3>2. message' \subseteq {e.use}
        BY <2>2, <3>1
      <3>. QED  BY <3>2
    <2>. QED  BY <1>8, <2>1, <2>2
  <1>14. Cardinality(DOMAIN open') <= MaxOpen
    <2>1. IsFiniteSet(kept) /\ Cardinality(kept) + 1 <= MaxOpen
      BY <1>7, RoomForOne
    <2>2. /\ IsFiniteSet(kept \cup {e.key})
          /\ Cardinality(kept \cup {e.key}) \in {Cardinality(kept), Cardinality(kept) + 1}
      BY <2>1, FS_AddElement, FS_CardinalityType
    <2>3. DOMAIN open' \subseteq kept \cup {e.key}
      BY <1>9
    <2>4. Cardinality(DOMAIN open') <= Cardinality(kept \cup {e.key}) /\ IsFiniteSet(DOMAIN open')
      BY <2>2, <2>3, FS_Subset
    <2>5. Cardinality(DOMAIN open') \in Nat /\ Cardinality(kept) \in Nat
      BY <2>1, <2>4, FS_CardinalityType
    <2>. QED  BY <2>1, <2>2, <2>4, <2>5, Bounds
  <1>. QED  BY <1>1, <1>11, <1>12, <1>13, <1>14

LEMMA SessionNext == ClockOK /\ LossesInv /\ SessionInv /\ [Next]_vars => SessionInv'
  <1>. SUFFICES ASSUME ClockOK, LossesInv, SessionInv, [Next]_vars PROVE SessionInv'
    OBVIOUS
  <1>0. mode \in DOMAIN Links /\ Nothing \in Events \cup {Nothing} /\ ~Frag(Nothing)
    BY EventFacts DEF LossesInv, CountsOK, Frag
  <1>1. CASE Read
    <2>1. PICK r \in Readers, e \in {Packet, Error} : Takes(r, e) /\ UNCHANGED wireVars
      BY <1>1 DEF Read
    <2>2. r \in AllReaders /\ e \in Events /\ ~Frag(e)
      BY <1>0, LinkNames, EventFacts DEF Frag
    <2>. QED  BY <2>1, <2>2, OtherTaken DEF Takes
  <1>2. CASE ReadFragment
    BY <1>2, FragmentTaken
  <1>3. CASE Report
    <2>1. PICK r \in LinkReaders :
            /\ IF Room THEN Post(Dropped(r, dropped[r])) ELSE UNCHANGED queue
            /\ UNCHANGED <<mode, hand, sessionVars, wireVars>>
      BY <1>3 DEF Report
    <2>2. r \in AllReaders /\ dropped[r] \in Nat
      BY <1>0, LinkNames DEF LossesInv, CountsOK, AllReaders
    <2>3. Dropped(r, dropped[r]) \in Events /\ ~Frag(Dropped(r, dropped[r]))
      BY <2>2, EventFacts DEF Frag
    <2>4. CASE Room
      BY <2>1, <2>2, <2>3, <2>4, Posted DEF Post
    <2>5. CASE ~Room
      BY <2>1, <2>5 DEF SessionInv, SessionTypes, OrderOK, OpenOK, Lasts, sessionVars, wireVars
    <2>. QED  BY <2>4, <2>5
  <1>4. CASE Send
    <2>1. PICK r \in Readers :
            /\ stage[r] = "Post"
            /\ IF Room THEN Post(hand[r]) ELSE UNCHANGED queue
            /\ hand' = [hand EXCEPT ![r] = Nothing]
            /\ UNCHANGED <<mode, sessionVars, wireVars>>
      BY <1>4 DEF Send
    <2>2. r \in AllReaders
      BY <1>0, LinkNames
    <2>3. hand[r] \in Events
      BY <2>1, <2>2 DEF LossesInv, CountsOK
    <2>4. CASE Room
      BY <2>1, <2>2, <2>3, <2>4, Posted DEF Post
    <2>5. CASE ~Room
      BY <2>1, <2>2, <2>5, <1>0, OtherTaken
    <2>. QED  BY <2>4, <2>5
  <1>5. CASE HangUp
    <2>1. PICK r \in Readers : /\ hand' = [hand EXCEPT ![r] = Nothing]
                               /\ UNCHANGED <<mode, queue, sessionVars, wireVars>>
      BY <1>5 DEF HangUp
    <2>2. r \in AllReaders
      BY <1>0, LinkNames
    <2>. QED  BY <2>1, <2>2, <1>0, OtherTaken
  <1>6. CASE MonitorTurn
    <2>1. queue # <<>> /\ queue' = Tail(queue) /\ UNCHANGED <<mode, hand, wireVars>>
      BY <1>6 DEF MonitorTurn, Takes_out
    <2>2. PICK e : e = Head(queue)
      OBVIOUS
    <2>3. CASE Frag(e)
      BY <2>1, <2>2, <2>3, <1>6, Pushed DEF MonitorTurn, Frag
    <2>4. CASE ~Frag(e)
      BY <2>1, <2>2, <2>4, <1>6, TakenOut DEF MonitorTurn, Frag, flush, sessionVars
    <2>. QED  BY <2>3, <2>4
  <1>7. CASE RouterTurn \/ BridgeTurn
    <2>1. (Takes_out \/ Wakes) /\ UNCHANGED <<mode, hand, sessionVars, wireVars>>
      BY <1>7 DEF RouterTurn, BridgeTurn
    <2>2. CASE Takes_out
      BY <2>1, <2>2, TakenOut DEF Takes_out
    <2>3. CASE Wakes
      BY <2>1, <2>3 DEF Wakes, SessionInv, SessionTypes, OrderOK, OpenOK, Lasts, sessionVars, wireVars
    <2>. QED  BY <2>1, <2>2, <2>3
  <1>8. CASE UNCHANGED <<mode, hand, queue, sessionVars, wireVars>>
    BY <1>8 DEF SessionInv, SessionTypes, OrderOK, OpenOK, Lasts, sessionVars, wireVars
  <1>9. CASE Clock
    <2>1. now' = now + 1 /\ UNCHANGED <<mode, hand, queue, open, message, use>>
      BY <1>9 DEF Clock, readerVars, sessionVars
    <2>2. \A k \in Keys : use[k].heard \in Nat /\ now \in Nat
      BY DEF ClockOK
    <2>3. SessionTypes'
      BY <2>1, <2>2 DEF SessionInv, SessionTypes
    <2>. QED  BY <2>1, <2>3 DEF SessionInv, OrderOK, OpenOK, Lasts
  <1>10. CASE RouterEnd \/ Signal \/ DeadlinePasses \/ TimesCome \/ UNCHANGED vars
    BY <1>8, <1>10 DEF RouterEnd, Signal, DeadlinePasses, TimesCome, vars, readerVars
  <1>. QED  BY <1>1, <1>2, <1>3, <1>4, <1>5, <1>6, <1>7, <1>9, <1>10 DEF Next, Turn

\* A message of the monitor is made of the segments of one response, whatever
\* is lost, repeated or out of order, and no more than MAX_OPEN are open (push,
\* expire, flush of session.rs): for any number of transactions, segments and
\* uses of a key, as long as none comes within TXN_TIMEOUT of the last.
THEOREM MessagesAreWhole == Spec => []WholeMessages
  <1>1. Init => ClockOK /\ LossesInv /\ SessionInv
    BY ClockInit, LossesInit, SessionInit
  <1>2. (ClockOK /\ LossesInv /\ SessionInv) /\ [Next]_vars
        => (ClockOK /\ LossesInv /\ SessionInv)'
    BY ClockNext, LossesNext, SessionNext
  <1>3. SessionInv => WholeMessages
    <2>. SUFFICES ASSUME SessionInv PROVE WholeMessages
      OBVIOUS
    <2>1. PICK u : message \subseteq {u}
      BY DEF SessionInv
    <2>2. message = {} \/ message = {u}
      BY <2>1
    <2>3. Cardinality({}) = 0 /\ Cardinality({u}) = 1
      BY FS_EmptySet, FS_Singleton
    <2>4. Cardinality(message) <= 1
      BY <2>2, <2>3
    <2>. QED  BY <2>4 DEF SessionInv, WholeMessages
  <1>. QED  BY <1>1, <1>2, <1>3, PTL DEF Spec
=============================================================================
