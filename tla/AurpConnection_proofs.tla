------------------------ MODULE AurpConnection_proofs ------------------------
(***************************************************************************)
(* What TLAPS proves of AurpConnection, for any networks, any numbers of   *)
(* retries and any bounds, with timers that fire at any time, packets lost *)
(* and repeated, and routers that restart: the types (TypesKept), that a   *)
(* sender never waits for nothing (SenderWaits), and that a receiver always *)
(* opens under a connection ID nobody uses any more (FreshConnections).    *)
(* Until the connection IDs wrap, for exports of any size and changes at   *)
(* any time: the ends of a connection whose export nothing overtook stay   *)
(* in step (EndsInStep), no change of a route is lost between them but of  *)
(* the networks in ghosts (ChangesGetThrough), and AurpConnection          *)
(* implements Transfer (TransferImplemented).                              *)
(***************************************************************************)
EXTENDS AurpConnection, TLAPS, FiniteSetTheorems

(* Packets and numbers.                                                     *)

\* succ and pred stay among the 16-bit numbers without 0.
LEMMA SuccIsNumber == \A n \in Conns : succ(n) \in Numbers
BY NumbersAssumption DEF succ, Conns, Numbers

\* The packets a receiver sends are packets a sender parses.
LEMMA SenderPacketTypes ==
    ASSUME NEW c \in Conns
    PROVE  /\ \A plain \in BOOLEAN : OpenReq(c, plain) \in SenderPackets
           /\ \A k \in {"RiReq", "Tickle"} : Transaction(k, c) \in SenderPackets
           /\ \A s \in Numbers : RiAck(c, s) \in SenderPackets
BY DEF SenderPackets, OpenReq, Transaction, RiAck

\* The sequenced packets of a sender, and what else it sends.
LEMMA SequencedTypes ==
    ASSUME NEW c \in Conns, NEW s \in Numbers
    PROVE  /\ \A last \in BOOLEAN, t \in Tuples : RiRsp(c, s, last, t) \in Sequenced
           /\ \A e \in Events : RiUpd(c, s, e) \in Sequenced
           /\ Rd(c, s) \in Sequenced
BY DEF Sequenced, RiRsp, RiUpd, Rd

LEMMA ReceiverPacketTypes ==
    ASSUME NEW c \in Conns
    PROVE  /\ \A ok \in BOOLEAN : OpenRsp(c, ok) \in ReceiverPackets
           /\ Transaction("TickleAck", c) \in ReceiverPackets
           /\ Sequenced \subseteq ReceiverPackets
BY DEF ReceiverPackets, OpenRsp, Transaction

\* What the kind of a packet says about its fields.
LEMMA SequencedFields ==
    ASSUME NEW m \in ReceiverPackets
    PROVE  /\ m.conn \in Conns
           /\ m.kind = "OpenRsp" => m.ok \in BOOLEAN
           /\ m.kind \in {"RiRsp", "RiUpd", "Rd"} => m \in Sequenced /\ m.seq \in Numbers
           /\ m.kind = "RiRsp" => m.last \in BOOLEAN /\ m.tuples \in Tuples
           /\ m.kind = "RiUpd" => m.events \in Events
BY DEF ReceiverPackets, Sequenced

LEMMA AskFields ==
    ASSUME NEW m \in SenderPackets
    PROVE  /\ m.conn \in Conns
           /\ m.kind = "OpenReq" => m.plain \in BOOLEAN
           /\ m.kind = "RiAck" => m.seq \in Numbers
BY DEF SenderPackets

\* A packet outstanding is told from none by its fields.
LEMMA NoneIsNoPacket ==
    /\ None \notin Sequenced
    /\ \A m \in Sequenced : m.seq \in Numbers /\ m.conn \in Conns
BY DEF None, Sequenced

\* An update carries one parsable event per network.
LEMMA EventTypes ==
    /\ NoEvents \in Events
    /\ \A p, e \in [code : {"None", "NA", "ND", "NRC", "NDC"}, dist : Dists] :
          queue(p, e) \in [code : {"None", "NA", "ND", "NRC", "NDC"}, dist : Dists]
    /\ \A old, new \in Routes :
          route_changed(old, new) \in [code : {"None", "NA", "ND", "NRC", "NDC"}, dist : Dists]
<1>1. NoEvents \in Events
  BY DEF NoEvents, Events, NoEvent, Event, Dists
<1>2. \A p, e \in [code : {"None", "NA", "ND", "NRC", "NDC"}, dist : Dists] :
          queue(p, e) \in [code : {"None", "NA", "ND", "NRC", "NDC"}, dist : Dists]
  BY DEF queue, NoEvent, Event, Dists
<1>3. \A old, new \in Routes :
          route_changed(old, new) \in [code : {"None", "NA", "ND", "NRC", "NDC"}, dist : Dists]
  BY DEF route_changed, NoEvent, Event, Dists, Routes
<1>. QED BY <1>1, <1>2, <1>3

\* What a tuple or an event makes of a stored distance stays within reach.
LEMMA StoredDistances ==
    ASSUME NEW d \in 1..15 \cup {Absent}
    PROVE  /\ \A t \in Dists \cup {Absent} : learned(d, t) \in 1..15 \cup {Absent}
           /\ \A e \in [code : {"None", "NA", "ND", "NRC", "NDC"}, dist : Dists] :
                 apply(d, e) \in 1..15 \cup {Absent}
<1>1. \A t \in Dists \cup {Absent} : learned(d, t) \in 1..15 \cup {Absent}
  BY DEF learned, Dists, Absent
<1>2. ASSUME NEW e \in [code : {"None", "NA", "ND", "NRC", "NDC"}, dist : Dists]
      PROVE  apply(d, e) \in 1..15 \cup {Absent}
  <2>1. e.dist \in 0..15
    BY DEF Dists
  <2>. QED BY <2>1 DEF apply, Absent
<1>. QED BY <1>1, <1>2

\* An export is cut into one page or more.
LEMMA ExportPages ==
    ASSUME NEW t \in Tuples
    PROVE  split_tuples(t) \in Seq(Tuples) /\ split_tuples(t) # <<>>
<1> DEFINE count == Cardinality({n \in Net : t[n] # Absent})
           last == IF count = 0 THEN 0 ELSE (count - 1) \div PageSize
<1>1. count \in Nat
  <2>1. IsFiniteSet({n \in Net : t[n] # Absent})
    BY NetsAssumption, FS_Subset
  <2>. QED BY <2>1, FS_CardinalityType
<1>2. last \in Nat
  <2>1. CASE count = 0
    BY <2>1
  <2>2. CASE count # 0
    <3>1. PageSize \in Nat /\ PageSize > 0
      BY NumbersAssumption
    <3>2. count - 1 \in Nat
      BY <1>1, <2>2
    <3>3. (count - 1) \div PageSize \in Nat
      BY <3>1, <3>2
    <3>. QED BY <2>2, <3>3
  <2>. QED BY <2>1, <2>2
<1>3. \A p : Page(t, p) \in Tuples
  BY DEF Page, Tuples
<1>4. split_tuples(t) = [i \in 1..last + 1 |-> Page(t, i - 1)]
  BY DEF split_tuples
<1>. HIDE DEF last
<1>. QED BY <1>2, <1>3, <1>4
-----------------------------------------------------------------------------
(* The types are kept, action by action.                                    *)

\* Every packet in flight is well formed, and so is what follows the first.
LEMMA InFlight ==
    ASSUME TypeOK
    PROVE  /\ toReceiver # <<>> =>
                Head(toReceiver) \in ReceiverPackets /\ Tail(toReceiver) \in Seq(ReceiverPackets)
           /\ toSender # <<>> =>
                Head(toSender) \in SenderPackets /\ Tail(toSender) \in Seq(SenderPackets)
           /\ \A m \in SenderPackets : Append(toSender, m) \in Seq(SenderPackets)
           /\ \A m \in ReceiverPackets : Append(toReceiver, m) \in Seq(ReceiverPackets)
BY DEF TypeOK

\* The numbers in use are numbers.
LEMMA InUse ==
    ASSUME TypeOK
    PROVE  /\ conn_local \in Conns /\ conn_remote \in Conns
           /\ succ(conn_local) \in Numbers /\ succ(seq_send) \in Numbers
           /\ 1 \in Numbers /\ 0 \in Conns
BY SuccIsNumber, NumbersAssumption DEF TypeOK, Conns, Numbers

LEMMA OpenTypes == ASSUME TypeOK, Open PROVE TypeOK'
<1>1. PICK plain \in OpenForms : Ask(OpenReq(conn_local, plain))
  BY DEF Open
<1>2. OpenReq(conn_local, plain) \in SenderPackets
  BY InUse, SenderPacketTypes, FlagsAssumption
<1>3. toSender' \in Seq(SenderPackets)
  BY <1>1, <1>2, InFlight DEF Ask
<1>. QED BY <1>3, InUse DEF TypeOK, Open, senderVars, history

LEMMA OpenRspTypes == ASSUME TypeOK, OpenRspArrives PROVE TypeOK'
<1>1. toReceiver' \in Seq(ReceiverPackets)
  BY InFlight DEF OpenRspArrives, Hears, Heard
<1>2. Transaction("RiReq", conn_local) \in SenderPackets
  BY InUse, SenderPacketTypes
<1>3. toSender' \in Seq(SenderPackets)
  BY <1>2, InFlight DEF OpenRspArrives, Ask, TypeOK
<1>. QED BY <1>1, <1>3, InUse DEF TypeOK, OpenRspArrives, close_receiver, senderVars, history

\* The sequence check, whatever it lets the packet do.
LEMMA CheckTypes ==
    ASSUME TypeOK, NEW m \in ReceiverPackets, m.seq \in Numbers,
           NEW new \in [Net -> 1..15 \cup {Absent}],
           NEW state \in {"WaitRiRsp", "Connected", "WaitTickleAck"},
           check_seq(m, new, state)
    PROVE  /\ receiver' \in {"Unconnected", "WaitOpenRsp", "WaitRiRsp", "Connected", "WaitTickleAck"}
           /\ conn_local' \in Numbers /\ seq_recv' \in Numbers /\ recv_tries' \in Nat
           /\ routes' \in [Net -> 1..15 \cup {Absent}]
           /\ toSender' \in Seq(SenderPackets)
<1>1. RiAck(conn_local, m.seq) \in SenderPackets
  BY InUse, SenderPacketTypes
<1>2. Append(toSender, RiAck(conn_local, m.seq)) \in Seq(SenderPackets)
  BY <1>1, InFlight
<1>3. succ(m.seq) \in Numbers
  BY SuccIsNumber DEF Numbers, Conns
<1>4. CASE UNCHANGED receiverVars /\ toSender' \in Seq(SenderPackets)
  BY <1>4 DEF TypeOK, receiverVars, history
<1>5. CASE close_receiver /\ UNCHANGED <<routes, applied, toSender>>
  BY <1>5, InUse DEF TypeOK, close_receiver
<1>6. CASE /\ routes' = new /\ receiver' = state /\ seq_recv' = succ(m.seq)
           /\ toSender' \in Seq(SenderPackets)
           /\ UNCHANGED <<conn_local, recv_tries>>
  BY <1>3, <1>6 DEF TypeOK
<1>. QED
  <2>1. toSender' = toSender => toSender' \in Seq(SenderPackets)
    BY DEF TypeOK
  <2>. QED BY <1>2, <1>4, <1>5, <1>6, <2>1 DEF check_seq, Ask

LEMMA RiRspTypes == ASSUME TypeOK, RiRspArrives PROVE TypeOK'
<1> DEFINE m == Head(toReceiver)
           new == [n \in Net |-> learned(routes[n], m.tuples[n])]
           state == IF m.last THEN "Connected" ELSE receiver
<1>1. m \in ReceiverPackets /\ toReceiver' \in Seq(ReceiverPackets)
  BY InFlight DEF RiRspArrives, Hears, Heard
<1>2. m.seq \in Numbers /\ m.tuples \in Tuples
  BY <1>1, SequencedFields DEF RiRspArrives, Hears
<1>3. new \in [Net -> 1..15 \cup {Absent}]
  <2>1. \A n \in Net : learned(routes[n], m.tuples[n]) \in 1..15 \cup {Absent}
    BY <1>2, StoredDistances DEF TypeOK, Tuples
  <2>. QED BY <2>1
<1>4. state \in {"WaitRiRsp", "Connected", "WaitTickleAck"}
  BY DEF RiRspArrives, ReceiverOpen, TypeOK
<1>5. check_seq(m, new, state)
  BY DEF RiRspArrives
<1>. HIDE DEF m, new, state
<1>. QED BY <1>1, <1>2, <1>3, <1>4, <1>5, CheckTypes DEF TypeOK, RiRspArrives, senderVars, history

LEMMA RiUpdTypes == ASSUME TypeOK, RiUpdArrives PROVE TypeOK'
<1> DEFINE m == Head(toReceiver)
           new == [n \in Net |-> apply(routes[n], m.events[n])]
<1>1. m \in ReceiverPackets /\ toReceiver' \in Seq(ReceiverPackets)
  BY InFlight DEF RiUpdArrives, Hears, Heard
<1>2. m.seq \in Numbers /\ m.events \in Events
  BY <1>1, SequencedFields DEF RiUpdArrives, Hears
<1>3. new \in [Net -> 1..15 \cup {Absent}]
  <2>1. \A n \in Net : apply(routes[n], m.events[n]) \in 1..15 \cup {Absent}
    BY <1>2, StoredDistances DEF TypeOK, Events
  <2>. QED BY <2>1
<1>4. receiver \in {"WaitRiRsp", "Connected", "WaitTickleAck"}
  BY DEF RiUpdArrives, ReceiverOpen, TypeOK
<1>5. check_seq(m, new, receiver)
  BY DEF RiUpdArrives
<1>. HIDE DEF m, new
<1>. QED BY <1>1, <1>2, <1>3, <1>4, <1>5, CheckTypes DEF TypeOK, RiUpdArrives, senderVars, history

LEMMA RdTypes == ASSUME TypeOK, RdArrives PROVE TypeOK'
<1>1. Head(toReceiver).seq \in Numbers /\ toReceiver' \in Seq(ReceiverPackets)
  BY InFlight, SequencedFields DEF RdArrives, Hears, Heard
<1>2. toSender' \in Seq(SenderPackets)
  BY <1>1, InUse, SenderPacketTypes, InFlight DEF RdArrives, Ask
<1>. QED BY <1>1, <1>2, InUse DEF TypeOK, RdArrives, close_receiver, NoTuples, senderVars, history

\* The receiver's remaining actions send one of its own packets or nothing.
LEMMA ReceiverTimerTypes ==
    ASSUME TypeOK, OpeningTimeout \/ GoneQuiet \/ TickleTimeout \/ ping
    PROVE  TypeOK'
<1>1. /\ \A plain \in BOOLEAN : Append(toSender, OpenReq(conn_local, plain)) \in Seq(SenderPackets)
      /\ \A k \in {"RiReq", "Tickle"} :
            Append(toSender, Transaction(k, conn_local)) \in Seq(SenderPackets)
  BY InUse, SenderPacketTypes, InFlight
<1>2. CASE OpeningTimeout
  <2>1. UNCHANGED <<routes, senderVars, home, toReceiver, history>>
    BY <1>2 DEF OpeningTimeout
  <2>2. CASE close_receiver /\ UNCHANGED toSender
    BY <2>1, <2>2, InUse DEF TypeOK, close_receiver, senderVars, history
  <2>3. CASE /\ recv_tries' = recv_tries + 1
             /\ toSender' \in Seq(SenderPackets)
             /\ UNCHANGED <<receiver, conn_local, seq_recv>>
    BY <2>1, <2>3 DEF TypeOK, senderVars, history
  <2>. QED BY <1>1, <1>2, <2>2, <2>3 DEF OpeningTimeout, Ask
<1>3. CASE GoneQuiet
  BY <1>1, <1>3 DEF TypeOK, GoneQuiet, Ask, senderVars, history
<1>4. CASE TickleTimeout
  <2>1. CASE close_receiver /\ routes' = NoTuples /\ UNCHANGED toSender
    <3>1. UNCHANGED <<senderVars, home, toReceiver, history>>
      BY <1>4 DEF TickleTimeout
    <3>2. routes' \in [Net -> 1..15 \cup {Absent}]
      BY <2>1 DEF NoTuples
    <3>. QED BY <2>1, <3>1, <3>2, InUse DEF TypeOK, close_receiver, senderVars, history
  <2>2. CASE /\ recv_tries' = recv_tries + 1
             /\ Ask(Transaction("Tickle", conn_local))
             /\ UNCHANGED <<receiver, conn_local, seq_recv, routes>>
    BY <1>1, <1>4, <2>2 DEF TypeOK, TickleTimeout, Ask, senderVars, history
  <2>. QED BY <1>4, <2>1, <2>2 DEF TickleTimeout
<1>5. CASE ping
  <2>1. toSender' \in Seq(SenderPackets)
    BY <1>1, <1>5 DEF ping, Ask
  <2>2. /\ receiver' \in {"Unconnected", "WaitOpenRsp", "WaitRiRsp", "Connected", "WaitTickleAck"}
        /\ recv_tries' \in Nat
    BY <1>5 DEF TypeOK, ping
  <2>. QED BY <1>5, <2>1, <2>2 DEF TypeOK, ping, senderVars, history
<1>. QED BY <1>2, <1>3, <1>4, <1>5

LEMMA ReceiverOtherTypes ==
    ASSUME TypeOK, TickleAckArrives \/ ReceiverDiscards \/ ReceiverRestarts
    PROVE  TypeOK'
<1>1. CASE TickleAckArrives
  BY <1>1, InFlight DEF TypeOK, TickleAckArrives, Hears, Heard, senderVars, history
<1>2. CASE ReceiverDiscards
  BY <1>2, InFlight DEF TypeOK, ReceiverDiscards, Heard, receiverVars, senderVars, history
<1>3. CASE ReceiverRestarts
  BY <1>3, InUse DEF TypeOK, ReceiverRestarts, close_receiver, NoTuples, senderVars, history
<1>. QED BY <1>1, <1>2, <1>3

\* Sending a sequenced packet of the connection.
LEMMA SendSequencedTypes ==
    ASSUME TypeOK, NEW m \in Sequenced, send_sequenced(m)
    PROVE  /\ seq_send' \in Conns /\ outstanding' \in Sequenced \cup {None} /\ tries' \in Nat
           /\ toReceiver' \in Seq(ReceiverPackets)
<1>1. m \in ReceiverPackets
  BY InUse, ReceiverPacketTypes
<1>2. m.seq \in Conns
  BY NoneIsNoPacket DEF Numbers, Conns
<1>. QED BY <1>1, <1>2, InFlight DEF send_sequenced, Answer

LEMMA SendPageTypes ==
    ASSUME TypeOK, NEW left \in Seq(Tuples), left # <<>>, NEW n \in Numbers, send_page(left, n)
    PROVE  /\ seq_send' \in Conns /\ outstanding' \in Sequenced \cup {None} /\ tries' \in Nat
           /\ toReceiver' \in Seq(ReceiverPackets)
           /\ pages' \in Seq(Tuples) /\ sender' = "WaitRiRspAck"
<1> DEFINE m == RiRsp(conn_remote, n, Len(left) = 1, Head(left))
<1>1. Head(left) \in Tuples /\ Tail(left) \in Seq(Tuples) /\ (Len(left) = 1) \in BOOLEAN
  OBVIOUS
<1>2. m \in Sequenced
  BY <1>1, InUse, SequencedTypes
<1>3. send_sequenced(m)
  BY DEF send_page
<1>. HIDE DEF m
<1>. QED BY <1>1, <1>2, <1>3, SendSequencedTypes DEF send_page

LEMMA CloseSenderTypes ==
    ASSUME TypeOK, close_sender
    PROVE  /\ sender' = "Unconnected" /\ conn_remote' \in Conns /\ seq_send' \in Conns
           /\ outstanding' \in Sequenced \cup {None} /\ tries' \in Nat
           /\ pages' \in Seq(Tuples) /\ pending' \in Events /\ probing' \in BOOLEAN
<1>1. <<>> \in Seq(Tuples)
  OBVIOUS
<1>. QED BY <1>1, InUse, EventTypes DEF close_sender

LEMMA OpenReqTypes == ASSUME TypeOK, open_req PROVE TypeOK'
<1> DEFINE m == Head(toSender)
<1>1. m \in SenderPackets /\ toSender' \in Seq(SenderPackets)
  BY InFlight DEF open_req, Asked, Taken
<1>2. m.conn \in Conns
  BY <1>1, AskFields
<1>3. UNCHANGED <<receiverVars, home, history>>
  BY DEF open_req
<1>4. CASE Answer(OpenRsp(m.conn, FALSE)) /\ UNCHANGED senderVars
  <2>1. toReceiver' \in Seq(ReceiverPackets)
    BY <1>2, <1>4, ReceiverPacketTypes, InFlight DEF Answer
  <2>. QED BY <1>1, <1>3, <1>4, <2>1 DEF TypeOK, senderVars, receiverVars, history
<1>5. CASE /\ probing' = TRUE /\ sender' = "WaitRiUpdAck"
           /\ send_sequenced(RiUpd(conn_remote, succ(seq_send), NoEvents))
           /\ UNCHANGED <<conn_remote, pages, pending>>
  <2>1. RiUpd(conn_remote, succ(seq_send), NoEvents) \in Sequenced
    BY InUse, SequencedTypes, EventTypes
  <2>. QED BY <1>1, <1>3, <1>5, <2>1, SendSequencedTypes DEF TypeOK, receiverVars, history
<1>6. CASE UNCHANGED <<senderVars, toReceiver>>
  BY <1>1, <1>3, <1>6 DEF TypeOK, senderVars, receiverVars, history
<1>7. CASE /\ conn_remote' = m.conn /\ seq_send' = 0 /\ sender' = "Connected"
           /\ outstanding' = None /\ tries' = 0 /\ pages' = <<>>
           /\ Answer(OpenRsp(m.conn, TRUE))
           /\ UNCHANGED <<pending, probing>>
  <2>1. toReceiver' \in Seq(ReceiverPackets)
    BY <1>2, <1>7, ReceiverPacketTypes, InFlight DEF Answer
  <2>. QED BY <1>1, <1>2, <1>3, <1>7, <2>1, InUse DEF TypeOK, receiverVars, history
<1>. QED BY <1>4, <1>5, <1>6, <1>7 DEF open_req

LEMMA RiReqTypes == ASSUME TypeOK, RiReqArrives PROVE TypeOK'
<1>1. Export \in Tuples
  BY HomeAssumption DEF Export, Tuples, Exported, Local, TypeOK, Routes, Dists
<1>2. split_tuples(Export) \in Seq(Tuples) /\ split_tuples(Export) # <<>>
  BY <1>1, ExportPages
<1>3. /\ toSender' \in Seq(SenderPackets)
      /\ send_page(split_tuples(Export), 1)
      /\ UNCHANGED <<conn_remote, pending, probing, receiverVars, home>>
  BY InFlight DEF RiReqArrives, Asked, Taken
<1>4. spoilt' \subseteq Conns /\ ghosts' \subseteq Net
  BY DEF RiReqArrives, TypeOK
<1>. QED BY <1>2, <1>3, <1>4, InUse, SendPageTypes DEF TypeOK, receiverVars, history

LEMMA RiAckTypes == ASSUME TypeOK, ri_ack PROVE TypeOK'
<1>1. toSender' \in Seq(SenderPackets) /\ UNCHANGED <<receiverVars, home, history>>
  BY InFlight DEF ri_ack, Acked, Asked, Taken
<1>2. CASE /\ pages # <<>> /\ send_page(pages, succ(seq_send))
           /\ UNCHANGED <<conn_remote, pending, probing>>
  <2>1. pages \in Seq(Tuples)
    BY DEF TypeOK
  <2>. QED BY <1>1, <1>2, <2>1, InUse, SendPageTypes DEF TypeOK, receiverVars, history
<1>3. CASE /\ sender' = "Connected" /\ probing' = FALSE
           /\ outstanding' = None /\ tries' = 0
           /\ UNCHANGED <<conn_remote, seq_send, pages, pending, toReceiver>>
  BY <1>1, <1>3 DEF TypeOK, receiverVars, history
<1>4. CASE close_sender /\ UNCHANGED toReceiver
  BY <1>1, <1>4, CloseSenderTypes DEF TypeOK, receiverVars, history
<1>. QED BY <1>2, <1>3, <1>4 DEF ri_ack

LEMMA SenderTimerTypes ==
    ASSUME TypeOK, SenderTimeout \/ SendUpdate \/ ProbeThisWay \/ shutdown
    PROVE  TypeOK'
<1>1. /\ \A e \in Events : RiUpd(conn_remote, succ(seq_send), e) \in Sequenced
      /\ Rd(conn_remote, succ(seq_send)) \in Sequenced
  BY InUse, SequencedTypes
<1>2. CASE SenderTimeout
  <2>1. UNCHANGED <<receiverVars, home, toSender, history>>
    BY <1>2 DEF SenderTimeout
  <2>2. CASE close_sender /\ UNCHANGED toReceiver
    BY <2>1, <2>2, CloseSenderTypes DEF TypeOK, receiverVars, history
  <2>3. CASE /\ tries' = tries + 1 /\ Answer(outstanding)
             /\ UNCHANGED <<sender, conn_remote, seq_send, outstanding, pages, pending, probing>>
    <3>1. outstanding \in ReceiverPackets
      BY <1>2, InUse, ReceiverPacketTypes DEF SenderTimeout, TypeOK
    <3>2. toReceiver' \in Seq(ReceiverPackets)
      BY <2>3, <3>1, InFlight DEF Answer
    <3>. QED BY <2>1, <2>3, <3>2 DEF TypeOK, receiverVars, history
  <2>. QED BY <1>2, <2>2, <2>3 DEF SenderTimeout
<1>3. CASE SendUpdate
  <2>1. pending \in Events
    BY DEF TypeOK
  <2>2. /\ send_sequenced(RiUpd(conn_remote, succ(seq_send), pending))
        /\ pending' = NoEvents /\ sender' = "WaitRiUpdAck"
        /\ UNCHANGED <<conn_remote, pages, probing, receiverVars, home, toSender>>
        /\ spoilt' \subseteq Conns /\ ghosts' \subseteq Net
    BY <1>3 DEF SendUpdate, Overtaken, TypeOK
  <2>. QED BY <1>1, <2>1, <2>2, SendSequencedTypes, EventTypes DEF TypeOK, receiverVars, history
<1>4. CASE ProbeThisWay
  <2>1. /\ send_sequenced(RiUpd(conn_remote, succ(seq_send), NoEvents))
        /\ sender' = "WaitRiUpdAck"
        /\ UNCHANGED <<conn_remote, pages, pending, probing, receiverVars, home, toSender>>
        /\ spoilt' \subseteq Conns /\ ghosts' \subseteq Net
    BY <1>4 DEF ProbeThisWay, Overtaken, TypeOK
  <2>. QED BY <1>1, <2>1, SendSequencedTypes, EventTypes DEF TypeOK, receiverVars, history
<1>5. CASE shutdown
  <2>1. /\ send_sequenced(Rd(conn_remote, succ(seq_send)))
        /\ pages' = <<>> /\ sender' = "WaitRdAck"
        /\ UNCHANGED <<conn_remote, pending, probing, receiverVars, home, toSender, history>>
    BY <1>5 DEF shutdown
  <2>. QED BY <1>1, <2>1, SendSequencedTypes DEF TypeOK, receiverVars, history
<1>. QED BY <1>2, <1>3, <1>4, <1>5

LEMMA HomeChangesTypes == ASSUME TypeOK, HomeChanges PROVE TypeOK'
<1>1. PICK n \in Net, new \in HomeRoutes :
        /\ home' = [home EXCEPT ![n] = new]
        /\ pending' = IF sender = "Unconnected" THEN pending
                      ELSE [pending EXCEPT ![n] = queue(@, route_changed(home[n], new))]
  BY DEF HomeChanges
<1>2. home[n] \in Routes /\ new \in Routes
  BY HomeAssumption DEF TypeOK
<1>3. queue(pending[n], route_changed(home[n], new))
        \in [code : {"None", "NA", "ND", "NRC", "NDC"}, dist : Dists]
  BY <1>2, EventTypes DEF TypeOK, Events
<1>4. pending' \in Events
  BY <1>1, <1>3 DEF TypeOK, Events
<1>5. home' \in [Net -> HomeRoutes]
  BY <1>1 DEF TypeOK
<1>. QED BY <1>4, <1>5 DEF TypeOK, HomeChanges, receiverVars, history

LEMMA SenderOtherTypes ==
    ASSUME TypeOK, TickleArrives \/ SenderDiscards \/ SenderRestarts
                   \/ LoseToSender \/ LoseToReceiver
    PROVE  TypeOK'
<1>1. CASE TickleArrives
  <2>1. toReceiver' \in Seq(ReceiverPackets)
    BY <1>1, InUse, InFlight, ReceiverPacketTypes DEF TickleArrives, Answer
  <2>. QED BY <1>1, <2>1, InFlight DEF TypeOK, TickleArrives, Asked, Taken, receiverVars, senderVars, history
<1>2. CASE SenderDiscards
  BY <1>2, InFlight DEF TypeOK, SenderDiscards, Taken, receiverVars, senderVars, history
<1>3. CASE SenderRestarts
  BY <1>3, CloseSenderTypes DEF TypeOK, SenderRestarts, receiverVars, history
<1>4. CASE LoseToSender
  BY <1>4, InFlight DEF TypeOK, LoseToSender, receiverVars, senderVars, history
<1>5. CASE LoseToReceiver
  BY <1>5, InFlight DEF TypeOK, LoseToReceiver, receiverVars, senderVars, history
<1>. QED BY <1>1, <1>2, <1>3, <1>4, <1>5

LEMMA InitTypes == Init => TypeOK
<1>1. <<>> \in Seq(Tuples) /\ <<>> \in Seq(SenderPackets) /\ <<>> \in Seq(ReceiverPackets)
  OBVIOUS
<1>2. 1 \in Numbers /\ 0 \in Conns
  BY NumbersAssumption DEF Numbers, Conns
<1>3. NoTuples \in [Net -> 1..15 \cup {Absent}]
  BY DEF NoTuples
<1>4. NoEvents \in Events /\ FirstHome \in [Net -> HomeRoutes]
  BY HomeAssumption, EventTypes
<1> SUFFICES ASSUME Init PROVE TypeOK
  OBVIOUS
<1>5. /\ conn_local \in Numbers /\ seq_recv \in Numbers /\ recv_tries \in Nat
      /\ conn_remote \in Conns /\ seq_send \in Conns /\ tries \in Nat
  BY <1>2 DEF Init
<1>6. /\ routes \in [Net -> 1..15 \cup {Absent}] /\ home \in [Net -> HomeRoutes]
      /\ pending \in Events /\ pages \in Seq(Tuples)
  BY <1>1, <1>3, <1>4 DEF Init
<1>7. outstanding \in Sequenced \cup {None} /\ probing \in BOOLEAN
  BY DEF Init
<1>8. /\ toSender \in Seq(SenderPackets) /\ toReceiver \in Seq(ReceiverPackets)
      /\ spoilt \subseteq Conns /\ ghosts \subseteq Net
  BY <1>1 DEF Init
<1>. QED BY <1>5, <1>6, <1>7, <1>8 DEF Init, TypeOK

\* Every step of the connection keeps the types.
LEMMA NextTypes == TypeOK /\ [Next]_vars => TypeOK'
<1> SUFFICES ASSUME TypeOK, [Next]_vars PROVE TypeOK'
  OBVIOUS
<1>1. CASE UNCHANGED vars
  BY <1>1 DEF TypeOK, vars, receiverVars, senderVars, history
<1>2. CASE Next
  BY <1>2, OpenTypes, OpenRspTypes, RiRspTypes, RiUpdTypes, RdTypes, ReceiverTimerTypes,
     ReceiverOtherTypes, OpenReqTypes, RiReqTypes, RiAckTypes, SenderTimerTypes,
     HomeChangesTypes, SenderOtherTypes
  DEF Next, ReceiverTakes, SenderTakes
<1>. QED BY <1>1, <1>2

\* The two state machines and the datagrams between them keep their types:
\* numbers skip 0 as they wrap, and nothing is sent that the other end cannot
\* parse.
THEOREM TypesKept == Spec => []TypeOK
BY InitTypes, NextTypes, PTL DEF Spec
-----------------------------------------------------------------------------
(* Stop and wait.                                                           *)

\* A sequenced packet of the sender's own connection is sent, and the state
\* is the one that waits for its ack.
LEMMA SentWaits ==
    ASSUME TypeOK, StopAndWait, conn_remote' = conn_remote,
           NEW m, send_sequenced(m), m.conn = conn_remote, m # None,
           \/ /\ m.kind = "RiRsp" /\ sender' = "WaitRiRspAck"
           \/ /\ m.kind = "RiUpd" /\ sender' = "WaitRiUpdAck" /\ pages' = <<>>
           \/ /\ m.kind = "Rd" /\ sender' = "WaitRdAck" /\ pages' = <<>>
    PROVE  StopAndWait'
BY DEF StopAndWait, send_sequenced

LEMMA UpdateWaits ==
    ASSUME TypeOK, StopAndWait, conn_remote' = conn_remote, pages' = pages,
           outstanding = None, sender' = "WaitRiUpdAck", NEW e,
           send_sequenced(RiUpd(conn_remote, succ(seq_send), e))
    PROVE  StopAndWait'
<1> DEFINE m == RiUpd(conn_remote, succ(seq_send), e)
<1>1. m.kind = "RiUpd" /\ m.conn = conn_remote /\ m # None
  BY DEF RiUpd, None
<1>2. pages' = <<>>
  BY DEF StopAndWait
<1>3. send_sequenced(m)
  OBVIOUS
<1>. HIDE DEF m
<1>. QED BY <1>1, <1>2, <1>3, SentWaits

LEMMA ClosedWaits == ASSUME close_sender PROVE StopAndWait'
BY DEF close_sender, StopAndWait

LEMMA PageWaits ==
    ASSUME TypeOK, StopAndWait, conn_remote' = conn_remote,
           NEW left, NEW n, send_page(left, n)
    PROVE  StopAndWait'
<1> DEFINE m == RiRsp(conn_remote, n, Len(left) = 1, Head(left))
<1>1. m.kind = "RiRsp" /\ m.conn = conn_remote /\ m # None
  BY DEF RiRsp, None
<1>2. send_sequenced(m) /\ sender' = "WaitRiRspAck"
  BY DEF send_page
<1>. HIDE DEF m
<1>. QED BY <1>1, <1>2, SentWaits

LEMMA OpenReqWaits == ASSUME TypeOK, StopAndWait, open_req PROVE StopAndWait'
<1>1. CASE UNCHANGED senderVars
  BY <1>1 DEF senderVars, StopAndWait
<1>2. CASE /\ outstanding = None /\ sender' = "WaitRiUpdAck"
           /\ send_sequenced(RiUpd(conn_remote, succ(seq_send), NoEvents))
           /\ UNCHANGED <<conn_remote, pages, pending>>
  BY <1>2, UpdateWaits
<1>3. CASE /\ sender' = "Connected" /\ outstanding' = None /\ pages' = <<>>
  BY <1>3 DEF StopAndWait
<1>. QED BY <1>1, <1>2, <1>3 DEF open_req

LEMMA RiAckWaits == ASSUME TypeOK, StopAndWait, ri_ack PROVE StopAndWait'
<1>1. CASE send_page(pages, succ(seq_send)) /\ UNCHANGED conn_remote
  BY <1>1, PageWaits
<1>2. CASE /\ sender = "WaitRiUpdAck" \/ (sender = "WaitRiRspAck" /\ pages = <<>>)
           /\ sender' = "Connected" /\ outstanding' = None /\ UNCHANGED pages
  BY <1>2 DEF StopAndWait
<1>3. CASE close_sender
  BY <1>3, ClosedWaits
<1>. QED BY <1>1, <1>2, <1>3 DEF ri_ack

LEMMA SenderTimerWaits ==
    ASSUME TypeOK, StopAndWait, SenderTimeout \/ SendUpdate \/ ProbeThisWay \/ shutdown
    PROVE  StopAndWait'
<1>1. CASE SenderTimeout
  <2>1. CASE close_sender
    BY <2>1, ClosedWaits
  <2>2. CASE UNCHANGED <<sender, conn_remote, seq_send, outstanding, pages, pending, probing>>
    BY <2>2 DEF StopAndWait
  <2>. QED BY <1>1, <2>1, <2>2 DEF SenderTimeout
<1>2. CASE SendUpdate
  BY <1>2, UpdateWaits DEF SendUpdate
<1>3. CASE ProbeThisWay
  <2>1. outstanding = None
    BY <1>3 DEF ProbeThisWay, StopAndWait
  <2>. QED BY <1>3, <2>1, UpdateWaits DEF ProbeThisWay
<1>4. CASE shutdown
  <2> DEFINE m == Rd(conn_remote, succ(seq_send))
  <2>1. m.kind = "Rd" /\ m.conn = conn_remote /\ m # None
    BY DEF Rd, None
  <2>2. send_sequenced(m) /\ sender' = "WaitRdAck" /\ pages' = <<>> /\ conn_remote' = conn_remote
    BY <1>4 DEF shutdown
  <2>. HIDE DEF m
  <2>. QED BY <2>1, <2>2, SentWaits
<1>. QED BY <1>1, <1>2, <1>3, <1>4

\* A change is queued only on a connection that is open.
LEMMA HomeChangesWaits == ASSUME StopAndWait, HomeChanges PROVE StopAndWait'
<1>1. UNCHANGED <<sender, conn_remote, seq_send, outstanding, tries, pages, probing>>
  BY DEF HomeChanges
<1>2. sender = "Unconnected" => UNCHANGED pending
  BY DEF HomeChanges
<1>. QED BY <1>1, <1>2 DEF StopAndWait

LEMMA NextWaits == TypeOK /\ StopAndWait /\ [Next]_vars => StopAndWait'
<1> SUFFICES ASSUME TypeOK, StopAndWait, [Next]_vars PROVE StopAndWait'
  OBVIOUS
<1>1. CASE UNCHANGED senderVars
  BY <1>1 DEF senderVars, StopAndWait
<1>2. CASE RiReqArrives
  BY <1>2, PageWaits DEF RiReqArrives
<1>3. CASE SenderRestarts
  BY <1>3, ClosedWaits DEF SenderRestarts
<1>4. CASE \/ Open \/ OpeningTimeout \/ GoneQuiet \/ TickleTimeout \/ ping
           \/ ReceiverTakes \/ ReceiverRestarts \/ TickleArrives \/ SenderDiscards
           \/ LoseToSender \/ LoseToReceiver \/ UNCHANGED vars
  <2>1. UNCHANGED senderVars
    BY <1>4 DEF Open, OpeningTimeout, GoneQuiet, TickleTimeout, ping, ReceiverTakes,
                ReceiverRestarts, TickleArrives, SenderDiscards, LoseToSender, LoseToReceiver,
                OpenRspArrives, RiRspArrives, RiUpdArrives, RdArrives, TickleAckArrives,
                ReceiverDiscards, vars
  <2>. QED BY <1>1, <2>1
<1>. QED
  BY <1>2, <1>3, <1>4, OpenReqWaits, RiAckWaits, SenderTimerWaits, HomeChangesWaits
  DEF Next, SenderTakes

\* The sender waits for an ack exactly when a packet of its connection is
\* outstanding, whatever the datagrams and timers do (Peer::send_sequenced,
\* open_req, ri_ack, sender_timers, shutdown).
THEOREM SenderWaits == Spec => []StopAndWait
<1>1. Init => StopAndWait
  BY DEF Init, StopAndWait
<1>. QED BY <1>1, NextWaits, TypesKept, PTL DEF Spec
-----------------------------------------------------------------------------
(* Connection IDs.  As long as the numbers have not wrapped, every ID in    *)
(* use is below the one the receiver opens with next.                       *)

\* Fewer openings and restarts than there are connection IDs.
NoWrap ==
    /\ {"Open", "Restart"} \subseteq DOMAIN Budget
    /\ Budget["Open"] + Budget["Restart"] < MaxNumber

\* The last ID the receiver has used.
Latest == IF receiver = "Unconnected" THEN conn_local - 1 ELSE conn_local
Upto(c, q) == \A i \in DOMAIN q : q[i].conn <= c
IdsLeft ==
    /\ DOMAIN budget = DOMAIN Budget /\ budget \in [DOMAIN Budget -> Nat]
    /\ Latest + budget["Open"] + budget["Restart"] <= Budget["Open"] + Budget["Restart"]
IdsUsed == conn_remote <= Latest /\ Upto(Latest, toSender) /\ Upto(Latest, toReceiver)
IdInv == TypeOK /\ StopAndWait /\ IdsLeft /\ IdsUsed

LEMMA Bounds == NoWrap => Budget["Open"] \in Nat /\ Budget["Restart"] \in Nat
BY BudgetAssumption DEF NoWrap

\* A packet at most as recent as c may join a queue of such packets, and any
\* may leave it.
LEMMA UptoQueues ==
    ASSUME NEW c \in Int, NEW P, NEW q \in Seq(P), Upto(c, q)
    PROVE  /\ \A m : m.conn <= c => Upto(c, Append(q, m))
           /\ q # <<>> => Head(q).conn <= c /\ Upto(c, Tail(q))
BY DEF Upto

LEMMA UptoGrows ==
    ASSUME NEW c \in Int, NEW d \in Int, c <= d, NEW q, Upto(c, q),
           \A i \in DOMAIN q : q[i].conn \in Int
    PROVE  Upto(d, q)
BY DEF Upto

\* What the bounded events leave of the openings and restarts.
LEMMA SpendIds ==
    ASSUME NoWrap, IdsLeft, NEW k, Spend(k)
    PROVE  /\ DOMAIN budget' = DOMAIN Budget /\ budget' \in [DOMAIN Budget -> Nat]
           /\ k = "Open" => /\ budget'["Open"] = budget["Open"] - 1
                            /\ budget'["Restart"] = budget["Restart"]
           /\ k = "Restart" => /\ budget'["Restart"] = budget["Restart"] - 1
                               /\ budget'["Open"] = budget["Open"]
           /\ k \notin {"Open", "Restart"} => /\ budget'["Open"] = budget["Open"]
                                              /\ budget'["Restart"] = budget["Restart"]
BY DEF NoWrap, IdsLeft, Spend

\* Closing never wraps, and leaves the ID just used as the latest one.
LEMMA ClosingIds ==
    ASSUME NoWrap, IdInv, close_receiver,
           receiver # "Unconnected" \/ budget["Restart"] > 0
    PROVE  conn_local' = conn_local + 1 /\ Latest' = conn_local
<1>1. conn_local \in Nat /\ MaxNumber \in Nat
  BY NumbersAssumption DEF IdInv, TypeOK, Numbers
<1>2. budget["Open"] \in Nat /\ budget["Restart"] \in Nat
  BY DEF IdInv, IdsLeft, NoWrap
<1>3. conn_local < MaxNumber
  BY <1>1, <1>2, Bounds DEF IdInv, IdsLeft, Latest, NoWrap
<1>4. conn_local' = conn_local + 1
  BY <1>1, <1>3 DEF close_receiver, succ
<1>. QED BY <1>1, <1>4 DEF close_receiver, Latest

\* What every packet in flight gives: its ID is a number.
LEMMA IdTypes ==
    ASSUME TypeOK
    PROVE  /\ conn_local \in Nat /\ conn_remote \in Nat /\ Latest \in Int
           /\ toSender \in Seq(SenderPackets) /\ toReceiver \in Seq(ReceiverPackets)
           /\ \A i \in DOMAIN toSender : toSender[i].conn \in Int
           /\ \A i \in DOMAIN toReceiver : toReceiver[i].conn \in Int
<1>1. \A m \in SenderPackets : m.conn \in Int
  BY AskFields, NumbersAssumption DEF Conns
<1>2. \A m \in ReceiverPackets : m.conn \in Int
  BY SequencedFields, NumbersAssumption DEF Conns
<1>3. conn_local \in Nat /\ conn_remote \in Nat
  BY NumbersAssumption DEF TypeOK, Numbers, Conns
<1>. QED BY <1>1, <1>2, <1>3 DEF TypeOK, Latest

\* A receiver's step: its latest ID does not go back, it sends at most one
\* packet, under an ID it has used, and takes at most one.
ReceiverStep ==
    /\ Latest' \in Int /\ Latest <= Latest'
    /\ UNCHANGED conn_remote
    /\ \/ UNCHANGED toSender
       \/ \E m : toSender' = Append(toSender, m) /\ m.conn <= Latest'
    /\ \/ UNCHANGED toReceiver
       \/ toReceiver # <<>> /\ toReceiver' = Tail(toReceiver)

LEMMA ReceiverStepIds == ASSUME IdInv, ReceiverStep PROVE IdsUsed'
<1>1. TypeOK /\ IdsUsed
  BY DEF IdInv
<1>2. conn_remote' <= Latest'
  BY <1>1, IdTypes DEF ReceiverStep, IdsUsed
<1>3. Upto(Latest', toSender) /\ Upto(Latest', toReceiver)
  BY <1>1, IdTypes, UptoGrows DEF ReceiverStep, IdsUsed
<1>4. Upto(Latest', toSender')
  <2>1. \A m : m.conn <= Latest' => Upto(Latest', Append(toSender, m))
    BY <1>1, <1>3, IdTypes, UptoQueues DEF ReceiverStep
  <2>. QED BY <1>3, <2>1 DEF ReceiverStep
<1>5. Upto(Latest', toReceiver')
  <2>1. toReceiver # <<>> => Upto(Latest', Tail(toReceiver))
    BY <1>1, <1>3, IdTypes, UptoQueues DEF ReceiverStep
  <2>. QED BY <1>3, <2>1 DEF ReceiverStep
<1>. QED BY <1>2, <1>4, <1>5 DEF IdsUsed

LEMMA OpenIds == ASSUME NoWrap, IdInv, Open PROVE IdsLeft' /\ IdsUsed'
<1>1. PICK plain \in OpenForms : Ask(OpenReq(conn_local, plain))
  BY DEF Open
<1>2. /\ receiver = "Unconnected" /\ receiver' = "WaitOpenRsp" /\ Spend("Open")
      /\ UNCHANGED <<conn_local, conn_remote, toReceiver>>
  BY DEF Open, senderVars
<1>3. conn_local \in Nat /\ Latest = conn_local - 1 /\ Latest' = conn_local
  BY <1>2, IdTypes DEF IdInv, Latest
<1>4. OpenReq(conn_local, plain).conn = conn_local
  BY DEF OpenReq
<1>5. ReceiverStep
  BY <1>1, <1>2, <1>3, <1>4 DEF ReceiverStep, Ask
<1>6. IdsLeft'
  <2>1. budget["Open"] \in Nat /\ budget["Restart"] \in Nat
    BY DEF IdInv, IdsLeft, NoWrap
  <2>2. /\ DOMAIN budget' = DOMAIN Budget /\ budget' \in [DOMAIN Budget -> Nat]
        /\ budget'["Open"] = budget["Open"] - 1 /\ budget'["Restart"] = budget["Restart"]
    BY <1>2, SpendIds DEF IdInv
  <2>. QED BY <1>3, <2>1, <2>2, Bounds DEF IdInv, IdsLeft
<1>. QED BY <1>5, <1>6, ReceiverStepIds

\* A step that closes the receiver, spending no opening and no restart.
LEMMA CloseIds ==
    ASSUME NoWrap, IdInv, close_receiver, receiver # "Unconnected",
           UNCHANGED <<conn_remote, budget>>,
           \/ UNCHANGED toSender
           \/ \E m : toSender' = Append(toSender, m) /\ m.conn = conn_local,
           \/ UNCHANGED toReceiver
           \/ toReceiver # <<>> /\ toReceiver' = Tail(toReceiver)
    PROVE  IdsLeft' /\ IdsUsed'
<1>1. Latest' = conn_local /\ Latest = conn_local /\ conn_local \in Nat
  BY ClosingIds, IdTypes DEF IdInv, Latest
<1>2. ReceiverStep
  BY <1>1 DEF ReceiverStep
<1>3. IdsLeft'
  BY <1>1 DEF IdInv, IdsLeft
<1>. QED BY <1>2, <1>3, ReceiverStepIds

\* A step of an open receiver that stays open.
LEMMA StayIds ==
    ASSUME NoWrap, IdInv, receiver # "Unconnected", receiver' # "Unconnected",
           UNCHANGED <<conn_local, conn_remote>>,
           budget' = budget \/ Spend("Ping"),
           \/ UNCHANGED toSender
           \/ \E m : toSender' = Append(toSender, m) /\ m.conn = conn_local,
           \/ UNCHANGED toReceiver
           \/ toReceiver # <<>> /\ toReceiver' = Tail(toReceiver)
    PROVE  IdsLeft' /\ IdsUsed'
<1>1. Latest' = conn_local /\ Latest = conn_local /\ conn_local \in Nat
  BY IdTypes DEF IdInv, Latest
<1>2. ReceiverStep
  BY <1>1 DEF ReceiverStep
<1>3. /\ DOMAIN budget' = DOMAIN Budget /\ budget' \in [DOMAIN Budget -> Nat]
      /\ budget'["Open"] = budget["Open"] /\ budget'["Restart"] = budget["Restart"]
  BY SpendIds DEF IdInv, IdsLeft
<1>4. IdsLeft'
  BY <1>1, <1>3 DEF IdInv, IdsLeft
<1>. QED BY <1>2, <1>4, ReceiverStepIds

\* The packets a receiver sends carry its connection ID.
LEMMA AskIds ==
    /\ \A plain : OpenReq(conn_local, plain).conn = conn_local
    /\ \A k : Transaction(k, conn_local).conn = conn_local
    /\ \A n : RiAck(conn_local, n).conn = conn_local
BY DEF OpenReq, Transaction, RiAck

LEMMA RestartIds == ASSUME NoWrap, IdInv, ReceiverRestarts PROVE IdsLeft' /\ IdsUsed'
<1>1. /\ Spend("Restart") /\ close_receiver
      /\ UNCHANGED <<conn_remote, toSender, toReceiver>>
  BY DEF ReceiverRestarts, senderVars
<1>2. budget["Open"] \in Nat /\ budget["Restart"] \in Nat /\ budget["Restart"] > 0
  BY <1>1 DEF IdInv, IdsLeft, NoWrap, Spend
<1>3. Latest' = conn_local /\ conn_local \in Nat /\ Latest \in {conn_local, conn_local - 1}
  BY <1>1, <1>2, ClosingIds, IdTypes DEF IdInv, Latest
<1>4. ReceiverStep
  BY <1>1, <1>3 DEF ReceiverStep
<1>5. /\ DOMAIN budget' = DOMAIN Budget /\ budget' \in [DOMAIN Budget -> Nat]
      /\ budget'["Open"] = budget["Open"] /\ budget'["Restart"] = budget["Restart"] - 1
  BY <1>1, SpendIds DEF IdInv
<1>6. IdsLeft'
  BY <1>2, <1>3, <1>5, Bounds DEF IdInv, IdsLeft
<1>. QED BY <1>4, <1>6, ReceiverStepIds

\* The sequence check closes the receiver or leaves it open.
LEMMA CheckIds ==
    ASSUME NoWrap, IdInv, NEW m, NEW new, NEW state, state # "Unconnected",
           check_seq(m, new, state), receiver # "Unconnected",
           toReceiver # <<>>, toReceiver' = Tail(toReceiver),
           UNCHANGED <<conn_remote, budget>>
    PROVE  IdsLeft' /\ IdsUsed'
<1>1. CASE close_receiver /\ UNCHANGED toSender
  BY <1>1, CloseIds
<1>2. CASE /\ receiver' # "Unconnected" /\ UNCHANGED conn_local
           /\ toSender' = toSender \/ toSender' = Append(toSender, RiAck(conn_local, m.seq))
  BY <1>2, AskIds, StayIds
<1>. QED BY <1>1, <1>2 DEF check_seq, Ask, receiverVars

LEMMA ReceiverIds ==
    ASSUME NoWrap, IdInv,
           \/ OpenRspArrives \/ RiRspArrives \/ RiUpdArrives \/ RdArrives
           \/ TickleAckArrives \/ ReceiverDiscards
           \/ OpeningTimeout \/ GoneQuiet \/ TickleTimeout \/ ping
    PROVE  IdsLeft' /\ IdsUsed'
<1>1. CASE OpenRspArrives
  <2>1. /\ receiver # "Unconnected" /\ UNCHANGED <<conn_remote, budget>>
        /\ toReceiver # <<>> /\ toReceiver' = Tail(toReceiver)
    BY <1>1 DEF OpenRspArrives, Hears, Heard, senderVars
  <2>2. CASE close_receiver /\ UNCHANGED toSender
    BY <2>1, <2>2, CloseIds
  <2>3. CASE /\ receiver' = "WaitRiRsp" /\ UNCHANGED conn_local
             /\ Ask(Transaction("RiReq", conn_local))
    BY <2>1, <2>3, AskIds, StayIds DEF Ask
  <2>. QED BY <1>1, <2>2, <2>3 DEF OpenRspArrives
<1>2. CASE RiRspArrives
  <2>. DEFINE m == Head(toReceiver)
              new == [n \in Net |-> learned(routes[n], m.tuples[n])]
              state == IF m.last THEN "Connected" ELSE receiver
  <2>1. /\ receiver # "Unconnected" /\ UNCHANGED <<conn_remote, budget>>
        /\ toReceiver # <<>> /\ toReceiver' = Tail(toReceiver)
        /\ check_seq(m, new, state)
    BY <1>2 DEF RiRspArrives, Hears, Heard, senderVars, ReceiverOpen
  <2>2. state # "Unconnected"
    BY <2>1
  <2>. HIDE DEF m, new, state
  <2>. QED BY <2>1, <2>2, CheckIds
<1>3. CASE RiUpdArrives
  <2>. DEFINE m == Head(toReceiver)
              new == [n \in Net |-> apply(routes[n], m.events[n])]
  <2>1. /\ receiver # "Unconnected" /\ UNCHANGED <<conn_remote, budget>>
        /\ toReceiver # <<>> /\ toReceiver' = Tail(toReceiver)
        /\ check_seq(m, new, receiver)
    BY <1>3 DEF RiUpdArrives, Hears, Heard, senderVars, ReceiverOpen
  <2>. HIDE DEF m, new
  <2>. QED BY <2>1, CheckIds
<1>4. CASE RdArrives
  <2>1. /\ receiver # "Unconnected" /\ UNCHANGED <<conn_remote, budget>> /\ close_receiver
        /\ toReceiver # <<>> /\ toReceiver' = Tail(toReceiver)
        /\ toSender' = Append(toSender, RiAck(conn_local, Head(toReceiver).seq))
    BY <1>4 DEF RdArrives, Hears, Heard, senderVars, ReceiverOpen, Ask
  <2>. QED BY <2>1, AskIds, CloseIds
<1>5. CASE TickleAckArrives
  <2>1. /\ receiver # "Unconnected" /\ receiver' # "Unconnected"
        /\ UNCHANGED <<conn_local, conn_remote, toSender, budget>>
        /\ toReceiver # <<>> /\ toReceiver' = Tail(toReceiver)
    BY <1>5 DEF TickleAckArrives, Hears, Heard, senderVars
  <2>. QED BY <2>1, StayIds
<1>6. CASE ReceiverDiscards
  <2>1. /\ UNCHANGED <<receiver, conn_local, conn_remote, toSender, budget>>
        /\ toReceiver # <<>> /\ toReceiver' = Tail(toReceiver)
    BY <1>6 DEF ReceiverDiscards, Heard, senderVars, receiverVars
  <2>2. Latest' = Latest /\ Latest \in Int
    BY <2>1, IdTypes DEF Latest, IdInv
  <2>3. ReceiverStep
    BY <2>1, <2>2 DEF ReceiverStep
  <2>4. IdsLeft'
    BY <2>1, <2>2 DEF IdsLeft, IdInv
  <2>. QED BY <2>3, <2>4, ReceiverStepIds
<1>7. CASE OpeningTimeout
  <2>1. receiver # "Unconnected" /\ UNCHANGED <<conn_remote, budget, toReceiver>>
    BY <1>7 DEF OpeningTimeout, senderVars
  <2>2. CASE close_receiver /\ UNCHANGED toSender
    BY <2>1, <2>2, CloseIds
  <2>3. CASE /\ UNCHANGED <<receiver, conn_local>>
             /\ Ask(IF receiver = "WaitOpenRsp" THEN OpenReq(conn_local, TRUE)
                                                ELSE Transaction("RiReq", conn_local))
    BY <2>1, <2>3, AskIds, StayIds DEF Ask
  <2>. QED BY <1>7, <2>2, <2>3 DEF OpeningTimeout
<1>8. CASE GoneQuiet
  <2>1. /\ receiver # "Unconnected" /\ receiver' # "Unconnected"
        /\ UNCHANGED <<conn_local, conn_remote, toReceiver, budget>>
        /\ toSender' = Append(toSender, Transaction("Tickle", conn_local))
    BY <1>8 DEF GoneQuiet, Ask, senderVars
  <2>. QED BY <2>1, AskIds, StayIds
<1>9. CASE TickleTimeout
  <2>1. receiver # "Unconnected" /\ UNCHANGED <<conn_remote, budget, toReceiver>>
    BY <1>9 DEF TickleTimeout, senderVars
  <2>2. CASE close_receiver /\ UNCHANGED toSender
    BY <2>1, <2>2, CloseIds
  <2>3. CASE /\ UNCHANGED <<receiver, conn_local>>
             /\ Ask(Transaction("Tickle", conn_local))
    BY <2>1, <2>3, AskIds, StayIds DEF Ask
  <2>. QED BY <1>9, <2>2, <2>3 DEF TickleTimeout
<1>10. CASE ping
  <2>1. /\ receiver # "Unconnected" /\ receiver' # "Unconnected"
        /\ UNCHANGED <<conn_local, conn_remote, toReceiver>> /\ Spend("Ping")
        /\ toSender' = Append(toSender, Transaction("Tickle", conn_local))
    BY <1>10 DEF ping, Ask, senderVars
  <2>. QED BY <2>1, AskIds, StayIds
<1>. QED BY <1>1, <1>2, <1>3, <1>4, <1>5, <1>6, <1>7, <1>8, <1>9, <1>10

\* A step of the sender or of the network: one packet is taken, and whatever
\* is sent carries an ID the receiver has used.
SenderStep ==
    /\ UNCHANGED <<receiver, conn_local>>
    /\ conn_remote' <= Latest
    /\ budget' = budget \/ \E k : k # "Open" /\ Spend(k)
    /\ \/ UNCHANGED toSender
       \/ toSender # <<>> /\ toSender' = Tail(toSender)
    /\ \/ UNCHANGED toReceiver
       \/ \E m : toReceiver' = Append(toReceiver, m) /\ m.conn <= Latest
       \/ toReceiver # <<>> /\ toReceiver' = Tail(toReceiver)

LEMMA SenderStepIds == ASSUME NoWrap, IdInv, SenderStep PROVE IdsLeft' /\ IdsUsed'
<1>1. TypeOK /\ IdsUsed /\ IdsLeft
  BY DEF IdInv
<1>2. Latest' = Latest /\ Latest \in Int
  BY <1>1, IdTypes DEF SenderStep, Latest
<1>3. Upto(Latest, toSender')
  <2>1. toSender # <<>> => Upto(Latest, Tail(toSender))
    BY <1>1, <1>2, IdTypes, UptoQueues DEF IdsUsed
  <2>. QED BY <1>1, <2>1 DEF SenderStep, IdsUsed
<1>4. Upto(Latest, toReceiver')
  <2>1. /\ toReceiver # <<>> => Upto(Latest, Tail(toReceiver))
        /\ \A m : m.conn <= Latest => Upto(Latest, Append(toReceiver, m))
    BY <1>1, <1>2, IdTypes, UptoQueues DEF IdsUsed
  <2>. QED BY <1>1, <2>1 DEF SenderStep, IdsUsed
<1>5. IdsUsed'
  BY <1>2, <1>3, <1>4 DEF SenderStep, IdsUsed
<1>6. CASE budget' = budget
  BY <1>1, <1>2, <1>5, <1>6 DEF IdsLeft
<1>7. CASE \E k : k # "Open" /\ Spend(k)
  <2>1. PICK k : k # "Open" /\ Spend(k)
    BY <1>7
  <2>2. budget["Open"] \in Nat /\ budget["Restart"] \in Nat
    BY <1>1 DEF IdsLeft, NoWrap
  <2>3. /\ DOMAIN budget' = DOMAIN Budget /\ budget' \in [DOMAIN Budget -> Nat]
        /\ budget'["Open"] = budget["Open"]
        /\ budget'["Restart"] \in {budget["Restart"], budget["Restart"] - 1}
    BY <1>1, <2>1, <2>2, SpendIds
  <2>4. IdsLeft'
    BY <1>1, <1>2, <2>2, <2>3, Bounds DEF IdsLeft
  <2>. QED BY <1>5, <2>4
<1>. QED BY <1>6, <1>7 DEF SenderStep

\* What a sender sends carries the connection of the packet it answers or its
\* own, both of which the receiver has used.
LEMMA AnswerIds ==
    /\ \A c, ok : OpenRsp(c, ok).conn = c
    /\ \A k, c : Transaction(k, c).conn = c
    /\ \A c, s, last, t : RiRsp(c, s, last, t).conn = c
    /\ \A c, s, e : RiUpd(c, s, e).conn = c
    /\ \A c, s : Rd(c, s).conn = c
BY DEF OpenRsp, Transaction, RiRsp, RiUpd, Rd

LEMMA InUseIds ==
    ASSUME IdInv
    PROVE  /\ conn_remote <= Latest /\ 0 <= Latest /\ Latest \in Int
           /\ toSender # <<>> => Head(toSender).conn <= Latest
           /\ outstanding # None => outstanding.conn <= Latest
<1>1. TypeOK /\ IdsUsed /\ StopAndWait
  BY DEF IdInv
<1>2. conn_remote <= Latest /\ conn_remote \in Nat /\ Latest \in Int
  BY <1>1, IdTypes DEF IdsUsed
<1>3. toSender # <<>> => Head(toSender).conn <= Latest
  BY <1>1, <1>2, IdTypes, UptoQueues DEF IdsUsed
<1>4. outstanding # None => outstanding.conn <= Latest
  BY <1>1, <1>2 DEF StopAndWait
<1>. QED BY <1>2, <1>3, <1>4

LEMMA SenderIds ==
    ASSUME NoWrap, IdInv,
           \/ open_req \/ RiReqArrives \/ ri_ack \/ TickleArrives \/ SenderDiscards
           \/ SenderTimeout \/ SendUpdate \/ HomeChanges \/ ProbeThisWay \/ shutdown
           \/ SenderRestarts \/ LoseToSender \/ LoseToReceiver
    PROVE  IdsLeft' /\ IdsUsed'
<1>. SUFFICES SenderStep
  BY SenderStepIds
<1>. USE InUseIds, AnswerIds DEF receiverVars, senderVars, Taken, Answer
<1>1. CASE open_req
  <2>. DEFINE m == Head(toSender)
  <2>0. /\ toSender # <<>> /\ toSender' = Tail(toSender) /\ m.conn <= Latest
        /\ UNCHANGED <<receiver, conn_local, budget>>
    BY <1>1 DEF open_req, Asked
  <2>. HIDE DEF m
  <2>1. CASE UNCHANGED conn_remote /\ toReceiver' = Append(toReceiver, OpenRsp(m.conn, FALSE))
    BY <2>0, <2>1 DEF SenderStep
  <2>2. CASE /\ UNCHANGED conn_remote
             /\ send_sequenced(RiUpd(conn_remote, succ(seq_send), NoEvents))
    BY <2>0, <2>2 DEF SenderStep, send_sequenced
  <2>3. CASE UNCHANGED <<conn_remote, toReceiver>>
    BY <2>0, <2>3 DEF SenderStep
  <2>4. CASE conn_remote' = m.conn /\ toReceiver' = Append(toReceiver, OpenRsp(m.conn, TRUE))
    BY <2>0, <2>4 DEF SenderStep
  <2>. QED BY <1>1, <2>1, <2>2, <2>3, <2>4 DEF open_req, m
<1>2. CASE RiReqArrives
  <2>1. \A left, seq : send_page(left, seq) =>
            \E m : toReceiver' = Append(toReceiver, m) /\ m.conn <= Latest
    BY DEF send_page, send_sequenced
  <2>. QED BY <1>2, <2>1 DEF RiReqArrives, SenderStep, Asked
<1>3. CASE ri_ack
  <2>1. \A left, seq : send_page(left, seq) =>
            \E m : toReceiver' = Append(toReceiver, m) /\ m.conn <= Latest
    BY DEF send_page, send_sequenced
  <2>2. /\ toSender # <<>> /\ toSender' = Tail(toSender)
        /\ UNCHANGED <<receiver, conn_local, budget>>
    BY <1>3 DEF ri_ack, Acked, Asked
  <2>3. CASE send_page(pages, succ(seq_send)) /\ UNCHANGED conn_remote
    BY <2>1, <2>2, <2>3 DEF SenderStep
  <2>4. CASE UNCHANGED <<conn_remote, toReceiver>>
    BY <2>2, <2>4 DEF SenderStep
  <2>5. CASE close_sender /\ UNCHANGED toReceiver
    BY <2>2, <2>5 DEF SenderStep, close_sender
  <2>. QED BY <1>3, <2>3, <2>4, <2>5 DEF ri_ack
<1>4. CASE TickleArrives
  BY <1>4 DEF TickleArrives, SenderStep, Asked
<1>5. CASE SenderDiscards
  BY <1>5 DEF SenderDiscards, SenderStep
<1>6. CASE SenderTimeout
  BY <1>6 DEF SenderTimeout, SenderStep, close_sender
<1>7. CASE SendUpdate
  BY <1>7 DEF SendUpdate, SenderStep, send_sequenced
<1>8. CASE HomeChanges
  <2>1. /\ UNCHANGED <<receiver, conn_local, conn_remote, toSender, toReceiver>>
        /\ Spend("Change")
    BY <1>8 DEF HomeChanges
  <2>. QED BY <2>1 DEF SenderStep
<1>9. CASE ProbeThisWay
  BY <1>9 DEF ProbeThisWay, SenderStep, send_sequenced
<1>10. CASE shutdown
  BY <1>10 DEF shutdown, SenderStep, send_sequenced
<1>11. CASE SenderRestarts
  BY <1>11 DEF SenderRestarts, SenderStep, close_sender
<1>12. CASE LoseToSender
  BY <1>12 DEF LoseToSender, SenderStep
<1>13. CASE LoseToReceiver
  BY <1>13 DEF LoseToReceiver, SenderStep
<1>. QED BY <1>1, <1>2, <1>3, <1>4, <1>5, <1>6, <1>7, <1>8, <1>9, <1>10, <1>11, <1>12, <1>13

LEMMA InitIds == NoWrap /\ Init => IdInv
<1>. SUFFICES ASSUME NoWrap, Init PROVE IdInv
  OBVIOUS
<1>1. TypeOK /\ StopAndWait
  BY InitTypes DEF Init, StopAndWait
<1>2. Latest = 0
  BY DEF Init, Latest
<1>3. IdsLeft
  BY <1>2, Bounds, BudgetAssumption DEF Init, IdsLeft
<1>4. IdsUsed
  BY <1>2 DEF Init, IdsUsed, Upto
<1>. QED BY <1>1, <1>3, <1>4 DEF IdInv

LEMMA NextIds == NoWrap /\ IdInv /\ [Next]_vars => IdInv'
<1>. SUFFICES ASSUME NoWrap, IdInv, [Next]_vars PROVE IdInv'
  OBVIOUS
<1>1. TypeOK' /\ StopAndWait'
  BY NextTypes, NextWaits DEF IdInv
<1>2. CASE UNCHANGED vars
  BY <1>1, <1>2 DEF vars, receiverVars, senderVars, IdInv, IdsLeft, IdsUsed, Latest, Upto
<1>3. CASE Next
  BY <1>1, <1>3, OpenIds, ReceiverIds, RestartIds, SenderIds
     DEF Next, ReceiverTakes, SenderTakes, IdInv
<1>. QED BY <1>2, <1>3

\* A receiver opens under an ID that is in use nowhere: not at the sender, not
\* in any datagram on its way (Peer.open, close_receiver, succ).
THEOREM FreshConnections == ASSUME NoWrap PROVE Spec => OpensAfresh
<1>1. ASSUME Next, receiver = "Unconnected", receiver' = "WaitOpenRsp"
      PROVE  UNCHANGED conn_local
  <2>1. ~SenderTakes /\ ~SenderTimeout /\ ~SendUpdate /\ ~HomeChanges /\ ~ProbeThisWay
        /\ ~shutdown /\ ~SenderRestarts /\ ~LoseToSender /\ ~LoseToReceiver
    BY <1>1 DEF SenderTakes, open_req, RiReqArrives, ri_ack, TickleArrives, SenderDiscards,
                SenderTimeout, SendUpdate, HomeChanges, ProbeThisWay, shutdown,
                SenderRestarts, LoseToSender, LoseToReceiver, receiverVars
  <2>2. ~ReceiverTakes
    BY <1>1 DEF ReceiverTakes, OpenRspArrives, RiRspArrives, RiUpdArrives, RdArrives,
                TickleAckArrives, ReceiverDiscards, ReceiverOpen, receiverVars
  <2>3. ~OpeningTimeout /\ ~GoneQuiet /\ ~TickleTimeout /\ ~ping /\ ~ReceiverRestarts
    BY <1>1 DEF OpeningTimeout, GoneQuiet, TickleTimeout, ping, ReceiverRestarts, close_receiver
  <2>4. Open
    BY <1>1, <2>1, <2>2, <2>3 DEF Next
  <2>. QED BY <2>4 DEF Open
<1>2. IdInv /\ receiver = "Unconnected" => Fresh(conn_local)
  BY IdTypes DEF IdInv, IdsUsed, Upto, Latest, Fresh
<1>3. IdInv /\ [Next]_vars => [receiver = "Unconnected" /\ receiver' = "WaitOpenRsp"
                               => Fresh(conn_local')]_vars
  BY <1>1, <1>2 DEF vars
<1>. QED BY <1>3, InitIds, NextIds, PTL DEF Spec, OpensAfresh
-----------------------------------------------------------------------------
(* The transfer.                                                            *)

\* The packets of a queue, and which of two is not behind the other.
In(q) == {q[i] : i \in DOMAIN q}
Before(a, b, q) == \E i, j \in DOMAIN q : i <= j /\ a = q[i] /\ b = q[j]
\* r is q with nothing but the packets of sent behind it.
Goes(r, q, sent) ==
    /\ In(r) \subseteq In(q) \cup sent
    /\ \A a, b : Before(a, b, r) =>
          Before(a, b, q) \/ (b \in sent /\ a \in In(q) \cup sent)

Data(m) == m.kind \in {"RiRsp", "RiUpd"}
\* The receiver has not had its export.
Waiting == receiver \in {"WaitOpenRsp", "WaitRiRsp"}
\* Both ends are on one connection; nothing overtook its export; and the
\* sender is past the RI-Req on it.
Met == receiver # "Unconnected" /\ conn_remote = conn_local
Clean == conn_local \notin spoilt
Talking == /\ Met /\ Clean
           /\ sender \in {"Connected", "WaitRiRspAck", "WaitRiUpdAck"} /\ seq_send # 0
NoData == \A m \in In(toReceiver) : m.conn = conn_local => ~Data(m)

\* The RI-Req may still be ahead: an Open-Req or its answer is awaited, or the
\* sender has answered and waits.
Early ==
    \/ receiver = "WaitOpenRsp"
    \/ Met /\ sender = "Connected" /\ seq_send = 0
    \/ \E m \in In(toSender) : m.conn = conn_local /\ m.kind = "OpenReq"
Untouched ==
    /\ NoData /\ seq_recv = 1 /\ Waiting
    /\ \A m \in In(toSender) : m.conn = conn_local => m.kind # "RiAck"

\* The sender's connections and the packets on their way to it come in order.
Sorted ==
    /\ \A m \in In(toSender) : m.conn # 0 /\ conn_remote <= m.conn
    /\ \A a, b \in In(toSender) : Before(a, b, toSender) => a.conn <= b.conn
    /\ sender # "Unconnected" => conn_remote # 0

\* An Open-Req that is still on its way is ahead of everything else.
AsksOK ==
    /\ receiver = "WaitOpenRsp" =>
          /\ seq_recv = 1
          /\ \A m \in In(toSender) : m.conn = conn_local => m.kind = "OpenReq"
    /\ receiver # "Unconnected" =>
          \A a, m \in In(toSender) :
              /\ Before(a, m, toSender) /\ a.conn = conn_local
              /\ m.conn = conn_local /\ m.kind = "OpenReq"
              => a.kind = "OpenReq"

EarlyOK == receiver # "Unconnected" /\ Clean /\ Early => Untouched /\ ~Talking

\* A page or update on its way to a receiver is the one it waits for, or the
\* one before; the one it waits for is the one the sender keeps.
DataOK ==
    receiver # "Unconnected" /\ Clean =>
        /\ \A m \in In(toReceiver) : m.conn = conn_local /\ Data(m) =>
              /\ m.seq \in {seq_recv, pred(seq_recv)}
              /\ Talking /\ m.seq = seq_recv => m = outstanding
        /\ \A a, b \in In(toReceiver) :
              /\ Before(a, b, toReceiver) /\ a.conn = conn_local /\ b.conn = conn_local
              /\ Data(a) /\ Data(b) /\ a.seq = seq_recv
              => b.seq = seq_recv

AppliedOK ==
    /\ applied \in Sequenced \cup {None} /\ applied.conn <= Latest
    /\ receiver # "Unconnected" /\ applied.conn = conn_local =>
          receiver # "WaitOpenRsp" /\ applied.seq = pred(seq_recv)

\* An ack on its way is of the packet outstanding, which then is applied, or of
\* the one before.
AcksOK ==
    Talking =>
        /\ \A m \in In(toSender) : m.kind = "RiAck" =>
              /\ \/ m.seq = pred(seq_send)
                 \/ m.seq = seq_send /\ seq_recv = succ(seq_send)
              /\ outstanding = None => m.seq = seq_send
        /\ \A a, b \in In(toSender) :
              Before(a, b, toSender) /\ a.kind = "RiAck" /\ b.kind = "RiAck" /\ a.seq = seq_send
              => b.seq = seq_send

\* The receiver waits for what is outstanding, or has had it; and it is through
\* with the export when the sender has no page left.
StepOK ==
    Talking =>
        /\ seq_recv \in {seq_send, succ(seq_send)}
        /\ outstanding = None => seq_recv = succ(seq_send)
        /\ seq_recv = succ(seq_send) /\ outstanding # None => applied = outstanding
        /\ Waiting <=> sender = "WaitRiRspAck" /\ (pages # <<>> \/ seq_recv = seq_send)
        /\ sender = "WaitRiRspAck" => outstanding.last = (pages = <<>>)

TransferInv ==
    /\ IdInv /\ Sorted /\ AsksOK /\ EarlyOK /\ DataOK /\ AppliedOK /\ AcksOK /\ StepOK
-----------------------------------------------------------------------------
(* Queues and numbers.                                                      *)

LEMMA QueueGoes ==
    ASSUME NEW P, NEW q \in Seq(P)
    PROVE  /\ Goes(q, q, {})
           /\ \A m : Goes(Append(q, m), q, {m})
           /\ q # <<>> => Goes(Tail(q), q, {})
<1>1. Goes(q, q, {})
  BY DEF Goes
<1>2. ASSUME NEW m PROVE Goes(Append(q, m), q, {m})
  <2>. DEFINE r == Append(q, m)
  <2>1. /\ Len(q) \in Nat /\ DOMAIN q = 1..Len(q) /\ DOMAIN r = 1..(Len(q) + 1)
        /\ r[Len(q) + 1] = m /\ \A i \in 1..Len(q) : r[i] = q[i]
    OBVIOUS
  <2>. HIDE DEF r
  <2>2. \A i \in DOMAIN r : (i = Len(q) + 1 /\ r[i] = m) \/ (i \in DOMAIN q /\ r[i] = q[i])
    BY <2>1
  <2>3. In(r) \subseteq In(q) \cup {m}
    BY <2>2 DEF In
  <2>4. ASSUME NEW a, NEW b, Before(a, b, r)
        PROVE  Before(a, b, q) \/ (b \in {m} /\ a \in In(q) \cup {m})
    <3>1. PICK i \in DOMAIN r, j \in DOMAIN r : i <= j /\ a = r[i] /\ b = r[j]
      BY <2>4 DEF Before
    <3>2. CASE j = Len(q) + 1
      BY <3>1, <3>2, <2>1, <2>2 DEF In
    <3>3. CASE j # Len(q) + 1
      <4>1. i \in DOMAIN q /\ j \in DOMAIN q /\ r[i] = q[i] /\ r[j] = q[j]
        BY <3>1, <3>3, <2>1
      <4>. QED  BY <3>1, <4>1 DEF Before
    <3>. QED  BY <3>2, <3>3
  <2>. QED  BY <2>3, <2>4 DEF Goes, r
<1>3. ASSUME q # <<>> PROVE Goes(Tail(q), q, {})
  <2>. DEFINE r == Tail(q)
  <2>1. /\ Len(q) \in Nat \ {0} /\ DOMAIN q = 1..Len(q) /\ DOMAIN r = 1..(Len(q) - 1)
        /\ \A i \in 1..(Len(q) - 1) : r[i] = q[i + 1]
    BY <1>3
  <2>. HIDE DEF r
  <2>2. \A i \in DOMAIN r : i + 1 \in DOMAIN q /\ r[i] = q[i + 1]
    BY <2>1
  <2>3. In(r) \subseteq In(q)
    BY <2>2 DEF In
  <2>4. ASSUME NEW a, NEW b, Before(a, b, r) PROVE Before(a, b, q)
    <3>1. PICK i \in DOMAIN r, j \in DOMAIN r : i <= j /\ a = r[i] /\ b = r[j]
      BY <2>4 DEF Before
    <3>2. i + 1 <= j + 1
      BY <3>1, <2>1
    <3>. QED  BY <3>1, <3>2, <2>2 DEF Before
  <2>. QED  BY <2>3, <2>4 DEF Goes, r
<1>. QED  BY <1>1, <1>2, <1>3

\* The first is before all.
LEMMA HeadFirst ==
    ASSUME NEW P, NEW q \in Seq(P), q # <<>>
    PROVE  Head(q) \in In(q) /\ \A m \in In(q) : Before(Head(q), m, q)
<1>1. Len(q) \in Nat \ {0} /\ DOMAIN q = 1..Len(q) /\ Head(q) = q[1]
  OBVIOUS
<1>. QED  BY <1>1 DEF In, Before

LEMMA Numbering ==
    /\ \A n \in Numbers : /\ succ(n) \in Numbers /\ pred(n) \in Numbers
                          /\ succ(n) # n /\ pred(n) # n /\ pred(succ(n)) = n /\ succ(pred(n)) = n
                          /\ succ(n) # pred(n)
    /\ succ(0) = 1 /\ 1 \in Numbers /\ 0 \notin Numbers
<1>1. MaxNumber \in Nat /\ MaxNumber > 3
  BY NumbersAssumption
<1>2. ASSUME NEW n \in Numbers
      PROVE succ(n) = IF n = MaxNumber THEN 1 ELSE n + 1
  BY <1>1 DEF Numbers, succ
<1>3. succ(0) = 1
  BY <1>1 DEF succ
<1>. QED  BY <1>1, <1>2, <1>3 DEF Numbers, pred

-----------------------------------------------------------------------------
(* Steps of the receiver.                                                   *)

\* What the invariant and the types give of packets and numbers.
LEMMA Facts ==
    ASSUME TransferInv
    PROVE  /\ TypeOK /\ StopAndWait /\ conn_local \in Numbers /\ seq_recv \in Numbers
           /\ conn_remote \in Conns /\ seq_send \in Conns /\ Latest \in Int
           /\ Met => /\ Latest = conn_local /\ sender # "Unconnected" /\ conn_remote # 0
                     /\ \A m \in In(toSender) : m.conn = conn_local
           /\ \A m \in In(toSender) : m \in SenderPackets /\ m.conn \in Nat /\ m.conn <= Latest
           /\ \A m \in In(toReceiver) : m \in ReceiverPackets /\ m.conn \in Nat /\ m.conn <= Latest
           /\ conn_remote <= Latest
<1>1. TypeOK /\ StopAndWait /\ IdsUsed /\ Sorted
  BY DEF TransferInv, IdInv
<1>2. /\ conn_local \in Nat /\ conn_remote \in Nat /\ Latest \in Int
      /\ conn_local \in Numbers /\ 0 \notin Numbers /\ conn_local # 0
  BY <1>1, IdTypes, Numbering DEF TypeOK
<1>3. \A m \in In(toSender) : m \in SenderPackets /\ m.conn \in Nat /\ m.conn <= Latest
  <2>1. \A m \in In(toSender) : m \in SenderPackets /\ m.conn <= Latest
    BY <1>1 DEF In, TypeOK, IdsUsed, Upto
  <2>. QED  BY <2>1, AskFields, NumbersAssumption DEF Conns
<1>4. \A m \in In(toReceiver) : m \in ReceiverPackets /\ m.conn \in Nat /\ m.conn <= Latest
  <2>1. \A m \in In(toReceiver) : m \in ReceiverPackets /\ m.conn <= Latest
    BY <1>1 DEF In, TypeOK, IdsUsed, Upto
  <2>. QED  BY <2>1, SequencedFields, NumbersAssumption DEF Conns
<1>5. Met => /\ Latest = conn_local /\ sender # "Unconnected" /\ conn_remote # 0
  BY <1>1, <1>2 DEF Met, Latest, StopAndWait
<1>6. Met => \A m \in In(toSender) : m.conn = conn_local
  BY <1>1, <1>2, <1>3, <1>5 DEF Met, Sorted
<1>. QED  BY <1>1, <1>2, <1>3, <1>4, <1>5, <1>6 DEF TypeOK, IdsUsed

\* A receiver's step asks under the ID it has.
LEMMA SortedAsk ==
    ASSUME TransferInv, UNCHANGED <<conn_remote, sender>>,
           NEW sent, Goes(toSender', toSender, sent), \A m \in sent : m.conn = conn_local,
           Latest <= conn_local \/ sent = {}
    PROVE  Sorted'
<1>1. conn_local \in Nat /\ conn_local # 0 /\ conn_remote \in Nat /\ Latest \in Int
  BY Facts, Numbering, NumbersAssumption DEF Numbers, Conns
<1>2. Sorted /\ \A m \in In(toSender) : m.conn \in Nat /\ m.conn <= Latest
  BY Facts DEF TransferInv
<1>3. conn_remote <= Latest
  BY Facts
<1>4. \A m \in In(toSender') : m \in In(toSender) \/ (m \in sent /\ m.conn = conn_local /\ Latest <= conn_local)
  BY DEF Goes
<1>5. \A m \in In(toSender') : m.conn # 0 /\ conn_remote <= m.conn
  BY <1>1, <1>2, <1>3, <1>4 DEF Sorted
<1>6. ASSUME NEW a \in In(toSender'), NEW b \in In(toSender'), Before(a, b, toSender')
      PROVE  a.conn <= b.conn
  <2>1. CASE Before(a, b, toSender)
    <3>1. a \in In(toSender) /\ b \in In(toSender)
      BY <2>1 DEF Before, In
    <3>. QED  BY <2>1, <3>1, <1>2 DEF Sorted
  <2>2. CASE b \in sent /\ a \in In(toSender) \cup sent
    BY <2>2, <1>1, <1>2
  <2>. QED  BY <1>6, <2>1, <2>2 DEF Goes
<1>. QED  BY <1>2, <1>5, <1>6 DEF Sorted


\* The receiver leaves its connection.
LEMMA CloseTransfer ==
    ASSUME TransferInv, IdInv', UNCHANGED <<senderVars, applied>>, receiver' = "Unconnected",
           Latest <= Latest',
           NEW sent, Goes(toSender', toSender, sent), \A m \in sent : m.conn = conn_local,
           Latest = conn_local \/ sent = {}
    PROVE  TransferInv'
<1>1. Sorted'
  BY Facts, SortedAsk DEF senderVars
<1>2. ~Met' /\ ~Talking' /\ receiver' # "WaitOpenRsp"
  BY DEF Met, Talking
<1>3. AppliedOK'
  <2>1. Latest \in Int
    BY Facts
  <2>2. Latest' \in Int
    BY NumbersAssumption DEF IdInv, TypeOK, Latest, Numbers
  <2>3. applied.conn \in Int
    BY NoneIsNoPacket, NumbersAssumption DEF TransferInv, AppliedOK, None, Conns
  <2>. QED  BY <2>1, <2>2, <2>3 DEF TransferInv, AppliedOK
<1>4. AsksOK' /\ EarlyOK' /\ DataOK' /\ AcksOK' /\ StepOK'
  BY <1>2 DEF AsksOK, EarlyOK, DataOK, AcksOK, StepOK
<1>. QED  BY <1>1, <1>3, <1>4 DEF TransferInv

\* The receiver opens a connection.
LEMMA OpenTransfer ==
    ASSUME TransferInv, IdInv', UNCHANGED <<senderVars, applied, conn_local>>,
           UNCHANGED toReceiver,
           receiver = "Unconnected", receiver' = "WaitOpenRsp", seq_recv' = 1,
           NEW m, m.kind = "OpenReq", m.conn = conn_local, Goes(toSender', toSender, {m})
    PROVE  TransferInv'
<1>1. Latest = conn_local - 1 /\ Latest' = conn_local /\ conn_local \in Nat /\ Latest \in Int
  BY Facts, NumbersAssumption DEF Latest, Numbers
<1>2. Sorted'
  <2>1. Latest <= conn_local /\ \A x \in {m} : x.conn = conn_local
    BY <1>1
  <2>. QED  BY <2>1, SortedAsk DEF senderVars
<1>3. /\ conn_remote < conn_local /\ conn_remote \in Nat
      /\ \A x \in In(toSender) : x.conn # conn_local
      /\ \A x \in In(toReceiver) : x.conn # conn_local
  BY <1>1, Facts, NumbersAssumption DEF Conns
<1>4. ~Met' /\ ~Talking' /\ Waiting' /\ NoData'
  BY <1>1, <1>3 DEF Met, Talking, Waiting, NoData, senderVars
<1>5. AppliedOK'
  <2>1. applied.conn \in Int /\ applied.conn <= Latest
    BY NoneIsNoPacket, NumbersAssumption DEF TransferInv, AppliedOK, None, Conns
  <2>. QED  BY <2>1, <1>1 DEF TransferInv, AppliedOK
<1>6. \A x \in In(toSender') : x.conn = conn_local => x = m
  BY <1>3 DEF Goes
<1>7. AsksOK' /\ EarlyOK'
  BY <1>4, <1>6 DEF AsksOK, EarlyOK, Untouched
<1>8. DataOK' /\ AcksOK' /\ StepOK'
  BY <1>3, <1>4 DEF DataOK, AcksOK, StepOK
<1>. QED  BY <1>2, <1>5, <1>7, <1>8 DEF TransferInv

\* The receiver goes on with its connection and asks again, at most.
LEMMA StayTransfer ==
    ASSUME TransferInv, IdInv', UNCHANGED <<senderVars, applied, conn_local, seq_recv, spoilt>>,
           Goes(toReceiver', toReceiver, {}),
           receiver # "Unconnected", receiver' # "Unconnected",
           \/ receiver' = receiver
           \/ receiver = "WaitOpenRsp" /\ receiver' = "WaitRiRsp"
           \/ ~Waiting /\ ~Waiting',
           NEW sent, Goes(toSender', toSender, sent),
           \A m \in sent : /\ m.conn = conn_local
                           /\ \/ m.kind = "OpenReq" /\ receiver' = "WaitOpenRsp"
                              \/ m.kind = "RiReq" /\ receiver' = "WaitRiRsp"
                              \/ m.kind = "Tickle" /\ ~Waiting'
    PROVE  TransferInv'
<1>1. Latest = conn_local /\ Latest' = Latest /\ conn_local \in Nat
  BY Facts, NumbersAssumption DEF Latest, Numbers
<1>2. Sorted'
  BY <1>1, SortedAsk DEF senderVars
<1>3. /\ (Met' <=> Met) /\ (Talking' <=> Talking) /\ (Waiting' <=> Waiting)
      /\ (NoData => NoData') /\ (Clean' <=> Clean)
  BY DEF Met, Talking, Waiting, NoData, Clean, Goes, senderVars
<1>4. /\ receiver' = "WaitOpenRsp" => receiver = "WaitOpenRsp"
      /\ In(toReceiver') \subseteq In(toReceiver)
      /\ \A m \in In(toSender') : m \in In(toSender) \/ m \in sent
      /\ \A m \in sent : m.kind # "RiAck" /\ (m.kind = "OpenReq" => receiver' = "WaitOpenRsp")
      /\ receiver' = "WaitOpenRsp" => \A m \in sent : m.kind = "OpenReq"
  BY DEF Goes, Waiting
<1>5. AsksOK'
  <2>1. receiver' = "WaitOpenRsp" =>
           seq_recv' = 1 /\ \A m \in In(toSender') : m.conn = conn_local' => m.kind = "OpenReq"
    BY <1>4 DEF TransferInv, AsksOK
  <2>2. ASSUME NEW a \in In(toSender'), NEW m \in In(toSender'), Before(a, m, toSender'),
               a.conn = conn_local, m.conn = conn_local, m.kind = "OpenReq"
        PROVE  a.kind = "OpenReq"
    <3>1. CASE m \in sent
      BY <2>1, <2>2, <3>1, <1>4
    <3>2. CASE m \notin sent
      <4>1. Before(a, m, toSender)
        BY <2>2, <3>2 DEF Goes
      <4>2. a \in In(toSender) /\ m \in In(toSender)
        BY <4>1 DEF Before, In
      <4>. QED  BY <2>2, <4>1, <4>2 DEF TransferInv, AsksOK
    <3>. QED  BY <3>1, <3>2
  <2>. QED  BY <2>1, <2>2 DEF AsksOK
<1>6. EarlyOK'
  <2>1. Early' => Early
    BY <1>3, <1>4 DEF Early, senderVars
  <2>2. Untouched => Untouched'
    BY <1>3, <1>4 DEF Untouched
  <2>. QED  BY <1>3, <2>1, <2>2 DEF TransferInv, EarlyOK
<1>7. DataOK'
  <2>1. \A a, b : Before(a, b, toReceiver') => Before(a, b, toReceiver)
    BY DEF Goes
  <2>. QED  BY <1>3, <1>4, <2>1 DEF TransferInv, DataOK, senderVars
<1>8. AcksOK'
  <2>1. \A m \in In(toSender') : m.kind = "RiAck" => m \in In(toSender)
    BY <1>4
  <2>2. ASSUME NEW a, NEW b, b.kind = "RiAck", Before(a, b, toSender')
        PROVE  Before(a, b, toSender) /\ a \in In(toSender)
    BY <2>2, <1>4 DEF Goes, Before, In
  <2>. QED  BY <1>3, <2>1, <2>2 DEF TransferInv, AcksOK, senderVars
<1>9. StepOK'
  BY <1>3 DEF TransferInv, StepOK, senderVars
<1>10. AppliedOK'
  BY <1>1, <1>4 DEF TransferInv, AppliedOK
<1>. QED  BY <1>2, <1>5, <1>6, <1>7, <1>8, <1>9, <1>10 DEF TransferInv

\* Acknowledging leaves the order of what is asked.
LEMMA AcksOrder ==
    ASSUME TransferInv, UNCHANGED conn_local,
           receiver # "Unconnected", receiver' # "WaitOpenRsp",
           NEW k, k.kind = "RiAck", Goes(toSender', toSender, {k})
    PROVE  AsksOK' /\ \A x \in In(toSender') : x.kind = "OpenReq" => x \in In(toSender)
<1>1. ASSUME NEW a, NEW m, Before(a, m, toSender'), m.kind = "OpenReq"
      PROVE  Before(a, m, toSender) /\ a \in In(toSender) /\ m \in In(toSender)
  BY <1>1 DEF Goes, Before, In
<1>2. \A x \in In(toSender') : x.kind = "OpenReq" => x \in In(toSender)
  BY DEF Goes
<1>. QED  BY <1>1, <1>2 DEF TransferInv, AsksOK

\* The receiver processes the packet it waits for.
LEMMA TakeTransfer ==
    ASSUME TransferInv, IdInv', UNCHANGED <<senderVars, conn_local, spoilt>>,
           receiver \notin {"Unconnected", "WaitOpenRsp"},
           NEW m \in In(toReceiver), m \in Sequenced, Data(m), m.conn = conn_local,
           m.kind = "RiRsp" => receiver' = IF m.last THEN "Connected" ELSE receiver,
           m.kind = "RiUpd" => receiver' = receiver,
           \A x \in In(toReceiver) : Before(m, x, toReceiver),
           m.seq = seq_recv, seq_recv' = succ(seq_recv), applied' = m,
           Goes(toReceiver', toReceiver, {}),
           NEW k, k.kind = "RiAck", k.conn = conn_local, k.seq = m.seq,
           Goes(toSender', toSender, {k})
    PROVE  TransferInv' /\ (Talking => m = outstanding /\ seq_send = seq_recv)
<1>0. receiver' # "Unconnected" /\ receiver' # "WaitOpenRsp" /\ m.kind \in {"RiRsp", "RiUpd"}
  BY DEF Data
<1>1. Latest = conn_local /\ Latest' = conn_local /\ conn_local \in Nat
  BY <1>0, Facts, NumbersAssumption DEF Latest, Numbers
<1>2. Sorted'
  <2>1. \A x \in {k} : x.conn = conn_local
    OBVIOUS
  <2>. QED  BY <1>1, <2>1, SortedAsk DEF senderVars
<1>3. /\ (Met' <=> Met) /\ (Talking' <=> Talking) /\ (Clean' <=> Clean)
      /\ \A x \in In(toReceiver') : x \in In(toReceiver)
      /\ \A x \in In(toSender') : x \in In(toSender) \/ x = k
      /\ seq_recv \in Numbers /\ seq_recv # succ(seq_recv) /\ pred(succ(seq_recv)) = seq_recv
  <2>1. (Met' <=> Met) /\ (Talking' <=> Talking) /\ (Clean' <=> Clean)
    BY <1>0 DEF Talking, Met, Clean, senderVars
  <2>2. seq_recv \in Numbers /\ seq_recv # succ(seq_recv) /\ pred(succ(seq_recv)) = seq_recv
    BY Facts, Numbering
  <2>. QED  BY <2>1, <2>2 DEF Goes
<1>4. AsksOK' /\ \A x \in In(toSender') : x.kind = "OpenReq" => x \in In(toSender)
  BY <1>0, AcksOrder
<1>5. EarlyOK'
  <2>1. ~Untouched
    BY DEF Untouched, NoData
  <2>2. Early' => Early
    BY <1>0, <1>3, <1>4 DEF Early, senderVars
  <2>. QED  BY <1>3, <2>1, <2>2 DEF TransferInv, EarlyOK
<1>6. Clean => \A x \in In(toReceiver) : x.conn = conn_local /\ Data(x) => x.seq = seq_recv
  BY DEF TransferInv, DataOK
<1>7. DataOK'
  <2>1. ASSUME Clean, NEW x \in In(toReceiver'), x.conn = conn_local, Data(x)
        PROVE  x.seq = pred(seq_recv') /\ x.seq # seq_recv'
    BY <1>3, <1>6, <2>1
  <2>. QED  BY <1>3, <2>1 DEF DataOK
<1>8. AppliedOK'
  BY <1>0, <1>1, <1>3 DEF AppliedOK
<1>9. Talking => /\ m = outstanding /\ seq_send = seq_recv /\ outstanding # None /\ Clean
  BY DEF Talking, TransferInv, DataOK, IdInv, StopAndWait, Data, None
<1>10. AcksOK'
  <2>1. ASSUME Talking, NEW x \in In(toSender), x.kind = "RiAck"
        PROVE  x.seq = pred(seq_send) /\ x.seq # seq_send
    <3>1. x.seq = pred(seq_send)
      BY <1>3, <1>9, <2>1 DEF TransferInv, AcksOK
    <3>. QED  BY <1>3, <1>9, <2>1, <3>1, Numbering
  <2>2. ASSUME Talking, NEW a, NEW b, Before(a, b, toSender'), a.kind = "RiAck", a.seq = seq_send
        PROVE  b = k
    <3>1. Before(a, b, toSender) => a \in In(toSender)
      BY DEF Before, In
    <3>. QED  BY <3>1, <2>1, <2>2 DEF Goes
  <2>. QED  BY <1>3, <1>9, <2>1, <2>2 DEF AcksOK, senderVars
<1>11. StepOK'
  <2>. SUFFICES ASSUME Talking PROVE StepOK'
    BY <1>3 DEF StepOK
  <2>1. /\ outstanding = m /\ seq_send = seq_recv /\ outstanding # None
        /\ Waiting <=> sender = "WaitRiRspAck"
        /\ sender = "WaitRiRspAck" => outstanding.last = (pages = <<>>)
    BY <1>9 DEF TransferInv, StepOK
  <2>2. /\ outstanding.kind = "RiRsp" <=> sender = "WaitRiRspAck"
        /\ sender # "WaitRiRspAck" => pages = <<>>
    BY <2>1, <1>0 DEF TransferInv, IdInv, StopAndWait
  <2>3. Waiting' <=> sender = "WaitRiRspAck" /\ pages # <<>>
    <3>1. CASE sender = "WaitRiRspAck"
      BY <2>1, <2>2, <3>1 DEF Waiting
    <3>2. CASE sender # "WaitRiRspAck"
      BY <1>0, <2>1, <2>2, <3>2 DEF Waiting
    <3>. QED  BY <3>1, <3>2
  <2>. QED  BY <1>3, <2>1, <2>3 DEF StepOK, senderVars
<1>. QED  BY <1>2, <1>4, <1>5, <1>7, <1>8, <1>9, <1>10, <1>11 DEF TransferInv

\* It acknowledges again the packet before.
LEMMA RepeatTransfer ==
    ASSUME TransferInv, IdInv', UNCHANGED <<receiverVars, senderVars, spoilt>>,
           receiver # "Unconnected", receiver # "WaitOpenRsp",
           NEW m \in In(toReceiver), Data(m), m.conn = conn_local,
           m.seq = pred(seq_recv),
           Goes(toReceiver', toReceiver, {}),
           NEW k, k.kind = "RiAck", k.conn = conn_local, k.seq = m.seq,
           Goes(toSender', toSender, {k})
    PROVE  TransferInv'
<1>1. Latest = conn_local /\ conn_local \in Nat
  BY Facts, NumbersAssumption DEF Latest, Numbers
<1>2. Sorted'
  <2>1. \A x \in {k} : x.conn = conn_local
    OBVIOUS
  <2>. QED  BY <1>1, <2>1, SortedAsk DEF senderVars, receiverVars
<1>3. /\ (Met' <=> Met) /\ (Talking' <=> Talking) /\ (Waiting' <=> Waiting) /\ (Clean' <=> Clean)
      /\ \A x \in In(toReceiver') : x \in In(toReceiver)
      /\ \A a, b : Before(a, b, toReceiver') => Before(a, b, toReceiver)
      /\ \A x \in In(toSender') : x \in In(toSender) \/ x = k
  BY DEF Goes, Talking, Met, Waiting, Clean, receiverVars, senderVars
<1>4. AsksOK' /\ \A x \in In(toSender') : x.kind = "OpenReq" => x \in In(toSender)
  <2>1. receiver' # "WaitOpenRsp" /\ UNCHANGED conn_local
    BY DEF receiverVars
  <2>. QED  BY <2>1, AcksOrder
<1>5. EarlyOK'
  <2>1. ~Untouched
    BY DEF Untouched, NoData
  <2>2. Early' => Early
    BY <1>3, <1>4 DEF Early, senderVars, receiverVars
  <2>. QED  BY <1>3, <2>1, <2>2 DEF TransferInv, EarlyOK, receiverVars
<1>6. DataOK'
  BY <1>3 DEF TransferInv, DataOK, receiverVars, senderVars
<1>7. AppliedOK'
  BY <1>1, <1>3 DEF TransferInv, AppliedOK, Latest, receiverVars
<1>8. AcksOK'
  <2>1. ASSUME Talking
        PROVE  /\ \/ seq_recv = seq_send /\ k.seq = pred(seq_send) /\ outstanding # None
                  \/ seq_recv = succ(seq_send) /\ k.seq = seq_send
               /\ seq_send \in Numbers /\ pred(seq_send) # seq_send /\ succ(seq_send) # seq_send
    <3>1. seq_send \in Numbers
      BY <2>1, Facts DEF Talking, Conns, Numbers
    <3>. QED  BY <2>1, <3>1, Numbering DEF TransferInv, StepOK
  <2>2. ASSUME NEW a, NEW b, Before(a, b, toSender')
        PROVE  /\ a \in In(toSender) \/ a = k
               /\ Before(a, b, toSender) \/ b = k
    BY <2>2 DEF Goes, Before, In
  <2>3. ASSUME Talking, NEW x \in In(toSender'), x.kind = "RiAck"
        PROVE  /\ \/ x.seq = pred(seq_send)
                  \/ x.seq = seq_send /\ seq_recv = succ(seq_send)
               /\ outstanding = None => x.seq = seq_send
    BY <1>3, <2>1, <2>3 DEF TransferInv, AcksOK
  <2>4. ASSUME Talking, NEW a \in In(toSender'), NEW b \in In(toSender'), Before(a, b, toSender'),
               a.kind = "RiAck", b.kind = "RiAck", a.seq = seq_send
        PROVE  b.seq = seq_send
    <3>1. seq_recv = succ(seq_send) /\ k.seq = seq_send
      BY <2>1, <2>3, <2>4
    <3>2. Before(a, b, toSender) => a \in In(toSender) /\ b \in In(toSender)
      BY DEF Before, In
    <3>. QED  BY <2>2, <2>4, <3>1, <3>2 DEF TransferInv, AcksOK
  <2>. QED  BY <1>3, <2>3, <2>4 DEF AcksOK, receiverVars, senderVars
<1>9. StepOK'
  BY <1>3 DEF TransferInv, StepOK, receiverVars, senderVars
<1>. QED  BY <1>2, <1>4, <1>5, <1>6, <1>7, <1>8, <1>9 DEF TransferInv

-----------------------------------------------------------------------------
(* Steps of the sender and of the network.                                  *)

\* A state where the sender is talking: what is outstanding is numbered, and
\* no Open-Req of this connection is on its way any more.
LEMMA TalkingFacts ==
    ASSUME TransferInv
    PROVE  /\ Talking => /\ seq_send \in Numbers /\ Met /\ Clean /\ ~Early
                         /\ \A m \in In(toSender) : m.conn = conn_local /\ m.kind # "OpenReq"
           /\ Met /\ Clean /\ outstanding # None /\ Data(outstanding) => Talking
           /\ Met /\ Clean /\ sender \in {"Connected", "WaitRiRspAck", "WaitRiUpdAck"} /\ ~Talking =>
                sender = "Connected" /\ seq_send = 0 /\ outstanding = None /\ Early /\ Untouched
           /\ None.kind = "None" /\ 0 \notin Numbers
<1>1. TypeOK /\ StopAndWait
  BY Facts
<1>2. outstanding # None => outstanding \in Sequenced /\ seq_send \in Numbers
  BY <1>1, NoneIsNoPacket DEF TypeOK, StopAndWait
<1>3. 0 \notin Numbers /\ None.kind = "None"
  BY Numbering DEF None
<1>4. Talking => /\ seq_send \in Numbers /\ Met /\ Clean /\ ~Early
                 /\ \A m \in In(toSender) : m.conn = conn_local /\ m.kind # "OpenReq"
  <2>1. Talking => seq_send \in Numbers /\ Met /\ Clean
    BY Facts DEF Talking, Conns, Numbers
  <2>2. Talking => ~Early
    BY <2>1 DEF TransferInv, EarlyOK, Met
  <2>3. Talking => \A m \in In(toSender) : m.conn = conn_local
    BY <2>1, Facts
  <2>. QED  BY <2>1, <2>2, <2>3 DEF Early
<1>5. Met /\ Clean /\ outstanding # None /\ Data(outstanding) => Talking
  BY <1>1, <1>2, <1>3 DEF TypeOK, StopAndWait, Data, Talking
<1>6. Met /\ Clean /\ sender \in {"Connected", "WaitRiRspAck", "WaitRiUpdAck"} /\ ~Talking =>
         sender = "Connected" /\ seq_send = 0 /\ outstanding = None /\ Early /\ Untouched
  <2>. SUFFICES ASSUME Met, Clean, sender \in {"Connected", "WaitRiRspAck", "WaitRiUpdAck"}, ~Talking
                PROVE  sender = "Connected" /\ seq_send = 0 /\ outstanding = None /\ Early /\ Untouched
    OBVIOUS
  <2>1. seq_send = 0
    BY DEF Talking
  <2>2. sender = "Connected" /\ outstanding = None
    BY <2>1, <1>1, <1>2, <1>3 DEF StopAndWait
  <2>3. Early
    BY <2>1, <2>2 DEF Early
  <2>. QED  BY <2>1, <2>2, <2>3 DEF TransferInv, EarlyOK, Met
<1>. QED  BY <1>3, <1>4, <1>5, <1>6

\* What is taken from the queue of the sender leaves the rest in order, and what
\* is asked.
LEMMA SortedTaken ==
    ASSUME TransferInv, Goes(toSender', toSender, {}),
           \/ UNCHANGED <<conn_remote, sender>>
           \/ conn_remote' = 0 /\ sender' = "Unconnected"
           \/ /\ conn_remote' # 0
              /\ \A m \in In(toSender) : conn_remote' <= m.conn
           \/ UNCHANGED conn_remote /\ sender # "Unconnected"
    PROVE  Sorted'
<1>1. Sorted /\ \A m \in In(toSender) : m.conn \in Nat
  BY Facts DEF TransferInv
<1>2. /\ \A m \in In(toSender') : m \in In(toSender)
      /\ \A a, b : Before(a, b, toSender') => Before(a, b, toSender)
  BY DEF Goes
<1>3. \A m \in In(toSender') : m.conn # 0 /\ conn_remote' <= m.conn
  BY <1>1, <1>2 DEF Sorted
<1>. QED  BY <1>1, <1>2, <1>3 DEF Sorted

LEMMA AsksTaken ==
    ASSUME TransferInv, Goes(toSender', toSender, {}), UNCHANGED receiverVars
    PROVE  AsksOK' /\ AppliedOK' /\ Latest' = Latest
<1>1. /\ \A m \in In(toSender') : m \in In(toSender)
      /\ \A a, b : Before(a, b, toSender') => Before(a, b, toSender)
  BY DEF Goes
<1>2. Latest' = Latest
  BY DEF Latest, receiverVars
<1>3. AsksOK'
  BY <1>1 DEF TransferInv, AsksOK, receiverVars
<1>4. AppliedOK'
  BY <1>2 DEF TransferInv, AppliedOK, receiverVars
<1>. QED  BY <1>2, <1>3, <1>4

\* Nothing happens but that packets are taken, lost and repeated.
LEMMA QuietTransfer ==
    ASSUME TransferInv, IdInv', UNCHANGED <<receiverVars, spoilt>>,
           UNCHANGED <<sender, conn_remote, seq_send, outstanding, pages>>,
           Goes(toSender', toSender, {}),
           NEW sent, Goes(toReceiver', toReceiver, sent),
           \A m \in sent : m = outstanding \/ ~Data(m)
    PROVE  TransferInv'
<1>1. Sorted' /\ AsksOK' /\ AppliedOK'
  BY SortedTaken, AsksTaken
<1>2. /\ (Talking' <=> Talking) /\ (Met' <=> Met) /\ (Waiting' <=> Waiting) /\ (Clean' <=> Clean)
      /\ \A x \in In(toReceiver') : Data(x) => x \in In(toReceiver) \/ x = outstanding
      /\ \A x \in In(toSender') : x \in In(toSender)
      /\ \A a, b : Before(a, b, toSender') => Before(a, b, toSender)
  BY DEF Goes, Talking, Met, Waiting, Clean, receiverVars
<1>3. ASSUME NEW x \in In(toReceiver'), Data(x), x = outstanding, x.conn = conn_local,
             receiver # "Unconnected", Clean
      PROVE  Talking /\ x.seq = seq_send /\ seq_send \in {seq_recv, pred(seq_recv)}
  <2>1. x # None /\ Met /\ x.seq = seq_send
    BY <1>3, TalkingFacts DEF Data, Met, TransferInv, IdInv, StopAndWait
  <2>2. Talking
    BY <1>3, <2>1, TalkingFacts
  <2>3. seq_send \in {seq_recv, pred(seq_recv)}
    BY <2>2, TalkingFacts, Numbering DEF TransferInv, StepOK
  <2>. QED  BY <2>1, <2>2, <2>3
<1>4. EarlyOK'
  <2>. SUFFICES ASSUME receiver # "Unconnected", Clean, Early' PROVE Untouched' /\ ~Talking'
    BY <1>2 DEF EarlyOK, receiverVars
  <2>1. Early
    BY <1>2 DEF Early, receiverVars
  <2>2. Untouched /\ ~Talking
    BY <2>1 DEF TransferInv, EarlyOK
  <2>3. NoData'
    BY <1>2, <1>3, <2>2 DEF NoData, Untouched, receiverVars
  <2>. QED  BY <1>2, <2>2, <2>3 DEF Untouched, receiverVars
<1>5. DataOK'
  <2>1. ASSUME receiver # "Unconnected", Clean, NEW x \in In(toReceiver'), x.conn = conn_local, Data(x)
        PROVE  /\ x.seq \in {seq_recv, pred(seq_recv)}
               /\ Talking /\ x.seq = seq_recv => x = outstanding
    <3>1. CASE x \in In(toReceiver)
      BY <2>1, <3>1 DEF TransferInv, DataOK
    <3>2. CASE x = outstanding
      BY <2>1, <3>2, <1>3
    <3>. QED  BY <2>1, <3>1, <3>2, <1>2
  <2>2. ASSUME receiver # "Unconnected", Clean, NEW a \in In(toReceiver'), NEW b \in In(toReceiver'),
               Before(a, b, toReceiver'), a.conn = conn_local, b.conn = conn_local,
               Data(a), Data(b), a.seq = seq_recv
        PROVE  b.seq = seq_recv
    <3>1. CASE Before(a, b, toReceiver)
      <4>1. a \in In(toReceiver) /\ b \in In(toReceiver)
        BY <3>1 DEF Before, In
      <4>. QED  BY <2>2, <3>1, <4>1 DEF TransferInv, DataOK
    <3>2. CASE b = outstanding
      BY <2>1, <2>2, <3>2, <1>3
    <3>. QED  BY <2>2, <3>1, <3>2 DEF Goes
  <2>. QED  BY <1>2, <2>1, <2>2 DEF DataOK, receiverVars
<1>6. AcksOK' /\ StepOK'
  BY <1>2 DEF TransferInv, AcksOK, StepOK, receiverVars
<1>. QED  BY <1>1, <1>4, <1>5, <1>6 DEF TransferInv

\* The sender leaves the connection, or it is not the one the receiver has, or
\* its export is overtaken.
LEMMA SilentTransfer ==
    ASSUME TransferInv, IdInv', UNCHANGED receiverVars, Sorted', Clean' => Clean, ~Talking',
           Met' /\ Clean' => sender' # "Connected",
           Goes(toSender', toSender, {}),
           NEW sent, Goes(toReceiver', toReceiver, sent),
           \A m \in sent : receiver # "Unconnected" /\ Clean' /\ m.conn = conn_local => ~Data(m)
    PROVE  TransferInv'
<1>1. AsksOK' /\ AppliedOK'
  BY AsksTaken
<1>2. /\ (Waiting' <=> Waiting)
      /\ \A x \in In(toReceiver') : x \in In(toReceiver) \/ x \in sent
      /\ \A x \in In(toSender') : x \in In(toSender)
  BY DEF Goes, Waiting, receiverVars
<1>3. receiver # "Unconnected" /\ Clean' =>
        \A x \in In(toReceiver') : x.conn = conn_local /\ Data(x) => x \in In(toReceiver)
  BY <1>2
<1>4. EarlyOK'
  <2>. SUFFICES ASSUME receiver # "Unconnected", Clean', Early' PROVE Untouched'
    BY DEF EarlyOK, receiverVars
  <2>1. Early
    BY <1>2 DEF Early, receiverVars
  <2>2. Untouched
    BY <2>1 DEF TransferInv, EarlyOK
  <2>. QED  BY <1>2, <1>3, <2>2 DEF Untouched, NoData, receiverVars
<1>5. DataOK'
  <2>1. ASSUME receiver # "Unconnected", Clean', NEW a, NEW b, Before(a, b, toReceiver'),
               b.conn = conn_local, Data(b)
        PROVE  Before(a, b, toReceiver) /\ a \in In(toReceiver) /\ b \in In(toReceiver)
    BY <2>1 DEF Goes, Before, In
  <2>. QED  BY <1>3, <2>1 DEF TransferInv, DataOK, receiverVars
<1>6. AcksOK' /\ StepOK'
  BY DEF AcksOK, StepOK
<1>. QED  BY <1>1, <1>4, <1>5, <1>6 DEF TransferInv

\* The sender accepts an Open-Req.
LEMMA AcceptTransfer ==
    ASSUME TransferInv, IdInv', UNCHANGED <<receiverVars, spoilt>>,
           NEW m \in In(toSender), m.kind = "OpenReq",
           \A x \in In(toSender) : Before(m, x, toSender),
           sender = "Unconnected" \/ m.conn = conn_remote,
           conn_remote' = m.conn, seq_send' = 0, sender' = "Connected",
           Goes(toSender', toSender, {}),
           NEW k, ~Data(k), Goes(toReceiver', toReceiver, {k})
    PROVE  TransferInv'
<1>1. Sorted'
  BY SortedTaken DEF TransferInv, Sorted
<1>2. AsksOK' /\ AppliedOK'
  BY AsksTaken
<1>3. /\ (Waiting' <=> Waiting) /\ ~Talking' /\ (Clean' <=> Clean)
      /\ \A x \in In(toReceiver') : Data(x) => x \in In(toReceiver)
      /\ \A a, b : Before(a, b, toReceiver') /\ Data(b) => Before(a, b, toReceiver)
      /\ \A a, b : Before(a, b, toReceiver) => a \in In(toReceiver) /\ b \in In(toReceiver)
      /\ \A x \in In(toSender') : x \in In(toSender)
  <2>1. (Waiting' <=> Waiting) /\ ~Talking' /\ (Clean' <=> Clean)
    BY DEF Waiting, Talking, Clean, receiverVars
  <2>2. /\ \A x \in In(toReceiver') : Data(x) => x \in In(toReceiver)
        /\ \A a, b : Before(a, b, toReceiver') /\ Data(b) => Before(a, b, toReceiver)
        /\ \A x \in In(toSender') : x \in In(toSender)
    BY DEF Goes
  <2>3. \A a, b : Before(a, b, toReceiver) => a \in In(toReceiver) /\ b \in In(toReceiver)
    BY DEF Before, In
  <2>. QED  BY <2>1, <2>2, <2>3
<1>4. EarlyOK'
  <2>. SUFFICES ASSUME receiver # "Unconnected", Clean, Early' PROVE Untouched'
    BY <1>3 DEF EarlyOK, receiverVars
  <2>1. Early
    BY <1>3 DEF Early, Met, receiverVars
  <2>2. Untouched
    BY <2>1 DEF TransferInv, EarlyOK
  <2>. QED  BY <1>3, <2>2 DEF Untouched, NoData, receiverVars
<1>5. DataOK'
  BY <1>3 DEF TransferInv, DataOK, receiverVars
<1>6. AcksOK' /\ StepOK'
  BY <1>3 DEF AcksOK, StepOK
<1>. QED  BY <1>1, <1>2, <1>4, <1>5, <1>6 DEF TransferInv

\* The sender answers the first RI-Req of a connection.
LEMMA ExportTransfer ==
    ASSUME TransferInv, IdInv', UNCHANGED <<receiverVars, conn_remote, spoilt>>,
           Met, Clean, sender \in {"Connected", "WaitRiRspAck", "WaitRiUpdAck"}, seq_send = 0,
           NEW m \in In(toSender), m.kind = "RiReq",
           \A x \in In(toSender) : Before(m, x, toSender),
           Goes(toSender', toSender, {}),
           outstanding' # None, outstanding'.seq = 1, outstanding'.last = (pages' = <<>>),
           seq_send' = 1, sender' = "WaitRiRspAck",
           Goes(toReceiver', toReceiver, {outstanding'})
    PROVE  TransferInv' /\ Untouched /\ Early /\ receiver # "WaitOpenRsp" /\ Talking' /\ seq_recv = 1
<1>1. Sorted'
  BY SortedTaken, Facts
<1>2. AsksOK' /\ AppliedOK'
  BY AsksTaken
<1>3. Untouched /\ Early /\ receiver # "Unconnected"
  BY TalkingFacts DEF Talking, Met
<1>4. /\ Talking' /\ Met' /\ (Waiting' <=> Waiting) /\ (Clean' <=> Clean)
      /\ \A x \in In(toReceiver') : x \in In(toReceiver) \/ x = outstanding'
      /\ \A x \in In(toSender') : x \in In(toSender)
  BY DEF Talking, Met, Clean, Waiting, Goes, receiverVars
<1>5. receiver # "WaitOpenRsp" /\ \A x \in In(toSender) : x.conn = conn_local /\ x.kind # "OpenReq"
  <2>1. \A x \in In(toSender) : x.conn = conn_local
    BY Facts
  <2>. QED  BY <1>3, <2>1 DEF TransferInv, AsksOK
<1>6. \A x \in In(toReceiver') : x.conn = conn_local /\ Data(x) => x = outstanding'
  BY <1>3, <1>4 DEF Untouched, NoData
<1>7. seq_recv = 1 /\ Waiting /\ 1 \in Numbers /\ succ(1) # 1 /\ 1 # 0
  BY <1>3, Numbering DEF Untouched
<1>8. EarlyOK'
  BY <1>4, <1>5 DEF EarlyOK, Early, receiverVars
<1>9. DataOK'
  BY <1>6, <1>7 DEF DataOK, receiverVars
<1>10. AcksOK'
  BY <1>3, <1>4, <1>5 DEF AcksOK, Untouched
<1>11. StepOK'
  BY <1>4, <1>7 DEF StepOK, receiverVars
<1>. QED  BY <1>1, <1>2, <1>3, <1>4, <1>5, <1>7, <1>8, <1>9, <1>10, <1>11 DEF TransferInv

\* The ack of what is outstanding comes: the receiver has processed it.
LEMMA AckTransfer ==
    ASSUME TransferInv, Talking, NEW m \in In(toSender), m.kind = "RiAck", m.seq = seq_send,
           outstanding # None, \A x \in In(toSender) : Before(m, x, toSender)
    PROVE  /\ seq_recv = succ(seq_send) /\ applied = outstanding
           /\ Waiting <=> sender = "WaitRiRspAck" /\ pages # <<>>
           /\ \A x \in In(toSender) : x.kind = "RiAck" => x.seq = seq_send
           /\ \A x \in In(toReceiver) : x.conn = conn_local /\ Data(x) => x.seq # seq_recv
           /\ seq_send \in Numbers /\ seq_send # succ(seq_send)
<1>1. /\ seq_send \in Numbers /\ seq_send # succ(seq_send) /\ seq_send # pred(seq_send) /\ Clean
      /\ receiver # "Unconnected"
  BY TalkingFacts, Numbering DEF Met
<1>2. seq_recv = succ(seq_send) /\ applied = outstanding
  BY <1>1 DEF TransferInv, AcksOK, StepOK
<1>3. Waiting <=> sender = "WaitRiRspAck" /\ pages # <<>>
  BY <1>1, <1>2 DEF TransferInv, StepOK
<1>4. \A x \in In(toSender) : x.kind = "RiAck" => x.seq = seq_send
  BY DEF TransferInv, AcksOK
<1>5. \A x \in In(toReceiver) : x.conn = conn_local /\ Data(x) => x.seq # seq_recv
  <2>1. outstanding.seq = seq_send
    BY DEF TransferInv, IdInv, StopAndWait
  <2>. QED  BY <2>1, <1>1, <1>2 DEF TransferInv, DataOK
<1>. QED  BY <1>1, <1>2, <1>3, <1>4, <1>5

\* Then the sender rests,
LEMMA RestTransfer ==
    ASSUME TransferInv, IdInv', UNCHANGED <<receiverVars, conn_remote, seq_send, toReceiver, spoilt>>,
           Talking, NEW m \in In(toSender), m.kind = "RiAck", m.seq = seq_send, outstanding # None,
           \A x \in In(toSender) : Before(m, x, toSender),
           Goes(toSender', toSender, {}),
           outstanding' = None, sender' = "Connected", pages = <<>>
    PROVE  TransferInv'
<1>1. Sorted'
  BY SortedTaken, Facts DEF Talking
<1>2. AsksOK' /\ AppliedOK'
  BY AsksTaken
<1>3. /\ Talking' /\ (Waiting' <=> Waiting) /\ (Clean' <=> Clean)
      /\ \A x \in In(toSender') : x \in In(toSender)
  BY DEF Goes, Talking, Met, Waiting, Clean, receiverVars
<1>4. /\ seq_recv = succ(seq_send) /\ ~Waiting
      /\ \A x \in In(toSender) : x.kind = "RiAck" => x.seq = seq_send
      /\ \A x \in In(toReceiver) : x.conn = conn_local /\ Data(x) => x.seq # seq_recv
      /\ seq_send \in Numbers /\ seq_send # succ(seq_send)
  BY AckTransfer
<1>5. EarlyOK'
  <2>1. ~Early /\ seq_send # 0
    BY TalkingFacts DEF Talking
  <2>2. ~Early'
    BY <1>3, <2>1 DEF Early, receiverVars
  <2>. QED  BY <2>2 DEF EarlyOK
<1>6. DataOK'
  BY <1>3, <1>4 DEF TransferInv, DataOK, receiverVars
<1>7. AcksOK'
  BY <1>3, <1>4 DEF TransferInv, AcksOK, receiverVars
<1>8. StepOK'
  BY <1>3, <1>4 DEF StepOK, receiverVars
<1>. QED  BY <1>1, <1>2, <1>5, <1>6, <1>7, <1>8 DEF TransferInv

\* or the next page goes out; or an update, with nothing outstanding.
LEMMA NextTransfer ==
    ASSUME TransferInv, IdInv', UNCHANGED <<receiverVars, conn_remote, spoilt>>,
           Talking, Goes(toSender', toSender, {}), seq_recv = succ(seq_send),
           \A x \in In(toSender) : x.kind = "RiAck" => x.seq = seq_send,
           \A x \in In(toReceiver) : x.conn = conn_local /\ Data(x) => x.seq # seq_recv,
           seq_send' = succ(seq_send), outstanding' # None, outstanding'.seq = seq_send',
           sender' \in {"WaitRiRspAck", "WaitRiUpdAck"},
           Waiting <=> sender' = "WaitRiRspAck",
           sender' = "WaitRiRspAck" => outstanding'.last = (pages' = <<>>),
           Goes(toReceiver', toReceiver, {outstanding'})
    PROVE  TransferInv'
<1>1. Sorted'
  BY SortedTaken, Facts DEF Talking
<1>2. AsksOK' /\ AppliedOK'
  BY AsksTaken
<1>3. /\ seq_send \in Numbers /\ succ(seq_send) \in Numbers /\ seq_send # succ(seq_send)
      /\ pred(succ(seq_send)) = seq_send /\ succ(seq_send) # 0
      /\ succ(succ(seq_send)) # succ(seq_send) /\ receiver # "Unconnected" /\ Clean /\ ~Early
  BY TalkingFacts, Numbering DEF Met
<1>4. /\ Talking' /\ (Waiting' <=> Waiting) /\ (Clean' <=> Clean)
      /\ \A x \in In(toReceiver') : x \in In(toReceiver) \/ x = outstanding'
      /\ \A x \in In(toSender') : x \in In(toSender)
  BY <1>3 DEF Goes, Talking, Met, Waiting, Clean, receiverVars
<1>5. EarlyOK'
  <2>1. ~Early'
    BY <1>3, <1>4 DEF Early, receiverVars
  <2>. QED  BY <2>1 DEF EarlyOK
<1>6. \A x \in In(toReceiver) : x.conn = conn_local /\ Data(x) => x.seq = pred(seq_recv)
  BY <1>3 DEF TransferInv, DataOK
<1>7. DataOK'
  <2>1. ASSUME NEW a, NEW b, Before(a, b, toReceiver'), a.conn = conn_local, Data(a), a.seq = seq_recv
        PROVE  b = outstanding'
    <3>1. Before(a, b, toReceiver) => a \in In(toReceiver)
      BY DEF Before, In
    <3>. QED  BY <2>1, <3>1 DEF Goes
  <2>. QED  BY <1>4, <1>6, <2>1 DEF DataOK, receiverVars
<1>8. AcksOK'
  BY <1>3, <1>4 DEF AcksOK, receiverVars
<1>9. StepOK'
  BY <1>3, <1>4 DEF StepOK, receiverVars
<1>. QED  BY <1>1, <1>2, <1>5, <1>7, <1>8, <1>9 DEF TransferInv


-----------------------------------------------------------------------------
(* Action by action.                                                        *)

LEMMA Queues ==
    ASSUME TypeOK
    PROVE  /\ Goes(toSender, toSender, {}) /\ Goes(toReceiver, toReceiver, {})
           /\ \A m : Goes(Append(toSender, m), toSender, {m})
           /\ \A m : Goes(Append(toReceiver, m), toReceiver, {m})
           /\ toSender # <<>> =>
                /\ Goes(Tail(toSender), toSender, {})
                /\ Head(toSender) \in In(toSender) /\ Head(toSender) \in SenderPackets
                /\ \A x \in In(toSender) : Before(Head(toSender), x, toSender)
           /\ toReceiver # <<>> =>
                /\ Goes(Tail(toReceiver), toReceiver, {})
                /\ Head(toReceiver) \in In(toReceiver) /\ Head(toReceiver) \in ReceiverPackets
                /\ \A x \in In(toReceiver) : Before(Head(toReceiver), x, toReceiver)
<1>1. toSender \in Seq(SenderPackets) /\ toReceiver \in Seq(ReceiverPackets)
  BY DEF TypeOK
<1>2. /\ Goes(toSender, toSender, {}) /\ Goes(toReceiver, toReceiver, {})
      /\ \A m : Goes(Append(toSender, m), toSender, {m})
      /\ \A m : Goes(Append(toReceiver, m), toReceiver, {m})
      /\ toSender # <<>> => Goes(Tail(toSender), toSender, {})
      /\ toReceiver # <<>> => Goes(Tail(toReceiver), toReceiver, {})
  BY <1>1, QueueGoes
<1>3. toSender # <<>> => /\ Head(toSender) \in In(toSender)
                         /\ \A x \in In(toSender) : Before(Head(toSender), x, toSender)
  BY <1>1, HeadFirst
<1>4. toReceiver # <<>> => /\ Head(toReceiver) \in In(toReceiver)
                           /\ \A x \in In(toReceiver) : Before(Head(toReceiver), x, toReceiver)
  BY <1>1, HeadFirst
<1>. QED  BY <1>1, <1>2, <1>3, <1>4, InFlight

\* What the packets of both ends are.
LEMMA PacketFacts ==
    /\ \A c, plain : OpenReq(c, plain).kind = "OpenReq" /\ OpenReq(c, plain).conn = c
    /\ \A c, ok : OpenRsp(c, ok).kind = "OpenRsp" /\ OpenRsp(c, ok).conn = c
    /\ \A k, c : Transaction(k, c).kind = k /\ Transaction(k, c).conn = c
    /\ \A c, s : RiAck(c, s).kind = "RiAck" /\ RiAck(c, s).conn = c /\ RiAck(c, s).seq = s
    /\ \A c, s, last, t :
          LET m == RiRsp(c, s, last, t)
          IN  m.kind = "RiRsp" /\ m.conn = c /\ m.seq = s /\ m.last = last /\ m.tuples = t
    /\ \A c, s, e : RiUpd(c, s, e).kind = "RiUpd" /\ RiUpd(c, s, e).conn = c
                    /\ RiUpd(c, s, e).seq = s /\ RiUpd(c, s, e).events = e
    /\ \A c, s : Rd(c, s).kind = "Rd" /\ Rd(c, s).conn = c /\ Rd(c, s).seq = s
BY DEF OpenReq, OpenRsp, Transaction, RiAck, RiRsp, RiUpd, Rd

LEMMA OpenStep == ASSUME TransferInv, IdInv', Open PROVE TransferInv'
<1>1. PICK plain \in OpenForms : Ask(OpenReq(conn_local, plain))
  BY DEF Open
<1>2. Goes(toSender', toSender, {OpenReq(conn_local, plain)})
  BY <1>1, Facts, Queues DEF Ask
<1>3. /\ receiver = "Unconnected" /\ receiver' = "WaitOpenRsp" /\ seq_recv' = 1
      /\ UNCHANGED <<senderVars, applied, conn_local, toReceiver>>
  BY DEF Open
<1>. QED  BY <1>2, <1>3, PacketFacts, OpenTransfer

\* A receiver that closes.
LEMMA CloseStep ==
    ASSUME NoWrap, TransferInv, IdInv', close_receiver, UNCHANGED <<senderVars, applied>>,
           receiver # "Unconnected" \/ budget["Restart"] > 0,
           \/ UNCHANGED toSender
           \/ /\ receiver # "Unconnected"
              /\ \E m : Ask(m) /\ m.conn = conn_local
    PROVE  TransferInv'
<1>1. Latest' = conn_local /\ conn_local \in Nat
  BY ClosingIds, Facts, NumbersAssumption DEF TransferInv, Numbers
<1>2. Latest <= Latest' /\ (receiver # "Unconnected" => Latest = conn_local)
  BY <1>1 DEF Latest
<1>3. receiver' = "Unconnected"
  BY DEF close_receiver
<1>4. CASE UNCHANGED toSender
  <2>1. Goes(toSender', toSender, {})
    BY <1>4, Facts, Queues
  <2>. QED  BY <2>1, <1>2, <1>3, CloseTransfer
<1>5. CASE receiver # "Unconnected" /\ \E m : Ask(m) /\ m.conn = conn_local
  <2>1. PICK m : Ask(m) /\ m.conn = conn_local
    BY <1>5
  <2>2. Goes(toSender', toSender, {m})
    BY <2>1, Facts, Queues DEF Ask
  <2>3. \A x \in {m} : x.conn = conn_local
    BY <2>1
  <2>. QED  BY <2>2, <2>3, <1>2, <1>3, <1>5, CloseTransfer
<1>. QED  BY <1>4, <1>5

\* A receiver that goes on asks at most one thing.
LEMMA StayStep ==
    ASSUME TransferInv, IdInv', UNCHANGED <<senderVars, applied, conn_local, seq_recv, spoilt>>,
           \/ UNCHANGED toReceiver
           \/ toReceiver # <<>> /\ toReceiver' = Tail(toReceiver),
           receiver # "Unconnected", receiver' # "Unconnected",
           \/ receiver' = receiver
           \/ receiver = "WaitOpenRsp" /\ receiver' = "WaitRiRsp"
           \/ ~Waiting /\ ~Waiting',
           \/ UNCHANGED toSender
           \/ \E m : /\ Ask(m) /\ m.conn = conn_local
                     /\ \/ m.kind = "OpenReq" /\ receiver' = "WaitOpenRsp"
                        \/ m.kind = "RiReq" /\ receiver' = "WaitRiRsp"
                        \/ m.kind = "Tickle" /\ ~Waiting'
    PROVE  TransferInv'
<1>1. Goes(toReceiver', toReceiver, {})
  BY Facts, Queues
<1>2. CASE UNCHANGED toSender
  <2>1. Goes(toSender', toSender, {})
    BY <1>2, Facts, Queues
  <2>. QED  BY <2>1, <1>1, StayTransfer
<1>3. CASE \E m : /\ Ask(m) /\ m.conn = conn_local
                  /\ \/ m.kind = "OpenReq" /\ receiver' = "WaitOpenRsp"
                     \/ m.kind = "RiReq" /\ receiver' = "WaitRiRsp"
                     \/ m.kind = "Tickle" /\ ~Waiting'
  <2>1. PICK m : /\ Ask(m) /\ m.conn = conn_local
                 /\ \/ m.kind = "OpenReq" /\ receiver' = "WaitOpenRsp"
                    \/ m.kind = "RiReq" /\ receiver' = "WaitRiRsp"
                    \/ m.kind = "Tickle" /\ ~Waiting'
    BY <1>3
  <2>2. Goes(toSender', toSender, {m})
    BY <2>1, Facts, Queues DEF Ask
  <2>3. \A x \in {m} : /\ x.conn = conn_local
                       /\ \/ x.kind = "OpenReq" /\ receiver' = "WaitOpenRsp"
                          \/ x.kind = "RiReq" /\ receiver' = "WaitRiRsp"
                          \/ x.kind = "Tickle" /\ ~Waiting'
    BY <2>1
  <2>. QED  BY <2>2, <2>3, <1>1, StayTransfer
<1>. QED  BY <1>2, <1>3


\* The sequence check: the packet is new, or one that was, or none of its own.
LEMMA CheckStep ==
    ASSUME NoWrap, TransferInv, IdInv', UNCHANGED <<senderVars, spoilt>>,
           toReceiver # <<>>, toReceiver' = Tail(toReceiver),
           NEW m, m = Head(toReceiver), Data(m), m.conn = conn_local, ReceiverOpen,
           NEW new, NEW state,
           m.kind = "RiRsp" => state = IF m.last THEN "Connected" ELSE receiver,
           m.kind = "RiUpd" => state = receiver,
           check_seq(m, new, state)
    PROVE  /\ TransferInv'
           /\ \/ /\ m.seq = seq_recv /\ applied' = m /\ routes' = new /\ receiver' = state
                 /\ conn_local' = conn_local /\ seq_recv' = succ(seq_recv)
                 /\ Talking => m = outstanding /\ seq_send = seq_recv
              \/ UNCHANGED receiverVars
              \/ close_receiver /\ UNCHANGED <<routes, applied>>
<1>1. receiver \notin {"Unconnected", "WaitOpenRsp"}
  BY DEF ReceiverOpen
<1>2. /\ m \in In(toReceiver) /\ m \in Sequenced
      /\ \A x \in In(toReceiver) : Before(m, x, toReceiver)
      /\ Goes(toReceiver', toReceiver, {})
  BY Facts, Queues, SequencedFields DEF Data
<1>. DEFINE k == RiAck(conn_local, m.seq)
<1>3. k.kind = "RiAck" /\ k.conn = conn_local /\ k.seq = m.seq
      /\ (Ask(k) => Goes(toSender', toSender, {k}))
  <2>1. k.kind = "RiAck" /\ k.conn = conn_local /\ k.seq = m.seq
    BY DEF RiAck
  <2>2. Goes(Append(toSender, k), toSender, {k})
    BY Facts, Queues
  <2>. QED  BY <2>1, <2>2 DEF Ask
<1>. HIDE DEF k
<1>4. \/ /\ m.seq = seq_recv /\ applied' = m /\ routes' = new /\ receiver' = state
         /\ conn_local' = conn_local /\ seq_recv' = succ(m.seq) /\ Ask(k)
      \/ UNCHANGED receiverVars /\ m.seq = pred(seq_recv) /\ Ask(k)
      \/ close_receiver /\ UNCHANGED <<routes, applied, toSender>>
      \/ UNCHANGED <<receiverVars, toSender>>
  BY DEF check_seq, k
<1>5. CASE /\ m.seq = seq_recv /\ applied' = m /\ routes' = new /\ receiver' = state
           /\ conn_local' = conn_local /\ seq_recv' = succ(m.seq) /\ Ask(k)
  <2>1. TransferInv' /\ (Talking => m = outstanding /\ seq_send = seq_recv)
    BY <1>1, <1>2, <1>3, <1>5, TakeTransfer
  <2>. QED  BY <1>5, <2>1
<1>6. CASE UNCHANGED receiverVars /\ m.seq = pred(seq_recv) /\ Ask(k)
  <2>1. TransferInv'
    BY <1>1, <1>2, <1>3, <1>6, RepeatTransfer
  <2>. QED  BY <1>6, <2>1
<1>7. CASE close_receiver /\ UNCHANGED <<routes, applied, toSender>>
  <2>1. TransferInv'
    BY <1>1, <1>7, CloseStep
  <2>. QED  BY <1>7, <2>1
<1>8. CASE UNCHANGED <<receiverVars, toSender>>
  <2>1. Goes(toSender', toSender, {})
    BY <1>8, Facts, Queues
  <2>2. TransferInv'
    BY <1>2, <1>8, <2>1, QuietTransfer DEF senderVars
  <2>. QED  BY <1>8, <2>2
<1>. QED  BY <1>4, <1>5, <1>6, <1>7, <1>8

\* What a page or update that is heard does.
LEMMA HeardData ==
    ASSUME NoWrap, TransferInv, IdInv', RiRspArrives \/ RiUpdArrives
    PROVE  /\ TransferInv'
           /\ \E m \in In(toReceiver) :
              /\ m.conn = conn_local /\ Data(m) /\ ReceiverOpen /\ m \in Sequenced
              /\ UNCHANGED <<senderVars, home, history, budget>>
              /\ toReceiver # <<>> /\ toReceiver' = Tail(toReceiver)
              /\ \/ /\ m.seq = seq_recv /\ seq_recv' = succ(seq_recv) /\ applied' = m
                    /\ UNCHANGED conn_local
                    /\ m.kind = "RiRsp" => routes' = [n \in Net |-> learned(routes[n], m.tuples[n])]
                    /\ m.kind = "RiUpd" => routes' = [n \in Net |-> apply(routes[n], m.events[n])]
                    /\ receiver' \in {"Connected", receiver}
                    /\ Talking => m = outstanding /\ seq_send = seq_recv
                 \/ UNCHANGED receiverVars
                 \/ receiver' = "Unconnected" /\ UNCHANGED <<routes, applied>>
<1>. DEFINE m == Head(toReceiver)
            old == [n \in Net |-> learned(routes[n], m.tuples[n])]
            upd == [n \in Net |-> apply(routes[n], m.events[n])]
            state == IF m.last THEN "Connected" ELSE receiver
<1>1. /\ toReceiver # <<>> /\ toReceiver' = Tail(toReceiver) /\ ReceiverOpen
      /\ m.kind \in {"RiRsp", "RiUpd"} /\ m.conn = conn_local
      /\ UNCHANGED <<senderVars, home, history, budget>>
      /\ m.kind = "RiRsp" => check_seq(m, old, state)
      /\ m.kind = "RiUpd" => check_seq(m, upd, receiver)
  BY DEF RiRspArrives, RiUpdArrives, Hears, Heard
<1>. HIDE DEF old, upd
<1>2. m \in In(toReceiver) /\ Data(m) /\ m \in Sequenced /\ UNCHANGED spoilt
  BY <1>1, Facts, Queues, SequencedFields DEF Data, history
<1>3. CASE m.kind = "RiRsp"
  <2>1. /\ TransferInv'
        /\ \/ /\ m.seq = seq_recv /\ applied' = m /\ routes' = old /\ receiver' = state
              /\ conn_local' = conn_local /\ seq_recv' = succ(seq_recv)
              /\ Talking => m = outstanding /\ seq_send = seq_recv
           \/ UNCHANGED receiverVars
           \/ close_receiver /\ UNCHANGED <<routes, applied>>
    BY <1>1, <1>2, <1>3, CheckStep
  <2>2. state \in {"Connected", receiver}
    OBVIOUS
  <2>. HIDE DEF m, state
  <2>. QED  BY <1>1, <1>2, <1>3, <2>1, <2>2 DEF old, close_receiver
<1>4. CASE m.kind = "RiUpd"
  <2>1. /\ TransferInv'
        /\ \/ /\ m.seq = seq_recv /\ applied' = m /\ routes' = upd /\ receiver' = receiver
              /\ conn_local' = conn_local /\ seq_recv' = succ(seq_recv)
              /\ Talking => m = outstanding /\ seq_send = seq_recv
           \/ UNCHANGED receiverVars
           \/ close_receiver /\ UNCHANGED <<routes, applied>>
    BY <1>1, <1>2, <1>4, CheckStep
  <2>. HIDE DEF m
  <2>. QED  BY <1>1, <1>2, <1>4, <2>1 DEF upd, close_receiver
<1>. QED  BY <1>1, <1>3, <1>4

\* The receiver's other steps.
LEMMA ReceiverSteps ==
    ASSUME NoWrap, TransferInv, IdInv',
           \/ OpenRspArrives \/ RdArrives \/ TickleAckArrives
           \/ OpeningTimeout \/ GoneQuiet \/ TickleTimeout \/ ping \/ ReceiverRestarts
    PROVE  TransferInv'
<1>1. CASE OpenRspArrives
  <2>1. /\ receiver = "WaitOpenRsp" /\ UNCHANGED <<senderVars, applied, spoilt>>
        /\ toReceiver # <<>> /\ toReceiver' = Tail(toReceiver)
    BY <1>1 DEF OpenRspArrives, Hears, Heard, history
  <2>2. CASE close_receiver /\ UNCHANGED toSender
    BY <2>1, <2>2, CloseStep
  <2>3. CASE /\ receiver' = "WaitRiRsp" /\ seq_recv' = 1 /\ conn_local' = conn_local
             /\ Ask(Transaction("RiReq", conn_local))
    <3>1. seq_recv' = seq_recv
      BY <2>1, <2>3 DEF TransferInv, AsksOK
    <3>. QED  BY <2>1, <2>3, <3>1, PacketFacts, StayStep
  <2>. QED  BY <1>1, <2>2, <2>3 DEF OpenRspArrives
<1>2. CASE RdArrives
  <2>1. /\ receiver # "Unconnected" /\ close_receiver
        /\ UNCHANGED <<applied, senderVars>>
        /\ Ask(RiAck(conn_local, Head(toReceiver).seq))
    BY <1>2 DEF RdArrives, ReceiverOpen
  <2>. QED  BY <2>1, PacketFacts, CloseStep
<1>3. CASE TickleAckArrives
  <2>1. /\ receiver = "WaitTickleAck" /\ receiver' = "Connected"
        /\ UNCHANGED <<senderVars, applied, conn_local, seq_recv, spoilt, toSender>>
        /\ toReceiver # <<>> /\ toReceiver' = Tail(toReceiver)
    BY <1>3 DEF TickleAckArrives, Hears, Heard, history
  <2>2. ~Waiting /\ ~Waiting'
    BY <2>1 DEF Waiting
  <2>. QED  BY <2>1, <2>2, StayStep
<1>4. CASE OpeningTimeout
  <2>1. Waiting /\ receiver # "Unconnected" /\ UNCHANGED <<applied, senderVars, spoilt, toReceiver>>
    BY <1>4 DEF OpeningTimeout, Waiting, history
  <2>2. CASE close_receiver /\ UNCHANGED toSender
    BY <2>1, <2>2, CloseStep
  <2>3. CASE /\ UNCHANGED <<receiver, conn_local, seq_recv>>
             /\ Ask(IF receiver = "WaitOpenRsp" THEN OpenReq(conn_local, TRUE)
                                                ELSE Transaction("RiReq", conn_local))
    <3>1. CASE receiver = "WaitOpenRsp"
      <4>. DEFINE m == OpenReq(conn_local, TRUE)
      <4>1. /\ Ask(m) /\ m.conn = conn_local /\ m.kind = "OpenReq"
            /\ receiver' = receiver /\ receiver' = "WaitOpenRsp"
        BY <2>3, <3>1 DEF OpenReq
      <4>. HIDE DEF m
      <4>. QED  BY <2>1, <2>3, <4>1, StayStep
    <3>2. CASE receiver = "WaitRiRsp"
      <4>1. Ask(Transaction("RiReq", conn_local)) /\ receiver' = "WaitRiRsp"
        BY <2>3, <3>2
      <4>. QED  BY <2>1, <2>3, <4>1, PacketFacts, StayStep
    <3>. QED  BY <2>1, <3>1, <3>2 DEF Waiting
  <2>. QED  BY <1>4, <2>2, <2>3 DEF OpeningTimeout
<1>5. CASE GoneQuiet
  <2>1. /\ receiver = "Connected" /\ receiver' = "WaitTickleAck"
        /\ UNCHANGED <<senderVars, applied, conn_local, seq_recv, spoilt, toReceiver>>
        /\ Ask(Transaction("Tickle", conn_local))
    BY <1>5 DEF GoneQuiet, history
  <2>2. ~Waiting /\ ~Waiting'
    BY <2>1 DEF Waiting
  <2>. QED  BY <2>1, <2>2, PacketFacts, StayStep
<1>6. CASE TickleTimeout
  <2>1. /\ receiver = "WaitTickleAck" /\ UNCHANGED <<applied, senderVars, spoilt, toReceiver>>
    BY <1>6 DEF TickleTimeout, history
  <2>2. CASE close_receiver /\ UNCHANGED toSender
    BY <2>1, <2>2, CloseStep
  <2>3. CASE /\ UNCHANGED <<receiver, conn_local, seq_recv>>
             /\ Ask(Transaction("Tickle", conn_local))
    <3>1. ~Waiting /\ ~Waiting'
      BY <2>1, <2>3 DEF Waiting
    <3>. QED  BY <2>1, <2>3, <3>1, PacketFacts, StayStep
  <2>. QED  BY <1>6, <2>2, <2>3 DEF TickleTimeout
<1>7. CASE ping
  <2>1. /\ receiver \in {"Connected", "WaitTickleAck"} /\ receiver' = "WaitTickleAck"
        /\ UNCHANGED <<senderVars, applied, conn_local, seq_recv, spoilt, toReceiver>>
        /\ Ask(Transaction("Tickle", conn_local))
    BY <1>7 DEF ping, history
  <2>2. ~Waiting /\ ~Waiting'
    BY <2>1 DEF Waiting
  <2>. QED  BY <2>1, <2>2, PacketFacts, StayStep
<1>8. CASE ReceiverRestarts
  <2>1. /\ Spend("Restart") /\ close_receiver
        /\ UNCHANGED <<applied, senderVars, toSender>>
    BY <1>8 DEF ReceiverRestarts
  <2>2. budget["Restart"] > 0
    BY <2>1 DEF TransferInv, IdInv, IdsLeft, NoWrap, Spend
  <2>. QED  BY <2>1, <2>2, CloseStep
<1>. QED  BY <1>1, <1>2, <1>3, <1>4, <1>5, <1>6, <1>7, <1>8


\* Steps that leave both ends as they are.
LEMMA QuietStep ==
    ASSUME TransferInv, IdInv', UNCHANGED <<receiverVars, spoilt>>,
           UNCHANGED <<sender, conn_remote, seq_send, outstanding, pages>>,
           UNCHANGED toSender \/ (toSender # <<>> /\ toSender' = Tail(toSender)),
           \/ UNCHANGED toReceiver
           \/ toReceiver # <<>> /\ toReceiver' = Tail(toReceiver)
           \/ \E m : Answer(m) /\ (m = outstanding \/ ~Data(m))
    PROVE  TransferInv'
<1>1. Goes(toSender', toSender, {})
  BY Facts, Queues
<1>2. CASE UNCHANGED toReceiver \/ (toReceiver # <<>> /\ toReceiver' = Tail(toReceiver))
  <2>1. Goes(toReceiver', toReceiver, {})
    BY <1>2, Facts, Queues
  <2>. QED  BY <1>1, <2>1, QuietTransfer
<1>3. CASE \E m : Answer(m) /\ (m = outstanding \/ ~Data(m))
  <2>1. PICK m : Answer(m) /\ (m = outstanding \/ ~Data(m))
    BY <1>3
  <2>2. Goes(toReceiver', toReceiver, {m})
    BY <2>1, Facts, Queues DEF Answer
  <2>3. \A x \in {m} : x = outstanding \/ ~Data(x)
    BY <2>1
  <2>. QED  BY <1>1, <2>2, <2>3, QuietTransfer
<1>. QED  BY <1>2, <1>3

LEMMA QuietSteps ==
    ASSUME TransferInv, IdInv',
           \/ ReceiverDiscards \/ TickleArrives \/ SenderDiscards \/ LoseToSender \/ LoseToReceiver
           \/ HomeChanges
    PROVE  TransferInv'
<1>1. CASE ReceiverDiscards
  BY <1>1, QuietStep DEF ReceiverDiscards, Heard, senderVars, history
<1>2. CASE TickleArrives
  <2>1. Answer(Transaction("TickleAck", conn_remote)) /\ ~Data(Transaction("TickleAck", conn_remote))
    BY <1>2 DEF TickleArrives, Data, Transaction
  <2>. QED  BY <1>2, <2>1, QuietStep DEF TickleArrives, Asked, Taken, senderVars, history
<1>3. CASE SenderDiscards
  BY <1>3, QuietStep DEF SenderDiscards, Taken, senderVars, history
<1>4. CASE LoseToSender
  BY <1>4, QuietStep DEF LoseToSender, senderVars, history
<1>5. CASE LoseToReceiver
  BY <1>5, QuietStep DEF LoseToReceiver, senderVars, history
<1>6. CASE HomeChanges
  BY <1>6, QuietStep DEF HomeChanges, history
<1>. QED  BY <1>1, <1>2, <1>3, <1>4, <1>5, <1>6

\* Steps of the sender outside the connection the receiver has, or in one whose
\* export is overtaken.
LEMMA SilentStep ==
    ASSUME TransferInv, IdInv', UNCHANGED receiverVars, spoilt \subseteq spoilt', ~Talking',
           Met' /\ Clean' => sender' # "Connected",
           \/ conn_remote' = 0 /\ sender' = "Unconnected"
           \/ UNCHANGED conn_remote /\ sender # "Unconnected",
           UNCHANGED toSender \/ (toSender # <<>> /\ toSender' = Tail(toSender)),
           \/ UNCHANGED toReceiver
           \/ \E m : /\ Answer(m)
                     /\ ~(receiver # "Unconnected" /\ Clean' /\ m.conn = conn_local /\ Data(m))
    PROVE  TransferInv'
<1>1. Goes(toSender', toSender, {})
  BY Facts, Queues
<1>2. Sorted' /\ (Clean' => Clean)
  BY <1>1, SortedTaken DEF Clean, receiverVars
<1>3. CASE UNCHANGED toReceiver
  <2>1. Goes(toReceiver', toReceiver, {})
    BY <1>3, Facts, Queues
  <2>. QED  BY <1>1, <1>2, <2>1, SilentTransfer
<1>4. CASE \E m : /\ Answer(m)
                  /\ ~(receiver # "Unconnected" /\ Clean' /\ m.conn = conn_local /\ Data(m))
  <2>1. PICK m : /\ Answer(m)
                 /\ ~(receiver # "Unconnected" /\ Clean' /\ m.conn = conn_local /\ Data(m))
    BY <1>4
  <2>2. Goes(toReceiver', toReceiver, {m})
    BY <2>1, Facts, Queues DEF Answer
  <2>3. \A x \in {m} : receiver # "Unconnected" /\ Clean' /\ x.conn = conn_local => ~Data(x)
    BY <2>1
  <2>. QED  BY <1>1, <1>2, <2>2, <2>3, SilentTransfer
<1>. QED  BY <1>3, <1>4

LEMMA CloseSenderStep ==
    ASSUME TransferInv, IdInv', close_sender, UNCHANGED <<receiverVars, spoilt, toReceiver>>,
           UNCHANGED toSender \/ (toSender # <<>> /\ toSender' = Tail(toSender))
    PROVE  TransferInv'
<1>1. conn_local' # 0
  BY Facts, Numbering DEF receiverVars
<1>2. ~Met' /\ ~Talking' /\ conn_remote' = 0 /\ sender' = "Unconnected"
  BY <1>1 DEF close_sender, Met, Talking
<1>. QED  BY <1>2, SilentStep

\* A sender whose connection is not the receiver's, or is overtaken, sends what
\* it likes.
LEMMA ApartStep ==
    ASSUME TransferInv, IdInv', UNCHANGED <<receiverVars, conn_remote>>, spoilt \subseteq spoilt',
           ~(Met /\ Clean'), sender # "Unconnected",
           UNCHANGED toSender \/ (toSender # <<>> /\ toSender' = Tail(toSender)),
           UNCHANGED toReceiver \/ \E m : Answer(m) /\ m.conn = conn_remote
    PROVE  TransferInv'
<1>1. ~(Met' /\ Clean') /\ ~Talking'
  BY DEF Met, Talking, receiverVars
<1>2. \/ UNCHANGED toReceiver
      \/ \E m : /\ Answer(m)
                /\ ~(receiver # "Unconnected" /\ Clean' /\ m.conn = conn_local /\ Data(m))
  BY DEF Met
<1>. QED  BY <1>1, <1>2, SilentStep

\* A page that goes out.
LEMMA PageSent ==
    ASSUME NEW left \in Seq(Tuples), left # <<>>, NEW n, send_page(left, n)
    PROVE  /\ seq_send' = n /\ sender' = "WaitRiRspAck" /\ pages' = Tail(left)
           /\ outstanding' = RiRsp(conn_remote, n, pages' = <<>>, Head(left))
           /\ outstanding' # None /\ Data(outstanding')
           /\ outstanding'.conn = conn_remote /\ outstanding'.seq = n
           /\ outstanding'.kind = "RiRsp"
           /\ outstanding'.last = (pages' = <<>>) /\ outstanding'.tuples = Head(left)
           /\ Answer(outstanding')
<1>1. (Len(left) = 1) = (Tail(left) = <<>>)
  <2>1. Len(left) \in Nat \ {0} /\ Len(Tail(left)) = Len(left) - 1 /\ Tail(left) \in Seq(Tuples)
    OBVIOUS
  <2>2. \A r \in Seq(Tuples) : r = <<>> <=> Len(r) = 0
    OBVIOUS
  <2>. QED  BY <2>1, <2>2
<1>. DEFINE u == RiRsp(conn_remote, n, pages' = <<>>, Head(left))
<1>2. send_sequenced(u) /\ pages' = Tail(left) /\ sender' = "WaitRiRspAck"
  BY <1>1 DEF send_page
<1>3. /\ u.kind = "RiRsp" /\ u.conn = conn_remote /\ u.seq = n
      /\ u.last = (pages' = <<>>) /\ u.tuples = Head(left)
  BY DEF RiRsp
<1>4. u # None /\ Data(u)
  BY <1>3 DEF None, Data
<1>. HIDE DEF u
<1>5. seq_send' = n /\ outstanding' = u /\ Answer(u)
  BY <1>2, <1>3 DEF send_sequenced
<1>. QED  BY <1>2, <1>3, <1>4, <1>5 DEF u

\* The pages of the export.
LEMMA ExportTuples ==
    ASSUME TypeOK
    PROVE  /\ Export \in Tuples
           /\ split_tuples(Export) \in Seq(Tuples) /\ split_tuples(Export) # <<>>
<1>1. Export \in Tuples
  BY HomeAssumption DEF TypeOK, Export, Tuples, Routes
<1>. QED  BY <1>1, ExportPages

LEMMA OpenReqStep == ASSUME TransferInv, IdInv', open_req PROVE TransferInv'
<1>. DEFINE m == Head(toSender)
<1>1. /\ toSender # <<>> /\ toSender' = Tail(toSender) /\ m.kind = "OpenReq"
      /\ UNCHANGED <<receiverVars, spoilt>> /\ m \in In(toSender)
      /\ \A x \in In(toSender) : Before(m, x, toSender)
      /\ Goes(toSender', toSender, {})
  BY Facts, Queues DEF open_req, Asked, Taken, history
<1>. DEFINE ok(b) == OpenRsp(m.conn, b)
<1>2. \A b : ~Data(ok(b))
  BY DEF Data, OpenRsp
<1>3. CASE Answer(ok(FALSE)) /\ UNCHANGED senderVars
  BY <1>1, <1>2, <1>3, QuietStep DEF senderVars
<1>4. CASE /\ m.plain /\ sender # "Unconnected" /\ m.conn # conn_remote
           /\ send_sequenced(RiUpd(conn_remote, succ(seq_send), NoEvents))
           /\ UNCHANGED <<conn_remote, pages, pending>>
  <2>1. ~Met
    BY <1>1, <1>4, Facts DEF Met
  <2>2. \E x : Answer(x) /\ x.conn = conn_remote
    BY <1>4 DEF send_sequenced, RiUpd
  <2>. QED  BY <1>1, <1>4, <2>1, <2>2, ApartStep
<1>5. CASE UNCHANGED <<senderVars, toReceiver>>
  BY <1>1, <1>5, QuietStep DEF senderVars
<1>6. CASE /\ sender = "Unconnected" \/ m.conn = conn_remote
           /\ conn_remote' = m.conn /\ seq_send' = 0
           /\ sender' = "Connected"
           /\ Answer(ok(TRUE))
  <2>1. Goes(toReceiver', toReceiver, {ok(TRUE)})
    BY <1>6, Facts, Queues DEF Answer
  <2>2. ~Data(ok(TRUE))
    BY <1>2
  <2>. HIDE DEF ok, m
  <2>. QED  BY <1>1, <1>6, <2>1, <2>2, AcceptTransfer
<1>. QED  BY <1>3, <1>4, <1>5, <1>6 DEF open_req

\* What an RI-Req does: the first one of the connection both are on exports the
\* routes; another repeats the page that is on its way, or spoils the connection.
LEMMA RiReqCases ==
    ASSUME TransferInv, IdInv', RiReqArrives
    PROVE  /\ UNCHANGED <<receiverVars, conn_remote, pending, probing, home, budget>>
           /\ sender \in {"Connected", "WaitRiRspAck", "WaitRiUpdAck"}
           /\ toSender # <<>> /\ toSender' = Tail(toSender)
           /\ Head(toSender) \in In(toSender) /\ Head(toSender).kind = "RiReq"
           /\ \A x \in In(toSender) : Before(Head(toSender), x, toSender)
           /\ Goes(toSender', toSender, {})
           /\ send_page(split_tuples(Export), 1) /\ Answer(outstanding') /\ Data(outstanding')
           /\ outstanding' # None /\ outstanding'.conn = conn_remote /\ outstanding'.seq = 1
           /\ outstanding'.last = (pages' = <<>>) /\ sender' = "WaitRiRspAck" /\ seq_send' = 1
           /\ spoilt' = spoilt \/ spoilt' = spoilt \cup {conn_remote}
           /\ seq_send = 0 => spoilt' = spoilt
           /\ conn_remote \notin spoilt' /\ seq_send # 0 =>
                /\ UNCHANGED <<spoilt, ghosts, sender, seq_send, outstanding, pages>>
                /\ outstanding # None
<1>1. /\ UNCHANGED <<receiverVars, conn_remote, pending, probing, home, budget>>
      /\ sender \in {"Connected", "WaitRiRspAck", "WaitRiUpdAck"}
      /\ toSender # <<>> /\ toSender' = Tail(toSender)
      /\ Head(toSender) \in In(toSender) /\ Head(toSender).kind = "RiReq"
      /\ \A x \in In(toSender) : Before(Head(toSender), x, toSender)
      /\ Goes(toSender', toSender, {})
      /\ send_page(split_tuples(Export), 1)
  BY Facts, Queues DEF RiReqArrives, Asked, Taken
<1>2. /\ Answer(outstanding') /\ outstanding' # None /\ outstanding'.conn = conn_remote
      /\ outstanding'.seq = 1 /\ outstanding'.kind = "RiRsp" /\ Data(outstanding')
      /\ outstanding'.last = (pages' = <<>>) /\ sender' = "WaitRiRspAck" /\ seq_send' = 1
  BY <1>1, Facts, ExportTuples, PageSent
<1>3. /\ spoilt' = spoilt \/ spoilt' = spoilt \cup {conn_remote}
      /\ seq_send = 0 => spoilt' = spoilt
      /\ seq_send # 0 => ghosts' = ghosts
  BY DEF RiReqArrives
<1>4. ASSUME conn_remote \notin spoilt', seq_send # 0
      PROVE  /\ UNCHANGED <<spoilt, ghosts, sender, seq_send, outstanding, pages>>
             /\ outstanding # None
  <2>1. outstanding' = outstanding /\ pages' = pages /\ spoilt' = spoilt
    BY <1>4 DEF RiReqArrives
  <2>2. seq_send = 1 /\ sender = "WaitRiRspAck"
    BY <1>1, <1>2, <2>1 DEF TransferInv, IdInv, StopAndWait
  <2>. QED  BY <1>2, <1>3, <1>4, <2>1, <2>2
<1>. QED  BY <1>1, <1>2, <1>3, <1>4

LEMMA RiReqStep == ASSUME TransferInv, IdInv', RiReqArrives PROVE TransferInv'
<1>1. /\ UNCHANGED <<receiverVars, conn_remote>>
      /\ sender \in {"Connected", "WaitRiRspAck", "WaitRiUpdAck"}
      /\ toSender # <<>> /\ toSender' = Tail(toSender)
      /\ Head(toSender) \in In(toSender) /\ Head(toSender).kind = "RiReq"
      /\ \A x \in In(toSender) : Before(Head(toSender), x, toSender)
      /\ Goes(toSender', toSender, {})
      /\ Answer(outstanding') /\ outstanding' # None /\ outstanding'.conn = conn_remote
      /\ outstanding'.seq = 1
      /\ outstanding'.last = (pages' = <<>>) /\ sender' = "WaitRiRspAck" /\ seq_send' = 1
      /\ spoilt' = spoilt \/ spoilt' = spoilt \cup {conn_remote}
      /\ seq_send = 0 => spoilt' = spoilt
      /\ conn_remote \notin spoilt' /\ seq_send # 0 =>
           UNCHANGED <<spoilt, sender, seq_send, outstanding, pages>>
  BY RiReqCases
<1>2. CASE ~(Met /\ Clean')
  BY <1>1, <1>2, ApartStep
<1>3. CASE Met /\ Clean' /\ seq_send = 0
  <2>1. Clean /\ UNCHANGED spoilt
    BY <1>1, <1>3 DEF Clean, receiverVars
  <2>2. Goes(toReceiver', toReceiver, {outstanding'})
    BY <1>1, Facts, Queues DEF Answer
  <2>. QED  BY <1>1, <1>3, <2>1, <2>2, ExportTransfer
<1>4. CASE Met /\ Clean' /\ seq_send # 0
  <2>1. UNCHANGED <<spoilt, sender, seq_send, outstanding, pages>>
    BY <1>1, <1>4 DEF Met, Clean, receiverVars
  <2>. QED  BY <1>1, <2>1, QuietStep
<1>. QED  BY <1>2, <1>3, <1>4

\* What the ack of an outstanding packet means to a sender the receiver talks to.
LEMMA AckedMeans ==
    ASSUME TransferInv, Acked, Taken
    PROVE  /\ toSender # <<>> /\ toSender' = Tail(toSender)
           /\ Head(toSender) \in In(toSender)
           /\ \A x \in In(toSender) : Before(Head(toSender), x, toSender)
           /\ Goes(toSender', toSender, {})
           /\ Head(toSender).kind = "RiAck" /\ Head(toSender).seq = seq_send
           /\ outstanding # None
           /\ Met /\ Clean /\ sender \in {"WaitRiUpdAck", "WaitRiRspAck"} => Talking
<1>1. /\ toSender # <<>> /\ toSender' = Tail(toSender)
      /\ Head(toSender) \in In(toSender)
      /\ \A x \in In(toSender) : Before(Head(toSender), x, toSender)
      /\ Goes(toSender', toSender, {})
      /\ Head(toSender).kind = "RiAck" /\ outstanding # None /\ Head(toSender).seq = outstanding.seq
  BY Facts, Queues DEF Acked, Asked, Taken
<1>2. outstanding.seq = seq_send
  BY <1>1 DEF TransferInv, IdInv, StopAndWait
<1>3. Met /\ Clean /\ sender \in {"WaitRiUpdAck", "WaitRiRspAck"} => Talking
  BY <1>1, TalkingFacts
<1>. QED  BY <1>1, <1>2, <1>3

LEMMA RiAckStep == ASSUME TransferInv, IdInv', ri_ack PROVE TransferInv'
<1>1. /\ Acked /\ Taken /\ UNCHANGED <<receiverVars, spoilt>>
  BY DEF ri_ack, history
<1>2. /\ toSender # <<>> /\ toSender' = Tail(toSender)
      /\ Goes(toSender', toSender, {}) /\ outstanding # None
      /\ Met /\ Clean /\ sender \in {"WaitRiUpdAck", "WaitRiRspAck"} => Talking
      /\ (Clean' <=> Clean)
  BY <1>1, AckedMeans DEF Clean, receiverVars
<1>3. CASE /\ sender = "WaitRiRspAck" /\ pages # <<>>
           /\ send_page(pages, succ(seq_send)) /\ UNCHANGED conn_remote
  <2>1. pages \in Seq(Tuples)
    BY Facts DEF TypeOK
  <2>2. /\ seq_send' = succ(seq_send) /\ sender' = "WaitRiRspAck" /\ outstanding' # None
        /\ outstanding'.conn = conn_remote /\ outstanding'.seq = seq_send'
        /\ outstanding'.last = (pages' = <<>>) /\ Answer(outstanding')
    BY <1>3, <2>1, PageSent
  <2>3. CASE Met /\ Clean
    <3>1. Talking
      BY <1>2, <1>3, <2>3
    <3>2. /\ seq_recv = succ(seq_send) /\ Waiting
          /\ \A x \in In(toSender) : x.kind = "RiAck" => x.seq = seq_send
          /\ \A x \in In(toReceiver) : x.conn = conn_local /\ Data(x) => x.seq # seq_recv
      BY <1>1, <1>3, <3>1, AckedMeans, AckTransfer
    <3>3. Goes(toReceiver', toReceiver, {outstanding'})
      BY <2>2, Facts, Queues DEF Answer
    <3>. QED  BY <1>1, <1>2, <1>3, <2>2, <3>1, <3>2, <3>3, NextTransfer
  <2>4. CASE ~(Met /\ Clean)
    <3>1. \E x : Answer(x) /\ x.conn = conn_remote
      BY <2>2
    <3>. QED  BY <1>1, <1>2, <1>3, <2>4, <3>1, ApartStep
  <2>. QED  BY <2>3, <2>4
<1>4. CASE /\ sender = "WaitRiUpdAck" \/ (sender = "WaitRiRspAck" /\ pages = <<>>)
           /\ sender' = "Connected" /\ outstanding' = None
           /\ UNCHANGED <<conn_remote, seq_send, pages, toReceiver>>
  <2>1. pages = <<>>
    BY <1>4 DEF TransferInv, IdInv, StopAndWait
  <2>2. CASE Met /\ Clean
    BY <1>1, <1>4, <2>1, <2>2, AckedMeans, RestTransfer
  <2>3. CASE ~(Met /\ Clean)
    BY <1>1, <1>2, <1>4, <2>3, ApartStep
  <2>. QED  BY <2>2, <2>3
<1>5. CASE close_sender /\ UNCHANGED toReceiver
  BY <1>1, <1>2, <1>5, CloseSenderStep
<1>. QED  BY <1>3, <1>4, <1>5 DEF ri_ack

LEMMA SenderTimeoutStep == ASSUME TransferInv, IdInv', SenderTimeout PROVE TransferInv'
<1>1. CASE close_sender /\ UNCHANGED toReceiver
  BY <1>1, CloseSenderStep DEF SenderTimeout, history
<1>2. CASE /\ Answer(outstanding)
           /\ UNCHANGED <<sender, conn_remote, seq_send, outstanding, pages, pending, probing>>
  BY <1>2, QuietStep DEF SenderTimeout, history
<1>. QED  BY <1>1, <1>2 DEF SenderTimeout

\* An update, or the probe of the other connection, goes out.
LEMMA UpdateSent ==
    ASSUME TransferInv, SendUpdate \/ ProbeThisWay
    PROVE  /\ sender = "Connected" /\ sender' = "WaitRiUpdAck" /\ outstanding = None
           /\ UNCHANGED <<conn_remote, pages, probing, receiverVars, home, toSender>>
           /\ spoilt' = Overtaken
           /\ \E e : /\ outstanding' = RiUpd(conn_remote, succ(seq_send), e)
                     /\ SendUpdate => e = pending /\ pending' = NoEvents
                     /\ ProbeThisWay => e = NoEvents /\ pending' = pending /\ ghosts' = ghosts
           /\ Answer(outstanding') /\ seq_send' = succ(seq_send) /\ outstanding' # None
           /\ outstanding'.kind = "RiUpd" /\ outstanding'.conn = conn_remote
           /\ outstanding'.seq = seq_send' /\ Data(outstanding')
<1>1. /\ sender = "Connected" /\ sender' = "WaitRiUpdAck"
      /\ UNCHANGED <<conn_remote, pages, probing, receiverVars, home, toSender>>
      /\ spoilt' = Overtaken
  BY DEF SendUpdate, ProbeThisWay
<1>2. PICK e : /\ send_sequenced(RiUpd(conn_remote, succ(seq_send), e))
               /\ SendUpdate => e = pending /\ pending' = NoEvents
               /\ ProbeThisWay => e = NoEvents /\ pending' = pending /\ ghosts' = ghosts
  <2>1. CASE SendUpdate
    <3>1. ~ProbeThisWay \/ pending = NoEvents
      BY <2>1 DEF SendUpdate, ProbeThisWay, send_sequenced, RiUpd
    <3>. QED  BY <2>1, <3>1 DEF SendUpdate
  <2>2. CASE ProbeThisWay /\ ~SendUpdate
    BY <2>2 DEF ProbeThisWay
  <2>. QED  BY <2>1, <2>2
<1>. DEFINE u == RiUpd(conn_remote, succ(seq_send), e)
<1>3. /\ u.kind = "RiUpd" /\ u.conn = conn_remote /\ u.seq = succ(seq_send) /\ u # None
      /\ Data(u)
  BY DEF RiUpd, None, Data
<1>4. outstanding = None
  BY <1>1 DEF TransferInv, IdInv, StopAndWait
<1>. HIDE DEF u
<1>5. Answer(u) /\ outstanding' = u /\ seq_send' = succ(seq_send)
  BY <1>2, <1>3 DEF send_sequenced, u
<1>. QED  BY <1>1, <1>2, <1>3, <1>4, <1>5 DEF u

LEMMA UpdateStep == ASSUME TransferInv, IdInv', SendUpdate \/ ProbeThisWay PROVE TransferInv'
<1>1. /\ sender = "Connected" /\ sender' = "WaitRiUpdAck" /\ outstanding = None
      /\ UNCHANGED <<conn_remote, pages, receiverVars, toSender>>
      /\ spoilt' = Overtaken
      /\ Answer(outstanding') /\ seq_send' = succ(seq_send) /\ outstanding' # None
      /\ outstanding'.conn = conn_remote /\ outstanding'.seq = seq_send'
  BY UpdateSent
<1>2. spoilt \subseteq spoilt' /\ (seq_send = 0 => conn_remote \in spoilt')
      /\ (seq_send # 0 => spoilt' = spoilt)
  BY <1>1 DEF Overtaken
<1>3. CASE ~(Met /\ Clean')
  <2>1. \E x : Answer(x) /\ x.conn = conn_remote
    BY <1>1
  <2>. QED  BY <1>1, <1>2, <1>3, <2>1, ApartStep
<1>4. CASE Met /\ Clean'
  <2>1. seq_send # 0 /\ spoilt' = spoilt /\ Clean /\ Talking
    BY <1>1, <1>2, <1>4 DEF Met, Clean, Talking, receiverVars
  <2>2. /\ seq_recv = succ(seq_send) /\ ~Waiting
        /\ \A x \in In(toSender) : x.kind = "RiAck" => x.seq = seq_send
    BY <1>1, <2>1 DEF TransferInv, StepOK, AcksOK
  <2>3. \A x \in In(toReceiver) : x.conn = conn_local /\ Data(x) => x.seq # seq_recv
    <3>1. \A x : Data(x) => x # None
      BY DEF Data, None
    <3>. QED  BY <1>1, <1>4, <2>1, <3>1 DEF TransferInv, DataOK, Met
  <2>4. Goes(toReceiver', toReceiver, {outstanding'}) /\ Goes(toSender', toSender, {})
    BY <1>1, Facts, Queues DEF Answer
  <2>. QED  BY <1>1, <2>1, <2>2, <2>3, <2>4, NextTransfer
<1>. QED  BY <1>3, <1>4

LEMMA ShutdownStep == ASSUME TransferInv, IdInv', shutdown PROVE TransferInv'
<1>. DEFINE r == Rd(conn_remote, succ(seq_send))
<1>1. /\ sender # "Unconnected" /\ sender' = "WaitRdAck" /\ Answer(r)
      /\ UNCHANGED <<conn_remote, receiverVars, spoilt, toSender>>
  BY DEF shutdown, send_sequenced, history
<1>2. ~Data(r)
  BY DEF Data, Rd
<1>3. ~Talking'
  BY <1>1 DEF Talking
<1>. HIDE DEF r
<1>. QED  BY <1>1, <1>2, <1>3, SilentStep

LEMMA InitTransfer == ASSUME NoWrap, Init PROVE TransferInv
<1>1. IdInv
  BY InitIds
<1>2. In(toSender) = {} /\ In(toReceiver) = {}
  BY DEF Init, In
<1>3. AppliedOK
  BY DEF Init, AppliedOK, Latest, None
<1>4. receiver = "Unconnected" /\ ~Talking
  BY DEF Init, Met, Talking
<1>5. Sorted /\ AsksOK /\ EarlyOK /\ DataOK /\ AcksOK /\ StepOK
  BY <1>2, <1>4 DEF Init, Sorted, AsksOK, EarlyOK, DataOK, AcksOK, StepOK
<1>. QED  BY <1>1, <1>3, <1>5 DEF TransferInv

LEMMA NextTransferInv == ASSUME NoWrap, TransferInv, [Next]_vars PROVE TransferInv' /\ IdInv'
<1>1. IdInv'
  BY NextIds DEF TransferInv
<1>2. CASE UNCHANGED vars
  BY <1>1, <1>2, QuietStep DEF vars, senderVars, history
<1>3. CASE Next
  <2>1. CASE Open
    BY <1>1, <2>1, OpenStep
  <2>2. CASE \/ OpenRspArrives \/ RdArrives \/ TickleAckArrives
             \/ OpeningTimeout \/ GoneQuiet \/ TickleTimeout \/ ping \/ ReceiverRestarts
    BY <1>1, <2>2, ReceiverSteps
  <2>3. CASE RiRspArrives \/ RiUpdArrives
    BY <1>1, <2>3, HeardData
  <2>5. CASE \/ ReceiverDiscards \/ TickleArrives \/ SenderDiscards \/ LoseToSender \/ LoseToReceiver
             \/ HomeChanges
    BY <1>1, <2>5, QuietSteps
  <2>6. CASE open_req
    BY <1>1, <2>6, OpenReqStep
  <2>7. CASE RiReqArrives
    BY <1>1, <2>7, RiReqStep
  <2>8. CASE ri_ack
    BY <1>1, <2>8, RiAckStep
  <2>9. CASE SenderTimeout
    BY <1>1, <2>9, SenderTimeoutStep
  <2>10. CASE SendUpdate \/ ProbeThisWay
    BY <1>1, <2>10, UpdateStep
  <2>12. CASE shutdown
    BY <1>1, <2>12, ShutdownStep
  <2>13. CASE SenderRestarts
    BY <1>1, <2>13, CloseSenderStep DEF SenderRestarts, history
  <2>. QED  BY <1>1, <1>3, <2>1, <2>2, <2>3, <2>5, <2>6, <2>7, <2>8, <2>9, <2>10, <2>12, <2>13
            DEF Next, ReceiverTakes, SenderTakes
<1>. QED  BY <1>1, <1>2, <1>3

\* The two ends of a connection do not get out of step: what is outstanding is
\* what the receiver waits for, or has just had (check_seq, send_sequenced and
\* ri_ack, whatever the network loses and the timers repeat, and whenever the
\* routes change); but of a connection in which the sender began its numbers
\* again, by an update before its RI-Req or an RI-Req to a changed export.
THEOREM EndsInStep == ASSUME NoWrap PROVE Spec => []InStep
<1>1. Init => TransferInv
  BY InitTransfer
<1>2. TransferInv /\ [Next]_vars => TransferInv'
  BY NextTransferInv
<1>3. TransferInv => InStep
  <2>. SUFFICES ASSUME TransferInv, Linked, conn_local \notin spoilt,
                       outstanding.kind \in {"RiRsp", "RiUpd"}
                PROVE  outstanding.seq \in {seq_recv, pred(seq_recv)}
    BY DEF InStep
  <2>1. Met /\ Clean /\ Data(outstanding) /\ outstanding # None
    BY TalkingFacts DEF Met, Clean, Linked, ReceiverOpen, Data
  <2>2. Talking /\ outstanding.seq = seq_send
    BY <2>1, TalkingFacts DEF TransferInv, IdInv, StopAndWait
  <2>. QED  BY <2>2, TalkingFacts, Numbering DEF TransferInv, StepOK
<1>. QED  BY <1>1, <1>2, <1>3, PTL DEF Spec

-----------------------------------------------------------------------------
(* No change is lost.                                                       *)

\* e turns the stored distance v into s: added where nothing was, or changed,
\* or deleted, or left.
Follows(v, e, s) ==
    CASE e.code = "NA" -> v = Absent /\ s = e.dist + 1 /\ e.dist < 15
      [] e.code = "NDC" -> s = e.dist + 1 /\ e.dist < 15
      [] e.code \in {"ND", "NRC"} -> s = Absent
      [] OTHER -> s = v

EventType == [code : {"None", "NA", "ND", "NRC", "NDC"}, dist : Dists]
Val == 1..15 \cup {Absent}

\* The pages the receiver has yet to process, the one on its way among them.
Left == In(pages) \cup (IF seq_recv = seq_send THEN {outstanding.tuples} ELSE {})

\* The receiver will store v of n when what was sent of the export is through,
\* or when the update on its way is.
Carries(n, v) ==
    IF Waiting
    THEN /\ \A p \in Left : p[n] # Absent => p[n] < 15 /\ p[n] + 1 = v
         /\ routes[n] = v \/ \E p \in Left : p[n] # Absent
    ELSE Coming(n, routes[n]) = v

\* What is pending makes the route of something that may have been stored; a
\* receiver still to get its export holds ghosts at most; and what a receiver
\* will store, changed by what is pending, is the sender's route.
PendingOK == \A n \in Net : \E v \in Val : Follows(v, pending[n], Stored(n))
RoutesOK == receiver # "Unconnected" /\ Clean /\ Early =>
    \A n \in Net : routes[n] # Absent => n \in ghosts
ChangesOK == Talking =>
    \A n \in Net \ ghosts : \E v \in Val : Follows(v, pending[n], Stored(n)) /\ Carries(n, v)
ChangesInv == PendingOK /\ RoutesOK /\ ChangesOK

\* What a following event makes of the stored distance is the route.
LEMMA FollowsApplies ==
    ASSUME NEW v, NEW e \in EventType, NEW s \in 1..15 \cup {Absent}, Follows(v, e, s)
    PROVE  apply(v, e) = s
<1>1. e.dist \in 0..15 /\ e.code \in {"None", "NA", "ND", "NRC", "NDC"}
  BY DEF EventType, Dists
<1>. QED  BY <1>1 DEF Follows, apply, Absent

\* A change of the route queued behind what is pending.
StoredOf(r) == IF Exported(r) THEN r.dist + 1 ELSE Absent
LEMMA QueueFollows ==
    ASSUME NEW v, NEW p \in EventType, NEW old \in Routes, NEW new \in Routes,
           \/ new.zoned = (old.zoned /\ new.via # "None")
           \/ new = [old EXCEPT !.zoned = TRUE] /\ ~old.zoned,
           Follows(v, p, StoredOf(old))
    PROVE  Follows(v, queue(p, route_changed(old, new)), StoredOf(new))
<1>1. /\ old.via \in {"None", "Port", "Peer"} /\ old.dist \in 0..15 /\ old.zoned \in BOOLEAN
      /\ new.via \in {"None", "Port", "Peer"} /\ new.dist \in 0..15 /\ new.zoned \in BOOLEAN
      /\ p.code \in {"None", "NA", "ND", "NRC", "NDC"} /\ p.dist \in 0..15
  BY DEF Routes, EventType, Dists
<1>2. \/ new.zoned => old.zoned
      \/ new.via = old.via /\ new.dist = old.dist /\ new.zoned /\ ~old.zoned
  BY <1>1 DEF Routes
<1>. DEFINE e == route_changed(old, new)
<1>3. \/ e = NoEvent /\ StoredOf(new) = StoredOf(old)
      \/ e.code = "NA" /\ StoredOf(old) = Absent /\ StoredOf(new) = e.dist + 1 /\ e.dist < 15
      \/ e.code \in {"ND", "NRC"} /\ StoredOf(new) = Absent
      \/ e.code = "NDC" /\ StoredOf(old) # Absent /\ StoredOf(new) = e.dist + 1 /\ e.dist < 15
  BY <1>1, <1>2 DEF route_changed, StoredOf, Exported, Local, Event, NoEvent, Absent
<1>4. e \in EventType
  BY EventTypes DEF EventType
<1>. HIDE DEF e
<1>5. NoEvent.code = "None" /\ \A c, d : Event(c, d).code = c /\ Event(c, d).dist = d
  BY DEF NoEvent, Event
<1>6. CASE e = NoEvent
  <2>1. Follows(v, queue(p, e), StoredOf(new))
    BY <1>3, <1>5, <1>6 DEF queue, Follows
  <2>. QED  BY <2>1 DEF e
<1>7. CASE e # NoEvent
  <2>1. Follows(v, queue(p, e), StoredOf(new))
    BY <1>1, <1>3, <1>4, <1>5, <1>7 DEF queue, Follows, EventType, Dists, Absent
  <2>. QED  BY <2>1 DEF e
<1>. QED  BY <1>6, <1>7

LEMMA StoredTypes ==
    ASSUME TypeOK
    PROVE  \A n \in Net : /\ home[n] \in Routes /\ pending[n] \in EventType
                          /\ Stored(n) = StoredOf(home[n]) /\ Stored(n) \in 1..15 \cup {Absent}
                          /\ Export[n] # Absent => Export[n] < 15 /\ Stored(n) = Export[n] + 1
                          /\ Export[n] = Absent => Stored(n) = Absent
<1>. SUFFICES ASSUME NEW n \in Net
              PROVE  /\ home[n] \in Routes /\ pending[n] \in EventType
                     /\ Stored(n) = StoredOf(home[n]) /\ Stored(n) \in 1..15 \cup {Absent}
                     /\ Export[n] # Absent => Export[n] < 15 /\ Stored(n) = Export[n] + 1
                     /\ Export[n] = Absent => Stored(n) = Absent
  OBVIOUS
<1>1. home[n] \in Routes /\ pending[n] \in EventType
  BY HomeAssumption DEF TypeOK, Events, EventType
<1>2. home[n].dist \in 0..15
  BY <1>1 DEF Routes, Dists
<1>3. Export[n] = IF Exported(home[n]) THEN home[n].dist ELSE Absent
  BY DEF Export
<1>4. Exported(home[n]) => home[n].dist < 15
  BY DEF Exported, Local
<1>. HIDE DEF Export
<1>. QED  BY <1>1, <1>2, <1>3, <1>4 DEF Stored, StoredOf, Absent

\* An event that follows makes the route of whatever is stored.
LEMMA EventMakes ==
    ASSUME NEW v, NEW e \in EventType, NEW s \in Val, Follows(v, e, s), e.code # "None", NEW d
    PROVE  apply(d, e) = s
<1>1. e.dist \in 0..15 /\ e.code \in {"NA", "ND", "NRC", "NDC"}
  BY DEF EventType, Dists
<1>. QED  BY <1>1 DEF Follows, apply, Absent

LEMMA NothingPends == \A s : \A n \in Net : NoEvents[n].code = "None" /\ Follows(s, NoEvents[n], s)
BY DEF NoEvents, NoEvent, Event, Follows

\* The first of a queue and what follows.
LEMMA InSplit ==
    ASSUME NEW P, NEW q \in Seq(P)
    PROVE  /\ q # <<>> => In(q) = {Head(q)} \cup In(Tail(q))
           /\ q = <<>> => In(q) = {}
<1>1. ASSUME q # <<>> PROVE In(q) = {Head(q)} \cup In(Tail(q))
  <2>. DEFINE r == Tail(q)
  <2>1. /\ Len(q) \in Nat \ {0} /\ DOMAIN q = 1..Len(q) /\ DOMAIN r = 1..(Len(q) - 1)
        /\ \A i \in 1..(Len(q) - 1) : r[i] = q[i + 1]
        /\ Head(q) = q[1]
    BY <1>1
  <2>. HIDE DEF r
  <2>2. \A i \in DOMAIN q : q[i] = Head(q) \/ (i - 1 \in DOMAIN r /\ r[i - 1] = q[i])
    BY <2>1
  <2>3. \A i \in DOMAIN r : i + 1 \in DOMAIN q /\ r[i] = q[i + 1]
    BY <2>1
  <2>4. 1 \in DOMAIN q
    BY <2>1
  <2>. QED  BY <2>1, <2>2, <2>3, <2>4 DEF In, r
<1>2. ASSUME q = <<>> PROVE In(q) = {}
  BY <1>2 DEF In
<1>. QED  BY <1>1, <1>2

\* More of something gives no fewer full pages.
LEMMA Quotients ==
    ASSUME NEW P \in Nat \ {0}, NEW a \in Nat, NEW b \in Nat, a <= b
    PROVE  a \div P \in Nat /\ b \div P \in Nat /\ a \div P <= b \div P
<1>. DEFINE x == a \div P
            y == b \div P
<1>1. x \in Nat /\ y \in Nat
  OBVIOUS
<1>2. a >= P * x /\ b < P * y + P
  OBVIOUS
<1>. HIDE DEF x, y
<1>3. ASSUME x > y PROVE FALSE
  <2>1. PICK d \in Nat : x = y + 1 + d
    <3>1. x - y - 1 \in Nat /\ x = y + 1 + (x - y - 1)
      BY <1>1, <1>3
    <3>. QED  BY <3>1
  <2>2. P * x = P * y + P + P * d
    BY <1>1, <2>1
  <2>3. P * d \in Nat /\ P * y \in Nat /\ P * x \in Nat
    BY <1>1, <2>1
  <2>. QED  BY <1>2, <2>2, <2>3
<1>4. x <= y
  BY <1>1, <1>3
<1>. QED  BY <1>1, <1>4 DEF x, y

\* The pages of an export carry all of it and nothing else.
LEMMA PagesCover ==
    ASSUME NEW t \in Tuples
    PROVE  \A n \in Net :
              /\ \A p \in In(split_tuples(t)) : p[n] \in {Absent, t[n]}
              /\ t[n] # Absent => \E p \in In(split_tuples(t)) : p[n] # Absent
<1>. DEFINE C == {m \in Net : t[m] # Absent}
            count == Cardinality(C)
            last == IF count = 0 THEN 0 ELSE (count - 1) \div PageSize
            s == split_tuples(t)
<1>1. s = [i \in 1..last + 1 |-> Page(t, i - 1)]
  BY DEF split_tuples
<1>2. IsFiniteSet(C) /\ count \in Nat /\ PageSize \in Nat \ {0}
  <2>1. IsFiniteSet(C)
    BY NetsAssumption, FS_Subset
  <2>. QED  BY <2>1, FS_CardinalityType, NumbersAssumption
<1>3. last \in Nat
  <2>1. count # 0 => count - 1 \in Nat
    BY <1>2
  <2>2. count # 0 => (count - 1) \div PageSize \in Nat
    BY <1>2, <2>1, Quotients
  <2>. QED  BY <2>2
<1>. SUFFICES ASSUME NEW n \in Net
              PROVE  /\ \A p \in In(s) : p[n] \in {Absent, t[n]}
                     /\ t[n] # Absent => \E p \in In(s) : p[n] # Absent
  OBVIOUS
<1>4. \A k : Page(t, k)[n] \in {Absent, t[n]}
  BY DEF Page
<1>5. \A p \in In(s) : p[n] \in {Absent, t[n]}
  <2>. HIDE DEF last
  <2>. QED  BY <1>1, <1>4 DEF In
<1>6. ASSUME t[n] # Absent PROVE \E p \in In(s) : p[n] # Absent
  <2>. DEFINE B == {m \in Net : m < n /\ t[m] # Absent}
              k == Cardinality(B) \div PageSize
  <2>1. n \in C /\ B \subseteq C \ {n}
    BY <1>6, NetsAssumption
  <2>2. IsFiniteSet(C \ {n}) /\ Cardinality(C \ {n}) = count - 1
    BY <1>2, <2>1, FS_RemoveElement
  <2>3. IsFiniteSet(B) /\ Cardinality(B) \in Nat /\ Cardinality(B) <= count - 1
    BY <2>1, <2>2, FS_Subset, FS_CardinalityType
  <2>4. count # 0 /\ count - 1 \in Nat
    BY <1>2, <2>3
  <2>. HIDE DEF B, C
  <2>5. k \in Nat /\ k <= (count - 1) \div PageSize
    BY <1>2, <2>3, <2>4, Quotients
  <2>6. k \in Nat /\ k <= last
    BY <2>4, <2>5
  <2>7. Page(t, k)[n] = t[n]
    BY <1>6 DEF Page, B
  <2>. HIDE DEF last, k, count
  <2>8. k + 1 \in 1..last + 1 /\ (k + 1) - 1 = k
    BY <1>3, <2>6
  <2>9. s[k + 1] = Page(t, k) /\ k + 1 \in DOMAIN s
    BY <1>1, <2>8
  <2>10. Page(t, k) \in In(s)
    BY <2>9 DEF In
  <2>. QED  BY <1>6, <2>7, <2>10
<1>. QED  BY <1>5, <1>6

\* What the histories keep of the steps that leave their subject.
LEMMA CarriesStays ==
    ASSUME UNCHANGED <<routes, outstanding, seq_recv, seq_send, pages>>, Waiting' <=> Waiting
    PROVE  \A n, v : Carries(n, v)' <=> Carries(n, v)
BY DEF Carries, Left, In, Coming

LEMMA StoredStays == ASSUME UNCHANGED home PROVE \A n : Stored(n)' = Stored(n)
BY DEF Stored, Export

LEMMA PendingStays ==
    ASSUME TypeOK, PendingOK, UNCHANGED home, pending' = pending \/ pending' = NoEvents
    PROVE  PendingOK'
<1>1. \A n \in Net : Stored(n)' = Stored(n) /\ Stored(n) \in Val
  BY StoredStays, StoredTypes DEF Val
<1>. QED  BY <1>1, NothingPends DEF PendingOK

LEMMA RoutesStay ==
    ASSUME RoutesOK, UNCHANGED <<routes, ghosts>>,
           receiver' # "Unconnected" /\ Clean' /\ Early' => receiver # "Unconnected" /\ Clean /\ Early
    PROVE  RoutesOK'
BY DEF RoutesOK

LEMMA ChangesStay ==
    ASSUME ChangesOK, UNCHANGED <<pending, home, ghosts>>, Talking' => Talking,
           Talking /\ Talking' => \A v \in Val : \A n \in Net : Carries(n, v) => Carries(n, v)'
    PROVE  ChangesOK'
<1>. SUFFICES ASSUME Talking', NEW n \in Net \ ghosts
              PROVE  \E v \in Val : (Follows(v, pending[n], Stored(n)))' /\ Carries(n, v)'
  BY DEF ChangesOK
<1>1. PICK v \in Val : Follows(v, pending[n], Stored(n)) /\ Carries(n, v)
  BY DEF ChangesOK
<1>2. Follows(v, pending[n], Stored(n))' <=> Follows(v, pending[n], Stored(n))
  BY StoredStays DEF Follows
<1>3. Carries(n, v)'
  BY <1>1
<1>. QED  BY <1>1, <1>2, <1>3

\* No step makes a connection early again but an opening.
LEMMA EarlyStays ==
    ASSUME UNCHANGED conn_local,
           receiver' = "WaitOpenRsp" => Early,
           \A m \in In(toSender') : m.kind = "OpenReq" => m \in In(toSender) \/ Early,
           Met' /\ sender' = "Connected" /\ seq_send' = 0 => Early
    PROVE  Early' => Early
BY DEF Early

LEMMA OpenChanges == ASSUME TransferInv, ChangesInv, Open PROVE ChangesInv'
<1>1. /\ receiver = "Unconnected" /\ receiver' = "WaitOpenRsp"
      /\ UNCHANGED <<conn_local, routes, senderVars, home>>
      /\ ghosts' = {n \in Net : routes[n] # Absent}
  BY DEF Open
<1>2. ~Talking'
  <2>1. conn_remote <= conn_local - 1 /\ conn_remote \in Int /\ conn_local \in Int
    BY <1>1, Facts, NumbersAssumption DEF Latest, Conns, Numbers
  <2>. QED  BY <1>1, <2>1 DEF Talking, Met, senderVars
<1>3. PendingOK'
  BY <1>1, Facts, PendingStays DEF ChangesInv, senderVars
<1>4. RoutesOK'
  BY <1>1 DEF RoutesOK
<1>. QED  BY <1>2, <1>3, <1>4 DEF ChangesInv, ChangesOK

\* A receiver that closes,
LEMMA CloseChanges ==
    ASSUME TransferInv, ChangesInv, receiver' = "Unconnected", UNCHANGED <<pending, home>>
    PROVE  ChangesInv'
<1>1. PendingOK'
  BY Facts, PendingStays DEF ChangesInv
<1>2. ~Talking'
  BY DEF Talking, Met
<1>. QED  BY <1>1, <1>2 DEF ChangesInv, ChangesOK, RoutesOK

\* or goes on without data.
LEMMA GoesOnChanges ==
    ASSUME TransferInv, ChangesInv,
           UNCHANGED <<senderVars, home, history, conn_local, routes, seq_recv>>,
           receiver # "Unconnected", Waiting' <=> Waiting,
           receiver' = "WaitOpenRsp" => receiver = "WaitOpenRsp",
           \/ UNCHANGED toSender
           \/ \E m : Ask(m) /\ (m.kind = "OpenReq" => receiver = "WaitOpenRsp")
    PROVE  ChangesInv'
<1>1. PendingOK'
  BY Facts, PendingStays DEF ChangesInv, senderVars
<1>2. /\ Talking' => Talking
      /\ Clean' <=> Clean
      /\ Met' => Met
  BY DEF Talking, Met, Clean, senderVars, history
<1>3. \A m \in In(toSender') : m.kind = "OpenReq" => m \in In(toSender) \/ Early
  <2>1. CASE UNCHANGED toSender
    BY <2>1 DEF In
  <2>2. CASE \E m : Ask(m) /\ (m.kind = "OpenReq" => receiver = "WaitOpenRsp")
    <3>1. PICK m : Ask(m) /\ (m.kind = "OpenReq" => receiver = "WaitOpenRsp")
      BY <2>2
    <3>2. Goes(toSender', toSender, {m})
      BY <3>1, Facts, Queues DEF Ask
    <3>. QED  BY <3>1, <3>2 DEF Goes, Early
  <2>. QED  BY <2>1, <2>2
<1>4. Early' => Early
  <2>1. receiver' = "WaitOpenRsp" => Early
    BY DEF Early
  <2>2. Met' /\ sender' = "Connected" /\ seq_send' = 0 => Early
    BY <1>2 DEF Early, senderVars
  <2>. QED  BY <1>3, <2>1, <2>2, EarlyStays
<1>5. RoutesOK'
  BY <1>2, <1>4, RoutesStay DEF ChangesInv, history
<1>6. ChangesOK'
  <2>1. \A n, v : Carries(n, v)' <=> Carries(n, v)
    BY CarriesStays DEF senderVars
  <2>. QED  BY <1>2, <2>1, ChangesStay DEF ChangesInv, senderVars, history
<1>. QED  BY <1>1, <1>5, <1>6 DEF ChangesInv

\* The receiver takes a page of its export, or an update.
LEMMA TakenChanges ==
    ASSUME TransferInv, TransferInv', ChangesOK, Talking, UNCHANGED <<senderVars, home, history, conn_local>>,
           NEW m \in In(toReceiver), m.conn = conn_local, Data(m), m \in Sequenced, ReceiverOpen,
           m.seq = seq_recv, seq_recv' = succ(seq_recv), m = outstanding, seq_send = seq_recv, Talking',
           m.kind = "RiRsp" => routes' = [n \in Net |-> learned(routes[n], m.tuples[n])],
           m.kind = "RiUpd" => routes' = [n \in Net |-> apply(routes[n], m.events[n])],
           NEW n \in Net, NEW v \in Val, Carries(n, v)
    PROVE  Carries(n, v)'
<1>1. /\ outstanding # None /\ seq_recv \in Numbers /\ seq_recv' # seq_recv /\ seq_recv' # seq_send'
      /\ StopAndWait /\ sender \in {"WaitRiRspAck", "WaitRiUpdAck"}
  BY Facts, Numbering, NoneIsNoPacket DEF senderVars, StopAndWait, Talking
<1>2. CASE m.kind = "RiUpd"
  <2>1. sender = "WaitRiUpdAck" /\ ~Waiting /\ ~Waiting'
    BY <1>1, <1>2 DEF StopAndWait, TransferInv, StepOK, senderVars
  <2>2. Coming(n, routes[n]) = routes'[n]
    BY <1>2 DEF Coming
  <2>3. Coming(n, routes[n])' = routes'[n]
    BY <1>1 DEF Coming, senderVars
  <2>. QED  BY <2>1, <2>2, <2>3 DEF Carries
<1>3. CASE m.kind = "RiRsp"
  <2>1. sender = "WaitRiRspAck" /\ Waiting
    BY <1>1, <1>3 DEF StopAndWait, TransferInv, StepOK
  <2>2. Waiting' <=> pages # <<>>
    BY <1>1, <2>1 DEF TransferInv, StepOK, senderVars
  <2>3. /\ \A p \in In(pages) \cup {m.tuples} : p[n] # Absent => p[n] < 15 /\ p[n] + 1 = v
        /\ routes[n] = v \/ \E p \in In(pages) \cup {m.tuples} : p[n] # Absent
    BY <2>1 DEF Carries, Left
  <2>4. routes'[n] = learned(routes[n], m.tuples[n])
    BY <1>3
  <2>5. m.tuples[n] # Absent => routes'[n] = v
    BY <2>3, <2>4 DEF learned
  <2>6. m.tuples[n] = Absent => routes'[n] = routes[n]
    BY <2>4 DEF learned, Absent
  <2>7. CASE pages # <<>>
    <3>1. Left' = In(pages)
      BY <1>1 DEF Left, In, senderVars
    <3>2. routes'[n] = v \/ \E p \in In(pages) : p[n] # Absent
      BY <2>3, <2>5, <2>6
    <3>. QED  BY <2>2, <2>3, <2>7, <3>1, <3>2 DEF Carries
  <2>8. CASE pages = <<>>
    <3>1. In(pages) = {}
      BY <2>8 DEF In
    <3>2. routes'[n] = v
      BY <2>3, <2>5, <2>6, <3>1
    <3>3. Coming(n, routes[n])' = routes'[n]
      BY <1>3 DEF Coming, senderVars
    <3>. QED  BY <2>2, <2>8, <3>2, <3>3 DEF Carries
  <2>. QED  BY <2>7, <2>8
<1>. QED  BY <1>2, <1>3 DEF Data

LEMMA HeardChanges ==
    ASSUME NoWrap, TransferInv, IdInv', ChangesInv, RiRspArrives \/ RiUpdArrives
    PROVE  ChangesInv'
<1>1. PICK m \in In(toReceiver) :
         /\ m.conn = conn_local /\ Data(m) /\ ReceiverOpen /\ m \in Sequenced
         /\ UNCHANGED <<senderVars, home, history, budget>>
         /\ toReceiver # <<>> /\ toReceiver' = Tail(toReceiver)
         /\ \/ /\ m.seq = seq_recv /\ seq_recv' = succ(seq_recv) /\ applied' = m
               /\ UNCHANGED conn_local
               /\ m.kind = "RiRsp" => routes' = [n \in Net |-> learned(routes[n], m.tuples[n])]
               /\ m.kind = "RiUpd" => routes' = [n \in Net |-> apply(routes[n], m.events[n])]
               /\ receiver' \in {"Connected", receiver}
               /\ Talking => m = outstanding /\ seq_send = seq_recv
            \/ UNCHANGED receiverVars
            \/ receiver' = "Unconnected" /\ UNCHANGED <<routes, applied>>
  BY HeardData
<1>2. TransferInv'
  BY HeardData
<1>3. CASE receiver' = "Unconnected"
  BY <1>1, <1>3, CloseChanges DEF senderVars
<1>4. ASSUME receiver' # "Unconnected", UNCHANGED conn_local PROVE PendingOK' /\ (Talking' => Talking) /\ (Clean' <=> Clean)
  BY <1>1, <1>4, Facts, PendingStays DEF ChangesInv, senderVars, history, Talking, Met, Clean, ReceiverOpen
<1>5. \A x \in In(toSender') : x.kind = "OpenReq" => x \in In(toSender)
  <2>1. CASE Goes(toSender', toSender, {})
    BY <2>1 DEF Goes
  <2>2. CASE \E s : toSender' = Append(toSender, RiAck(conn_local, s))
    <3>1. PICK s : toSender' = Append(toSender, RiAck(conn_local, s))
      BY <2>2
    <3>2. Goes(toSender', toSender, {RiAck(conn_local, s)})
      BY <3>1, Facts, Queues
    <3>. QED  BY <3>2, PacketFacts DEF Goes
  <2>3. \/ UNCHANGED toSender
        \/ \E s : toSender' = Append(toSender, RiAck(conn_local, s))
    BY DEF RiRspArrives, RiUpdArrives, check_seq, Ask
  <2>. QED  BY <2>1, <2>2, <2>3, Facts, Queues
<1>6. ASSUME receiver' # "Unconnected", UNCHANGED conn_local,
             receiver' = receiver \/ receiver' = "Connected"
      PROVE  Early' => Early
  <2>1. receiver' = "WaitOpenRsp" => Early
    BY <1>6 DEF Early
  <2>2. Met' /\ sender' = "Connected" /\ seq_send' = 0 => Early
    BY <1>1, <1>6 DEF Early, Met, senderVars, ReceiverOpen
  <2>. QED  BY <1>5, <1>6, <2>1, <2>2, EarlyStays
<1>7. CASE UNCHANGED receiverVars /\ receiver' # "Unconnected"
  <2>1. PendingOK' /\ (Talking' => Talking) /\ (Clean' <=> Clean) /\ (Early' => Early)
    BY <1>4, <1>6, <1>7 DEF receiverVars
  <2>2. RoutesOK'
    BY <1>1, <1>7, <2>1, RoutesStay DEF ChangesInv, history, receiverVars
  <2>3. \A n, v : Carries(n, v)' <=> Carries(n, v)
    BY <1>1, <1>7, CarriesStays DEF senderVars, receiverVars, Waiting
  <2>4. ChangesOK'
    BY <1>1, <2>1, <2>3, ChangesStay DEF ChangesInv, senderVars, history
  <2>. QED  BY <2>1, <2>2, <2>4 DEF ChangesInv
<1>8. CASE /\ m.seq = seq_recv /\ seq_recv' = succ(seq_recv)
           /\ UNCHANGED conn_local /\ receiver' # "Unconnected"
           /\ m.kind = "RiRsp" => routes' = [n \in Net |-> learned(routes[n], m.tuples[n])]
           /\ m.kind = "RiUpd" => routes' = [n \in Net |-> apply(routes[n], m.events[n])]
           /\ receiver' \in {"Connected", receiver}
           /\ Talking => m = outstanding /\ seq_send = seq_recv
  <2>1. PendingOK' /\ (Talking' => Talking) /\ (Clean' <=> Clean) /\ (Early' => Early)
    BY <1>4, <1>6, <1>8
  <2>2. RoutesOK'
    <3>1. Clean => ~Early
      BY <1>1 DEF TransferInv, EarlyOK, Untouched, NoData, ReceiverOpen
    <3>. QED  BY <2>1, <3>1 DEF RoutesOK
  <2>3. ASSUME Talking, Talking', NEW v \in Val, NEW n \in Net, Carries(n, v) PROVE Carries(n, v)'
    <3>1. UNCHANGED <<senderVars, home, history, conn_local>> /\ m = outstanding /\ seq_send = seq_recv
      BY <1>1, <1>8, <2>3
    <3>. QED  BY <1>1, <1>2, <1>8, <2>3, <3>1, TakenChanges DEF ChangesInv
  <2>4. ChangesOK'
    BY <1>1, <2>1, <2>3, ChangesStay DEF ChangesInv, senderVars, history
  <2>. QED  BY <2>1, <2>2, <2>4 DEF ChangesInv
<1>. QED  BY <1>1, <1>3, <1>7, <1>8

LEMMA ReceiverChanges ==
    ASSUME NoWrap, TransferInv, IdInv', ChangesInv,
           \/ OpenRspArrives \/ RdArrives \/ TickleAckArrives
           \/ OpeningTimeout \/ GoneQuiet \/ TickleTimeout \/ ping \/ ReceiverRestarts
    PROVE  ChangesInv'
<1>1. UNCHANGED <<senderVars, pending, home, history>>
  BY DEF OpenRspArrives, RdArrives, TickleAckArrives, OpeningTimeout, GoneQuiet, TickleTimeout, ping,
         ReceiverRestarts, senderVars
<1>2. CASE receiver' = "Unconnected"
  BY <1>1, <1>2, CloseChanges
<1>3. ASSUME receiver' # "Unconnected"
      PROVE  /\ UNCHANGED <<conn_local, routes, seq_recv>> /\ receiver # "Unconnected"
             /\ Waiting' <=> Waiting
             /\ receiver' = "WaitOpenRsp" => receiver = "WaitOpenRsp"
             /\ \/ UNCHANGED toSender
                \/ \E m : Ask(m) /\ (m.kind = "OpenReq" => receiver = "WaitOpenRsp")
  <2>1. CASE OpenRspArrives
    <3>1. /\ receiver = "WaitOpenRsp" /\ receiver' = "WaitRiRsp" /\ seq_recv' = 1
          /\ UNCHANGED <<conn_local, routes>> /\ Ask(Transaction("RiReq", conn_local))
      BY <1>3, <2>1 DEF OpenRspArrives, close_receiver
    <3>2. seq_recv = 1
      BY <3>1 DEF TransferInv, AsksOK
    <3>. QED  BY <3>1, <3>2, PacketFacts DEF Waiting
  <2>2. CASE OpeningTimeout
    <3>1. /\ Ask(IF receiver = "WaitOpenRsp" THEN OpenReq(conn_local, TRUE)
                                             ELSE Transaction("RiReq", conn_local))
          /\ UNCHANGED <<conn_local, routes, seq_recv, receiver>>
      BY <1>3, <2>2 DEF OpeningTimeout, close_receiver
    <3>2. \E m : Ask(m) /\ (m.kind = "OpenReq" => receiver = "WaitOpenRsp")
      <4>1. CASE receiver = "WaitOpenRsp"
        BY <3>1, <4>1
      <4>2. CASE receiver # "WaitOpenRsp"
        BY <3>1, <4>2, PacketFacts
      <4>. QED  BY <4>1, <4>2
    <3>. QED  BY <1>3, <3>1, <3>2 DEF Waiting
  <2>3. CASE GoneQuiet \/ TickleTimeout \/ ping
    <3>1. /\ receiver \in {"Connected", "WaitTickleAck"} /\ receiver' = "WaitTickleAck"
          /\ UNCHANGED <<conn_local, routes, seq_recv>> /\ Ask(Transaction("Tickle", conn_local))
      BY <1>3, <2>3 DEF GoneQuiet, TickleTimeout, ping, close_receiver
    <3>. QED  BY <3>1, PacketFacts DEF Waiting
  <2>4. CASE TickleAckArrives
    BY <2>4 DEF TickleAckArrives, Waiting
  <2>5. CASE RdArrives \/ ReceiverRestarts
    BY <1>3, <2>5 DEF RdArrives, ReceiverRestarts, close_receiver
  <2>. QED  BY <2>1, <2>2, <2>3, <2>4, <2>5
<1>4. CASE receiver' # "Unconnected"
  BY <1>1, <1>3, <1>4, GoesOnChanges
<1>. QED  BY <1>2, <1>4

\* Packets are taken, lost and repeated.
LEMMA QuietChanges ==
    ASSUME TransferInv, ChangesInv, UNCHANGED <<receiverVars, history>>,
           UNCHANGED <<sender, conn_remote, seq_send, outstanding, pages, pending, home>>,
           Goes(toSender', toSender, {})
    PROVE  ChangesInv'
<1>1. PendingOK'
  BY Facts, PendingStays DEF ChangesInv
<1>2. (Talking' => Talking) /\ (Clean' <=> Clean) /\ (Met' <=> Met) /\ (Waiting' <=> Waiting)
  BY DEF Talking, Met, Clean, Waiting, receiverVars, history
<1>3. Early' => Early
  BY <1>2, EarlyStays DEF Goes, Early, receiverVars
<1>4. RoutesOK'
  BY <1>2, <1>3, RoutesStay DEF ChangesInv, history, receiverVars
<1>5. \A n, v : Carries(n, v)' <=> Carries(n, v)
  BY <1>2, CarriesStays DEF receiverVars
<1>6. ChangesOK'
  BY <1>2, <1>5, ChangesStay DEF ChangesInv, history
<1>. QED  BY <1>1, <1>4, <1>6 DEF ChangesInv

\* The sender leaves the connection, or starts it, or is not on the receiver's.
LEMMA SilentChanges ==
    ASSUME TransferInv, ChangesInv, UNCHANGED <<receiverVars, home, ghosts>>, ~Talking',
           spoilt \subseteq spoilt', pending' = pending \/ pending' = NoEvents,
           Goes(toSender', toSender, {}),
           Met' /\ Clean' /\ sender' = "Connected" /\ seq_send' = 0 => Early
    PROVE  ChangesInv'
<1>1. PendingOK'
  BY Facts, PendingStays DEF ChangesInv
<1>2. Clean' => Clean
  BY DEF Clean, receiverVars
<1>3. Clean' /\ Early' => Early
  BY DEF Early, Goes, receiverVars
<1>4. RoutesOK'
  BY <1>2, <1>3, RoutesStay DEF ChangesInv, receiverVars
<1>. QED  BY <1>1, <1>4 DEF ChangesInv, ChangesOK

LEMMA CloseSenderChanges ==
    ASSUME TransferInv, ChangesInv, close_sender, UNCHANGED <<receiverVars, home, history>>,
           Goes(toSender', toSender, {})
    PROVE  ChangesInv'
<1>1. ~Talking' /\ sender' # "Connected" /\ pending' = NoEvents
  BY DEF close_sender, Talking
<1>. QED  BY <1>1, SilentChanges DEF history

LEMMA OpenReqChanges == ASSUME TransferInv, ChangesInv, open_req PROVE ChangesInv'
<1>. DEFINE m == Head(toSender)
<1>1. /\ m.kind = "OpenReq" /\ UNCHANGED <<receiverVars, home, history>> /\ m \in In(toSender)
      /\ Goes(toSender', toSender, {})
  BY Facts, Queues DEF open_req, Asked, Taken
<1>2. CASE UNCHANGED senderVars
  BY <1>1, <1>2, QuietChanges DEF senderVars
<1>3. CASE /\ m.plain /\ sender # "Unconnected" /\ m.conn # conn_remote
           /\ sender' = "WaitRiUpdAck" /\ UNCHANGED <<conn_remote, pending>>
  <2>1. ~Met'
    BY <1>1, <1>3, Facts DEF Met, receiverVars
  <2>2. ~Talking'
    BY <2>1 DEF Talking
  <2>. QED  BY <1>1, <1>3, <2>1, <2>2, SilentChanges DEF history
<1>4. CASE /\ conn_remote' = m.conn /\ seq_send' = 0 /\ UNCHANGED pending
  <2>1. ~Talking'
    BY <1>4 DEF Talking
  <2>2. Met' => Early
    BY <1>1, <1>4 DEF Met, Early, receiverVars
  <2>. QED  BY <1>1, <1>4, <2>1, <2>2, SilentChanges DEF history
<1>. QED  BY <1>2, <1>3, <1>4 DEF open_req

\* The export: a network is a ghost from here on when its addition is pending, or
\* when the receiver has a route of it that is not exported.
LEMMA ExportChanges ==
    ASSUME TransferInv, TransferInv', ChangesInv, RiReqArrives, Talking', Met, Clean, seq_send = 0,
           UNCHANGED <<receiverVars, home, conn_remote, pending>>,
           Untouched, Early, receiver # "WaitOpenRsp", seq_recv = 1
    PROVE  ChangesOK'
<1>1. /\ send_page(split_tuples(Export), 1) /\ seq_send' = 1 /\ UNCHANGED routes
      /\ ghosts' = {n \in ghosts : Export[n] = Absent} \cup {n \in Net : pending[n].code = "NA"}
  BY ExportTuples, PageSent, Facts DEF RiReqArrives, Met, receiverVars
<1>2. Waiting'
  BY DEF Untouched, Waiting, receiverVars
<1>3. Left' = In(split_tuples(Export))
  <2>. DEFINE s == split_tuples(Export)
  <2>1. s \in Seq(Tuples) /\ s # <<>>
    BY ExportTuples, Facts
  <2>. HIDE DEF s
  <2>2. pages' = Tail(s) /\ outstanding'.tuples = Head(s)
    BY <1>1, <2>1, PageSent DEF s
  <2>3. In(pages)' = In(Tail(s)) /\ In(s) = {Head(s)} \cup In(Tail(s))
    BY <2>1, <2>2, InSplit DEF In
  <2>4. seq_recv' = seq_send'
    BY <1>1 DEF receiverVars
  <2>. QED  BY <2>2, <2>3, <2>4 DEF Left, s
<1>. SUFFICES ASSUME NEW n \in Net \ ghosts'
              PROVE  \E v \in Val : (Follows(v, pending[n], Stored(n)))' /\ Carries(n, v)'
  BY DEF ChangesOK
<1>4. /\ pending[n] \in EventType /\ Stored(n) \in Val
      /\ Export[n] # Absent => Export[n] < 15 /\ Stored(n) = Export[n] + 1
      /\ Export[n] = Absent => Stored(n) = Absent
  BY Facts, StoredTypes DEF Val
<1>5. pending[n].code # "NA" /\ (Export[n] = Absent => n \notin ghosts)
  BY <1>1
<1>6. Follows(Stored(n), pending[n], Stored(n))
  <2>1. PICK v \in Val : Follows(v, pending[n], Stored(n))
    BY DEF ChangesInv, PendingOK
  <2>. QED  BY <1>4, <1>5, <2>1 DEF Follows, EventType
<1>7. (Follows(Stored(n), pending[n], Stored(n)))'
  BY <1>6, StoredStays DEF Follows
<1>8. /\ \A p \in In(split_tuples(Export)) : p[n] \in {Absent, Export[n]}
      /\ Export[n] # Absent => \E p \in In(split_tuples(Export)) : p[n] # Absent
  <2>1. Export \in Tuples
    BY ExportTuples, Facts
  <2>. HIDE DEF Export
  <2>. QED  BY <2>1, PagesCover
<1>9. Export[n] = Absent => routes[n] = Absent
  BY <1>5 DEF ChangesInv, RoutesOK, Met
<1>. HIDE DEF Export
<1>10. /\ \A p \in Left' : p[n] # Absent => p[n] < 15 /\ p[n] + 1 = Stored(n)
       /\ routes[n] = Stored(n) \/ \E p \in Left' : p[n] # Absent
  BY <1>3, <1>4, <1>8, <1>9
<1>11. Stored(n)' = Stored(n)
  BY StoredStays
<1>12. \A v : v = Stored(n) => Carries(n, v)'
  BY <1>1, <1>2, <1>10 DEF Carries
<1>. QED
  <2>1. PICK v \in Val : v = Stored(n)
    BY <1>4
  <2>2. (Follows(v, pending[n], Stored(n)))'
    BY <1>7, <1>11, <2>1 DEF Follows
  <2>. QED  BY <1>12, <2>1, <2>2

LEMMA RiReqChanges ==
    ASSUME TransferInv, TransferInv', IdInv', ChangesInv, RiReqArrives PROVE ChangesInv'
<1>1. /\ UNCHANGED <<receiverVars, conn_remote, pending, home>>
      /\ sender \in {"Connected", "WaitRiRspAck", "WaitRiUpdAck"}
      /\ Goes(toSender', toSender, {}) /\ sender' = "WaitRiRspAck" /\ seq_send' = 1
      /\ spoilt' = spoilt \/ spoilt' = spoilt \cup {conn_remote}
      /\ seq_send = 0 => spoilt' = spoilt
      /\ conn_remote \notin spoilt' /\ seq_send # 0 =>
           UNCHANGED <<spoilt, ghosts, sender, seq_send, outstanding, pages>>
  BY RiReqCases
<1>2. ghosts' # ghosts => seq_send = 0 /\ conn_remote = conn_local
  BY DEF RiReqArrives
<1>3. CASE Met /\ Clean' /\ seq_send = 0
  <2>1. Clean
    BY <1>1, <1>3 DEF Clean, receiverVars
  <2>2. Untouched /\ Early /\ receiver # "WaitOpenRsp" /\ Talking' /\ seq_recv = 1
    <3>1. /\ Head(toSender) \in In(toSender) /\ Head(toSender).kind = "RiReq"
          /\ \A x \in In(toSender) : Before(Head(toSender), x, toSender)
          /\ Answer(outstanding') /\ outstanding' # None /\ outstanding'.seq = 1
          /\ outstanding'.last = (pages' = <<>>)
      BY RiReqCases
    <3>2. Goes(toReceiver', toReceiver, {outstanding'})
      BY <3>1, Facts, Queues DEF Answer
    <3>. QED  BY <1>1, <1>3, <2>1, <3>1, <3>2, ExportTransfer
  <2>3. ChangesOK'
    BY <1>1, <1>3, <2>1, <2>2, ExportChanges
  <2>4. RoutesOK'
    BY <2>2 DEF TransferInv, EarlyOK, RoutesOK
  <2>5. PendingOK'
    BY <1>1, Facts, PendingStays DEF ChangesInv
  <2>. QED  BY <2>3, <2>4, <2>5 DEF ChangesInv
<1>4. CASE Met /\ Clean' /\ seq_send # 0
  <2>1. UNCHANGED <<spoilt, ghosts, sender, seq_send, outstanding, pages>>
    BY <1>1, <1>4 DEF Met, Clean, receiverVars
  <2>. QED  BY <1>1, <2>1, QuietChanges DEF history
<1>5. CASE ~(Met /\ Clean')
  <2>1. ~Talking' /\ PendingOK'
    BY <1>1, <1>5, Facts, PendingStays DEF ChangesInv, Talking, Met, receiverVars
  <2>2. Clean' => Clean
    BY <1>1 DEF Clean, receiverVars
  <2>3. receiver' # "Unconnected" /\ Clean' => ghosts' = ghosts
    BY <1>1, <1>2, <1>5 DEF Met, receiverVars
  <2>4. Early' => Early
    BY <1>1 DEF Early, Goes, receiverVars
  <2>5. RoutesOK'
    BY <1>1, <2>2, <2>3, <2>4 DEF ChangesInv, RoutesOK, receiverVars
  <2>. QED  BY <2>1, <2>5 DEF ChangesInv, ChangesOK
<1>. QED  BY <1>3, <1>4, <1>5

LEMMA RiAckChanges ==
    ASSUME TransferInv, TransferInv', IdInv', ChangesInv, ri_ack PROVE ChangesInv'
<1>1. /\ Acked /\ Taken /\ UNCHANGED <<receiverVars, home, history>>
  BY DEF ri_ack
<1>2. /\ Goes(toSender', toSender, {}) /\ outstanding # None /\ outstanding.seq = seq_send
      /\ seq_send # 0
      /\ Met /\ Clean /\ sender \in {"WaitRiUpdAck", "WaitRiRspAck"} => Talking
      /\ Head(toSender) \in In(toSender) /\ Head(toSender).kind = "RiAck"
      /\ Head(toSender).seq = seq_send
      /\ \A x \in In(toSender) : Before(Head(toSender), x, toSender)
  BY <1>1, AckedMeans, Facts, NoneIsNoPacket, Numbering DEF TypeOK, StopAndWait
<1>3. CASE close_sender /\ UNCHANGED toReceiver
  BY <1>1, <1>2, <1>3, CloseSenderChanges
<1>4. CASE ~Talking' /\ UNCHANGED pending /\ seq_send' # 0
  BY <1>1, <1>2, <1>4, SilentChanges DEF history
<1>5. CASE /\ sender = "WaitRiRspAck" /\ pages # <<>> /\ Talking'
           /\ send_page(pages, succ(seq_send)) /\ UNCHANGED <<conn_remote, pending>>
  <2>1. pages \in Seq(Tuples)
    BY Facts DEF TypeOK
  <2>2. /\ seq_send' = succ(seq_send) /\ outstanding'.tuples = Head(pages) /\ pages' = Tail(pages)
    BY <1>5, <2>1, PageSent
  <2>3. Talking
    BY <1>1, <1>2, <1>5 DEF Talking, Met, Clean, receiverVars, history
  <2>4. seq_recv = succ(seq_send) /\ Waiting /\ seq_send # succ(seq_send)
    BY <1>2, <1>5, <2>3, AckTransfer
  <2>5. Waiting' /\ seq_recv' = seq_send' /\ UNCHANGED routes
    BY <1>1, <2>2, <2>4 DEF Waiting, receiverVars
  <2>6. Left' = Left
    <3>1. Left = In(pages)
      BY <2>4 DEF Left
    <3>2. Left' = In(pages') \cup {outstanding'.tuples}
      BY <2>5 DEF Left, In
    <3>3. In(pages) = {Head(pages)} \cup In(Tail(pages))
      BY <1>5, <2>1, InSplit
    <3>. QED  BY <2>2, <3>1, <3>2, <3>3
  <2>7. \A n, v : Carries(n, v) => Carries(n, v)'
    BY <2>4, <2>5, <2>6 DEF Carries
  <2>8. ChangesOK'
    BY <1>1, <1>5, <2>3, <2>7, ChangesStay DEF ChangesInv, history
  <2>9. RoutesOK'
    BY <1>5 DEF TransferInv, EarlyOK, RoutesOK
  <2>10. PendingOK'
    BY <1>1, <1>5, Facts, PendingStays DEF ChangesInv
  <2>. QED  BY <2>8, <2>9, <2>10 DEF ChangesInv
<1>6. CASE /\ sender = "WaitRiUpdAck" \/ (sender = "WaitRiRspAck" /\ pages = <<>>)
           /\ Talking' /\ outstanding' = None
           /\ UNCHANGED <<conn_remote, seq_send, pages, pending>>
  <2>1. Talking
    BY <1>1, <1>2, <1>6 DEF Talking, Met, Clean, receiverVars, history
  <2>2. seq_recv = succ(seq_send) /\ ~Waiting /\ seq_send # succ(seq_send)
    BY <1>2, <1>6, <2>1, AckTransfer
  <2>3. ~Waiting' /\ UNCHANGED routes
    BY <1>1, <2>2 DEF Waiting, receiverVars
  <2>4. \A n : Coming(n, routes[n])' = Coming(n, routes[n])
    BY <1>1, <1>2, <1>6, <2>2, <2>3 DEF Coming, None, receiverVars
  <2>5. \A n, v : Carries(n, v) => Carries(n, v)'
    BY <2>2, <2>3, <2>4 DEF Carries
  <2>6. ChangesOK'
    BY <1>1, <1>6, <2>1, <2>5, ChangesStay DEF ChangesInv, history
  <2>7. RoutesOK'
    BY <1>6 DEF TransferInv, EarlyOK, RoutesOK
  <2>8. PendingOK'
    BY <1>1, <1>6, Facts, PendingStays DEF ChangesInv
  <2>. QED  BY <2>6, <2>7, <2>8 DEF ChangesInv
<1>7. CASE send_page(pages, succ(seq_send)) /\ pages # <<>> /\ sender = "WaitRiRspAck"
           /\ UNCHANGED <<conn_remote, pending>>
  <2>1. pages \in Seq(Tuples) /\ seq_send \in Numbers
    BY <1>2, Facts DEF TypeOK, Conns, Numbers
  <2>2. seq_send' = succ(seq_send) /\ succ(seq_send) # 0
    BY <1>7, <2>1, PageSent, Numbering
  <2>. QED  BY <1>4, <1>5, <1>7, <2>2
<1>8. CASE /\ sender = "WaitRiUpdAck" \/ (sender = "WaitRiRspAck" /\ pages = <<>>)
           /\ outstanding' = None
           /\ UNCHANGED <<conn_remote, seq_send, pages, pending>>
  BY <1>2, <1>4, <1>6, <1>8
<1>. QED  BY <1>3, <1>7, <1>8 DEF ri_ack

\* What is pending goes out, or an empty update.
LEMMA UpdateChanges ==
    ASSUME TransferInv, TransferInv', IdInv', ChangesInv, SendUpdate \/ ProbeThisWay
    PROVE  ChangesInv'
<1>1. /\ sender = "Connected" /\ sender' = "WaitRiUpdAck" /\ outstanding = None
      /\ UNCHANGED <<conn_remote, pages, receiverVars, home, toSender>>
      /\ spoilt' = Overtaken
      /\ seq_send' = succ(seq_send) /\ outstanding'.kind = "RiUpd" /\ outstanding'.seq = seq_send'
  BY UpdateSent
<1>2. \/ /\ outstanding'.events = pending /\ pending' = NoEvents
         /\ ghosts' = IF conn_remote = conn_local THEN {n \in ghosts : pending[n].code = "None"}
                                                  ELSE ghosts
      \/ outstanding'.events = NoEvents /\ pending' = pending /\ ghosts' = ghosts
  <2>1. PICK e : /\ outstanding' = RiUpd(conn_remote, succ(seq_send), e)
                 /\ SendUpdate => e = pending /\ pending' = NoEvents
                 /\ ProbeThisWay => e = NoEvents /\ pending' = pending /\ ghosts' = ghosts
    BY UpdateSent
  <2>2. outstanding'.events = e
    BY <2>1, PacketFacts
  <2>. QED  BY <2>1, <2>2 DEF SendUpdate
<1>3. spoilt \subseteq spoilt' /\ (seq_send = 0 => conn_remote \in spoilt')
      /\ (seq_send # 0 => spoilt' = spoilt)
  BY <1>1 DEF Overtaken
<1>4. PendingOK'
  BY <1>1, <1>2, Facts, PendingStays DEF ChangesInv
<1>5. RoutesOK'
  <2>1. CASE Talking'
    BY <2>1 DEF TransferInv, EarlyOK, RoutesOK
  <2>2. CASE ~Talking'
    <3>1. receiver' # "Unconnected" /\ Clean' => ~Met
      <4>1. ASSUME receiver' # "Unconnected", Clean', Met PROVE FALSE
        <5>1. seq_send # 0 /\ seq_send \in Numbers
          BY <1>1, <1>3, <4>1, Facts DEF Clean, Met, Conns, Numbers, receiverVars
        <5>2. seq_send' # 0
          BY <1>1, <5>1, Numbering
        <5>. QED  BY <1>1, <2>2, <4>1, <5>2 DEF Talking, Met, receiverVars
      <4>. QED  BY <4>1
    <3>2. receiver' # "Unconnected" /\ Clean' => ghosts' = ghosts /\ Clean
      BY <1>1, <1>2, <1>3, <3>1 DEF Met, Clean, receiverVars
    <3>3. Early' => Early
      BY <1>1 DEF Early, In, receiverVars
    <3>. QED  BY <1>1, <3>2, <3>3 DEF ChangesInv, RoutesOK, receiverVars
  <2>. QED  BY <2>1, <2>2
<1>6. ChangesOK'
  <2>. SUFFICES ASSUME Talking', NEW n \in Net \ ghosts'
                PROVE  \E v \in Val : (Follows(v, pending[n], Stored(n)))' /\ Carries(n, v)'
    BY DEF ChangesOK
  <2>1. seq_send # 0 /\ Talking /\ Met
    BY <1>1, <1>3 DEF Talking, Met, Clean, receiverVars
  <2>2. seq_recv = succ(seq_send) /\ ~Waiting /\ ~Waiting'
    BY <1>1, <2>1 DEF TransferInv, StepOK, Waiting, receiverVars
  <2>3. /\ Stored(n)' = Stored(n) /\ Stored(n) \in Val /\ pending[n] \in EventType
        /\ Coming(n, routes[n])' = apply(routes[n], outstanding'.events[n])
        /\ Coming(n, routes[n]) = routes[n]
    BY <1>1, <2>2, Facts, StoredStays, StoredTypes DEF Coming, receiverVars, None, Val
  <2>4. n \notin ghosts => \E v \in Val : Follows(v, pending[n], Stored(n)) /\ routes[n] = v
    BY <2>1, <2>2, <2>3 DEF ChangesInv, ChangesOK, Carries
  <2>5. CASE /\ outstanding'.events = pending /\ pending' = NoEvents
             /\ ghosts' = IF conn_remote = conn_local THEN {i \in ghosts : pending[i].code = "None"}
                                                      ELSE ghosts
    <3>1. n \notin ghosts \/ pending[n].code # "None"
      BY <2>1, <2>5 DEF Met
    <3>2. apply(routes[n], pending[n]) = Stored(n)
      <4>1. CASE n \notin ghosts
        BY <2>3, <2>4, <4>1, FollowsApplies DEF Val
      <4>2. CASE pending[n].code # "None"
        <5>1. PICK v \in Val : Follows(v, pending[n], Stored(n))
          BY DEF ChangesInv, PendingOK
        <5>. QED  BY <2>3, <4>2, <5>1, EventMakes
      <4>. QED  BY <3>1, <4>1, <4>2
    <3>3. PICK v \in Val : v = Stored(n)
      BY <2>3
    <3>4. Carries(n, v)'
      BY <2>2, <2>3, <2>5, <3>2, <3>3 DEF Carries
    <3>5. (Follows(v, pending[n], Stored(n)))'
      BY <2>3, <2>5, <3>3, NothingPends DEF Follows
    <3>. QED  BY <3>4, <3>5
  <2>6. CASE outstanding'.events = NoEvents /\ pending' = pending /\ ghosts' = ghosts
    <3>1. PICK v \in Val : Follows(v, pending[n], Stored(n)) /\ routes[n] = v
      BY <2>4, <2>6
    <3>2. apply(routes[n], NoEvents[n]) = routes[n]
      BY NothingPends DEF apply
    <3>3. Carries(n, v)'
      BY <2>2, <2>3, <2>6, <3>1, <3>2 DEF Carries
    <3>4. (Follows(v, pending[n], Stored(n)))'
      BY <2>3, <2>6, <3>1 DEF Follows
    <3>. QED  BY <3>3, <3>4
  <2>. QED  BY <1>2, <2>5, <2>6
<1>. QED  BY <1>4, <1>5, <1>6 DEF ChangesInv

\* A change of one of the sender's routes.
LEMMA HomeQueues ==
    ASSUME TypeOK, TypeOK', StopAndWait, HomeChanges
    PROVE  \A n \in Net : \A v : Follows(v, pending[n], Stored(n)) =>
              \/ (Follows(v, pending[n], Stored(n)))'
              \/ sender = "Unconnected"
<1>1. PICK n \in Net, new \in HomeRoutes :
         /\ LET old == home[n]
            IN  \/ new.zoned = (old.zoned /\ new.via # "None")
                \/ new = [old EXCEPT !.zoned = TRUE] /\ ~old.zoned
         /\ home' = [home EXCEPT ![n] = new]
         /\ pending' = IF sender = "Unconnected" THEN pending
                       ELSE [pending EXCEPT ![n] = queue(@, route_changed(home[n], new))]
  BY DEF HomeChanges
<1>2. new \in Routes
  BY HomeAssumption
<1>3. \A i \in Net : Stored(i) = StoredOf(home[i]) /\ home[i] \in Routes /\ pending[i] \in EventType
  BY StoredTypes
<1>4. home \in [Net -> HomeRoutes] /\ pending \in [Net -> EventType]
  BY DEF TypeOK, Events, EventType
<1>5. \A i \in Net : Stored(i)' = StoredOf(home'[i])
  <2>. TAKE i \in Net
  <2>1. home'[i] \in Routes
    BY HomeAssumption DEF TypeOK
  <2>2. home'[i].dist \in 0..15
    BY <2>1 DEF Routes, Dists
  <2>3. Export'[i] = IF Exported(home'[i]) THEN home'[i].dist ELSE Absent
    BY DEF Export
  <2>4. Stored(i)' = IF Export'[i] = Absent THEN Absent ELSE Export'[i] + 1
    BY DEF Stored
  <2>5. Exported(home'[i]) => home'[i].dist < 15
    BY DEF Exported, Local
  <2>. QED  BY <2>2, <2>3, <2>4, <2>5 DEF StoredOf, Absent
<1>6. ASSUME NEW i \in Net, NEW v, Follows(v, pending[i], Stored(i)), sender # "Unconnected"
      PROVE  (Follows(v, pending[i], Stored(i)))'
  <2>1. Follows(v, pending[i], StoredOf(home[i]))
    BY <1>3, <1>6
  <2>2. Follows(v, pending'[i], StoredOf(home'[i]))
    <3>1. CASE i = n
      <4>1. home'[i] = new /\ pending'[i] = queue(pending[i], route_changed(home[i], new))
        BY <1>1, <1>4, <1>6, <3>1
      <4>2. \/ new.zoned = (home[i].zoned /\ new.via # "None")
            \/ new = [home[i] EXCEPT !.zoned = TRUE] /\ ~home[i].zoned
        BY <1>1, <3>1
      <4>. QED  BY <1>2, <1>3, <2>1, <4>1, <4>2, QueueFollows
    <3>2. CASE i # n
      <4>1. home'[i] = home[i] /\ pending'[i] = pending[i]
        BY <1>1, <1>4, <1>6, <3>2
      <4>. QED  BY <2>1, <4>1
    <3>. QED  BY <3>1, <3>2
  <2>3. Stored(i)' = StoredOf(home'[i])
    BY <1>5
  <2>. QED  BY <2>2, <2>3 DEF Follows
<1>. QED  BY <1>6

LEMMA HomeChangesKept ==
    ASSUME TransferInv, TransferInv', ChangesInv, HomeChanges PROVE ChangesInv'
<1>1. /\ UNCHANGED <<sender, conn_remote, seq_send, outstanding, pages, receiverVars,
                     toSender, toReceiver, history>>
  BY DEF HomeChanges
<1>2. \A n \in Net : \A v : Follows(v, pending[n], Stored(n)) =>
         \/ (Follows(v, pending[n], Stored(n)))'
         \/ sender = "Unconnected"
  BY HomeQueues, Facts DEF TransferInv, IdInv
<1>3. (Talking' <=> Talking) /\ (Waiting' <=> Waiting) /\ (Talking => sender # "Unconnected")
  BY <1>1 DEF Talking, Met, Clean, Waiting, receiverVars, history
<1>4. PendingOK'
  <2>1. CASE sender # "Unconnected"
    <3>. SUFFICES ASSUME NEW n \in Net PROVE \E v \in Val : (Follows(v, pending[n], Stored(n)))'
      BY DEF PendingOK
    <3>1. PICK v \in Val : Follows(v, pending[n], Stored(n))
      BY DEF ChangesInv, PendingOK
    <3>. QED  BY <1>2, <2>1, <3>1
  <2>2. CASE sender = "Unconnected"
    <3>1. pending' = NoEvents
      BY <1>1, <2>2 DEF TransferInv, IdInv, StopAndWait
    <3>2. \A n \in Net : Stored(n)' \in Val
      <4>. TAKE n \in Net
      <4>1. home'[n] \in Routes
        BY HomeAssumption DEF TransferInv, IdInv, TypeOK
      <4>2. home'[n].dist \in 0..15
        BY <4>1 DEF Routes, Dists
      <4>3. Export'[n] = IF Exported(home'[n]) THEN home'[n].dist ELSE Absent
        BY DEF Export
      <4>4. Stored(n)' = IF Export'[n] = Absent THEN Absent ELSE Export'[n] + 1
        BY DEF Stored
      <4>5. Exported(home'[n]) => home'[n].dist < 15
        BY DEF Exported, Local
      <4>. QED  BY <4>2, <4>3, <4>4, <4>5 DEF Val, Absent
    <3>3. \A n \in Net : (Follows(Stored(n), pending[n], Stored(n)))'
      BY <3>1, NothingPends DEF Follows
    <3>. QED  BY <3>2, <3>3 DEF PendingOK
  <2>. QED  BY <2>1, <2>2
<1>5. RoutesOK'
  BY <1>1 DEF ChangesInv, RoutesOK, Early, Met, Clean, In, receiverVars, history
<1>6. ChangesOK'
  <2>. SUFFICES ASSUME Talking, NEW n \in Net \ ghosts
                PROVE  \E v \in Val : (Follows(v, pending[n], Stored(n)))' /\ Carries(n, v)'
    BY <1>1, <1>3 DEF ChangesOK, history
  <2>1. PICK v \in Val : Follows(v, pending[n], Stored(n)) /\ Carries(n, v)
    BY DEF ChangesInv, ChangesOK
  <2>2. Carries(n, v)'
    BY <1>1, <1>3, <2>1, CarriesStays DEF receiverVars
  <2>. QED  BY <1>2, <1>3, <2>1, <2>2
<1>. QED  BY <1>4, <1>5, <1>6 DEF ChangesInv

LEMMA InitChanges == ASSUME NoWrap, Init PROVE ChangesInv
<1>1. TypeOK /\ pending = NoEvents
  BY InitTypes DEF Init
<1>2. PendingOK
  BY <1>1, StoredTypes, NothingPends DEF PendingOK, Val
<1>3. receiver = "Unconnected" /\ ~Talking
  BY DEF Init, Talking, Met
<1>. QED  BY <1>2, <1>3 DEF ChangesInv, RoutesOK, ChangesOK

LEMMA NextChanges ==
    ASSUME NoWrap, TransferInv, ChangesInv, [Next]_vars PROVE TransferInv' /\ ChangesInv'
<1>1. TransferInv' /\ IdInv'
  BY NextTransferInv
<1>2. CASE \/ UNCHANGED vars
           \/ ReceiverDiscards \/ TickleArrives \/ SenderDiscards \/ LoseToSender \/ LoseToReceiver
           \/ SenderTimeout /\ UNCHANGED pending /\ conn_remote' = conn_remote /\ sender' = sender
              /\ UNCHANGED <<seq_send, outstanding, pages>>
  <2>1. /\ UNCHANGED <<receiverVars, history>>
        /\ UNCHANGED <<sender, conn_remote, seq_send, outstanding, pages, pending, home>>
        /\ UNCHANGED toSender \/ (toSender # <<>> /\ toSender' = Tail(toSender))
    BY <1>2 DEF vars, ReceiverDiscards, TickleArrives, SenderDiscards, LoseToSender, LoseToReceiver,
                SenderTimeout, senderVars, Asked, Taken
  <2>2. Goes(toSender', toSender, {})
    BY <2>1, Facts, Queues
  <2>. QED  BY <1>1, <2>1, <2>2, QuietChanges
<1>3. CASE SenderTimeout
  <2>1. CASE close_sender
    <3>1. UNCHANGED <<receiverVars, home, history, toSender>>
      BY <1>3 DEF SenderTimeout
    <3>2. Goes(toSender', toSender, {})
      BY <3>1, Facts, Queues
    <3>. QED  BY <1>1, <2>1, <3>1, <3>2, CloseSenderChanges
  <2>2. CASE ~close_sender
    BY <1>2, <1>3, <2>2 DEF SenderTimeout
  <2>. QED  BY <2>1, <2>2
<1>4. CASE SenderRestarts
  <2>1. close_sender /\ UNCHANGED <<receiverVars, home, history, toSender>>
    BY <1>4 DEF SenderRestarts
  <2>2. Goes(toSender', toSender, {})
    BY <2>1, Facts, Queues
  <2>. QED  BY <1>1, <2>1, <2>2, CloseSenderChanges
<1>5. CASE shutdown
  <2>1. /\ sender' = "WaitRdAck" /\ UNCHANGED <<pending, receiverVars, home, history, toSender>>
    BY <1>5 DEF shutdown
  <2>2. Goes(toSender', toSender, {}) /\ ~Talking'
    BY <2>1, Facts, Queues DEF Talking
  <2>. QED  BY <1>1, <2>1, <2>2, SilentChanges DEF history
<1>6. CASE Open
  BY <1>1, <1>6, OpenChanges
<1>7. CASE RiRspArrives \/ RiUpdArrives
  BY <1>1, <1>7, HeardChanges
<1>8. CASE \/ OpenRspArrives \/ RdArrives \/ TickleAckArrives
           \/ OpeningTimeout \/ GoneQuiet \/ TickleTimeout \/ ping \/ ReceiverRestarts
  BY <1>1, <1>8, ReceiverChanges
<1>9. CASE open_req
  BY <1>1, <1>9, OpenReqChanges
<1>10. CASE RiReqArrives
  BY <1>1, <1>10, RiReqChanges
<1>11. CASE ri_ack
  BY <1>1, <1>11, RiAckChanges
<1>12. CASE SendUpdate \/ ProbeThisWay
  BY <1>1, <1>12, UpdateChanges
<1>13. CASE HomeChanges
  BY <1>1, <1>13, HomeChangesKept
<1>. QED  BY <1>2, <1>3, <1>4, <1>5, <1>6, <1>7, <1>8, <1>9, <1>10, <1>11, <1>12, <1>13
          DEF Next, ReceiverTakes, SenderTakes

\* No change of a route is lost between the two ends: what the receiver holds,
\* with what is outstanding and pending applied in order, is what the sender
\* would export now (queue, send_sequenced, check_seq and apply together, over
\* losses, repeats, restarts and timers that fire at any time), for exports of
\* any number of pages; but in a connection whose numbers the sender began again
\* and of a network that was exported with its addition still pending.
THEOREM ChangesGetThrough == ASSUME NoWrap PROVE Spec => []NothingLost
<1>1. Init => TransferInv /\ ChangesInv
  BY InitTransfer, InitChanges
<1>2. TransferInv /\ ChangesInv /\ [Next]_vars => TransferInv' /\ ChangesInv'
  BY NextChanges
<1>3. TransferInv /\ ChangesInv => NothingLost
  <2>. SUFFICES ASSUME TransferInv, ChangesInv, Linked, conn_local \notin spoilt,
                       receiver # "WaitRiRsp", sender # "WaitRdAck", NEW n \in Net \ ghosts
                PROVE  apply(Coming(n, routes[n]), pending[n]) = Stored(n)
    BY DEF NothingLost
  <2>1. Met /\ Clean /\ ~Waiting /\ sender \in {"Connected", "WaitRiRspAck", "WaitRiUpdAck"}
    BY Facts DEF Met, Clean, Waiting, Linked, ReceiverOpen, TypeOK
  <2>2. Talking
    BY <2>1, TalkingFacts DEF Untouched
  <2>3. PICK v \in Val : Follows(v, pending[n], Stored(n)) /\ Coming(n, routes[n]) = v
    BY <2>1, <2>2 DEF ChangesInv, ChangesOK, Carries
  <2>. QED  BY <2>3, Facts, StoredTypes, FollowsApplies
<1>. QED  BY <1>1, <1>2, <1>3, PTL DEF Spec

-----------------------------------------------------------------------------
(* AurpConnection implements Transfer, step by step.                        *)

kept == IF receiver = "Unconnected" THEN 0 ELSE conn_local
offer == IF served = 0 THEN None ELSE outstanding

\* The steps of Transfer in the words of the connection.
Turns == (kept = 0 \/ kept' = 0) /\ UNCHANGED <<served, offer, applied>>
Begins == served' # 0 /\ (served' = served => kept # served) /\ offer' = None /\ UNCHANGED <<kept, applied>>
Ends == served' = 0 /\ offer' = None /\ UNCHANGED <<kept, applied>>
Offers == /\ served # 0 /\ offer = None
          /\ offer' # None /\ offer'.conn = served /\ UNCHANGED <<served, kept, applied>>
Advances == /\ offer # None /\ (applied = offer \/ kept # served)
            /\ offer' # None /\ offer'.conn = served /\ UNCHANGED <<served, kept, applied>>
Rests == offer # None /\ applied = offer /\ offer' = None /\ UNCHANGED <<served, kept, applied>>
Takes == /\ offer # None /\ kept = served /\ applied # offer /\ applied' = offer
         /\ UNCHANGED <<served, kept, offer>>
TakesOld == kept # served /\ applied'.conn = kept /\ UNCHANGED <<served, kept, offer>>
Stutters == UNCHANGED <<served, kept, offer, applied>>
Maps == Turns \/ Begins \/ Ends \/ Offers \/ Advances \/ Rests \/ Takes \/ TakesOld \/ Stutters

LEMMA Mapping ==
    /\ Maps => Transferred!Next \/ UNCHANGED Transferred!vars
    /\ served = 0 /\ kept = 0 /\ offer = None /\ applied = None => Transferred!Init
<1>. USE DEF kept, offer
<1>1. Turns => Transferred!Turn
  BY DEF Turns, Transferred!Turn
<1>2. Begins => Transferred!Begin
  BY DEF Begins, Transferred!Begin
<1>3. Ends => Transferred!End
  BY DEF Ends, Transferred!End
<1>4. Offers => Transferred!Offer
  BY DEF Offers, Transferred!Offer, Transferred!Another
<1>5. Advances => Transferred!Advance
  BY DEF Advances, Transferred!Advance, Transferred!Through, Transferred!Another
<1>6. Rests => Transferred!Rest
  BY DEF Rests, Transferred!Rest, Transferred!Through
<1>7. Takes => Transferred!Take
  BY DEF Takes, Transferred!Take
<1>8. TakesOld => Transferred!TakeOld
  BY DEF TakesOld, Transferred!TakeOld
<1>9. Stutters => UNCHANGED Transferred!vars
  BY DEF Stutters, Transferred!vars
<1>10. served = 0 /\ kept = 0 /\ offer = None /\ applied = None => Transferred!Init
  BY DEF Transferred!Init
<1>. QED  BY <1>1, <1>2, <1>3, <1>4, <1>5, <1>6, <1>7, <1>8, <1>9, <1>10 DEF Maps, Transferred!Next

\* The sender serves a connection in the states it talks in, while nothing has
\* overtaken its export.
LEMMA ServedFacts ==
    ASSUME TransferInv
    PROVE  /\ sender \in {"Connected", "WaitRiRspAck", "WaitRiUpdAck"} /\ conn_remote \notin spoilt =>
                 served = conn_remote /\ served # 0 /\ offer = outstanding
           /\ served # 0 => /\ sender \in {"Connected", "WaitRiRspAck", "WaitRiUpdAck"}
                            /\ conn_remote \notin spoilt /\ served = conn_remote
           /\ receiver # "Unconnected" => kept = conn_local /\ kept # 0
           /\ receiver = "Unconnected" => kept = 0
           /\ kept = conn_remote /\ conn_remote # 0 => Met
<1>1. TypeOK /\ conn_local # 0
  BY Facts, Numbering
<1>2. sender # "Unconnected" => conn_remote # 0
  BY DEF TransferInv, Sorted
<1>. QED  BY <1>1, <1>2 DEF TypeOK, served, kept, offer, Met

\* Steps of the sender that serve nothing, or the same as before.
LEMMA ServesNone == ASSUME UNCHANGED receiverVars, served' = 0 PROVE Maps
BY DEF Maps, Ends, kept, offer, receiverVars

LEMMA ServesSame ==
    ASSUME UNCHANGED <<receiverVars, spoilt, sender, conn_remote, outstanding>> PROVE Maps
BY DEF Maps, Stutters, served, kept, offer, receiverVars

\* A receiver opens or closes, or goes on.
LEMMA ReceiverTurns ==
    ASSUME UNCHANGED <<sender, conn_remote, outstanding, applied>>, conn_remote \in spoilt' <=> conn_remote \in spoilt,
           \/ receiver = "Unconnected" \/ receiver' = "Unconnected"
           \/ UNCHANGED conn_local
    PROVE  Maps
BY DEF Maps, Turns, Stutters, served, kept, offer

LEMMA HeardMaps ==
    ASSUME NoWrap, TransferInv, IdInv', RiRspArrives \/ RiUpdArrives
    PROVE  Maps
<1>1. PICK m \in In(toReceiver) :
         /\ m.conn = conn_local /\ Data(m) /\ ReceiverOpen /\ m \in Sequenced
         /\ UNCHANGED <<senderVars, home, history, budget>>
         /\ \/ /\ m.seq = seq_recv /\ applied' = m
               /\ UNCHANGED conn_local
               /\ receiver' \in {"Connected", receiver}
               /\ Talking => m = outstanding
            \/ UNCHANGED receiverVars
            \/ receiver' = "Unconnected" /\ UNCHANGED <<routes, applied>>
  BY HeardData
<1>2. receiver # "Unconnected" /\ UNCHANGED <<sender, conn_remote, outstanding, spoilt>>
  BY <1>1 DEF ReceiverOpen, senderVars, history
<1>3. CASE UNCHANGED receiverVars \/ (receiver' = "Unconnected" /\ UNCHANGED <<routes, applied>>)
  BY <1>2, <1>3, ReceiverTurns DEF receiverVars
<1>4. CASE /\ m.seq = seq_recv /\ applied' = m /\ UNCHANGED conn_local
           /\ receiver' \in {"Connected", receiver} /\ (Talking => m = outstanding)
  <2>1. kept = conn_local /\ kept # 0 /\ UNCHANGED <<kept, served, offer>>
    BY <1>2, <1>4, Facts, Numbering DEF kept, served, offer
  <2>2. CASE kept # served
    BY <1>1, <1>4, <2>1, <2>2 DEF Maps, TakesOld
  <2>3. CASE kept = served
    <3>1. /\ sender \in {"Connected", "WaitRiRspAck", "WaitRiUpdAck"} /\ Met /\ Clean
          /\ offer = outstanding
      BY <2>1, <2>3, ServedFacts DEF Met, Clean
    <3>2. Talking
      BY <1>1, <3>1, TalkingFacts DEF Untouched, NoData
    <3>3. m = outstanding /\ m # None
      BY <1>1, <1>4, <3>2, NoneIsNoPacket
    <3>4. applied # m
      <4>1. pred(seq_recv) # seq_recv
        BY Facts, Numbering
      <4>. QED  BY <1>1, <1>2, <1>4, <4>1 DEF TransferInv, AppliedOK
    <3>. QED  BY <1>4, <2>1, <2>3, <3>1, <3>3, <3>4 DEF Maps, Takes
  <2>. QED  BY <2>2, <2>3
<1>. QED  BY <1>1, <1>3, <1>4

LEMMA ReceiverMaps ==
    ASSUME NoWrap, TransferInv, IdInv',
           \/ Open \/ OpeningTimeout \/ GoneQuiet \/ TickleTimeout \/ ping \/ ReceiverRestarts
           \/ ReceiverTakes
    PROVE  Maps
<1>1. CASE RiRspArrives \/ RiUpdArrives
  BY <1>1, HeardMaps
<1>2. CASE Open
  <2>1. /\ receiver = "Unconnected" /\ spoilt' = spoilt \ {conn_local}
        /\ UNCHANGED <<sender, conn_remote, outstanding, applied>>
    BY <1>2 DEF Open, senderVars
  <2>2. conn_remote # conn_local
    BY <2>1, Facts, NumbersAssumption DEF Latest, Conns, Numbers
  <2>. QED  BY <2>1, <2>2, ReceiverTurns
<1>3. CASE \/ OpenRspArrives \/ RdArrives \/ OpeningTimeout \/ ReceiverRestarts
           \/ TickleAckArrives \/ GoneQuiet \/ TickleTimeout \/ ping \/ ReceiverDiscards
  <2>1. UNCHANGED <<sender, conn_remote, outstanding, applied, spoilt>>
    BY <1>3 DEF OpenRspArrives, RdArrives, OpeningTimeout, ReceiverRestarts,
                TickleAckArrives, GoneQuiet, TickleTimeout, ping, ReceiverDiscards,
                receiverVars, senderVars, history
  <2>2. \/ receiver = "Unconnected" \/ receiver' = "Unconnected"
        \/ UNCHANGED conn_local
    BY <1>3 DEF OpenRspArrives, RdArrives, OpeningTimeout, ReceiverRestarts, close_receiver,
                TickleAckArrives, GoneQuiet, TickleTimeout, ping, ReceiverDiscards, receiverVars
  <2>. QED  BY <2>1, <2>2, ReceiverTurns
<1>. QED  BY <1>1, <1>2, <1>3 DEF ReceiverTakes

\* A sender with nothing outstanding sends a packet of its connection.
LEMMA OfferMaps ==
    ASSUME TransferInv, UNCHANGED <<receiverVars, conn_remote>>, conn_remote \notin spoilt,
           sender \in {"Connected", "WaitRiRspAck", "WaitRiUpdAck"}, outstanding = None,
           sender' \in {"WaitRiRspAck", "WaitRiUpdAck"},
           outstanding' # None, outstanding'.conn = conn_remote
    PROVE  Maps
<1>1. CASE served' = 0
  BY <1>1, ServesNone
<1>2. CASE served' # 0
  <2>1. served = conn_remote /\ served # 0 /\ offer = None
    BY ServedFacts
  <2>2. served' = served /\ offer' = outstanding' /\ UNCHANGED <<kept, applied>>
    BY <1>2, <2>1 DEF served, offer, kept, receiverVars
  <2>. QED  BY <2>1, <2>2 DEF Maps, Offers
<1>. QED  BY <1>1, <1>2

LEMMA CloseSenderMaps == ASSUME UNCHANGED receiverVars, close_sender PROVE Maps
<1>1. served' = 0
  BY DEF close_sender, served
<1>. QED  BY <1>1, ServesNone

LEMMA OpenReqMaps == ASSUME TransferInv, open_req PROVE Maps
<1>. DEFINE m == Head(toSender)
<1>1. /\ m \in In(toSender) /\ m.kind = "OpenReq" /\ UNCHANGED <<receiverVars, history>>
  BY Facts, Queues DEF open_req, Asked
<1>2. UNCHANGED <<kept, applied, spoilt>>
  BY <1>1 DEF kept, receiverVars, history
<1>3. CASE UNCHANGED senderVars
  BY <1>1, <1>2, <1>3, ServesSame DEF senderVars
<1>4. CASE /\ sender # "Unconnected" /\ outstanding = None /\ sender' = "WaitRiUpdAck"
           /\ send_sequenced(RiUpd(conn_remote, succ(seq_send), NoEvents)) /\ UNCHANGED conn_remote
  <2>1. sender = "Connected"
    BY <1>4, Facts DEF StopAndWait
  <2>. DEFINE u == RiUpd(conn_remote, succ(seq_send), NoEvents)
  <2>2. outstanding' = u /\ u # None /\ u.conn = conn_remote
    BY <1>4 DEF send_sequenced, RiUpd, None
  <2>. HIDE DEF u
  <2>3. CASE conn_remote \in spoilt
    <3>1. served' = 0
      BY <1>2, <1>4, <2>3 DEF served
    <3>. QED  BY <1>1, <3>1, ServesNone
  <2>4. CASE conn_remote \notin spoilt
    BY <1>1, <1>4, <2>1, <2>2, <2>4, OfferMaps
  <2>. QED  BY <2>3, <2>4
<1>5. CASE /\ sender = "Unconnected" \/ m.conn = conn_remote
           /\ conn_remote' = m.conn /\ outstanding' = None /\ sender' = "Connected"
  <2>1. CASE served' = 0
    BY <1>1, <2>1, ServesNone
  <2>2. CASE served' # 0
    <3>1. served' = m.conn /\ offer' = None
      BY <1>5, <2>2 DEF served, offer
    <3>2. CASE served' = served /\ kept = served
      <4>1. /\ Met /\ Clean /\ sender \in {"Connected", "WaitRiRspAck", "WaitRiUpdAck"}
            /\ offer = outstanding
        BY <2>2, <3>2, ServedFacts DEF Met, Clean
      <4>2. ~Talking
        BY <1>1, TalkingFacts
      <4>3. offer = None
        BY <4>1, <4>2, TalkingFacts
      <4>. QED  BY <1>2, <3>1, <3>2, <4>3 DEF Maps, Stutters
    <3>3. CASE ~(served' = served /\ kept = served)
      BY <1>2, <2>2, <3>1, <3>3 DEF Maps, Begins
    <3>. QED  BY <3>2, <3>3
  <2>. QED  BY <2>1, <2>2
<1>. QED  BY <1>3, <1>4, <1>5 DEF open_req

LEMMA RiReqMaps == ASSUME TransferInv, IdInv', RiReqArrives PROVE Maps
<1>1. /\ UNCHANGED <<receiverVars, conn_remote>> /\ sender' = "WaitRiRspAck"
      /\ sender \in {"Connected", "WaitRiRspAck", "WaitRiUpdAck"}
      /\ outstanding' # None /\ outstanding'.conn = conn_remote
      /\ seq_send = 0 => spoilt' = spoilt
      /\ conn_remote \notin spoilt' /\ seq_send # 0 => UNCHANGED <<spoilt, sender, outstanding>>
  BY RiReqCases
<1>2. CASE conn_remote \in spoilt'
  <2>1. served' = 0
    BY <1>1, <1>2 DEF served
  <2>. QED  BY <1>1, <2>1, ServesNone
<1>3. CASE conn_remote \notin spoilt' /\ seq_send = 0
  <2>1. outstanding = None
    BY <1>3, Facts, NoneIsNoPacket, Numbering DEF StopAndWait, TypeOK
  <2>. QED  BY <1>1, <1>3, <2>1, OfferMaps
<1>4. CASE conn_remote \notin spoilt' /\ seq_send # 0
  BY <1>1, <1>4, ServesSame
<1>. QED  BY <1>2, <1>3, <1>4

LEMMA RiAckMaps == ASSUME TransferInv, ri_ack PROVE Maps
<1>1. Acked /\ Taken /\ UNCHANGED <<receiverVars, spoilt>>
  BY DEF ri_ack, history
<1>2. CASE served' = 0
  BY <1>1, <1>2, ServesNone
<1>3. CASE close_sender
  BY <1>1, <1>3, CloseSenderMaps
<1>4. ASSUME served' # 0, UNCHANGED conn_remote, sender \in {"WaitRiUpdAck", "WaitRiRspAck"}
      PROVE  /\ served = conn_remote /\ served' = served /\ served # 0
             /\ offer = outstanding /\ offer # None /\ offer' = outstanding'
             /\ UNCHANGED <<kept, applied>>
             /\ applied = offer \/ kept # served
  <2>1. conn_remote \notin spoilt /\ served' = conn_remote
    BY <1>1, <1>4 DEF served
  <2>2. served = conn_remote /\ served # 0 /\ offer = outstanding /\ offer # None
    BY <1>1, <1>4, <2>1, ServedFacts, AckedMeans
  <2>3. offer' = outstanding' /\ UNCHANGED <<kept, applied>>
    BY <1>1, <1>4 DEF offer, kept, receiverVars
  <2>4. kept = served => applied = offer
    <3>. SUFFICES ASSUME kept = served PROVE applied = offer
      OBVIOUS
    <3>1. Met /\ Clean
      BY <2>1, <2>2, ServedFacts DEF Met, Clean
    <3>2. Talking
      BY <1>1, <1>4, <3>1, AckedMeans
    <3>. QED  BY <1>1, <2>2, <3>2, AckedMeans, AckTransfer
  <2>. QED  BY <2>1, <2>2, <2>3, <2>4
<1>5. CASE /\ sender = "WaitRiRspAck" /\ pages # <<>>
           /\ send_page(pages, succ(seq_send)) /\ UNCHANGED conn_remote
  <2>1. outstanding' # None /\ outstanding'.conn = conn_remote
    BY <1>5, PageSent, Facts DEF TypeOK
  <2>. QED  BY <1>2, <1>4, <1>5, <2>1 DEF Maps, Advances
<1>6. CASE /\ sender = "WaitRiUpdAck" \/ (sender = "WaitRiRspAck" /\ pages = <<>>)
           /\ outstanding' = None /\ UNCHANGED conn_remote
  BY <1>2, <1>4, <1>6 DEF Maps, Rests, Begins
<1>. QED  BY <1>3, <1>5, <1>6 DEF ri_ack

LEMMA SenderMaps ==
    ASSUME TransferInv,
           \/ TickleArrives \/ SenderDiscards \/ SenderTimeout \/ SendUpdate \/ HomeChanges
           \/ ProbeThisWay \/ shutdown \/ SenderRestarts \/ LoseToSender \/ LoseToReceiver
    PROVE  Maps
<1>1. UNCHANGED receiverVars
  BY DEF TickleArrives, SenderDiscards, SenderTimeout, SendUpdate, HomeChanges,
         ProbeThisWay, shutdown, SenderRestarts, LoseToSender, LoseToReceiver
<1>2. CASE \/ TickleArrives \/ SenderDiscards \/ HomeChanges \/ LoseToSender \/ LoseToReceiver
  <2>1. UNCHANGED <<sender, conn_remote, outstanding, spoilt>>
    BY <1>2 DEF TickleArrives, SenderDiscards, HomeChanges, LoseToSender, LoseToReceiver, senderVars,
                history
  <2>. QED  BY <1>1, <2>1, ServesSame
<1>3. CASE SenderTimeout
  <2>1. close_sender \/ UNCHANGED <<sender, conn_remote, outstanding, spoilt>>
    BY <1>3 DEF SenderTimeout, history
  <2>. QED  BY <1>1, <2>1, CloseSenderMaps, ServesSame
<1>4. CASE SendUpdate \/ ProbeThisWay
  <2>1. /\ sender = "Connected" /\ sender' = "WaitRiUpdAck" /\ outstanding = None
        /\ UNCHANGED conn_remote /\ spoilt' = Overtaken
        /\ outstanding' # None /\ outstanding'.conn = conn_remote
    BY <1>4, UpdateSent
  <2>2. CASE conn_remote \in spoilt'
    <3>1. served' = 0
      BY <2>1, <2>2 DEF served
    <3>. QED  BY <1>1, <3>1, ServesNone
  <2>3. CASE conn_remote \notin spoilt'
    <3>1. conn_remote \notin spoilt
      BY <2>1, <2>3 DEF Overtaken
    <3>. QED  BY <1>1, <2>1, <3>1, OfferMaps
  <2>. QED  BY <2>2, <2>3
<1>5. CASE shutdown
  <2>1. served' = 0
    BY <1>5 DEF shutdown, served
  <2>. QED  BY <1>1, <2>1, ServesNone
<1>6. CASE SenderRestarts
  BY <1>1, <1>6, CloseSenderMaps DEF SenderRestarts
<1>. QED  BY <1>2, <1>3, <1>4, <1>5, <1>6

LEMMA NextMaps == ASSUME NoWrap, TransferInv, [Next]_vars PROVE Maps
<1>1. CASE UNCHANGED vars
  BY <1>1, ServesSame DEF vars, receiverVars, senderVars, history
<1>2. CASE Next
  <2>1. IdInv'
    BY <1>2, NextIds DEF TransferInv
  <2>. QED  BY <1>2, <2>1, ReceiverMaps, SenderMaps, OpenReqMaps, RiReqMaps, RiAckMaps
            DEF Next, SenderTakes
<1>. QED  BY <1>1, <1>2

\* The connection does what Transfer says of it: each page and update is
\* processed once, while it is what the sender tries to get through, and the
\* sender goes on only then, for exports of any number of pages and changes at
\* any time, until the sender begins its numbers again.
THEOREM TransferImplemented == ASSUME NoWrap PROVE Spec => ImplementsTransfer
<1>1. Init => TransferInv
  BY InitTransfer
<1>2. TransferInv /\ [Next]_vars => TransferInv'
  BY NextTransferInv
<1>3. Init => Transferred!Init
  <2>1. Init => served = 0 /\ kept = 0 /\ offer = None /\ applied = None
    BY DEF Init, served, kept, offer
  <2>. QED  BY <2>1, Mapping
<1>4. TransferInv /\ [Next]_vars => [Transferred!Next]_(Transferred!vars)
  BY NextMaps, Mapping
<1>. QED  BY <1>1, <1>2, <1>3, <1>4, PTL DEF Spec, ImplementsTransfer, Transferred!Spec
=============================================================================
