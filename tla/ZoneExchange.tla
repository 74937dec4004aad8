----------------------------- MODULE ZoneExchange -----------------------------
(***************************************************************************)
(* How the zones of networks behind one AURP peer reach the other          *)
(* (src/router/aurp.rs): the SZI flag of an RI-Ack, ZI-Req and ZI-Rsp, and *)
(* the re-request every ZI_REREQUEST.  None of these is acknowledged: they *)
(* may be lost, overtaken or arrive long after what they were asked for.   *)
(*                                                                         *)
(* The connection itself is AurpConnection's.  Here one RI packet at a     *)
(* time is outstanding; it reaches the receiver some number of times and   *)
(* is processed the first.  An RI-Ack of another packet is discarded by    *)
(* its number, so those of one that is no longer outstanding are gone.     *)
(* What every module has is named ExchangeInit, ExchangeNext and so on, so  *)
(* that Configuration_proofs can extend this module and Configuration.      *)
(***************************************************************************)
EXTENDS Integers, FiniteSets, Sequences, SequencesExt

CONSTANTS
    Nets,         \* the networks behind the sender, in order
    List,         \* the zone list of each
    Replies,      \* the ZIP replies that bring them to the sender
    FirstKnown,   \* networks whose lists the sender has when the peer opens
    Own,          \* networks the receiver reaches better by its own ports
    Capacity,     \* names that fit one ZI-Rsp (MAX_BODY)
    MaxTotal,     \* the most names an Extended ZIP Reply can announce: 255
    MaxFlight,    \* a ZI-Req is sent with fewer datagrams in flight than this
    Budget,       \* bounds on the events listed in its domain
    Nothing

Net == Range(Nets)
Zones(n) == Range(List[n])

ASSUME ExchangeAssumption ==
    /\ Own \cup FirstKnown \subseteq Net /\ Nets \in Seq(Net) /\ IsInjective(Nets)
    /\ DOMAIN List = Net
    /\ \A n \in Net : /\ List[n] \in Seq(Zones(n)) /\ IsInjective(List[n])
                      /\ UNION Replies[n] = Zones(n)
    /\ Capacity \in Nat \ {0} /\ MaxFlight \in Nat \ {0} /\ MaxTotal \in Nat
    /\ Budget \in [{"Lose", "Repeat", "Remove", "Restart"} -> Nat]
ASSUME NothingAssumption == Nothing \notin Nat /\ Nothing \notin {"NA", "ND", "NDC"}

VARIABLES
    home,        \* the sender's list of each network, Nothing with no route to it
    pending,     \* events for the next RI-Upd
    outstanding, \* [events, heard]: the RI packet waiting for its ack, or Nothing
    routes,      \* networks the receiver has a route to through this peer
    zones,       \* the receiver's lists
    mail,        \* RI-Acks, ZI-Reqs and ZI-Rsps in flight
    flapped,     \* history: networks back in this connection before their
                 \* removal was dealt with
    budget

exchangeVars == <<home, pending, outstanding, routes, zones, mail, flapped, budget>>

Spend(k) == budget[k] > 0 /\ budget' = [budget EXCEPT ![k] = @ - 1]

NoList == [names |-> {}, expected |-> Nothing]
complete(z) == z.names # {} /\ (z.expected # Nothing => z.expected <= Cardinality(z.names))
exportable(n) == home[n] # Nothing /\ complete(home[n])
AddZones(z, names, total) ==
    [names |-> z.names \cup names, expected |-> IF total = Nothing THEN z.expected ELSE total]

RiAck(szi) == [kind |-> "RiAck", szi |-> szi]
ZiReq(nets) == [kind |-> "ZiReq", nets |-> nets]
ZiRsp(extended, tuples) == [kind |-> "ZiRsp", extended |-> extended, tuples |-> tuples]
Send(ms) == mail' = mail \cup ms
-----------------------------------------------------------------------------
(* The zone tuples of a ZI-Rsp: a name already in the packet is an offset.  *)
encode_zi_rsp(named) == [i \in DOMAIN named |->
    LET first == CHOOSE j \in DOMAIN named :
                    named[j][2] = named[i][2] /\ \A k \in 1..j - 1 : named[k][2] # named[i][2]
    IN  [net |-> named[i][1], name |-> IF first = i THEN named[i][2] ELSE Nothing, at |-> first]]
parse_zi_rsp(tuples) == {<<t.net, tuples[t.at].name>> : t \in Range(tuples)}

\* What the sender holds of a list, complete or not.
Named(n) ==
    LET held[i \in 0..Len(List[n])] ==
          IF i = 0 THEN <<>>
          ELSE IF List[n][i] \in home[n].names THEN Append(held[i - 1], <<n, List[n][i]>>)
          ELSE held[i - 1]
    IN  held[Len(List[n])]

\* A list too long for a packet: chunks that announce the whole list's size.
Chunks(s) == {SubSeq(s, i, IF i + Capacity - 1 > Len(s) THEN Len(s) ELSE i + Capacity - 1) :
                 i \in {j \in DOMAIN s : (j - 1) % Capacity = 0}}
\* Mutant: each chunk announces its own size.
extended_OfChunk(s) == {ZiRsp(Len(c), encode_zi_rsp(c)) : c \in Chunks(s)}
extended(s) == {ZiRsp(Len(s), encode_zi_rsp(c)) : c \in Chunks(s)}
plain(s) == IF s = <<>> THEN {} ELSE {ZiRsp(Nothing, encode_zi_rsp(s))}

\* Shorter lists share packets, each list whole.
packed(out, page, list) ==
    IF Len(list) > Capacity
    THEN [out |-> out \cup plain(page) \cup extended(list), page |-> <<>>]
    ELSE IF Len(page) + Len(list) > Capacity
         THEN [out |-> out \cup plain(page), page |-> list]
         ELSE [out |-> out, page |-> page \o list]
zi_pages(nets) ==
    LET list(n) == IF n \in nets /\ home[n] # Nothing THEN Named(n) ELSE <<>>
        upto[i \in 0..Len(Nets)] ==
          IF i = 0 THEN [out |-> {}, page |-> <<>>]
          ELSE packed(upto[i - 1].out, upto[i - 1].page, list(Nets[i]))
        end == upto[Len(Nets)]
    IN  end.out \cup plain(end.page)
-----------------------------------------------------------------------------
(* The sender.                                                              *)
\* The RI-Rsp that answers an RI-Req, one page; its tuples count as additions.
Export == [events |-> [n \in Net |-> IF exportable(n) THEN "NA" ELSE Nothing], heard |-> FALSE]

queue(p, code) ==
    CASE p = "NA" /\ code = "ND" -> Nothing
      [] p = "ND" /\ code = "NA" -> "NDC"
      [] OTHER -> code

\* The size a paged ZIP reply announces, one byte of it (pages in local.rs).
Announced(n) ==
    IF Cardinality(Replies[n]) = 1 THEN Nothing
    ELSE IF Cardinality(Zones(n)) > MaxTotal THEN MaxTotal ELSE Cardinality(Zones(n))

\* A ZIP reply about n; a list that becomes complete is a network to tell of.
HomeLearns == \E n \in Net : \E names \in Replies[n] :
    /\ home[n] # Nothing
    /\ LET list == AddZones(home[n], names, Announced(n))
       IN  /\ list # home[n]
           /\ home' = [home EXCEPT ![n] = list]
           /\ pending' = IF complete(list) /\ ~complete(home[n])
                         THEN [pending EXCEPT ![n] = queue(@, "NA")] ELSE pending
    /\ UNCHANGED <<outstanding, routes, zones, mail, flapped, budget>>

\* The last route to n goes, and with it the zone list.
HomeLoses == \E n \in Net :
    /\ home[n] # Nothing
    /\ Spend("Remove")
    /\ home' = [home EXCEPT ![n] = Nothing]
    /\ pending' = [pending EXCEPT ![n] = queue(@, "ND")]
    /\ UNCHANGED <<outstanding, routes, zones, mail, flapped>>

\* The receiver knows nothing of n, is about to hear nothing, and asks nothing.
Unheard(n) ==
    /\ n \notin routes /\ pending[n] = Nothing
    /\ outstanding # Nothing => outstanding.events[n] = Nothing
    /\ \A m \in mail : m.kind = "ZiReq" => n \notin m.nets
\* A route to n again, and nothing yet of its zones.
HomeReturns == \E n \in Net :
    /\ home[n] = Nothing
    /\ home' = [home EXCEPT ![n] = NoList]
    /\ flapped' = IF Unheard(n) THEN flapped ELSE flapped \cup {n}
    /\ UNCHANGED <<pending, outstanding, routes, zones, mail, budget>>

SendUpdate ==
    /\ outstanding = Nothing
    /\ \E n \in Net : pending[n] # Nothing
    /\ outstanding' = [events |-> pending, heard |-> FALSE]
    /\ pending' = [n \in Net |-> Nothing]
    /\ UNCHANGED <<home, routes, zones, mail, flapped, budget>>

Added(o) == {n \in Net : o.events[n] = "NA"}
ri_ack == \E m \in mail :
    /\ m.kind = "RiAck" /\ outstanding # Nothing
    /\ outstanding' = Nothing
    /\ mail' = {x \in mail : x.kind # "RiAck"} \cup (IF m.szi THEN zi_pages(Added(outstanding)) ELSE {})
    /\ UNCHANGED <<home, pending, routes, zones, flapped, budget>>

ZiReqArrives == \E m \in mail :
    /\ m.kind = "ZiReq"
    /\ mail' = (mail \ {m}) \cup zi_pages(m.nets)
    /\ UNCHANGED <<home, pending, outstanding, routes, zones, flapped, budget>>
-----------------------------------------------------------------------------
(* The receiver.                                                            *)

\* The outstanding packet, or a repeat of it when its ack is lost, arrives: a
\* duplicate is acked with SZI whatever it added.
UpdateArrives ==
    /\ outstanding # Nothing /\ \A m \in mail : m.kind # "RiAck"
    /\ Send({RiAck(outstanding.heard \/ Added(outstanding) # {})})
    /\ outstanding' = [outstanding EXCEPT !.heard = TRUE]
    /\ LET e == outstanding.events
           gone == {n \in Net : e[n] = "ND"}
           told == {n \in Net : e[n] \in {"NA", "NDC"}}
       IN  IF outstanding.heard THEN UNCHANGED <<routes, zones>>
           ELSE /\ routes' = (routes \ gone) \cup told
                /\ zones' = [n \in Net |-> IF n \in gone \ Own THEN NoList ELSE zones[n]]
    /\ UNCHANGED <<home, pending, flapped, budget>>

zoneless == {n \in routes \ Own : ~complete(zones[n])}
\* Mutant: only networks with no zone at all are asked for.
zi_rerequest_Unheard ==
    /\ \E n \in zoneless : zones[n].names = {}
    /\ Cardinality(mail) < MaxFlight
    /\ Send({ZiReq({n \in zoneless : zones[n].names = {}})})
    /\ UNCHANGED <<home, pending, outstanding, routes, zones, flapped, budget>>
zi_rerequest ==
    /\ zoneless # {}
    /\ Cardinality(mail) < MaxFlight
    /\ Send({ZiReq(zoneless)})
    /\ UNCHANGED <<home, pending, outstanding, routes, zones, flapped, budget>>

\* Networks with no route are passed over, as are those better reached by a
\* port: the peer has nothing to tell about them.
zi_rsp(m) ==
    LET named == parse_zi_rsp(m.tuples)
        heard == {p[1] : p \in named} \cap (routes \ Own)
    IN  zones' = [n \in Net |->
            IF n \in heard THEN AddZones(zones[n], {p[2] : p \in {q \in named : q[1] = n}}, m.extended)
            ELSE zones[n]]
Takes(m) ==
    /\ m.kind = "ZiRsp"
    /\ zi_rsp(m)
    /\ mail' = mail \ {m}
    /\ UNCHANGED <<home, pending, outstanding, routes, flapped, budget>>
ZiRspArrives == \E m \in mail : Takes(m)

\* The receiver gives its connection up, or restarts, and opens another: what
\* is in flight carries an ID nobody uses, and the export starts afresh, with
\* whatever events are pending still to be sent behind it.
Reopens ==
    /\ Spend("Restart")
    /\ routes' = {} /\ zones' = [n \in Net |-> IF n \in Own THEN zones[n] ELSE NoList]
    /\ mail' = {}
    /\ outstanding' = Export
    /\ flapped' = {n \in flapped : pending[n] # Nothing /\ ~exportable(n)}
    /\ UNCHANGED <<home, pending>>

Lose == \E m \in mail :
    /\ Spend("Lose")
    /\ mail' = mail \ {m}
    /\ UNCHANGED <<home, pending, outstanding, routes, zones, flapped>>
\* UDP delivers a ZI-Rsp, and another copy later.
Repeats == \E m \in mail :
    /\ m.kind = "ZiRsp"
    /\ Spend("Repeat")
    /\ zi_rsp(m)
    /\ UNCHANGED <<home, pending, outstanding, routes, mail, flapped>>
-----------------------------------------------------------------------------
ExchangeInit ==
    /\ home = [n \in Net |-> IF n \in FirstKnown THEN [names |-> Zones(n), expected |-> Nothing] ELSE NoList]
    /\ pending = [n \in Net |-> Nothing] /\ outstanding = Export
    /\ routes = {} /\ zones = [n \in Net |-> NoList]
    /\ mail = {} /\ flapped = {} /\ budget = Budget

ExchangeNext ==
    \/ HomeLearns \/ HomeLoses \/ HomeReturns
    \/ SendUpdate \/ UpdateArrives \/ ri_ack
    \/ zi_rerequest \/ ZiReqArrives \/ ZiRspArrives
    \/ Reopens \/ Lose \/ Repeats
ExchangeSpec == ExchangeInit /\ [][ExchangeNext]_exchangeVars

\* Whatever is not lost is read: an ack, a ZI-Req, a ZI-Rsp.
Fairness ==
    /\ WF_exchangeVars(ri_ack) /\ WF_exchangeVars(ZiReqArrives)
    /\ \A n \in Net : \A z \in Zones(n) :
          WF_exchangeVars(\E m \in mail : /\ m.kind = "ZiRsp" /\ Head(m.tuples).net = n
                                         /\ Head(m.tuples).name = z /\ Takes(m))
ExchangeLiveSpec == ExchangeSpec /\ Fairness
\* What the two loops do when they tick: the sender asks its own ports for
\* zones, sends its events and repeats what is not acknowledged; the receiver
\* asks again.  No loop owes it: under steady traffic none ticks (EventLoop).
TimersRun ==
    /\ WF_exchangeVars(HomeLearns) /\ WF_exchangeVars(SendUpdate)
    /\ WF_exchangeVars(UpdateArrives) /\ WF_exchangeVars(zi_rerequest)
-----------------------------------------------------------------------------
\* Networks the sender may itself hold in part when it tells of them: those with
\* more zones than a byte can announce, and those that came back too soon.
Oversize == {n \in Net : Announced(n) # Nothing /\ Cardinality(Zones(n)) > MaxTotal}
Doubtful == flapped \cup Oversize

\* A list the receiver counts as complete is the network's whole list, however
\* its packets were split, lost, repeated or overtaken, unless the sender
\* holds a part of it and answers with that (ZoneList::complete, zi_pages,
\* zi_rsp).  What is complete is served to ZIP and never asked for again.
CompleteIsWhole == \A n \in Net \ (Own \cup Doubtful) : complete(zones[n]) => zones[n].names = Zones(n)

\* What docs/AURP.md requires: a network is exported with its whole list, or
\* not at all.  zi_pages answers with whatever it holds of one that is back.
AlwaysWhole == \A n \in Net \ Own : complete(zones[n]) => zones[n].names = Zones(n)

\* As long as both loops tick, every network with a route and zones at home is
\* in the end known with all of them: whichever ZI-Rsps are lost, somebody
\* asks again (zi_rerequest; docs/AURP.md, "a fresh ZI-Req every 30 seconds
\* until it has some").  One that came back too soon is at least known.
Arrived(n) == n \in routes /\ (n \in Own \cup Doubtful \/ (complete(zones[n]) /\ zones[n].names = Zones(n)))
ZonesArrive == TimersRun => <>[](\A n \in Net : home[n] # Nothing => Arrived(n))
=============================================================================
