--------------------------- MODULE MCConfiguration ---------------------------
(* Files that name a port of each kind, right and wrong, and a router's      *)
(* flags that replace, add to and empty their lists.                         *)
EXTENDS Configuration
CONSTANTS cwd, etc, other, none

Port(i, a, b, zones) == [interface |-> i, net |-> <<a, b>>, zones |-> zones]
None3 == [k \in {"ethertalk", "ltoudp", "tashtalk"} |-> <<>>]
Ports1(k, p) == [None3 EXCEPT ![k] = p]
Doc(name, peers, p) == [Empty EXCEPT !.set["name"] = name, !.peers = peers, !.ports = p]
A == Port("eth0", 1, 2, <<"zone">>)
SomeFiles == {Garbage,
    Doc(none, <<"a.net">>, None3),
    Doc("r1", <<"a.net", "A.net">>, Ports1("ethertalk", <<A>>)),
    Doc("r1", <<>>, Ports1("ethertalk", <<A, Port("eth1", 2, 3, <<"zone">>)>>)),
    Doc("r1", <<>>, Ports1("ethertalk", <<A, Port("eth1", 3, 3, <<>>)>>)),
    Doc("euro", <<"b.net", "any one">>, Ports1("ltoudp", <<Port("default", 3, 3, <<"zone">>)>>)),
    Doc(none, <<"b.net">>, Ports1("tashtalk", <<Port("tty", 1, 2, <<"zone">>)>>)),
    Doc(none, <<>>, Ports1("ltoudp", <<Port("default", 3, 3, <<"euro">>)>>))}

NoFlags == [l \in {"peers", "ethertalk", "ltoudp", "tashtalk"} |->
              [replace |-> <<>>, add |-> <<>>, none |-> FALSE]]
With(f, lists) == [config |-> f, set |-> Empty.set, no_open_peering |-> FALSE, lists |-> lists]
Add(l, p) == [NoFlags EXCEPT ![l].add = <<p>>]
SomeFlags == {With(none, NoFlags), With(other, NoFlags),
    [With(none, NoFlags) EXCEPT !.no_open_peering = TRUE, !.set["name"] = "zone"],
    With(none, Add("peers", "B.net")),
    With(none, [Add("ethertalk", A) EXCEPT !["peers"].none = TRUE]),
    With(none, Add("ethertalk", Port("tty", 2, 4, <<"zone">>))),
    With(none, Add("ltoudp", Port("default", 3, 3, <<"zone">>))),
    With(none, Add("tashtalk", Port("tty", 2, 2, <<"zone">>))),
    With(none, Add("tashtalk", Port("tty", 4, 4, <<"zone">>))),
    With(none, [Add("ltoudp", Port("default", 3, 3, <<"zone">>)) EXCEPT
                  !["ethertalk"].none = TRUE, !["peers"].replace = <<"A.net">>]),
    With(none, [NoFlags EXCEPT !["peers"].replace = <<"A.net">>, !["peers"].none = TRUE])}

SomeLists == {<<"#", "a.net">>, <<"A.net", "b.net", "", "B.net">>, <<"b.net", "not a host">>}
LowerCase == [h \in {"a.net", "A.net", "b.net", "B.net", "any one"} |->
                CASE h \in {"a.net", "A.net"} -> "a.net" [] h \in {"b.net", "B.net"} -> "b.net"
                  [] OTHER -> h]
Looked == <<cwd, etc>>
=============================================================================
