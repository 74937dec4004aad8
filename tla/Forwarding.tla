----------------------------- MODULE Forwarding -----------------------------
(***************************************************************************)
(* One datagram on its way through an internet of these routers: Router's  *)
(* arrived and forward (src/router/mod.rs) on every router it meets, the   *)
(* links between them, and the copies that come of it.                     *)
(*                                                                         *)
(* The routing tables (module RoutingTable) change under the datagram: at  *)
(* every router it is forwarded by any route the table may hold, RoutesOf, *)
(* the changes the local services make while they handle it included.      *)
(* What a service answers is another datagram, which starts as Local.  A   *)
(* network is one number and a router's node on a network is the router.   *)
(* What every module has, Init and Next and the like, is named ForwardInit  *)
(* and so on, so that Internet_proofs can extend this module and Internet.  *)
(***************************************************************************)
EXTENDS Naturals, Sequences, FiniteSets

CONSTANTS
    Routers, Nets,
    Attached,     \* the routers with a port on each network
    Tunnels,      \* the AURP peers of each router
    RoutesOf,     \* the routes each router may hold for each network
    MaxHops,      \* MAX_HOPS
    FirstHops,    \* hops a datagram may have crossed when it sets off
    FirstClaimed  \* the ports that hold a node when it sets off

Targets == ({"Port"} \X Nets) \cup ({"Peer"} \X Routers)
Links == Targets \cup ({"Local"} \X Routers)
Route == [target : Targets, next : Routers, distance : 0..15]
NoRoute == [target |-> <<"None", "None">>, distance |-> 0]
Ports(r) == {n \in Nets : r \in Attached[n]}
Dsts == [net : Nets \cup {0}, node : {"Any", "All", "Host"} \cup Routers]

ASSUME RoutersAssumption == Routers \cap {"Any", "All", "Host"} = {}
ASSUME NetsAssumption == 0 \notin Nets /\ Attached \in [Nets -> SUBSET Routers]
ASSUME TunnelsAssumption == Tunnels \in [Routers -> SUBSET Routers]
\* A network of ours is reached on its own port, whatever is heard of it, and
\* any other is at least one router away (RoutingTable, DirectAlone).
ASSUME RoutesAssumption ==
    /\ RoutesOf \in [Routers -> [Nets -> SUBSET (Route \cup {NoRoute})]]
    /\ \A r \in Routers, n \in Nets : \A t \in RoutesOf[r][n] \ {NoRoute} :
        /\ (t.distance = 0) = (n \in Ports(r))
        /\ t.distance = 0 => t.target = <<"Port", n>>
        /\ t.target[1] = "Port" => t.target[2] \in Ports(r)
        /\ t.target[1] = "Peer" => t.target[2] \in Tunnels[r]
ASSUME HopsAssumption == MaxHops \in Nat \ {0} /\ FirstHops \subseteq 0..MaxHops
ASSUME ClaimAssumption ==
    /\ FirstClaimed \in [Routers -> SUBSET Nets]
    /\ \A r \in Routers : FirstClaimed[r] \subseteq Ports(r)

VARIABLES
    frames,   \* the copies on the links
    claimed,  \* the ports of each router that hold a node
    handed,   \* history: the ways by which it got to a router's services
    home      \* history: the ways by which it was put on its network

forwardVars == <<frames, claimed, handed, home>>

\* A copy on a link, named as the routers that hear it see it: their port's
\* network, or the peer at the other end.  The path is history.
Frame(link, hears, hops, dst, path) ==
    [link |-> link, hears |-> hears, hops |-> hops, dst |-> dst, path |-> path]
Frames == [link : Links, hears : SUBSET Routers, hops : 0..MaxHops, dst : Dsts,
           path : Seq(Routers)]
-----------------------------------------------------------------------------
\* The routers that hear what a station puts on n for dest: those it is meant
\* for, and any others of the link.  A capture is promiscuous, LToUDP is a
\* multicast group, a next hop whose hardware address is not gleaned is sent to
\* the broadcast one, and nothing looks at the address a frame was sent to.
Hearers(station, n, dest) ==
    LET others == Attached[n] \ {station}
        meant == IF dest = "All" THEN others ELSE others \cap {dest}
    IN  {S \in SUBSET others : meant \subseteq S}

\* A node on a cable sends it to some router, or a service here makes it.
ForwardInit ==
    /\ \E dst \in Dsts :
        \/ \E n \in Nets, h \in FirstHops : \E first \in Attached[n] :
            \E S \in Hearers("Host", n, first) : frames = {Frame(<<"Port", n>>, S, h, dst, <<>>)}
        \/ \E r \in Routers :
            dst.net # 0 /\ frames = {Frame(<<"Local", r>>, {r}, 0, dst, <<>>)}
    /\ claimed = FirstClaimed
    /\ handed = {} /\ home = {}

\* f without r among those yet to hear it.
Rest(r, f) == (frames \ {f}) \cup {Frame(f.link, f.hears \ {r}, f.hops, f.dst, f.path)}

\* Mutant: cable to tunnel is as free as tunnel to cable.
Free_EitherWay(link, target) == link[1] = "Local" \/ link[1] # target[1]
\* What we made has crossed nothing, and a tunnel's hop was its sender's.
Free(link, target) == link[1] = "Local" \/ (link[1] = "Peer" /\ target[1] = "Port")

\* Sent back the way it came.
is(link, target) == link = target

\* Mutants: a datagram expires one router early; it may go back where it came
\* from.
Dropped_Early(r, link, hops, route) ==
    \/ hops + 1 >= MaxHops
    \/ route = NoRoute
    \/ is(link, route.target)
    \/ route.target[1] = "Port" /\ route.target[2] \notin claimed[r]
Dropped_NotBack(r, link, hops, route) ==
    \/ hops >= MaxHops
    \/ route = NoRoute
    \/ route.target[1] = "Port" /\ route.target[2] \notin claimed[r]
\* Too far, no way, back where it came from, or a port without a node.
Dropped(r, link, hops, route) ==
    \/ hops >= MaxHops
    \/ route = NoRoute
    \/ is(link, route.target)
    \/ route.target[1] = "Port" /\ route.target[2] \notin claimed[r]

forward(r, f, dst) == \E route \in RoutesOf[r][dst.net] :
    LET hops == IF Free(f.link, route.target) THEN f.hops ELSE f.hops + 1
        path == Append(f.path, r)
        n == route.target[2]
        dest == IF route.distance = 0 THEN dst.node ELSE route.next
    IN  \/ /\ Dropped(r, f.link, f.hops, route)
           /\ frames' = Rest(r, f) /\ UNCHANGED home
        \/ /\ ~Dropped(r, f.link, f.hops, route) /\ route.target[1] = "Peer"
           /\ frames' = Rest(r, f) \cup {Frame(<<"Peer", r>>, {n}, hops, dst, path)}
           /\ UNCHANGED home
        \/ /\ ~Dropped(r, f.link, f.hops, route) /\ route.target[1] = "Port"
           /\ \E S \in Hearers(r, n, dest) :
                frames' = Rest(r, f) \cup {Frame(<<"Port", n>>, S, hops, dst, path)}
           /\ home' = IF route.distance = 0 THEN home \cup {path} ELSE home

\* Network 0 is the cable the datagram came off.
Named(f) == IF f.dst.net = 0 THEN [net |-> f.link[2], node |-> f.dst.node] ELSE f.dst
\* Node 0 is any router of the network and 255 is everybody.
ForUs(r, dst) ==
    /\ r \in Attached[dst.net]
    /\ \/ dst.node \in {"Any", "All"}
       \/ dst.node = r /\ dst.net \in claimed[r]

arrived(r, f) ==
    LET dst == Named(f)
    IN  \/ /\ f.link[1] # "Local" /\ ForUs(r, dst)
           /\ handed' = handed \cup {Append(f.path, r)}
           /\ IF dst.node = "All" THEN forward(r, f, dst)
                                  ELSE frames' = Rest(r, f) /\ UNCHANGED home
        \/ /\ f.link[1] = "Local" \/ ~ForUs(r, dst)
           /\ forward(r, f, dst)
           /\ UNCHANGED handed

Hear == \E f \in frames : \E r \in f.hears : arrived(r, f) /\ UNCHANGED claimed

\* A port's address claim completes.
Claim == \E r \in Routers : \E n \in Ports(r) \ claimed[r] :
    /\ claimed' = [claimed EXCEPT ![r] = @ \cup {n}]
    /\ UNCHANGED <<frames, handed, home>>

ForwardNext == Hear \/ Claim
ForwardSpec == ForwardInit /\ [][ForwardNext]_forwardVars
\* Every frame heard is read from the router's queue in the end.
ForwardLiveSpec == ForwardSpec /\ WF_forwardVars(Hear)
-----------------------------------------------------------------------------
\* Copies are datagrams on links that exist, heard by routers of the link.
TypeOK ==
    /\ frames \subseteq Frames
    /\ claimed \in [Routers -> SUBSET Nets]
    /\ handed \subseteq Seq(Routers)
    /\ home \subseteq Seq(Routers)

\* Whatever the tables say, and however they change meanwhile, no copy
\* crosses more than 2 * MAX_HOPS + 1 routers: a crossing that counts no hop
\* (tunnel to cable, or the first of all) is followed by one that does, so a
\* loop of cables and tunnels comes to an end (the hop rule of forward).
CrossingsBounded == \A f \in frames : Len(f.path) <= 2 * MaxHops + 1

\* Whatever the tables say, a copy that was put on its network is not put there
\* again, one that was handed to a router's services does not come back to them,
\* and a router makes one copy of what it hears once (arrived: "already where it
\* belongs" is a drop).  So two copies come by ways that part, neither the
\* beginning of the other: where several routers heard one frame on its way.
Begins(p, q) == Len(p) <= Len(q) /\ \A i \in 1..Len(p) : p[i] = q[i]
At(p) == p[Len(p)]
OneCopy ==
    /\ \A p, q \in home : Begins(p, q) => p = q
    /\ \A p, q \in handed : Begins(p, q) /\ At(p) = At(q) => p = q

\* ports.rs:285: a datagram for another network is sent to the next router's
\* own hardware address, because every router that hears it forwards it; so
\* a unicast one gets to its network once.
UnicastOnce == (\A f \in frames : f.dst.node # "All") => \A p, q \in home : p = q

\* With tables that stand still and ports that hold a node, a datagram gets to
\* its network if some router that hears it has a way there other than back,
\* and the hops it has and the distance known stay below MAX_HOPS.
Settled(n) == \A r \in Routers : \E route \in RoutesOf[r][n] :
    /\ RoutesOf[r][n] = {route}
    /\ route.target[1] = "Port" => route.target[2] \in claimed[r]
InReach == \E f \in frames : \E r \in f.hears :
    /\ f.dst.net # 0 /\ Settled(f.dst.net)
    /\ NoRoute \notin RoutesOf[r][f.dst.net]
    /\ \A t \in RoutesOf[r][f.dst.net] : t.target # f.link /\ f.hops + t.distance < MaxHops
Delivers == InReach ~> (home # {} \/ handed # {})
=============================================================================
