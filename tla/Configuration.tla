---------------------------- MODULE Configuration ----------------------------
(***************************************************************************)
(* Where a router's settings come from (config.rs, cli.rs): the file, the  *)
(* flags laid over it, the check of what they make together; and the       *)
(* command that merges a list of peers into the file (`peers import').     *)
(* Routers start, imports run and are interrupted, files are edited by     *)
(* hand, in any order.                                                     *)
(*                                                                         *)
(* A file holds nothing, text that is no configuration (a typing error, or *)
(* the start of one not written to its end), or a document.  Of a name is  *)
(* kept whether AppleTalk can carry it, of a host how it is spelled; the   *)
(* spec of a port on the command line is the record its text stands for.   *)
(* A write that fails and one that is interrupted leave the same file.     *)
(***************************************************************************)
EXTENDS Naturals, Sequences, FiniteSets, SequencesExt

CONSTANTS
    Files,      \* paths that may be given or looked in
    DEFAULTS,   \* those looked in when none is given, in order
    Names,      \* of routers and of zones
    Interfaces, \* and devices of ports
    MacRoman,   \* those of 1 to 32 characters, none above U+00FF
    MAX_NET,    \* the highest network number, 16#fefe
    Hosts,      \* lines that name a host
    Lower,      \* how a peer is spelled in lower case; a file's need not be a host
    Written,    \* what may be found in a file written by hand
    Lists,      \* lists of peers to import: sequences of lines
    Flags,      \* RouterArgs to start a router with
    Importers,  \* imports that may run side by side
    MaxEdits, MaxImports, \* bounds on edits and on imports
    None

VARIABLES
    file, tmp,     \* the text of each configuration file, and of its .toml.tmp
    import,        \* how far each import has come
    running,       \* the configuration a router runs with
    edits, imports \* history: how many there have been

vars == <<file, tmp, import, running, edits, imports>>

Kinds == <<"ethertalk", "ltoudp", "tashtalk">>
Settings == {"name", "public_ip", "listen", "open_peering"}

\* No file, text that is not TOML, part of a document.
Absent  == [holds |-> "nothing"]
Garbage == [holds |-> "garbage"]
Half    == [holds |-> "half"]

\* A document; a file without a line in it is one.
Spelled == DOMAIN Lower
PortSpec == [interface : Interfaces, net : Nat \X Nat, zones : Seq(Names)]
IsDocument(text) ==
    /\ text = [set |-> text.set, peers |-> text.peers, ports |-> text.ports]
    /\ text.peers \in Seq(Spelled) /\ text.ports \in [ToSet(Kinds) -> Seq(PortSpec)]
Empty == [set |-> [s \in Settings |-> None], peers |-> <<>>,
          ports |-> [k \in ToSet(Kinds) |-> <<>>]]
Default == [Empty EXCEPT !.set = [name |-> "appletalk", public_ip |-> None,
                                  listen |-> "any:387", open_peering |-> TRUE]]

ASSUME ConfigurationAssumption ==
    /\ DEFAULTS \in Seq(Files) /\ IsInjective(DEFAULTS) /\ DEFAULTS # <<>>
    /\ MacRoman \subseteq Names /\ "appletalk" \in MacRoman
    /\ MAX_NET \in Nat \ {0}
    /\ Hosts \subseteq Spelled /\ None \notin Files
    /\ \A text \in Written : text = Garbage \/ IsDocument(text)
    /\ \A lines \in Lists : lines \in Seq(ToSet(lines))
    /\ \A args \in Flags : args.config \in Files \cup {None}
    /\ \A args \in Flags : \A g \in {"replace", "add"} :
          /\ args.lists["peers"][g] \in Seq(Spelled)
          /\ \A k \in ToSet(Kinds) : args.lists[k][g] \in Seq(PortSpec)
    /\ {MaxEdits, MaxImports} \subseteq Nat
-----------------------------------------------------------------------------
(* Reading a file, and the specs of ports on the command line.             *)

parse_net(net) == net[1] # 0 /\ net[2] <= MAX_NET /\ net[1] <= net[2]
one_net(net) == parse_net(net) /\ net[1] = net[2]
net_of(k, net) == IF k = "ethertalk" THEN parse_net(net) ELSE one_net(net)
roman(name) == name \in MacRoman
parse_spec(k, p) == net_of(k, p.net) /\ \A z \in ToSet(p.zones) : roman(z)

\* Whether parse_file accepts a text: names of zones it does not look at.
parse_file(text) ==
    /\ text \notin {Garbage, Half}
    /\ \A k \in ToSet(Kinds) : \A p \in ToSet(text.ports[k]) : net_of(k, p.net)
Over(above, below) == [s \in Settings |-> IF above[s] = None THEN below[s] ELSE above[s]]
ConfigOf(text) == [text EXCEPT !.set = Over(@, Default.set)]
-----------------------------------------------------------------------------
(* The flags laid over the file.                                           *)

\* What clap lets through: of a list's three flags one at most.
parses(args) ==
    \A l \in DOMAIN args.lists : LET f == args.lists[l] IN
        Cardinality({g \in {"replace", "add"} : f[g] # <<>>}
                    \cup (IF f.none THEN {"none"} ELSE {})) <= 1

merge_list(list, flags) ==
    IF flags.replace # <<>> THEN flags.replace
    ELSE IF flags.none THEN <<>> ELSE list \o flags.add

\* Every spec given as a flag must be one.
specs_parse(args) ==
    \A k \in ToSet(Kinds) : \A g \in {"replace", "add"} :
        \A p \in ToSet(args.lists[k][g]) : parse_spec(k, p)
merge(c, args) ==
    [set   |-> Over([args.set EXCEPT !.open_peering = IF args.no_open_peering THEN FALSE ELSE None],
                    c.set),
     peers |-> merge_list(c.peers, args.lists["peers"]),
     ports |-> [k \in ToSet(Kinds) |-> merge_list(c.ports[k], args.lists[k])]]

\* The ports of all kinds, in the order they are checked.
ports(cfg) == cfg.ports["ethertalk"] \o cfg.ports["ltoudp"] \o cfg.ports["tashtalk"]
\* What the routing table is made from: each port's networks and zones.
port_specs(cfg) == [i \in DOMAIN ports(cfg) |->
    LET p == ports(cfg)[i] IN [net |-> <<p.net[1], p.net[2]>>, zones |-> p.zones]]
\* Mutant: ranges that share their last network do not overlap.
meet_Open(r, s) == r[1] < s[2] /\ s[1] < r[2]
meet(r, s) == r[1] <= s[2] /\ s[1] <= r[2]
validate(cfg) ==
    /\ roman(cfg.set["name"])
    /\ ports(cfg) # <<>>
    /\ \A i \in DOMAIN ports(cfg) : LET p == ports(cfg)[i] IN
        /\ \A j \in 1..(i - 1) : /\ ports(cfg)[j].interface # p.interface
                                 /\ ~meet(ports(cfg)[j].net, p.net)
        /\ parse_net(p.net)
        /\ p.zones # <<>> /\ \A z \in ToSet(p.zones) : roman(z)

default_config ==
    LET there == {i \in DOMAIN DEFAULTS : file[DEFAULTS[i]] # Absent}
    IN  IF there = {} THEN None ELSE DEFAULTS[CHOOSE i \in there : \A j \in there : i <= j]
find_config(explicit) == IF explicit # None THEN explicit ELSE default_config

\* The text a router started with args reads: a file named must be there.
TextFor(args) == LET f == find_config(args.config) IN IF f = None THEN Empty ELSE file[f]
Loads(args) ==
    /\ parses(args)
    /\ TextFor(args) # Absent /\ parse_file(TextFor(args))
    /\ specs_parse(args)
    /\ validate(merge(ConfigOf(TextFor(args)), args))
-----------------------------------------------------------------------------
(* A router starts, with flags of its own, and stops.                       *)
Start(args) ==
    /\ running = None /\ Loads(args)
    /\ running' = merge(ConfigOf(TextFor(args)), args)
    /\ UNCHANGED <<file, tmp, import, edits, imports>>

Stop ==
    /\ running # None /\ running' = None
    /\ UNCHANGED <<file, tmp, import, edits, imports>>
-----------------------------------------------------------------------------
(* An import: it reads the list, then the configuration, writes the whole   *)
(* of it anew beside the old one, and puts it in its place.                 *)
Idle == [pc |-> "idle"]
is_host(line) == line \in Hosts
Skipped == {"", "#"}
parse_peer_list(lines) == \A l \in ToSet(lines) : is_host(l) \/ l \in Skipped
\* The peers once the first n lines are merged.  Mutant: a host already there
\* in other letters is a new peer.
merge_peers_CaseMatters(peers, lines) ==
    LET merged[n \in 0..Len(lines)] ==
          IF n = 0 THEN peers
          ELSE IF ~is_host(lines[n]) \/ lines[n] \in ToSet(merged[n - 1]) THEN merged[n - 1]
          ELSE Append(merged[n - 1], lines[n])
    IN  merged[Len(lines)]
Known(host, peers) == Lower[host] \in {Lower[p] : p \in ToSet(peers)}
merge_peers(peers, lines) ==
    LET merged[n \in 0..Len(lines)] ==
          IF n = 0 THEN peers
          ELSE IF ~is_host(lines[n]) \/ Known(lines[n], merged[n - 1]) THEN merged[n - 1]
          ELSE Append(merged[n - 1], lines[n])
    IN  merged[Len(lines)]

\* Unlike a router's, the file need not be there yet.
FileToImport(given) ==
    IF find_config(given) # None THEN find_config(given) ELSE Head(DEFAULTS)
ImportList(i, given, lines) ==
    /\ import[i] = Idle /\ imports < MaxImports
    /\ imports' = imports + 1
    /\ parse_peer_list(lines)
    /\ import' = [import EXCEPT ![i] = [pc |-> "read", path |-> FileToImport(given),
                                        lines |-> lines]]
    /\ UNCHANGED <<file, tmp, running, edits>>

\* The text the command works from; with nothing new in the list it is done.
TextRead(f) == IF file[f] = Absent THEN Empty ELSE file[f]
ReadConfig(i) ==
    /\ import[i].pc = "read"
    /\ LET text == TextRead(import[i].path)
       IN  /\ parse_file(text)
           /\ LET doc == [text EXCEPT !.peers = merge_peers(@, import[i].lines)]
              IN  import' = [import EXCEPT ![i] = IF doc = text THEN Idle
                                ELSE [pc |-> "open", path |-> @.path, text |-> text, doc |-> doc]]
    /\ UNCHANGED <<file, tmp, running, edits, imports>>

\* fs::write empties what is there, and fills it.  Mutant: the configuration
\* is written where it is.
OpenTmp_InPlace(i) ==
    /\ import[i].pc = "open"
    /\ file' = [file EXCEPT ![import[i].path] = Half]
    /\ tmp' = [tmp EXCEPT ![import[i].path] = Half]
    /\ import' = [import EXCEPT ![i].pc = "write"]
    /\ UNCHANGED <<running, edits, imports>>
OpenTmp(i) ==
    /\ import[i].pc = "open"
    /\ tmp' = [tmp EXCEPT ![import[i].path] = Half]
    /\ import' = [import EXCEPT ![i].pc = "write"]
    /\ UNCHANGED <<file, running, edits, imports>>
WriteTmp(i) ==
    /\ import[i].pc = "write"
    /\ tmp' = [tmp EXCEPT ![import[i].path] = import[i].doc]
    /\ import' = [import EXCEPT ![i].pc = "rename"]
    /\ UNCHANGED <<file, running, edits, imports>>
Rename(i) ==
    /\ import[i].pc = "rename" /\ tmp[import[i].path] # Absent
    /\ file' = [file EXCEPT ![import[i].path] = tmp[import[i].path]]
    /\ tmp' = [tmp EXCEPT ![import[i].path] = Absent]
    /\ import' = [import EXCEPT ![i] = Idle]
    /\ UNCHANGED <<running, edits, imports>>

\* It ends where it is: interrupted, or for an error of the disk or of a text
\* that does not parse.  What it has written stays.
EndEarly(i) ==
    /\ import[i] # Idle
    /\ import' = [import EXCEPT ![i] = Idle]
    /\ UNCHANGED <<file, tmp, running, edits, imports>>
-----------------------------------------------------------------------------
Edit(f, text) ==
    /\ edits < MaxEdits /\ text # file[f]
    /\ edits' = edits + 1
    /\ file' = [file EXCEPT ![f] = text]
    /\ UNCHANGED <<tmp, import, running, imports>>

Init ==
    /\ file = [f \in Files |-> Absent] /\ tmp = [f \in Files |-> Absent]
    /\ import = [i \in Importers |-> Idle]
    /\ running = None
    /\ edits = 0 /\ imports = 0

Next ==
    \/ \E args \in Flags : Start(args)
    \/ Stop
    \/ \E i \in Importers :
          \/ \E given \in Files \cup {None}, lines \in Lists : ImportList(i, given, lines)
          \/ ReadConfig(i) \/ OpenTmp(i) \/ WriteTmp(i) \/ Rename(i) \/ EndEarly(i)
    \/ \E f \in Files, text \in Written \cup {Absent} : Edit(f, text)

Spec == Init /\ [][Next]_vars
-----------------------------------------------------------------------------
(* A configuration file is what somebody wrote or what a whole import made  *)
(* of it, wherever an import is interrupted (config.rs:513).  True of one   *)
(* import at a time: two share the name of their .toml.tmp.                 *)
NeverHalf == \A f \in Files : file[f] # Half

(* Whatever the file and the flags say, a router runs only with ports the   *)
(* routing table can be built on (the assumption on ports of RoutingTable): *)
(* no network number belongs to two, each is in 1..MAX_NET, a LocalTalk     *)
(* port has one, each port has a zone; and every name can be sent.          *)
Networks(p) == {n \in 0..(MAX_NET + 1) : p.net[1] <= n /\ n <= p.net[2]}
RunningIsSound ==
    running # None =>
        LET all == port_specs(running) IN
        /\ all # <<>>
        /\ \A i, j \in DOMAIN all :
              i # j => /\ Networks(all[i]) \cap Networks(all[j]) = {}
                       /\ ports(running)[i].interface # ports(running)[j].interface
        /\ \A p \in ToSet(all) : /\ Networks(p) # {} /\ Networks(p) \subseteq 1..MAX_NET
                                 /\ p.zones # <<>>
        /\ \A k \in {"ltoudp", "tashtalk"} : \A p \in ToSet(running.ports[k]) :
              Cardinality(Networks(p)) = 1
        /\ {running.set["name"]} \cup UNION {ToSet(p.zones) : p \in ToSet(all)} \subseteq MacRoman

(* An import changes nothing for any router but its peers: one that could   *)
(* start before with some flags still can, with the same settings and ports *)
(* and the same peers in their order, then those of the list that were not  *)
(* there under another spelling, each once (merge_peers, find_config).      *)
(* Left out: a file edited between the import's reading and its renaming    *)
(* (the edit is lost), and a file made where another was looked in before   *)
(* (it hides the other's ports).                                            *)
Renaming(i) ==
    /\ import[i].pc = "rename" /\ import'[i] = Idle /\ file' # file
    /\ TextRead(import[i].path) = import[i].text
    /\ file[import[i].path] # Absent \/ default_config = None
Same(c, d) == c.set = d.set /\ c.ports = d.ports
AddsOnly(old, new) ==
    /\ IsPrefix(old, new)
    /\ \A j \in (Len(old) + 1)..Len(new) : \A k \in 1..(j - 1) : Lower[new[j]] # Lower[new[k]]
ConfigFor(args) == merge(ConfigOf(TextFor(args)), args)
ImportOnlyAdds ==
    [][\A i \in Importers : Renaming(i) =>
        \A args \in Flags : Loads(args) =>
            /\ Loads(args)'
            /\ Same(ConfigFor(args), ConfigFor(args)')
            /\ \/ AddsOnly(ConfigFor(args).peers, ConfigFor(args).peers')
               \/ args.lists["peers"].add # <<>>]_vars
=============================================================================
