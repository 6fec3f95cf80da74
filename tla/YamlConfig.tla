----------------------------- MODULE YamlConfig -----------------------------
(***************************************************************************)
(* What the yaml module (yaml/src/yaml.cpp) makes of its files, after the  *)
(* library has parsed them: a sequence of files, the root and then those   *)
(* it includes.  A file is                                                 *)
(*   [proxels |-> its entries, hasConnections |-> is there a section       *)
(*    'Connections', connections |-> the pairs of port specifications],    *)
(* an entry                                                                *)
(*   [name, type, enable, replicate, lists |-> the sizes of its '$' lists],*)
(* and a port specification [name, ports |-> a sequence that is not empty].*)
(* The names in a file are distinct: they are the keys of a map.           *)
(***************************************************************************)
EXTENDS Naturals, Sequences, SequencesExt

Entry == [name : STRING, type : STRING, enable : BOOLEAN, replicate : Nat, lists : SUBSET Nat]
PortSpec == [name : STRING, ports : Seq(STRING) \ {<<>>}]
File == [proxels : Seq(Entry), hasConnections : BOOLEAN, connections : Seq(PortSpec \X PortSpec)]

\* The entries of all files, in order.
Entries(files) == FlattenSeq([i \in DOMAIN files |-> files[i].proxels])

EnabledEntries(files) == {e \in Range(Entries(files)) : e.enable}

ReplicaId(name, idx) == name \o "_" \o ToString(idx)

-----------------------------------------------------------------------------
\* The proxels to make.

ProxelConfig(id, e) == [id |-> id, type |-> e.type]

ReplicatedConfigs(e) ==
    [i \in 1..e.replicate |-> ProxelConfig(ReplicaId(e.name, i - 1), e)]

ConfigsOf(e) ==
    CASE ~e.enable -> <<>>
      [] e.enable /\ e.replicate > 1 -> ReplicatedConfigs(e)
      [] OTHER -> <<ProxelConfig(e.name, e)>>

ProxelConfigs(files) ==
    LET es == Entries(files) IN FlattenSeq([i \in DOMAIN es |-> ConfigsOf(es[i])])

\* A '$' list of a replicated proxel has an item for every replica.
ListsFit(files) ==
    \A e \in EnabledEntries(files) :
        e.replicate > 1 => e.lists \subseteq {e.replicate}

\* The base name of a replicated proxel is listed beside the replicas.
ProxelNames(files) ==
    {e.name : e \in EnabledEntries(files)}
    \cup UNION {{ReplicaId(e.name, i - 1) : i \in 1..e.replicate} :
                    e \in {f \in EnabledEntries(files) : f.replicate > 1}}

\* The first file that replicates the name decides, whether or not the entry is
\* enabled.
Replicas(files, name) ==
    LET es == Entries(files)
        at == {i \in DOMAIN es : es[i].name = name /\ es[i].replicate > 1} IN
    IF at = {} THEN 1 ELSE es[Min(at)].replicate

-----------------------------------------------------------------------------
\* The connections to make.

\* A list of ports for a replicated proxel is ambiguous.
Ambiguous(spec, replicas) == replicas > 1 /\ Len(spec.ports) > 1

\* Mutation: each replica is connected at a port of its own.
ExpandByPort(spec, replicas) ==
    IF replicas > 1
    THEN [i \in 1..replicas |-> <<ReplicaId(spec.name, i), spec.ports[1]>>]
    ELSE [i \in DOMAIN spec.ports |-> <<spec.name, spec.ports[i]>>]

Expand(spec, replicas) ==
    IF replicas > 1
    THEN [i \in 1..replicas |-> <<ReplicaId(spec.name, i - 1), spec.ports[1]>>]
    ELSE [i \in DOMAIN spec.ports |-> <<spec.name, spec.ports[i]>>]

Stretch(list, size) == IF Len(list) = size THEN list ELSE [i \in 1..size |-> list[1]]

\* The two lists of a connection, of the same size if either has one item.
Pairs(lhs, rhs) ==
    LET size == IF Len(lhs) > Len(rhs) THEN Len(lhs) ELSE Len(rhs) IN
    Zip(Stretch(lhs, size), Stretch(rhs, size))

Enabled(files, c) == c[1].name \in ProxelNames(files) /\ c[2].name \in ProxelNames(files)

\* The pairs of all files, in order.
AllConnections(files) == FlattenSeq([i \in DOMAIN files |-> files[i].connections])

Side(files, spec) == Expand(spec, Replicas(files, spec.name))

ConnectionFails(files, c) ==
    LET l == Len(Side(files, c[1]))
        r == Len(Side(files, c[2])) IN
    \/ \E spec \in Range(c) : Ambiguous(spec, Replicas(files, spec.name))
    \/ l # r /\ l # 1 /\ r # 1

\* A connection of a proxel that is not enabled is left out.
SpecsOf(files, c) ==
    IF Enabled(files, c) THEN Pairs(Side(files, c[1]), Side(files, c[2])) ELSE <<>>

Connections(files) ==
    LET cs == AllConnections(files) IN FlattenSeq([i \in DOMAIN cs |-> SpecsOf(files, cs[i])])

ConnectionsFail(files) ==
    \E c \in Range(AllConnections(files)) : Enabled(files, c) /\ ConnectionFails(files, c)

-----------------------------------------------------------------------------
\* What createGraph() and generateDOTFile() refuse before they begin.  createGraph()
\* appends to the root's section 'Connections', which may be empty, and may lack
\* if an included file has a connection; generateDOTFile() begins with no section,
\* so that there must be a connection somewhere, and every file must have one.
Unconnected(files) == \A i \in DOMAIN files : files[i].connections = <<>>

CreateGraphFails(files) ==
    \/ \E i \in DOMAIN files \ {1} : ~files[i].hasConnections
    \/ ~files[1].hasConnections /\ Unconnected(files)
    \/ ~ListsFit(files)
    \/ ConnectionsFail(files)

GenerateDOTFileFails(files) ==
    \/ \E i \in DOMAIN files : ~files[i].hasConnections
    \/ Unconnected(files)
    \/ ConnectionsFail(files)

\* Mutation: only the proxels with connections are drawn.
DotNodesConnected(files) ==
    UNION {{c[1][1], c[2][1]} : c \in Range(Connections(files))}

\* The nodes of GraphViz: those of the connections, and the names without any.
DotNodes(files) ==
    ProxelNames(files) \cup UNION {{c[1][1], c[2][1]} : c \in Range(Connections(files))}

\* Mutation: the right side is drawn first.
DotEdgesTurned(files) == {<<c[2], c[1]>> : c \in Range(Connections(files))}

\* An edge goes from the left side to the right side, whichever is the producer.
DotEdges(files) == Range(Connections(files))
=============================================================================
