---------------------------- MODULE GraphFactory ----------------------------
(***************************************************************************)
(* createGraph(): the configuration files become a graph, proxel by proxel *)
(* (graph_factory.h, factory_map.h) and connection by connection           *)
(* (Graph::connect), or an exception at any of the steps and nothing.      *)
(* What a port accepts is PortConnections: a producer goes with a consumer *)
(* of a type that it gives, and a Single consumer takes one producer.      *)
(***************************************************************************)
EXTENDS YamlConfig, FiniteSets

CONSTANTS
    Files,          \* the configurations that are tried
    FactoryMaps,    \* the factories of each library: type |-> "makes" or "throws"
    PortsOf         \* PortsOf[type][port]: its kind, "out", "in", "multi" or "null", and its data,
                    \* the types that it gives or takes

VARIABLES
    files,          \* the configuration
    stage,          \* "parse", "create", "connect", "created" or "failed"
    configs,        \* the proxels still to be made
    specs,          \* the connections still to be made
    proxels,        \* proxels_: id |-> type
    links,          \* the connected ports: <<producer, consumer>>
    view            \* what a GUI keeps (GraphGui); createGraph() leaves it alone

ASSUME FilesAssumption == Files \subseteq Seq(File) \ {<<>>}
ASSUME FactoryMapsAssumption == FactoryMaps \in Seq(Range(FactoryMaps))

vars == <<files, stage, configs, specs, proxels, links, view>>
graphVars == <<files, stage, configs, specs, proxels, links>>

Nothing == [id \in {} |-> "none"]

Init ==
    /\ files \in Files
    /\ stage = "parse"
    /\ configs = <<>> /\ specs = <<>>
    /\ proxels = Nothing
    /\ links = {}

\* An exception: the proxels made so far are destroyed, and there is no graph.
Throws ==
    /\ stage' = "failed"
    /\ configs' = <<>> /\ specs' = <<>>
    /\ proxels' = Nothing
    /\ links' = {}
    /\ UNCHANGED <<files, view>>

-----------------------------------------------------------------------------
Parse ==
    /\ stage = "parse" /\ ~CreateGraphFails(files)
    /\ stage' = "create"
    /\ configs' = ProxelConfigs(files)
    /\ specs' = Connections(files)
    /\ UNCHANGED <<files, proxels, links, view>>

ParseThrows == stage = "parse" /\ CreateGraphFails(files) /\ Throws

\* Mutation: the last library wins.
PlusOver(f, g) == [t \in DOMAIN f \cup DOMAIN g |-> IF t \in DOMAIN g THEN g[t] ELSE f[t]]

\* FactoryMap::operator+= keeps the factory that is there.
Plus(f, g) == [t \in DOMAIN f \cup DOMAIN g |-> IF t \in DOMAIN f THEN f[t] ELSE g[t]]

\* The factories of the first n libraries.
FactoriesOf[n \in 0..Len(FactoryMaps)] ==
    IF n = 0 THEN Nothing ELSE Plus(FactoriesOf[n - 1], FactoryMaps[n])

Factories == FactoriesOf[Len(FactoryMaps)]

CanCreate(config) ==
    /\ config.id \notin DOMAIN proxels
    /\ config.type \in DOMAIN Factories /\ Factories[config.type] = "makes"

CreateProxel ==
    /\ stage = "create" /\ configs # <<>> /\ CanCreate(Head(configs))
    /\ proxels' = [id \in DOMAIN proxels \cup {Head(configs).id} |->
            IF id \in DOMAIN proxels THEN proxels[id] ELSE Head(configs).type]
    /\ configs' = Tail(configs)
    /\ UNCHANGED <<files, stage, specs, links, view>>

CreateThrows == stage = "create" /\ configs # <<>> /\ ~CanCreate(Head(configs)) /\ Throws

BeginConnect ==
    /\ stage = "create" /\ configs = <<>>
    /\ stage' = "connect"
    /\ UNCHANGED <<files, configs, specs, proxels, links, view>>

-----------------------------------------------------------------------------
\* Graph::connect(), with ends <<proxel, port>>, among the proxels that are made.

HasPort(made, end) == end[1] \in DOMAIN made /\ end[2] \in DOMAIN PortsOf[made[end[1]]]
Kind(made, end) == PortsOf[made[end[1]]][end[2]].kind
Data(made, end) == PortsOf[made[end[1]]][end[2]].data

\* The two ends, the producer first.
Link(made, a, b) == IF Kind(made, a) = "out" THEN <<a, b>> ELSE <<b, a>>

\* Mutation: any consumer will do.
FitsAny(l) ==
    /\ Kind(proxels, l[1]) = "out" /\ Kind(proxels, l[2]) \in {"in", "multi"}
    /\ Kind(proxels, l[2]) = "in" => \A m \in links : m[2] = l[2] => m = l

\* The producer finds a consumer of its type, or of one of its variants.
Fits(l) ==
    /\ Kind(proxels, l[1]) = "out" /\ Kind(proxels, l[2]) \in {"in", "multi"}
    /\ Data(proxels, l[1]) \cap Data(proxels, l[2]) # {}
    /\ Kind(proxels, l[2]) = "in" => \A m \in links : m[2] = l[2] => m = l

\* Mutation: a proxel may be connected to itself.
CanConnectLoops(a, b) ==
    HasPort(proxels, a) /\ HasPort(proxels, b) /\ Fits(Link(proxels, a, b))

CanConnect(a, b) ==
    /\ a[1] # b[1]
    /\ HasPort(proxels, a) /\ HasPort(proxels, b) /\ Fits(Link(proxels, a, b))

Connect ==
    /\ stage = "connect" /\ specs # <<>>
    /\ CanConnect(Head(specs)[1], Head(specs)[2])
    /\ links' = links \cup {Link(proxels, Head(specs)[1], Head(specs)[2])}
    /\ specs' = Tail(specs)
    /\ UNCHANGED <<files, stage, configs, proxels, view>>

ConnectThrows ==
    /\ stage = "connect" /\ specs # <<>>
    /\ ~CanConnect(Head(specs)[1], Head(specs)[2])
    /\ Throws

ReturnGraph ==
    /\ stage = "connect" /\ specs = <<>>
    /\ stage' = "created"
    /\ UNCHANGED <<files, configs, specs, proxels, links, view>>

CreateGraph ==
    \/ Parse \/ ParseThrows
    \/ CreateProxel \/ CreateThrows \/ BeginConnect
    \/ Connect \/ ConnectThrows \/ ReturnGraph

-----------------------------------------------------------------------------
(***************************************************************************)
(* What the files say, without any order of working: the reference that    *)
(* createGraph() is compared with.                                         *)
(***************************************************************************)

\* The enabled entries by their place, which tells equal entries apart.
EntryAt(w) == files[w[1]].proxels[w[2]]
Written ==
    {w \in UNION {{<<i, j>> : j \in DOMAIN files[i].proxels} : i \in DOMAIN files} :
        EntryAt(w).enable}

\* How many proxels an entry stands for, and what they are called.
Copies(e) == IF e.replicate > 1 THEN 1..e.replicate ELSE {1}
Called(e, n) == IF e.replicate > 1 THEN ReplicaId(e.name, n - 1) ELSE e.name

Declared == UNION {{<<w, n>> : n \in Copies(EntryAt(w))} : w \in Written}
IdOf(d) == Called(EntryAt(d[1]), d[2])
TypeOfId(id) == EntryAt((CHOOSE d \in Declared : IdOf(d) = id)[1]).type

\* A connection that is not left out, and the proxels that one side of it means.
Means(spec) ==
    {n \in {1} : \E d \in Declared : IdOf(d) = spec.name}
    \cup UNION {Copies(EntryAt(w)) : w \in {v \in Written : EntryAt(v).name = spec.name}}

WrittenConnections ==
    {c \in UNION {Range(files[i].connections) : i \in DOMAIN files} :
        Means(c[1]) # {} /\ Means(c[2]) # {}}

\* The places of one side: its replicas, or the ports of its list.
Places(spec) == IF Cardinality(Means(spec)) > 1 THEN Means(spec) ELSE DOMAIN spec.ports

EndAt(spec, n) ==
    IF Cardinality(Means(spec)) > 1
    THEN <<ReplicaId(spec.name, n - 1), spec.ports[1]>>
    ELSE <<spec.name, spec.ports[IF Len(spec.ports) > 1 THEN n ELSE 1]>>

\* Replica goes with replica, and what there is one of goes with all.
WrittenLinks ==
    UNION {{<<EndAt(c[1], n), EndAt(c[2], n)>> :
                n \in Places(c[1]) \cup Places(c[2])} : c \in WrittenConnections}

KindOf(end) == PortsOf[TypeOfId(end[1])][end[2]].kind
DataOf(end) == PortsOf[TypeOfId(end[1])][end[2]].data
Directed == {IF KindOf(l[1]) = "out" THEN l ELSE <<l[2], l[1]>> : l \in WrittenLinks}

\* The first library that knows a type makes it.
Makes(type) ==
    \E i \in DOMAIN FactoryMaps :
        /\ type \in DOMAIN FactoryMaps[i] /\ FactoryMaps[i][type] = "makes"
        /\ \A j \in 1..(i - 1) : type \notin DOMAIN FactoryMaps[j]

SectionsAreThere ==
    /\ \A i \in DOMAIN files \ {1} : files[i].hasConnections
    /\ files[1].hasConnections \/ \E i \in DOMAIN files : files[i].connections # <<>>

WellFormed ==
    /\ SectionsAreThere
    /\ \A w \in Written : Makes(EntryAt(w).type)
    /\ \A w \in Written : \A n \in EntryAt(w).lists :
            Cardinality(Copies(EntryAt(w))) \in {1, n}
    /\ \A d, e \in Declared : IdOf(d) = IdOf(e) => d = e
    /\ \A c \in WrittenConnections :
            /\ \A spec \in Range(c) : Cardinality(Means(spec)) > 1 => Len(spec.ports) = 1
            /\ \/ Places(c[1]) = Places(c[2])
               \/ Cardinality(Places(c[1])) = 1 \/ Cardinality(Places(c[2])) = 1
    /\ \A l \in WrittenLinks :
            /\ l[1][1] # l[2][1]
            /\ \A end \in Range(l) :
                /\ \E d \in Declared : IdOf(d) = end[1]
                /\ end[2] \in DOMAIN PortsOf[TypeOfId(end[1])]
            /\ {"out"} \subseteq {KindOf(l[1]), KindOf(l[2])}
            /\ {KindOf(l[1]), KindOf(l[2])} \cap {"in", "multi"} # {}
            /\ DataOf(l[1]) \cap DataOf(l[2]) # {}
    /\ \A l, m \in Directed : l[2] = m[2] /\ KindOf(l[2]) = "in" => l = m

\* Every entry of a name, enabled or not, has the same number of replicas, and an
\* entry that is replicated and not enabled is not called as a proxel is; else the
\* first that is replicated counts for the connections of all.
CountsAgree ==
    /\ \A e, f \in Range(Entries(files)) : e.name = f.name => Copies(e) = Copies(f)
    /\ \A e \in Range(Entries(files)), d \in Declared :
            e.replicate > 1 /\ IdOf(d) = e.name => e.enable

-----------------------------------------------------------------------------
(***************************************************************************)
(* Properties.                                                             *)
(***************************************************************************)

\* createGraph() returns exactly the proxels and the connections that the files
\* describe, replica with replica; and it fails exactly when the files are not
\* well formed, whichever of its steps finds out.
GraphIsWhatIsWritten ==
    CountsAgree =>
        /\ stage = "created" =>
            /\ WellFormed
            /\ proxels = [id \in {IdOf(d) : d \in Declared} |-> TypeOfId(id)]
            /\ links = Directed
        /\ stage = "failed" => ~WellFormed

\* The edges that begin at a consumer.
Backwards == {c \in DotEdges(files) : Kind(proxels, c[1]) # "out"}

\* The DOT file draws the graph that createGraph() makes of the same files, with a
\* node too many for each replicated proxel, its base name.  Every arrow goes from the
\* side that is written first to the other (graphviz.cpp:97).  So the arrow of a
\* connection that is written consumer first goes against the data: turned round, it
\* is a link of the graph, but as it is drawn it is none.  Only a root without the
\* section, and files without any connection, make a graph and no DOT file.
DotShowsTheGraph ==
    stage = "created" =>
        IF files[1].hasConnections /\ \E i \in DOMAIN files : files[i].connections # <<>>
        THEN /\ ~GenerateDOTFileFails(files)
             /\ DotNodes(files) = DOMAIN proxels \cup
                    {e.name : e \in {f \in EnabledEntries(files) : f.replicate > 1}}
             /\ links = (DotEdges(files) \ Backwards) \cup {<<c[2], c[1]>> : c \in Backwards}
             /\ links \cap Backwards = {}
             /\ CountsAgree => DotEdges(files) = WrittenLinks
        ELSE GenerateDOTFileFails(files)

-----------------------------------------------------------------------------
(***************************************************************************)
(* The invariant behind both: at every step createGraph() has made the     *)
(* proxels and the links of what is worked off, all of which can be made;  *)
(* and it fails only if something in the files cannot be made, in whatever *)
(* order it is tried.                                                      *)
(***************************************************************************)

\* All that is asked for, and whether it can be made.
MadeOf(fs) ==
    LET all == Range(ProxelConfigs(fs)) IN
    [id \in {c.id : c \in all} |-> (CHOOSE c \in all : c.id = id).type]

LinksOf(fs) == {Link(MadeOf(fs), c[1], c[2]) : c \in Range(Connections(fs))}

ConfigsFit(fs) ==
    LET all == ProxelConfigs(fs) IN
    /\ \A i \in DOMAIN all : Makes(all[i].type)
    /\ \A i, j \in DOMAIN all : all[i].id = all[j].id => i = j

SpecsFit(fs) ==
    LET made == MadeOf(fs) IN
    /\ \A c \in Range(Connections(fs)) :
            c[1][1] # c[2][1] /\ HasPort(made, c[1]) /\ HasPort(made, c[2])
    /\ \A l \in LinksOf(fs) :
            /\ Kind(made, l[1]) = "out" /\ Kind(made, l[2]) \in {"in", "multi"}
            /\ Data(made, l[1]) \cap Data(made, l[2]) # {}
            /\ Kind(made, l[2]) = "in" => \A m \in LinksOf(fs) : m[2] = l[2] => m = l

CanBeMade(fs) == ~CreateGraphFails(fs) /\ ConfigsFit(fs) /\ SpecsFit(fs)

\* A list that is worked off from its head: what is left, and what is done.
IsRest(rest, list) ==
    /\ rest \in Seq(Range(list)) /\ Len(rest) <= Len(list)
    /\ \A i \in DOMAIN rest : rest[i] = list[Len(list) - Len(rest) + i]

Done(rest, list) == 1..(Len(list) - Len(rest))

ProxelsMade ==
    LET all == ProxelConfigs(files)
        done == Done(configs, all) IN
    /\ IsRest(configs, all)
    /\ proxels = [id \in {all[i].id : i \in done} |-> proxels[id]]
    /\ \A i \in done : proxels[all[i].id] = all[i].type /\ Makes(all[i].type)
    /\ \A i, j \in done : all[i].id = all[j].id => i = j

LinksMade ==
    LET all == Connections(files)
        done == Done(specs, all) IN
    /\ IsRest(specs, all)
    /\ links = {Link(proxels, all[i][1], all[i][2]) : i \in done}
    /\ \A i \in done : /\ all[i][1][1] # all[i][2][1]
                        /\ HasPort(proxels, all[i][1]) /\ HasPort(proxels, all[i][2])
    /\ \A l \in links : Fits(l)

FactoryInv ==
    /\ stage \in {"parse", "create", "connect", "created", "failed"}
    /\ stage \in {"parse", "failed"} =>
            configs = <<>> /\ specs = <<>> /\ proxels = Nothing /\ links = {}
    /\ stage \in {"create", "connect", "created"} =>
            /\ ~CreateGraphFails(files) /\ ProxelsMade /\ LinksMade
            /\ stage = "create" => specs = Connections(files)
            /\ stage # "create" => configs = <<>>
            /\ stage = "created" => specs = <<>>
    /\ stage = "failed" => ~CanBeMade(files)
=============================================================================
