----------------------------- MODULE MCStartup -----------------------------
(***************************************************************************)
(* From the files to the screen: createGraph() on a family of small        *)
(* configurations, and the GUI on the graphs of some of them.              *)
(***************************************************************************)
EXTENDS GraphGui

\* Two libraries know a type: the first wins.
Libraries == <<
    [t \in {"Src", "Snk", "Bad"} |-> IF t = "Bad" THEN "throws" ELSE "makes"],
    [t \in {"Mix", "Bad", "Snk"} |-> IF t = "Snk" THEN "throws" ELSE "makes"]>>

Types == {"Src", "Snk", "Mix", "Bad"}

APort(kind, data) == [kind |-> kind, data |-> data]

\* The outport of a Mix fits only one of the inports of a Snk, and its own inport.
PortKinds == [t \in Types |->
    CASE t = "Src" -> [p \in {"o", "q"} |-> APort("out", IF p = "o" THEN {"int"} ELSE {"int", "bool"})]
      [] t = "Snk" -> [p \in {"i", "j"} |->
                            IF p = "i" THEN APort("multi", {"int"}) ELSE APort("in", {"int", "text"})]
      [] t = "Mix" -> [p \in {"i", "o"} |->
                            IF p = "i" THEN APort("in", {"int", "text"}) ELSE APort("out", {"text"})]
      [] OTHER -> [p \in {"i", "n"} |-> IF p = "i" THEN APort("in", {"int"}) ELSE APort("null", {})]]

AnEntry(name, type, enable, replicate, lists) ==
    [name |-> name, type |-> type, enable |-> enable, replicate |-> replicate, lists |-> lists]

Sections ==
    {<<a, b>> : a \in {AnEntry("a", "Src", TRUE, n, l) : n \in 1..3, l \in {{}, {2}}}
                      \cup {AnEntry("a", "Mix", TRUE, n, {}) : n \in {0, 2}}
                      \cup {AnEntry("a", "Src", FALSE, 2, {})},
                b \in {AnEntry("b", "Snk", e, n, {}) : e \in BOOLEAN, n \in 1..2}
                      \cup {AnEntry("a_0", "Snk", TRUE, 1, {}), AnEntry("b", "Bad", TRUE, 1, {})}}

Included ==
    {<<>>, <<AnEntry("a", "Src", TRUE, 2, {})>>, <<AnEntry("c", "Mix", TRUE, 2, {2})>>,
     <<AnEntry("b", "Snk", FALSE, 1, {})>>, <<AnEntry("c", "None", TRUE, 1, {})>>,
     <<AnEntry("a", "Src", TRUE, 1, {})>>, <<AnEntry("a_0", "Src", FALSE, 2, {})>>}

Spec1(name, ports) == [name |-> name, ports |-> ports]

FromA == {Spec1("a", <<"o">>), Spec1("a", <<"o", "q">>), Spec1("a_0", <<"o">>), Spec1("a", <<"i">>)}
ToB == {Spec1("b", <<"i">>), Spec1("b", <<"j">>), Spec1("b", <<"i", "j">>), Spec1("a_1", <<"i">>)}

Lists ==
    {<<>>} \cup {<<<<l, r>>>> : l \in FromA, r \in ToB}
    \cup {<<<<Spec1("a", <<"o">>), Spec1("a", <<"i">>)>>>>,
          <<<<Spec1("b", <<"i">>), Spec1("a", <<"o">>)>>, <<Spec1("a", <<"o">>), Spec1("c", <<"i">>)>>>>,
          <<<<Spec1("a", <<"o">>), Spec1("b", <<"j">>)>>, <<Spec1("c", <<"o">>), Spec1("b", <<"j">>)>>>>}

AFile(entries, has, connections) ==
    [proxels |-> entries, hasConnections |-> has, connections |-> connections]

Configurations ==
    {<<AFile(s, TRUE, l)>> : s \in Sections, l \in Lists}
    \cup {<<AFile(s, TRUE, l), AFile(i, TRUE, <<>>)>> : s \in Sections, i \in Included, l \in Lists}
    \cup {<<AFile(s, FALSE, <<>>), AFile(<<>>, h, l)>> : s \in Sections, h \in {TRUE}, l \in Lists}

\* The configurations with a replicated proxel and a connection from it.
Shown == {<<AFile(s, TRUE, l)>> :
    s \in {<<AnEntry("a", "Src", TRUE, n, {}), AnEntry("b", "Snk", TRUE, 1, {})>> : n \in {1, 3}},
    l \in {<<<<Spec1("a", <<"o">>), Spec1("b", <<"i">>)>>>>}}

Ids == [n \in {"a", "a_0", "a_1", "a_2", "b"} |->
    CASE n = "a" -> 1 [] n = "a_0" -> 2 [] n = "a_1" -> 3 [] n = "a_2" -> 4 [] n = "b" -> 5]

Hidden == {{}, {"a_1"}}

Sizes == {6, 24, 46, 70} \X {30}

=============================================================================
