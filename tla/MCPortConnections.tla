-------------------------- MODULE MCPortConnections --------------------------
(***************************************************************************)
(* Instances of PortConnections for TLC: small sets of ports of each kind, *)
(* wired and unwired without end.  Nothing is unbounded: the stack is as   *)
(* deep as the calls nest.                                                 *)
(***************************************************************************)
EXTENDS PortConnections, TLC

CONSTANTS p1, p2, pOdd, s, m, n, r1, r2, q1, q2, a, b, h1, h2, c1, c2

KindOf ==
    [p \in {p1, p2, pOdd} |-> "producer"] @@ [p \in {r1, r2} |-> "requester"]
        @@ [p \in {q1, q2} |-> "multiRequester"] @@ [p \in {a, b} |-> "responder"]
        @@ [p \in {h1, h2} |-> "host"] @@ [p \in {c1, c2} |-> "client"]
        @@ (s :> "single") @@ (m :> "multi") @@ (n :> "many")

KindTable == [p \in Ports |-> KindOf[p]]

\* All ports fit, but for the producer of another type.
TypeTable == [p \in Ports |-> IF p = pOdd THEN "odd" ELSE "usual"]

\* TLC evaluates a definition such as KindTable once, and what a .cfg puts in the
\* place of a constant each time it is used.
Kinds_ == KindTable
Types == TypeTable

EveryCall ==
    UNION {
        {[fn |-> fn, self |-> p, other |-> x] :
            fn \in {"connect", "disconnect"}, x \in Ports \ {p}}
        \cup {[fn |-> "disconnectAll", self |-> p, other |-> None]} : p \in Ports}

Requests ==
    {[fn |-> "request", self |-> p, other |-> None] :
        p \in {q \in Ports : Kind[q] \in {"requester", "multiRequester", "client"}}}

\* Data, requests and interfaces, of which one at a time has connections.  A
\* consumer, a responder and a host do not look at the type of their peer, and
\* connect to each other: n is a consumer among the interfaces,
\* and pOdd a producer that no port may be connected to.
Families == {{p1, p2, s, m}, {r1, r2, q1, a, b}, {h1, h2, c1, c2, n, pOdd}}

CallsOfFamily(F) == {c \in EveryCall : {c.self, c.other} \ {None} \subseteq F}

FamilyCalls == {c : c \in Requests \cup UNION {CallsOfFamily(F) : F \in Families}}
CallsInFamilies == FamilyCalls

OthersAreFree(p) == \E F \in Families : p \in F /\ \A x \in Ports \ F : links[x] = {}

\* A call and a request only in the family that has connections.
OneFamilyAtATime == AtRest => OthersAreFree(call'.self)

=============================================================================
