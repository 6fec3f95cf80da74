----------------------------- MODULE Connections -----------------------------
(***************************************************************************)
(* What wiring ports comes to: a set of two-sided connections.  connect()  *)
(* adds the one that is named if both ports can have it, and fails and     *)
(* changes no connection otherwise; disconnect() removes the one that is   *)
(* named, or all that the port has.  What a call does beyond that is here  *)
(* too: a producer keeps a consumer that has refused it, and the port of a *)
(* requester, a client or a producer that leaves is left by everybody.     *)
(***************************************************************************)
EXTENDS FiniteSets

CONSTANTS
    Calls,              \* what may be called: [fn, self, other]
    Fits,               \* the pairs of ports that may be connected
    ExclusivePorts,     \* the ports that have one connection at most
    Producers,          \* the ports that keep a port which has refused them
    Holders,            \* the ports that hold one other, whose disconnect() they call
    Clients             \* those of them that leave it for another

VARIABLES
    edges,              \* the connections, each a set of two ports
    half,               \* <<p, x>>: x has refused p, which keeps it
    call,               \* the last call
    busy,               \* it has not returned
    failed              \* it has thrown

vars == <<edges, half, call, busy, failed>>

EdgesAt(p) == {e \in edges : p \in e}
Edge == {call.self, call.other}
Named == <<call.self, call.other>>
Connectable == Edge \in Fits /\ \A p \in Edge \cap ExclusivePorts : EdgesAt(p) \subseteq {Edge}

\* The connections of p and those of the ports that p is connected to.
Around(p) == UNION {EdgesAt(x) : x \in UNION EdgesAt(p)}

Init == edges = {} /\ half = {} /\ ~busy /\ ~failed

Begin ==
    /\ ~busy /\ busy' = TRUE
    /\ call' \in Calls
    /\ failed' = FALSE
    /\ UNCHANGED <<edges, half>>

\* A request wants an answer from the port that is held.
Request ==
    /\ ~busy /\ busy' = FALSE
    /\ call' \in Calls /\ call'.fn = "request"
    /\ failed' = (call'.self \in Holders /\ EdgesAt(call'.self) = {})
    /\ UNCHANGED <<edges, half>>

Finish(fn) ==
    /\ busy /\ call.fn = fn
    /\ busy' = FALSE
    /\ UNCHANGED call

IsThere == Edge \in edges \/ Named \in half

ConnectAgain ==
    /\ Finish("connect") /\ IsThere
    /\ failed' = FALSE
    /\ UNCHANGED <<edges, half>>

Connect ==
    /\ Finish("connect") /\ ~IsThere /\ Connectable
    /\ edges' = {Edge} \cup (edges \ UNION {Around(p) : p \in Edge \cap Clients})
    /\ half' = half \ {<<call.other, call.self>>}
    /\ failed' = FALSE

ConnectFails ==
    /\ Finish("connect") /\ ~IsThere /\ ~Connectable
    /\ half' = IF call.self \in Producers /\ Edge \in Fits THEN half \cup {Named} ELSE half
    /\ failed' = TRUE
    /\ UNCHANGED edges

Disconnect ==
    /\ Finish("disconnect")
    /\ edges' = edges \
            IF Edge \in edges THEN {Edge} \cup UNION {Around(p) : p \in Edge \cap Holders} ELSE {}
    /\ half' = half \ {Named}
    /\ UNCHANGED failed

DisconnectAll ==
    LET p == call.self
        told == {h[2] : h \in {g \in half : g[1] = p}}
    IN  /\ Finish("disconnectAll")
        /\ edges' = edges \
                IF p \in Producers \cup Holders
                THEN Around(p) \cup UNION {EdgesAt(x) : x \in told}
                ELSE EdgesAt(p)
        /\ half' = {h \in half : h[1] # p}
        /\ UNCHANGED failed

Next ==
    \/ Begin \/ Request \/ ConnectAgain \/ Connect \/ ConnectFails
    \/ Disconnect \/ DisconnectAll

Spec == Init /\ [][Next]_vars
=============================================================================
