------------------------------ MODULE MCGraph -------------------------------
(***************************************************************************)
(* Instances of Graph for TLC.                                             *)
(***************************************************************************)
EXTENDS Graph

Two == 1..2
Three == 1..3

\* Proxels that send to each other in a ring.
Ring2 == [n \in Two |-> 3 - n]
Ring3 == [n \in Three |-> IF n = 3 THEN 1 ELSE n + 1]
=============================================================================
