------------------------------ MODULE MCClient ------------------------------
(* Instances of Client for TLC. *)
EXTENDS Client

\* What the server sends on the first connection, and on any other.
AllKinds == [k \in Session |-> Frame]
WholeOnly == [k \in Session |-> {"whole"}]
FirstOnly == [k \in Session |-> IF k = 1 THEN Frame ELSE {}]
=============================================================================
