---------------------------- MODULE MCServerLife ----------------------------
(* An instance of ServerLife for TLC. *)
EXTENDS ServerLife

CONSTANTS p, q

MCObject == Server \cup Conns
=============================================================================
