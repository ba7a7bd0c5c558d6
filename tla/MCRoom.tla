------------------------------- MODULE MCRoom -------------------------------
(***************************************************************************)
(* Instances of Room for TLC: the values its cfgs give to the constants.   *)
(***************************************************************************)
EXTENDS Room, TLC

CONSTANTS c1, c2, c3, lan \* lan: an address behind a NAT, seen by no server

MCEndpoints == Conns \cup {lan}

\* Every client is directly connected: its local endpoint is the one the
\* server sees.
Direct == [c \in Conns |-> c]

\* c1 is behind a NAT.
Translated == [c \in Conns |-> IF c = c1 THEN lan ELSE c]

AllKinds == [c \in Conns |-> [i \in 1..MaxFrames |-> Frame]]
WholeOnly == [c \in Conns |-> [i \in 1..MaxFrames |-> {"whole"}]]

\* c1 sends up to two frames, of all kinds between them; the others one message.
MostlyC1 ==
  [c \in Conns |->
     IF c = c1 THEN << {"whole", "cut"}, {"whole", "bad", "ill"} >>
               ELSE << {"whole"}, {} >>]

Nobody == {}
Everybody == Conns
OnlyC1 == {c1}

Peering == Permutations(Conns)
=============================================================================
