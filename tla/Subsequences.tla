---------------------------- MODULE Subsequences ----------------------------
(* Two operators on sequences as recursive functions, which, unlike those of *)
(* the libraries, one can reason about.                                      *)
EXTENDS Naturals, Sequences

\* The elements of s that are in S, in the order they have in s.
Kept(s, S) ==
  LET kept[n \in 0..Len(s)] ==
        IF n = 0 THEN <<>>
        ELSE IF s[n] \in S THEN Append(kept[n - 1], s[n])
        ELSE kept[n - 1]
  IN  kept[Len(s)]

\* s folded from the left by step, a function of what there is so far and then of
\* an element.
Folded(step, start, s) ==
  LET so_far[n \in 0..Len(s)] ==
        IF n = 0 THEN start ELSE step[so_far[n - 1]][s[n]]
  IN  so_far[Len(s)]
=============================================================================
