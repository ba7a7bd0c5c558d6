--------------------------- MODULE SequenceLemmas ---------------------------
(***************************************************************************)
(* What the proofs need to know of sequences and the library does not say, *)
(* and, at the end, of the handlers that wait in an io_context.            *)
(*                                                                         *)
(* The induction theorems of the library take a predicate, with which the  *)
(* provers cannot instantiate them; NatInduct takes the set of the numbers *)
(* that have the property instead, and follows from the well-foundedness   *)
(* of < on Nat.                                                            *)
(***************************************************************************)
EXTENDS Subsequences, Completions, SequencesExt, SequenceTheorems, FiniteSetTheorems,
        FunctionTheorems, WellFoundedInduction, TLAPS

-----------------------------------------------------------------------------
(* Induction. *)

LEMMA NatInduct ==
  ASSUME NEW T, T \subseteq Nat, 0 \in T, \A n \in T : n + 1 \in T
  PROVE  T = Nat
<1> DEFINE C == Nat \ T
<1> SUFFICES ASSUME C # {} PROVE FALSE
  OBVIOUS
<1>1. PICK x \in C : \A y \in C : ~ (<<y, x>> \in OpToRel(<, Nat))
  BY WFMin, NatLessThanWellFounded, Zenon
<1>2. x \in Nat /\ x # 0 /\ x - 1 \in Nat
  OBVIOUS
<1>3. <<x - 1, x>> \in OpToRel(<, Nat)
  BY <1>2 DEF OpToRel
<1>4. x - 1 \in T
  BY <1>1, <1>2, <1>3
<1>5. QED
  BY <1>2, <1>4

-----------------------------------------------------------------------------
(* Kept. *)

\* The recursion of Kept has a solution.
LEMMA KeptDefined ==
  ASSUME NEW M, NEW s \in Seq(M), NEW S
  PROVE  \E f : /\ f[0] = <<>>
                /\ \A n \in 1..Len(s) :
                     f[n] = IF s[n] \in S THEN Append(f[n - 1], s[n]) ELSE f[n - 1]
                /\ Kept(s, S) = f[Len(s)]
<1> DEFINE Sol(f, m) ==
             f = [n \in 0..m |-> IF n = 0 THEN <<>>
                                 ELSE IF s[n] \in S THEN Append(f[n - 1], s[n])
                                 ELSE f[n - 1]]
           T == {m \in Nat : \E f : Sol(f, m)}
<1>1. 0 \in T
  <2>1. Sol([n \in 0..0 |-> <<>>], 0)
    OBVIOUS
  <2>2. QED BY <2>1
<1>2. ASSUME NEW m \in T PROVE m + 1 \in T
  <2>1. PICK f : Sol(f, m)
    OBVIOUS
  <2>2. m \in Nat
    OBVIOUS
  <2> DEFINE g == [n \in 0..(m + 1) |->
                     IF n <= m THEN f[n]
                     ELSE IF s[n] \in S THEN Append(f[m], s[n]) ELSE f[m]]
  <2>3. ASSUME NEW n \in 0..(m + 1)
        PROVE  g[n] = IF n = 0 THEN <<>>
                      ELSE IF s[n] \in S THEN Append(g[n - 1], s[n])
                      ELSE g[n - 1]
    <3>1. CASE n = 0
      BY <2>1, <2>2, <3>1
    <3>2. CASE n # 0 /\ n <= m
      <4>1. n - 1 \in 0..(m + 1) /\ n - 1 <= m /\ n \in 0..m
        BY <2>2, <3>2
      <4>2. g[n] = f[n] /\ g[n - 1] = f[n - 1]
        BY <3>2, <4>1
      <4>3. QED BY <2>1, <3>2, <4>1, <4>2
    <3>3. CASE n = m + 1
      <4>1. n - 1 = m /\ n # 0 /\ ~(n <= m) /\ m \in 0..(m + 1)
        BY <2>2, <3>3
      <4>2. g[n - 1] = f[m]
        BY <2>2, <4>1
      <4>3. QED BY <4>1, <4>2
    <3>4. QED BY <2>2, <3>1, <3>2, <3>3
  <2>4. Sol(g, m + 1)
    <3> DEFINE h == [n \in 0..(m + 1) |->
                       IF n = 0 THEN <<>>
                       ELSE IF s[n] \in S THEN Append(g[n - 1], s[n])
                       ELSE g[n - 1]]
    <3>1. DOMAIN g = 0..(m + 1) /\ DOMAIN h = 0..(m + 1)
      OBVIOUS
    <3>2. g = [n \in DOMAIN g |-> g[n]] /\ h = [n \in DOMAIN h |-> h[n]]
      OBVIOUS
    <3>3. \A n \in 0..(m + 1) : g[n] = h[n]
      <4> HIDE DEF g
      <4>1. QED BY <2>3
    <3>4. g = h
      <4> HIDE DEF g, h
      <4>1. QED BY <3>1, <3>2, <3>3
    <3>5. QED BY <3>4
  <2>5. m + 1 \in Nat
    BY <2>2
  <2> HIDE DEF g, Sol
  <2>6. QED BY <2>4, <2>5
<1>3. T = Nat
  <2> HIDE DEF T
  <2>1. T \subseteq Nat
    BY DEF T
  <2>2. QED BY <1>1, <1>2, <2>1, NatInduct
<1>4. \E f : Sol(f, Len(s))
  BY <1>3, LenProperties
<1> DEFINE kept == CHOOSE f : Sol(f, Len(s))
<1>5. Sol(kept, Len(s))
  BY <1>4
<1>6. Kept(s, S) = kept[Len(s)]
  BY DEF Kept
<1> HIDE DEF kept
<1>7. kept[0] = <<>>
  BY <1>5, LenProperties
<1>8. ASSUME NEW n \in 1..Len(s)
      PROVE  kept[n] = IF s[n] \in S THEN Append(kept[n - 1], s[n]) ELSE kept[n - 1]
  <2>1. n \in 0..Len(s) /\ n # 0
    BY LenProperties
  <2>2. QED BY <1>5, <2>1
<1>9. QED
  BY <1>6, <1>7, <1>8

LEMMA KeptType ==
  ASSUME NEW M, NEW s \in Seq(M), NEW S
  PROVE  Kept(s, S) \in Seq(M \cap S)
<1>1. PICK f : /\ f[0] = <<>>
               /\ \A n \in 1..Len(s) :
                    f[n] = IF s[n] \in S THEN Append(f[n - 1], s[n]) ELSE f[n - 1]
               /\ Kept(s, S) = f[Len(s)]
  BY KeptDefined
<1>2. Len(s) \in Nat /\ \A n \in 1..Len(s) : s[n] \in M
  BY LenProperties, ElementOfSeq
<1> DEFINE T == {n \in Nat : n <= Len(s) => f[n] \in Seq(M \cap S)}
<1>3. 0 \in T
  <2>1. f[0] = <<>>
    BY <1>1, <1>2
  <2>2. QED BY <2>1, EmptySeq
<1>4. ASSUME NEW n \in T PROVE n + 1 \in T
  <2>1. n \in Nat /\ n + 1 \in Nat
    OBVIOUS
  <2>2. ASSUME n + 1 <= Len(s) PROVE f[n + 1] \in Seq(M \cap S)
    <3>1. f[n] \in Seq(M \cap S) /\ n + 1 \in 1..Len(s) /\ (n + 1) - 1 = n
      BY <1>2, <2>1, <2>2
    <3>2. f[n + 1] = IF s[n + 1] \in S THEN Append(f[n], s[n + 1]) ELSE f[n]
      BY <1>1, <2>1, <3>1
    <3>3. CASE s[n + 1] \in S
      <4>1. s[n + 1] \in M \cap S
        BY <1>2, <3>1, <3>3
      <4>2. Append(f[n], s[n + 1]) \in Seq(M \cap S)
        BY <3>1, <4>1, AppendProperties
      <4>3. QED BY <3>2, <3>3, <4>2
    <3>4. CASE s[n + 1] \notin S
      BY <3>1, <3>2, <3>4
    <3>5. QED BY <3>3, <3>4
  <2>3. QED BY <2>1, <2>2
<1>5. T = Nat
  <2> HIDE DEF T
  <2>1. T \subseteq Nat
    BY DEF T
  <2>2. QED BY <1>3, <1>4, <2>1, NatInduct
<1>6. Len(s) \in T
  BY <1>2, <1>5
<1>7. QED
  BY <1>1, <1>2, <1>6

LEMMA KeptOfNone ==
  ASSUME NEW M, NEW s \in Seq(M), NEW S, Len(s) = 0
  PROVE  Kept(s, S) = <<>>
<1>1. PICK f : /\ f[0] = <<>>
               /\ \A n \in 1..Len(s) :
                    f[n] = IF s[n] \in S THEN Append(f[n - 1], s[n]) ELSE f[n - 1]
               /\ Kept(s, S) = f[Len(s)]
  BY KeptDefined
<1>2. QED
  BY <1>1

LEMMA KeptEmpty ==
  ASSUME NEW S
  PROVE  Kept(<<>>, S) = <<>>
<1>1. <<>> \in Seq({}) /\ Len(<<>>) = 0
  BY EmptySeq
<1>2. QED
  BY <1>1, KeptOfNone, Zenon

LEMMA KeptAppend ==
  ASSUME NEW M, NEW s \in Seq(M), NEW e \in M, NEW S
  PROVE  Kept(Append(s, e), S) =
           IF e \in S THEN Append(Kept(s, S), e) ELSE Kept(s, S)
<1> DEFINE t == Append(s, e)
<1>1. /\ t \in Seq(M)
      /\ Len(s) \in Nat
      /\ Len(t) = Len(s) + 1
      /\ \A i \in 1..Len(s) : t[i] = s[i]
      /\ t[Len(s) + 1] = e
  BY AppendProperties, LenProperties
<1> HIDE DEF t
<1>2. PICK f : /\ f[0] = <<>>
               /\ \A n \in 1..Len(s) :
                    f[n] = IF s[n] \in S THEN Append(f[n - 1], s[n]) ELSE f[n - 1]
               /\ Kept(s, S) = f[Len(s)]
  BY KeptDefined
<1>3. PICK g : /\ g[0] = <<>>
               /\ \A n \in 1..Len(t) :
                    g[n] = IF t[n] \in S THEN Append(g[n - 1], t[n]) ELSE g[n - 1]
               /\ Kept(t, S) = g[Len(t)]
  BY <1>1, KeptDefined
<1> DEFINE T == {n \in Nat : n <= Len(s) => f[n] = g[n]}
<1>4. 0 \in T
  <2>1. f[0] = <<>> /\ g[0] = <<>>
    BY <1>1, <1>2, <1>3
  <2>2. QED BY <2>1
<1>5. ASSUME NEW n \in T PROVE n + 1 \in T
  <2>1. n \in Nat /\ n + 1 \in Nat
    OBVIOUS
  <2>2. ASSUME n + 1 <= Len(s) PROVE f[n + 1] = g[n + 1]
    <3>1. /\ f[n] = g[n]
          /\ n + 1 \in 1..Len(s) /\ n + 1 \in 1..Len(t) /\ (n + 1) - 1 = n
          /\ t[n + 1] = s[n + 1]
      BY <1>1, <2>1, <2>2
    <3>2. f[n + 1] = IF s[n + 1] \in S THEN Append(f[n], s[n + 1]) ELSE f[n]
      BY <1>2, <2>1, <3>1
    <3>3. g[n + 1] = IF t[n + 1] \in S THEN Append(g[n], t[n + 1]) ELSE g[n]
      BY <1>3, <2>1, <3>1
    <3>4. QED BY <3>1, <3>2, <3>3
  <2>3. QED BY <2>1, <2>2
<1>6. T = Nat
  <2> HIDE DEF T
  <2>1. T \subseteq Nat
    BY DEF T
  <2>2. QED BY <1>4, <1>5, <2>1, NatInduct
<1>7. f[Len(s)] = g[Len(s)]
  BY <1>1, <1>6
<1>8. g[Len(t)] = IF t[Len(t)] \in S THEN Append(g[Len(s)], t[Len(t)]) ELSE g[Len(s)]
  <2>1. Len(t) \in 1..Len(t) /\ Len(t) - 1 = Len(s)
    BY <1>1
  <2>2. QED BY <1>3, <2>1
<1>9. QED
  BY <1>1, <1>2, <1>3, <1>7, <1>8 DEF t

-----------------------------------------------------------------------------
(* Appending. *)

LEMMA ConcatAppend ==
  ASSUME NEW S, NEW s \in Seq(S), NEW t \in Seq(S), NEW e \in S
  PROVE  s \o Append(t, e) = Append(s \o t, e)
<1>1. <<e>> \in Seq(S) /\ s \o t \in Seq(S)
  BY ConcatProperties
<1>2. Append(t, e) = t \o <<e>> /\ Append(s \o t, e) = (s \o t) \o <<e>>
  BY <1>1, AppendIsConcat
<1>3. QED
  BY <1>1, <1>2, ConcatAssociative

LEMMA Rebracket ==
  ASSUME NEW S, NEW s \in Seq(S), NEW t \in Seq(S), NEW u \in Seq(S), NEW v \in Seq(S)
  PROVE  (s \o t) \o (u \o v) = (s \o (t \o u)) \o v
<1>1. PICK w \in Seq(S) : w = s \o t
  BY ConcatProperties
<1>2. (w \o u) \o v = w \o (u \o v)
  BY ConcatAssociative, SMTT(60)
<1>3. (s \o t) \o u = s \o (t \o u)
  BY ConcatAssociative, SMTT(60)
<1>4. QED
  BY <1>1, <1>2, <1>3

\* What follows the first n elements grows with the sequence.
LEMMA SubSeqAppend ==
  ASSUME NEW S, NEW s \in Seq(S), NEW e \in S, NEW n \in 0..Len(s)
  PROVE  SubSeq(Append(s, e), n + 1, Len(s) + 1) =
           Append(SubSeq(s, n + 1, Len(s)), e)
<1> DEFINE t == Append(s, e)
           a == SubSeq(t, n + 1, Len(s) + 1)
           b == SubSeq(s, n + 1, Len(s))
<1>1. /\ t \in Seq(S)
      /\ Len(s) \in Nat
      /\ Len(t) = Len(s) + 1
      /\ \A i \in 1..Len(s) : t[i] = s[i] /\ s[i] \in S
      /\ t[Len(s) + 1] = e
      /\ \A i \in 1..(Len(s) + 1) : t[i] \in S
  BY AppendProperties, LenProperties, ElementOfSeq
<1> HIDE DEF t
<1>2. /\ a \in Seq(S)
      /\ Len(a) = Len(s) + 1 - n
      /\ \A i \in 1..(Len(s) + 1 - n) : a[i] = t[n + i]
  <2>1. /\ a \in Seq(S)
        /\ Len(a) = IF n + 1 <= Len(s) + 1 THEN (Len(s) + 1) - (n + 1) + 1 ELSE 0
        /\ \A i \in 1..((Len(s) + 1) - (n + 1) + 1) : a[i] = t[(n + 1) + i - 1]
    <3>1. \A i \in (n + 1)..(Len(s) + 1) : t[i] \in S
      BY <1>1
    <3>2. QED BY <1>1, <3>1, SubSeqProperties
  <2> HIDE DEF a
  <2>2. ASSUME NEW i \in 1..(Len(s) + 1 - n) PROVE a[i] = t[n + i]
    <3>1. i \in 1..((Len(s) + 1) - (n + 1) + 1) /\ (n + 1) + i - 1 = n + i
      BY <1>1
    <3>2. QED BY <2>1, <3>1
  <2>3. Len(a) = Len(s) + 1 - n
    BY <1>1, <2>1
  <2>4. QED BY <2>1, <2>2, <2>3
<1>3. /\ b \in Seq(S)
      /\ Len(b) = Len(s) - n
      /\ \A i \in 1..(Len(s) - n) : b[i] = s[n + i]
  <2>1. /\ b \in Seq(S)
        /\ Len(b) = IF n + 1 <= Len(s) THEN Len(s) - (n + 1) + 1 ELSE 0
        /\ \A i \in 1..(Len(s) - (n + 1) + 1) : b[i] = s[(n + 1) + i - 1]
    <3>1. \A i \in (n + 1)..Len(s) : s[i] \in S
      BY <1>1
    <3>2. QED BY <1>1, <3>1, SubSeqProperties
  <2> HIDE DEF b
  <2>2. ASSUME NEW i \in 1..(Len(s) - n) PROVE b[i] = s[n + i]
    <3>1. i \in 1..(Len(s) - (n + 1) + 1) /\ (n + 1) + i - 1 = n + i
      BY <1>1
    <3>2. QED BY <2>1, <3>1
  <2>3. Len(b) = Len(s) - n
    BY <1>1, <2>1
  <2>4. QED BY <2>1, <2>2, <2>3
<1> HIDE DEF a, b
<1>4. /\ Append(b, e) \in Seq(S)
      /\ Len(Append(b, e)) = Len(b) + 1
      /\ \A i \in 1..Len(b) : Append(b, e)[i] = b[i]
      /\ Append(b, e)[Len(b) + 1] = e
  BY <1>3, AppendProperties
<1>5. ASSUME NEW i \in 1..Len(a) PROVE a[i] = Append(b, e)[i]
  <2>1. a[i] = t[n + i]
    BY <1>2
  <2>2. CASE i = Len(b) + 1
    <3>1. n + i = Len(s) + 1
      BY <1>1, <1>3, <2>2
    <3>2. QED BY <1>1, <1>4, <2>1, <2>2, <3>1
  <2>3. CASE i # Len(b) + 1
    <3>1. i \in 1..Len(b) /\ i \in 1..(Len(s) - n) /\ n + i \in 1..Len(s)
      BY <1>1, <1>2, <1>3, <2>3
    <3>2. QED BY <1>1, <1>3, <1>4, <2>1, <3>1
  <2>4. QED BY <2>2, <2>3
<1>6. Len(a) = Len(Append(b, e))
  BY <1>1, <1>2, <1>3, <1>4
<1>7. a = Append(b, e)
  BY <1>2, <1>4, <1>5, <1>6, SeqEqual
<1>8. QED
  BY <1>7 DEF a, b, t

-----------------------------------------------------------------------------
(* Sequences without repetitions. *)

LEMMA AppendDistinct ==
  ASSUME NEW S, NEW s \in Seq(S), NEW e \in S
  PROVE  /\ Range(Append(s, e)) = Range(s) \cup {e}
         /\ IsInjective(s) /\ e \notin Range(s) => IsInjective(Append(s, e))
<1> DEFINE t == Append(s, e)
<1>1. /\ t \in Seq(S)
      /\ Len(s) \in Nat
      /\ Len(t) = Len(s) + 1
      /\ \A i \in 1..Len(s) : t[i] = s[i]
      /\ t[Len(s) + 1] = e
  BY AppendProperties, LenProperties
<1>2. DOMAIN t = 1..(Len(s) + 1) /\ DOMAIN s = 1..Len(s)
  BY <1>1, LenProperties
<1> HIDE DEF t
<1>3. Range(t) = Range(s) \cup {e}
  BY <1>1, <1>2 DEF Range
<1>4. ASSUME IsInjective(s), e \notin Range(s)
      PROVE  IsInjective(t)
  BY <1>1, <1>2, <1>4 DEF Range, IsInjective
<1>5. QED
  BY <1>3, <1>4 DEF t

LEMMA TailDistinct ==
  ASSUME NEW S, NEW s \in Seq(S), s # <<>>, IsInjective(s)
  PROVE  /\ Head(s) \in Range(s)
         /\ Tail(s) \in Seq(S)
         /\ IsInjective(Tail(s))
         /\ Range(Tail(s)) = Range(s) \ {Head(s)}
<1> DEFINE t == Tail(s)
<1>1. /\ t \in Seq(S)
      /\ Len(s) \in Nat \ {0}
      /\ Len(t) = Len(s) - 1
      /\ \A i \in 1..Len(t) : t[i] = s[i + 1]
      /\ Head(s) = s[1]
  BY HeadTailProperties, EmptySeq
<1>2. DOMAIN t = 1..(Len(s) - 1) /\ DOMAIN s = 1..Len(s)
  BY <1>1, LenProperties
<1> HIDE DEF t
<1>3. Head(s) \in Range(s)
  BY <1>1, <1>2 DEF Range
<1>4. \A i \in DOMAIN t : i + 1 \in DOMAIN s /\ i + 1 # 1 /\ t[i] = s[i + 1]
  BY <1>1, <1>2
<1>5. IsInjective(t)
  <2>1. ASSUME NEW i \in DOMAIN t, NEW j \in DOMAIN t, t[i] = t[j]
        PROVE  i = j
    <3>1. i + 1 = j + 1
      BY <1>4, <2>1 DEF IsInjective
    <3>2. QED BY <3>1, <1>2
  <2>2. QED BY <2>1 DEF IsInjective
<1>6. Range(t) = Range(s) \ {Head(s)}
  <2>1. ASSUME NEW i \in DOMAIN t PROVE t[i] \in Range(s) \ {Head(s)}
    BY <1>1, <1>2, <1>4 DEF Range, IsInjective
  <2>2. ASSUME NEW j \in DOMAIN s, s[j] # Head(s)
        PROVE  \E i \in DOMAIN t : t[i] = s[j]
    <3>1. j - 1 \in DOMAIN t /\ (j - 1) + 1 = j
      BY <1>1, <1>2, <2>2
    <3>2. QED BY <3>1, <1>1, <1>2
  <2>3. QED BY <2>1, <2>2 DEF Range
<1>7. QED
  BY <1>1, <1>3, <1>5, <1>6 DEF t

LEMMA RemoveAtDistinct ==
  ASSUME NEW S, NEW s \in Seq(S), IsInjective(s), NEW i \in DOMAIN s
  PROVE  /\ RemoveAt(s, i) \in Seq(S)
         /\ IsInjective(RemoveAt(s, i))
         /\ Range(RemoveAt(s, i)) = Range(s) \ {s[i]}
<1> DEFINE a == SubSeq(s, 1, i - 1)
           b == SubSeq(s, i + 1, Len(s))
           t == RemoveAt(s, i)
<1>1. Len(s) \in Nat /\ DOMAIN s = 1..Len(s) /\ \A k \in 1..Len(s) : s[k] \in S
  BY LenProperties
<1>2. /\ a \in Seq(S)
      /\ Len(a) = i - 1
      /\ \A k \in 1..(i - 1) : a[k] = s[k]
  <2>1. \A k \in 1..(i - 1) : s[k] \in S
    BY <1>1
  <2>2. QED BY <1>1, <2>1, SubSeqProperties
<1>3. /\ b \in Seq(S)
      /\ Len(b) = Len(s) - i
      /\ \A k \in 1..(Len(s) - i) : b[k] = s[i + k]
  <2>1. \A k \in (i + 1)..Len(s) : s[k] \in S
    BY <1>1
  <2>2. /\ b \in Seq(S)
        /\ Len(b) = IF i + 1 <= Len(s) THEN Len(s) - (i + 1) + 1 ELSE 0
        /\ \A k \in 1..(Len(s) - (i + 1) + 1) : b[k] = s[(i + 1) + k - 1]
    BY <1>1, <2>1, SubSeqProperties
  <2> HIDE DEF b
  <2>3. i \in Nat /\ i <= Len(s) /\ Len(s) \in Nat
    BY <1>1
  <2>4. Len(b) = Len(s) - i
    BY <2>2, <2>3
  <2>5. ASSUME NEW k \in 1..(Len(s) - i) PROVE b[k] = s[i + k]
    <3>1. k \in 1..(Len(s) - (i + 1) + 1) /\ (i + 1) + k - 1 = i + k
      BY <2>3
    <3>2. QED BY <3>1, <2>2
  <2>6. QED BY <2>2, <2>4, <2>5
<1>4. t = a \o b
  BY DEF RemoveAt
<1> HIDE DEF a, b, t
<1>5. /\ t \in Seq(S)
      /\ Len(t) = Len(s) - 1
      /\ \A k \in 1..(Len(s) - 1) : t[k] = IF k < i THEN s[k] ELSE s[k + 1]
  <2>1. i \in 1..Len(s) /\ Len(s) \in Nat
    BY <1>1
  <2>2. /\ t \in Seq(S)
        /\ Len(t) = Len(a) + Len(b)
        /\ \A k \in 1..(Len(a) + Len(b)) :
             t[k] = IF k <= Len(a) THEN a[k] ELSE b[k - Len(a)]
    BY <1>2, <1>3, <1>4, ConcatProperties
  <2>3. Len(a) + Len(b) = Len(s) - 1
    BY <2>1, <1>2, <1>3
  <2>4. ASSUME NEW k \in 1..(Len(s) - 1)
        PROVE  t[k] = IF k < i THEN s[k] ELSE s[k + 1]
    <3>1. CASE k < i
      <4>1. k <= Len(a) /\ k \in 1..(i - 1)
        BY <3>1, <2>1, <1>2
      <4>2. t[k] = a[k] /\ a[k] = s[k]
        BY <4>1, <2>2, <2>3, <1>2
      <4>3. QED BY <3>1, <4>2
    <3>2. CASE ~(k < i)
      <4>1. ~(k <= Len(a)) /\ k - Len(a) \in 1..(Len(s) - i)
            /\ i + (k - Len(a)) = k + 1
        BY <3>2, <2>1, <1>2
      <4>2. t[k] = b[k - Len(a)] /\ b[k - Len(a)] = s[k + 1]
        BY <4>1, <2>2, <2>3, <1>3
      <4>3. QED BY <3>2, <4>2
    <3>3. QED BY <3>1, <3>2
  <2>5. QED BY <2>2, <2>3, <2>4
<1>6. DOMAIN t = 1..(Len(s) - 1)
  BY <1>5, LenProperties
<1>7. IsInjective(t)
  <2>1. ASSUME NEW j \in DOMAIN t, NEW k \in DOMAIN t, t[j] = t[k]
        PROVE  j = k
    <3>1. PICK x \in DOMAIN s : t[j] = s[x] /\ x = IF j < i THEN j ELSE j + 1
      BY <1>1, <1>5, <1>6
    <3>2. PICK y \in DOMAIN s : t[k] = s[y] /\ y = IF k < i THEN k ELSE k + 1
      BY <1>1, <1>5, <1>6
    <3>3. x = y
      BY <2>1, <3>1, <3>2 DEF IsInjective
    <3>4. QED BY <1>1, <1>6, <3>1, <3>2, <3>3
  <2>2. QED BY <2>1 DEF IsInjective
<1>8. Range(t) = Range(s) \ {s[i]}
  <2>1. ASSUME NEW k \in DOMAIN t PROVE t[k] \in Range(s) \ {s[i]}
    BY <1>1, <1>5, <1>6, SMTT(30) DEF Range, IsInjective
  <2>2. ASSUME NEW j \in DOMAIN s, s[j] # s[i]
        PROVE  \E k \in DOMAIN t : t[k] = s[j]
    <3>1. CASE j < i
      BY <3>1, <1>1, <1>5, <1>6
    <3>2. CASE j > i
      <4>1. j - 1 \in DOMAIN t /\ ~(j - 1 < i) /\ (j - 1) + 1 = j
        BY <3>2, <1>1, <1>5, <1>6
      <4>2. QED BY <4>1, <1>5, <1>6
    <3>3. QED BY <3>1, <3>2, <2>2, <1>1
  <2>3. QED BY <2>1, <2>2 DEF Range
<1>9. QED
  BY <1>5, <1>7, <1>8 DEF t
-----------------------------------------------------------------------------
(* Counting. *)

\* How many elements of s are in S.
Occurrences(s, S) == Cardinality({i \in DOMAIN s : s[i] \in S})

LEMMA OccurrencesType ==
  ASSUME NEW M, NEW s \in Seq(M), NEW S
  PROVE  /\ IsFiniteSet({i \in DOMAIN s : s[i] \in S})
         /\ Occurrences(s, S) \in Nat
         /\ Occurrences(s, S) = 0 <=> \A i \in DOMAIN s : s[i] \notin S
<1> DEFINE D == {i \in DOMAIN s : s[i] \in S}
<1>1. IsFiniteSet(DOMAIN s)
  <2>1. Len(s) \in Nat /\ DOMAIN s = 1..Len(s)
    BY LenProperties
  <2>2. QED BY <2>1, FS_Interval
<1>2. IsFiniteSet(D)
  BY <1>1, FS_Subset
<1>3. Cardinality(D) \in Nat /\ (Cardinality(D) = 0 <=> D = {})
  BY <1>2, FS_CardinalityType, FS_EmptySet
<1>4. QED
  BY <1>2, <1>3 DEF Occurrences

LEMMA OccurrencesConcat ==
  ASSUME NEW M, NEW s \in Seq(M), NEW t \in Seq(M), NEW S
  PROVE  Occurrences(s \o t, S) = Occurrences(s, S) + Occurrences(t, S)
<1> DEFINE u == s \o t
           A == {i \in DOMAIN s : s[i] \in S}
           C == {i \in DOMAIN t : t[i] \in S}
           B == {i \in DOMAIN u : u[i] \in S /\ i > Len(s)}
           f == [j \in C |-> j + Len(s)]
<1>1. /\ u \in Seq(M)
      /\ Len(u) = Len(s) + Len(t)
      /\ \A i \in 1..(Len(s) + Len(t)) :
           u[i] = IF i <= Len(s) THEN s[i] ELSE t[i - Len(s)]
  BY ConcatProperties
<1> HIDE DEF u
<1>2. /\ Len(s) \in Nat /\ Len(t) \in Nat
      /\ DOMAIN s = 1..Len(s) /\ DOMAIN t = 1..Len(t)
      /\ DOMAIN u = 1..(Len(s) + Len(t))
  BY <1>1, LenProperties
<1>3. IsFiniteSet(A) /\ IsFiniteSet(C)
  BY OccurrencesType
<1>4. f \in Bijection(C, B)
  <2>1. f \in [C -> B]
    BY <1>1, <1>2, SMTT(30)
  <2>2. \A i, j \in C : f[i] = f[j] => i = j
    BY <1>2
  <2>3. ASSUME NEW i \in B PROVE \E j \in C : f[j] = i
    <3>1. i - Len(s) \in C /\ f[i - Len(s)] = i
      BY <1>1, <1>2
    <3>2. QED BY <3>1
  <2> HIDE DEF f, B, C
  <2>4. QED BY <2>1, <2>2, <2>3, Fun_IsBij
<1>5. IsFiniteSet(B) /\ Cardinality(B) = Cardinality(C)
  <2>1. ExistsBijection(C, B)
    BY <1>4 DEF ExistsBijection
  <2>2. QED BY <1>3, <2>1, FS_Bijection
<1>6. {i \in DOMAIN u : u[i] \in S} = A \cup B /\ A \cap B = {}
  BY <1>1, <1>2
<1> HIDE DEF A, B, C
<1>7. Cardinality(A \cup B) = Cardinality(A) + Cardinality(B)
  <2>1. Cardinality(A \cup B) =
          Cardinality(A) + Cardinality(B) - Cardinality(A \cap B)
    BY <1>3, <1>5, FS_Union
  <2>2. Cardinality(A) \in Nat /\ Cardinality(B) \in Nat
    BY <1>3, <1>5, FS_CardinalityType
  <2>3. Cardinality(A \cap B) = 0
    BY <1>6, FS_EmptySet
  <2>4. QED BY <2>1, <2>2, <2>3
<1>8. QED
  BY <1>5, <1>6, <1>7 DEF Occurrences, u, A, C

LEMMA OccurrencesOfOne ==
  ASSUME NEW M, NEW e \in M, NEW S
  PROVE  /\ <<e>> \in Seq(M)
         /\ Occurrences(<<e>>, S) = IF e \in S THEN 1 ELSE 0
<1>1. <<e>> \in Seq(M) /\ DOMAIN <<e>> = {1} /\ <<e>>[1] = e
  OBVIOUS
<1>2. {i \in DOMAIN <<e>> : <<e>>[i] \in S} = IF e \in S THEN {1} ELSE {}
  BY <1>1
<1>3. QED
  BY <1>1, <1>2, FS_EmptySet, FS_Singleton DEF Occurrences

LEMMA OccurrencesOfNone ==
  ASSUME NEW S
  PROVE  Occurrences(<<>>, S) = 0
<1>1. {i \in DOMAIN <<>> : <<>>[i] \in S} = {}
  OBVIOUS
<1>2. QED
  BY <1>1, FS_EmptySet DEF Occurrences

LEMMA OccurrencesAppend ==
  ASSUME NEW M, NEW s \in Seq(M), NEW e \in M, NEW S
  PROVE  Occurrences(Append(s, e), S) = Occurrences(s, S) + IF e \in S THEN 1 ELSE 0
<1>1. Append(s, e) = s \o <<e>>
  BY AppendIsConcat
<1>2. <<e>> \in Seq(M) /\ Occurrences(<<e>>, S) = IF e \in S THEN 1 ELSE 0
  BY OccurrencesOfOne
<1>3. Occurrences(s \o <<e>>, S) = Occurrences(s, S) + Occurrences(<<e>>, S)
  BY <1>2, OccurrencesConcat
<1>4. QED
  BY <1>1, <1>2, <1>3

LEMMA OccurrencesTail ==
  ASSUME NEW M, NEW s \in Seq(M), s # <<>>, NEW S
  PROVE  Occurrences(s, S) = Occurrences(Tail(s), S) + IF Head(s) \in S THEN 1 ELSE 0
<1> DEFINE e == Head(s)
           t == Tail(s)
<1>1. /\ e \in M
      /\ t \in Seq(M)
      /\ Len(s) \in Nat \ {0}
      /\ Len(t) = Len(s) - 1
      /\ \A i \in 1..Len(t) : t[i] = s[i + 1]
      /\ e = s[1]
  BY HeadTailProperties, EmptySeq
<1>2. <<e>> \in Seq(M) /\ Occurrences(<<e>>, S) = IF e \in S THEN 1 ELSE 0
  BY <1>1, OccurrencesOfOne
<1>3. s = <<e>> \o t
  <2> DEFINE o == <<e>>
             u == o \o t
  <2>1. o \in Seq(M) /\ Len(o) = 1 /\ o[1] = e
    BY <1>1
  <2> HIDE DEF o, t, e
  <2>2. /\ u \in Seq(M)
        /\ Len(u) = Len(o) + Len(t)
        /\ \A i \in 1..(Len(o) + Len(t)) :
             u[i] = IF i <= Len(o) THEN o[i] ELSE t[i - Len(o)]
    BY <1>1, <2>1, ConcatProperties
  <2> HIDE DEF u
  <2>3. Len(u) = Len(s)
    BY <1>1, <2>1, <2>2
  <2>4. ASSUME NEW i \in 1..Len(s) PROVE s[i] = u[i]
    <3>1. CASE i = 1
      BY <1>1, <2>1, <2>2, <3>1
    <3>2. CASE i # 1
      <4>1. i - 1 \in 1..Len(t) /\ ~(i <= Len(o)) /\ i \in 1..(Len(o) + Len(t))
            /\ (i - 1) + 1 = i /\ i - Len(o) = i - 1
        BY <1>1, <2>1, <3>2
      <4>2. QED BY <1>1, <2>2, <4>1
    <3>3. QED BY <3>1, <3>2
  <2>5. s = u
    BY <2>2, <2>3, <2>4, SeqEqual
  <2>6. QED BY <2>5 DEF u, o
<1> HIDE DEF e, t
<1>4. Occurrences(<<e>> \o t, S) = Occurrences(<<e>>, S) + Occurrences(t, S)
  <2>1. PICK o \in Seq(M) : o = <<e>>
    BY <1>2
  <2>2. Occurrences(o \o t, S) = Occurrences(o, S) + Occurrences(t, S)
    BY <1>1, OccurrencesConcat
  <2>3. QED BY <2>1, <2>2
<1>5. Occurrences(t, S) \in Nat
  BY <1>1, OccurrencesType
<1>6. Occurrences(s, S) = Occurrences(t, S) + IF e \in S THEN 1 ELSE 0
  BY <1>2, <1>3, <1>4, <1>5
<1>7. QED
  BY <1>6 DEF e, t
-----------------------------------------------------------------------------
(* SetToSeq and FlattenSeq. *)

LEMMA SetToSeqLists ==
  ASSUME NEW S, IsFiniteSet(S)
  PROVE  /\ SetToSeq(S) \in Seq(S)
         /\ IsInjective(SetToSeq(S))
         /\ Range(SetToSeq(S)) = S
<1> DEFINE n == Cardinality(S)
           s == SetToSeq(S)
<1>1. n \in Nat /\ ExistsBijection(1..n, S)
  BY FS_CardinalityType
<1>2. PICK f : f \in Bijection(1..n, S)
  BY <1>1 DEF ExistsBijection
<1>3. f \in [1..n -> S] /\ IsInjective(f)
  BY <1>2 DEF Bijection, Injection
<1>4. s \in [1..n -> S] /\ IsInjective(s)
  BY <1>3 DEF SetToSeq
<1> HIDE DEF s
<1>5. s \in Seq(S)
  BY <1>1, <1>4
<1>6. s \in Injection(1..n, S)
  BY <1>4 DEF Injection
<1>7. s \in Surjection(1..n, S)
  <2>1. IsFiniteSet(1..n) /\ Cardinality(1..n) = n
    BY <1>1, FS_Interval
  <2>2. QED BY <1>6, <2>1, FS_Injection
<1>8. Range(s) = S
  BY <1>7, Fun_SurjectionProperties
<1>9. QED
  BY <1>4, <1>5, <1>8 DEF s

\* The recursion of FlattenSeq has a solution.
LEMMA FlattenSeqDefined ==
  ASSUME NEW ss, Len(ss) \in Nat \ {0}
  PROVE  \E f : /\ f[1] = ss[1]
                /\ \A n \in 2..Len(ss) : f[n] = f[n - 1] \o ss[n]
                /\ FlattenSeq(ss) = f[Len(ss)]
<1> DEFINE Sol(f, m) ==
             f = [n \in 1..m |-> IF n = 1 THEN ss[n] ELSE f[n - 1] \o ss[n]]
           T == {m \in Nat : \E f : Sol(f, m)}
<1>1. 0 \in T
  <2>1. Sol([n \in 1..0 |-> <<>>], 0)
    OBVIOUS
  <2>2. QED BY <2>1
<1>2. ASSUME NEW m \in T PROVE m + 1 \in T
  <2>1. PICK f : Sol(f, m)
    OBVIOUS
  <2>2. m \in Nat
    OBVIOUS
  <2> DEFINE g == [n \in 1..(m + 1) |->
                     IF n <= m THEN f[n]
                     ELSE IF n = 1 THEN ss[n] ELSE f[m] \o ss[n]]
  <2>3. ASSUME NEW n \in 1..(m + 1)
        PROVE  g[n] = IF n = 1 THEN ss[n] ELSE g[n - 1] \o ss[n]
    <3>1. CASE n <= m /\ n = 1
      BY <2>1, <2>2, <3>1
    <3>2. CASE n <= m /\ n # 1
      <4>1. n - 1 \in 1..(m + 1) /\ n - 1 <= m /\ n \in 1..m
        BY <2>2, <3>2
      <4>2. g[n] = f[n] /\ g[n - 1] = f[n - 1]
        BY <3>2, <4>1
      <4>3. QED BY <2>1, <3>2, <4>1, <4>2
    <3>3. CASE n = m + 1 /\ n = 1
      BY <2>2, <3>3
    <3>4. CASE n = m + 1 /\ n # 1
      <4>1. n - 1 = m /\ ~(n <= m) /\ m \in 1..(m + 1)
        BY <2>2, <3>4
      <4>2. g[n - 1] = f[m]
        BY <2>2, <4>1
      <4>3. g[n] = f[m] \o ss[n]
        BY <3>4, <4>1
      <4>4. QED BY <3>4, <4>2, <4>3
    <3>5. QED BY <2>2, <3>1, <3>2, <3>3, <3>4
  <2>4. Sol(g, m + 1)
    <3> DEFINE h == [n \in 1..(m + 1) |->
                       IF n = 1 THEN ss[n] ELSE g[n - 1] \o ss[n]]
    <3>1. DOMAIN g = 1..(m + 1) /\ DOMAIN h = 1..(m + 1)
      OBVIOUS
    <3>2. g = [n \in DOMAIN g |-> g[n]] /\ h = [n \in DOMAIN h |-> h[n]]
      OBVIOUS
    <3>3. \A n \in 1..(m + 1) : g[n] = h[n]
      <4> HIDE DEF g
      <4>1. QED BY <2>3
    <3>4. g = h
      <4> HIDE DEF g, h
      <4>1. QED BY <3>1, <3>2, <3>3
    <3>5. QED BY <3>4
  <2>5. m + 1 \in Nat
    BY <2>2
  <2> HIDE DEF g, Sol
  <2>6. QED BY <2>4, <2>5
<1>3. T = Nat
  <2> HIDE DEF T
  <2>1. T \subseteq Nat
    BY DEF T
  <2>2. QED BY <1>1, <1>2, <2>1, NatInduct
<1>4. \E f : Sol(f, Len(ss))
  BY <1>3
<1> DEFINE flatten == CHOOSE f : Sol(f, Len(ss))
<1>5. Sol(flatten, Len(ss))
  BY <1>4
<1>6. FlattenSeq(ss) = flatten[Len(ss)]
  BY DEF FlattenSeq
<1> HIDE DEF flatten
<1>7. flatten[1] = ss[1]
  <2>1. 1 \in 1..Len(ss)
    OBVIOUS
  <2>2. QED BY <1>5, <2>1
<1>8. ASSUME NEW n \in 2..Len(ss) PROVE flatten[n] = flatten[n - 1] \o ss[n]
  <2>1. n \in 1..Len(ss) /\ n # 1
    OBVIOUS
  <2>2. QED BY <1>5, <2>1
<1>9. QED
  BY <1>6, <1>7, <1>8

LEMMA FlattenSeqType ==
  ASSUME NEW M, NEW ss \in Seq(Seq(M))
  PROVE  FlattenSeq(ss) \in Seq(M)
<1>1. /\ Len(ss) \in Nat
      /\ \A n \in 1..Len(ss) : ss[n] \in Seq(M)
  BY LenProperties, ElementOfSeq
<1>2. CASE Len(ss) = 0
  <2>1. ss = <<>>
    BY <1>2, EmptySeq
  <2>2. FlattenSeq(ss) = ss
    BY <1>2 DEF FlattenSeq
  <2>3. QED BY <2>1, <2>2, EmptySeq
<1>3. CASE Len(ss) # 0
  <2>1. PICK f : /\ f[1] = ss[1]
                 /\ \A n \in 2..Len(ss) : f[n] = f[n - 1] \o ss[n]
                 /\ FlattenSeq(ss) = f[Len(ss)]
    BY <1>1, <1>3, FlattenSeqDefined
  <2> DEFINE T == {n \in Nat : n + 1 <= Len(ss) => f[n + 1] \in Seq(M)}
  <2>2. 0 \in T
    BY <1>1, <2>1
  <2>3. ASSUME NEW n \in T PROVE n + 1 \in T
    <3>1. n \in Nat
      OBVIOUS
    <3>2. ASSUME n + 2 <= Len(ss) PROVE f[n + 2] \in Seq(M)
      <4>1. /\ f[n + 1] \in Seq(M) /\ (n + 2) - 1 = n + 1
            /\ n + 2 \in 2..Len(ss) /\ n + 2 \in 1..Len(ss)
        BY <1>1, <3>1, <3>2
      <4>2. f[n + 2] = f[(n + 2) - 1] \o ss[n + 2]
        BY <2>1, <4>1
      <4>3. f[n + 2] = f[n + 1] \o ss[n + 2] /\ ss[n + 2] \in Seq(M)
        BY <1>1, <4>1, <4>2
      <4>4. f[n + 1] \o ss[n + 2] \in Seq(M)
        BY <4>1, <4>3, ConcatProperties
      <4>5. QED BY <4>3, <4>4
    <3>3. QED BY <3>1, <3>2
  <2>4. T = Nat
    <3> HIDE DEF T
    <3>1. T \subseteq Nat
      BY DEF T
    <3>2. QED BY <2>2, <2>3, <3>1, NatInduct
  <2>5. Len(ss) - 1 \in Nat /\ (Len(ss) - 1) + 1 = Len(ss)
    BY <1>1, <1>3
  <2>6. Len(ss) - 1 \in T
    BY <2>4, <2>5
  <2>7. f[Len(ss)] \in Seq(M)
    BY <1>1, <2>5, <2>6
  <2>8. QED BY <2>1, <2>7
<1>4. QED
  BY <1>2, <1>3

LEMMA FlattenSeqAppend ==
  ASSUME NEW M, NEW ss \in Seq(Seq(M)), NEW e \in Seq(M)
  PROVE  FlattenSeq(Append(ss, e)) = FlattenSeq(ss) \o e
<1> DEFINE tt == Append(ss, e)
<1>1. /\ tt \in Seq(Seq(M))
      /\ Len(ss) \in Nat
      /\ Len(tt) = Len(ss) + 1
      /\ \A i \in 1..Len(ss) : tt[i] = ss[i]
      /\ tt[Len(ss) + 1] = e
  BY AppendProperties, LenProperties
<1> HIDE DEF tt
<1>2. PICK g : /\ g[1] = tt[1]
               /\ \A n \in 2..Len(tt) : g[n] = g[n - 1] \o tt[n]
               /\ FlattenSeq(tt) = g[Len(tt)]
  <2>1. Len(tt) \in Nat \ {0}
    BY <1>1
  <2>2. QED BY <2>1, FlattenSeqDefined
<1>3. CASE Len(ss) = 0
  <2>1. ss = <<>> /\ FlattenSeq(ss) = ss
    BY <1>3, EmptySeq DEF FlattenSeq
  <2>2. FlattenSeq(tt) = e
    BY <1>1, <1>2, <1>3
  <2>3. <<>> \o e = e
    BY ConcatEmptySeq
  <2>4. QED BY <2>1, <2>2, <2>3 DEF tt
<1>4. CASE Len(ss) # 0
  <2>1. PICK f : /\ f[1] = ss[1]
                 /\ \A n \in 2..Len(ss) : f[n] = f[n - 1] \o ss[n]
                 /\ FlattenSeq(ss) = f[Len(ss)]
    BY <1>1, <1>4, FlattenSeqDefined
  <2> DEFINE T == {n \in Nat : n + 1 <= Len(ss) => f[n + 1] = g[n + 1]}
  <2>2. 0 \in T
    BY <1>1, <1>2, <1>4, <2>1
  <2>3. ASSUME NEW n \in T PROVE n + 1 \in T
    <3>1. n \in Nat
      OBVIOUS
    <3>2. ASSUME n + 2 <= Len(ss) PROVE f[n + 2] = g[n + 2]
      <4>1. /\ f[n + 1] = g[n + 1] /\ (n + 2) - 1 = n + 1
            /\ n + 2 \in 2..Len(ss) /\ n + 2 \in 2..Len(tt) /\ n + 2 \in 1..Len(ss)
        BY <1>1, <3>1, <3>2
      <4>2. f[n + 2] = f[n + 1] \o ss[n + 2]
        BY <2>1, <4>1
      <4>3. g[n + 2] = g[n + 1] \o tt[n + 2]
        BY <1>2, <4>1
      <4>4. QED BY <1>1, <4>1, <4>2, <4>3
    <3>3. QED BY <3>1, <3>2
  <2>4. T = Nat
    <3> HIDE DEF T
    <3>1. T \subseteq Nat
      BY DEF T
    <3>2. QED BY <2>2, <2>3, <3>1, NatInduct
  <2>5. Len(ss) - 1 \in Nat /\ (Len(ss) - 1) + 1 = Len(ss)
    BY <1>1, <1>4
  <2>6. f[Len(ss)] = g[Len(ss)]
    <3>1. Len(ss) - 1 \in T
      BY <2>4, <2>5
    <3>2. QED BY <1>1, <2>5, <3>1
  <2>7. Len(tt) \in 2..Len(tt) /\ Len(tt) - 1 = Len(ss)
    BY <1>1, <1>4
  <2>8. g[Len(tt)] = g[Len(ss)] \o e
    BY <1>1, <1>2, <2>7
  <2>9. QED BY <1>2, <2>1, <2>6, <2>8 DEF tt
<1>5. QED
  BY <1>3, <1>4

LEMMA FlattenSeqHead ==
  ASSUME NEW M
  PROVE  \A ss \in Seq(Seq(M)) :
           ss # <<>> => FlattenSeq(ss) = Head(ss) \o FlattenSeq(Tail(ss))
<1>0. \A a, b, c \in Seq(M) : (a \o b) \o c = a \o (b \o c)
  BY ConcatAssociative
<1> DEFINE Splits(tt) == FlattenSeq(tt) = Head(tt) \o FlattenSeq(Tail(tt))
           T == {n \in Nat : \A tt \in Seq(Seq(M)) : Len(tt) = n + 1 => Splits(tt)}
<1>1. ASSUME NEW tt \in Seq(Seq(M)), tt # <<>>,
             \A uu \in Seq(Seq(M)) : uu # <<>> /\ Len(uu) = Len(tt) - 1 => Splits(uu)
      PROVE  Splits(tt)
  <2>1. PICK uu \in Seq(Seq(M)), e \in Seq(M) : tt = Append(uu, e)
    BY <1>1, SequenceEmptyOrAppend
  <2>2. FlattenSeq(tt) = FlattenSeq(uu) \o e
    BY <2>1, FlattenSeqAppend
  <2>3. CASE uu = <<>>
    <3>1. Head(tt) = e /\ Tail(tt) = <<>>
      BY <2>1, <2>3, HeadTailAppend
    <3>2. FlattenSeq(<<>>) = <<>>
      BY EmptySeq DEF FlattenSeq
    <3>3. <<>> \o e = e /\ e \o <<>> = e
      BY ConcatEmptySeq
    <3>4. FlattenSeq(uu) \o e = e
      BY <2>3, <3>2, <3>3
    <3>5. Head(tt) \o FlattenSeq(Tail(tt)) = e
      BY <3>1, <3>2, <3>3
    <3>6. QED BY <2>2, <3>4, <3>5
  <2>4. CASE uu # <<>>
    <3>1. Head(tt) = Head(uu) /\ Tail(tt) = Append(Tail(uu), e)
      BY <2>1, <2>4, HeadTailAppend
    <3>2. Head(uu) \in Seq(M) /\ Tail(uu) \in Seq(Seq(M))
      BY <2>4, HeadTailProperties
    <3>3. Len(tt) = Len(uu) + 1 /\ Len(uu) \in Nat
      BY <2>1, AppendProperties, LenProperties
    <3>4. FlattenSeq(uu) = Head(uu) \o FlattenSeq(Tail(uu))
      BY <1>1, <2>4, <3>3
    <3>5. FlattenSeq(Tail(uu)) \in Seq(M)
      BY <3>2, FlattenSeqType
    <3>6. FlattenSeq(Tail(tt)) = FlattenSeq(Tail(uu)) \o e
      BY <3>1, <3>2, FlattenSeqAppend
    <3>7. (Head(uu) \o FlattenSeq(Tail(uu))) \o e
            = Head(uu) \o (FlattenSeq(Tail(uu)) \o e)
      BY <1>0, <2>1, <3>2, <3>5, Zenon
    <3>8. QED BY <2>2, <3>1, <3>4, <3>6, <3>7
  <2>5. QED BY <2>3, <2>4
<1> HIDE DEF Splits
<1>2. 0 \in T
  <2> SUFFICES ASSUME NEW tt \in Seq(Seq(M)), Len(tt) = 1 PROVE Splits(tt)
    OBVIOUS
  <2>1. Len(<<>>) = 0 /\ \A uu \in Seq(Seq(M)) : uu # <<>> => Len(uu) # 0
    BY EmptySeq
  <2>2. Len(tt) # 0 /\ Len(tt) - 1 = 0
    OBVIOUS
  <2>3. tt # <<>>
    BY <2>1, <2>2, Zenon
  <2>4. QED BY <1>1, <2>1, <2>2, <2>3
<1>3. ASSUME NEW n \in T PROVE n + 1 \in T
  <2>1. n \in Nat
    OBVIOUS
  <2> SUFFICES ASSUME NEW tt \in Seq(Seq(M)), Len(tt) = n + 2 PROVE Splits(tt)
    BY <2>1
  <2>2. tt # <<>>
    BY <2>1, EmptySeq
  <2>3. Len(tt) - 1 = n + 1
    BY <2>1
  <2>4. \A uu \in Seq(Seq(M)) : Len(uu) = Len(tt) - 1 => Splits(uu)
    BY <2>3
  <2>5. QED BY <1>1, <2>2, <2>4
<1>4. T = Nat
  <2> HIDE DEF T
  <2>1. T \subseteq Nat
    BY DEF T
  <2>2. QED BY <1>2, <1>3, <2>1, NatInduct
<1>5. ASSUME NEW ss \in Seq(Seq(M)), ss # <<>> PROVE Splits(ss)
  <2>1. Len(ss) - 1 \in Nat /\ Len(ss) = (Len(ss) - 1) + 1
    BY <1>5, EmptySeq
  <2>2. Len(ss) - 1 \in T
    BY <1>4, <2>1
  <2>3. QED BY <2>1, <2>2
<1>6. QED
  BY <1>5 DEF Splits

-----------------------------------------------------------------------------
(* Ranges. *)

LEMMA RangeOfAppend ==
  ASSUME NEW M, NEW s \in Seq(M), NEW e \in M
  PROVE  Append(s, e) \in Seq(M) /\ Range(Append(s, e)) = Range(s) \cup {e}
BY AppendDistinct, AppendProperties

LEMMA RangeOfConcat ==
  ASSUME NEW M, NEW s \in Seq(M), NEW t \in Seq(M)
  PROVE  s \o t \in Seq(M) /\ Range(s \o t) = Range(s) \cup Range(t)
<1>1. /\ s \o t \in Seq(M)
      /\ Len(s \o t) = Len(s) + Len(t)
      /\ Len(s) \in Nat /\ Len(t) \in Nat
      /\ DOMAIN s = 1..Len(s) /\ DOMAIN t = 1..Len(t)
      /\ DOMAIN (s \o t) = 1..Len(s \o t)
      /\ \A i \in 1..(Len(s) + Len(t)) :
           (s \o t)[i] = IF i <= Len(s) THEN s[i] ELSE t[i - Len(s)]
  BY ConcatProperties, LenProperties
<1>2. ASSUME NEW e \in Range(s) PROVE e \in Range(s \o t)
  <2>1. PICK i \in 1..Len(s) : s[i] = e
    BY <1>1 DEF Range
  <2>2. i \in 1..(Len(s) + Len(t)) /\ (s \o t)[i] = e
    BY <1>1, <2>1
  <2>3. QED BY <1>1, <2>2 DEF Range
<1>3. ASSUME NEW e \in Range(t) PROVE e \in Range(s \o t)
  <2>1. PICK i \in 1..Len(t) : t[i] = e
    BY <1>1 DEF Range
  <2>2. /\ i + Len(s) \in 1..(Len(s) + Len(t)) /\ ~(i + Len(s) <= Len(s))
        /\ (i + Len(s)) - Len(s) = i
    BY <1>1
  <2>3. (s \o t)[i + Len(s)] = e
    BY <1>1, <2>1, <2>2
  <2>4. QED BY <1>1, <2>2, <2>3 DEF Range
<1>4. ASSUME NEW e \in Range(s \o t) PROVE e \in Range(s) \cup Range(t)
  <2>1. PICK i \in 1..(Len(s) + Len(t)) : (s \o t)[i] = e
    BY <1>1 DEF Range
  <2>2. CASE i <= Len(s)
    <3>1. i \in 1..Len(s) /\ s[i] = e
      BY <1>1, <2>1, <2>2
    <3>2. QED BY <1>1, <3>1 DEF Range
  <2>3. CASE ~(i <= Len(s))
    <3>1. i - Len(s) \in 1..Len(t) /\ t[i - Len(s)] = e
      BY <1>1, <2>1, <2>3
    <3>2. QED BY <1>1, <3>1 DEF Range
  <2>4. QED BY <2>2, <2>3
<1>5. QED
  BY <1>1, <1>2, <1>3, <1>4

LEMMA RangeOfTail ==
  ASSUME NEW M, NEW s \in Seq(M), s # <<>>
  PROVE  /\ Head(s) \in Range(s) /\ Head(s) \in M
         /\ Tail(s) \in Seq(M)
         /\ Range(Tail(s)) \subseteq Range(s)
<1>1. /\ Len(s) \in Nat \ {0} /\ DOMAIN s = 1..Len(s)
      /\ Head(s) = s[1]
      /\ Tail(s) \in Seq(M) /\ Len(Tail(s)) = Len(s) - 1
      /\ DOMAIN Tail(s) = 1..(Len(s) - 1)
      /\ \A i \in 1..(Len(s) - 1) : Tail(s)[i] = s[i + 1]
  BY HeadTailProperties, LenProperties, EmptySeq
<1>2. 1 \in DOMAIN s /\ s[1] \in M
  BY <1>1, ElementOfSeq
<1>3. ASSUME NEW e \in Range(Tail(s)) PROVE e \in Range(s)
  <2>1. PICK i \in 1..(Len(s) - 1) : Tail(s)[i] = e
    BY <1>1 DEF Range
  <2>2. i + 1 \in DOMAIN s /\ s[i + 1] = e
    BY <1>1, <2>1
  <2>3. QED BY <2>2 DEF Range
<1>4. QED
  BY <1>1, <1>2, <1>3 DEF Range

LEMMA RangeIsTyped ==
  ASSUME NEW M, NEW s \in Seq(M), NEW e \in Range(s)
  PROVE  e \in M
<1>1. PICK i \in DOMAIN s : s[i] = e
  BY DEF Range
<1>2. QED
  BY <1>1, LenProperties, ElementOfSeq

LEMMA NoneInRange ==
  ASSUME NEW M, NEW s \in Seq(M), NEW S, Occurrences(s, S) = 0
  PROVE  \A e \in Range(s) : e \notin S
<1>1. \A i \in DOMAIN s : s[i] \notin S
  BY OccurrencesType
<1>2. QED
  BY <1>1 DEF Range

-----------------------------------------------------------------------------
(* More of Kept. *)

\* Only what the sequence may hold matters of the set.
LEMMA KeptSame ==
  ASSUME NEW M, NEW s \in Seq(M), NEW S, NEW R, \A e \in M : e \in S <=> e \in R
  PROVE  Kept(s, S) = Kept(s, R)
<1>1. PICK f : /\ f[0] = <<>>
               /\ \A n \in 1..Len(s) :
                    f[n] = IF s[n] \in S THEN Append(f[n - 1], s[n]) ELSE f[n - 1]
               /\ Kept(s, S) = f[Len(s)]
  BY KeptDefined
<1>2. PICK g : /\ g[0] = <<>>
               /\ \A n \in 1..Len(s) :
                    g[n] = IF s[n] \in R THEN Append(g[n - 1], s[n]) ELSE g[n - 1]
               /\ Kept(s, R) = g[Len(s)]
  BY KeptDefined
<1>3. Len(s) \in Nat /\ \A n \in 1..Len(s) : s[n] \in M
  BY LenProperties, ElementOfSeq
<1> DEFINE T == {n \in Nat : n <= Len(s) => f[n] = g[n]}
<1>4. 0 \in T
  <2>1. f[0] = g[0]
    BY <1>1, <1>2
  <2>2. QED BY <2>1
<1>5. ASSUME NEW n \in T PROVE n + 1 \in T
  <2>1. n \in Nat /\ n + 1 \in Nat
    OBVIOUS
  <2>2. ASSUME n + 1 <= Len(s) PROVE f[n + 1] = g[n + 1]
    <3>1. f[n] = g[n] /\ n + 1 \in 1..Len(s) /\ (n + 1) - 1 = n
      BY <1>3, <2>1, <2>2
    <3>2. f[n + 1] = IF s[n + 1] \in S THEN Append(f[n], s[n + 1]) ELSE f[n]
      BY <1>1, <2>1, <3>1
    <3>3. g[n + 1] = IF s[n + 1] \in R THEN Append(g[n], s[n + 1]) ELSE g[n]
      BY <1>2, <2>1, <3>1
    <3>4. s[n + 1] \in S <=> s[n + 1] \in R
      BY <1>3, <3>1
    <3>5. QED BY <3>1, <3>2, <3>3, <3>4
  <2>3. QED BY <2>1, <2>2
<1>6. T = Nat
  <2> HIDE DEF T
  <2>1. T \subseteq Nat
    BY DEF T
  <2>2. QED BY <1>4, <1>5, <2>1, NatInduct
<1>7. f[Len(s)] = g[Len(s)]
  BY <1>3, <1>6
<1>8. QED
  BY <1>1, <1>2, <1>7

LEMMA KeptNothing ==
  ASSUME NEW M, NEW s \in Seq(M), NEW S, \A e \in M : e \notin S
  PROVE  Kept(s, S) = <<>>
<1>1. Kept(s, S) \in Seq(M \cap S)
  BY KeptType
<1>2. M \cap S = {}
  OBVIOUS
<1>3. Kept(s, S) \in Seq({})
  BY <1>1, <1>2
<1>4. Len(Kept(s, S)) \in Nat /\ \A i \in 1..Len(Kept(s, S)) : Kept(s, S)[i] \in {}
  BY <1>3, LenProperties, ElementOfSeq
<1>5. Len(Kept(s, S)) = 0
  <2>1. CASE Len(Kept(s, S)) # 0
    <3>1. 1 \in 1..Len(Kept(s, S))
      BY <1>4, <2>1
    <3>2. QED BY <1>4, <3>1
  <2>2. QED BY <2>1
<1>6. QED
  BY <1>3, <1>5, EmptySeq

LEMMA KeptConcat ==
  ASSUME NEW M, NEW s \in Seq(M), NEW t \in Seq(M), NEW S
  PROVE  Kept(s \o t, S) = Kept(s, S) \o Kept(t, S)
<1> DEFINE T == {n \in Nat : \A u \in Seq(M) : Len(u) = n =>
                               Kept(s \o u, S) = Kept(s, S) \o Kept(u, S)}
<1>1. Kept(s, S) \in Seq(M)
  <2>1. Kept(s, S) \in Seq(M \cap S)
    BY KeptType
  <2>2. QED BY <2>1, SeqMonotonic
<1>2. 0 \in T
  <2> SUFFICES ASSUME NEW u \in Seq(M), Len(u) = 0
               PROVE  Kept(s \o u, S) = Kept(s, S) \o Kept(u, S)
    OBVIOUS
  <2>1. u = <<>>
    BY EmptySeq
  <2>2. s \o u = s
    BY <2>1, ConcatEmptySeq
  <2>3. Kept(u, S) = <<>>
    BY KeptOfNone
  <2>4. Kept(s, S) \o <<>> = Kept(s, S)
    BY <1>1, ConcatEmptySeq
  <2>5. QED BY <2>2, <2>3, <2>4
<1>3. ASSUME NEW n \in T PROVE n + 1 \in T
  <2> SUFFICES ASSUME NEW u \in Seq(M), Len(u) = n + 1
               PROVE  Kept(s \o u, S) = Kept(s, S) \o Kept(u, S)
    OBVIOUS
  <2>1. n \in Nat
    OBVIOUS
  <2>2. u # <<>>
    BY <2>1, EmptySeq
  <2>3. PICK v \in Seq(M), e \in M : u = Append(v, e)
    BY <2>2, SequenceEmptyOrAppend
  <2>4. Len(v) = n
    BY <2>1, <2>3, AppendProperties, LenProperties
  <2>5. Kept(s \o v, S) = Kept(s, S) \o Kept(v, S)
    BY <2>4
  <2>6. s \o u = Append(s \o v, e) /\ s \o v \in Seq(M)
    BY <2>3, ConcatAppend, ConcatProperties
  <2>7. Kept(s \o u, S) = IF e \in S THEN Append(Kept(s \o v, S), e) ELSE Kept(s \o v, S)
    <3>1. PICK w \in Seq(M) : w = s \o v
      BY <2>6
    <3>2. Kept(Append(w, e), S) = IF e \in S THEN Append(Kept(w, S), e) ELSE Kept(w, S)
      BY KeptAppend
    <3>3. QED BY <2>6, <3>1, <3>2
  <2>8. Kept(u, S) = IF e \in S THEN Append(Kept(v, S), e) ELSE Kept(v, S)
    BY <2>3, KeptAppend
  <2>9. Kept(v, S) \in Seq(M)
    <3>1. Kept(v, S) \in Seq(M \cap S)
      BY KeptType
    <3>2. QED BY <3>1, SeqMonotonic
  <2>10. Kept(s, S) \o Append(Kept(v, S), e) = Append(Kept(s, S) \o Kept(v, S), e)
    BY <1>1, <2>9, ConcatAppend
  <2>11. QED BY <2>5, <2>7, <2>8, <2>10
<1>4. T = Nat
  <2> HIDE DEF T
  <2>1. T \subseteq Nat
    BY DEF T
  <2>2. QED BY <1>2, <1>3, <2>1, NatInduct
<1>5. Len(t) \in Nat
  BY LenProperties
<1>6. QED
  BY <1>4, <1>5

LEMMA HeadThenTail ==
  ASSUME NEW M, NEW s \in Seq(M), s # <<>>
  PROVE  Head(s) \in M /\ Tail(s) \in Seq(M) /\ s = <<Head(s)>> \o Tail(s)
<1>1. /\ Head(s) \in M /\ Tail(s) \in Seq(M) /\ Head(s) = s[1]
      /\ Len(s) \in Nat \ {0} /\ Len(Tail(s)) = Len(s) - 1
      /\ \A i \in 1..(Len(s) - 1) : Tail(s)[i] = s[i + 1]
  BY HeadTailProperties, LenProperties, EmptySeq
<1>2. PICK h \in M, t \in Seq(M) : h = Head(s) /\ t = Tail(s)
  BY <1>1
<1>3. PICK o \in Seq(M) : o = <<h>> /\ Len(o) = 1 /\ o[1] = h
  <2>1. <<h>> \in Seq(M) /\ Len(<<h>>) = 1 /\ <<h>>[1] = h
    OBVIOUS
  <2>2. QED BY <2>1
<1>4. /\ o \o t \in Seq(M)
      /\ Len(o \o t) = 1 + Len(t)
      /\ \A i \in 1..(1 + Len(t)) : (o \o t)[i] = IF i <= 1 THEN o[i] ELSE t[i - 1]
  BY <1>3, ConcatProperties
<1>5. ASSUME NEW i \in 1..Len(s) PROVE s[i] = (o \o t)[i]
  <2>1. CASE i = 1
    BY <1>1, <1>2, <1>3, <1>4, <2>1
  <2>2. CASE i # 1
    <3>1. i - 1 \in 1..(Len(s) - 1) /\ (i - 1) + 1 = i /\ ~(i <= 1) /\ i \in 1..(1 + Len(t))
      BY <1>1, <1>2, <2>2
    <3>2. QED BY <1>1, <1>2, <1>4, <3>1
  <2>3. QED BY <2>1, <2>2
<1>6. Len(s) = Len(o \o t)
  BY <1>1, <1>2, <1>4
<1>7. s = o \o t
  BY <1>4, <1>5, <1>6, SeqEqual
<1>8. QED
  BY <1>1, <1>2, <1>3, <1>7

LEMMA KeptTail ==
  ASSUME NEW M, NEW s \in Seq(M), s # <<>>, NEW S
  PROVE  /\ Head(s) \in S => Kept(s, S) # <<>> /\ Head(Kept(s, S)) = Head(s)
                             /\ Kept(Tail(s), S) = Tail(Kept(s, S))
         /\ Head(s) \notin S => Kept(Tail(s), S) = Kept(s, S)
<1>1. PICK h \in M, t \in Seq(M) : h = Head(s) /\ t = Tail(s) /\ s = <<h>> \o t
  <2>1. Head(s) \in M /\ Tail(s) \in Seq(M) /\ s = <<Head(s)>> \o Tail(s)
    BY HeadThenTail
  <2>2. QED BY <2>1
<1>2. <<h>> \in Seq(M) /\ <<>> \in Seq(M) /\ <<h>> = Append(<<>>, h)
  BY EmptySeq
<1>3. Kept(s, S) = Kept(<<h>>, S) \o Kept(t, S)
  <2>1. PICK o \in Seq(M) : o = <<h>>
    BY <1>2
  <2>2. Kept(o \o t, S) = Kept(o, S) \o Kept(t, S)
    BY KeptConcat
  <2>3. QED BY <1>1, <2>1, <2>2
<1>4. Kept(<<h>>, S) = IF h \in S THEN Append(<<>>, h) ELSE <<>>
  <2>1. PICK z \in Seq(M) : z = <<>>
    BY <1>2
  <2>2. Kept(Append(z, h), S) = IF h \in S THEN Append(Kept(z, S), h) ELSE Kept(z, S)
    BY KeptAppend
  <2>3. Kept(z, S) = <<>>
    BY <2>1, KeptEmpty
  <2>4. QED BY <1>2, <2>1, <2>2, <2>3
<1>5. Kept(t, S) \in Seq(M)
  <2>1. Kept(t, S) \in Seq(M \cap S)
    BY KeptType
  <2>2. QED BY <2>1, SeqMonotonic
<1>6. PICK k \in Seq(M) : k = Kept(t, S)
  BY <1>5
<1>7. CASE h \in S
  <2>1. Kept(s, S) = <<h>> \o k
    BY <1>2, <1>3, <1>4, <1>6, <1>7
  <2>2. <<h>> \o k # <<>> /\ Head(<<h>> \o k) = h /\ Tail(<<h>> \o k) = k
    BY <1>2, ConcatSimplifications, HeadTailAppend
  <2>3. QED BY <1>1, <1>6, <1>7, <2>1, <2>2
<1>8. CASE h \notin S
  <2>1. Kept(s, S) = <<>> \o k
    BY <1>3, <1>4, <1>6, <1>8
  <2>2. QED BY <1>1, <1>6, <1>8, <2>1, ConcatEmptySeq
<1>9. QED
  BY <1>7, <1>8

-----------------------------------------------------------------------------
(* Induction over sequences, which grow at their end. *)

LEMMA SeqInduct ==
  ASSUME NEW M, NEW T, T \subseteq Seq(M), <<>> \in T,
         \A t \in T : \A e \in M : Append(t, e) \in T
  PROVE  T = Seq(M)
<1> DEFINE N == {n \in Nat : \A s \in Seq(M) : Len(s) = n => s \in T}
<1>1. 0 \in N
  <2>1. ASSUME NEW s \in Seq(M), Len(s) = 0 PROVE s \in T
    <3>1. s = <<>>
      BY <2>1, EmptySeq
    <3>2. QED BY <3>1
  <2>2. QED BY <2>1
<1>2. ASSUME NEW n \in N PROVE n + 1 \in N
  <2>1. n \in Nat /\ \A s \in Seq(M) : Len(s) = n => s \in T
    BY <1>2
  <2>2. ASSUME NEW s \in Seq(M), Len(s) = n + 1 PROVE s \in T
    <3>1. s # <<>>
      <4>1. Len(s) # 0
        BY <2>1, <2>2
      <4>2. QED BY <4>1, EmptySeq, Zenon
    <3>2. PICK t \in Seq(M), e \in M : s = Append(t, e)
      BY <3>1, SequenceEmptyOrAppend
    <3>3. Len(t) = n
      BY <2>1, <2>2, <3>2, AppendProperties, LenProperties
    <3>4. t \in T
      BY <2>1, <3>3
    <3>5. QED BY <3>2, <3>4
  <2>3. n + 1 \in Nat
    BY <2>1
  <2>4. QED BY <2>2, <2>3
<1>3. N = Nat
  <2> HIDE DEF N
  <2>1. N \subseteq Nat
    BY DEF N
  <2>2. QED BY <1>1, <1>2, <2>1, NatInduct
<1>4. ASSUME NEW s \in Seq(M) PROVE s \in T
  <2>1. Len(s) \in N
    BY <1>3, LenProperties
  <2>2. QED BY <2>1
<1>5. QED
  BY <1>4

-----------------------------------------------------------------------------
(* Folded. *)

\* The recursion of Folded has a solution.
LEMMA FoldedDefined ==
  ASSUME NEW M, NEW s \in Seq(M), NEW step, NEW start
  PROVE  \E f : /\ f[0] = start
                /\ \A n \in 1..Len(s) : f[n] = step[f[n - 1]][s[n]]
                /\ Folded(step, start, s) = f[Len(s)]
<1> DEFINE Sol(f, m) ==
             f = [n \in 0..m |-> IF n = 0 THEN start ELSE step[f[n - 1]][s[n]]]
           T == {m \in Nat : \E f : Sol(f, m)}
<1>1. 0 \in T
  <2>1. Sol([n \in 0..0 |-> start], 0)
    OBVIOUS
  <2>2. QED BY <2>1
<1>2. ASSUME NEW m \in T PROVE m + 1 \in T
  <2>1. PICK f : Sol(f, m)
    OBVIOUS
  <2>2. m \in Nat
    OBVIOUS
  <2> DEFINE g == [n \in 0..(m + 1) |-> IF n <= m THEN f[n] ELSE step[f[m]][s[n]]]
  <2>3. ASSUME NEW n \in 0..(m + 1)
        PROVE  g[n] = IF n = 0 THEN start ELSE step[g[n - 1]][s[n]]
    <3>1. CASE n = 0
      BY <2>1, <2>2, <3>1
    <3>2. CASE n # 0 /\ n <= m
      <4>1. n - 1 \in 0..(m + 1) /\ n - 1 <= m /\ n \in 0..m
        BY <2>2, <3>2
      <4>2. g[n] = f[n] /\ g[n - 1] = f[n - 1]
        BY <3>2, <4>1
      <4>3. QED BY <2>1, <3>2, <4>1, <4>2
    <3>3. CASE n = m + 1
      <4>1. n - 1 = m /\ n # 0 /\ ~(n <= m) /\ m \in 0..(m + 1)
        BY <2>2, <3>3
      <4>2. g[n - 1] = f[m]
        BY <2>2, <4>1
      <4>3. QED BY <4>1, <4>2
    <3>4. QED BY <2>2, <3>1, <3>2, <3>3
  <2>4. Sol(g, m + 1)
    <3> DEFINE h == [n \in 0..(m + 1) |->
                       IF n = 0 THEN start ELSE step[g[n - 1]][s[n]]]
    <3>1. DOMAIN g = 0..(m + 1) /\ DOMAIN h = 0..(m + 1)
      OBVIOUS
    <3>2. g = [n \in DOMAIN g |-> g[n]] /\ h = [n \in DOMAIN h |-> h[n]]
      OBVIOUS
    <3>3. \A n \in 0..(m + 1) : g[n] = h[n]
      <4> HIDE DEF g
      <4>1. QED BY <2>3
    <3>4. g = h
      <4> HIDE DEF g, h
      <4>1. QED BY <3>1, <3>2, <3>3
    <3>5. QED BY <3>4
  <2>5. m + 1 \in Nat
    BY <2>2
  <2> HIDE DEF g, Sol
  <2>6. QED BY <2>4, <2>5
<1>3. T = Nat
  <2> HIDE DEF T
  <2>1. T \subseteq Nat
    BY DEF T
  <2>2. QED BY <1>1, <1>2, <2>1, NatInduct
<1>4. \E f : Sol(f, Len(s))
  BY <1>3, LenProperties
<1> DEFINE so_far == CHOOSE f : Sol(f, Len(s))
<1>5. Sol(so_far, Len(s))
  BY <1>4
<1>6. Folded(step, start, s) = so_far[Len(s)]
  BY DEF Folded
<1> HIDE DEF so_far
<1>7. so_far[0] = start
  BY <1>5, LenProperties
<1>8. ASSUME NEW n \in 1..Len(s) PROVE so_far[n] = step[so_far[n - 1]][s[n]]
  <2>1. n \in 0..Len(s) /\ n # 0
    BY LenProperties
  <2>2. QED BY <1>5, <2>1
<1>9. QED
  BY <1>6, <1>7, <1>8

LEMMA FoldedEmpty ==
  ASSUME NEW step, NEW start
  PROVE  Folded(step, start, <<>>) = start
<1>1. PICK s \in Seq({}) : s = <<>> /\ Len(s) = 0
  BY EmptySeq
<1>2. PICK f : f[0] = start /\ Folded(step, start, s) = f[Len(s)]
  BY FoldedDefined
<1>3. QED
  BY <1>1, <1>2

LEMMA FoldedAppend ==
  ASSUME NEW M, NEW s \in Seq(M), NEW e \in M, NEW step, NEW start
  PROVE  Folded(step, start, Append(s, e)) = step[Folded(step, start, s)][e]
<1> DEFINE t == Append(s, e)
<1>1. /\ t \in Seq(M) /\ Len(t) = Len(s) + 1 /\ Len(s) \in Nat
      /\ \A i \in 1..Len(s) : t[i] = s[i]
      /\ t[Len(s) + 1] = e
  BY AppendProperties, LenProperties
<1> HIDE DEF t
<1>2. PICK f : /\ f[0] = start
               /\ \A n \in 1..Len(s) : f[n] = step[f[n - 1]][s[n]]
               /\ Folded(step, start, s) = f[Len(s)]
  BY FoldedDefined
<1>3. PICK g : /\ g[0] = start
               /\ \A n \in 1..Len(t) : g[n] = step[g[n - 1]][t[n]]
               /\ Folded(step, start, t) = g[Len(t)]
  BY <1>1, FoldedDefined
<1> DEFINE T == {n \in Nat : n <= Len(s) => f[n] = g[n]}
<1>4. 0 \in T
  BY <1>2, <1>3
<1>5. ASSUME NEW n \in T PROVE n + 1 \in T
  <2>1. n \in Nat /\ (n <= Len(s) => f[n] = g[n])
    BY <1>5
  <2>2. ASSUME n + 1 <= Len(s) PROVE f[n + 1] = g[n + 1]
    <3>1. /\ n + 1 \in 1..Len(s) /\ n + 1 \in 1..Len(t)
          /\ (n + 1) - 1 = n /\ n <= Len(s)
      BY <1>1, <2>1, <2>2
    <3>2. f[n + 1] = step[f[n]][s[n + 1]]
      BY <1>2, <3>1
    <3>3. g[n + 1] = step[g[n]][t[n + 1]]
      BY <1>3, <3>1
    <3>4. QED BY <1>1, <2>1, <3>1, <3>2, <3>3
  <2>3. QED BY <2>1, <2>2
<1>6. T = Nat
  <2> HIDE DEF T
  <2>1. T \subseteq Nat
    BY DEF T
  <2>2. QED BY <1>4, <1>5, <2>1, NatInduct
<1>7. f[Len(s)] = g[Len(s)]
  <2>1. Len(s) \in T
    BY <1>1, <1>6
  <2>2. QED BY <1>1, <2>1
<1>8. g[Len(t)] = step[g[Len(s)]][e]
  <2>1. Len(t) \in 1..Len(t) /\ Len(t) - 1 = Len(s)
    BY <1>1
  <2>2. g[Len(t)] = step[g[Len(t) - 1]][t[Len(t)]]
    BY <1>3, <2>1
  <2>3. QED BY <1>1, <2>1, <2>2
<1>9. QED
  BY <1>2, <1>3, <1>7, <1>8 DEF t

-----------------------------------------------------------------------------
(* Of how many elements Kept keeps some. *)

LEMMA KeptLength ==
  ASSUME NEW M, NEW s \in Seq(M), NEW S
  PROVE  /\ Len(Kept(s, S)) \in 0..Len(s)
         /\ Len(Kept(s, S)) = Len(s) <=> \A i \in DOMAIN s : s[i] \in S
         /\ Len(Kept(s, S)) = Len(s) => Kept(s, S) = s
<1> DEFINE k(t) == Kept(t, S)
           All(t) == \A i \in DOMAIN t : t[i] \in S
           Good(t) == /\ Len(k(t)) \in 0..Len(t)
                      /\ Len(k(t)) = Len(t) <=> All(t)
                      /\ Len(k(t)) = Len(t) => k(t) = t
           T == {t \in Seq(M) : Good(t)}
<1>1. <<>> \in T
  <2>1. <<>> \in Seq(M) /\ Len(<<>>) = 0 /\ DOMAIN <<>> = {}
    BY EmptySeq
  <2>2. k(<<>>) = <<>>
    BY KeptEmpty
  <2>3. Good(<<>>)
    BY <2>1, <2>2
  <2>4. QED BY <2>1, <2>3
<1>2. ASSUME NEW t \in T, NEW e \in M PROVE Append(t, e) \in T
  <2> DEFINE u == Append(t, e)
  <2>1. t \in Seq(M) /\ Good(t)
    BY <1>2
  <2>2. /\ u \in Seq(M) /\ Len(u) = Len(t) + 1 /\ Len(t) \in Nat
        /\ DOMAIN t = 1..Len(t) /\ DOMAIN u = 1..(Len(t) + 1)
        /\ \A i \in 1..Len(t) : u[i] = t[i]
        /\ u[Len(t) + 1] = e
    BY <2>1, AppendProperties, LenProperties
  <2>3. k(u) = IF e \in S THEN Append(k(t), e) ELSE k(t)
    BY <2>1, KeptAppend
  <2>4. All(u) <=> All(t) /\ e \in S
    <3> HIDE DEF u
    <3>1. ASSUME All(u) PROVE All(t) /\ e \in S
      <4>1. \A i \in 1..Len(t) : i \in 1..(Len(t) + 1)
        BY <2>2
      <4>2. Len(t) + 1 \in 1..(Len(t) + 1)
        BY <2>2
      <4>3. QED BY <2>2, <3>1, <4>1, <4>2
    <3>2. ASSUME All(t), e \in S PROVE All(u)
      <4>1. \A i \in 1..(Len(t) + 1) : i \in 1..Len(t) \/ i = Len(t) + 1
        BY <2>2
      <4>2. QED BY <2>2, <3>2, <4>1
    <3>3. QED BY <3>1, <3>2
  <2>5. k(t) \in Seq(M)
    <3>1. k(t) \in Seq(M \cap S)
      BY <2>1, KeptType
    <3>2. QED BY <3>1, SeqMonotonic
  <2>6. Len(Append(k(t), e)) = Len(k(t)) + 1
    BY <2>5, AppendProperties
  <2>7. Good(u)
    <3> HIDE DEF u, k, All
    <3>1. /\ Len(k(t)) \in 0..Len(t)
          /\ Len(k(t)) = Len(t) <=> All(t)
          /\ Len(k(t)) = Len(t) => k(t) = t
      BY <2>1
    <3>2. CASE e \in S
      <4>1. Len(k(u)) = Len(k(t)) + 1 /\ k(u) = Append(k(t), e)
        BY <2>3, <2>6, <3>2
      <4>2. Len(k(u)) \in 0..Len(u) /\ (Len(k(u)) = Len(u) <=> Len(k(t)) = Len(t))
        BY <2>2, <3>1, <4>1
      <4>3. Len(k(u)) = Len(u) => k(u) = u
        BY <3>1, <4>1, <4>2 DEF u
      <4>4. QED BY <2>4, <3>1, <3>2, <4>2, <4>3
    <3>3. CASE e \notin S
      <4>1. Len(k(u)) = Len(k(t))
        BY <2>3, <3>3
      <4>2. Len(k(u)) \in 0..Len(u) /\ Len(k(u)) # Len(u)
        BY <2>2, <3>1, <4>1
      <4>3. QED BY <2>4, <3>3, <4>2
    <3>4. QED BY <3>2, <3>3
  <2> HIDE DEF Good, u
  <2>8. u \in T
    BY <2>2, <2>7
  <2>9. QED BY <2>8 DEF u
<1>3. T \subseteq Seq(M)
  OBVIOUS
<1> HIDE DEF T
<1>4. T = Seq(M)
  BY <1>1, <1>2, <1>3, SeqInduct
<1>5. QED
  BY <1>4 DEF T

-----------------------------------------------------------------------------
(* Sequences of handlers.  H stands for those a program starts. *)

\* The handlers of the operations of k of one kind.
HandlersOf(H, op, k) == {h \in H : h.do = op /\ h.of = k}

LEMMA WaitingIsCounted ==
  ASSUME NEW H, NEW q \in Seq(H), NEW k, NEW op
  PROVE  /\ Occurrences(q, HandlersOf(H, op, k)) \in Nat
         /\ HandlersWaiting(q, op, k) = Occurrences(q, HandlersOf(H, op, k))
<1>1. \A i \in DOMAIN q : q[i] \in H
  BY LenProperties, ElementOfSeq
<1>2. Occurrences(q, HandlersOf(H, op, k)) \in Nat
  BY OccurrencesType
<1>3. {i \in DOMAIN q : q[i].do = op /\ q[i].of = k} =
        {i \in DOMAIN q : q[i] \in HandlersOf(H, op, k)}
  BY <1>1 DEF HandlersOf
<1>4. QED
  BY <1>2, <1>3, Zenon DEF Occurrences, HandlersWaiting

\* One operation that is aborted, if it runs.
Each(op, k, n) == [i \in 1..n |-> Completion(op, k, "error")]

LEMMA CountsOfEach ==
  ASSUME NEW op, NEW k, NEW n \in 0..1
  PROVE  /\ \A H : (n # 0 => Completion(op, k, "error") \in H)
                   => Each(op, k, n) \in Seq(H)
         /\ \A S : Occurrences(Each(op, k, n), S) =
                     IF Completion(op, k, "error") \in S THEN n ELSE 0
<1> DEFINE h == Completion(op, k, "error")
           s == Each(op, k, n)
<1>1. CASE n = 0
  <2>1. s = <<>>
    BY <1>1 DEF Each
  <2> HIDE DEF s
  <2>2. \A H : s \in Seq(H)
    BY <2>1, EmptySeq
  <2>3. \A S : Occurrences(s, S) = 0
    BY <2>1, OccurrencesOfNone
  <2>4. QED BY <1>1, <2>2, <2>3 DEF s
<1>2. CASE n = 1
  <2>1. s = <<h>>
    BY <1>2 DEF Each
  <2> HIDE DEF s, h
  <2>2. \A H : h \in H => s \in Seq(H)
    BY <2>1, OccurrencesOfOne
  <2>3. \A S : Occurrences(s, S) = IF h \in S THEN 1 ELSE 0
    <3>1. h \in {h}
      OBVIOUS
    <3>2. QED BY <2>1, <3>1, OccurrencesOfOne
  <2>4. QED BY <1>2, <2>2, <2>3 DEF s, h
<1>3. QED
  BY <1>1, <1>2

\* Closing the socket of k leaves one handler for each operation that ran, and
\* it carries an error.
CountsOf(aborted, H, running, k) ==
  /\ aborted \in Seq(H)
  /\ \A op \in Kind : \A j : Occurrences(aborted, HandlersOf(H, op, j)) =
                           IF j = k THEN running[op] ELSE 0
  /\ \A S : (\A op \in Kind : Completion(op, k, "error") \notin S) =>
              Occurrences(aborted, S) = 0

LEMMA AbortedOfCounted ==
  ASSUME NEW H, NEW k, NEW running \in [Kind -> 0..1],
         \A op \in Kind : running[op] # 0 => Completion(op, k, "error") \in H
  PROVE  CountsOf(AbortedOf(running, k), H, running, k)
<1> DEFINE a == Each("accept", k, running["accept"])
           b == Each("read", k, running["read"])
           d == Each("connect", k, running["connect"])
           e == Each("write", k, running["write"])
           Good(s, op) ==
             /\ s \in Seq(H)
             /\ \A S : Occurrences(s, S) =
                         IF Completion(op, k, "error") \in S THEN running[op] ELSE 0
<1>1. \A op \in Kind : running[op] \in 0..1
  OBVIOUS
<1>2. ASSUME NEW op \in Kind PROVE Good(Each(op, k, running[op]), op)
  <2>1. PICK n \in 0..1 : n = running[op]
    BY <1>1
  <2>2. Each(op, k, n) \in Seq(H)
    BY <2>1, CountsOfEach
  <2>3. \A S : Occurrences(Each(op, k, n), S) =
                 IF Completion(op, k, "error") \in S THEN n ELSE 0
    BY CountsOfEach
  <2>4. QED BY <2>1, <2>2, <2>3
<1>3. AbortedOf(running, k) = ((a \o b) \o d) \o e
  BY DEF AbortedOf, Each
<1>4. Kind = {"accept", "connect", "read", "write"}
  BY DEF Kind
<1> HIDE DEF Good
<1>5. Good(a, "accept") /\ Good(b, "read") /\ Good(d, "connect") /\ Good(e, "write")
  BY <1>2, <1>4
<1> HIDE DEF a, b, d, e
<1> DEFINE ab == a \o b
           abd == ab \o d
           all == abd \o e
<1>6. /\ a \in Seq(H) /\ b \in Seq(H) /\ d \in Seq(H) /\ e \in Seq(H)
      /\ ab \in Seq(H) /\ abd \in Seq(H) /\ all \in Seq(H)
  BY <1>5, ConcatProperties DEF Good
<1>7. ASSUME NEW S
      PROVE  Occurrences(all, S) =
               ((Occurrences(a, S) + Occurrences(b, S))
                 + Occurrences(d, S)) + Occurrences(e, S)
  <2>1. Occurrences(ab, S) = Occurrences(a, S) + Occurrences(b, S)
    BY <1>6, OccurrencesConcat
  <2> HIDE DEF ab
  <2>2. Occurrences(abd, S) = Occurrences(ab, S) + Occurrences(d, S)
    BY <1>6, OccurrencesConcat
  <2> HIDE DEF abd
  <2>3. Occurrences(all, S) = Occurrences(abd, S) + Occurrences(e, S)
    BY <1>6, OccurrencesConcat
  <2>4. QED BY <2>1, <2>2, <2>3
<1> HIDE DEF all
<1>8. ASSUME NEW o \in Kind, NEW j
      PROVE  Occurrences(all, HandlersOf(H, o, j)) = IF j = k THEN running[o] ELSE 0
  <2>1. PICK S : S = HandlersOf(H, o, j)
    OBVIOUS
  <2>2. ASSUME NEW op \in Kind
        PROVE  /\ Completion(op, k, "error") \in S => op = o /\ k = j
               /\ running[o] # 0 /\ op = o /\ k = j => Completion(op, k, "error") \in S
    BY <2>1 DEF HandlersOf, Completion
  <2>3. \A op \in Kind : (IF Completion(op, k, "error") \in S THEN running[op] ELSE 0)
                           = IF op = o /\ k = j THEN running[o] ELSE 0
    BY <2>2
  <2>4. /\ Occurrences(a, S) = IF o = "accept" /\ j = k THEN running[o] ELSE 0
        /\ Occurrences(b, S) = IF o = "read" /\ j = k THEN running[o] ELSE 0
        /\ Occurrences(d, S) = IF o = "connect" /\ j = k THEN running[o] ELSE 0
        /\ Occurrences(e, S) = IF o = "write" /\ j = k THEN running[o] ELSE 0
    BY <1>4, <1>5, <2>3 DEF Good
  <2>5. running[o] \in 0..1
    BY <1>1
  <2>6. o \in {"accept", "connect", "read", "write"}
    BY <1>4
  <2>7. Occurrences(all, S) = IF j = k THEN running[o] ELSE 0
    BY <1>7, <2>4, <2>5, <2>6
  <2>8. QED BY <2>1, <2>7
<1>9. ASSUME NEW S, \A op \in Kind : Completion(op, k, "error") \notin S
      PROVE  Occurrences(all, S) = 0
  <2>1. /\ Occurrences(a, S) = 0 /\ Occurrences(b, S) = 0
        /\ Occurrences(d, S) = 0 /\ Occurrences(e, S) = 0
    BY <1>4, <1>5, <1>9 DEF Good
  <2>2. QED BY <1>7, <2>1
<1>10. QED
  BY <1>3, <1>6, <1>8, <1>9 DEF CountsOf, all, abd, ab

\* The handlers that closing the socket of k leaves are of k and carry an error.
LEMMA AbortedOfAre ==
  ASSUME NEW k, NEW running \in [Kind -> 0..1]
  PROVE  \A h \in Range(AbortedOf(running, k)) :
           h.of = k /\ h.do \in Kind /\ h.do # "post" /\ h.ec = "error"
<1> DEFINE H == {Completion(op, k, "error") : op \in Kind}
<1>1. \A h \in H : h.of = k /\ h.do \in Kind /\ h.do # "post" /\ h.ec = "error"
  BY DEF Completion, Kind
<1>2. \A op \in Kind : Completion(op, k, "error") \in H
  OBVIOUS
<1> HIDE DEF H
<1>3. AbortedOf(running, k) \in Seq(H)
  BY <1>2, AbortedOfCounted DEF CountsOf
<1>4. \A h \in Range(AbortedOf(running, k)) : h \in H
  BY <1>3, RangeIsTyped
<1>5. QED
  BY <1>1, <1>4
=============================================================================
