---------------------------- MODULE ShellProofs -----------------------------
(***************************************************************************)
(* Proofs about Shell, for every line of any length: what split_args and   *)
(* is_ipv4 make of it, what is_int lets pass, and what the commands then   *)
(* do with what passed.  The loops of the code go once over the line, so   *)
(* each proof is an induction over the lines, which grow by a character,   *)
(* with what the loop knows as the invariant.                              *)
(***************************************************************************)
EXTENDS Shell, SequenceLemmas

-----------------------------------------------------------------------------
(* Parts, of a line that grows. *)

Inside(s, D) == DOMAIN s \ D
Firsts(s, D) == {i \in Inside(s, D) : i - 1 \notin Inside(s, D)}
Lasts(s, D) == {i \in Inside(s, D) : i + 1 \notin Inside(s, D)}
Places(s) == [i \in DOMAIN s |-> i]
From(s, D) == Kept(Places(s), Firsts(s, D))
To(s, D) == Kept(Places(s), Lasts(s, D))

LEMMA PartsAre ==
  ASSUME NEW s, NEW D
  PROVE  Parts(s, D) = [n \in DOMAIN From(s, D) |-> SubSeq(s, From(s, D)[n], To(s, D)[n])]
BY DEF Parts, From, To, Places, Firsts, Lasts, Inside

LEMMA Grown ==
  ASSUME NEW M, NEW s \in Seq(M), NEW e \in M
  PROVE  LET t == Append(s, e)
             n == Len(s)
         IN  /\ t \in Seq(M) /\ n \in Nat /\ Len(t) = n + 1
             /\ DOMAIN s = 1..n /\ DOMAIN t = 1..(n + 1)
             /\ \A i \in 1..n : t[i] = s[i]
             /\ t[n + 1] = e
             /\ Places(s) \in Seq(1..n) /\ Len(Places(s)) = n
             /\ Places(t) = Append(Places(s), n + 1)
<1> DEFINE t == Append(s, e)
           n == Len(s)
<1>1. /\ t \in Seq(M) /\ n \in Nat /\ Len(t) = n + 1
      /\ DOMAIN s = 1..n /\ DOMAIN t = 1..(n + 1)
      /\ \A i \in 1..n : t[i] = s[i]
      /\ t[n + 1] = e
  BY AppendProperties, LenProperties
<1> HIDE DEF t, n
<1>2. /\ Places(s) \in [1..n -> 1..n] /\ \A i \in 1..n : Places(s)[i] = i
      /\ Places(t) = [i \in 1..(n + 1) |-> i]
  BY <1>1 DEF Places
<1>3. Places(s) \in Seq(1..n) /\ Len(Places(s)) = n
  BY <1>1, <1>2
<1>4. Places(t) = Append(Places(s), n + 1)
  <2> DEFINE p == Append(Places(s), n + 1)
             q == [i \in 1..(n + 1) |-> i]
  <2>1. Places(s) \in Seq(Nat) /\ n + 1 \in Nat
    BY <1>1, <1>3, SeqMonotonic
  <2>2. /\ p \in Seq(Nat) /\ Len(p) = n + 1
        /\ \A i \in 1..n : p[i] = Places(s)[i]
        /\ p[n + 1] = n + 1
    BY <1>3, <2>1, AppendProperties
  <2>3. q \in Seq(Nat) /\ Len(q) = n + 1 /\ \A i \in 1..(n + 1) : q[i] = i
    BY <1>1
  <2> HIDE DEF p, q
  <2>4. \A i \in 1..Len(p) : p[i] = q[i]
    <3>1. \A i \in 1..(n + 1) : i \in 1..n \/ i = n + 1
      BY <1>1
    <3>2. QED BY <1>2, <2>2, <2>3, <3>1
  <2>5. p = q
    BY <2>2, <2>3, <2>4, SeqEqual
  <2>6. QED BY <1>2, <2>5 DEF p, q
<1>5. QED
  BY <1>1, <1>3, <1>4 DEF t, n

\* The last part of s, which ends where s does, is longer by one element in t.
LastGrows(s, t, D) ==
  \E ends \in Seq(1..Len(s)) :
    To(s, D) = Append(ends, Len(s)) /\ To(t, D) = Append(ends, Len(s) + 1)

\* The first and last places of the parts that s has, and those it gets with
\* one more element: none, if that one separates; a new part, if the one before
\* does; otherwise the last part ends one place later.
LEMMA PlacesOfParts ==
  ASSUME NEW M, NEW s \in Seq(M), NEW e \in M, NEW D
  PROVE  LET t == Append(s, e)
             n == Len(s)
             open == n # 0 /\ n \notin D
         IN  /\ From(s, D) \in Seq(1..n) /\ To(s, D) \in Seq(1..n)
             /\ n + 1 \in D => From(t, D) = From(s, D) /\ To(t, D) = To(s, D)
             /\ n + 1 \notin D /\ ~open =>
                  /\ From(t, D) = Append(From(s, D), n + 1)
                  /\ To(t, D) = Append(To(s, D), n + 1)
             /\ n + 1 \notin D /\ open => From(t, D) = From(s, D) /\ LastGrows(s, t, D)
<1> DEFINE t == Append(s, e)
           n == Len(s)
           p == Places(s)
           open == n # 0 /\ n \notin D
<1>1. /\ n \in Nat /\ DOMAIN s = 1..n /\ DOMAIN t = 1..(n + 1)
      /\ p \in Seq(1..n) /\ Places(t) = Append(p, n + 1) /\ Len(p) = n
      /\ p \in Seq(1..(n + 1)) /\ n + 1 \in 1..(n + 1)
  <2>1. /\ n \in Nat /\ DOMAIN s = 1..n /\ DOMAIN t = 1..(n + 1)
        /\ p \in Seq(1..n) /\ Places(t) = Append(p, n + 1) /\ Len(p) = n
    BY Grown
  <2>2. 1..n \subseteq 1..(n + 1) /\ n + 1 \in 1..(n + 1)
    BY <2>1
  <2> HIDE DEF n, p
  <2>3. p \in Seq(1..(n + 1))
    BY <2>1, <2>2, SeqMonotonic
  <2>4. QED BY <2>1, <2>2, <2>3
<1> HIDE DEF t, n, p
<1>2. /\ Inside(s, D) = (1..n) \ D
      /\ Inside(t, D) = (1..(n + 1)) \ D
  BY <1>1 DEF Inside
<1>3. ASSUME NEW S
      PROVE  /\ Kept(p, S) \in Seq(1..n)
             /\ Kept(Append(p, n + 1), S) =
                  IF n + 1 \in S THEN Append(Kept(p, S), n + 1) ELSE Kept(p, S)
  <2>1. Kept(p, S) \in Seq((1..n) \cap S)
    BY <1>1, KeptType
  <2>2. Kept(p, S) \in Seq(1..n)
    BY <2>1, SeqMonotonic
  <2>3. Kept(Append(p, n + 1), S) =
          IF n + 1 \in S THEN Append(Kept(p, S), n + 1) ELSE Kept(p, S)
    <3> DEFINE B == 1..(n + 1)
    <3>1. p \in Seq(B) /\ n + 1 \in B
      BY <1>1
    <3> HIDE DEF B
    <3>2. \A x \in B : Kept(Append(p, x), S) =
                         IF x \in S THEN Append(Kept(p, S), x) ELSE Kept(p, S)
      BY <3>1, KeptAppend
    <3>3. QED BY <3>1, <3>2
  <2>4. QED BY <2>2, <2>3
\* What is kept of the places depends on which of them are in the set.
<1> DEFINE A == 1..n
<1>4. ASSUME NEW S, NEW R, \A i \in A : i \in S <=> i \in R
      PROVE  Kept(p, S) = Kept(p, R)
  <2>1. p \in Seq(A)
    BY <1>1
  <2> HIDE DEF A
  <2>2. QED BY <1>4, <2>1, KeptSame
<1>5. From(s, D) \in Seq(1..n) /\ To(s, D) \in Seq(1..n)
  BY <1>3 DEF From, To, p
\* Nothing changes in front of the new place but that n may no longer be a last.
<1>6. \A i \in 1..n : i \in Firsts(s, D) <=> i \in Firsts(t, D)
  BY <1>1, <1>2 DEF Firsts
<1>7. n + 1 \in Firsts(t, D) <=> n + 1 \notin D /\ ~open
  BY <1>1, <1>2 DEF Firsts
<1>8. From(t, D) = IF n + 1 \notin D /\ ~open THEN Append(From(s, D), n + 1) ELSE From(s, D)
  <2>1. Kept(p, Firsts(s, D)) = Kept(p, Firsts(t, D))
    BY <1>6, <1>4
  <2>2. From(t, D) = IF n + 1 \in Firsts(t, D)
                     THEN Append(Kept(p, Firsts(t, D)), n + 1) ELSE Kept(p, Firsts(t, D))
    BY <1>1, <1>3 DEF From
  <2>3. QED BY <1>7, <2>1, <2>2 DEF From, p
<1>9. n + 1 \in Lasts(t, D) <=> n + 1 \notin D
  BY <1>1, <1>2 DEF Lasts
<1>10. To(t, D) = IF n + 1 \notin D
                 THEN Append(Kept(p, Lasts(t, D)), n + 1) ELSE Kept(p, Lasts(t, D))
  BY <1>1, <1>3, <1>9 DEF To
<1>11. CASE n + 1 \in D \/ ~open
  <2>1. \A i \in 1..n : i \in Lasts(s, D) <=> i \in Lasts(t, D)
    BY <1>1, <1>2, <1>11 DEF Lasts
  <2>2. Kept(p, Lasts(s, D)) = Kept(p, Lasts(t, D))
    BY <1>4, <2>1
  <2>3. QED BY <1>5, <1>8, <1>10, <1>11, <2>2 DEF To, p, n, t
<1>12. CASE n + 1 \notin D /\ open
  <2>1. s # <<>>
    <3>1. Len(s) # 0
      BY <1>12 DEF n
    <3>2. QED BY <3>1, EmptySeq, Zenon
  <2>2. PICK r \in Seq(M), f \in M : s = Append(r, f)
    BY <2>1, SequenceEmptyOrAppend
  <2> DEFINE q == Places(r)
             m == Len(r)
  <2>3. m \in Nat /\ n = m + 1 /\ q \in Seq(1..m) /\ p = Append(q, m + 1)
    <3>1. /\ m \in Nat /\ Len(Append(r, f)) = m + 1 /\ q \in Seq(1..m)
          /\ Places(Append(r, f)) = Append(q, m + 1)
      BY Grown
    <3>2. QED BY <2>2, <3>1 DEF n, p
  <2> HIDE DEF q, m
  <2>4. 1..m \subseteq 1..n /\ n \in 1..n /\ n \notin 1..m
    BY <2>3
  <2>5. q \in Seq(1..n)
    BY <2>3, <2>4, SeqMonotonic
  <2>6. \A S : Kept(p, S) = IF n \in S THEN Append(Kept(q, S), n) ELSE Kept(q, S)
    <3>1. q \in Seq(A) /\ n \in A /\ p = Append(q, n)
      BY <2>3, <2>4, <2>5
    <3> HIDE DEF A
    <3>2. QED BY <3>1, KeptAppend
  <2>7. \A i \in 1..m : i \in Lasts(s, D) <=> i \in Lasts(t, D)
    <3> SUFFICES ASSUME NEW i \in 1..m
                 PROVE  i \in Lasts(s, D) <=> i \in Lasts(t, D)
      OBVIOUS
    <3>1. /\ i \in Nat /\ i # n /\ i # n + 1
          /\ i \in 1..n /\ i \in 1..(n + 1) /\ i + 1 \in 1..n /\ i + 1 \in 1..(n + 1)
      BY <2>3
    <3>2. QED BY <1>1, <1>2, <3>1 DEF Lasts
  <2>8. n \in Lasts(s, D) /\ n \notin Lasts(t, D)
    BY <1>1, <1>2, <1>12 DEF Lasts
  <2> DEFINE ends == Kept(q, Lasts(s, D))
  <2>9. ends = Kept(q, Lasts(t, D))
    <3> DEFINE B == 1..m
    <3>1. q \in Seq(B) /\ \A i \in B : i \in Lasts(s, D) <=> i \in Lasts(t, D)
      BY <2>3, <2>7
    <3> HIDE DEF B
    <3>2. QED BY <3>1, KeptSame
  <2>10. ends \in Seq(1..n)
    <3>1. ends \in Seq((1..n) \cap Lasts(s, D))
      BY <2>5, KeptType
    <3>2. QED BY <3>1, SeqMonotonic
  <2>11. To(s, D) = Append(ends, n)
    BY <2>6, <2>8 DEF To, p
  <2>12. To(t, D) = Append(ends, n + 1)
    BY <1>10, <1>12, <2>6, <2>8, <2>9
  <2> HIDE DEF ends
  <2>13. LastGrows(s, t, D)
    BY <2>10, <2>11, <2>12 DEF n, LastGrows
  <2>14. QED BY <1>5, <1>8, <1>12, <2>13 DEF n, t
<1>13. QED
  BY <1>11, <1>12

LEMMA SubSeqInFront ==
  ASSUME NEW M, NEW s \in Seq(M), NEW e \in M, NEW a \in 1..Len(s), NEW b \in 1..Len(s)
  PROVE  SubSeq(Append(s, e), a, b) = SubSeq(s, a, b)
<1>1. <<e>> \in Seq(M) /\ Append(s, e) = s \o <<e>>
  BY OccurrencesOfOne, AppendIsConcat
<1>2. QED
  BY <1>1, SubSeqOfConcat1

LEMMA SubSeqAtEnd ==
  ASSUME NEW M, NEW s \in Seq(M), NEW e \in M
  PROVE  /\ \A a \in 1..Len(s) :
              SubSeq(Append(s, e), a, Len(s) + 1) = Append(SubSeq(s, a, Len(s)), e)
         /\ SubSeq(Append(s, e), Len(s) + 1, Len(s) + 1) = <<e>>
<1>1. Len(s) \in Nat
  BY LenProperties
<1>2. ASSUME NEW a \in 1..Len(s)
      PROVE  SubSeq(Append(s, e), a, Len(s) + 1) = Append(SubSeq(s, a, Len(s)), e)
  <2>1. a - 1 \in 0..Len(s) /\ (a - 1) + 1 = a
    BY <1>1
  <2>2. SubSeq(Append(s, e), (a - 1) + 1, Len(s) + 1) =
          Append(SubSeq(s, (a - 1) + 1, Len(s)), e)
    BY <2>1, SubSeqAppend
  <2>3. QED BY <2>1, <2>2
<1>3. SubSeq(Append(s, e), Len(s) + 1, Len(s) + 1) = Append(SubSeq(s, Len(s) + 1, Len(s)), e)
  <2>1. Len(s) \in 0..Len(s)
    BY <1>1
  <2>2. QED BY <2>1, SubSeqAppend
<1>4. SubSeq(s, Len(s) + 1, Len(s)) = <<>>
  BY <1>1, SubSeqEmpty
<1>5. Append(<<>>, e) = <<e>>
  OBVIOUS
<1>6. QED
  BY <1>2, <1>3, <1>4, <1>5

\* As many parts end as begin.
LEMMA PlacesBalanced ==
  ASSUME NEW M, NEW s \in Seq(M), NEW D
  PROVE  /\ From(s, D) \in Seq(1..Len(s)) /\ To(s, D) \in Seq(1..Len(s))
         /\ Len(From(s, D)) \in Nat
         /\ Len(To(s, D)) = Len(From(s, D))
<1> DEFINE Good(r) == /\ From(r, D) \in Seq(1..Len(r)) /\ To(r, D) \in Seq(1..Len(r))
                      /\ Len(To(r, D)) = Len(From(r, D))
           T == {r \in Seq(M) : Good(r)}
<1>1. <<>> \in T
  <2>1. <<>> \in Seq(M) /\ <<>> \in Seq(1..Len(<<>>)) /\ Places(<<>>) = <<>>
    BY EmptySeq DEF Places
  <2>2. From(<<>>, D) = <<>> /\ To(<<>>, D) = <<>>
    BY <2>1, KeptEmpty DEF From, To
  <2>3. QED BY <2>1, <2>2
<1>2. ASSUME NEW r \in T, NEW e \in M PROVE Append(r, e) \in T
  <2> DEFINE t == Append(r, e)
             n == Len(r)
  <2>1. r \in Seq(M) /\ Good(r)
    BY <1>2
  <2>2. t \in Seq(M) /\ Len(t) = n + 1 /\ n \in Nat
    BY <2>1, Grown
  <2>3. 1..n \subseteq 1..(n + 1) /\ n + 1 \in 1..(n + 1)
    BY <2>2
  <2> DEFINE open == n # 0 /\ n \notin D
  <2>4. /\ n + 1 \in D => From(t, D) = From(r, D) /\ To(t, D) = To(r, D)
        /\ n + 1 \notin D /\ ~open =>
             From(t, D) = Append(From(r, D), n + 1) /\ To(t, D) = Append(To(r, D), n + 1)
        /\ n + 1 \notin D /\ open => From(t, D) = From(r, D) /\ LastGrows(r, t, D)
    BY <2>1, PlacesOfParts
  <2> HIDE DEF t, open
  <2> DEFINE A == 1..n
             B == 1..(n + 1)
  <2>5. n + 1 \in B /\ A \subseteq B /\ From(r, D) \in Seq(A) /\ To(r, D) \in Seq(A)
        /\ Len(To(r, D)) = Len(From(r, D))
    BY <2>1, <2>3
  <2>6. open => n \in A
    BY <2>2 DEF open
  <2>7. Seq(1..Len(t)) = Seq(B)
    BY <2>2
  <2>8. n + 1 \notin D /\ open =>
          \E ends \in Seq(A) : To(r, D) = Append(ends, n) /\ To(t, D) = Append(ends, n + 1)
    BY <2>4 DEF LastGrows
  <2> HIDE DEF A, B
  <2>9. From(r, D) \in Seq(B) /\ To(r, D) \in Seq(B)
    BY <2>5, SeqMonotonic
  <2>10. From(t, D) \in Seq(B) /\ To(t, D) \in Seq(B) /\ Len(To(t, D)) = Len(From(t, D))
    <3>1. CASE n + 1 \in D
      BY <2>4, <2>5, <2>9, <3>1
    <3>2. CASE n + 1 \notin D /\ ~open
      <4>1. From(t, D) = Append(From(r, D), n + 1) /\ To(t, D) = Append(To(r, D), n + 1)
        BY <2>4, <3>2
      <4> HIDE DEF n
      <4>2. /\ Append(From(r, D), n + 1) \in Seq(B)
            /\ Len(Append(From(r, D), n + 1)) = Len(From(r, D)) + 1
        BY <2>5, <2>9, AppendProperties
      <4>3. /\ Append(To(r, D), n + 1) \in Seq(B)
            /\ Len(Append(To(r, D), n + 1)) = Len(To(r, D)) + 1
        BY <2>5, <2>9, AppendProperties
      <4>4. QED BY <2>5, <4>1, <4>2, <4>3
    <3>3. CASE n + 1 \notin D /\ open
      <4>1. PICK ends \in Seq(A) : To(r, D) = Append(ends, n) /\ To(t, D) = Append(ends, n + 1)
        BY <2>8, <3>3
      <4>2. ends \in Seq(B)
        BY <2>5, <4>1, SeqMonotonic
      <4>3. Len(Append(ends, n)) = Len(ends) + 1
        BY <2>6, <3>3, AppendProperties
      <4>4. Append(ends, n + 1) \in Seq(B) /\ Len(Append(ends, n + 1)) = Len(ends) + 1
        BY <2>5, <4>2, AppendProperties
      <4>5. From(t, D) = From(r, D)
        BY <2>4, <3>3
      <4>6. QED BY <2>5, <2>9, <4>1, <4>3, <4>4, <4>5
    <3>4. QED BY <3>1, <3>2, <3>3
  <2>11. Good(t)
    BY <2>7, <2>10
  <2> HIDE DEF Good
  <2>12. t \in T
    BY <2>2, <2>11
  <2>13. QED BY <2>12 DEF t
<1>3. T \subseteq Seq(M)
  OBVIOUS
<1> HIDE DEF T
<1>4. T = Seq(M)
  BY <1>1, <1>2, <1>3, SeqInduct
<1>5. Good(s)
  BY <1>4 DEF T
<1>6. QED
  BY <1>5, LenProperties

LEMMA MadeOf ==
  ASSUME NEW S, NEW k \in Nat, NEW p \in [1..k -> S]
  PROVE  p \in Seq(S) /\ Len(p) = k
OBVIOUS

\* The elements of p are what s has between the places in f and those in t.
Between(p, s, f, t) ==
  Len(p) = Len(f) /\ \A i \in 1..Len(f) : p[i] = SubSeq(s, f[i], t[i])

LEMMA PartsTyped ==
  ASSUME NEW M, NEW s \in Seq(M), NEW D
  PROVE  /\ Parts(s, D) \in Seq(Seq(M))
         /\ Between(Parts(s, D), s, From(s, D), To(s, D))
         /\ \A i \in 1..Len(From(s, D)) :
              From(s, D)[i] \in 1..Len(s) /\ To(s, D)[i] \in 1..Len(s)
<1> DEFINE f == From(s, D)
           t == To(s, D)
           k == Len(f)
<1>1. f \in Seq(1..Len(s)) /\ t \in Seq(1..Len(s)) /\ k \in Nat /\ Len(t) = k
  BY PlacesBalanced
<1> HIDE DEF f, t
<1>2. DOMAIN f = 1..k
  BY <1>1, LenProperties
<1>3. ASSUME NEW i \in 1..k
      PROVE  f[i] \in 1..Len(s) /\ t[i] \in 1..Len(s) /\ SubSeq(s, f[i], t[i]) \in Seq(M)
  <2>1. f[i] \in 1..Len(s) /\ t[i] \in 1..Len(s)
    BY <1>1, ElementOfSeq
  <2>2. \A j \in f[i]..t[i] : s[j] \in M
    <3>1. \A j \in f[i]..t[i] : j \in 1..Len(s)
      BY <2>1, LenProperties
    <3>2. QED BY <3>1, ElementOfSeq
  <2>3. f[i] \in Int /\ t[i] \in Int
    BY <2>1
  <2>4. QED BY <2>1, <2>2, <2>3, SubSeqProperties
<1> DEFINE p == [n \in 1..k |-> SubSeq(s, f[n], t[n])]
<1>4. Parts(s, D) = p
  BY <1>2, PartsAre DEF f, t
<1>5. p \in [1..k -> Seq(M)] /\ \A n \in 1..k : p[n] = SubSeq(s, f[n], t[n])
  BY <1>3
<1> HIDE DEF p
<1>6. p \in Seq(Seq(M)) /\ Len(p) = k
  <2>1. PICK S : S = Seq(M)
    OBVIOUS
  <2>2. p \in [1..k -> S]
    BY <1>5, <2>1
  <2>3. p \in Seq(S) /\ Len(p) = k
    BY <1>1, <2>2, MadeOf
  <2>4. QED BY <2>1, <2>3
<1>7. QED
  BY <1>3, <1>4, <1>5, <1>6 DEF f, t, Between

\* An element that separates ends the last part, if there is one.
LEMMA PartsSeparated ==
  ASSUME NEW M, NEW s \in Seq(M), NEW e \in M, NEW D, Len(s) + 1 \in D
  PROVE  Parts(Append(s, e), D) = Parts(s, D)
<1> DEFINE t == Append(s, e)
           k == Len(From(s, D))
<1>1. t \in Seq(M)
  BY Grown
<1>2. From(t, D) = From(s, D) /\ To(t, D) = To(s, D)
  BY PlacesOfParts
<1>3. /\ Parts(s, D) \in Seq(Seq(M)) /\ Len(Parts(s, D)) = k
      /\ \A i \in 1..k :
           /\ Parts(s, D)[i] = SubSeq(s, From(s, D)[i], To(s, D)[i])
           /\ From(s, D)[i] \in 1..Len(s) /\ To(s, D)[i] \in 1..Len(s)
  BY PartsTyped DEF Between
<1> HIDE DEF t
<1>4. /\ Parts(t, D) \in Seq(Seq(M)) /\ Len(Parts(t, D)) = k
      /\ \A i \in 1..k : Parts(t, D)[i] = SubSeq(t, From(s, D)[i], To(s, D)[i])
  <2>1. Parts(t, D) \in Seq(Seq(M)) /\ Between(Parts(t, D), t, From(t, D), To(t, D))
    BY <1>1, PartsTyped
  <2>2. QED BY <1>2, <2>1 DEF Between
<1>5. \A i \in 1..k : Parts(t, D)[i] = Parts(s, D)[i]
  BY <1>3, <1>4, SubSeqInFront DEF t
<1>6. Parts(t, D) = Parts(s, D)
  BY <1>3, <1>4, <1>5, SeqEqual
<1>7. QED
  BY <1>6 DEF t

\* An element behind one that separates, or the first, begins a part.
LEMMA PartsBegun ==
  ASSUME NEW M, NEW s \in Seq(M), NEW e \in M, NEW D, Len(s) + 1 \notin D,
         Len(s) = 0 \/ Len(s) \in D
  PROVE  Parts(Append(s, e), D) = Append(Parts(s, D), <<e>>)
<1> DEFINE t == Append(s, e)
           n == Len(s)
           f == From(s, D)
           g == To(s, D)
           k == Len(f)
           u == Append(Parts(s, D), <<e>>)
<1>1. t \in Seq(M) /\ n \in Nat /\ Len(t) = n + 1
  BY Grown
<1>2. From(t, D) = Append(f, n + 1) /\ To(t, D) = Append(g, n + 1)
  BY PlacesOfParts
<1>3. /\ Parts(s, D) \in Seq(Seq(M)) /\ Len(Parts(s, D)) = k
      /\ \A i \in 1..k :
           /\ Parts(s, D)[i] = SubSeq(s, f[i], g[i])
           /\ f[i] \in 1..n /\ g[i] \in 1..n
  BY PartsTyped DEF Between
<1>4. /\ k \in Nat /\ Len(g) = k /\ f \in Seq(Nat) /\ g \in Seq(Nat)
  <2>1. f \in Seq(1..n) /\ g \in Seq(1..n) /\ k \in Nat /\ Len(g) = k
    BY PlacesBalanced
  <2>2. 1..n \subseteq Nat
    BY <1>1
  <2> HIDE DEF f, g
  <2>3. f \in Seq(Nat) /\ g \in Seq(Nat)
    BY <2>1, <2>2, SeqMonotonic
  <2>4. QED BY <2>1, <2>3
<1> HIDE DEF f, g
<1>5. /\ Len(Append(f, n + 1)) = k + 1
      /\ \A i \in 1..k : Append(f, n + 1)[i] = f[i]
      /\ Append(f, n + 1)[k + 1] = n + 1
  <2>1. n + 1 \in Nat
    BY <1>1
  <2>2. QED BY <1>4, <2>1, AppendProperties
<1>6. /\ \A i \in 1..k : Append(g, n + 1)[i] = g[i]
      /\ Append(g, n + 1)[k + 1] = n + 1
  <2>1. n + 1 \in Nat
    BY <1>1
  <2>2. QED BY <1>4, <2>1, AppendProperties
<1>7. u \in Seq(Seq(M)) /\ Len(u) = k + 1
      /\ (\A i \in 1..k : u[i] = Parts(s, D)[i]) /\ u[k + 1] = <<e>>
  <2>1. <<e>> \in Seq(M)
    BY OccurrencesOfOne
  <2>2. QED BY <1>3, <2>1, AppendProperties
<1>8. SubSeq(t, n + 1, n + 1) = <<e>>
  BY SubSeqAtEnd
<1>9. \A i \in 1..k : SubSeq(t, f[i], g[i]) = Parts(s, D)[i]
  BY <1>3, SubSeqInFront
<1> HIDE DEF t, u, n
<1>10. /\ Parts(t, D) \in Seq(Seq(M)) /\ Len(Parts(t, D)) = k + 1
       /\ \A i \in 1..(k + 1) :
            Parts(t, D)[i] = SubSeq(t, Append(f, n + 1)[i], Append(g, n + 1)[i])
  <2>1. Parts(t, D) \in Seq(Seq(M)) /\ Between(Parts(t, D), t, From(t, D), To(t, D))
    BY <1>1, PartsTyped
  <2>2. QED BY <1>2, <1>5, <2>1 DEF Between
<1>11. \A i \in 1..(k + 1) : Parts(t, D)[i] = u[i]
  <2>1. ASSUME NEW i \in 1..k PROVE Parts(t, D)[i] = u[i]
    <3>1. i \in 1..(k + 1)
      BY <1>4
    <3>2. Parts(t, D)[i] = SubSeq(t, f[i], g[i])
      BY <1>5, <1>6, <1>10, <3>1
    <3>3. QED BY <1>7, <1>9, <3>2
  <2>2. Parts(t, D)[k + 1] = u[k + 1]
    <3>1. k + 1 \in 1..(k + 1)
      BY <1>4
    <3>2. QED BY <1>5, <1>6, <1>7, <1>8, <1>10, <3>1
  <2>3. \A i \in 1..(k + 1) : i \in 1..k \/ i = k + 1
    BY <1>4
  <2>4. QED BY <2>1, <2>2, <2>3
<1>12. Parts(t, D) = u
  BY <1>7, <1>10, <1>11, SeqEqual
<1>13. QED
  BY <1>12 DEF t, u

\* q is p with the last part longer by e.
Longer(M, p, q, e) ==
  \E words \in Seq(Seq(M)), w \in Seq(M) :
    p = Append(words, w) /\ q = Append(words, Append(w, e))

\* Any other element makes the last part longer.
LEMMA PartsContinued ==
  ASSUME NEW M, NEW s \in Seq(M), NEW e \in M, NEW D, Len(s) + 1 \notin D,
         Len(s) # 0, Len(s) \notin D
  PROVE  Longer(M, Parts(s, D), Parts(Append(s, e), D), e)
<1> DEFINE t == Append(s, e)
           n == Len(s)
           f == From(s, D)
           g == To(s, D)
           k == Len(f)
<1>1. t \in Seq(M) /\ n \in Nat /\ Len(t) = n + 1
  BY Grown
<1>2. From(t, D) = f /\ LastGrows(s, t, D)
  BY PlacesOfParts
<1>3. PICK ends \in Seq(1..n) : g = Append(ends, n) /\ To(t, D) = Append(ends, n + 1)
  BY <1>2 DEF LastGrows
<1>4. /\ Parts(s, D) \in Seq(Seq(M)) /\ Len(Parts(s, D)) = k
      /\ \A i \in 1..k :
           /\ Parts(s, D)[i] = SubSeq(s, f[i], g[i])
           /\ f[i] \in 1..n /\ g[i] \in 1..n
  BY PartsTyped DEF Between
<1>5. k \in Nat /\ Len(g) = k
  BY PlacesBalanced
<1> DEFINE m == Len(ends)
<1>6. /\ m \in Nat /\ k = m + 1
      /\ \A i \in 1..m : Append(ends, n)[i] = ends[i] /\ Append(ends, n + 1)[i] = ends[i]
      /\ Append(ends, n)[k] = n /\ Append(ends, n + 1)[k] = n + 1
  <2>1. 1..n \subseteq Nat /\ n \in Nat /\ n + 1 \in Nat
    BY <1>1
  <2> DEFINE A == 1..n
  <2>2. ends \in Seq(A) /\ A \subseteq Nat
    BY <1>3, <2>1
  <2> HIDE DEF A
  <2>3. ends \in Seq(Nat) /\ m \in Nat
    BY <2>2, SeqMonotonic, LenProperties
  <2> HIDE DEF f, g, k, n
  <2>4. /\ Len(Append(ends, n)) = m + 1 /\ Append(ends, n)[m + 1] = n
        /\ \A i \in 1..m : Append(ends, n)[i] = ends[i]
    BY <2>1, <2>3, AppendProperties
  <2>5. /\ Append(ends, n + 1)[m + 1] = n + 1
        /\ \A i \in 1..m : Append(ends, n + 1)[i] = ends[i]
    BY <2>1, <2>3, AppendProperties
  <2>6. k = m + 1
    BY <1>3, <1>5, <2>4
  <2>7. QED BY <2>3, <2>4, <2>5, <2>6
<1> HIDE DEF f, g, k, m
<1>7. Parts(s, D) # <<>>
  <2>1. Len(Parts(s, D)) # 0
    BY <1>4, <1>6
  <2>2. QED BY <1>4, <2>1, EmptySeq, Zenon
<1>8. PICK words \in Seq(Seq(M)), w \in Seq(M) : Parts(s, D) = Append(words, w)
  BY <1>4, <1>7, SequenceEmptyOrAppend
<1>9. /\ Len(words) = m /\ \A i \in 1..m : words[i] = Parts(s, D)[i]
      /\ w = Parts(s, D)[k]
  <2>1. /\ Len(Append(words, w)) = Len(words) + 1 /\ Len(words) \in Nat
        /\ \A i \in 1..Len(words) : Append(words, w)[i] = words[i]
        /\ Append(words, w)[Len(words) + 1] = w
    BY <1>8, AppendProperties, LenProperties
  <2>2. Len(words) = m
    BY <1>4, <1>6, <1>8, <2>1
  <2>3. QED BY <1>6, <1>8, <2>1, <2>2
<1> DEFINE u == Append(words, Append(w, e))
<1>10. /\ u \in Seq(Seq(M)) /\ Len(u) = k
       /\ \A i \in 1..m : u[i] = words[i]
       /\ u[k] = Append(w, e)
  <2>1. Append(w, e) \in Seq(M)
    BY <1>8, AppendProperties
  <2>2. /\ u \in Seq(Seq(M)) /\ Len(u) = Len(words) + 1
        /\ \A i \in 1..Len(words) : u[i] = words[i]
        /\ u[Len(words) + 1] = Append(w, e)
    BY <1>8, <2>1, AppendProperties
  <2>3. QED BY <1>6, <1>9, <2>2
<1>11. k \in 1..k /\ \A i \in 1..k : i \in 1..m \/ i = k
  BY <1>6
<1>12. f[k] \in 1..n /\ w = SubSeq(s, f[k], n)
  <2>1. g[k] = n
    BY <1>3, <1>6
  <2>2. QED BY <1>4, <1>9, <1>11, <2>1
<1>13. SubSeq(t, f[k], n + 1) = Append(w, e)
  BY <1>12, SubSeqAtEnd
<1>14. \A i \in 1..m : SubSeq(t, f[i], ends[i]) = words[i]
  <2>1. ASSUME NEW i \in 1..m PROVE SubSeq(t, f[i], ends[i]) = words[i]
    <3>1. i \in 1..k /\ g[i] = ends[i]
      BY <1>3, <1>6
    <3>2. words[i] = SubSeq(s, f[i], ends[i]) /\ f[i] \in 1..n /\ ends[i] \in 1..n
      BY <1>4, <1>9, <3>1
    <3>3. QED BY <3>2, SubSeqInFront
  <2>2. QED BY <2>1
<1> HIDE DEF t, u, n
<1>15. /\ Parts(t, D) \in Seq(Seq(M)) /\ Len(Parts(t, D)) = k
       /\ \A i \in 1..k : Parts(t, D)[i] = SubSeq(t, f[i], Append(ends, n + 1)[i])
  <2>1. Parts(t, D) \in Seq(Seq(M)) /\ Between(Parts(t, D), t, From(t, D), To(t, D))
    BY <1>1, PartsTyped
  <2>2. QED BY <1>2, <1>3, <2>1 DEF Between, k
<1>16. \A i \in 1..k : Parts(t, D)[i] = u[i]
  <2>1. ASSUME NEW i \in 1..m PROVE Parts(t, D)[i] = u[i]
    <3>1. i \in 1..k
      BY <1>6
    <3>2. QED BY <1>6, <1>10, <1>14, <1>15, <3>1
  <2>2. Parts(t, D)[k] = u[k]
    BY <1>6, <1>10, <1>11, <1>13, <1>15
  <2>3. QED BY <1>11, <2>1, <2>2
<1>17. Parts(t, D) = u
  BY <1>10, <1>15, <1>16, SeqEqual
<1>18. QED
  BY <1>8, <1>17 DEF t, u, Longer

\* The last part of s is still growing.
Open(s, D) == Len(s) # 0 /\ Len(s) \notin D

\* An element that does not separate goes to the end of word, which is the last
\* part or the beginning of a new one, behind words.
Before(parts, open, words, word) ==
  IF open THEN parts = Append(words, word) ELSE words = parts /\ word = <<>>

Extended(M, p, q, open, e) ==
  \E words \in Seq(Seq(M)), word \in Seq(M) :
    Before(p, open, words, word) /\ q = Append(words, Append(word, e))

LEMMA PartsExtended ==
  ASSUME NEW M, NEW s \in Seq(M), NEW e \in M, NEW D, Len(s) + 1 \notin D
  PROVE  Extended(M, Parts(s, D), Parts(Append(s, e), D), Open(s, D), e)
<1>1. CASE Open(s, D)
  <2>1. Len(s) # 0 /\ Len(s) \notin D
    BY <1>1 DEF Open
  <2>2. PICK words \in Seq(Seq(M)), word \in Seq(M) :
          /\ Parts(s, D) = Append(words, word)
          /\ Parts(Append(s, e), D) = Append(words, Append(word, e))
    <3>1. Longer(M, Parts(s, D), Parts(Append(s, e), D), e)
      BY <2>1, PartsContinued
    <3>2. QED BY <3>1 DEF Longer
  <2>3. Before(Parts(s, D), Open(s, D), words, word)
    BY <1>1, <2>2 DEF Before
  <2>4. QED BY <2>2, <2>3 DEF Extended
<1>2. CASE ~Open(s, D)
  <2>1. Parts(Append(s, e), D) = Append(Parts(s, D), <<e>>)
    BY <1>2, PartsBegun DEF Open
  <2>2. Parts(s, D) \in Seq(Seq(M)) /\ <<>> \in Seq(M)
    BY PartsTyped, EmptySeq
  <2>3. Append(<<>>, e) = <<e>>
    OBVIOUS
  <2>4. Before(Parts(s, D), Open(s, D), Parts(s, D), <<>>)
    BY <1>2 DEF Before
  <2>5. QED BY <2>1, <2>2, <2>3, <2>4 DEF Extended
<1>3. QED
  BY <1>1, <1>2

LEMMA PartsSame ==
  ASSUME NEW s, NEW D, NEW E, \A i \in DOMAIN s : i \in D <=> i \in E
  PROVE  Parts(s, D) = Parts(s, E)
<1>1. DOMAIN s \ D = DOMAIN s \ E
  OBVIOUS
<1>2. QED
  BY <1>1, Zenon DEF Parts

LEMMA PartsOfNone ==
  ASSUME NEW D
  PROVE  Parts(<<>>, D) = <<>>
<1>1. PICK s \in Seq({}) : s = <<>>
  BY EmptySeq
<1>2. Parts(s, D) \in Seq(Seq({})) /\ Between(Parts(s, D), s, From(s, D), To(s, D))
  BY PartsTyped
<1>3. From(s, D) = <<>>
  <2>1. Places(s) = <<>>
    BY <1>1 DEF Places
  <2>2. QED BY <2>1, KeptEmpty DEF From
<1>4. Len(Parts(s, D)) = 0
  BY <1>2, <1>3 DEF Between
<1>5. QED
  BY <1>1, <1>2, <1>4, EmptySeq, Zenon

-----------------------------------------------------------------------------
(* split_args. *)

Word == Seq(Char)

Scanning(line) ==
  Folded([s \in Scan |-> [ch \in Char |-> Scanned(s, ch)]], Unscanned, line)

Unquoted(parts) == [i \in DOMAIN parts |-> Without(parts[i], QUOTE)]

LEMMA WithoutType ==
  ASSUME NEW w \in Word, NEW ch
  PROVE  Without(w, ch) \in Word
<1>1. Without(w, ch) \in Seq(Char \cap (Char \ {ch}))
  BY KeptType DEF Without, Word
<1>2. Char \cap (Char \ {ch}) \subseteq Char
  OBVIOUS
<1>3. QED
  BY <1>1, <1>2, SeqMonotonic DEF Word

LEMMA WithoutAppend ==
  ASSUME NEW w \in Word, NEW e \in Char, NEW ch
  PROVE  Without(Append(w, e), ch) =
           IF e = ch THEN Without(w, ch) ELSE Append(Without(w, ch), e)
<1>1. PICK S : S = Char \ {ch}
  OBVIOUS
<1>2. PICK M : M = Char
  OBVIOUS
<1>3. w \in Seq(M) /\ e \in M
  BY <1>2 DEF Word
<1>4. Kept(Append(w, e), S) = IF e \in S THEN Append(Kept(w, S), e) ELSE Kept(w, S)
  BY <1>3, KeptAppend
<1>5. \A x : Without(x, ch) = Kept(x, S)
  BY <1>1 DEF Without
<1>6. e \in S <=> e # ch
  BY <1>1
<1>7. QED
  BY <1>4, <1>5, <1>6

LEMMA UnquotedAppend ==
  ASSUME NEW parts \in Seq(Word), NEW w \in Word
  PROVE  /\ Unquoted(parts) \in Seq(Word)
         /\ Unquoted(Append(parts, w)) = Append(Unquoted(parts), Without(w, QUOTE))
<1> DEFINE n == Len(parts)
           p == Append(parts, w)
           q == Unquoted(p)
           u == Unquoted(parts)
           v == Without(w, QUOTE)
           r == Append(u, v)
<1>1. \A x \in Word : Without(x, QUOTE) \in Word
  BY WithoutType
<1>2. /\ n \in Nat /\ DOMAIN parts = 1..n /\ p \in Seq(Word) /\ DOMAIN p = 1..(n + 1)
      /\ (\A i \in 1..n : p[i] = parts[i]) /\ p[n + 1] = w
      /\ \A i \in 1..n : parts[i] \in Word
  BY AppendProperties, LenProperties, ElementOfSeq
<1> HIDE DEF n, p
<1>3. ASSUME NEW k \in Nat, NEW s, DOMAIN s = 1..k, \A i \in 1..k : s[i] \in Word
      PROVE  /\ Unquoted(s) \in Seq(Word) /\ Len(Unquoted(s)) = k
             /\ \A i \in 1..k : Unquoted(s)[i] = Without(s[i], QUOTE)
  <2>1. /\ Unquoted(s) \in [1..k -> Word]
        /\ \A i \in 1..k : Unquoted(s)[i] = Without(s[i], QUOTE)
    BY <1>1, <1>3 DEF Unquoted
  <2>2. QED BY <2>1, MadeOf
<1>4. u \in Seq(Word) /\ Len(u) = n /\ \A i \in 1..n : u[i] = Without(parts[i], QUOTE)
  BY <1>2, <1>3
<1>5. /\ q \in Seq(Word) /\ Len(q) = n + 1
      /\ \A i \in 1..(n + 1) : q[i] = Without(p[i], QUOTE)
  <2>1. \A i \in 1..(n + 1) : i \in 1..n \/ i = n + 1
    BY <1>2
  <2>2. \A i \in 1..(n + 1) : p[i] \in Word
    BY <1>2, <2>1
  <2>3. n + 1 \in Nat
    BY <1>2
  <2>4. QED BY <1>2, <1>3, <2>2, <2>3
<1>6. v \in Word
  BY <1>1
<1> HIDE DEF u, q, v
<1>7. r \in Seq(Word) /\ Len(r) = n + 1 /\ (\A i \in 1..n : r[i] = u[i]) /\ r[n + 1] = v
  BY <1>4, <1>6, AppendProperties
<1> HIDE DEF r
<1>8. \A i \in 1..Len(q) : q[i] = r[i]
  <2>1. \A i \in 1..(n + 1) : i \in 1..n \/ i = n + 1
    BY <1>2
  <2>2. \A i \in 1..n : q[i] = r[i]
    BY <1>2, <1>4, <1>5, <1>7
  <2>3. q[n + 1] = r[n + 1]
    BY <1>2, <1>5, <1>7 DEF v
  <2>4. QED BY <1>5, <2>1, <2>2, <2>3
<1>9. q = r
  BY <1>5, <1>7, <1>8, SeqEqual
<1>10. QED
  BY <1>4, <1>9 DEF u, q, r, v, p

LEMMA UnquotedNone == Unquoted(<<>>) = <<>>
BY DEF Unquoted

\* One character of the loop, case by case.
LEMMA ScannedType ==
  ASSUME NEW s \in Scan, NEW ch \in Char
  PROVE  Scanned(s, ch) \in Scan
<1> DEFINE W == Seq(Char)
<1>1. /\ s.cur_arg \in W /\ s.arguments \in Seq(W)
      /\ s = [is_inside_quote |-> s.is_inside_quote, arguments |-> s.arguments,
              cur_arg |-> s.cur_arg, before |-> s.before, threw |-> s.threw]
      /\ s.is_inside_quote \in BOOLEAN /\ s.threw \in BOOLEAN
  BY DEF Scan
<1>2. /\ <<ch>> \in W /\ <<>> \in W /\ Append(s.cur_arg, ch) \in W
  BY <1>1, OccurrencesOfOne, EmptySeq, AppendProperties
<1>3. Append(s.arguments, s.cur_arg) \in Seq(W)
  <2> HIDE DEF W
  <2>1. QED BY <1>1, AppendProperties
<1>4. Scan = [is_inside_quote : BOOLEAN, arguments : Seq(W), cur_arg : W, before : W,
              threw : BOOLEAN]
  BY DEF Scan
<1> HIDE DEF W
<1>5. QED
  BY <1>1, <1>2, <1>3, <1>4 DEF Scanned, is_inside_quote

\* e at the end of t gives u.
Grows(M, t, e, u) ==
  /\ Len(t) \in Nat /\ DOMAIN t = 1..Len(t) /\ (t = <<>> <=> Len(t) = 0)
  /\ u \in Seq(M) /\ u # <<>> /\ Len(u) = Len(t) + 1 /\ DOMAIN u = 1..(Len(t) + 1)
  /\ (\A i \in 1..Len(t) : u[i] = t[i]) /\ u[Len(t) + 1] = e

LEMMA SeqGrown ==
  ASSUME NEW M, NEW t \in Seq(M), NEW e \in M
  PROVE  Grows(M, t, e, Append(t, e))
<1>1. Len(t) \in Nat /\ DOMAIN t = 1..Len(t) /\ (t = <<>> <=> Len(t) = 0)
  BY LenProperties, EmptySeq
<1>2. /\ Append(t, e) \in Seq(M) /\ Append(t, e) # <<>>
      /\ Len(Append(t, e)) = Len(t) + 1
      /\ \A i \in 1..Len(t) : Append(t, e)[i] = t[i]
      /\ Append(t, e)[Len(t) + 1] = e
  BY AppendProperties
<1>3. DOMAIN Append(t, e) = 1..(Len(t) + 1)
  BY <1>2, LenProperties
<1>4. QED
  BY <1>1, <1>2, <1>3 DEF Grows

LEMMA LineGrown ==
  ASSUME NEW t \in Word, NEW e \in Char
  PROVE  Grows(Char, t, e, Append(t, e))
<1>1. PICK M : M = Char
  OBVIOUS
<1>2. t \in Seq(M) /\ e \in M
  BY <1>1 DEF Word
<1>3. Grows(M, t, e, Append(t, e))
  BY <1>2, SeqGrown
<1>4. QED
  BY <1>1, <1>3

LEMMA CharsCounted ==
  ASSUME NEW t \in Word, NEW e \in Char, NEW ch
  PROVE  /\ Occurrences(t, {ch}) \in Nat
         /\ Occurrences(Append(t, e), {ch}) = Occurrences(t, {ch}) + IF e = ch THEN 1 ELSE 0
<1>1. PICK M : M = Char
  OBVIOUS
<1>2. t \in Seq(M) /\ e \in M
  BY <1>1 DEF Word
<1>3. PICK S : S = {ch}
  OBVIOUS
<1>4. /\ Occurrences(t, S) \in Nat
      /\ Occurrences(Append(t, e), S) = Occurrences(t, S) + IF e \in S THEN 1 ELSE 0
  BY <1>2, OccurrencesType, OccurrencesAppend
<1>5. QED
  BY <1>3, <1>4

LEMMA ScanningGrows ==
  ASSUME NEW t \in Word, NEW e \in Char, Scanning(t) \in Scan
  PROVE  Scanning(Append(t, e)) = Scanned(Scanning(t), e)
<1> DEFINE step == [s \in Scan |-> [ch \in Char |-> Scanned(s, ch)]]
<1>1. step[Scanning(t)][e] = Scanned(Scanning(t), e)
  OBVIOUS
<1>2. \A x : Scanning(x) = Folded(step, Unscanned, x)
  BY DEF Scanning
<1> HIDE DEF step
<1>3. Folded(step, Unscanned, Append(t, e)) = step[Folded(step, Unscanned, t)][e]
  BY FoldedAppend DEF Word
<1>4. QED
  BY <1>1, <1>2, <1>3

LEMMA Parity ==
  ASSUME NEW q \in Nat
  PROVE  (q + 1) % 2 = 0 <=> q % 2 # 0
OBVIOUS

\* Which spaces separate in a line that grows.
LEMMA SpacesGrow ==
  ASSUME NEW t \in Word, NEW e \in Char
  PROVE  LET u == Append(t, e)
             n == Len(t)
         IN  /\ SeparatingSpaces(t) \subseteq 1..n
             /\ \A i \in 1..n : i \in SeparatingSpaces(u) <=> i \in SeparatingSpaces(t)
             /\ n + 1 \in SeparatingSpaces(u) <=>
                  e = " " /\ Occurrences(t, {QUOTE}) % 2 = 0
<1> DEFINE u == Append(t, e)
           n == Len(t)
           Quotes(s, i) == {j \in 1..(i - 1) : s[j] = QUOTE}
<1>1. /\ n \in Nat /\ DOMAIN t = 1..n /\ DOMAIN u = 1..(n + 1)
      /\ (\A i \in 1..n : u[i] = t[i]) /\ u[n + 1] = e
  BY LineGrown DEF Grows, Word
<1> HIDE DEF u, n
<1>2. \A s : \A i \in DOMAIN s : i \in SeparatingSpaces(s) <=>
                                   s[i] = " " /\ Cardinality(Quotes(s, i)) % 2 = 0
  BY DEF SeparatingSpaces
<1>3. \A i \in 1..(n + 1) : Quotes(u, i) = Quotes(t, i)
  BY <1>1
<1>4. Quotes(t, n + 1) = {i \in DOMAIN t : t[i] \in {QUOTE}}
  BY <1>1
<1>5. Cardinality(Quotes(t, n + 1)) = Occurrences(t, {QUOTE})
  BY <1>4 DEF Occurrences
<1> HIDE DEF Quotes
<1>6. SeparatingSpaces(t) \subseteq 1..n
  BY <1>1 DEF SeparatingSpaces
<1>7. ASSUME NEW i \in 1..n
      PROVE  i \in SeparatingSpaces(u) <=> i \in SeparatingSpaces(t)
  <2>1. i \in DOMAIN t /\ i \in DOMAIN u /\ i \in 1..(n + 1) /\ u[i] = t[i]
    BY <1>1
  <2>2. Quotes(u, i) = Quotes(t, i)
    BY <1>3, <2>1
  <2>3. QED BY <1>2, <2>1, <2>2
<1>8. n + 1 \in SeparatingSpaces(u) <=> e = " " /\ Occurrences(t, {QUOTE}) % 2 = 0
  <2>1. n + 1 \in DOMAIN u /\ n + 1 \in 1..(n + 1)
    BY <1>1
  <2>2. Quotes(u, n + 1) = Quotes(t, n + 1)
    BY <1>3, <2>1
  <2>3. QED BY <1>1, <1>2, <1>5, <2>1, <2>2
<1>9. QED
  BY <1>6, <1>7, <1>8 DEF u, n

\* What the loop knows between two characters.
Knows(t) ==
  LET s == Scanning(t)
      spaces == SeparatingSpaces(t)
  IN  /\ s \in Scan
      /\ s.is_inside_quote <=> Occurrences(t, {QUOTE}) % 2 # 0
      /\ s.before = IF t = <<>> THEN <<>> ELSE <<t[Len(t)]>>
      /\ t # <<>> => (Len(t) \in spaces <=> s.before = <<" ">> /\ ~s.is_inside_quote)
      /\ s.threw <=> 1 \in spaces
      /\ ~s.threw => IF Open(t, spaces)
                     THEN Unquoted(Parts(t, spaces)) = Append(s.arguments, s.cur_arg)
                     ELSE Unquoted(Parts(t, spaces)) = s.arguments /\ s.cur_arg = <<>>

LEMMA KnowsAtFirst == Knows(<<>>)
<1>1. PICK t : t = <<>>
  OBVIOUS
<1>2. Scanning(t) = Unscanned
  BY <1>1, FoldedEmpty DEF Scanning
<1>3. Unscanned \in Scan
  BY EmptySeq DEF Unscanned, Scan
<1>4. SeparatingSpaces(t) = {} /\ ~Open(t, {}) /\ Parts(t, {}) = <<>>
  BY <1>1, PartsOfNone DEF SeparatingSpaces, Open
<1>5. Occurrences(t, {QUOTE}) = 0
  BY <1>1, OccurrencesOfNone
<1>6. Unquoted(Parts(t, {})) = <<>>
  BY <1>4, UnquotedNone
<1>7. /\ Unscanned.before = <<>> /\ Unscanned.is_inside_quote = FALSE
      /\ Unscanned.threw = FALSE /\ Unscanned.arguments = <<>> /\ Unscanned.cur_arg = <<>>
  BY DEF Unscanned
<1>8. Scanning(t).is_inside_quote <=> Occurrences(t, {QUOTE}) % 2 # 0
  BY <1>2, <1>5, <1>7
<1>9. Scanning(t).threw <=> 1 \in SeparatingSpaces(t)
  BY <1>2, <1>4, <1>7
<1>10. Unquoted(Parts(t, SeparatingSpaces(t))) = <<>> /\ ~Open(t, SeparatingSpaces(t))
  BY <1>4, <1>6
<1>11. Knows(t)
  BY <1>1, <1>2, <1>3, <1>7, <1>8, <1>9, <1>10 DEF Knows
<1>12. QED
  BY <1>1, <1>11

LEMMA KnowsNext ==
  ASSUME NEW t \in Word, NEW e \in Char, Knows(t)
  PROVE  Knows(Append(t, e))
<1> DEFINE u == Append(t, e)
           n == Len(t)
           s == Scanning(t)
           r == Scanning(u)
           D == SeparatingSpaces(t)
           E == SeparatingSpaces(u)
           q == Occurrences(t, {QUOTE})
           now == e = " " /\ ~s.is_inside_quote
<1>1. s \in Scan /\ r = Scanned(s, e) /\ r \in Scan
  BY ScanningGrows, ScannedType DEF Knows
<1>2. /\ n \in Nat /\ u \in Word /\ u # <<>> /\ Len(u) = n + 1 /\ u[n + 1] = e
      /\ DOMAIN t = 1..n /\ (t = <<>> <=> n = 0)
  BY LineGrown DEF Grows, Word
<1>3. D \subseteq 1..n /\ \A i \in 1..n : i \in E <=> i \in D
  BY SpacesGrow
<1>4. n + 1 \in E <=> now
  BY SpacesGrow DEF Knows
<1>5. q \in Nat /\ Occurrences(u, {QUOTE}) = q + IF e = QUOTE THEN 1 ELSE 0
  BY CharsCounted
<1>6. Parts(t, E) = Parts(t, D) /\ (Open(t, E) <=> Open(t, D))
  <2>1. \A i \in DOMAIN t : i \in E <=> i \in D
    BY <1>2, <1>3
  <2>2. Len(t) # 0 => Len(t) \in DOMAIN t
    BY <1>2
  <2> HIDE DEF D, E
  <2>3. QED BY <2>1, <2>2, PartsSame DEF Open
<1>7. s.is_inside_quote <=> q % 2 # 0
  BY DEF Knows
<1>8. s.before = IF t = <<>> THEN <<>> ELSE <<t[Len(t)]>>
  BY DEF Knows
<1>9. t # <<>> => (n \in D <=> s.before = <<" ">> /\ ~s.is_inside_quote)
  BY DEF Knows
<1>10. s.threw <=> 1 \in D
  BY DEF Knows
<1>11. ~s.threw => IF Open(t, D)
                   THEN Unquoted(Parts(t, D)) = Append(s.arguments, s.cur_arg)
                   ELSE Unquoted(Parts(t, D)) = s.arguments /\ s.cur_arg = <<>>
  BY DEF Knows
<1> HIDE DEF u, n, s, r, D, E, q
<1>12. r.before = <<e>>
  BY <1>1 DEF Scanned, Scan, is_inside_quote
<1>13. r.is_inside_quote <=> Occurrences(u, {QUOTE}) % 2 # 0
  <2>1. r.is_inside_quote <=> IF e = QUOTE THEN ~s.is_inside_quote ELSE s.is_inside_quote
    BY <1>1 DEF Scanned, Scan, is_inside_quote
  <2>2. QED BY <1>5, <1>7, <2>1, Parity
<1>14. n + 1 \in E <=> r.before = <<" ">> /\ ~r.is_inside_quote
  <2>1. e = " " => (r.is_inside_quote <=> s.is_inside_quote)
    BY <1>1 DEF Scanned, Scan, is_inside_quote, QUOTE
  <2>2. <<e>> = <<" ">> <=> e = " "
    OBVIOUS
  <2>3. QED BY <1>4, <1>12, <2>1, <2>2
<1>15. r.threw <=> 1 \in E
  <2>1. CASE n = 0
    <3>1. s.before = <<>> /\ ~s.threw
      BY <1>2, <1>3, <1>8, <1>10, <2>1
    <3>2. r.threw <=> now
      BY <1>1, <3>1 DEF Scanned, Scan, is_inside_quote, QUOTE
    <3>3. n + 1 = 1
      BY <2>1
    <3>4. 1 \in E <=> now
      BY <1>4, <3>3
    <3>5. QED BY <3>2, <3>4
  <2>2. CASE n # 0
    <3>1. s.before # <<>> /\ 1 \in 1..n
      BY <1>2, <1>8, <2>2
    <3>2. r.threw <=> s.threw
      BY <1>1, <3>1 DEF Scanned, Scan, is_inside_quote, QUOTE
    <3>3. QED BY <1>3, <1>10, <3>1, <3>2
  <2>3. QED BY <2>1, <2>2
<1> DEFINE Good == IF Open(u, E)
                   THEN Unquoted(Parts(u, E)) = Append(r.arguments, r.cur_arg)
                   ELSE Unquoted(Parts(u, E)) = r.arguments /\ r.cur_arg = <<>>
<1>16. ASSUME ~r.threw, now PROVE Good
  <2>1. ~Open(u, E)
    BY <1>2, <1>4, <1>16 DEF Open
  <2>2. n # 0
    <3>1. ASSUME n = 0 PROVE 1 \in E
      <4>1. n + 1 = 1
        BY <3>1
      <4>2. QED BY <1>4, <1>16, <4>1
    <3>2. QED BY <1>15, <1>16, <3>1
  <2>3. ~s.threw /\ s.before # <<>>
    <3>1. 1 \in 1..n
      BY <1>2, <2>2
    <3>2. ~s.threw
      BY <1>3, <1>10, <1>15, <1>16, <3>1
    <3>3. s.before # <<>>
      BY <1>2, <1>8, <2>2
    <3>4. QED BY <3>2, <3>3
  <2>4. Parts(u, E) = Parts(t, D)
    <3>1. n + 1 \in E
      BY <1>4, <1>16
    <3>2. Parts(u, E) = Parts(t, E)
      BY <3>1, PartsSeparated DEF u, n, Word
    <3>3. QED BY <1>6, <3>2
  <2>5. CASE s.before = <<" ">>
    <3>1. r.arguments = s.arguments /\ r.cur_arg = s.cur_arg
      BY <1>1, <1>16, <2>3, <2>5 DEF Scanned, Scan, is_inside_quote, QUOTE
    <3>2. ~Open(t, D)
      BY <1>2, <1>9, <1>16, <2>2, <2>5 DEF Open, n
    <3>3. QED BY <1>11, <2>1, <2>3, <2>4, <3>1, <3>2
  <2>6. CASE s.before # <<" ">>
    <3>1. r.arguments = Append(s.arguments, s.cur_arg) /\ r.cur_arg = <<>>
      BY <1>1, <1>16, <2>3, <2>6 DEF Scanned, Scan, is_inside_quote, QUOTE
    <3>2. Open(t, D)
      BY <1>2, <1>9, <2>2, <2>6 DEF Open, n
    <3>3. QED BY <1>11, <2>1, <2>3, <2>4, <3>1, <3>2
  <2>7. QED BY <2>5, <2>6
<1>17. ASSUME ~r.threw, ~now PROVE Good
  <2>1. n + 1 \notin E /\ Open(u, E)
    <3>1. n + 1 \notin E
      BY <1>4, <1>17
    <3>2. Len(u) = n + 1 /\ n + 1 # 0
      BY <1>2
    <3>3. QED BY <3>1, <3>2 DEF Open
  <2>2. ~s.threw
    <3>1. r.threw <=> s.threw
      BY <1>1, <1>17 DEF Scanned, Scan, is_inside_quote, QUOTE
    <3>2. QED BY <1>17, <3>1
  <2>3. Extended(Char, Parts(t, E), Parts(u, E), Open(t, E), e)
    BY <2>1, PartsExtended DEF u, n, Word
  <2>4. PICK words \in Seq(Word), word \in Word :
          /\ Before(Parts(t, D), Open(t, D), words, word)
          /\ Parts(u, E) = Append(words, Append(word, e))
    <3>1. PICK words \in Seq(Word), word \in Word :
            /\ Before(Parts(t, E), Open(t, E), words, word)
            /\ Parts(u, E) = Append(words, Append(word, e))
      BY <2>3 DEF Extended, Word
    <3>2. Before(Parts(t, D), Open(t, D), words, word)
      BY <1>6, <3>1 DEF Before
    <3>3. QED BY <3>1, <3>2
  <2>5. Append(word, e) \in Word
    BY AppendProperties DEF Word
  <2>6. Unquoted(Parts(u, E)) = Append(Unquoted(words), Without(Append(word, e), QUOTE))
    BY <2>4, <2>5, UnquotedAppend
  <2>7. Without(Append(word, e), QUOTE) =
          IF e = QUOTE THEN Without(word, QUOTE) ELSE Append(Without(word, QUOTE), e)
    BY WithoutAppend
  <2>8. Unquoted(words) = s.arguments /\ Without(word, QUOTE) = s.cur_arg
    <3>1. CASE Open(t, D)
      <4>1. Unquoted(Parts(t, D)) = Append(Unquoted(words), Without(word, QUOTE))
        BY <2>4, <3>1, UnquotedAppend DEF Before
      <4>2. Append(Unquoted(words), Without(word, QUOTE)) = Append(s.arguments, s.cur_arg)
        BY <1>11, <2>2, <3>1, <4>1
      <4>3. Unquoted(words) \in Seq(Word) /\ Without(word, QUOTE) \in Word
        BY UnquotedAppend, WithoutType
      <4>4. s.arguments \in Seq(Word) /\ s.cur_arg \in Word
        BY <1>1 DEF Scan, Word
      <4>5. QED BY <4>2, <4>3, <4>4, AppendInjective
    <3>2. CASE ~Open(t, D)
      <4>1. words = Parts(t, D) /\ word = <<>>
        BY <2>4, <3>2 DEF Before
      <4>2. Without(<<>>, QUOTE) = <<>>
        BY KeptEmpty DEF Without
      <4>3. QED BY <1>11, <2>2, <3>2, <4>1, <4>2
    <3>3. QED BY <3>1, <3>2
  <2>9. /\ r.arguments = s.arguments
        /\ r.cur_arg = IF e = QUOTE THEN s.cur_arg ELSE Append(s.cur_arg, e)
    BY <1>1, <1>17 DEF Scanned, Scan, is_inside_quote, QUOTE
  <2>10. Unquoted(Parts(u, E)) = Append(r.arguments, r.cur_arg)
    BY <2>6, <2>7, <2>8, <2>9
  <2>11. QED BY <2>1, <2>10
<1>18. ~r.threw => Good
  BY <1>16, <1>17
<1>19. r.before = IF u = <<>> THEN <<>> ELSE <<u[Len(u)]>>
  BY <1>2, <1>12
<1>20. u # <<>> => (Len(u) \in E <=> r.before = <<" ">> /\ ~r.is_inside_quote)
  BY <1>2, <1>14
<1>21. QED
  BY <1>1, <1>13, <1>15, <1>18, <1>19, <1>20 DEF Knows, u, r, E

\* A line of any length is split at the spaces that separate.
LEMMA SplitIsWords ==
  ASSUME NEW line \in Word
  PROVE  split_args(line) = Words(line)
<1> DEFINE T == {t \in Word : Knows(t)}
           s == Scanning(line)
           D == SeparatingSpaces(line)
           parts == Parts(line, D)
           none == << <<>> >>
<1>1. Knows(line)
  <2>1. <<>> \in T
    BY KnowsAtFirst, EmptySeq DEF Word
  <2>2. \A t \in T : \A e \in Char : Append(t, e) \in T
    BY KnowsNext, AppendProperties DEF Word
  <2>3. T \subseteq Seq(Char)
    BY DEF Word
  <2> HIDE DEF T
  <2>4. T = Seq(Char)
    BY <2>1, <2>2, <2>3, SeqInduct
  <2>5. QED BY <2>4 DEF T, Word
<1>2. split_args(line) = IF s.threw THEN Threw ELSE Append(s.arguments, s.cur_arg)
  BY DEF split_args, Scanning
<1>3. Words(line) = IF 1 \in D THEN Threw
                    ELSE Unquoted(parts) \o (IF line = <<>> \/ Len(line) \in D THEN none ELSE <<>>)
  BY DEF Words, Unquoted
<1>4. s \in Scan /\ (s.threw <=> 1 \in D)
  BY <1>1 DEF Knows
<1>5. ~s.threw => IF Open(line, D) THEN Unquoted(parts) = Append(s.arguments, s.cur_arg)
                                   ELSE Unquoted(parts) = s.arguments /\ s.cur_arg = <<>>
  BY <1>1 DEF Knows
<1>6. Open(line, D) <=> ~(line = <<>> \/ Len(line) \in D)
  <2>1. line = <<>> <=> Len(line) = 0
    BY EmptySeq DEF Word
  <2>2. QED BY <2>1 DEF Open
<1>7. s.arguments \in Seq(Word) /\ s.cur_arg \in Word
  BY <1>4 DEF Scan, Word
<1> HIDE DEF s, D, parts, none
<1>8. Append(s.arguments, s.cur_arg) \in Seq(Word)
  BY <1>7, AppendProperties
<1>9. CASE s.threw
  BY <1>2, <1>3, <1>4, <1>9
<1>10. CASE ~s.threw /\ Open(line, D)
  <2>1. Words(line) = Append(s.arguments, s.cur_arg) \o <<>>
    BY <1>3, <1>4, <1>5, <1>6, <1>10
  <2>2. QED BY <1>2, <1>8, <1>10, <2>1, ConcatEmptySeq
<1>11. CASE ~s.threw /\ ~Open(line, D)
  <2>1. Words(line) = s.arguments \o none /\ s.cur_arg = <<>>
    BY <1>3, <1>4, <1>5, <1>6, <1>11
  <2>2. Append(s.arguments, s.cur_arg) = s.arguments \o none
    <3>1. Append(s.arguments, s.cur_arg) = s.arguments \o <<s.cur_arg>>
      BY <1>7, AppendIsConcat
    <3>2. QED BY <2>1, <3>1 DEF none
  <2>3. QED BY <1>2, <1>11, <2>1, <2>2
<1>12. QED
  BY <1>9, <1>10, <1>11

-----------------------------------------------------------------------------
(* Digits and numbers. *)

Number == Seq(Digit)

LEMMA DigitIs ==
  /\ Digit = {"0", "1", "2", "3", "4", "5", "6", "7", "8", "9"}
  /\ Digit \subseteq Char
  /\ \A d \in Digit : \E n \in 0..9 : Digits[n + 1] = d
<1>1. DOMAIN Digits = 1..10
  BY DEF Digits
<1>2. Digit = {"0", "1", "2", "3", "4", "5", "6", "7", "8", "9"}
  BY <1>1 DEF Digit, Digits, Range
<1>3. \A d \in Digit : \E n \in 0..9 : Digits[n + 1] = d
  <2>1. \A i \in 1..10 : i - 1 \in 0..9 /\ (i - 1) + 1 = i
    OBVIOUS
  <2>2. \A d \in Digit : \E i \in 1..10 : Digits[i] = d
    BY <1>1 DEF Digit, Range
  <2> HIDE DEF Digit, Digits
  <2>3. QED BY <2>1, <2>2
<1>4. Digit \subseteq Char
  BY DEF Char
<1>5. QED
  BY <1>2, <1>3, <1>4

LEMMA ValueIs ==
  ASSUME NEW d \in Digit
  PROVE  Value[d] \in 0..9 /\ (Value[d] = 0 <=> d = "0")
<1>1. Value[d] = CHOOSE n \in 0..9 : Digits[n + 1] = d
  BY DEF Value
<1>2. Value[d] \in 0..9 /\ Digits[Value[d] + 1] = d
  BY <1>1, DigitIs
<1>3. Digits[0 + 1] = "0"
  BY DEF Digits
<1>4. \A n \in 0..9 : n # 0 => Digits[n + 1] # "0"
  BY DEF Digits
<1>5. QED
  BY <1>2, <1>3, <1>4

LEMMA InSubset ==
  ASSUME NEW M, NEW s \in Seq(M), NEW S, Range(s) \subseteq S
  PROVE  s \in Seq(S)
<1>1. Len(s) \in Nat /\ s \in [1..Len(s) -> M]
  BY LenProperties
<1>2. \A i \in 1..Len(s) : s[i] \in S
  BY <1>1 DEF Range
<1>3. s \in [1..Len(s) -> S]
  BY <1>1, <1>2
<1>4. QED
  BY <1>1, <1>3, MadeOf

LEMMA NumbersAreWords == Number \subseteq Word
BY DigitIs, SeqMonotonic DEF Number, Word

\* Decimal, of a number that grows.
LEMMA DecimalIs ==
  /\ Decimal(<<>>) = 0
  /\ \A t \in Number : Decimal(t) \in Nat
  /\ \A t \in Number, d \in Digit : Decimal(Append(t, d)) = 10 * Decimal(t) + Value[d]
<1> DEFINE step == [n \in Nat |-> [d \in Digit |-> 10 * n + Value[d]]]
           T == {t \in Number : Decimal(t) \in Nat}
<1>1. \A n \in Nat, d \in Digit : step[n][d] = 10 * n + Value[d]
  OBVIOUS
<1>2. \A t : Decimal(t) = Folded(step, 0, t)
  BY DEF Decimal
<1> HIDE DEF step
<1>3. Decimal(<<>>) = 0
  BY <1>2, FoldedEmpty
<1>4. \A t \in Number, d \in Digit : Decimal(Append(t, d)) = step[Decimal(t)][d]
  BY <1>2, FoldedAppend DEF Number
<1>5. \A t \in T : \A d \in Digit : Decimal(Append(t, d)) = 10 * Decimal(t) + Value[d]
  BY <1>1, <1>4
<1>6. \A t \in T : \A d \in Digit : Append(t, d) \in T
  <2>1. ASSUME NEW t \in T, NEW d \in Digit PROVE Append(t, d) \in T
    <3>1. Append(t, d) \in Number
      BY AppendProperties DEF Number
    <3>2. Decimal(t) \in Nat /\ Value[d] \in 0..9
      BY ValueIs
    <3>3. Decimal(Append(t, d)) \in Nat
      BY <1>5, <3>2
    <3>4. QED BY <3>1, <3>3
  <2>2. QED BY <2>1
<1>7. <<>> \in T /\ T \subseteq Seq(Digit)
  BY <1>3, EmptySeq DEF Number
<1> HIDE DEF T
<1>8. T = Seq(Digit)
  BY <1>6, <1>7, SeqInduct
<1>9. QED
  BY <1>3, <1>5, <1>8 DEF T, Number

-----------------------------------------------------------------------------
(* is_ipv4. *)

Parsing(line) ==
  Folded([p \in Parse |-> [ch \in Char |-> Parsed(p, ch)]], Unparsed, line)

\* The parts parsed before part k, in order, with those that are empty.
Row(f, k) == [i \in 1..k |-> f[i - 1]]

Filled == Number \ {<<>>}

LEMMA RowGrows ==
  ASSUME NEW S, NEW f \in [0..3 -> S], NEW k \in 0..3
  PROVE  Row(f, k) \in Seq(S) /\ Row(f, k + 1) = Append(Row(f, k), f[k])
<1> DEFINE r == Row(f, k)
           q == Row(f, k + 1)
<1>1. \A i \in 1..k : i - 1 \in 0..3
  OBVIOUS
<1>2. \A i \in 1..(k + 1) : i - 1 \in 0..3
  OBVIOUS
<1>3. r \in [1..k -> S] /\ \A i \in 1..k : r[i] = f[i - 1]
  BY <1>1 DEF Row
<1>4. q \in [1..(k + 1) -> S] /\ \A i \in 1..(k + 1) : q[i] = f[i - 1]
  BY <1>2 DEF Row
<1> HIDE DEF r, q
<1>5. r \in Seq(S) /\ Len(r) = k
  BY <1>3, MadeOf
<1>6. q \in Seq(S) /\ Len(q) = k + 1
  <2>1. k + 1 \in Nat
    OBVIOUS
  <2>2. QED BY <1>4, <2>1, MadeOf
<1>7. f[k] \in S
  OBVIOUS
<1> DEFINE a == Append(r, f[k])
<1>8. a \in Seq(S) /\ Len(a) = k + 1 /\ (\A i \in 1..k : a[i] = r[i]) /\ a[k + 1] = f[k]
  BY <1>5, <1>7, AppendProperties
<1> HIDE DEF a
<1>9. \A i \in 1..Len(q) : q[i] = a[i]
  <2>1. \A i \in 1..(k + 1) : i \in 1..k \/ i = k + 1
    OBVIOUS
  <2>2. \A i \in 1..k : i \in 1..(k + 1)
    OBVIOUS
  <2>3. \A i \in 1..k : q[i] = a[i]
    BY <1>3, <1>4, <1>8, <2>2
  <2>4. q[k + 1] = a[k + 1]
    <3>1. k + 1 \in 1..(k + 1) /\ (k + 1) - 1 = k
      OBVIOUS
    <3>2. QED BY <1>4, <1>8, <3>1
  <2>5. QED BY <1>6, <2>1, <2>3, <2>4
<1>10. q = a
  BY <1>6, <1>8, <1>9, SeqEqual
<1>11. QED
  BY <1>5, <1>10 DEF r, q, a

LEMMA ParsingGrows ==
  ASSUME NEW t \in Word, NEW e \in Char, Parsing(t) \in Parse
  PROVE  Parsing(Append(t, e)) = Parsed(Parsing(t), e)
<1> DEFINE step == [p \in Parse |-> [ch \in Char |-> Parsed(p, ch)]]
<1>1. step[Parsing(t)][e] = Parsed(Parsing(t), e)
  OBVIOUS
<1>2. \A x : Parsing(x) = Folded(step, Unparsed, x)
  BY DEF Parsing
<1> HIDE DEF step
<1>3. Folded(step, Unparsed, Append(t, e)) = step[Folded(step, Unparsed, t)][e]
  BY FoldedAppend DEF Word
<1>4. QED
  BY <1>1, <1>2, <1>3

\* One character, case by case.
LEMMA ParsedIs ==
  ASSUME NEW p \in Parse, NEW e \in Char
  PROVE  LET q == Parsed(p, e)
             k == p.part_index
         IN  /\ p.verdict # "open" => q = p
             /\ p.verdict = "open" /\ e \in Digit /\ k > 3 =>
                  q = [p EXCEPT !.verdict = "undefined"]
             /\ p.verdict = "open" /\ e \in Digit /\ k <= 3 =>
                  q = [p EXCEPT !.ipv4_parts =
                         [p.ipv4_parts EXCEPT ![k] = Append(p.ipv4_parts[k], e)]]
             /\ p.verdict = "open" /\ e = "." => q = [p EXCEPT !.part_index = k + 1]
             /\ p.verdict = "open" /\ e \notin Digit \cup {"."} =>
                  q = [p EXCEPT !.verdict = "no"]
<1>1. "." \notin Digit
  BY DigitIs
<1>2. p.part_index \in Nat
  BY DEF Parse
<1>3. p.part_index > 3 <=> ~(p.part_index <= 3)
  BY <1>2
<1>4. QED
  BY <1>1, <1>3 DEF Parsed

\* The dots in a line that grows.
LEMMA DotsGrow ==
  ASSUME NEW t \in Word, NEW e \in Char
  PROVE  LET u == Append(t, e)
             n == Len(t)
         IN  /\ Dots(t) \subseteq 1..n
             /\ \A i \in 1..n : i \in Dots(u) <=> i \in Dots(t)
             /\ n + 1 \in Dots(u) <=> e = "."
<1> DEFINE u == Append(t, e)
           n == Len(t)
<1>1. /\ n \in Nat /\ DOMAIN t = 1..n /\ DOMAIN u = 1..(n + 1)
      /\ (\A i \in 1..n : u[i] = t[i]) /\ u[n + 1] = e
  BY LineGrown DEF Grows
<1> HIDE DEF u, n
<1>2. Dots(t) \subseteq 1..n /\ \A i \in 1..n : i \in Dots(u) <=> i \in Dots(t)
  BY <1>1 DEF Dots
<1>3. n + 1 \in Dots(u) <=> e = "."
  BY <1>1 DEF Dots
<1>4. QED
  BY <1>2, <1>3 DEF u, n

LEMMA DotsCounted ==
  ASSUME NEW t
  PROVE  Cardinality(Dots(t)) = Occurrences(t, {"."})
<1>1. Dots(t) = {i \in DOMAIN t : t[i] \in {"."}}
  BY DEF Dots
<1>2. QED
  BY <1>1 DEF Occurrences

\* The parts of the array are those of the line, once the empty ones are left out.
Agrees(p, t) ==
  /\ p.part_index = Occurrences(t, {"."})
  /\ p.part_index <= 3 =>
       /\ Parts(t, Dots(t)) = Kept(Row(p.ipv4_parts, p.part_index + 1), Filled)
       /\ \A i \in 0..3 : i > p.part_index => p.ipv4_parts[i] = <<>>
       /\ p.ipv4_parts[p.part_index] = <<>> <=> ~Open(t, Dots(t))

LEMMA AgreesDigit ==
  ASSUME NEW t \in Word, NEW e \in Digit, NEW p \in Parse, p.part_index <= 3, Agrees(p, t)
  PROVE  LET k == p.part_index
             q == [p EXCEPT !.ipv4_parts = [p.ipv4_parts EXCEPT ![k] = Append(p.ipv4_parts[k], e)]]
         IN  q \in Parse /\ Agrees(q, Append(t, e))
<1> DEFINE k == p.part_index
           f == p.ipv4_parts
           w == f[k]
           v == Append(w, e)
           g == [f EXCEPT ![k] = v]
           q == [p EXCEPT !.ipv4_parts = g]
           u == Append(t, e)
           n == Len(t)
           D == Dots(t)
           E == Dots(u)
<1>1. k \in 0..3 /\ f \in [0..3 -> Number] /\ w \in Number
  BY DEF Parse, Number
<1>2. e \in Char /\ e # "."
  BY DigitIs
<1>3. /\ n \in Nat /\ Len(u) = n + 1 /\ DOMAIN t = 1..n
  BY <1>2, LineGrown DEF Grows
<1>4. D \subseteq 1..n /\ (\A i \in 1..n : i \in E <=> i \in D) /\ n + 1 \notin E
  BY <1>2, DotsGrow
<1>5. k = Occurrences(u, {"."})
  <2>1. Occurrences(t, {"."}) \in Nat /\ Occurrences(u, {"."}) = Occurrences(t, {"."}) + 0
    BY <1>2, CharsCounted
  <2>2. QED BY <2>1 DEF Agrees
<1>6. v \in Number /\ v # <<>> /\ v \in Filled
  <2> HIDE DEF w
  <2>1. v \in Number /\ v # <<>>
    BY <1>1, AppendProperties DEF Number
  <2>2. QED BY <2>1 DEF Filled
<1>7. g \in [0..3 -> Number] /\ g[k] = v /\ \A i \in 0..3 : i # k => g[i] = f[i]
  <2> HIDE DEF v, k, f
  <2>1. QED BY <1>1, <1>6
<1>8. q \in Parse /\ q.ipv4_parts = g /\ q.part_index = k
  BY <1>7 DEF Parse, Number
<1>9. /\ Parts(t, D) = Kept(Row(f, k + 1), Filled)
      /\ \A i \in 0..3 : i > k => f[i] = <<>>
      /\ w = <<>> <=> ~Open(t, D)
  BY DEF Agrees
<1>10. Open(u, E)
  <2>1. n + 1 # 0
    BY <1>3
  <2> HIDE DEF E
  <2>2. QED BY <1>3, <1>4, <2>1 DEF Open
<1>11. Parts(t, E) = Parts(t, D) /\ (Open(t, E) <=> Open(t, D))
  <2>1. \A i \in DOMAIN t : i \in E <=> i \in D
    BY <1>3, <1>4
  <2>2. Len(t) # 0 => Len(t) \in DOMAIN t
    BY <1>3
  <2> HIDE DEF D, E
  <2>3. QED BY <2>1, <2>2, PartsSame DEF Open
<1>12. Extended(Char, Parts(t, E), Parts(u, E), Open(t, E), e)
  BY <1>2, <1>4, PartsExtended DEF Word
<1> HIDE DEF k, f, w, v, g, u, n, D, E
<1>13. PICK words \in Seq(Word), word \in Word :
         /\ Before(Parts(t, E), Open(t, E), words, word)
         /\ Parts(u, E) = Append(words, Append(word, e))
  BY <1>12 DEF Extended, Word
<1>14. Before(Parts(t, D), Open(t, D), words, word)
  BY <1>11, <1>13 DEF Before
<1> DEFINE r == Row(f, k)
           kept == Kept(r, Filled)
<1>15. r \in Seq(Number) /\ Row(f, k + 1) = Append(r, w)
  BY <1>1, RowGrows DEF w
<1>16. Row(g, k + 1) = Append(r, v)
  <2>1. Row(g, k + 1) = Append(Row(g, k), g[k])
    BY <1>1, <1>7, RowGrows
  <2>2. Row(g, k) = Row(f, k)
    <3>1. \A i \in 1..k : i - 1 \in 0..3 /\ i - 1 # k
      BY <1>1
    <3>2. \A i \in 1..k : g[i - 1] = f[i - 1]
      BY <1>7, <3>1
    <3>3. QED BY <3>2 DEF Row
  <2>3. QED BY <1>7, <2>1, <2>2
<1> HIDE DEF r
<1>17. kept \in Seq(Word)
  <2>1. kept \in Seq(Number \cap Filled)
    BY <1>15, KeptType
  <2>2. Number \cap Filled \subseteq Word
    BY NumbersAreWords
  <2>3. QED BY <2>1, <2>2, SeqMonotonic
<1>18. Kept(Row(g, k + 1), Filled) = Append(kept, v)
  <2>1. Kept(Append(r, v), Filled) = IF v \in Filled THEN Append(kept, v) ELSE kept
    BY <1>6, <1>15, KeptAppend
  <2>2. QED BY <1>6, <1>16, <2>1
<1>19. Parts(t, D) = IF w = <<>> THEN kept ELSE Append(kept, w)
  <2>1. w \in Filled <=> w # <<>>
    BY <1>1 DEF Filled
  <2>2. Kept(Append(r, w), Filled) = IF w \in Filled THEN Append(kept, w) ELSE kept
    BY <1>1, <1>15, KeptAppend
  <2>3. QED BY <1>9, <1>15, <2>1, <2>2
<1> HIDE DEF kept
<1>20. words = kept /\ word = w
  <2>1. CASE w = <<>>
    BY <1>9, <1>14, <1>19, <2>1 DEF Before
  <2>2. CASE w # <<>>
    <3>1. Append(words, word) = Append(kept, w)
      BY <1>9, <1>14, <1>19, <2>2 DEF Before
    <3>2. w \in Word
      BY <1>1, NumbersAreWords
    <3>3. QED BY <1>13, <1>17, <3>1, <3>2, AppendInjective
  <2>3. QED BY <2>1, <2>2
<1>21. Parts(u, E) = Kept(Row(g, k + 1), Filled)
  BY <1>13, <1>18, <1>20 DEF v
<1>22. \A i \in 0..3 : i > k => g[i] = <<>>
  <2>1. \A i \in 0..3 : i > k => i # k
    BY <1>1
  <2>2. QED BY <1>7, <1>9, <2>1
<1>23. Agrees(q, u)
  BY <1>5, <1>6, <1>7, <1>8, <1>10, <1>21, <1>22 DEF Agrees, E
<1>24. QED
  BY <1>8, <1>23 DEF g, v, w, k, f, u

LEMMA AgreesDot ==
  ASSUME NEW t \in Word, NEW p \in Parse, "." \in Char, Agrees(p, t)
  PROVE  LET q == [p EXCEPT !.part_index = p.part_index + 1]
         IN  q \in Parse /\ Agrees(q, Append(t, "."))
<1> DEFINE k == p.part_index
           f == p.ipv4_parts
           q == [p EXCEPT !.part_index = k + 1]
           u == Append(t, ".")
           n == Len(t)
           D == Dots(t)
           E == Dots(u)
<1>1. k \in Nat /\ f \in [0..3 -> Number]
  BY DEF Parse, Number
<1>2. q \in Parse /\ q.ipv4_parts = f /\ q.part_index = k + 1
  <2>1. k + 1 \in Nat
    BY <1>1
  <2> HIDE DEF k
  <2>2. QED BY <2>1 DEF Parse
<1>3. /\ n \in Nat /\ Len(u) = n + 1 /\ DOMAIN t = 1..n
  BY LineGrown DEF Grows
<1>4. D \subseteq 1..n /\ (\A i \in 1..n : i \in E <=> i \in D) /\ n + 1 \in E
  BY DotsGrow
<1>5. k + 1 = Occurrences(u, {"."})
  <2>1. Occurrences(t, {"."}) \in Nat /\ Occurrences(u, {"."}) = Occurrences(t, {"."}) + 1
    BY CharsCounted
  <2>2. QED BY <2>1 DEF Agrees
<1>6. ASSUME k + 1 <= 3
      PROVE  /\ Parts(u, E) = Kept(Row(f, (k + 1) + 1), Filled)
             /\ \A i \in 0..3 : i > k + 1 => f[i] = <<>>
             /\ f[k + 1] = <<>> /\ ~Open(u, E)
  <2>1. k <= 3 /\ k + 1 \in 0..3 /\ k + 1 > k
    BY <1>1, <1>6
  <2>2. Parts(t, D) = Kept(Row(f, k + 1), Filled) /\ \A i \in 0..3 : i > k => f[i] = <<>>
    BY <2>1 DEF Agrees
  <2>3. f[k + 1] = <<>>
    BY <2>1, <2>2
  <2>4. \A i \in 0..3 : i > k + 1 => f[i] = <<>>
    <3>1. \A i \in 0..3 : i > k + 1 => i > k
      BY <1>1
    <3>2. QED BY <2>2, <3>1
  <2>5. Parts(u, E) = Parts(t, D)
    <3>1. \A i \in DOMAIN t : i \in E <=> i \in D
      BY <1>3, <1>4
    <3>2. Parts(t, E) = Parts(t, D)
      <4> HIDE DEF D, E
      <4>1. QED BY <3>1, PartsSame
    <3>3. Parts(u, E) = Parts(t, E)
      BY <1>4, PartsSeparated DEF Word
    <3>4. QED BY <3>2, <3>3
  <2>6. ~Open(u, E)
    <3> HIDE DEF E
    <3>1. QED BY <1>3, <1>4 DEF Open
  <2> HIDE DEF k, f
  <2>7. Kept(Row(f, (k + 1) + 1), Filled) = Kept(Row(f, k + 1), Filled)
    <3> DEFINE m == k + 1
               r == Row(f, m)
    <3>1. m \in 0..3 /\ <<>> \in Number /\ <<>> \notin Filled /\ f[m] = <<>>
      BY <2>1, <2>3, EmptySeq DEF Number, Filled
    <3> HIDE DEF m
    <3>2. r \in Seq(Number) /\ Row(f, m + 1) = Append(r, <<>>)
      BY <1>1, <3>1, RowGrows
    <3> HIDE DEF r
    <3>3. Kept(Append(r, <<>>), Filled) = Kept(r, Filled)
      BY <3>1, <3>2, KeptAppend
    <3>4. QED BY <3>2, <3>3 DEF m, r
  <2>8. QED BY <2>2, <2>3, <2>4, <2>5, <2>6, <2>7
<1> HIDE DEF k, f
<1>7. Agrees(q, u)
  <2> HIDE DEF q, u
  <2>1. QED BY <1>2, <1>5, <1>6 DEF Agrees, E
<1>8. QED
  BY <1>2, <1>7 DEF k, u

\* What is known between two characters.
ParsedSo(t) ==
  LET p == Parsing(t)
  IN  /\ p \in Parse
      /\ p.verdict = "no" => \E i \in DOMAIN t : t[i] \notin Digit \cup {"."}
      /\ p.verdict = "undefined" => Occurrences(t, {"."}) > 3
      /\ p.verdict = "open" => Agrees(p, t)

LEMMA ParsedAtFirst == ParsedSo(<<>>)
<1>1. PICK t : t = <<>>
  OBVIOUS
<1> DEFINE f == [i \in 0..3 |-> <<>>]
<1>2. Parsing(t) = Unparsed
  BY <1>1, FoldedEmpty DEF Parsing
<1>3. f \in [0..3 -> Number]
  BY EmptySeq DEF Number
<1>4. \A i \in 0..3 : f[i] = <<>>
  OBVIOUS
<1>5. Unparsed = [ipv4_parts |-> f, part_index |-> 0, verdict |-> "open"]
  BY DEF Unparsed
<1> HIDE DEF f
<1>6. /\ Unparsed \in Parse /\ Unparsed.ipv4_parts = f
      /\ Unparsed.part_index = 0 /\ Unparsed.verdict = "open"
  BY <1>3, <1>5 DEF Parse, Number
<1>7. Occurrences(t, {"."}) = 0
  BY <1>1, OccurrencesOfNone
<1>8. ~Open(t, Dots(t))
  BY <1>1 DEF Open
<1>9. Parts(t, Dots(t)) = Kept(Row(f, 1), Filled)
  <2>1. Row(f, 0 + 1) = Append(Row(f, 0), f[0]) /\ Row(f, 0) \in Seq(Number)
    BY <1>3, RowGrows
  <2>2. Row(f, 0) = <<>>
    BY DEF Row
  <2>3. f[0] = <<>> /\ <<>> \notin Filled /\ <<>> \in Number
    BY <1>4, EmptySeq DEF Filled, Number
  <2>4. PICK r \in Seq(Number) : r = Row(f, 0)
    BY <2>1
  <2>5. PICK x \in Number : x = f[0] /\ x \notin Filled
    BY <2>3
  <2>6. Kept(Append(r, x), Filled) = Kept(r, Filled)
    BY <2>5, KeptAppend
  <2>7. Kept(r, Filled) = <<>>
    BY <2>2, <2>4, KeptEmpty
  <2>8. Row(f, 1) = Append(r, x)
    BY <2>1, <2>4, <2>5
  <2>9. Parts(t, Dots(t)) = <<>>
    BY <1>1, PartsOfNone
  <2>10. QED BY <2>6, <2>7, <2>8, <2>9
<1>10. Agrees(Unparsed, t)
  <2>1. 0 + 1 = 1 /\ 0 \in 0..3 /\ 0 <= 3
    OBVIOUS
  <2>2. QED BY <1>4, <1>6, <1>7, <1>8, <1>9, <2>1 DEF Agrees
<1>11. ParsedSo(t)
  BY <1>2, <1>6, <1>10 DEF ParsedSo
<1>12. QED
  BY <1>1, <1>11

LEMMA ParsedNext ==
  ASSUME NEW t \in Word, NEW e \in Char, ParsedSo(t)
  PROVE  ParsedSo(Append(t, e))
<1> DEFINE p == Parsing(t)
           q == Parsing(Append(t, e))
           u == Append(t, e)
           n == Len(t)
           k == p.part_index
<1>1. p \in Parse /\ q = Parsed(p, e)
  BY ParsingGrows DEF ParsedSo
<1>2. /\ n \in Nat /\ DOMAIN t = 1..n /\ DOMAIN u = 1..(n + 1)
      /\ (\A i \in 1..n : u[i] = t[i]) /\ u[n + 1] = e
  BY LineGrown DEF Grows
<1>3. /\ Occurrences(t, {"."}) \in Nat
      /\ Occurrences(u, {"."}) = Occurrences(t, {"."}) + IF e = "." THEN 1 ELSE 0
  BY CharsCounted
<1>4. /\ p.verdict = "no" => \E i \in DOMAIN t : t[i] \notin Digit \cup {"."}
      /\ p.verdict = "undefined" => Occurrences(t, {"."}) > 3
      /\ p.verdict = "open" => Agrees(p, t)
  BY DEF ParsedSo
<1>5. p.verdict \in {"open", "no", "undefined"} /\ k \in Nat
  BY <1>1 DEF Parse
<1>6. ParsedSo(u) <=>
        /\ q \in Parse
        /\ q.verdict = "no" => \E i \in DOMAIN u : u[i] \notin Digit \cup {"."}
        /\ q.verdict = "undefined" => Occurrences(u, {"."}) > 3
        /\ q.verdict = "open" => Agrees(q, u)
  BY DEF ParsedSo
<1>7. "." \notin Digit
  BY DigitIs
<1> HIDE DEF p, q, u, n
<1>8. CASE p.verdict # "open"
  <2>1. q = p
    BY <1>1, <1>8, ParsedIs
  <2>2. CASE p.verdict = "no"
    <3>1. PICK i \in DOMAIN t : t[i] \notin Digit \cup {"."}
      BY <1>4, <2>2
    <3>2. i \in DOMAIN u /\ u[i] = t[i]
      BY <1>2, <3>1
    <3>3. u[i] \notin Digit \cup {"."}
      BY <3>1, <3>2
    <3>4. QED BY <1>1, <1>6, <2>1, <2>2, <3>2, <3>3 DEF u
  <2>3. CASE p.verdict = "undefined"
    <3>1. Occurrences(u, {"."}) > 3
      BY <1>3, <1>4, <2>3
    <3>2. QED BY <1>1, <1>6, <2>1, <2>3, <3>1 DEF u
  <2>4. QED BY <1>5, <1>8, <2>2, <2>3
<1>9. CASE p.verdict = "open" /\ e \in Digit /\ k > 3
  <2>1. q = [p EXCEPT !.verdict = "undefined"]
    BY <1>1, <1>9, ParsedIs
  <2>2. q \in Parse /\ q.verdict = "undefined"
    BY <1>1, <2>1 DEF Parse
  <2>3. Occurrences(u, {"."}) > 3
    <3>1. k = Occurrences(t, {"."})
      BY <1>4, <1>9 DEF Agrees
    <3>2. QED BY <1>3, <1>9, <3>1
  <2>4. QED BY <1>6, <2>2, <2>3 DEF u
<1>10. CASE p.verdict = "open" /\ e \in Digit /\ k <= 3
  <2>1. q = [p EXCEPT !.ipv4_parts = [p.ipv4_parts EXCEPT ![k] = Append(p.ipv4_parts[k], e)]]
    BY <1>1, <1>10, ParsedIs
  <2>2. q.verdict = "open"
    BY <1>1, <1>10, <2>1 DEF Parse
  <2>3. q \in Parse /\ Agrees(q, u)
    BY <1>1, <1>4, <1>10, <2>1, AgreesDigit DEF u
  <2>4. QED BY <1>6, <2>2, <2>3 DEF u
<1>11. CASE p.verdict = "open" /\ e = "."
  <2>1. q = [p EXCEPT !.part_index = k + 1]
    BY <1>1, <1>11, ParsedIs
  <2>2. q.verdict = "open"
    BY <1>1, <1>11, <2>1 DEF Parse
  <2>3. q \in Parse /\ Agrees(q, u)
    BY <1>1, <1>4, <1>11, <2>1, AgreesDot DEF u
  <2>4. QED BY <1>6, <2>2, <2>3 DEF u
<1>12. CASE p.verdict = "open" /\ e \notin Digit \cup {"."}
  <2>1. q = [p EXCEPT !.verdict = "no"]
    BY <1>1, <1>12, ParsedIs
  <2>2. q \in Parse /\ q.verdict = "no"
    BY <1>1, <2>1 DEF Parse
  <2>3. n + 1 \in DOMAIN u /\ u[n + 1] \notin Digit \cup {"."}
    BY <1>2, <1>12
  <2>4. QED BY <1>6, <2>2, <2>3 DEF u
<1>13. k > 3 \/ k <= 3
  BY <1>5
<1>14. QED
  BY <1>8, <1>9, <1>10, <1>11, <1>12, <1>13 DEF u

LEMMA ParsedAlways == \A t \in Word : ParsedSo(t)
<1> DEFINE T == {t \in Word : ParsedSo(t)}
<1>1. <<>> \in T /\ T \subseteq Seq(Char)
  BY ParsedAtFirst, EmptySeq DEF Word
<1>2. ASSUME NEW t \in T, NEW e \in Char PROVE Append(t, e) \in T
  <2>1. Append(t, e) \in Word
    BY AppendProperties DEF Word
  <2>2. QED BY <2>1, ParsedNext
<1>3. T = Seq(Char)
  <2> HIDE DEF T
  <2>1. QED BY <1>1, <1>2, SeqInduct
<1>4. QED
  BY <1>3 DEF Word

-----------------------------------------------------------------------------
(* The parts between the dots of a line. *)

LEMMA DotPartsGrow ==
  ASSUME NEW t \in Word, NEW e \in Char
  PROVE  LET u == Append(t, e)
             p == Parts(t, Dots(t))
             q == Parts(u, Dots(u))
         IN  /\ p \in Seq(Word) /\ q \in Seq(Word)
             /\ e = "." => q = p /\ ~Open(u, Dots(u))
             /\ e # "." => Open(u, Dots(u)) /\ Extended(Char, p, q, Open(t, Dots(t)), e)
<1> DEFINE u == Append(t, e)
           n == Len(t)
           D == Dots(t)
           E == Dots(u)
<1>1. n \in Nat /\ u \in Word /\ Len(u) = n + 1 /\ DOMAIN t = 1..n /\ n + 1 # 0
  BY LineGrown DEF Grows, Word
<1>2. D \subseteq 1..n /\ (\A i \in 1..n : i \in E <=> i \in D) /\ (n + 1 \in E <=> e = ".")
  BY DotsGrow
<1>3. \A i \in DOMAIN t : i \in E <=> i \in D
  BY <1>1, <1>2
<1>4. Len(t) # 0 => Len(t) \in DOMAIN t
  BY <1>1
<1>5. e = "." => Parts(u, E) = Parts(t, E)
  BY <1>2, PartsSeparated DEF Word
<1>6. e # "." => Extended(Char, Parts(t, E), Parts(u, E), Open(t, E), e)
  BY <1>2, PartsExtended DEF Word
<1>7. Parts(t, D) \in Seq(Word)
  BY PartsTyped DEF Word
<1> HIDE DEF u
<1>8. Parts(u, E) \in Seq(Word)
  BY <1>1, PartsTyped DEF Word
<1> HIDE DEF D, E, n
<1>9. Parts(t, E) = Parts(t, D) /\ (Open(t, E) <=> Open(t, D))
  BY <1>3, <1>4, PartsSame DEF Open
<1>10. Open(u, E) <=> e # "."
  BY <1>1, <1>2 DEF Open
<1>11. ASSUME e # "." PROVE Extended(Char, Parts(t, D), Parts(u, E), Open(t, D), e)
  BY <1>6, <1>9, <1>11 DEF Extended, Before, u
<1>12. QED
  BY <1>5, <1>7, <1>8, <1>9, <1>10, <1>11 DEF D, E, u

\* A line whose parts are numbers consists of digits and dots.
DigitsOnly(t) ==
  (\A w \in Range(Parts(t, Dots(t))) : Range(w) \subseteq Digit) =>
    Range(t) \subseteq Digit \cup {"."}

LEMMA DigitsOnlyNext ==
  ASSUME NEW t \in Word, NEW e \in Char, DigitsOnly(t)
  PROVE  DigitsOnly(Append(t, e))
<1> DEFINE u == Append(t, e)
           p == Parts(t, Dots(t))
           q == Parts(u, Dots(u))
<1>1. Range(u) = Range(t) \cup {e}
  BY RangeOfAppend DEF Word
<1>2. /\ e = "." => q = p
      /\ e # "." => Extended(Char, p, q, Open(t, Dots(t)), e)
  BY DotPartsGrow
<1>3. (\A w \in Range(p) : Range(w) \subseteq Digit) => Range(t) \subseteq Digit \cup {"."}
  BY DEF DigitsOnly
<1>4. DigitsOnly(u) <=>
        ((\A w \in Range(q) : Range(w) \subseteq Digit) => Range(u) \subseteq Digit \cup {"."})
  BY DEF DigitsOnly
<1> HIDE DEF u, p, q
<1>5. ASSUME \A w \in Range(q) : Range(w) \subseteq Digit
      PROVE  Range(u) \subseteq Digit \cup {"."}
  <2>1. CASE e = "."
    BY <1>1, <1>2, <1>3, <1>5, <2>1
  <2>2. CASE e # "."
    <3>1. PICK words \in Seq(Word), word \in Word :
            Before(p, Open(t, Dots(t)), words, word) /\ q = Append(words, Append(word, e))
      BY <1>2, <2>2 DEF Extended, Word
    <3>2. Range(Append(word, e)) = Range(word) \cup {e} /\ Append(word, e) \in Word
      BY <3>1, RangeOfAppend DEF Word
    <3>3. PICK v \in Word : v = Append(word, e)
      BY <3>2
    <3>4. Range(q) = Range(words) \cup {v}
      <4>1. words \in Seq(Word) /\ v \in Word
        BY <3>1, <3>3
      <4>2. Range(Append(words, v)) = Range(words) \cup {v}
        BY <4>1, RangeOfAppend
      <4>3. QED BY <3>1, <3>3, <4>2
    <3>5. Range(p) \subseteq Range(words) \cup {word}
      <4>1. Range(Append(words, word)) = Range(words) \cup {word}
        BY <3>1, RangeOfAppend
      <4>2. QED BY <3>1, <4>1 DEF Before
    <3>6. Range(v) \subseteq Digit
      BY <1>5, <3>4
    <3>7. \A w \in Range(p) : Range(w) \subseteq Digit
      <4>1. \A w \in Range(words) : Range(w) \subseteq Digit
        BY <1>5, <3>4
      <4>2. Range(word) \subseteq Digit
        BY <3>2, <3>3, <3>6
      <4>3. QED BY <3>5, <4>1, <4>2
    <3>8. e \in Digit
      BY <3>2, <3>3, <3>6
    <3>9. QED BY <1>1, <1>3, <3>7, <3>8
  <2>3. QED BY <2>1, <2>2
<1>6. QED
  BY <1>4, <1>5 DEF u

LEMMA DigitsOnlyAlways == \A t \in Word : DigitsOnly(t)
<1> DEFINE T == {t \in Word : DigitsOnly(t)}
<1>1. <<>> \in T
  <2>1. PICK t : t = <<>>
    OBVIOUS
  <2>2. t \in Word
    BY <2>1, EmptySeq DEF Word
  <2>3. Range(t) = {}
    BY <2>1 DEF Range
  <2>4. DigitsOnly(t)
    BY <2>3 DEF DigitsOnly
  <2>5. QED BY <2>1, <2>2, <2>4
<1>2. ASSUME NEW t \in T, NEW e \in Char PROVE Append(t, e) \in T
  <2>1. Append(t, e) \in Word
    BY AppendProperties DEF Word
  <2>2. QED BY <2>1, DigitsOnlyNext
<1>3. T \subseteq Seq(Char)
  BY DEF Word
<1>4. T = Seq(Char)
  <2> HIDE DEF T
  <2>1. QED BY <1>1, <1>2, <1>3, SeqInduct
<1>5. QED
  BY <1>4 DEF Word

LEMMA MinIsIn ==
  ASSUME NEW S, S \subseteq 0..3, S # {}
  PROVE  Min(S) \in S
<1>1. \E x \in S : \A y \in S : x <= y
  <2>1. \A y \in S : y = 0 \/ y = 1 \/ y = 2 \/ y = 3
    OBVIOUS
  <2>2. CASE 0 \in S
    BY <2>1, <2>2
  <2>3. CASE 0 \notin S /\ 1 \in S
    BY <2>1, <2>3
  <2>4. CASE 0 \notin S /\ 1 \notin S /\ 2 \in S
    BY <2>1, <2>4
  <2>5. CASE 0 \notin S /\ 1 \notin S /\ 2 \notin S
    <3>1. \A y \in S : y = 3
      BY <2>1, <2>5
    <3>2. 3 \in S
      BY <3>1
    <3>3. 3 <= 3
      OBVIOUS
    <3>4. QED BY <3>1, <3>2, <3>3
  <2>6. QED BY <2>2, <2>3, <2>4, <2>5
<1>2. QED
  BY <1>1 DEF Min

\* What is_ipv4 returns once the line has been parsed.
Judged(f) ==
  LET refusing == {i \in 0..3 : PartVerdict(f[i]) # "yes"}
  IN  IF refusing = {} THEN "yes" ELSE PartVerdict(f[Min(refusing)])

LEMMA ipv4Is ==
  ASSUME NEW line
  PROVE  is_ipv4(line) =
           IF Len(line) > 15 \/ Len(line) < 7 THEN "no"
           ELSE IF Parsing(line).verdict # "open" THEN Parsing(line).verdict
           ELSE IF Parsing(line).part_index # 3 THEN "no"
           ELSE Judged(Parsing(line).ipv4_parts)
BY DEF is_ipv4, Parsing, Judged

\* "yes" on four parts that are filled and not above 255, "throws" only on an
\* empty one or one above INT_MAX.
LEMMA JudgedIs ==
  ASSUME NEW f \in [0..3 -> Number]
  PROVE  /\ Judged(f) \in {"yes", "no", "throws"}
         /\ Judged(f) = "yes" <=> \A i \in 0..3 : f[i] # <<>> /\ Decimal(f[i]) <= 255
         /\ Judged(f) = "throws" => \E i \in 0..3 : stoi_throws(f[i])
<1> DEFINE refusing == {i \in 0..3 : PartVerdict(f[i]) # "yes"}
           m == Min(refusing)
<1>1. \A i \in 0..3 :
        /\ PartVerdict(f[i]) \in {"yes", "no", "throws"}
        /\ PartVerdict(f[i]) = "yes" <=> f[i] # <<>> /\ Decimal(f[i]) <= 255
        /\ PartVerdict(f[i]) = "throws" => stoi_throws(f[i])
  <2>1. \A i \in 0..3 : Decimal(f[i]) \in Nat
    BY DecimalIs
  <2>2. \A i \in 0..3 :
          /\ Decimal(f[i]) > 255 <=> ~(Decimal(f[i]) <= 255)
          /\ Decimal(f[i]) > INT_MAX => ~(Decimal(f[i]) <= 255)
    BY <2>1, ShellAssumption
  <2>3. \A i \in 0..3 : stoi_throws(f[i]) <=> f[i] = <<>> \/ Decimal(f[i]) > INT_MAX
    BY DEF stoi_throws
  <2>4. QED BY <2>2, <2>3 DEF PartVerdict
<1>2. refusing # {} => m \in 0..3 /\ PartVerdict(f[m]) # "yes"
  <2>1. refusing \subseteq 0..3
    OBVIOUS
  <2>2. \A i \in refusing : PartVerdict(f[i]) # "yes"
    OBVIOUS
  <2> HIDE DEF refusing
  <2>3. QED BY <2>1, <2>2, MinIsIn
<1>3. refusing = {} <=> \A i \in 0..3 : PartVerdict(f[i]) = "yes"
  OBVIOUS
<1>4. Judged(f) = IF refusing = {} THEN "yes" ELSE PartVerdict(f[m])
  BY DEF Judged
<1> HIDE DEF refusing, m
<1>5. QED
  BY <1>1, <1>2, <1>3, <1>4

LEMMA VerdictIsRight ==
  ASSUME NEW line \in Word
  PROVE  VerdictOf(line)
<1> DEFINE p == Parsing(line)
           f == p.ipv4_parts
           v == is_ipv4(line)
           dots == Cardinality(Dots(line))
           parts == Parts(line, Dots(line))
<1>1. /\ p \in Parse
      /\ p.verdict = "no" => \E i \in DOMAIN line : line[i] \notin Digit \cup {"."}
      /\ p.verdict = "undefined" => Occurrences(line, {"."}) > 3
      /\ p.verdict = "open" => Agrees(p, line)
  BY ParsedAlways DEF ParsedSo
<1>2. dots = Occurrences(line, {"."})
  BY DotsCounted
<1>3. v = IF Len(line) > 15 \/ Len(line) < 7 THEN "no"
          ELSE IF p.verdict # "open" THEN p.verdict
          ELSE IF p.part_index # 3 THEN "no"
          ELSE Judged(f)
  BY ipv4Is
<1>4. IsQuad(line) <=>
        /\ Len(line) \in 7..15
        /\ dots = 3
        /\ Len(parts) = 4
        /\ \A i \in DOMAIN parts : Range(parts[i]) \subseteq Digit /\ Decimal(parts[i]) <= 255
  BY DEF IsQuad
<1>5. SUFFICES /\ v = "yes" <=> IsQuad(line)
               /\ v = "throws" =>
                    /\ dots = 3
                    /\ Len(parts) < 4 \/ \E part \in Range(parts) : Decimal(part) > INT_MAX
               /\ v = "undefined" => dots > 3
  BY DEF VerdictOf
<1>6. /\ p.verdict \in {"open", "no", "undefined"}
      /\ Len(line) > 15 \/ Len(line) < 7 <=> Len(line) \notin 7..15
  <2>1. p.verdict \in {"open", "no", "undefined"}
    BY <1>1 DEF Parse
  <2>2. Len(line) \in Nat
    BY LenProperties DEF Word
  <2>3. \A n \in Nat : n > 15 \/ n < 7 <=> n \notin 7..15
    OBVIOUS
  <2>4. QED BY <2>1, <2>2, <2>3
<1>7. parts \in Seq(Word)
  BY PartsTyped DEF Word
<1>8. f \in [0..3 -> Number]
  BY <1>1 DEF Parse, Number
<1>9. IsQuad(line) => \A i \in DOMAIN line : line[i] \in Digit \cup {"."}
  <2>1. IsQuad(line) => \A w \in Range(parts) : Range(w) \subseteq Digit
    BY <1>4 DEF Range
  <2>2. IsQuad(line) => Range(line) \subseteq Digit \cup {"."}
    BY <2>1, DigitsOnlyAlways DEF DigitsOnly
  <2>3. QED BY <2>2 DEF Range
<1> HIDE DEF p, f, v, dots, parts
<1>10. CASE Len(line) > 15 \/ Len(line) < 7
  <2>1. v = "no" /\ Len(line) \notin 7..15
    BY <1>3, <1>6, <1>10
  <2>2. QED BY <1>4, <2>1
<1>11. CASE ~(Len(line) > 15 \/ Len(line) < 7) /\ p.verdict = "no"
  BY <1>1, <1>3, <1>9, <1>11
<1>12. CASE ~(Len(line) > 15 \/ Len(line) < 7) /\ p.verdict = "undefined"
  <2>1. v = "undefined"
    BY <1>3, <1>12
  <2>2. dots > 3
    BY <1>1, <1>2, <1>12
  <2>3. dots # 3
    BY <2>2
  <2>4. QED BY <1>4, <2>1, <2>2, <2>3
<1>13. CASE ~(Len(line) > 15 \/ Len(line) < 7) /\ p.verdict = "open" /\ p.part_index # 3
  <2>1. v = "no"
    BY <1>3, <1>13
  <2>2. dots # 3
    BY <1>1, <1>2, <1>13 DEF Agrees
  <2>3. QED BY <1>4, <2>1, <2>2
<1>14. CASE ~(Len(line) > 15 \/ Len(line) < 7) /\ p.verdict = "open" /\ p.part_index = 3
  <2> DEFINE row == Row(f, 4)
  <2>1. v = Judged(f) /\ Len(line) \in 7..15
    BY <1>3, <1>6, <1>14
  <2>2. dots = 3 /\ parts = Kept(row, Filled)
    <3>1. p.part_index <= 3 /\ p.part_index + 1 = 4
      BY <1>14
    <3>2. p.part_index = Occurrences(line, {"."})
      BY <1>1, <1>14 DEF Agrees
    <3>3. Parts(line, Dots(line)) = Kept(Row(p.ipv4_parts, p.part_index + 1), Filled)
      BY <1>1, <1>14, <3>1 DEF Agrees
    <3>4. QED BY <1>2, <1>14, <3>1, <3>2, <3>3 DEF parts, f
  <2>3. \A i \in 1..4 : i - 1 \in 0..3
    OBVIOUS
  <2>4. row \in [1..4 -> Number] /\ \A i \in 1..4 : row[i] = f[i - 1]
    BY <1>8, <2>3 DEF Row
  <2> HIDE DEF row
  <2>5. row \in Seq(Number) /\ Len(row) = 4 /\ DOMAIN row = 1..4
    <3>1. PICK k \in Nat : k = 4
      OBVIOUS
    <3>2. row \in Seq(Number) /\ Len(row) = k
      <4>1. row \in [1..k -> Number]
        BY <2>4, <3>1
      <4>2. QED BY <3>1, <4>1, MadeOf
    <3>3. QED BY <2>4, <3>1, <3>2
  <2>6. \A i \in 0..3 : i + 1 \in 1..4 /\ (i + 1) - 1 = i
    OBVIOUS
  <2>7. /\ Len(parts) \in 0..4
        /\ Len(parts) = 4 <=> \A i \in 1..4 : row[i] \in Filled
        /\ Len(parts) = 4 => parts = row
    BY <2>2, <2>5, KeptLength
  <2>8. Len(parts) = 4 <=> \A i \in 0..3 : f[i] # <<>>
    BY <1>8, <2>3, <2>4, <2>6, <2>7 DEF Filled
  <2>9. IsQuad(line) <=> \A i \in 0..3 : f[i] # <<>> /\ Decimal(f[i]) <= 255
    <3>1. CASE Len(parts) = 4
      <4>1. IsQuad(line) <=>
              \A i \in 1..4 : Range(row[i]) \subseteq Digit /\ Decimal(row[i]) <= 255
        BY <1>4, <2>1, <2>2, <2>5, <2>7, <3>1
      <4>2. \A i \in 1..4 : Range(row[i]) \subseteq Digit
        BY <2>4, RangeIsTyped DEF Number
      <4>3. (\A i \in 1..4 : Decimal(row[i]) <= 255) <=> \A i \in 0..3 : Decimal(f[i]) <= 255
        BY <2>3, <2>4, <2>6
      <4>4. QED BY <2>8, <3>1, <4>1, <4>2, <4>3
    <3>2. CASE Len(parts) # 4
      BY <1>4, <2>8, <3>2
    <3>3. QED BY <3>1, <3>2
  <2>10. v = "yes" <=> IsQuad(line)
    BY <1>8, <2>1, <2>9, JudgedIs
  <2>11. v = "throws" =>
           Len(parts) < 4 \/ \E part \in Range(parts) : Decimal(part) > INT_MAX
    <3>1. SUFFICES ASSUME v = "throws", ~(Len(parts) < 4)
                   PROVE  \E part \in Range(parts) : Decimal(part) > INT_MAX
      OBVIOUS
    <3>2. \A n \in 0..4 : ~(n < 4) => n = 4
      OBVIOUS
    <3>3. parts = row /\ \A i \in 0..3 : f[i] # <<>>
      BY <2>7, <2>8, <3>1, <3>2
    <3>4. PICK i \in 0..3 : stoi_throws(f[i])
      BY <1>8, <2>1, <3>1, JudgedIs
    <3>5. Decimal(f[i]) > INT_MAX
      BY <3>3, <3>4 DEF stoi_throws
    <3>6. i + 1 \in DOMAIN parts /\ parts[i + 1] = f[i]
      BY <2>4, <2>5, <2>6, <3>3
    <3>7. QED BY <3>5, <3>6 DEF Range
  <2>12. v # "undefined"
    BY <1>8, <2>1, JudgedIs
  <2>13. QED BY <2>2, <2>10, <2>11, <2>12
<1>15. QED
  BY <1>6, <1>10, <1>11, <1>12, <1>13, <1>14

-----------------------------------------------------------------------------
(* What make_address_v4 makes of the parts. *)

\* A part that begins with a zero and goes on.
Padded(part) == Len(part) > 1 /\ part[1] = "0"

\* The last part, if the line does not end in a dot, ends where the line does.
EndsSo(t) ==
  Open(t, Dots(t)) =>
    \E words \in Seq(Word), word \in Word :
      /\ Parts(t, Dots(t)) = Append(words, word)
      /\ word # <<>>
      /\ word[Len(word)] = t[Len(t)]
      /\ Len(word) = 1 <=> Len(t) = 1 \/ t[Len(t) - 1] = "."

PaddedSo(t) ==
  /\ EndsSo(t)
  /\ make_address_v4_throws(t) <=> \E part \in Range(Parts(t, Dots(t))) : Padded(part)

\* A part that grows by a character.
LEMMA PaddedGrows ==
  ASSUME NEW w \in Word, NEW e \in Char
  PROVE  /\ Padded(Append(w, e)) <=> w # <<>> /\ w[1] = "0"
         /\ Padded(w) => w # <<>>
<1>1. Grows(Char, w, e, Append(w, e))
  BY LineGrown
<1>2. w # <<>> => Append(w, e)[1] = w[1]
  <2>1. w # <<>> => 1 \in 1..Len(w)
    BY <1>1 DEF Grows
  <2>2. QED BY <1>1, <2>1 DEF Grows
<1>3. w # <<>> <=> Len(Append(w, e)) > 1
  <2>1. Len(w) \in Nat /\ Len(Append(w, e)) = Len(w) + 1 /\ (w # <<>> <=> Len(w) # 0)
    BY <1>1 DEF Grows
  <2>2. QED BY <2>1
<1>4. Padded(w) => w # <<>>
  <2>1. Len(w) \in Nat /\ (w # <<>> <=> Len(w) # 0)
    BY <1>1 DEF Grows
  <2>2. Len(w) > 1 => Len(w) # 0
    BY <2>1
  <2>3. QED BY <2>1, <2>2 DEF Padded
<1>5. QED
  BY <1>2, <1>3, <1>4 DEF Padded

\* make_address_v4 on a line that grows: only a zero at the end can be new.
LEMMA ThrowsGrows ==
  ASSUME NEW t \in Word, NEW e \in Char
  PROVE  LET n == Len(t)
         IN  make_address_v4_throws(Append(t, e)) <=>
               \/ make_address_v4_throws(t)
               \/ /\ e # "." /\ n # 0 /\ t[n] = "0"
                  /\ n = 1 \/ t[n - 1] = "."
<1> DEFINE u == Append(t, e)
           n == Len(t)
           Zero(s, i) == s[i] = "0" /\ (i = 1 \/ s[i - 1] = ".")
<1>1. /\ n \in Nat /\ Len(u) = n + 1 /\ DOMAIN t = 1..n /\ DOMAIN u = 1..(n + 1)
      /\ (\A i \in 1..n : u[i] = t[i]) /\ u[n + 1] = e
  BY LineGrown DEF Grows
<1>2. \A s : make_address_v4_throws(s) <=>
               \E i \in DOMAIN s : Zero(s, i) /\ i < Len(s) /\ s[i + 1] # "."
  BY DEF make_address_v4_throws
<1>3. \A i \in 1..n : Zero(u, i) <=> Zero(t, i)
  <2>1. \A i \in 1..n : i = 1 \/ i - 1 \in 1..n
    BY <1>1
  <2> HIDE DEF u, n
  <2>2. QED BY <1>1, <2>1
<1> HIDE DEF u, n, Zero
<1>4. \A i \in 1..n : i < n => i + 1 \in 1..n
  BY <1>1
<1>5. make_address_v4_throws(t) => make_address_v4_throws(u)
  <2>1. \A i \in 1..n : i < n => i \in 1..(n + 1) /\ i < n + 1
    BY <1>1
  <2>2. QED BY <1>1, <1>2, <1>3, <1>4, <2>1 DEF n
<1>6. ASSUME e # ".", n # 0, Zero(t, n) PROVE make_address_v4_throws(u)
  <2>1. n \in 1..n /\ n \in 1..(n + 1) /\ n < n + 1
    BY <1>1, <1>6
  <2>2. Zero(u, n) /\ u[n + 1] # "."
    BY <1>1, <1>3, <1>6, <2>1
  <2>3. QED BY <1>1, <1>2, <2>1, <2>2
<1>7. ASSUME make_address_v4_throws(u), ~make_address_v4_throws(t)
      PROVE  e # "." /\ n # 0 /\ Zero(t, n)
  <2>1. PICK i \in 1..(n + 1) : Zero(u, i) /\ i < n + 1 /\ u[i + 1] # "."
    BY <1>1, <1>2, <1>7
  <2>2. i \in 1..n /\ n # 0
    BY <1>1, <2>1
  <2>3. Zero(t, i)
    BY <1>3, <2>1, <2>2
  <2>4. ~(i < n)
    <3>1. i < n => t[i + 1] # "."
      BY <1>1, <1>4, <2>1, <2>2
    <3>2. QED BY <1>1, <1>2, <1>7, <2>2, <2>3, <3>1 DEF n
  <2>5. i = n
    BY <1>1, <2>2, <2>4
  <2>6. QED BY <1>1, <2>1, <2>2, <2>3, <2>5
<1>8. QED
  BY <1>5, <1>6, <1>7 DEF u, n, Zero

LEMMA PaddedNext ==
  ASSUME NEW t \in Word, NEW e \in Char, PaddedSo(t)
  PROVE  PaddedSo(Append(t, e))
<1> DEFINE u == Append(t, e)
           n == Len(t)
           p == Parts(t, Dots(t))
           q == Parts(u, Dots(u))
           open == Open(t, Dots(t))
<1>1. /\ p \in Seq(Word) /\ q \in Seq(Word)
      /\ e = "." => q = p /\ ~Open(u, Dots(u))
      /\ e # "." => Open(u, Dots(u)) /\ Extended(Char, p, q, open, e)
  BY DotPartsGrow
<1>2. /\ n \in Nat /\ Len(u) = n + 1 /\ DOMAIN t = 1..n
      /\ (\A i \in 1..n : u[i] = t[i]) /\ u[n + 1] = e
  BY LineGrown DEF Grows
<1>3. make_address_v4_throws(u) <=>
        \/ make_address_v4_throws(t)
        \/ /\ e # "." /\ n # 0 /\ t[n] = "0"
           /\ n = 1 \/ t[n - 1] = "."
  BY ThrowsGrows
<1>4. open =>
        \E words \in Seq(Word), word \in Word :
          /\ p = Append(words, word)
          /\ word # <<>>
          /\ word[Len(word)] = t[n]
          /\ Len(word) = 1 <=> n = 1 \/ t[n - 1] = "."
  BY DEF PaddedSo, EndsSo
<1>5. make_address_v4_throws(t) <=> \E part \in Range(p) : Padded(part)
  BY DEF PaddedSo
<1>6. open <=> n # 0 /\ t[n] # "."
  BY <1>2 DEF Open, Dots
<1>7. PaddedSo(u) <=>
        /\ EndsSo(u)
        /\ make_address_v4_throws(u) <=> \E part \in Range(q) : Padded(part)
  BY DEF PaddedSo
<1>8. EndsSo(u) <=>
        (Open(u, Dots(u)) =>
           \E words \in Seq(Word), word \in Word :
             /\ q = Append(words, word)
             /\ word # <<>>
             /\ word[Len(word)] = u[Len(u)]
             /\ Len(word) = 1 <=> Len(u) = 1 \/ u[Len(u) - 1] = ".")
  BY DEF EndsSo
<1> HIDE DEF u, n, p, q, open
<1>9. CASE e = "."
  BY <1>1, <1>3, <1>5, <1>7, <1>8, <1>9 DEF u
<1>10. CASE e # "."
  <2>1. PICK words \in Seq(Word), word \in Word :
          Before(p, open, words, word) /\ q = Append(words, Append(word, e))
    BY <1>1, <1>10 DEF Extended, Word
  <2>2. open => word # <<>> /\ word[Len(word)] = t[n] /\ (Len(word) = 1 <=> n = 1 \/ t[n - 1] = ".")
    <3>1. SUFFICES ASSUME open
                   PROVE  word # <<>> /\ word[Len(word)] = t[n]
                          /\ (Len(word) = 1 <=> n = 1 \/ t[n - 1] = ".")
      OBVIOUS
    <3>2. PICK words_1 \in Seq(Word), word_1 \in Word :
            /\ p = Append(words_1, word_1)
            /\ word_1 # <<>>
            /\ word_1[Len(word_1)] = t[n]
            /\ Len(word_1) = 1 <=> n = 1 \/ t[n - 1] = "."
      BY <1>4, <3>1
    <3>3. Append(words_1, word_1) = Append(words, word)
      BY <2>1, <3>1, <3>2 DEF Before
    <3>4. word_1 = word
      BY <2>1, <3>2, <3>3, AppendInjective
    <3>5. QED BY <3>2, <3>4
  <2>3. ~open => word = <<>>
    BY <2>1 DEF Before
  <2>4. PICK v \in Word : v = Append(word, e)
    BY <2>1, AppendProperties DEF Word
  <2>5. Grows(Char, word, e, v)
    BY <2>1, <2>4, LineGrown
  <2>6. Len(v) = 1 <=> Len(u) = 1 \/ u[Len(u) - 1] = "."
    <3>1. Len(v) = 1 <=> ~open
      <4>1. Len(word) \in Nat /\ Len(v) = Len(word) + 1 /\ (word = <<>> <=> Len(word) = 0)
        BY <2>5 DEF Grows
      <4>2. QED BY <2>2, <2>3, <4>1
    <3>2. Len(u) = 1 <=> n = 0
      BY <1>2
    <3>3. Len(u) - 1 = n
      BY <1>2
    <3>4. n # 0 => n \in 1..n
      BY <1>2
    <3>5. QED BY <1>2, <1>6, <3>1, <3>2, <3>3, <3>4
  <2>7. v # <<>> /\ v[Len(v)] = e /\ u[Len(u)] = e
    BY <1>2, <2>5 DEF Grows
  <2>8. EndsSo(u)
    <3>1. q = Append(words, v)
      BY <2>1, <2>4
    <3>2. QED BY <1>8, <2>1, <2>4, <2>6, <2>7, <3>1
  <2>9. Range(q) = Range(words) \cup {v}
    <3>1. words \in Seq(Word) /\ v \in Word
      BY <2>1, <2>4
    <3>2. Range(Append(words, v)) = Range(words) \cup {v}
      BY <3>1, RangeOfAppend
    <3>3. QED BY <2>1, <2>4, <3>2
  <2>10. open => Range(p) = Range(words) \cup {word}
    <3>1. Range(Append(words, word)) = Range(words) \cup {word}
      BY <2>1, RangeOfAppend
    <3>2. QED BY <2>1, <3>1 DEF Before
  <2>11. ~open => Range(p) = Range(words)
    BY <2>1 DEF Before
  <2>12. /\ Padded(v) <=> word # <<>> /\ word[1] = "0"
         /\ Padded(word) => word # <<>>
    BY <2>1, <2>4, PaddedGrows
  <2>13. CASE ~open
    <3>1. ~Padded(v)
      BY <2>3, <2>12, <2>13
    <3>2. ~(e # "." /\ n # 0 /\ t[n] = "0")
      BY <1>6, <2>13
    <3>3. QED BY <1>3, <1>5, <1>7, <2>8, <2>9, <2>11, <2>13, <3>1, <3>2 DEF u
  <2>14. CASE open
    <3>1. Padded(v) <=> word[1] = "0"
      BY <2>2, <2>12, <2>14
    <3>2. Len(word) \in Nat /\ Len(word) # 0
      BY <2>2, <2>5, <2>14 DEF Grows
    <3>3. word[1] = "0" <=> Padded(word) \/ (Len(word) = 1 /\ word[Len(word)] = "0")
      <4>1. \A m \in Nat : m # 0 => (m > 1 <=> m # 1)
        OBVIOUS
      <4>2. QED BY <3>2, <4>1 DEF Padded
    <3>4. Padded(v) <=> Padded(word) \/ (t[n] = "0" /\ (n = 1 \/ t[n - 1] = "."))
      BY <2>2, <2>14, <3>1, <3>3
    <3>5. n # 0
      BY <1>6, <2>14
    <3>6. QED BY <1>3, <1>5, <1>7, <1>10, <2>8, <2>9, <2>10, <2>14, <3>4, <3>5 DEF u
  <2>15. QED BY <2>13, <2>14
<1>11. QED
  BY <1>9, <1>10 DEF u

LEMMA PaddedAlways == \A t \in Word : PaddedSo(t)
<1> DEFINE T == {t \in Word : PaddedSo(t)}
<1>1. <<>> \in T
  <2>1. PICK t : t = <<>>
    OBVIOUS
  <2>2. t \in Word /\ DOMAIN t = {} /\ Len(t) = 0
    BY <2>1, EmptySeq DEF Word
  <2>3. ~Open(t, Dots(t))
    BY <2>2 DEF Open
  <2>4. Parts(t, Dots(t)) = <<>>
    BY <2>1, PartsOfNone
  <2>5. Range(Parts(t, Dots(t))) = {}
    BY <2>4 DEF Range
  <2>6. ~make_address_v4_throws(t)
    BY <2>2 DEF make_address_v4_throws
  <2>7. PaddedSo(t)
    BY <2>3, <2>5, <2>6 DEF PaddedSo, EndsSo
  <2>8. QED BY <2>1, <2>2, <2>7
<1>2. ASSUME NEW t \in T, NEW e \in Char PROVE Append(t, e) \in T
  <2>1. Append(t, e) \in Word
    BY AppendProperties DEF Word
  <2>2. QED BY <2>1, PaddedNext
<1>3. T \subseteq Seq(Char)
  BY DEF Word
<1>4. T = Seq(Char)
  <2> HIDE DEF T
  <2>1. QED BY <1>1, <1>2, <1>3, SeqInduct
<1>5. QED
  BY <1>4 DEF Word

\* A digit in front of a number makes it greater, but for a zero.
LEMMA DigitInFront ==
  ASSUME NEW d \in Digit
  PROVE  \A t \in Number :
           /\ <<d>> \o t \in Number
           /\ Decimal(<<d>> \o t) >= Decimal(t)
           /\ Decimal(<<d>> \o t) = Decimal(t) <=> d = "0"
<1> DEFINE T == {t \in Number :
                   /\ Decimal(<<d>> \o t) \in Nat
                   /\ Decimal(<<d>> \o t) >= Decimal(t)
                   /\ Decimal(<<d>> \o t) = Decimal(t) <=> d = "0"}
<1>1. <<d>> \in Number
  BY DEF Number
<1>2. \A t \in Number : <<d>> \o t \in Number
  BY <1>1, ConcatProperties DEF Number
<1>3. <<>> \in T
  <2>1. PICK t : t = <<>>
    OBVIOUS
  <2>2. t \in Number /\ Decimal(t) = 0
    BY <2>1, EmptySeq, DecimalIs DEF Number
  <2>3. <<d>> \o t = <<d>>
    BY <1>1, <2>1, ConcatEmptySeq DEF Number
  <2>4. <<d>> = Append(t, d)
    BY <2>1
  <2>5. Decimal(Append(t, d)) = 10 * Decimal(t) + Value[d]
    BY <2>2, DecimalIs
  <2>6. Value[d] \in 0..9 /\ (Value[d] = 0 <=> d = "0")
    BY ValueIs
  <2>7. 10 * Decimal(t) + Value[d] = Value[d]
    BY <2>2, <2>6
  <2>8. Decimal(<<d>> \o t) = Value[d]
    BY <2>3, <2>4, <2>5, <2>7
  <2>9. t \in T
    BY <2>2, <2>6, <2>8
  <2>10. QED BY <2>1, <2>9
<1>4. ASSUME NEW t \in T, NEW e \in Digit PROVE Append(t, e) \in T
  <2> DEFINE a == Decimal(<<d>> \o t)
             b == Decimal(t)
             c == Value[e]
  <2>1. t \in Number /\ a \in Nat /\ b \in Nat /\ c \in 0..9 /\ a >= b /\ (a = b <=> d = "0")
    BY ValueIs, DecimalIs
  <2>2. Append(t, e) \in Number
    BY <2>1, AppendProperties DEF Number
  <2>3. Decimal(Append(t, e)) = 10 * b + c
    BY <2>1, DecimalIs
  <2>4. <<d>> \o Append(t, e) = Append(<<d>> \o t, e)
    BY <1>1, <2>1, ConcatAppend DEF Number
  <2>5. Decimal(Append(<<d>> \o t, e)) = 10 * a + c
    BY <1>2, <2>1, DecimalIs
  <2> HIDE DEF a, b, c
  <2>6. /\ 10 * a + c \in Nat /\ 10 * a + c >= 10 * b + c
        /\ 10 * a + c = 10 * b + c <=> a = b
    BY <2>1
  <2>7. QED BY <2>1, <2>2, <2>3, <2>4, <2>5, <2>6
<1>5. T = Seq(Digit)
  <2>1. T \subseteq Seq(Digit)
    BY DEF Number
  <2> HIDE DEF T
  <2>2. QED BY <1>3, <1>4, <2>1, SeqInduct
<1>6. QED
  BY <1>2, <1>5 DEF Number

LEMMA ZeroIsPadding ==
  ASSUME NEW part \in Number
  PROVE  ZeroInFront(part) <=> Padded(part)
<1>1. SUFFICES ASSUME Len(part) > 1
               PROVE  Decimal(Tail(part)) = Decimal(part) <=> part[1] = "0"
  BY DEF ZeroInFront, Padded
<1>2. part # <<>>
  <2>1. Len(part) # 0
    BY <1>1
  <2>2. QED BY <2>1, EmptySeq, Zenon
<1>3. Head(part) \in Digit /\ Tail(part) \in Number /\ part = <<Head(part)>> \o Tail(part)
  BY <1>2, HeadThenTail DEF Number
<1>4. Head(part) = part[1]
  OBVIOUS
<1>5. Decimal(<<Head(part)>> \o Tail(part)) = Decimal(Tail(part)) <=> Head(part) = "0"
  BY <1>3, DigitInFront
<1>6. QED
  BY <1>3, <1>4, <1>5

LEMMA AddressIsRelied ==
  ASSUME NEW line \in Word
  PROVE  AddressRelied(line)
<1> DEFINE parts == Parts(line, Dots(line))
<1>1. SUFFICES ASSUME is_ipv4(line) = "yes"
               PROVE  make_address_v4_throws(line) <=> \E part \in Range(parts) : ZeroInFront(part)
  BY DEF AddressRelied
<1>2. IsQuad(line)
  BY <1>1, VerdictIsRight DEF VerdictOf
<1>3. parts \in Seq(Word)
  BY PartsTyped DEF Word
<1>4. \A part \in Range(parts) : part \in Word /\ Range(part) \subseteq Digit
  <2>1. \A part \in Range(parts) : Range(part) \subseteq Digit
    BY <1>2 DEF IsQuad, Range
  <2>2. \A part \in Range(parts) : part \in Word
    <3> HIDE DEF parts
    <3>1. QED BY <1>3, RangeIsTyped
  <2>3. QED BY <2>1, <2>2
<1>5. make_address_v4_throws(line) <=> \E part \in Range(parts) : Padded(part)
  BY PaddedAlways DEF PaddedSo
<1> HIDE DEF parts
<1>6. \A part \in Range(parts) : ZeroInFront(part) <=> Padded(part)
  <2>1. ASSUME NEW part \in Range(parts) PROVE part \in Number
    BY <1>4, InSubset DEF Number, Word
  <2>2. QED BY <2>1, ZeroIsPadding
<1>7. QED
  BY <1>5, <1>6

-----------------------------------------------------------------------------
(* What lexical_cast makes of a port. *)

LEMMA Wrapped ==
  ASSUME NEW n \in Nat, n <= 65535
  PROVE  (65536 - n) % 65536 = IF n = 0 THEN 0 ELSE 65536 - n
<1>1. CASE n = 0
  <2>1. (65536 - n) = 65536 /\ 65536 % 65536 = 0
    BY <1>1
  <2>2. QED BY <1>1, <2>1
<1>2. CASE n # 0
  <2>1. PICK m \in Nat : m = 65536 - n
    BY <1>2
  <2>2. m < 65536
    BY <1>2, <2>1
  <2>3. m % 65536 = m
    BY <2>2
  <2>4. QED BY <1>2, <2>1, <2>3
<1>3. QED
  BY <1>1, <1>2

LEMMA PortIsRelied ==
  ASSUME NEW line \in Word
  PROVE  PortRelied(line)
<1> DEFINE digits == Without(line, "-")
           cast == IF line # <<>> /\ line[1] = "-" THEN Tail(line) ELSE line
           n == Decimal(digits)
           port == lexical_cast(line)
<1>1. SUFFICES ASSUME is_int(line)
               PROVE  /\ Range(digits) \subseteq Digit
                      /\ port = {} <=> digits = <<>> \/ n > 65535
                      /\ \A p \in port :
                           (IF Head(line) = "-" THEN p + n ELSE p - n) % 65536 = 0
  BY DEF PortRelied
<1>2. "-" \notin Digit
  BY DigitIs
<1>3. \A i \in DOMAIN line : line[i] \in Digit \/ (i = 1 /\ line[i] = "-")
  <2>1. \A i \in DOMAIN line : line[i] \in Digit \cup (IF i = 1 THEN {"-"} ELSE {})
    BY <1>1 DEF is_int
  <2>2. QED BY <2>1
<1>4. Len(line) \in Nat /\ DOMAIN line = 1..Len(line) /\ (line = <<>> <=> Len(line) = 0)
  BY LenProperties, EmptySeq DEF Word
<1>5. \A w \in Word : Range(w) \subseteq Digit => Kept(w, Char \ {"-"}) = w
  <2>1. ASSUME NEW w \in Word, Range(w) \subseteq Digit
        PROVE  Kept(w, Char \ {"-"}) = w
    <3>1. \A i \in DOMAIN w : w[i] \in Char \ {"-"}
      BY <1>2, <2>1, DigitIs DEF Range
    <3>2. PICK S : S = Char \ {"-"}
      OBVIOUS
    <3>3. Kept(w, S) = w
      BY <3>1, <3>2, KeptLength DEF Word
    <3>4. QED BY <3>2, <3>3
  <2>2. QED BY <2>1
<1>6. digits = cast /\ Range(cast) \subseteq Digit
  <2>1. CASE line # <<>> /\ line[1] = "-"
    <3>1. Head(line) = "-"
      BY <2>1
    <3>2. Tail(line) \in Word
      BY <2>1, HeadTailProperties DEF Word
    <3>3. Range(Tail(line)) \subseteq Digit
      <4>1. Len(Tail(line)) = Len(line) - 1 /\ DOMAIN Tail(line) = 1..Len(Tail(line))
        BY <2>1, <3>2, HeadTailProperties, LenProperties DEF Word
      <4>2. \A i \in 1..Len(Tail(line)) : Tail(line)[i] = line[i + 1]
        BY <2>1, HeadTailProperties DEF Word
      <4>3. \A i \in 1..Len(Tail(line)) : i + 1 \in 1..Len(line) /\ i + 1 # 1
        BY <1>4, <4>1
      <4>4. \A i \in 1..Len(Tail(line)) : Tail(line)[i] \in Digit
        BY <1>3, <1>4, <4>2, <4>3
      <4>5. QED BY <4>1, <4>4 DEF Range
    <3>4. PICK S : S = Char \ {"-"}
      OBVIOUS
    <3>5. Kept(Tail(line), S) = Kept(line, S)
      <4>1. Head(line) \notin S
        BY <3>1, <3>4
      <4>2. QED BY <2>1, <4>1, KeptTail DEF Word
    <3>6. Kept(Tail(line), S) = Tail(line)
      BY <1>5, <3>2, <3>3, <3>4
    <3>7. QED BY <2>1, <3>3, <3>4, <3>5, <3>6 DEF Without
  <2>2. CASE ~(line # <<>> /\ line[1] = "-")
    <3>1. \A i \in DOMAIN line : line[i] \in Digit
      BY <1>3, <1>4, <2>2
    <3>2. Range(line) \subseteq Digit
      BY <3>1 DEF Range
    <3>3. Kept(line, Char \ {"-"}) = line
      BY <1>5, <3>2
    <3>4. QED BY <2>2, <3>2, <3>3 DEF Without
  <2>3. QED BY <2>1, <2>2
<1>7. n \in Nat
  <2>1. digits \in Word
    BY WithoutType
  <2>2. digits \in Number
    <3> HIDE DEF digits
    <3>1. QED BY <1>6, <2>1, InSubset DEF Word, Number
  <2>3. QED BY <2>2, DecimalIs
<1>8. port = IF cast = <<>> \/ ~(Range(cast) \subseteq Digit) \/ Decimal(cast) > 65535 THEN {}
             ELSE {IF line # <<>> /\ line[1] = "-" THEN (65536 - Decimal(cast)) % 65536
                   ELSE Decimal(cast)}
  BY DEF lexical_cast
<1>9. line # <<>> => Head(line) = line[1]
  OBVIOUS
<1>10. line = <<>> => cast = <<>>
  OBVIOUS
<1> HIDE DEF digits, cast, port
<1>11. port = IF digits = <<>> \/ n > 65535 THEN {}
              ELSE {IF line[1] = "-" THEN (65536 - n) % 65536 ELSE n}
  <2>1. n = Decimal(cast)
    BY <1>6
  <2>2. digits = <<>> \/ n > 65535 <=>
          cast = <<>> \/ ~(Range(cast) \subseteq Digit) \/ Decimal(cast) > 65535
    BY <1>6, <2>1
  <2> HIDE DEF n
  <2>3. CASE digits = <<>> \/ n > 65535
    BY <1>8, <2>2, <2>3
  <2>4. CASE ~(digits = <<>> \/ n > 65535)
    <3>1. line # <<>>
      BY <1>6, <1>10, <2>4
    <3>2. port = {IF line[1] = "-" THEN (65536 - Decimal(cast)) % 65536 ELSE Decimal(cast)}
      BY <1>8, <2>2, <2>4, <3>1
    <3>3. QED BY <2>1, <2>4, <3>2
  <2>5. QED BY <2>3, <2>4
<1> HIDE DEF n
<1>12. \A p \in port : (IF Head(line) = "-" THEN p + n ELSE p - n) % 65536 = 0
  <2>1. SUFFICES ASSUME NEW p \in port
                 PROVE  (IF Head(line) = "-" THEN p + n ELSE p - n) % 65536 = 0
    OBVIOUS
  <2>2. line # <<>> /\ ~(n > 65535)
    BY <1>6, <1>10, <1>11
  <2>3. n \in Nat /\ n <= 65535
    BY <1>7, <2>2
  <2>4. p = IF line[1] = "-" THEN (65536 - n) % 65536 ELSE n
    BY <1>11
  <2>5. CASE line[1] = "-"
    <3>1. (65536 - n) % 65536 = IF n = 0 THEN 0 ELSE 65536 - n
      BY <2>3, Wrapped
    <3>2. p + n = 0 \/ p + n = 65536
      BY <2>3, <2>4, <2>5, <3>1
    <3>3. (p + n) % 65536 = 0
      BY <3>2
    <3>4. QED BY <1>9, <2>2, <2>5, <3>3
  <2>6. CASE line[1] # "-"
    <3>1. p - n = 0
      BY <2>3, <2>4, <2>6
    <3>2. (p - n) % 65536 = 0
      BY <3>1
    <3>3. QED BY <1>9, <2>2, <2>6, <3>2
  <2>7. QED BY <2>5, <2>6
<1>13. QED
  BY <1>6, <1>11, <1>12 DEF n

LEMMA ChecksAreReliedOn ==
  ASSUME NEW line \in Word
  PROVE  AddressRelied(line) /\ PortRelied(line)
BY AddressIsRelied, PortIsRelied

-----------------------------------------------------------------------------
(* The loop that reads keys. *)

\* A line is made of the keys of the keyboard.
LEMMA LinesAreWords ==
  ASSUME TypeOK
  PROVE  cur_command \in Word
<1>1. keys \ {ESC} \subseteq Char
  BY DEF TypeOK, Char
<1>2. QED
  BY <1>1, SeqMonotonic DEF TypeOK, Word

\* The line is made of keys that are characters and the cursor stands behind it,
\* so that a backspace never takes a character from an empty line (main.cpp, run:
\* input_len is kept beside cur_command and decides whether one is taken).
THEOREM TypeCorrect == Spec => []TypeOK
<1>1. Init => TypeOK
  BY EmptySeq DEF Init, TypeOK
<1>2. TypeOK /\ [Next]_vars => TypeOK'
  <2>1. SUFFICES ASSUME TypeOK, [Next]_vars PROVE TypeOK'
    OBVIOUS
  <2>2. /\ keys \in Keyboards /\ cur_command \in Seq(keys \ {ESC})
        /\ swallowed \in 0..2 /\ input_len = Len(cur_command) /\ Len(cur_command) \in Nat
        /\ shell \in {"reading", "called", "unknown", "threw", "quit"}
    BY <2>1, LenProperties DEF TypeOK
  <2>3. ASSUME NEW ch \in keys, PushChar(ch) PROVE TypeOK'
    <3>1. ch \in keys \ {ESC} /\ keys' = keys /\ swallowed' = swallowed /\ shell' = "reading"
      BY <2>3 DEF PushChar
    <3>2. cur_command' = Append(cur_command, ch) /\ input_len' = input_len + 1
      BY <2>3 DEF PushChar
    <3> DEFINE M == keys \ {ESC}
    <3>3. cur_command' \in Seq(M) /\ Len(cur_command') = Len(cur_command) + 1
      <4>1. cur_command \in Seq(M) /\ ch \in M
        BY <2>2, <3>1
      <4> HIDE DEF M
      <4>2. QED BY <3>2, <4>1, AppendProperties
    <3>4. QED BY <2>2, <3>1, <3>2, <3>3 DEF TypeOK
  <2>4. CASE Backspace
    <3>1. /\ keys' = keys /\ swallowed' = swallowed /\ shell' = "reading"
          /\ input_len > 0 /\ cur_command' = Front(cur_command) /\ input_len' = input_len - 1
      BY <2>4 DEF Backspace, CursorBack
    <3> DEFINE M == keys \ {ESC}
    <3>2. cur_command \in Seq(M) /\ Len(cur_command) \in Nat /\ Len(cur_command) > 0
      BY <2>2, <3>1
    <3> HIDE DEF M
    <3>3. cur_command # <<>>
      <4>1. Len(cur_command) # 0
        BY <3>2
      <4>2. QED BY <4>1, EmptySeq, Zenon
    <3>4. PICK t \in Seq(M), e \in M : cur_command = Append(t, e)
      BY <3>2, <3>3, SequenceEmptyOrAppend
    <3>5. Front(cur_command) = t /\ Len(cur_command) = Len(t) + 1 /\ Len(t) \in Nat
      <4>1. Len(t) \in Nat /\ Len(cur_command) = Len(t) + 1
        BY <3>4, AppendProperties, LenProperties
      <4>2. Front(cur_command) = SubSeq(cur_command, 1, Len(t))
        <5>1. Len(cur_command) - 1 = Len(t)
          BY <4>1
        <5>2. QED BY <5>1 DEF Front
      <4>3. SubSeq(cur_command, 1, Len(t)) = t
        <5>1. \A i \in 1..Len(t) : cur_command[i] = t[i]
          BY <3>4, AppendProperties
        <5>2. QED BY <3>4, <4>1, <5>1
      <4>4. QED BY <4>1, <4>2, <4>3
    <3>6. cur_command' \in Seq(M) /\ input_len' = Len(cur_command')
      BY <2>2, <3>1, <3>4, <3>5
    <3>7. QED BY <2>2, <3>1, <3>6 DEF TypeOK, M
  <2>5. CASE Escape
    BY <2>2, <2>5 DEF Escape, TypeOK
  <2>6. CASE Swallow
    <3>1. swallowed' \in 0..2
      BY <2>2, <2>6 DEF Swallow
    <3>2. UNCHANGED <<keys, cur_command, input_len, shell>>
      BY <2>6 DEF Swallow
    <3>3. QED BY <2>2, <3>1, <3>2 DEF TypeOK
  <2>7. CASE Enter
    <3>1. /\ shell' \in {"threw", "quit", "called", "unknown"}
          /\ cur_command' = <<>> /\ input_len' = 0
          /\ keys' = keys /\ swallowed' = swallowed
      BY <2>7 DEF Enter, process_cmd
    <3>2. QED BY <2>2, <3>1, EmptySeq DEF TypeOK
  <2>8. CASE UNCHANGED vars
    BY <2>2, <2>8 DEF vars, TypeOK
  <2>9. QED BY <2>1, <2>3, <2>4, <2>5, <2>6, <2>7, <2>8 DEF Next
<1>3. QED
  BY <1>1, <1>2, PTL DEF Spec

\* Every line that can be typed is split at its spaces outside quotes
\* (basic_shell.cpp, split_args).
THEOREM LinesAreSplit == Spec => []SplitsAtSpaces
<1>1. TypeOK => SplitsAtSpaces
  BY LinesAreWords, SplitIsWords DEF SplitsAtSpaces
<1>2. QED
  BY <1>1, TypeCorrect, PTL

\* Every line that can be typed is accepted as an address exactly if it is four
\* numbers up to 255 between three dots; the check throws only on three dots with
\* a part that is empty or above INT_MAX (basic_shell.cpp, is_ipv4).
THEOREM AddressesAreJudged == Spec => []AcceptsQuads
<1>1. TypeOK => AcceptsQuads
  BY LinesAreWords, VerdictIsRight DEF AcceptsQuads
<1>2. QED
  BY <1>1, TypeCorrect, PTL

\* Which lines pass the checks of start and connect and are then refused by what
\* the commands call with them, by an exception (main.cpp of both programs, and
\* basic_shell.cpp, is_ipv4 and is_int).
THEOREM ChecksRelied == Spec => []ChecksAreWeaker
<1>1. TypeOK => ChecksAreWeaker
  BY LinesAreWords, ChecksAreReliedOn DEF ChecksAreWeaker
<1>2. QED
  BY <1>1, TypeCorrect, PTL
=============================================================================
