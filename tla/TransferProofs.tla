--------------------------- MODULE TransferProofs ---------------------------
(***************************************************************************)
(* Proofs about Transfer, for every text, path and file, every limit and   *)
(* every width of the integers.                                            *)
(*                                                                         *)
(* The invariant says what each stage knows of the message: what was sent  *)
(* is what the constructor made, what was refused has a bad header, and    *)
(* what was received is what the accessors find.  That they find what the  *)
(* constructor put there follows from where the zeros are.                 *)
(***************************************************************************)
EXTENDS Transfer, SequenceLemmas

-----------------------------------------------------------------------------
(* Numbers. *)

LEMMA MinIs ==
  ASSUME NEW S, NEW m \in S, S \subseteq Int, \A y \in S : m <= y
  PROVE  Min(S) = m
<1>1. ASSUME NEW x \in S, \A y \in S : x <= y PROVE x = m
  <2>1. x <= m /\ m <= x /\ x \in Int /\ m \in Int
    BY <1>1
  <2>2. QED BY <2>1
<1>2. QED
  BY <1>1 DEF Min

LEMMA MaxOf ==
  ASSUME NEW n \in Nat, NEW S, S \subseteq 0..n, S # {}
  PROVE  Max(S) \in S /\ \A y \in S : Max(S) >= y
<1> DEFINE Has(R) == \E x \in R : \A y \in R : x >= y
           T == {m \in Nat : \A R \in SUBSET (0..m) : R # {} => Has(R)}
<1>1. 0 \in T
  <2>1. ASSUME NEW R \in SUBSET (0..0), R # {} PROVE Has(R)
    <3>1. PICK x \in R : TRUE
      BY <2>1
    <3>2. \A y \in R : y = 0
      BY <2>1
    <3>3. \A y \in R : x >= y
      BY <3>1, <3>2
    <3>4. QED BY <3>1, <3>3
  <2>2. QED BY <2>1
<1>2. ASSUME NEW m \in T PROVE m + 1 \in T
  <2>1. m \in Nat /\ \A R \in SUBSET (0..m) : R # {} => Has(R)
    BY <1>2
  <2>2. ASSUME NEW R \in SUBSET (0..(m + 1)), R # {} PROVE Has(R)
    <3>1. CASE m + 1 \in R
      <4>1. \A y \in R : m + 1 >= y
        BY <2>1
      <4>2. QED BY <3>1, <4>1
    <3>2. CASE m + 1 \notin R
      <4>1. R \in SUBSET (0..m)
        BY <2>1, <3>2
      <4>2. QED BY <2>1, <2>2, <4>1
    <3>3. QED BY <3>1, <3>2
  <2>3. QED BY <2>1, <2>2
<1>3. T = Nat
  <2> HIDE DEF T
  <2>1. T \subseteq Nat
    BY DEF T
  <2>2. QED BY <1>1, <1>2, <2>1, NatInduct
<1>4. Has(S)
  <2>1. n \in T
    BY <1>3
  <2>2. QED BY <2>1
<1>5. QED
  BY <1>4 DEF Max

LEMMA ModSmall ==
  ASSUME NEW m \in Nat \ {0}, NEW x \in Nat, x < m
  PROVE  x % m = x
OBVIOUS

LEMMA ModRange ==
  ASSUME NEW m \in Nat \ {0}, NEW x \in Nat
  PROVE  x % m \in 0..(m - 1)
OBVIOUS

LEMMA ModAtMost ==
  ASSUME NEW m \in Nat \ {0}, NEW x \in Nat
  PROVE  x % m <= x
OBVIOUS

LEMMA Division ==
  ASSUME NEW m \in Nat \ {0}, NEW x \in Nat
  PROVE  x \div m \in Nat /\ x = m * (x \div m) + (x % m)
OBVIOUS

LEMMA MultipleInside ==
  ASSUME NEW m \in Nat \ {0}, NEW d \in Int, m * d < m, -m < m * d
  PROVE  d = 0
<1>1. CASE d >= 1
  <2>1. m * d >= m * 1
    BY <1>1
  <2>2. QED BY <2>1
<1>2. CASE d <= -1
  <2>1. m * d <= m * (-1)
    BY <1>2
  <2>2. m * (-1) = -m
    OBVIOUS
  <2>3. QED BY <2>1, <2>2
<1>3. QED BY <1>1, <1>2

LEMMA ModUnique ==
  ASSUME NEW m \in Nat \ {0}, NEW q \in Nat, NEW r \in Nat, r < m
  PROVE  (m * q + r) % m = r
<1> DEFINE x == m * q + r
           p == x \div m
           s == x % m
<1>1. x \in Nat
  OBVIOUS
<1>2. p \in Nat /\ x = m * p + s /\ s \in 0..(m - 1)
  BY <1>1, Division, ModRange
<1> HIDE DEF p, s
<1>3. m * (p - q) = r - s
  BY <1>2
<1>4. p - q = 0
  <2>1. p - q \in Int /\ r - s < m /\ -m < r - s
    BY <1>2
  <2>2. m * (p - q) < m /\ -m < m * (p - q)
    BY <1>3, <2>1
  <2>3. QED BY <2>1, <2>2, MultipleInside
<1>5. m * (p - q) = 0
  BY <1>4
<1>6. s = r
  BY <1>2, <1>3, <1>5
<1>7. QED
  BY <1>6 DEF s

\* What was cut off before an addition does not change it.
LEMMA ModSum ==
  ASSUME NEW m \in Nat \ {0}, NEW x \in Nat, NEW y \in Nat
  PROVE  (x + (y % m)) % m = (x + y) % m
<1> DEFINE r == y % m
           q == y \div m
           s == (x + r) % m
           p == (x + r) \div m
<1>1. q \in Nat /\ y = m * q + r /\ r \in Nat
  BY Division, ModRange
<1>2. x + r \in Nat
  BY <1>1
<1>3. p \in Nat /\ x + r = m * p + s /\ s \in 0..(m - 1)
  BY <1>2, Division, ModRange
<1> HIDE DEF p, q, r, s
<1>4. x + y = m * (p + q) + s
  BY <1>1, <1>3
<1>5. (m * (p + q) + s) % m = s
  <2>1. p + q \in Nat /\ s \in Nat /\ s < m
    BY <1>1, <1>3
  <2>2. QED BY <2>1, ModUnique
<1>6. QED
  BY <1>4, <1>5 DEF s, r

\* Multiples of m are cut off.
LEMMA ModMultiple ==
  ASSUME NEW m \in Nat \ {0}, NEW x \in Nat, NEW y \in Nat, y % m = 0
  PROVE  (x + y) % m = x % m
<1>1. (x + (y % m)) % m = (x + y) % m
  BY ModSum
<1>2. QED BY <1>1

-----------------------------------------------------------------------------
(* Strings in the data of a message. *)

\* The data d hold Origin and name, each ended by a zero, and then rest.
Laid(d, name, rest) ==
  /\ d \in Bytes
  /\ Len(d) = Len(Origin) + 1 + Len(name) + 1 + Len(rest)
  /\ \A i \in 1..Len(Origin) : d[i] = Origin[i]
  /\ d[Len(Origin) + 1] = NUL
  /\ \A i \in 1..Len(name) : d[Len(Origin) + 1 + i] = name[i]
  /\ d[Len(Origin) + 1 + Len(name) + 1] = NUL
  /\ \A i \in 1..Len(rest) : d[Len(Origin) + 1 + Len(name) + 1 + i] = rest[i]

LEMMA LengthOfBytes ==
  ASSUME NEW s \in Bytes
  PROVE  Len(s) \in Nat /\ DOMAIN s = 1..Len(s) /\ \A i \in 1..Len(s) : s[i] \in 0..255
BY LenProperties, ElementOfSeq DEF Bytes

\* One part after another.
LEMMA JoinBytes ==
  ASSUME NEW s \in Bytes, NEW t \in Bytes
  PROVE  /\ s \o t \in Bytes
         /\ Len(s \o t) = Len(s) + Len(t)
         /\ \A i \in 1..Len(s) : (s \o t)[i] = s[i]
         /\ \A i \in 1..Len(t) : (s \o t)[Len(s) + i] = t[i]
<1>1. /\ s \o t \in Bytes
      /\ Len(s \o t) = Len(s) + Len(t)
      /\ \A i \in 1..(Len(s) + Len(t)) :
           (s \o t)[i] = IF i <= Len(s) THEN s[i] ELSE t[i - Len(s)]
  BY ConcatProperties DEF Bytes
<1>2. Len(s) \in Nat /\ Len(t) \in Nat
  BY LengthOfBytes
<1>3. \A i \in 1..Len(s) : (s \o t)[i] = s[i]
  BY <1>1, <1>2
<1>4. ASSUME NEW i \in 1..Len(t) PROVE (s \o t)[Len(s) + i] = t[i]
  <2>1. /\ Len(s) + i \in 1..(Len(s) + Len(t))
        /\ ~(Len(s) + i <= Len(s))
        /\ (Len(s) + i) - Len(s) = i
    BY <1>2
  <2>2. QED BY <1>1, <2>1
<1>5. QED
  BY <1>1, <1>3, <1>4

LEMMA OneByte ==
  ASSUME NEW c \in 0..255
  PROVE  <<c>> \in Bytes /\ Len(<<c>>) = 1 /\ <<c>>[1] = c
BY DEF Bytes

LEMMA JoinByte ==
  ASSUME NEW s \in Bytes, NEW c \in 0..255
  PROVE  /\ s \o <<c>> \in Bytes
         /\ Len(s \o <<c>>) = Len(s) + 1
         /\ \A i \in 1..Len(s) : (s \o <<c>>)[i] = s[i]
         /\ (s \o <<c>>)[Len(s) + 1] = c
<1> DEFINE t == <<c>>
<1>1. t \in Bytes /\ Len(t) = 1 /\ t[1] = c
  BY OneByte
<1> HIDE DEF t
<1>2. /\ s \o t \in Bytes
      /\ Len(s \o t) = Len(s) + Len(t)
      /\ \A i \in 1..Len(s) : (s \o t)[i] = s[i]
      /\ \A i \in 1..Len(t) : (s \o t)[Len(s) + i] = t[i]
  BY <1>1, JoinBytes
<1>3. (s \o t)[Len(s) + 1] = c
  <2>1. 1 \in 1..Len(t)
    BY <1>1
  <2>2. QED BY <1>1, <1>2, <2>1
<1>4. QED
  BY <1>1, <1>2, <1>3 DEF t

LEMMA ConcatLaid ==
  ASSUME NEW name \in Bytes, NEW rest \in Bytes
  PROVE  Laid(Origin \o <<NUL>> \o name \o <<NUL>> \o rest, name, rest)
<1> DEFINE a == Origin \o <<NUL>>
           b == a \o name
           c == b \o <<NUL>>
           d == c \o rest
<1>1. Origin \in Bytes /\ NUL \in 0..255
  BY TransferAssumption DEF NUL
<1>2. /\ Len(Origin) \in Nat /\ Len(name) \in Nat /\ Len(rest) \in Nat
  BY <1>1, LengthOfBytes
<1>3. /\ a \in Bytes /\ Len(a) = Len(Origin) + 1
      /\ \A i \in 1..Len(Origin) : a[i] = Origin[i]
      /\ a[Len(Origin) + 1] = NUL
  BY <1>1, JoinByte
<1> HIDE DEF a
<1>4. /\ b \in Bytes /\ Len(b) = Len(a) + Len(name)
      /\ \A i \in 1..Len(a) : b[i] = a[i]
      /\ \A i \in 1..Len(name) : b[Len(a) + i] = name[i]
  BY <1>3, JoinBytes
<1> HIDE DEF b
<1>5. /\ c \in Bytes /\ Len(c) = Len(b) + 1
      /\ \A i \in 1..Len(b) : c[i] = b[i]
      /\ c[Len(b) + 1] = NUL
  BY <1>1, <1>4, JoinByte
<1> HIDE DEF c
<1>6. /\ d \in Bytes /\ Len(d) = Len(c) + Len(rest)
      /\ \A i \in 1..Len(c) : d[i] = c[i]
      /\ \A i \in 1..Len(rest) : d[Len(c) + i] = rest[i]
  BY <1>5, JoinBytes
<1> HIDE DEF d
<1>7. Len(b) = Len(Origin) + 1 + Len(name) /\ Len(c) = Len(Origin) + 1 + Len(name) + 1
  BY <1>2, <1>3, <1>4, <1>5
<1>8. \A i \in 1..Len(Origin) : d[i] = Origin[i]
  BY <1>2, <1>3, <1>4, <1>5, <1>6, <1>7
<1>9. d[Len(Origin) + 1] = NUL
  <2>1. /\ Len(Origin) + 1 \in 1..Len(a)
        /\ Len(Origin) + 1 \in 1..Len(b)
        /\ Len(Origin) + 1 \in 1..Len(c)
    BY <1>2, <1>3, <1>7
  <2>2. QED BY <1>3, <1>4, <1>5, <1>6, <2>1
<1>10. \A i \in 1..Len(name) : d[Len(Origin) + 1 + i] = name[i]
  BY <1>2, <1>3, <1>4, <1>5, <1>6, <1>7
<1>11. d[Len(Origin) + 1 + Len(name) + 1] = NUL
  BY <1>2, <1>5, <1>6, <1>7
<1>12. Laid(d, name, rest)
  BY <1>2, <1>6, <1>7, <1>8, <1>9, <1>10, <1>11 DEF Laid
<1>13. QED
  BY <1>12 DEF a, b, c, d

\* A string without a zero inside ends at the first zero.
LEMMA StringFound ==
  ASSUME NEW d \in Bytes, NEW s \in Bytes, NUL \notin Range(s),
         NEW k \in Nat, k + Len(s) + 1 <= Len(d),
         \A i \in 1..Len(s) : d[k + i] = s[i],
         d[k + Len(s) + 1] = NUL
  PROVE  Ends(d, k) # {} /\ strlen(d, k) = Len(s) /\ StringAt(d, k) = s
<1> DEFINE m == k + Len(s) + 1
<1>1. /\ Len(s) \in Nat /\ DOMAIN s = 1..Len(s)
      /\ Len(d) \in Nat /\ DOMAIN d = 1..Len(d)
  BY LengthOfBytes
<1>2. m \in Ends(d, k)
  BY <1>1 DEF Ends
<1>3. ASSUME NEW y \in Ends(d, k) PROVE m <= y
  <2>1. y \in 1..Len(d) /\ y > k /\ d[y] = NUL
    BY <1>1 DEF Ends
  <2>2. CASE y < m
    <3>1. y - k \in 1..Len(s) /\ k + (y - k) = y
      BY <1>1, <2>1, <2>2
    <3>2. s[y - k] = NUL
      BY <2>1, <3>1
    <3>3. QED BY <1>1, <3>1, <3>2 DEF Range
  <2>3. QED BY <1>1, <2>1, <2>2
<1>4. Ends(d, k) \subseteq Int
  BY <1>1 DEF Ends
<1>5. Min(Ends(d, k)) = m
  BY <1>2, <1>3, <1>4, MinIs
<1>6. strlen(d, k) = Len(s)
  BY <1>1, <1>5 DEF strlen
<1>7. StringAt(d, k) = s
  <2> DEFINE t == SubSeq(d, k + 1, k + Len(s))
  <2>1. \A i \in (k + 1)..(k + Len(s)) : d[i] \in 0..255
    <3>1. \A i \in 1..Len(d) : d[i] \in 0..255
      BY LengthOfBytes
    <3>2. QED BY <1>1, <3>1
  <2>2. k + 1 \in Int /\ k + Len(s) \in Int
    BY <1>1
  <2>3. /\ t \in Seq(0..255)
        /\ Len(t) = IF k + 1 <= k + Len(s) THEN (k + Len(s)) - (k + 1) + 1 ELSE 0
        /\ \A i \in 1..((k + Len(s)) - (k + 1) + 1) : t[i] = d[(k + 1) + i - 1]
    BY <2>1, <2>2, SubSeqProperties
  <2> HIDE DEF t
  <2>4. Len(t) = Len(s)
    BY <1>1, <2>3
  <2>5. ASSUME NEW i \in 1..Len(t) PROVE t[i] = s[i]
    <3>1. /\ i \in 1..Len(s) /\ (k + 1) + i - 1 = k + i
          /\ i \in 1..((k + Len(s)) - (k + 1) + 1)
      BY <1>1, <2>4
    <3>2. QED BY <2>3, <3>1
  <2>6. t = s
    BY <2>3, <2>4, <2>5, SeqEqual DEF Bytes
  <2>7. QED BY <1>6, <2>6 DEF t, StringAt
<1>8. QED
  BY <1>2, <1>6, <1>7

\* The accessors find what was laid out.
LEMMA LaidFound ==
  ASSUME NEW name \in Bytes, NUL \notin Range(name), NEW rest \in Bytes,
         NEW d, Laid(d, name, rest)
  PROVE  /\ StringAt(d, 0) = Origin
         /\ Ends(d, Len(Origin) + 1) # {}
         /\ strlen(d, Len(Origin) + 1) = Len(name)
         /\ StringAt(d, Len(Origin) + 1) = name
         /\ SubSeq(d, Len(Origin) + Len(name) + 3, Len(d)) = rest
<1> DEFINE k == Len(Origin) + 1
           m == Len(Origin) + 1 + Len(name) + 1
<1>1. /\ d \in Bytes /\ Len(d) = m + Len(rest)
      /\ \A i \in 1..Len(Origin) : d[i] = Origin[i]
      /\ d[k] = NUL
      /\ \A i \in 1..Len(name) : d[k + i] = name[i]
      /\ d[k + Len(name) + 1] = NUL
      /\ \A i \in 1..Len(rest) : d[m + i] = rest[i]
  BY DEF Laid
<1>2. /\ Origin \in Bytes /\ NUL \notin Range(Origin)
      /\ Len(Origin) \in Nat /\ Len(name) \in Nat /\ Len(rest) \in Nat
  BY TransferAssumption, LengthOfBytes
<1>3. StringAt(d, 0) = Origin
  <2>1. /\ 0 \in Nat /\ 0 + Len(Origin) + 1 <= Len(d)
        /\ \A i \in 1..Len(Origin) : d[0 + i] = Origin[i]
        /\ d[0 + Len(Origin) + 1] = NUL
    BY <1>1, <1>2
  <2>2. QED BY <1>1, <1>2, <2>1, StringFound
<1>4. Ends(d, k) # {} /\ strlen(d, k) = Len(name) /\ StringAt(d, k) = name
  <2>1. k \in Nat /\ k + Len(name) + 1 <= Len(d)
    BY <1>1, <1>2
  <2> HIDE DEF k
  <2>2. QED BY <1>1, <2>1, StringFound
<1>5. SubSeq(d, m + 1, Len(d)) = rest
  <2> DEFINE t == SubSeq(d, m + 1, Len(d))
  <2>1. m \in Nat /\ Len(d) \in Int
    BY <1>1, <1>2
  <2> HIDE DEF m
  <2>2. \A i \in (m + 1)..Len(d) : d[i] \in 0..255
    <3>1. \A i \in 1..Len(d) : d[i] \in 0..255
      BY <1>1, LengthOfBytes
    <3>2. QED BY <2>1, <3>1
  <2>3. /\ t \in Seq(0..255)
        /\ Len(t) = IF m + 1 <= Len(d) THEN Len(d) - (m + 1) + 1 ELSE 0
        /\ \A i \in 1..(Len(d) - (m + 1) + 1) : t[i] = d[(m + 1) + i - 1]
    <3>1. m + 1 \in Int
      BY <2>1
    <3>2. QED BY <2>1, <2>2, <3>1, SubSeqProperties
  <2> HIDE DEF t
  <2>4. Len(t) = Len(rest) /\ Len(d) - (m + 1) + 1 = Len(rest)
    BY <1>1, <1>2, <2>1, <2>3
  <2>5. ASSUME NEW i \in 1..Len(t) PROVE t[i] = rest[i]
    <3>1. i \in 1..Len(rest) /\ (m + 1) + i - 1 = m + i
      BY <1>2, <2>1, <2>4
    <3>2. QED BY <1>1, <2>3, <2>4, <3>1
  <2>6. t = rest
    BY <2>3, <2>4, <2>5, SeqEqual DEF Bytes
  <2>7. QED BY <2>6 DEF t
<1>6. m + 1 = Len(Origin) + Len(name) + 3
  BY <1>2
<1>7. QED
  BY <1>3, <1>4, <1>5, <1>6

-----------------------------------------------------------------------------
(* The name of a file. *)

\* A part of a sequence of bytes, up to its end.
LEMMA Rest ==
  ASSUME NEW s \in Bytes, NEW m \in 0..Len(s)
  PROVE  /\ SubSeq(s, m + 1, Len(s)) \in Bytes
         /\ Len(SubSeq(s, m + 1, Len(s))) = Len(s) - m
         /\ \A i \in 1..(Len(s) - m) : SubSeq(s, m + 1, Len(s))[i] = s[m + i]
<1> DEFINE t == SubSeq(s, m + 1, Len(s))
<1>1. Len(s) \in Nat /\ m \in Nat /\ m <= Len(s) /\ m + 1 \in Int
  BY LengthOfBytes
<1>2. \A i \in (m + 1)..Len(s) : s[i] \in 0..255
  <2>1. \A i \in 1..Len(s) : s[i] \in 0..255
    BY LengthOfBytes
  <2>2. QED BY <1>1, <2>1
<1>3. /\ t \in Seq(0..255)
      /\ Len(t) = IF m + 1 <= Len(s) THEN Len(s) - (m + 1) + 1 ELSE 0
      /\ \A i \in 1..(Len(s) - (m + 1) + 1) : t[i] = s[(m + 1) + i - 1]
  BY <1>1, <1>2, SubSeqProperties
<1> HIDE DEF t
<1>4. Len(t) = Len(s) - m
  BY <1>1, <1>3
<1>5. ASSUME NEW i \in 1..(Len(s) - m) PROVE t[i] = s[m + i]
  <2>1. (m + 1) + i - 1 = m + i /\ i \in 1..(Len(s) - (m + 1) + 1)
    BY <1>1
  <2>2. QED BY <1>3, <2>1
<1>6. QED
  BY <1>3, <1>4, <1>5 DEF t, Bytes

LEMMA Whole ==
  ASSUME NEW s \in Bytes
  PROVE  SubSeq(s, 1, Len(s)) = s
<1> DEFINE t == SubSeq(s, 1, Len(s))
<1>1. Len(s) \in Nat /\ \A i \in 1..Len(s) : s[i] \in 0..255
  BY LengthOfBytes
<1>2. /\ t \in Seq(0..255)
      /\ Len(t) = IF 1 <= Len(s) THEN Len(s) - 1 + 1 ELSE 0
      /\ \A i \in 1..(Len(s) - 1 + 1) : t[i] = s[1 + i - 1]
  BY <1>1, SubSeqProperties
<1> HIDE DEF t
<1>3. Len(t) = Len(s) /\ \A i \in 1..Len(s) : t[i] = s[i]
  BY <1>1, <1>2
<1>4. t = s
  BY <1>2, <1>3, SeqEqual DEF Bytes
<1>5. QED
  BY <1>4 DEF t

LEMMA NameFound ==
  ASSUME NEW path \in Bytes
  PROVE  /\ out_filepath(path) \in Bytes
         /\ Len(out_filepath(path)) <= Len(path)
         /\ Range(out_filepath(path)) \subseteq Range(path)
         /\ IsBaseName(out_filepath(path), path)
<1> DEFINE S == {i \in DOMAIN path : path[i] \in Slashes} \cup {0}
           m == Max(S)
           name == out_filepath(path)
<1>1. Len(path) \in Nat /\ DOMAIN path = 1..Len(path)
  BY LengthOfBytes
<1>2. m \in S /\ \A y \in S : m >= y
  <2>1. S \subseteq 0..Len(path) /\ S # {}
    BY <1>1
  <2>2. QED BY <1>1, <2>1, MaxOf
<1>3. m \in 0..Len(path)
  BY <1>1, <1>2
<1>4. name = SubSeq(path, m + 1, Len(path))
  BY DEF out_filepath
<1> HIDE DEF m, name
<1>5. /\ name \in Bytes /\ Len(name) = Len(path) - m
      /\ \A i \in 1..(Len(path) - m) : name[i] = path[m + i]
  BY <1>3, <1>4, Rest
<1>6. DOMAIN name = 1..(Len(path) - m)
  BY <1>5, LengthOfBytes
<1>7. ASSUME NEW e \in Range(name) PROVE e \in Range(path) /\ e \notin Slashes
  <2>1. PICK i \in 1..(Len(path) - m) : name[i] = e
    BY <1>6 DEF Range
  <2>2. m + i \in 1..Len(path) /\ ~(m >= m + i)
    BY <1>1, <1>3
  <2>3. path[m + i] = e
    BY <1>5, <2>1
  <2>4. path[m + i] \notin Slashes
    BY <1>1, <1>2, <2>2
  <2>5. QED BY <1>1, <2>2, <2>3, <2>4 DEF Range
<1>8. \/ name = path
      \/ \E i \in DOMAIN path : path[i] \in Slashes /\ name = SubSeq(path, i + 1, Len(path))
  <2>1. CASE m = 0
    BY <1>4, <2>1, Whole
  <2>2. CASE m # 0
    BY <1>2, <1>4, <2>2
  <2>3. QED BY <2>1, <2>2
<1>9. IsBaseName(name, path)
  BY <1>7, <1>8 DEF IsBaseName
<1>10. Len(name) <= Len(path)
  BY <1>1, <1>3, <1>5
<1>11. QED
  BY <1>5, <1>7, <1>9, <1>10 DEF name

-----------------------------------------------------------------------------
(* The messages that are made. *)

LEMMA Sizes ==
  /\ U8 \in Nat \ {0} /\ U32 \in Nat \ {0} /\ U64 \in Nat
  /\ HEADER_SIZE \in Nat /\ MAX_DATA_LENGTH \in Nat
  /\ HEADER_SIZE < MAX_DATA_LENGTH
  /\ MAX_DATA_LENGTH + U8 <= U32 /\ U64 % U32 = 0
  /\ Origin \in Bytes /\ Len(Origin) \in Nat
  /\ Len(Origin) + 1 < U8 /\ (Len(Origin) + 1) % U8 = Len(Origin) + 1
<1>1. /\ U8 \in Nat /\ U32 \in Nat /\ U64 \in Nat
      /\ HEADER_SIZE \in Nat /\ MAX_DATA_LENGTH \in Nat
      /\ HEADER_SIZE < MAX_DATA_LENGTH
      /\ MAX_DATA_LENGTH + U8 <= U32 /\ U64 % U32 = 0
      /\ Origin \in Bytes /\ Len(Origin) + 1 < U8
  BY TransferAssumption
<1>2. Len(Origin) \in Nat
  BY <1>1, LengthOfBytes
<1>3. U8 \in Nat \ {0} /\ U32 \in Nat \ {0}
  BY <1>1, <1>2
<1>4. (Len(Origin) + 1) % U8 = Len(Origin) + 1
  BY <1>1, <1>2, <1>3, ModSmall
<1>5. QED
  BY <1>1, <1>2, <1>3, <1>4

\* The header tells the length of the data, as far as it can.
LEMMA MadeLengths ==
  ASSUME NEW type, NEW n \in Nat, NEW d, Len(d) \in Nat,
         (Len(Origin) + 1 + n) % U32 = Len(d) % U32
  PROVE  LET msg == Made(type, n, d)
         IN  /\ msg.type = type /\ msg.data = d /\ msg.checksum = checksum(d)
             /\ msg.origin_len = Len(Origin) + 1
             /\ msg.stringdata_len = n % U32
             /\ msg.stringdata_len \in 0..(U32 - 1)
             /\ get_data_len(msg) = Len(d) % U32
<1> DEFINE msg == Made(type, n, d)
<1>1. /\ msg.type = type /\ msg.data = d /\ msg.checksum = checksum(d)
      /\ msg.origin_len = Len(Origin) + 1
      /\ msg.stringdata_len = n % U32
  BY Sizes DEF Made
<1> HIDE DEF msg
<1>2. msg.stringdata_len \in 0..(U32 - 1)
  BY <1>1, Sizes, ModRange
<1>3. get_data_len(msg) = ((Len(Origin) + 1) + (n % U32)) % U32
  BY <1>1 DEF get_data_len
<1>4. ((Len(Origin) + 1) + (n % U32)) % U32 = (Len(Origin) + 1 + n) % U32
  <2>1. Len(Origin) + 1 \in Nat
    BY Sizes
  <2>2. QED BY <2>1, Sizes, ModSum
<1>5. QED
  BY <1>1, <1>2, <1>3, <1>4 DEF msg

LEMMA TextMade ==
  ASSUME NEW text \in Texts
  PROVE  LET msg == init_as_text(text)
         IN  /\ msg.type = "TEXT" /\ msg.checksum = checksum(msg.data)
             /\ msg.origin_len = Len(Origin) + 1
             /\ msg.stringdata_len = (Len(text) + 1) % U32
             /\ msg.stringdata_len \in 0..(U32 - 1)
             /\ get_data_len(msg) = Len(msg.data) % U32
             /\ msg = Made("TEXT", Len(text) + 1, msg.data)
             /\ Laid(msg.data, text, <<>>)
             /\ text \in Bytes /\ NUL \notin Range(text)
<1> DEFINE d == Origin \o <<NUL>> \o text \o <<NUL>>
           msg == init_as_text(text)
<1>1. text \in Bytes /\ NUL \notin Range(text) /\ <<>> \in Bytes /\ Len(<<>>) = 0
  BY TransferAssumption, EmptySeq DEF Bytes
<1>2. Laid(d, text, <<>>)
  <2>1. Laid(d \o <<>>, text, <<>>)
    BY <1>1, ConcatLaid
  <2>2. d \in Seq(0..255)
    <3>1. Origin \in Bytes /\ NUL \in 0..255
      BY Sizes DEF NUL
    <3>2. Origin \o <<NUL>> \in Bytes
      BY <3>1, JoinByte
    <3>3. Origin \o <<NUL>> \o text \in Bytes
      BY <1>1, <3>2, JoinBytes
    <3>4. d \in Bytes
      BY <3>1, <3>3, JoinByte
    <3>5. QED BY <3>4 DEF Bytes
  <2> HIDE DEF d
  <2>3. d \o <<>> = d
    BY <2>2, ConcatEmptySeq
  <2>4. QED BY <2>1, <2>3
<1> HIDE DEF d
<1>3. Len(d) = Len(Origin) + 1 + (Len(text) + 1) /\ Len(text) \in Nat
  <2>1. Len(text) \in Nat
    BY <1>1, LengthOfBytes
  <2>2. Len(d) = Len(Origin) + 1 + Len(text) + 1 + 0
    BY <1>1, <1>2 DEF Laid
  <2>3. QED BY <2>1, <2>2, Sizes
<1>4. Len(text) + 1 \in Nat /\ Len(d) \in Nat
  BY <1>3, Sizes
<1>5. msg = Made("TEXT", Len(text) + 1, d)
  BY DEF init_as_text, d
<1>6. /\ msg.type = "TEXT" /\ msg.data = d /\ msg.checksum = checksum(d)
      /\ msg.origin_len = Len(Origin) + 1
      /\ msg.stringdata_len = (Len(text) + 1) % U32
      /\ msg.stringdata_len \in 0..(U32 - 1)
      /\ get_data_len(msg) = Len(d) % U32
  BY <1>3, <1>4, <1>5, MadeLengths
<1> HIDE DEF msg
<1>7. msg = Made("TEXT", Len(text) + 1, msg.data)
  BY <1>5, <1>6
<1>8. QED
  BY <1>1, <1>2, <1>6, <1>7 DEF msg

\* What the vector has of a file that could be opened.
LEMMA ContainedBytes ==
  ASSUME NEW bytes \in Bytes, NEW size \in Nat, size # U64 - 1
  PROVE  /\ Contained(bytes, size) \in Bytes
         /\ Len(Contained(bytes, size)) = size
         /\ size = Len(bytes) => Contained(bytes, size) = bytes
<1> DEFINE t == Contained(bytes, size)
<1>1. t = [i \in 1..size |-> IF i \in DOMAIN bytes THEN bytes[i] ELSE 0]
  BY DEF Contained
<1>2. /\ Len(bytes) \in Nat /\ DOMAIN bytes = 1..Len(bytes)
      /\ \A i \in 1..Len(bytes) : bytes[i] \in 0..255
  BY LengthOfBytes
<1>3. t \in [1..size -> 0..255]
  BY <1>1, <1>2
<1>4. t \in Seq(0..255) /\ Len(t) = size
  BY <1>3
<1>5. ASSUME size = Len(bytes) PROVE t = bytes
  <2>1. \A i \in 1..Len(t) : t[i] = bytes[i]
    BY <1>1, <1>2, <1>4, <1>5
  <2>2. bytes \in Seq(0..255)
    BY DEF Bytes
  <2> HIDE DEF t
  <2>3. QED BY <1>4, <1>5, <2>1, <2>2, SeqEqual
<1>6. QED
  BY <1>4, <1>5 DEF Bytes

LEMMA PathName ==
  ASSUME NEW path \in Paths
  PROVE  /\ path \in Bytes
         /\ out_filepath(path) \in Bytes
         /\ NUL \notin Range(out_filepath(path))
         /\ Len(out_filepath(path)) \in Nat /\ Len(path) \in Nat
         /\ Len(out_filepath(path)) <= Len(path)
<1>1. path \in Bytes /\ NUL \notin Range(path)
  BY TransferAssumption
<1>2. QED
  BY <1>1, NameFound, LengthOfBytes

\* The file could be opened: the vector has room for everything.
LEMMA FileMade ==
  ASSUME NEW path \in Paths, NEW bytes \in Contents,
         NEW other \in Contents, NEW size, size = Len(other)
  PROVE  LET msg == init_as_file(path, bytes, size)
             name == out_filepath(path)
         IN  /\ msg.type = "WRITE_FILE" /\ msg.checksum = checksum(msg.data)
             /\ msg.origin_len = Len(Origin) + 1
             /\ msg.stringdata_len = (Len(name) + 1 + size) % U32
             /\ msg.stringdata_len \in 0..(U32 - 1)
             /\ get_data_len(msg) = Len(msg.data) % U32
             /\ msg = Made("WRITE_FILE", Len(name) + 1 + size, msg.data)
             /\ Laid(msg.data, name, Contained(bytes, size))
             /\ size \in 0..(U64 - 2)
<1> DEFINE name == out_filepath(path)
           held == Contained(bytes, size)
           full == Origin \o <<NUL>> \o name \o <<NUL>> \o held
           total == Len(Origin) + 1 + Len(name) + 1 + size
           msg == init_as_file(path, bytes, size)
<1>1. /\ name \in Bytes /\ Len(name) \in Nat
      /\ Len(path) \in Nat /\ Len(name) <= Len(path)
  BY PathName
<1>2. bytes \in Bytes /\ other \in Bytes /\ size \in Nat
  BY TransferAssumption, LengthOfBytes
<1>3. Len(Origin) + Len(path) + size + 2 < U64
  BY TransferAssumption
<1> HIDE DEF name
<1>4. total \in Nat /\ total < U64 /\ size <= U64 - 2 /\ size # U64 - 1
  BY <1>1, <1>2, <1>3, Sizes
<1>5. held \in Bytes /\ Len(held) = size
  BY <1>2, <1>4, ContainedBytes
<1> HIDE DEF held
<1>6. Laid(full, name, held)
  BY <1>1, <1>5, ConcatLaid
<1>7. full \in Bytes /\ Len(full) = total
  BY <1>5, <1>6 DEF Laid
<1>8. total % U64 = total
  <2> HIDE DEF total
  <2>1. U64 \in Nat \ {0}
    BY <1>4, Sizes
  <2>2. QED BY <1>4, <2>1, ModSmall
<1> HIDE DEF full
<1>9. msg = Made("WRITE_FILE", Len(name) + 1 + size, full)
  <2>1. msg = Made("WRITE_FILE", Len(name) + 1 + size, SubSeq(full, 1, total % U64))
    BY DEF init_as_file, full, name, held
  <2> HIDE DEF msg, total
  <2>2. SubSeq(full, 1, total % U64) = full
    BY <1>7, <1>8, Whole
  <2>3. QED BY <2>1, <2>2
<1> HIDE DEF msg
<1>10. Len(name) + 1 + size \in Nat /\ Len(full) \in Nat
  BY <1>1, <1>2, <1>4, <1>7
<1>11. Len(Origin) + 1 + (Len(name) + 1 + size) = total
  BY <1>1, <1>2, Sizes
<1> HIDE DEF total
<1>12. /\ msg.type = "WRITE_FILE" /\ msg.data = full /\ msg.checksum = checksum(full)
       /\ msg.origin_len = Len(Origin) + 1
       /\ msg.stringdata_len = (Len(name) + 1 + size) % U32
       /\ msg.stringdata_len \in 0..(U32 - 1)
       /\ get_data_len(msg) = Len(full) % U32
  BY <1>7, <1>9, <1>10, <1>11, MadeLengths
<1>13. size \in 0..(U64 - 2)
  BY <1>2, <1>4, Sizes
<1>14. QED
  BY <1>6, <1>9, <1>12, <1>13 DEF msg, name, held

\* The file could not be opened: the sum of the sizes has wrapped.
LEMMA UnopenedMade ==
  ASSUME NEW path \in Paths, NEW bytes \in Contents
  PROVE  LET msg == init_as_file(path, bytes, U64 - 1)
             name == out_filepath(path)
         IN  /\ msg.type = "WRITE_FILE" /\ msg.checksum = checksum(msg.data)
             /\ msg.origin_len = Len(Origin) + 1
             /\ msg.stringdata_len = Len(name) % U32
             /\ msg.stringdata_len \in 0..(U32 - 1)
             /\ get_data_len(msg) = Len(msg.data) % U32
             /\ msg = Made("WRITE_FILE", Len(name) + 1 + (U64 - 1), msg.data)
             /\ msg.data \in Bytes /\ Len(msg.data) = Len(Origin) + 1 + Len(name)
             /\ \A i \in 1..Len(name) : msg.data[Len(Origin) + 1 + i] = name[i]
             /\ U64 - 1 \in Nat
<1> DEFINE name == out_filepath(path)
           full == Origin \o <<NUL>> \o name \o <<NUL>> \o <<>>
           total == Len(Origin) + 1 + Len(name)
           sum == Len(Origin) + 1 + Len(name) + 1 + (U64 - 1)
           d == SubSeq(full, 1, total)
           msg == init_as_file(path, bytes, U64 - 1)
<1>1. /\ name \in Bytes /\ Len(name) \in Nat
      /\ Len(path) \in Nat /\ Len(name) <= Len(path)
  BY PathName
<1>2. Len(Origin) + Len(path) + Len(bytes) + 2 < U64 /\ Len(bytes) \in Nat
  BY TransferAssumption, LengthOfBytes
<1> HIDE DEF name
<1>3. total \in Nat /\ total < U64 /\ U64 - 1 \in Nat /\ U64 \in Nat \ {0}
  BY <1>1, <1>2, Sizes
<1>4. sum % U64 = total
  <2>1. sum = U64 * 1 + total
    BY <1>1, <1>3, Sizes
  <2> HIDE DEF total, sum
  <2>2. (U64 * 1 + total) % U64 = total
    BY <1>3, ModUnique
  <2>3. QED BY <2>1, <2>2
<1>5. <<>> \in Bytes /\ Len(<<>>) = 0
  BY EmptySeq DEF Bytes
<1>6. Laid(full, name, <<>>)
  BY <1>1, <1>5, ConcatLaid
<1>7. /\ full \in Bytes /\ Len(full) = total + 1
      /\ \A i \in 1..Len(name) : full[Len(Origin) + 1 + i] = name[i]
  BY <1>1, <1>5, <1>6, Sizes DEF Laid
<1> HIDE DEF full
<1>8. d \in Bytes /\ Len(d) = total /\ \A i \in 1..total : d[i] = full[i]
  <2> HIDE DEF total
  <2>1. \A i \in 1..total : full[i] \in 0..255
    <3>1. \A i \in 1..Len(full) : full[i] \in 0..255
      BY <1>7, LengthOfBytes
    <3>2. QED BY <1>3, <1>7, <3>1
  <2>2. /\ d \in Seq(0..255) /\ Len(d) = IF 1 <= total THEN total - 1 + 1 ELSE 0
        /\ \A i \in 1..(total - 1 + 1) : d[i] = full[1 + i - 1]
    BY <1>3, <2>1, SubSeqProperties
  <2> HIDE DEF d
  <2>3. QED BY <1>3, <2>2 DEF Bytes
<1> HIDE DEF d
<1>9. \A i \in 1..Len(name) : d[Len(Origin) + 1 + i] = name[i]
  BY <1>1, <1>7, <1>8, Sizes
<1>10. msg = Made("WRITE_FILE", Len(name) + 1 + (U64 - 1), d)
  <2>1. Contained(bytes, U64 - 1) = <<>>
    BY DEF Contained
  <2>2. msg = Made("WRITE_FILE", Len(name) + 1 + (U64 - 1), SubSeq(full, 1, sum % U64))
    BY <2>1 DEF init_as_file, full, name
  <2> HIDE DEF msg, sum, total
  <2>3. QED BY <1>4, <2>2 DEF d
<1> HIDE DEF msg
<1>11. Len(name) + 1 + (U64 - 1) = Len(name) + U64 /\ Len(name) + U64 \in Nat
  BY <1>1, Sizes
<1>12. (Len(Origin) + 1 + (Len(name) + U64)) % U32 = Len(d) % U32
  <2>1. Len(Origin) + 1 + (Len(name) + U64) = total + U64
    BY <1>1, Sizes
  <2> HIDE DEF total
  <2>2. (total + U64) % U32 = total % U32
    BY <1>3, Sizes, ModMultiple
  <2>3. QED BY <1>8, <2>1, <2>2
<1>13. /\ msg.type = "WRITE_FILE" /\ msg.data = d /\ msg.checksum = checksum(d)
       /\ msg.origin_len = Len(Origin) + 1
       /\ msg.stringdata_len = (Len(name) + U64) % U32
       /\ msg.stringdata_len \in 0..(U32 - 1)
       /\ get_data_len(msg) = Len(d) % U32
  <2>1. Len(d) \in Nat
    BY <1>3, <1>8
  <2>2. QED BY <1>10, <1>11, <1>12, <2>1, MadeLengths
<1>14. (Len(name) + U64) % U32 = Len(name) % U32
  BY <1>1, Sizes, ModMultiple
<1>15. QED
  BY <1>3, <1>8, <1>9, <1>10, <1>13, <1>14 DEF msg, name

-----------------------------------------------------------------------------
(* The messages that are taken apart. *)

\* A reader gets the whole message, if the header can tell its length.
LEMMA ReadsAll ==
  ASSUME NEW msg, NEW type, NEW n, msg = Made(type, n, msg.data),
         msg.data \in Bytes, Len(msg.data) < U32,
         get_data_len(msg) = Len(msg.data) % U32
  PROVE  Read(msg) = msg
<1>1. Len(msg.data) \in Nat
  BY LengthOfBytes
<1>2. get_data_len(msg) = Len(msg.data)
  BY <1>1, Sizes, ModSmall
<1>3. SubSeq(msg.data, 1, get_data_len(msg)) = msg.data
  BY <1>2, Whole
<1>4. Read(msg) = [msg EXCEPT !.data = msg.data]
  BY <1>3 DEF Read
<1>5. [msg EXCEPT !.data = msg.data] = msg
  BY DEF Made
<1>6. QED
  BY <1>4, <1>5

LEMMA TextArrives ==
  ASSUME NEW text \in Texts, Len(init_as_text(text).data) < U32
  PROVE  LET msg == Read(init_as_text(text))
         IN  /\ Inside(msg)
             /\ Taken(msg).type = "TEXT" /\ Taken(msg).intact
             /\ Taken(msg).origin = Origin
             /\ Taken(msg).string = text
<1> DEFINE msg == init_as_text(text)
<1>1. /\ msg.type = "TEXT" /\ msg.checksum = checksum(msg.data)
      /\ msg.origin_len = Len(Origin) + 1
      /\ get_data_len(msg) = Len(msg.data) % U32
      /\ msg = Made("TEXT", Len(text) + 1, msg.data)
      /\ Laid(msg.data, text, <<>>)
      /\ text \in Bytes /\ NUL \notin Range(text)
  BY TextMade
<1>2. Len(msg.data) < U32
  OBVIOUS
<1> HIDE DEF msg
<1>3. msg.data \in Bytes
  BY <1>1 DEF Laid
<1>4. Read(msg) = msg
  BY <1>1, <1>2, <1>3, ReadsAll
<1>5. /\ StringAt(msg.data, 0) = Origin
      /\ Ends(msg.data, Len(Origin) + 1) # {}
      /\ StringAt(msg.data, Len(Origin) + 1) = text
  <2>1. <<>> \in Bytes
    BY EmptySeq DEF Bytes
  <2>2. QED BY <1>1, <2>1, LaidFound
<1>6. Inside(msg)
  BY <1>1, <1>5 DEF Inside
<1>7. /\ Taken(msg).type = "TEXT" /\ Taken(msg).intact
      /\ Taken(msg).origin = Origin /\ Taken(msg).string = text
  BY <1>1, <1>5 DEF Taken
<1>8. QED
  BY <1>4, <1>6, <1>7 DEF msg

LEMMA FileArrives ==
  ASSUME NEW path \in Paths, NEW bytes \in Contents,
         NEW other \in Contents, NEW size, size = Len(other),
         Len(init_as_file(path, bytes, size).data) < U32
  PROVE  LET msg == Read(init_as_file(path, bytes, size))
         IN  /\ Inside(msg)
             /\ Taken(msg).type = "WRITE_FILE" /\ Taken(msg).intact
             /\ Taken(msg).origin = Origin
             /\ Taken(msg).string = out_filepath(path)
             /\ Taken(msg).bytes = Contained(bytes, size)
<1> DEFINE msg == init_as_file(path, bytes, size)
           name == out_filepath(path)
           held == Contained(bytes, size)
<1>1. /\ msg.type = "WRITE_FILE" /\ msg.checksum = checksum(msg.data)
      /\ msg.origin_len = Len(Origin) + 1
      /\ msg.stringdata_len = (Len(name) + 1 + size) % U32
      /\ get_data_len(msg) = Len(msg.data) % U32
      /\ msg = Made("WRITE_FILE", Len(name) + 1 + size, msg.data)
      /\ Laid(msg.data, name, held)
      /\ size \in 0..(U64 - 2)
  BY FileMade
<1>2. Len(msg.data) < U32
  OBVIOUS
<1>3. name \in Bytes /\ NUL \notin Range(name) /\ Len(name) \in Nat
  BY PathName
<1> HIDE DEF msg, name
<1>4. /\ size \in Nat /\ held \in Bytes /\ Len(held) = size
  <2>1. size \in Nat /\ size # U64 - 1 /\ bytes \in Bytes
    BY <1>1, Sizes, TransferAssumption
  <2>2. QED BY <2>1, ContainedBytes
<1> HIDE DEF held
<1>5. /\ msg.data \in Bytes
      /\ Len(msg.data) = Len(Origin) + 1 + Len(name) + 1 + size
  BY <1>1, <1>4 DEF Laid
<1>6. Read(msg) = msg
  BY <1>1, <1>2, <1>5, ReadsAll
<1>7. /\ StringAt(msg.data, 0) = Origin
      /\ Ends(msg.data, Len(Origin) + 1) # {}
      /\ strlen(msg.data, Len(Origin) + 1) = Len(name)
      /\ StringAt(msg.data, Len(Origin) + 1) = name
      /\ SubSeq(msg.data, Len(Origin) + Len(name) + 3, Len(msg.data)) = held
  BY <1>1, <1>3, <1>4, LaidFound
<1>8. get_file_buffer_len(msg) = size
  <2>1. msg.stringdata_len = Len(name) + 1 + size
    <3>1. Len(name) + 1 + size \in Nat /\ Len(name) + 1 + size < U32
      BY <1>2, <1>3, <1>4, <1>5, Sizes
    <3>2. QED BY <1>1, <3>1, Sizes, ModSmall
  <2>2. msg.stringdata_len - strlen(msg.data, msg.origin_len) - 1 = size
    BY <1>1, <1>3, <1>4, <1>7, <2>1
  <2>3. size % U32 = size
    <3>1. size < U32
      BY <1>2, <1>3, <1>4, <1>5, Sizes
    <3>2. QED BY <1>4, <3>1, Sizes, ModSmall
  <2>4. QED BY <2>2, <2>3 DEF get_file_buffer_len
<1>9. get_file_buffer(msg) = Len(Origin) + Len(name) + 2
  <2>1. msg.origin_len + strlen(msg.data, msg.origin_len) + 1
          = (Len(Origin) + 1) + Len(name) + 1
    BY <1>1, <1>7
  <2>2. Len(Origin) \in Nat
    BY Sizes
  <2>3. QED BY <1>3, <2>1, <2>2 DEF get_file_buffer
<1>10. /\ get_file_buffer(msg) + 1 = Len(Origin) + Len(name) + 3
       /\ get_file_buffer(msg) + get_file_buffer_len(msg) = Len(msg.data)
  BY <1>3, <1>4, <1>5, <1>8, <1>9, Sizes
<1>11. Inside(msg)
  <2>1. Len(msg.data) <= Len(msg.data)
    BY <1>3, <1>4, <1>5, Sizes
  <2>2. QED BY <1>1, <1>7, <1>10, <2>1 DEF Inside
<1>12. /\ Taken(msg).type = "WRITE_FILE" /\ Taken(msg).intact
       /\ Taken(msg).origin = Origin /\ Taken(msg).string = name
       /\ Taken(msg).bytes = held
  BY <1>1, <1>7, <1>10 DEF Taken
<1>13. QED
  BY <1>6, <1>11, <1>12 DEF msg, name, held

\* The name of a file that could not be opened has no end.
LEMMA UnopenedOutside ==
  ASSUME NEW path \in Paths, NEW bytes \in Contents,
         Len(init_as_file(path, bytes, U64 - 1).data) < U32
  PROVE  ~Inside(Read(init_as_file(path, bytes, U64 - 1)))
<1> DEFINE msg == init_as_file(path, bytes, U64 - 1)
           name == out_filepath(path)
<1>1. /\ msg.origin_len = Len(Origin) + 1
      /\ get_data_len(msg) = Len(msg.data) % U32
      /\ msg = Made("WRITE_FILE", Len(name) + 1 + (U64 - 1), msg.data)
      /\ msg.data \in Bytes /\ Len(msg.data) = Len(Origin) + 1 + Len(name)
      /\ \A i \in 1..Len(name) : msg.data[Len(Origin) + 1 + i] = name[i]
  BY UnopenedMade
<1>2. Len(msg.data) < U32
  OBVIOUS
<1>3. name \in Bytes /\ NUL \notin Range(name) /\ Len(name) \in Nat
  BY PathName
<1> HIDE DEF msg, name
<1>4. Read(msg) = msg
  BY <1>1, <1>2, ReadsAll
<1>5. DOMAIN msg.data = 1..Len(msg.data) /\ DOMAIN name = 1..Len(name)
  BY <1>1, <1>3, LengthOfBytes
<1>6. ASSUME NEW i \in DOMAIN msg.data, i > Len(Origin) + 1, msg.data[i] = NUL
      PROVE  FALSE
  <2> DEFINE j == i - (Len(Origin) + 1)
  <2>1. j \in 1..Len(name) /\ Len(Origin) + 1 + j = i
    <3>1. i \in 1..(Len(Origin) + 1 + Len(name)) /\ i > Len(Origin) + 1
      BY <1>1, <1>5, <1>6
    <3>2. Len(Origin) \in Nat /\ Len(name) \in Nat
      BY <1>3, Sizes
    <3>3. QED BY <3>1, <3>2
  <2> HIDE DEF j
  <2>2. name[j] = NUL
    BY <1>1, <1>6, <2>1
  <2>3. QED BY <1>3, <1>5, <2>1, <2>2 DEF Range
<1>7. Ends(msg.data, Len(Origin) + 1) = {}
  BY <1>6 DEF Ends
<1>8. ~Inside(msg)
  BY <1>1, <1>7 DEF Inside
<1>9. QED
  BY <1>4, <1>8 DEF msg

-----------------------------------------------------------------------------
(* The invariant. *)

Sent == {"sent", "accepted", "received", "refused", "outside"}

\* What the constructor makes of what was typed and measured.
Built ==
  IF typed.type = "TEXT" THEN init_as_text(typed.string)
  ELSE init_as_file(typed.string, file.bytes, file_size)

\* The message is there once it is sent, and what it was made of stays.
MessageInv ==
  IF stage \in Sent THEN message = Built ELSE message = Nothing

\* What tellg() can return.
Measured(size) == size = U64 - 1 \/ \E bytes \in Contents : size = Len(bytes)

\* The size is that of the file at some time; if nobody changed the file, it is
\* that of the file, and was checked.
SizeInv ==
  /\ typed.type = "TEXT" => stage \in {"typed"} \cup Sent
  /\ stage = "fits" /\ changes = 0 => Len(file.bytes) <= MaxFileSize
  /\ typed.type = "WRITE_FILE" /\ stage \in {"open"} \cup Sent =>
       /\ Measured(file_size)
       /\ changes = 0 => file_size = tellg /\ Len(file.bytes) <= MaxFileSize

\* How a message ends.
EndInv ==
  /\ stage = "refused" => bad_header(message)
  /\ stage = "received" => Inside(Read(message)) /\ received = Taken(Read(message))
  /\ stage = "outside" => file_size = U64 - 1 \/ ~Inside(Read(message))

IInv == TypeOK /\ MessageInv /\ SizeInv /\ EndInv

-----------------------------------------------------------------------------
(* What the invariant is preserved by. *)

LEMMA TypedIs ==
  ASSUME typed \in Typed
  PROVE  /\ typed.type = "TEXT" => typed.string \in Texts
         /\ typed.type = "WRITE_FILE" => typed.string \in Paths
         /\ typed.type \in {"TEXT", "WRITE_FILE"}
BY DEF Typed

LEMMA FileIs ==
  ASSUME file \in File
  PROVE  /\ file.bytes \in Contents
         /\ Measured(tellg)
BY DEF File, Measured, tellg

LEMMA SizeIs ==
  ASSUME NEW size, Measured(size), Paths # {}, Contents # {}
  PROVE  size \in 0..(U64 - 1)
<1>1. PICK path \in Paths, some \in Contents : TRUE
  OBVIOUS
<1>2. CASE size = U64 - 1
  <2>1. U64 - 1 \in Nat
    BY <1>1, UnopenedMade
  <2>2. QED BY <1>2, <2>1, Sizes
<1>3. CASE \E bytes \in Contents : size = Len(bytes)
  <2>1. PICK bytes \in Contents : size = Len(bytes)
    BY <1>3
  <2>2. size \in 0..(U64 - 2)
    BY <1>1, <2>1, FileMade
  <2>3. QED BY <2>2, Sizes
<1>4. QED
  BY <1>2, <1>3 DEF Measured

\* The message that is sent has the type of what was typed, lengths in range,
\* and a header that tells the length of the data as far as it can.
LEMMA BuiltIs ==
  ASSUME typed \in Typed, file \in File,
         typed.type = "WRITE_FILE" => Measured(file_size)
  PROVE  /\ Built.type = typed.type /\ Built # Nothing
         /\ Built.origin_len \in 0..(U8 - 1)
         /\ Built.stringdata_len \in 0..(U32 - 1)
         /\ Built.data \in Bytes
         /\ get_data_len(Built) = Len(Built.data) % U32
<1> DEFINE Good(msg) == /\ msg.type = typed.type
                        /\ msg.origin_len = Len(Origin) + 1
                        /\ msg.stringdata_len \in 0..(U32 - 1)
                        /\ msg.data \in Bytes
                        /\ get_data_len(msg) = Len(msg.data) % U32
<1>1. ASSUME typed.type = "TEXT" PROVE Good(Built)
  <2>1. typed.string \in Texts /\ Built = init_as_text(typed.string)
    BY <1>1, TypedIs DEF Built
  <2>2. Good(init_as_text(typed.string))
    BY <1>1, <2>1, TextMade DEF Laid
  <2>3. QED BY <2>1, <2>2
<1>2. ASSUME typed.type = "WRITE_FILE" PROVE Good(Built)
  <2>1. /\ typed.string \in Paths /\ file.bytes \in Contents
        /\ Built = init_as_file(typed.string, file.bytes, file_size)
    BY <1>2, TypedIs, FileIs DEF Built
  <2>2. CASE file_size = U64 - 1
    <3>1. Good(init_as_file(typed.string, file.bytes, U64 - 1))
      BY <1>2, <2>1, UnopenedMade
    <3>2. QED BY <2>1, <2>2, <3>1
  <2>3. CASE \E bytes \in Contents : file_size = Len(bytes)
    <3>1. PICK bytes \in Contents : file_size = Len(bytes)
      BY <2>3
    <3>2. Good(init_as_file(typed.string, file.bytes, file_size))
      BY <1>2, <2>1, <3>1, FileMade DEF Laid
    <3>3. QED BY <2>1, <3>2
  <2>4. QED BY <1>2, <2>2, <2>3 DEF Measured
<1>3. Good(Built)
  BY <1>1, <1>2, TypedIs
<1> HIDE DEF Good
<1>4. /\ Built.type = typed.type /\ Built.origin_len = Len(Origin) + 1
      /\ Built.stringdata_len \in 0..(U32 - 1) /\ Built.data \in Bytes
      /\ get_data_len(Built) = Len(Built.data) % U32
  BY <1>3 DEF Good
<1>5. Built # Nothing
  <2>1. Nothing.type = "RESERVED" /\ typed.type # "RESERVED"
    BY TypedIs DEF Nothing
  <2>2. QED BY <1>4, <2>1
<1>6. Built.origin_len \in 0..(U8 - 1)
  BY <1>4, Sizes
<1>7. QED
  BY <1>4, <1>5, <1>6

LEMMA InitInvariant == Init => IInv
<1> SUFFICES ASSUME Init PROVE IInv
  OBVIOUS
<1>1. /\ typed \in Typed /\ file \in File /\ changes = 0 /\ stage = "typed"
      /\ file_size = 0 /\ message = Nothing /\ received = Nothing
  BY DEF Init
<1>2. 0 \in 0..(U64 - 1)
  <2>1. U32 \in Nat \ {0} /\ U64 \in Nat
    BY Sizes
  <2>2. U32 <= U64
    BY TransferAssumption
  <2>3. QED BY <2>1, <2>2
<1>3. TypeOK
  BY <1>1, <1>2, TransferAssumption DEF TypeOK
<1>4. MessageInv /\ SizeInv /\ EndInv
  BY <1>1 DEF MessageInv, SizeInv, EndInv, Sent
<1>5. QED BY <1>3, <1>4 DEF IInv

\* While a file is looked at, nothing else is known than what it is and how
\* large it was.
LEMMA LooksForFilePreserves ==
  ASSUME IInv, LooksForFile PROVE IInv'
<1>1. /\ typed.type = "WRITE_FILE" /\ stage = "typed" /\ stage' \in {"found", "not sent"}
      /\ typed' = typed /\ changes' = changes /\ file' = file
      /\ file_size' = file_size /\ message' = message /\ received' = received
  BY DEF LooksForFile, At, Unbuilt
<1>2. TypeOK'
  BY <1>1 DEF IInv, TypeOK
<1>3. MessageInv' /\ SizeInv' /\ EndInv'
  BY <1>1 DEF IInv, MessageInv, SizeInv, EndInv, Sent
<1>4. QED BY <1>2, <1>3 DEF IInv

LEMMA ChecksSizePreserves ==
  ASSUME IInv, ChecksSize PROVE IInv'
<1>1. /\ stage = "found" /\ stage' \in {"threw", "not sent", "fits"}
      /\ stage' = "fits" => ~(Len(file.bytes) > MaxFileSize)
      /\ typed' = typed /\ changes' = changes /\ file' = file
      /\ file_size' = file_size /\ message' = message /\ received' = received
  BY DEF ChecksSize, At, Unbuilt
<1>2. TypeOK'
  BY <1>1 DEF IInv, TypeOK
<1>3. MessageInv' /\ EndInv'
  BY <1>1 DEF IInv, MessageInv, EndInv, Sent
<1>4. typed.type # "TEXT"
  BY <1>1 DEF IInv, SizeInv, Sent
<1>5. ASSUME stage' = "fits" PROVE Len(file.bytes) <= MaxFileSize
  <2>1. file.bytes \in Bytes
    BY FileIs, TransferAssumption DEF IInv, TypeOK
  <2>2. Len(file.bytes) \in Nat /\ MaxFileSize \in Int
    BY <2>1, LengthOfBytes, Sizes DEF MaxFileSize
  <2>3. QED BY <1>1, <1>5, <2>2
<1>6. SizeInv'
  BY <1>1, <1>4, <1>5 DEF SizeInv, Sent, MaxFileSize
<1>7. QED BY <1>2, <1>3, <1>6 DEF IInv

LEMMA OpensPreserves ==
  ASSUME IInv, Opens PROVE IInv'
<1>1. /\ stage = "fits" /\ stage' = "open" /\ file_size' = tellg
      /\ typed' = typed /\ changes' = changes /\ file' = file
      /\ message' = message /\ received' = received
  BY DEF Opens, At
<1>2. typed \in Typed /\ file \in File /\ typed.type = "WRITE_FILE"
  BY <1>1, TypedIs DEF IInv, TypeOK, SizeInv, Sent
<1>3. Measured(tellg) /\ typed.string \in Paths /\ file.bytes \in Contents
  BY <1>2, TypedIs, FileIs
<1>4. tellg \in 0..(U64 - 1)
  BY <1>3, SizeIs
<1>5. TypeOK'
  BY <1>1, <1>4 DEF IInv, TypeOK
<1>6. MessageInv' /\ EndInv'
  BY <1>1 DEF IInv, MessageInv, EndInv, Sent
<1>7. SizeInv'
  <2>1. Measured(file_size')
    BY <1>1, <1>3
  <2>2. tellg' = tellg
    BY <1>1 DEF tellg
  <2>3. changes = 0 => Len(file.bytes) <= MaxFileSize
    BY <1>1 DEF IInv, SizeInv
  <2>4. QED
    BY <1>1, <1>2, <2>1, <2>2, <2>3 DEF SizeInv, Sent, Measured, MaxFileSize
<1>8. QED BY <1>5, <1>6, <1>7 DEF IInv

\* Who changes the file makes the counter positive.
LEMMA FileChangesPreserves ==
  ASSUME IInv, FileChanges PROVE IInv'
<1>1. /\ stage \in {"found", "fits", "open"}
      /\ changes < MaxChanges /\ changes' = changes + 1 /\ file' \in File
      /\ typed' = typed /\ stage' = stage
      /\ file_size' = file_size /\ message' = message /\ received' = received
  BY DEF FileChanges, Unbuilt
<1>2. changes' \in 0..MaxChanges /\ changes' # 0
  <2>1. changes \in 0..MaxChanges /\ MaxChanges \in Nat
    BY TransferAssumption DEF IInv, TypeOK
  <2>2. QED BY <1>1, <2>1
<1>3. TypeOK'
  BY <1>1, <1>2 DEF IInv, TypeOK
<1>4. MessageInv' /\ EndInv'
  BY <1>1 DEF IInv, MessageInv, EndInv, Sent
<1>5. SizeInv'
  <2>1. typed.type # "TEXT"
    BY <1>1 DEF IInv, SizeInv, Sent
  <2>2. stage = "open" /\ typed.type = "WRITE_FILE" => Measured(file_size)
    BY DEF IInv, SizeInv
  <2>3. QED BY <1>1, <1>2, <2>1, <2>2 DEF SizeInv, Sent, Measured
<1>6. QED BY <1>3, <1>4, <1>5 DEF IInv

\* From then on the message is the one that was built.
LEMMA Sending ==
  ASSUME IInv, message' = Built, stage' \in Sent, stage' \in {"sent", "outside"},
         stage' = "outside" => file_size = U64 - 1,
         typed.type = "TEXT" \/ stage = "open",
         UNCHANGED <<typed, file, changes, file_size, received>>
  PROVE  IInv'
<1>1. typed \in Typed /\ file \in File
  BY DEF IInv, TypeOK
<1>2. typed.type = "WRITE_FILE" =>
        /\ Measured(file_size)
        /\ changes = 0 => file_size = tellg /\ Len(file.bytes) <= MaxFileSize
  BY DEF IInv, SizeInv
<1>3. /\ Built.origin_len \in 0..(U8 - 1)
      /\ Built.stringdata_len \in 0..(U32 - 1)
      /\ Built.data \in Bytes
  BY <1>1, <1>2, BuiltIs
<1>4. TypeOK'
  BY <1>3 DEF IInv, TypeOK
<1>5. MessageInv'
  <2>1. Built' = Built
    BY DEF Built
  <2>2. QED BY <2>1 DEF MessageInv
<1>6. SizeInv'
  <2>1. tellg' = tellg
    BY DEF tellg
  <2>2. stage' # "fits" /\ stage' # "typed"
    OBVIOUS
  <2>3. QED BY <1>2, <2>1, <2>2 DEF SizeInv, Measured, MaxFileSize
<1>7. EndInv'
  BY DEF EndInv
<1>8. QED BY <1>4, <1>5, <1>6, <1>7 DEF IInv

LEMMA SendtextPreserves ==
  ASSUME IInv, cmd_sendtext PROVE IInv'
<1>1. /\ typed.type = "TEXT" /\ stage' = "sent" /\ message' = init_as_text(typed.string)
      /\ UNCHANGED <<typed, file, changes, file_size, received>>
  BY DEF cmd_sendtext, At
<1>2. message' = Built
  BY <1>1 DEF Built
<1>3. stage' \in Sent
  BY <1>1 DEF Sent
<1>4. QED BY <1>1, <1>2, <1>3, Sending

LEMMA SendfilePreserves ==
  ASSUME IInv, cmd_sendfile PROVE IInv'
<1>1. /\ stage = "open" /\ stage' \in {"sent", "outside"}
      /\ stage' = "outside" => file_size = U64 - 1
      /\ message' = init_as_file(typed.string, file.bytes, file_size)
      /\ UNCHANGED <<typed, file, changes, file_size, received>>
  BY DEF cmd_sendfile, At
<1>2. typed.type # "TEXT"
  BY <1>1 DEF IInv, SizeInv, Sent
<1>3. message' = Built
  BY <1>1, <1>2 DEF Built
<1>4. stage' \in Sent
  BY <1>1 DEF Sent
<1>5. QED BY <1>1, <1>3, <1>4, Sending

\* Once it is sent, a message stays what it is.
LEMMA Arriving ==
  ASSUME IInv, stage \in Sent, stage' \in Sent,
         EndInv', UNCHANGED <<typed, file, changes, file_size, message>>
  PROVE  IInv'
<1>1. TypeOK'
  BY DEF IInv, TypeOK, Sent
<1>2. MessageInv'
  <2>1. Built' = Built
    BY DEF Built
  <2>2. QED BY <2>1 DEF IInv, MessageInv
<1>3. SizeInv'
  <2>1. tellg' = tellg
    BY DEF tellg
  <2>2. QED BY <2>1 DEF IInv, SizeInv, Sent, Measured, MaxFileSize
<1>4. QED BY <1>1, <1>2, <1>3 DEF IInv

LEMMA JudgedPreserves ==
  ASSUME IInv, Judged PROVE IInv'
<1>1. /\ stage = "sent" /\ stage' = IF bad_header(message) THEN "refused" ELSE "accepted"
      /\ UNCHANGED <<typed, file, changes, file_size, message, received>>
  BY DEF Judged, At, Unbuilt
<1>2. stage \in Sent /\ stage' \in Sent
  BY <1>1 DEF Sent
<1>3. EndInv'
  BY <1>1 DEF EndInv
<1>4. QED BY <1>1, <1>2, <1>3, Arriving

LEMMA TakenApartPreserves ==
  ASSUME IInv, TakenApart PROVE IInv'
<1>1. /\ stage = "accepted" /\ stage' \in {"received", "outside"}
      /\ stage' = "received" => Inside(Read(message)) /\ received' = Taken(Read(message))
      /\ stage' = "outside" => ~Inside(Read(message))
      /\ UNCHANGED <<typed, file, changes, file_size, message>>
  BY DEF TakenApart, At
<1>2. stage \in Sent /\ stage' \in Sent
  BY <1>1 DEF Sent
<1>3. EndInv'
  <2>1. stage' # "refused"
    BY <1>1
  <2>2. QED BY <1>1, <2>1 DEF EndInv
<1>4. QED BY <1>1, <1>2, <1>3, Arriving

LEMMA NextInvariant == IInv /\ [Next]_vars => IInv'
<1> SUFFICES ASSUME IInv, [Next]_vars PROVE IInv'
  OBVIOUS
<1>1. CASE cmd_sendtext
  BY <1>1, SendtextPreserves
<1>2. CASE LooksForFile
  BY <1>2, LooksForFilePreserves
<1>3. CASE ChecksSize
  BY <1>3, ChecksSizePreserves
<1>4. CASE Opens
  BY <1>4, OpensPreserves
<1>5. CASE cmd_sendfile
  BY <1>5, SendfilePreserves
<1>6. CASE FileChanges
  BY <1>6, FileChangesPreserves
<1>7. CASE Judged
  BY <1>7, JudgedPreserves
<1>8. CASE TakenApart
  BY <1>8, TakenApartPreserves
<1>9. CASE UNCHANGED vars
  BY <1>9 DEF vars, IInv, TypeOK, MessageInv, Built, SizeInv, Measured, tellg,
              MaxFileSize, EndInv, Sent
<1>10. QED
  BY <1>1, <1>2, <1>3, <1>4, <1>5, <1>6, <1>7, <1>8, <1>9 DEF Next

LEMMA Invariance == Spec => []IInv
BY InitInvariant, NextInvariant, PTL DEF Spec

-----------------------------------------------------------------------------
(* The theorems. *)

\* Every variable keeps its type: no length of the header leaves the range of
\* its C++ type, and what tellg() returns fits into a std::size_t.
THEOREM TypeCorrect == Spec => []TypeOK
<1>1. IInv => TypeOK
  BY DEF IInv
<1>2. QED BY <1>1, Invariance, PTL

\* A text that was sent is shown as it was typed.
LEMMA TextIntact ==
  ASSUME IInv, stage = "received", ~TooLongForHeader, typed.type = "TEXT"
  PROVE  /\ received.type = typed.type /\ received.intact
         /\ received.origin = Origin /\ received.string = typed.string
<1>1. /\ message = init_as_text(typed.string)
      /\ received = Taken(Read(message)) /\ message.data \in Bytes
  <2>1. message = Built /\ received = Taken(Read(message))
    BY DEF IInv, MessageInv, EndInv, Sent
  <2>2. message.data \in Bytes
    BY <2>1, BuiltIs DEF IInv, TypeOK
  <2>3. QED BY <2>1, <2>2 DEF Built
<1>2. typed.string \in Texts
  BY TypedIs DEF IInv, TypeOK
<1>3. Len(message.data) < U32
  BY <1>1, LengthOfBytes, Sizes DEF TooLongForHeader
<1>4. QED BY <1>1, <1>2, <1>3, TextArrives

\* So is a file that could be opened; and one that could not is not received.
LEMMA FileIntact ==
  ASSUME IInv, stage = "received", ~TooLongForHeader, typed.type = "WRITE_FILE"
  PROVE  /\ received.type = typed.type /\ received.intact
         /\ received.origin = Origin
         /\ IsBaseName(received.string, typed.string)
         /\ Len(received.bytes) = file_size
         /\ changes = 0 => received.bytes = file.bytes
<1>1. /\ typed.string \in Paths /\ file.bytes \in Contents /\ file.bytes \in Bytes
      /\ Measured(file_size)
      /\ changes = 0 => file_size = tellg
  BY TypedIs, FileIs, TransferAssumption DEF IInv, TypeOK, SizeInv, Sent
<1>2. /\ message = init_as_file(typed.string, file.bytes, file_size)
      /\ Inside(Read(message)) /\ received = Taken(Read(message))
      /\ message.data \in Bytes
  <2>1. message = Built /\ Inside(Read(message)) /\ received = Taken(Read(message))
    BY DEF IInv, MessageInv, EndInv, Sent
  <2>2. message.data \in Bytes
    BY <1>1, <2>1, BuiltIs DEF IInv, TypeOK
  <2>3. QED BY <2>1, <2>2 DEF Built
<1>3. Len(message.data) < U32
  BY <1>2, LengthOfBytes, Sizes DEF TooLongForHeader
<1>4. file_size # U64 - 1
  BY <1>1, <1>2, <1>3, UnopenedOutside
<1>5. PICK bytes \in Contents : file_size = Len(bytes)
  BY <1>1, <1>4 DEF Measured
<1>6. /\ received.type = "WRITE_FILE" /\ received.intact /\ received.origin = Origin
      /\ received.string = out_filepath(typed.string)
      /\ received.bytes = Contained(file.bytes, file_size)
  BY <1>1, <1>2, <1>3, <1>5, FileArrives
<1>7. /\ Len(received.bytes) = file_size
      /\ file_size = Len(file.bytes) => received.bytes = file.bytes
  <2>1. file_size \in Nat
    BY <1>5, LengthOfBytes, TransferAssumption
  <2>2. QED BY <1>1, <1>4, <1>6, <2>1, ContainedBytes
<1>8. changes = 0 => file_size = Len(file.bytes)
  BY <1>1, <1>4 DEF tellg
<1>9. IsBaseName(received.string, typed.string)
  BY <1>1, <1>6, NameFound, TransferAssumption
<1>10. QED
  BY <1>6, <1>7, <1>8, <1>9

\* What one client is shown is what the other sent, unless the message is too
\* long for its header: the accessors undo what the constructor does.
THEOREM MessagesArriveIntact == Spec => []ArrivesIntact
<1>1. ASSUME IInv PROVE ArrivesIntact
  <2>1. typed.type \in {"TEXT", "WRITE_FILE"}
    BY <1>1, TypedIs DEF IInv, TypeOK
  <2>2. QED BY <1>1, <2>1, TextIntact, FileIntact DEF ArrivesIntact
<1>2. QED BY <1>1, Invariance, PTL

\* What a length that the server refuses says about a text of n bytes, a name
\* of n bytes without a file, and a name of n bytes with a file that was checked.
LEMMA TooLongText ==
  ASSUME NEW n \in Nat, (n + 1) % U32 > MAX_DATA_LENGTH
  PROVE  n >= MAX_DATA_LENGTH
<1>1. n + 1 \in Nat
  OBVIOUS
<1>2. (n + 1) % U32 <= n + 1 /\ (n + 1) % U32 \in 0..(U32 - 1)
  BY <1>1, Sizes, ModAtMost, ModRange
<1> DEFINE s == (n + 1) % U32
<1>3. s > MAX_DATA_LENGTH /\ s <= n + 1 /\ s \in Int
  BY <1>2
<1> HIDE DEF s
<1>4. QED BY <1>3, Sizes

LEMMA TooLongUnopened ==
  ASSUME NEW n \in Nat, n % U32 > MAX_DATA_LENGTH
  PROVE  n + 1 > HEADER_SIZE
<1>1. n % U32 <= n /\ n % U32 \in 0..(U32 - 1)
  BY Sizes, ModAtMost, ModRange
<1> DEFINE s == n % U32
<1>2. s > MAX_DATA_LENGTH /\ s <= n /\ s \in Int
  BY <1>1
<1> HIDE DEF s
<1>3. QED BY <1>2, Sizes

LEMMA TooLongFile ==
  ASSUME NEW n \in Nat, NEW size \in Nat, size <= MAX_DATA_LENGTH - HEADER_SIZE,
         (n + 1 + size) % U32 > MAX_DATA_LENGTH
  PROVE  n + 1 > HEADER_SIZE
<1>1. n + 1 + size \in Nat
  OBVIOUS
<1> DEFINE m == n + 1 + size
           s == m % U32
<1>2. s <= m /\ s \in 0..(U32 - 1)
  <2> HIDE DEF m
  <2>1. m \in Nat
    BY <1>1 DEF m
  <2>2. QED BY <2>1, Sizes, ModAtMost, ModRange
<1>3. s > MAX_DATA_LENGTH /\ s \in Int
  BY <1>2
<1> HIDE DEF s
<1>4. QED BY <1>2, <1>3, Sizes

\* Of what the client agreed to send, the server refuses only a text that is too
\* long, a file with a long name, and one that was larger when it was opened than
\* the check of its size lets pass.
THEOREM RefusalsExplained == Spec => []RefusedForLength
<1>1. ASSUME IInv, stage = "refused" PROVE RefusedForLength
  <2>1. /\ typed \in Typed /\ file \in File /\ message = Built
        /\ message.type = typed.type /\ message.stringdata_len > MAX_DATA_LENGTH
    <3>1. /\ typed \in Typed /\ file \in File /\ message = Built /\ bad_header(message)
          /\ typed.type = "WRITE_FILE" => Measured(file_size)
      BY <1>1 DEF IInv, TypeOK, MessageInv, SizeInv, EndInv, Sent
    <3>2. message.type \in {"TEXT", "WRITE_FILE"} /\ message.type = typed.type
      BY <3>1, BuiltIs, TypedIs
    <3>3. QED BY <3>1, <3>2 DEF bad_header
  <2>2. ASSUME typed.type = "TEXT" PROVE Len(typed.string) >= MAX_DATA_LENGTH
    <3>1. typed.string \in Texts
      BY <2>1, <2>2, TypedIs
    <3>2. Len(typed.string) \in Nat
      BY <3>1, LengthOfBytes, TransferAssumption
    <3>3. message.stringdata_len = (Len(typed.string) + 1) % U32
      BY <2>1, <2>2, <3>1, TextMade DEF Built
    <3>4. QED BY <2>1, <3>2, <3>3, TooLongText
  <2>3. ASSUME typed.type = "WRITE_FILE", ~GrewSinceChecked
        PROVE  Len(out_filepath(typed.string)) + 1 > HEADER_SIZE
    <3> DEFINE n == Len(out_filepath(typed.string))
    <3>1. /\ typed.string \in Paths /\ file.bytes \in Contents
          /\ message = init_as_file(typed.string, file.bytes, file_size)
          /\ Measured(file_size) /\ file_size \in 0..(U64 - 1)
      BY <1>1, <2>1, <2>3, TypedIs, FileIs DEF Built, IInv, TypeOK, SizeInv, Sent
    <3>2. n \in Nat
      BY <3>1, PathName
    <3> HIDE DEF n
    <3>3. CASE file_size = U64 - 1
      <4>1. message.stringdata_len = n % U32
        BY <3>1, <3>3, UnopenedMade DEF n
      <4>2. n + 1 > HEADER_SIZE
        BY <2>1, <3>2, <4>1, TooLongUnopened
      <4>3. QED BY <4>2 DEF n
    <3>4. CASE file_size # U64 - 1
      <4>1. PICK other \in Contents : file_size = Len(other)
        BY <3>1, <3>4 DEF Measured
      <4>2. message.stringdata_len = (n + 1 + file_size) % U32
        <5>1. PICK path \in Paths, bytes \in Contents :
                 path = typed.string /\ bytes = file.bytes
          BY <3>1
        <5>2. init_as_file(path, bytes, file_size).stringdata_len
                = (Len(out_filepath(path)) + 1 + file_size) % U32
          BY <4>1, FileMade
        <5>3. QED BY <3>1, <5>1, <5>2 DEF n
      <4>3. file_size \in Nat /\ file_size <= MAX_DATA_LENGTH - HEADER_SIZE
        BY <2>3, <3>1, <3>4, Sizes DEF GrewSinceChecked, MaxFileSize
      <4>4. n + 1 > HEADER_SIZE
        BY <2>1, <3>2, <4>2, <4>3, TooLongFile
      <4>5. QED BY <4>4 DEF n
    <3>5. QED BY <3>3, <3>4
  <2>4. QED
    BY <2>1, <2>2, <2>3, TypedIs DEF RefusedForLength
<1>2. IInv => RefusedForLength
  BY <1>1 DEF RefusedForLength
<1>3. QED BY <1>2, Invariance, PTL

\* The header announces the data that follow it, up to multiples of 2^32, and
\* who takes the message apart stays inside it, unless its sender could not open
\* the file or the message is too long for its header.
THEOREM MessagesStayInside == Spec => []StaysInside
<1>1. ASSUME IInv, message # Nothing
      PROVE  get_data_len(message) = Len(message.data) % U32
  <2>1. message = Built /\ stage \in Sent
    BY <1>1 DEF IInv, MessageInv
  <2>2. QED BY <1>1, <2>1, BuiltIs DEF IInv, TypeOK, SizeInv
<1>2. ASSUME IInv, stage = "outside", ~TooLongForHeader, file_size # U64 - 1
      PROVE  FALSE
  <2>1. /\ typed \in Typed /\ file \in File /\ message = Built
        /\ ~Inside(Read(message))
        /\ typed.type = "WRITE_FILE" => Measured(file_size)
    BY <1>2 DEF IInv, TypeOK, MessageInv, SizeInv, EndInv, Sent
  <2>2. message.data \in Bytes
    BY <2>1, BuiltIs
  <2>3. Len(message.data) < U32
    BY <1>2, <2>2, LengthOfBytes, Sizes DEF TooLongForHeader
  <2>4. typed.type # "TEXT"
    <3>1. SUFFICES ASSUME typed.type = "TEXT" PROVE FALSE
      OBVIOUS
    <3>2. typed.string \in Texts /\ message = init_as_text(typed.string)
      BY <2>1, <3>1, TypedIs DEF Built
    <3>3. QED BY <2>1, <2>3, <3>2, TextArrives
  <2>5. /\ typed.string \in Paths /\ file.bytes \in Contents
        /\ message = init_as_file(typed.string, file.bytes, file_size)
    BY <2>1, <2>4, TypedIs, FileIs DEF Built
  <2>6. PICK bytes \in Contents : file_size = Len(bytes)
    BY <1>2, <2>1, <2>4, TypedIs DEF Measured
  <2>7. QED BY <2>1, <2>3, <2>5, <2>6, FileArrives
<1>3. IInv => StaysInside
  BY <1>1, <1>2 DEF StaysInside
<1>4. QED BY <1>3, Invariance, PTL
=============================================================================
