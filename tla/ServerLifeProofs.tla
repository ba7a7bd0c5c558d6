-------------------------- MODULE ServerLifeProofs --------------------------
(***************************************************************************)
(* Proofs about ServerLife, by counting what is outstanding (pending, of   *)
(* IoContext) and the handlers that carry an accepted socket.              *)
(***************************************************************************)
EXTENDS ServerLife, SequenceLemmas

\* The handlers of the operations of k of one kind.
Of(op, k) == HandlersOf(Handler, op, k)

\* Those that carry the accepted socket c.
Carrying(c) == {h \in Handler : h.do = "accept" /\ h.ec = "ok" /\ h.socket = c}

carried == [c \in Conns |-> Occurrences(ready, Carrying(c))]

-----------------------------------------------------------------------------
(* The inductive invariant. *)

\* Servers are constructed and destroyed one after the other.
Succession ==
  \A k \in Server : /\ k > servers => obj[k] = "none"
                    /\ k < servers => obj[k] = "freed"
                    /\ k = servers => obj[k] # "none"

\* Servers accept, and members read and write.
Trades ==
  \A k \in Object, op \in Kind :
    pending[k][op] # 0 => op # "connect" /\ (op = "accept" <=> k \in Server)

NeverStopped == servers = 0 \/ (servers = 1 /\ m_server)

\* An accept of every server there has been is outstanding, or its handler
\* waits; so is one read of every member, and at most one write.
OneEach ==
  /\ \A k \in Server : pending[k]["accept"] = IF k <= servers THEN 1 ELSE 0
  /\ \A c \in Conns :
       /\ pending[c]["read"] <= 1
       /\ pending[c]["write"] <= 1
       /\ obj[c] = "none" => pending[c]["read"] = 0 /\ pending[c]["write"] = 0
       /\ obj[c] = "live" => pending[c]["read"] = 1
       /\ obj[c] = "freed" /\ NeverStopped => pending[c]["read"] = 0

NothingRunsForTheDead ==
  \A k \in Object, op \in Kind : obj[k] = "freed" => ops[k][op] = 0

Threads ==
  IF m_server
  THEN IF shell = "prompt" THEN thread = "running" /\ ~stopped
                           ELSE thread # "none" /\ stopped
  ELSE shell = "prompt" /\ thread = "none" /\ ~stopped /\ Members = {}

\* An accepted socket is carried by one handler, until it is a member's.
Sockets ==
  \A c \in Conns : carried[c] <= 1 /\ (obj[c] # "none" => carried[c] = 0)

\* Once a server was stopped, the oldest handler is of a destroyed object.
StaleInFront ==
  ~NeverStopped =>
    ready # <<>> /\ obj[Head(ready).of] = "freed"

LifeInv ==
  /\ Succession
  /\ Trades
  /\ OneEach
  /\ NothingRunsForTheDead
  /\ Threads
  /\ Sockets
  /\ StaleInFront
  /\ IsFiniteSet(Members)

IInv == TypeOK /\ (Up => LifeInv)

-----------------------------------------------------------------------------
(* Counting handlers. *)

LEMMA PendingIsCounted ==
  ASSUME NEW H, ready \in Seq(H), ops \in [Object -> [Kind -> 0..1]],
         NEW k \in Object, NEW op \in Kind
  PROVE  /\ Occurrences(ready, HandlersOf(H, op, k)) \in Nat
         /\ pending[k][op] = ops[k][op] + Occurrences(ready, HandlersOf(H, op, k))
         /\ pending[k][op] = Outstanding(op, k)
         /\ pending[k][op] \in Nat
<1>1. /\ Occurrences(ready, HandlersOf(H, op, k)) \in Nat
      /\ HandlersWaiting(ready, op, k) = Occurrences(ready, HandlersOf(H, op, k))
  BY WaitingIsCounted
<1>2. Outstanding(op, k) = ops[k][op] + HandlersWaiting(ready, op, k)
  BY DEF Outstanding
<1>3. ops[k][op] \in 0..1
  OBVIOUS
<1>4. pending[k][op] = Outstanding(op, k)
  BY DEF pending
<1>5. QED
  BY <1>1, <1>2, <1>3, <1>4

\* Closing the sockets of k leaves one handler for each operation that ran, and
\* it carries an error.
LEMMA CountsOfAborted ==
  ASSUME NEW H, ops \in [Object -> [Kind -> 0..1]], NEW k \in Object,
         \A op \in Kind : ops[k][op] # 0 => Completion(op, k, "error") \in H
  PROVE  /\ Aborted(k) \in Seq(H)
         /\ \A op \in Kind : \A j : Occurrences(Aborted(k), HandlersOf(H, op, j)) =
                                  IF j = k THEN ops[k][op] ELSE 0
         /\ \A S : (\A op \in Kind : Completion(op, k, "error") \notin S) =>
                     Occurrences(Aborted(k), S) = 0
<1>1. PICK running \in [Kind -> 0..1] : running = ops[k]
  OBVIOUS
<1>2. CountsOf(AbortedOf(running, k), H, running, k)
  BY <1>1, AbortedOfCounted
<1>3. QED
  BY <1>1, <1>2 DEF CountsOf, Aborted

Typed == ready \in Seq(Handler) /\ ops \in [Object -> [Kind -> 0..1]]

Counted ==
  /\ pending \in [Object -> [Kind -> Nat]]
  /\ carried \in [Conns -> Nat]
  /\ \A k \in Object, op \in Kind :
       /\ Occurrences(ready, Of(op, k)) \in Nat
       /\ pending[k][op] = ops[k][op] + Occurrences(ready, Of(op, k))
       /\ pending[k][op] = Outstanding(op, k)
  /\ \A c \in Conns : carried[c] = Occurrences(ready, Carrying(c))

LEMMA Counts == Typed => Counted
<1> SUFFICES ASSUME Typed PROVE Counted
  OBVIOUS
<1> USE DEF Typed
<1>1. ASSUME NEW k \in Object, NEW op \in Kind
      PROVE  /\ Occurrences(ready, Of(op, k)) \in Nat
             /\ pending[k][op] = ops[k][op] + Occurrences(ready, Of(op, k))
             /\ pending[k][op] = Outstanding(op, k)
             /\ pending[k][op] \in Nat
  BY PendingIsCounted DEF Of
<1>2. ASSUME NEW c \in Conns PROVE Occurrences(ready, Carrying(c)) \in Nat
  <2>1. PICK r \in Seq(Handler) : r = ready
    OBVIOUS
  <2>2. QED BY <2>1, OccurrencesType
<1>3. pending \in [Object -> [Kind -> Nat]]
  BY <1>1 DEF pending
<1>4. QED
  BY <1>1, <1>2, <1>3 DEF Counted, carried

LEMMA CountsNext == Typed' => Counted'
BY Counts, PTL

LEMMA CountsOfAppend ==
  ASSUME NEW r \in Seq(Handler), NEW h \in Handler
  PROVE  /\ Append(r, h) \in Seq(Handler)
         /\ \A op, k : Occurrences(Append(r, h), Of(op, k)) =
              Occurrences(r, Of(op, k)) + IF h.do = op /\ h.of = k THEN 1 ELSE 0
         /\ \A c : Occurrences(Append(r, h), Carrying(c)) =
              Occurrences(r, Carrying(c))
                + IF h.do = "accept" /\ h.ec = "ok" /\ h.socket = c THEN 1 ELSE 0
<1>1. Append(r, h) \in Seq(Handler)
  BY AppendProperties
<1>2. ASSUME NEW op, NEW k
      PROVE  Occurrences(Append(r, h), Of(op, k)) =
               Occurrences(r, Of(op, k)) + IF h.do = op /\ h.of = k THEN 1 ELSE 0
  <2>1. h \in Of(op, k) <=> h.do = op /\ h.of = k
    BY DEF Of, HandlersOf
  <2>2. Occurrences(Append(r, h), Of(op, k)) =
          Occurrences(r, Of(op, k)) + IF h \in Of(op, k) THEN 1 ELSE 0
    BY OccurrencesAppend
  <2>3. QED BY <2>1, <2>2
<1>3. ASSUME NEW c
      PROVE  Occurrences(Append(r, h), Carrying(c)) = Occurrences(r, Carrying(c))
               + IF h.do = "accept" /\ h.ec = "ok" /\ h.socket = c THEN 1 ELSE 0
  <2>1. h \in Carrying(c) <=> h.do = "accept" /\ h.ec = "ok" /\ h.socket = c
    BY DEF Carrying
  <2>2. Occurrences(Append(r, h), Carrying(c)) =
          Occurrences(r, Carrying(c)) + IF h \in Carrying(c) THEN 1 ELSE 0
    BY OccurrencesAppend
  <2>3. QED BY <2>1, <2>2
<1>4. QED
  BY <1>1, <1>2, <1>3

LEMMA CountsOfTail ==
  ASSUME NEW r \in Seq(Handler), r # <<>>
  PROVE  /\ Head(r) \in Handler
         /\ Tail(r) \in Seq(Handler)
         /\ \A op, k : /\ Occurrences(Tail(r), Of(op, k)) \in Nat
                       /\ Occurrences(r, Of(op, k)) = Occurrences(Tail(r), Of(op, k))
                            + IF Head(r).do = op /\ Head(r).of = k THEN 1 ELSE 0
         /\ \A c : /\ Occurrences(Tail(r), Carrying(c)) \in Nat
                   /\ Occurrences(r, Carrying(c)) = Occurrences(Tail(r), Carrying(c))
                        + IF /\ Head(r).do = "accept"
                             /\ Head(r).ec = "ok"
                             /\ Head(r).socket = c THEN 1 ELSE 0
<1>1. Head(r) \in Handler /\ Tail(r) \in Seq(Handler)
  BY HeadTailProperties
<1> DEFINE h == Head(r)
<1> HIDE DEF h
<1>2. h \in Handler
  BY <1>1 DEF h
<1>3. ASSUME NEW op, NEW k
      PROVE  /\ Occurrences(Tail(r), Of(op, k)) \in Nat
             /\ Occurrences(r, Of(op, k)) = Occurrences(Tail(r), Of(op, k))
                  + IF h.do = op /\ h.of = k THEN 1 ELSE 0
  <2>1. h \in Of(op, k) <=> h.do = op /\ h.of = k
    BY <1>2 DEF Of, HandlersOf
  <2>2. Occurrences(r, Of(op, k)) =
          Occurrences(Tail(r), Of(op, k)) + IF h \in Of(op, k) THEN 1 ELSE 0
    BY OccurrencesTail DEF h
  <2>3. Occurrences(Tail(r), Of(op, k)) \in Nat
    BY <1>1, OccurrencesType
  <2>4. QED BY <2>1, <2>2, <2>3
<1>4. ASSUME NEW c
      PROVE  /\ Occurrences(Tail(r), Carrying(c)) \in Nat
             /\ Occurrences(r, Carrying(c)) = Occurrences(Tail(r), Carrying(c))
                  + IF h.do = "accept" /\ h.ec = "ok" /\ h.socket = c THEN 1 ELSE 0
  <2>1. h \in Carrying(c) <=> h.do = "accept" /\ h.ec = "ok" /\ h.socket = c
    BY <1>2 DEF Carrying
  <2>2. Occurrences(r, Carrying(c)) =
          Occurrences(Tail(r), Carrying(c)) + IF h \in Carrying(c) THEN 1 ELSE 0
    BY OccurrencesTail DEF h
  <2>3. Occurrences(Tail(r), Carrying(c)) \in Nat
    BY <1>1, OccurrencesType
  <2>4. QED BY <2>1, <2>2, <2>3
<1>5. QED
  BY <1>1, <1>3, <1>4 DEF h

LEMMA CountsOfConcat ==
  ASSUME NEW r \in Seq(Handler), NEW s \in Seq(Handler)
  PROVE  /\ r \o s \in Seq(Handler)
         /\ \A op, k : Occurrences(r \o s, Of(op, k)) =
              Occurrences(r, Of(op, k)) + Occurrences(s, Of(op, k))
         /\ \A c : Occurrences(r \o s, Carrying(c)) =
              Occurrences(r, Carrying(c)) + Occurrences(s, Carrying(c))
BY ConcatProperties, OccurrencesConcat

\* What Trades says of an operation makes its handler one of Handler.
LEMMA AbortedIsTyped ==
  ASSUME Typed, Trades, NEW k \in Object, NEW op \in Kind, ops[k][op] # 0
  PROVE  Completion(op, k, "error") \in Handler
<1>1. pending[k][op] # 0
  <2>1. /\ Occurrences(ready, Of(op, k)) \in Nat
        /\ pending[k][op] = ops[k][op] + Occurrences(ready, Of(op, k))
    BY Counts DEF Counted
  <2>2. ops[k][op] = 1
    BY DEF Typed
  <2>3. QED BY <2>1, <2>2
<1>2. op # "connect" /\ (op = "accept" <=> k \in Server)
  BY <1>1 DEF Trades
<1>3. k \in Server \/ k \in Conns
  BY ServerLifeAssumption
<1>4. QED
  BY <1>2, <1>3 DEF Completion, Handler, Kind

LEMMA AbortedCounts ==
  ASSUME Typed, Trades, NEW k \in Object
  PROVE  /\ Aborted(k) \in Seq(Handler)
         /\ \A op \in Kind : \A j : Occurrences(Aborted(k), Of(op, j)) =
                                  IF j = k THEN ops[k][op] ELSE 0
         /\ \A c : Occurrences(Aborted(k), Carrying(c)) = 0
<1>1. \A op \in Kind : ops[k][op] # 0 => Completion(op, k, "error") \in Handler
  BY AbortedIsTyped
<1>2. \A op : \A c : Completion(op, k, "error") \notin Carrying(c)
  BY DEF Completion, Carrying
<1>3. ops \in [Object -> [Kind -> 0..1]]
  BY DEF Typed
<1>4. /\ Aborted(k) \in Seq(Handler)
      /\ \A op \in Kind : \A j : Occurrences(Aborted(k), HandlersOf(Handler, op, j)) =
                               IF j = k THEN ops[k][op] ELSE 0
  BY <1>1, <1>3, CountsOfAborted
<1>5. ASSUME NEW c PROVE Occurrences(Aborted(k), Carrying(c)) = 0
  BY <1>1, <1>2, <1>3, CountsOfAborted
<1>6. QED
  BY <1>4, <1>5 DEF Of

LEMMA AbortedHandlersCounts ==
  ASSUME Typed, Trades, NEW ks \in Seq(Object), ks # <<>>, IsInjective(ks)
  PROVE  /\ AbortedHandlers(ks) \in Seq(Handler)
         /\ \A op \in Kind, k \in Object :
              Occurrences(AbortedHandlers(ks), Of(op, k)) =
                IF k \in Range(ks) THEN ops[k][op] ELSE 0
         /\ \A c : Occurrences(AbortedHandlers(ks), Carrying(c)) = 0
<1> DEFINE ss == [i \in DOMAIN ks |-> Aborted(ks[i])]
<1>1. /\ Len(ks) \in Nat \ {0} /\ DOMAIN ks = 1..Len(ks)
      /\ \A i \in 1..Len(ks) : ks[i] \in Object
  BY EmptySeq, LenProperties, ElementOfSeq
<1>2. Len(ss) = Len(ks) /\ \A i \in 1..Len(ks) : ss[i] = Aborted(ks[i])
  BY <1>1
<1> HIDE DEF ss
<1>3. PICK f : /\ f[1] = ss[1]
               /\ \A n \in 2..Len(ss) : f[n] = f[n - 1] \o ss[n]
               /\ FlattenSeq(ss) = f[Len(ss)]
  BY <1>1, <1>2, FlattenSeqDefined
<1> DEFINE OK(n) == /\ f[n] \in Seq(Handler)
                    /\ \A op \in Kind, k \in Object :
                         Occurrences(f[n], Of(op, k)) =
                           IF \E i \in 1..n : ks[i] = k THEN ops[k][op] ELSE 0
                    /\ \A c : Occurrences(f[n], Carrying(c)) = 0
           T == {n \in Nat : n + 1 <= Len(ks) => OK(n + 1)}
<1>4. ASSUME NEW i \in 1..Len(ks)
      PROVE  /\ ss[i] \in Seq(Handler)
             /\ \A op \in Kind, k \in Object :
                  Occurrences(ss[i], Of(op, k)) = IF k = ks[i] THEN ops[k][op] ELSE 0
             /\ \A c : Occurrences(ss[i], Carrying(c)) = 0
  BY <1>1, <1>2, AbortedCounts
<1>5. 0 \in T
  <2>1. OK(1)
    <3>1. 1 \in 1..Len(ks) /\ 1..1 = {1}
      BY <1>1
    <3>2. QED BY <1>3, <1>4, <3>1
  <2> HIDE DEF OK
  <2>2. QED BY <2>1
<1>6. ASSUME NEW n \in T PROVE n + 1 \in T
  <2>1. n \in Nat /\ n + 1 \in Nat
    OBVIOUS
  <2> DEFINE m == n + 1
  <2>2. ASSUME m + 1 <= Len(ks) PROVE OK(m + 1)
    <3>1. m \in 1..Len(ks) /\ m + 1 \in 1..Len(ks) /\ m + 1 \in 2..Len(ss)
      BY <1>1, <1>2, <2>1, <2>2
    <3>2. OK(m)
      BY <2>1, <3>1
    <3> HIDE DEF m
    <3>3. f[m + 1] = f[m] \o ss[m + 1]
      <4>1. (m + 1) - 1 = m
        BY <2>1 DEF m
      <4>2. QED BY <1>3, <3>1, <4>1
    <3>4. ss[m + 1] \in Seq(Handler)
      BY <1>4, <3>1
    <3>5. f[m + 1] \in Seq(Handler)
      BY <3>2, <3>3, <3>4, ConcatProperties
    <3>6. \A S : Occurrences(f[m + 1], S) =
                   Occurrences(f[m], S) + Occurrences(ss[m + 1], S)
      BY <3>2, <3>3, <3>4, OccurrencesConcat
    <3>7. ASSUME NEW op \in Kind, NEW k \in Object
          PROVE  Occurrences(f[m + 1], Of(op, k)) =
                   IF \E i \in 1..(m + 1) : ks[i] = k THEN ops[k][op] ELSE 0
      <4>1. ops[k][op] \in 0..1
        BY DEF Typed
      <4>2. Occurrences(f[m], Of(op, k)) =
              IF \E i \in 1..m : ks[i] = k THEN ops[k][op] ELSE 0
        BY <3>2
      <4>3. Occurrences(ss[m + 1], Of(op, k)) =
              IF k = ks[m + 1] THEN ops[k][op] ELSE 0
        BY <1>4, <3>1
      <4>4. (\E i \in 1..(m + 1) : ks[i] = k)
              <=> (\E i \in 1..m : ks[i] = k) \/ k = ks[m + 1]
        BY <3>1
      <4>5. k = ks[m + 1] => ~ \E i \in 1..m : ks[i] = k
        BY <1>1, <3>1 DEF IsInjective
      <4>6. Occurrences(f[m + 1], Of(op, k)) =
              Occurrences(f[m], Of(op, k)) + Occurrences(ss[m + 1], Of(op, k))
        BY <3>6
      <4>7. QED BY <4>1, <4>2, <4>3, <4>4, <4>5, <4>6
    <3>8. ASSUME NEW c PROVE Occurrences(f[m + 1], Carrying(c)) = 0
      BY <1>4, <3>1, <3>2, <3>6
    <3>9. QED BY <3>5, <3>7, <3>8
  <2> HIDE DEF OK
  <2>3. QED BY <2>1, <2>2
<1>7. T = Nat
  <2> HIDE DEF T
  <2>1. T \subseteq Nat
    BY DEF T
  <2>2. QED BY <1>5, <1>6, <2>1, NatInduct
<1>8. OK(Len(ks))
  <2> DEFINE n == Len(ks) - 1
  <2>1. n \in Nat /\ n + 1 = Len(ks) /\ n + 1 <= Len(ks)
    BY <1>1
  <2> HIDE DEF OK, n
  <2>2. QED BY <1>7, <2>1
<1>9. AbortedHandlers(ks) = f[Len(ks)]
  BY <1>2, <1>3 DEF AbortedHandlers, ss
<1>10. \A k : k \in Range(ks) <=> \E i \in 1..Len(ks) : ks[i] = k
  BY <1>1 DEF Range
<1>11. QED
  BY <1>8, <1>9, <1>10

-----------------------------------------------------------------------------
(* What the steps do to the counts. *)

LEMMA Kinds ==
  /\ Server \subseteq Nat \ {0}
  /\ \A k : k \in Object <=> k \in Server \/ k \in Conns
  /\ \A k \in Server : k \notin Conns
  /\ "accept" \in Kind /\ "read" \in Kind /\ "write" \in Kind
  /\ \A h \in Handler :
       /\ h.of \in Object
       /\ h.do \in Kind
       /\ h.ec \in {"ok", "error"}
       /\ \/ h.do = "accept" /\ h.of \in Server
          \/ h.do \in {"read", "write"} /\ h.of \in Conns
       /\ h.do = "accept" /\ h.ec = "ok" => h.socket \in Conns
<1>1. Server \subseteq Nat \ {0}
  BY DEF Server
<1>2. \A k : k \in Object <=> k \in Server \/ k \in Conns
  BY ServerLifeAssumption
<1>3. \A k \in Server : k \notin Conns
  BY ServerLifeAssumption
<1>4. QED
  BY <1>1, <1>2, <1>3 DEF Kind, Handler

LEMMA TypeOKImpliesTyped == TypeOK => Typed
BY DEF TypeOK, IoTypeOK, Typed

\* An operation that completes becomes a handler.
LEMMA CompletionKeepsCounts ==
  ASSUME Typed, NEW h \in Handler, ops[h.of][h.do] > 0,
         ops' = [ops EXCEPT ![h.of][h.do] = @ - 1],
         ready' = Append(ready, h)
  PROVE  /\ Typed'
         /\ \A j \in Object, o \in Kind : pending'[j][o] = pending[j][o]
         /\ \A c \in Conns : carried'[c] = carried[c]
              + IF h.do = "accept" /\ h.ec = "ok" /\ h.socket = c THEN 1 ELSE 0
         /\ ready' # <<>>
         /\ Head(ready') = IF ready = <<>> THEN h ELSE Head(ready)
<1> DEFINE k == h.of
           op == h.do
<1> k \in Object /\ op \in Kind
  BY Kinds
<1> HIDE DEF k, op
<1>1. PICK r \in Seq(Handler) : r = ready
  BY DEF Typed
<1>2. Counted
  BY Counts
<1>3. /\ Append(r, h) \in Seq(Handler)
      /\ \A o \in Kind, j \in Object : Occurrences(Append(r, h), Of(o, j)) =
           Occurrences(r, Of(o, j)) + IF h.do = o /\ h.of = j THEN 1 ELSE 0
      /\ \A c \in Conns : Occurrences(Append(r, h), Carrying(c)) =
           Occurrences(r, Carrying(c))
             + IF h.do = "accept" /\ h.ec = "ok" /\ h.socket = c THEN 1 ELSE 0
  BY CountsOfAppend
<1>4. /\ ops' \in [Object -> [Kind -> 0..1]]
      /\ \A j \in Object, o \in Kind :
           ops'[j][o] = IF j = k /\ o = op THEN ops[j][o] - 1 ELSE ops[j][o]
  <2>1. ops[k][op] = 1 /\ ops' = [ops EXCEPT ![k][op] = @ - 1]
    BY DEF Typed, k, op
  <2>2. QED BY <2>1 DEF Typed
<1>5. Typed'
  BY <1>1, <1>3, <1>4 DEF Typed
<1>6. Counted'
  BY <1>5, CountsNext
<1>7. ASSUME NEW j \in Object, NEW o \in Kind
      PROVE  pending'[j][o] = pending[j][o]
  <2>1. /\ pending[j][o] = ops[j][o] + Occurrences(r, Of(o, j))
        /\ Occurrences(r, Of(o, j)) \in Nat
        /\ ops[j][o] \in 0..1
    BY <1>1, <1>2 DEF Counted, Typed
  <2>2. pending'[j][o] = ops'[j][o] + Occurrences(Append(r, h), Of(o, j))
    BY <1>1, <1>6 DEF Counted
  <2>3. h.do = o /\ h.of = j <=> j = k /\ o = op
    BY DEF k, op
  <2>4. QED BY <1>3, <1>4, <2>1, <2>2, <2>3
<1>8. \A c \in Conns : carried'[c] = carried[c]
        + IF h.do = "accept" /\ h.ec = "ok" /\ h.socket = c THEN 1 ELSE 0
  BY <1>1, <1>2, <1>3, <1>6 DEF Counted
<1>9. /\ Append(r, h) # <<>>
      /\ Head(Append(r, h)) = IF r = <<>> THEN h ELSE Head(r)
  BY AppendProperties, HeadTailAppend
<1>10. QED
  BY <1>1, <1>5, <1>7, <1>8, <1>9

\* What waits in front.
LEMMA HeadIsCounted ==
  Typed /\ ready # <<>> =>
    /\ Head(ready) \in Handler
    /\ Tail(ready) \in Seq(Handler)
    /\ pending[Head(ready).of][Head(ready).do] >=
         ops[Head(ready).of][Head(ready).do] + 1
    /\ Head(ready).do = "accept" /\ Head(ready).ec = "ok" =>
         carried[Head(ready).socket] >= 1
<1> SUFFICES ASSUME Typed, ready # <<>>
             PROVE  /\ Head(ready) \in Handler
                    /\ Tail(ready) \in Seq(Handler)
                    /\ pending[Head(ready).of][Head(ready).do] >=
                         ops[Head(ready).of][Head(ready).do] + 1
                    /\ Head(ready).do = "accept" /\ Head(ready).ec = "ok" =>
                         carried[Head(ready).socket] >= 1
  OBVIOUS
<1>1. PICK r \in Seq(Handler) : r = ready
  BY DEF Typed
<1>2. PICK h \in Handler : h = Head(r)
  BY <1>1, CountsOfTail
<1>3. Counted
  BY Counts
<1>4. /\ Tail(r) \in Seq(Handler)
      /\ Occurrences(Tail(r), Of(h.do, h.of)) \in Nat
      /\ Occurrences(r, Of(h.do, h.of)) = Occurrences(Tail(r), Of(h.do, h.of)) + 1
  BY <1>1, <1>2, CountsOfTail
<1>5. pending[h.of][h.do] >= ops[h.of][h.do] + 1
  <2>1. h.of \in Object /\ h.do \in Kind
    BY Kinds
  <2>2. ops[h.of][h.do] \in 0..1
    BY <2>1 DEF Typed
  <2>3. QED BY <1>1, <1>3, <1>4, <2>1, <2>2 DEF Counted
<1>6. ASSUME h.do = "accept", h.ec = "ok" PROVE carried[h.socket] >= 1
  <2>1. h.socket \in Conns
    BY <1>6, Kinds
  <2>2. /\ Occurrences(Tail(r), Carrying(h.socket)) \in Nat
        /\ Occurrences(r, Carrying(h.socket)) =
             Occurrences(Tail(r), Carrying(h.socket)) + 1
    BY <1>1, <1>2, <1>6, CountsOfTail
  <2>3. QED BY <1>1, <1>3, <2>1, <2>2 DEF Counted
<1>7. QED
  BY <1>1, <1>2, <1>4, <1>5, <1>6

LEMMA HeadIsCountedNext ==
  (Typed /\ ready # <<>> =>
     /\ Head(ready) \in Handler
     /\ Tail(ready) \in Seq(Handler)
     /\ pending[Head(ready).of][Head(ready).do] >=
          ops[Head(ready).of][Head(ready).do] + 1
     /\ Head(ready).do = "accept" /\ Head(ready).ec = "ok" =>
          carried[Head(ready).socket] >= 1)'
BY HeadIsCounted, PTL

\* A handler takes itself from the counts, and what it starts adds to them.
LEMMA HandlerCounts ==
  ASSUME Typed, ready # <<>>, ready' = Tail(ready),
         ops' \in [Object -> [Kind -> 0..1]]
  PROVE  /\ Typed'
         /\ \A j \in Object, o \in Kind :
              /\ pending[j][o] \in Nat
              /\ pending'[j][o] = (pending[j][o] + ops'[j][o]) - (ops[j][o]
                   + IF Head(ready).do = o /\ Head(ready).of = j THEN 1 ELSE 0)
         /\ \A c \in Conns :
              /\ carried[c] \in Nat
              /\ carried'[c] = carried[c]
                   - IF /\ Head(ready).do = "accept"
                        /\ Head(ready).ec = "ok"
                        /\ Head(ready).socket = c THEN 1 ELSE 0
<1>1. PICK r \in Seq(Handler) : r = ready
  BY DEF Typed
<1>2. PICK h \in Handler : h = Head(r)
  BY <1>1, CountsOfTail
<1>3. /\ Tail(r) \in Seq(Handler)
      /\ \A o \in Kind, j \in Object :
           /\ Occurrences(Tail(r), Of(o, j)) \in Nat
           /\ Occurrences(r, Of(o, j)) = Occurrences(Tail(r), Of(o, j))
                + IF h.do = o /\ h.of = j THEN 1 ELSE 0
      /\ \A c \in Conns :
           /\ Occurrences(Tail(r), Carrying(c)) \in Nat
           /\ Occurrences(r, Carrying(c)) = Occurrences(Tail(r), Carrying(c))
                + IF h.do = "accept" /\ h.ec = "ok" /\ h.socket = c THEN 1 ELSE 0
  BY <1>1, <1>2, CountsOfTail
<1>4. Typed'
  BY <1>1, <1>3 DEF Typed
<1>5. Counted /\ Counted'
  BY <1>4, Counts, CountsNext
<1>6. ASSUME NEW j \in Object, NEW o \in Kind
      PROVE  /\ pending[j][o] \in Nat
             /\ pending'[j][o] = (pending[j][o] + ops'[j][o])
                  - (ops[j][o] + IF h.do = o /\ h.of = j THEN 1 ELSE 0)
  <2>1. /\ pending[j][o] \in Nat
        /\ pending[j][o] = ops[j][o] + Occurrences(r, Of(o, j))
        /\ ops[j][o] \in 0..1
        /\ ops'[j][o] \in 0..1
    BY <1>1, <1>5 DEF Counted, Typed
  <2>2. pending'[j][o] = ops'[j][o] + Occurrences(Tail(r), Of(o, j))
    BY <1>1, <1>5 DEF Counted
  <2>3. QED BY <1>3, <2>1, <2>2
<1>7. ASSUME NEW c \in Conns
      PROVE  /\ carried[c] \in Nat
             /\ carried'[c] = carried[c]
                  - IF h.do = "accept" /\ h.ec = "ok" /\ h.socket = c THEN 1 ELSE 0
  <2>1. carried[c] \in Nat /\ carried[c] = Occurrences(r, Carrying(c))
    BY <1>1, <1>5 DEF Counted
  <2>2. carried'[c] = Occurrences(Tail(r), Carrying(c))
    BY <1>1, <1>5 DEF Counted
  <2>3. QED BY <1>3, <2>1, <2>2
<1>8. QED
  BY <1>1, <1>2, <1>4, <1>6, <1>7

\* The operations of an object whose socket is closed become handlers behind
\* what waits.
LEMMA RemovalCounts ==
  ASSUME Typed, Trades, ready # <<>>, NEW c \in Object,
         ready' = Tail(ready) \o Aborted(c),
         ops' \in [Object -> [Kind -> 0..1]]
  PROVE  /\ Typed'
         /\ \A j \in Object, o \in Kind :
              /\ pending[j][o] \in Nat
              /\ pending'[j][o] =
                   (pending[j][o] + ops'[j][o] + IF j = c THEN ops[j][o] ELSE 0)
                     - (ops[j][o]
                          + IF Head(ready).do = o /\ Head(ready).of = j THEN 1 ELSE 0)
         /\ \A d \in Conns :
              /\ carried[d] \in Nat
              /\ carried'[d] = carried[d]
                   - IF /\ Head(ready).do = "accept"
                        /\ Head(ready).ec = "ok"
                        /\ Head(ready).socket = d THEN 1 ELSE 0
<1>1. PICK r \in Seq(Handler) : r = ready
  BY DEF Typed
<1>2. PICK h \in Handler : h = Head(r)
  BY <1>1, CountsOfTail
<1>3. PICK t \in Seq(Handler) : t = Tail(r)
  BY <1>1, CountsOfTail
<1>4. PICK a \in Seq(Handler) :
        /\ a = Aborted(c)
        /\ \A o \in Kind : \A j : Occurrences(a, Of(o, j)) = IF j = c THEN ops[c][o] ELSE 0
        /\ \A d : Occurrences(a, Carrying(d)) = 0
  BY AbortedCounts
<1>5. /\ \A o \in Kind, j \in Object :
           /\ Occurrences(t, Of(o, j)) \in Nat
           /\ Occurrences(r, Of(o, j)) = Occurrences(t, Of(o, j))
                + IF h.do = o /\ h.of = j THEN 1 ELSE 0
      /\ \A d \in Conns :
           /\ Occurrences(t, Carrying(d)) \in Nat
           /\ Occurrences(r, Carrying(d)) = Occurrences(t, Carrying(d))
                + IF h.do = "accept" /\ h.ec = "ok" /\ h.socket = d THEN 1 ELSE 0
  <2>1. /\ \A o \in Kind, j \in Object :
             /\ Occurrences(Tail(r), Of(o, j)) \in Nat
             /\ Occurrences(r, Of(o, j)) = Occurrences(Tail(r), Of(o, j))
                  + IF h.do = o /\ h.of = j THEN 1 ELSE 0
        /\ \A d \in Conns :
             /\ Occurrences(Tail(r), Carrying(d)) \in Nat
             /\ Occurrences(r, Carrying(d)) = Occurrences(Tail(r), Carrying(d))
                  + IF h.do = "accept" /\ h.ec = "ok" /\ h.socket = d THEN 1 ELSE 0
    BY <1>1, <1>2, CountsOfTail
  <2>2. QED BY <1>3, <2>1
<1>6. ready' = t \o a
  BY <1>1, <1>3, <1>4
<1>7. /\ t \o a \in Seq(Handler)
      /\ \A o \in Kind, j \in Object :
           Occurrences(t \o a, Of(o, j)) =
             Occurrences(t, Of(o, j)) + IF j = c THEN ops[j][o] ELSE 0
      /\ \A d \in Conns : Occurrences(t \o a, Carrying(d)) = Occurrences(t, Carrying(d))
  <2>1. /\ t \o a \in Seq(Handler)
        /\ \A o, j : Occurrences(t \o a, Of(o, j)) =
             Occurrences(t, Of(o, j)) + Occurrences(a, Of(o, j))
        /\ \A d : Occurrences(t \o a, Carrying(d)) =
             Occurrences(t, Carrying(d)) + Occurrences(a, Carrying(d))
    BY CountsOfConcat
  <2>2. QED BY <1>4, <1>5, <2>1
<1>8. Typed'
  BY <1>6, <1>7 DEF Typed
<1>9. Counted /\ Counted'
  BY <1>8, Counts, CountsNext
<1>10. ASSUME NEW j \in Object, NEW o \in Kind
       PROVE  /\ pending[j][o] \in Nat
              /\ pending'[j][o] =
                   (pending[j][o] + ops'[j][o] + IF j = c THEN ops[j][o] ELSE 0)
                     - (ops[j][o] + IF h.do = o /\ h.of = j THEN 1 ELSE 0)
  <2>1. /\ pending[j][o] \in Nat
        /\ pending[j][o] = ops[j][o] + Occurrences(r, Of(o, j))
        /\ ops[j][o] \in 0..1
        /\ ops'[j][o] \in 0..1
    BY <1>1, <1>9 DEF Counted, Typed
  <2>2. pending'[j][o] = ops'[j][o] + Occurrences(t \o a, Of(o, j))
    BY <1>6, <1>9 DEF Counted
  <2>3. /\ Occurrences(t, Of(o, j)) \in Nat
        /\ Occurrences(r, Of(o, j)) = Occurrences(t, Of(o, j))
             + IF h.do = o /\ h.of = j THEN 1 ELSE 0
        /\ Occurrences(t \o a, Of(o, j)) =
             Occurrences(t, Of(o, j)) + IF j = c THEN ops[j][o] ELSE 0
    BY <1>5, <1>7
  <2>4. CASE j = c
    BY <2>1, <2>2, <2>3, <2>4, SMTT(30)
  <2>5. CASE j # c
    <3>1. Occurrences(t \o a, Of(o, j)) = Occurrences(t, Of(o, j))
      BY <2>3, <2>5
    <3>2. pending'[j][o] = (pending[j][o] + ops'[j][o])
            - (ops[j][o] + IF h.do = o /\ h.of = j THEN 1 ELSE 0)
      BY <2>1, <2>2, <2>3, <3>1
    <3>3. pending[j][o] + ops'[j][o] + 0 = pending[j][o] + ops'[j][o]
      BY <2>1
    <3>4. QED BY <2>1, <2>5, <3>2, <3>3
  <2>6. QED BY <2>4, <2>5
<1>11. ASSUME NEW d \in Conns
       PROVE  /\ carried[d] \in Nat
              /\ carried'[d] = carried[d]
                   - IF h.do = "accept" /\ h.ec = "ok" /\ h.socket = d THEN 1 ELSE 0
  <2>1. carried[d] \in Nat /\ carried[d] = Occurrences(r, Carrying(d))
    BY <1>1, <1>9 DEF Counted
  <2>2. carried'[d] = Occurrences(t \o a, Carrying(d))
    BY <1>6, <1>9 DEF Counted
  <2>3. QED BY <1>5, <1>7, <2>1, <2>2
<1>12. QED
  BY <1>1, <1>2, <1>8, <1>10, <1>11

-----------------------------------------------------------------------------
(* The initial state, and the steps that no handler takes. *)

LEMMA InitEstablishes == Init => IInv
<1> SUFFICES ASSUME Init PROVE IInv
  OBVIOUS
<1> USE DEF Init, IoInit
<1>1. TypeOK
  <2>1. ready \in Seq(Handler)
    BY EmptySeq
  <2>2. IoTypeOK
    <3>1. ops \in [Object -> [Kind -> 0..1]]
      OBVIOUS
    <3>2. obj \in [Object -> {"none", "live", "freed"}]
      OBVIOUS
    <3>3. QED BY <3>1, <3>2 DEF IoTypeOK
  <2>3. servers \in 0..MaxServers
    BY ServerLifeAssumption
  <2>4. QED BY <2>1, <2>2, <2>3 DEF TypeOK
<1>2. Counted
  BY <1>1, TypeOKImpliesTyped, Counts
<1>3. \A k \in Object, op \in Kind : pending[k][op] = 0
  BY <1>2, OccurrencesOfNone DEF Counted
<1>4. \A c \in Conns : carried[c] = 0
  BY <1>2, OccurrencesOfNone DEF Counted
<1>5. \A k \in Object : obj[k] = "none"
  OBVIOUS
<1>6. Members = {} /\ ~m_server
  BY <1>5, Kinds DEF Members, m_server
<1>7. Succession
  BY <1>5, Kinds DEF Succession
<1>8. Trades /\ NothingRunsForTheDead
  BY <1>3, <1>5 DEF Trades, NothingRunsForTheDead
<1>9. OneEach
  BY <1>3, <1>6, Kinds DEF OneEach
<1>10. Threads /\ StaleInFront /\ Sockets
  BY <1>4, <1>6 DEF Threads, StaleInFront, NeverStopped, Sockets
<1>11. IsFiniteSet(Members)
  BY <1>6, FS_EmptySet
<1>12. QED
  BY <1>1, <1>7, <1>8, <1>9, <1>10, <1>11 DEF IInv, LifeInv

\* Nothing is claimed of a program that has ended.
LEMMA EndKeeps ==
  ASSUME IInv,
         process' \in {"shell threw", "io threw", "undefined", "exited"},
         ready' = ready \/ (ready # <<>> /\ ready' = Tail(ready)),
         UNCHANGED <<shell, thread, stopped, obj, ops, servers, link>>
  PROVE  IInv'
<1>1. ready' \in Seq(Handler)
  BY HeadIsCounted, TypeOKImpliesTyped DEF IInv, TypeOK
<1>2. TypeOK'
  BY <1>1 DEF IInv, TypeOK, IoTypeOK
<1>3. QED
  BY <1>2 DEF IInv, Up

\* What the user and the peers do without the objects.
LEMMA QuietKeeps ==
  ASSUME IInv, Up,
         UNCHANGED <<process, ready, obj, ops, servers>>,
         thread' \in {"none", "running", "returned"},
         stopped' \in BOOLEAN,
         shell' \in {"prompt", "stop", "quit"},
         link' \in [Conns -> {"none", "backlog", "up", "closed", "reset", "gone"}],
         Threads'
  PROVE  IInv'
<1>1. TypeOK'
  BY DEF IInv, TypeOK, IoTypeOK
<1>2. pending' = pending /\ carried' = carried
  BY DEF pending, Outstanding, carried
<1>3. QED
  BY <1>1, <1>2 DEF IInv, LifeInv, Up, Succession, Trades, OneEach,
       NothingRunsForTheDead, Sockets, StaleInFront, NeverStopped, Members,
       m_server

LEMMA CompletionKeeps ==
  ASSUME IInv, Up, NEW h \in Handler, ops[h.of][h.do] > 0,
         ops' = [ops EXCEPT ![h.of][h.do] = @ - 1],
         ready' = Append(ready, h),
         h.do = "accept" /\ h.ec = "ok" =>
           obj[h.socket] = "none" /\ carried[h.socket] = 0,
         UNCHANGED <<process, shell, thread, stopped, obj, servers>>,
         link' \in [Conns -> {"none", "backlog", "up", "closed", "reset", "gone"}]
  PROVE  IInv'
<1>1. Typed /\ LifeInv
  BY TypeOKImpliesTyped DEF IInv
<1>2. /\ Typed'
      /\ \A j \in Object, o \in Kind : pending'[j][o] = pending[j][o]
      /\ \A c \in Conns : carried'[c] = carried[c]
           + IF h.do = "accept" /\ h.ec = "ok" /\ h.socket = c THEN 1 ELSE 0
      /\ ready' # <<>>
      /\ Head(ready') = IF ready = <<>> THEN h ELSE Head(ready)
  BY <1>1, CompletionKeepsCounts
<1>3. TypeOK'
  BY <1>2 DEF IInv, TypeOK, IoTypeOK, Typed
<1>4. Counted
  BY <1>1, Counts
<1>5. Succession' /\ Threads' /\ IsFiniteSet(Members)'
  BY <1>1 DEF LifeInv, Succession, Threads, Members, m_server
<1>6. Trades'
  BY <1>1, <1>2 DEF LifeInv, Trades
<1>7. OneEach'
  BY <1>1, <1>2, Kinds DEF LifeInv, OneEach, NeverStopped, m_server
<1>8. NothingRunsForTheDead'
  <2>1. \A j \in Object, o \in Kind : ops[j][o] = 0 => ops'[j][o] = 0
    BY <1>1, Kinds DEF Typed
  <2>2. QED BY <1>1, <2>1 DEF LifeInv, NothingRunsForTheDead
<1>9. Sockets'
  <2>1. ASSUME NEW c \in Conns
        PROVE  carried'[c] <= 1 /\ (obj[c] # "none" => carried'[c] = 0)
    <3>1. carried[c] \in Nat /\ carried[c] <= 1 /\ (obj[c] # "none" => carried[c] = 0)
      BY <1>1, <1>4 DEF LifeInv, Sockets, Counted
    <3>2. CASE h.do = "accept" /\ h.ec = "ok" /\ h.socket = c
      BY <1>2, <3>1, <3>2
    <3>3. CASE ~(h.do = "accept" /\ h.ec = "ok" /\ h.socket = c)
      BY <1>2, <3>1, <3>3
    <3>4. QED BY <3>2, <3>3
  <2>2. QED BY <2>1 DEF Sockets
<1>10. StaleInFront'
  BY <1>1, <1>2 DEF LifeInv, StaleInFront, NeverStopped, m_server
<1>11. QED
  BY <1>3, <1>5, <1>6, <1>7, <1>8, <1>9, <1>10 DEF IInv, LifeInv

LEMMA StartKeeps == IInv /\ cmd_start => IInv'
<1> SUFFICES ASSUME IInv, cmd_start PROVE IInv'
  OBVIOUS
<1> DEFINE k == servers + 1
<1>1. /\ Up /\ shell = "prompt" /\ ~m_server
      /\ k \in Server /\ k \in Object /\ servers \in Nat
      /\ servers' = k
      /\ obj' = [obj EXCEPT ![k] = "live"]
      /\ ops' = [ops EXCEPT ![k]["accept"] = 1]
      /\ thread' = "running"
      /\ UNCHANGED <<process, shell, stopped, ready, link>>
  <2>1. k \in Server /\ servers \in Nat
    BY ServerLifeAssumption DEF cmd_start, IInv, TypeOK, Server
  <2>2. QED BY <2>1, Kinds DEF cmd_start, Starts, AtPrompt
<1> HIDE DEF k
<1>2. Typed /\ LifeInv
  BY <1>1, TypeOKImpliesTyped DEF IInv
<1>3. Counted
  BY <1>2, Counts
<1>4. pending[k]["accept"] = 0 /\ obj[k] = "none" /\ k > servers
  <2>1. k > servers
    BY <1>1 DEF k
  <2>2. QED BY <1>1, <1>2, <2>1, Kinds DEF LifeInv, OneEach, Succession
<1>5. ops[k]["accept"] = 0
  <2>1. ops[k]["accept"] \in 0..1
    BY <1>1, <1>2, Kinds DEF Typed
  <2>2. QED BY <1>1, <1>3, <1>4, <2>1, Kinds DEF Counted
<1>6. Typed'
  BY <1>1, <1>2, Kinds DEF Typed
<1>7. Counted'
  BY <1>6, CountsNext
<1>8. ASSUME NEW j \in Object, NEW o \in Kind
      PROVE  pending'[j][o] = IF j = k /\ o = "accept" THEN 1 ELSE pending[j][o]
  <2>1. /\ pending[j][o] = ops[j][o] + Occurrences(ready, Of(o, j))
        /\ pending'[j][o] = ops'[j][o] + Occurrences(ready, Of(o, j))
        /\ Occurrences(ready, Of(o, j)) \in Nat
        /\ ops[j][o] \in 0..1
    BY <1>1, <1>2, <1>3, <1>7 DEF Counted, Typed
  <2>2. ops'[j][o] = IF j = k /\ o = "accept" THEN 1 ELSE ops[j][o]
    BY <1>1, <1>2 DEF Typed
  <2>3. QED BY <1>4, <1>5, <2>1, <2>2
<1>9. /\ \A j \in Object : obj'[j] = IF j = k THEN "live" ELSE obj[j]
      /\ obj' \in [Object -> {"none", "live", "freed"}]
  BY <1>1 DEF IInv, TypeOK, IoTypeOK
<1>10. TypeOK'
  <2>1. servers' \in 0..MaxServers
    BY <1>1 DEF Server
  <2>2. QED BY <1>1, <1>6, <1>9, <2>1 DEF IInv, TypeOK, IoTypeOK, Typed
<1>11. m_server' /\ servers' > 0
  <2>1. obj'[k] = "live" /\ k > 0
    BY <1>1, <1>9, Kinds
  <2>2. QED BY <1>1, <2>1 DEF m_server
<1>12. Succession'
  <2>1. ASSUME NEW j \in Server
        PROVE  /\ j > k => obj'[j] = "none"
               /\ j < k => obj'[j] = "freed"
               /\ j = k => obj'[j] # "none"
    <3>1. j \in Nat /\ j \in Object
      BY Kinds
    <3>2. CASE j = k
      BY <1>1, <1>9, <3>1, <3>2, Kinds
    <3>3. CASE j > k
      <4>1. j > servers /\ j # k
        BY <1>1, <1>4, <3>1, <3>3, Kinds
      <4>2. QED BY <1>1, <1>2, <1>9, <3>1, <3>3, <4>1, Kinds DEF LifeInv, Succession
    <3>4. CASE j < k
      <4>1. j <= servers /\ j # k
        BY <1>1, <3>1, <3>4 DEF k
      <4>2. obj[j] = "freed"
        <5>1. CASE j < servers
          BY <1>2, <5>1 DEF LifeInv, Succession
        <5>2. CASE j = servers
          <6>1. obj[j] # "none" /\ obj[j] # "live"
            BY <1>1, <1>2, <5>2, <3>1, Kinds DEF LifeInv, Succession, m_server
          <6>2. QED BY <6>1, <3>1 DEF IInv, TypeOK, IoTypeOK
        <5>3. QED BY <4>1, <5>1, <5>2, <3>1, <1>1
      <4>3. QED BY <1>1, <1>9, <3>1, <3>4, <4>1, <4>2, Kinds
    <3>5. QED BY <3>1, <3>2, <3>3, <3>4, <1>1, Kinds
  <2>2. QED BY <1>1, <2>1 DEF Succession
<1>13. Trades'
  BY <1>1, <1>2, <1>8 DEF LifeInv, Trades
<1>14. OneEach'
  <2>1. ASSUME NEW j \in Server
        PROVE  pending'[j]["accept"] = IF j <= k THEN 1 ELSE 0
    <3>1. j \in Nat /\ j \in Object
      BY Kinds
    <3>2. j <= k <=> j <= servers \/ j = k
      BY <1>1, <3>1 DEF k
    <3>3. QED BY <1>2, <1>8, <3>1, <3>2, Kinds DEF LifeInv, OneEach
  <2>2. ASSUME NEW c \in Conns
        PROVE  /\ obj'[c] = obj[c] /\ c \in Object
               /\ pending'[c]["read"] = pending[c]["read"]
               /\ pending'[c]["write"] = pending[c]["write"]
    BY <1>1, <1>8, <1>9, Kinds
  <2>3. NeverStopped' => NeverStopped
    BY <1>1 DEF NeverStopped, k
  <2>4. QED BY <1>1, <1>2, <2>1, <2>2, <2>3 DEF LifeInv, OneEach
<1>15. NothingRunsForTheDead'
  <2>1. \A j \in Object, o \in Kind : j # k => ops'[j][o] = ops[j][o]
    BY <1>1, <1>2 DEF Typed
  <2>2. QED BY <1>2, <1>9, <2>1 DEF LifeInv, NothingRunsForTheDead
<1>16. Members' = Members
  BY <1>1, <1>9, Kinds DEF Members
<1>17. Threads'
  BY <1>1, <1>2, <1>11 DEF LifeInv, Threads
<1>18. Sockets'
  <2>1. \A c \in Conns : obj'[c] = obj[c]
    BY <1>1, <1>9, Kinds
  <2>2. carried' = carried
    BY <1>1 DEF carried
  <2>3. QED BY <1>2, <2>1, <2>2 DEF LifeInv, Sockets
<1>19. StaleInFront'
  <2> SUFFICES ASSUME ~NeverStopped'
               PROVE  ready # <<>> /\ obj'[Head(ready).of] = "freed"
    BY <1>1 DEF StaleInFront
  <2>1. ~NeverStopped
    BY <1>1, <1>11 DEF NeverStopped, k
  <2>2. ready # <<>> /\ obj[Head(ready).of] = "freed"
    BY <1>2, <2>1 DEF LifeInv, StaleInFront
  <2>3. Head(ready).of \in Object
    BY <1>2, <2>2, HeadIsCounted, Kinds
  <2>4. QED BY <1>4, <1>9, <2>2, <2>3
<1>20. QED
  BY <1>1, <1>2, <1>10, <1>12, <1>13, <1>14, <1>15, <1>16, <1>17, <1>18, <1>19
     DEF IInv, LifeInv

LEMMA UnchangedKeeps == IInv /\ UNCHANGED vars => IInv'
<1> SUFFICES ASSUME IInv, UNCHANGED vars PROVE IInv'
  OBVIOUS
<1>1. UNCHANGED <<process, shell, thread, stopped, ready, obj, ops,
                  servers, link>>
  BY DEF vars, ioVars
<1>2. TypeOK'
  BY <1>1 DEF IInv, TypeOK, IoTypeOK
<1>3. CASE Up
  <2>1. Threads'
    BY <1>1, <1>3 DEF IInv, LifeInv, Threads, m_server, Members
  <2>2. QED BY <1>1, <1>2, <1>3, <2>1, QuietKeeps DEF TypeOK, IoTypeOK
<1>4. CASE ~Up
  BY <1>1, <1>2, <1>4 DEF IInv, Up
<1>5. QED BY <1>3, <1>4

LEMMA ShellKeeps ==
  IInv /\ (StartThrows \/ QuitUnstarted \/ \E to \in {"stop", "quit"} : cmd_stop(to))
    => IInv'
<1>1. ASSUME IInv, StartThrows PROVE IInv'
  BY <1>1, EndKeeps DEF StartThrows, Throws
<1>2. ASSUME IInv, QuitUnstarted PROVE IInv'
  BY <1>2, EndKeeps DEF QuitUnstarted, Exits
<1>3. ASSUME IInv, NEW to \in {"stop", "quit"}, cmd_stop(to) PROVE IInv'
  <2>1. /\ m_server /\ Up /\ shell = "prompt"
        /\ stopped' = TRUE /\ shell' = to
        /\ UNCHANGED <<process, thread, ready, obj, ops, servers, link>>
    BY <1>3 DEF cmd_stop, Stops, AtPrompt
  <2>2. thread = "running"
    BY <1>3, <2>1 DEF IInv, LifeInv, Threads
  <2>3. Threads'
    BY <2>1, <2>2 DEF Threads, m_server
  <2>4. link' \in [Conns -> {"none", "backlog", "up", "closed", "reset", "gone"}]
        /\ thread' \in {"none", "running", "returned"}
        /\ stopped' \in BOOLEAN
        /\ shell' \in {"prompt", "stop", "quit"}
    BY <1>3, <2>1, <2>2 DEF IInv, TypeOK
  <2>5. QED BY <1>3, <2>1, <2>3, <2>4, QuietKeeps
<1>4. QED
  BY <1>1, <1>2, <1>3

LEMMA PeerKeeps == IInv /\ (\E c \in Conns : Peer(c)) => IInv'
<1> SUFFICES ASSUME IInv, NEW c \in Conns, Peer(c) PROVE IInv'
  OBVIOUS
<1>1. Up /\ UNCHANGED <<ioVars, servers>>
  BY DEF Peer, Connect, PeerEnds
<1>2. UNCHANGED <<process, shell, thread, stopped, ready, obj, ops, servers>>
  BY <1>1 DEF ioVars
<1>3. link' \in [Conns -> {"none", "backlog", "up", "closed", "reset", "gone"}]
  <2>1. \E x \in {"backlog", "closed", "reset"} : link' = [link EXCEPT ![c] = x]
    BY DEF Peer, Connect, PeerEnds
  <2>2. QED BY <2>1 DEF IInv, TypeOK
<1>4. Threads'
  BY <1>1, <1>2 DEF IInv, LifeInv, Threads, m_server, Members
<1>5. /\ thread' \in {"none", "running", "returned"}
      /\ stopped' \in BOOLEAN
      /\ shell' \in {"prompt", "stop", "quit"}
  BY <1>2 DEF IInv, TypeOK, IoTypeOK
<1>6. QED
  BY <1>1, <1>2, <1>3, <1>4, <1>5, QuietKeeps

LEMMA KernelKeeps == IInv /\ Kernel => IInv'
<1> SUFFICES ASSUME IInv, Kernel PROVE IInv'
  OBVIOUS
<1> DEFINE Links == {"none", "backlog", "up", "closed", "reset", "gone"}
<1>1. ASSUME NEW k \in Server, AcceptCompletes(k) PROVE IInv'
  <2>1. /\ Up /\ ops[k]["accept"] > 0
        /\ ops' = [ops EXCEPT ![k]["accept"] = @ - 1]
        /\ UNCHANGED <<process, shell, thread, stopped, obj, servers>>
    BY <1>1 DEF AcceptCompletes, Running
  <2>2. Typed /\ link \in [Conns -> Links]
    BY TypeOKImpliesTyped DEF IInv, TypeOK
  <2>3. ASSUME NEW c \in Conns,
               link[c] \in {"backlog", "closed", "reset"},
               obj[c] = "none",
               \A i \in DOMAIN ready :
                 ready[i].do = "accept" /\ ready[i].ec = "ok" => ready[i].socket # c,
               ready' = Append(ready, Accepted(k, c)),
               link' = [link EXCEPT ![c] = IF @ = "backlog" THEN "up" ELSE @]
        PROVE  IInv'
    <3>1. PICK h : h = Accepted(k, c)
      OBVIOUS
    <3>2. h.do = "accept" /\ h.of = k /\ h.ec = "ok" /\ h.socket = c /\ h \in Handler
      BY <3>1 DEF Accepted, Handler
    <3>3. carried[c] = 0
      <4>1. \A i \in DOMAIN ready : ready[i] \notin Carrying(c)
        BY <2>3 DEF Carrying
      <4>2. ready \in Seq(Handler)
        BY <2>2 DEF Typed
      <4>3. Occurrences(ready, Carrying(c)) = 0
        BY <4>1, <4>2, OccurrencesType
      <4>4. QED BY <4>3, <2>2, Counts DEF Counted
    <3>4. link' \in [Conns -> Links]
      BY <2>2, <2>3
    <3>5. QED BY <2>1, <2>3, <3>1, <3>2, <3>3, <3>4, CompletionKeeps
  <2>4. ASSUME ready' = Append(ready, Completion("accept", k, "error")),
               UNCHANGED link
        PROVE  IInv'
    <3>1. PICK h : h = Completion("accept", k, "error")
      OBVIOUS
    <3>2. h.do = "accept" /\ h.of = k /\ h.ec = "error" /\ h \in Handler
      BY <3>1 DEF Completion, Handler
    <3>3. QED BY <2>1, <2>2, <2>4, <3>1, <3>2, CompletionKeeps
  <2>5. QED BY <1>1, <2>3, <2>4 DEF AcceptCompletes
<1>2. ASSUME NEW c \in Conns, NEW do \in {"read", "write"},
             NEW result \in {"ok", "error"},
             Completes(do, c, result), UNCHANGED <<servers, link>>
      PROVE  IInv'
  <2>1. /\ Up /\ ops[c][do] > 0
        /\ ops' = [ops EXCEPT ![c][do] = @ - 1]
        /\ ready' = Append(ready, Completion(do, c, result))
        /\ UNCHANGED <<process, shell, thread, stopped, obj, servers>>
    BY <1>2 DEF Completes, Running
  <2>2. link' \in [Conns -> Links]
    BY <1>2 DEF IInv, TypeOK
  <2>3. PICK h : h = Completion(do, c, result)
    OBVIOUS
  <2>4. h.do = do /\ h.of = c /\ h.do # "accept" /\ h \in Handler
    BY <2>3 DEF Completion, Handler
  <2>5. QED BY <2>1, <2>2, <2>3, <2>4, CompletionKeeps
<1>3. ASSUME NEW c \in Conns, ReadCompletes(c) \/ WriteCompletes(c) PROVE IInv'
  <2>1. \E do \in {"read", "write"}, result \in {"ok", "error"} :
          Completes(do, c, result) /\ UNCHANGED <<servers, link>>
    BY <1>3 DEF ReadCompletes, WriteCompletes
  <2>2. QED BY <1>2, <2>1
<1>4. QED
  BY <1>1, <1>3 DEF Kernel

LEMMA OtherIoStepKeeps == IInv /\ OtherIoStep => IInv'
<1>1. ASSUME IInv, StaleHandler, UNCHANGED <<servers, link>> PROVE IInv'
  BY <1>1, EndKeeps DEF StaleHandler
<1>2. ASSUME IInv, RunReturns, UNCHANGED <<servers, link>> PROVE IInv'
  <2>1. /\ Up /\ thread = "running" /\ Finished
        /\ thread' = "returned" /\ stopped' = TRUE
        /\ UNCHANGED <<process, shell, ready, obj, ops, servers, link>>
    BY <1>2 DEF RunReturns
  <2>2. Typed /\ LifeInv
    BY <1>2, <2>1, TypeOKImpliesTyped DEF IInv
  <2>3. m_server
    BY <2>1, <2>2 DEF LifeInv, Threads
  <2>4. shell # "prompt"
    <3> SUFFICES ASSUME shell = "prompt" PROVE FALSE
      OBVIOUS
    <3>1. NoWork
      BY <2>1, <2>2, <2>3 DEF Finished, LifeInv, Threads
    <3>2. servers \in Server /\ servers \in Object /\ servers <= servers
      BY <1>2, <2>3, Kinds DEF m_server, IInv, TypeOK, Server
    <3>3. pending[servers]["accept"] = 1
      BY <2>2, <3>2 DEF LifeInv, OneEach
    <3>4. pending[servers]["accept"] = 0
      <4>1. ops[servers]["accept"] = 0 /\ ready = <<>>
        BY <3>1, <3>2, Kinds DEF NoWork
      <4>2. Occurrences(ready, Of("accept", servers)) = 0
        BY <4>1, OccurrencesOfNone
      <4>3. QED BY <2>2, <3>2, <4>1, <4>2, Kinds, Counts DEF Counted
    <3>5. QED BY <3>3, <3>4
  <2>5. Threads'
    BY <2>1, <2>3, <2>4 DEF Threads, m_server
  <2>6. /\ link' \in [Conns -> {"none", "backlog", "up", "closed", "reset", "gone"}]
        /\ shell' \in {"prompt", "stop", "quit"}
    BY <1>2, <2>1 DEF IInv, TypeOK
  <2>7. QED BY <1>2, <2>1, <2>5, <2>6, QuietKeeps
<1>3. QED
  BY <1>1, <1>2 DEF OtherIoStep
-----------------------------------------------------------------------------
(* The handlers. *)

\* A handler of a live object runs only before the first stop.
LEMMA OnlyTheFirstIsServed ==
  ASSUME IInv, NEW do, NEW k, Runs(do, k)
  PROVE  /\ NeverStopped /\ servers = 1 /\ m_server
         /\ \A c \in Conns :
              pending[c]["read"] = IF obj[c] = "live" THEN 1 ELSE 0
<1>1. /\ Up /\ thread = "running"
      /\ ready # <<>> /\ Head(ready).of = k /\ obj[k] = "live"
  BY DEF Runs, Running
<1>2. Typed /\ LifeInv
  BY <1>1, TypeOKImpliesTyped DEF IInv
<1>3. m_server
  BY <1>1, <1>2 DEF LifeInv, Threads
<1>4. NeverStopped
  BY <1>1, <1>2 DEF LifeInv, StaleInFront
<1>5. servers = 1
  BY <1>3, <1>4, ServerLifeAssumption DEF NeverStopped, m_server, IInv, TypeOK
<1>6. ASSUME NEW c \in Conns
      PROVE  pending[c]["read"] = IF obj[c] = "live" THEN 1 ELSE 0
  <2>1. obj[c] \in {"none", "live", "freed"}
    BY Kinds DEF IInv, TypeOK, IoTypeOK
  <2>2. QED BY <1>2, <1>4, <2>1 DEF LifeInv, OneEach
<1>7. QED
  BY <1>3, <1>4, <1>5, <1>6

\* What is left to show of a handler.
LEMMA HandlerKeeps ==
  ASSUME IInv, NEW do, NEW k, Runs(do, k),
         UNCHANGED <<process, servers, link>>,
         Typed',
         obj' \in [Object -> {"none", "live", "freed"}],
         \A j \in Server : obj'[j] = obj[j],
         IsFiniteSet(Members'),
         Trades', OneEach', NothingRunsForTheDead', Sockets'
  PROVE  IInv'
<1>1. /\ Up /\ UNCHANGED <<shell, thread, stopped>>
  BY DEF Runs, Running
<1>2. NeverStopped /\ servers = 1 /\ m_server /\ LifeInv
  BY <1>1, OnlyTheFirstIsServed DEF IInv
<1>3. 1 \in Server /\ obj[1] = "live"
  BY <1>2, ServerLifeAssumption DEF m_server, IInv, TypeOK, Server
<1>4. servers' = 1 /\ m_server' /\ NeverStopped'
  BY <1>2, <1>3 DEF m_server, NeverStopped
<1>5. TypeOK'
  BY <1>1 DEF IInv, TypeOK, IoTypeOK, Typed
<1>6. Succession'
  BY <1>2 DEF LifeInv, Succession
<1>7. Threads'
  BY <1>1, <1>2, <1>4 DEF LifeInv, Threads
<1>8. StaleInFront'
  BY <1>4 DEF StaleInFront
<1>9. QED
  BY <1>5, <1>6, <1>7, <1>8 DEF IInv, LifeInv

\* A handler that throws ends the program.
LEMMA ThrowKeeps ==
  ASSUME IInv, NEW do, NEW k, RunsIn(do, k), ThrowsInHandler
  PROVE  IInv'
<1>1. /\ ready # <<>> /\ ready' = Tail(ready)
      /\ process' = "io threw"
      /\ UNCHANGED <<shell, thread, stopped, obj, ops, servers, link>>
  BY DEF RunsIn, Runs, ThrowsInHandler
<1>2. QED
  BY <1>1, EndKeeps

\* A message starts a write of those it goes to that have none.
LEMMA BroadcastStarts ==
  ASSUME Typed, NEW to \in SUBSET Conns
  PROVE  /\ Broadcast(to) \in [Object -> [Kind -> 0..1]]
         /\ \A k \in Object, op \in Kind :
              Broadcast(to)[k][op] =
                IF k \in to /\ op = "write" /\ pending[k]["write"] = 0
                THEN 1 ELSE ops[k][op]
<1>1. ASSUME NEW k \in Object
      PROVE  write_in_progress(k) <=> pending[k]["write"] # 0
  <2>1. /\ pending[k]["write"] = Outstanding("write", k)
        /\ pending[k]["write"] \in Nat
    BY Kinds, Counts DEF Counted
  <2>2. QED BY <2>1 DEF write_in_progress
<1>2. ASSUME NEW k \in Object
      PROVE  /\ Broadcast(to)[k] =
                  IF k \in to /\ pending[k]["write"] = 0
                  THEN [ops[k] EXCEPT !["write"] = 1] ELSE ops[k]
             /\ Broadcast(to)[k] \in [Kind -> 0..1]
  <2>1. Broadcast(to)[k] =
          IF k \in to /\ ~write_in_progress(k)
          THEN [ops[k] EXCEPT !["write"] = 1] ELSE ops[k]
    BY DEF Broadcast
  <2>2. ops[k] \in [Kind -> 0..1]
    BY DEF Typed
  <2>3. [ops[k] EXCEPT !["write"] = 1] \in [Kind -> 0..1]
    <3>1. 1 \in 0..1
      OBVIOUS
    <3>2. PICK o \in [Kind -> 0..1] : o = ops[k]
      BY <2>2
    <3>3. [o EXCEPT !["write"] = 1] \in [Kind -> 0..1]
      BY <3>1
    <3>4. QED BY <3>2, <3>3
  <2>4. QED BY <1>1, <2>1, <2>2, <2>3
<1>3. ASSUME NEW k \in Object, NEW op \in Kind
      PROVE  Broadcast(to)[k][op] =
               IF k \in to /\ op = "write" /\ pending[k]["write"] = 0
               THEN 1 ELSE ops[k][op]
  BY <1>2 DEF Typed
<1>4. Broadcast(to) \in [Object -> [Kind -> 0..1]]
  <2>1. Broadcast(to) = [k \in Object |-> Broadcast(to)[k]]
    BY DEF Broadcast
  <2>2. QED BY <1>2, <2>1
<1>5. QED
  BY <1>3, <1>4

\* A handler was the only one of its kind, and its operation does not run.
LEMMA HeadIsAlone ==
  ASSUME IInv, NEW do, NEW k, Runs(do, k)
  PROVE  /\ k \in Object /\ do \in Kind
         /\ pending[k][do] = 1 /\ ops[k][do] = 0
<1>1. /\ Up /\ ready # <<>> /\ Head(ready).of = k /\ Head(ready).do = do
      /\ obj[k] = "live"
  BY DEF Runs, Running
<1>2. Typed /\ LifeInv
  BY <1>1, TypeOKImpliesTyped DEF IInv
<1>3. Head(ready) \in Handler /\ pending[k][do] >= ops[k][do] + 1
  BY <1>1, <1>2, HeadIsCounted
<1>4. /\ k \in Object /\ do \in Kind
      /\ \/ do = "accept" /\ k \in Server
         \/ do \in {"read", "write"} /\ k \in Conns
  <2>1. PICK h \in Handler : h = Head(ready)
    BY <1>3
  <2>2. h.of = k /\ h.do = do
    BY <1>1, <2>1
  <2>3. /\ h.of \in Object /\ h.do \in Kind
        /\ \/ h.do = "accept" /\ h.of \in Server
           \/ h.do \in {"read", "write"} /\ h.of \in Conns
    BY Kinds
  <2>4. QED BY <2>2, <2>3
<1>5. pending[k][do] \in Nat /\ ops[k][do] \in 0..1
  BY <1>2, <1>4, Counts DEF Counted, Typed
<1>6. pending[k][do] <= 1
  BY <1>2, <1>4 DEF LifeInv, OneEach
<1>7. QED
  BY <1>3, <1>4, <1>5, <1>6

\* A handler that adds and removes no object, and after which what was
\* outstanding is, but for the writes of members.
LEMMA SteadyHandlerKeeps ==
  ASSUME IInv, NEW do, NEW k, Runs(do, k),
         do = "accept" => ec = "error",
         UNCHANGED <<process, obj, servers, link>>,
         ready' = Tail(ready),
         ops' \in [Object -> [Kind -> 0..1]],
         \A j \in Object, o \in Kind :
           ops'[j][o] # ops[j][o] => obj[j] = "live",
         \A j \in Object, o \in Kind :
           LET n == (pending[j][o] + ops'[j][o])
                      - (ops[j][o] + IF o = do /\ j = k THEN 1 ELSE 0)
           IN  n = pending[j][o] \/ (o = "write" /\ j \in Members /\ n <= 1)
  PROVE  IInv'
<1>1. /\ Up /\ ready # <<>> /\ Head(ready).of = k /\ Head(ready).do = do
      /\ obj[k] = "live"
  BY DEF Runs, Running
<1>2. Typed /\ LifeInv
  BY <1>1, TypeOKImpliesTyped DEF IInv
<1>3. /\ Typed'
      /\ \A j \in Object, o \in Kind :
           /\ pending[j][o] \in Nat
           /\ pending'[j][o] = (pending[j][o] + ops'[j][o])
                - (ops[j][o] + IF do = o /\ k = j THEN 1 ELSE 0)
      /\ \A c \in Conns : carried[c] \in Nat /\ carried'[c] = carried[c]
  BY <1>1, <1>2, HandlerCounts DEF ec
<1>4. \A j \in Object, o \in Kind :
        \/ pending'[j][o] = pending[j][o]
        \/ o = "write" /\ j \in Members /\ pending'[j][o] <= 1
  BY <1>3
<1>5. \A j \in Members : j \in Conns /\ j \notin Server /\ obj[j] = "live"
  BY Kinds DEF Members
<1>6. Trades'
  <2>1. ASSUME NEW j \in Object, NEW o \in Kind, pending'[j][o] # 0
        PROVE  o # "connect" /\ (o = "accept" <=> j \in Server)
    BY <1>2, <1>4, <1>5, <2>1 DEF LifeInv, Trades
  <2>2. QED BY <2>1 DEF Trades
<1>7. OneEach'
  <2>1. UNCHANGED <<servers, obj>> /\ NeverStopped' = NeverStopped
    BY DEF NeverStopped, m_server
  <2>2. \A j \in Server : pending'[j]["accept"] = pending[j]["accept"]
    BY <1>4, Kinds
  <2>3. ASSUME NEW d \in Conns
        PROVE  /\ pending'[d]["read"] = pending[d]["read"]
               /\ \/ pending'[d]["write"] = pending[d]["write"]
                  \/ obj[d] = "live" /\ pending'[d]["write"] <= 1
    BY <1>4, <1>5, Kinds
  <2>4. QED BY <1>2, <2>1, <2>2, <2>3 DEF LifeInv, OneEach
<1>8. NothingRunsForTheDead'
  BY <1>2 DEF LifeInv, NothingRunsForTheDead
<1>9. Sockets'
  BY <1>2, <1>3 DEF LifeInv, Sockets
<1>10. IsFiniteSet(Members')
  BY <1>2 DEF LifeInv, Members
<1>11. QED
  BY <1>1, <1>2, <1>3, <1>6, <1>7, <1>8, <1>9, <1>10, HandlerKeeps
     DEF IInv, TypeOK, IoTypeOK, LifeInv

LEMMA WriteHandlerKeeps == IInv /\ (\E c \in Conns : WriteHandler(c)) => IInv'
<1> SUFFICES ASSUME IInv, NEW c \in Conns, WriteHandler(c) PROVE IInv'
  OBVIOUS
<1>1. /\ Runs("write", c)
      /\ UNCHANGED <<process, obj, servers, link>>
      /\ Up /\ obj[c] = "live"
      /\ ready' = Tail(ready)
  BY DEF WriteHandler, RunsIn, Runs, Running
<1>2. Typed
  BY TypeOKImpliesTyped DEF IInv
<1>3. c \in Object /\ pending[c]["write"] = 1 /\ ops[c]["write"] = 0
  BY <1>1, HeadIsAlone
<1>4. /\ ops' \in [Object -> [Kind -> 0..1]]
      /\ \A j \in Object, o \in Kind :
           ops'[j][o] # ops[j][o] => j = c /\ o = "write" /\ ops'[j][o] = 1
  BY <1>2 DEF WriteHandler, Typed
<1>5. ASSUME NEW j \in Object, NEW o \in Kind
      PROVE  LET n == (pending[j][o] + ops'[j][o])
                        - (ops[j][o] + IF o = "write" /\ j = c THEN 1 ELSE 0)
             IN  n = pending[j][o] \/ (o = "write" /\ j \in Members /\ n <= 1)
  <2>1. pending[j][o] \in Nat /\ ops[j][o] \in 0..1 /\ ops'[j][o] \in 0..1
    BY <1>2, <1>4, Counts DEF Counted, Typed
  <2>2. CASE j = c /\ o = "write"
    <3>1. c \in Members
      BY <1>1 DEF Members
    <3>2. (pending[j][o] + ops'[j][o]) - (ops[j][o] + 1) <= 1
      <4>1. pending[j][o] = 1 /\ ops[j][o] = 0
        BY <1>3, <2>2
      <4>2. QED BY <2>1, <4>1
    <3>3. QED BY <2>2, <3>1, <3>2
  <2>3. CASE ~(j = c /\ o = "write")
    BY <1>4, <2>1, <2>3
  <2>4. QED BY <2>2, <2>3
<1>6. QED
  BY <1>1, <1>4, <1>5, SteadyHandlerKeeps

LEMMA AcceptErrorHandlerKeeps ==
  IInv /\ (\E k \in Server : AcceptErrorHandler(k)) => IInv'
<1> SUFFICES ASSUME IInv, NEW k \in Server, AcceptErrorHandler(k) PROVE IInv'
  OBVIOUS
<1>1. /\ Runs("accept", k) /\ ec = "error"
      /\ UNCHANGED <<process, obj, servers, link>>
      /\ Up /\ obj[k] = "live"
      /\ ready' = Tail(ready)
      /\ ops' = [ops EXCEPT ![k]["accept"] = @ + 1]
  BY DEF AcceptErrorHandler, RunsIn, Runs, Running, Accepting
<1>2. Typed
  BY TypeOKImpliesTyped DEF IInv
<1>3. k \in Object /\ pending[k]["accept"] = 1 /\ ops[k]["accept"] = 0
  BY <1>1, HeadIsAlone
<1>4. /\ ops' \in [Object -> [Kind -> 0..1]]
      /\ \A j \in Object, o \in Kind :
           ops'[j][o] = IF j = k /\ o = "accept" THEN 1 ELSE ops[j][o]
  <2>1. ops' = [ops EXCEPT ![k]["accept"] = 1]
    BY <1>1, <1>3
  <2>2. 1 \in 0..1 /\ ops \in [Object -> [Kind -> 0..1]] /\ "accept" \in Kind
    BY <1>2, Kinds DEF Typed
  <2>3. QED BY <1>3, <2>1, <2>2
<1>5. ASSUME NEW j \in Object, NEW o \in Kind
      PROVE  (pending[j][o] + ops'[j][o])
               - (ops[j][o] + IF o = "accept" /\ j = k THEN 1 ELSE 0)
                 = pending[j][o]
  <2>1. pending[j][o] \in Nat /\ ops[j][o] \in 0..1
    BY <1>2, Counts DEF Counted, Typed
  <2>2. QED BY <1>3, <1>4, <2>1, SMTT(30)
<1>6. \A j \in Object, o \in Kind : ops'[j][o] # ops[j][o] => obj[j] = "live"
  BY <1>1, <1>4
<1>7. QED
  BY <1>1, <1>4, <1>5, <1>6, SteadyHandlerKeeps

LEMMA ReadHandlerKeeps == IInv /\ (\E c \in Conns : ReadHandler(c)) => IInv'
<1> SUFFICES ASSUME IInv, NEW c \in Conns, ReadHandler(c) PROVE IInv'
  OBVIOUS
<1>1. CASE ThrowsInHandler
  BY <1>1, ThrowKeeps DEF ReadHandler
<1>2. CASE ~ThrowsInHandler
  <2>1. /\ Runs("read", c)
        /\ UNCHANGED <<process, obj, servers, link>>
        /\ Up /\ obj[c] = "live"
        /\ ready' = Tail(ready)
        /\ \/ ops' = [ops EXCEPT ![c]["read"] = 1]
           \/ \E origin \in {{}} \cup {{m} : m \in Members} :
                ops' = [Broadcast(Members \ origin) EXCEPT ![c]["read"] = 1]
    BY <1>2 DEF ReadHandler, RunsIn, Runs, Running
  <2>2. Typed /\ LifeInv
    BY <2>1, TypeOKImpliesTyped DEF IInv
  <2>3. c \in Object /\ pending[c]["read"] = 1 /\ ops[c]["read"] = 0
    BY <2>1, HeadIsAlone
  <2>4. \A j \in Members : j \in Conns /\ obj[j] = "live"
    BY DEF Members
  <2>5. \A origin : Members \ origin \in SUBSET Conns
    BY <2>4
  <2>6. /\ ops' \in [Object -> [Kind -> 0..1]]
        /\ \A j \in Object, o \in Kind :
             \/ j = c /\ o = "read" /\ ops'[j][o] = 1
             \/ ~(j = c /\ o = "read") /\ ops'[j][o] = ops[j][o]
             \/ /\ ~(j = c /\ o = "read") /\ ops'[j][o] = 1
                /\ o = "write" /\ j \in Members /\ pending[j][o] = 0
    <3>1. CASE ops' = [ops EXCEPT ![c]["read"] = 1]
      <4>1. 1 \in 0..1 /\ ops \in [Object -> [Kind -> 0..1]] /\ "read" \in Kind
        BY <2>2, Kinds DEF Typed
      <4>2. /\ ops' \in [Object -> [Kind -> 0..1]]
            /\ \A j \in Object, o \in Kind :
                 ops'[j][o] = IF j = c /\ o = "read" THEN 1 ELSE ops[j][o]
        BY <2>3, <3>1, <4>1
      <4>3. QED BY <4>2
    <3>2. ASSUME NEW origin \in {{}} \cup {{m} : m \in Members},
                 ops' = [Broadcast(Members \ origin) EXCEPT ![c]["read"] = 1]
          PROVE  /\ ops' \in [Object -> [Kind -> 0..1]]
                 /\ \A j \in Object, o \in Kind :
                      \/ j = c /\ o = "read" /\ ops'[j][o] = 1
                      \/ ~(j = c /\ o = "read") /\ ops'[j][o] = ops[j][o]
                      \/ /\ ~(j = c /\ o = "read") /\ ops'[j][o] = 1
                         /\ o = "write" /\ j \in Members /\ pending[j][o] = 0
      <4>1. PICK B \in [Object -> [Kind -> 0..1]] :
              /\ B = Broadcast(Members \ origin)
              /\ \A j \in Object, o \in Kind :
                   B[j][o] = IF /\ j \in Members \ origin
                                /\ o = "write" /\ pending[j]["write"] = 0
                             THEN 1 ELSE ops[j][o]
        BY <2>2, <2>5, BroadcastStarts
      <4>2. ops' = [B EXCEPT ![c]["read"] = 1] /\ 1 \in 0..1
        BY <3>2, <4>1
      <4>3. /\ ops' \in [Object -> [Kind -> 0..1]]
            /\ \A j \in Object, o \in Kind :
                 ops'[j][o] = IF j = c /\ o = "read" THEN 1 ELSE B[j][o]
        BY <2>3, <4>2, Kinds
      <4>4. ASSUME NEW j \in Object, NEW o \in Kind, ~(j = c /\ o = "read")
            PROVE  \/ ops'[j][o] = ops[j][o]
                   \/ /\ ops'[j][o] = 1
                      /\ o = "write" /\ j \in Members /\ pending[j][o] = 0
        <5>1. ops'[j][o] = B[j][o]
          BY <4>3, <4>4
        <5>2. CASE j \in Members \ origin /\ o = "write" /\ pending[j]["write"] = 0
          BY <4>1, <5>1, <5>2
        <5>3. CASE ~(j \in Members \ origin /\ o = "write" /\ pending[j]["write"] = 0)
          <6>1. B[j][o] = ops[j][o]
            BY <4>1, <5>3
          <6>2. QED BY <5>1, <6>1
        <5>4. QED BY <5>2, <5>3
      <4>5. QED BY <4>3, <4>4
    <3>3. QED BY <2>1, <3>1, <3>2
  <2>7. ASSUME NEW j \in Object, NEW o \in Kind
        PROVE  LET n == (pending[j][o] + ops'[j][o])
                          - (ops[j][o] + IF o = "read" /\ j = c THEN 1 ELSE 0)
               IN  n = pending[j][o] \/ (o = "write" /\ j \in Members /\ n <= 1)
    <3>1. pending[j][o] \in Nat /\ ops[j][o] \in 0..1 /\ ops'[j][o] \in 0..1
      BY <2>2, <2>6, Counts DEF Counted, Typed
    <3>2. CASE j = c /\ o = "read"
      BY <2>3, <2>6, <3>1, <3>2, SMTT(30)
    <3>3. CASE ~(j = c /\ o = "read")
      <4>1. \/ ops'[j][o] = ops[j][o]
            \/ /\ ops'[j][o] = 1
               /\ o = "write" /\ j \in Members /\ pending[j][o] = 0
        BY <2>6, <3>3
      <4>2. CASE ops'[j][o] = ops[j][o]
        BY <3>1, <3>3, <4>2
      <4>3. CASE ops'[j][o] = 1 /\ pending[j][o] = 0
        <5>1. (pending[j][o] + ops'[j][o]) - (ops[j][o] + 0) <= 1
          BY <3>1, <4>3
        <5>2. QED BY <3>3, <4>1, <4>3, <5>1
      <4>4. QED BY <4>1, <4>2, <4>3
    <3>4. QED BY <3>2, <3>3
  <2>8. \A j \in Object, o \in Kind : ops'[j][o] # ops[j][o] => obj[j] = "live"
    BY <2>1, <2>4, <2>6
  <2>9. QED
    BY <2>1, <2>6, <2>7, <2>8, SteadyHandlerKeeps
<1>3. QED
  BY <1>1, <1>2

LEMMA AcceptHandlerKeeps == IInv /\ (\E k \in Server : AcceptHandler(k)) => IInv'
<1> SUFFICES ASSUME IInv, NEW k \in Server, AcceptHandler(k) PROVE IInv'
  OBVIOUS
<1>1. CASE ThrowsInHandler
  BY <1>1, ThrowKeeps DEF AcceptHandler
<1>2. CASE ~ThrowsInHandler
  <2>1. PICK c : c = Head(ready).socket
    OBVIOUS
  <2>2. /\ Runs("accept", k) /\ ec = "ok"
        /\ UNCHANGED <<process, servers, link>>
        /\ Up /\ obj[k] = "live" /\ ready # <<>>
        /\ Head(ready).of = k /\ Head(ready).do = "accept" /\ Head(ready).ec = "ok"
        /\ ready' = Tail(ready)
        /\ obj' = [obj EXCEPT ![c] = "live"]
        /\ ops' = Accepting(k, [Broadcast(Members) EXCEPT ![c]["read"] = 1])
    BY <1>2, <2>1 DEF AcceptHandler, RunsIn, Runs, Running, ec
  <2>3. Typed /\ LifeInv
    BY <2>2, TypeOKImpliesTyped DEF IInv
  <2>4. NeverStopped /\ servers = 1 /\ m_server
        /\ \A d \in Conns : pending[d]["read"] = IF obj[d] = "live" THEN 1 ELSE 0
    BY <2>2, OnlyTheFirstIsServed
  <2>5. pending[k]["accept"] = 1 /\ ops[k]["accept"] = 0
    BY <2>2, HeadIsAlone
  <2>6. c \in Conns /\ carried[c] >= 1
    <3>1. PICK h \in Handler : h = Head(ready)
      BY <2>2, <2>3, HeadIsCounted
    <3>2. h.socket \in Conns
      BY <2>2, <3>1, Kinds
    <3>3. carried[Head(ready).socket] >= 1
      BY <2>2, <2>3, HeadIsCounted
    <3>4. QED BY <2>1, <3>1, <3>2, <3>3
  <2>7. Counted
    BY <2>3, Counts
  <2>8. obj[c] = "none" /\ carried[c] = 1
    <3>1. carried[c] \in Nat
      BY <2>6, <2>7 DEF Counted
    <3>2. carried[c] <= 1 /\ (obj[c] # "none" => carried[c] = 0)
      BY <2>3, <2>6 DEF LifeInv, Sockets
    <3>3. QED BY <2>6, <3>1, <3>2
  <2>9. k = 1
    <3>1. k \in Nat \ {0}
      BY Kinds
    <3>2. ~(k > servers)
      BY <2>2, <2>3 DEF LifeInv, Succession
    <3>3. QED BY <2>4, <3>1, <3>2
  <2>10. c # k /\ c \in Object /\ k \in Object
    BY <2>6, Kinds
  <2>11. pending[c]["read"] = 0 /\ pending[c]["write"] = 0
    BY <2>3, <2>6, <2>8 DEF LifeInv, OneEach
  <2>12. \A j \in Object : obj'[j] = IF j = c THEN "live" ELSE obj[j]
    BY <2>2 DEF IInv, TypeOK, IoTypeOK
  <2>13. PICK B \in [Object -> [Kind -> 0..1]] :
           /\ B = Broadcast(Members)
           /\ \A j \in Object, o \in Kind :
                B[j][o] = IF j \in Members /\ o = "write" /\ pending[j]["write"] = 0
                          THEN 1 ELSE ops[j][o]
    <3>1. Members \in SUBSET Conns
      BY DEF Members
    <3>2. QED BY <2>3, <3>1, BroadcastStarts
  <2>14. k \notin Members /\ c \notin Members
    BY <2>8, Kinds DEF Members
  <2>15. B[k]["accept"] = 0
    BY <2>5, <2>10, <2>13, <2>14, Kinds
  <2>16. PICK D \in [Object -> [Kind -> 0..1]] :
           /\ D = [B EXCEPT ![c]["read"] = 1]
           /\ \A j \in Object, o \in Kind :
                D[j][o] = IF j = c /\ o = "read" THEN 1 ELSE B[j][o]
    <3> DEFINE E == [B EXCEPT ![c]["read"] = 1]
    <3>1. 1 \in 0..1 /\ "read" \in Kind
      BY Kinds
    <3>2. E \in [Object -> [Kind -> 0..1]]
      BY <2>10, <3>1
    <3>3. \A j \in Object, o \in Kind :
            E[j][o] = IF j = c /\ o = "read" THEN 1 ELSE B[j][o]
      BY <2>10, <3>1
    <3> HIDE DEF E
    <3>4. E = [B EXCEPT ![c]["read"] = 1]
      BY DEF E
    <3>5. QED BY <3>2, <3>3, <3>4
  <2>17. /\ ops' \in [Object -> [Kind -> 0..1]]
         /\ \A j \in Object, o \in Kind :
              ops'[j][o] = IF j = k /\ o = "accept" THEN 1 ELSE D[j][o]
    <3>1. D[k]["accept"] = 0 /\ 1 \in 0..1 /\ "accept" \in Kind
      BY <2>10, <2>15, <2>16, Kinds
    <3>2. ops' = [D EXCEPT ![k]["accept"] = @ + 1]
      BY <2>2, <2>13, <2>16 DEF Accepting
    <3>3. ops' = [D EXCEPT ![k]["accept"] = 1]
      BY <3>1, <3>2
    <3>4. QED BY <2>10, <3>1, <3>3
  <2>18. /\ Typed'
         /\ \A j \in Object, o \in Kind :
              /\ pending[j][o] \in Nat
              /\ pending'[j][o] = (pending[j][o] + ops'[j][o])
                   - (ops[j][o] + IF o = "accept" /\ j = k THEN 1 ELSE 0)
         /\ \A d \in Conns :
              /\ carried[d] \in Nat
              /\ carried'[d] = carried[d] - IF d = c THEN 1 ELSE 0
    <3>1. /\ Typed'
          /\ \A j \in Object, o \in Kind :
               /\ pending[j][o] \in Nat
               /\ pending'[j][o] = (pending[j][o] + ops'[j][o]) - (ops[j][o]
                    + IF Head(ready).do = o /\ Head(ready).of = j THEN 1 ELSE 0)
          /\ \A d \in Conns :
               /\ carried[d] \in Nat
               /\ carried'[d] = carried[d]
                    - IF /\ Head(ready).do = "accept"
                         /\ Head(ready).ec = "ok"
                         /\ Head(ready).socket = d THEN 1 ELSE 0
      BY <2>2, <2>3, <2>17, HandlerCounts
    <3>2. PICK h : h = Head(ready)
      OBVIOUS
    <3>3. h.do = "accept" /\ h.of = k /\ h.ec = "ok" /\ h.socket = c
      BY <2>1, <2>2, <3>2
    <3>4. QED BY <3>1, <3>2, <3>3
  <2>19. ASSUME NEW j \in Object, NEW o \in Kind
         PROVE  \/ pending'[j][o] = pending[j][o] /\ ~(j = c /\ o = "read")
                \/ j = c /\ o = "read" /\ pending'[j][o] = 1
                \/ o = "write" /\ j \in Members /\ pending'[j][o] = 1
    <3>1. /\ pending[j][o] \in Nat /\ ops[j][o] \in 0..1
          /\ pending[j][o] >= ops[j][o]
      BY <2>3, <2>7 DEF Counted, Typed
    <3>2. CASE j = k /\ o = "accept"
      <4>1. ops'[j][o] = 1 /\ ops[j][o] = 0 /\ pending[j][o] = 1
        BY <2>5, <2>17, <3>2
      <4>2. pending'[j][o] = (pending[j][o] + ops'[j][o]) - (ops[j][o] + 1)
        BY <2>18, <3>2
      <4>3. QED BY <2>10, <3>2, <4>1, <4>2
    <3>3. CASE j = c /\ o = "read"
      <4>1. ops'[j][o] = 1 /\ pending[j][o] = 0
        BY <2>10, <2>11, <2>16, <2>17, <3>3
      <4>2. ops[j][o] = 0
        BY <3>1, <4>1
      <4>3. pending'[j][o] = (pending[j][o] + ops'[j][o]) - (ops[j][o] + 0)
        BY <2>18, <3>3
      <4>4. QED BY <3>3, <4>1, <4>2, <4>3
    <3>4. CASE ~(j = k /\ o = "accept") /\ ~(j = c /\ o = "read")
      <4>1. ops'[j][o] = B[j][o]
        BY <2>16, <2>17, <3>4
      <4>2. pending'[j][o] = (pending[j][o] + ops'[j][o]) - (ops[j][o] + 0)
        BY <2>18, <3>4
      <4>3. CASE j \in Members /\ o = "write" /\ pending[j]["write"] = 0
        <5>1. ops'[j][o] = 1 /\ pending[j][o] = 0 /\ ops[j][o] = 0
          BY <2>13, <3>1, <4>1, <4>3
        <5>2. QED BY <4>2, <4>3, <5>1
      <4>4. CASE ~(j \in Members /\ o = "write" /\ pending[j]["write"] = 0)
        <5>1. ops'[j][o] = ops[j][o]
          BY <2>13, <4>1, <4>4
        <5>2. pending'[j][o] = pending[j][o]
          BY <3>1, <4>2, <5>1
        <5>3. QED BY <3>4, <5>2
      <4>5. QED BY <4>3, <4>4
    <3>5. QED BY <3>2, <3>3, <3>4
  <2>20. \A j \in Members : j \in Conns /\ j \notin Server /\ obj[j] = "live"
    BY Kinds DEF Members
  <2>21. Trades'
    <3>1. ASSUME NEW j \in Object, NEW o \in Kind, pending'[j][o] # 0
          PROVE  o # "connect" /\ (o = "accept" <=> j \in Server)
      <4>1. CASE j \in Conns /\ o \in {"read", "write"}
        BY <4>1, Kinds
      <4>2. CASE pending'[j][o] = pending[j][o]
        BY <2>3, <3>1, <4>2 DEF LifeInv, Trades
      <4>3. QED BY <2>6, <2>19, <2>20, <4>1, <4>2
    <3>2. QED BY <3>1 DEF Trades
  <2>22. OneEach'
    <3>1. servers' = servers /\ NeverStopped
      BY <2>2, <2>4
    <3>2. \A j \in Server : pending'[j]["accept"] = pending[j]["accept"]
      BY <2>6, <2>19, Kinds
    <3>3. ASSUME NEW d \in Conns
          PROVE  /\ pending'[d]["read"] = IF d = c THEN 1 ELSE pending[d]["read"]
                 /\ \/ pending'[d]["write"] = pending[d]["write"]
                    \/ obj[d] = "live" /\ pending'[d]["write"] = 1
                 /\ obj'[d] = IF d = c THEN "live" ELSE obj[d]
      BY <2>12, <2>19, <2>20, Kinds
    <3>4. QED BY <2>3, <2>8, <3>1, <3>2, <3>3 DEF LifeInv, OneEach
  <2>23. NothingRunsForTheDead'
    <3>1. ASSUME NEW j \in Object, NEW o \in Kind, obj'[j] = "freed"
          PROVE  ops'[j][o] = 0
      <4>1. j # c /\ j # k /\ j \notin Members /\ ops[j][o] = 0
        BY <2>2, <2>3, <2>10, <2>12, <2>20, <3>1 DEF LifeInv, NothingRunsForTheDead
      <4>2. QED BY <2>13, <2>16, <2>17, <4>1
    <3>2. QED BY <3>1 DEF NothingRunsForTheDead
  <2>24. Sockets'
    <3>1. ASSUME NEW d \in Conns
          PROVE  carried'[d] <= 1 /\ (obj'[d] # "none" => carried'[d] = 0)
      <4>1. carried[d] \in Nat /\ carried[d] <= 1 /\ (obj[d] # "none" => carried[d] = 0)
        BY <2>3, <2>18 DEF LifeInv, Sockets
      <4>2. CASE d = c
        BY <2>8, <2>18, <4>2
      <4>3. CASE d # c
        BY <2>12, <2>18, <4>1, <4>3, Kinds
      <4>4. QED BY <4>2, <4>3
    <3>2. QED BY <3>1 DEF Sockets
  <2>25. IsFiniteSet(Members')
    <3>1. Members' = Members \cup {c}
      BY <2>6, <2>12, Kinds DEF Members
    <3>2. QED BY <2>3, <3>1, FS_AddElement DEF LifeInv
  <2>26. /\ obj' \in [Object -> {"none", "live", "freed"}]
         /\ \A j \in Server : obj'[j] = obj[j]
    BY <2>2, <2>6, <2>12, Kinds DEF IInv, TypeOK, IoTypeOK
  <2>27. QED
    BY <2>2, <2>18, <2>21, <2>22, <2>23, <2>24, <2>25, <2>26, HandlerKeeps
<1>3. QED
  BY <1>1, <1>2

LEMMA RemovingHandlerKeeps == IInv /\ (\E c \in Conns : RemovingHandler(c)) => IInv'
<1> SUFFICES ASSUME IInv, NEW c \in Conns, RemovingHandler(c) PROVE IInv'
  OBVIOUS
<1>1. CASE ThrowsInHandler
  BY <1>1, ThrowKeeps DEF RemovingHandler
<1>2. CASE ~ThrowsInHandler
  <2>1. /\ Runs("read", c)
        /\ UNCHANGED <<process, servers, link>>
        /\ Up /\ obj[c] = "live" /\ ready # <<>>
        /\ Head(ready).of = c /\ Head(ready).do = "read"
        /\ ready' = Tail(ready) \o Aborted(c)
        /\ obj' = [obj EXCEPT ![c] = "freed"]
        /\ ops' = [Broadcast(Members \ {c}) EXCEPT ![c] = Ended(<<c>>)[c]]
    BY <1>2 DEF RemovingHandler, RunsIn, Runs, Running
  <2>2. Typed /\ LifeInv /\ Trades
    BY <2>1, TypeOKImpliesTyped DEF IInv, LifeInv
  <2>3. NeverStopped /\ servers = 1 /\ m_server
        /\ \A d \in Conns : pending[d]["read"] = IF obj[d] = "live" THEN 1 ELSE 0
    BY <2>1, OnlyTheFirstIsServed
  <2>4. c \in Object /\ pending[c]["read"] = 1 /\ ops[c]["read"] = 0
    BY <2>1, HeadIsAlone
  <2>5. \A j \in Object : obj'[j] = IF j = c THEN "freed" ELSE obj[j]
    BY <2>1 DEF IInv, TypeOK, IoTypeOK
  <2>6. PICK B \in [Object -> [Kind -> 0..1]] :
          /\ B = Broadcast(Members \ {c})
          /\ \A j \in Object, o \in Kind :
               B[j][o] = IF /\ j \in Members \ {c}
                            /\ o = "write" /\ pending[j]["write"] = 0
                         THEN 1 ELSE ops[j][o]
    <3>1. Members \ {c} \in SUBSET Conns
      BY DEF Members
    <3>2. QED BY <2>2, <3>1, BroadcastStarts
  <2>7. /\ ops' \in [Object -> [Kind -> 0..1]]
        /\ \A j \in Object, o \in Kind : ops'[j][o] = IF j = c THEN 0 ELSE B[j][o]
    <3>1. PICK z : z = Ended(<<c>>)[c]
      OBVIOUS
    <3>2. z = [o \in Kind |-> 0]
      <4>1. c \in Range(<<c>>)
        <5>1. 1 \in DOMAIN <<c>> /\ <<c>>[1] = c
          OBVIOUS
        <5>2. QED BY <5>1 DEF Range
      <4>2. QED BY <2>4, <3>1, <4>1 DEF Ended
    <3>3. z \in [Kind -> 0..1] /\ \A o \in Kind : z[o] = 0
      BY <3>2
    <3>4. ops' = [B EXCEPT ![c] = z]
      BY <2>1, <2>6, <3>1
    <3>5. QED BY <2>4, <3>3, <3>4
  <2>8. /\ Typed'
        /\ \A j \in Object, o \in Kind :
             /\ pending[j][o] \in Nat
             /\ pending'[j][o] =
                  (pending[j][o] + ops'[j][o] + IF j = c THEN ops[j][o] ELSE 0)
                    - (ops[j][o] + IF o = "read" /\ j = c THEN 1 ELSE 0)
        /\ \A d \in Conns : carried[d] \in Nat /\ carried'[d] = carried[d]
    <3>1. /\ Typed'
          /\ \A j \in Object, o \in Kind :
               /\ pending[j][o] \in Nat
               /\ pending'[j][o] =
                    (pending[j][o] + ops'[j][o] + IF j = c THEN ops[j][o] ELSE 0)
                      - (ops[j][o] + IF Head(ready).do = o /\ Head(ready).of = j
                                     THEN 1 ELSE 0)
          /\ \A d \in Conns :
               /\ carried[d] \in Nat
               /\ carried'[d] = carried[d]
                    - IF /\ Head(ready).do = "accept"
                         /\ Head(ready).ec = "ok"
                         /\ Head(ready).socket = d THEN 1 ELSE 0
      BY <2>1, <2>2, <2>4, <2>7, RemovalCounts
    <3>2. PICK h : h = Head(ready)
      OBVIOUS
    <3>3. h.do = "read" /\ h.of = c
      BY <2>1, <3>2
    <3>4. QED BY <3>1, <3>2, <3>3
  <2>9. ASSUME NEW j \in Object, NEW o \in Kind
        PROVE  \/ pending'[j][o] = pending[j][o] /\ ~(j = c /\ o = "read")
               \/ j = c /\ o = "read" /\ pending'[j][o] = 0
               \/ o = "write" /\ j \in Members \ {c} /\ pending'[j][o] = 1
    <3>1. /\ pending[j][o] \in Nat /\ ops[j][o] \in 0..1
          /\ pending[j][o] >= ops[j][o]
      BY <2>2, Counts DEF Counted, Typed
    <3>2. CASE j = c
      <4>1. ops'[j][o] = 0
        BY <2>7, <3>2
      <4>2. pending'[j][o] = (pending[j][o] + 0 + ops[j][o])
              - (ops[j][o] + IF o = "read" THEN 1 ELSE 0)
        BY <2>8, <3>2, <4>1
      <4>3. pending'[j][o] = pending[j][o] - IF o = "read" THEN 1 ELSE 0
        BY <3>1, <4>2
      <4>4. CASE o = "read"
        BY <2>4, <3>2, <4>3, <4>4
      <4>5. CASE o # "read"
        BY <3>1, <3>2, <4>3, <4>5
      <4>6. QED BY <4>4, <4>5
    <3>3. CASE j # c
      <4>1. ops'[j][o] = B[j][o]
        BY <2>7, <3>3
      <4>2. pending'[j][o] = (pending[j][o] + ops'[j][o] + 0) - (ops[j][o] + 0)
        BY <2>8, <3>3
      <4>3. CASE j \in Members \ {c} /\ o = "write" /\ pending[j]["write"] = 0
        <5>1. B[j][o] = 1
          BY <2>6, <4>3
        <5>2. pending[j][o] = 0
          BY <4>3
        <5>3. ops[j][o] = 0
          BY <3>1, <5>2
        <5>4. pending'[j][o] = 1
          BY <4>1, <4>2, <5>1, <5>2, <5>3
        <5>5. QED BY <4>3, <5>4
      <4>4. CASE ~(j \in Members \ {c} /\ o = "write" /\ pending[j]["write"] = 0)
        <5>1. ops'[j][o] = ops[j][o]
          BY <2>6, <4>1, <4>4
        <5>2. pending'[j][o] = pending[j][o]
          BY <3>1, <4>2, <5>1
        <5>3. QED BY <3>3, <5>2
      <4>5. QED BY <4>3, <4>4
    <3>4. QED BY <3>2, <3>3
  <2>10. \A j \in Members : j \in Conns /\ j \notin Server /\ obj[j] = "live"
    BY Kinds DEF Members
  <2>11. Trades'
    <3>1. ASSUME NEW j \in Object, NEW o \in Kind, pending'[j][o] # 0
          PROVE  o # "connect" /\ (o = "accept" <=> j \in Server)
      <4>1. CASE j \in Members /\ o = "write"
        BY <2>10, <4>1
      <4>2. CASE pending'[j][o] = pending[j][o]
        BY <2>2, <3>1, <4>2 DEF Trades
      <4>3. QED BY <2>9, <3>1, <4>1, <4>2
    <3>2. QED BY <3>1 DEF Trades
  <2>12. OneEach'
    <3>1. servers' = servers /\ NeverStopped
      BY <2>1, <2>3
    <3>2. \A j \in Server : pending'[j]["accept"] = pending[j]["accept"]
      BY <2>9, Kinds
    <3>3. ASSUME NEW d \in Conns
          PROVE  /\ pending'[d]["read"] = IF d = c THEN 0 ELSE pending[d]["read"]
                 /\ \/ pending'[d]["write"] = pending[d]["write"]
                    \/ d # c /\ obj[d] = "live" /\ pending'[d]["write"] = 1
                 /\ obj'[d] = IF d = c THEN "freed" ELSE obj[d]
      BY <2>5, <2>9, <2>10, Kinds
    <3>4. QED BY <2>2, <3>1, <3>2, <3>3 DEF LifeInv, OneEach
  <2>13. NothingRunsForTheDead'
    <3>1. ASSUME NEW j \in Object, NEW o \in Kind, obj'[j] = "freed", j # c
          PROVE  ops'[j][o] = 0
      <4>1. j \notin Members /\ ops[j][o] = 0
        BY <2>2, <2>5, <2>10, <3>1 DEF LifeInv, NothingRunsForTheDead
      <4>2. B[j][o] = 0
        BY <2>6, <4>1
      <4>3. ops'[j][o] = B[j][o]
        BY <2>7, <3>1
      <4>4. QED BY <4>2, <4>3
    <3>2. QED BY <2>7, <3>1 DEF NothingRunsForTheDead
  <2>14. Sockets'
    <3>1. \A d \in Conns : obj'[d] # "none" => obj[d] # "none"
      BY <2>1, <2>5, Kinds
    <3>2. QED BY <2>2, <2>8, <3>1 DEF LifeInv, Sockets
  <2>15. IsFiniteSet(Members')
    <3>1. Members' = Members \ {c}
      BY <2>5, Kinds DEF Members
    <3>2. QED BY <2>2, <3>1, FS_RemoveElement DEF LifeInv
  <2>16. /\ obj' \in [Object -> {"none", "live", "freed"}]
         /\ \A j \in Server : obj'[j] = obj[j]
    BY <2>1, <2>5, Kinds DEF IInv, TypeOK, IoTypeOK
  <2>17. QED
    BY <2>1, <2>8, <2>11, <2>12, <2>13, <2>14, <2>15, <2>16, HandlerKeeps
<1>3. QED
  BY <1>1, <1>2

LEMMA WriteErrorHandlerKeeps == IInv /\ (\E c \in Conns : WriteErrorHandler(c)) => IInv'
BY ThrowKeeps DEF WriteErrorHandler

-----------------------------------------------------------------------------
(* The end of a server. *)

LEMMA JoinKeeps == IInv /\ Join => IInv'
<1> SUFFICES ASSUME IInv, Join PROVE IInv'
  OBVIOUS
<1> DEFINE ks == Append(SetToSeq(Members), servers)
<1>1. /\ Up /\ shell \in {"stop", "quit"}
      /\ thread' = "none" /\ stopped' = FALSE /\ shell' = "prompt"
      /\ obj' = [k \in Object |-> IF k \in Range(ks) THEN "freed" ELSE obj[k]]
      /\ ops' = Ended(ks)
      /\ ready' = ready \o AbortedHandlers(ks)
      /\ process' = IF shell = "quit" THEN "exited" ELSE process
      /\ link' = [c \in Conns |-> IF link[c] = "none" THEN "none" ELSE "gone"]
      /\ UNCHANGED servers
  BY DEF Join, Joins, Left, Restarted
<1>2. Typed /\ LifeInv /\ Trades
  BY <1>1, TypeOKImpliesTyped DEF IInv, LifeInv
<1>3. m_server
  BY <1>1, <1>2 DEF LifeInv, Threads
<1>4. servers \in Server /\ servers \in Object /\ servers \notin Members
  <2>1. servers \in Server
    BY <1>3, ServerLifeAssumption DEF m_server, IInv, TypeOK, Server
  <2>2. QED BY <2>1, Kinds DEF Members
<1>5. /\ ks \in Seq(Object) /\ ks # <<>> /\ IsInjective(ks)
      /\ Range(ks) = Members \cup {servers}
  <2>1. PICK s \in Seq(Members) :
          s = SetToSeq(Members) /\ IsInjective(s) /\ Range(s) = Members
    BY <1>2, SetToSeqLists DEF LifeInv
  <2>2. Members \subseteq Object
    BY Kinds DEF Members
  <2>3. s \in Seq(Object)
    BY <2>2, SeqMonotonic
  <2>4. ks = Append(s, servers)
    BY <2>1
  <2> HIDE DEF ks
  <2>5. ks \in Seq(Object) /\ ks # <<>>
    BY <1>4, <2>3, <2>4, AppendProperties
  <2>6. Range(ks) = Range(s) \cup {servers} /\ IsInjective(ks)
    BY <1>4, <2>1, <2>3, <2>4, AppendDistinct
  <2>7. QED BY <2>1, <2>5, <2>6
<1> HIDE DEF ks
<1> DEFINE Gone == Members \cup {servers}
<1>6. /\ obj' \in [Object -> {"none", "live", "freed"}]
      /\ \A k \in Object : obj'[k] = IF k \in Gone THEN "freed" ELSE obj[k]
  BY <1>1, <1>5 DEF IInv, TypeOK, IoTypeOK
<1>7. /\ ops' \in [Object -> [Kind -> 0..1]]
      /\ \A k \in Object, op \in Kind : ops'[k][op] = IF k \in Gone THEN 0 ELSE ops[k][op]
  <2>1. \A k \in Object : ops'[k] = IF k \in Gone THEN [op \in Kind |-> 0] ELSE ops[k]
    BY <1>1, <1>5 DEF Ended
  <2>2. \A k \in Object : ops'[k] \in [Kind -> 0..1]
    <3>1. 0 \in 0..1
      OBVIOUS
    <3>2. QED BY <1>2, <2>1, <3>1 DEF Typed
  <2>3. ops' = [k \in Object |-> ops'[k]]
    BY <1>1 DEF Ended
  <2>4. QED BY <2>1, <2>2, <2>3
<1>8. PICK a \in Seq(Handler) :
        /\ a = AbortedHandlers(ks)
        /\ \A op \in Kind, k \in Object :
             Occurrences(a, Of(op, k)) = IF k \in Gone THEN ops[k][op] ELSE 0
        /\ \A c : Occurrences(a, Carrying(c)) = 0
  BY <1>2, <1>5, AbortedHandlersCounts
<1>9. PICK r \in Seq(Handler) : r = ready
  BY <1>2 DEF Typed
<1>10. /\ ready' = r \o a
       /\ r \o a \in Seq(Handler)
       /\ \A op, k : Occurrences(r \o a, Of(op, k)) =
            Occurrences(r, Of(op, k)) + Occurrences(a, Of(op, k))
       /\ \A c : Occurrences(r \o a, Carrying(c)) =
            Occurrences(r, Carrying(c)) + Occurrences(a, Carrying(c))
  BY <1>1, <1>8, <1>9, CountsOfConcat
<1>11. Typed'
  BY <1>7, <1>10 DEF Typed
<1>12. Counted /\ Counted'
  BY <1>2, <1>11, Counts, CountsNext
<1>13. ASSUME NEW k \in Object, NEW op \in Kind
       PROVE  pending'[k][op] = pending[k][op] /\ pending[k][op] \in Nat
  <2>1. /\ pending[k][op] = ops[k][op] + Occurrences(r, Of(op, k))
        /\ pending[k][op] \in Nat
        /\ Occurrences(r, Of(op, k)) \in Nat
        /\ ops[k][op] \in 0..1
    BY <1>2, <1>9, <1>12 DEF Counted, Typed
  <2>2. pending'[k][op] = ops'[k][op] + Occurrences(r \o a, Of(op, k))
    BY <1>10, <1>12 DEF Counted
  <2>3. Occurrences(r \o a, Of(op, k)) =
          Occurrences(r, Of(op, k)) + IF k \in Gone THEN ops[k][op] ELSE 0
    BY <1>8, <1>10
  <2>4. CASE k \in Gone
    BY <1>7, <2>1, <2>2, <2>3, <2>4
  <2>5. CASE k \notin Gone
    BY <1>7, <2>1, <2>2, <2>3, <2>5
  <2>6. QED BY <2>4, <2>5
<1>14. \A c \in Conns : carried'[c] = carried[c]
  <2>1. \A c \in Conns : /\ carried[c] = Occurrences(r, Carrying(c))
                         /\ carried[c] \in Nat
                         /\ carried'[c] = Occurrences(r \o a, Carrying(c))
    BY <1>9, <1>10, <1>12 DEF Counted
  <2>2. QED BY <1>8, <1>10, <2>1
<1>15. TypeOK'
  <2>1. /\ process' \in {"up", "shell threw", "io threw", "undefined", "exited"}
        /\ link' \in [Conns -> {"none", "backlog", "up", "closed", "reset", "gone"}]
    BY <1>1 DEF IInv, TypeOK, IoTypeOK
  <2>2. servers' \in 0..MaxServers
    BY <1>1 DEF IInv, TypeOK
  <2>3. QED BY <1>1, <1>6, <1>11, <2>1, <2>2 DEF TypeOK, IoTypeOK, Typed
<1>16. \A k \in Object : obj'[k] # "live"
  <2>1. ASSUME NEW k \in Object, obj[k] = "live" PROVE k \in Gone
    <3>1. CASE k \in Conns
      BY <2>1, <3>1 DEF Members
    <3>2. CASE k \in Server
      <4>1. k \in Nat /\ servers \in Nat /\ ~(k > servers) /\ ~(k < servers)
        BY <1>2, <1>4, <2>1, <3>2, Kinds DEF LifeInv, Succession
      <4>2. QED BY <4>1
    <3>3. QED BY <3>1, <3>2, Kinds
  <2>2. QED BY <1>6, <2>1
<1>17. ~m_server' /\ Members' = {}
  BY <1>1, <1>4, <1>16, Kinds DEF m_server, Members
<1>18. \A k \in Object : obj'[k] = "none" <=> obj[k] = "none"
  <2>1. \A k \in Gone : obj[k] = "live"
    BY <1>3 DEF Members, m_server
  <2>2. QED BY <1>6, <2>1
<1>19. Succession'
  <2>1. \A k \in Server : k # servers => k \notin Gone
    BY Kinds DEF Members
  <2>2. ASSUME NEW k \in Server
        PROVE  /\ k > servers => obj'[k] = "none"
               /\ k < servers => obj'[k] = "freed"
               /\ k = servers => obj'[k] # "none"
    BY <1>2, <1>6, <1>18, <2>1, Kinds DEF LifeInv, Succession
  <2>3. QED BY <1>1, <2>2 DEF Succession
<1>20. Trades'
  BY <1>2, <1>13 DEF Trades
<1>21. ~NeverStopped'
  BY <1>1, <1>4, <1>17, Kinds DEF NeverStopped
<1>22. OneEach'
  <2>1. ASSUME NEW k \in Server
        PROVE  pending'[k]["accept"] = IF k <= servers THEN 1 ELSE 0
    BY <1>2, <1>13, Kinds DEF LifeInv, OneEach
  <2>2. ASSUME NEW c \in Conns
        PROVE  /\ pending'[c]["read"] = pending[c]["read"]
               /\ pending'[c]["write"] = pending[c]["write"]
               /\ obj'[c] # "live" /\ (obj'[c] = "none" => obj[c] = "none")
    BY <1>13, <1>16, <1>18, Kinds
  <2>3. QED BY <1>1, <1>2, <1>21, <2>1, <2>2 DEF LifeInv, OneEach
<1>23. NothingRunsForTheDead'
  BY <1>2, <1>6, <1>7 DEF LifeInv, NothingRunsForTheDead
<1>24. Threads'
  BY <1>1, <1>17 DEF Threads
<1>25. Sockets'
  BY <1>2, <1>14, <1>18, Kinds DEF LifeInv, Sockets
<1>26. StaleInFront'
  <2>1. ready' # <<>>
    <3>1. pending'[servers]["accept"] = 1 /\ ops'[servers]["accept"] = 0
      <4>1. servers <= servers
        BY <1>4, Kinds
      <4>2. QED BY <1>2, <1>4, <1>7, <1>13, <4>1, Kinds DEF LifeInv, OneEach
    <3>2. Occurrences(ready', Of("accept", servers)) = 1
      <4>1. /\ pending'[servers]["accept"] =
                 ops'[servers]["accept"] + Occurrences(ready', Of("accept", servers))
            /\ Occurrences(ready', Of("accept", servers)) \in Nat
        BY <1>4, <1>12, Kinds DEF Counted
      <4>2. QED BY <3>1, <4>1
    <3>3. QED BY <3>2, OccurrencesOfNone
  <2>2. PICK h \in Handler :
          /\ h = Head(ready')
          /\ pending'[h.of][h.do] >= ops'[h.of][h.do] + 1
    BY <1>11, <2>1, HeadIsCountedNext
  <2>3. h.of \in Object /\ h.do \in Kind
        /\ \/ h.do = "accept" /\ h.of \in Server
           \/ h.do \in {"read", "write"} /\ h.of \in Conns
    BY Kinds
  <2>4. pending[h.of][h.do] # 0
    <3>1. ops'[h.of][h.do] \in 0..1
      BY <1>7, <2>3
    <3>2. QED BY <1>13, <2>2, <2>3, <3>1
  <2>5. obj[h.of] # "none"
    <3>1. CASE h.do = "accept" /\ h.of \in Server
      <4>1. h.of <= servers
        BY <1>2, <2>4, <3>1 DEF LifeInv, OneEach
      <4>2. h.of \in Nat /\ servers \in Nat
        BY <1>4, <3>1, Kinds
      <4>3. QED BY <1>2, <3>1, <4>1, <4>2 DEF LifeInv, Succession
    <3>2. CASE h.do \in {"read", "write"} /\ h.of \in Conns
      BY <1>2, <2>4, <3>2 DEF LifeInv, OneEach
    <3>3. QED BY <2>3, <3>1, <3>2
  <2>6. obj'[h.of] = "freed"
    BY <1>6, <1>16, <1>18, <2>3, <2>5
  <2>7. QED BY <2>1, <2>2, <2>6 DEF StaleInFront
<1>27. IsFiniteSet(Members)'
  BY <1>17, FS_EmptySet
<1>28. QED
  BY <1>15, <1>19, <1>20, <1>22, <1>23, <1>24, <1>25, <1>26, <1>27
     DEF IInv, LifeInv

-----------------------------------------------------------------------------
(* Theorems. *)

\* The inductive invariant: what was started is outstanding or waits, and
\* what belongs to a destroyed object waits in front.
\* (scft-srv/main.cpp, cmd_start and cmd_stop; server.cpp; member.cpp)
THEOREM Invariance == Spec => []IInv
<1>1. Init => IInv
  BY InitEstablishes
<1>2. IInv /\ [Next]_vars => IInv'
  <2> SUFFICES ASSUME IInv, [Next]_vars PROVE IInv'
    OBVIOUS
  <2>1. CASE cmd_start
    BY <2>1, StartKeeps
  <2>2. CASE StartThrows \/ QuitUnstarted \/ \E to \in {"stop", "quit"} : cmd_stop(to)
    BY <2>2, ShellKeeps
  <2>3. CASE Join
    BY <2>3, JoinKeeps
  <2>4. CASE \E c \in Conns : Peer(c)
    BY <2>4, PeerKeeps
  <2>5. CASE Kernel
    BY <2>5, KernelKeeps
  <2>6. CASE \E k \in Server : AcceptHandler(k)
    BY <2>6, AcceptHandlerKeeps
  <2>7. CASE \E k \in Server : AcceptErrorHandler(k)
    BY <2>7, AcceptErrorHandlerKeeps
  <2>8. CASE \E c \in Conns : ReadHandler(c)
    BY <2>8, ReadHandlerKeeps
  <2>9. CASE \E c \in Conns : RemovingHandler(c)
    BY <2>9, RemovingHandlerKeeps
  <2>10. CASE \E c \in Conns : WriteHandler(c)
    BY <2>10, WriteHandlerKeeps
  <2>11. CASE \E c \in Conns : WriteErrorHandler(c)
    BY <2>11, WriteErrorHandlerKeeps
  <2>12. CASE OtherIoStep
    BY <2>12, OtherIoStepKeeps
  <2>13. CASE UNCHANGED vars
    BY <2>13, UnchangedKeeps
  <2>14. QED
    BY <2>1, <2>2, <2>3, <2>4, <2>5, <2>6, <2>7, <2>8, <2>9, <2>10, <2>11,
       <2>12, <2>13
       DEF Next, Shell, IoThread
<1>3. QED
  BY <1>1, <1>2, PTL DEF Spec

\* Every variable has its type; no more than one operation of a kind runs for
\* an object, and a handler is one that its object starts.
THEOREM TypeCorrect == Spec => []TypeOK
<1>1. IInv => TypeOK
  BY DEF IInv
<1>2. QED
  BY <1>1, Invariance, PTL

\* A started server is served: run() goes on, with one accept outstanding or
\* its handler waiting, and one read for every member, and at most one write.
\* (scft-srv/main.cpp: one run() per start; server.cpp: accepter.)
THEOREM StartedServersAreServed == Spec => []ServedWhileStarted
<1>1. IInv => ServedWhileStarted
  <2> SUFFICES ASSUME IInv, Up, m_server, shell = "prompt"
               PROVE  /\ thread = "running" /\ ~stopped
                      /\ Outstanding("accept", servers) = 1
                      /\ \A c \in Members : /\ Outstanding("read", c) = 1
                                            /\ Outstanding("write", c) <= 1
    BY DEF ServedWhileStarted
  <2>1. LifeInv /\ Counted
    BY TypeOKImpliesTyped, Counts DEF IInv
  <2>2. thread = "running" /\ ~stopped
    BY <2>1 DEF LifeInv, Threads
  <2>3. Outstanding("accept", servers) = 1
    <3>1. servers \in Server /\ servers <= servers
      BY ServerLifeAssumption DEF m_server, IInv, TypeOK, Server
    <3>2. pending[servers]["accept"] = 1
      BY <2>1, <3>1 DEF LifeInv, OneEach
    <3>3. QED BY <2>1, <3>1, <3>2, Kinds DEF Counted
  <2>4. ASSUME NEW c \in Members
        PROVE  Outstanding("read", c) = 1 /\ Outstanding("write", c) <= 1
    <3>1. c \in Conns /\ c \in Object /\ obj[c] = "live"
      BY Kinds DEF Members
    <3>2. pending[c]["read"] = 1 /\ pending[c]["write"] <= 1
      BY <2>1, <3>1 DEF LifeInv, OneEach
    <3>3. QED BY <2>1, <3>1, <3>2, Kinds DEF Counted
  <2>5. QED BY <2>2, <2>3, <2>4
<1>2. QED
  BY <1>1, Invariance, PTL

\* After a stop nothing is outstanding, but the accept of the destroyed server
\* waits with its this; before the first, only the write of a removed member
\* does.  (scft-srv/main.cpp, cmd_stop; member.cpp: flush_messages.)
THEOREM StopLeavesHandlersBehind == Spec => []StopLeavesHandlers
<1>1. IInv => StopLeavesHandlers
  <2> SUFFICES ASSUME IInv, Up PROVE StopLeavesHandlers
    BY DEF StopLeavesHandlers
  <2>1. LifeInv /\ Typed /\ Counted
    BY TypeOKImpliesTyped, Counts DEF IInv
  <2>2. ~m_server => thread = "none" /\ ~stopped
    BY <2>1 DEF LifeInv, Threads
  <2>3. \A k \in Object, op \in Kind : obj[k] = "freed" => ops[k][op] = 0
    BY <2>1 DEF LifeInv, NothingRunsForTheDead
  <2>4. \A k \in Server : obj[k] = "freed" => k <= servers
    <3>1. servers \in Nat
      BY DEF IInv, TypeOK
    <3>2. QED BY <2>1, <3>1, Kinds DEF LifeInv, Succession
  <2>5. ASSUME NEW k \in Server, obj[k] = "freed"
        PROVE  Outstanding("accept", k) = 1
    <3>1. pending[k]["accept"] = 1
      BY <2>1, <2>4, <2>5 DEF LifeInv, OneEach
    <3>2. QED BY <2>1, <3>1, Kinds DEF Counted
  <2>6. ASSUME servers = 1, m_server, NEW i \in DOMAIN ready,
               obj[ready[i].of] = "freed"
        PROVE  ready[i].do = "write"
    <3>1. PICK r \in Seq(Handler) : r = ready
      BY <2>1 DEF Typed
    <3>2. PICK h \in Handler : h = ready[i]
      BY <2>6, <3>1, LenProperties, ElementOfSeq
    <3>3. pending[h.of][h.do] # 0
      <4>1. h \in Of(h.do, h.of)
        BY DEF Of, HandlersOf
      <4>2. Occurrences(r, Of(h.do, h.of)) # 0
        BY <2>6, <3>1, <3>2, <4>1, OccurrencesType
      <4>3. /\ h.of \in Object /\ h.do \in Kind
            /\ ops[h.of][h.do] \in 0..1
        BY <2>1, Kinds DEF Typed
      <4>4. QED BY <2>1, <3>1, <4>2, <4>3 DEF Counted
    <3>4. h.do # "accept"
      <4>1. SUFFICES ASSUME h.do = "accept" PROVE FALSE
        OBVIOUS
      <4>2. h.of \in Server
        BY <4>1, Kinds
      <4>3. h.of <= 1 /\ h.of \in Nat \ {0}
        BY <2>4, <2>6, <3>2, <4>2, Kinds
      <4>4. h.of = servers
        BY <2>6, <4>3
      <4>5. QED BY <2>6, <3>2, <4>4 DEF m_server
    <3>5. h.do # "read"
      <4>1. SUFFICES ASSUME h.do = "read" PROVE FALSE
        OBVIOUS
      <4>2. h.of \in Conns
        BY <4>1, Kinds
      <4>3. NeverStopped
        BY <2>6 DEF NeverStopped
      <4>4. QED BY <2>1, <2>6, <3>2, <3>3, <4>1, <4>2, <4>3 DEF LifeInv, OneEach
    <3>6. QED BY <3>2, <3>4, <3>5, Kinds
  <2>7. QED BY <2>2, <2>3, <2>5, <2>6 DEF StopLeavesHandlers
<1>2. QED
  BY <1>1, Invariance, PTL
=============================================================================
