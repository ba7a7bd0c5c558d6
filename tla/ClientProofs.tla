---------------------------- MODULE ClientProofs ----------------------------
(***************************************************************************)
(* Proofs about Client, for any number of sessions, texts and frames.      *)
(*                                                                         *)
(* Only the last client that was constructed can be live, and the handlers *)
(* of the others are never run; so everything is said of the live one, in  *)
(* terms of what is outstanding for it (pending, of IoContext) and of      *)
(* what its waiting handlers have been told.                               *)
(***************************************************************************)
EXTENDS Client, SequenceLemmas

-----------------------------------------------------------------------------
(* The inductive invariant. *)

\* Clients are constructed and destroyed one after the other.
Succession ==
  \A k \in Session : /\ k > clients => obj[k] = "none"
                     /\ k < clients => obj[k] = "freed"
                     /\ k = clients => obj[k] # "none"

\* Where the shell and the io thread are.
Threads ==
  /\ IF m_client
     THEN IF shell \in {"stop", "quit"}
          THEN thread # "none" /\ stopped
          ELSE \/ thread = "running" /\ ~stopped
               \/ /\ thread = "returned" /\ stopped
                  /\ socket[clients] = "closed" \/ link[clients] = "refused"
     ELSE shell = "prompt" /\ thread = "none" /\ ~stopped
  /\ shell = "post" => NextText \in Text

\* Nothing has happened to a client that was not constructed.
Untouched(k) ==
  /\ socket[k] = "none" /\ link[k] = "none" /\ phase[k] = "header"
  /\ m_messages[k] = <<>> /\ shown[k] = 0 /\ frames[k] = <<>>
  /\ \A op \in Kind : pending[k][op] = 0
  /\ \A h \in Range(ready) : h.of # k

\* What comes on a connection: whole frames, then perhaps one that is not.
Arrivals(k) ==
  /\ Len(frames[k]) <= MaxFrames
  /\ shown[k] <= Len(frames[k])
  /\ \A i \in DOMAIN frames[k] : i # Len(frames[k]) => frames[k][i] = "whole"
  /\ link[k] \in {"none", "connecting"} => frames[k] = <<>>

Reads(k) == pending[k]["connect"] + pending[k]["read"]
Writes(k) == pending[k]["write"]

\* OperationDiscipline.
Discipline(k) ==
  /\ socket[k] \in {"open", "closed"}
  /\ Reads(k) <= 1
  /\ socket[k] = "open" /\ link[k] # "refused" => Reads(k) = 1
  /\ Writes(k) <= 1
  /\ m_messages[k] = <<>> => Writes(k) = 0
  /\ socket[k] = "open" /\ m_messages[k] # <<>> => Writes(k) = 1

\* ClosesForAReason.
Reason(k) ==
  socket[k] = "closed" =>
    /\ link[k] \in {"refused", "closed", "reset"} \/ "bad" \in Range(frames[k])
    /\ link[k] \in {"up", "closed"} =>
         \A i \in DOMAIN frames[k] : frames[k][i] = "whole" => i <= shown[k]

\* What a handler of k that waits knows is still so when it runs.
Told(h, k) ==
  /\ h.do = "connect" /\ h.ec = "error" /\ socket[k] = "open" => link[k] = "refused"
  /\ h.do = "read" /\ h.ec = "ok" => Arrived(k)
  /\ h.do = "read" /\ h.ec = "error" /\ socket[k] = "open" =>
       link[k] = "reset" \/ (link[k] = "closed" /\ ~Arrived(k))
  /\ h.do = "write" /\ h.ec = "error" /\ socket[k] = "open" =>
       link[k] \in {"refused", "reset"}

\* The live client.
Alive(k) ==
  /\ Discipline(k)
  /\ Reason(k)
  /\ \A h \in Range(ready) : h.of = k => Told(h, k)

LifeInv ==
  /\ Succession
  /\ Threads
  /\ \A k \in Session :
       /\ Arrivals(k)
       /\ obj[k] # "live" => \A op \in Kind : ops[k][op] = 0
       /\ obj[k] = "none" => Untouched(k)
       /\ obj[k] = "live" => Alive(k)

IInv == TypeOK /\ (Up => LifeInv)

-----------------------------------------------------------------------------
(* What the steps do to the queue and the counts. *)

LEMMA PendingIsCounted ==
  ASSUME NEW H, ready \in Seq(H), ops \in [Object -> [Kind -> 0..1]],
         NEW k \in Object, NEW op \in Kind
  PROVE  /\ Occurrences(ready, HandlersOf(H, op, k)) \in Nat
         /\ pending[k][op] = ops[k][op] + Occurrences(ready, HandlersOf(H, op, k))
         /\ pending[k][op] = Outstanding(op, k)
         /\ pending[k][op] \in Nat
<1>1. /\ Occurrences(ready, HandlersOf(H, op, k)) \in Nat
      /\ HandlersWaiting(ready, op, k) = Occurrences(ready, HandlersOf(H, op, k))
  BY WaitingIsCounted
<1>2. Outstanding(op, k) = ops[k][op] + HandlersWaiting(ready, op, k)
  BY DEF Outstanding
<1>3. ops[k][op] \in 0..1
  OBVIOUS
<1>4. pending[k][op] = Outstanding(op, k)
  BY DEF pending
<1>5. QED
  BY <1>1, <1>2, <1>3, <1>4

\* Closing the sockets of k leaves one handler for each operation that ran, and
\* it carries an error.
LEMMA CountsOfAborted ==
  ASSUME NEW H, ops \in [Object -> [Kind -> 0..1]], NEW k \in Object,
         \A op \in Kind : ops[k][op] # 0 => Completion(op, k, "error") \in H
  PROVE  /\ Aborted(k) \in Seq(H)
         /\ \A op \in Kind : \A j : Occurrences(Aborted(k), HandlersOf(H, op, j)) =
                                  IF j = k THEN ops[k][op] ELSE 0
         /\ \A S : (\A op \in Kind : Completion(op, k, "error") \notin S) =>
                     Occurrences(Aborted(k), S) = 0
<1>1. PICK running \in [Kind -> 0..1] : running = ops[k]
  OBVIOUS
<1>2. CountsOf(AbortedOf(running, k), H, running, k)
  BY <1>1, AbortedOfCounted
<1>3. QED
  BY <1>1, <1>2 DEF CountsOf, Aborted

LEMMA AbortedAre ==
  ASSUME ops \in [Object -> [Kind -> 0..1]], NEW k \in Object
  PROVE  \A h \in Range(Aborted(k)) :
           h.of = k /\ h.do \in Kind /\ h.do # "post" /\ h.ec = "error"
<1>1. PICK running \in [Kind -> 0..1] : running = ops[k]
  OBVIOUS
<1>2. QED
  BY <1>1, AbortedOfAre DEF Aborted

Typed == ready \in Seq(Handler) /\ ops \in [Object -> [Kind -> 0..1]]

Counted ==
  \A k \in Session, op \in Kind :
    /\ Occurrences(ready, HandlersOf(Handler, op, k)) \in Nat
    /\ pending[k][op] = ops[k][op] + Occurrences(ready, HandlersOf(Handler, op, k))
    /\ pending[k][op] = Outstanding(op, k)
    /\ pending[k][op] \in Nat
    /\ ops[k][op] \in 0..1

LEMMA Counts == Typed => Counted
<1> SUFFICES ASSUME Typed, NEW k \in Session, NEW op \in Kind
             PROVE  /\ Occurrences(ready, HandlersOf(Handler, op, k)) \in Nat
                    /\ pending[k][op] = ops[k][op]
                         + Occurrences(ready, HandlersOf(Handler, op, k))
                    /\ pending[k][op] = Outstanding(op, k)
                    /\ pending[k][op] \in Nat
                    /\ ops[k][op] \in 0..1
  BY DEF Counted
<1>1. k \in Object /\ ready \in Seq(Handler) /\ ops \in [Object -> [Kind -> 0..1]]
  BY ClientAssumption DEF Typed
<1>2. ops[k][op] \in 0..1
  BY <1>1
<1>3. QED
  BY <1>1, <1>2, PendingIsCounted

LEMMA CountsNext == Typed' => Counted'
BY Counts, PTL

LEMMA TypeOKImpliesTyped == TypeOK => Typed
BY DEF TypeOK, IoTypeOK, Typed

LEMMA HandlerFields ==
  ASSUME NEW h \in Handler
  PROVE  /\ h.of \in Session
         /\ h.do \in Kind \/ (h.do = "post" /\ h.text \in Text)
         /\ h.ec \in {"ok", "error"}
<1>1. CASE h \in [do : Kind, of : Session, ec : {"ok", "error"}]
  BY <1>1
<1>2. CASE h \in [do : {"post"}, of : Session, ec : {"ok"}, text : Text]
  BY <1>2
<1>3. QED
  BY <1>1, <1>2 DEF Handler

LEMMA CompletionIsTyped ==
  ASSUME NEW op \in Kind, NEW k \in Session, NEW result \in {"ok", "error"}
  PROVE  /\ Completion(op, k, result) \in Handler
         /\ Completion(op, k, result).do = op
         /\ Completion(op, k, result).of = k
         /\ Completion(op, k, result).ec = result
BY DEF Completion, Handler

\* The count a handler stands for.
LEMMA InHandlersOf ==
  ASSUME NEW h \in Handler, NEW op, NEW k
  PROVE  h \in HandlersOf(Handler, op, k) <=> h.do = op /\ h.of = k
BY DEF HandlersOf

\* A handler is taken from the front of the queue.
LEMMA Taken ==
  ASSUME Typed, NEW do, NEW k \in Session, Runs(do, k)
  PROVE  \E h \in Handler, r \in Seq(Handler) :
           /\ h = Head(ready) /\ r = Tail(ready)
           /\ h.do = do /\ h.of = k
           /\ h \in Range(ready) /\ Range(r) \subseteq Range(ready)
           /\ \A j \in Session, o \in Kind :
                /\ Occurrences(r, HandlersOf(Handler, o, j)) \in Nat
                /\ pending[j][o] = (ops[j][o] + Occurrences(r, HandlersOf(Handler, o, j)))
                     + IF o = do /\ j = k THEN 1 ELSE 0
<1>1. PICK q \in Seq(Handler) : q = ready /\ q # <<>>
  BY DEF Typed, Runs
<1>2. PICK h \in Handler : h = Head(q) /\ h.do = do /\ h.of = k
  BY <1>1, RangeOfTail DEF Runs
<1>3. PICK r \in Seq(Handler) : r = Tail(q)
  BY <1>1, RangeOfTail
<1>4. h \in Range(q) /\ Range(r) \subseteq Range(q)
  BY <1>1, <1>2, <1>3, RangeOfTail
<1>5. ASSUME NEW j \in Session, NEW o \in Kind
      PROVE  /\ Occurrences(r, HandlersOf(Handler, o, j)) \in Nat
             /\ pending[j][o] = (ops[j][o] + Occurrences(r, HandlersOf(Handler, o, j)))
                  + IF o = do /\ j = k THEN 1 ELSE 0
  <2>1. PICK S : S = HandlersOf(Handler, o, j)
    OBVIOUS
  <2>2. Occurrences(q, S) = Occurrences(r, S) + IF h \in S THEN 1 ELSE 0
    BY <1>1, <1>2, <1>3, OccurrencesTail
  <2>3. h \in S <=> o = do /\ j = k
    BY <1>2, <2>1, InHandlersOf
  <2>4. Occurrences(r, S) \in Nat
    BY OccurrencesType
  <2>5. pending[j][o] = ops[j][o] + Occurrences(q, S) /\ ops[j][o] \in 0..1
    BY <1>1, <2>1, Counts DEF Counted
  <2>6. QED BY <2>1, <2>2, <2>3, <2>4, <2>5
<1>6. WITNESS h \in Handler
<1>7. WITNESS r \in Seq(Handler)
<1>8. QED
  BY <1>1, <1>2, <1>3, <1>4, <1>5

LEMMA NothingStarted ==
  ASSUME Typed, NEW do, NEW k \in Session, Runs(do, k), StartsNothing
  PROVE  /\ Typed'
         /\ \A j \in Session, o \in Kind :
              /\ ops'[j][o] = ops[j][o]
              /\ pending[j][o] \in Nat
              /\ pending'[j][o] = pending[j][o] - IF o = do /\ j = k THEN 1 ELSE 0
         /\ Range(ready') \subseteq Range(ready)
<1>1. PICK h \in Handler, r \in Seq(Handler) :
        /\ h = Head(ready) /\ r = Tail(ready)
        /\ h.do = do /\ h.of = k
        /\ h \in Range(ready) /\ Range(r) \subseteq Range(ready)
        /\ \A j \in Session, o \in Kind :
             /\ Occurrences(r, HandlersOf(Handler, o, j)) \in Nat
             /\ pending[j][o] = (ops[j][o] + Occurrences(r, HandlersOf(Handler, o, j)))
                  + IF o = do /\ j = k THEN 1 ELSE 0
  BY Taken
<1>2. ready' = r /\ ops' = ops
  BY <1>1 DEF StartsNothing
<1>3. Typed'
  BY <1>2 DEF Typed
<1>4. Counted /\ Counted'
  BY <1>3, Counts, CountsNext
<1>5. ASSUME NEW j \in Session, NEW o \in Kind
      PROVE  /\ pending[j][o] \in Nat
             /\ pending'[j][o] = pending[j][o] - IF o = do /\ j = k THEN 1 ELSE 0
  <2>1. pending'[j][o] = ops[j][o] + Occurrences(r, HandlersOf(Handler, o, j))
    BY <1>2, <1>4 DEF Counted
  <2>2. pending[j][o] \in Nat /\ ops[j][o] \in 0..1
    BY <1>4 DEF Counted
  <2>3. QED BY <1>1, <2>1, <2>2
<1>6. QED
  BY <1>1, <1>2, <1>3, <1>5

\* An operation starts in place of the handler that ran; on a closed socket it
\* is its handler that does.
LEMMA Started ==
  ASSUME Typed, NEW do, NEW k \in Session, Runs(do, k),
         NEW op \in Kind, Start(op, k, Tail(ready)),
         pending[k][op] = IF op = do THEN 1 ELSE 0
  PROVE  /\ Typed'
         /\ \A j \in Session, o \in Kind :
              /\ j # k => ops'[j][o] = ops[j][o]
              /\ pending[j][o] \in Nat
              /\ pending'[j][o] = (pending[j][o] + IF o = op /\ j = k THEN 1 ELSE 0)
                                    - IF o = do /\ j = k THEN 1 ELSE 0
         /\ \A h \in Range(ready') :
              \/ h \in Range(ready)
              \/ socket[k] # "open" /\ h = Completion(op, k, "error")
         /\ do \in Kind /\ pending[k][do] = 1 =>
              \A h \in Range(ready') : h.do = do /\ h.of = k =>
                socket[k] # "open" /\ h = Completion(op, k, "error")
<1>1. PICK h \in Handler, r \in Seq(Handler) :
        /\ h = Head(ready) /\ r = Tail(ready)
        /\ h.do = do /\ h.of = k
        /\ h \in Range(ready) /\ Range(r) \subseteq Range(ready)
        /\ \A j \in Session, o \in Kind :
             /\ Occurrences(r, HandlersOf(Handler, o, j)) \in Nat
             /\ pending[j][o] = (ops[j][o] + Occurrences(r, HandlersOf(Handler, o, j)))
                  + IF o = do /\ j = k THEN 1 ELSE 0
  BY Taken
<1>2. Counted
  BY Counts
<1>3. ops[k][op] = 0
  <2>1. /\ pending[k][op] = (ops[k][op] + Occurrences(r, HandlersOf(Handler, op, k)))
                              + IF op = do THEN 1 ELSE 0
        /\ Occurrences(r, HandlersOf(Handler, op, k)) \in Nat
        /\ ops[k][op] \in 0..1
    BY <1>1, <1>2 DEF Counted
  <2>2. QED BY <2>1
<1>4. do \in Kind /\ pending[k][do] = 1 =>
        \A g \in Range(r) : ~(g.do = do /\ g.of = k)
  <2> SUFFICES ASSUME do \in Kind, pending[k][do] = 1, NEW g \in Range(r),
                      g.do = do, g.of = k
               PROVE  FALSE
    OBVIOUS
  <2>1. Occurrences(r, HandlersOf(Handler, do, k)) = 0
    <3>1. /\ pending[k][do] = (ops[k][do] + Occurrences(r, HandlersOf(Handler, do, k))) + 1
          /\ Occurrences(r, HandlersOf(Handler, do, k)) \in Nat
          /\ ops[k][do] \in 0..1
      BY <1>1, <1>2 DEF Counted
    <3>2. QED BY <3>1
  <2>2. g \notin HandlersOf(Handler, do, k)
    BY <2>1, NoneInRange
  <2>3. g \in Handler
    BY RangeIsTyped
  <2>4. QED BY <2>2, <2>3, InHandlersOf
<1>5. k \in Object
  BY ClientAssumption
<1>6. CASE socket[k] = "open"
  <2>1. ready' = r /\ ops' = [ops EXCEPT ![k][op] = @ + 1]
    BY <1>1, <1>6 DEF Start
  <2>2. /\ ops' \in [Object -> [Kind -> 0..1]]
        /\ \A j \in Session, o \in Kind :
             ops'[j][o] = IF o = op /\ j = k THEN 1 ELSE ops[j][o]
    <3>1. PICK b \in [Object -> [Kind -> 0..1]] : b = ops
      BY DEF Typed
    <3>2. 1 \in 0..1 /\ b[k][op] + 1 = 1
      BY <1>3, <3>1
    <3>3. ops' = [b EXCEPT ![k] = [b[k] EXCEPT ![op] = 1]]
      BY <1>5, <2>1, <3>1, <3>2
    <3>4. [b[k] EXCEPT ![op] = 1] \in [Kind -> 0..1]
      BY <1>5, <3>2
    <3>5. ops' \in [Object -> [Kind -> 0..1]]
      BY <1>5, <3>3, <3>4
    <3>6. QED BY <1>5, <3>1, <3>3, <3>5, ClientAssumption
  <2>3. Typed'
    BY <2>1, <2>2 DEF Typed
  <2>4. Counted'
    BY <2>3, CountsNext
  <2>5. ASSUME NEW j \in Session, NEW o \in Kind
        PROVE  /\ pending[j][o] \in Nat
               /\ pending'[j][o] = (pending[j][o] + IF o = op /\ j = k THEN 1 ELSE 0)
                                     - IF o = do /\ j = k THEN 1 ELSE 0
    <3>1. pending'[j][o] = ops'[j][o] + Occurrences(r, HandlersOf(Handler, o, j))
      BY <2>1, <2>4 DEF Counted
    <3>2. pending[j][o] \in Nat /\ ops[j][o] \in 0..1
      BY <1>2 DEF Counted
    <3>3. /\ Occurrences(r, HandlersOf(Handler, o, j)) \in Nat
          /\ pending[j][o] = (ops[j][o] + Occurrences(r, HandlersOf(Handler, o, j)))
               + IF o = do /\ j = k THEN 1 ELSE 0
      BY <1>1
    <3>4. CASE o = op /\ j = k
      <4>1. ops[j][o] = 0 /\ ops'[j][o] = 1
        BY <1>3, <2>2, <3>4
      <4>2. QED BY <3>1, <3>2, <3>3, <3>4, <4>1
    <3>5. CASE ~(o = op /\ j = k)
      <4>1. ops'[j][o] = ops[j][o]
        BY <2>2, <3>5
      <4>2. QED BY <3>1, <3>2, <3>3, <3>5, <4>1
    <3>6. QED BY <3>4, <3>5
  <2>6. \A j \in Session, o \in Kind : j # k => ops'[j][o] = ops[j][o]
    BY <2>2
  <2>7. QED BY <1>1, <1>4, <2>1, <2>3, <2>5, <2>6
<1>7. CASE socket[k] # "open"
  <2> DEFINE c == Completion(op, k, "error")
  <2>1. ready' = Append(r, c) /\ ops' = ops
    BY <1>1, <1>7 DEF Start
  <2>2. c \in Handler /\ c.do = op /\ c.of = k
    BY CompletionIsTyped
  <2> HIDE DEF c
  <2>3. Append(r, c) \in Seq(Handler) /\ Range(Append(r, c)) = Range(r) \cup {c}
    BY <2>2, RangeOfAppend
  <2>4. Typed'
    BY <2>1, <2>3 DEF Typed
  <2>5. Counted'
    BY <2>4, CountsNext
  <2>6. ASSUME NEW j \in Session, NEW o \in Kind
        PROVE  /\ pending[j][o] \in Nat
               /\ pending'[j][o] = (pending[j][o] + IF o = op /\ j = k THEN 1 ELSE 0)
                                     - IF o = do /\ j = k THEN 1 ELSE 0
    <3>1. PICK S : S = HandlersOf(Handler, o, j)
      OBVIOUS
    <3>2. Occurrences(Append(r, c), S) = Occurrences(r, S) + IF c \in S THEN 1 ELSE 0
      BY <2>2, OccurrencesAppend
    <3>3. c \in S <=> o = op /\ j = k
      BY <2>2, <3>1, InHandlersOf
    <3>4. pending'[j][o] = ops[j][o] + Occurrences(Append(r, c), S)
      BY <2>1, <2>5, <3>1 DEF Counted
    <3>5. pending[j][o] \in Nat /\ ops[j][o] \in 0..1
      BY <1>2 DEF Counted
    <3>6. /\ Occurrences(r, S) \in Nat
          /\ pending[j][o] = (ops[j][o] + Occurrences(r, S))
               + IF o = do /\ j = k THEN 1 ELSE 0
      BY <1>1, <3>1
    <3>7. QED BY <3>2, <3>3, <3>4, <3>5, <3>6
  <2>7. QED BY <1>1, <1>4, <1>7, <2>1, <2>3, <2>4, <2>6 DEF c
<1>8. QED
  BY <1>6, <1>7

\* The socket is closed by a handler: what is outstanding on it is aborted.
LEMMA ClosedAll ==
  ASSUME Typed, NEW do, NEW k \in Session, Runs(do, k), Close(k)
  PROVE  /\ Typed'
         /\ \A j \in Session, o \in Kind :
              /\ ops'[j][o] = IF j = k THEN 0 ELSE ops[j][o]
              /\ pending[j][o] \in Nat
              /\ pending'[j][o] = pending[j][o] - IF o = do /\ j = k THEN 1 ELSE 0
         /\ \A h \in Range(ready') :
              \/ h \in Range(ready)
              \/ h.of = k /\ h.do # "post" /\ h.ec = "error"
<1>1. PICK h \in Handler, r \in Seq(Handler) :
        /\ h = Head(ready) /\ r = Tail(ready)
        /\ h.do = do /\ h.of = k
        /\ h \in Range(ready) /\ Range(r) \subseteq Range(ready)
        /\ \A j \in Session, o \in Kind :
             /\ Occurrences(r, HandlersOf(Handler, o, j)) \in Nat
             /\ pending[j][o] = (ops[j][o] + Occurrences(r, HandlersOf(Handler, o, j)))
                  + IF o = do /\ j = k THEN 1 ELSE 0
  BY Taken
<1>2. k \in Object /\ ops \in [Object -> [Kind -> 0..1]]
  BY ClientAssumption DEF Typed
<1>3. /\ Aborted(k) \in Seq(Handler)
      /\ \A o \in Kind : \A j : Occurrences(Aborted(k), HandlersOf(Handler, o, j)) =
                              IF j = k THEN ops[k][o] ELSE 0
  <2>1. \A op \in Kind : ops[k][op] # 0 => Completion(op, k, "error") \in Handler
    BY CompletionIsTyped
  <2>2. QED BY <1>2, <2>1, CountsOfAborted
<1>4. PICK a \in Seq(Handler) : a = Aborted(k)
  BY <1>3
<1>5. \A g \in Range(a) : g.of = k /\ g.do # "post" /\ g.ec = "error"
  BY <1>2, <1>4, AbortedAre
<1>6. /\ ready' = r \o a
      /\ r \o a \in Seq(Handler)
      /\ Range(r \o a) = Range(r) \cup Range(a)
  <2>1. ready' = r \o a
    BY <1>1, <1>4 DEF Close
  <2>2. r \o a \in Seq(Handler) /\ Range(r \o a) = Range(r) \cup Range(a)
    BY RangeOfConcat
  <2>3. QED BY <2>1, <2>2
<1>7. /\ ops' \in [Object -> [Kind -> 0..1]]
      /\ \A j \in Session, o \in Kind : ops'[j][o] = IF j = k THEN 0 ELSE ops[j][o]
  <2>1. Range(<<k>>) = {k}
    BY DEF Range
  <2>2. ops' = [j \in Object |-> IF j = k THEN [op \in Kind |-> 0] ELSE ops[j]]
    BY <2>1 DEF Close, Ended
  <2>3. [op \in Kind |-> 0] \in [Kind -> 0..1]
    <3>1. 0 \in 0..1
      OBVIOUS
    <3>2. QED BY <3>1
  <2>4. ops' \in [Object -> [Kind -> 0..1]]
    BY <1>2, <2>2, <2>3
  <2>5. QED BY <2>2, <2>4, ClientAssumption
<1>8. Typed'
  BY <1>6, <1>7 DEF Typed
<1>9. Counted /\ Counted'
  BY <1>8, Counts, CountsNext
<1>10. ASSUME NEW j \in Session, NEW o \in Kind
       PROVE  /\ pending[j][o] \in Nat
              /\ pending'[j][o] = pending[j][o] - IF o = do /\ j = k THEN 1 ELSE 0
  <2>1. PICK S : S = HandlersOf(Handler, o, j)
    OBVIOUS
  <2>2. Occurrences(r \o a, S) = Occurrences(r, S) + Occurrences(a, S)
    BY OccurrencesConcat
  <2>3. Occurrences(a, S) = IF j = k THEN ops[k][o] ELSE 0
    BY <1>3, <1>4, <2>1
  <2>4. pending'[j][o] = ops'[j][o] + Occurrences(r \o a, S)
    BY <1>6, <1>9, <2>1 DEF Counted
  <2>5. /\ pending[j][o] \in Nat /\ ops[j][o] \in 0..1
        /\ ops'[j][o] = IF j = k THEN 0 ELSE ops[j][o]
    BY <1>7, <1>9 DEF Counted
  <2>6. /\ Occurrences(r, S) \in Nat
        /\ pending[j][o] = (ops[j][o] + Occurrences(r, S))
             + IF o = do /\ j = k THEN 1 ELSE 0
    BY <1>1, <2>1
  <2>7. CASE j = k
    BY <2>2, <2>3, <2>4, <2>5, <2>6, <2>7
  <2>8. CASE j # k
    BY <2>2, <2>3, <2>4, <2>5, <2>6, <2>8
  <2>9. QED BY <2>7, <2>8
<1>11. ASSUME NEW g \in Range(ready')
       PROVE  \/ g \in Range(ready)
              \/ g.of = k /\ g.do # "post" /\ g.ec = "error"
  <2>1. g \in Range(r) \/ g \in Range(a)
    BY <1>6
  <2>2. QED BY <1>1, <1>5, <2>1
<1>12. QED
  BY <1>7, <1>8, <1>10, <1>11

\* An operation completes: it becomes a handler.
LEMMA Completed ==
  ASSUME Typed, NEW op \in Kind, NEW k \in Session, NEW result \in {"ok", "error"},
         Completes(op, k, result)
  PROVE  /\ Typed'
         /\ ops[k][op] = 1
         /\ \A j \in Session, o \in Kind :
              /\ ops'[j][o] = IF o = op /\ j = k THEN 0 ELSE ops[j][o]
              /\ pending'[j][o] = pending[j][o]
         /\ \A h \in Range(ready') :
              h \in Range(ready) \/ h = Completion(op, k, result)
<1> DEFINE c == Completion(op, k, result)
<1>1. PICK r \in Seq(Handler) : r = ready
  BY DEF Typed
<1>2. /\ ops[k][op] > 0
      /\ ops' = [ops EXCEPT ![k][op] = @ - 1]
      /\ ready' = Append(r, c)
  BY <1>1 DEF Completes
<1>3. c \in Handler /\ c.do = op /\ c.of = k
  BY CompletionIsTyped
<1> HIDE DEF c
<1>4. Append(r, c) \in Seq(Handler) /\ Range(Append(r, c)) = Range(r) \cup {c}
  BY <1>3, RangeOfAppend
<1>5. k \in Object
  BY ClientAssumption
<1>6. PICK b \in [Object -> [Kind -> 0..1]] : b = ops
  BY DEF Typed
<1>7. ops[k][op] = 1
  BY <1>2, <1>5, <1>6
<1>8. /\ ops' \in [Object -> [Kind -> 0..1]]
      /\ \A j \in Session, o \in Kind :
           ops'[j][o] = IF o = op /\ j = k THEN 0 ELSE ops[j][o]
  <2>1. 0 \in 0..1 /\ b[k][op] - 1 = 0
    BY <1>6, <1>7
  <2>2. ops' = [b EXCEPT ![k] = [b[k] EXCEPT ![op] = 0]]
    BY <1>2, <1>5, <1>6, <2>1
  <2>3. [b[k] EXCEPT ![op] = 0] \in [Kind -> 0..1]
    BY <1>5, <2>1
  <2>4. ops' \in [Object -> [Kind -> 0..1]]
    BY <1>5, <2>2, <2>3
  <2>5. QED BY <1>5, <1>6, <2>2, <2>4, ClientAssumption
<1>9. Typed'
  BY <1>2, <1>4, <1>8 DEF Typed
<1>10. Counted /\ Counted'
  BY <1>9, Counts, CountsNext
<1>11. ASSUME NEW j \in Session, NEW o \in Kind
       PROVE  pending'[j][o] = pending[j][o]
  <2>1. PICK S : S = HandlersOf(Handler, o, j)
    OBVIOUS
  <2>2. Occurrences(Append(r, c), S) = Occurrences(r, S) + IF c \in S THEN 1 ELSE 0
    BY <1>3, OccurrencesAppend
  <2>3. c \in S <=> o = op /\ j = k
    BY <1>3, <2>1, InHandlersOf
  <2>4. pending'[j][o] = ops'[j][o] + Occurrences(Append(r, c), S)
    BY <1>2, <1>10, <2>1 DEF Counted
  <2>5. /\ pending[j][o] = ops[j][o] + Occurrences(r, S)
        /\ Occurrences(r, S) \in Nat /\ ops[j][o] \in 0..1
    BY <1>1, <1>10, <2>1 DEF Counted
  <2>6. CASE o = op /\ j = k
    <3>1. ops[j][o] = 1 /\ ops'[j][o] = 0
      BY <1>7, <1>8, <2>6
    <3>2. QED BY <2>2, <2>3, <2>4, <2>5, <2>6, <3>1
  <2>7. CASE ~(o = op /\ j = k)
    <3>1. ops'[j][o] = ops[j][o]
      BY <1>8, <2>7
    <3>2. QED BY <2>2, <2>3, <2>4, <2>5, <2>7, <3>1
  <2>8. QED BY <2>6, <2>7
<1>12. QED
  BY <1>1, <1>2, <1>4, <1>7, <1>8, <1>9, <1>11 DEF c

-----------------------------------------------------------------------------
(* What the actions do to the invariant. *)

\* A step of the client k leaves the others alone.
Elsewhere(k) ==
  \A j \in Session : j # k =>
    /\ socket'[j] = socket[j] /\ link'[j] = link[j]
    /\ phase'[j] = phase[j] /\ shown'[j] = shown[j]
    /\ m_messages'[j] = m_messages[j] /\ frames'[j] = frames[j]
    /\ \A op \in Kind : ops'[j][op] = ops[j][op] /\ pending'[j][op] = pending[j][op]

LEMMA OnlyTheLast ==
  ASSUME IInv, Up, NEW k \in Session, obj[k] = "live"
  PROVE  /\ k = clients /\ m_client
         /\ Typed /\ LifeInv /\ Alive(k) /\ Arrivals(k)
         /\ \A o \in Kind : pending[k][o] \in Nat
<1>1. LifeInv /\ TypeOK /\ Typed
  BY TypeOKImpliesTyped DEF IInv
<1>2. k \in Nat /\ clients \in Nat /\ k > 0
  <2>1. MaxSessions \in Nat
    BY ClientAssumption
  <2>2. clients \in 0..MaxSessions
    BY <1>1 DEF TypeOK
  <2>3. k \in 1..MaxSessions
    BY DEF Session
  <2>4. QED BY <2>1, <2>2, <2>3
<1>3. k = clients
  BY <1>1, <1>2 DEF LifeInv, Succession
<1>4. m_client
  BY <1>2, <1>3 DEF m_client
<1>5. \A o \in Kind : pending[k][o] \in Nat
  BY <1>1, Counts DEF Counted
<1>6. QED
  BY <1>1, <1>3, <1>4, <1>5 DEF LifeInv

LEMMA StepKeeps ==
  ASSUME IInv, Up, NEW k \in Session, obj[k] = "live", TypeOK',
         UNCHANGED <<process, shell, thread, stopped, obj, clients, typed>>,
         Elsewhere(k),
         \A h \in Range(ready') : h.of = k \/ h \in Range(ready),
         Arrivals(k)', Alive(k)',
         Running \/ (UNCHANGED socket /\ (link[k] = "refused" => link'[k] = "refused"))
  PROVE  IInv'
<1>1. LifeInv /\ k = clients /\ m_client
  BY OnlyTheLast
<1>2. Succession'
  BY <1>1 DEF LifeInv, Succession
<1>3. Threads'
  BY <1>1 DEF LifeInv, Threads, m_client, Running, NextText
<1>4. ASSUME NEW j \in Session, j # k
      PROVE  /\ Arrivals(j)'
             /\ \A op \in Kind : ops'[j][op] = 0
             /\ obj'[j] = "none" => Untouched(j)'
             /\ obj'[j] # "live"
  <2>1. obj[j] # "live"
    BY <1>1, <1>4, OnlyTheLast
  <2>2. Arrivals(j) /\ \A op \in Kind : ops[j][op] = 0
    BY <1>1, <2>1 DEF LifeInv
  <2>3. Arrivals(j)'
    BY <1>4, <2>2 DEF Arrivals, Elsewhere
  <2>4. \A op \in Kind : ops'[j][op] = 0
    BY <1>4, <2>2 DEF Elsewhere
  <2>5. ASSUME obj'[j] = "none" PROVE Untouched(j)'
    <3>1. Untouched(j)
      BY <1>1, <2>5 DEF LifeInv
    <3>2. QED BY <1>4, <3>1 DEF Untouched, Elsewhere
  <2>6. QED BY <2>1, <2>3, <2>4, <2>5
<1>5. QED
  BY <1>2, <1>3, <1>4 DEF IInv, LifeInv

\* A handler of the live client begins.
LEMMA HandlerBegins ==
  ASSUME IInv, NEW do, NEW k \in Session, RunsIn(do, k)
  PROVE  /\ Up /\ Running /\ obj[k] = "live" /\ Runs(do, k)
         /\ UNCHANGED <<shell, thread, stopped, obj, clients, typed, link, frames, sent>>
         /\ Typed /\ Alive(k) /\ Arrivals(k)
         /\ \A o \in Kind : pending[k][o] \in Nat
         /\ do \in Kind => pending[k][do] >= 1
         /\ \E h \in Handler : h = Head(ready) /\ h.do = do /\ h.of = k /\ Told(h, k)
<1>1. /\ Up /\ Running /\ obj[k] = "live" /\ Runs(do, k)
      /\ UNCHANGED <<shell, thread, stopped, obj, clients, typed, link, frames, sent>>
  BY DEF RunsIn, Runs, Running, userVars, netVars
<1>2. /\ Typed /\ Alive(k) /\ Arrivals(k)
      /\ \A o \in Kind : pending[k][o] \in Nat
  BY <1>1, OnlyTheLast
<1>3. PICK h \in Handler, r \in Seq(Handler) :
        /\ h = Head(ready) /\ r = Tail(ready)
        /\ h.do = do /\ h.of = k
        /\ h \in Range(ready) /\ Range(r) \subseteq Range(ready)
        /\ \A j \in Session, o \in Kind :
             /\ Occurrences(r, HandlersOf(Handler, o, j)) \in Nat
             /\ pending[j][o] = (ops[j][o] + Occurrences(r, HandlersOf(Handler, o, j)))
                  + IF o = do /\ j = k THEN 1 ELSE 0
  BY <1>1, <1>2, Taken
<1>4. ASSUME do \in Kind PROVE pending[k][do] >= 1
  <2>1. /\ pending[k][do] =
             (ops[k][do] + Occurrences(r, HandlersOf(Handler, do, k))) + 1
        /\ Occurrences(r, HandlersOf(Handler, do, k)) \in Nat
    BY <1>3, <1>4
  <2>2. ops[k][do] \in 0..1
    BY <1>2, <1>4, Counts DEF Counted
  <2>3. QED BY <2>1, <2>2
<1>5. Told(h, k)
  BY <1>2, <1>3 DEF Alive
<1>6. QED
  BY <1>1, <1>2, <1>3, <1>4, <1>5

LEMMA EndKeeps ==
  ASSUME IInv, process' \in {"shell threw", "io threw", "undefined", "exited"},
         Typed', UNCHANGED <<shell, thread, stopped, obj, userVars, clientVars, netVars>>
  PROVE  IInv'
BY DEF IInv, TypeOK, IoTypeOK, Typed, Up, userVars, clientVars, netVars

LEMMA ConnectHandlerKeeps == IInv /\ (\E k \in Session : ConnectHandler(k)) => IInv'
<1> SUFFICES ASSUME IInv, NEW k \in Session, ConnectHandler(k) PROVE IInv'
  OBVIOUS
<1>1. RunsIn("connect", k) /\ UNCHANGED clientVars
  BY DEF ConnectHandler
<1>2. /\ Up /\ Running /\ obj[k] = "live" /\ Runs("connect", k)
      /\ UNCHANGED <<shell, thread, stopped, obj, clients, typed, link, frames, sent>>
      /\ Typed /\ Alive(k) /\ Arrivals(k)
      /\ \A o \in Kind : pending[k][o] \in Nat
      /\ pending[k]["connect"] >= 1
  BY <1>1, HandlerBegins DEF Kind
<1>3. PICK h \in Handler : h = Head(ready) /\ h.do = "connect" /\ h.of = k /\ Told(h, k)
  BY <1>1, HandlerBegins
<1>4. /\ pending[k]["connect"] = 1 /\ pending[k]["read"] = 0
      /\ "connect" \in Kind /\ "read" \in Kind /\ "write" \in Kind
  BY <1>2 DEF Alive, Discipline, Reads, Kind
<1>5. UNCHANGED <<socket, phase, m_messages, shown>>
  BY <1>1 DEF clientVars
<1>6. CASE process' = "io threw" /\ UNCHANGED <<ready, ops>>
  <2>1. Typed'
    BY <1>2, <1>6 DEF Typed
  <2>2. QED BY <1>1, <1>2, <1>6, <2>1, EndKeeps DEF RunsIn
<1>7. CASE Start("read", k, Tail(ready)) /\ UNCHANGED process
  <2>1. /\ Typed'
        /\ \A j \in Session, o \in Kind :
             /\ j # k => ops'[j][o] = ops[j][o]
             /\ pending'[j][o] = (pending[j][o] + IF o = "read" /\ j = k THEN 1 ELSE 0)
                                   - IF o = "connect" /\ j = k THEN 1 ELSE 0
             /\ pending[j][o] \in Nat
        /\ \A g \in Range(ready') :
             \/ g \in Range(ready)
             \/ socket[k] # "open" /\ g = Completion("read", k, "error")
    BY <1>2, <1>4, <1>7, Started
  <2>2. Elsewhere(k)
    BY <1>2, <1>5, <2>1 DEF Elsewhere
  <2>3. /\ pending'[k]["connect"] = 0 /\ pending'[k]["read"] = 1
        /\ pending'[k]["write"] = pending[k]["write"]
    BY <1>4, <2>1
  <2>4. Discipline(k)'
    BY <1>2, <1>4, <1>5, <2>3 DEF Alive, Discipline, Reads, Writes
  <2>5. \A g \in Range(ready') : g.of = k => Told(g, k)'
    BY <1>2, <1>5, <2>1 DEF Alive, Told, Arrived, Completion
  <2>6. Alive(k)' /\ Arrivals(k)'
    BY <1>2, <1>5, <2>4, <2>5 DEF Alive, Reason, Arrivals
  <2>7. \A g \in Range(ready') : g.of = k \/ g \in Range(ready)
    BY <2>1 DEF Completion
  <2>8. TypeOK'
    BY <1>2, <1>5, <1>7, <2>1 DEF IInv, TypeOK, IoTypeOK, Typed
  <2>9. QED BY <1>2, <1>7, <2>2, <2>6, <2>7, <2>8, StepKeeps
<1>8. CASE ec = "error" /\ StartsNothing /\ UNCHANGED process
  <2>1. /\ Typed'
        /\ \A j \in Session, o \in Kind :
             /\ ops'[j][o] = ops[j][o]
             /\ pending[j][o] \in Nat
             /\ pending'[j][o] = pending[j][o] - IF o = "connect" /\ j = k THEN 1 ELSE 0
        /\ Range(ready') \subseteq Range(ready)
    BY <1>2, <1>8, NothingStarted
  <2>2. Elsewhere(k)
    BY <1>2, <1>5, <2>1 DEF Elsewhere
  <2>3. /\ pending'[k]["connect"] = 0 /\ pending'[k]["read"] = 0
        /\ pending'[k]["write"] = pending[k]["write"]
    BY <1>4, <2>1
  <2>4. socket[k] = "open" => link[k] = "refused"
    BY <1>3, <1>8 DEF Told, ec
  <2>5. Discipline(k)'
    BY <1>2, <1>4, <1>5, <2>3, <2>4 DEF Alive, Discipline, Reads, Writes
  <2>6. \A g \in Range(ready') : g.of = k => Told(g, k)'
    BY <1>2, <1>5, <2>1 DEF Alive, Told, Arrived
  <2>7. Alive(k)' /\ Arrivals(k)'
    BY <1>2, <1>5, <2>5, <2>6 DEF Alive, Reason, Arrivals
  <2>8. TypeOK'
    BY <1>2, <1>5, <1>8, <2>1 DEF IInv, TypeOK, IoTypeOK, Typed
  <2>9. \A g \in Range(ready') : g.of = k \/ g \in Range(ready)
    BY <2>1
  <2>10. QED BY <1>2, <1>8, <2>2, <2>7, <2>8, <2>9, StepKeeps
<1>9. QED
  BY <1>6, <1>7, <1>8 DEF ConnectHandler

\* Of a read handler, no other waits; the next read starts.
LEMMA ReadStarts ==
  ASSUME IInv, NEW k \in Session, RunsIn("read", k), Start("read", k, Tail(ready)),
         UNCHANGED socket
  PROVE  /\ Typed'
         /\ \A j \in Session, o \in Kind :
              /\ j # k => ops'[j][o] = ops[j][o]
              /\ pending'[j][o] = pending[j][o]
         /\ \A h \in Range(ready') : h.of = k \/ h \in Range(ready)
         /\ \A h \in Range(ready') : h.of = k =>
              \/ h \in Range(ready) /\ h.do # "read"
              \/ h.do = "read" /\ h.ec = "error" /\ socket'[k] # "open"
<1>1. /\ Runs("read", k) /\ Typed /\ Alive(k)
      /\ \A o \in Kind : pending[k][o] \in Nat
      /\ "read" \in Kind /\ "connect" \in Kind
      /\ pending[k]["read"] >= 1
  BY HandlerBegins DEF Kind
<1>2. pending[k]["read"] = 1
  BY <1>1 DEF Alive, Discipline, Reads
<1>3. /\ Typed'
      /\ \A j \in Session, o \in Kind :
           /\ j # k => ops'[j][o] = ops[j][o]
           /\ pending[j][o] \in Nat
           /\ pending'[j][o] = (pending[j][o] + IF o = "read" /\ j = k THEN 1 ELSE 0)
                                 - IF o = "read" /\ j = k THEN 1 ELSE 0
      /\ \A h \in Range(ready') :
           \/ h \in Range(ready)
           \/ socket[k] # "open" /\ h = Completion("read", k, "error")
      /\ \A h \in Range(ready') : h.do = "read" /\ h.of = k =>
           socket[k] # "open" /\ h = Completion("read", k, "error")
  BY <1>1, <1>2, Started
<1>4. \A j \in Session, o \in Kind : pending'[j][o] = pending[j][o]
  BY <1>3
<1>5. Completion("read", k, "error").of = k /\ Completion("read", k, "error").do = "read"
      /\ Completion("read", k, "error").ec = "error"
  BY DEF Completion
<1>6. QED
  BY <1>3, <1>4, <1>5

LEMMA ReadHandlersKeep ==
  IInv /\ (\E k \in Session : HeaderHandler(k) \/ DataHandler(k)) => IInv'
<1> SUFFICES ASSUME IInv, NEW k \in Session, HeaderHandler(k) \/ DataHandler(k)
             PROVE  IInv'
  OBVIOUS
<1>1. /\ RunsIn("read", k) /\ Start("read", k, Tail(ready)) /\ ec = "ok"
      /\ UNCHANGED <<process, socket, m_messages>>
  BY DEF HeaderHandler, DataHandler
<1>2. /\ Up /\ Running /\ obj[k] = "live"
      /\ UNCHANGED <<shell, thread, stopped, obj, clients, typed, link, frames, sent>>
      /\ Alive(k) /\ Arrivals(k)
  BY <1>1, HandlerBegins
<1>3. Arrived(k)
  <2>1. PICK h \in Handler : h = Head(ready) /\ h.do = "read" /\ Told(h, k)
    BY <1>1, HandlerBegins
  <2>2. QED BY <1>1, <2>1 DEF Told, ec
<1>4. /\ Typed'
      /\ \A j \in Session, o \in Kind :
           /\ j # k => ops'[j][o] = ops[j][o]
           /\ pending'[j][o] = pending[j][o]
      /\ \A h \in Range(ready') : h.of = k \/ h \in Range(ready)
      /\ \A h \in Range(ready') : h.of = k =>
           \/ h \in Range(ready) /\ h.do # "read"
           \/ h.do = "read" /\ h.ec = "error" /\ socket'[k] # "open"
  BY <1>1, ReadStarts
<1>5. /\ phase \in [Session -> {"header", "data"}]
      /\ shown \in [Session -> 0..MaxFrames]
      /\ frames[k] \in Seq(Frame) /\ Len(frames[k]) \in Nat /\ MaxFrames \in Nat
  BY ClientAssumption, LenProperties DEF IInv, TypeOK
<1>6. /\ phase' \in [Session -> {"header", "data"}]
      /\ shown' \in [Session -> 0..MaxFrames]
      /\ \A j \in Session : j # k => phase'[j] = phase[j] /\ shown'[j] = shown[j]
      /\ shown'[k] >= shown[k] /\ shown'[k] <= Len(frames[k])
  <2>1. CASE HeaderHandler(k)
    <3>1. phase' = [phase EXCEPT ![k] = "data"] /\ shown' = shown
      BY <2>1 DEF HeaderHandler
    <3>2. QED BY <1>2, <1>5, <3>1 DEF Arrivals
  <2>2. CASE DataHandler(k)
    <3>1. phase' = [phase EXCEPT ![k] = "header"] /\ shown' = [shown EXCEPT ![k] = @ + 1]
      BY <2>2 DEF DataHandler
    <3>2. shown[k] + 1 \in 0..MaxFrames /\ shown[k] + 1 <= Len(frames[k])
      BY <1>2, <1>3, <1>5 DEF Arrivals, Arrived
    <3>3. QED BY <1>5, <3>1, <3>2
  <2>3. QED BY <2>1, <2>2
<1>7. TypeOK'
  BY <1>1, <1>2, <1>4, <1>6 DEF IInv, TypeOK, IoTypeOK, Typed
<1>8. Elsewhere(k)
  BY <1>1, <1>2, <1>4, <1>6 DEF Elsewhere
<1>9. Arrivals(k)'
  BY <1>2, <1>6 DEF Arrivals
<1>10. Discipline(k)'
  BY <1>1, <1>2, <1>4 DEF Alive, Discipline, Reads, Writes, Kind
<1>11. Reason(k)'
  <2>1. ASSUME NEW i \in DOMAIN frames[k], i <= shown[k] PROVE i <= shown'[k]
    <3>1. i \in Nat /\ shown[k] \in Nat /\ shown'[k] \in Nat
      BY <1>5, <1>6, LenProperties
    <3>2. QED BY <1>6, <2>1, <3>1
  <2>2. QED BY <1>1, <1>2, <2>1 DEF Alive, Reason
<1>12. ASSUME NEW h \in Range(ready'), h.of = k PROVE Told(h, k)'
  <2>1. CASE h \in Range(ready) /\ h.do # "read"
    BY <1>1, <1>2, <1>12, <2>1 DEF Alive, Told
  <2>2. CASE h.do = "read" /\ h.ec = "error" /\ socket'[k] # "open"
    BY <2>2 DEF Told
  <2>3. QED BY <1>4, <1>12, <2>1, <2>2
<1>13. Alive(k)'
  BY <1>10, <1>11, <1>12 DEF Alive
<1>14. QED
  BY <1>1, <1>2, <1>4, <1>7, <1>8, <1>9, <1>13, StepKeeps

LEMMA IllDataHandlerKeeps == IInv /\ (\E k \in Session : IllDataHandler(k)) => IInv'
<1> SUFFICES ASSUME IInv, NEW k \in Session, IllDataHandler(k) PROVE IInv'
  OBVIOUS
<1>1. RunsIn("read", k) /\ process' = "undefined" /\ UNCHANGED <<ready, ops, clientVars>>
  BY DEF IllDataHandler
<1>2. /\ UNCHANGED <<shell, thread, stopped, obj, userVars, netVars>>
      /\ Typed
  BY <1>1, HandlerBegins DEF RunsIn, Runs
<1>3. Typed'
  BY <1>1, <1>2 DEF Typed
<1>4. QED
  BY <1>1, <1>2, <1>3, EndKeeps

\* A handler that closes the socket for a reason.
LEMMA CloseKeeps ==
  ASSUME IInv, NEW k \in Session, NEW do \in {"read", "write"},
         RunsIn(do, k), Close(k),
         UNCHANGED <<process, phase, m_messages, shown>>,
         Reason(k)'
  PROVE  IInv'
<1>1. /\ Up /\ Running /\ obj[k] = "live" /\ Runs(do, k)
      /\ UNCHANGED <<shell, thread, stopped, obj, clients, typed, link, frames, sent>>
      /\ Typed /\ Alive(k) /\ Arrivals(k)
      /\ \A o \in Kind : pending[k][o] \in Nat
      /\ do \in Kind /\ pending[k][do] >= 1
  BY HandlerBegins DEF Kind
<1>2. /\ Typed'
      /\ \A j \in Session, o \in Kind :
           /\ ops'[j][o] = IF j = k THEN 0 ELSE ops[j][o]
           /\ pending[j][o] \in Nat
           /\ pending'[j][o] = pending[j][o] - IF o = do /\ j = k THEN 1 ELSE 0
      /\ \A h \in Range(ready') :
           h \in Range(ready) \/ (h.of = k /\ h.do # "post" /\ h.ec = "error")
  BY <1>1, ClosedAll
<1>3. /\ socket' \in [Session -> {"none", "open", "closed"}]
      /\ socket'[k] = "closed" /\ \A j \in Session : j # k => socket'[j] = socket[j]
  BY DEF Close, IInv, TypeOK
<1>4. TypeOK'
  BY <1>1, <1>2, <1>3 DEF IInv, TypeOK, IoTypeOK, Typed
<1>5. Elsewhere(k)
  BY <1>1, <1>2, <1>3 DEF Elsewhere
<1>6. Arrivals(k)'
  BY <1>1 DEF Arrivals
<1>7. Discipline(k)'
  <2>1. /\ pending'[k]["connect"] <= pending[k]["connect"]
        /\ pending'[k]["read"] <= pending[k]["read"]
        /\ pending'[k]["write"] <= pending[k]["write"]
        /\ pending[k]["write"] = 0 => do # "write" /\ pending'[k]["write"] = 0
        /\ \A o \in Kind : pending'[k][o] \in Nat /\ pending[k][o] \in Nat
    BY <1>1, <1>2 DEF Kind
  <2>2. "connect" \in Kind /\ "read" \in Kind /\ "write" \in Kind
    BY DEF Kind
  <2>3. QED BY <1>1, <1>3, <2>1, <2>2, SMTT(30) DEF Alive, Discipline, Reads, Writes
<1>8. ASSUME NEW h \in Range(ready'), h.of = k PROVE Told(h, k)'
  <2>1. CASE h \in Range(ready)
    BY <1>1, <1>3, <1>8, <2>1 DEF Alive, Told, Arrived
  <2>2. CASE h.ec = "error"
    BY <1>3, <2>2 DEF Told
  <2>3. QED BY <1>2, <2>1, <2>2
<1>9. Alive(k)'
  BY <1>7, <1>8 DEF Alive
<1>10. \A h \in Range(ready') : h.of = k \/ h \in Range(ready)
  BY <1>2
<1>11. QED
  BY <1>1, <1>4, <1>5, <1>6, <1>9, <1>10, StepKeeps

LEMMA ReadErrorHandlerKeeps == IInv /\ (\E k \in Session : ReadErrorHandler(k)) => IInv'
<1> SUFFICES ASSUME IInv, NEW k \in Session, ReadErrorHandler(k) PROVE IInv'
  OBVIOUS
<1>1. /\ RunsIn("read", k) /\ Close(k)
      /\ ec = "ok" => phase[k] = "header" /\ bad_header(k)
      /\ UNCHANGED <<process, phase, m_messages, shown>>
  BY DEF ReadErrorHandler
<1>2. /\ Alive(k) /\ Arrivals(k) /\ Up /\ obj[k] = "live"
      /\ UNCHANGED <<link, frames>>
  BY <1>1, HandlerBegins
<1>3. PICK h \in Handler : h = Head(ready) /\ h.do = "read" /\ Told(h, k)
  BY <1>1, HandlerBegins
<1>4. /\ frames[k] \in Seq(Frame) /\ Len(frames[k]) \in Nat
      /\ DOMAIN frames[k] = 1..Len(frames[k])
      /\ shown[k] \in Nat
      /\ socket[k] = "open" \/ socket[k] = "closed"
  BY <1>2, LenProperties DEF IInv, TypeOK, Alive, Discipline
<1>5. h.ec = "ok" \/ h.ec = "error"
  BY HandlerFields
<1>6. Reason(k)'
  <2>1. CASE h.ec = "ok"
    <3>1. Arrived(k) /\ frames[k][shown[k] + 1] = "bad"
      BY <1>1, <1>3, <2>1 DEF ec, Told, bad_header
    <3>2. shown[k] + 1 \in DOMAIN frames[k]
      BY <1>4, <3>1 DEF Arrived
    <3>3. "bad" \in Range(frames[k])
      BY <3>1, <3>2 DEF Range
    <3>4. shown[k] + 1 = Len(frames[k])
      BY <1>2, <3>1, <3>2 DEF Arrivals
    <3>5. ASSUME NEW i \in DOMAIN frames[k], frames[k][i] = "whole" PROVE i <= shown[k]
      <4>1. i # Len(frames[k])
        BY <3>1, <3>4, <3>5
      <4>2. QED BY <1>4, <3>4, <4>1
    <3>6. QED BY <1>1, <1>2, <3>3, <3>5 DEF Reason
  <2>2. CASE h.ec = "error" /\ socket[k] = "closed"
    BY <1>1, <1>2, <2>2 DEF Alive, Reason
  <2>3. CASE h.ec = "error" /\ socket[k] = "open" /\ link[k] = "reset"
    BY <1>1, <1>2, <2>3 DEF Reason
  <2>4. CASE h.ec = "error" /\ socket[k] = "open" /\ link[k] = "closed" /\ ~Arrived(k)
    <3>1. ASSUME NEW i \in DOMAIN frames[k], frames[k][i] = "whole" PROVE i <= shown[k]
      <4>1. CASE shown[k] < Len(frames[k])
        <5>1. phase[k] = "data" /\ frames[k][shown[k] + 1] # "whole"
          BY <2>4, <4>1 DEF Arrived
        <5>2. shown[k] + 1 \in DOMAIN frames[k]
          BY <1>4, <4>1
        <5>3. shown[k] + 1 = Len(frames[k])
          BY <1>2, <5>1, <5>2 DEF Arrivals
        <5>4. i # Len(frames[k])
          BY <3>1, <5>1, <5>3
        <5>5. QED BY <1>4, <5>3, <5>4
      <4>2. CASE ~(shown[k] < Len(frames[k]))
        BY <1>4, <4>2
      <4>3. QED BY <4>1, <4>2
    <3>2. QED BY <1>1, <1>2, <2>4, <3>1 DEF Reason
  <2>5. QED BY <1>3, <1>4, <1>5, <2>1, <2>2, <2>3, <2>4 DEF Told
<1>7. QED
  BY <1>1, <1>6, CloseKeeps

LEMMA WriteErrorHandlerKeeps == IInv /\ (\E k \in Session : WriteErrorHandler(k)) => IInv'
<1> SUFFICES ASSUME IInv, NEW k \in Session, WriteErrorHandler(k) PROVE IInv'
  OBVIOUS
<1>1. /\ RunsIn("write", k) /\ Close(k) /\ ec = "error"
      /\ UNCHANGED <<process, phase, m_messages, shown>>
  BY DEF WriteErrorHandler
<1>2. Alive(k) /\ UNCHANGED <<link, frames>>
  BY <1>1, HandlerBegins
<1>3. PICK h \in Handler : h = Head(ready) /\ h.do = "write" /\ Told(h, k)
  BY <1>1, HandlerBegins
<1>4. Reason(k)'
  <2>1. CASE socket[k] = "closed"
    BY <1>1, <1>2, <2>1 DEF Alive, Reason
  <2>2. CASE socket[k] # "closed"
    <3>1. link[k] \in {"refused", "reset"}
      BY <1>1, <1>2, <1>3, <2>2 DEF ec, Told, Alive, Discipline
    <3>2. QED BY <1>1, <1>2, <3>1 DEF Reason
  <2>3. QED BY <2>1, <2>2
<1>5. QED
  BY <1>1, <1>4, CloseKeeps

\* What the handlers that do not close the socket, and do not read, keep.
LEMMA QueueHandlerKeeps ==
  ASSUME IInv, NEW k \in Session, NEW do \in {"write", "post"}, RunsIn(do, k),
         UNCHANGED <<process, socket, phase, shown>>,
         Typed',
         m_messages' \in [Session -> Seq(Text)],
         \A j \in Session : j # k => m_messages'[j] = m_messages[j],
         \A j \in Session, o \in Kind :
           /\ j # k => ops'[j][o] = ops[j][o]
           /\ j # k \/ o # "write" => pending'[j][o] = pending[j][o],
         pending'[k]["write"] <= 1,
         m_messages'[k] = <<>> => pending'[k]["write"] = 0,
         socket[k] = "open" /\ m_messages'[k] # <<>> => pending'[k]["write"] = 1,
         \A h \in Range(ready') :
           \/ h \in Range(ready)
           \/ socket[k] # "open" /\ h = Completion("write", k, "error")
  PROVE  IInv'
<1>1. /\ Up /\ Running /\ obj[k] = "live"
      /\ UNCHANGED <<shell, thread, stopped, obj, clients, typed, link, frames, sent>>
      /\ Alive(k) /\ Arrivals(k)
  BY HandlerBegins
<1>2. TypeOK'
  BY <1>1 DEF IInv, TypeOK, IoTypeOK, Typed
<1>3. Elsewhere(k)
  BY <1>1 DEF Elsewhere
<1>4. Arrivals(k)'
  BY <1>1 DEF Arrivals
<1>5. Discipline(k)'
  <2>1. "connect" \in Kind /\ "read" \in Kind /\ "connect" # "write" /\ "read" # "write"
    BY DEF Kind
  <2>2. pending'[k]["connect"] = pending[k]["connect"]
        /\ pending'[k]["read"] = pending[k]["read"]
    BY <2>1
  <2>3. QED BY <1>1, <2>2 DEF Alive, Discipline, Reads, Writes
<1>6. ASSUME NEW h \in Range(ready'), h.of = k PROVE Told(h, k)'
  <2>1. CASE h \in Range(ready)
    BY <1>1, <1>6, <2>1 DEF Alive, Told, Arrived
  <2>2. CASE socket[k] # "open" /\ h = Completion("write", k, "error")
    BY <1>1, <2>2 DEF Told, Completion
  <2>3. QED BY <2>1, <2>2
<1>7. Alive(k)'
  BY <1>1, <1>5, <1>6 DEF Alive, Reason
<1>8. \A h \in Range(ready') : h.of = k \/ h \in Range(ready)
  BY DEF Completion
<1>9. QED
  BY <1>1, <1>2, <1>3, <1>4, <1>7, <1>8, StepKeeps

LEMMA WriteHandlerKeeps == IInv /\ (\E k \in Session : WriteHandler(k)) => IInv'
<1> SUFFICES ASSUME IInv, NEW k \in Session, WriteHandler(k) PROVE IInv'
  OBVIOUS
<1>1. /\ RunsIn("write", k)
      /\ m_messages' = [m_messages EXCEPT ![k] = Tail(m_messages[k])]
      /\ IF Tail(m_messages[k]) # <<>> THEN Start("write", k, Tail(ready)) ELSE StartsNothing
      /\ UNCHANGED <<process, socket, phase, shown>>
  BY DEF WriteHandler, popped, flushes_again
<1>2. /\ Runs("write", k) /\ Typed /\ Alive(k)
      /\ \A o \in Kind : pending[k][o] \in Nat
      /\ "write" \in Kind /\ pending[k]["write"] >= 1
  BY <1>1, HandlerBegins DEF Kind
<1>3. pending[k]["write"] = 1 /\ m_messages[k] # <<>>
  BY <1>2 DEF Alive, Discipline, Writes
<1>4. m_messages \in [Session -> Seq(Text)]
  BY DEF IInv, TypeOK
<1>5. PICK q \in Seq(Text) : q = Tail(m_messages[k])
  BY <1>3, <1>4, HeadTailProperties
<1>6. /\ m_messages' \in [Session -> Seq(Text)]
      /\ m_messages'[k] = q
      /\ \A j \in Session : j # k => m_messages'[j] = m_messages[j]
  BY <1>1, <1>4, <1>5
<1>7. CASE q # <<>>
  <2>1. Start("write", k, Tail(ready))
    BY <1>1, <1>5, <1>7
  <2>2. /\ Typed'
        /\ \A j \in Session, o \in Kind :
             /\ j # k => ops'[j][o] = ops[j][o]
             /\ pending[j][o] \in Nat
             /\ pending'[j][o] = (pending[j][o] + IF o = "write" /\ j = k THEN 1 ELSE 0)
                                   - IF o = "write" /\ j = k THEN 1 ELSE 0
        /\ \A h \in Range(ready') :
             \/ h \in Range(ready)
             \/ socket[k] # "open" /\ h = Completion("write", k, "error")
    BY <1>2, <1>3, <2>1, Started
  <2>3. \A j \in Session, o \in Kind :
          /\ j # k => ops'[j][o] = ops[j][o]
          /\ pending'[j][o] = pending[j][o]
    BY <2>2
  <2>4. /\ pending'[k]["write"] <= 1
        /\ m_messages'[k] = <<>> => pending'[k]["write"] = 0
        /\ m_messages'[k] # <<>> => pending'[k]["write"] = 1
    BY <1>2, <1>3, <1>6, <1>7, <2>3
  <2>5. QED BY <1>1, <1>6, <2>2, <2>3, <2>4, QueueHandlerKeeps
<1>8. CASE q = <<>>
  <2>1. StartsNothing
    BY <1>1, <1>5, <1>8
  <2>2. /\ Typed'
        /\ \A j \in Session, o \in Kind :
             /\ ops'[j][o] = ops[j][o]
             /\ pending[j][o] \in Nat
             /\ pending'[j][o] = pending[j][o] - IF o = "write" /\ j = k THEN 1 ELSE 0
        /\ Range(ready') \subseteq Range(ready)
    BY <1>2, <2>1, NothingStarted
  <2>3. \A j \in Session, o \in Kind :
          j # k \/ o # "write" => pending'[j][o] = pending[j][o]
    BY <2>2
  <2>4. /\ pending'[k]["write"] <= 1
        /\ m_messages'[k] = <<>> => pending'[k]["write"] = 0
        /\ m_messages'[k] # <<>> => pending'[k]["write"] = 1
    BY <1>2, <1>3, <1>6, <1>8, <2>2
  <2>5. QED BY <1>1, <1>6, <2>2, <2>3, <2>4, QueueHandlerKeeps
<1>9. QED
  BY <1>7, <1>8

LEMMA PostedHandlerKeeps == IInv /\ (\E k \in Session : PostedHandler(k)) => IInv'
<1> SUFFICES ASSUME IInv, NEW k \in Session, PostedHandler(k) PROVE IInv'
  OBVIOUS
<1>1. /\ RunsIn("post", k)
      /\ m_messages' = [m_messages EXCEPT ![k] = Append(@, Head(ready).text)]
      /\ IF m_messages[k] # <<>> THEN StartsNothing ELSE Start("write", k, Tail(ready))
      /\ UNCHANGED <<process, socket, phase, shown>>
  BY DEF PostedHandler, write_in_progress
<1>2. /\ Runs("post", k) /\ Typed /\ Alive(k)
      /\ \A o \in Kind : pending[k][o] \in Nat
      /\ "write" \in Kind /\ "post" \notin Kind
  BY <1>1, HandlerBegins DEF Kind
<1>3. PICK h \in Handler : h = Head(ready) /\ h.do = "post"
  BY <1>1, HandlerBegins
<1>4. h.text \in Text
  BY <1>2, <1>3, HandlerFields
<1>5. m_messages \in [Session -> Seq(Text)]
  BY DEF IInv, TypeOK
<1>6. PICK q \in Seq(Text) : q = Append(m_messages[k], h.text) /\ q # <<>>
  BY <1>4, <1>5, AppendProperties
<1>7. /\ m_messages' \in [Session -> Seq(Text)]
      /\ m_messages'[k] = q
      /\ \A j \in Session : j # k => m_messages'[j] = m_messages[j]
  BY <1>1, <1>3, <1>5, <1>6
<1>8. socket[k] \in {"open", "closed"} /\ Writes(k) <= 1
      /\ (m_messages[k] = <<>> => Writes(k) = 0)
      /\ (socket[k] = "open" /\ m_messages[k] # <<>> => Writes(k) = 1)
  BY <1>2 DEF Alive, Discipline
<1>9. CASE m_messages[k] = <<>>
  <2>1. Start("write", k, Tail(ready)) /\ pending[k]["write"] = 0
    BY <1>1, <1>8, <1>9 DEF Writes
  <2>2. /\ Typed'
        /\ \A j \in Session, o \in Kind :
             /\ j # k => ops'[j][o] = ops[j][o]
             /\ pending[j][o] \in Nat
             /\ pending'[j][o] = (pending[j][o] + IF o = "write" /\ j = k THEN 1 ELSE 0)
                                   - IF o = "post" /\ j = k THEN 1 ELSE 0
        /\ \A g \in Range(ready') :
             \/ g \in Range(ready)
             \/ socket[k] # "open" /\ g = Completion("write", k, "error")
    <3>1. pending[k]["write"] = IF "write" = "post" THEN 1 ELSE 0
      BY <2>1
    <3>2. QED BY <1>2, <2>1, <3>1, Started
  <2>3. \A j \in Session, o \in Kind :
          j # k \/ o # "write" => pending'[j][o] = pending[j][o]
    BY <1>2, <2>2
  <2>4. /\ pending'[k]["write"] <= 1
        /\ m_messages'[k] = <<>> => pending'[k]["write"] = 0
        /\ m_messages'[k] # <<>> => pending'[k]["write"] = 1
    BY <1>2, <1>6, <1>7, <2>1, <2>2
  <2>5. QED BY <1>1, <1>7, <2>2, <2>3, <2>4, QueueHandlerKeeps
<1>10. CASE m_messages[k] # <<>>
  <2>1. /\ Typed'
        /\ \A j \in Session, o \in Kind :
             /\ ops'[j][o] = ops[j][o]
             /\ pending[j][o] \in Nat
             /\ pending'[j][o] = pending[j][o] - IF o = "post" /\ j = k THEN 1 ELSE 0
        /\ Range(ready') \subseteq Range(ready)
    BY <1>1, <1>2, <1>10, NothingStarted
  <2>2. \A j \in Session, o \in Kind : pending'[j][o] = pending[j][o]
    BY <1>2, <2>1
  <2>3. /\ pending'[k]["write"] <= 1
        /\ m_messages'[k] = <<>> => pending'[k]["write"] = 0
        /\ socket[k] = "open" /\ m_messages'[k] # <<>> => pending'[k]["write"] = 1
    BY <1>2, <1>6, <1>7, <1>8, <1>10, <2>2 DEF Writes
  <2>4. QED BY <1>1, <1>7, <2>1, <2>2, <2>3, QueueHandlerKeeps
<1>11. QED
  BY <1>9, <1>10

\* What runs belongs to the live client.
LEMMA OnlyTheLiveRuns ==
  ASSUME IInv, Up, NEW op \in Kind, NEW k \in Session, ops[k][op] # 0
  PROVE  obj[k] = "live"
BY DEF IInv, LifeInv

\* The kernel completes an operation, and may have settled the connection.
LEMMA CompletionKeeps ==
  ASSUME IInv, NEW op \in Kind, NEW k \in Session, NEW result \in {"ok", "error"},
         Completes(op, k, result),
         \/ UNCHANGED link
         \/ link[k] = "connecting" /\ link' = [link EXCEPT ![k] = "up"]
         \/ link[k] = "connecting" /\ link' = [link EXCEPT ![k] = "refused"],
         UNCHANGED <<userVars, clientVars, frames>>,
         sent' \in [Session -> Seq(Text)],
         Told(Completion(op, k, result), k)'
  PROVE  IInv'
<1>1. /\ Up /\ Running /\ ops[k][op] > 0
      /\ UNCHANGED <<process, shell, thread, stopped, obj, clients, typed>>
      /\ UNCHANGED <<socket, phase, m_messages, shown, frames>>
  BY DEF Completes, Running, userVars, clientVars
<1>2. Typed
  BY TypeOKImpliesTyped DEF IInv
<1>3. obj[k] = "live"
  BY <1>1, OnlyTheLiveRuns
<1>4. Alive(k) /\ Arrivals(k)
  BY <1>1, <1>3, OnlyTheLast
<1>5. /\ Typed'
      /\ \A j \in Session, o \in Kind :
           /\ ops'[j][o] = IF o = op /\ j = k THEN 0 ELSE ops[j][o]
           /\ pending'[j][o] = pending[j][o]
      /\ \A h \in Range(ready') : h \in Range(ready) \/ h = Completion(op, k, result)
  BY <1>2, Completed
<1>6. /\ link' \in [Session -> {"none", "connecting", "refused", "up", "closed", "reset"}]
      /\ \A j \in Session : j # k => link'[j] = link[j]
      /\ \/ link'[k] = link[k]
         \/ link[k] = "connecting" /\ link'[k] \in {"up", "refused"}
  BY DEF IInv, TypeOK
<1>7. TypeOK'
  BY <1>1, <1>5, <1>6 DEF IInv, TypeOK, IoTypeOK, Typed
<1>8. Elsewhere(k)
  BY <1>1, <1>5, <1>6 DEF Elsewhere
<1>9. Arrivals(k)'
  BY <1>1, <1>4, <1>6 DEF Arrivals
<1>10. Discipline(k)'
  BY <1>1, <1>4, <1>5, <1>6 DEF Alive, Discipline, Reads, Writes, Kind
<1>11. Reason(k)'
  <2>1. CASE link'[k] = link[k]
    BY <1>1, <1>4, <2>1 DEF Alive, Reason
  <2>2. CASE link[k] = "connecting"
    <3>1. frames[k] = <<>>
      BY <1>4, <2>2 DEF Arrivals
    <3>2. "bad" \notin Range(frames[k])
      BY <3>1 DEF Range
    <3>3. socket[k] # "closed"
      BY <1>4, <2>2, <3>2 DEF Alive, Reason
    <3>4. QED BY <1>1, <3>3 DEF Reason
  <2>3. QED BY <1>6, <2>1, <2>2
<1>12. ASSUME NEW h \in Range(ready'), h.of = k PROVE Told(h, k)'
  <2>1. CASE h \in Range(ready)
    <3>1. Told(h, k)
      BY <1>4, <1>12, <2>1 DEF Alive
    <3>2. QED BY <1>1, <1>6, <3>1 DEF Told, Arrived
  <2>2. QED BY <1>5, <1>12, <2>1
<1>13. Alive(k)'
  BY <1>10, <1>11, <1>12 DEF Alive
<1>14. \A h \in Range(ready') : h.of = k \/ h \in Range(ready)
  BY <1>5 DEF Completion
<1>15. QED
  BY <1>1, <1>3, <1>7, <1>8, <1>9, <1>13, <1>14, StepKeeps

LEMMA KernelKeeps == IInv /\ (\E k \in Session : Kernel(k)) => IInv'
<1> SUFFICES ASSUME IInv, NEW k \in Session, Kernel(k) PROVE IInv'
  OBVIOUS
<1>1. /\ "connect" \in Kind /\ "read" \in Kind /\ "write" \in Kind
      /\ \A r : /\ Completion("connect", k, r).do = "connect"
                /\ Completion("read", k, r).do = "read"
                /\ Completion("write", k, r).do = "write"
                /\ Completion("connect", k, r).ec = r
                /\ Completion("read", k, r).ec = r
                /\ Completion("write", k, r).ec = r
  BY DEF Kind, Completion
<1>2. sent \in [Session -> Seq(Text)] /\ link \in [Session -> {"none", "connecting", "refused", "up", "closed", "reset"}]
  BY DEF IInv, TypeOK
<1>3. CASE ConnectCompletes(k)
  <2>1. UNCHANGED <<userVars, clientVars, frames, sent>> /\ link[k] = "connecting"
    BY <1>3 DEF ConnectCompletes
  <2>2. CASE Completes("connect", k, "ok") /\ link' = [link EXCEPT ![k] = "up"]
    <3>1. Told(Completion("connect", k, "ok"), k)'
      BY <1>1 DEF Told
    <3>2. QED BY <1>1, <1>2, <2>1, <2>2, <3>1, CompletionKeeps
  <2>3. CASE Completes("connect", k, "error") /\ link' = [link EXCEPT ![k] = "refused"]
    <3>1. Told(Completion("connect", k, "error"), k)'
      BY <1>1, <1>2, <2>3 DEF Told
    <3>2. QED BY <1>1, <1>2, <2>1, <2>3, <3>1, CompletionKeeps
  <2>4. QED BY <1>3, <2>2, <2>3 DEF ConnectCompletes
<1>4. CASE ReadCompletes(k)
  <2>1. UNCHANGED <<userVars, clientVars, netVars>>
    BY <1>4 DEF ReadCompletes
  <2>2. UNCHANGED <<socket, phase, shown, link, frames, sent>>
    BY <2>1 DEF clientVars, netVars
  <2>3. CASE Arrived(k) /\ Completes("read", k, "ok")
    <3>1. Told(Completion("read", k, "ok"), k)'
      BY <1>1, <2>2, <2>3 DEF Told, Arrived
    <3>2. QED BY <1>1, <1>2, <2>1, <2>2, <2>3, <3>1, CompletionKeeps
  <2>4. CASE /\ link[k] = "reset" \/ (link[k] = "closed" /\ ~Arrived(k))
             /\ Completes("read", k, "error")
    <3>1. Told(Completion("read", k, "error"), k)'
      BY <1>1, <2>2, <2>4 DEF Told, Arrived
    <3>2. QED BY <1>1, <1>2, <2>1, <2>2, <2>4, <3>1, CompletionKeeps
  <2>5. QED BY <1>4, <2>3, <2>4 DEF ReadCompletes
<1>5. CASE WriteSucceeds(k)
  <2>1. /\ m_messages[k] # <<>> /\ Completes("write", k, "ok")
        /\ sent' = [sent EXCEPT ![k] = Append(@, Head(m_messages[k]))]
        /\ UNCHANGED <<userVars, clientVars, link, frames>>
    BY <1>5 DEF WriteSucceeds
  <2>2. Head(m_messages[k]) \in Text
    BY <2>1, HeadTailProperties DEF IInv, TypeOK
  <2>3. PICK s \in Seq(Text) : s = Append(sent[k], Head(m_messages[k]))
    BY <1>2, <2>2, AppendProperties
  <2>4. sent' \in [Session -> Seq(Text)]
    BY <1>2, <2>1, <2>3
  <2>5. Told(Completion("write", k, "ok"), k)'
    BY <1>1 DEF Told
  <2>6. QED BY <1>1, <2>1, <2>4, <2>5, CompletionKeeps
<1>6. CASE WriteFails(k)
  <2>1. /\ link[k] \in {"refused", "reset"} /\ Completes("write", k, "error")
        /\ UNCHANGED <<userVars, clientVars, netVars>>
    BY <1>6 DEF WriteFails
  <2>2. UNCHANGED <<socket, link, frames, sent>>
    BY <2>1 DEF clientVars, netVars
  <2>3. Told(Completion("write", k, "error"), k)'
    BY <1>1, <2>1, <2>2 DEF Told
  <2>4. QED BY <1>1, <1>2, <2>1, <2>2, <2>3, CompletionKeeps
<1>7. QED
  BY <1>3, <1>4, <1>5, <1>6 DEF Kernel

LEMMA ServerKeeps == IInv /\ (\E k \in Session : Server(k)) => IInv'
<1> SUFFICES ASSUME IInv, NEW k \in Session, Server(k) PROVE IInv'
  OBVIOUS
<1>1. /\ Up /\ obj[k] = "live"
      /\ UNCHANGED <<process, shell, thread, stopped, ready, obj, ops, clients, typed>>
      /\ UNCHANGED <<socket, phase, m_messages, shown, sent>>
  BY DEF Server, ServerSends, ServerEnds, ioVars, userVars, clientVars
<1>2. Typed
  BY TypeOKImpliesTyped DEF IInv
<1>3. Alive(k) /\ Arrivals(k)
  BY <1>1, OnlyTheLast
<1>4. Typed'
  BY <1>1, <1>2 DEF Typed
<1>5. pending' = pending
  BY <1>1 DEF pending, Outstanding
<1>6. /\ frames[k] \in Seq(Frame) /\ Len(frames[k]) \in Nat
      /\ DOMAIN frames[k] = 1..Len(frames[k]) /\ shown[k] \in Nat
      /\ MaxFrames \in Nat
  <2>1. MaxFrames \in Nat
    BY ClientAssumption
  <2>2. frames[k] \in Seq(Frame) /\ shown[k] \in 0..MaxFrames
    BY DEF IInv, TypeOK
  <2>3. QED BY <2>1, <2>2, LenProperties
<1>7. CASE \E f \in Frames[k] : ServerSends(k, f)
  <2>1. PICK f \in Frames[k] : ServerSends(k, f)
    BY <1>7
  <2>2. /\ link[k] = "up" /\ Len(frames[k]) < MaxFrames
        /\ \A i \in DOMAIN frames[k] : frames[k][i] = "whole"
        /\ frames' = [frames EXCEPT ![k] = Append(@, f)]
        /\ UNCHANGED link
    BY <2>1 DEF ServerSends
  <2>3. f \in Frame
    BY ClientAssumption
  <2>4. PICK s \in Seq(Frame) : s = Append(frames[k], f)
    BY <1>6, <2>3, AppendProperties
  <2>5. /\ Len(s) = Len(frames[k]) + 1
        /\ DOMAIN s = 1..Len(s)
        /\ \A i \in 1..Len(frames[k]) : s[i] = frames[k][i]
    BY <1>6, <2>3, <2>4, AppendProperties, LenProperties
  <2>6. /\ frames' \in [Session -> Seq(Frame)] /\ frames'[k] = s
        /\ \A j \in Session : j # k => frames'[j] = frames[j]
    BY <2>2, <2>4 DEF IInv, TypeOK
  <2>7. TypeOK'
    BY <1>1, <1>4, <2>2, <2>6 DEF IInv, TypeOK, IoTypeOK, Typed
  <2>8. Elsewhere(k)
    BY <1>1, <1>5, <2>2, <2>6 DEF Elsewhere
  <2>9. Arrivals(k)'
    <3>1. Len(s) <= MaxFrames /\ shown[k] <= Len(s)
      BY <1>3, <1>6, <2>2, <2>5 DEF Arrivals
    <3>2. ASSUME NEW i \in DOMAIN s, i # Len(s) PROVE s[i] = "whole"
      <4>1. i \in 1..Len(frames[k])
        BY <1>6, <2>5, <3>2
      <4>2. QED BY <1>6, <2>2, <2>5, <4>1
    <3>3. QED BY <1>1, <2>2, <2>6, <3>1, <3>2 DEF Arrivals
  <2>10. "bad" \notin Range(frames[k])
    BY <2>2 DEF Range
  <2>11. socket[k] # "closed"
    BY <1>3, <2>2, <2>10 DEF Alive, Reason
  <2>12. ASSUME NEW h \in Range(ready'), h.of = k PROVE Told(h, k)'
    <3>1. Told(h, k)
      BY <1>1, <1>3, <2>12 DEF Alive
    <3>2. Arrived(k) => Arrived(k)'
      <4>1. ASSUME Arrived(k) PROVE Arrived(k)'
        <5>1. shown[k] < Len(frames[k]) /\ shown[k] + 1 \in 1..Len(frames[k])
              /\ (phase[k] = "data" => frames[k][shown[k] + 1] \in {"whole", "ill"})
          BY <1>6, <4>1 DEF Arrived
        <5>2. shown[k] < Len(s) /\ s[shown[k] + 1] = frames[k][shown[k] + 1]
          BY <1>6, <2>5, <5>1
        <5>3. QED BY <1>1, <2>6, <5>1, <5>2 DEF Arrived
      <4>2. QED BY <4>1
    <3>3. QED BY <1>1, <2>2, <3>1, <3>2 DEF Told
  <2>13. Alive(k)'
    BY <1>1, <1>3, <1>5, <2>2, <2>11, <2>12 DEF Alive, Discipline, Reads, Writes, Reason
  <2>14. QED BY <1>1, <2>2, <2>7, <2>8, <2>9, <2>13, StepKeeps
<1>8. CASE ServerEnds(k)
  <2>1. /\ link' \in [Session -> {"none", "connecting", "refused", "up", "closed", "reset"}]
        /\ \A j \in Session : j # k => link'[j] = link[j]
        /\ \/ link[k] = "up" /\ link'[k] = "closed"
           \/ link[k] \in {"up", "closed"} /\ link'[k] = "reset"
        /\ UNCHANGED frames
    BY <1>8 DEF ServerEnds, IInv, TypeOK
  <2>2. TypeOK'
    BY <1>1, <1>4, <2>1 DEF IInv, TypeOK, IoTypeOK, Typed
  <2>3. Elsewhere(k)
    BY <1>1, <1>5, <2>1 DEF Elsewhere
  <2>4. Arrivals(k)'
    BY <1>1, <1>3, <2>1 DEF Arrivals
  <2>5. Reason(k)'
    BY <1>1, <1>3, <2>1 DEF Alive, Reason
  <2>6. ASSUME NEW h \in Range(ready'), h.of = k PROVE Told(h, k)'
    <3>1. Told(h, k)
      BY <1>1, <1>3, <2>6 DEF Alive
    <3>2. QED BY <1>1, <2>1, <3>1 DEF Told, Arrived
  <2>7. Alive(k)'
    BY <1>1, <1>3, <1>5, <2>1, <2>5, <2>6 DEF Alive, Discipline, Reads, Writes
  <2>8. QED BY <1>1, <2>1, <2>2, <2>3, <2>4, <2>7, StepKeeps
<1>9. QED
  BY <1>7, <1>8 DEF Server

\* The io thread finds a handler nobody is there for, or leaves.
LEMMA OtherIoStepKeeps == IInv /\ OtherIoStep => IInv'
<1> SUFFICES ASSUME IInv, OtherIoStep PROVE IInv'
  OBVIOUS
<1>1. UNCHANGED <<userVars, clientVars, netVars>>
  BY DEF OtherIoStep
<1>2. Typed
  BY TypeOKImpliesTyped DEF IInv
<1>3. CASE StaleHandler
  <2>1. process' = "undefined" /\ UNCHANGED <<shell, thread, stopped, ready, obj, ops>>
    BY <1>3 DEF StaleHandler
  <2>2. Typed'
    BY <1>2, <2>1 DEF Typed
  <2>3. QED BY <1>1, <2>1, <2>2, EndKeeps
<1>4. CASE RunReturns
  <2>1. /\ Up /\ Up' /\ thread = "running" /\ (stopped \/ NoWork)
        /\ thread' = "returned" /\ stopped' = TRUE
        /\ UNCHANGED <<process, shell, ready, obj, ops>>
    BY <1>4 DEF RunReturns, Finished, Up
  <2>2. /\ UNCHANGED <<clients, typed, socket, phase, m_messages, shown>>
        /\ UNCHANGED <<link, frames, sent>>
    BY <1>1 DEF userVars, clientVars, netVars
  <2>3. LifeInv /\ TypeOK
    BY <2>1 DEF IInv
  <2>4. pending' = pending
    BY <2>1 DEF pending, Outstanding
  <2>5. TypeOK'
    BY <2>1, <2>2, <2>3 DEF TypeOK, IoTypeOK
  <2>6. ASSUME m_client, NoWork
        PROVE  socket[clients] = "closed" \/ link[clients] = "refused"
    <3>1. clients \in Session /\ obj[clients] = "live"
      <4>1. clients \in 0..MaxSessions /\ MaxSessions \in Nat
        BY <2>3, ClientAssumption DEF TypeOK
      <4>2. QED BY <2>6, <4>1 DEF m_client, Session
    <3>2. Alive(clients)
      BY <2>3, <3>1 DEF LifeInv
    <3>3. ASSUME NEW op \in Kind PROVE pending[clients][op] = 0
      <4>1. ops[clients][op] = 0 /\ ready = <<>>
        BY <2>6, <3>1, ClientAssumption DEF NoWork
      <4>2. Occurrences(ready, HandlersOf(Handler, op, clients)) = 0
        BY <4>1, OccurrencesOfNone
      <4>3. QED BY <1>2, <3>1, <4>1, <4>2, Counts DEF Counted
    <3>4. Reads(clients) = 0
      BY <3>3 DEF Reads, Kind
    <3>5. QED BY <3>2, <3>4 DEF Alive, Discipline
  <2>7. Threads'
    BY <2>1, <2>2, <2>3, <2>6 DEF LifeInv, Threads, m_client, NextText
  <2>8. Succession'
    BY <2>1, <2>2, <2>3 DEF LifeInv, Succession
  <2>9. ASSUME NEW k \in Session
        PROVE  /\ Arrivals(k)'
               /\ obj'[k] # "live" => \A op \in Kind : ops'[k][op] = 0
               /\ obj'[k] = "none" => Untouched(k)'
               /\ obj'[k] = "live" => Alive(k)'
    <3>1. Arrivals(k)'
      BY <2>2, <2>3 DEF LifeInv, Arrivals
    <3>2. obj'[k] # "live" => \A op \in Kind : ops'[k][op] = 0
      BY <2>1, <2>3 DEF LifeInv
    <3>3. obj'[k] = "none" => Untouched(k)'
      BY <2>1, <2>2, <2>3, <2>4 DEF LifeInv, Untouched
    <3>4. obj'[k] = "live" => Alive(k)'
      BY <2>1, <2>2, <2>3, <2>4
      DEF LifeInv, Alive, Discipline, Reads, Writes, Reason, Told, Arrived
    <3>5. QED BY <3>1, <3>2, <3>3, <3>4
  <2>10. QED BY <2>5, <2>7, <2>8, <2>9 DEF IInv, LifeInv
<1>5. QED
  BY <1>3, <1>4 DEF OtherIoStep

LEMMA IoThreadKeeps == IInv /\ IoThread => IInv'
BY ConnectHandlerKeeps, ReadHandlersKeep, IllDataHandlerKeeps, ReadErrorHandlerKeeps,
   WriteHandlerKeeps, WriteErrorHandlerKeeps, PostedHandlerKeeps, OtherIoStepKeeps
DEF IoThread, Handlers

-----------------------------------------------------------------------------
(* The shell. *)

\* A step of the shell alone, while it stays up: the handlers and what they
\* say of the live client are left alone.
LEMMA QuietKeeps ==
  ASSUME IInv, TypeOK', Threads',
         UNCHANGED <<process, ready, obj, ops, clients, clientVars, netVars>>
  PROVE  IInv'
<1>1. /\ UNCHANGED <<process, ready, obj, ops, clients>>
      /\ UNCHANGED <<socket, phase, m_messages, shown, link, frames, sent>>
  BY DEF clientVars, netVars
<1>2. CASE ~Up
  BY <1>1, <1>2 DEF IInv, Up
<1>3. CASE Up
  <2>1. LifeInv
    BY <1>3 DEF IInv
  <2>2. pending' = pending
    BY <1>1 DEF pending, Outstanding
  <2>3. Succession'
    BY <1>1, <2>1 DEF LifeInv, Succession
  <2>4. ASSUME NEW k \in Session
        PROVE  /\ Arrivals(k)'
               /\ obj'[k] # "live" => \A op \in Kind : ops'[k][op] = 0
               /\ obj'[k] = "none" => Untouched(k)'
               /\ obj'[k] = "live" => Alive(k)'
    <3>1. Arrivals(k)'
      BY <1>1, <2>1 DEF LifeInv, Arrivals
    <3>2. obj'[k] # "live" => \A op \in Kind : ops'[k][op] = 0
      BY <1>1, <2>1 DEF LifeInv
    <3>3. obj'[k] = "none" => Untouched(k)'
      BY <1>1, <2>1, <2>2 DEF LifeInv, Untouched
    <3>4. obj'[k] = "live" => Alive(k)'
      BY <1>1, <2>1, <2>2
      DEF LifeInv, Alive, Discipline, Reads, Writes, Reason, Told, Arrived
    <3>5. QED BY <3>1, <3>2, <3>3, <3>4
  <2>5. QED BY <2>3, <2>4 DEF IInv, LifeInv
<1>4. QED
  BY <1>2, <1>3

LEMMA UnchangedKeeps == IInv /\ UNCHANGED vars => IInv'
<1> SUFFICES ASSUME IInv, UNCHANGED vars PROVE IInv'
  OBVIOUS
<1>1. /\ UNCHANGED <<process, shell, thread, stopped, ready, obj, ops>>
      /\ UNCHANGED <<clients, typed, clientVars, netVars>>
  BY DEF vars, ioVars, userVars
<1>2. UNCHANGED <<socket, phase, m_messages, shown, link, frames, sent>>
  BY <1>1 DEF clientVars, netVars
<1>3. TypeOK'
  BY <1>1, <1>2 DEF IInv, TypeOK, IoTypeOK
<1>4. CASE ~Up
  BY <1>1, <1>3, <1>4 DEF IInv, Up
<1>5. CASE Up
  <2>1. Threads
    BY <1>5 DEF IInv, LifeInv
  <2>2. Threads'
    BY <1>1, <1>2, <2>1 DEF Threads, m_client, NextText
  <2>3. QED BY <1>1, <1>3, <2>2, QuietKeeps
<1>6. QED
  BY <1>4, <1>5

\* The shell dies of an exception, or the program ends.
LEMMA ThrowKeeps ==
  ASSUME IInv, Throws \/ Exits, UNCHANGED <<userVars, clientVars, netVars>>
  PROVE  IInv'
<1>1. /\ process' \in {"shell threw", "exited"}
      /\ UNCHANGED <<shell, thread, stopped, ready, obj, ops>>
  BY DEF Throws, Exits
<1>2. Typed'
  BY <1>1, TypeOKImpliesTyped DEF IInv, Typed
<1>3. QED
  BY <1>1, <1>2, EndKeeps

LEMMA LooksKeeps ==
  ASSUME IInv, NEW from \in {"prompt", "echo"}, NEW to \in {"prompt", "post"},
         Looks(from, to), to = "post" => m_client /\ NextText \in Text
  PROVE  IInv'
<1>1. Up /\ shell = from /\ UNCHANGED <<userVars, clientVars, netVars>>
  BY DEF Looks
<1>2. CASE Throws
  BY <1>1, <1>2, ThrowKeeps
<1>3. CASE shell' = to /\ UNCHANGED <<process, thread, stopped, ready, obj, ops>>
  <2>1. /\ UNCHANGED <<clients, typed, clientVars, netVars>>
        /\ UNCHANGED <<socket, phase, m_messages, shown, link, frames, sent>>
    BY <1>1 DEF userVars, clientVars, netVars
  <2>2. Threads
    BY <1>1 DEF IInv, LifeInv
  <2>3. Threads'
    BY <1>1, <1>3, <2>1, <2>2 DEF Threads, m_client, NextText
  <2>4. TypeOK'
    BY <1>3, <2>1 DEF IInv, TypeOK, IoTypeOK
  <2>5. QED BY <1>3, <2>1, <2>3, <2>4, QuietKeeps
<1>4. QED
  BY <1>2, <1>3 DEF Looks

LEMMA SendFileFailsKeeps == IInv /\ SendFileFails => IInv'
<1> SUFFICES ASSUME IInv, SendFileFails PROVE IInv'
  OBVIOUS
<1>1. UNCHANGED <<userVars, clientVars, netVars>>
  BY DEF SendFileFails
<1>2. CASE Throws
  BY <1>1, <1>2, ThrowKeeps
<1>3. CASE process' = "undefined" /\ UNCHANGED <<shell, thread, stopped, ready, obj, ops>>
  <2>1. Typed'
    BY <1>3, TypeOKImpliesTyped DEF IInv, Typed
  <2>2. QED BY <1>1, <1>3, <2>1, EndKeeps
<1>4. QED
  BY <1>2, <1>3 DEF SendFileFails

\* A message is posted behind whatever waits; it is not an operation, so it
\* counts for nothing yet.
LEMMA PostKeeps == IInv /\ send_message => IInv'
<1> SUFFICES ASSUME IInv, send_message PROVE IInv'
  OBVIOUS
<1>1. /\ Up /\ Up' /\ shell = "post" /\ shell' = "echo"
      /\ ready' = Append(ready, Posting(clients, NextText))
      /\ typed' = Append(typed, clients)
      /\ UNCHANGED <<process, thread, stopped, obj, ops, clients, clientVars, netVars>>
  BY DEF send_message, Up
<1>2. UNCHANGED <<socket, phase, m_messages, shown, link, frames, sent>>
  BY <1>1 DEF clientVars, netVars
<1>3. LifeInv /\ TypeOK /\ Typed /\ Threads
  BY <1>1, TypeOKImpliesTyped DEF IInv, LifeInv
<1>4. m_client /\ clients \in Session /\ NextText \in Text
  <2>1. m_client /\ NextText \in Text
    BY <1>1, <1>3 DEF Threads
  <2>2. clients \in 0..MaxSessions /\ MaxSessions \in Nat
    BY <1>3, ClientAssumption DEF TypeOK
  <2>3. QED BY <2>1, <2>2 DEF m_client, Session
<1>5. PICK c \in Handler : c = Posting(clients, NextText) /\ c.do = "post" /\ c.of = clients
  <2>1. PICK m, x : m = clients /\ x = NextText /\ m \in Session /\ x \in Text
    BY <1>4
  <2>2. /\ Posting(m, x) \in Handler
        /\ Posting(m, x).do = "post" /\ Posting(m, x).of = m
    BY <2>1 DEF Posting, Handler
  <2>3. QED BY <2>1, <2>2
<1>6. PICK q \in Seq(Handler) : q = ready
  BY <1>3 DEF Typed
<1>7. ready' = Append(q, c)
  BY <1>1, <1>5, <1>6
<1>8. Append(q, c) \in Seq(Handler) /\ Range(Append(q, c)) = Range(q) \cup {c}
  BY RangeOfAppend
<1>9. Typed'
  BY <1>1, <1>3, <1>7, <1>8 DEF Typed
<1>10. Counted /\ Counted'
  BY <1>3, <1>9, Counts, CountsNext
<1>11. ASSUME NEW j \in Session, NEW o \in Kind PROVE pending'[j][o] = pending[j][o]
  <2>1. PICK S : S = HandlersOf(Handler, o, j)
    OBVIOUS
  <2>2. Occurrences(Append(q, c), S) = Occurrences(q, S) + IF c \in S THEN 1 ELSE 0
    BY OccurrencesAppend
  <2>3. c \notin S
    BY <1>5, <2>1, InHandlersOf DEF Kind
  <2>4. pending'[j][o] = ops[j][o] + Occurrences(Append(q, c), S)
    BY <1>1, <1>7, <1>10, <2>1 DEF Counted
  <2>5. /\ pending[j][o] = ops[j][o] + Occurrences(q, S)
        /\ Occurrences(q, S) \in Nat /\ ops[j][o] \in 0..1
    BY <1>6, <1>10, <2>1 DEF Counted
  <2>6. QED BY <2>2, <2>3, <2>4, <2>5
<1>12. TypeOK'
  <2>1. typed' \in Seq(Session)
    BY <1>1, <1>3, <1>4, AppendProperties DEF TypeOK
  <2>2. QED BY <1>1, <1>2, <1>3, <1>9, <2>1 DEF TypeOK, IoTypeOK, Typed
<1>13. Threads'
  BY <1>1, <1>2, <1>3 DEF Threads, m_client
<1>14. Succession'
  BY <1>1, <1>3 DEF LifeInv, Succession
<1>15. ASSUME NEW k \in Session
       PROVE  /\ Arrivals(k)'
              /\ obj'[k] # "live" => \A op \in Kind : ops'[k][op] = 0
              /\ obj'[k] = "none" => Untouched(k)'
              /\ obj'[k] = "live" => Alive(k)'
  <2>1. Arrivals(k)'
    BY <1>2, <1>3 DEF LifeInv, Arrivals
  <2>2. obj'[k] # "live" => \A op \in Kind : ops'[k][op] = 0
    BY <1>1, <1>3 DEF LifeInv
  <2>3. ASSUME obj'[k] = "none" PROVE Untouched(k)'
    <3>1. Untouched(k) /\ k # clients
      BY <1>1, <1>3, <1>4, <2>3 DEF LifeInv, m_client
    <3>2. \A h \in Range(ready') : h.of # k
      BY <1>5, <1>6, <1>7, <1>8, <3>1 DEF Untouched
    <3>3. QED BY <1>2, <1>11, <3>1, <3>2 DEF Untouched
  <2>4. ASSUME obj'[k] = "live" PROVE Alive(k)'
    <3>1. Alive(k)
      BY <1>1, <1>3, <2>4 DEF LifeInv
    <3>2. Discipline(k)' /\ Reason(k)'
      BY <1>2, <1>11, <3>1 DEF Alive, Discipline, Reads, Writes, Reason, Kind
    <3>3. ASSUME NEW h \in Range(ready'), h.of = k PROVE Told(h, k)'
      <4>1. CASE h \in Range(ready)
        BY <1>2, <3>1, <3>3, <4>1 DEF Alive, Told, Arrived
      <4>2. CASE h = c
        BY <1>5, <4>2 DEF Told
      <4>3. QED BY <1>6, <1>7, <1>8, <3>3, <4>1, <4>2
    <3>4. QED BY <3>2, <3>3 DEF Alive
  <2>5. QED BY <2>1, <2>2, <2>3, <2>4
<1>16. QED
  BY <1>12, <1>13, <1>14, <1>15 DEF IInv, LifeInv

LEMMA StopKeeps == IInv /\ (\E to \in {"stop", "quit"} : cmd_disconnect(to)) => IInv'
<1> SUFFICES ASSUME IInv, NEW to \in {"stop", "quit"}, cmd_disconnect(to) PROVE IInv'
  OBVIOUS
<1>1. /\ m_client /\ Up /\ shell = "prompt" /\ stopped' = TRUE /\ shell' = to
      /\ UNCHANGED <<process, thread, ready, obj, ops>>
      /\ UNCHANGED <<userVars, clientVars, netVars>>
  BY DEF cmd_disconnect, Stops, AtPrompt
<1>2. /\ UNCHANGED <<clients, typed, clientVars, netVars>>
      /\ UNCHANGED <<socket, phase, m_messages, shown, link, frames, sent>>
  BY <1>1 DEF userVars, clientVars, netVars
<1>3. Threads
  BY <1>1 DEF IInv, LifeInv
<1>4. Threads'
  BY <1>1, <1>2, <1>3 DEF Threads, m_client
<1>5. TypeOK'
  BY <1>1, <1>2 DEF IInv, TypeOK, IoTypeOK
<1>6. QED
  BY <1>1, <1>2, <1>4, <1>5, QuietKeeps

\* A client is constructed, and its connect is under way.
LEMMA ConnectKeeps == IInv /\ cmd_connect => IInv'
<1> SUFFICES ASSUME IInv, cmd_connect PROVE IInv'
  OBVIOUS
<1>1. PICK k : k = clients + 1
  OBVIOUS
<1>2. /\ ~m_client /\ clients < MaxSessions /\ Up /\ Up' /\ shell = "prompt"
      /\ obj' = [obj EXCEPT ![k] = "live"]
      /\ ops' = [ops EXCEPT ![k]["connect"] = 1]
      /\ thread' = "running"
      /\ clients' = k
      /\ socket' = [socket EXCEPT ![k] = "open"]
      /\ link' = [link EXCEPT ![k] = "connecting"]
      /\ UNCHANGED <<process, shell, stopped, ready>>
      /\ UNCHANGED <<typed, phase, m_messages, shown, frames, sent>>
  BY <1>1 DEF cmd_connect, Starts, AtPrompt, Up
<1>3. LifeInv /\ TypeOK /\ Typed
  BY <1>2, TypeOKImpliesTyped DEF IInv
<1>4. clients \in 0..MaxSessions /\ MaxSessions \in Nat
  BY <1>3, ClientAssumption DEF TypeOK
<1>5. k \in Session /\ k \in Object /\ k > clients /\ k > 0 /\ k \in 0..MaxSessions
  <2>1. k \in 1..MaxSessions /\ k > clients /\ k > 0 /\ k \in 0..MaxSessions
    BY <1>1, <1>2, <1>4
  <2>2. QED BY <2>1, ClientAssumption DEF Session
<1>6. obj[k] = "none" /\ Untouched(k) /\ Arrivals(k) /\ \A op \in Kind : ops[k][op] = 0
  BY <1>3, <1>5 DEF LifeInv, Succession
<1>7. Object = Session /\ "connect" \in Kind /\ "read" \in Kind /\ "write" \in Kind
  BY ClientAssumption DEF Kind
<1>8. /\ obj' \in [Session -> {"none", "live", "freed"}]
      /\ socket' \in [Session -> {"none", "open", "closed"}]
      /\ link' \in [Session -> {"none", "connecting", "refused", "up", "closed", "reset"}]
      /\ obj'[k] = "live" /\ socket'[k] = "open" /\ link'[k] = "connecting"
      /\ \A j \in Session : j # k =>
           obj'[j] = obj[j] /\ socket'[j] = socket[j] /\ link'[j] = link[j]
  BY <1>2, <1>3, <1>5, <1>7 DEF TypeOK, IoTypeOK
<1>9. /\ ops' \in [Object -> [Kind -> 0..1]]
      /\ \A j \in Session, o \in Kind :
           ops'[j][o] = IF o = "connect" /\ j = k THEN 1 ELSE ops[j][o]
  <2>1. PICK b \in [Object -> [Kind -> 0..1]] : b = ops
    BY <1>3 DEF Typed
  <2>2. 1 \in 0..1
    OBVIOUS
  <2>3. ops' = [b EXCEPT ![k] = [b[k] EXCEPT !["connect"] = 1]]
    BY <1>2, <1>5, <2>1
  <2>4. [b[k] EXCEPT !["connect"] = 1] \in [Kind -> 0..1]
    BY <1>5, <2>2
  <2>5. ops' \in [Object -> [Kind -> 0..1]]
    BY <1>5, <2>3, <2>4
  <2>6. QED BY <1>5, <1>7, <2>1, <2>3, <2>5
<1>10. Typed'
  BY <1>2, <1>3, <1>9 DEF Typed
<1>11. Counted /\ Counted'
  BY <1>3, <1>10, Counts, CountsNext
<1>12. \A j \in Session, o \in Kind :
         pending'[j][o] = IF o = "connect" /\ j = k THEN 1 ELSE pending[j][o]
  <2> SUFFICES ASSUME NEW j \in Session, NEW o \in Kind
               PROVE  pending'[j][o] = IF o = "connect" /\ j = k THEN 1 ELSE pending[j][o]
    OBVIOUS
  <2>1. PICK n : n = Occurrences(ready, HandlersOf(Handler, o, j))
    OBVIOUS
  <2>2. pending'[j][o] = ops'[j][o] + n
    BY <1>2, <1>11, <2>1 DEF Counted
  <2>3. pending[j][o] = ops[j][o] + n /\ n \in Nat /\ ops[j][o] \in 0..1
    BY <1>11, <2>1 DEF Counted
  <2>4. CASE o = "connect" /\ j = k
    <3>1. pending[j][o] = 0 /\ ops'[j][o] = 1
      BY <1>6, <1>9, <2>4 DEF Untouched
    <3>2. QED BY <2>2, <2>3, <2>4, <3>1
  <2>5. CASE ~(o = "connect" /\ j = k)
    <3>1. ops'[j][o] = ops[j][o]
      BY <1>9, <2>5
    <3>2. QED BY <2>2, <2>3, <2>5, <3>1
  <2>6. QED BY <2>4, <2>5
<1>13. TypeOK'
  BY <1>2, <1>3, <1>5, <1>7, <1>8, <1>10 DEF TypeOK, IoTypeOK, Typed
<1>14. Succession'
  <2> SUFFICES ASSUME NEW j \in Session
               PROVE  /\ j > clients' => obj'[j] = "none"
                      /\ j < clients' => obj'[j] = "freed"
                      /\ j = clients' => obj'[j] # "none"
    BY DEF Succession
  <2>1. j \in Nat /\ clients \in Nat /\ k = clients + 1 /\ clients' = k
    BY <1>1, <1>2, <1>4 DEF Session
  <2>2. CASE j > k
    <3>1. j > clients /\ j # k
      BY <2>1, <2>2
    <3>2. obj'[j] = "none"
      BY <1>3, <1>8, <3>1 DEF LifeInv, Succession
    <3>3. QED BY <2>1, <2>2, <3>2
  <2>3. CASE j < k
    <3>1. j < clients \/ j = clients
      BY <2>1, <2>3
    <3>2. obj[j] = "freed"
      <4>1. CASE j < clients
        BY <1>3, <4>1 DEF LifeInv, Succession
      <4>2. CASE j = clients
        <5>1. obj[j] # "none" /\ clients > 0
          BY <1>3, <2>1, <4>2 DEF LifeInv, Succession, Session
        <5>2. obj[j] # "live"
          BY <1>2, <4>2, <5>1 DEF m_client
        <5>3. QED BY <1>3, <1>7, <5>1, <5>2 DEF TypeOK, IoTypeOK
      <4>3. QED BY <3>1, <4>1, <4>2
    <3>3. QED BY <1>8, <2>1, <2>3, <3>2
  <2>4. CASE j = k
    BY <1>8, <2>1, <2>4
  <2>5. QED BY <2>1, <2>2, <2>3, <2>4
<1>15. Threads'
  <2>1. ~stopped /\ shell = "prompt"
    BY <1>2, <1>3 DEF LifeInv, Threads
  <2>2. m_client'
    BY <1>2, <1>5, <1>8 DEF m_client
  <2>3. ~stopped' /\ shell' = "prompt" /\ thread' = "running"
    BY <1>2, <2>1
  <2>4. QED BY <2>2, <2>3 DEF Threads
<1>16. ASSUME NEW j \in Session, j # k
       PROVE  /\ Arrivals(j)'
              /\ obj'[j] # "live" => \A op \in Kind : ops'[j][op] = 0
              /\ obj'[j] = "none" => Untouched(j)'
              /\ obj'[j] # "live"
  <2>1. /\ UNCHANGED <<ready, phase, m_messages, shown, frames>>
        /\ obj'[j] = obj[j] /\ socket'[j] = socket[j] /\ link'[j] = link[j]
        /\ \A o \in Kind : ops'[j][o] = ops[j][o] /\ pending'[j][o] = pending[j][o]
    BY <1>2, <1>8, <1>9, <1>12, <1>16
  <2>2. Arrivals(j)'
    BY <1>3, <2>1 DEF LifeInv, Arrivals
  <2>3. obj'[j] # "live" => \A op \in Kind : ops'[j][op] = 0
    BY <1>3, <2>1 DEF LifeInv
  <2>4. obj'[j] = "none" => Untouched(j)'
    BY <1>3, <2>1 DEF LifeInv, Untouched
  <2>5. obj[j] # "live"
    BY <1>2, <1>3, OnlyTheLast
  <2>6. QED BY <2>1, <2>2, <2>3, <2>4, <2>5
<1>17. Arrivals(k)' /\ Alive(k)'
  <2>1. Arrivals(k)'
    BY <1>2, <1>5, <1>6 DEF Arrivals, Untouched
  <2>2. /\ pending'[k]["connect"] = 1 /\ pending'[k]["read"] = 0
        /\ pending'[k]["write"] = 0 /\ m_messages'[k] = <<>>
    BY <1>2, <1>5, <1>6, <1>7, <1>12 DEF Untouched
  <2>3. Discipline(k)'
    BY <1>8, <2>2 DEF Discipline, Reads, Writes
  <2>4. Reason(k)'
    BY <1>8 DEF Reason
  <2>5. \A h \in Range(ready') : h.of = k => Told(h, k)'
    BY <1>2, <1>6 DEF Untouched
  <2>6. QED BY <2>1, <2>3, <2>4, <2>5 DEF Alive
<1>18. ASSUME NEW j \in Session
       PROVE  /\ Arrivals(j)'
              /\ obj'[j] # "live" => \A op \in Kind : ops'[j][op] = 0
              /\ obj'[j] = "none" => Untouched(j)'
              /\ obj'[j] = "live" => Alive(j)'
  BY <1>8, <1>16, <1>17
<1>19. QED
  BY <1>13, <1>14, <1>15, <1>18 DEF IInv, LifeInv

\* disconnect destroys the client; its handlers stay, and nobody is live.
LEMMA JoinKeeps == IInv /\ Join => IInv'
<1> SUFFICES ASSUME IInv, Join PROVE IInv'
  OBVIOUS
<1>1. PICK k : k = clients
  OBVIOUS
<1>2. /\ Up /\ shell \in {"stop", "quit"} /\ thread' = "none"
      /\ obj' = [j \in Object |-> IF j \in Range(<<k>>) THEN "freed" ELSE obj[j]]
      /\ ops' = Ended(<<k>>)
      /\ ready' = ready \o AbortedHandlers(<<k>>)
      /\ stopped' = FALSE /\ shell' = "prompt"
      /\ process' = IF shell = "quit" THEN "exited" ELSE process
      /\ m_messages' = [m_messages EXCEPT ![k] = <<>>]
      /\ socket' = [socket EXCEPT ![k] = "closed"]
      /\ UNCHANGED <<clients, typed, phase, shown, link, frames, sent>>
  BY <1>1 DEF Join, Joins, Left, Restarted, userVars, netVars
<1>3. LifeInv /\ TypeOK /\ Typed /\ Threads
  BY <1>2, TypeOKImpliesTyped DEF IInv, LifeInv
<1>4. m_client /\ k \in Session /\ k \in Object /\ Object = Session
  <2>1. m_client
    BY <1>2, <1>3 DEF Threads
  <2>2. clients \in 0..MaxSessions /\ MaxSessions \in Nat
    BY <1>3, ClientAssumption DEF TypeOK
  <2>3. k > 0
    BY <1>1, <2>1 DEF m_client
  <2>4. k \in 1..MaxSessions
    BY <1>1, <2>2, <2>3
  <2>5. QED BY <2>1, <2>4, ClientAssumption DEF Session
<1>5. Range(<<k>>) = {k}
  BY DEF Range
<1>6. /\ obj' \in [Object -> {"none", "live", "freed"}]
      /\ obj'[k] = "freed" /\ \A j \in Session : j # k => obj'[j] = obj[j]
  BY <1>2, <1>3, <1>4, <1>5 DEF TypeOK, IoTypeOK
<1>7. /\ ops' \in [Object -> [Kind -> 0..1]]
      /\ \A j \in Session, o \in Kind : ops'[j][o] = IF j = k THEN 0 ELSE ops[j][o]
  <2>1. ops' = [j \in Object |-> IF j = k THEN [op \in Kind |-> 0] ELSE ops[j]]
    BY <1>2, <1>5 DEF Ended
  <2>2. [op \in Kind |-> 0] \in [Kind -> 0..1]
    <3>1. 0 \in 0..1
      OBVIOUS
    <3>2. QED BY <3>1
  <2>3. ops' \in [Object -> [Kind -> 0..1]]
    BY <1>3, <2>1, <2>2 DEF Typed
  <2>4. QED BY <1>4, <2>1, <2>3
<1>8. AbortedHandlers(<<k>>) = Aborted(k)
  <2> DEFINE ss == [i \in DOMAIN <<k>> |-> Aborted(<<k>>[i])]
  <2>1. Len(ss) = 1 /\ ss[1] = Aborted(k)
    OBVIOUS
  <2> HIDE DEF ss
  <2>2. FlattenSeq(ss) = ss[1]
    <3>1. Len(ss) \in Nat \ {0}
      BY <2>1
    <3>2. PICK f : f[1] = ss[1] /\ FlattenSeq(ss) = f[Len(ss)]
      BY <3>1, FlattenSeqDefined
    <3>3. QED BY <2>1, <3>2
  <2>3. QED BY <2>1, <2>2 DEF AbortedHandlers, ss
<1>9. /\ Aborted(k) \in Seq(Handler)
      /\ \A o \in Kind : \A j : Occurrences(Aborted(k), HandlersOf(Handler, o, j)) =
                              IF j = k THEN ops[k][o] ELSE 0
      /\ \A h \in Range(Aborted(k)) : h.of = k
  <2>1. \A op \in Kind : ops[k][op] # 0 => Completion(op, k, "error") \in Handler
    BY <1>4, CompletionIsTyped
  <2>2. ops \in [Object -> [Kind -> 0..1]]
    BY <1>3 DEF Typed
  <2>3. QED BY <1>4, <2>1, <2>2, CountsOfAborted, AbortedAre
<1>10. PICK q \in Seq(Handler), a \in Seq(Handler) : q = ready /\ a = Aborted(k)
  BY <1>3, <1>9 DEF Typed
<1>11. /\ ready' = q \o a /\ q \o a \in Seq(Handler)
       /\ Range(q \o a) = Range(q) \cup Range(a)
  <2>1. q \o a \in Seq(Handler) /\ Range(q \o a) = Range(q) \cup Range(a)
    BY RangeOfConcat
  <2>2. QED BY <1>2, <1>8, <1>10, <2>1
<1>12. Typed'
  BY <1>7, <1>11 DEF Typed
<1>13. Counted /\ Counted'
  BY <1>3, <1>12, Counts, CountsNext
<1>14. ASSUME NEW j \in Session, j # k, NEW o \in Kind PROVE pending'[j][o] = pending[j][o]
  <2>1. PICK S : S = HandlersOf(Handler, o, j)
    OBVIOUS
  <2>2. Occurrences(q \o a, S) = Occurrences(q, S) + Occurrences(a, S)
    BY OccurrencesConcat
  <2>3. Occurrences(a, S) = 0
    BY <1>9, <1>10, <1>14, <2>1
  <2>4. pending'[j][o] = ops'[j][o] + Occurrences(q \o a, S)
    BY <1>11, <1>13, <2>1 DEF Counted
  <2>5. /\ pending[j][o] = ops[j][o] + Occurrences(q, S)
        /\ Occurrences(q, S) \in Nat /\ ops'[j][o] = ops[j][o] /\ ops[j][o] \in 0..1
    BY <1>7, <1>10, <1>13, <1>14, <2>1 DEF Counted
  <2>6. QED BY <2>2, <2>3, <2>4, <2>5
<1>15. TypeOK'
  <2>1. m_messages' \in [Session -> Seq(Text)]
    BY <1>2, <1>3, EmptySeq DEF TypeOK
  <2>2. QED
    BY <1>2, <1>3, <1>6, <1>12, <2>1 DEF TypeOK, IoTypeOK, Typed
<1>16. Succession'
  BY <1>1, <1>2, <1>3, <1>6 DEF LifeInv, Succession
<1>17. Threads'
  BY <1>1, <1>2, <1>6 DEF Threads, m_client
<1>18. ASSUME NEW j \in Session
       PROVE  /\ Arrivals(j)'
              /\ \A op \in Kind : ops'[j][op] = 0
              /\ obj'[j] = "none" => Untouched(j)'
              /\ obj'[j] # "live"
  <2>1. Arrivals(j)'
    BY <1>2, <1>3 DEF LifeInv, Arrivals
  <2>2. CASE j = k
    BY <1>6, <1>7, <2>1, <2>2
  <2>3. CASE j # k
    <3>1. obj[j] # "live"
      BY <1>1, <1>2, <2>3, OnlyTheLast
    <3>2. \A op \in Kind : ops'[j][op] = 0
      BY <1>3, <1>7, <2>3, <3>1 DEF LifeInv
    <3>3. ASSUME obj'[j] = "none" PROVE Untouched(j)'
      <4>1. Untouched(j)
        BY <1>3, <1>6, <2>3, <3>3 DEF LifeInv
      <4>2. \A h \in Range(ready') : h.of # j
        BY <1>9, <1>10, <1>11, <2>3, <4>1 DEF Untouched
      <4>3. m_messages'[j] = m_messages[j] /\ socket'[j] = socket[j]
        BY <1>2, <1>3, <2>3 DEF TypeOK
      <4>4. QED BY <1>2, <1>14, <2>3, <4>1, <4>2, <4>3 DEF Untouched
    <3>4. QED BY <1>6, <2>1, <2>3, <3>1, <3>2, <3>3
  <2>4. QED BY <2>2, <2>3
<1>19. QED
  BY <1>15, <1>16, <1>17, <1>18 DEF IInv, LifeInv

LEMMA ShellKeeps == IInv /\ Shell => IInv'
<1> SUFFICES ASSUME IInv, Shell PROVE IInv'
  OBVIOUS
<1>1. CASE ConnectThrows
  BY <1>1, ThrowKeeps DEF ConnectThrows
<1>2. CASE QuitUnconnected
  BY <1>2, ThrowKeeps DEF QuitUnconnected
<1>3. CASE cmd_send
  BY <1>3, LooksKeeps DEF cmd_send
<1>4. CASE Echo
  <2>1. "prompt" # "post"
    OBVIOUS
  <2>2. QED BY <1>4, <2>1, LooksKeeps DEF Echo
<1>5. QED
  BY <1>1, <1>2, <1>3, <1>4, ConnectKeeps, SendFileFailsKeeps, PostKeeps, StopKeeps,
     JoinKeeps DEF Shell

-----------------------------------------------------------------------------
(* The theorems. *)

LEMMA InitEstablishes == Init => IInv
<1> SUFFICES ASSUME Init PROVE IInv
  OBVIOUS
<1>1. /\ process = "up" /\ shell = "prompt" /\ thread = "none" /\ stopped = FALSE
      /\ ready = <<>> /\ obj = [k \in Object |-> "none"]
      /\ ops = [k \in Object |-> [op \in Kind |-> 0]]
      /\ clients = 0
  BY DEF Init, IoInit
<1>2. /\ socket = [k \in Session |-> "none"] /\ phase = [k \in Session |-> "header"]
      /\ m_messages = [k \in Session |-> <<>>] /\ shown = [k \in Session |-> 0]
      /\ link = [k \in Session |-> "none"] /\ frames = [k \in Session |-> <<>>]
      /\ typed = <<>> /\ sent = [k \in Session |-> <<>>]
  BY DEF Init
<1>3. Object = Session /\ MaxSessions \in Nat /\ MaxFrames \in Nat
  BY ClientAssumption
<1>4. 0 \in 0..1 /\ 0 \in 0..MaxSessions /\ 0 \in 0..MaxFrames
  BY <1>3
<1>5. /\ \A S : <<>> \in Seq(S)
      /\ Len(<<>>) = 0 /\ Range(<<>>) = {} /\ DOMAIN <<>> = {}
  BY EmptySeq DEF Range
<1>6. ops \in [Object -> [Kind -> 0..1]]
  BY <1>1, <1>4
<1>7. TypeOK
  <2>1. IoTypeOK
    BY <1>1, <1>6 DEF IoTypeOK
  <2>2. QED BY <1>1, <1>2, <1>4, <1>5, <2>1 DEF TypeOK
<1>8. Succession
  BY <1>1, <1>3 DEF Succession, Session
<1>9. Threads
  BY <1>1 DEF Threads, m_client
<1>10. ASSUME NEW k \in Session
       PROVE  Arrivals(k) /\ Untouched(k) /\ obj[k] = "none"
              /\ \A op \in Kind : ops[k][op] = 0
  <2>1. Arrivals(k)
    BY <1>2, <1>3, <1>5 DEF Arrivals
  <2>2. obj[k] = "none" /\ \A op \in Kind : ops[k][op] = 0
    BY <1>1, <1>3
  <2>3. ASSUME NEW op \in Kind PROVE pending[k][op] = 0
    <3>1. Typed
      BY <1>1, <1>5, <1>6 DEF Typed
    <3>2. pending[k][op] = ops[k][op] + Occurrences(ready, HandlersOf(Handler, op, k))
      BY <3>1, Counts DEF Counted
    <3>3. Occurrences(ready, HandlersOf(Handler, op, k)) = 0
      BY <1>1, OccurrencesOfNone
    <3>4. QED BY <2>2, <3>2, <3>3
  <2>4. Untouched(k)
    BY <1>1, <1>2, <1>5, <2>3 DEF Untouched
  <2>5. QED BY <2>1, <2>2, <2>4
<1>11. QED
  BY <1>7, <1>8, <1>9, <1>10 DEF IInv, LifeInv

\* IInv is inductive: whatever the shell, the io thread, the kernel and the
\* server do.
THEOREM Invariance == Spec => []IInv
<1>1. Init => IInv
  BY InitEstablishes
<1>2. IInv /\ [Next]_vars => IInv'
  BY ShellKeeps, ServerKeeps, KernelKeeps, IoThreadKeeps, UnchangedKeeps DEF Next
<1>3. QED
  BY <1>1, <1>2, PTL DEF Spec

\* The state is of its type: in particular no socket has two operations of one
\* kind outstanding.
THEOREM TypeCorrect == Spec => []TypeOK
<1>1. IInv => TypeOK
  BY DEF IInv
<1>2. QED
  BY <1>1, Invariance, PTL

\* A client that can be used has one chain of reads while its socket is open
\* and its connection not refused, and one write exactly while its queue has
\* messages; a queue strands only with the socket closed (client.cpp: every
\* handler starts the next operation or closes the socket).
THEOREM OneReadOneWrite == Spec => []OperationDiscipline
<1>1. IInv => OperationDiscipline
  <2> SUFFICES ASSUME IInv, Up, NEW k \in Session, obj[k] = "live"
               PROVE  /\ Outstanding("connect", k) + Outstanding("read", k) <= 1
                      /\ socket[k] = "open" /\ link[k] # "refused" =>
                           Outstanding("connect", k) + Outstanding("read", k) = 1
                      /\ Outstanding("write", k) <= 1
                      /\ m_messages[k] = <<>> => Outstanding("write", k) = 0
                      /\ socket[k] = "open" /\ m_messages[k] # <<>> =>
                           Outstanding("write", k) = 1
    BY DEF OperationDiscipline
  <2>1. Alive(k) /\ Typed
    BY OnlyTheLast
  <2>2. \A op \in Kind : pending[k][op] = Outstanding(op, k)
    BY <2>1, Counts DEF Counted
  <2>3. /\ Reads(k) = Outstanding("connect", k) + Outstanding("read", k)
        /\ Writes(k) = Outstanding("write", k)
    BY <2>2 DEF Reads, Writes, Kind
  <2>4. QED BY <2>1, <2>3 DEF Alive, Discipline
<1>2. QED
  BY <1>1, Invariance, PTL

\* A socket is closed by its client only when the connection was refused or
\* has ended, or a header was bad; and after an end of file or a bad header
\* everything that came whole before it has been shown (client.cpp:
\* m_socket.close() in the handlers).
THEOREM ClosesOnlyForAReason == Spec => []ClosesForAReason
<1>1. IInv => ClosesForAReason
  <2> SUFFICES ASSUME IInv, Up, NEW k \in Session, obj[k] = "live", socket[k] = "closed"
               PROVE  /\ link[k] \in {"refused", "closed", "reset"}
                           \/ "bad" \in Range(frames[k])
                      /\ link[k] \in {"up", "closed"} =>
                           \A i \in DOMAIN frames[k] :
                             frames[k][i] = "whole" => i <= shown[k]
    BY DEF ClosesForAReason
  <2>1. Reason(k)
    BY OnlyTheLast DEF Alive
  <2>2. QED BY <2>1 DEF Reason
<1>2. QED
  BY <1>1, Invariance, PTL

\* While a client is connected the io thread runs its handlers: run() returns
\* early only when the connection was refused or the socket closed (main.cpp:
\* one run() per connect).
THEOREM ConnectedClientsAreServed == Spec => []ServedWhileConnected
<1>1. IInv => ServedWhileConnected
  <2> SUFFICES ASSUME IInv, Up, m_client, shell \in {"prompt", "post", "echo"}
               PROVE  (thread = "running" /\ ~stopped)
                        \/ socket[clients] = "closed" \/ link[clients] = "refused"
    BY DEF ServedWhileConnected
  <2>1. Threads
    BY DEF IInv, LifeInv
  <2>2. QED BY <2>1 DEF Threads
<1>2. QED
  BY <1>1, Invariance, PTL

-----------------------------------------------------------------------------
(* What was typed.                                                         *)
(*                                                                         *)
(* TypedInOrder is inductive once IInv is known, but for a client that is  *)
(* not constructed yet, of which the prefix says too little.               *)

OrderInv ==
  Up => \A k \in Session :
    /\ obj[k] = "live" => TypedOn(k) = (sent[k] \o Unsent(k)) \o PostedOn(k)
    /\ obj[k] # "live" => IsPrefix(sent[k], TypedOn(k))
    /\ obj[k] = "none" => TypedOn(k) = <<>> /\ sent[k] = <<>>

Written(k) == Completion("write", k, "ok")

LEMMA PostsAre ==
  ASSUME NEW k \in Session
  PROVE  /\ Posts(k) \subseteq Handler
         /\ \A p \in Posts(k) : p.do = "post" /\ p.of = k /\ p.text \in Text
         /\ \A h \in Handler : h.do = "post" /\ h.of = k => h \in Posts(k)
<1>1. ASSUME NEW t \in Text
      PROVE  /\ Posting(k, t) \in Handler
             /\ Posting(k, t).do = "post" /\ Posting(k, t).of = k
             /\ Posting(k, t).text = t
  BY DEF Posting, Handler
<1>2. ASSUME NEW h \in Handler, h.do = "post", h.of = k PROVE h \in Posts(k)
  <2>1. h \in [do : {"post"}, of : Session, ec : {"ok"}, text : Text]
    BY <1>2 DEF Handler, Kind
  <2>2. h = Posting(k, h.text) /\ h.text \in Text
    BY <1>2, <2>1 DEF Posting
  <2>3. QED BY <2>2 DEF Posts
<1>3. QED
  BY <1>1, <1>2 DEF Posts

LEMMA WrittenIs ==
  ASSUME NEW h \in Handler, NEW k \in Session
  PROVE  h = Written(k) <=> h.do = "write" /\ h.of = k /\ h.ec = "ok"
<1>1. ASSUME h.do = "write", h.of = k, h.ec = "ok" PROVE h = Written(k)
  <2>1. h \in [do : Kind, of : Session, ec : {"ok", "error"}]
    BY <1>1 DEF Handler
  <2>2. QED BY <1>1, <2>1 DEF Written, Completion
<1>2. QED
  BY <1>1 DEF Written, Completion

\* Texts goes through a sequence element by element.
LEMMA TextsAre ==
  ASSUME NEW k \in Session, NEW p \in Seq(Posts(k))
  PROVE  /\ Texts(p) \in Seq(Text)
         /\ p = <<>> => Texts(p) = <<>>
         /\ p # <<>> => Texts(p) = <<Head(p).text>> \o Texts(Tail(p))
         /\ \A e \in Posts(k) : Texts(Append(p, e)) = Append(Texts(p), e.text)
<1>1. ASSUME NEW q \in Seq(Posts(k))
      PROVE  /\ Texts(q) \in Seq(Text)
             /\ Len(Texts(q)) = Len(q)
             /\ \A i \in 1..Len(q) : Texts(q)[i] = q[i].text
  <2>1. /\ Len(q) \in Nat /\ DOMAIN q = 1..Len(q)
        /\ \A i \in 1..Len(q) : q[i] \in Posts(k)
    BY LenProperties, ElementOfSeq
  <2>2. \A i \in 1..Len(q) : q[i].text \in Text
    BY <2>1, PostsAre
  <2>3. Texts(q) \in [1..Len(q) -> Text]
    BY <2>1, <2>2 DEF Texts
  <2>4. Texts(q) \in Seq(Text) /\ Len(Texts(q)) = Len(q)
    BY <2>1, <2>3, IsASeq, LenProperties
  <2>5. QED BY <2>1, <2>4 DEF Texts
<1>2. ASSUME p = <<>> PROVE Texts(p) = <<>>
  <2>1. Len(p) = 0
    BY <1>2, EmptySeq
  <2>2. QED BY <1>1, <2>1, EmptySeq
<1>3. ASSUME p # <<>> PROVE Texts(p) = <<Head(p).text>> \o Texts(Tail(p))
  <2>1. /\ Len(p) \in Nat \ {0} /\ Head(p) = p[1]
        /\ Tail(p) \in Seq(Posts(k)) /\ Len(Tail(p)) = Len(p) - 1
        /\ \A i \in 1..(Len(p) - 1) : Tail(p)[i] = p[i + 1]
    BY <1>3, HeadTailProperties, LenProperties, EmptySeq
  <2>2. PICK x \in Seq(Text) : x = Texts(p)
    BY <1>1
  <2>3. PICK y \in Seq(Text) : y = Texts(Tail(p))
    BY <1>1, <2>1
  <2>4. /\ Len(x) = Len(p) /\ Len(y) = Len(p) - 1
        /\ \A i \in 1..Len(p) : x[i] = p[i].text
        /\ \A i \in 1..(Len(p) - 1) : y[i] = p[i + 1].text
    <3>1. Len(x) = Len(p) /\ \A i \in 1..Len(p) : x[i] = p[i].text
      BY <1>1, <2>2
    <3>2. PICK q \in Seq(Posts(k)) : q = Tail(p)
      BY <2>1
    <3>3. Len(y) = Len(q) /\ \A i \in 1..Len(q) : y[i] = q[i].text
      BY <1>1, <2>3, <3>2
    <3>4. Len(q) = Len(p) - 1 /\ \A i \in 1..(Len(p) - 1) : q[i] = p[i + 1]
      BY <2>1, <3>2
    <3>5. QED BY <3>1, <3>3, <3>4
  <2>5. x # <<>>
    BY <2>1, <2>4, EmptySeq
  <2>6. /\ Tail(x) \in Seq(Text) /\ x = <<Head(x)>> \o Tail(x) /\ Head(x) = x[1]
        /\ Len(Tail(x)) = Len(x) - 1
        /\ \A i \in 1..(Len(x) - 1) : Tail(x)[i] = x[i + 1]
    BY <2>5, HeadThenTail, HeadTailProperties, LenProperties
  <2>7. ASSUME NEW i \in 1..(Len(p) - 1) PROVE Tail(x)[i] = y[i]
    <3>1. i + 1 \in 1..Len(p)
      BY <2>1
    <3>2. QED BY <2>4, <2>6, <3>1
  <2>8. Tail(x) = y
    BY <2>4, <2>6, <2>7, SeqEqual
  <2>9. Head(x) = Head(p).text
    <3>1. 1 \in 1..Len(p)
      BY <2>1
    <3>2. QED BY <2>1, <2>4, <2>6, <3>1
  <2>10. QED BY <2>2, <2>3, <2>6, <2>8, <2>9
<1>4. ASSUME NEW e \in Posts(k) PROVE Texts(Append(p, e)) = Append(Texts(p), e.text)
  <2>1. PICK q \in Seq(Posts(k)) : q = Append(p, e)
    BY AppendProperties
  <2>2. /\ Len(p) \in Nat /\ Len(q) = Len(p) + 1
        /\ \A i \in 1..Len(p) : q[i] = p[i]
        /\ q[Len(p) + 1] = e
    BY <2>1, AppendProperties, LenProperties
  <2>3. e.text \in Text
    BY PostsAre
  <2>4. PICK x \in Seq(Text) : x = Texts(p)
    BY <1>1
  <2>5. PICK y \in Seq(Text) : y = Texts(q)
    BY <1>1
  <2>6. PICK z \in Seq(Text) : z = Append(x, e.text)
    BY <2>3, AppendProperties
  <2>7. /\ Len(x) = Len(p) /\ Len(y) = Len(q)
        /\ \A i \in 1..Len(p) : x[i] = p[i].text
        /\ \A i \in 1..Len(q) : y[i] = q[i].text
    BY <1>1, <2>4, <2>5
  <2>8. /\ Len(z) = Len(x) + 1
        /\ \A i \in 1..Len(x) : z[i] = x[i]
        /\ z[Len(x) + 1] = e.text
    BY <2>3, <2>6, AppendProperties
  <2>9. ASSUME NEW i \in 1..Len(y) PROVE y[i] = z[i]
    <3>1. CASE i = Len(p) + 1
      BY <2>2, <2>7, <2>8, <3>1
    <3>2. CASE i # Len(p) + 1
      <4>1. i \in 1..Len(p)
        BY <2>2, <2>7, <3>2
      <4>2. QED BY <2>2, <2>7, <2>8, <4>1
    <3>3. QED BY <3>1, <3>2
  <2>10. y = z
    BY <2>2, <2>7, <2>8, <2>9, SeqEqual
  <2>11. QED BY <2>1, <2>4, <2>5, <2>6, <2>10
<1>5. QED
  BY <1>1, <1>2, <1>3, <1>4

\* What the last text adds to what was typed on a client.
LEMMA TypedGrows ==
  ASSUME NEW c \in Session, typed \in Seq(Session), typed' = Append(typed, c),
         NEW k \in Session
  PROVE  TypedOn(k)' = IF k = c THEN Append(TypedOn(k), NextText) ELSE TypedOn(k)
<1>1. PICK s \in Seq(Session), n \in Nat : s = typed /\ n = Len(s)
  BY LenProperties
<1>2. PICK u \in Seq(Session) : u = Append(s, c)
  BY AppendProperties
<1>3. /\ DOMAIN s = 1..n /\ DOMAIN u = 1..(n + 1)
      /\ \A t \in 1..n : u[t] = s[t]
      /\ u[n + 1] = c
  BY <1>1, <1>2, AppendProperties, LenProperties
<1> DEFINE x == [t \in 1..n |-> t]
           y == [t \in 1..(n + 1) |-> t]
           S == {t \in 1..n : s[t] = k}
           R == {t \in 1..(n + 1) : u[t] = k}
<1>4. TypedOn(k) = Kept(x, S)
  BY <1>1, <1>3 DEF TypedOn
<1>5. TypedOn(k)' = Kept(y, R)
  BY <1>1, <1>2, <1>3 DEF TypedOn
<1>6. x \in Seq(1..n) /\ x \in Seq(1..(n + 1)) /\ y \in Seq(1..(n + 1)) /\ Len(x) = n
      /\ Len(y) = n + 1
  OBVIOUS
<1>7. y = Append(x, n + 1)
  <2>1. PICK M : M = 1..(n + 1) /\ n + 1 \in M
    OBVIOUS
  <2>2. PICK v \in Seq(M) : v = x
    BY <1>6, <2>1
  <2>3. PICK z : z = Append(v, n + 1)
    OBVIOUS
  <2>4. /\ z \in Seq(1..(n + 1))
        /\ Len(z) = n + 1 /\ z[n + 1] = n + 1
        /\ \A i \in 1..n : z[i] = x[i]
    BY <1>6, <2>1, <2>2, <2>3, AppendProperties
  <2>5. ASSUME NEW i \in 1..(n + 1) PROVE y[i] = z[i]
    <3>1. CASE i = n + 1
      BY <2>4, <3>1
    <3>2. CASE i # n + 1
      <4>1. i \in 1..n
        BY <3>2
      <4>2. QED BY <2>4, <4>1
    <3>3. QED BY <3>1, <3>2
  <2> HIDE DEF y, x
  <2>6. y = z
    BY <1>6, <2>4, <2>5, SeqEqual
  <2>7. QED BY <2>2, <2>3, <2>6
<1>8. \A t \in 1..n : t \in S <=> t \in R
  BY <1>3
<1>9. n + 1 \in R <=> k = c
  BY <1>3
<1> HIDE DEF x, y, S, R
<1>10. Kept(x, S) = Kept(x, R)
  <2>1. PICK L : L = 1..n
    OBVIOUS
  <2>2. x \in Seq(L) /\ \A t \in L : t \in S <=> t \in R
    BY <1>6, <1>8, <2>1
  <2>3. QED BY <2>2, KeptSame
<1>11. Kept(y, R) = IF n + 1 \in R THEN Append(Kept(x, R), n + 1) ELSE Kept(x, R)
  <2>1. PICK M : M = 1..(n + 1) /\ \E e \in M : e = n + 1
    OBVIOUS
  <2>2. PICK w \in Seq(M) : w = x
    BY <1>6, <2>1
  <2>3. PICK e \in M : e = n + 1
    BY <2>1
  <2>4. Kept(Append(w, e), R) = IF e \in R THEN Append(Kept(w, R), e) ELSE Kept(w, R)
    BY KeptAppend
  <2>5. QED BY <1>7, <2>2, <2>3, <2>4
<1>12. NextText = n + 1
  BY <1>1 DEF NextText
<1>13. QED
  BY <1>4, <1>5, <1>9, <1>10, <1>11, <1>12

\* A write that has succeeded is the only one outstanding.
LEMMA WrittenOnce ==
  ASSUME IInv, Up, NEW k \in Session, obj[k] = "live",
         ops[k]["write"] # 0 \/ Written(k) \in Range(ready)
  PROVE  /\ m_messages[k] # <<>>
         /\ ~(ops[k]["write"] # 0 /\ Written(k) \in Range(ready))
<1>1. Alive(k) /\ Typed /\ Counted
  BY OnlyTheLast, Counts
<1>2. PICK q \in Seq(Handler) : q = ready
  BY <1>1 DEF Typed
<1>3. /\ Occurrences(q, HandlersOf(Handler, "write", k)) \in Nat
      /\ pending[k]["write"] = ops[k]["write"]
                                 + Occurrences(q, HandlersOf(Handler, "write", k))
      /\ ops[k]["write"] \in 0..1
  BY <1>1, <1>2 DEF Counted, Kind
<1>4. pending[k]["write"] <= 1 /\ (m_messages[k] = <<>> => pending[k]["write"] = 0)
  BY <1>1 DEF Alive, Discipline, Writes
<1>5. ASSUME Written(k) \in Range(q)
      PROVE  Occurrences(q, HandlersOf(Handler, "write", k)) # 0
  <2>1. Written(k) \in Handler
    BY <1>5, RangeIsTyped
  <2>2. Written(k) \in HandlersOf(Handler, "write", k)
    BY <2>1, WrittenIs, InHandlersOf
  <2>3. QED BY <1>5, <2>2, NoneInRange
<1>6. QED
  BY <1>2, <1>3, <1>4, <1>5

LEMMA OrderUntouched ==
  ASSUME OrderInv, Up, UNCHANGED <<obj, typed, sent>>,
         \A j \in Session : obj[j] = "live" =>
           Unsent(j)' = Unsent(j) /\ PostedOn(j)' = PostedOn(j)
  PROVE  OrderInv'
<1>1. \A j \in Session : TypedOn(j)' = TypedOn(j)
  BY DEF TypedOn
<1>2. QED
  BY <1>1 DEF OrderInv

\* The posts of k, and their texts.
LEMMA PostedType ==
  ASSUME NEW k \in Session, NEW q \in Seq(Handler)
  PROVE  Kept(q, Posts(k)) \in Seq(Posts(k)) /\ Texts(Kept(q, Posts(k))) \in Seq(Text)
<1>1. PICK P : P = Posts(k)
  OBVIOUS
<1>2. Kept(q, P) \in Seq(Handler \cap P)
  BY KeptType
<1>3. Handler \cap P = P
  BY <1>1, PostsAre
<1>4. PICK p \in Seq(P) : p = Kept(q, P)
  BY <1>2, <1>3
<1>5. Texts(p) \in Seq(Text)
  BY <1>1, <1>4, TextsAre
<1>6. QED
  BY <1>1, <1>4, <1>5

LEMMA OrderOfAppend ==
  ASSUME Typed, NEW c \in Handler, ready' = Append(ready, c), NEW k \in Session
  PROVE  /\ c \notin Posts(k) => PostedOn(k)' = PostedOn(k)
         /\ c \in Posts(k) => PostedOn(k)' = Append(PostedOn(k), c.text)
         /\ Written(k) \in Range(ready') <=> Written(k) \in Range(ready) \/ Written(k) = c
<1>1. PICK q \in Seq(Handler) : q = ready
  BY DEF Typed
<1>2. PICK P : P = Posts(k)
  OBVIOUS
<1>3. Kept(Append(q, c), P) = IF c \in P THEN Append(Kept(q, P), c) ELSE Kept(q, P)
  BY KeptAppend
<1>4. Range(Append(q, c)) = Range(q) \cup {c}
  BY RangeOfAppend
<1>5. PostedOn(k) = Texts(Kept(q, P)) /\ PostedOn(k)' = Texts(Kept(Append(q, c), P))
  BY <1>1, <1>2 DEF PostedOn
<1>6. PICK p \in Seq(P) : p = Kept(q, P)
  BY <1>2, PostedType
<1>7. c \in P => Texts(Append(p, c)) = Append(Texts(p), c.text)
  BY <1>2, TextsAre
<1>8. QED
  BY <1>1, <1>2, <1>3, <1>4, <1>5, <1>6, <1>7

\* What a handler that ran leaves of the order.
LEMMA OrderOfHandler ==
  ASSUME Typed, NEW do, NEW k \in Session, Runs(do, k),
         \/ StartsNothing
         \/ \E op \in Kind : Start(op, k, Tail(ready))
         \/ Close(k)
  PROVE  \E h \in Handler :
           /\ h = Head(ready) /\ h.do = do /\ h.of = k
           /\ \A j \in Session :
                /\ h \notin Posts(j) => PostedOn(j)' = PostedOn(j)
                /\ h \in Posts(j) => PostedOn(j) = <<h.text>> \o PostedOn(j)'
                /\ PostedOn(j)' \in Seq(Text)
                /\ h # Written(j) =>
                     (Written(j) \in Range(ready') <=> Written(j) \in Range(ready))
                /\ h = Written(j) /\ pending[j]["write"] <= 1 =>
                     Written(j) \notin Range(ready')
<1>1. PICK h \in Handler, r \in Seq(Handler) :
        /\ h = Head(ready) /\ r = Tail(ready)
        /\ h.do = do /\ h.of = k
        /\ \A j \in Session, o \in Kind :
             /\ Occurrences(r, HandlersOf(Handler, o, j)) \in Nat
             /\ pending[j][o] = (ops[j][o] + Occurrences(r, HandlersOf(Handler, o, j)))
                  + IF o = do /\ j = k THEN 1 ELSE 0
  BY Taken
<1>2. PICK q \in Seq(Handler) : q = ready /\ q # <<>>
  BY DEF Typed, Runs
<1>3. PICK x \in Seq(Handler) : ready' = r \o x /\ \A g \in Range(x) : g.do # "post" /\ g.ec = "error"
  <2>1. PICK z \in Seq(Handler) : z = <<>> /\ r \o z = r /\ Range(z) = {}
    <3>1. <<>> \in Seq(Handler) /\ Range(<<>>) = {}
      BY EmptySeq DEF Range
    <3>2. r \o <<>> = r
      BY ConcatEmptySeq
    <3>3. QED BY <3>1, <3>2
  <2>2. CASE ready' = r
    BY <2>1, <2>2
  <2>3. CASE Close(k)
    <3>1. k \in Object /\ ops \in [Object -> [Kind -> 0..1]]
      BY ClientAssumption DEF Typed
    <3>2. \A op \in Kind : ops[k][op] # 0 => Completion(op, k, "error") \in Handler
      BY CompletionIsTyped
    <3>3. Aborted(k) \in Seq(Handler)
      BY <3>1, <3>2, CountsOfAborted
    <3>4. \A g \in Range(Aborted(k)) : g.do # "post" /\ g.ec = "error"
      BY <3>1, AbortedAre
    <3>5. ready' = r \o Aborted(k)
      BY <1>1, <2>3 DEF Close
    <3>6. QED BY <3>3, <3>4, <3>5
  <2>4. CASE \E op \in Kind : Start(op, k, Tail(ready)) /\ ready' # r
    <3>1. PICK op \in Kind : ready' = Append(r, Completion(op, k, "error"))
      BY <1>1, <2>4 DEF Start
    <3>2. PICK c \in Handler : c = Completion(op, k, "error") /\ c.do # "post" /\ c.ec = "error"
      BY CompletionIsTyped DEF Kind
    <3>3. Append(r, c) = r \o <<c>>
      BY AppendIsConcat
    <3>4. <<c>> \in Seq(Handler) /\ Range(<<c>>) = {c}
      BY DEF Range
    <3>5. QED BY <3>1, <3>2, <3>3, <3>4
  <2>5. QED BY <1>1, <2>2, <2>3, <2>4 DEF StartsNothing
<1>4. PICK o \in Seq(Handler) : o = <<h>> /\ q = o \o r /\ Range(o) = {h}
  <2>1. Head(q) \in Handler /\ Tail(q) \in Seq(Handler) /\ q = <<Head(q)>> \o Tail(q)
    BY <1>2, HeadThenTail
  <2>2. <<h>> \in Seq(Handler) /\ Range(<<h>>) = {h}
    BY DEF Range
  <2>3. QED BY <1>1, <1>2, <2>1, <2>2
<1>5. Range(q) = {h} \cup Range(r) /\ Range(r \o x) = Range(r) \cup Range(x)
  <2>1. Range(o \o r) = Range(o) \cup Range(r)
    BY RangeOfConcat
  <2>2. Range(r \o x) = Range(r) \cup Range(x)
    BY RangeOfConcat
  <2>3. QED BY <1>4, <2>1, <2>2
<1>6. ASSUME NEW j \in Session
      PROVE  /\ h \notin Posts(j) => PostedOn(j)' = PostedOn(j)
             /\ h \in Posts(j) => PostedOn(j) = <<h.text>> \o PostedOn(j)'
             /\ PostedOn(j)' \in Seq(Text)
             /\ h # Written(j) =>
                  (Written(j) \in Range(ready') <=> Written(j) \in Range(ready))
             /\ h = Written(j) /\ pending[j]["write"] <= 1 =>
                  Written(j) \notin Range(ready')
  <2>1. PICK P : P = Posts(j)
    OBVIOUS
  <2>2. Kept(x, P) = <<>>
    <3>1. PICK X : X = Range(x)
      OBVIOUS
    <3>2. x \in Seq(X)
      BY <3>1, SeqOfRange
    <3>3. \A e \in X : e \notin P
      BY <1>3, <2>1, <3>1, PostsAre
    <3>4. QED BY <3>2, <3>3, KeptNothing
  <2>3. Kept(r \o x, P) = Kept(r, P) \o Kept(x, P)
    BY KeptConcat, SMTT(30)
  <2>4. PICK p \in Seq(P) : p = Kept(r, P) /\ Texts(p) \in Seq(Text)
    BY <2>1, PostedType
  <2>5. Kept(r \o x, P) = p
    BY <2>2, <2>3, <2>4, ConcatEmptySeq
  <2>6. PostedOn(j)' = Texts(p)
    BY <1>3, <2>1, <2>5 DEF PostedOn
  <2>7. PICK s \in Seq(P) : s = Kept(q, P) /\ PostedOn(j) = Texts(s)
    BY <1>2, <2>1, PostedType DEF PostedOn
  <2>8. /\ h \in P => s # <<>> /\ Head(s) = h /\ p = Tail(s)
        /\ h \notin P => p = s
    BY <1>1, <1>2, <2>4, <2>7, KeptTail, SMTT(30)
  <2>9. s # <<>> => Texts(s) = <<Head(s).text>> \o Texts(Tail(s))
    BY <2>1, TextsAre
  <2>10. Written(j).ec = "ok" /\ Written(j).do = "write" /\ Written(j).of = j
    BY DEF Written, Completion
  <2>11. Written(j) \notin Range(x)
    BY <1>3, <2>10
  <2>12. ASSUME h = Written(j), pending[j]["write"] <= 1
         PROVE  Written(j) \notin Range(r)
    <3>1. PICK S : S = HandlersOf(Handler, "write", j)
      OBVIOUS
    <3>2. do = "write" /\ j = k /\ "write" \in Kind
      BY <1>1, <2>10, <2>12 DEF Kind
    <3>3. ops[j]["write"] \in 0..1
      BY <3>2, Counts DEF Counted
    <3>4. /\ Occurrences(r, S) \in Nat
          /\ pending[j]["write"] = (ops[j]["write"] + Occurrences(r, S)) + 1
      BY <1>1, <3>1, <3>2
    <3>5. Occurrences(r, S) = 0
      BY <2>12, <3>3, <3>4
    <3>6. h \in S
      BY <2>10, <2>12, <3>1, InHandlersOf
    <3>7. QED BY <2>12, <3>5, <3>6, NoneInRange
  <2>13. QED
    BY <1>2, <1>3, <1>5, <2>1, <2>4, <2>6, <2>7, <2>8, <2>9, <2>11, <2>12
<1>7. WITNESS h \in Handler
<1>8. QED
  BY <1>1, <1>6

LEMMA UnsentType ==
  ASSUME IInv, Up, NEW k \in Session, obj[k] = "live"
  PROVE  Unsent(k) \in Seq(Text)
<1>1. m_messages[k] \in Seq(Text)
  BY DEF IInv, TypeOK
<1>2. CASE Written(k) \in Range(ready)
  <2>1. m_messages[k] # <<>>
    BY <1>2, WrittenOnce
  <2>2. Tail(m_messages[k]) \in Seq(Text)
    BY <1>1, <2>1, HeadTailProperties
  <2>3. QED BY <1>2, <2>2 DEF Unsent, Written
<1>3. CASE Written(k) \notin Range(ready)
  BY <1>1, <1>3 DEF Unsent, Written
<1>4. QED
  BY <1>2, <1>3

\* The handlers that leave the queue alone.
LEMMA SteadyHandlerOrder ==
  ASSUME IInv, OrderInv, NEW do \in {"connect", "read", "write"}, NEW k \in Session,
         RunsIn(do, k), do = "write" => ec = "error",
         \/ StartsNothing
         \/ \E op \in Kind : Start(op, k, Tail(ready))
         \/ Close(k),
         UNCHANGED m_messages
  PROVE  OrderInv'
<1>1. /\ Up /\ Runs(do, k) /\ Typed /\ UNCHANGED <<obj, typed, sent>>
  BY HandlerBegins
<1>2. PICK h \in Handler :
        /\ h = Head(ready) /\ h.do = do /\ h.of = k
        /\ \A j \in Session :
             /\ h \notin Posts(j) => PostedOn(j)' = PostedOn(j)
             /\ h # Written(j) =>
                  (Written(j) \in Range(ready') <=> Written(j) \in Range(ready))
  BY <1>1, OrderOfHandler
<1>3. ASSUME NEW j \in Session PROVE Unsent(j)' = Unsent(j) /\ PostedOn(j)' = PostedOn(j)
  <2>1. h \notin Posts(j)
    BY <1>2, PostsAre
  <2>2. h # Written(j)
    BY <1>2, WrittenIs DEF ec
  <2>3. QED BY <1>2, <2>1, <2>2 DEF Unsent, Written
<1>4. QED
  BY <1>1, <1>3, OrderUntouched

LEMMA WriteHandlerOrder ==
  IInv /\ OrderInv /\ (\E k \in Session : WriteHandler(k)) => OrderInv'
<1> SUFFICES ASSUME IInv, OrderInv, NEW k \in Session, WriteHandler(k) PROVE OrderInv'
  OBVIOUS
<1>1. /\ RunsIn("write", k) /\ ec = "ok"
      /\ m_messages' = [m_messages EXCEPT ![k] = Tail(m_messages[k])]
      /\ StartsNothing \/ \E op \in Kind : Start(op, k, Tail(ready))
  BY DEF WriteHandler, popped, flushes_again, Kind
<1>2. /\ Up /\ Runs("write", k) /\ Typed /\ Alive(k) /\ UNCHANGED <<obj, typed, sent>>
  BY <1>1, HandlerBegins
<1>3. PICK h \in Handler :
        /\ h = Head(ready) /\ h.do = "write" /\ h.of = k
        /\ \A j \in Session :
             /\ h \notin Posts(j) => PostedOn(j)' = PostedOn(j)
             /\ h \in Posts(j) => PostedOn(j) = <<h.text>> \o PostedOn(j)'
             /\ PostedOn(j)' \in Seq(Text)
             /\ h # Written(j) =>
                  (Written(j) \in Range(ready') <=> Written(j) \in Range(ready))
             /\ h = Written(j) /\ pending[j]["write"] <= 1 =>
                  Written(j) \notin Range(ready')
  BY <1>1, <1>2, OrderOfHandler
<1>4. h = Written(k) /\ h \in Range(ready)
  <2>1. h = Written(k)
    BY <1>1, <1>3, WrittenIs DEF ec
  <2>2. PICK q \in Seq(Handler) : q = ready /\ q # <<>>
    BY <1>2 DEF Typed, Runs
  <2>3. h \in Range(q)
    BY <1>3, <2>2, RangeOfTail
  <2>4. QED BY <2>1, <2>2, <2>3
<1>5. Written(k) \notin Range(ready')
  BY <1>2, <1>3, <1>4 DEF Alive, Discipline, Writes
<1>6. m_messages \in [Session -> Seq(Text)]
  BY DEF IInv, TypeOK
<1>7. ASSUME NEW j \in Session PROVE Unsent(j)' = Unsent(j) /\ PostedOn(j)' = PostedOn(j)
  <2>1. h \notin Posts(j)
    BY <1>3, PostsAre
  <2>2. CASE j = k
    BY <1>1, <1>3, <1>4, <1>5, <1>6, <2>1, <2>2 DEF Unsent, Written
  <2>3. CASE j # k
    <3>1. h # Written(j)
      BY <1>3, <2>3, WrittenIs
    <3>2. QED BY <1>1, <1>3, <1>6, <2>1, <2>3, <3>1 DEF Unsent, Written
  <2>4. QED BY <2>2, <2>3
<1>8. QED
  BY <1>2, <1>7, OrderUntouched

LEMMA PostedHandlerOrder ==
  IInv /\ OrderInv /\ (\E k \in Session : PostedHandler(k)) => OrderInv'
<1> SUFFICES ASSUME IInv, OrderInv, NEW k \in Session, PostedHandler(k) PROVE OrderInv'
  OBVIOUS
<1>1. /\ RunsIn("post", k)
      /\ m_messages' = [m_messages EXCEPT ![k] = Append(@, Head(ready).text)]
      /\ StartsNothing \/ \E op \in Kind : Start(op, k, Tail(ready))
  BY DEF PostedHandler, write_in_progress, Kind
<1>2. /\ Up /\ Runs("post", k) /\ Typed /\ UNCHANGED <<obj, typed, sent>> /\ obj[k] = "live"
  BY <1>1, HandlerBegins
<1>3. PICK h \in Handler :
        /\ h = Head(ready) /\ h.do = "post" /\ h.of = k
        /\ \A j \in Session :
             /\ h \notin Posts(j) => PostedOn(j)' = PostedOn(j)
             /\ h \in Posts(j) => PostedOn(j) = <<h.text>> \o PostedOn(j)'
             /\ PostedOn(j)' \in Seq(Text)
             /\ h # Written(j) =>
                  (Written(j) \in Range(ready') <=> Written(j) \in Range(ready))
             /\ h = Written(j) /\ pending[j]["write"] <= 1 =>
                  Written(j) \notin Range(ready')
  BY <1>1, <1>2, OrderOfHandler
<1>4. h \in Posts(k) /\ h.text \in Text /\ \A j \in Session : h # Written(j)
  BY <1>3, PostsAre, WrittenIs
<1>5. PICK x \in Text : x = h.text
  BY <1>4
<1>6. /\ m_messages \in [Session -> Seq(Text)] /\ sent[k] \in Seq(Text)
      /\ m_messages' = [m_messages EXCEPT ![k] = Append(m_messages[k], x)]
  BY <1>1, <1>3, <1>5 DEF IInv, TypeOK
<1>7. PICK u \in Seq(Text) : u = Unsent(k)
  BY <1>2, UnsentType
<1>8. Unsent(k)' = Append(u, x)
  <2>1. m_messages'[k] = Append(m_messages[k], x)
    BY <1>6
  <2>2. CASE Written(k) \in Range(ready)
    <3>1. m_messages[k] # <<>>
      BY <1>2, <2>2, WrittenOnce
    <3>2. Tail(Append(m_messages[k], x)) = Append(Tail(m_messages[k]), x)
      BY <1>6, <3>1, HeadTailAppend
    <3>3. QED BY <1>3, <1>4, <1>7, <2>1, <2>2, <3>2 DEF Unsent, Written
  <2>3. CASE Written(k) \notin Range(ready)
    BY <1>3, <1>4, <1>7, <2>1, <2>3 DEF Unsent, Written
  <2>4. QED BY <2>2, <2>3
<1>9. PICK p \in Seq(Text) : p = PostedOn(k)' /\ PostedOn(k) = <<x>> \o p
  BY <1>3, <1>4, <1>5
<1>10. \A j \in Session : TypedOn(j)' = TypedOn(j)
  BY <1>2 DEF TypedOn
<1>11. TypedOn(k)' = (sent'[k] \o Unsent(k)') \o PostedOn(k)'
  <2>1. PICK s \in Seq(Text), o \in Seq(Text) : s = sent[k] /\ o = <<x>>
    <3>1. <<x>> \in Seq(Text)
      OBVIOUS
    <3>2. QED BY <1>6, <3>1
  <2>2. TypedOn(k) = (s \o u) \o (o \o p)
    BY <1>2, <1>7, <1>9, <2>1 DEF OrderInv
  <2>3. (s \o u) \o (o \o p) = (s \o (u \o o)) \o p
    BY Rebracket, SMTT(60)
  <2>4. u \o o = Append(u, x)
    BY <2>1, AppendIsConcat
  <2>5. QED BY <1>2, <1>8, <1>9, <1>10, <2>1, <2>2, <2>3, <2>4
<1>12. ASSUME NEW j \in Session, j # k
       PROVE  Unsent(j)' = Unsent(j) /\ PostedOn(j)' = PostedOn(j)
  <2>1. h \notin Posts(j)
    BY <1>3, <1>12, PostsAre
  <2>2. QED BY <1>3, <1>4, <1>6, <1>12, <2>1 DEF Unsent, Written
<1>13. QED
  BY <1>2, <1>10, <1>11, <1>12 DEF OrderInv

LEMMA HandlersOrder ==
  IInv /\ OrderInv /\ (\E k \in Session : Handlers(k)) => OrderInv'
<1> SUFFICES ASSUME IInv, OrderInv, NEW k \in Session, Handlers(k) PROVE OrderInv'
  OBVIOUS
<1>1. CASE ConnectHandler(k)
  <2>1. RunsIn("connect", k) /\ UNCHANGED m_messages
    BY <1>1 DEF ConnectHandler, clientVars
  <2>2. CASE process' = "io threw"
    BY <2>2 DEF OrderInv, Up
  <2>3. CASE StartsNothing \/ Start("read", k, Tail(ready))
    BY <2>1, <2>3, SteadyHandlerOrder DEF Kind
  <2>4. QED BY <1>1, <2>2, <2>3 DEF ConnectHandler
<1>2. CASE HeaderHandler(k) \/ DataHandler(k)
  <2>1. RunsIn("read", k) /\ Start("read", k, Tail(ready)) /\ UNCHANGED m_messages
    BY <1>2 DEF HeaderHandler, DataHandler
  <2>2. QED BY <2>1, SteadyHandlerOrder DEF Kind
<1>3. CASE ReadErrorHandler(k)
  <2>1. RunsIn("read", k) /\ Close(k) /\ UNCHANGED m_messages
    BY <1>3 DEF ReadErrorHandler
  <2>2. QED BY <2>1, SteadyHandlerOrder
<1>4. CASE WriteErrorHandler(k)
  <2>1. RunsIn("write", k) /\ ec = "error" /\ Close(k) /\ UNCHANGED m_messages
    BY <1>4 DEF WriteErrorHandler
  <2>2. QED BY <2>1, SteadyHandlerOrder
<1>5. CASE IllDataHandler(k)
  BY <1>5 DEF IllDataHandler, OrderInv, Up
<1>6. QED
  BY <1>1, <1>2, <1>3, <1>4, <1>5, WriteHandlerOrder, PostedHandlerOrder DEF Handlers

\* A step that leaves the queues alone.
LEMMA QuietOrder ==
  ASSUME OrderInv, Up \/ UNCHANGED process,
         UNCHANGED <<obj, typed, sent, ready, m_messages>>
  PROVE  OrderInv'
<1>1. CASE Up
  <2>1. \A j \in Session : Unsent(j)' = Unsent(j) /\ PostedOn(j)' = PostedOn(j)
    BY DEF Unsent, PostedOn
  <2>2. QED BY <1>1, <2>1, OrderUntouched
<1>2. CASE ~Up
  BY <1>2 DEF OrderInv, Up
<1>3. QED
  BY <1>1, <1>2

LEMMA CompletionIsNoPost ==
  ASSUME NEW op \in Kind, NEW k \in Session, NEW result \in {"ok", "error"},
         NEW j \in Session
  PROVE  Completion(op, k, result) \notin Posts(j)
<1>1. Completion(op, k, result).do # "post"
  BY CompletionIsTyped DEF Kind
<1>2. QED
  BY <1>1, PostsAre

LEMMA CompletionOrder ==
  ASSUME IInv, OrderInv, NEW op \in Kind, NEW k \in Session,
         NEW result \in {"ok", "error"}, Completes(op, k, result),
         op = "write" => result = "error", UNCHANGED <<typed, sent, m_messages>>
  PROVE  OrderInv'
<1>1. Up /\ Typed /\ UNCHANGED obj /\ ready' = Append(ready, Completion(op, k, result))
  BY TypeOKImpliesTyped DEF IInv, Completes, Running
<1>2. PICK c \in Handler : /\ c = Completion(op, k, result)
                           /\ c.do = op /\ c.of = k /\ c.ec = result
  BY CompletionIsTyped
<1>3. ASSUME NEW j \in Session PROVE Unsent(j)' = Unsent(j) /\ PostedOn(j)' = PostedOn(j)
  <2>1. c \notin Posts(j)
    BY <1>2, CompletionIsNoPost
  <2>2. c # Written(j)
    BY <1>2, WrittenIs
  <2>3. /\ PostedOn(j)' = PostedOn(j)
        /\ Written(j) \in Range(ready') <=> Written(j) \in Range(ready)
    BY <1>1, <1>2, <2>1, <2>2, OrderOfAppend
  <2>4. QED BY <2>3 DEF Unsent, Written
<1>4. QED
  BY <1>1, <1>3, OrderUntouched

\* The front of the queue goes from what is unsent to what is sent.
LEMMA WriteSucceedsOrder ==
  IInv /\ OrderInv /\ (\E k \in Session : WriteSucceeds(k)) => OrderInv'
<1> SUFFICES ASSUME IInv, OrderInv, NEW k \in Session, WriteSucceeds(k) PROVE OrderInv'
  OBVIOUS
<1>1. /\ Up /\ Typed /\ ops[k]["write"] # 0
      /\ UNCHANGED <<obj, typed, m_messages>>
      /\ ready' = Append(ready, Written(k))
      /\ sent' = [sent EXCEPT ![k] = Append(@, Head(m_messages[k]))]
  <2>1. ops[k]["write"] > 0 => ops[k]["write"] # 0
    OBVIOUS
  <2>2. QED
    BY <2>1, TypeOKImpliesTyped
    DEF IInv, WriteSucceeds, Completes, Running, Written, userVars, clientVars
<1>2. obj[k] = "live"
  BY <1>1, OnlyTheLiveRuns DEF Kind
<1>3. m_messages[k] # <<>> /\ Written(k) \notin Range(ready)
  BY <1>1, <1>2, WrittenOnce
<1>4. PICK c \in Handler : c = Written(k) /\ c.do = "write" /\ c.of = k
  BY CompletionIsTyped DEF Written, Kind
<1>5. ASSUME NEW j \in Session
      PROVE  /\ PostedOn(j)' = PostedOn(j)
             /\ j # k => Unsent(j)' = Unsent(j)
             /\ j = k => Unsent(j) = m_messages[j] /\ Unsent(j)' = Tail(m_messages[j])
  <2>1. c \notin Posts(j)
    BY <1>4, PostsAre
  <2>2. /\ PostedOn(j)' = PostedOn(j)
        /\ Written(j) \in Range(ready') <=> Written(j) \in Range(ready) \/ Written(j) = c
    BY <1>1, <1>4, <2>1, OrderOfAppend
  <2>3. j # k => Written(j) # c
    BY <1>4, WrittenIs
  <2>4. QED BY <1>1, <1>3, <1>4, <2>2, <2>3 DEF Unsent, Written
<1>6. PICK s \in Seq(Text), m \in Seq(Text) :
        s = sent[k] /\ m = m_messages[k] /\ m # <<>>
  BY <1>3 DEF IInv, TypeOK
<1>7. PICK x \in Text, r \in Seq(Text), o \in Seq(Text) :
        x = Head(m) /\ r = Tail(m) /\ o = <<x>> /\ m = o \o r
  <2>1. Head(m) \in Text /\ Tail(m) \in Seq(Text) /\ m = <<Head(m)>> \o Tail(m)
    BY <1>6, HeadThenTail
  <2>2. <<Head(m)>> \in Seq(Text)
    BY <2>1
  <2>3. QED BY <2>1, <2>2
<1>8. s \o m = Append(s, x) \o r
  <2>1. (s \o o) \o r = s \o (o \o r)
    BY ConcatAssociative, SMTT(60)
  <2>2. Append(s, x) = s \o o
    BY <1>7, AppendIsConcat
  <2>3. QED BY <1>7, <2>1, <2>2
<1>9. \A j \in Session : TypedOn(j)' = TypedOn(j)
  BY <1>1 DEF TypedOn
<1>10. /\ sent \in [Session -> Seq(Text)]
       /\ sent'[k] = Append(s, x)
       /\ \A j \in Session : j # k => sent'[j] = sent[j]
  BY <1>1, <1>6, <1>7 DEF IInv, TypeOK
<1>11. TypedOn(k)' = (sent'[k] \o Unsent(k)') \o PostedOn(k)'
  <2>1. TypedOn(k) = (s \o m) \o PostedOn(k)
    BY <1>1, <1>2, <1>5, <1>6 DEF OrderInv
  <2>2. Unsent(k)' = r /\ PostedOn(k)' = PostedOn(k)
    BY <1>5, <1>6, <1>7
  <2>3. QED BY <1>8, <1>9, <1>10, <2>1, <2>2
<1>12. QED
  BY <1>1, <1>2, <1>5, <1>9, <1>10, <1>11 DEF OrderInv

LEMMA KernelOrder ==
  IInv /\ OrderInv /\ (\E k \in Session : Kernel(k)) => OrderInv'
<1> SUFFICES ASSUME IInv, OrderInv, NEW k \in Session, Kernel(k) PROVE OrderInv'
  OBVIOUS
<1>1. CASE ConnectCompletes(k)
  <2>1. PICK result \in {"ok", "error"} : Completes("connect", k, result)
    BY <1>1 DEF ConnectCompletes
  <2>2. UNCHANGED <<typed, sent, m_messages>>
    BY <1>1 DEF ConnectCompletes, userVars, clientVars
  <2>3. QED BY <2>1, <2>2, CompletionOrder DEF Kind
<1>2. CASE ReadCompletes(k)
  <2>1. PICK result \in {"ok", "error"} : Completes("read", k, result)
    BY <1>2 DEF ReadCompletes
  <2>2. UNCHANGED <<typed, sent, m_messages>>
    BY <1>2 DEF ReadCompletes, userVars, clientVars, netVars
  <2>3. QED BY <2>1, <2>2, CompletionOrder DEF Kind
<1>3. CASE WriteFails(k)
  <2>1. Completes("write", k, "error") /\ UNCHANGED <<typed, sent, m_messages>>
    BY <1>3 DEF WriteFails, userVars, clientVars, netVars
  <2>2. QED BY <2>1, CompletionOrder DEF Kind
<1>4. QED
  BY <1>1, <1>2, <1>3, WriteSucceedsOrder DEF Kernel

LEMMA IoThreadOrder == IInv /\ OrderInv /\ IoThread => OrderInv'
<1> SUFFICES ASSUME IInv, OrderInv, IoThread PROVE OrderInv'
  OBVIOUS
<1>1. CASE \E k \in Session : Handlers(k)
  BY <1>1, HandlersOrder
<1>2. CASE OtherIoStep
  <2>1. UNCHANGED <<typed, sent, m_messages>>
    BY <1>2 DEF OtherIoStep, userVars, clientVars, netVars
  <2>2. CASE StaleHandler
    BY <2>2 DEF OrderInv, StaleHandler, Up
  <2>3. CASE RunReturns
    BY <2>1, <2>3, QuietOrder DEF RunReturns
  <2>4. QED BY <1>2, <2>2, <2>3 DEF OtherIoStep
<1>3. QED
  BY <1>1, <1>2 DEF IoThread

LEMMA ServerOrder ==
  IInv /\ OrderInv /\ (\E k \in Session : Server(k)) => OrderInv'
<1> SUFFICES ASSUME IInv, OrderInv, NEW k \in Session, Server(k) PROVE OrderInv'
  OBVIOUS
<1>1. UNCHANGED <<process, obj, typed, sent, ready, m_messages>>
  BY DEF Server, ServerSends, ServerEnds, ioVars, userVars, clientVars
<1>2. QED
  BY <1>1, QuietOrder

LEMMA ClientIsSession ==
  ASSUME TypeOK
  PROVE  /\ clients > 0 => clients \in Session
         /\ clients < MaxSessions => clients + 1 \in Session /\ clients + 1 > clients
         /\ obj \in [Session -> {"none", "live", "freed"}]
<1>1. MaxSessions \in Nat /\ Object = Session
  BY ClientAssumption
<1>2. clients \in 0..MaxSessions
  BY DEF TypeOK
<1>3. Session = 1..MaxSessions
  BY DEF Session
<1>4. obj \in [Object -> {"none", "live", "freed"}]
  BY DEF TypeOK, IoTypeOK
<1>5. QED
  BY <1>1, <1>2, <1>3, <1>4

\* Messages are typed only on the last client.
LEMMA PostOrder == IInv /\ OrderInv /\ send_message => OrderInv'
<1> SUFFICES ASSUME IInv, OrderInv, send_message PROVE OrderInv'
  OBVIOUS
<1>1. /\ Up /\ shell = "post"
      /\ ready' = Append(ready, Posting(clients, NextText))
      /\ typed' = Append(typed, clients)
      /\ UNCHANGED <<obj, m_messages, sent>>
  BY DEF send_message, clientVars, netVars
<1>2. m_client /\ NextText \in Text /\ TypeOK /\ Typed
  BY <1>1, TypeOKImpliesTyped DEF IInv, LifeInv, Threads
<1>3. PICK k \in Session : k = clients /\ obj[k] = "live"
  BY <1>2, ClientIsSession DEF m_client
<1>4. PICK x \in Text : x = NextText
  BY <1>2
<1>5. PICK c \in Handler : /\ c = Posting(k, x)
                           /\ c.do = "post" /\ c.of = k /\ c.text = x
                           /\ c \in Posts(k)
  BY DEF Posting, Handler, Posts
<1>6. ASSUME NEW j \in Session
      PROVE  /\ Unsent(j)' = Unsent(j)
             /\ j # k => PostedOn(j)' = PostedOn(j)
             /\ j = k => PostedOn(j)' = Append(PostedOn(j), x)
             /\ TypedOn(j)' = IF j = k THEN Append(TypedOn(j), x) ELSE TypedOn(j)
  <2>1. c # Written(j)
    BY <1>5, WrittenIs
  <2>2. j # k => c \notin Posts(j)
    BY <1>5, PostsAre
  <2>3. /\ c \notin Posts(j) => PostedOn(j)' = PostedOn(j)
        /\ c \in Posts(j) => PostedOn(j)' = Append(PostedOn(j), c.text)
        /\ Written(j) \in Range(ready') <=> Written(j) \in Range(ready) \/ Written(j) = c
    BY <1>1, <1>2, <1>3, <1>4, <1>5, OrderOfAppend
  <2>4. TypedOn(j)' = IF j = k THEN Append(TypedOn(j), x) ELSE TypedOn(j)
    BY <1>1, <1>2, <1>3, <1>4, TypedGrows DEF TypeOK
  <2>5. QED BY <1>1, <1>5, <2>1, <2>2, <2>3, <2>4 DEF Unsent, Written
<1>7. \A j \in Session : j # k => obj[j] # "live"
  BY <1>1, <1>3, OnlyTheLast
<1>8. TypedOn(k)' = (sent'[k] \o Unsent(k)') \o PostedOn(k)'
  <2>1. PICK s \in Seq(Text), u \in Seq(Text), p \in Seq(Text) :
          s = sent[k] /\ u = Unsent(k) /\ p = PostedOn(k)
    BY <1>1, <1>2, <1>3, UnsentType, PostedType DEF TypeOK, Typed, PostedOn
  <2>2. PICK w \in Seq(Text) : w = s \o u
    BY ConcatProperties
  <2>3. TypedOn(k) = w \o p
    BY <1>1, <1>3, <2>1, <2>2 DEF OrderInv
  <2>4. w \o Append(p, x) = Append(w \o p, x)
    BY ConcatAppend
  <2>5. QED BY <1>1, <1>6, <2>1, <2>2, <2>3, <2>4
<1>9. QED
  BY <1>1, <1>3, <1>6, <1>7, <1>8 DEF OrderInv

\* A client that is constructed has nothing to send.
LEMMA ConnectOrder == IInv /\ OrderInv /\ cmd_connect => OrderInv'
<1> SUFFICES ASSUME IInv, OrderInv, cmd_connect PROVE OrderInv'
  OBVIOUS
<1>1. /\ Up /\ clients < MaxSessions
      /\ obj' = [obj EXCEPT ![clients + 1] = "live"]
      /\ UNCHANGED <<ready, typed, m_messages, sent>>
  BY DEF cmd_connect, Starts, AtPrompt
<1>2. LifeInv /\ TypeOK /\ Typed
  BY <1>1, TypeOKImpliesTyped DEF IInv
<1>3. /\ clients + 1 \in Session /\ clients + 1 > clients
      /\ obj \in [Session -> {"none", "live", "freed"}]
  BY <1>1, <1>2, ClientIsSession
<1>4. PICK k \in Session : k = clients + 1 /\ obj[k] = "none"
  BY <1>2, <1>3 DEF LifeInv, Succession
<1>5. Untouched(k)
  BY <1>2, <1>4 DEF LifeInv
<1>6. \A j \in Session : Unsent(j)' = Unsent(j) /\ PostedOn(j)' = PostedOn(j)
                         /\ TypedOn(j)' = TypedOn(j)
  BY <1>1 DEF Unsent, PostedOn, TypedOn
<1>7. Unsent(k) = <<>>
  <2>1. Written(k).of = k
    BY DEF Written, Completion
  <2>2. Written(k) \notin Range(ready)
    BY <1>5, <2>1 DEF Untouched
  <2>3. QED BY <1>5, <2>2 DEF Unsent, Written, Untouched
<1>8. PostedOn(k) = <<>>
  <2>1. PICK q \in Seq(Handler) : q = ready
    BY <1>2 DEF Typed
  <2>2. PICK X : X = Range(q)
    OBVIOUS
  <2>3. q \in Seq(X)
    BY <2>2, SeqOfRange
  <2>4. \A e \in X : e \notin Posts(k)
    BY <1>5, <2>1, <2>2, PostsAre DEF Untouched
  <2>5. Kept(q, Posts(k)) = <<>>
    BY <2>3, <2>4, KeptNothing
  <2>6. <<>> \in Seq(Posts(k))
    BY EmptySeq
  <2>7. Texts(<<>>) = <<>>
    BY <2>6, TextsAre
  <2>8. QED BY <2>1, <2>5, <2>7 DEF PostedOn
<1>9. TypedOn(k) = <<>> /\ sent[k] = <<>>
  BY <1>1, <1>4 DEF OrderInv
<1>10. (<<>> \o <<>>) \o <<>> = <<>>
  OBVIOUS
<1>11. \A j \in Session : obj'[j] = IF j = k THEN "live" ELSE obj[j]
  BY <1>1, <1>3, <1>4
<1>12. TypedOn(k)' = (sent'[k] \o Unsent(k)') \o PostedOn(k)'
  BY <1>1, <1>6, <1>7, <1>8, <1>9, <1>10
<1>13. ASSUME NEW j \in Session, j # k
       PROVE  /\ obj'[j] = "live" =>
                   TypedOn(j)' = (sent'[j] \o Unsent(j)') \o PostedOn(j)'
              /\ obj'[j] # "live" => IsPrefix(sent'[j], TypedOn(j)')
              /\ obj'[j] = "none" => TypedOn(j)' = <<>> /\ sent'[j] = <<>>
  <2>1. obj'[j] = obj[j] /\ sent'[j] = sent[j]
    BY <1>1, <1>11, <1>13
  <2>2. QED BY <1>1, <1>6, <2>1 DEF OrderInv
<1>14. QED
  BY <1>11, <1>12, <1>13 DEF OrderInv

LEMMA ConcatHasPrefix ==
  ASSUME NEW S, NEW s \in Seq(S), NEW t \in Seq(S)
  PROVE  IsPrefix(s, s \o t)
<1>1. Len(s) \in Nat /\ Len(t) \in Nat /\ Len(s \o t) = Len(s) + Len(t)
  BY LenProperties, ConcatProperties
<1>2. SubSeq(s, 1, Len(s)) = SubSeq(s \o t, 1, Len(s))
  <2>1. CASE Len(s) = 0
    BY <2>1, SubSeqEmpty
  <2>2. CASE Len(s) # 0
    <3>1. 1 \in 1..Len(s) /\ Len(s) \in 1..Len(s)
      BY <1>1, <2>2
    <3>2. QED BY <3>1, SubSeqOfConcat1
  <2>3. QED BY <2>1, <2>2
<1>3. QED
  BY <1>1, <1>2 DEF IsPrefix

\* What a destroyed client had not sent is lost, and comes last.
LEMMA JoinOrder == IInv /\ OrderInv /\ Join => OrderInv'
<1> SUFFICES ASSUME IInv, OrderInv, Join PROVE OrderInv'
  OBVIOUS
<1>1. /\ Up /\ shell \in {"stop", "quit"}
      /\ obj' = [j \in Object |-> IF j \in Range(<<clients>>) THEN "freed" ELSE obj[j]]
      /\ UNCHANGED <<typed, sent>>
  BY DEF Join, Joins, userVars, netVars
<1>2. m_client /\ TypeOK /\ Typed
  BY <1>1, TypeOKImpliesTyped DEF IInv, LifeInv, Threads
<1>3. PICK k \in Session : k = clients /\ obj[k] = "live"
  BY <1>2, ClientIsSession DEF m_client
<1>4. \A j \in Session : obj'[j] = IF j = k THEN "freed" ELSE obj[j]
  <2>1. Range(<<clients>>) = {clients}
    BY DEF Range
  <2>2. QED BY <1>1, <1>3, <2>1, ClientAssumption
<1>5. \A j \in Session : j # k => obj[j] # "live"
  BY <1>1, <1>3, OnlyTheLast
<1>6. \A j \in Session : TypedOn(j)' = TypedOn(j)
  BY <1>1 DEF TypedOn
<1>7. IsPrefix(sent[k], TypedOn(k))
  <2>1. PICK s \in Seq(Text), u \in Seq(Text), p \in Seq(Text) :
          s = sent[k] /\ u = Unsent(k) /\ p = PostedOn(k)
    BY <1>1, <1>2, <1>3, UnsentType, PostedType DEF TypeOK, Typed, PostedOn
  <2>2. TypedOn(k) = (s \o u) \o p
    BY <1>1, <1>3, <2>1 DEF OrderInv
  <2>3. (s \o u) \o p = s \o (u \o p)
    BY ConcatAssociative, SMTT(60)
  <2>4. PICK w \in Seq(Text) : w = u \o p
    BY ConcatProperties
  <2>5. QED BY <2>1, <2>2, <2>3, <2>4, ConcatHasPrefix
<1>8. ASSUME NEW j \in Session
      PROVE  /\ obj'[j] # "live" /\ IsPrefix(sent'[j], TypedOn(j)')
             /\ obj'[j] = "none" => TypedOn(j)' = <<>> /\ sent'[j] = <<>>
  <2>1. sent'[j] = sent[j] /\ TypedOn(j)' = TypedOn(j)
    BY <1>1, <1>6
  <2>2. CASE j = k
    BY <1>4, <1>7, <2>1, <2>2
  <2>3. CASE j # k
    <3>1. obj'[j] = obj[j] /\ obj[j] # "live"
      BY <1>4, <1>5, <2>3
    <3>2. QED BY <1>1, <2>1, <3>1 DEF OrderInv
  <2>4. QED BY <2>2, <2>3
<1>9. QED
  BY <1>8 DEF OrderInv

LEMMA ShellOrder == IInv /\ OrderInv /\ Shell => OrderInv'
<1> SUFFICES ASSUME IInv, OrderInv, Shell PROVE OrderInv'
  OBVIOUS
<1>1. CASE ConnectThrows \/ QuitUnconnected
  <2>1. process' # "up"
    BY <1>1 DEF ConnectThrows, QuitUnconnected, Throws, Exits
  <2>2. QED BY <2>1 DEF OrderInv, Up
<1>2. CASE cmd_send \/ SendFileFails \/ Echo \/ \E to \in {"stop", "quit"} : cmd_disconnect(to)
  <2>1. Up /\ UNCHANGED <<obj, typed, sent, ready, m_messages>>
    BY <1>2
    DEF cmd_send, SendFileFails, Echo, Looks, Throws, cmd_disconnect, Stops, AtPrompt,
        userVars, clientVars, netVars
  <2>2. QED BY <2>1, QuietOrder
<1>3. QED
  BY <1>1, <1>2, ConnectOrder, PostOrder, JoinOrder DEF Shell

LEMMA InitOrder == Init => OrderInv
<1> SUFFICES ASSUME Init, NEW k \in Session
             PROVE  /\ obj[k] = "none"
                    /\ IsPrefix(sent[k], TypedOn(k))
                    /\ TypedOn(k) = <<>> /\ sent[k] = <<>>
  BY DEF OrderInv
<1>1. obj[k] = "none" /\ sent[k] = <<>> /\ typed = <<>>
  BY ClientAssumption DEF Init, IoInit
<1>2. TypedOn(k) = <<>>
  <2>1. PICK x \in Seq({}) : x = [t \in DOMAIN typed |-> t] /\ Len(x) = 0
    <3>1. [t \in DOMAIN typed |-> t] = <<>>
      BY <1>1
    <3>2. QED BY <3>1, EmptySeq
  <2>2. QED BY <2>1, KeptOfNone DEF TypedOn
<1>3. IsPrefix(<<>>, <<>>)
  BY DEF IsPrefix
<1>4. QED
  BY <1>1, <1>2, <1>3

\* What the user typed on a connection is on the wire, in the queue or posted,
\* in the order it was typed and each message once; after a disconnect what is
\* on the wire is the beginning of it (main.cpp and client.cpp: send_message
\* posts, the posts run in order, the queue is flushed front first).
THEOREM TypedArrivesInOrder == Spec => []TypedInOrder
<1>1. Init => OrderInv
  BY InitOrder
<1>2. IInv /\ OrderInv /\ [Next]_vars => OrderInv'
  <2>1. IInv /\ OrderInv /\ UNCHANGED vars => OrderInv'
    BY QuietOrder DEF vars, ioVars, userVars, clientVars, netVars
  <2>2. QED
    BY <2>1, ShellOrder, ServerOrder, KernelOrder, IoThreadOrder DEF Next
<1>3. IInv /\ OrderInv => TypedInOrder
  BY DEF OrderInv, TypedInOrder
<1>4. QED
  BY <1>1, <1>2, <1>3, Invariance, PTL DEF Spec
=============================================================================
