------------------------- MODULE ScrollingLogProofs -------------------------
(***************************************************************************)
(* Proofs about ScrollingLog, for every set of threads, every program they *)
(* run and every size of the log.                                          *)
(*                                                                         *)
(* Between two appends the deque holds the latest lines; while one is made *)
(* it lags behind the counter, which the drawing thread reads without the  *)
(* mutex.  The inductive invariant says by how much, at each step of       *)
(* add_line; that no line is drawn twice follows because the first line of *)
(* the deque only ever gets a higher number.                               *)
(***************************************************************************)
EXTENDS ScrollingLog, SequenceLemmas

\* The mutex is held by the thread that is in append_log, if any.
Exclusive == \A t \in Threads : pc[t] # "out" <=> lines_mutex = t

\* Where that thread is.
Stage == IF lines_mutex = Nobody THEN "out" ELSE pc[lines_mutex]

\* A line is counted before it is added, and room is made for it in between.
Added ==
  IF Stage \in {"trim", "push"} THEN recorded_lines_count - 1
                                ELSE recorded_lines_count

Capacity == IF Stage = "push" THEN m_height ELSE m_height + 1

\* The lines that are no longer in the deque.
Dropped == Added - Len(lines)

LatestLines ==
  /\ Stage \in {"trim", "push"} => recorded_lines_count > 0
  /\ Len(lines) = IF Added <= Capacity THEN Added ELSE Capacity
  /\ \A i \in DOMAIN lines : lines[i].no = Dropped + i

\* What is drawn next comes after everything on the screen.
DrawsForward ==
  /\ drawing \in {"size", "back", "at"} =>
       \A i \in DOMAIN screen : screen[i] <= Dropped + index
  /\ drawing = "print" =>
       /\ line <= Dropped + index + 1
       /\ \A i \in DOMAIN screen : screen[i] < line

IInv ==
  /\ TypeOK
  /\ Exclusive
  /\ LatestLines
  /\ DrawnInOrder
  /\ Running => DrawsForward

-----------------------------------------------------------------------------
(* The mutex. *)

\* A thread in append_log holds the mutex, and is where the log is worked on.
LEMMA HolderStage ==
  ASSUME TypeOK, Exclusive, NEW t \in Threads, pc[t] # "out"
  PROVE  lines_mutex = t /\ Stage = pc[t]
BY LogAssumption DEF Exclusive, Stage

\* A step of the holder within append_log.
LEMMA HolderGoes ==
  ASSUME TypeOK, Exclusive, NEW t \in Threads,
         NEW from, from # "out", NEW to \in {"in", "count", "trim", "push"},
         Goes(t, from, to), UNCHANGED lines_mutex
  PROVE  /\ pc' \in [Threads -> {"out", "in", "count", "trim", "push"}]
         /\ Exclusive'
         /\ Stage = from
         /\ Stage' = to
<1>1. pc[t] = from /\ pc' = [pc EXCEPT ![t] = to]
  BY DEF Goes
<1>2. lines_mutex = t /\ Stage = from
  BY <1>1, HolderStage
<1>3. pc' \in [Threads -> {"out", "in", "count", "trim", "push"}]
  BY <1>1 DEF TypeOK
<1>4. Exclusive'
  BY <1>1, <1>2 DEF Exclusive, TypeOK
<1>5. Stage' = to
  BY <1>1, <1>2, LogAssumption DEF Stage, TypeOK
<1>6. QED
  BY <1>2, <1>3, <1>4, <1>5

\* append_log begins.
LEMMA LockGoes ==
  ASSUME TypeOK, Exclusive, NEW t \in Threads, Lock(t)
  PROVE  Exclusive' /\ Stage = "out" /\ Stage' = "in"
<1>1. /\ lines_mutex = Nobody
      /\ lines_mutex' = t
      /\ pc' = [pc EXCEPT ![t] = "in"]
  BY DEF Lock, Free, Goes
<1>2. QED
  BY <1>1, LogAssumption DEF Exclusive, Stage, TypeOK

\* append_log ends.
LEMMA UnlockGoes ==
  ASSUME TypeOK, Exclusive, NEW t \in Threads, Unlock(t)
  PROVE  Exclusive' /\ Stage = "in" /\ Stage' = "out"
<1>1. /\ pc[t] = "in"
      /\ lines_mutex' = Nobody
      /\ pc' = [pc EXCEPT ![t] = "out"]
  BY DEF Unlock, Unlocked, Goes
<1>2. lines_mutex = t /\ Stage = "in"
  BY <1>1, HolderStage
<1>3. QED
  BY <1>1, <1>2, LogAssumption DEF Exclusive, Stage, TypeOK

-----------------------------------------------------------------------------
(* What is drawn, while lines are added. *)

\* The drawing thread is not harmed by an append that only moves the deque on.
LEMMA DrawingGoesOn ==
  ASSUME IInv, Running, UNCHANGED <<process, quit, drawVars>>,
         Dropped \in Int, Dropped' \in Int, Dropped' >= Dropped
  PROVE  DrawnInOrder' /\ (Running => DrawsForward)'
<1>1. DrawsForward /\ UNCHANGED <<drawing, screen, index, line>>
  BY DEF IInv, drawVars
<1>2. DrawnInOrder'
  BY <1>1 DEF IInv, DrawnInOrder
<1>3. \A i \in DOMAIN screen : screen[i] \in Nat
  BY ElementOfSeq, LenProperties DEF IInv, TypeOK
<1>4. index \in Nat /\ line \in Nat
  BY DEF IInv, TypeOK
<1>5. DrawsForward'
  <2>1. PICK d \in Int, e \in Int : d = Dropped /\ e = Dropped' /\ d <= e
    OBVIOUS
  <2>2. d <= e
    BY <2>1
  <2>3. ASSUME drawing \in {"size", "back", "at"}, NEW i \in DOMAIN screen
        PROVE  screen[i] <= Dropped' + index
    <3>1. screen[i] <= d + index
      BY <1>1, <2>1, <2>3 DEF DrawsForward
    <3>2. screen[i] <= e + index
      BY <1>3, <1>4, <2>2, <3>1
    <3>3. QED BY <2>1, <3>2
  <2>4. ASSUME drawing = "print"
        PROVE  /\ line <= Dropped' + index + 1
               /\ \A i \in DOMAIN screen : screen[i] < line
    <3>1. line <= d + index + 1
      BY <1>1, <2>1, <2>4 DEF DrawsForward
    <3>2. line <= e + index + 1
      BY <1>4, <2>2, <3>1
    <3>3. \A i \in DOMAIN screen : screen[i] < line
      BY <1>1, <2>4 DEF DrawsForward
    <3>4. QED BY <2>1, <3>2, <3>3
  <2>5. QED BY <1>1, <2>3, <2>4 DEF DrawsForward
<1>6. QED
  BY <1>2, <1>5

\* The deque's numbers in terms of naturals.
LEMMA Numbers ==
  ASSUME TypeOK, LatestLines
  PROVE  /\ recorded_lines_count \in Nat
         /\ m_height \in Nat \ {0}
         /\ Len(lines) \in Nat
         /\ DOMAIN lines = 1..Len(lines)
         /\ Added \in Nat
         /\ Capacity \in Nat
         /\ Dropped \in Nat
<1>1. recorded_lines_count \in Nat /\ m_height \in Nat \ {0}
  BY LogAssumption DEF TypeOK
<1>2. Len(lines) \in Nat /\ DOMAIN lines = 1..Len(lines)
  BY LenProperties DEF TypeOK
<1>3. Added \in Nat /\ Capacity \in Nat
  BY <1>1 DEF LatestLines, Added, Capacity
<1>4. Dropped \in Nat
  BY <1>2, <1>3 DEF LatestLines, Dropped
<1>5. QED
  BY <1>1, <1>2, <1>3, <1>4

\* A step of append_log that leaves the deque and the counter alone.
LEMMA LogUntouched ==
  ASSUME IInv, Running, UNCHANGED <<process, quit, drawVars>>,
         UNCHANGED <<recorded_lines_count, lines>>,
         Stage \in {"out", "in", "count"}, Stage' \in {"out", "in", "count"},
         TypeOK', Exclusive'
  PROVE  IInv'
<1>1. Added' = Added /\ Capacity' = Capacity /\ Dropped' = Dropped
  BY DEF Added, Capacity, Dropped
<1>2. LatestLines'
  BY <1>1 DEF IInv, LatestLines
<1>3. Dropped \in Nat
  BY Numbers DEF IInv
<1>4. DrawnInOrder' /\ (Running => DrawsForward)'
  BY <1>1, <1>3, DrawingGoesOn
<1>5. QED
  BY <1>2, <1>4 DEF IInv

-----------------------------------------------------------------------------
(* The threads that append. *)

LEMMA LockStep ==
  ASSUME IInv, NEW t \in Threads, Lock(t)
  PROVE  IInv'
<1> USE DEF Lock, Goes
<1>1. Exclusive' /\ Stage = "out" /\ Stage' = "in"
  BY LockGoes DEF IInv
<1>2. Head(todo[t]) \in Seq(Char) /\ Tail(todo[t]) \in Seq(Seq(Char))
  <2>1. todo[t] \in Seq(Seq(Char)) /\ todo[t] # <<>>
    BY DEF IInv, TypeOK
  <2>2. QED BY <2>1, HeadTailProperties
<1>3. TypeOK'
  BY <1>2 DEF IInv, TypeOK, drawVars
<1>4. QED
  BY <1>1, <1>3, LogUntouched

LEMMA WrapStep ==
  ASSUME IInv, NEW t \in Threads, Wrap(t)
  PROVE  IInv'
<1> USE DEF Wrap, shared
<1>1. Goes(t, "in", "count") /\ UNCHANGED lines_mutex
  OBVIOUS
<1>2. /\ Exclusive' /\ Stage = "in" /\ Stage' = "count"
      /\ pc' \in [Threads -> {"out", "in", "count", "trim", "push"}]
  BY <1>1, HolderGoes DEF IInv
<1>3. TypeOK'
  BY <1>2 DEF IInv, TypeOK, drawVars, Goes
<1>4. QED
  BY <1>2, <1>3, LogUntouched DEF Goes

LEMMA PushCharStep ==
  ASSUME IInv, NEW t \in Threads, PushChar(t)
  PROVE  IInv'
<1> USE DEF PushChar
<1>1. PICK to \in {"in", "count"} : Goes(t, "in", to)
  OBVIOUS
<1>2. /\ Exclusive' /\ Stage = "in" /\ Stage' = to
      /\ pc' \in [Threads -> {"out", "in", "count", "trim", "push"}]
  BY <1>1, HolderGoes DEF IInv
<1>3. Head(str[t]) \in Char /\ Tail(str[t]) \in Seq(Char)
  BY HeadTailProperties DEF IInv, TypeOK
<1>4. Append(cur_line, Head(str[t])) \in Seq(Char)
  BY <1>3, AppendProperties DEF IInv, TypeOK
<1>5. TypeOK'
  BY <1>1, <1>2, <1>3, <1>4 DEF IInv, TypeOK, drawVars, Goes
<1>6. QED
  BY <1>1, <1>2, <1>5, LogUntouched DEF Goes

LEMMA UnlockStep ==
  ASSUME IInv, NEW t \in Threads, Unlock(t)
  PROVE  IInv'
<1>1. Exclusive' /\ Stage = "in" /\ Stage' = "out"
  BY UnlockGoes DEF IInv
<1>2. TypeOK'
  BY DEF IInv, TypeOK, drawVars, Goes, Unlock, Unlocked
<1>3. QED
  BY <1>1, <1>2, LogUntouched DEF Goes, Unlock

\* The counter is one ahead of the deque.
LEMMA CountLineStep ==
  ASSUME IInv, NEW t \in Threads, CountLine(t)
  PROVE  IInv'
<1> USE DEF CountLine
<1>1. Goes(t, "count", "trim") /\ UNCHANGED lines_mutex
  OBVIOUS
<1>2. /\ Exclusive' /\ Stage = "count" /\ Stage' = "trim"
      /\ pc' \in [Threads -> {"out", "in", "count", "trim", "push"}]
  BY <1>1, HolderGoes DEF IInv
<1>3. TypeOK'
  BY <1>1, <1>2 DEF IInv, TypeOK, drawVars, Goes
<1>4. /\ recorded_lines_count \in Nat
      /\ recorded_lines_count' = recorded_lines_count + 1
      /\ lines' = lines
      /\ Dropped \in Nat
  BY Numbers DEF IInv
<1>5. Added' = Added /\ Capacity' = Capacity /\ Dropped' = Dropped
  BY <1>2, <1>4 DEF Added, Capacity, Dropped
<1>6. LatestLines'
  BY <1>4, <1>5 DEF IInv, LatestLines
<1>7. DrawnInOrder' /\ (Running => DrawsForward)'
  BY <1>1, <1>4, <1>5, DrawingGoesOn DEF Goes
<1>8. QED
  BY <1>2, <1>3, <1>6, <1>7 DEF IInv

\* Room is made for one line.
LEMMA TrimLinesStep ==
  ASSUME IInv, NEW t \in Threads, TrimLines(t)
  PROVE  IInv'
<1>1. /\ Goes(t, "trim", "push")
      /\ UNCHANGED <<todo, str, lines_mutex, cur_line, recorded_lines_count>>
      /\ lines' = IF Len(lines) > m_height THEN Tail(lines) ELSE lines
  BY DEF TrimLines, Shortened
<1>2. /\ Exclusive' /\ Stage = "trim" /\ Stage' = "push"
      /\ pc' \in [Threads -> {"out", "in", "count", "trim", "push"}]
  BY <1>1, HolderGoes DEF IInv
<1>3. /\ recorded_lines_count \in Nat \ {0}
      /\ m_height \in Nat \ {0}
      /\ Len(lines) \in Nat
      /\ DOMAIN lines = 1..Len(lines)
      /\ Dropped \in Nat
      /\ lines \in Seq(Line)
  BY <1>2, Numbers DEF IInv, LatestLines, TypeOK
<1>4. /\ Added = recorded_lines_count - 1 /\ Added' = Added
      /\ Capacity = m_height + 1 /\ Capacity' = m_height
  BY <1>1, <1>2 DEF Added, Capacity
<1>5. /\ Len(lines) = IF Added <= m_height + 1 THEN Added ELSE m_height + 1
      /\ \A i \in 1..Len(lines) : lines[i].no = Added - Len(lines) + i
  BY <1>3, <1>4 DEF IInv, LatestLines, Dropped
<1>6. /\ lines' \in Seq(Line)
      /\ Len(lines') = IF Added <= m_height THEN Added ELSE m_height
      /\ DOMAIN lines' = 1..Len(lines')
      /\ \A i \in 1..Len(lines') : lines'[i].no = Added - Len(lines') + i
  <2>1. CASE Len(lines) > m_height
    <3>1. lines # <<>> /\ lines' = Tail(lines)
      BY <1>1, <1>3, <2>1, EmptySeq
    <3>2. /\ lines' \in Seq(Line)
          /\ Len(lines') = Len(lines) - 1
          /\ \A i \in 1..Len(lines') : lines'[i] = lines[i + 1]
      BY <1>3, <3>1, HeadTailProperties
    <3>3. DOMAIN lines' = 1..Len(lines')
      BY <3>2, LenProperties
    <3>4. ASSUME NEW i \in 1..Len(lines')
          PROVE  lines'[i].no = Added - Len(lines') + i
      <4>1. lines'[i] = lines[i + 1] /\ i + 1 \in 1..Len(lines)
        BY <1>3, <3>2
      <4>2. lines[i + 1].no = Added - Len(lines) + (i + 1)
        BY <1>5, <4>1
      <4>3. QED BY <1>3, <1>4, <3>2, <4>1, <4>2
    <3>5. Len(lines') = IF Added <= m_height THEN Added ELSE m_height
      BY <1>3, <1>4, <1>5, <2>1, <3>2
    <3>6. QED BY <3>2, <3>3, <3>4, <3>5
  <2>2. CASE ~(Len(lines) > m_height)
    <3>1. lines' = lines /\ Len(lines) <= m_height
      BY <1>1, <1>3, <2>2
    <3>2. QED BY <1>3, <1>4, <1>5, <3>1
  <2>3. QED BY <2>1, <2>2
<1>7. TypeOK'
  BY <1>1, <1>2, <1>6 DEF IInv, TypeOK, drawVars, Goes
<1>8. LatestLines'
  <2>1. Dropped' = Added - Len(lines')
    BY <1>4 DEF Dropped
  <2>2. recorded_lines_count' > 0
    BY <1>1, <1>3
  <2>3. QED BY <1>4, <1>6, <2>1, <2>2 DEF LatestLines
<1>9. Dropped' \in Int /\ Dropped' >= Dropped
  BY <1>3, <1>4, <1>5, <1>6 DEF Dropped
<1>10. DrawnInOrder' /\ (Running => DrawsForward)'
  BY <1>1, <1>3, <1>9, DrawingGoesOn DEF Goes
<1>11. QED
  BY <1>2, <1>7, <1>8, <1>10 DEF IInv

\* The deque has caught up with the counter.
LEMMA PushLineStep ==
  ASSUME IInv, NEW t \in Threads, PushLine(t)
  PROVE  IInv'
<1> USE DEF PushLine
<1> DEFINE new == [no |-> recorded_lines_count, text |-> cur_line]
<1>1. /\ Goes(t, "push", "in")
      /\ UNCHANGED <<lines_mutex, recorded_lines_count>>
      /\ lines' = Append(lines, new)
  OBVIOUS
<1>2. /\ Exclusive' /\ Stage = "push" /\ Stage' = "in"
      /\ pc' \in [Threads -> {"out", "in", "count", "trim", "push"}]
  BY <1>1, HolderGoes DEF IInv
<1>3. /\ recorded_lines_count \in Nat \ {0}
      /\ m_height \in Nat \ {0}
      /\ Len(lines) \in Nat
      /\ DOMAIN lines = 1..Len(lines)
      /\ Dropped \in Nat
      /\ lines \in Seq(Line)
  BY <1>2, Numbers DEF IInv, LatestLines, TypeOK
<1>4. /\ Added = recorded_lines_count - 1 /\ Added' = recorded_lines_count
      /\ Capacity = m_height /\ Capacity' = m_height + 1
  BY <1>1, <1>2 DEF Added, Capacity
<1>5. /\ Len(lines) = IF Added <= m_height THEN Added ELSE m_height
      /\ \A i \in 1..Len(lines) : lines[i].no = Added - Len(lines) + i
  BY <1>3, <1>4 DEF IInv, LatestLines, Dropped
<1>6. new \in Line /\ new.no = recorded_lines_count
  BY <1>3 DEF IInv, TypeOK, Line
<1> HIDE DEF new
<1>7. /\ lines' \in Seq(Line)
      /\ Len(lines') = Len(lines) + 1
      /\ \A i \in 1..Len(lines) : lines'[i] = lines[i]
      /\ lines'[Len(lines) + 1] = new
  BY <1>1, <1>3, <1>6, AppendProperties
<1>8. DOMAIN lines' = 1..Len(lines')
  BY <1>7, LenProperties
<1>9. Dropped' = Dropped
  BY <1>3, <1>4, <1>7 DEF Dropped
<1>10. ASSUME NEW i \in 1..Len(lines')
       PROVE  lines'[i].no = Dropped' + i
  <2>1. CASE i = Len(lines) + 1
    BY <1>3, <1>4, <1>6, <1>7, <1>9, <2>1 DEF Dropped
  <2>2. CASE i # Len(lines) + 1
    <3>1. i \in 1..Len(lines)
      BY <1>3, <1>7, <2>2
    <3>2. QED BY <1>5, <1>7, <1>9, <3>1 DEF Dropped
  <2>3. QED BY <2>1, <2>2
<1>11. LatestLines'
  BY <1>2, <1>3, <1>4, <1>5, <1>7, <1>8, <1>10 DEF LatestLines
<1>12. TypeOK'
  <2>1. cur_line' \in Seq(Char)
    BY EmptySeq
  <2>2. QED BY <1>1, <1>2, <1>7, <2>1 DEF IInv, TypeOK, drawVars, Goes
<1>13. DrawnInOrder' /\ (Running => DrawsForward)'
  BY <1>1, <1>3, <1>9, DrawingGoesOn DEF Goes
<1>14. QED
  BY <1>2, <1>11, <1>12, <1>13 DEF IInv

-----------------------------------------------------------------------------
(* The thread that draws. *)

\* The drawing thread changes nothing of the log.
LEMMA LogUnchanged ==
  ASSUME IInv, UNCHANGED <<appendVars, quit>>
  PROVE  /\ Exclusive'
         /\ LatestLines'
         /\ Dropped' = Dropped
<1>1. UNCHANGED <<pc, lines_mutex, recorded_lines_count, lines>>
  BY DEF appendVars, shared
<1>2. Exclusive'
  BY <1>1 DEF IInv, Exclusive
<1>3. Stage' = Stage
  BY <1>1 DEF Stage
<1>4. Added' = Added /\ Capacity' = Capacity /\ Dropped' = Dropped
  BY <1>1, <1>3 DEF Added, Capacity, Dropped
<1>5. LatestLines'
  BY <1>1, <1>3, <1>4 DEF IInv, LatestLines
<1>6. QED
  BY <1>2, <1>4, <1>5

\* Steps outside of show_log.
LEMMA OutsideStep ==
  ASSUME IInv, Start \/ Loop \/ Poll
  PROVE  IInv'
<1> USE DEF Start, Loop, Poll, DrawStep
<1>1. UNCHANGED <<appendVars, quit, process, screen>>
  OBVIOUS
<1>2. Exclusive' /\ LatestLines'
  BY <1>1, LogUnchanged
<1>3. TypeOK'
  BY DEF IInv, TypeOK, appendVars, shared
<1>4. DrawnInOrder'
  BY <1>1 DEF IInv, DrawnInOrder
<1>5. drawing' \notin {"size", "back", "at", "print"}
  OBVIOUS
<1>6. DrawsForward'
  BY <1>5 DEF DrawsForward
<1>7. QED
  BY <1>2, <1>3, <1>4, <1>6 DEF IInv

LEMMA ClearStep ==
  ASSUME IInv, Clear
  PROVE  IInv'
<1> USE DEF Clear, Cleared, FirstIndex
<1>1. /\ DrawStep("clear", "size")
      /\ UNCHANGED <<appendVars, quit, process>>
      /\ drawing' = "size"
      /\ screen' = <<>>
  BY DEF DrawStep
<1>2. Exclusive' /\ LatestLines'
  BY <1>1, LogUnchanged
<1>3. TypeOK'
  <2>1. screen' \in Seq(Nat)
    BY <1>1, EmptySeq
  <2>2. QED BY <1>1, <2>1 DEF IInv, TypeOK, appendVars, shared
<1>4. DrawnInOrder' /\ DrawsForward'
  BY <1>1 DEF DrawnInOrder, DrawsForward
<1>5. QED
  BY <1>2, <1>3, <1>4 DEF IInv

LEMMA CheckSizeStep ==
  ASSUME IInv, CheckSize
  PROVE  IInv'
<1> USE DEF CheckSize, DrawStep
<1>1. /\ UNCHANGED <<appendVars, quit, process, index, line, screen>>
      /\ drawing = "size"
      /\ drawing' \in {"back", "loop"}
  OBVIOUS
<1>2. Exclusive' /\ LatestLines' /\ Dropped' = Dropped
  BY <1>1, LogUnchanged
<1>3. TypeOK'
  BY DEF IInv, TypeOK, appendVars, shared
<1>4. DrawnInOrder'
  BY <1>1 DEF IInv, DrawnInOrder
<1>5. DrawsForward'
  BY <1>1, <1>2 DEF IInv, DrawsForward
<1>6. QED
  BY <1>2, <1>3, <1>4, <1>5 DEF IInv

LEMMA LookBackStep ==
  ASSUME IInv, LookBack
  PROVE  IInv'
<1> USE DEF LookBack, DrawStep
<1>1. /\ UNCHANGED <<appendVars, quit, index, line, screen>>
      /\ drawing = "back"
      /\ drawing' = "at"
  OBVIOUS
<1>2. Exclusive' /\ LatestLines' /\ Dropped' = Dropped
  BY <1>1, LogUnchanged
<1>3. TypeOK'
  BY DEF IInv, TypeOK, appendVars, shared
<1>4. DrawnInOrder'
  BY <1>1 DEF IInv, DrawnInOrder
<1>5. DrawsForward'
  BY <1>1, <1>2 DEF IInv, DrawsForward
<1>6. QED
  BY <1>2, <1>3, <1>4, <1>5 DEF IInv

\* Unless at() throws, the line taken comes after every line drawn.
LEMMA TakeStep ==
  ASSUME IInv, Take
  PROVE  IInv'
<1>1. /\ UNCHANGED <<appendVars, quit, index, screen, first_count, rec_line_count>>
      /\ Running
      /\ drawing = "at"
      /\ drawing' = "print"
      /\ process' = IF index >= Len(lines) THEN "terminated" ELSE process
      /\ line' = IF index >= Len(lines) THEN line ELSE lines[index + 1].no
  BY DEF Take, DrawStep, at_throws
<1>2. Exclusive' /\ LatestLines' /\ Dropped' = Dropped
  BY <1>1, LogUnchanged
<1>3. DrawnInOrder'
  BY <1>1 DEF IInv, DrawnInOrder
<1>4. /\ index \in Nat
      /\ Len(lines) \in Nat
      /\ DOMAIN lines = 1..Len(lines)
      /\ Dropped \in Nat
      /\ \A i \in DOMAIN screen : screen[i] \in Nat
  BY Numbers, ElementOfSeq, LenProperties DEF IInv, TypeOK
<1>5. CASE index >= Len(lines)
  <2>1. line' = line /\ process' = "terminated"
    BY <1>1, <1>5
  <2>2. TypeOK'
    BY <1>1, <2>1 DEF IInv, TypeOK, appendVars, shared
  <2>3. QED BY <1>2, <1>3, <2>1, <2>2 DEF IInv, Running
<1>6. CASE ~(index >= Len(lines))
  <2>1. index + 1 \in DOMAIN lines
    BY <1>4, <1>6
  <2>2. line' = Dropped + (index + 1)
    BY <1>1, <1>6, <2>1 DEF IInv, LatestLines
  <2>3. line' \in Nat /\ line' <= Dropped + index + 1
    BY <1>4, <2>2
  <2>4. ASSUME NEW i \in DOMAIN screen
        PROVE  screen[i] < line'
    <3>1. screen[i] <= Dropped + index
      BY <1>1 DEF IInv, DrawsForward
    <3>2. QED BY <1>4, <2>2, <3>1
  <2>5. DrawsForward'
    BY <1>1, <1>2, <2>3, <2>4 DEF DrawsForward
  <2>6. TypeOK'
    BY <1>1, <1>6, <2>3 DEF IInv, TypeOK, appendVars, shared
  <2>7. QED BY <1>2, <1>3, <2>5, <2>6 DEF IInv
<1>7. QED
  BY <1>5, <1>6

LEMMA PrintLineStep ==
  ASSUME IInv, PrintLine
  PROVE  IInv'
<1>1. /\ UNCHANGED <<appendVars, quit, line, first_count, rec_line_count>>
      /\ Running
      /\ drawing = "print"
      /\ drawing' = "size"
      /\ process' \in {process, "undefined"}
      /\ screen' = Append(screen, line)
      /\ index' = index + 1
  BY DEF PrintLine, DrawStep
<1>2. Exclusive' /\ LatestLines' /\ Dropped' = Dropped
  BY <1>1, LogUnchanged
<1>3. /\ index \in Nat
      /\ line \in Nat
      /\ screen \in Seq(Nat)
      /\ Dropped \in Nat
  BY Numbers DEF IInv, TypeOK
<1>4. /\ screen' \in Seq(Nat)
      /\ Len(screen) \in Nat
      /\ DOMAIN screen = 1..Len(screen)
      /\ DOMAIN screen' = 1..(Len(screen) + 1)
      /\ \A i \in 1..Len(screen) : screen'[i] = screen[i] /\ screen[i] \in Nat
      /\ screen'[Len(screen) + 1] = line
  BY <1>1, <1>3, AppendProperties, LenProperties, ElementOfSeq
<1>5. /\ line <= Dropped + index + 1
      /\ \A i \in 1..Len(screen) : screen[i] < line
  BY <1>1, <1>4 DEF IInv, DrawsForward
<1>6. TypeOK'
  BY <1>1, <1>3, <1>4 DEF IInv, TypeOK, appendVars, shared
<1>7. DrawnInOrder'
  <2>1. ASSUME NEW i \in DOMAIN screen', NEW j \in DOMAIN screen', i < j
        PROVE  screen'[i] < screen'[j]
    <3>1. i \in 1..Len(screen) /\ screen'[i] = screen[i]
      BY <1>4, <2>1
    <3>2. CASE j = Len(screen) + 1
      BY <1>4, <1>5, <3>1, <3>2
    <3>3. CASE j # Len(screen) + 1
      <4>1. j \in 1..Len(screen) /\ screen'[j] = screen[j]
        BY <1>4, <3>3
      <4>2. screen[i] < screen[j]
        BY <1>4, <2>1, <3>1, <4>1 DEF IInv, DrawnInOrder
      <4>3. QED BY <3>1, <4>1, <4>2
    <3>4. QED BY <3>2, <3>3
  <2>2. QED BY <2>1 DEF DrawnInOrder
<1>8. DrawsForward'
  <2>1. ASSUME NEW i \in DOMAIN screen'
        PROVE  screen'[i] <= Dropped + (index + 1)
    <3>1. CASE i = Len(screen) + 1
      BY <1>3, <1>4, <1>5, <3>1
    <3>2. CASE i # Len(screen) + 1
      <4>1. i \in 1..Len(screen) /\ screen'[i] = screen[i] /\ screen[i] \in Nat
        BY <1>4, <3>2
      <4>2. screen[i] < line
        BY <1>5, <4>1
      <4>3. QED BY <1>3, <1>5, <4>1, <4>2
    <3>3. QED BY <3>1, <3>2
  <2>2. QED BY <1>1, <1>2, <2>1 DEF DrawsForward
<1>9. QED
  BY <1>2, <1>6, <1>7, <1>8 DEF IInv

-----------------------------------------------------------------------------
(* The invariant, and what it gives. *)

LEMMA InitInvariant == Init => IInv
<1> SUFFICES ASSUME Init PROVE IInv
  OBVIOUS
<1>1. TypeOK
  <2>1. /\ cur_line \in Seq(Char)
        /\ lines \in Seq(Line)
        /\ screen \in Seq(Nat)
        /\ str \in [Threads -> Seq(Char)]
    BY EmptySeq DEF Init
  <2>2. todo \in [Threads -> Seq(Seq(Char))]
    BY LogAssumption DEF Init
  <2>3. first_count \in 0..rec_line_count /\ rec_line_count \in 0..recorded_lines_count
    BY DEF Init
  <2>4. QED BY <2>1, <2>2, <2>3 DEF Init, TypeOK
<1>2. Exclusive /\ Stage = "out"
  BY LogAssumption DEF Init, Exclusive, Stage
<1>3. LatestLines
  <2>1. Added = 0 /\ Len(lines) = 0 /\ DOMAIN lines = {}
    BY <1>2 DEF Init, Added
  <2>2. Capacity \in Nat
    BY LogAssumption DEF Capacity
  <2>3. QED BY <1>2, <2>1, <2>2 DEF LatestLines
<1>4. DrawnInOrder /\ DrawsForward
  BY DEF Init, DrawnInOrder, DrawsForward
<1>5. QED
  BY <1>1, <1>2, <1>3, <1>4 DEF IInv

LEMMA NextInvariant == IInv /\ [Next]_vars => IInv'
<1> SUFFICES ASSUME IInv, [Next]_vars PROVE IInv'
  OBVIOUS
<1>1. CASE set_quit \/ UNCHANGED vars
  <2>1. UNCHANGED <<appendVars, process, drawVars>> /\ quit' \in BOOLEAN
    BY <1>1 DEF set_quit, vars, IInv, TypeOK
  <2>2. TypeOK'
    BY <2>1 DEF IInv, TypeOK, appendVars, shared, drawVars
  <2>3. UNCHANGED <<Added, Capacity, Dropped, Stage>>
    BY <2>1 DEF Added, Capacity, Dropped, Stage, appendVars, shared
  <2>4. QED
    BY <2>1, <2>2, <2>3
    DEF IInv, Exclusive, LatestLines, DrawnInOrder, DrawsForward, Running,
        appendVars, shared, drawVars
<1>2. ASSUME NEW t \in Threads, Lock(t) \/ AppendStep(t)
      PROVE  IInv'
  BY <1>2, LockStep, WrapStep, PushCharStep, UnlockStep, CountLineStep,
     TrimLinesStep, PushLineStep
  DEF AppendStep
<1>3. CASE UpdateLog
  BY <1>3, OutsideStep, ClearStep, CheckSizeStep, LookBackStep, TakeStep,
     PrintLineStep
  DEF UpdateLog
<1>4. QED
  BY <1>1, <1>2, <1>3 DEF Next

\* IInv is an inductive invariant of the log and the thread that draws it.
THEOREM Invariance == Spec => []IInv
BY InitInvariant, NextInvariant, PTL DEF Spec

\* Every variable keeps its type; the counter is never behind what the drawing
\* thread has seen of it.  (scrolling_log.cpp, update_log.)
THEOREM TypeCorrect == Spec => []TypeOK
<1>1. IInv => TypeOK
  BY DEF IInv
<1>2. QED BY <1>1, Invariance, PTL

\* Two threads are never in append_log together.  (lines_mutex.)
THEOREM MutualExclusion ==
  Spec => [](\A t, u \in Threads : pc[t] # "out" /\ pc[u] # "out" => t = u)
<1>1. IInv => \A t, u \in Threads : pc[t] # "out" /\ pc[u] # "out" => t = u
  BY DEF IInv, Exclusive
<1>2. QED BY <1>1, Invariance, PTL

\* Between two appends the deque holds the latest lines without a gap, all of
\* them or at least m_height.  (scrolling_log.cpp:43-49.)
THEOREM TheLatestAreKept == Spec => []KeepsTheLatest
<1>1. IInv => KeepsTheLatest
  <2> SUFFICES ASSUME IInv, lines_mutex = Nobody PROVE KeepsTheLatest
    BY DEF KeepsTheLatest
  <2>1. Added = recorded_lines_count /\ Capacity = m_height + 1
    BY DEF Stage, Added, Capacity
  <2>2. recorded_lines_count \in Nat /\ m_height \in Nat
    BY LogAssumption DEF IInv, TypeOK
  <2>3. Len(lines) = IF recorded_lines_count <= m_height + 1
                     THEN recorded_lines_count ELSE m_height + 1
    BY <2>1, <2>2 DEF IInv, LatestLines
  <2>4. QED BY <2>1, <2>2, <2>3 DEF IInv, LatestLines, Dropped, KeepsTheLatest
<1>2. QED BY <1>1, Invariance, PTL

\* However the deque changes while it is drawn, no line is drawn twice on one
\* screen, and none after a later one.  (show_log.)
THEOREM LinesAreDrawnInOrder == Spec => []DrawnInOrder
<1>1. IInv => DrawnInOrder
  BY DEF IInv
<1>2. QED BY <1>1, Invariance, PTL

-----------------------------------------------------------------------------
(***************************************************************************)
(* The text of the log.  What the holder of the mutex has still to append  *)
(* has one letter; whatever of that letter is in the text stands at its    *)
(* end, with nothing but line ends between.                                *)
(***************************************************************************)

\* The letters of a text.
LettersOf(s) == Range(s) \ {NL}

\* Calls are not mixed in the text w.
Unmixed(w) ==
  /\ \A i, k \in DOMAIN w : i < k /\ w[i] = w[k] /\ w[i] # NL =>
       \A j \in i..k : w[j] \in {w[i], NL}
  /\ \A i \in DOMAIN w : i > 1 /\ NL \notin {w[i - 1], w[i]} =>
       w[i - 1] = w[i] \/ w[i - 1] \in Unended

\* h may still be appended to w: it goes on with the call w ends with, or w ends
\* where another call may begin.
MayFollow(h, w) ==
  /\ \A x, y \in LettersOf(h) : x = y
  /\ \A x \in LettersOf(h) : \A i \in DOMAIN w :
       w[i] = x => \A j \in i..Len(w) : w[j] \in {x, NL}
  /\ h # <<>> => Last(h) \in Unended \cup {NL}
  /\ w # <<>> => \/ Last(w) \in Unended \cup {NL}
                 \/ h # <<>> /\ LettersOf(h) \subseteq {Last(w)}

\* What the holder of the mutex has still to append.
InHand == IF lines_mutex = Nobody THEN <<>> ELSE str[lines_mutex]

Calls == UNION {Range(p[t]) : p \in Programs, t \in Threads}

\* The letters of the calls that have not begun are new, and each has its own.
CallsToCome ==
  /\ \A t \in Threads : \A i \in DOMAIN todo[t] : todo[t][i] \in Calls
  /\ \A t, u \in Threads : \A i \in DOMAIN todo[t], j \in DOMAIN todo[u] :
       Distinct(todo, t, i, u, j)
  /\ \A t \in Threads : \A i \in DOMAIN todo[t] :
       LettersOf(todo[t][i]) \cap (Range(Text) \cup Range(InHand)) = {}

Widths ==
  /\ \A i \in DOMAIN lines : Len(lines[i].text) \in 1..(m_width + 1)
  /\ Len(cur_line) <= m_width + 1
  /\ Stage \in {"count", "trim", "push"} => Len(cur_line) > 0

TextInv ==
  /\ CallsToCome
  /\ Unmixed(Text)
  /\ MayFollow(InHand, Text)
  /\ Widths

LEMMA CallBegins ==
  ASSUME NEW w \in Seq(Char), NEW h \in Seq(Char), MayFollow(<<>>, w),
         \A x, y \in LettersOf(h) : x = y,
         LettersOf(h) \cap Range(w) = {},
         h # <<>> => Last(h) \in Unended \cup {NL}
  PROVE  MayFollow(h, w)
<1>1. \A x \in LettersOf(h) : \A i \in DOMAIN w : w[i] # x
  BY DEF Range
<1>2. w # <<>> => Last(w) \in Unended \cup {NL}
  BY DEF MayFollow
<1>3. QED
  BY <1>1, <1>2 DEF MayFollow

\* The next character of a call is appended.
LEMMA CallGoesOn ==
  ASSUME NEW w \in Seq(Char), NEW h \in Seq(Char), h # <<>>,
         Unmixed(w), MayFollow(h, w)
  PROVE  Unmixed(Append(w, Head(h))) /\ MayFollow(Tail(h), Append(w, Head(h)))
<1> DEFINE v == Append(w, Head(h))
           c == Head(h)
<1>1. /\ Head(h) \in Char /\ Head(h) \in Range(h) /\ Tail(h) \in Seq(Char)
      /\ Range(Tail(h)) \subseteq Range(h)
      /\ Len(h) \in Nat \ {0} /\ Head(h) = h[1]
      /\ Len(Tail(h)) = Len(h) - 1
      /\ \A i \in 1..(Len(h) - 1) : Tail(h)[i] = h[i + 1]
  BY RangeOfTail, HeadTailProperties, EmptySeq
<1>2. /\ v \in Seq(Char) /\ v # <<>>
      /\ Len(w) \in Nat /\ DOMAIN w = 1..Len(w)
      /\ Len(v) = Len(w) + 1 /\ DOMAIN v = 1..(Len(w) + 1)
      /\ \A i \in 1..Len(w) : v[i] = w[i]
      /\ v[Len(w) + 1] = c
      /\ Last(v) = c
  BY <1>1, AppendProperties, LenProperties DEF Last
<1>3. c # NL => c \in LettersOf(h)
  BY <1>1 DEF LettersOf
<1> HIDE DEF v, c
<1>4. \A x \in LettersOf(Tail(h)) : x \in LettersOf(h)
  BY <1>1 DEF LettersOf
<1>5. ASSUME NEW x \in LettersOf(h), NEW i \in DOMAIN v, v[i] = x, NEW j \in i..Len(v)
      PROVE  v[j] \in {x, NL}
  <2>1. CASE j = Len(w) + 1
    <3>1. c # NL => c = x
      BY <1>3 DEF MayFollow
    <3>2. QED BY <1>2, <2>1, <3>1
  <2>2. CASE j # Len(w) + 1
    <3>1. i \in DOMAIN w /\ j \in i..Len(w) /\ j \in 1..Len(w)
      BY <1>2, <1>5, <2>2
    <3>2. w[i] = x
      BY <1>2, <1>5, <3>1
    <3>3. w[j] \in {x, NL}
      BY <3>1, <3>2 DEF MayFollow
    <3>4. QED BY <1>2, <3>1, <3>3
  <2>3. QED BY <2>1, <2>2
<1>6. Unmixed(v)
  <2>1. ASSUME NEW i \in DOMAIN v, NEW k \in DOMAIN v, i < k, v[i] = v[k], v[i] # NL,
               NEW j \in i..k
        PROVE  v[j] \in {v[i], NL}
    <3>1. CASE k = Len(w) + 1
      <4>1. v[i] \in LettersOf(h)
        BY <1>2, <1>3, <2>1, <3>1
      <4>2. j \in i..Len(v)
        BY <1>2, <2>1, <3>1
      <4>3. QED BY <1>5, <4>1, <4>2
    <3>2. CASE k # Len(w) + 1
      <4>1. /\ i \in DOMAIN w /\ k \in DOMAIN w /\ j \in 1..Len(w)
        BY <1>2, <2>1, <3>2
      <4>2. v[i] = w[i] /\ v[k] = w[k] /\ v[j] = w[j]
        BY <1>2, <4>1
      <4>3. QED BY <2>1, <4>1, <4>2 DEF Unmixed
    <3>3. QED BY <3>1, <3>2
  <2>2. ASSUME NEW i \in DOMAIN v, i > 1, NL \notin {v[i - 1], v[i]}
        PROVE  v[i - 1] = v[i] \/ v[i - 1] \in Unended
    <3>1. CASE i = Len(w) + 1
      <4>1. v[i] = c /\ v[i - 1] = Last(w) /\ w # <<>>
        <5>1. i - 1 = Len(w) /\ Len(w) \in 1..Len(w) /\ Len(w) # 0
          BY <1>2, <2>2, <3>1
        <5>2. Len(<<>>) = 0
          BY EmptySeq
        <5>3. QED BY <1>2, <3>1, <5>1, <5>2 DEF Last
      <4>2. \/ Last(w) \in Unended \cup {NL}
            \/ LettersOf(h) \subseteq {Last(w)}
        BY <4>1 DEF MayFollow
      <4>3. QED BY <1>3, <2>2, <4>1, <4>2
    <3>2. CASE i # Len(w) + 1
      <4>1. i \in DOMAIN w /\ i - 1 \in 1..Len(w) /\ i \in 1..Len(w)
        BY <1>2, <2>2, <3>2
      <4>2. v[i] = w[i] /\ v[i - 1] = w[i - 1]
        BY <1>2, <4>1
      <4>3. QED BY <2>2, <4>1, <4>2 DEF Unmixed
    <3>3. QED BY <3>1, <3>2
  <2>3. QED BY <2>1, <2>2 DEF Unmixed
<1>7. MayFollow(Tail(h), v)
  <2>1. \A x, y \in LettersOf(Tail(h)) : x = y
    BY <1>4 DEF MayFollow
  <2>2. \A x \in LettersOf(Tail(h)) : \A i \in DOMAIN v :
          v[i] = x => \A j \in i..Len(v) : v[j] \in {x, NL}
    BY <1>4, <1>5
  <2>3. CASE Tail(h) = <<>>
    <3>1. Len(Tail(h)) = 0
      BY <2>3, EmptySeq, Zenon
    <3>2. Len(h) = 1
      <4>1. Len(h) \in Nat /\ Len(Tail(h)) = Len(h) - 1
        BY <1>1
      <4>2. QED BY <3>1, <4>1
    <3>3. c = Last(h)
      BY <1>1, <3>2 DEF Last, c
    <3>4. QED BY <1>2, <2>1, <2>2, <2>3, <3>3 DEF MayFollow
  <2>4. CASE Tail(h) # <<>>
    <3>1. Len(Tail(h)) # 0
      BY <1>1, <2>4, EmptySeq
    <3>2. Last(Tail(h)) = Last(h)
      <4>1. Len(h) - 1 \in 1..(Len(h) - 1) /\ (Len(h) - 1) + 1 = Len(h)
        BY <1>1, <3>1
      <4>2. QED BY <1>1, <4>1 DEF Last
    <3>3. c = NL \/ LettersOf(Tail(h)) \subseteq {c}
      BY <1>3, <1>4 DEF MayFollow
    <3>4. QED BY <1>2, <2>1, <2>2, <2>4, <3>2, <3>3 DEF MayFollow
  <2>5. QED BY <2>3, <2>4
<1>8. QED
  BY <1>6, <1>7 DEF v

\* Lines are dropped at the front.
LEMMA CallsLeave ==
  ASSUME NEW u \in Seq(Char), NEW w \in Seq(Char), NEW h,
         Unmixed(u \o w), MayFollow(h, u \o w)
  PROVE  /\ Unmixed(w) /\ MayFollow(h, w)
         /\ Range(w) \subseteq Range(u \o w)
<1> DEFINE v == u \o w
           n == Len(u)
<1>1. /\ n \in Nat /\ Len(w) \in Nat
      /\ DOMAIN w = 1..Len(w)
      /\ v \in Seq(Char) /\ Len(v) = n + Len(w)
      /\ DOMAIN v = 1..(n + Len(w))
  BY ConcatProperties, LenProperties
<1>2. ASSUME NEW i \in 1..Len(w)
      PROVE  n + i \in 1..(n + Len(w)) /\ v[n + i] = w[i]
  <2>1. n + i \in 1..(n + Len(w)) /\ ~(n + i <= n) /\ (n + i) - n = i
    BY <1>1
  <2>2. v[n + i] = IF n + i <= Len(u) THEN u[n + i] ELSE w[(n + i) - Len(u)]
    BY <2>1, ConcatProperties
  <2>3. QED BY <2>1, <2>2
<1>3. Unmixed(v) /\ MayFollow(h, v)
  OBVIOUS
<1> HIDE DEF v, n
<1>4. Unmixed(w)
  <2>1. ASSUME NEW i \in DOMAIN w, NEW k \in DOMAIN w, i < k, w[i] = w[k], w[i] # NL,
               NEW j \in i..k
        PROVE  w[j] \in {w[i], NL}
    <3>1. /\ i \in 1..Len(w) /\ k \in 1..Len(w) /\ j \in 1..Len(w)
          /\ n + i < n + k /\ n + j \in (n + i)..(n + k)
      BY <1>1, <2>1
    <3>2. /\ v[n + i] = w[i] /\ v[n + k] = w[k] /\ v[n + j] = w[j]
          /\ n + i \in DOMAIN v /\ n + k \in DOMAIN v
      BY <1>1, <1>2, <3>1
    <3>3. v[n + j] \in {v[n + i], NL}
      BY <1>3, <2>1, <3>1, <3>2 DEF Unmixed
    <3>4. QED BY <3>2, <3>3
  <2>2. ASSUME NEW i \in DOMAIN w, i > 1, NL \notin {w[i - 1], w[i]}
        PROVE  w[i - 1] = w[i] \/ w[i - 1] \in Unended
    <3>1. i \in 1..Len(w) /\ i > 1
      BY <1>1, <2>2
    <3>2. i - 1 \in 1..Len(w) /\ n + i > 1 /\ (n + i) - 1 = n + (i - 1)
      BY <1>1, <3>1
    <3>3. v[n + i] = w[i] /\ v[(n + i) - 1] = w[i - 1] /\ n + i \in DOMAIN v
      BY <1>1, <1>2, <3>1, <3>2
    <3>4. v[(n + i) - 1] = v[n + i] \/ v[(n + i) - 1] \in Unended
      BY <1>3, <2>2, <3>2, <3>3 DEF Unmixed
    <3>5. QED BY <3>3, <3>4
  <2>3. QED BY <2>1, <2>2 DEF Unmixed
<1>5. MayFollow(h, w)
  <2>1. ASSUME NEW x \in LettersOf(h), NEW i \in DOMAIN w, w[i] = x, NEW j \in i..Len(w)
        PROVE  w[j] \in {x, NL}
    <3>1. i \in 1..Len(w) /\ j \in 1..Len(w) /\ n + j \in (n + i)..Len(v)
      BY <1>1, <2>1
    <3>2. v[n + i] = w[i] /\ v[n + j] = w[j] /\ n + i \in DOMAIN v
      BY <1>1, <1>2, <3>1
    <3>3. v[n + j] \in {x, NL}
      BY <1>3, <2>1, <3>1, <3>2 DEF MayFollow
    <3>4. QED BY <3>2, <3>3
  <2>2. ASSUME w # <<>> PROVE v # <<>> /\ Last(v) = Last(w)
    <3>1. Len(w) \in 1..Len(w)
      BY <1>1, <2>2, EmptySeq
    <3>2. v[n + Len(w)] = w[Len(w)] /\ Len(v) # 0
      BY <1>1, <1>2, <3>1
    <3>3. v # <<>>
      BY <3>2, EmptySeq, Zenon
    <3>4. QED BY <1>1, <3>2, <3>3 DEF Last
  <2>3. QED BY <1>3, <2>1, <2>2 DEF MayFollow
<1>6. Range(w) \subseteq Range(v)
  <2>1. ASSUME NEW x \in Range(w) PROVE x \in Range(v)
    <3>1. PICK i \in 1..Len(w) : w[i] = x
      BY <1>1 DEF Range
    <3>2. n + i \in DOMAIN v /\ v[n + i] = x
      BY <1>1, <1>2, <3>1
    <3>3. QED BY <3>2 DEF Range
  <2>2. QED BY <2>1
<1>7. QED
  BY <1>4, <1>5, <1>6 DEF v

-----------------------------------------------------------------------------
(* What the steps of append_log do to the text. *)

TextsOf(ls) == [i \in DOMAIN ls |-> ls[i].text]

LEMMA TextsType ==
  ASSUME NEW ls \in Seq(Line)
  PROVE  TextsOf(ls) \in Seq(Seq(Char)) /\ Len(TextsOf(ls)) = Len(ls)
<1>1. Len(ls) \in Nat /\ DOMAIN ls = 1..Len(ls) /\ \A i \in 1..Len(ls) : ls[i] \in Line
  BY LenProperties, ElementOfSeq
<1>2. TextsOf(ls) \in [1..Len(ls) -> Seq(Char)]
  BY <1>1 DEF TextsOf, Line
<1>3. QED
  BY <1>1, <1>2

LEMMA TextsOfAppend ==
  ASSUME NEW ls \in Seq(Line), NEW l \in Line
  PROVE  TextsOf(Append(ls, l)) = Append(TextsOf(ls), l.text)
<1> DEFINE m == Append(ls, l)
           a == TextsOf(m)
           b == Append(TextsOf(ls), l.text)
<1>1. /\ m \in Seq(Line) /\ Len(m) = Len(ls) + 1
      /\ \A i \in 1..Len(ls) : m[i] = ls[i]
      /\ m[Len(ls) + 1] = l
      /\ Len(ls) \in Nat /\ DOMAIN ls = 1..Len(ls)
  BY AppendProperties, LenProperties
<1> HIDE DEF m
<1>2. /\ a \in Seq(Seq(Char)) /\ Len(a) = Len(ls) + 1
      /\ TextsOf(ls) \in Seq(Seq(Char)) /\ Len(TextsOf(ls)) = Len(ls)
  BY <1>1, TextsType
<1>3. DOMAIN m = 1..(Len(ls) + 1)
  BY <1>1, LenProperties
<1>4. l.text \in Seq(Char)
  BY DEF Line
<1>5. /\ b \in Seq(Seq(Char)) /\ Len(b) = Len(ls) + 1
      /\ \A i \in 1..Len(ls) : b[i] = TextsOf(ls)[i]
      /\ b[Len(ls) + 1] = l.text
  BY <1>2, <1>4, AppendProperties
<1>6. \A i \in 1..(Len(ls) + 1) : a[i] = m[i].text
  BY <1>3 DEF TextsOf
<1>7. \A i \in 1..Len(ls) : TextsOf(ls)[i] = ls[i].text
  BY <1>1 DEF TextsOf
<1> HIDE DEF a, b
<1>8. ASSUME NEW i \in 1..Len(a) PROVE a[i] = b[i]
  <2>1. i \in 1..(Len(ls) + 1)
    BY <1>2
  <2>2. CASE i = Len(ls) + 1
    BY <1>1, <1>5, <1>6, <2>1, <2>2
  <2>3. CASE i # Len(ls) + 1
    <3>1. i \in 1..Len(ls)
      BY <1>1, <2>1, <2>3
    <3>2. QED BY <1>1, <1>5, <1>6, <1>7, <2>1, <3>1
  <2>4. QED BY <2>2, <2>3
<1>9. a = b
  BY <1>2, <1>5, <1>8, SeqEqual
<1>10. QED
  BY <1>9 DEF a, b, m

LEMMA TextsOfTail ==
  ASSUME NEW ls \in Seq(Line), ls # <<>>
  PROVE  /\ TextsOf(ls) # <<>>
         /\ TextsOf(Tail(ls)) = Tail(TextsOf(ls))
<1> DEFINE a == TextsOf(Tail(ls))
           b == Tail(TextsOf(ls))
<1>1. /\ Tail(ls) \in Seq(Line) /\ Len(Tail(ls)) = Len(ls) - 1
      /\ \A i \in 1..(Len(ls) - 1) : Tail(ls)[i] = ls[i + 1]
      /\ Len(ls) \in Nat \ {0} /\ DOMAIN ls = 1..Len(ls)
      /\ DOMAIN Tail(ls) = 1..(Len(ls) - 1)
  BY HeadTailProperties, LenProperties, EmptySeq
<1>2. /\ a \in Seq(Seq(Char)) /\ Len(a) = Len(ls) - 1
      /\ TextsOf(ls) \in Seq(Seq(Char)) /\ Len(TextsOf(ls)) = Len(ls)
  BY <1>1, TextsType
<1>3. TextsOf(ls) # <<>>
  <2>1. Len(TextsOf(ls)) # 0
    BY <1>1, <1>2
  <2>2. QED BY <2>1, EmptySeq, Zenon
<1>4. /\ b \in Seq(Seq(Char)) /\ Len(b) = Len(ls) - 1
      /\ \A i \in 1..(Len(ls) - 1) : b[i] = TextsOf(ls)[i + 1]
  BY <1>2, <1>3, HeadTailProperties
<1>5. ASSUME NEW i \in 1..(Len(ls) - 1) PROVE a[i] = b[i]
  <2>1. i + 1 \in 1..Len(ls)
    BY <1>1
  <2>2. a[i] = Tail(ls)[i].text
    BY <1>1 DEF TextsOf
  <2>3. TextsOf(ls)[i + 1] = ls[i + 1].text
    BY <1>1, <2>1 DEF TextsOf
  <2>4. QED BY <1>1, <1>4, <2>2, <2>3
<1> HIDE DEF a, b
<1>6. a = b
  BY <1>2, <1>4, <1>5, SeqEqual
<1>7. QED
  BY <1>3, <1>6 DEF a, b

LEMMA TextType ==
  ASSUME TypeOK
  PROVE  /\ FlattenSeq(TextsOf(lines)) \in Seq(Char)
         /\ Text = FlattenSeq(TextsOf(lines)) \o cur_line
         /\ Text \in Seq(Char)
<1>1. FlattenSeq(TextsOf(lines)) \in Seq(Char)
  BY TextsType, FlattenSeqType DEF TypeOK
<1>2. Text = FlattenSeq(TextsOf(lines)) \o cur_line
  BY DEF Text, TextsOf
<1>3. QED
  BY <1>1, <1>2, ConcatProperties DEF TypeOK

\* A character is appended.
LEMMA TextOfPushChar ==
  ASSUME TypeOK, NEW c \in Char, cur_line' = Append(cur_line, c), UNCHANGED lines
  PROVE  Text' = Append(Text, c)
<1>1. Text' = FlattenSeq(TextsOf(lines)) \o Append(cur_line, c)
  BY DEF Text, TextsOf
<1>2. cur_line \in Seq(Char)
  BY DEF TypeOK
<1>3. QED
  BY <1>1, <1>2, TextType, ConcatAppend

\* A line is added: its text moves from the line in the making to the deque.
LEMMA TextOfPushLine ==
  ASSUME TypeOK, cur_line' = <<>>, NEW n \in Nat,
         lines' = Append(lines, [no |-> n, text |-> cur_line])
  PROVE  Text' = Text
<1> DEFINE l == [no |-> n, text |-> cur_line]
           f == FlattenSeq(TextsOf(lines))
<1>1. l \in Line /\ l.text = cur_line /\ cur_line \in Seq(Char) /\ lines \in Seq(Line)
  BY DEF TypeOK, Line
<1>2. Text' = FlattenSeq(TextsOf(Append(lines, l))) \o <<>>
  BY DEF Text, TextsOf
<1>3. TextsOf(Append(lines, l)) = Append(TextsOf(lines), cur_line)
  BY <1>1, TextsOfAppend
<1>4. FlattenSeq(Append(TextsOf(lines), cur_line)) = f \o cur_line
  BY <1>1, TextsType, FlattenSeqAppend
<1>5. f \in Seq(Char) /\ Text = f \o cur_line /\ Text \in Seq(Char)
  BY TextType
<1>6. Text \o <<>> = Text
  BY <1>5, ConcatEmptySeq
<1>7. QED
  BY <1>2, <1>3, <1>4, <1>5, <1>6

\* A line is dropped, and its text with it.
LEMMA TextOfTrim ==
  ASSUME TypeOK, lines # <<>>, lines' = Tail(lines), UNCHANGED cur_line
  PROVE  Text' \in Seq(Char) /\ \E u \in Seq(Char) : Text = u \o Text'
<1> DEFINE u == Head(TextsOf(lines))
           w == FlattenSeq(Tail(TextsOf(lines)))
<1>1. lines \in Seq(Line) /\ cur_line \in Seq(Char)
  BY DEF TypeOK
<1>2. /\ TextsOf(lines) \in Seq(Seq(Char)) /\ TextsOf(lines) # <<>>
      /\ TextsOf(Tail(lines)) = Tail(TextsOf(lines))
  BY <1>1, TextsType, TextsOfTail
<1>3. u \in Seq(Char) /\ Tail(TextsOf(lines)) \in Seq(Seq(Char))
  BY <1>2, HeadTailProperties
<1>4. w \in Seq(Char)
  BY <1>3, FlattenSeqType
<1>5. FlattenSeq(TextsOf(lines)) = u \o w
  BY <1>2, FlattenSeqHead
<1>6. Text' = w \o cur_line
  BY <1>2 DEF Text, TextsOf
<1>7. Text = (u \o w) \o cur_line
  BY <1>5, TextType
<1> HIDE DEF u, w
<1>8. \A a, b, c \in Seq(Char) : (a \o b) \o c = a \o (b \o c)
  BY ConcatAssociative
<1>9. (u \o w) \o cur_line = u \o (w \o cur_line)
  BY <1>1, <1>3, <1>4, <1>8
<1>10. w \o cur_line \in Seq(Char)
  BY <1>1, <1>4, ConcatProperties
<1>11. QED
  BY <1>3, <1>6, <1>7, <1>9, <1>10

-----------------------------------------------------------------------------
(* The steps keep the calls apart. *)

LEMMA InHandType ==
  ASSUME IInv
  PROVE  /\ InHand \in Seq(Char)
         /\ \A t \in Threads : pc[t] # "out" => InHand = str[t]
<1>1. InHand \in Seq(Char)
  BY EmptySeq DEF InHand, IInv, TypeOK
<1>2. ASSUME NEW t \in Threads, pc[t] # "out" PROVE InHand = str[t]
  BY <1>2, HolderStage, LogAssumption DEF InHand, IInv
<1>3. QED
  BY <1>1, <1>2

\* A call that does not end its line ends with a letter of Unended.
LEMMA CallsEnd ==
  ASSUME NEW h \in Calls
  PROVE  h \in Seq(Char) /\ (h # <<>> => Last(h) \in Unended \cup {NL})
<1>1. PICK p \in Programs, t \in Threads : h \in Range(p[t])
  BY DEF Calls
<1>2. p[t] \in Seq(Seq(Char))
  BY <1>1, LogAssumption
<1>3. h \in Seq(Char)
  BY <1>1, <1>2, RangeIsTyped
<1>4. Last(h) \in Unended \cup {NL}
  BY <1>1 DEF Unended
<1>5. QED
  BY <1>3, <1>4

\* Nothing new is in the text or about to be appended.
LEMMA StillToCome ==
  ASSUME CallsToCome, UNCHANGED todo,
         Range(Text') \cup Range(InHand') \subseteq Range(Text) \cup Range(InHand)
  PROVE  CallsToCome'
BY DEF CallsToCome, Distinct, LettersOf

LEMMA SameText ==
  ASSUME TextInv, UNCHANGED todo, Text' = Text, InHand' = InHand, Widths'
  PROVE  TextInv'
<1>1. CallsToCome'
  BY StillToCome DEF TextInv
<1>2. QED
  BY <1>1 DEF TextInv, Unmixed, MayFollow

\* The log and the text in hand are left alone.
LEMMA TextUntouched ==
  ASSUME TextInv, UNCHANGED <<todo, lines, cur_line>>, InHand' = InHand,
         Stage' \in {"count", "trim", "push"} => Len(cur_line) > 0
  PROVE  TextInv'
<1>1. Text' = Text
  BY DEF Text
<1>2. Widths'
  BY DEF TextInv, Widths
<1>3. QED
  BY <1>1, <1>2, SameText

LEMMA LockText ==
  ASSUME IInv, TextInv, NEW t \in Threads, Lock(t)
  PROVE  TextInv'
<1> DEFINE h == Head(todo[t])
<1>1. /\ todo[t] \in Seq(Seq(Char)) /\ todo[t] # <<>>
      /\ lines_mutex = Nobody /\ lines_mutex' = t
      /\ str' = [str EXCEPT ![t] = h]
      /\ todo' = [todo EXCEPT ![t] = Tail(todo[t])]
      /\ UNCHANGED <<cur_line, lines>>
  BY DEF IInv, TypeOK, Lock, Free
<1>2. /\ h \in Seq(Char) /\ h = todo[t][1] /\ 1 \in DOMAIN todo[t]
      /\ \A i \in DOMAIN Tail(todo[t]) :
           i \in Nat \ {0} /\ i + 1 \in DOMAIN todo[t] /\ Tail(todo[t])[i] = todo[t][i + 1]
  <2>1. /\ Tail(todo[t]) \in Seq(Seq(Char)) /\ Len(Tail(todo[t])) = Len(todo[t]) - 1
        /\ \A i \in 1..Len(Tail(todo[t])) : Tail(todo[t])[i] = todo[t][i + 1]
        /\ h \in Seq(Char) /\ h = todo[t][1]
    BY <1>1, HeadTailProperties
  <2>2. /\ Len(todo[t]) \in Nat \ {0} /\ DOMAIN todo[t] = 1..Len(todo[t])
        /\ DOMAIN Tail(todo[t]) = 1..(Len(todo[t]) - 1)
    BY <1>1, <2>1, LenProperties, EmptySeq
  <2>3. QED BY <2>1, <2>2
<1> HIDE DEF h
<1>3. InHand = <<>> /\ InHand' = h /\ Text' = Text
  BY <1>1, LogAssumption DEF InHand, Text, IInv, TypeOK
<1>4. \* A call of todo' is one of todo, but not h.
      ASSUME NEW u \in Threads, NEW i \in DOMAIN todo'[u]
      PROVE  \E j \in DOMAIN todo[u] :
               /\ todo'[u][i] = todo[u][j]
               /\ j = IF u = t THEN i + 1 ELSE i
               /\ ~(u = t /\ j = 1)
  <2>1. CASE u = t
    <3>1. todo'[u] = Tail(todo[t])
      BY <1>1, <2>1 DEF IInv, TypeOK
    <3>2. i \in Nat \ {0} /\ i + 1 \in DOMAIN todo[t] /\ todo'[u][i] = todo[t][i + 1]
      BY <1>2, <1>4, <3>1
    <3>3. i + 1 # 1
      BY <3>2
    <3>4. QED BY <2>1, <3>2, <3>3
  <2>2. CASE u # t
    <3>1. todo'[u] = todo[u]
      BY <1>1, <2>2 DEF IInv, TypeOK
    <3>2. QED BY <1>4, <2>2, <3>1
  <2>3. QED BY <2>1, <2>2
<1>5. CallsToCome
  BY DEF TextInv
<1>6. CallsToCome'
  <2>1. ASSUME NEW u \in Threads, NEW i \in DOMAIN todo'[u]
        PROVE  todo'[u][i] \in Calls
    BY <1>4, <1>5 DEF CallsToCome
  <2>2. ASSUME NEW u \in Threads, NEW v \in Threads,
               NEW i \in DOMAIN todo'[u], NEW j \in DOMAIN todo'[v],
               NEW x \in LettersOf(todo'[u][i]), NEW y \in LettersOf(todo'[v][j])
        PROVE  x = y <=> u = v /\ i = j
    <3>1. PICK a \in DOMAIN todo[u] : /\ todo'[u][i] = todo[u][a]
                                      /\ a = IF u = t THEN i + 1 ELSE i
      BY <1>4
    <3>2. PICK b \in DOMAIN todo[v] : /\ todo'[v][j] = todo[v][b]
                                      /\ b = IF v = t THEN j + 1 ELSE j
      BY <1>4
    <3>3. x \in LettersOf(todo[u][a]) /\ y \in LettersOf(todo[v][b])
      BY <2>2, <3>1, <3>2
    <3>4. Distinct(todo, u, a, v, b)
      BY <1>5, <3>1, <3>2 DEF CallsToCome
    <3>5. u = t => i \in Nat
      BY <1>1, <1>2 DEF IInv, TypeOK
    <3>6. v = t => j \in Nat
      BY <1>1, <1>2 DEF IInv, TypeOK
    <3>7. u = v => (a = b <=> i = j)
      BY <3>1, <3>2, <3>5, <3>6
    <3>8. QED BY <3>3, <3>4, <3>7 DEF Distinct, LettersOf
  <2>3. ASSUME NEW u \in Threads, NEW i \in DOMAIN todo'[u],
               NEW x \in LettersOf(todo'[u][i])
        PROVE  x \notin Range(Text') \cup Range(InHand')
    <3>1. PICK a \in DOMAIN todo[u] : todo'[u][i] = todo[u][a] /\ ~(u = t /\ a = 1)
      BY <1>4
    <3>2. x \in LettersOf(todo[u][a])
      BY <3>1
    <3>3. x \notin Range(Text)
      BY <1>5, <3>2 DEF CallsToCome
    <3>4. x \notin LettersOf(h)
      <4>1. Distinct(todo, u, a, t, 1)
        BY <1>2, <1>5, <3>1 DEF CallsToCome
      <4>2. QED BY <1>2, <3>1, <3>2, <4>1 DEF Distinct, LettersOf
    <3>5. x \notin Range(h)
      BY <3>2, <3>4 DEF LettersOf
    <3>6. QED BY <1>3, <3>3, <3>5
  <2>4. QED BY <2>1, <2>2, <2>3 DEF CallsToCome, Distinct, LettersOf
<1>7. MayFollow(h, Text)
  <2>1. h \in Calls /\ \A x, y \in LettersOf(h) : x = y
    <3>1. h \in Calls
      BY <1>2, <1>5 DEF CallsToCome
    <3>2. Distinct(todo, t, 1, t, 1)
      BY <1>2, <1>5 DEF CallsToCome
    <3>3. QED BY <1>2, <3>1, <3>2 DEF Distinct, LettersOf
  <2>2. LettersOf(h) \cap Range(Text) = {}
    BY <1>2, <1>5 DEF CallsToCome
  <2>3. h # <<>> => Last(h) \in Unended \cup {NL}
    BY <2>1, CallsEnd
  <2>4. Text \in Seq(Char)
    BY TextType DEF IInv
  <2>5. MayFollow(<<>>, Text)
    BY <1>3 DEF TextInv
  <2>6. QED BY <1>2, <2>1, <2>2, <2>3, <2>4, <2>5, CallBegins
<1>8. Widths'
  <2>1. Stage' = "in"
    BY LockGoes DEF IInv
  <2>2. QED BY <1>1, <2>1 DEF TextInv, Widths
<1>9. Unmixed(Text') /\ MayFollow(InHand', Text')
  BY <1>3, <1>7 DEF TextInv
<1>10. QED
  BY <1>6, <1>8, <1>9 DEF TextInv, Unmixed, MayFollow

LEMMA WrapText ==
  ASSUME IInv, TextInv, NEW t \in Threads, Wrap(t)
  PROVE  TextInv'
<1> USE DEF Wrap, shared
<1>1. pc[t] = "in" /\ UNCHANGED <<todo, lines, cur_line>> /\ InHand' = InHand
  BY DEF Goes, InHand
<1>2. Len(cur_line) > 0
  BY LogAssumption, LenProperties DEF IInv, TypeOK
<1>3. QED
  BY <1>1, <1>2, TextUntouched

LEMMA PushCharText ==
  ASSUME IInv, TextInv, NEW t \in Threads, PushChar(t)
  PROVE  TextInv'
<1> DEFINE h == str[t]
           c == Head(h)
<1>1. /\ pc[t] = "in" /\ h # <<>> /\ h \in Seq(Char)
      /\ Len(cur_line) <= m_width
      /\ cur_line' = Append(cur_line, c)
      /\ str' = [str EXCEPT ![t] = Tail(h)]
      /\ UNCHANGED <<todo, lines_mutex, lines>>
  BY DEF PushChar, Goes, IInv, TypeOK
<1>2. lines_mutex = t /\ InHand = h /\ InHand' = Tail(h)
  <2>1. lines_mutex = t
    BY <1>1, HolderStage DEF IInv
  <2>2. t # Nobody
    BY LogAssumption
  <2>3. str'[t] = Tail(h)
    BY <1>1 DEF IInv, TypeOK
  <2>4. QED BY <1>1, <2>1, <2>2, <2>3 DEF InHand
<1>3. /\ c \in Range(h) /\ c \in Char
      /\ Tail(h) \in Seq(Char) /\ Range(Tail(h)) \subseteq Range(h)
  BY <1>1, RangeOfTail
<1>4. Text' = Append(Text, c) /\ Text \in Seq(Char)
  BY <1>1, <1>3, TextOfPushChar, TextType DEF IInv
<1>5. Range(Text') = Range(Text) \cup {c}
  BY <1>3, <1>4, RangeOfAppend
<1>6. CallsToCome'
  BY <1>1, <1>2, <1>3, <1>5, StillToCome DEF TextInv
<1>7. Unmixed(Append(Text, c)) /\ MayFollow(Tail(h), Append(Text, c))
  BY <1>1, <1>2, <1>4, CallGoesOn DEF TextInv
<1>8. Widths'
  <2>1. Len(cur_line) \in Nat /\ Len(cur_line') = Len(cur_line) + 1 /\ m_width \in Nat
    BY <1>1, <1>3, AppendProperties, LenProperties, LogAssumption DEF IInv, TypeOK
  <2>2. Len(cur_line') <= m_width + 1 /\ Len(cur_line') > 0
    BY <1>1, <2>1
  <2>3. QED BY <1>1, <2>2 DEF TextInv, Widths
<1>9. QED
  BY <1>2, <1>4, <1>6, <1>7, <1>8 DEF TextInv, Unmixed, MayFollow

LEMMA UnlockText ==
  ASSUME IInv, TextInv, NEW t \in Threads, Unlock(t)
  PROVE  TextInv'
<1>1. /\ pc[t] = "in" /\ str[t] = <<>> /\ lines_mutex' = Nobody
      /\ UNCHANGED <<todo, lines, cur_line>>
  BY DEF Unlock, Unlocked, Goes
<1>2. InHand = str[t]
  BY <1>1, InHandType
<1>3. InHand' = <<>> /\ Stage' = "out"
  BY <1>1 DEF InHand, Stage
<1>4. QED
  BY <1>1, <1>2, <1>3, TextUntouched

LEMMA CountLineText ==
  ASSUME IInv, TextInv, NEW t \in Threads, CountLine(t)
  PROVE  TextInv'
<1>1. pc[t] = "count" /\ UNCHANGED <<todo, lines, cur_line, str, lines_mutex>>
  BY DEF CountLine, Goes
<1>2. Stage = "count"
  BY <1>1, HolderStage DEF IInv
<1>3. Len(cur_line) > 0
  BY <1>2 DEF TextInv, Widths
<1>4. QED
  BY <1>1, <1>3, TextUntouched DEF InHand

LEMMA TrimLinesText ==
  ASSUME IInv, TextInv, NEW t \in Threads, TrimLines(t)
  PROVE  TextInv'
<1>1. /\ pc[t] = "trim" /\ UNCHANGED <<todo, cur_line, str, lines_mutex>>
      /\ lines' = IF Len(lines) > m_height THEN Tail(lines) ELSE lines
  BY DEF TrimLines, Shortened, Goes
<1>2. Len(cur_line) > 0
  <2>1. Stage = "trim"
    BY <1>1, HolderStage DEF IInv
  <2>2. QED BY <2>1 DEF TextInv, Widths
<1>3. InHand' = InHand
  BY <1>1 DEF InHand
<1>4. CASE Len(lines) > m_height
  <2>1. lines' = Tail(lines) /\ lines \in Seq(Line) /\ lines # <<>>
    <3>1. Len(lines) # 0
      BY <1>4, LogAssumption, LenProperties DEF IInv, TypeOK
    <3>2. QED BY <1>1, <1>4, <3>1, EmptySeq DEF IInv, TypeOK
  <2>2. PICK u \in Seq(Char) : Text = u \o Text'
    BY <1>1, <2>1, TextOfTrim DEF IInv
  <2>3. Text' \in Seq(Char)
    BY <1>1, <2>1, TextOfTrim DEF IInv
  <2>4. Unmixed(u \o Text') /\ MayFollow(InHand, u \o Text')
    BY <2>2 DEF TextInv
  <2>5. /\ Unmixed(Text') /\ MayFollow(InHand, Text')
        /\ Range(Text') \subseteq Range(u \o Text')
    BY <2>2, <2>3, <2>4, CallsLeave
  <2>6. CallsToCome'
    BY <1>1, <1>3, <2>2, <2>5, StillToCome DEF TextInv
  <2>7. Widths'
    <3>1. /\ Len(lines) \in Nat \ {0} /\ DOMAIN lines = 1..Len(lines)
          /\ DOMAIN Tail(lines) = 1..(Len(lines) - 1)
          /\ \A i \in 1..(Len(lines) - 1) : Tail(lines)[i] = lines[i + 1]
      BY <2>1, HeadTailProperties, LenProperties, EmptySeq
    <3>2. ASSUME NEW i \in DOMAIN Tail(lines)
          PROVE  i + 1 \in DOMAIN lines /\ Tail(lines)[i] = lines[i + 1]
      BY <3>1
    <3>3. \A i \in DOMAIN lines' : Len(lines'[i].text) \in 1..(m_width + 1)
      BY <2>1, <3>2 DEF TextInv, Widths
    <3>4. QED BY <1>1, <1>2, <3>3 DEF TextInv, Widths
  <2>8. QED BY <1>3, <2>5, <2>6, <2>7 DEF TextInv, Unmixed, MayFollow
<1>5. CASE ~(Len(lines) > m_height)
  BY <1>1, <1>2, <1>3, <1>5, TextUntouched
<1>6. QED
  BY <1>4, <1>5

LEMMA PushLineText ==
  ASSUME IInv, TextInv, NEW t \in Threads, PushLine(t)
  PROVE  TextInv'
<1> DEFINE new == [no |-> recorded_lines_count, text |-> cur_line]
<1>1. /\ pc[t] = "push" /\ UNCHANGED <<todo, str, lines_mutex>>
      /\ lines' = Append(lines, new) /\ cur_line' = <<>>
  BY DEF PushLine, Goes
<1>2. InHand' = InHand
  BY <1>1 DEF InHand
<1>3. /\ recorded_lines_count \in Nat /\ cur_line \in Seq(Char) /\ lines \in Seq(Line)
      /\ TypeOK
  BY DEF IInv, TypeOK
<1>4. Text' = Text
  BY <1>1, <1>3, TextOfPushLine
<1>5. Len(cur_line) \in 1..(m_width + 1)
  <2>1. Stage = "push"
    BY <1>1, HolderStage DEF IInv
  <2>2. Len(cur_line) \in Nat
    BY <1>3, LenProperties
  <2>3. m_width \in Nat
    BY LogAssumption
  <2>4. QED BY <2>1, <2>2, <2>3 DEF TextInv, Widths
<1>6. Widths'
  <2>1. new \in Line /\ new.text = cur_line
    BY <1>3 DEF Line
  <2>2. /\ DOMAIN lines' = 1..(Len(lines) + 1) /\ Len(lines) \in Nat
        /\ DOMAIN lines = 1..Len(lines)
        /\ \A i \in 1..Len(lines) : lines'[i] = lines[i]
        /\ lines'[Len(lines) + 1] = new
    <3> HIDE DEF new
    <3>1. QED BY <1>1, <1>3, <2>1, AppendProperties, LenProperties
  <2>3. ASSUME NEW i \in DOMAIN lines'
        PROVE  Len(lines'[i].text) \in 1..(m_width + 1)
    <3>1. CASE i = Len(lines) + 1
      BY <1>5, <2>1, <2>2, <3>1
    <3>2. CASE i # Len(lines) + 1
      <4>1. i \in DOMAIN lines /\ lines'[i] = lines[i]
        BY <2>2, <3>2
      <4>2. QED BY <4>1 DEF TextInv, Widths
    <3>3. QED BY <3>1, <3>2
  <2>4. Len(cur_line') = 0 /\ m_width \in Nat
    BY <1>1, EmptySeq, LogAssumption
  <2>5. Stage' \notin {"count", "trim", "push"}
    BY <1>1, <1>3, HolderGoes DEF IInv, PushLine
  <2>6. Len(cur_line') <= m_width + 1
    BY <2>4
  <2>7. QED BY <2>3, <2>5, <2>6 DEF Widths
<1>7. QED
  BY <1>1, <1>2, <1>4, <1>6, SameText

-----------------------------------------------------------------------------

LEMMA InitText == Init => TextInv
<1> SUFFICES ASSUME Init PROVE TextInv
  OBVIOUS
<1>1. PICK p \in Programs : todo = p
  BY DEF Init
<1>2. /\ lines = <<>> /\ cur_line = <<>> /\ lines_mutex = Nobody
      /\ InHand = <<>> /\ Stage = "out" /\ Len(cur_line) = 0
  BY EmptySeq DEF Init, InHand, Stage
<1>3. TypeOK
  BY InitInvariant DEF IInv
<1>4. Text = <<>>
  <2>1. TextsOf(lines) \in Seq(Seq(Char)) /\ Len(TextsOf(lines)) = 0
    BY <1>2, <1>3, TextsType, EmptySeq DEF TypeOK
  <2>2. TextsOf(lines) = <<>>
    BY <2>1, EmptySeq
  <2>3. FlattenSeq(TextsOf(lines)) = <<>>
    BY <2>1, <2>2 DEF FlattenSeq
  <2>4. Text = <<>> \o <<>>
    BY <1>2, <1>3, <2>3, TextType
  <2>5. QED BY <2>4, ConcatEmptySeq, EmptySeq
<1>5. Range(Text) = {} /\ Range(InHand) = {} /\ DOMAIN Text = {}
  BY <1>2, <1>4 DEF Range
<1>6. CallsToCome
  <2>1. ASSUME NEW t \in Threads, NEW i \in DOMAIN todo[t] PROVE todo[t][i] \in Calls
    <3>1. todo[t][i] \in Range(p[t])
      BY <1>1 DEF Range
    <3>2. QED BY <1>1, <3>1 DEF Calls
  <2>2. ASSUME NEW t \in Threads, NEW u \in Threads,
               NEW i \in DOMAIN todo[t], NEW j \in DOMAIN todo[u]
        PROVE  Distinct(todo, t, i, u, j)
    BY <1>1, LetterAssumption
  <2>3. QED BY <1>5, <2>1, <2>2 DEF CallsToCome
<1>7. Unmixed(Text) /\ MayFollow(InHand, Text)
  BY <1>2, <1>4, <1>5 DEF Unmixed, MayFollow, LettersOf
<1>8. Widths
  BY <1>2, LogAssumption DEF Widths
<1>9. QED
  BY <1>6, <1>7, <1>8 DEF TextInv

LEMMA NextText == IInv /\ TextInv /\ [Next]_vars => TextInv'
<1> SUFFICES ASSUME IInv, TextInv, [Next]_vars PROVE TextInv'
  OBVIOUS
<1>1. CASE UpdateLog \/ set_quit \/ UNCHANGED vars
  <2>1. UNCHANGED appendVars
    BY <1>1 DEF UpdateLog, Start, Loop, Poll, Clear, CheckSize, LookBack, Take,
       PrintLine, DrawStep, set_quit, vars
  <2>2. UNCHANGED <<todo, lines, cur_line>> /\ InHand' = InHand /\ Stage' = Stage
    BY <2>1 DEF appendVars, shared, InHand, Stage
  <2>3. Stage \in {"count", "trim", "push"} => Len(cur_line) > 0
    BY DEF TextInv, Widths
  <2>4. QED BY <2>2, <2>3, TextUntouched
<1>2. ASSUME NEW t \in Threads, Lock(t) \/ AppendStep(t)
      PROVE  TextInv'
  BY <1>2, LockText, WrapText, PushCharText, UnlockText, CountLineText,
     TrimLinesText, PushLineText
  DEF AppendStep
<1>3. QED
  BY <1>1, <1>2 DEF Next

\* Whatever the threads append, the text of a call stays together; only after a
\* call that did not end its line may another follow on it.  No line is longer
\* than the width allows, and none is empty.  (append_log, add_line.)
THEOREM CallsStayTogether == Spec => []CallsAreNotMixed
<1>1. IInv /\ TextInv => CallsAreNotMixed
  BY DEF TextInv, Unmixed, Widths, CallsAreNotMixed
<1>2. Spec => [](IInv /\ TextInv)
  BY InitInvariant, NextInvariant, InitText, NextText, PTL DEF Spec
<1>3. QED
  BY <1>1, <1>2, PTL
=============================================================================
