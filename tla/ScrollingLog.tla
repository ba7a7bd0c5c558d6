---------------------------- MODULE ScrollingLog ----------------------------
(***************************************************************************)
(* The scrolling log and the thread that draws it (scrolling_log.cpp,      *)
(* basic_shell.cpp show_log, main.cpp update_log of both programs).  The   *)
(* shell and the io thread append under lines_mutex; the update_log thread *)
(* reads recorded_lines_count and the deque of lines without taking it,    *)
(* until the shell sets quit and joins it.                                 *)
(*                                                                         *)
(* Each access of a thread to the shared deque or counter is a step.  What *)
(* an append does to cur_line, which only the holder of the mutex touches, *)
(* goes one character at a time.                                           *)
(***************************************************************************)
EXTENDS Integers, SequencesExt, FiniteSetsExt

CONSTANTS
  Threads,  \* the threads that append
  Shell,    \* the one that may quit
  Letters,  \* what texts are made of; a letter belongs to one call
  Programs, \* program[t]: the texts t passes to append_log, one after the other
  NL,       \* the character '\n'
  m_width,
  m_height

Nobody == "nobody"

Char == Letters \cup {NL}

ASSUME LogAssumption ==
  /\ Programs \subseteq [Threads -> Seq(Seq(Char))]
  /\ NL \notin Letters
  /\ Shell \in Threads
  /\ Nobody \notin Threads
  \* scrolling_log.cpp:15 throws otherwise
  /\ m_width \in Nat \ {0}
  /\ m_height \in Nat \ {0}

\* The letters of call i of t and of call j of u tell the one from the other.
Distinct(calls, t, i, u, j) ==
  \A x \in Range(calls[t][i]) \ {NL}, y \in Range(calls[u][j]) \ {NL} :
    x = y <=> t = u /\ i = j

\* A letter stands for the call it comes from.
ASSUME LetterAssumption ==
  \A p \in Programs : \A t, u \in Threads : \A i \in DOMAIN p[t], j \in DOMAIN p[u] :
    Distinct(p, t, i, u, j)

VARIABLES
  todo,        \* todo[t]: the calls of t that have not begun
  lines_mutex, \* its holder
  pc,          \* pc[t]: outside, in append_log, or at a step of add_line
  str,         \* str[t]: what t has still to append of its text
  cur_line,
  recorded_lines_count,
  lines,       \* the deque; a line carries its number, counted from 1
  process,     \* "running", "terminated" or "undefined"
  quit,        \* set by the command quit; a plain bool
  drawing,     \* where update_log is
  first_count, \* the count it found when it started
  rec_line_count,
  index,       \* loop variable of show_log
  line,        \* number of the line that at(index) refers to
  screen       \* numbers of the lines drawn since the last clear

shared     == <<lines_mutex, cur_line, recorded_lines_count, lines>>
appendVars == <<todo, pc, str, shared>>
drawVars   == <<drawing, first_count, rec_line_count, index, line, screen>>
vars       == <<appendVars, process, quit, drawVars>>

Line == [no : Nat, text : Seq(Char)]

Running == process = "running"

Init ==
  /\ todo \in Programs
  /\ lines_mutex = Nobody
  /\ pc = [t \in Threads |-> "out"]
  /\ str = [t \in Threads |-> <<>>]
  /\ cur_line = <<>>
  /\ recorded_lines_count = 0
  /\ lines = <<>>
  /\ process = "running"
  /\ quit = FALSE
  /\ drawing = "start"
  /\ first_count = 0
  /\ rec_line_count = 0
  /\ index = 0
  /\ line = 0
  /\ screen = <<>>

-----------------------------------------------------------------------------
(* append_log and add_line. *)

\* Thread t goes from one program point to another.
Goes(t, from, to) ==
  /\ Running
  /\ pc[t] = from
  /\ pc' = [pc EXCEPT ![t] = to]
  /\ UNCHANGED <<process, quit, drawVars>>

\* Mutant: append_log does not wait for the mutex.
Free_Always == TRUE

Free == lines_mutex = Nobody

Lock(t) ==
  /\ todo[t] # <<>>
  /\ Free
  /\ Goes(t, "out", "in")
  /\ lines_mutex' = t
  /\ str' = [str EXCEPT ![t] = Head(todo[t])]
  /\ todo' = [todo EXCEPT ![t] = Tail(@)]
  /\ UNCHANGED <<cur_line, recorded_lines_count, lines>>

\* The line is full: it is added before the next character is looked at.
Wrap(t) ==
  /\ str[t] # <<>>
  /\ Len(cur_line) > m_width
  /\ Goes(t, "in", "count")
  /\ UNCHANGED <<todo, str, shared>>

PushChar(t) ==
  /\ str[t] # <<>>
  /\ Len(cur_line) <= m_width
  /\ Goes(t, "in", IF Head(str[t]) = NL THEN "count" ELSE "in")
  /\ cur_line' = Append(cur_line, Head(str[t]))
  /\ str' = [str EXCEPT ![t] = Tail(@)]
  /\ UNCHANGED <<todo, lines_mutex, recorded_lines_count, lines>>

\* Mutant: the mutex stays locked.
Unlocked_Not == lines_mutex

Unlocked == Nobody

Unlock(t) ==
  /\ str[t] = <<>>
  /\ Goes(t, "in", "out")
  /\ lines_mutex' = Unlocked
  /\ UNCHANGED <<todo, str, cur_line, recorded_lines_count, lines>>

CountLine(t) ==
  /\ Goes(t, "count", "trim")
  /\ recorded_lines_count' = recorded_lines_count + 1
  /\ UNCHANGED <<todo, str, lines_mutex, cur_line, lines>>

\* Mutant: the newest line makes room instead of the oldest.
Shortened_Back == Front(lines)

Shortened == Tail(lines)

TrimLines(t) ==
  /\ Goes(t, "trim", "push")
  /\ lines' = IF Len(lines) > m_height THEN Shortened ELSE lines
  /\ UNCHANGED <<todo, str, lines_mutex, cur_line, recorded_lines_count>>

PushLine(t) ==
  /\ Goes(t, "push", "in")
  /\ lines' = Append(lines, [no |-> recorded_lines_count, text |-> cur_line])
  /\ cur_line' = <<>>
  /\ UNCHANGED <<todo, str, lines_mutex, recorded_lines_count>>

-----------------------------------------------------------------------------
(* update_log and show_log, on a thread of their own. *)

\* The drawing thread goes from one program point to another.
DrawStep(from, to) ==
  /\ Running
  /\ drawing = from
  /\ drawing' = to
  /\ UNCHANGED <<appendVars, quit>>

Start ==
  /\ DrawStep("start", "loop")
  /\ first_count' = recorded_lines_count
  /\ rec_line_count' = recorded_lines_count
  /\ UNCHANGED <<process, index, line, screen>>

\* Mutant: quit is not looked at.
Leaves_Not == FALSE

Leaves == quit

Loop ==
  /\ DrawStep("loop", IF Leaves THEN "done" ELSE "poll")
  /\ UNCHANGED <<process, first_count, rec_line_count, index, line, screen>>

\* Mutant: a single line more is not noticed.
Unseen_Two == recorded_lines_count > rec_line_count + 1

\* The counter differs from the one last seen.
Unseen == rec_line_count # recorded_lines_count

Poll ==
  /\ DrawStep("poll", IF Unseen THEN "clear" ELSE "loop")
  /\ UNCHANGED <<process, first_count, rec_line_count, index, line, screen>>

\* Mutant: the loop starts with the last line.
FirstIndex_Last == Len(lines) - 1

FirstIndex == 0

\* Mutant: what was on the screen is not cleared.
Cleared_Not == screen

Cleared == <<>>

\* The counter is read again, the screen cleared and show_log called.
Clear ==
  /\ DrawStep("clear", "size")
  /\ rec_line_count' = recorded_lines_count
  /\ screen' = Cleared
  /\ index' = FirstIndex
  /\ UNCHANGED <<process, first_count, line>>

CheckSize ==
  /\ DrawStep("size", IF index < Len(lines) THEN "back" ELSE "loop")
  /\ UNCHANGED <<process, first_count, rec_line_count, index, line, screen>>

\* std::deque::at throws, and the exception leaves the thread, when the deque
\* has become shorter than it was in CheckSize.
at_throws == index >= Len(lines)

\* at(index).back(), then at(index) once more for the line to print.
LookBack ==
  /\ DrawStep("back", "at")
  /\ process' = IF at_throws THEN "terminated" ELSE process
  /\ UNCHANGED <<first_count, rec_line_count, index, line, screen>>

Take ==
  /\ DrawStep("at", "print")
  /\ process' = IF at_throws THEN "terminated" ELSE process
  /\ line' = IF at_throws THEN line ELSE lines[index + 1].no
  /\ UNCHANGED <<first_count, rec_line_count, index, screen>>

\* Printing a line that was destroyed meanwhile reads freed memory.
PrintLine ==
  /\ DrawStep("print", "size")
  /\ process' = IF \E i \in DOMAIN lines : lines[i].no = line
                THEN process ELSE "undefined"
  /\ screen' = Append(screen, line)
  /\ index' = index + 1
  /\ UNCHANGED <<first_count, rec_line_count, line>>

-----------------------------------------------------------------------------
(* The command quit; after it the shell logs at most that it stopped. *)

set_quit ==
  /\ Running
  /\ ~quit
  /\ pc[Shell] = "out"
  /\ Len(todo[Shell]) <= 1
  /\ quit' = TRUE
  /\ UNCHANGED <<appendVars, process, drawVars>>

-----------------------------------------------------------------------------
AppendStep(t) ==
  \/ Wrap(t) \/ PushChar(t) \/ Unlock(t)
  \/ CountLine(t) \/ TrimLines(t) \/ PushLine(t)

UpdateLog == Start \/ Loop \/ Poll \/ Clear \/ CheckSize \/ LookBack \/ Take \/ PrintLine

Next == (\E t \in Threads : Lock(t) \/ AppendStep(t)) \/ UpdateLog \/ set_quit

Spec == Init /\ [][Next]_vars

(***************************************************************************)
(* The scheduler runs every thread; a mutex that is taken and released      *)
(* again and again is eventually granted.                                  *)
(***************************************************************************)
Fairness ==
  /\ \A t \in Threads : SF_vars(Lock(t)) /\ WF_vars(AppendStep(t))
  /\ WF_vars(UpdateLog)

LiveSpec == Spec /\ Fairness

-----------------------------------------------------------------------------
(* Properties. *)

TypeOK ==
  /\ todo \in [Threads -> Seq(Seq(Char))]
  /\ lines_mutex \in Threads \cup {Nobody}
  /\ pc \in [Threads -> {"out", "in", "count", "trim", "push"}]
  /\ str \in [Threads -> Seq(Char)]
  /\ cur_line \in Seq(Char)
  /\ recorded_lines_count \in Nat
  /\ lines \in Seq(Line)
  /\ process \in {"running", "terminated", "undefined"}
  /\ quit \in BOOLEAN
  /\ drawing \in {"start", "loop", "poll", "done", "clear", "size", "back", "at", "print"}
  /\ first_count \in 0..rec_line_count
  /\ rec_line_count \in 0..recorded_lines_count
  /\ index \in Nat
  /\ line \in Nat
  /\ screen \in Seq(Nat)

\* Between two appends the deque holds the most recent lines, in order and
\* without gap: all of them, or at least m_height.  (scrolling_log.cpp:43-49.)
KeepsTheLatest ==
  lines_mutex = Nobody =>
    /\ Len(lines) >= m_height \/ Len(lines) = recorded_lines_count
    /\ \A i \in DOMAIN lines :
         lines[i].no = recorded_lines_count - Len(lines) + i

\* The log keeps to its height.  (scrolling_log.hpp: height is the "Maximum
\* number of the lines".)
KeepsToTheHeight == Len(lines) <= m_height

\* A line keeps to the width.  (scrolling_log.hpp: width is the "Number of
\* character to considers as full line".)
KeepsToTheWidth ==
  \A i \in DOMAIN lines : Len(SelectSeq(lines[i].text, LAMBDA ch : ch # NL)) <= m_width

\* The last letters of the calls that do not end their line: parts of a message
\* a client receives.  (client.cpp:99-103.)
Unended ==
  {Last(call) : call \in UNION {Range(p[t]) : p \in Programs, t \in Threads}} \ {NL}

\* The text of the log, from the first line kept to the line in the making.
Text == FlattenSeq([i \in DOMAIN lines |-> lines[i].text]) \o cur_line

\* The text of one call stays together, whatever the other threads append; only
\* a call that did not end its line is followed by another on that line, which
\* may be another thread's.  No line is empty, and none has more than one
\* character above the width, a line break included.  (scrolling_log.cpp:23-41.)
CallsAreNotMixed ==
  /\ \A i, k \in DOMAIN Text : i < k /\ Text[i] = Text[k] /\ Text[i] # NL =>
       \A j \in i..k : Text[j] \in {Text[i], NL}
  /\ \A i \in DOMAIN Text : i > 1 /\ NL \notin {Text[i - 1], Text[i]} =>
       Text[i - 1] = Text[i] \/ Text[i - 1] \in Unended
  /\ \A i \in DOMAIN lines : Len(lines[i].text) \in 1..(m_width + 1)

\* Whatever is appended while the screen is drawn, no line is drawn twice and
\* none after a later one.  (basic_shell.cpp:133-145.)
DrawnInOrder ==
  \A i, j \in DOMAIN screen : i < j => screen[i] < screen[j]

\* Every call of append_log returns, unless the process ends.
EverythingIsAppended ==
  <>(~Running \/ \A t \in Threads : todo[t] = <<>> /\ pc[t] = "out")

\* The lines of the log that are not on the screen.
Missing == {lines[i].no : i \in DOMAIN lines} \ Range(screen)

\* When nothing is appended any more the screen shows the log, but for the
\* last line and one other: the count is read before a line is added, and a
\* line is skipped when the first is removed while the screen is drawn.  What
\* was logged before the drawing thread started is drawn with the next line.
\* (scrolling_log.cpp:45, update_log, show_log.)
ScreenCatchesUp ==
  <>[](\/ ~Running \/ quit
       \/ recorded_lines_count = first_count
       \/ Cardinality(Missing \ {recorded_lines_count}) <= 1)

\* The screen comes to show the log.  (basic_shell.hpp: show_log does "Show log".)
ScreenShowsTheLog ==
  <>[](\/ ~Running \/ quit
       \/ recorded_lines_count = first_count
       \/ Missing = {})

\* Showing the log does not end the process.  (basic_shell.hpp: show_log does
\* "Show log".)
ShowingIsHarmless == [][UpdateLog => Running']_vars

\* quit ends the drawing thread, which the shell joins.  (main.cpp, run and
\* update_log.)
DrawingEnds == quit ~> drawing = "done" \/ ~Running
=============================================================================
