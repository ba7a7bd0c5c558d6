------------------------------ MODULE IoContext ------------------------------
(***************************************************************************)
(* What scft-srv/main.cpp and scft-clt/main.cpp have in common: an         *)
(* io_context that outlives the objects whose handlers wait in it, one     *)
(* thread that runs it, and the shell thread that starts, stops, joins and *)
(* restarts both.  ServerLife and Client extend this module.               *)
(*                                                                         *)
(* Handlers wait in the order they became ready and stay there when the    *)
(* io_context stops and restarts, with the this they captured.  A handler  *)
(* of a destroyed object is undefined behaviour, and nothing is said of    *)
(* what follows; process also tells in which thread an exception ended the *)
(* program.                                                                *)
(***************************************************************************)
EXTENDS Integers, SequencesExt, Completions

CONSTANT Object \* what handlers refer to: the server, its members, a client

VARIABLES
  process, \* "up", "shell threw", "io threw", "undefined" or "exited"
  shell,   \* where the shell thread is; "prompt", "stop" and "quit" are here
  thread,  \* the io thread: "none", "running" or "returned"
  stopped, \* the io_context is stopped
  ready,   \* handlers waiting in the io_context, oldest first
  obj,     \* obj[k]: the life of an object
  ops      \* ops[k]: how many operations of each kind are outstanding

ioVars == <<process, shell, thread, stopped, ready, obj, ops>>

Up == process = "up"
Running == Up /\ thread = "running" /\ ~stopped
AtPrompt == Up /\ shell = "prompt"

IoInit ==
  /\ process = "up"
  /\ shell = "prompt"
  /\ thread = "none"
  /\ stopped = FALSE
  /\ ready = <<>>
  /\ obj = [k \in Object |-> "none"]
  /\ ops = [k \in Object |-> [op \in Kind |-> 0]]

IoTypeOK ==
  /\ process \in {"up", "shell threw", "io threw", "undefined", "exited"}
  /\ thread \in {"none", "running", "returned"}
  /\ stopped \in BOOLEAN
  /\ obj \in [Object -> {"none", "live", "freed"}]
  /\ ops \in [Object -> [Kind -> 0..1]]

\* The operations of k of one kind that run or whose handler waits.
Outstanding(op, k) == ops[k][op] + HandlersWaiting(ready, op, k)

-----------------------------------------------------------------------------
(* Operations. *)

Aborted(k) == AbortedOf(ops[k], k)

\* The sockets of the objects in ks are closed, one after the other: what is
\* outstanding on them is aborted, and its handlers wait.
Ended(ks) ==
  [k \in Object |-> IF k \in Range(ks) THEN [op \in Kind |-> 0] ELSE ops[k]]

AbortedHandlers(ks) == FlattenSeq([i \in DOMAIN ks |-> Aborted(ks[i])])

\* The io thread, in run(), picks up what the kernel has done.
Completes(op, k, result) ==
  /\ Running
  /\ ops[k][op] > 0
  /\ ops' = [ops EXCEPT ![k][op] = @ - 1]
  /\ ready' = Append(ready, Completion(op, k, result))
  /\ UNCHANGED <<process, shell, thread, stopped, obj>>

-----------------------------------------------------------------------------
(* The io thread. *)

\* The oldest handler, of kind do and object k, is taken from the queue.
Runs(do, k) ==
  /\ Running
  /\ ready # <<>>
  /\ Head(ready).do = do
  /\ Head(ready).of = k
  /\ obj[k] = "live"
  /\ UNCHANGED <<shell, thread, stopped>>

ec == Head(ready).ec

\* Every handler left behind by a destroyed object begins with its this.
StaleHandler ==
  /\ Running
  /\ ready # <<>>
  /\ obj[Head(ready).of] = "freed"
  /\ process' = "undefined"
  /\ UNCHANGED <<shell, thread, stopped, ready, obj, ops>>

\* Nothing waits in the io_context and nothing is outstanding.
NoWork == ready = <<>> /\ \A k \in Object, op \in Kind : ops[k][op] = 0

\* Mutant: run() ends only when everything outstanding has come to an end.
Finished_OnlyIdle == NoWork

Finished == stopped \/ NoWork

\* run() returns when it is told to stop or has nothing left to wait for; in
\* both cases the io_context is stopped.
RunReturns ==
  /\ Up
  /\ thread = "running"
  /\ Finished
  /\ thread' = "returned"
  /\ stopped' = TRUE
  /\ UNCHANGED <<process, shell, ready, obj, ops>>

-----------------------------------------------------------------------------
(* The shell thread. *)

\* An object was constructed with operation op under way: the io thread starts.
Starts(op, k) ==
  /\ AtPrompt
  /\ obj' = [obj EXCEPT ![k] = "live"]
  /\ ops' = [ops EXCEPT ![k][op] = 1]
  /\ thread' = "running"
  /\ UNCHANGED <<process, shell, stopped, ready>>

Throws ==
  /\ process' = "shell threw"
  /\ UNCHANGED <<shell, thread, stopped, ready, obj, ops>>

\* m_io_ctx.stop(), by the command to = "stop", or by "quit".
Stops(to) ==
  /\ AtPrompt
  /\ stopped' = TRUE
  /\ shell' = to
  /\ UNCHANGED <<process, thread, ready, obj, ops>>

\* Mutant: the io_context is not restarted.
Restarted_Not == stopped

\* m_io_ctx.restart()
Restarted == FALSE

\* Nothing takes a handler out of the io_context when the objects ks go.
Left(ks) == ready \o AbortedHandlers(ks)

\* The io thread is joined, the objects ks destroyed and the io_context
\* restarted, while nothing runs in it.
Joins(ks) ==
  /\ Up
  /\ shell \in {"stop", "quit"}
  /\ thread = "returned"
  /\ thread' = "none"
  /\ obj' = [k \in Object |-> IF k \in Range(ks) THEN "freed" ELSE obj[k]]
  /\ ops' = Ended(ks)
  /\ ready' = Left(ks)
  /\ stopped' = Restarted
  /\ shell' = "prompt"
  /\ process' = IF shell = "quit" THEN "exited" ELSE process

\* The user quits, and there is nothing to stop.
Exits ==
  /\ AtPrompt
  /\ process' = "exited"
  /\ UNCHANGED <<shell, thread, stopped, ready, obj, ops>>

-----------------------------------------------------------------------------
\* What the proofs about ServerLife and Client count: nearly every step leaves it
\* alone, for what it takes from the operations it adds to the handlers.
pending == [k \in Object |-> [op \in Kind |-> Outstanding(op, k)]]
=============================================================================
