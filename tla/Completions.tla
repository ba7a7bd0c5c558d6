---------------------------- MODULE Completions -----------------------------
(***************************************************************************)
(* The asynchronous operations of boost::asio and the handlers of those    *)
(* that have finished, as they wait in an io_context.                      *)
(***************************************************************************)
EXTENDS Integers, SequencesExt

Kind == {"accept", "connect", "read", "write"}

\* The handler of an operation of k.
Completion(op, k, result) == [do |-> op, of |-> k, ec |-> result]

\* How many handlers in queue are of operations of k of one kind.
HandlersWaiting(queue, op, k) ==
  Cardinality({i \in DOMAIN queue : queue[i].do = op /\ queue[i].of = k})

\* The handlers that closing the socket of k leaves, if running[op] operations of
\* each kind run on it.
AbortedOf(running, k) ==
  LET each(op) == [i \in 1..running[op] |-> Completion(op, k, "error")]
  IN  each("accept") \o each("read") \o each("connect") \o each("write")
=============================================================================
