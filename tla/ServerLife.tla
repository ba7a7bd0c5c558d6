----------------------------- MODULE ServerLife -----------------------------
(***************************************************************************)
(* The commands start and stop of the server program (scft-srv/main.cpp),  *)
(* over the life of several server objects, which use one io_context in    *)
(* turn (IoContext).                                                       *)
(*                                                                         *)
(* Room has the detail of what one server does.  Here its handlers do what *)
(* matters to its end: they start operations, and objects come and go.  A  *)
(* message is not told from another, and a queue not from one of another   *)
(* length: a write may or may not be followed by the next.                 *)
(***************************************************************************)
EXTENDS IoContext, FiniteSetsExt

CONSTANTS
  MaxServers, \* bound: the server objects constructed
  Conns,      \* the connections, which are also the members made of them
  Resettable, \* those whose peer may reset
  MayFail     \* whether the constructor of server may throw

Server == 1..MaxServers

ASSUME ServerLifeAssumption ==
  /\ MaxServers \in Nat
  /\ Object = Server \cup Conns
  /\ Conns \cap Server = {}
  /\ Resettable \subseteq Conns
  /\ MayFail \in BOOLEAN

VARIABLES
  servers, \* server objects constructed so far; the last is m_server's
  link     \* link[c]: the connection, as the kernel knows it

vars == <<ioVars, servers, link>>

m_server == servers > 0 /\ obj[servers] = "live"
Members == {c \in Conns : obj[c] = "live"}

\* An accepted socket travels in the handler.
Accepted(k, c) == [do |-> "accept", of |-> k, ec |-> "ok", socket |-> c]

Handler ==
  [do : {"accept"}, of : Server, ec : {"error"}]
    \cup [do : {"accept"}, of : Server, ec : {"ok"}, socket : Conns]
    \cup [do : {"read", "write"}, of : Conns, ec : {"ok", "error"}]

Init ==
  /\ IoInit
  /\ servers = 0
  /\ link = [c \in Conns |-> "none"]

-----------------------------------------------------------------------------
(* The commands of the shell. *)

\* The constructor of server binds, listens and starts to accept.
cmd_start ==
  /\ ~m_server
  /\ servers < MaxServers
  /\ Starts("accept", servers + 1)
  /\ servers' = servers + 1
  /\ UNCHANGED <<link>>

\* A port lexical_cast refuses, an address make_address_v4 refuses, or one
\* that cannot be bound.
StartThrows ==
  /\ MayFail
  /\ AtPrompt
  /\ ~m_server
  /\ Throws
  /\ UNCHANGED <<servers, link>>

\* stop, or quit.
cmd_stop(to) == m_server /\ Stops(to) /\ UNCHANGED <<servers, link>>

\* The rest of it.  The server's room, declared last, is destroyed first, and
\* the members with it.
Join ==
  /\ Joins(Append(SetToSeq(Members), servers))
  /\ link' = [c \in Conns |-> IF link[c] = "none" THEN "none" ELSE "gone"]
  /\ UNCHANGED servers

QuitUnstarted == ~m_server /\ Exits /\ UNCHANGED <<servers, link>>

-----------------------------------------------------------------------------
(* The peers and the kernel. *)

Connect(c) ==
  /\ Up
  /\ m_server
  /\ link[c] = "none"
  /\ link' = [link EXCEPT ![c] = "backlog"]
  /\ UNCHANGED <<ioVars, servers>>

PeerEnds(c, how) ==
  /\ Up
  /\ link[c] \in {"backlog", "up", "closed"}
  /\ how = "reset" => c \in Resettable
  /\ link' = [link EXCEPT ![c] = how]
  /\ UNCHANGED <<ioVars, servers>>

\* An accept yields a connection, whatever has become of it, or fails.
AcceptCompletes(k) ==
  /\ Running
  /\ ops[k]["accept"] > 0
  /\ ops' = [ops EXCEPT ![k]["accept"] = @ - 1]
  /\ \/ \E c \in Conns :
          /\ link[c] \in {"backlog", "closed", "reset"}
          /\ obj[c] = "none"
          /\ \A i \in DOMAIN ready :
               ready[i].do = "accept" /\ ready[i].ec = "ok" => ready[i].socket # c
          /\ ready' = Append(ready, Accepted(k, c))
          /\ link' = [link EXCEPT ![c] = IF @ = "backlog" THEN "up" ELSE @]
     \/ /\ \E c \in Conns : link[c] = "backlog"
        /\ ready' = Append(ready, Completion("accept", k, "error"))
        /\ UNCHANGED link
  /\ UNCHANGED <<process, shell, thread, stopped, obj, servers>>

ReadCompletes(c) ==
  /\ \/ link[c] = "up" /\ Completes("read", c, "ok")
     \/ link[c] \in {"closed", "reset"} /\ Completes("read", c, "error")
  /\ UNCHANGED <<servers, link>>

WriteCompletes(c) ==
  /\ \/ link[c] \in {"up", "closed"} /\ Completes("write", c, "ok")
     \/ link[c] = "reset" /\ Completes("write", c, "error")
  /\ UNCHANGED <<servers, link>>

-----------------------------------------------------------------------------
(* The handlers of server and member. *)

RunsIn(do, k) == Runs(do, k) /\ UNCHANGED <<servers, link>>

ThrowsInHandler ==
  /\ process' = "io threw"
  /\ ready' = Tail(ready)
  /\ UNCHANGED <<obj, ops>>

get_address_throws(c) == link[c] = "reset"

\* Mutant: every message starts a flush of its own.
write_in_progress_Never(c) == FALSE

write_in_progress(c) == Outstanding("write", c) > 0

\* The operations once a message went to the members in to: those that
\* are not writing begin to.
Broadcast(to) ==
  [c \in Object |->
     IF c \in to /\ ~write_in_progress(c)
     THEN [ops[c] EXCEPT !["write"] = 1] ELSE ops[c]]

\* Mutant: every accept starts two.
Accepting_Twice(k, o) == [o EXCEPT ![k]["accept"] = @ + 2]

\* The last call of the accept handler: accepter().
Accepting(k, o) == [o EXCEPT ![k]["accept"] = @ + 1]

\* accepter() and add_member().
AcceptHandler(k) ==
  /\ RunsIn("accept", k)
  /\ ec = "ok"
  /\ LET c == Head(ready).socket
     IN  IF \E m \in Members \cup {c} : get_address_throws(m)
         THEN ThrowsInHandler
         ELSE /\ obj' = [obj EXCEPT ![c] = "live"]
              /\ ops' = Accepting(k, [Broadcast(Members) EXCEPT ![c]["read"] = 1])
              /\ ready' = Tail(ready)
              /\ UNCHANGED process

AcceptErrorHandler(k) ==
  /\ RunsIn("accept", k)
  /\ ec = "error"
  /\ ops' = Accepting(k, ops)
  /\ ready' = Tail(ready)
  /\ UNCHANGED <<process, obj>>

\* A header, or data that are broadcast; then the next read.  Data are not sent to
\* the member whose endpoint they name as their origin, if there is one, which
\* need not be the reader.
ReadHandler(c) ==
  /\ RunsIn("read", c)
  /\ ec = "ok"
  /\ \/ /\ ops' = [ops EXCEPT ![c]["read"] = 1]
        /\ ready' = Tail(ready)
        /\ UNCHANGED <<process, obj>>
     \/ /\ \A m \in Members : ~get_address_throws(m)
        /\ \E origin \in {{}} \cup {{m} : m \in Members} :
             ops' = [Broadcast(Members \ origin) EXCEPT ![c]["read"] = 1]
        /\ ready' = Tail(ready)
        /\ UNCHANGED <<process, obj>>
     \/ /\ \E m \in Members : get_address_throws(m)
        /\ ThrowsInHandler

\* remove_member(), for an error or a header that is refused; the member is
\* destroyed, and its write aborted.
RemovingHandler(c) ==
  /\ RunsIn("read", c)
  /\ IF \E m \in Members : get_address_throws(m)
     THEN ThrowsInHandler
     ELSE /\ obj' = [obj EXCEPT ![c] = "freed"]
          /\ ops' = [Broadcast(Members \ {c}) EXCEPT ![c] = Ended(<<c>>)[c]]
          /\ ready' = Tail(ready) \o Aborted(c)
          /\ UNCHANGED <<process>>

\* Another write follows if the queue holds another message.
WriteHandler(c) ==
  /\ RunsIn("write", c)
  /\ ec = "ok"
  /\ ops' \in {ops, [ops EXCEPT ![c]["write"] = 1]}
  /\ ready' = Tail(ready)
  /\ UNCHANGED <<process, obj>>

\* remove_member() of a member whose connection was reset.
WriteErrorHandler(c) ==
  /\ RunsIn("write", c)
  /\ ec = "error"
  /\ ThrowsInHandler

OtherIoStep == (StaleHandler \/ RunReturns) /\ UNCHANGED <<servers, link>>

-----------------------------------------------------------------------------
Shell ==
  \/ cmd_start \/ StartThrows
  \/ \E to \in {"stop", "quit"} : cmd_stop(to)
  \/ Join \/ QuitUnstarted

Peer(c) == Connect(c) \/ \E how \in {"closed", "reset"} : PeerEnds(c, how)

Kernel ==
  \/ \E k \in Server : AcceptCompletes(k)
  \/ \E c \in Conns : ReadCompletes(c) \/ WriteCompletes(c)

IoThread ==
  \/ \E k \in Server : AcceptHandler(k) \/ AcceptErrorHandler(k)
  \/ \E c \in Conns : \/ ReadHandler(c) \/ RemovingHandler(c)
                      \/ WriteHandler(c) \/ WriteErrorHandler(c)
  \/ OtherIoStep

Next == Shell \/ (\E c \in Conns : Peer(c)) \/ Kernel \/ IoThread

Spec == Init /\ [][Next]_vars

\* The io thread runs, and a command the shell began goes on.
Fairness == WF_vars(IoThread) /\ WF_vars(Join)

LiveSpec == Spec /\ Fairness

-----------------------------------------------------------------------------
(* Properties. *)

TypeOK ==
  /\ IoTypeOK
  /\ shell \in {"prompt", "stop", "quit"}
  /\ ready \in Seq(Handler)
  /\ servers \in 0..MaxServers
  /\ link \in [Conns -> {"none", "backlog", "up", "closed", "reset", "gone"}]

\* A started server is served: run() goes on, with one accept outstanding or
\* its handler waiting, and one read for every member, and at most one write.
\* (scft-srv/main.cpp: one run() per start; server.cpp: accepter.)
ServedWhileStarted ==
  Up /\ m_server /\ shell = "prompt" =>
    /\ thread = "running" /\ ~stopped
    /\ Outstanding("accept", servers) = 1
    /\ \A c \in Members :
         Outstanding("read", c) = 1 /\ Outstanding("write", c) <= 1

\* After a stop the io_context is ready for the next start, and nothing is
\* outstanding, but the accept of the server that was destroyed waits in it with
\* its this.  Before the first stop, only the write of a removed member is left
\* behind like that.  (scft-srv/main.cpp, cmd_stop: reset() between join() and
\* restart(); member.cpp: flush_messages.)
StopLeavesHandlers ==
  Up =>
    /\ ~m_server => thread = "none" /\ ~stopped
    /\ \A k \in Object, op \in Kind : obj[k] = "freed" => ops[k][op] = 0
    /\ \A k \in Server : obj[k] = "freed" => Outstanding("accept", k) = 1
    /\ servers = 1 /\ m_server =>
         \A i \in DOMAIN ready : obj[ready[i].of] = "freed" => ready[i].do = "write"

\* No start runs a handler of a server that was stopped: what is undefined is not
\* one whose "this" was a server, at the front of the queue.  (The help of
\* scft-srv/main.cpp: "start [IP] [PORT]: Start server", "stop: Stops server".)
RestartForgetsTheStopped == process = "undefined" => Head(ready).of \notin Server

\* stop and quit return, whatever the io thread was doing.
StopReturns == shell \in {"stop", "quit"} ~> shell = "prompt" \/ ~Up
=============================================================================
