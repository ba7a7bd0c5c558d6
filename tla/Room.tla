-------------------------------- MODULE Room --------------------------------
(***************************************************************************)
(* The chat server: acceptor, room and members (scft-srv/server.cpp,        *)
(* room.cpp, member.cpp), driven by the handlers that its single io thread *)
(* runs one at a time, over the sockets of its peers.                      *)
(*                                                                         *)
(* A handler is one action.  Between two handlers the peers connect, send, *)
(* close or reset, and the kernel completes the asynchronous operations    *)
(* the handlers started; a completed operation waits, with its result, for *)
(* the io thread to run its handler.                                       *)
(*                                                                         *)
(* An exception that leaves a handler leaves io_context::run() in a        *)
(* std::thread, so the process terminates: server = "terminated".  A       *)
(* handler that runs on a destroyed member, or reads behind the data of a  *)
(* message, is undefined behaviour; it may do anything, so the model stops *)
(* there with server = "undefined" and says nothing of what follows.       *)
(***************************************************************************)
EXTENDS Messages, SequencesExt

(***************************************************************************)
(* A frame is what the peer puts on the wire for one message: whole; with  *)
(* a header that bad_header() refuses; ill, that is complete, with a header *)
(* that passes, but data in which the string is not terminated; or cut     *)
(* after the header because the peer stops in the middle of it.            *)
(***************************************************************************)
Frame == {"whole", "bad", "ill", "cut"}

CONSTANTS
  Resettable, \* connections whose peer may reset (RST) instead of closing
  Sends       \* Sends[c][i]: what the i-th frame of the peer of c may be

ASSUME RoomAssumption ==
  /\ Resettable \subseteq Conns
  /\ Sends \in [Conns -> [1..MaxFrames -> SUBSET Frame]]

VARIABLES
  server,     \* "up", "terminated" or "undefined"
  peer,       \* peer[c]: what the kernel knows of the connection
  frames,     \* frames[c]: everything the peer has sent so far
  backlog,    \* established connections not accepted yet, oldest first
  accepting,  \* the outstanding async_accept of the acceptor
  m_members,  \* the room's member list
  obj,        \* obj[c]: the life of the member object of c
  m_messages, \* m_messages[c]: queue of messages the member has to send
  phase,      \* phase[c]: what the outstanding async_read of c reads
  read,       \* read[c]: that operation
  taken,      \* taken[c]: frames of c whose data handler ran to its end
  writes,     \* writes[c]: the outstanding async_writes of c
  history,    \* every message broadcast, in order (auxiliary)
  sent,       \* sent[c]: the messages wholly written to the socket of c (auxiliary)
  removals    \* removals[c]: calls of remove_member by handlers of c (auxiliary)

net  == <<peer, frames, backlog>>
aux  == <<history, sent, removals>>
vars == <<server, net, accepting, m_members, obj, m_messages, phase, read,
          taken, writes, aux>>

\* An operation is outstanding ("pending"), or its handler is queued.
Op == {"pending", "ok", "error"}

Up == server = "up"
Live == {c \in Conns : obj[c] = "live"}

Init ==
  /\ server = "up"
  /\ peer = [c \in Conns |-> "absent"]
  /\ frames = [c \in Conns |-> <<>>]
  /\ backlog = <<>>
  /\ accepting = "pending"
  /\ m_members = <<>>
  /\ obj = [c \in Conns |-> "none"]
  /\ m_messages = [c \in Conns |-> <<>>]
  /\ phase = [c \in Conns |-> "header"]
  /\ read = [c \in Conns |-> "none"]
  /\ taken = [c \in Conns |-> 0]
  /\ writes = [c \in Conns |-> <<>>]
  /\ history = <<>>
  /\ sent = [c \in Conns |-> <<>>]
  /\ removals = [c \in Conns |-> 0]

-----------------------------------------------------------------------------
(* The peers. *)

Connect(c) ==
  /\ Up
  /\ peer[c] = "absent"
  /\ peer' = [peer EXCEPT ![c] = "open"]
  /\ backlog' = Append(backlog, c)
  /\ UNCHANGED <<server, frames, accepting, m_members, obj, m_messages, phase,
                 read, taken, writes, aux>>

\* Nothing is read after a frame that is not whole, so nothing is sent after one;
\* and what a peer does after the server closed its socket goes unnoticed.
PeerSends(c, f) ==
  /\ Up
  /\ peer[c] = "open"
  /\ obj[c] # "freed"
  /\ Len(frames[c]) < MaxFrames
  /\ f \in Sends[c][Len(frames[c]) + 1]
  /\ \A i \in DOMAIN frames[c] : frames[c][i] = "whole"
  /\ frames' = [frames EXCEPT ![c] = Append(@, f)]
  /\ UNCHANGED <<server, peer, backlog, accepting, m_members, obj, m_messages,
                 phase, read, taken, writes, aux>>

PeerCloses(c) ==
  /\ Up
  /\ peer[c] = "open"
  /\ obj[c] # "freed"
  /\ peer' = [peer EXCEPT ![c] = "closed"]
  /\ UNCHANGED <<server, frames, backlog, accepting, m_members, obj,
                 m_messages, phase, read, taken, writes, aux>>

PeerResets(c) ==
  /\ Up
  /\ c \in Resettable
  /\ peer[c] \in {"open", "closed"}
  /\ obj[c] # "freed"
  /\ peer' = [peer EXCEPT ![c] = "reset"]
  /\ UNCHANGED <<server, frames, backlog, accepting, m_members, obj,
                 m_messages, phase, read, taken, writes, aux>>

-----------------------------------------------------------------------------
(* The kernel completes operations. *)

AcceptCompletes(result) ==
  /\ Up
  /\ accepting = "pending"
  /\ backlog # <<>>
  /\ accepting' = result
  /\ UNCHANGED <<server, net, m_members, obj, m_messages, phase, read, taken,
                 writes, aux>>

\* The bytes the outstanding read of c waits for have arrived.
Arrived(c) ==
  /\ taken[c] < Len(frames[c])
  /\ phase[c] = "data" => frames[c][taken[c] + 1] \in {"whole", "ill"}

ReadSucceeds(c) ==
  /\ Up
  /\ read[c] = "pending"
  /\ peer[c] # "reset"
  /\ Arrived(c)
  /\ read' = [read EXCEPT ![c] = "ok"]
  /\ UNCHANGED <<server, net, accepting, m_members, obj, m_messages, phase,
                 taken, writes, aux>>

\* End of file before the bytes came, or a reset connection.
ReadFails(c) ==
  /\ Up
  /\ read[c] = "pending"
  /\ \/ peer[c] = "closed" /\ ~Arrived(c)
     \/ peer[c] = "reset"
  /\ read' = [read EXCEPT ![c] = "error"]
  /\ UNCHANGED <<server, net, accepting, m_members, obj, m_messages, phase,
                 taken, writes, aux>>

\* One of the writes of c completes; a write hands over the front message.
WriteSucceeds(c) ==
  /\ Up
  /\ obj[c] = "live"
  /\ peer[c] # "reset"
  /\ m_messages[c] # <<>>
  /\ \E i \in DOMAIN writes[c] :
       /\ writes[c][i] = "pending"
       /\ writes' = [writes EXCEPT ![c][i] = "ok"]
  /\ sent' = [sent EXCEPT ![c] = Append(@, Head(m_messages[c]))]
  /\ UNCHANGED <<server, net, accepting, m_members, obj, m_messages, phase,
                 read, taken, history, removals>>

WriteFails(c) ==
  /\ Up
  /\ peer[c] = "reset"
  /\ \E i \in DOMAIN writes[c] :
       /\ writes[c][i] = "pending"
       /\ writes' = [writes EXCEPT ![c][i] = "error"]
  /\ UNCHANGED <<server, net, accepting, m_members, obj, m_messages, phase,
                 read, taken, aux>>

-----------------------------------------------------------------------------
(* room::broadcast and member::send_message. *)

\* get_address() and get_port() ask the socket for its remote endpoint, which
\* throws once the connection was reset.
get_address_throws(c) == peer[c] = "reset"

BroadcastReturns ==
  \A i \in DOMAIN m_members : ~get_address_throws(m_members[i])

\* The members the loop over m_members sends msg to: those whose endpoint is
\* not the origin, as far as the loop gets.
Recipients(msg) ==
  {m_members[i] : i \in {j \in DOMAIN m_members :
     /\ m_members[j] # get_origin(msg)
     /\ \A k \in 1..j : ~get_address_throws(m_members[k])}}

\* Mutant: a message is dropped when a flush is in progress.
Queued_DropsWhenBusy(msg) ==
  [c \in Conns |-> IF c \in Recipients(msg) /\ m_messages[c] = <<>>
                   THEN <<msg>> ELSE m_messages[c]]

\* send_message() queues msg ...
Queued(msg) ==
  [c \in Conns |-> IF c \in Recipients(msg) THEN Append(m_messages[c], msg)
                                            ELSE m_messages[c]]

\* Mutant: every message starts a flush of its own.
Flushed_Always(msg) ==
  [c \in Conns |-> IF c \in Recipients(msg) THEN Append(writes[c], "pending")
                                            ELSE writes[c]]

\* ... and starts to flush the queue unless a flush is in progress.
Flushed(msg) ==
  [c \in Conns |-> IF c \in Recipients(msg) /\ m_messages[c] = <<>>
                   THEN Append(writes[c], "pending")
                   ELSE writes[c]]

broadcast(msg) ==
  /\ history' = Append(history, msg)
  /\ m_messages' = Queued(msg)
  /\ writes' = Flushed(msg)

Terminates == server' = "terminated"

-----------------------------------------------------------------------------
(* server::accepter and room::add_member. *)

add_member(c) ==
  \/ /\ get_address_throws(c)
     /\ Terminates
     /\ UNCHANGED <<m_members, obj, read, m_messages, writes, history>>
  \/ /\ ~get_address_throws(c)
     /\ broadcast(HasJoined(c))
     /\ IF BroadcastReturns
        THEN /\ m_members' = Append(m_members, c)
             /\ obj' = [obj EXCEPT ![c] = "live"]
             /\ read' = [read EXCEPT ![c] = "pending"]
             /\ UNCHANGED server
        ELSE Terminates /\ UNCHANGED <<m_members, obj, read>>

AcceptHandler ==
  /\ Up
  /\ accepting = "ok"
  /\ add_member(Head(backlog))
  /\ backlog' = Tail(backlog)
  /\ accepting' = "pending"
  /\ UNCHANGED <<peer, frames, phase, taken, sent, removals>>

\* Mutant: only a successful accept starts the next one.
AcceptErrorHandler_Stops ==
  /\ Up
  /\ accepting = "error"
  /\ accepting' = "none"
  /\ UNCHANGED <<server, net, m_members, obj, m_messages, phase, read, taken,
                 writes, aux>>

\* A failed accept only starts the next one.
AcceptErrorHandler ==
  /\ Up
  /\ accepting = "error"
  /\ accepting' = "pending"
  /\ UNCHANGED <<server, net, m_members, obj, m_messages, phase, read, taken,
                 writes, aux>>

-----------------------------------------------------------------------------
(* room::remove_member, called by a handler of c. *)

\* Closing the socket aborts what is outstanding; a completed operation keeps
\* its result.
Aborted(ops) ==
  [i \in DOMAIN ops |-> IF ops[i] = "pending" THEN "error" ELSE ops[i]]

\* Mutant: erase(begin()) instead of erase(begin() + index).
erased_First(c) == Tail(m_members)

\* The member list without c.
erased(c) ==
  LET index == CHOOSE i \in DOMAIN m_members :
                 /\ m_members[i] = c
                 /\ \A j \in 1..(i - 1) : m_members[j] # c
  IN  RemoveAt(m_members, index)

\* The member is erased, and destroyed when the calling handler, which holds
\* the last reference, returns.  rest: the writes of c still outstanding.
Destroyed(c, rest) ==
  /\ m_members' = erased(c)
  /\ obj' = [obj EXCEPT ![c] = "freed"]
  /\ m_messages' = [Queued(HasLeft(c)) EXCEPT ![c] = <<>>]
  /\ writes' = [Flushed(HasLeft(c)) EXCEPT ![c] = Aborted(rest)]
  /\ read' = [read EXCEPT ![c] = "none"]
  /\ history' = Append(history, HasLeft(c))

remove_member(c, rest) ==
  /\ removals' = [removals EXCEPT ![c] = @ + 1]
  /\ \/ /\ get_address_throws(c)
        /\ Terminates
        /\ UNCHANGED <<m_members, obj, m_messages, writes, read, history>>
     \/ /\ ~get_address_throws(c)
        /\ IF BroadcastReturns /\ c \in Range(m_members)
           THEN Destroyed(c, rest) /\ UNCHANGED server
           ELSE /\ broadcast(HasLeft(c))
                /\ Terminates
                /\ UNCHANGED <<m_members, obj, read>>

-----------------------------------------------------------------------------
(* The handlers of member. *)

\* Mutant: the header is judged by bytes that have not been read yet.
bad_header_TooEarly(c) == frames[c][taken[c] + 1] # "whole"

bad_header(c) == frames[c][taken[c] + 1] = "bad"

HeaderHandler(c) ==
  /\ Up
  /\ phase[c] = "header"
  /\ read[c] = "ok"
  /\ ~bad_header(c)
  /\ phase' = [phase EXCEPT ![c] = "data"]
  /\ read' = [read EXCEPT ![c] = "pending"]
  /\ UNCHANGED <<server, net, accepting, m_members, obj, m_messages, taken,
                 writes, aux>>

\* get_string() is not terminated inside the data.
ill_formed(c) == frames[c][taken[c] + 1] = "ill"

\* Mutant: the chain of reads ends with the first message.
DataHandler_StopsReading(c) ==
  /\ Up
  /\ phase[c] = "data"
  /\ read[c] = "ok"
  /\ ~ill_formed(c)
  /\ broadcast(Data(c, taken[c] + 1))
  /\ IF BroadcastReturns
     THEN /\ phase' = [phase EXCEPT ![c] = "header"]
          /\ read' = [read EXCEPT ![c] = "none"]
          /\ taken' = [taken EXCEPT ![c] = @ + 1]
          /\ UNCHANGED server
     ELSE Terminates /\ UNCHANGED <<phase, read, taken>>
  /\ UNCHANGED <<net, accepting, m_members, obj, sent, removals>>

DataHandler(c) ==
  /\ Up
  /\ phase[c] = "data"
  /\ read[c] = "ok"
  /\ ~ill_formed(c)
  /\ broadcast(Data(c, taken[c] + 1))
  /\ IF BroadcastReturns
     THEN /\ phase' = [phase EXCEPT ![c] = "header"]
          /\ read' = [read EXCEPT ![c] = "pending"]
          /\ taken' = [taken EXCEPT ![c] = @ + 1]
          /\ UNCHANGED server
     ELSE Terminates /\ UNCHANGED <<phase, read, taken>>
  /\ UNCHANGED <<net, accepting, m_members, obj, sent, removals>>

\* broadcast() logs the string of such a message: it reads behind the data.
IllDataHandler(c) ==
  /\ Up
  /\ phase[c] = "data"
  /\ read[c] = "ok"
  /\ ill_formed(c)
  /\ server' = "undefined"
  /\ UNCHANGED <<net, accepting, m_members, obj, m_messages, phase, read,
                 taken, writes, aux>>

\* A read failed, or brought a header that is refused.
ReadErrorHandler(c) ==
  /\ Up
  /\ \/ read[c] = "error"
     \/ phase[c] = "header" /\ read[c] = "ok" /\ bad_header(c)
  /\ remove_member(c, writes[c])
  /\ UNCHANGED <<net, accepting, phase, taken, sent>>

\* Mutant: pop_back() instead of pop_front().
WriteHandler_PopsBack(c) ==
  /\ Up
  /\ obj[c] = "live"
  /\ writes[c] # <<>>
  /\ Head(writes[c]) = "ok"
  /\ m_messages' = [m_messages EXCEPT ![c] = Front(@)]
  /\ writes' = [writes EXCEPT ![c] =
                  IF Tail(m_messages[c]) # <<>> THEN Append(Tail(@), "pending")
                                                ELSE Tail(@)]
  /\ UNCHANGED <<server, net, accepting, m_members, obj, phase, read, taken,
                 aux>>

\* Mutant: the queue is not flushed again.
WriteHandler_FlushesOnce(c) ==
  /\ Up
  /\ obj[c] = "live"
  /\ writes[c] # <<>>
  /\ Head(writes[c]) = "ok"
  /\ m_messages' = [m_messages EXCEPT ![c] = Tail(@)]
  /\ writes' = [writes EXCEPT ![c] = Tail(@)]
  /\ UNCHANGED <<server, net, accepting, m_members, obj, phase, read, taken,
                 aux>>

\* flush_messages() again while there is something to send.
WriteHandler(c) ==
  /\ Up
  /\ obj[c] = "live"
  /\ writes[c] # <<>>
  /\ Head(writes[c]) = "ok"
  /\ m_messages' = [m_messages EXCEPT ![c] = Tail(@)]
  /\ writes' = [writes EXCEPT ![c] =
                  IF Tail(m_messages[c]) # <<>> THEN Append(Tail(@), "pending")
                                                ELSE Tail(@)]
  /\ UNCHANGED <<server, net, accepting, m_members, obj, phase, read, taken,
                 aux>>

WriteErrorHandler(c) ==
  /\ Up
  /\ obj[c] = "live"
  /\ writes[c] # <<>>
  /\ Head(writes[c]) = "error"
  /\ remove_member(c, Tail(writes[c]))
  /\ UNCHANGED <<net, accepting, phase, taken, sent>>

\* The write handler of a member destroyed by its read handler runs on freed
\* memory; after an error it asks for the removal of the member once more.
StaleWriteHandler(c) ==
  /\ Up
  /\ obj[c] = "freed"
  /\ writes[c] # <<>>
  /\ removals' = IF Head(writes[c]) = "error"
                 THEN [removals EXCEPT ![c] = @ + 1] ELSE removals
  /\ server' = "undefined"
  /\ UNCHANGED <<net, accepting, m_members, obj, m_messages, phase, read,
                 taken, writes, history, sent>>

-----------------------------------------------------------------------------
Peers ==
  \E c \in Conns : \/ Connect(c)
                   \/ \E f \in Frame : PeerSends(c, f)
                   \/ PeerCloses(c)
                   \/ PeerResets(c)

Kernel ==
  \/ \E result \in {"ok", "error"} : AcceptCompletes(result)
  \/ \E c \in Conns : \/ ReadSucceeds(c) \/ ReadFails(c)
                      \/ WriteSucceeds(c) \/ WriteFails(c)

Handlers(c) ==
  \/ HeaderHandler(c) \/ DataHandler(c) \/ IllDataHandler(c)
  \/ ReadErrorHandler(c)
  \/ WriteHandler(c) \/ WriteErrorHandler(c) \/ StaleWriteHandler(c)

IoThread ==
  \/ AcceptHandler \/ AcceptErrorHandler
  \/ \E c \in Conns : Handlers(c)

Next == Peers \/ Kernel \/ IoThread

Spec == Init /\ [][Next]_vars

-----------------------------------------------------------------------------
(***************************************************************************)
(* Fairness.  The io thread keeps running: io_context::run() executes      *)
(* every queued handler.  The kernel reports what has happened on a socket *)
(* and moves bytes while the peer is there to take them.  Accepting may    *)
(* fail for a while (descriptors run out) but not for ever, hence SF.      *)
(***************************************************************************)
Fairness ==
  /\ SF_vars(AcceptCompletes("ok"))
  /\ WF_vars(AcceptHandler)
  /\ WF_vars(AcceptErrorHandler)
  /\ \A c \in Conns :
       /\ WF_vars(ReadSucceeds(c) \/ ReadFails(c))
       /\ WF_vars(peer[c] = "open" /\ WriteSucceeds(c))
       /\ WF_vars(WriteFails(c))
       /\ WF_vars(Handlers(c))

LiveSpec == Spec /\ Fairness

-----------------------------------------------------------------------------
(* Properties. *)

TypeOK ==
  /\ server \in {"up", "terminated", "undefined"}
  /\ peer \in [Conns -> {"absent", "open", "closed", "reset"}]
  /\ frames \in [Conns -> Seq(Frame)]
  /\ \A c \in Conns : Len(frames[c]) <= MaxFrames
  /\ backlog \in Seq(Conns)
  /\ accepting \in Op
  /\ m_members \in Seq(Conns)
  /\ obj \in [Conns -> {"none", "live", "freed"}]
  /\ m_messages \in [Conns -> Seq(Message)]
  /\ phase \in [Conns -> {"header", "data"}]
  /\ read \in [Conns -> Op \cup {"none"}]
  /\ taken \in [Conns -> 0..MaxFrames]
  /\ writes \in [Conns -> Seq(Op)]
  /\ history \in Seq(Message)
  /\ sent \in [Conns -> Seq(Message)]
  /\ removals \in [Conns -> Nat]

Disciplined(c) ==
  /\ read[c] # "none" <=> obj[c] = "live"
  /\ read[c] = "ok" => taken[c] < Len(frames[c])
  /\ obj[c] = "live" =>
       Len(writes[c]) = IF m_messages[c] = <<>> THEN 0 ELSE 1
  /\ obj[c] # "live" => m_messages[c] = <<>>
  /\ obj[c] = "none" => writes[c] = <<>>

\* While the server runs, every member has exactly one read outstanding, so
\* its frames are read in order and its end is noticed, and one write
\* outstanding exactly when it has something to send: two async_writes on one
\* socket would mix the bytes of two messages, none would strand the queue.
\* Whoever is no member has nothing to send, and a finished read has its
\* frame.  (member.cpp: the chain header_reader - data_buffer_reader -
\* header_reader, send_in_progress in send_message, the re-flush in
\* flush_messages.)
OperationDiscipline == Up => \A c \in Conns : Disciplined(c)

\* While the server runs, the member list holds every live member once and
\* nobody else, no erased member lingers in it and none is forgotten by it;
\* a connection waits to be accepted once, and only before it is a member;
\* and exactly the destroyed members were removed, once each.
\* (room.cpp: push_back in add_member, search and erase in remove_member.)
Registry ==
  Up => /\ Range(m_members) = Live
        /\ IsInjective(m_members)
        /\ IsInjective(backlog)
        /\ accepting = "ok" => backlog # <<>>
        /\ \A c \in Range(backlog) : peer[c] # "absent" /\ obj[c] = "none"
        /\ \A c \in Conns :
             /\ peer[c] = "absent" => obj[c] = "none"
             /\ removals[c] = IF obj[c] = "freed" THEN 1 ELSE 0

\* A connection is dropped only for what its own peer did, that is closing it
\* or sending a header that is refused, and everything the peer had sent
\* completely before that has been broadcast.  (member.cpp: which errors lead
\* to remove_member, and that reading goes on up to the end of file.)
Departures ==
  Up => \A c \in Conns : obj[c] = "freed" =>
          /\ peer[c] = "closed" \/ "bad" \in Range(frames[c])
          /\ \A i \in DOMAIN frames[c] : frames[c][i] = "whole" => i <= taken[c]

\* No message is queued for, or sent to, the connection it came from.
\* (room.hpp: broadcast is to "Send message to every member except message
\* origin".)
NoEcho ==
  \A c \in Conns : \A msg \in Range(m_messages[c]) \cup Range(sent[c]) :
     msg.from # c

\* A message that is broadcast is queued for every member that stays, except its
\* origin.  (room.hpp: broadcast is to "Send message to every member except
\* message origin".)
BroadcastReachesAll ==
  [][history' # history =>
       \A c \in Range(m_members) \cap Range(m_members') :
         Last(history') \in Range(m_messages'[c]) \/ get_origin(Last(history')) = c]_vars

\* remove_member is called at most once for a member; a second call is what
\* its std::logic_error("Double self-destruction") rules out.  (room.cpp:47.)
RemovedOnce == \A c \in Conns : removals[c] <= 1

\* Whoever is passed to remove_member is no longer a member when the handler
\* is done.  (room.hpp:44.)
RemovalRemoves ==
  [][\A c \in Conns :
       removals'[c] # removals[c] => c \notin Range(m_members')]_vars

(***************************************************************************)
(* The room implements the broadcast service: a member is owed what was    *)
(* written to its socket and what is still queued for it, where the front  *)
(* message is already written if its write only waits for its handler.     *)
(***************************************************************************)
Unsent(c) ==
  IF writes[c] # <<>> /\ Head(writes[c]) = "ok" /\ m_messages[c] # <<>>
  THEN Tail(m_messages[c]) ELSE m_messages[c]

Chat == INSTANCE Broadcast WITH
          up <- Up, status <- obj, log <- history,
          owed <- [c \in Conns |-> sent[c] \o Unsent(c)],
          got <- sent, said <- taken

\* All members see one order of announcements, without gaps or repetitions.
\* (room.cpp: broadcast queues for everybody in one handler; member.cpp: the
\* queue is flushed front first, each message once.)
OneOrder == Chat!OneOrder

\* Every step of the server is a step of the broadcast service, or none.
ImplementsBroadcast == Chat!AbsSpec

\* A connection that is made is taken into the room, unless the server dies.
\* (server.cpp: accepter always starts the next async_accept.)
EveryoneIsAdmitted ==
  \A c \in Conns : peer[c] # "absent" ~> (obj[c] # "none" \/ ~Up)

\* A member whose peer is gone is removed, unless the server dies first.
TheGoneAreRemoved ==
  \A c \in Conns :
    obj[c] = "live" /\ peer[c] \in {"closed", "reset"}
      ~> (obj[c] = "freed" \/ ~Up)

\* A member whose peer stays gets everything queued for it.
QueuesDrain ==
  \A c \in Conns :
    m_messages[c] # <<>> ~> (m_messages[c] = <<>> \/ peer[c] # "open" \/ ~Up)
=============================================================================
