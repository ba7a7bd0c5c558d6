------------------------------- MODULE Client -------------------------------
(***************************************************************************)
(* The client program: the commands of its shell thread (scft-clt/main.cpp) *)
(* against the handlers of its connection (client.cpp) on the io thread,   *)
(* over the life of several client objects, which use one io_context in    *)
(* turn (IoContext).                                                       *)
(*                                                                         *)
(* A handler is one action, and so is what a command does between two      *)
(* looks at the socket, which the io thread may close meanwhile.           *)
(***************************************************************************)
EXTENDS IoContext, Subsequences

CONSTANTS
  MaxSessions, \* bound: the client objects constructed, which are the objects
  MaxTexts,    \* bound: the messages typed
  MaxFrames,   \* bound: the frames a server sends on one connection
  Frames,      \* Frames[k]: the kinds of frames it may send on the k-th
  Unreadable,  \* the messages, typed with sendfile, whose file cannot be read
  Ports        \* what the user types as a port: "valid", "too large"

\* As in Room.
Frame == {"whole", "bad", "ill", "cut"}
Session == 1..MaxSessions
Text == 1..MaxTexts

ASSUME ClientAssumption ==
  /\ MaxSessions \in Nat /\ MaxTexts \in Nat /\ MaxFrames \in Nat
  /\ Object = Session
  /\ Frames \in [Session -> SUBSET Frame]
  /\ Unreadable \subseteq Text
  /\ Ports \subseteq {"valid", "too large"}

VARIABLES
  clients,    \* client objects constructed so far; the last is m_client's
  socket,     \* socket[k]: the m_socket of the k-th
  phase,      \* phase[k]: what a read of k reads
  m_messages, \* m_messages[k]: queue of messages to send
  shown,      \* shown[k]: the frames logged so far
  link,       \* link[k]: the connection, as the kernel knows it
  frames,     \* frames[k]: everything the server has sent on it
  typed,      \* typed[t]: the client the t-th message was handed to (auxiliary)
  sent        \* sent[k]: the messages written to its connection (auxiliary)

userVars   == <<clients, typed>>
clientVars == <<socket, phase, m_messages, shown>>
netVars    == <<link, frames, sent>>
vars       == <<ioVars, userVars, clientVars, netVars>>

\* The handler that send_message() posts.
Posting(k, t) == [do |-> "post", of |-> k, ec |-> "ok", text |-> t]

Handler == [do : Kind, of : Session, ec : {"ok", "error"}]
             \cup [do : {"post"}, of : Session, ec : {"ok"}, text : Text]

m_client == clients > 0 /\ obj[clients] = "live"

Init ==
  /\ IoInit
  /\ clients = 0
  /\ socket = [k \in Session |-> "none"]
  /\ phase = [k \in Session |-> "header"]
  /\ m_messages = [k \in Session |-> <<>>]
  /\ shown = [k \in Session |-> 0]
  /\ link = [k \in Session |-> "none"]
  /\ frames = [k \in Session |-> <<>>]
  /\ typed = <<>>
  /\ sent = [k \in Session |-> <<>>]

-----------------------------------------------------------------------------
(* Operations on a socket. *)

\* An operation of k starts when the handlers in rest wait; on a closed socket
\* it has failed at once.
Start(op, k, rest) ==
  IF socket[k] = "open"
  THEN /\ ops' = [ops EXCEPT ![k][op] = @ + 1]
       /\ ready' = rest
  ELSE /\ ready' = Append(rest, Completion(op, k, "error"))
       /\ UNCHANGED ops

StartsNothing == ready' = Tail(ready) /\ UNCHANGED ops

\* Mutant: an error leaves the socket open.
Close_Forgotten(k) == StartsNothing /\ UNCHANGED socket

\* m_socket.close(), by a handler.
Close(k) ==
  /\ socket' = [socket EXCEPT ![k] = "closed"]
  /\ ops' = Ended(<<k>>)
  /\ ready' = Tail(ready) \o Aborted(k)

-----------------------------------------------------------------------------
(* The commands of the shell. *)

\* The constructor of client starts to connect, then the io thread starts.
cmd_connect ==
  /\ ~m_client
  /\ clients < MaxSessions
  /\ "valid" \in Ports
  /\ Starts("connect", clients + 1)
  /\ clients' = clients + 1
  /\ socket' = [socket EXCEPT ![clients + 1] = "open"]
  /\ link' = [link EXCEPT ![clients + 1] = "connecting"]
  /\ UNCHANGED <<typed, phase, m_messages, shown, frames, sent>>

\* is_int() lets a number pass that boost::lexical_cast refuses.
ConnectThrows ==
  /\ AtPrompt
  /\ ~m_client
  /\ "too large" \in Ports
  /\ Throws
  /\ UNCHANGED <<userVars, clientVars, netVars>>

\* get_address() and get_port() throw on a closed socket.
get_address_throws == socket[clients] = "closed"

\* The shell thread passes a look at the socket, or dies of it.
Looks(from, to) ==
  /\ Up
  /\ shell = from
  /\ IF get_address_throws
     THEN Throws
     ELSE shell' = to /\ UNCHANGED <<process, thread, stopped, ready, obj, ops>>
  /\ UNCHANGED <<userVars, clientVars, netVars>>

NextText == Len(typed) + 1

\* sendtext and sendfile build a message that carries the local endpoint ...
cmd_send ==
  /\ m_client
  /\ NextText \in Text
  /\ Looks("prompt", "post")

\* ... which goes wrong with a file that is gone when its size is asked, or
\* cannot be opened for reading: the size -1 it then has makes the message
\* a byte too short for its name (see Transfer).
SendFileFails ==
  /\ AtPrompt
  /\ NextText \in Unreadable
  /\ \/ Throws
     \/ /\ m_client
        /\ ~get_address_throws
        /\ process' = "undefined"
        /\ UNCHANGED <<shell, thread, stopped, ready, obj, ops>>
  /\ UNCHANGED <<userVars, clientVars, netVars>>

\* ... post it to the io thread ...
send_message ==
  /\ Up
  /\ shell = "post"
  /\ ready' = Append(ready, Posting(clients, NextText))
  /\ typed' = Append(typed, clients)
  /\ shell' = "echo"
  /\ UNCHANGED <<process, thread, stopped, obj, ops, clients, clientVars, netVars>>

\* ... and ask for the endpoint once more, to log it.
Echo == Looks("echo", "prompt")

\* disconnect, or quit.
cmd_disconnect(to) ==
  /\ m_client
  /\ Stops(to)
  /\ UNCHANGED <<userVars, clientVars, netVars>>

\* The rest of it: the destructor of client closes the socket.
Join ==
  /\ Joins(<<clients>>)
  /\ m_messages' = [m_messages EXCEPT ![clients] = <<>>]
  /\ socket' = [socket EXCEPT ![clients] = "closed"]
  /\ UNCHANGED <<userVars, phase, shown, netVars>>

QuitUnconnected == ~m_client /\ Exits /\ UNCHANGED <<userVars, clientVars, netVars>>

-----------------------------------------------------------------------------
(* The server and the kernel. *)

\* What happens on a connection whose client object is gone goes unnoticed.
ServerSends(k, f) ==
  /\ Up
  /\ obj[k] = "live"
  /\ link[k] = "up"
  /\ Len(frames[k]) < MaxFrames
  /\ \A i \in DOMAIN frames[k] : frames[k][i] = "whole"
  /\ frames' = [frames EXCEPT ![k] = Append(@, f)]
  /\ UNCHANGED <<ioVars, userVars, clientVars, link, sent>>

ServerEnds(k) ==
  /\ Up
  /\ obj[k] = "live"
  /\ \/ link[k] = "up" /\ link' = [link EXCEPT ![k] = "closed"]
     \/ link[k] \in {"up", "closed"} /\ link' = [link EXCEPT ![k] = "reset"]
  /\ UNCHANGED <<ioVars, userVars, clientVars, frames, sent>>

ConnectCompletes(k) ==
  /\ link[k] = "connecting"
  /\ \/ Completes("connect", k, "ok") /\ link' = [link EXCEPT ![k] = "up"]
     \/ Completes("connect", k, "error") /\ link' = [link EXCEPT ![k] = "refused"]
  /\ UNCHANGED <<userVars, clientVars, frames, sent>>

\* The bytes the outstanding read of k waits for have arrived.
Arrived(k) ==
  /\ shown[k] < Len(frames[k])
  /\ phase[k] = "data" => frames[k][shown[k] + 1] \in {"whole", "ill"}

ReadCompletes(k) ==
  /\ \/ link[k] # "reset" /\ Arrived(k) /\ Completes("read", k, "ok")
     \/ link[k] = "reset" /\ Completes("read", k, "error")
     \/ link[k] = "closed" /\ ~Arrived(k) /\ Completes("read", k, "error")
  /\ UNCHANGED <<userVars, clientVars, netVars>>

\* A write waits until the socket is connected, or could not be.
WriteSucceeds(k) ==
  /\ link[k] \in {"up", "closed"}
  /\ m_messages[k] # <<>>
  /\ Completes("write", k, "ok")
  /\ sent' = [sent EXCEPT ![k] = Append(@, Head(m_messages[k]))]
  /\ UNCHANGED <<userVars, clientVars, link, frames>>

WriteFails(k) ==
  /\ link[k] \in {"refused", "reset"}
  /\ Completes("write", k, "error")
  /\ UNCHANGED <<userVars, clientVars, netVars>>

-----------------------------------------------------------------------------
(* The handlers of client. *)

RunsIn(do, k) == Runs(do, k) /\ UNCHANGED <<obj, userVars, netVars>>

remote_endpoint_throws(k) == link[k] = "reset" \/ socket[k] = "closed"

\* A connection that could not be made is left at that.
ConnectHandler(k) ==
  /\ RunsIn("connect", k)
  /\ \/ /\ ec = "ok"
        /\ remote_endpoint_throws(k)
        /\ process' = "io threw"
        /\ UNCHANGED <<ready, ops>>
     \/ /\ ec = "ok"
        /\ ~remote_endpoint_throws(k)
        /\ Start("read", k, Tail(ready))
        /\ UNCHANGED process
     \/ ec = "error" /\ StartsNothing /\ UNCHANGED process
  /\ UNCHANGED clientVars

\* Mutant: the header is judged by bytes that have not been read yet.
bad_header_TooEarly(k) == frames[k][shown[k] + 1] # "whole"

bad_header(k) == frames[k][shown[k] + 1] = "bad"

HeaderHandler(k) ==
  /\ RunsIn("read", k)
  /\ ec = "ok"
  /\ phase[k] = "header"
  /\ ~bad_header(k)
  /\ phase' = [phase EXCEPT ![k] = "data"]
  /\ Start("read", k, Tail(ready))
  /\ UNCHANGED <<process, socket, m_messages, shown>>

\* get_string() is not terminated inside the data.
ill_formed(k) == frames[k][shown[k] + 1] = "ill"

\* The message is logged, or written to its file and the file logged.
DataHandler(k) ==
  /\ RunsIn("read", k)
  /\ ec = "ok"
  /\ phase[k] = "data"
  /\ ~ill_formed(k)
  /\ phase' = [phase EXCEPT ![k] = "header"]
  /\ shown' = [shown EXCEPT ![k] = @ + 1]
  /\ Start("read", k, Tail(ready))
  /\ UNCHANGED <<process, socket, m_messages>>

\* What is logged is read from behind the data.
IllDataHandler(k) ==
  /\ RunsIn("read", k)
  /\ ec = "ok"
  /\ phase[k] = "data"
  /\ ill_formed(k)
  /\ process' = "undefined"
  /\ UNCHANGED <<ready, ops, clientVars>>

ReadErrorHandler(k) ==
  /\ RunsIn("read", k)
  /\ ec = "ok" => phase[k] = "header" /\ bad_header(k)
  /\ Close(k)
  /\ UNCHANGED <<process, phase, m_messages, shown>>

\* Mutant: pop_back() instead of pop_front().
popped_Back(k) == Front(m_messages[k])

popped(k) == Tail(m_messages[k])

\* Mutant: the queue is not flushed again.
flushes_again_Never(k) == FALSE

flushes_again(k) == popped(k) # <<>>

WriteHandler(k) ==
  /\ RunsIn("write", k)
  /\ ec = "ok"
  /\ m_messages' = [m_messages EXCEPT ![k] = popped(k)]
  /\ IF flushes_again(k) THEN Start("write", k, Tail(ready)) ELSE StartsNothing
  /\ UNCHANGED <<process, socket, phase, shown>>

\* The queue keeps its messages.
WriteErrorHandler(k) ==
  /\ RunsIn("write", k)
  /\ ec = "error"
  /\ Close(k)
  /\ UNCHANGED <<process, phase, m_messages, shown>>

\* Mutant: every message starts a flush of its own.
write_in_progress_Never(k) == FALSE

write_in_progress(k) == m_messages[k] # <<>>

\* What send_message() posted.
PostedHandler(k) ==
  /\ RunsIn("post", k)
  /\ m_messages' = [m_messages EXCEPT ![k] = Append(@, Head(ready).text)]
  /\ IF write_in_progress(k) THEN StartsNothing ELSE Start("write", k, Tail(ready))
  /\ UNCHANGED <<process, socket, phase, shown>>

\* A handler of a client that disconnect destroyed, once a new client runs the
\* io_context, or the end of run().
OtherIoStep ==
  (StaleHandler \/ RunReturns) /\ UNCHANGED <<userVars, clientVars, netVars>>

-----------------------------------------------------------------------------
Shell ==
  \/ cmd_connect \/ ConnectThrows
  \/ cmd_send \/ SendFileFails \/ send_message \/ Echo
  \/ \E to \in {"stop", "quit"} : cmd_disconnect(to)
  \/ Join \/ QuitUnconnected

Server(k) == (\E f \in Frames[k] : ServerSends(k, f)) \/ ServerEnds(k)

Kernel(k) ==
  ConnectCompletes(k) \/ ReadCompletes(k) \/ WriteSucceeds(k) \/ WriteFails(k)

Handlers(k) ==
  \/ ConnectHandler(k)
  \/ HeaderHandler(k) \/ DataHandler(k) \/ IllDataHandler(k)
  \/ ReadErrorHandler(k)
  \/ WriteHandler(k) \/ WriteErrorHandler(k)
  \/ PostedHandler(k)

IoThread == (\E k \in Session : Handlers(k)) \/ OtherIoStep

Next == Shell \/ (\E k \in Session : Server(k) \/ Kernel(k)) \/ IoThread

Spec == Init /\ [][Next]_vars

(***************************************************************************)
(* The io thread runs, the kernel answers (a connect that nobody answers    *)
(* times out), and a command the shell began goes on.  What the user types *)
(* and what the server does is not fair.                                   *)
(***************************************************************************)
Fairness ==
  /\ WF_vars(IoThread)
  /\ WF_vars(send_message)
  /\ WF_vars(Join)
  /\ \A k \in Session :
       /\ WF_vars(ConnectCompletes(k))
       /\ WF_vars(ReadCompletes(k))
       /\ WF_vars(link[k] = "up" /\ WriteSucceeds(k))
       /\ WF_vars(WriteFails(k))

LiveSpec == Spec /\ Fairness

-----------------------------------------------------------------------------
(* Properties. *)

TypeOK ==
  /\ IoTypeOK
  /\ shell \in {"prompt", "post", "echo", "stop", "quit"}
  /\ ready \in Seq(Handler)
  /\ clients \in 0..MaxSessions
  /\ socket \in [Session -> {"none", "open", "closed"}]
  /\ phase \in [Session -> {"header", "data"}]
  /\ m_messages \in [Session -> Seq(Text)]
  /\ shown \in [Session -> 0..MaxFrames]
  /\ link \in [Session -> {"none", "connecting", "refused", "up", "closed", "reset"}]
  /\ frames \in [Session -> Seq(Frame)]
  /\ typed \in Seq(Session)
  /\ sent \in [Session -> Seq(Text)]

\* A connection is served by one chain of reads, which begins with the
\* connect and lasts while the socket is open and connected, and by one write
\* exactly while there is something to send; after an error the queue may
\* strand, but only with the socket closed.  (client.cpp: every handler starts
\* the next operation or closes; flush_messages is entered for an empty queue
\* or from its own handler.)
OperationDiscipline ==
  Up => \A k \in Session : obj[k] = "live" =>
    LET reads  == Outstanding("connect", k) + Outstanding("read", k)
        writes == Outstanding("write", k)
    IN  /\ reads <= 1
        /\ socket[k] = "open" /\ link[k] # "refused" => reads = 1
        /\ writes <= 1
        /\ m_messages[k] = <<>> => writes = 0
        /\ socket[k] = "open" /\ m_messages[k] # <<>> => writes = 1

TypedOn(k) ==
  Kept([t \in DOMAIN typed |-> t], {t \in DOMAIN typed : typed[t] = k})

Posts(k) == {Posting(k, t) : t \in Text}

Texts(posts) == [i \in DOMAIN posts |-> posts[i].text]

PostedOn(k) == Texts(Kept(ready, Posts(k)))

\* The queue without a front that is written already.
Unsent(k) ==
  IF Completion("write", k, "ok") \in Range(ready)
  THEN Tail(m_messages[k]) ELSE m_messages[k]

\* What the user typed on a connection is on the wire, in the queue or posted,
\* in the order it was typed, each message once; after a disconnect what is
\* on the wire is still the beginning of it.  (main.cpp and client.cpp: posts
\* run in order, the queue is flushed front first.)
TypedInOrder ==
  Up => \A k \in Session :
    IF obj[k] = "live" THEN TypedOn(k) = sent[k] \o Unsent(k) \o PostedOn(k)
                       ELSE IsPrefix(sent[k], TypedOn(k))

\* A client closes its socket only for what the server or the network did, and
\* if that was an end of file, or a header that is refused, after it has shown
\* everything that came whole before it.  (client.cpp: m_socket.close().)
ClosesForAReason ==
  Up => \A k \in Session : obj[k] = "live" /\ socket[k] = "closed" =>
    /\ link[k] \in {"refused", "closed", "reset"} \/ "bad" \in Range(frames[k])
    /\ link[k] \in {"up", "closed"} =>
         \A i \in DOMAIN frames[k] : frames[k][i] = "whole" => i <= shown[k]

\* While the client is connected the io thread does not run out of work and
\* leave, and the io_context is stopped only on behalf of a command.
\* (main.cpp: one run() per connect, which nobody calls again.)
ServedWhileConnected ==
  Up /\ m_client /\ shell \in {"prompt", "post", "echo"} =>
    (thread = "running" /\ ~stopped)
      \/ socket[clients] = "closed" \/ link[clients] = "refused"

\* Every message typed on a connection that lasts is sent on it.
TypedIsSent ==
  \A k \in Session, t \in Text :
    t \in DOMAIN typed /\ typed[t] = k
      ~> \/ t \in Range(sent[k])
         \/ link[k] # "up" \/ socket[k] = "closed" \/ obj[k] = "freed" \/ ~Up

\* disconnect and quit return, whatever the io thread was doing.
DisconnectReturns ==
  shell \in {"stop", "quit"} ~> shell = "prompt" \/ ~Up

\* A connection that the server ended is closed by the client too.
EndIsNoticed ==
  \A k \in Session :
    link[k] \in {"closed", "reset"} ~> socket[k] = "closed" \/ ~Up

\* No handler runs on a destroyed client: a connect after a disconnect starts
\* from nothing.  (main.cpp: cmd_disconnect.)
NothingStale == process # "undefined"

\* A command that sends a message does not end the program.  (The help of
\* scft-clt/main.cpp: "sendtext [MESSAGE...]: Send message".)
SendingIsHarmless == [][cmd_send \/ Echo => Up']_vars

\* A connection that is made, whatever becomes of it, does not end the program.
\* (client.hpp: the constructor "Tries to connect to specified server".)
ConnectingIsHarmless == [][(\E k \in Session : ConnectHandler(k)) => Up']_vars
=============================================================================
