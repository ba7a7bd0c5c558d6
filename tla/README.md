# SCFT in TLA+

A verification project for SCFT, the Simple Chat and File Transfer program in
`src/`: TLA+ modules for its parts, TLC configurations that check them on small
instances, and proofs that TLAPS checks for every instance.

## 1. The system

Two programs, `scft-srv` and `scft-clt`, each with three threads:

* the **shell thread** reads commands (`start`, `stop`, `connect`,
  `disconnect`, `sendtext`, `sendfile`, `quit`) and runs them;
* one **io thread** runs `m_io_ctx.run()`; every handler of boost::asio runs
  there, to its end, one at a time. An exception that leaves a handler leaves
  the thread, and the process terminates;
* the **update_log thread** draws the scrolling log.

A client connects over TCP and sends messages; the server hands every message
to every other member of its one room, and announces who joins and leaves.

| Part | State | Operations | Talks to |
|---|---|---|---|
| acceptor, `scft-srv/server.cpp` | the outstanding `async_accept` | `accepter` and its handler | room |
| room, `scft-srv/room.cpp` | `m_members` | `add_member`, `remove_member`, `broadcast` | members, log |
| member, `scft-srv/member.cpp` | socket, `m_message`, `m_messages`, one read and one write outstanding | `header_reader`, `data_buffer_reader`, `send_message`, `flush_messages` and their handlers | room, peer |
| server shell, `scft-srv/main.cpp` | `m_server`, `m_io_ctx`, io thread | `start`, `stop`, `update_log` | server, log |
| client, `scft-clt/client.cpp` | socket, `m_message`, `m_messages` | connect, `send_message` (posted), `flush_messages`, the two readers | server, log, files |
| client shell, `scft-clt/main.cpp` | `m_client`, `m_io_ctx`, io thread | `connect`, `disconnect`, `sendtext`, `sendfile`, `update_log` | client, files, log |
| message, `scft_message.cpp` | header and data bytes | build text or file, `bad_header`, `adjust`, accessors | all |
| scrolling log, `scrolling_log.cpp` | `lines`, `cur_line`, `recorded_lines_count`, mutex | `append_log`, `add_line` | all threads |
| basic shell, `basic_shell.cpp` | commands, `quit` | `split_args`, `is_int`, `is_ipv4`, `process_cmd`, `show_log` | shells |
| crc32, `crc32.cpp` | the table | three overloads | message, client |

**What is hard.** A handler holds a raw `this` and may run after its member was
destroyed; `remote_endpoint()` throws on a reset connection, from the middle
of a broadcast or of a removal; the queue of a member is fed by broadcasts and
drained by completions; the log is read without its mutex; stopping and
starting again leaves handlers of dead objects in the io_context; lengths and
indices are unchecked at a few boundaries. `PROJECT.json` lists each of these
at its line, with the property that covers it.

**What makes each part correct.** Not all of it holds; section 5 lists what the
runs refute.

* acceptor: every connection is admitted;
* member: one read and at most one write outstanding; the queue is sent front
  first, each message once, and drains; a departure is noticed, after everything
  sent before it was read;
* room: the list is exactly the live members; all members see one order of
  announcements; a sender does not hear itself; a member is removed once;
* server over its life: a started server is served, `stop` returns and leaves the
  io_context fit for the next start;
* log: keeps the most recent lines in order, within its height and width, and the
  text of a call together; what is logged is drawn;
* client: what the user sends on a connection goes out on that connection, in
  order; no command and no connection ends the program;
* message: what a client agrees to send, the server accepts, and the receiver
  takes apart what the sender put together;
* shell: every line is split at its spaces, every address and port judged.

## 2. Modules

| Module | Models |
|---|---|
| `Messages` | the messages of the room and their origins |
| `Subsequences` | subsequences by membership, and folds, as functions that can be proved about |
| `Broadcast` | abstract: an ordered broadcast to a group with joins and leaves |
| `Room`, `MCRoom` | acceptor, room, members, the server's io thread, the sockets |
| `Completions` | the operations of boost::asio and the handlers of those that have finished |
| `IoContext` | an io_context, its thread and the shell that starts, stops and restarts it |
| `ServerLife`, `MCServerLife` | `start`, `stop` and `quit` over several servers in one io_context |
| `Client`, `MCClient` | client objects, the client's io thread and its shell's commands |
| `Transfer`, `MCTransfer` | one message from what the user typed to what the receiver shows |
| `Crc32` | the checksum: table, three overloads, and the division they compute |
| `ScrollingLog`, `MCScrollingLog` | the log and the drawing thread of both programs |
| `Shell`, `MCShell` | keyboard loop, `split_args`, `is_int`, `is_ipv4`, command lookup |
| `SequenceLemmas` | lemmas on sequences: induction, `Kept`, `Folded`, counting, ranges, `SetToSeq`, `FlattenSeq`; and on handlers that wait |
| `RoomProofs` | theorems about `Room`: its consistency, departures; and the refinement: it implements `Broadcast`, and so keeps one order |
| `BroadcastProofs` | the theorem that `Broadcast` keeps one order |
| `ScrollingLogProofs` | theorems about `ScrollingLog` |
| `ServerLifeProofs`, `ClientProofs` | theorems about `ServerLife` and `Client`, by counting what is outstanding |
| `TransferProofs` | theorems about `Transfer` |
| `ShellProofs` | theorems about `Shell`, for lines of any length |

`Messages` is the vocabulary that `Broadcast` and `Room` share; `Broadcast`,
`Client` and `Shell` use `Subsequences`. `Room` relates itself to `Broadcast`
with `INSTANCE`. `IoContext` is the part `main.cpp` of both programs has in
common, and `Completions` what of it has no state; `ServerLife` and `Client`
extend it with their objects and handlers. `ServerLife` looks at the same server
as `Room` from further away: `Room` has one server and every message,
`ServerLife` many servers and only who has which operation outstanding. The two
programs meet on the wire, but are not composed: each module has its own other
side, which sends frames of the four kinds below, in any order and with any
delay, and closes or resets when it likes. `Room` and `Client` are thus checked
against more than the other program does; what a peer can send beyond these
kinds, such as headers whose lengths contradict each other but stay inside the
data, is abstracted into them.

### Conventions

* A handler of boost::asio is one action, because one thread runs them all. A
  completed operation waits, with its result, until the io thread gets to it, so
  that everything may happen between completion and handler.
* An exception that nobody catches ends the process: an absorbing value of
  `server` or `process`. Undefined behaviour is an absorbing value of its own,
  `"undefined"`. It stands for every outcome, so nothing is claimed after it;
  safety properties are stated for states in which the program is up.
* Data are abstracted: a message is its kind, its connection and its number. A
  frame is whole; or `bad`, refused by `bad_header`; or `cut` short; or `ill`: it
  passes `bad_header` and is complete, but the strings that a receiver looks for
  do not end inside its data, so that taking it apart is undefined
  (`IllDataHandler`). `Transfer` is the module in which a message has its bytes.
* Mutants (`Name_Variant`, each marked "Mutant") stand beside the definition
  they alter. No specification uses them; they show that each property would
  notice a plausible bug.

### `Room`

| State | Code |
|---|---|
| `accepting` | the one `async_accept` of `server::accepter` |
| `backlog` | connections the kernel holds for it |
| `m_members`, `obj` | `room::m_members`; whether the member object lives |
| `m_messages` | `member::m_messages` |
| `phase`, `read`, `taken` | what the member's one `async_read` reads, its result, the frames done |
| `writes` | the outstanding `async_write`s, a sequence because nothing but the code keeps them to one |
| `peer`, `frames` | the peer's end of the connection and what it has sent |
| `history`, `sent`, `removals` | auxiliary |

| Action | Code |
|---|---|
| `AcceptHandler`, `AcceptErrorHandler` | handler in `accepter`, with `room::add_member`, its broadcast and `member::start` |
| `HeaderHandler`, `DataHandler`, `IllDataHandler`, `ReadErrorHandler` | handlers in `header_reader` and `data_buffer_reader`, with `broadcast` or `remove_member` |
| `WriteHandler`, `WriteErrorHandler`, `StaleWriteHandler` | handler in `flush_messages`; the last when its member is destroyed |
| `Connect`, `PeerSends`, `PeerCloses`, `PeerResets` | the peers |
| `AcceptCompletes`, `ReadSucceeds`, ... | the kernel and asio |

`broadcast` walks the members in list order and asks each for its endpoint;
`remote_endpoint()` throws for a connection that was reset. The messages pushed
before the throw stay pushed (`Recipients` is the part of the loop that ran) and
the process terminates. `remove_member` throws in the same way before it erases.
A member that is erased is destroyed when the calling handler returns, closing
its socket, which aborts its write: the handler of that write then runs on freed
memory (`StaleWriteHandler`).

Two cases that look possible do not arise, for reasons worth knowing: the read
of a member never completes after its removal, since a removal that succeeds is
always made by that member's own read handler (a failed write means a reset
connection, for which the removal throws); and a write is never outstanding
twice, which is `OperationDiscipline`.

Left out as unobservable: what a peer sends after a frame that is not whole, and
what it does after the server closed the connection. asio completes operations
roughly first come first served; `Room` lets them complete and be handled in
any order, which only adds behaviours.

### `IoContext`, `ServerLife` and `Client`

| State | Code |
|---|---|
| `shell` | where the shell thread is inside a command |
| `thread`, `stopped`, `ready` | `io_ctx_run_thread`, and `m_io_ctx`: its stopped flag and its queue of handlers |
| `obj`, `ops` | which objects live (a server, its members, a client); the operations outstanding on each one's socket |
| `servers`, `link` | `ServerLife`: servers constructed, the last is `m_server`'s; the connections |
| `clients`, `socket`, `m_messages`, `phase`, `shown`, `link`, `frames` | `Client`: clients constructed, the last is `m_client`'s; each one's `m_socket`, queue, reader and connection |
| `typed`, `sent` | `Client`: auxiliary |

`cmd_stop` and `cmd_disconnect` are the same code. `Stops` is `m_io_ctx.stop()`;
`RunReturns` is `run()` returning, because it was stopped or because nothing is
outstanding any more; `Joins` is the rest, from `join()` to `restart()`. Between
the two the object is destroyed (`reset()`): closing its sockets aborts what is
outstanding on them, and the handlers join the queue, in the order in which the
members of the object are destroyed. The queue is kept in order here and outlives
the objects, since that is where the hazard lies: nothing takes these handlers
out, `restart()` keeps them, and the next `run()` begins with them. A handler whose
object is gone is `StaleHandler`.

In `ServerLife` the accept of a server is always outstanding, so every `stop`
leaves its handler behind, with the `this` of the destroyed server
(`StopLeavesHandlers`). It stands in the queue before anything the next server
starts, so that a `start` after a `stop` runs it first, which is undefined
behaviour: `RestartForgetsTheStopped`, which the help's "Start server" asks for,
is violated. What the program goes on to do is not modelled. A message is
broadcast to all members, or to all but one, whichever it is: the text that
`room::broadcast` compares may name anybody, or nobody. That a message has no
terminator is left to `Room`.

In `Client` a command of the shell thread is cut where it looks at the socket,
for the io thread may close it at any time: `cmd_send` (`get_address`, `get_port`
for the message), `send_message` (the post), `Echo` (both again, for the log). Each
look throws in the shell thread if the socket was closed. The data race between
the two threads on `m_socket` has the same two outcomes, a result or an exception.
A failed `async_connect` leaves the socket open, as asio's range connect does. The
text of a message is its number.

### `Transfer` and `Crc32`

| State | Code |
|---|---|
| `typed`, `stage` | what the user typed; how far `cmd_sendtext` or `cmd_sendfile`, the server and the receiver are |
| `file`, `changes` | the file at that path, which another program may change between two steps |
| `file_size` | the local of `init_as_file` |
| `message` | the header, field by field, and the bytes that follow it |
| `received` | what `data_buffer_reader` of the receiving client shows or writes |

The steps are those between which the file can change: `is_regular_file`
(`LooksForFile`), `file_size` (`ChecksSize`), opening and `tellg` (`Opens`), reading
(`cmd_sendfile`). `tellg()` of a file that cannot be opened is -1, as a `size_t`
the largest number; the sum of the sizes then wraps (`U64`) to one byte less than
origin and name take, so the name's terminator is written behind the vector:
`"outside"`, or a message without the terminator that the receiver looks for. A
file that shrinks after it was measured leaves zeros in the vector. The lengths in
the header wrap (`U8`, `U32`): a text is never checked, and a file may grow after
it was, so a message can be longer than its header can say (`TooLongForHeader`).
`StaysInside` states what holds nevertheless, up to multiples of 2^32 and but for
these two cases; what the headers promise without exception, `LengthOfTheData` and
`ReadyToSend`, is violated, each in a configuration of its own.
The integer types, the limit of a message and the header are parameters, so that
the boundaries fit into sequences TLC can enumerate; their relations are those of
the code (`TransferAssumption`). So is the checksum, of which `Transfer` needs only
that it is a function of the bytes; `MCTransfer` gives it that of `Crc32`.

`Crc32` has the table as it stands in `crc32.hpp`, split into halves of words, and
compares the table, the buffer overload and the stream overload with the long
division bit by bit (`ChecksumsAgree`). The overload for a file name returns the
inverted seed whatever is in the file, contrary to its comment
(`FileNameChecksum`, violated); nothing calls it, nor the stream overload, which
does not end on a file that is not open.

### `ScrollingLog`

`append_log` and `add_line` run one character, and one access to the shared
counter or deque, at a time under `lines_mutex`; the `update_log` thread reads
both without it. The race is modelled as the interleavings of these accesses,
with the outcomes the build can produce: `at()` throws and the process ends, or
a line is printed after it was destroyed (`"undefined"`). `set_quit` is the shell's
flag, which the drawing thread reads between two drawings. The programs that
threads run through are the server's, whose calls all end their line, and the
client's, whose io thread logs a received message with several calls; a letter
stands for the call it comes from, and the two programs share none.
`KeepsTheLatest` says that the log has the last lines, all of them or at least
`m_height`. The documented maximum is exceeded by one, because the deque is trimmed
before the push, and the width by one character: `KeepsToTheHeight` and
`KeepsToTheWidth` are violated. `ScreenCatchesUp` states what the drawing thread
guarantees once nothing is logged any more, if it still runs: everything is on the
screen but at most the last line (the count is incremented before the line is
added) and one line in the middle (skipped when the deque is trimmed during a
drawing); what was logged before the thread started waits for the next line. That
the screen comes to show the whole log (`ScreenShowsTheLog`), and that showing it
does not end the process (`ShowingIsHarmless`), are violated.

### `Shell`

The keyboard loop types, corrects and enters a line; after ESC it swallows two
keys, whatever they are, so that an escape sequence of four bytes (Delete)
leaves its last in the line and a bare ESC may swallow an Enter. `split_args`
and `is_ipv4` go once over the line, and are folds (`Folded`) of what one
character does (`Scanned`, `Parsed`), with their exceptions and the access past
the end of `ipv4_parts`; `Scan` and `Parse` are what the loops keep, and
`before` is the character at `index - 1`, if there is one. Both are compared
with definitions that say what they should return without saying how: the parts
of a line between separating positions. A line that begins with a space ends the
program (`command.at(index - 1)`), a space at its end adds an empty argument;
`SplitsAtSpaces` describes both, and `EveryLineIsSplit`, which the header
promises, is violated. In the same way `AcceptsQuads` says what `is_ipv4`
answers and when it does not, and `AddressesGetAnAnswer` is violated:
`std::stoi` throws on an empty part and on one above `INT_MAX` (`stoi_throws`),
and a fourth dot reaches behind the array. `INT_MAX` is a parameter; the run
gives it 32767, the smallest value C++ allows, so that a part beyond it fits
into nine keys beside its three dots, as one of ten digits fits into the fifteen
characters that `is_ipv4` allows. `is_int` takes a sign for an integer
(`IntegersHaveDigits`, violated). `ChecksAreWeaker` relates the checks of
`start` and `connect` to the conversions that follow them, which throw for some
of what passes: a port without a digit or above 65535, and (on the server, which
calls `make_address_v4`; the client's resolver reads such a part as octal) an
address with a leading zero.

## 3. Runs

| Run | Question | Instance and bounds |
|---|---|---|
| `room` | Is the server consistent, does it implement `Broadcast`, is everyone admitted, removed, served? | 2 peers; one is behind a NAT, sends 2 frames, of all kinds between them, and may reset, the other sends 1 message; 162 k states |
| `room_double_removal` | Is a member removed once? | 2 peers, 1 frame each; violated |
| `room_reset` | Does a removal remove? | 2 peers, one may reset; violated |
| `server_life` | Is a started server served, what does stop leave, does it return? | 2 peers, one may reset, 3 servers in turn; 32 k states |
| `server_restart` | Does a start forget the server that was stopped? | the same; violated |
| `client` | Is what is typed sent, in order, and the connection served to its end? | 2 clients in turn, 2 messages, 1 frame of any kind; 206 k states |
| `client_reconnect` | Does no handler run on a destroyed client? | 2 clients in turn, 1 message; violated |
| `transfer` | Does what is sent arrive intact, and what is refused? | 4 texts, 5 paths, 9 contents, 2 changes of the file; 10 k states |
| `crc_file_name` | Is the checksum by file name that of the file? | the same; violated |
| `log` | Does the log keep the latest lines unmixed, in order, and are they drawn? | 2 threads, server's and client's programs, 4 or 5 lines; width 1, height 3; 106 k states |
| `log_height` | Does the log keep to its height? | the same; violated |
| `shell` | How are lines split, addresses and ports judged? | every line of up to 9 keys (ports: 6) of five keyboards; 183 k states |

More configurations stand beside these runs. Three pass on larger instances of the
safety properties:

| Configuration | Instance |
|---|---|
| `RoomTwo.cfg` | 2 peers, 2 frames of any kind each, both may reset; 0.9 M states |
| `RoomThree.cfg` | 3 peers, 1 whole frame each, no resets, for `OneOrder` with two receivers and a list of three; 3.4 M states |
| `ClientThree.cfg` | 2 clients in turn, 3 messages, frames on both connections; 3.2 M states |

Each of the others finds one property violated, which states what a line of the
documentation says (section 5):

| Configuration | Violated property |
|---|---|
| `RoomNat.cfg` | `NoEcho`: nobody is sent what came from his own connection |
| `RoomPartial.cfg` | `BroadcastReachesAll`: a broadcast is queued for every member it is for |
| `ClientSend.cfg` | `SendingIsHarmless`: sending a message does not end the program |
| `ClientConnect.cfg` | `ConnectingIsHarmless`: a connection that is made does not end the program |
| `TransferLength.cfg` | `LengthOfTheData`: a header announces what follows it |
| `TransferReady.cfg` | `ReadyToSend`: a message's strings are inside its data |
| `LogWidth.cfg` | `KeepsToTheWidth`: a line is not longer than the width |
| `LogScreen.cfg` | `ScreenShowsTheLog`: the screen comes to show the log, under fair scheduling |
| `LogCrash.cfg` | `ShowingIsHarmless`: showing the log does not end the process |
| `ShellSplit.cfg` | `EveryLineIsSplit`: `split_args` returns |
| `ShellAddress.cfg` | `AddressesGetAnAnswer`: `is_ipv4` returns |
| `ShellNumber.cfg` | `IntegersHaveDigits`: what `is_int` accepts has a digit |

Why the bounds are enough. In `Room`, two peers give every race between a member
and one other actor: reads against broadcasts against completions, a reset in
front of or behind a member in the list. Two frames, with the announcements, let
a message arrive while another is queued and one is being written. Three peers
are what it takes for two members to receive the same announcements and for a
member to be erased from the middle of the list; that is left to `RoomThree.cfg`
and to the proofs. In `Client`, two messages are one that is written and one that
waits behind it; two objects are one destruction and one reuse of the io_context,
after which a third connect meets nothing new. All safety properties of both are
proved for every size (section 4); the bounds matter for liveness, which is checked
in the same runs. In `ServerLife`, three servers are
two restarts, so that handlers of two destroyed servers wait together; two
members are one that acts and one that is broadcast to. In `Transfer`, contents
have zero to two bytes below the limit and up to two above it, with zeros at the
front and at the end, names fit the header's bytes or not, two changes undo
each other or not, and one text and one content are longer than a header of these
widths can say; one buffer of the stream overload is two bytes, so files are
read in one to three parts, with and without an empty last one. In
`ScrollingLog`, five lines overflow a log of height 3, which keeps four. In
`Shell`, nine keys hold a dotted
quad with a part of three digits, a part above `INT_MAX` between three dots, two
quoted words, and five dots. A violated run uses the instance of a passing run or
the part of it that its counterexample needs.

What they show. `OperationDiscipline` and `Registry` are the consistency of the
server between two handlers. `Departures` says that a member leaves only for
what its own peer did, after everything whole it had sent was broadcast.
`OneOrder` and `ImplementsBroadcast` are its service: `Room` refines `Broadcast`
with `obj` as `status`, `history` as `log`, and as `owed[c]` what was written to
the socket of `c` followed by what is still queued; between the completion of a
write and its handler the front of the queue counts as written (`Unsent`). A
broadcast that an exception cuts short is a `Halt` that reaches part of its
audience, so the refinement does not say that a broadcast reaches everybody;
`BroadcastReachesAll` does, and is violated (`RoomPartial.cfg`). Who the origin
of a message is, is a question of the text the client wrote (`Claimed`):
`OneOrder` leaves out for a member what names its endpoint, wherever it came
from, and `NoEcho` asks that this be what it sent, which fails behind a NAT.
`TypedInOrder`, `ClosesForAReason` and `ServedWhileConnected` are the client's
counterparts: what is typed on a connection is on the wire, queued or posted in
this order; a socket is closed only for a reason; and `run()` does not return
under a connected client. `ServedWhileStarted` and `StopLeavesHandlers` are the
server's life, above. `ArrivesIntact` composes the client that sends, the
server's judgement and the client that receives; `RefusedForLength` lists all
the reasons for which something the client agreed to send is refused: a text,
which is never checked; a file with a name longer than the bytes of a header,
which is what the check leaves for it; a file that was larger when it was opened
than the check lets pass, so that it grew in between. A file that changed before
the check, shrank, vanished or could not be opened is not refused.

**Fairness.** In `Room`: the io thread runs every queued handler; the kernel
completes reads whose bytes or end have arrived and writes to a peer that is
there (it is assumed to read what it is sent), and fails writes to a reset
connection; an accept may fail again and again, as when descriptors run out, but
not for ever (SF). In `Client`: the io thread runs, a connect is answered or
times out, and a command once begun goes on; users and servers are not fair. In
`ServerLife`: the io thread runs, and a stop once begun goes on; that it returns
needs nothing of the peers. In `ScrollingLog`: the threads run and a contended
mutex is eventually granted (SF).

Deadlock is not checked: a server without peers, a log that is drawn and a
program that has ended rightly do nothing.

## 4. Proofs

Every theorem holds for all values of the constants that the assumptions allow,
which are the types of the constants (`MessagesAssumption`, `RoomAssumption`,
`LogAssumption`, `LetterAssumption`, `ServerLifeAssumption`, `ClientAssumption`,
`ShellAssumption`) and for `Transfer` the order of its sizes
(`TransferAssumption`). Each component has an inductive invariant (`IInv`;
`AbsInv` for `Broadcast`), one lemma per action (or per group of actions that do
the same to it), and theorems that read the properties off it.

| Module | Theorem | Property |
|---|---|---|
| `RoomProofs` | `TypeCorrect`, `OneReadOneWrite`, `MemberListIsExact` | `TypeOK`, `OperationDiscipline`, `Registry` |
| | `NobodyIsDroppedForAnother` | `Departures` |
| | `RoomImplementsService`, `MembersSeeOneOrder` | `ImplementsBroadcast`, `OneOrder` |
| `BroadcastProofs` | `ServiceKeepsOneOrder` | `OneOrder` of the abstract service |
| `ScrollingLogProofs` | `TypeCorrect`, `TheLatestAreKept`, `LinesAreDrawnInOrder` | `TypeOK`, `KeepsTheLatest`, `DrawnInOrder` |
| | `CallsStayTogether` | `CallsAreNotMixed` |
| | `MutualExclusion` | of `lines_mutex` |
| `ServerLifeProofs` | `TypeCorrect`, `StartedServersAreServed` | `TypeOK`, `ServedWhileStarted` |
| | `StopLeavesHandlersBehind` | `StopLeavesHandlers` |
| `ClientProofs` | `TypeCorrect`, `OneReadOneWrite` | `TypeOK`, `OperationDiscipline` |
| | `ClosesOnlyForAReason`, `ConnectedClientsAreServed` | `ClosesForAReason`, `ServedWhileConnected` |
| | `TypedArrivesInOrder` | `TypedInOrder` |
| `TransferProofs` | `TypeCorrect`, `MessagesArriveIntact` | `TypeOK`, `ArrivesIntact` |
| | `RefusalsExplained`, `MessagesStayInside` | `RefusedForLength`, `StaysInside` |
| `ShellProofs` | `TypeCorrect`, `LinesAreSplit` | `TypeOK`, `SplitsAtSpaces` |
| | `AddressesAreJudged`, `ChecksRelied` | `AcceptsQuads`, `ChecksAreWeaker` |

**Room.** `TypeOK`, `OperationDiscipline` and `Registry` are proved together, since
none is inductive alone. `Registry` needs the types for sequences; the discipline
of writes needs to know that whoever a broadcast reaches is in the list, and that
the list is exactly the live members (`Registry`), or a message would be queued
for a connection without a member; `Registry` in turn needs that a member with a
read outstanding is live (`OperationDiscipline`), so that the member a handler
removes is in the list. The lemmas on sequences without repetition
(`AppendDistinct`, `TailDistinct`, `RemoveAtDistinct`) carry `Registry` through
`push_back`, the accept and the erase. `Departures` needs what the outstanding
operations know (`Causes`): a read that failed on a connection that
was not reset found it closed and everything whole taken, and a write fails only
on a connection that was reset.

**Room implements Broadcast.** With `obj` as `status`, `history` as `log` and
`sent[c]` followed by `Unsent(c)` as `owed[c]`, every action maps to an action of
the service or to a stutter. Two facts of `IInv` are needed: a message is handed
to the socket by the only write outstanding, so it is the front one, and the
recipients of a broadcast that returns are exactly the members but the origin,
because the list is exact. `OneOrder` is proved of the service, where it says that
what a member is owed is the log since its arrival without what carries its own
endpoint (`Feed`). It is inductive there because an arrival is announced once;
`FeedGrows` is the step. It then carries over through the refinement.

**ScrollingLog.** While `add_line` works the deque lags behind the counter; the
invariant says by how much at each of its steps (`Added`, `Capacity`), and that the
holder of the mutex is the one thread in `append_log` (`Exclusive`). That no line
is drawn twice, although the drawing thread takes no mutex, follows because the
number of lines dropped from the deque only grows, so the next index always
stands for a later line than everything on the screen (`DrawsForward`).
That calls are not mixed is a statement about the text of all lines together, and
needs a second invariant (`TextInv`) on top of the first: what the holder of the
mutex has still to append has one letter, and whatever of that letter is in the
text stands at its end (`MayFollow`); the calls to come have letters of their own
(`CallsToCome`, from `LetterAssumption`, which says only that a letter stands for a
call). Wrapping and pushing a line move characters between `cur_line` and the deque
and leave the text as it is; trimming takes off a front of it (`CallsLeave`).

**Transfer.** The invariant says that a message, once sent, is what the
constructor makes of what was typed and measured (`MessageInv`), that the size
is that of some file (`SizeInv`), and how a message ends (`EndInv`). The rest is
arithmetic and layout: `Laid` says where the origin, the name and the file stand
in the data, `LaidFound` that the accessors, which look for zeros, find exactly
these (neither origin nor name has a zero inside), and `ModSum` and
`ModMultiple` that lengths which wrapped modulo 2^32 and 2^64 still add up.
`UnopenedMade` is the file that could not be opened, whose size is -1: its
message lacks the name's terminator, and `UnopenedOutside` shows that the
receiver then reads behind it, whatever the sizes are.

**Shell.** The loop itself needs only `TypeOK`; the work is in what one pass
over a line computes, for every line. Each proof is an induction over the line
(`SeqInduct`), whose invariant is what the loop knows after a prefix. For
`split_args` (`Knows`): the flag is the parity of the quotes, and the arguments
so far with the one in the making are the parts of the prefix without their
quotes. For `is_ipv4` (`ParsedSo`, `Agrees`): `part_index` is the number of
dots, and the array, without its empty entries, is the parts of the prefix.
`Parts`, which is defined by positions without a recursion, is shown to grow
with the line as the loops do: a separator changes nothing, any other character
extends the last part or begins a new one (`PartsSeparated`, `PartsExtended`).
An entry of the array that `std::stoi` throws on is then an empty part or one
above `INT_MAX`, whatever `INT_MAX` is, as long as it is not below 255.
`PaddedSo` relates the zeros that `make_address_v4` refuses to the parts, and
`DigitInFront` a leading zero to the value of a part.

**ServerLife.** The proof counts: `pending[k][op]` is how many operations of one
kind an object has under way or waiting as handlers, and nearly every step of an
io_context leaves it alone, for what it takes from one side it adds to the other
(a completion, or closing a socket: `CountsOfAborted`, from the lemmas on
handlers in `SequenceLemmas`). Every server that was ever constructed then has
exactly one accept pending (`OneEach`), and an accepted socket is carried by at
most one handler (`Sockets`). The other half is `StaleInFront`: from the first
stop on, the oldest waiting handler belongs to a destroyed object, so that the
model, which ends where such a handler runs, sees handlers of a live object only
before the first stop. That is why its theorems about later servers say little
of what the program does after that point, and why `RestartForgetsTheStopped` is
the statement about them.

**Client.** Only the last client constructed can be live (`Succession`), so
everything is said of that one: what is pending for it (`Discipline`), what the
handlers that wait for it have been told and that it is still so when they run
(`Told`: a read that failed on an open socket met a reset, or an end behind
everything shown), why its socket was closed (`Reason`), and what the
network can have delivered (`Arrivals`). `Threads` relates the shell to the io
thread: `run()` has returned under a connected client only if its socket was
closed or its connection refused, for otherwise a read is pending.
`TypedInOrder` is inductive relative to this (`OrderInv`): a completed write is the
only one (`WrittenOnce`), so the front of the queue is written once and popped by
its own handler; a post runs from the front of the posts to the back of the
queue; and what `disconnect` destroys is the end of what was typed.

**Induction.** The induction theorems of the library take a predicate as a
parameter, with which the provers cannot instantiate them. `NatInduct` in
`SequenceLemmas` takes the set of the numbers that have the property instead, and
is proved from the well-foundedness of `<` on the naturals; `SeqInduct` is its
counterpart for sequences that grow at the end. With them the recursive functions
of `Kept`, `Folded` and `FlattenSeq` are shown to have a solution, and what they
make of a longer sequence follows (`KeptAppend`, `KeptConcat`, `KeptTail`,
`FoldedAppend`, `FlattenSeqHead`); this is what the proofs about `Feed`, aborted
handlers, what was typed, the text of the log and the lines of the shell rest on.

**Only model-checked.**

* Liveness under fairness: `EveryoneIsAdmitted`, `TheGoneAreRemoved`, `QueuesDrain`,
  `TypedIsSent`, `DisconnectReturns`, `EndIsNoticed`, `StopReturns`,
  `EverythingIsAppended`, `ScreenCatchesUp`, `DrawingEnds`.
* `ChecksumsAgree`, of `Crc32`: it reaches `Bitwise`, whose operators are recursive
  and outside what the provers handle. `Transfer` does not depend on it.
* The violated properties of section 5, which are counterexamples.

## 5. Disagreements with the documentation

Each is a property that TLC finds violated, in a run of `PROJECT.json`, whose
`findings` quote the line, or in a configuration beside the runs.

The server:

* A member is removed twice: its read handler removes it while a write is
  outstanding, and the aborted write's handler, running on the destroyed object,
  asks once more; `remove_member` calls this "Double self-destruction"
  (`room_double_removal`).
* Removing a member whose connection was reset throws instead, and the server
  terminates (`room_reset`).
* "Send message to every member except message origin" (`room.hpp`) fails in both
  directions: behind a NAT, where the origin a client writes is not the endpoint
  the server sees, a message comes back to its sender (`RoomNat.cfg`); and a member
  whose connection was reset ends the loop, so that others do not get the message
  (`RoomPartial.cfg`).
* "Start server" after a stop runs the accept handler of the destroyed server
  (`server_restart`).

The client:

* After disconnect, connect runs the handlers the destroyed client left in the
  io_context (`client_reconnect`).
* "Send message" ends the program after the connection was closed
  (`ClientSend.cfg`), and connecting to a server that resets at once does
  (`ClientConnect.cfg`).

Messages and checksums:

* The header of a file that grew after the check may announce less than what
  follows (`TransferLength.cfg`), and a file that could not be opened is not made into
  a message "ready to send" (`TransferReady.cfg`).
* "Calculate crc32 of a file": the overload for a file name does not
  (`crc_file_name`).

The log and the shells:

* The log has one line more than its "Maximum number of the lines" and lines one
  character longer than the "Log line width limit" (`log_height`, `LogWidth.cfg`).
* "Show log" may leave a line out for good (`LogScreen.cfg`) or end the process
  (`LogCrash.cfg`).
* `is_ipv4` does not always return (`ShellAddress.cfg`), `split_args` throws on a space
  at the front (`ShellSplit.cfg`), and `is_int` is true of a sign alone (`ShellNumber.cfg`).

Visible in the models, without a configuration of their own:

* `get_recorded_lines_count` is the "Number of total lines added"
  (`scrolling_log.hpp`) but counts a line before it is added, which is one half of
  `LogScreen.cfg`.
* Ways for the programs to end that no document rules out: sending a file that is
  gone when its size is asked, a port above 65535 or an address with a leading zero
  (`ChecksAreWeaker`), a frame without terminators (`IllDataHandler`).

## 6. What is left

Every safety property of the runs but `ChecksumsAgree` is proved. The refinement is
one of safety: that `Room` hands everybody what it owes is `QueuesDrain`, which
stays with TLC, as all of liveness does.

Not modelled: the terminal (`Prisma.h`, `clear_log`, the base class's `run`, which
both programs override), which is output without state; the Windows branches of
the keyboard loop, which read other codes for the same keys; the build files and
the documentation's generation; the text of log entries. The send queues have
no limit in the code, so nothing is stated of their size. The result of a command,
which `process_cmd` drops, chooses between two messages to the user and nothing
else.
