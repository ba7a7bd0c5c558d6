------------------------------ MODULE Transfer ------------------------------
(***************************************************************************)
(* One message on its way: built from what the user typed (scft-clt/        *)
(* main.cpp sendtext and sendfile, scft_message.cpp), judged by the server, *)
(* and taken apart by a client that receives it (client.cpp).  While a file *)
(* is sent somebody may change it, remove it or make it unreadable.        *)
(*                                                                         *)
(* Strings, files and messages are sequences of bytes.  Sizes are at scale: *)
(* the limit of a message, the header and the integer types are parameters. *)
(***************************************************************************)
EXTENDS Integers, SequencesExt, FiniteSetsExt

CONSTANTS
  HEADER_SIZE,
  MAX_DATA_LENGTH,
  U8, U32, U64, \* the numbers of values of uint8_t, uint32_t and std::size_t
  Origin,       \* the address and the port of the sender
  Texts,        \* what sendtext makes of its arguments
  Paths,        \* what the user may type as the path of a file
  Contents,     \* what may be in the file
  checksum(_),  \* the CRC-32 of a sequence of bytes (Crc32)
  MaxChanges    \* bound: how often the file changes on the way

NUL == 0
Slashes == {47, 92}
Bytes == Seq(0..255)

ASSUME TransferAssumption ==
  /\ HEADER_SIZE \in Nat /\ MAX_DATA_LENGTH \in Nat
  /\ HEADER_SIZE < MAX_DATA_LENGTH
  /\ U8 \in Nat /\ U32 \in Nat /\ U64 \in Nat
  /\ MAX_DATA_LENGTH + U8 <= U32 /\ U32 <= U64 /\ U64 % U32 = 0
  /\ Origin \in Bytes /\ Len(Origin) + 1 < U8
  /\ Texts \subseteq Bytes /\ Paths \subseteq Bytes /\ Contents \subseteq Bytes
  /\ \A s \in Texts \cup Paths \cup {Origin} : NUL \notin Range(s)
  \* What the user has is addressed with 64 bits.
  /\ \A path \in Paths, bytes \in Contents :
       Len(Origin) + Len(path) + Len(bytes) + 2 < U64
  /\ MaxChanges \in Nat

Typed == [type : {"TEXT"}, string : Texts] \cup [type : {"WRITE_FILE"}, string : Paths]

File == [exists : BOOLEAN, readable : BOOLEAN, bytes : Contents]

VARIABLES
  typed,     \* what the user typed: the type of the message and its string
  file,      \* the file at that path
  changes,   \* how often it changed
  stage,     \* how far the message is; or how it ended
  file_size, \* the size init_as_file() measured
  message,
  received   \* what the receiving client shows or writes

vars == <<typed, file, changes, stage, file_size, message, received>>

Nothing == [type |-> "RESERVED"]

Init ==
  /\ typed \in Typed
  /\ file \in File
  /\ changes = 0
  /\ stage = "typed"
  /\ file_size = 0
  /\ message = Nothing
  /\ received = Nothing

-----------------------------------------------------------------------------
(* A message: the header as a record, and the data that follow it. *)

Made(type, stringdata_len, data) ==
  [type |-> type, origin_len |-> (Len(Origin) + 1) % U8,
   stringdata_len |-> stringdata_len % U32,
   checksum |-> checksum(data), data |-> data]

init_as_text(text) ==
  Made("TEXT", Len(text) + 1, Origin \o <<NUL>> \o text \o <<NUL>>)

\* Mutant: only slashes separate.
out_filepath_Slashes(path) ==
  SubSeq(path, Max({i \in DOMAIN path : path[i] = 47} \cup {0}) + 1, Len(path))

out_filepath(path) ==
  SubSeq(path, Max({i \in DOMAIN path : path[i] \in Slashes} \cup {0}) + 1, Len(path))

\* What in_file.read() puts into the vector of zeros: nothing, if the file could
\* not be opened.
Contained(bytes, size) ==
  [i \in 1..(IF size = U64 - 1 THEN 0 ELSE size) |->
     IF i \in DOMAIN bytes THEN bytes[i] ELSE 0]

\* The vector has the size that the sum, modulo 2^64, gives it.
init_as_file(path, bytes, size) ==
  LET name == out_filepath(path)
      data == Origin \o <<NUL>> \o name \o <<NUL>> \o Contained(bytes, size)
  IN  Made("WRITE_FILE", Len(name) + 1 + size,
           SubSeq(data, 1, (Len(Origin) + 1 + Len(name) + 1 + size) % U64))

bad_header(msg) ==
  \/ msg.type \notin {"TEXT", "WRITE_FILE"}
  \/ msg.stringdata_len > MAX_DATA_LENGTH

get_data_len(msg) == (msg.origin_len + msg.stringdata_len) % U32

\* What a reader has after adjust(): as many bytes as the header says.
Read(msg) == [msg EXCEPT !.data = SubSeq(@, 1, get_data_len(msg))]

\* The zeros in data behind an offset; a string ends at the first of them.
Ends(data, offset) == {i \in DOMAIN data : i > offset /\ data[i] = NUL}
strlen(data, offset) == Min(Ends(data, offset)) - offset - 1
StringAt(data, offset) == SubSeq(data, offset + 1, offset + strlen(data, offset))

\* Mutant: the terminator of the name is not subtracted.
get_file_buffer_len_Terminator(msg) ==
  (msg.stringdata_len - strlen(msg.data, msg.origin_len)) % U32

get_file_buffer_len(msg) ==
  (msg.stringdata_len - strlen(msg.data, msg.origin_len) - 1) % U32

\* Where the file begins in the data.
get_file_buffer(msg) == msg.origin_len + strlen(msg.data, msg.origin_len) + 1

-----------------------------------------------------------------------------
(* The client that sends. *)

At(from, to) ==
  /\ stage = from
  /\ stage' = to
  /\ UNCHANGED <<typed, changes>>

Unbuilt == UNCHANGED <<file_size, message, received>>

\* Mutant: the header is not subtracted.
MaxFileSize_NoHeader == MAX_DATA_LENGTH

MaxFileSize == MAX_DATA_LENGTH - HEADER_SIZE

cmd_sendtext ==
  /\ typed.type = "TEXT"
  /\ At("typed", "sent")
  /\ message' = init_as_text(typed.string)
  /\ UNCHANGED <<file, file_size, received>>

\* is_regular_file()
LooksForFile ==
  /\ typed.type = "WRITE_FILE"
  /\ At("typed", IF file.exists THEN "found" ELSE "not sent")
  /\ Unbuilt
  /\ UNCHANGED file

\* file_size(), which throws if there is no file any more.
ChecksSize ==
  /\ At("found", IF ~file.exists THEN "threw"
                 ELSE IF Len(file.bytes) > MaxFileSize THEN "not sent" ELSE "fits")
  /\ Unbuilt
  /\ UNCHANGED file

\* Mutant: the size keeps its sign.
tellg_Signed == IF file.exists /\ file.readable THEN Len(file.bytes) ELSE -1

\* -1, as a std::size_t, if the file could not be opened.
tellg == IF file.exists /\ file.readable THEN Len(file.bytes) ELSE U64 - 1

Opens ==
  /\ At("fits", "open")
  /\ file_size' = tellg
  /\ UNCHANGED <<file, message, received>>

\* With the size -1 the name's terminator is written behind the vector: that
\* may end the program, or go unnoticed.
cmd_sendfile ==
  /\ \/ At("open", "sent")
     \/ file_size = U64 - 1 /\ At("open", "outside")
  /\ message' = init_as_file(typed.string, file.bytes, file_size)
  /\ UNCHANGED <<file, file_size, received>>

\* Somebody else changes the file.
FileChanges ==
  /\ stage \in {"found", "fits", "open"}
  /\ changes < MaxChanges
  /\ changes' = changes + 1
  /\ file' \in File
  /\ Unbuilt
  /\ UNCHANGED <<typed, stage>>

-----------------------------------------------------------------------------
(* The server and the client that receives. *)

\* The server drops the sender for a header it refuses.
Judged ==
  /\ stage = "sent"
  /\ At("sent", IF bad_header(message) THEN "refused" ELSE "accepted")
  /\ Unbuilt
  /\ UNCHANGED file

\* Who takes a message apart finds its strings and its file in its data.
Inside(msg) ==
  /\ Ends(msg.data, msg.origin_len) # {}
  /\ msg.type = "WRITE_FILE" =>
       get_file_buffer(msg) + get_file_buffer_len(msg) <= Len(msg.data)

\* What the receiver logs of a message, and writes to a file.
Taken(msg) ==
  [type |-> msg.type,
   intact |-> msg.checksum = checksum(msg.data),
   origin |-> StringAt(msg.data, 0),
   string |-> StringAt(msg.data, msg.origin_len),
   bytes |-> IF msg.type = "TEXT" THEN <<>>
             ELSE SubSeq(msg.data, get_file_buffer(msg) + 1,
                         get_file_buffer(msg) + get_file_buffer_len(msg))]

\* What follows the data that the header announces is taken for the next
\* header; that is not followed here.
TakenApart ==
  /\ stage = "accepted"
  /\ Len(message.data) >= get_data_len(message)
  /\ \/ /\ Inside(Read(message))
        /\ At("accepted", "received")
        /\ received' = Taken(Read(message))
     \/ /\ ~Inside(Read(message))
        /\ At("accepted", "outside")
        /\ UNCHANGED received
  /\ UNCHANGED <<file, file_size, message>>

Next ==
  \/ cmd_sendtext
  \/ LooksForFile \/ ChecksSize \/ Opens \/ cmd_sendfile \/ FileChanges
  \/ Judged \/ TakenApart

Spec == Init /\ [][Next]_vars

-----------------------------------------------------------------------------
(* Properties. *)

\* Types, with lengths in the range of their C++ types.
TypeOK ==
  /\ typed \in Typed
  /\ file \in File
  /\ changes \in 0..MaxChanges
  /\ stage \in {"typed", "found", "fits", "open", "sent", "accepted",
                "received", "not sent", "threw", "refused", "outside"}
  /\ file_size \in 0..(U64 - 1)
  /\ message # Nothing =>
       /\ message.origin_len \in 0..(U8 - 1)
       /\ message.stringdata_len \in 0..(U32 - 1)
       /\ message.data \in Bytes

IsBaseName(name, path) ==
  /\ Range(name) \cap Slashes = {}
  /\ \/ name = path
     \/ \E i \in DOMAIN path : path[i] \in Slashes /\ name = SubSeq(path, i + 1, Len(path))

\* The lengths of the header cannot say how long the message is: a text that was
\* never checked, or a file that grew a lot since it was.
TooLongForHeader == Len(message.data) >= U32

\* What one client is shown is what the other sent, with its checksum right: the
\* text, or the last component of the path and the file as long as it was when
\* it was opened, with the same bytes if nobody changed it; unless the message
\* is too long for its header.  (scft_message.cpp: the accessors undo what the
\* constructor does.)
ArrivesIntact ==
  stage = "received" /\ ~TooLongForHeader =>
    /\ received.type = typed.type
    /\ received.intact
    /\ received.origin = Origin
    /\ typed.type = "TEXT" => received.string = typed.string
    /\ typed.type = "WRITE_FILE" =>
         /\ IsBaseName(received.string, typed.string)
         /\ Len(received.bytes) = file_size
         /\ changes = 0 => received.bytes = file.bytes

\* The file was opened, and larger then than ChecksSize lets pass: it grew in
\* between.
GrewSinceChecked == file_size \in (MaxFileSize + 1)..(U64 - 2)

\* Of what the client agreed to send, the server refuses only a text that was
\* never checked and is too long, a file with a name too long for the bytes the
\* size check leaves (those of a header), and one that grew between the check
\* and its opening; one that changed before, shrank, vanished or could not be
\* opened is not refused.  (scft-clt/main.cpp:98 and 120, scft_message.cpp:71.)
RefusedForLength ==
  stage = "refused" =>
    \/ typed.type = "TEXT" /\ Len(typed.string) >= MAX_DATA_LENGTH
    \/ /\ typed.type = "WRITE_FILE"
       /\ Len(out_filepath(typed.string)) + 1 > HEADER_SIZE \/ GrewSinceChecked

\* The header of a message announces exactly the data that follow it, up to
\* multiples of 2^32, or the next message would be read from the middle of this
\* one; and who takes it apart stays inside it, unless the file could not be
\* opened by its sender or is too long for the header.  (scft_message.cpp:
\* resize, the memcpys, and strlen in the accessors.)
StaysInside ==
  /\ message # Nothing => get_data_len(message) = Len(message.data) % U32
  /\ stage = "outside" => file_size = U64 - 1 \/ TooLongForHeader

\* What the header announces is what follows it.  (scft_message.hpp: get_data_len
\* returns "Length of the data (origin + stringdata)".)
LengthOfTheData == message # Nothing => get_data_len(message) = Len(message.data)

\* What the constructor makes has its strings and its file in its data.
\* (scft_message.hpp: it "Creates message ready to send".)
ReadyToSend == message # Nothing => Inside(message)
=============================================================================
