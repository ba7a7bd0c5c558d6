------------------------------- MODULE Shell -------------------------------
(***************************************************************************)
(* The command line both programs share: the loop that reads keys          *)
(* (scft-srv/main.cpp and scft-clt/main.cpp, run), how a line is split and *)
(* its command looked up, and how an address and a port are recognised     *)
(* (basic_shell.cpp) and then converted.  What a command does is modelled  *)
(* in Client and ServerLife.                                               *)
(*                                                                         *)
(* A character is a string of length one.  Keys that are not printable     *)
(* leave the line as it is and are left out, but for ESC.                  *)
(***************************************************************************)
EXTENDS Integers, SequencesExt, FiniteSetsExt, Subsequences

CONSTANTS
  Keyboards, \* sets of keys; a user keeps to one of them
  MaxLength, \* bound: the length of a line on each keyboard
  INT_MAX,   \* the largest int
  m_commands \* the names of the commands; quit is one of them

quit_command == <<"q">>
Digits == <<"0", "1", "2", "3", "4", "5", "6", "7", "8", "9">>
Digit == Range(Digits)
Value == [d \in Digit |-> CHOOSE n \in 0..9 : Digits[n + 1] = d]
\* The characters of a line.
Char == (UNION Keyboards) \cup Digit
QUOTE == "\""
ESC == "ESC"

ASSUME ShellAssumption ==
  /\ MaxLength \in [Keyboards -> Nat]
  /\ INT_MAX \in Nat /\ INT_MAX >= 255
  /\ quit_command \in m_commands

VARIABLES
  keys,        \* the keyboard
  cur_command, \* the line so far
  swallowed,   \* how many keys are still part of an escape sequence
  input_len,   \* the column of the cursor, read by the drawing thread
  shell        \* "reading", "threw" or "quit"; how the last line ended:
               \* "called" or "unknown"

vars == <<keys, cur_command, swallowed, input_len, shell>>

-----------------------------------------------------------------------------
(* split_args. *)

\* A line always has an argument, an empty one at least: none stands for the
\* exception.
Threw == <<>>

\* Mutant: a space inside quotes separates too.
is_inside_quote_Never(s) == FALSE

is_inside_quote(s) == s.is_inside_quote

\* What the loop knows before a character; before is the one before that, if
\* there is one.
Scan ==
  [is_inside_quote : BOOLEAN, arguments : Seq(Seq(Char)), cur_arg : Seq(Char),
   before : Seq(Char), threw : BOOLEAN]

\* One character.  A space that separates looks at the character before it,
\* and command.at(index - 1) throws if there is none.
Scanned(s, ch) ==
  LET t == [s EXCEPT !.before = <<ch>>]
  IN  IF ch = QUOTE THEN [t EXCEPT !.is_inside_quote = ~@]
      ELSE IF ch # " " \/ is_inside_quote(s)
           THEN [t EXCEPT !.cur_arg = Append(@, ch)]
      ELSE IF s.before = <<>> THEN [t EXCEPT !.threw = TRUE]
      ELSE IF s.before = <<" ">> THEN t
      ELSE [t EXCEPT !.arguments = Append(@, s.cur_arg), !.cur_arg = <<>>]

Unscanned ==
  [is_inside_quote |-> FALSE, arguments |-> <<>>, cur_arg |-> <<>>,
   before |-> <<>>, threw |-> FALSE]

split_args(command) ==
  LET s == Folded([s \in Scan |-> [ch \in Char |-> Scanned(s, ch)]], Unscanned, command)
  IN  IF s.threw THEN Threw ELSE Append(s.arguments, s.cur_arg)

-----------------------------------------------------------------------------
(* is_ipv4. *)

Parse ==
  [ipv4_parts : [0..3 -> Seq(Digit)], part_index : Nat,
   verdict : {"open", "no", "undefined"}]

\* What one character does to the parts, unless a verdict has been reached.
\* A digit after a fourth dot goes to ipv4_parts[4], which does not exist.
Parsed(p, ch) ==
  IF p.verdict # "open" THEN p
  ELSE IF ch \in Digit
  THEN IF p.part_index > 3 THEN [p EXCEPT !.verdict = "undefined"]
       ELSE [p EXCEPT !.ipv4_parts[p.part_index] = Append(@, ch)]
  ELSE IF ch = "." THEN [p EXCEPT !.part_index = @ + 1]
  ELSE [p EXCEPT !.verdict = "no"]

\* The number that digits stand for.
Decimal(digits) == Folded([n \in Nat |-> [d \in Digit |-> 10 * n + Value[d]]], 0, digits)

\* std::stoi throws invalid_argument on an empty part, out_of_range on one that
\* is no int.
stoi_throws(part) == part = <<>> \/ Decimal(part) > INT_MAX

\* Mutant: 255 is out of range.
PartVerdict_LessThan255(part) ==
  IF stoi_throws(part) THEN "throws" ELSE IF Decimal(part) >= 255 THEN "no" ELSE "yes"

PartVerdict(part) ==
  IF stoi_throws(part) THEN "throws" ELSE IF Decimal(part) > 255 THEN "no" ELSE "yes"

Unparsed ==
  [ipv4_parts |-> [i \in 0..3 |-> <<>>], part_index |-> 0, verdict |-> "open"]

\* "yes", "no", "throws" or "undefined".
is_ipv4(str) ==
  LET p == Folded([p \in Parse |-> [ch \in Char |-> Parsed(p, ch)]], Unparsed, str)
      refusing == {i \in 0..3 : PartVerdict(p.ipv4_parts[i]) # "yes"}
  IN  IF Len(str) > 15 \/ Len(str) < 7 THEN "no"
      ELSE IF p.verdict # "open" THEN p.verdict
      ELSE IF p.part_index # 3 THEN "no"
      ELSE IF refusing = {} THEN "yes"
      ELSE PartVerdict(p.ipv4_parts[Min(refusing)])

-----------------------------------------------------------------------------
(* is_int, and what start and connect make of arguments that passed. *)

\* Mutant: the first character decides.
is_int_First(str) == str = <<>> \/ str[1] \in Digit \cup {"-"}

is_int(str) == \A i \in DOMAIN str : str[i] \in Digit \cup (IF i = 1 THEN {"-"} ELSE {})

\* boost::lexical_cast<std::uint16_t>: none stands for the exception.  A number
\* with a sign is subtracted from 2^16.
lexical_cast(str) ==
  LET negative == str # <<>> /\ str[1] = "-"
      digits == IF negative THEN Tail(str) ELSE str
  IN  IF digits = <<>> \/ ~(Range(digits) \subseteq Digit) \/ Decimal(digits) > 65535
      THEN {}
      ELSE {IF negative THEN (65536 - Decimal(digits)) % 65536 ELSE Decimal(digits)}

\* boost::asio::ip::make_address_v4 throws for a part that is not written in
\* the shortest way.
make_address_v4_throws(str) ==
  \E i \in DOMAIN str :
    /\ str[i] = "0"
    /\ i = 1 \/ str[i - 1] = "."
    /\ i < Len(str) /\ str[i + 1] # "."

-----------------------------------------------------------------------------
(* run and process_cmd. *)

Init ==
  /\ keys \in Keyboards
  /\ cur_command = <<>>
  /\ swallowed = 0
  /\ input_len = 0
  /\ shell = "reading"

\* The next key is not part of an escape sequence.
Reading == shell \in {"reading", "called", "unknown"} /\ swallowed = 0

PushChar(ch) ==
  /\ Reading
  /\ ch # ESC
  /\ input_len < MaxLength[keys]
  /\ cur_command' = Append(cur_command, ch)
  /\ input_len' = input_len + 1
  /\ shell' = "reading"
  /\ UNCHANGED <<keys, swallowed>>

\* Mutant: the cursor stays.
CursorBack_Not == input_len

CursorBack == input_len - 1

Backspace ==
  /\ Reading
  /\ input_len > 0
  /\ cur_command' = Front(cur_command)
  /\ input_len' = CursorBack
  /\ shell' = "reading"
  /\ UNCHANGED <<keys, swallowed>>

\* The two keys after ESC are swallowed, whatever they are.
Escape ==
  /\ Reading
  /\ ESC \in keys
  /\ swallowed' = 2
  /\ shell' = "reading"
  /\ UNCHANGED <<keys, cur_command, input_len>>

Swallow ==
  /\ swallowed > 0
  /\ swallowed' = swallowed - 1
  /\ UNCHANGED <<keys, cur_command, input_len, shell>>

\* A command that is found is called, and what it returns is dropped.
process_cmd(args) ==
  shell' = IF args = Threw THEN "threw"
           ELSE IF args[1] = quit_command THEN "quit"
           ELSE IF args[1] \in m_commands THEN "called" ELSE "unknown"

Enter ==
  /\ Reading
  /\ process_cmd(split_args(cur_command))
  /\ cur_command' = <<>>
  /\ input_len' = 0
  /\ UNCHANGED <<keys, swallowed>>

Next == (\E ch \in keys : PushChar(ch)) \/ Backspace \/ Escape \/ Swallow \/ Enter

Spec == Init /\ [][Next]_vars

-----------------------------------------------------------------------------
(* Properties. *)

\* The cursor stands behind the line.  (main.cpp, run: input_len.)
TypeOK ==
  /\ keys \in Keyboards
  /\ cur_command \in Seq(keys \ {ESC})
  /\ swallowed \in 0..2
  /\ input_len = Len(cur_command)
  /\ shell \in {"reading", "called", "unknown", "threw", "quit"}

\* The parts of s between the positions in separators: the n-th reaches from the
\* n-th place where one begins to the n-th place where one ends.
Parts(s, separators) ==
  LET places == [i \in DOMAIN s |-> i]
      inside == DOMAIN s \ separators
      firsts == Kept(places, {i \in inside : i - 1 \notin inside})
      lasts  == Kept(places, {i \in inside : i + 1 \notin inside})
  IN  [n \in DOMAIN firsts |-> SubSeq(s, firsts[n], lasts[n])]

SeparatingSpaces(s) ==
  {i \in DOMAIN s :
     /\ s[i] = " "
     /\ Cardinality({j \in 1..(i - 1) : s[j] = QUOTE}) % 2 = 0}

\* word without the character ch.
Without(word, ch) == Kept(word, Char \ {ch})

\* What split_args promises.
Words(line) ==
  LET spaces == SeparatingSpaces(line)
      parts  == Parts(line, spaces)
  IN  IF 1 \in spaces THEN Threw
      ELSE [i \in DOMAIN parts |-> Without(parts[i], QUOTE)]
             \o (IF line = <<>> \/ Len(line) \in spaces THEN << <<>> >> ELSE <<>>)

\* A line is split at its spaces outside quotes, and a space at the end adds an
\* empty argument; only a line that begins with a space is not split, and ends
\* the program instead.  (basic_shell.cpp:67-109.)
SplitsAtSpaces == split_args(cur_command) = Words(cur_command)

Dots(s) == {i \in DOMAIN s : s[i] = "."}

IsQuad(s) ==
  LET parts == Parts(s, Dots(s))
  IN  /\ Len(s) \in 7..15
      /\ Cardinality(Dots(s)) = 3
      /\ Len(parts) = 4
      /\ \A i \in DOMAIN parts :
           Range(parts[i]) \subseteq Digit /\ Decimal(parts[i]) <= 255

VerdictOf(line) ==
  LET verdict == is_ipv4(line)
  IN  /\ verdict = "yes" <=> IsQuad(line)
      /\ verdict = "throws" =>
           /\ Cardinality(Dots(line)) = 3
           /\ \/ Len(Parts(line, Dots(line))) < 4
              \/ \E part \in Range(Parts(line, Dots(line))) : Decimal(part) > INT_MAX
      /\ verdict = "undefined" => Cardinality(Dots(line)) > 3

\* An address is accepted exactly if it is four numbers up to 255 between three
\* dots; the check throws only on three dots, with nothing between two of them
\* or at an end or with a number that is no int, and reaches behind the array
\* only on four dots or more.
\* (basic_shell.cpp:33-65.)
AcceptsQuads == VerdictOf(cur_command)

\* What is asked whether it is an address is told yes or no.  (basic_shell.hpp:
\* is_ipv4 returns "True if valid ipv4 address".)
AddressesGetAnAnswer == is_ipv4(cur_command) \in {"yes", "no"}

\* A line is split, whatever it is.  (basic_shell.hpp: split_args returns "Split
\* args".)
EveryLineIsSplit == split_args(cur_command) # Threw

\* What passes for an integer has a digit.  (basic_shell.hpp: is_int returns
\* "True if valid integer".)
IntegersHaveDigits ==
  cur_command # <<>> /\ is_int(cur_command) => Range(cur_command) \cap Digit # {}

\* Without its first digit the number would be the same.
ZeroInFront(part) == Len(part) > 1 /\ Decimal(Tail(part)) = Decimal(part)

AddressRelied(line) ==
  is_ipv4(line) = "yes" =>
    (make_address_v4_throws(line) <=>
       \E part \in Range(Parts(line, Dots(line))) : ZeroInFront(part))

PortRelied(line) ==
  is_int(line) =>
    LET digits == Without(line, "-")
        port == lexical_cast(line)
        n == Decimal(digits)
    IN  /\ Range(digits) \subseteq Digit
        /\ port = {} <=> digits = <<>> \/ n > 65535
        /\ \A p \in port :
             (IF Head(line) = "-" THEN p + n ELSE p - n) % 65536 = 0

\* What the commands check is weaker than what they then rely on.  An address
\* that passes ends the server program, by an exception, exactly if a part of it
\* begins with a zero it does not need; a port that passes ends either program
\* exactly if it has no digit or is above 65535, and a negative one is taken for
\* the number 2^16 above it.  (scft-srv/main.cpp:45, 49, scft-clt/main.cpp:60, 64.)
ChecksAreWeaker == AddressRelied(cur_command) /\ PortRelied(cur_command)
=============================================================================
