----------------------------- MODULE Broadcast ------------------------------
(***************************************************************************)
(* What the chat room promises, without sockets, queues or handlers: one   *)
(* log of announcements that every member sees, from its own arrival on,   *)
(* in the same order and without gap or repetition, except those whose     *)
(* origin is the member itself.  The room may halt at any time; a halt in  *)
(* the middle of an announcement reaches only some of its audience.        *)
(***************************************************************************)
EXTENDS Messages, Subsequences

VARIABLES
  up,      \* the room is running
  status,  \* status[c]: where the client stands
  log,     \* every announcement made, oldest first
  owed,    \* owed[c]: what has been announced to c since it joined
  got,     \* got[c]: what of it has been handed to c's connection
  said     \* said[c]: how many messages of c have been announced

absVars == <<up, status, log, owed, got, said>>

Inside == {c \in Conns : status[c] = "live"}

\* Who an announcement is for: every member that is not its origin.
Audience(msg) == {c \in Inside : get_origin(msg) # c}

\* What every client is owed once msg has been announced to an audience.
Told(msg, audience) ==
  [c \in Conns |-> IF c \in audience THEN Append(owed[c], msg) ELSE owed[c]]

Announce(msg, audience) ==
  /\ log' = Append(log, msg)
  /\ owed' = Told(msg, audience)

AbsInit ==
  /\ up = TRUE
  /\ status = [c \in Conns |-> "none"]
  /\ log = <<>>
  /\ owed = [c \in Conns |-> <<>>]
  /\ got = [c \in Conns |-> <<>>]
  /\ said = [c \in Conns |-> 0]

Join(c) ==
  /\ up
  /\ status[c] = "none"
  /\ Announce(HasJoined(c), Audience(HasJoined(c)))
  /\ status' = [status EXCEPT ![c] = "live"]
  /\ UNCHANGED <<up, got, said>>

Publish(c) ==
  /\ up
  /\ status[c] = "live"
  /\ said[c] < MaxFrames
  /\ Announce(Data(c, said[c] + 1), Audience(Data(c, said[c] + 1)))
  /\ said' = [said EXCEPT ![c] = @ + 1]
  /\ UNCHANGED <<up, status, got>>

\* Whoever leaves forgoes what was not yet handed to its connection.
Leave(c) ==
  /\ up
  /\ status[c] = "live"
  /\ log' = Append(log, HasLeft(c))
  /\ owed' = [Told(HasLeft(c), Audience(HasLeft(c))) EXCEPT ![c] = got[c]]
  /\ status' = [status EXCEPT ![c] = "freed"]
  /\ UNCHANGED <<up, got, said>>

\* The next announcement owed to c goes out, in order.
Deliver(c) ==
  /\ up
  /\ status[c] = "live"
  /\ Len(got[c]) < Len(owed[c])
  /\ got' = [got EXCEPT ![c] = Append(@, owed[c][Len(@) + 1])]
  /\ UNCHANGED <<up, status, log, owed, said>>

\* The room stops, possibly half-way through the announcement of msg.
Halt ==
  /\ up
  /\ up' = FALSE
  /\ \/ UNCHANGED <<log, owed>>
     \/ \E msg \in Message : \E reached \in SUBSET Audience(msg) :
          Announce(msg, reached)
  /\ UNCHANGED <<status, got, said>>

AbsNext ==
  \/ \E c \in Conns : Join(c) \/ Publish(c) \/ Leave(c) \/ Deliver(c)
  \/ Halt

AbsSpec == AbsInit /\ [][AbsNext]_absVars

-----------------------------------------------------------------------------
(***************************************************************************)
(* What every member of a running room can rely on.                        *)
(***************************************************************************)

\* The announcements that do not carry the endpoint of c as origin.
NotFrom(c) == {msg \in Message : get_origin(msg) # c}

\* Where c joined.
Arrival(c) == CHOOSE i \in 1..Len(log) : log[i] = HasJoined(c)

\* The part of the log c is entitled to: what follows its own arrival, but what
\* it said itself.
Feed(c) == Kept(SubSeq(log, Arrival(c) + 1, Len(log)), NotFrom(c))

\* All members agree on one order: what a member is owed is its part of the
\* common log, and what it got so far is an initial segment of that.
OneOrder ==
  up => \A c \in Inside :
          /\ owed[c] = Feed(c)
          /\ got[c] = SubSeq(owed[c], 1, Len(got[c]))
=============================================================================
