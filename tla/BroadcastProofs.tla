-------------------------- MODULE BroadcastProofs --------------------------
(***************************************************************************)
(* Proofs about Broadcast: all members see one order of announcements.     *)
(* Feed is defined by recursion over the log, and grows with it, because a *)
(* member's arrival is announced exactly once.                             *)
(***************************************************************************)
EXTENDS Broadcast, SequenceLemmas, SequenceTheorems, TLAPS

AbsTypeOK ==
  /\ up \in BOOLEAN
  /\ status \in [Conns -> {"none", "live", "freed"}]
  /\ log \in Seq(Message)
  /\ owed \in [Conns -> Seq(Message)]
  /\ got \in [Conns -> Seq(Message)]
  /\ said \in [Conns -> 0..MaxFrames]

\* The log has the arrival of c, and has it once.
ArrivedOnce(c) ==
  \E i \in DOMAIN log :
    /\ log[i] = HasJoined(c)
    /\ \A j \in DOMAIN log : log[j] = HasJoined(c) => j = i

\* Nobody has heard of c, and c has heard of nothing.
Unheard(c) ==
  /\ \A i \in DOMAIN log : log[i] # HasJoined(c)
  /\ owed[c] = <<>>
  /\ got[c] = <<>>

\* What was handed over is a beginning of what is owed.
HandedInOrder(c) ==
  /\ Len(got[c]) <= Len(owed[c])
  /\ \A i \in 1..Len(got[c]) : got[c][i] = owed[c][i]

InStep(c) ==
  /\ status[c] = "none" => Unheard(c)
  /\ status[c] = "live" =>
       ArrivedOnce(c) /\ owed[c] = Feed(c) /\ HandedInOrder(c)

AbsInv == AbsTypeOK /\ (up => \A c \in Conns : InStep(c))

-----------------------------------------------------------------------------
(* Messages, and the log they are appended to. *)

LEMMA MessageKinds ==
  ASSUME NEW c \in Conns
  PROVE  /\ HasJoined(c) \in Message
         /\ HasLeft(c) \in Message
         /\ \A n \in 0..MaxFrames : Data(c, n) \in Message
         /\ \A d \in Conns :
              /\ HasJoined(c) = HasJoined(d) => c = d
              /\ HasLeft(c) # HasJoined(d)
              /\ \A n : Data(c, n) # HasJoined(d)
BY MessagesAssumption DEF HasJoined, HasLeft, Data, Message

\* An announcement is in the feed of every member but its origin.
LEMMA FeedGrows ==
  ASSUME AbsTypeOK, NEW c \in Conns, ArrivedOnce(c),
         NEW msg \in Message, msg # HasJoined(c), log' = Append(log, msg)
  PROVE  /\ ArrivedOnce(c)'
         /\ Feed(c)' = IF get_origin(msg) # c THEN Append(Feed(c), msg) ELSE Feed(c)
         /\ Feed(c) \in Seq(Message)
<1>1. /\ log \in Seq(Message)
      /\ log' \in Seq(Message)
      /\ Len(log) \in Nat
      /\ DOMAIN log = 1..Len(log)
      /\ DOMAIN log' = 1..(Len(log) + 1)
      /\ Len(log') = Len(log) + 1
      /\ \A i \in 1..Len(log) : log'[i] = log[i]
      /\ log'[Len(log) + 1] = msg
  BY AppendProperties, LenProperties DEF AbsTypeOK
<1>2. PICK a \in 1..Len(log) :
        /\ log[a] = HasJoined(c)
        /\ \A j \in 1..Len(log) : log[j] = HasJoined(c) => j = a
  BY <1>1 DEF ArrivedOnce
<1>3. \A j \in 1..(Len(log) + 1) : log'[j] = HasJoined(c) => j = a
  <2>1. ASSUME NEW j \in 1..(Len(log) + 1), log'[j] = HasJoined(c) PROVE j = a
    <3>1. j # Len(log) + 1
      BY <1>1, <2>1
    <3>2. j \in 1..Len(log)
      BY <1>1, <3>1
    <3>3. QED BY <1>1, <1>2, <2>1, <3>2
  <2>2. QED BY <2>1
<1>4. a \in 1..(Len(log) + 1) /\ log'[a] = HasJoined(c)
  BY <1>1, <1>2
<1>5. ArrivedOnce(c)'
  BY <1>1, <1>3, <1>4 DEF ArrivedOnce, HasJoined
<1>6. Arrival(c) = a
  BY <1>2 DEF Arrival
<1>7. Arrival(c)' = a
  BY <1>1, <1>3, <1>4 DEF Arrival, HasJoined
<1> DEFINE s == SubSeq(log, a + 1, Len(log))
           S == NotFrom(c)
<1>8. SubSeq(log', a + 1, Len(log')) = Append(s, msg)
  <2>1. a \in 0..Len(log)
    BY <1>1
  <2>2. QED BY <1>1, <2>1, SubSeqAppend
<1>9. s \in Seq(Message)
  <2>1. \A i \in (a + 1)..Len(log) : log[i] \in Message
    BY <1>1, ElementOfSeq
  <2>2. QED BY <1>1, <2>1, SubSeqProperties
<1>10. Feed(c) = Kept(s, S) /\ Feed(c)' = Kept(Append(s, msg), S)
  BY <1>6, <1>7, <1>8 DEF Feed, NotFrom, get_origin, Message
<1> HIDE DEF s, S
<1>11. Kept(s, S) \in Seq(Message)
  <2>1. Kept(s, S) \in Seq(Message \cap S)
    BY <1>9, KeptType
  <2>2. QED BY <2>1, SeqMonotonic
<1>12. Kept(Append(s, msg), S) = IF msg \in S THEN Append(Kept(s, S), msg) ELSE Kept(s, S)
  BY <1>9, KeptAppend
<1>13. msg \in S <=> get_origin(msg) # c
  BY DEF S, NotFrom
<1>14. QED
  BY <1>5, <1>10, <1>11, <1>12, <1>13

-----------------------------------------------------------------------------
(* One client at a time. *)

\* Only the status, the log and what is owed and got matter to InStep.
LEMMA InStepUnchanged ==
  ASSUME NEW c \in Conns, InStep(c), UNCHANGED log,
         status'[c] = status[c], owed'[c] = owed[c], got'[c] = got[c]
  PROVE  InStep(c)'
BY DEF InStep, Unheard, ArrivedOnce, HandedInOrder, Feed, Arrival, NotFrom,
       HasJoined, get_origin, Message

\* An announcement that is not the arrival of c.
LEMMA AnnouncementInStep ==
  ASSUME AbsTypeOK, NEW c \in Conns, InStep(c),
         NEW msg \in Message, msg # HasJoined(c), log' = Append(log, msg),
         status'[c] = status[c],
         got'[c] = got[c],
         owed'[c] = IF status[c] = "live" /\ get_origin(msg) # c
                    THEN Append(owed[c], msg) ELSE owed[c]
  PROVE  InStep(c)'
<1>1. CASE status[c] = "none"
  <2>1. /\ log \in Seq(Message)
        /\ Len(log) \in Nat
        /\ DOMAIN log = 1..Len(log)
        /\ DOMAIN log' = 1..(Len(log) + 1)
        /\ \A i \in 1..Len(log) : log'[i] = log[i]
        /\ log'[Len(log) + 1] = msg
    BY AppendProperties, LenProperties DEF AbsTypeOK
  <2>2. ASSUME NEW i \in DOMAIN log' PROVE log'[i] # HasJoined(c)
    <3>1. CASE i = Len(log) + 1
      BY <2>1, <3>1
    <3>2. CASE i # Len(log) + 1
      <4>1. i \in DOMAIN log /\ log'[i] = log[i]
        BY <2>1, <3>2
      <4>2. QED BY <1>1, <4>1 DEF InStep, Unheard
    <3>3. QED BY <3>1, <3>2
  <2>3. QED BY <1>1, <2>2 DEF InStep, Unheard, HasJoined
<1>2. CASE status[c] = "live"
  <2>1. /\ ArrivedOnce(c)'
        /\ Feed(c)' = IF get_origin(msg) # c THEN Append(Feed(c), msg) ELSE Feed(c)
    BY <1>2, FeedGrows DEF InStep
  <2>2. owed[c] = Feed(c) /\ HandedInOrder(c)
    BY <1>2 DEF InStep
  <2>3. owed'[c] = Feed(c)'
    BY <1>2, <2>1, <2>2
  <2>4. /\ owed[c] \in Seq(Message) /\ got[c] \in Seq(Message)
        /\ Len(owed[c]) \in Nat /\ Len(got[c]) \in Nat
    BY LenProperties DEF AbsTypeOK
  <2>5. /\ Len(owed'[c]) \in {Len(owed[c]), Len(owed[c]) + 1}
        /\ \A i \in 1..Len(owed[c]) : owed'[c][i] = owed[c][i]
    BY <2>4, AppendProperties
  <2>6. HandedInOrder(c)'
    <3>1. Len(got[c]) <= Len(owed[c]) /\ \A i \in 1..Len(got[c]) : got[c][i] = owed[c][i]
      BY <2>2 DEF HandedInOrder
    <3>2. Len(got[c]) <= Len(owed'[c])
      BY <2>4, <2>5, <3>1
    <3>3. \A i \in 1..Len(got[c]) : got[c][i] = owed'[c][i]
      BY <2>4, <2>5, <3>1
    <3>4. QED BY <3>2, <3>3 DEF HandedInOrder
  <2>7. QED BY <1>2, <2>1, <2>3, <2>6 DEF InStep
<1>3. CASE status[c] \notin {"none", "live"}
  BY <1>3 DEF InStep
<1>4. QED
  BY <1>1, <1>2, <1>3

\* The arrival of c.
LEMMA ArrivalInStep ==
  ASSUME AbsTypeOK, NEW c \in Conns, Unheard(c), log' = Append(log, HasJoined(c)),
         owed'[c] = owed[c], got'[c] = got[c], status'[c] = "live"
  PROVE  InStep(c)'
<1>1. /\ log' \in Seq(Message)
      /\ Len(log) \in Nat
      /\ DOMAIN log = 1..Len(log)
      /\ DOMAIN log' = 1..(Len(log) + 1)
      /\ Len(log') = Len(log) + 1
      /\ \A i \in 1..Len(log) : log'[i] = log[i]
      /\ log'[Len(log) + 1] = HasJoined(c)
  BY MessageKinds, AppendProperties, LenProperties DEF AbsTypeOK
<1>2. \A j \in 1..(Len(log) + 1) : log'[j] = HasJoined(c) => j = Len(log) + 1
  <2>1. ASSUME NEW j \in 1..(Len(log) + 1), j # Len(log) + 1
        PROVE  log'[j] # HasJoined(c)
    <3>1. j \in DOMAIN log /\ log'[j] = log[j]
      BY <1>1, <2>1
    <3>2. QED BY <3>1 DEF Unheard
  <2>2. QED BY <2>1
<1>3. ArrivedOnce(c)'
  BY <1>1, <1>2 DEF ArrivedOnce, HasJoined
<1>4. Arrival(c)' = Len(log')
  BY <1>1, <1>2 DEF Arrival, HasJoined
<1>5. SubSeq(log', Len(log') + 1, Len(log')) = <<>>
  BY <1>1, SubSeqEmpty
<1>6. Feed(c)' = <<>>
  BY <1>4, <1>5, KeptEmpty DEF Feed
<1>7. owed'[c] = <<>> /\ got'[c] = <<>> /\ Len(<<>>) = 0
  BY EmptySeq DEF Unheard
<1>8. HandedInOrder(c)'
  BY <1>7 DEF HandedInOrder
<1>9. QED
  BY <1>3, <1>6, <1>7, <1>8 DEF InStep

-----------------------------------------------------------------------------
(* The steps of the service. *)

\* What an announcement does to the types, and to what everybody is owed.
LEMMA ToldTypes ==
  ASSUME AbsTypeOK, NEW msg \in Message, NEW audience
  PROVE  /\ Append(log, msg) \in Seq(Message)
         /\ Told(msg, audience) \in [Conns -> Seq(Message)]
<1>1. Append(log, msg) \in Seq(Message)
  BY AppendProperties DEF AbsTypeOK
<1>2. \A c \in Conns : Append(owed[c], msg) \in Seq(Message)
  BY AppendProperties DEF AbsTypeOK
<1>3. QED
  BY <1>1, <1>2 DEF Told, AbsTypeOK

LEMMA JoinStep ==
  ASSUME AbsInv, NEW c \in Conns, Join(c)
  PROVE  AbsInv'
<1> DEFINE msg == HasJoined(c)
<1>1. /\ up /\ UNCHANGED <<up, got, said>>
      /\ status[c] = "none"
      /\ status' = [status EXCEPT ![c] = "live"]
      /\ log' = Append(log, msg)
      /\ owed' = Told(msg, Audience(msg))
  BY DEF Join, Announce
<1>2. msg \in Message
  BY MessageKinds
<1> HIDE DEF msg
<1>3. AbsTypeOK'
  BY <1>1, <1>2, ToldTypes DEF AbsInv, AbsTypeOK
<1>4. ASSUME NEW d \in Conns PROVE InStep(d)'
  <2>1. InStep(d) /\ AbsTypeOK
    BY <1>1 DEF AbsInv
  <2>2. CASE d = c
    <3>1. Unheard(c)
      BY <1>1, <2>1, <2>2 DEF InStep
    <3>2. owed'[c] = owed[c] /\ status'[c] = "live"
      BY <1>1, <2>1 DEF Told, Audience, Inside, AbsTypeOK
    <3>3. QED BY <1>1, <2>1, <2>2, <3>1, <3>2, ArrivalInStep DEF msg
  <2>3. CASE d # c
    <3>1. msg # HasJoined(d)
      BY <2>3, MessageKinds DEF msg
    <3>2. /\ status'[d] = status[d]
          /\ owed'[d] = IF status[d] = "live" /\ get_origin(msg) # d
                        THEN Append(owed[d], msg) ELSE owed[d]
      BY <1>1, <2>1, <2>3 DEF Told, Audience, Inside, AbsTypeOK
    <3>3. QED BY <1>1, <1>2, <2>1, <3>1, <3>2, AnnouncementInStep
  <2>4. QED BY <2>2, <2>3
<1>5. QED
  BY <1>3, <1>4 DEF AbsInv

LEMMA PublishStep ==
  ASSUME AbsInv, NEW c \in Conns, Publish(c)
  PROVE  AbsInv'
<1> DEFINE msg == Data(c, said[c] + 1)
<1>1. /\ up /\ UNCHANGED <<up, got, status>>
      /\ said[c] < MaxFrames
      /\ said' = [said EXCEPT ![c] = @ + 1]
      /\ log' = Append(log, msg)
      /\ owed' = Told(msg, Audience(msg))
  BY DEF Publish, Announce
<1>2. said[c] + 1 \in 0..MaxFrames
  BY <1>1, MessagesAssumption DEF AbsInv, AbsTypeOK
<1>3. msg \in Message /\ \A d \in Conns : msg # HasJoined(d)
  BY <1>2, MessageKinds
<1> HIDE DEF msg
<1>4. AbsTypeOK'
  BY <1>1, <1>2, <1>3, ToldTypes DEF AbsInv, AbsTypeOK
<1>5. ASSUME NEW d \in Conns PROVE InStep(d)'
  <2>1. InStep(d) /\ AbsTypeOK
    BY <1>1 DEF AbsInv
  <2>2. owed'[d] = IF status[d] = "live" /\ get_origin(msg) # d
                   THEN Append(owed[d], msg) ELSE owed[d]
    BY <1>1 DEF Told, Audience, Inside
  <2>3. QED BY <1>1, <1>3, <2>1, <2>2, AnnouncementInStep
<1>6. QED
  BY <1>4, <1>5 DEF AbsInv

LEMMA LeaveStep ==
  ASSUME AbsInv, NEW c \in Conns, Leave(c)
  PROVE  AbsInv'
<1> DEFINE msg == HasLeft(c)
<1>1. /\ up /\ UNCHANGED <<up, got, said>>
      /\ status' = [status EXCEPT ![c] = "freed"]
      /\ log' = Append(log, msg)
      /\ owed' = [Told(msg, Audience(msg)) EXCEPT ![c] = got[c]]
  BY DEF Leave
<1>2. msg \in Message /\ \A d \in Conns : msg # HasJoined(d)
  BY MessageKinds
<1> HIDE DEF msg
<1>3. AbsTypeOK'
  BY <1>1, <1>2, ToldTypes DEF AbsInv, AbsTypeOK
<1>4. ASSUME NEW d \in Conns PROVE InStep(d)'
  <2>1. InStep(d) /\ AbsTypeOK
    BY <1>1 DEF AbsInv
  <2>2. CASE d = c
    BY <1>1, <2>1, <2>2 DEF InStep, AbsTypeOK
  <2>3. CASE d # c
    <3>1. /\ status'[d] = status[d]
          /\ owed'[d] = IF status[d] = "live" /\ get_origin(msg) # d
                        THEN Append(owed[d], msg) ELSE owed[d]
      BY <1>1, <2>1, <2>3 DEF Told, Audience, Inside, AbsTypeOK
    <3>2. QED BY <1>1, <1>2, <2>1, <3>1, AnnouncementInStep
  <2>4. QED BY <2>2, <2>3
<1>5. QED
  BY <1>3, <1>4 DEF AbsInv

LEMMA DeliverStep ==
  ASSUME AbsInv, NEW c \in Conns, Deliver(c)
  PROVE  AbsInv'
<1> DEFINE next == owed[c][Len(got[c]) + 1]
<1>1. /\ up /\ UNCHANGED <<up, status, log, owed, said>>
      /\ status[c] = "live"
      /\ Len(got[c]) < Len(owed[c])
      /\ got' = [got EXCEPT ![c] = Append(got[c], next)]
  BY DEF Deliver
<1>2. /\ owed[c] \in Seq(Message) /\ got[c] \in Seq(Message)
      /\ Len(owed[c]) \in Nat /\ Len(got[c]) \in Nat
  BY LenProperties DEF AbsInv, AbsTypeOK
<1>3. next \in Message
  BY <1>1, <1>2, ElementOfSeq
<1>4. /\ Append(got[c], next) \in Seq(Message)
      /\ Len(Append(got[c], next)) = Len(got[c]) + 1
      /\ \A i \in 1..Len(got[c]) : Append(got[c], next)[i] = got[c][i]
      /\ Append(got[c], next)[Len(got[c]) + 1] = next
  BY <1>2, <1>3, AppendProperties
<1>5. AbsTypeOK'
  BY <1>1, <1>4 DEF AbsInv, AbsTypeOK
<1>6. ASSUME NEW d \in Conns PROVE InStep(d)'
  <2>1. InStep(d) /\ AbsTypeOK
    BY <1>1 DEF AbsInv
  <2>2. CASE d # c
    BY <1>1, <2>1, <2>2, InStepUnchanged DEF AbsTypeOK
  <2>3. CASE d = c
    <3>1. ArrivedOnce(c) /\ owed[c] = Feed(c) /\ HandedInOrder(c)
      BY <1>1, <2>1, <2>3 DEF InStep
    <3>2. ArrivedOnce(c)' /\ owed'[c] = Feed(c)'
      BY <1>1, <3>1
      DEF ArrivedOnce, Feed, Arrival, NotFrom, HasJoined, get_origin, Message
    <3>3. got'[c] = Append(got[c], next)
      BY <1>1, <2>1 DEF AbsTypeOK
    <3>4. HandedInOrder(c)'
      <4>1. Len(got'[c]) <= Len(owed'[c])
        BY <1>1, <1>2, <1>4, <3>3
      <4>2. ASSUME NEW i \in 1..(Len(got[c]) + 1)
            PROVE  Append(got[c], next)[i] = owed[c][i]
        <5>1. CASE i = Len(got[c]) + 1
          BY <1>4, <5>1
        <5>2. CASE i # Len(got[c]) + 1
          <6>1. i \in 1..Len(got[c])
            BY <1>2, <5>2
          <6>2. QED BY <1>4, <3>1, <6>1 DEF HandedInOrder
        <5>3. QED BY <5>1, <5>2
      <4>3. QED BY <1>1, <1>4, <3>3, <4>1, <4>2 DEF HandedInOrder
    <3>5. QED BY <1>1, <2>3, <3>2, <3>4 DEF InStep
  <2>4. QED BY <2>2, <2>3
<1>7. QED
  BY <1>5, <1>6 DEF AbsInv

LEMMA HaltStep ==
  ASSUME AbsInv, Halt
  PROVE  AbsInv'
<1>1. up' = FALSE /\ UNCHANGED <<status, got, said>>
  BY DEF Halt
<1>2. log' \in Seq(Message) /\ owed' \in [Conns -> Seq(Message)]
  <2>1. CASE UNCHANGED <<log, owed>>
    BY <2>1 DEF AbsInv, AbsTypeOK
  <2>2. CASE \E msg \in Message : \E reached \in SUBSET Audience(msg) :
               Announce(msg, reached)
    BY <2>2, ToldTypes DEF AbsInv, Announce
  <2>3. QED BY <2>1, <2>2 DEF Halt
<1>3. QED
  BY <1>1, <1>2 DEF AbsInv, AbsTypeOK

-----------------------------------------------------------------------------
LEMMA AbsInitInvariant == AbsInit => AbsInv
<1> SUFFICES ASSUME AbsInit PROVE AbsInv
  OBVIOUS
<1>1. AbsTypeOK
  BY EmptySeq, MessagesAssumption DEF AbsInit, AbsTypeOK
<1>2. ASSUME NEW c \in Conns PROVE InStep(c)
  <2>1. status[c] = "none" /\ owed[c] = <<>> /\ got[c] = <<>>
    BY DEF AbsInit
  <2>2. DOMAIN log = {}
    BY DEF AbsInit
  <2>3. QED BY <2>1, <2>2, Zenon DEF InStep, Unheard
<1>3. QED
  BY <1>1, <1>2 DEF AbsInv

LEMMA AbsNextInvariant == AbsInv /\ [AbsNext]_absVars => AbsInv'
<1> SUFFICES ASSUME AbsInv, [AbsNext]_absVars PROVE AbsInv'
  OBVIOUS
<1>1. CASE UNCHANGED absVars
  <2>1. AbsTypeOK'
    BY <1>1 DEF absVars, AbsInv, AbsTypeOK
  <2>2. ASSUME up, NEW c \in Conns PROVE InStep(c)'
    BY <1>1, <2>2, InStepUnchanged DEF AbsInv, absVars
  <2>3. QED BY <1>1, <2>1, <2>2 DEF AbsInv, absVars
<1>2. CASE AbsNext
  BY <1>2, JoinStep, PublishStep, LeaveStep, DeliverStep, HaltStep DEF AbsNext
<1>3. QED
  BY <1>1, <1>2

LEMMA InStepGivesOrder == AbsInv => OneOrder
<1> SUFFICES ASSUME AbsInv, up, NEW c \in Inside
             PROVE  owed[c] = Feed(c) /\ got[c] = SubSeq(owed[c], 1, Len(got[c]))
  BY DEF OneOrder
<1>1. c \in Conns /\ owed[c] = Feed(c) /\ HandedInOrder(c)
  BY DEF Inside, AbsInv, InStep
<1>2. /\ owed[c] \in Seq(Message) /\ got[c] \in Seq(Message)
      /\ Len(owed[c]) \in Nat /\ Len(got[c]) \in Nat
  BY <1>1, LenProperties DEF AbsInv, AbsTypeOK
<1> DEFINE s == SubSeq(owed[c], 1, Len(got[c]))
<1>3. /\ s \in Seq(Message)
      /\ Len(s) = Len(got[c])
      /\ \A i \in 1..Len(got[c]) : s[i] = owed[c][i]
  <2>1. \A i \in 1..Len(got[c]) : owed[c][i] \in Message
    BY <1>1, <1>2, ElementOfSeq DEF HandedInOrder
  <2>2. /\ s \in Seq(Message)
        /\ Len(s) = IF 1 <= Len(got[c]) THEN Len(got[c]) - 1 + 1 ELSE 0
        /\ \A i \in 1..(Len(got[c]) - 1 + 1) : s[i] = owed[c][1 + i - 1]
    BY <1>2, <2>1, SubSeqProperties
  <2> HIDE DEF s
  <2>3. \A i \in 1..Len(got[c]) : i \in 1..(Len(got[c]) - 1 + 1) /\ 1 + i - 1 = i
    BY <1>2
  <2>4. Len(s) = Len(got[c])
    BY <1>2, <2>2
  <2>5. QED BY <2>2, <2>3, <2>4
<1> HIDE DEF s
<1>4. got[c] = s
  BY <1>1, <1>2, <1>3, SeqEqual DEF HandedInOrder
<1>5. QED
  BY <1>1, <1>4 DEF s

\* Every member of a running room has been announced everything since its own
\* arrival but what carries its own endpoint, in one order, and has been handed
\* a beginning of that.
THEOREM ServiceKeepsOneOrder == AbsSpec => []OneOrder
BY AbsInitInvariant, AbsNextInvariant, InStepGivesOrder, PTL DEF AbsSpec
=============================================================================
