----------------------------- MODULE RoomProofs -----------------------------
(***************************************************************************)
(* Proofs about Room, for every set of connections, every claim of origin, *)
(* every number of frames and every kind of peer.                          *)
(*                                                                         *)
(* TypeOK, OperationDiscipline and Registry are inductive together: the    *)
(* type of the queue after a pop needs that a write is outstanding only    *)
(* when there is something to send, that needs the recipients of a         *)
(* broadcast to be live members, that is Registry, whose proof needs types.*)
(***************************************************************************)
EXTENDS Room, SequenceLemmas, SequenceTheorems, TLAPS

-----------------------------------------------------------------------------
(* room::broadcast. *)

IInv == TypeOK /\ OperationDiscipline /\ Registry

LEMMA RecipientsAreMembers ==
  ASSUME NEW msg
  PROVE  Recipients(msg) \subseteq Range(m_members)
BY DEF Recipients, Range

\* The messages of the room are messages.
LEMMA RoomMessages ==
  ASSUME NEW c \in Conns
  PROVE  HasJoined(c) \in Message /\ HasLeft(c) \in Message
BY MessagesAssumption DEF HasJoined, HasLeft, Message

\* A broadcast keeps the types of the queues and of the writes.
LEMMA BroadcastTypes ==
  ASSUME TypeOK, NEW msg \in Message
  PROVE  /\ Queued(msg) \in [Conns -> Seq(Message)]
         /\ Flushed(msg) \in [Conns -> Seq(Op)]
         /\ Append(history, msg) \in Seq(Message)
<1>1. \A c \in Conns : Append(m_messages[c], msg) \in Seq(Message)
  BY AppendProperties DEF TypeOK
<1>2. \A c \in Conns : Append(writes[c], "pending") \in Seq(Op)
  BY AppendProperties DEF TypeOK, Op
<1>3. Append(history, msg) \in Seq(Message)
  BY AppendProperties DEF TypeOK
<1>4. QED
  BY <1>1, <1>2, <1>3 DEF TypeOK, Queued, Flushed

\* A broadcast leaves every member with one write exactly when it has
\* something to send, and does not touch whoever is no member.
LEMMA BroadcastDiscipline ==
  ASSUME IInv, Up, NEW msg \in Message, NEW c \in Conns
  PROVE  /\ obj[c] = "live" =>
              Len(Flushed(msg)[c]) = IF Queued(msg)[c] = <<>> THEN 0 ELSE 1
         /\ obj[c] # "live" =>
              Queued(msg)[c] = m_messages[c] /\ Flushed(msg)[c] = writes[c]
<1>1. ASSUME obj[c] # "live"
      PROVE  Queued(msg)[c] = m_messages[c] /\ Flushed(msg)[c] = writes[c]
  BY <1>1, RecipientsAreMembers DEF IInv, Registry, Live, Queued, Flushed
<1>2. ASSUME obj[c] = "live", c \notin Recipients(msg)
      PROVE  Len(Flushed(msg)[c]) = IF Queued(msg)[c] = <<>> THEN 0 ELSE 1
  BY <1>2 DEF IInv, OperationDiscipline, Disciplined, Queued, Flushed
<1>3. ASSUME obj[c] = "live", c \in Recipients(msg)
      PROVE  Len(Flushed(msg)[c]) = IF Queued(msg)[c] = <<>> THEN 0 ELSE 1
  <2>0. m_messages[c] \in Seq(Message) /\ writes[c] \in Seq(Op)
    BY DEF IInv, TypeOK
  <2>1. /\ Queued(msg)[c] = Append(m_messages[c], msg)
        /\ Queued(msg)[c] # <<>>
    BY <1>3, <2>0, AppendProperties DEF Queued
  <2>2. Len(writes[c]) = IF m_messages[c] = <<>> THEN 0 ELSE 1
    BY <1>3 DEF IInv, OperationDiscipline, Disciplined
  <2>3. CASE m_messages[c] = <<>>
    <3>1. Flushed(msg)[c] = Append(writes[c], "pending")
      BY <1>3, <2>3 DEF Flushed
    <3>2. Len(Flushed(msg)[c]) = 1
      BY <3>1, <2>0, <2>2, <2>3, AppendProperties DEF Op
    <3>3. QED BY <3>2, <2>1
  <2>4. CASE m_messages[c] # <<>>
    BY <1>3, <2>1, <2>2, <2>4 DEF Flushed
  <2>5. QED BY <2>3, <2>4
<1>4. QED
  BY <1>1, <1>2, <1>3

-----------------------------------------------------------------------------
(* The peers and the kernel. *)

LEMMA ConnectStep ==
  ASSUME IInv, NEW c \in Conns, Connect(c)
  PROVE  IInv'
<1> USE DEF Connect, aux, Up
<1>1. TypeOK'
  BY AppendProperties DEF IInv, TypeOK
<1>2. OperationDiscipline'
  BY DEF IInv, OperationDiscipline, Disciplined
<1>3. Registry'
  <2>1. c \notin Range(backlog) /\ obj[c] = "none"
    BY DEF IInv, Registry
  <2>2. /\ Range(backlog') = Range(backlog) \cup {c}
        /\ IsInjective(backlog')
    BY <2>1, AppendDistinct DEF IInv, TypeOK, Registry
  <2>3. backlog' # <<>>
    <3>1. backlog \in Seq(Conns)
      BY DEF IInv, TypeOK
    <3>2. QED BY <3>1, AppendProperties
  <2>4. Live' = Live
    BY DEF Live
  <2>5. \A d \in Conns : peer'[d] # "absent" <=> d = c \/ peer[d] # "absent"
    BY DEF IInv, TypeOK
  <2>6. \A d \in Range(backlog') : peer'[d] # "absent" /\ obj'[d] = "none"
    <3>1. Range(backlog) \subseteq Conns
      BY ElementOfSeq, LenProperties DEF IInv, TypeOK, Range
    <3>2. QED BY <2>1, <2>2, <2>5, <3>1 DEF IInv, Registry
  <2>7. QED
    BY <2>1, <2>2, <2>3, <2>4, <2>5, <2>6 DEF IInv, Registry
<1>4. QED
  BY <1>1, <1>2, <1>3 DEF IInv

LEMMA PeerSendsStep ==
  ASSUME IInv, NEW c \in Conns, NEW f \in Frame, PeerSends(c, f)
  PROVE  IInv'
<1> USE DEF PeerSends, aux, Up
<1>1. f \in Frame
  OBVIOUS
<1>2. /\ Append(frames[c], f) \in Seq(Frame)
      /\ Len(Append(frames[c], f)) = Len(frames[c]) + 1
      /\ Len(frames[c]) \in Nat
  BY <1>1, AppendProperties, LenProperties DEF IInv, TypeOK
<1>3. TypeOK'
  <2>1. frames \in [Conns -> Seq(Frame)]
    BY DEF IInv, TypeOK
  <2>2. frames' \in [Conns -> Seq(Frame)]
    BY <1>2, <2>1
  <2>3. ASSUME NEW d \in Conns PROVE Len(frames'[d]) <= MaxFrames
    <3>1. CASE d = c
      <4>1. Len(frames'[d]) = Len(frames[c]) + 1
        BY <1>2, <2>1, <3>1
      <4>2. QED BY <1>2, <4>1, MessagesAssumption
    <3>2. CASE d # c
      <4>1. frames'[d] = frames[d]
        BY <2>1, <3>2
      <4>2. QED BY <4>1 DEF IInv, TypeOK
    <3>3. QED BY <3>1, <3>2
  <2>4. QED BY <2>2, <2>3 DEF IInv, TypeOK
<1>4. OperationDiscipline'
  BY <1>2 DEF IInv, TypeOK, OperationDiscipline, Disciplined
<1>5. Registry'
  BY DEF IInv, Registry, Live
<1>6. QED
  BY <1>3, <1>4, <1>5 DEF IInv

LEMMA PeerEndsStep ==
  ASSUME IInv, NEW c \in Conns, PeerCloses(c) \/ PeerResets(c)
  PROVE  IInv'
<1> USE DEF PeerCloses, PeerResets, aux, Up
<1>1. TypeOK'
  BY DEF IInv, TypeOK
<1>2. OperationDiscipline'
  BY DEF IInv, OperationDiscipline, Disciplined
<1>3. Registry'
  <2>1. \A d \in Conns : peer'[d] = "absent" <=> peer[d] = "absent"
    BY DEF IInv, TypeOK
  <2>2. Range(backlog) \subseteq Conns
    BY ElementOfSeq, LenProperties DEF IInv, TypeOK, Range
  <2>3. QED BY <2>1, <2>2 DEF IInv, Registry, Live
<1>4. QED
  BY <1>1, <1>2, <1>3 DEF IInv

LEMMA AcceptCompletesStep ==
  ASSUME IInv, NEW result \in {"ok", "error"}, AcceptCompletes(result)
  PROVE  IInv'
BY DEF AcceptCompletes, net, aux, Up, IInv, TypeOK, Op, OperationDiscipline,
       Disciplined, Registry, Live

LEMMA ReadCompletesStep ==
  ASSUME IInv, NEW c \in Conns, ReadSucceeds(c) \/ ReadFails(c)
  PROVE  IInv'
<1> USE DEF ReadSucceeds, ReadFails, net, aux, Up
<1>1. TypeOK'
  BY DEF IInv, TypeOK, Op
<1>2. OperationDiscipline'
  <2>1. ASSUME NEW d \in Conns PROVE Disciplined(d)'
    <3>1. Disciplined(d)
      BY DEF IInv, OperationDiscipline
    <3>2. CASE d # c
      BY <3>1, <3>2 DEF IInv, TypeOK, Disciplined
    <3>3. CASE d = c
      BY <3>1, <3>3 DEF IInv, TypeOK, Disciplined, Arrived
    <3>4. QED BY <3>2, <3>3
  <2>2. QED BY <2>1 DEF OperationDiscipline
<1>3. Registry'
  BY DEF IInv, Registry, Live
<1>4. QED
  BY <1>1, <1>2, <1>3 DEF IInv

LEMMA WriteCompletesStep ==
  ASSUME IInv, NEW c \in Conns, WriteSucceeds(c) \/ WriteFails(c)
  PROVE  IInv'
<1> USE DEF WriteSucceeds, WriteFails, net, aux, Up
<1>1. PICK i \in DOMAIN writes[c], s \in {"ok", "error"} :
        writes' = [writes EXCEPT ![c] = [writes[c] EXCEPT ![i] = s]]
  OBVIOUS
<1>2. writes[c] \in Seq(Op)
  BY DEF IInv, TypeOK
<1>3. /\ [writes[c] EXCEPT ![i] = s] \in Seq(Op)
      /\ Len([writes[c] EXCEPT ![i] = s]) = Len(writes[c])
  BY <1>2, ExceptSeq, LenProperties DEF Op
<1>4. writes[c] # <<>>
  BY EmptySeq, LenProperties
<1>5. sent' \in [Conns -> Seq(Message)]
  <2>1. CASE WriteFails(c)
    BY <2>1 DEF IInv, TypeOK
  <2>2. CASE WriteSucceeds(c)
    <3>1. Head(m_messages[c]) \in Message
      BY <2>2, HeadTailProperties DEF IInv, TypeOK
    <3>2. Append(sent[c], Head(m_messages[c])) \in Seq(Message)
      BY <3>1, AppendProperties DEF IInv, TypeOK
    <3>3. QED BY <2>2, <3>2 DEF IInv, TypeOK
  <2>3. QED BY <2>1, <2>2
<1>6. TypeOK'
  BY <1>1, <1>3, <1>5 DEF IInv, TypeOK
<1>7. OperationDiscipline'
  <2>1. ASSUME NEW d \in Conns PROVE Disciplined(d)'
    <3>1. Disciplined(d)
      BY DEF IInv, OperationDiscipline
    <3>2. CASE d # c
      BY <1>1, <3>1, <3>2 DEF IInv, TypeOK, Disciplined
    <3>3. CASE d = c
      BY <1>1, <1>3, <1>4, <3>1, <3>3 DEF IInv, TypeOK, Disciplined
    <3>4. QED BY <3>2, <3>3
  <2>2. QED BY <2>1 DEF OperationDiscipline
<1>8. Registry'
  BY DEF IInv, Registry, Live
<1>9. QED
  BY <1>6, <1>7, <1>8 DEF IInv

-----------------------------------------------------------------------------
(* The handlers of the io thread. *)

\* Once the server no longer runs, only the types matter.
LEMMA StoppedStep ==
  ASSUME TypeOK', server' # "up"
  PROVE  IInv'
BY DEF IInv, OperationDiscipline, Registry, Up

LEMMA AcceptHandlerStep ==
  ASSUME IInv, AcceptHandler
  PROVE  IInv'
<1> USE DEF aux, Up
<1> DEFINE c == Head(backlog)
<1>1. /\ backlog \in Seq(Conns)
      /\ backlog # <<>>
      /\ IsInjective(backlog)
      /\ m_members \in Seq(Conns)
      /\ IsInjective(m_members)
      /\ Range(m_members) = Live
  BY DEF AcceptHandler, IInv, TypeOK, Registry
<1>2. /\ c \in Conns
      /\ c \in Range(backlog)
      /\ Tail(backlog) \in Seq(Conns)
      /\ IsInjective(Tail(backlog))
      /\ Range(Tail(backlog)) = Range(backlog) \ {c}
  BY <1>1, TailDistinct, HeadTailProperties
<1>3. obj[c] = "none" /\ peer[c] # "absent"
  BY <1>2 DEF AcceptHandler, IInv, Registry
<1>4. /\ backlog' = Tail(backlog)
      /\ add_member(c)
      /\ accepting' = "pending"
      /\ UNCHANGED <<peer, frames, phase, taken, sent, removals>>
  BY DEF AcceptHandler
<1> HIDE DEF c
<1>5. CASE get_address_throws(c)
  <2>1. server' = "terminated"
    BY <1>4, <1>5 DEF Terminates, add_member
  <2>2. TypeOK'
    BY <1>2, <1>4, <1>5, <2>1 DEF add_member, IInv, TypeOK, Op
  <2>3. QED BY <2>1, <2>2, StoppedStep
<1>6. CASE ~get_address_throws(c)
  <2>1. broadcast(HasJoined(c))
    BY <1>4, <1>6 DEF add_member
  <2>2. /\ m_messages' \in [Conns -> Seq(Message)]
        /\ writes' \in [Conns -> Seq(Op)]
        /\ history' \in Seq(Message)
    BY <1>2, <2>1, BroadcastTypes, RoomMessages DEF broadcast, IInv
  <2>3. CASE ~BroadcastReturns
    <3>1. server' = "terminated"
      BY <1>4, <1>6, <2>3 DEF Terminates, add_member
    <3>2. TypeOK'
      BY <1>2, <1>4, <1>6, <2>2, <2>3, <3>1
      DEF add_member, IInv, TypeOK, Op
    <3>3. QED BY <3>1, <3>2, StoppedStep
  <2>4. CASE BroadcastReturns
    <3>1. /\ m_members' = Append(m_members, c)
          /\ obj' = [obj EXCEPT ![c] = "live"]
          /\ read' = [read EXCEPT ![c] = "pending"]
          /\ UNCHANGED server
      BY <1>4, <1>6, <2>4 DEF add_member
    <3>2. /\ m_members' \in Seq(Conns)
          /\ Range(m_members') = Live \cup {c}
          /\ IsInjective(m_members')
      <4>1. c \notin Range(m_members)
        BY <1>1, <1>3 DEF Live
      <4>2. QED
        BY <1>1, <1>2, <3>1, <4>1, AppendDistinct, AppendProperties
    <3>3. TypeOK'
      BY <1>2, <1>4, <2>2, <3>1, <3>2 DEF IInv, TypeOK, Op
    <3>4. OperationDiscipline'
      <4>1. ASSUME NEW d \in Conns PROVE Disciplined(d)'
        <5>1. Disciplined(d) /\ Up
          BY DEF IInv, OperationDiscipline, AcceptHandler
        <5>2. /\ m_messages'[d] = Queued(HasJoined(c))[d]
              /\ writes'[d] = Flushed(HasJoined(c))[d]
          BY <2>1 DEF broadcast
        <5>3. /\ obj[d] = "live" =>
                   Len(writes'[d]) = IF m_messages'[d] = <<>> THEN 0 ELSE 1
              /\ obj[d] # "live" =>
                   m_messages'[d] = m_messages[d] /\ writes'[d] = writes[d]
          BY <1>2, <5>1, <5>2, BroadcastDiscipline, RoomMessages
        <5>4. CASE d # c
          BY <1>4, <3>1, <5>1, <5>3, <5>4 DEF Disciplined, IInv, TypeOK
        <5>5. CASE d = c
          <6>1. m_messages'[c] = <<>> /\ writes'[c] = <<>>
            BY <1>3, <5>1, <5>3, <5>5 DEF Disciplined
          <6>2. Len(writes'[c]) = 0
            BY <6>1
          <6>3. obj'[c] = "live" /\ read'[c] = "pending"
            BY <1>2, <3>1 DEF IInv, TypeOK
          <6>4. QED BY <5>5, <6>1, <6>2, <6>3 DEF Disciplined
        <5>6. QED BY <5>4, <5>5
      <4>2. QED BY <4>1 DEF OperationDiscipline
    <3>5. Registry'
      <4>1. Live' = Live \cup {c}
        BY <1>2, <3>1 DEF Live, IInv, TypeOK
      <4>2. \A d \in Range(backlog') : peer'[d] # "absent" /\ obj'[d] = "none"
        <5>1. Range(backlog) \subseteq Conns
          BY <1>1, ElementOfSeq, LenProperties DEF Range
        <5>2. ASSUME NEW d \in Range(backlog')
              PROVE  d \in Conns /\ d \in Range(backlog) /\ d # c
          BY <1>2, <1>4, <5>1
        <5>3. \A d \in Range(backlog) : peer[d] # "absent" /\ obj[d] = "none"
          BY DEF IInv, Registry, AcceptHandler
        <5>4. QED BY <1>4, <3>1, <5>2, <5>3 DEF IInv, TypeOK
      <4>3. \A d \in Conns :
              /\ peer'[d] = "absent" => obj'[d] = "none"
              /\ removals'[d] = IF obj'[d] = "freed" THEN 1 ELSE 0
        <5>1. obj' = [obj EXCEPT ![c] = "live"] /\ UNCHANGED <<peer, removals>>
          BY <1>4, <3>1
        <5>2. \A d \in Conns :
                /\ peer[d] = "absent" => obj[d] = "none"
                /\ removals[d] = IF obj[d] = "freed" THEN 1 ELSE 0
          BY DEF IInv, Registry, AcceptHandler
        <5>3. obj \in [Conns -> {"none", "live", "freed"}]
          BY DEF IInv, TypeOK
        <5>4. peer[c] # "absent" /\ obj[c] = "none"
          BY <1>3
        <5>5. QED BY <5>1, <5>2, <5>3, <5>4
      <4>4. QED
        BY <1>2, <1>4, <3>1, <3>2, <4>1, <4>2, <4>3 DEF Registry
    <3>6. QED BY <3>3, <3>4, <3>5 DEF IInv
  <2>5. QED BY <2>3, <2>4
<1>7. QED
  BY <1>5, <1>6

LEMMA AcceptErrorHandlerStep ==
  ASSUME IInv, AcceptErrorHandler
  PROVE  IInv'
BY DEF AcceptErrorHandler, net, aux, Up, IInv, TypeOK, Op,
       OperationDiscipline, Disciplined, Registry, Live

LEMMA HeaderHandlerStep ==
  ASSUME IInv, NEW c \in Conns, HeaderHandler(c)
  PROVE  IInv'
<1> USE DEF HeaderHandler, net, aux, Up
<1>1. TypeOK'
  BY DEF IInv, TypeOK, Op
<1>2. OperationDiscipline'
  BY DEF IInv, TypeOK, OperationDiscipline, Disciplined
<1>3. Registry'
  BY DEF IInv, Registry, Live
<1>4. QED
  BY <1>1, <1>2, <1>3 DEF IInv

LEMMA DataHandlerStep ==
  ASSUME IInv, NEW c \in Conns, DataHandler(c)
  PROVE  IInv'
<1> USE DEF net, aux, Up
<1> DEFINE msg == Data(c, taken[c] + 1)
<1>1. taken[c] \in Nat /\ taken[c] + 1 <= MaxFrames
  <2>1. /\ taken[c] \in Nat
        /\ taken[c] < Len(frames[c])
        /\ Len(frames[c]) <= MaxFrames
        /\ Len(frames[c]) \in Nat
    BY LenProperties
    DEF DataHandler, IInv, TypeOK, OperationDiscipline, Disciplined
  <2>2. QED BY <2>1, MessagesAssumption
<1>2. msg \in Message
  BY <1>1, MessagesAssumption DEF Data, Message
<1> HIDE DEF msg
<1>3. /\ broadcast(msg)
      /\ Up
      /\ UNCHANGED <<peer, frames, backlog, accepting, m_members, obj, sent,
                     removals>>
  BY DEF DataHandler, msg
<1>4. /\ m_messages' \in [Conns -> Seq(Message)]
      /\ writes' \in [Conns -> Seq(Op)]
      /\ history' \in Seq(Message)
  BY <1>2, <1>3, BroadcastTypes DEF broadcast, IInv
<1>5. CASE ~BroadcastReturns
  <2>1. server' = "terminated" /\ UNCHANGED <<phase, read, taken>>
    BY <1>5 DEF DataHandler, Terminates
  <2>2. TypeOK'
    BY <1>3, <1>4, <2>1 DEF IInv, TypeOK
  <2>3. QED BY <2>1, <2>2, StoppedStep
<1>6. CASE BroadcastReturns
  <2>1. /\ phase' = [phase EXCEPT ![c] = "header"]
        /\ read' = [read EXCEPT ![c] = "pending"]
        /\ taken' = [taken EXCEPT ![c] = @ + 1]
        /\ server' = server
    BY <1>6 DEF DataHandler
  <2>2. TypeOK'
    <3>1. taken[c] + 1 \in 0..MaxFrames
      BY <1>1, MessagesAssumption
    <3>2. taken' \in [Conns -> 0..MaxFrames]
      BY <2>1, <3>1 DEF IInv, TypeOK
    <3>3. /\ phase' \in [Conns -> {"header", "data"}]
          /\ read' \in [Conns -> Op \cup {"none"}]
      BY <2>1 DEF IInv, TypeOK, Op
    <3>4. QED
      BY <1>3, <1>4, <2>1, <3>2, <3>3 DEF IInv, TypeOK
  <2>3. OperationDiscipline'
    <3>1. ASSUME NEW d \in Conns PROVE Disciplined(d)'
      <4>1. Disciplined(d)
        BY <1>3 DEF IInv, OperationDiscipline
      <4>2. /\ m_messages'[d] = Queued(msg)[d]
            /\ writes'[d] = Flushed(msg)[d]
        BY <1>3 DEF broadcast
      <4>3. /\ obj[d] = "live" =>
                 Len(writes'[d]) = IF m_messages'[d] = <<>> THEN 0 ELSE 1
            /\ obj[d] # "live" =>
                 m_messages'[d] = m_messages[d] /\ writes'[d] = writes[d]
        BY <1>2, <1>3, <4>2, BroadcastDiscipline
      <4>4. CASE d # c
        BY <1>3, <2>1, <4>1, <4>3, <4>4 DEF Disciplined, IInv, TypeOK
      <4>5. CASE d = c
        <5>1. obj[c] = "live"
          BY <4>1, <4>5 DEF Disciplined, DataHandler
        <5>2. QED
          BY <1>3, <2>1, <4>3, <4>5, <5>1 DEF Disciplined, IInv, TypeOK
      <4>6. QED BY <4>4, <4>5
    <3>2. QED BY <3>1 DEF OperationDiscipline
  <2>4. Registry'
    BY <1>3, <2>1 DEF IInv, Registry, Live
  <2>5. QED BY <2>2, <2>3, <2>4 DEF IInv
<1>7. QED
  BY <1>5, <1>6

\* remove_member, whichever handler of a live member calls it, with at most
\* the writes of that member still outstanding.
LEMMA RemoveMemberStep ==
  ASSUME IInv, Up, NEW c \in Conns, obj[c] = "live",
         NEW rest \in Seq(Op), remove_member(c, rest),
         UNCHANGED <<net, accepting, phase, taken, sent>>
  PROVE  IInv'
<1> USE DEF net, aux, Up
<1>1. /\ removals' = [removals EXCEPT ![c] = @ + 1]
      /\ UNCHANGED <<peer, frames, backlog, accepting, phase, taken, sent>>
  BY DEF remove_member
<1>2. removals' \in [Conns -> Nat]
  BY <1>1 DEF IInv, TypeOK
<1>3. HasLeft(c) \in Message
  BY RoomMessages
<1>4. CASE get_address_throws(c)
  <2>1. /\ server' = "terminated"
        /\ UNCHANGED <<m_members, obj, m_messages, writes, read, history>>
    BY <1>4 DEF remove_member, Terminates
  <2>2. TypeOK'
    BY <1>1, <1>2, <2>1 DEF IInv, TypeOK
  <2>3. QED BY <2>1, <2>2, StoppedStep
<1>5. CASE ~get_address_throws(c) /\ ~(BroadcastReturns /\ c \in Range(m_members))
  <2>1. /\ broadcast(HasLeft(c))
        /\ server' = "terminated"
        /\ UNCHANGED <<m_members, obj, read>>
    BY <1>5 DEF remove_member, Terminates
  <2>2. /\ m_messages' \in [Conns -> Seq(Message)]
        /\ writes' \in [Conns -> Seq(Op)]
        /\ history' \in Seq(Message)
    BY <1>3, <2>1, BroadcastTypes DEF broadcast, IInv
  <2>3. TypeOK'
    BY <1>1, <1>2, <2>1, <2>2 DEF IInv, TypeOK
  <2>4. QED BY <2>1, <2>3, StoppedStep
<1>6. CASE ~get_address_throws(c) /\ BroadcastReturns /\ c \in Range(m_members)
  <2>1. /\ m_members' = erased(c)
        /\ obj' = [obj EXCEPT ![c] = "freed"]
        /\ m_messages' = [Queued(HasLeft(c)) EXCEPT ![c] = <<>>]
        /\ writes' = [Flushed(HasLeft(c)) EXCEPT ![c] = Aborted(rest)]
        /\ read' = [read EXCEPT ![c] = "none"]
        /\ history' = Append(history, HasLeft(c))
        /\ server' = server
    BY <1>6 DEF remove_member, Destroyed
  <2>2. /\ m_members' \in Seq(Conns)
        /\ IsInjective(m_members')
        /\ Range(m_members') = Live \ {c}
    <3>1. /\ m_members \in Seq(Conns)
          /\ IsInjective(m_members)
          /\ Range(m_members) = Live
      BY DEF IInv, TypeOK, Registry
    <3>2. PICK k \in DOMAIN m_members : m_members[k] = c
      BY <1>6 DEF Range
    <3>3. \A j \in 1..(k - 1) : m_members[j] # c
      BY <3>1, <3>2, LenProperties DEF IsInjective
    <3>4. PICK i \in DOMAIN m_members :
            m_members[i] = c /\ erased(c) = RemoveAt(m_members, i)
      <4>1. \E i \in DOMAIN m_members :
              m_members[i] = c /\ \A j \in 1..(i - 1) : m_members[j] # c
        BY <3>2, <3>3
      <4>2. QED BY <4>1 DEF erased
    <3>5. QED BY <2>1, <3>1, <3>4, RemoveAtDistinct
  <2>3. Aborted(rest) \in Seq(Op)
    <3>1. Len(rest) \in Nat /\ rest \in [1..Len(rest) -> Op]
      BY LenProperties
    <3>2. Aborted(rest) \in [1..Len(rest) -> Op]
      BY <3>1 DEF Aborted, Op
    <3>3. QED BY <3>1, <3>2, SeqDef
  <2>4. /\ Queued(HasLeft(c)) \in [Conns -> Seq(Message)]
        /\ Flushed(HasLeft(c)) \in [Conns -> Seq(Op)]
        /\ history' \in Seq(Message)
    BY <1>3, <2>1, BroadcastTypes DEF IInv
  <2>5. TypeOK'
    <3>1. m_messages' \in [Conns -> Seq(Message)]
      BY <2>1, <2>4, EmptySeq
    <3>2. writes' \in [Conns -> Seq(Op)]
      BY <2>1, <2>3, <2>4
    <3>3. QED
      BY <1>1, <1>2, <2>1, <2>2, <2>4, <3>1, <3>2 DEF IInv, TypeOK
  <2>6. OperationDiscipline'
    <3>1. ASSUME NEW d \in Conns PROVE Disciplined(d)'
      <4>1. Disciplined(d)
        BY DEF IInv, OperationDiscipline
      <4>2. CASE d # c
        <5>1. /\ m_messages'[d] = Queued(HasLeft(c))[d]
              /\ writes'[d] = Flushed(HasLeft(c))[d]
          BY <2>1, <2>4, <4>2
        <5>2. /\ obj[d] = "live" =>
                   Len(writes'[d]) = IF m_messages'[d] = <<>> THEN 0 ELSE 1
              /\ obj[d] # "live" =>
                   m_messages'[d] = m_messages[d] /\ writes'[d] = writes[d]
          BY <1>3, <5>1, BroadcastDiscipline
        <5>3. QED
          BY <1>1, <2>1, <4>1, <4>2, <5>2 DEF Disciplined, IInv, TypeOK
      <4>3. CASE d = c
        BY <2>1, <2>4, <4>3 DEF Disciplined, IInv, TypeOK
      <4>4. QED BY <4>2, <4>3
    <3>2. QED BY <3>1 DEF OperationDiscipline
  <2>7. Registry'
    <3>1. Live' = Live \ {c}
      BY <2>1 DEF Live, IInv, TypeOK
    <3>2. c \notin Range(backlog) /\ peer[c] # "absent" /\ removals[c] = 0
      BY DEF IInv, Registry
    <3>3. Range(backlog) \subseteq Conns
      BY ElementOfSeq, LenProperties DEF IInv, TypeOK, Range
    <3>4. \A d \in Range(backlog) : peer[d] # "absent" /\ obj'[d] = "none"
      BY <2>1, <3>2, <3>3 DEF IInv, Registry, TypeOK
    <3>5. ASSUME NEW d \in Conns
          PROVE  /\ peer[d] = "absent" => obj'[d] = "none"
                 /\ removals'[d] = IF obj'[d] = "freed" THEN 1 ELSE 0
      <4>1. /\ peer[d] = "absent" => obj[d] = "none"
            /\ removals[d] = IF obj[d] = "freed" THEN 1 ELSE 0
        BY DEF IInv, Registry
      <4>2. CASE d # c
        BY <1>1, <2>1, <4>1, <4>2 DEF IInv, TypeOK
      <4>3. CASE d = c
        <5>1. obj'[c] = "freed" /\ removals'[c] = 1
          BY <1>1, <2>1, <3>2 DEF IInv, TypeOK
        <5>2. QED BY <3>2, <4>3, <5>1
      <4>4. QED BY <4>2, <4>3
    <3>6. QED
      BY <1>1, <2>1, <2>2, <3>1, <3>4, <3>5 DEF IInv, Registry
  <2>8. QED BY <2>5, <2>6, <2>7 DEF IInv
<1>7. QED
  BY <1>4, <1>5, <1>6

LEMMA ReadErrorHandlerStep ==
  ASSUME IInv, NEW c \in Conns, ReadErrorHandler(c)
  PROVE  IInv'
<1>1. obj[c] = "live" /\ writes[c] \in Seq(Op)
  BY DEF ReadErrorHandler, IInv, TypeOK, OperationDiscipline, Disciplined
<1>2. QED
  BY <1>1, RemoveMemberStep DEF ReadErrorHandler

LEMMA WriteErrorHandlerStep ==
  ASSUME IInv, NEW c \in Conns, WriteErrorHandler(c)
  PROVE  IInv'
<1>1. writes[c] \in Seq(Op) /\ writes[c] # <<>>
  BY DEF WriteErrorHandler, IInv, TypeOK
<1>2. Tail(writes[c]) \in Seq(Op)
  BY <1>1, HeadTailProperties
<1>3. QED
  BY <1>2, RemoveMemberStep DEF WriteErrorHandler

LEMMA WriteHandlerStep ==
  ASSUME IInv, NEW c \in Conns, WriteHandler(c)
  PROVE  IInv'
<1> USE DEF net, aux, Up
<1> DEFINE q == Tail(m_messages[c])
           w == IF q # <<>> THEN Append(Tail(writes[c]), "pending")
                            ELSE Tail(writes[c])
<1>1. /\ writes[c] # <<>>
      /\ obj[c] = "live"
      /\ m_messages' = [m_messages EXCEPT ![c] = q]
      /\ writes' = [writes EXCEPT ![c] = w]
      /\ UNCHANGED <<server, peer, frames, backlog, accepting, m_members, obj,
                     phase, read, taken, history, sent, removals>>
  BY DEF WriteHandler
<1>2. writes[c] \in Seq(Op) /\ m_messages[c] \in Seq(Message)
  BY DEF IInv, TypeOK
<1>3. Len(writes[c]) = 1 /\ m_messages[c] # <<>>
  <2>1. Len(writes[c]) = IF m_messages[c] = <<>> THEN 0 ELSE 1
    BY <1>1 DEF WriteHandler, IInv, OperationDiscipline, Disciplined
  <2>2. Len(writes[c]) # 0
    BY <1>1, <1>2, EmptySeq
  <2>3. QED BY <2>1, <2>2
<1>4. q \in Seq(Message)
  BY <1>2, <1>3, HeadTailProperties
<1>5. Tail(writes[c]) \in Seq(Op) /\ Len(Tail(writes[c])) = 0
  BY <1>1, <1>2, <1>3, HeadTailProperties
<1>6. w \in Seq(Op) /\ Len(w) = IF q = <<>> THEN 0 ELSE 1
  <2>1. /\ Append(Tail(writes[c]), "pending") \in Seq(Op)
        /\ Len(Append(Tail(writes[c]), "pending")) = 1
    BY <1>5, AppendProperties DEF Op
  <2>2. QED BY <1>5, <2>1
<1> HIDE DEF q, w
<1>7. TypeOK'
  BY <1>1, <1>4, <1>6 DEF IInv, TypeOK
<1>8. OperationDiscipline'
  <2>1. ASSUME NEW d \in Conns PROVE Disciplined(d)'
    <3>1. Disciplined(d)
      BY DEF WriteHandler, IInv, OperationDiscipline
    <3>2. CASE d # c
      BY <1>1, <3>1, <3>2 DEF Disciplined, IInv, TypeOK
    <3>3. CASE d = c
      BY <1>1, <1>6, <3>1, <3>3 DEF Disciplined, IInv, TypeOK
    <3>4. QED BY <3>2, <3>3
  <2>2. QED BY <2>1 DEF OperationDiscipline
<1>9. Registry'
  BY <1>1 DEF IInv, Registry, Live
<1>10. QED
  BY <1>7, <1>8, <1>9 DEF IInv

LEMMA StaleWriteHandlerStep ==
  ASSUME IInv, NEW c \in Conns, StaleWriteHandler(c)
  PROVE  IInv'
<1>1. removals' \in [Conns -> Nat]
  <2>1. removals[c] + 1 \in Nat
    BY DEF IInv, TypeOK
  <2>2. removals' = removals \/ removals' = [removals EXCEPT ![c] = @ + 1]
    BY DEF StaleWriteHandler
  <2>3. QED BY <2>1, <2>2 DEF IInv, TypeOK
<1>2. TypeOK'
  BY <1>1 DEF StaleWriteHandler, net, IInv, TypeOK
<1>3. QED
  BY <1>2, StoppedStep DEF StaleWriteHandler

LEMMA IllDataHandlerStep ==
  ASSUME IInv, NEW c \in Conns, IllDataHandler(c)
  PROVE  IInv'
<1>1. TypeOK'
  BY DEF IllDataHandler, net, aux, IInv, TypeOK
<1>2. QED
  BY <1>1, StoppedStep DEF IllDataHandler

-----------------------------------------------------------------------------
(* The invariant, and what it gives. *)

LEMMA InitInvariant == Init => IInv
<1> SUFFICES ASSUME Init PROVE IInv
  OBVIOUS
<1>1. TypeOK
  BY MessagesAssumption, EmptySeq DEF Init, TypeOK, Op
<1>2. OperationDiscipline
  BY DEF Init, OperationDiscipline, Disciplined
<1>3. Registry
  <2>1. Range(m_members) = {} /\ IsInjective(m_members)
    BY DEF Init, Range, IsInjective
  <2>2. Range(backlog) = {} /\ IsInjective(backlog)
    BY DEF Init, Range, IsInjective
  <2>3. QED BY <2>1, <2>2 DEF Init, Registry, Live
<1>4. QED
  BY <1>1, <1>2, <1>3 DEF IInv

LEMMA NextInvariant == IInv /\ [Next]_vars => IInv'
<1> SUFFICES ASSUME IInv, [Next]_vars PROVE IInv'
  OBVIOUS
<1>1. CASE UNCHANGED vars
  BY <1>1 DEF vars, net, aux, IInv, TypeOK, OperationDiscipline, Disciplined,
              Registry, Live, Up
<1>2. CASE Peers
  BY <1>2, ConnectStep, PeerSendsStep, PeerEndsStep DEF Peers
<1>3. CASE Kernel
  BY <1>3, AcceptCompletesStep, ReadCompletesStep, WriteCompletesStep
  DEF Kernel
<1>4. CASE IoThread
  BY <1>4, AcceptHandlerStep, AcceptErrorHandlerStep, HeaderHandlerStep,
     DataHandlerStep, ReadErrorHandlerStep, WriteHandlerStep,
     WriteErrorHandlerStep, StaleWriteHandlerStep, IllDataHandlerStep
  DEF IoThread, Handlers
<1>5. QED
  BY <1>1, <1>2, <1>3, <1>4 DEF Next

\* IInv is an inductive invariant of the server.
THEOREM Invariance == Spec => []IInv
BY InitInvariant, NextInvariant, PTL DEF Spec

\* Every variable keeps its type: no handler pops an empty queue or accepts
\* from an empty backlog.  (member.cpp:73, server.cpp:31.)
THEOREM TypeCorrect == Spec => []TypeOK
<1>1. IInv => TypeOK
  BY DEF IInv
<1>2. QED BY <1>1, Invariance, PTL

\* Every member has one read outstanding, and one write exactly while it has
\* something to send.  (member.cpp:22-84.)
THEOREM OneReadOneWrite == Spec => []OperationDiscipline
<1>1. IInv => OperationDiscipline
  BY DEF IInv
<1>2. QED BY <1>1, Invariance, PTL

\* The member list is the set of live members, each once; a connection is
\* removed once.  (room.cpp:19-48.)
THEOREM MemberListIsExact == Spec => []Registry
<1>1. IInv => Registry
  BY DEF IInv
<1>2. QED BY <1>1, Invariance, PTL

-----------------------------------------------------------------------------
(***************************************************************************)
(* Departures.  A handler of a member that ends it has an error in hand;   *)
(* the error says something of the peer, which stays true while the        *)
(* handler waits: a reset is final, and after the end of the stream        *)
(* nothing more arrives.                                                   *)
(***************************************************************************)

\* What a failed operation of c says of its peer.
ErrorsHaveCauses(c) ==
  /\ read[c] = "error" =>
       peer[c] = "reset" \/ (peer[c] = "closed" /\ ~Arrived(c))
  /\ obj[c] = "live" =>
       \A i \in DOMAIN writes[c] : writes[c][i] = "error" => peer[c] = "reset"

\* Only the last frame of a peer may not be whole.
LastFrameDiffers(c) ==
  \A i \in DOMAIN frames[c] : i < Len(frames[c]) => frames[c][i] = "whole"

DepartedFairly(c) ==
  obj[c] = "freed" =>
    /\ peer[c] = "closed" \/ "bad" \in Range(frames[c])
    /\ \A i \in DOMAIN frames[c] : frames[c][i] = "whole" => i <= taken[c]

Causes(c) == ErrorsHaveCauses(c) /\ LastFrameDiffers(c) /\ DepartedFairly(c)

WhyInv == Up => \A c \in Conns : Causes(c)

\* A step after which c has no new error and has not just departed.
LEMMA CausesPersist ==
  ASSUME NEW c \in Conns, Causes(c),
         peer'[c] = peer[c], frames'[c] = frames[c],
         read'[c] = "error" =>
           read[c] = "error" /\ taken'[c] = taken[c] /\ phase'[c] = phase[c],
         obj'[c] = "live" => \A i \in DOMAIN writes'[c] : writes'[c][i] = "error" =>
           obj[c] = "live" /\ i \in DOMAIN writes[c] /\ writes[c][i] = "error",
         obj'[c] = "freed" => obj[c] = "freed" /\ taken'[c] = taken[c]
  PROVE  Causes(c)'
<1>1. ErrorsHaveCauses(c)'
  BY DEF Causes, ErrorsHaveCauses, Arrived
<1>2. LastFrameDiffers(c)'
  BY DEF Causes, LastFrameDiffers
<1>3. DepartedFairly(c)'
  BY DEF Causes, DepartedFairly, Range
<1>4. QED
  BY <1>1, <1>2, <1>3 DEF Causes

\* A broadcast starts writes and ends none.
LEMMA FlushedErrors ==
  ASSUME IInv, NEW msg, NEW c \in Conns,
         NEW i \in DOMAIN Flushed(msg)[c], Flushed(msg)[c][i] = "error"
  PROVE  i \in DOMAIN writes[c] /\ writes[c][i] = "error"
<1>1. writes[c] \in Seq(Op) /\ "pending" \in Op
  BY DEF IInv, TypeOK, Op
<1>2. /\ Len(writes[c]) \in Nat
      /\ DOMAIN writes[c] = 1..Len(writes[c])
      /\ DOMAIN Append(writes[c], "pending") = 1..(Len(writes[c]) + 1)
      /\ \A j \in 1..Len(writes[c]) : Append(writes[c], "pending")[j] = writes[c][j]
      /\ Append(writes[c], "pending")[Len(writes[c]) + 1] = "pending"
  BY <1>1, AppendProperties, LenProperties
<1>3. Flushed(msg)[c] \in {writes[c], Append(writes[c], "pending")}
  BY DEF Flushed
<1>4. CASE Flushed(msg)[c] = Append(writes[c], "pending")
  <2>1. i # Len(writes[c]) + 1
    BY <1>2, <1>4
  <2>2. QED BY <1>2, <1>4, <2>1
<1>5. QED
  BY <1>3, <1>4

LEMMA PeersCauses ==
  ASSUME IInv, Up, \A d \in Conns : Causes(d), Peers, NEW d \in Conns
  PROVE  Causes(d)'
<1>1. /\ peer \in [Conns -> {"absent", "open", "closed", "reset"}]
      /\ frames \in [Conns -> Seq(Frame)]
  BY DEF IInv, TypeOK
<1>2. UNCHANGED <<obj, phase, read, taken, writes>>
  BY DEF Peers, Connect, PeerSends, PeerCloses, PeerResets
<1>3. CASE peer'[d] = peer[d] /\ frames'[d] = frames[d]
  BY <1>2, <1>3, CausesPersist
<1>4. CASE Connect(d) \/ PeerCloses(d) \/ PeerResets(d)
  <2>1. /\ UNCHANGED frames /\ obj[d] # "freed"
        /\ peer'[d] = "reset" \/ peer[d] \in {"absent", "open"}
    BY <1>1, <1>4 DEF Connect, PeerCloses, PeerResets, IInv, Registry
  <2>2. Causes(d)
    OBVIOUS
  <2>3. ErrorsHaveCauses(d)'
    BY <1>2, <2>1, <2>2 DEF Causes, ErrorsHaveCauses
  <2>4. LastFrameDiffers(d)'
    BY <2>1, <2>2 DEF Causes, LastFrameDiffers
  <2>5. DepartedFairly(d)'
    BY <1>2, <2>1 DEF DepartedFairly
  <2>6. QED BY <2>3, <2>4, <2>5 DEF Causes
<1>5. ASSUME NEW f \in Frame, PeerSends(d, f) PROVE Causes(d)'
  <2>1. /\ peer[d] = "open" /\ UNCHANGED peer /\ obj[d] # "freed"
        /\ \A i \in DOMAIN frames[d] : frames[d][i] = "whole"
        /\ frames'[d] = Append(frames[d], f)
    BY <1>1, <1>5 DEF PeerSends
  <2>2. ErrorsHaveCauses(d)'
    BY <1>2, <2>1 DEF Causes, ErrorsHaveCauses
  <2>3. f \in Frame
    BY RoomAssumption
  <2>4. /\ Len(frames[d]) \in Nat /\ DOMAIN frames[d] = 1..Len(frames[d])
        /\ DOMAIN frames'[d] = 1..(Len(frames[d]) + 1)
        /\ Len(frames'[d]) = Len(frames[d]) + 1
        /\ \A i \in 1..Len(frames[d]) : frames'[d][i] = frames[d][i]
    BY <1>1, <2>1, <2>3, AppendProperties, LenProperties
  <2>5. LastFrameDiffers(d)'
    BY <2>1, <2>4 DEF LastFrameDiffers
  <2>6. DepartedFairly(d)'
    BY <1>2, <2>1 DEF DepartedFairly
  <2>7. QED BY <2>2, <2>5, <2>6 DEF Causes
<1>6. ASSUME NEW c \in Conns, c # d,
             \/ Connect(c) \/ PeerCloses(c) \/ PeerResets(c)
             \/ \E f \in Frame : PeerSends(c, f)
      PROVE  peer'[d] = peer[d] /\ frames'[d] = frames[d]
  BY <1>1, <1>6 DEF Connect, PeerSends, PeerCloses, PeerResets
<1>7. QED
  BY <1>3, <1>4, <1>5, <1>6 DEF Peers

LEMMA KernelCauses ==
  ASSUME IInv, Up, \A d \in Conns : Causes(d), Kernel, NEW d \in Conns
  PROVE  Causes(d)'
<1>1. /\ read \in [Conns -> Op \cup {"none"}]
      /\ writes \in [Conns -> Seq(Op)]
  BY DEF IInv, TypeOK
<1>2. UNCHANGED <<obj, peer, frames, phase, taken>>
  BY DEF Kernel, AcceptCompletes, ReadSucceeds, ReadFails, WriteSucceeds,
         WriteFails, net
<1>3. CASE read'[d] \in {read[d], "ok"} /\ writes'[d] = writes[d]
  BY <1>2, <1>3, CausesPersist
<1>4. CASE ReadFails(d)
  <2>1. /\ peer[d] = "reset" \/ (peer[d] = "closed" /\ ~Arrived(d))
        /\ UNCHANGED writes
    BY <1>4 DEF ReadFails
  <2>2. Causes(d)
    OBVIOUS
  <2>3. ErrorsHaveCauses(d)'
    BY <1>2, <2>1, <2>2 DEF Causes, ErrorsHaveCauses, Arrived
  <2>4. LastFrameDiffers(d)' /\ DepartedFairly(d)'
    BY <1>2, <2>2 DEF Causes, LastFrameDiffers, DepartedFairly, Range
  <2>5. QED BY <2>3, <2>4 DEF Causes
<1>5. CASE WriteSucceeds(d) \/ WriteFails(d)
  <2>1. PICK i \in DOMAIN writes[d], s \in {"ok", "error"} :
          /\ writes'[d] = [writes[d] EXCEPT ![i] = s]
          /\ s = "error" => peer[d] = "reset"
    BY <1>1, <1>5 DEF WriteSucceeds, WriteFails
  <2>2. /\ DOMAIN writes'[d] = DOMAIN writes[d]
        /\ \A j \in DOMAIN writes[d] :
             writes'[d][j] = "error" => peer[d] = "reset" \/ writes[d][j] = "error"
    BY <2>1
  <2>3. UNCHANGED read
    BY <1>5 DEF WriteSucceeds, WriteFails
  <2>4. Causes(d)
    OBVIOUS
  <2>5. ErrorsHaveCauses(d)'
    BY <1>2, <2>2, <2>3, <2>4 DEF Causes, ErrorsHaveCauses, Arrived
  <2>6. LastFrameDiffers(d)' /\ DepartedFairly(d)'
    BY <1>2, <2>4 DEF Causes, LastFrameDiffers, DepartedFairly, Range
  <2>7. QED BY <2>5, <2>6 DEF Causes
<1>6. CASE \E result \in {"ok", "error"} : AcceptCompletes(result)
  BY <1>3, <1>6 DEF AcceptCompletes
<1>7. ASSUME NEW c \in Conns, ReadSucceeds(c) \/ c # d,
             ReadSucceeds(c) \/ ReadFails(c) \/ WriteSucceeds(c) \/ WriteFails(c)
      PROVE  read'[d] \in {read[d], "ok"} /\ writes'[d] = writes[d]
  BY <1>1, <1>7 DEF ReadSucceeds, ReadFails, WriteSucceeds, WriteFails
<1>8. QED
  BY <1>3, <1>4, <1>5, <1>6, <1>7 DEF Kernel

LEMMA AcceptCauses ==
  ASSUME IInv, Up, Up', \A d \in Conns : Causes(d), AcceptHandler, NEW d \in Conns
  PROVE  Causes(d)'
<1>1. PICK c \in Conns : c = Head(backlog) /\ obj[c] = "none"
  <2>1. backlog \in Seq(Conns) /\ backlog # <<>> /\ IsInjective(backlog)
    BY DEF AcceptHandler, IInv, TypeOK, Registry
  <2>2. Head(backlog) \in Conns /\ Head(backlog) \in Range(backlog)
    BY <2>1, TailDistinct, HeadTailProperties
  <2>3. QED BY <2>2 DEF IInv, Registry
<1>2. add_member(c) /\ UNCHANGED <<peer, frames, phase, taken>>
  BY <1>1 DEF AcceptHandler
<1>3. /\ obj' = [obj EXCEPT ![c] = "live"]
      /\ read' = [read EXCEPT ![c] = "pending"]
      /\ writes' = Flushed(HasJoined(c))
  BY <1>2 DEF add_member, broadcast, Terminates, Up
<1>4. obj \in [Conns -> {"none", "live", "freed"}] /\ read \in [Conns -> Op \cup {"none"}]
  BY DEF IInv, TypeOK
<1>5. CASE d = c
  <2>1. obj'[d] = "live" /\ read'[d] = "pending"
    BY <1>3, <1>4, <1>5
  <2>2. writes[d] = <<>> /\ DOMAIN <<>> = {}
    BY <1>1, <1>5 DEF IInv, OperationDiscipline, Disciplined
  <2>3. \A i \in DOMAIN writes'[d] : writes'[d][i] # "error"
    BY <1>3, <2>2, FlushedErrors
  <2>4. QED BY <1>2, <2>1, <2>3, CausesPersist
<1>6. CASE d # c
  <2>1. obj'[d] = obj[d] /\ read'[d] = read[d]
    BY <1>3, <1>4, <1>6
  <2>2. QED BY <1>2, <1>3, <2>1, FlushedErrors, CausesPersist
<1>7. QED
  BY <1>5, <1>6

LEMMA DataCauses ==
  ASSUME IInv, Up, Up', \A d \in Conns : Causes(d), NEW c \in Conns, DataHandler(c),
         NEW d \in Conns
  PROVE  Causes(d)'
<1>1. /\ UNCHANGED <<peer, frames, obj>>
      /\ read[c] = "ok"
      /\ writes' = Flushed(Data(c, taken[c] + 1))
      /\ phase' = [phase EXCEPT ![c] = "header"]
      /\ read' = [read EXCEPT ![c] = "pending"]
      /\ taken' = [taken EXCEPT ![c] = @ + 1]
  BY DEF DataHandler, broadcast, net, Terminates, Up
<1>2. /\ phase \in [Conns -> {"header", "data"}]
      /\ read \in [Conns -> Op \cup {"none"}]
      /\ taken \in [Conns -> 0..MaxFrames]
  BY DEF IInv, TypeOK
<1>3. CASE d = c
  <2>1. obj[d] = "live" /\ read'[d] = "pending"
    BY <1>1, <1>2, <1>3 DEF IInv, OperationDiscipline, Disciplined
  <2>2. QED BY <1>1, <2>1, FlushedErrors, CausesPersist
<1>4. CASE d # c
  <2>1. phase'[d] = phase[d] /\ read'[d] = read[d] /\ taken'[d] = taken[d]
    BY <1>1, <1>2, <1>4
  <2>2. QED BY <1>1, <2>1, FlushedErrors, CausesPersist
<1>5. QED
  BY <1>3, <1>4

\* A removal that the server survives, for a reason found with its peer.
LEMMA RemovalCauses ==
  ASSUME IInv, Up, Up', \A d \in Conns : Causes(d), NEW c \in Conns, NEW rest,
         remove_member(c, rest), UNCHANGED <<net, taken, phase>>,
         peer[c] # "reset" =>
           /\ peer[c] = "closed" \/ "bad" \in Range(frames[c])
           /\ \A i \in DOMAIN frames[c] : frames[c][i] = "whole" => i <= taken[c],
         NEW d \in Conns
  PROVE  Causes(d)'
<1>1. Destroyed(c, rest) /\ peer[c] # "reset"
  BY DEF remove_member, Terminates, Up, get_address_throws
<1>2. /\ obj' = [obj EXCEPT ![c] = "freed"]
      /\ writes' = [Flushed(HasLeft(c)) EXCEPT ![c] = Aborted(rest)]
      /\ read' = [read EXCEPT ![c] = "none"]
  BY <1>1 DEF Destroyed
<1>3. UNCHANGED <<peer, frames>>
  BY DEF net
<1>4. obj \in [Conns -> {"none", "live", "freed"}] /\ read \in [Conns -> Op \cup {"none"}]
  BY DEF IInv, TypeOK
<1>5. CASE d = c
  <2>1. obj'[d] = "freed" /\ read'[d] = "none"
    BY <1>2, <1>4, <1>5
  <2>2. ErrorsHaveCauses(d)'
    BY <2>1 DEF ErrorsHaveCauses
  <2>3. LastFrameDiffers(d)'
    BY <1>3 DEF Causes, LastFrameDiffers
  <2>4. DepartedFairly(d)'
    BY <1>1, <1>3, <1>5 DEF DepartedFairly, Range
  <2>5. QED BY <2>2, <2>3, <2>4 DEF Causes
<1>6. CASE d # c
  <2>1. obj'[d] = obj[d] /\ read'[d] = read[d] /\ writes'[d] = Flushed(HasLeft(c))[d]
    BY <1>2, <1>4, <1>6 DEF Flushed
  <2>2. QED BY <1>3, <2>1, FlushedErrors, CausesPersist
<1>7. QED
  BY <1>5, <1>6

LEMMA ReadErrorCauses ==
  ASSUME IInv, Up, Up', \A d \in Conns : Causes(d), NEW c \in Conns,
         ReadErrorHandler(c), NEW d \in Conns
  PROVE  Causes(d)'
<1>1. /\ frames[c] \in Seq(Frame) /\ Len(frames[c]) \in Nat
      /\ DOMAIN frames[c] = 1..Len(frames[c])
      /\ taken[c] \in Nat
  BY LenProperties DEF IInv, TypeOK
<1>2. LastFrameDiffers(c) /\ ErrorsHaveCauses(c)
  BY DEF Causes
<1>3. ASSUME peer[c] # "reset"
      PROVE  /\ peer[c] = "closed" \/ "bad" \in Range(frames[c])
             /\ \A i \in DOMAIN frames[c] : frames[c][i] = "whole" => i <= taken[c]
  <2>1. CASE read[c] = "error"
    <3>1. peer[c] = "closed" /\ ~Arrived(c)
      BY <1>2, <1>3, <2>1 DEF ErrorsHaveCauses
    <3>2. taken[c] >= Len(frames[c]) \/ frames[c][taken[c] + 1] # "whole"
      BY <1>1, <3>1 DEF Arrived
    <3>3. ASSUME NEW i \in DOMAIN frames[c], frames[c][i] = "whole", ~(i <= taken[c])
          PROVE  FALSE
      <4>1. taken[c] + 1 \in DOMAIN frames[c] /\ frames[c][taken[c] + 1] # "whole"
        BY <1>1, <3>2, <3>3
      <4>2. i = taken[c] + 1
        BY <1>1, <1>2, <3>3, <4>1 DEF LastFrameDiffers
      <4>3. QED BY <3>3, <4>1, <4>2
    <3>4. QED BY <3>1, <3>3
  <2>2. CASE read[c] = "ok" /\ bad_header(c)
    <3>1. taken[c] + 1 \in DOMAIN frames[c] /\ frames[c][taken[c] + 1] = "bad"
      BY <1>1, <2>2 DEF bad_header, IInv, OperationDiscipline, Disciplined
    <3>2. "bad" \in Range(frames[c])
      BY <3>1 DEF Range
    <3>3. ASSUME NEW i \in DOMAIN frames[c], frames[c][i] = "whole", ~(i <= taken[c])
          PROVE  FALSE
      <4>1. i = taken[c] + 1
        BY <1>1, <1>2, <3>1, <3>3 DEF LastFrameDiffers
      <4>2. QED BY <3>1, <3>3, <4>1
    <3>4. QED BY <3>2, <3>3
  <2>3. QED BY <2>1, <2>2 DEF ReadErrorHandler
<1>4. QED
  BY <1>3, RemovalCauses DEF ReadErrorHandler

LEMMA WriteErrorCauses ==
  ASSUME IInv, Up, Up', \A d \in Conns : Causes(d), NEW c \in Conns,
         WriteErrorHandler(c), NEW d \in Conns
  PROVE  Causes(d)'
<1>1. obj[c] = "live" /\ writes[c] # <<>> /\ Head(writes[c]) = "error"
  BY DEF WriteErrorHandler
<1>2. 1 \in DOMAIN writes[c] /\ writes[c][1] = "error"
  BY <1>1, EmptySeq, LenProperties, HeadTailProperties DEF IInv, TypeOK
<1>3. peer[c] = "reset"
  BY <1>1, <1>2 DEF Causes, ErrorsHaveCauses
<1>4. QED
  BY <1>3, RemovalCauses DEF WriteErrorHandler

LEMMA WriteHandlerCauses ==
  ASSUME IInv, Up, \A d \in Conns : Causes(d), NEW c \in Conns, WriteHandler(c),
         NEW d \in Conns
  PROVE  Causes(d)'
<1>1. /\ obj[c] = "live" /\ writes[c] # <<>>
      /\ writes' = [writes EXCEPT ![c] =
                      IF Tail(m_messages[c]) # <<>> THEN Append(Tail(writes[c]), "pending")
                                                    ELSE Tail(writes[c])]
      /\ UNCHANGED <<peer, frames, obj, phase, read, taken>>
  BY DEF WriteHandler, net
<1>2. writes \in [Conns -> Seq(Op)] /\ writes[c] \in Seq(Op)
  BY DEF IInv, TypeOK
<1>3. Len(writes[c]) = 1
  BY <1>1, <1>2, EmptySeq DEF IInv, OperationDiscipline, Disciplined
<1>4. Tail(writes[c]) \in Seq(Op) /\ Len(Tail(writes[c])) = 0
  BY <1>1, <1>2, <1>3, HeadTailProperties
<1>5. \A i \in DOMAIN writes'[c] : writes'[c][i] # "error"
  <2> DEFINE w == Append(Tail(writes[c]), "pending")
  <2>1. w \in Seq(Op) /\ Len(w) = 1 /\ w[1] = "pending"
    BY <1>4, AppendProperties DEF Op
  <2>2. DOMAIN w = 1..1 /\ DOMAIN Tail(writes[c]) = 1..0
    BY <1>4, <2>1, LenProperties
  <2>3. writes'[c] \in {w, Tail(writes[c])}
    BY <1>1, <1>2
  <2> HIDE DEF w
  <2>4. ASSUME NEW i \in DOMAIN writes'[c] PROVE writes'[c][i] # "error"
    <3>1. CASE writes'[c] = w
      BY <2>1, <2>2, <3>1
    <3>2. CASE writes'[c] = Tail(writes[c])
      BY <2>2, <3>2
    <3>3. QED BY <2>3, <3>1, <3>2
  <2>5. QED BY <2>4
<1>6. d # c => writes'[d] = writes[d]
  BY <1>1, <1>2
<1>7. QED
  BY <1>1, <1>5, <1>6, CausesPersist

-----------------------------------------------------------------------------
LEMMA InitCauses == Init => WhyInv
<1> SUFFICES ASSUME Init, NEW c \in Conns PROVE Causes(c)
  BY DEF WhyInv
<1>1. /\ read[c] = "none" /\ obj[c] = "none"
      /\ DOMAIN frames[c] = {}
  BY DEF Init
<1>2. QED
  BY <1>1 DEF Causes, ErrorsHaveCauses, LastFrameDiffers, DepartedFairly

LEMMA NextCauses ==
  ASSUME IInv, WhyInv, [Next]_vars
  PROVE  WhyInv'
<1> SUFFICES ASSUME Up', NEW d \in Conns
             PROVE  Causes(d)'
  BY DEF WhyInv
<1> Up
  BY DEF Next, vars, Up, Peers, Connect, PeerSends, PeerCloses, PeerResets,
         Kernel, AcceptCompletes, ReadSucceeds, ReadFails, WriteSucceeds,
         WriteFails, IoThread, AcceptHandler, AcceptErrorHandler, Handlers,
         HeaderHandler, DataHandler, IllDataHandler, ReadErrorHandler,
         WriteHandler, WriteErrorHandler, StaleWriteHandler
<1> \A c \in Conns : Causes(c)
  BY DEF WhyInv
<1>1. CASE UNCHANGED <<peer, frames, obj, phase, read, taken, writes>>
  BY <1>1, CausesPersist
<1>2. CASE Peers
  BY <1>2, PeersCauses
<1>3. CASE Kernel
  BY <1>3, KernelCauses
<1>4. CASE AcceptHandler \/ AcceptErrorHandler
  BY <1>1, <1>4, AcceptCauses DEF AcceptErrorHandler, net
<1>5. ASSUME NEW c \in Conns, Handlers(c)
      PROVE  Causes(d)'
  <2>1. CASE HeaderHandler(c)
    <3>1. /\ UNCHANGED <<peer, frames, obj, taken, writes>>
          /\ read'[d] = "error" => read[d] = "error" /\ phase'[d] = phase[d]
      BY <2>1 DEF HeaderHandler, net, IInv, TypeOK
    <3>2. QED BY <3>1, CausesPersist
  <2>2. CASE DataHandler(c)
    BY <2>2, DataCauses
  <2>3. CASE ReadErrorHandler(c)
    BY <2>3, ReadErrorCauses
  <2>4. CASE WriteHandler(c)
    BY <2>4, WriteHandlerCauses
  <2>5. CASE WriteErrorHandler(c)
    BY <2>5, WriteErrorCauses
  <2>6. CASE StaleWriteHandler(c) \/ IllDataHandler(c)
    BY <2>6 DEF StaleWriteHandler, IllDataHandler, Up
  <2>7. QED BY <1>5, <2>1, <2>2, <2>3, <2>4, <2>5, <2>6 DEF Handlers
<1>6. CASE UNCHANGED vars
  BY <1>1, <1>6 DEF vars, net
<1>7. QED
  BY <1>2, <1>3, <1>4, <1>5, <1>6 DEF Next, IoThread

\* A connection is dropped only because its peer closed it or sent a header
\* that is refused, and all that the peer had sent completely was broadcast.
\* (member.cpp:22-57.)
THEOREM NobodyIsDroppedForAnother == Spec => []Departures
<1>1. WhyInv => Departures
  BY DEF WhyInv, Causes, DepartedFairly, Departures
<1>2. IInv /\ WhyInv /\ [Next]_vars => WhyInv'
  BY NextCauses
<1>3. QED
  BY <1>1, <1>2, InitCauses, Invariance, PTL DEF Spec

-----------------------------------------------------------------------------
(***************************************************************************)
(* The room implements the broadcast service, and so all its members see   *)
(* one order of announcements.  A message is handed to the socket by the   *)
(* only write, so it is the front one; and the recipients of a broadcast   *)
(* that returns are exactly the members but the origin, since the list is  *)
(* exact.                                                                  *)
(***************************************************************************)

\* What of the queue q is not written yet, if w are the writes outstanding.
UnwrittenOf(q, w) ==
  IF w # <<>> /\ Head(w) = "ok" /\ q # <<>> THEN Tail(q) ELSE q

\* The service and the room speak of the same messages.
LEMMA SameVocabulary ==
  /\ Chat!Message = Message
  /\ Chat!Inside = Live
  /\ \A c : Chat!HasJoined(c) = HasJoined(c) /\ Chat!HasLeft(c) = HasLeft(c)
  /\ \A c, n : Chat!Data(c, n) = Data(c, n)
  /\ \A msg : Chat!get_origin(msg) = get_origin(msg)
BY DEF Chat!Message, Message, Chat!Inside, Live, Chat!HasJoined, HasJoined,
       Chat!HasLeft, HasLeft, Chat!Data, Data, Chat!get_origin, get_origin

LEMMA UnsentType ==
  ASSUME IInv, NEW c \in Conns
  PROVE  Unsent(c) \in Seq(Message) /\ sent[c] \in Seq(Message)
<1>1. m_messages[c] \in Seq(Message) /\ sent[c] \in Seq(Message)
  BY DEF IInv, TypeOK
<1>2. m_messages[c] # <<>> => Tail(m_messages[c]) \in Seq(Message)
  BY <1>1, HeadTailProperties
<1>3. QED
  BY <1>1, <1>2 DEF Unsent

\* The next message of t, handed over, moves from t to s.
LEMMA HandOver ==
  ASSUME NEW S, NEW s \in Seq(S), NEW t \in Seq(S), t # <<>>
  PROVE  /\ Append(s, Head(t)) \o Tail(t) = s \o t
         /\ Len(s) < Len(s \o t)
         /\ (s \o t)[Len(s) + 1] = Head(t)
<1>1. Head(t) \in S /\ Tail(t) \in Seq(S)
  BY HeadTailProperties
<1>2. <<Head(t)>> \in Seq(S) /\ <<Head(t)>> \o Tail(t) = t
  BY <1>1, HeadTailProperties, ConcatProperties
<1>3. Append(s, Head(t)) = s \o <<Head(t)>>
  BY <1>1, AppendIsConcat
<1>4. (s \o <<Head(t)>>) \o Tail(t) = s \o (<<Head(t)>> \o Tail(t))
  BY <1>1, <1>2, ConcatAssociative
<1>5. /\ Len(s) \in Nat /\ Len(t) \in Nat /\ Len(t) # 0
      /\ Len(s \o t) = Len(s) + Len(t)
      /\ \A i \in 1..(Len(s) + Len(t)) :
           (s \o t)[i] = IF i <= Len(s) THEN s[i] ELSE t[i - Len(s)]
  BY EmptySeq, LenProperties, ConcatProperties
<1>6. Head(t) = t[1]
  BY HeadTailProperties
<1>7. (s \o t)[Len(s) + 1] = t[1]
  BY <1>5
<1>8. QED
  BY <1>2, <1>3, <1>4, <1>5, <1>6, <1>7

-----------------------------------------------------------------------------
(* room::broadcast announces. *)

\* Whoever is reached by a broadcast is a member that is not the origin, and
\* a broadcast that returns reached all of these.
LEMMA RecipientsAreTheAudience ==
  ASSUME IInv, Up, NEW msg
  PROVE  /\ Recipients(msg) \subseteq Chat!Audience(msg)
         /\ BroadcastReturns => Recipients(msg) = Chat!Audience(msg)
<1>1. Range(m_members) = Live /\ m_members \in Seq(Conns)
  BY DEF IInv, Registry, TypeOK
<1>2. Chat!Audience(msg) = {c \in Live : get_origin(msg) # c}
  BY SameVocabulary DEF Chat!Audience
<1>3. Recipients(msg) \subseteq Chat!Audience(msg)
  BY <1>1, <1>2 DEF Recipients, Range
<1>4. ASSUME BroadcastReturns, NEW c \in Live, get_origin(msg) # c
      PROVE  c \in Recipients(msg)
  <2>1. PICK j \in DOMAIN m_members : m_members[j] = c
    BY <1>1 DEF Range
  <2>2. \A k \in 1..j : ~get_address_throws(m_members[k])
    BY <1>1, <1>4, LenProperties DEF BroadcastReturns
  <2>3. QED BY <1>4, <2>1, <2>2 DEF Recipients
<1>5. QED
  BY <1>2, <1>3, <1>4

\* To queue a message is to owe it to the recipients, and to no one else.
LEMMA QueuedIsOwed ==
  ASSUME IInv, Up, NEW msg \in Message, NEW c \in Conns
  PROVE  UnwrittenOf(Queued(msg)[c], Flushed(msg)[c]) =
           IF c \in Recipients(msg) THEN Append(Unsent(c), msg) ELSE Unsent(c)
<1>1. CASE c \notin Recipients(msg)
  BY <1>1 DEF UnwrittenOf, Unsent, Queued, Flushed
<1>2. CASE c \in Recipients(msg)
  <2> DEFINE m == m_messages[c]
             w == writes[c]
  <2>1. m \in Seq(Message) /\ w \in Seq(Op)
    BY DEF IInv, TypeOK
  <2>2. obj[c] = "live"
    BY <1>2, RecipientsAreMembers DEF IInv, Registry, Live
  <2>3. Len(w) = IF m = <<>> THEN 0 ELSE 1
    BY <2>2 DEF IInv, OperationDiscipline, Disciplined
  <2>4. Queued(msg)[c] = Append(m, msg)
    BY <1>2 DEF Queued
  <2>5. Flushed(msg)[c] = IF m = <<>> THEN Append(w, "pending") ELSE w
    BY <1>2 DEF Flushed
  <2>6. Unsent(c) = IF w # <<>> /\ Head(w) = "ok" /\ m # <<>> THEN Tail(m) ELSE m
    BY DEF Unsent
  <2> HIDE DEF m, w
  <2>7. CASE m = <<>>
    <3>1. w = <<>>
      BY <2>1, <2>3, <2>7, EmptySeq
    <3>2. Head(Append(w, "pending")) = "pending"
      BY <3>1
    <3>3. Unsent(c) = m
      BY <2>6, <2>7
    <3>4. UnwrittenOf(Append(m, msg), Append(w, "pending")) = Append(m, msg)
      BY <3>2 DEF UnwrittenOf
    <3>5. QED BY <1>2, <2>4, <2>5, <2>7, <3>3, <3>4
  <2>8. CASE m # <<>>
    <3>1. Append(m, msg) # <<>> /\ Tail(Append(m, msg)) = Append(Tail(m), msg)
      BY <2>1, <2>8, HeadTailAppend, AppendProperties
    <3>2. UnwrittenOf(Append(m, msg), w) =
            IF w # <<>> /\ Head(w) = "ok" THEN Append(Tail(m), msg) ELSE Append(m, msg)
      BY <3>1 DEF UnwrittenOf
    <3>3. QED BY <1>2, <2>4, <2>5, <2>6, <2>8, <3>2
  <2>9. QED BY <2>7, <2>8
<1>3. QED
  BY <1>1, <1>2

\* What everybody is owed after msg was queued for its recipients.
LEMMA BroadcastTells ==
  ASSUME IInv, Up, NEW msg \in Message, NEW c \in Conns
  PROVE  sent[c] \o UnwrittenOf(Queued(msg)[c], Flushed(msg)[c]) =
           Chat!Told(msg, Recipients(msg))[c]
<1>1. Unsent(c) \in Seq(Message) /\ sent[c] \in Seq(Message)
  BY UnsentType
<1>2. sent[c] \o Append(Unsent(c), msg) = Append(sent[c] \o Unsent(c), msg)
  <2>1. \A s, t \in Seq(Message) : s \o Append(t, msg) = Append(s \o t, msg)
    BY ConcatAppend
  <2>2. QED BY <1>1, <2>1, Zenon
<1>3. Chat!Told(msg, Recipients(msg))[c] =
        IF c \in Recipients(msg) THEN Append(sent[c] \o Unsent(c), msg)
                                 ELSE sent[c] \o Unsent(c)
  BY DEF Chat!Told
<1>4. QED
  BY <1>2, <1>3, QueuedIsOwed

LEMMA BroadcastAnnounces ==
  ASSUME IInv, Up, NEW msg \in Message, broadcast(msg), UNCHANGED sent
  PROVE  /\ history' = Append(history, msg)
         /\ [c \in Conns |-> sent[c] \o Unsent(c)]' = Chat!Told(msg, Recipients(msg))
<1>1. \A c \in Conns :
        Unsent(c)' = UnwrittenOf(Queued(msg)[c], Flushed(msg)[c])
  BY DEF broadcast, Unsent, UnwrittenOf
<1>2. \A c \in Conns :
        sent'[c] \o Unsent(c)' = Chat!Told(msg, Recipients(msg))[c]
  BY <1>1, BroadcastTells
<1>3. [c \in Conns |-> sent[c] \o Unsent(c)]' = Chat!Told(msg, Recipients(msg))
  BY <1>2 DEF Chat!Told
<1>4. history' = Append(history, msg)
  BY DEF broadcast
<1>5. QED
  BY <1>3, <1>4

-----------------------------------------------------------------------------
(* Every step of the room is a step of the service, or none. *)

\* A step is none if everybody is owed the same.
LEMMA NothingAnnounced ==
  ASSUME UNCHANGED <<obj, history, sent, taken>>,
         \A c \in Conns : Unsent(c)' = Unsent(c)
  PROVE  /\ UNCHANGED <<history, [c \in Conns |-> sent[c] \o Unsent(c)]>>
         /\ Up' = Up => UNCHANGED Chat!absVars
         /\ Up /\ ~Up' => Chat!Halt
<1>1. [c \in Conns |-> sent[c] \o Unsent(c)]' = [c \in Conns |-> sent[c] \o Unsent(c)]
  OBVIOUS
<1>2. Up \in BOOLEAN /\ Up' \in BOOLEAN
  BY DEF Up
<1>3. QED
  BY <1>1, <1>2 DEF Chat!absVars, Chat!Halt

LEMMA QueuesUntouched ==
  ASSUME UNCHANGED <<obj, history, sent, taken, m_messages, writes>>
  PROVE  /\ Up' = Up => UNCHANGED Chat!absVars
         /\ Up /\ ~Up' => Chat!Halt
<1>1. \A c \in Conns : Unsent(c)' = Unsent(c)
  BY DEF Unsent
<1>2. QED
  BY <1>1, NothingAnnounced

\* An exception in the middle of a broadcast.
LEMMA BroadcastHalts ==
  ASSUME IInv, Up, NEW msg \in Message, broadcast(msg), Terminates,
         UNCHANGED <<obj, sent, taken>>
  PROVE  Chat!Halt
<1>1. /\ history' = Append(history, msg)
      /\ [c \in Conns |-> sent[c] \o Unsent(c)]' = Chat!Told(msg, Recipients(msg))
  BY BroadcastAnnounces
<1>2. Recipients(msg) \in SUBSET Chat!Audience(msg)
  BY RecipientsAreTheAudience
<1>3. msg \in Chat!Message
  BY SameVocabulary
<1>4. Up = TRUE /\ Up' = FALSE
  BY DEF Up, Terminates
<1>5. \E m \in Chat!Message : \E reached \in SUBSET Chat!Audience(m) :
        Chat!Announce(m, reached)
  BY <1>1, <1>2, <1>3 DEF Chat!Announce
<1>6. QED
  BY <1>4, <1>5, Zenon DEF Chat!Halt

LEMMA AcceptHandlerRefines ==
  ASSUME IInv, AcceptHandler
  PROVE  Chat!AbsNext
<1>1. PICK c \in Conns : c = Head(backlog) /\ obj[c] = "none"
  <2>1. backlog \in Seq(Conns) /\ backlog # <<>> /\ IsInjective(backlog)
    BY DEF AcceptHandler, IInv, TypeOK, Registry
  <2>2. Head(backlog) \in Conns /\ Head(backlog) \in Range(backlog)
    BY <2>1, TailDistinct, HeadTailProperties
  <2>3. QED BY <2>2 DEF AcceptHandler, IInv, Registry
<1>2. add_member(c) /\ Up /\ UNCHANGED <<taken, sent>>
  BY <1>1 DEF AcceptHandler
<1>3. HasJoined(c) \in Message
  BY <1>1, RoomMessages
<1>4. CASE get_address_throws(c)
  <2>1. ~Up' /\ UNCHANGED <<obj, history, m_messages, writes>>
    BY <1>2, <1>4 DEF add_member, Terminates, Up
  <2>2. QED BY <1>2, <2>1, QueuesUntouched DEF Chat!AbsNext
<1>5. CASE ~get_address_throws(c) /\ ~BroadcastReturns
  <2>1. broadcast(HasJoined(c)) /\ Terminates /\ UNCHANGED obj
    BY <1>2, <1>5 DEF add_member
  <2>2. QED BY <1>2, <1>3, <2>1, BroadcastHalts DEF Chat!AbsNext
<1>6. CASE ~get_address_throws(c) /\ BroadcastReturns
  <2>1. /\ broadcast(HasJoined(c))
        /\ obj' = [obj EXCEPT ![c] = "live"]
        /\ UNCHANGED server
    BY <1>2, <1>6 DEF add_member
  <2>2. /\ history' = Append(history, HasJoined(c))
        /\ [d \in Conns |-> sent[d] \o Unsent(d)]' =
             Chat!Told(HasJoined(c), Chat!Audience(HasJoined(c)))
    <3>1. Recipients(HasJoined(c)) = Chat!Audience(HasJoined(c))
      BY <1>2, <1>6, RecipientsAreTheAudience
    <3>2. QED BY <1>2, <1>3, <2>1, <3>1, BroadcastAnnounces
  <2>3. Up' = Up
    BY <2>1 DEF Up
  <2>4. Chat!Join(c)
    BY <1>1, <1>2, <2>1, <2>2, <2>3, SameVocabulary DEF Chat!Join, Chat!Announce
  <2>5. QED BY <1>1, <2>4 DEF Chat!AbsNext
<1>7. QED
  BY <1>4, <1>5, <1>6

LEMMA DataHandlerRefines ==
  ASSUME IInv, NEW c \in Conns, DataHandler(c)
  PROVE  Chat!AbsNext
<1>1. /\ obj[c] = "live" /\ taken[c] \in Nat
      /\ taken[c] < MaxFrames /\ taken[c] + 1 \in 0..MaxFrames
  <2>1. /\ obj[c] = "live"
        /\ taken[c] \in Nat
        /\ taken[c] < Len(frames[c])
        /\ Len(frames[c]) <= MaxFrames
        /\ Len(frames[c]) \in Nat
    BY LenProperties
    DEF DataHandler, IInv, TypeOK, OperationDiscipline, Disciplined
  <2>2. QED BY <2>1, MessagesAssumption
<1>2. PICK msg \in Message : msg = Data(c, taken[c] + 1)
  BY <1>1 DEF Data, Message
<1>3. Chat!Data(c, taken[c] + 1) = msg
  BY <1>2, SameVocabulary
<1>4. broadcast(msg) /\ Up /\ UNCHANGED <<obj, sent>>
  BY <1>2 DEF DataHandler
<1>5. CASE ~BroadcastReturns
  <2>1. Terminates /\ UNCHANGED taken
    BY <1>5 DEF DataHandler
  <2>2. QED BY <1>2, <1>4, <2>1, BroadcastHalts DEF Chat!AbsNext
<1>6. CASE BroadcastReturns
  <2>1. taken' = [taken EXCEPT ![c] = @ + 1] /\ UNCHANGED server
    BY <1>6 DEF DataHandler
  <2>2. /\ history' = Append(history, msg)
        /\ [d \in Conns |-> sent[d] \o Unsent(d)]' =
             Chat!Told(msg, Chat!Audience(msg))
    <3>1. Recipients(msg) = Chat!Audience(msg)
      BY <1>4, <1>6, RecipientsAreTheAudience
    <3>2. QED BY <1>4, <3>1, BroadcastAnnounces
  <2>3. Up' = Up
    BY <2>1 DEF Up
  <2>4. Chat!Publish(c)
    BY <1>1, <1>3, <1>4, <2>1, <2>2, <2>3 DEF Chat!Publish, Chat!Announce
  <2>5. QED BY <2>4 DEF Chat!AbsNext
<1>7. QED
  BY <1>5, <1>6

LEMMA RemoveMemberRefines ==
  ASSUME IInv, Up, NEW c \in Conns, obj[c] = "live", NEW rest,
         remove_member(c, rest), UNCHANGED <<taken, sent>>
  PROVE  Chat!AbsNext
<1>1. HasLeft(c) \in Message
  BY RoomMessages
<1>2. CASE get_address_throws(c)
  <2>1. ~Up' /\ UNCHANGED <<obj, history, m_messages, writes>>
    BY <1>2 DEF remove_member, Terminates, Up
  <2>2. QED BY <2>1, QueuesUntouched DEF Chat!AbsNext
<1>3. CASE broadcast(HasLeft(c)) /\ Terminates /\ UNCHANGED obj
  BY <1>1, <1>3, BroadcastHalts DEF Chat!AbsNext
<1>4. CASE Destroyed(c, rest) /\ UNCHANGED server /\ BroadcastReturns
  <2> DEFINE msg == HasLeft(c)
             told == Chat!Told(msg, Chat!Audience(msg))
  <2>1. /\ obj' = [obj EXCEPT ![c] = "freed"]
        /\ m_messages' = [Queued(msg) EXCEPT ![c] = <<>>]
        /\ writes' = [Flushed(msg) EXCEPT ![c] = Aborted(rest)]
        /\ history' = Append(history, msg)
    BY <1>4 DEF Destroyed
  <2>2. Recipients(msg) = Chat!Audience(msg)
    BY <1>4, RecipientsAreTheAudience
  <2>3. ASSUME NEW d \in Conns
        PROVE  sent'[d] \o Unsent(d)' = [told EXCEPT ![c] = sent[c]][d]
    <3>1. DOMAIN told = Conns
      BY DEF Chat!Told
    <3>2. CASE d = c
      <4>1. m_messages'[c] = <<>>
        BY <2>1 DEF Queued
      <4>2. Unsent(c)' = <<>>
        BY <4>1 DEF Unsent
      <4>3. sent[c] \o <<>> = sent[c]
        BY UnsentType, ConcatEmptySeq
      <4>4. QED BY <3>1, <3>2, <4>2, <4>3
    <3>3. CASE d # c
      <4>1. m_messages'[d] = Queued(msg)[d] /\ writes'[d] = Flushed(msg)[d]
        BY <2>1, <3>3 DEF Queued, Flushed
      <4>2. Unsent(d)' = UnwrittenOf(Queued(msg)[d], Flushed(msg)[d])
        BY <4>1 DEF Unsent, UnwrittenOf
      <4>3. sent'[d] \o Unsent(d)' = told[d]
        BY <1>1, <2>2, <4>2, BroadcastTells
      <4>4. QED BY <3>1, <3>3, <4>3
    <3>4. QED BY <3>2, <3>3
  <2>4. [d \in Conns |-> sent[d] \o Unsent(d)]' = [told EXCEPT ![c] = sent[c]]
    BY <2>3 DEF Chat!Told
  <2>5. Up' = Up
    BY <1>4 DEF Up
  <2>6. Chat!HasLeft(c) = msg
    BY SameVocabulary
  <2> HIDE DEF msg
  <2>7. Chat!Leave(c)
    BY <2>1, <2>4, <2>5, <2>6 DEF Chat!Leave
  <2>8. QED BY <2>7 DEF Chat!AbsNext
<1>5. QED
  BY <1>2, <1>3, <1>4 DEF remove_member

LEMMA WriteSucceedsRefines ==
  ASSUME IInv, NEW c \in Conns, WriteSucceeds(c)
  PROVE  Chat!AbsNext
<1> DEFINE m == m_messages[c]
<1>1. /\ Up /\ obj[c] = "live" /\ m # <<>>
      /\ sent' = [sent EXCEPT ![c] = Append(sent[c], Head(m))]
      /\ UNCHANGED <<server, obj, history, taken, m_messages>>
  BY DEF WriteSucceeds
<1>2. /\ m \in Seq(Message) /\ sent[c] \in Seq(Message)
      /\ sent \in [Conns -> Seq(Message)]
      /\ writes \in [Conns -> Seq(Op)] /\ writes[c] \in Seq(Op)
  BY DEF IInv, TypeOK
<1>3. Len(writes[c]) = 1
  BY <1>1 DEF IInv, OperationDiscipline, Disciplined
<1>4. writes[c] = <<"pending">> /\ writes' = [writes EXCEPT ![c] = <<"ok">>]
  <2>1. PICK i \in DOMAIN writes[c] :
          /\ writes[c][i] = "pending"
          /\ writes' = [writes EXCEPT ![c] = [writes[c] EXCEPT ![i] = "ok"]]
    BY DEF WriteSucceeds
  <2>2. i = 1
    BY <1>2, <1>3, LenProperties
  <2>3. DOMAIN writes[c] = 1..1
    BY <1>2, <1>3, LenProperties
  <2>4. writes[c] = <<"pending">>
    BY <1>2, <1>3, <2>1, <2>2
  <2>5. [writes[c] EXCEPT ![1] = "ok"] = <<"ok">>
    BY <2>4
  <2>6. QED BY <2>1, <2>2, <2>4, <2>5
<1>5. Unsent(c) = m /\ Unsent(c)' = Tail(m)
  <2>1. writes'[c] = <<"ok">>
    BY <1>2, <1>4
  <2>2. QED BY <1>1, <1>4, <2>1 DEF Unsent
<1> HIDE DEF m
<1>6. /\ Append(sent[c], Head(m)) \o Tail(m) = sent[c] \o m
      /\ Len(sent[c]) < Len(sent[c] \o m)
      /\ (sent[c] \o m)[Len(sent[c]) + 1] = Head(m)
  BY <1>1, <1>2, HandOver
<1>7. \A d \in Conns : sent'[d] \o Unsent(d)' = sent[d] \o Unsent(d)
  <2>1. ASSUME NEW d \in Conns, d # c
        PROVE  sent'[d] = sent[d] /\ Unsent(d)' = Unsent(d)
    BY <1>1, <1>2, <1>4, <2>1 DEF Unsent
  <2>2. sent'[c] = Append(sent[c], Head(m))
    BY <1>1, <1>2
  <2>3. sent'[c] \o Unsent(c)' = sent[c] \o Unsent(c)
    BY <1>5, <1>6, <2>2
  <2>4. QED BY <2>1, <2>3
<1>8. Chat!Deliver(c)
  <2>1. Up' = Up
    BY <1>1 DEF Up
  <2>2. [d \in Conns |-> sent[d] \o Unsent(d)]' = [d \in Conns |-> sent[d] \o Unsent(d)]
    BY <1>7
  <2>3. [d \in Conns |-> sent[d] \o Unsent(d)][c] = sent[c] \o m
    BY <1>5
  <2>4. QED BY <1>1, <1>6, <2>1, <2>2, <2>3 DEF Chat!Deliver
<1>9. QED
  BY <1>8 DEF Chat!AbsNext

LEMMA WriteFailsRefines ==
  ASSUME IInv, NEW c \in Conns, WriteFails(c)
  PROVE  UNCHANGED Chat!absVars
<1>1. writes \in [Conns -> Seq(Op)] /\ writes[c] \in Seq(Op)
  BY DEF IInv, TypeOK
<1>2. PICK i \in DOMAIN writes[c] :
        /\ writes[c][i] = "pending"
        /\ writes' = [writes EXCEPT ![c] = [writes[c] EXCEPT ![i] = "error"]]
  BY DEF WriteFails
<1>3. /\ Len(writes[c]) \in Nat /\ Len(writes[c]) # 0
      /\ [writes[c] EXCEPT ![i] = "error"] \in Seq(Op)
      /\ Len([writes[c] EXCEPT ![i] = "error"]) = Len(writes[c])
  BY <1>1, <1>2, ExceptSeq, LenProperties DEF Op
<1>4. /\ Head(writes[c]) = writes[c][1]
      /\ Head([writes[c] EXCEPT ![i] = "error"]) = [writes[c] EXCEPT ![i] = "error"][1]
      /\ writes[c] # <<>> /\ [writes[c] EXCEPT ![i] = "error"] # <<>>
  BY <1>1, <1>3, HeadTailProperties, EmptySeq
<1>5. Head([writes[c] EXCEPT ![i] = "error"]) = "ok" <=> Head(writes[c]) = "ok"
  BY <1>1, <1>2, <1>3, <1>4, LenProperties
<1>6. UNCHANGED <<server, obj, history, taken, m_messages, sent>>
  BY DEF WriteFails, aux
<1>7. ASSUME NEW d \in Conns PROVE Unsent(d)' = Unsent(d)
  <2>1. CASE d = c
    <3>1. writes'[c] = [writes[c] EXCEPT ![i] = "error"]
      BY <1>1, <1>2
    <3>2. QED BY <1>4, <1>5, <1>6, <2>1, <3>1 DEF Unsent
  <2>2. CASE d # c
    <3>1. writes'[d] = writes[d]
      BY <1>1, <1>2, <2>2
    <3>2. QED BY <1>6, <3>1 DEF Unsent
  <2>3. QED BY <2>1, <2>2
<1>8. QED
  BY <1>6, <1>7, NothingAnnounced DEF Up

LEMMA WriteHandlerRefines ==
  ASSUME IInv, NEW c \in Conns, WriteHandler(c)
  PROVE  UNCHANGED Chat!absVars
<1> DEFINE q == Tail(m_messages[c])
           w == IF q # <<>> THEN Append(Tail(writes[c]), "pending")
                            ELSE Tail(writes[c])
<1>1. /\ writes[c] # <<>> /\ Head(writes[c]) = "ok" /\ obj[c] = "live"
      /\ m_messages' = [m_messages EXCEPT ![c] = q]
      /\ writes' = [writes EXCEPT ![c] = w]
      /\ UNCHANGED <<server, obj, taken, history, sent>>
  BY DEF WriteHandler, aux
<1>2. /\ writes \in [Conns -> Seq(Op)] /\ writes[c] \in Seq(Op)
      /\ m_messages \in [Conns -> Seq(Message)]
  BY DEF IInv, TypeOK
<1>3. Len(writes[c]) = 1 /\ m_messages[c] # <<>>
  <2>1. Len(writes[c]) = IF m_messages[c] = <<>> THEN 0 ELSE 1
    BY <1>1 DEF WriteHandler, IInv, OperationDiscipline, Disciplined
  <2>2. Len(writes[c]) # 0
    BY <1>1, <1>2, EmptySeq
  <2>3. QED BY <2>1, <2>2
<1>4. q # <<>> => Head(w) = "pending"
  <2>1. Tail(writes[c]) \in Seq(Op) /\ Len(Tail(writes[c])) = 0
    BY <1>1, <1>2, <1>3, HeadTailProperties
  <2>2. Tail(writes[c]) = <<>>
    BY <2>1, EmptySeq
  <2>3. Head(Append(Tail(writes[c]), "pending")) = "pending"
    BY <2>1, <2>2, HeadTailAppend
  <2>4. QED BY <2>3
<1>5. Unsent(c) = q
  BY <1>1, <1>3 DEF Unsent
<1>6. m_messages'[c] = q /\ writes'[c] = w
  BY <1>1, <1>2
<1> HIDE DEF q, w
<1>7. Unsent(c)' = q
  BY <1>4, <1>6 DEF Unsent
<1>8. ASSUME NEW d \in Conns, d # c PROVE Unsent(d)' = Unsent(d)
  BY <1>1, <1>2, <1>8 DEF Unsent
<1>9. \A d \in Conns : Unsent(d)' = Unsent(d)
  BY <1>5, <1>7, <1>8
<1>10. QED
  BY <1>1, <1>9, NothingAnnounced DEF Up

-----------------------------------------------------------------------------
LEMMA InitRefines == Init => Chat!AbsInit
<1> SUFFICES ASSUME Init PROVE Chat!AbsInit
  OBVIOUS
<1>1. Up = TRUE
  BY DEF Init, Up
<1>2. ASSUME NEW c \in Conns PROVE sent[c] \o Unsent(c) = <<>>
  <2>1. sent[c] = <<>> /\ m_messages[c] = <<>> /\ writes[c] = <<>>
    BY DEF Init
  <2>2. Unsent(c) = <<>>
    BY <2>1 DEF Unsent
  <2>3. <<>> \o <<>> = <<>>
    BY EmptySeq, ConcatEmptySeq
  <2>4. QED BY <2>1, <2>2, <2>3
<1>3. QED
  BY <1>1, <1>2 DEF Init, Chat!AbsInit

LEMMA NextRefines == IInv /\ [Next]_vars => [Chat!AbsNext]_(Chat!absVars)
<1> SUFFICES ASSUME IInv, [Next]_vars PROVE Chat!AbsNext \/ UNCHANGED Chat!absVars
  OBVIOUS
<1>1. CASE UNCHANGED <<server, obj, history, sent, taken, m_messages, writes>>
  BY <1>1, QueuesUntouched DEF Up
<1>2. CASE UNCHANGED vars
  BY <1>1, <1>2 DEF vars, aux
<1>3. CASE Peers
  BY <1>1, <1>3 DEF Peers, Connect, PeerSends, PeerCloses, PeerResets, aux
<1>4. CASE Kernel
  BY <1>1, <1>4, WriteSucceedsRefines, WriteFailsRefines
  DEF Kernel, AcceptCompletes, ReadSucceeds, ReadFails, aux
<1>5. CASE AcceptHandler \/ AcceptErrorHandler
  BY <1>1, <1>5, AcceptHandlerRefines DEF AcceptErrorHandler, aux
<1>6. ASSUME NEW c \in Conns, Handlers(c)
      PROVE  Chat!AbsNext \/ UNCHANGED Chat!absVars
  <2>1. CASE HeaderHandler(c)
    BY <1>1, <2>1 DEF HeaderHandler, aux
  <2>2. CASE DataHandler(c)
    BY <2>2, DataHandlerRefines
  <2>3. CASE ReadErrorHandler(c)
    <3>1. obj[c] = "live" /\ Up
      BY <2>3 DEF ReadErrorHandler, IInv, TypeOK, OperationDiscipline, Disciplined
    <3>2. QED BY <2>3, <3>1, RemoveMemberRefines DEF ReadErrorHandler
  <2>4. CASE WriteErrorHandler(c)
    BY <2>4, RemoveMemberRefines DEF WriteErrorHandler
  <2>5. CASE WriteHandler(c)
    BY <2>5, WriteHandlerRefines
  <2>6. CASE StaleWriteHandler(c) \/ IllDataHandler(c)
    <3>1. Up /\ ~Up' /\ UNCHANGED <<obj, history, sent, taken, m_messages, writes>>
      BY <2>6 DEF StaleWriteHandler, IllDataHandler, Up, aux
    <3>2. QED BY <3>1, QueuesUntouched DEF Chat!AbsNext
  <2>7. QED BY <1>6, <2>1, <2>2, <2>3, <2>4, <2>5, <2>6 DEF Handlers
<1>7. QED
  BY <1>2, <1>3, <1>4, <1>5, <1>6 DEF Next, IoThread

\* Every step of the server is a step of the broadcast service, or none,
\* whatever peers and kernel do.  (room.cpp:50-59, member.cpp:47-84.)
THEOREM RoomImplementsService == Spec => ImplementsBroadcast
<1>1. Init /\ [][Next]_vars /\ []IInv => Chat!AbsSpec
  BY InitRefines, NextRefines, PTL DEF Chat!AbsSpec
<1>2. QED
  BY <1>1, Invariance, PTL DEF Spec, ImplementsBroadcast

-----------------------------------------------------------------------------
(* What is proved of the service holds of the room. *)

Service == INSTANCE BroadcastProofs WITH
             up <- Up, status <- obj, log <- history,
             owed <- [c \in Conns |-> sent[c] \o Unsent(c)],
             got <- sent, said <- taken

\* All members of a running server see one order of announcements, without gap
\* or repetition.  (room.cpp:50-59, member.cpp:47-84.)
THEOREM MembersSeeOneOrder == Spec => []OneOrder
<1>1. Chat!AbsInit => Service!AbsInv
  <2>1. Service!AbsInit => Service!AbsInv
    BY Service!AbsInitInvariant, MessagesAssumption
  <2>2. Chat!AbsInit => Service!AbsInit
    BY DEF Chat!AbsInit, Service!AbsInit
  <2>3. QED BY <2>1, <2>2
<1>2. Service!AbsInv /\ [Chat!AbsNext]_(Chat!absVars) => Service!AbsInv'
  <2>1. Service!AbsInv /\ [Service!AbsNext]_(Service!absVars) => Service!AbsInv'
    BY Service!AbsNextInvariant, MessagesAssumption
  <2>2. Chat!absVars = Service!absVars /\ Chat!absVars' = Service!absVars'
    BY DEF Chat!absVars, Service!absVars
  <2>3. Chat!AbsNext => Service!AbsNext
    BY DEF Chat!AbsNext, Service!AbsNext, Chat!Join, Service!Join,
           Chat!Publish, Service!Publish, Chat!Leave, Service!Leave,
           Chat!Deliver, Service!Deliver, Chat!Halt, Service!Halt,
           Chat!Announce, Service!Announce, Chat!Told, Service!Told,
           Chat!Audience, Service!Audience, Chat!Inside, Service!Inside,
           Chat!HasJoined, Service!HasJoined, Chat!HasLeft, Service!HasLeft,
           Chat!Data, Service!Data, Chat!get_origin, Service!get_origin,
           Chat!Message, Service!Message
  <2>4. QED BY <2>1, <2>2, <2>3
<1>3. Service!AbsInv => OneOrder
  <2>1. Service!AbsInv => Service!OneOrder
    BY Service!InStepGivesOrder, MessagesAssumption
  <2>2. Service!OneOrder => Chat!OneOrder
    BY DEF Service!OneOrder, Chat!OneOrder, Chat!Inside, Service!Inside,
           Chat!Feed, Service!Feed, Chat!Arrival, Service!Arrival,
           Chat!NotFrom, Service!NotFrom, Chat!HasJoined, Service!HasJoined,
           Chat!get_origin, Service!get_origin, Chat!Message, Service!Message,
           Chat!Kept, Service!Kept
  <2>3. QED BY <2>1, <2>2 DEF OneOrder
<1>4. QED
  BY <1>1, <1>2, <1>3, InitRefines, NextRefines, Invariance, PTL DEF Spec
=============================================================================
