------------------------------ MODULE Messages ------------------------------
(***************************************************************************)
(* The vocabulary the room and its abstract specification share: who can   *)
(* connect, and the messages the room sends to its members                 *)
(* (scft_message.hpp/.cpp, room.cpp).  Only what room::broadcast tells      *)
(* apart is kept of a message: what it announces, the connection it is     *)
(* about, and the origin text it carries.                                  *)
(***************************************************************************)
EXTENDS Naturals

CONSTANTS
  Conns,      \* connections; a connection stands for its remote "address:port"
  Endpoints,  \* every "address:port" text a message may carry as its origin
  Claimed,    \* Claimed[c]: the origin text the client at c writes in its messages
  MaxFrames   \* bound: messages one peer sends over its connection

ASSUME MessagesAssumption ==
  /\ Conns \subseteq Endpoints
  /\ Claimed \in [Conns -> Endpoints]
  /\ MaxFrames \in Nat

(***************************************************************************)
(* "joined" and "left" are the texts room.cpp builds itself with the       *)
(* remote endpoint as origin; "data" is the n-th message of a client,      *)
(* whose origin is what the client claims (its local endpoint).            *)
(***************************************************************************)
Message == [kind : {"joined", "left", "data"}, from : Conns, n : 0..MaxFrames]

HasJoined(c) == [kind |-> "joined", from |-> c, n |-> 0]
HasLeft(c)   == [kind |-> "left",   from |-> c, n |-> 0]
Data(c, n)   == [kind |-> "data",   from |-> c, n |-> n]

get_origin(msg) == IF msg.kind = "data" THEN Claimed[msg.from] ELSE msg.from
=============================================================================
