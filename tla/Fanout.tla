-------------------------------- MODULE Fanout --------------------------------
(****************************************************************************)
(* What a Hub promises (tork-core/src/realtime.rs:1, docs/11-websocket.md    *)
(* "Broadcasting with a hub"): rooms are names. Whoever joined a room can    *)
(* publish to it and subscribe to it, and a message published to a room      *)
(* reaches all its current subscribers. There are no channels, no registry   *)
(* and no eviction here.                                                     *)
(****************************************************************************)
EXTENDS Naturals, Sequences

CONSTANTS
  Slot,      \* places in the program that may hold a room handle, a receiver
  Room,      \* room ids
  NoRoom,
  Msg,       \* messages
  Capacity   \* messages buffered for a subscriber before it lags (positive)

VARIABLES
  pub,       \* the room a slot's handle publishes to
  sub,       \* the room a slot's receiver listens to
  inbox      \* the messages it has not received yet

vars == <<pub, sub, inbox>>

\* A full buffer loses its oldest message.
Push(q, m) == IF Len(q) < Capacity THEN Append(q, m) ELSE Append(Tail(q), m)

Init ==
  /\ pub = [s \in Slot |-> NoRoom]
  /\ sub = [s \in Slot |-> NoRoom]
  /\ inbox = [s \in Slot |-> <<>>]

Join(s, r) ==
  /\ pub[s] = NoRoom
  /\ pub' = [pub EXCEPT ![s] = r]
  /\ UNCHANGED <<sub, inbox>>

Leave(s) ==
  /\ pub' = [pub EXCEPT ![s] = NoRoom]
  /\ UNCHANGED <<sub, inbox>>

Subscribe(s, r) ==
  /\ sub[s] = NoRoom
  /\ sub' = [sub EXCEPT ![s] = r]
  /\ inbox' = [inbox EXCEPT ![s] = <<>>]
  /\ UNCHANGED pub

Unsubscribe(s) ==
  /\ sub' = [sub EXCEPT ![s] = NoRoom]
  /\ inbox' = [inbox EXCEPT ![s] = <<>>]
  /\ UNCHANGED pub

Publish(r, m) ==
  /\ inbox' = [s \in Slot |-> IF sub[s] = r THEN Push(inbox[s], m) ELSE inbox[s]]
  /\ UNCHANGED <<pub, sub>>

Receive(s) ==
  /\ inbox[s] # <<>>
  /\ inbox' = [inbox EXCEPT ![s] = Tail(@)]
  /\ UNCHANGED <<pub, sub>>

Next ==
  \/ \E s \in Slot, r \in Room : Join(s, r) \/ Subscribe(s, r)
  \/ \E s \in Slot : Leave(s) \/ Unsubscribe(s) \/ Receive(s)
  \/ \E r \in Room, m \in Msg : Publish(r, m)

Spec == Init /\ [][Next]_vars

=============================================================================
