---------------------------------- MODULE Hub ----------------------------------
(****************************************************************************)
(* The broadcast hub (tork-core/src/realtime.rs): a mutex-protected map from *)
(* room ids to channels, handles and receivers that are cloned, used and     *)
(* dropped without that mutex, and the eviction of dead rooms that room()    *)
(* performs under it while it creates a new one.                             *)
(*                                                                           *)
(* A channel is a tokio broadcast channel. Its identity is reused once       *)
(* nothing refers to it, as an address is. The hub itself outlives its users.*)
(****************************************************************************)
EXTENDS Naturals, Sequences, FiniteSets

CONSTANTS
  Slot,      \* places in the program that may hold a Room handle, a receiver
  NoSlot,
  Room, NoRoom,
  Chan, NoChan,
  Msg, Capacity

ASSUME SlotAssumption == IsFiniteSet(Slot)
ASSUME NoneAssumption ==
  NoSlot \notin Slot /\ NoRoom \notin Room /\ NoChan \notin Chan
ASSUME CapacityAssumption == Capacity \in Nat \ {0}

VARIABLES
  rooms,     \* the map: the channel of each room id, or NoChan
  handle,    \* the channel each slot holds a Room handle (an Arc) of
  rx,        \* the channel each slot holds a receiver of
  inbox,     \* messages the receiver has yet to take
  born,      \* the room id a channel was created for (history)
  lock       \* the slot that is inside room() creating a room, and its scan

hub == <<rooms, handle, rx, inbox, born, lock>>

Free == [slot |-> NoSlot, id |-> NoRoom, todo |-> {}, suspect |-> NoRoom,
         dead |-> {}]

Scanning == lock.slot # NoSlot

\* Arc::strong_count without the map's own reference, and receiver_count.
Handles(ch)   == {s \in Slot : handle[s] = ch}
Receivers(ch) == {s \in Slot : rx[s] = ch}
Dead(ch)      == Handles(ch) = {} /\ Receivers(ch) = {}

Unused(ch) == Dead(ch) /\ \A r \in Room : rooms[r] # ch

Push(q, m) == IF Len(q) < Capacity THEN Append(q, m) ELSE Append(Tail(q), m)

HubInit ==
  /\ rooms = [r \in Room |-> NoChan]
  /\ handle = [s \in Slot |-> NoChan]
  /\ rx = [s \in Slot |-> NoChan]
  /\ inbox = [s \in Slot |-> <<>>]
  /\ born = [ch \in Chan |-> NoRoom]
  /\ lock = Free

-----------------------------------------------------------------------------
(* Hub::room.                                                               *)

\* The id is in the map: its Arc is cloned under the mutex.
RoomFound(s, r) ==
  /\ ~Scanning /\ handle[s] = NoChan
  /\ rooms[r] # NoChan
  /\ handle' = [handle EXCEPT ![s] = rooms[r]]
  /\ UNCHANGED <<rooms, rx, inbox, born, lock>>

\* The id is not in the map: retain() starts over the other rooms. `dead` only
\* records which of them nobody refers to at this point.
RoomMissing(s, r) ==
  /\ ~Scanning /\ handle[s] = NoChan
  /\ rooms[r] = NoChan
  /\ LET others == {q \in Room : rooms[q] # NoChan}
     IN  lock' = [slot |-> s, id |-> r, todo |-> others, suspect |-> NoRoom,
                  dead |-> {q \in others : Dead(rooms[q])}]
  /\ UNCHANGED <<rooms, handle, rx, inbox, born>>

\* (Mutant) The map's own reference is counted as a handle.
LookCountsMap(nth, ch) == IF nth = 1 THEN TRUE ELSE Receivers(ch) # {}

\* The two counters retain() reads, in the order || evaluates them. Others move
\* between the two reads.
Look(nth, ch) == IF nth = 1 THEN Handles(ch) # {} ELSE Receivers(ch) # {}

\* The first read: a room with a handle besides the map's is kept.
ReadFirst(r) ==
  /\ Scanning /\ lock.suspect = NoRoom /\ r \in lock.todo
  /\ lock' = IF Look(1, rooms[r])
             THEN [lock EXCEPT !.todo = @ \ {r}]
             ELSE [lock EXCEPT !.suspect = r]
  /\ UNCHANGED <<rooms, handle, rx, inbox, born>>

\* (Mutant) Receivers do not keep a room.
ReadSecondSkipped(r) ==
  /\ Scanning /\ lock.suspect = r
  /\ rooms' = [rooms EXCEPT ![r] = NoChan]
  /\ lock' = [lock EXCEPT !.suspect = NoRoom, !.todo = @ \ {r}]
  /\ UNCHANGED <<handle, rx, inbox, born>>

\* The second read: a room with receivers is kept; any other is removed, and
\* with the map's Arc its last sender is dropped.
ReadSecond(r) ==
  /\ Scanning /\ lock.suspect = r
  /\ rooms' = IF Look(2, rooms[r]) THEN rooms ELSE [rooms EXCEPT ![r] = NoChan]
  /\ lock' = [lock EXCEPT !.suspect = NoRoom, !.todo = @ \ {r}]
  /\ UNCHANGED <<handle, rx, inbox, born>>

\* The new channel is inserted and its handle returned.
RoomCreated(ch) ==
  /\ Scanning /\ lock.suspect = NoRoom /\ lock.todo = {}
  /\ Unused(ch)
  /\ rooms' = [rooms EXCEPT ![lock.id] = ch]
  /\ handle' = [handle EXCEPT ![lock.slot] = ch]
  /\ born' = [born EXCEPT ![ch] = lock.id]
  /\ lock' = Free
  /\ UNCHANGED <<rx, inbox>>

-----------------------------------------------------------------------------
(* Handles and receivers, used without the mutex. A slot inside room() is    *)
(* blocked there.                                                            *)

Running(s) == Scanning => lock.slot # s

CloneHandle(s, t) ==
  /\ Running(s) /\ Running(t)
  /\ handle[s] # NoChan /\ handle[t] = NoChan
  /\ handle' = [handle EXCEPT ![t] = handle[s]]
  /\ UNCHANGED <<rooms, rx, inbox, born, lock>>

DropHandle(s) ==
  /\ handle[s] # NoChan
  /\ handle' = [handle EXCEPT ![s] = NoChan]
  /\ UNCHANGED <<rooms, rx, inbox, born, lock>>

\* Room::subscribe.
Subscribe(s) ==
  /\ handle[s] # NoChan /\ rx[s] = NoChan
  /\ rx' = [rx EXCEPT ![s] = handle[s]]
  /\ inbox' = [inbox EXCEPT ![s] = <<>>]
  /\ UNCHANGED <<rooms, handle, born, lock>>

\* broadcast::Receiver::resubscribe, which needs no handle.
Resubscribe(s, t) ==
  /\ Running(s) /\ Running(t)
  /\ rx[s] # NoChan /\ rx[t] = NoChan
  /\ rx' = [rx EXCEPT ![t] = rx[s]]
  /\ inbox' = [inbox EXCEPT ![t] = <<>>]
  /\ UNCHANGED <<rooms, handle, born, lock>>

DropReceiver(s) ==
  /\ Running(s)
  /\ rx[s] # NoChan
  /\ rx' = [rx EXCEPT ![s] = NoChan]
  /\ inbox' = [inbox EXCEPT ![s] = <<>>]
  /\ UNCHANGED <<rooms, handle, born, lock>>

\* Room::broadcast: to every receiver of the channel the handle refers to.
Broadcast(s, m) ==
  /\ handle[s] # NoChan
  /\ inbox' = [t \in Slot |->
                 IF rx[t] = handle[s] THEN Push(inbox[t], m) ELSE inbox[t]]
  /\ UNCHANGED <<rooms, handle, rx, born, lock>>

Receive(s) ==
  /\ Running(s)
  /\ inbox[s] # <<>>
  /\ inbox' = [inbox EXCEPT ![s] = Tail(@)]
  /\ UNCHANGED <<rooms, handle, rx, born, lock>>

HubNext ==
  \/ \E s \in Slot, r \in Room : RoomFound(s, r) \/ RoomMissing(s, r)
  \/ \E r \in Room : ReadFirst(r) \/ ReadSecond(r)
  \/ \E ch \in Chan : RoomCreated(ch)
  \/ \E s, t \in Slot : CloneHandle(s, t) \/ Resubscribe(s, t)
  \/ \E s \in Slot : DropHandle(s) \/ Subscribe(s) \/ DropReceiver(s) \/ Receive(s)
  \/ \E s \in Slot, m \in Msg : Broadcast(s, m)

HubSpec == HubInit /\ [][HubNext]_hub
-----------------------------------------------------------------------------
(* Properties.                                                              *)

ScanState ==
  [slot : Slot \cup {NoSlot}, id : Room \cup {NoRoom}, todo : SUBSET Room,
   suspect : Room \cup {NoRoom}, dead : SUBSET Room]

HubTypeOK ==
  /\ rooms \in [Room -> Chan \cup {NoChan}]
  /\ handle \in [Slot -> Chan \cup {NoChan}]
  /\ rx \in [Slot -> Chan \cup {NoChan}]
  /\ inbox \in [Slot -> Seq(Msg)] /\ \A s \in Slot : Len(inbox[s]) <= Capacity
  /\ born \in [Chan -> Room \cup {NoRoom}]
  /\ lock \in ScanState
  /\ Scanning => lock.id \in Room

\* A channel somebody can still send to or receive from is the one the map holds
\* for its room, whatever was evicted meanwhile: two users of one room id never
\* end up on different channels, and a receiver's channel is never closed under
\* it (the comment in room(), realtime.rs:61).
OneChannelPerRoom ==
  \A ch \in Chan : ~Dead(ch) => born[ch] \in Room /\ rooms[born[ch]] = ch

\* When room() is about to insert the new room, every room that was dead when it
\* took the mutex has been evicted, so dead rooms do not accumulate
\* (realtime.rs:50).
DeadRoomsEvicted ==
  Scanning /\ lock.todo = {} => \A r \in lock.dead : rooms[r] = NoChan

\* The hub is a fan-out by room name: evictions and reused channels do not show.
Name(ch) == IF ch = NoChan THEN NoRoom ELSE born[ch]

Abstract == INSTANCE Fanout WITH
  pub <- [s \in Slot |-> Name(handle[s])],
  sub <- [s \in Slot |-> Name(rx[s])]

ImplementsFanout == Abstract!Spec

=============================================================================
