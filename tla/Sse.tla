---------------------------------- MODULE Sse ----------------------------------
(****************************************************************************)
(* Server-Sent Events (tork-core/src/sse.rs): the cap on open streams, the   *)
(* body that polls its timeout, its source and its heartbeat, and the        *)
(* connection under it with its idle timeout (server.rs).                    *)
(*                                                                           *)
(* A body is polled only when one of the wakers it left behind was called,   *)
(* and a poll is several steps, between which the source moves on. Time does *)
(* not pass while a task is runnable.                                        *)
(****************************************************************************)
EXTENDS Integers, Sequences, FiniteSets

CONSTANTS
  Stream,    \* requests for a stream, each on a connection of its own
  Configs,   \* the configurations an application may have
  NoCap,     \* max_sse_connections is not set
  MaxItems,  \* bound: items a source yields
  MaxTime    \* bound: the last instant

\* Heartbeat interval, client_timeout and the server's idle_timeout, zero for none;
\* whether there is a done_event; the cap.
ConfigOK(c) ==
  /\ c.heartbeat \in Nat /\ c.timeout \in Nat /\ c.idle \in Nat
  /\ c.done \in BOOLEAN /\ c.cap \in Nat \cup {NoCap}

ASSUME SseAssumption ==
  /\ IsFiniteSet(Stream)
  /\ \A c \in Configs : ConfigOK(c)
  /\ NoCap \notin Nat /\ MaxItems \in Nat /\ MaxTime \in Nat

VARIABLES
  conf,  \* the configuration
  now,   \* the clock
  free,  \* permits left in the semaphore
  str    \* the streams

vars == <<conf, now, free, str>>

Items   == {"event", "oversized", "error", "end"}
Polling == {"timeout", "events", "heartbeat"}
Open    == {"parked"} \cup Polling

\* at: where its task is; woken: a waker was called; waits: what would call it;
\* made, taken: the source's items, and how many were polled; sent: the frames, an
\* event by its number; stalled: the client does not read; full: a frame is stuck in
\* the socket; the three instants at which timers fire.
Closing(at) == [at |-> at, woken |-> FALSE, waits |-> {}, made |-> <<>>, taken |-> 0,
                sent |-> <<>>, stalled |-> FALSE, full |-> FALSE,
                timeoutAt |-> 0, beatAt |-> 0, idleAt |-> 0]

Init ==
  /\ conf \in Configs
  /\ now = 0
  /\ free = IF conf.cap = NoCap THEN 0 ELSE conf.cap
  /\ str = [s \in Stream |-> Closing("none")]

-----------------------------------------------------------------------------
(* Opening and closing.                                                     *)

Capped == conf.cap # NoCap

\* __sse_into_response with a permit, or without a limiter. The timers start here,
\* the idle timer anew with the response head; hyper polls the body at once.
Start(s) ==
  /\ str[s].at = "none" /\ (Capped => free > 0)
  /\ free' = IF Capped THEN free - 1 ELSE free
  /\ str' = [str EXCEPT ![s] =
       [Closing("parked") EXCEPT !.woken = TRUE, !.timeoutAt = now + conf.timeout,
          !.beatAt = now + conf.heartbeat, !.idleAt = now + conf.idle]]
  /\ UNCHANGED <<conf, now>>

\* At the cap: 503.
Refuse(s) ==
  /\ str[s].at = "none" /\ Capped /\ free = 0
  /\ str' = [str EXCEPT ![s].at = "refused"]
  /\ UNCHANGED <<conf, now, free>>

\* (Mutant) The permit outlives a body that was not polled to its end.
ReleaseFinished(why) == free' = IF Capped /\ why = "finished" THEN free + 1 ELSE free

\* The permit is dropped with the body, however it ends.
Release(why) == free' = IF Capped THEN free + 1 ELSE free

\* The body is dropped: sent keeps what went out.
Leave(s, why, frames) ==
  /\ str' = [str EXCEPT ![s] =
       [Closing(why) EXCEPT !.sent = str[s].sent \o frames, !.made = str[s].made,
                            !.taken = str[s].taken]]
  /\ Release(why)
  /\ UNCHANGED <<conf, now>>

\* The client closes its connection.
Gone(s) == str[s].at \in Open /\ Leave(s, "gone", <<>>)

-----------------------------------------------------------------------------
(* The connection task.                                                     *)

Ping == 0
Done == -1

\* (Mutant) Only reads count as activity of the connection.
WrittenUnnoticed(r) == r

\* poll_write of IdleTimeoutStream: a write pushes the idle deadline forward.
Written(r) == [r EXCEPT !.idleAt = now + conf.idle]

\* (Mutant) A body that is woken goes to its source at once.
FirstEvents == "events"

\* poll_frame looks at the client timeout before anything else.
First == "timeout"

\* The task is polled. poll_read comes first and fails once the idle timer is due;
\* the body is not polled while the socket takes nothing.
Poll(s) ==
  /\ str[s].at = "parked" /\ str[s].woken
  /\ IF conf.idle > 0 /\ str[s].idleAt <= now
     THEN Leave(s, "severed", <<>>)
     ELSE /\ str' = [str EXCEPT ![s].woken = FALSE, ![s].waits = @ \cup {"idle"},
                                ![s].at = IF str[s].full THEN "parked" ELSE First]
          /\ UNCHANGED <<conf, now, free>>

\* poll_frame returns a frame: it is written and the body polled again, or it
\* fills the socket.
Yield(r, frame) ==
  LET out == [r EXCEPT !.sent = Append(@, frame)] IN
    IF r.stalled THEN [out EXCEPT !.full = TRUE, !.at = "parked"]
    ELSE [Written(out) EXCEPT !.at = "timeout"]

\* finish(): the done event, if any, is the last frame; is_end_stream holds.
Finish(s) == Leave(s, "finished", IF conf.done THEN <<Done>> ELSE <<>>)

\* poll_frame, first the client timeout.
PollTimeout(s) ==
  /\ str[s].at = "timeout"
  /\ IF conf.timeout > 0 /\ str[s].timeoutAt <= now THEN Finish(s)
     ELSE /\ str' = [str EXCEPT ![s].at = "events", ![s].waits = @ \cup {"timeout"}]
          /\ UNCHANGED <<conf, now, free>>

\* (Mutant) After an oversized event the loop ends as for an idle source.
SkippedStops(r) == [r EXCEPT !.taken = @ + 1, !.at = "heartbeat"]

\* An oversized event is dropped, and the loop goes on.
Skipped(r) == [r EXCEPT !.taken = @ + 1]

\* Then one round of the loop over the source.
PollEvents(s) ==
  /\ str[s].at = "events"
  /\ LET r == str[s]
         n == r.taken + 1
     IN  \/ /\ n > Len(r.made)
            /\ str' = [str EXCEPT ![s].at = "heartbeat", ![s].waits = @ \cup {"events"}]
            /\ UNCHANGED <<conf, now, free>>
         \/ /\ n <= Len(r.made) /\ r.made[n] \in {"error", "end"}
            /\ Finish(s)
         \/ /\ n <= Len(r.made) /\ r.made[n] = "oversized"
            /\ str' = [str EXCEPT ![s] = Skipped(r)]
            /\ UNCHANGED <<conf, now, free>>
         \/ /\ n <= Len(r.made) /\ r.made[n] = "event"
            /\ str' = [str EXCEPT ![s] = Yield([r EXCEPT !.taken = n], n)]
            /\ UNCHANGED <<conf, now, free>>

\* Then the heartbeat, whose next tick is one interval after the one it missed or hit.
PollHeartbeat(s) ==
  /\ str[s].at = "heartbeat"
  /\ LET r == str[s] IN
     str' = [str EXCEPT ![s] =
       IF conf.heartbeat > 0 /\ r.beatAt <= now
       THEN Yield([r EXCEPT !.beatAt = r.beatAt + conf.heartbeat], Ping)
       ELSE [r EXCEPT !.at = "parked", !.waits = r.waits \cup {"heartbeat"}]]
  /\ UNCHANGED <<conf, now, free>>

-----------------------------------------------------------------------------
(* The environment.                                                         *)

\* The source yields an item and wakes whoever polled it in vain.
Make(s, item) ==
  /\ str[s].at \in Open /\ Len(str[s].made) < MaxItems
  /\ \A i \in DOMAIN str[s].made : str[s].made[i] \notin {"error", "end"}
  /\ str' = [str EXCEPT ![s].made = Append(@, item),
                        ![s].woken = @ \/ "events" \in str[s].waits,
                        ![s].waits = @ \ {"events"}]
  /\ UNCHANGED <<conf, now, free>>

\* The client stops reading, and reads on: what was stuck is written.
Stall(s) ==
  /\ str[s].at \in Open /\ ~str[s].stalled
  /\ str' = [str EXCEPT ![s].stalled = TRUE]
  /\ UNCHANGED <<conf, now, free>>

Resume(s) ==
  /\ str[s].at \in Open /\ str[s].stalled
  /\ str' = [str EXCEPT ![s] =
       IF @.full THEN [Written(@) EXCEPT !.stalled = FALSE, !.full = FALSE, !.woken = TRUE]
       ELSE [@ EXCEPT !.stalled = FALSE]]
  /\ UNCHANGED <<conf, now, free>>

\* The timers a stream waits for that are due at an instant.
Due(r, instant) ==
  {w \in r.waits :
     \/ w = "timeout"   /\ conf.timeout > 0   /\ r.timeoutAt <= instant
     \/ w = "heartbeat" /\ conf.heartbeat > 0 /\ r.beatAt <= instant
     \/ w = "idle"      /\ conf.idle > 0      /\ r.idleAt <= instant}

AtRest(s) == str[s].at = "parked" /\ ~str[s].woken

Tick ==
  /\ now < MaxTime
  /\ \A s \in Stream : str[s].at \in Open => AtRest(s)
  /\ now' = now + 1
  /\ str' = [s \in Stream |->
       LET due == Due(str[s], now + 1) IN
         [str[s] EXCEPT !.woken = @ \/ due # {}, !.waits = @ \ due]]
  /\ UNCHANGED <<conf, free>>

Next ==
  \/ \E s \in Stream :
       \/ Start(s) \/ Refuse(s) \/ Gone(s) \/ Poll(s)
       \/ PollTimeout(s) \/ PollEvents(s) \/ PollHeartbeat(s)
       \/ Stall(s) \/ Resume(s)
       \/ \E item \in Items : Make(s, item)
  \/ Tick

Spec == Init /\ [][Next]_vars

-----------------------------------------------------------------------------
(* Properties.                                                              *)

\* Every permit is either free or held by a stream that is still open, whatever
\* ended the others: the source, a timer, the client, the idle timeout (sse.rs:311).
SlotsExact ==
  Capped => free + Cardinality({s \in Stream : str[s].at \in Open}) = conf.cap

\* No wake-up is lost: a stream at rest has polled all there was, whatever the
\* source did during the poll and however many oversized events it skipped, unless
\* its client does not read.
NothingStuck ==
  \A s \in Stream : AtRest(s) => str[s].taken = Len(str[s].made) \/ str[s].full

\* A client timeout ends the stream when it elapses, whatever the source sends
\* (sse.rs:296 "regardless of the source"), unless the client does not read.
TimeoutEnds ==
  \A s \in Stream :
    AtRest(s) /\ conf.timeout > 0 => now < str[s].timeoutAt \/ str[s].full

\* A heartbeat shorter than the idle timeout keeps a quiet stream whose client
\* reads alive (docs/19 "well above your SSE heartbeat").
HeartbeatKeepsAlive ==
  [][\A s \in Stream :
       /\ str'[s].at = "severed" /\ str[s].at # "severed"
       => str[s].full \/ conf.heartbeat = 0 \/ conf.heartbeat >= conf.idle]_vars
=============================================================================
