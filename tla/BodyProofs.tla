------------------------------ MODULE BodyProofs -------------------------------
(****************************************************************************)
(* Proofs about the bodies: the streams that go out (Sse) and the forms that *)
(* come in (Uploads), two components that share nothing.                     *)
(*                                                                           *)
(* Sse, for any finite number of streams, any configuration, any source and  *)
(* any clock: the invariant of one stream, Fine, says of a body that rests   *)
(* that it has left a waker with everything that may wake it, and of a body  *)
(* being polled what it has seen to so far. It holds of every record that a  *)
(* step makes out of a fine one; only Tick, which moves the clock under all  *)
(* of them, needs them all.                                                  *)
(*                                                                           *)
(* Uploads, for any requests, limits, struct, chunks and destinations: the   *)
(* invariant of one request, Sound, ties the parser's counters and lists to  *)
(* the parts that came, and what the struct holds to what was sent. A step   *)
(* of one request leaves the others Sound; they meet only at the             *)
(* destinations, where a save that is running keeps the path it opened and a *)
(* save that is over has its path to itself (Works, Rests, Guarded).         *)
(****************************************************************************)
EXTENDS Sse, Uploads, FiniteSetTheorems, SequenceTheorems, TLAPS

-----------------------------------------------------------------------------
(* Server-Sent Events *)

Places == {"none", "refused", "gone", "severed", "finished"} \cup Open

Streams ==
  [at : Places, woken : BOOLEAN, waits : SUBSET {"idle", "timeout", "events", "heartbeat"},
   made : Seq(Items), taken : Nat, sent : Seq(Int), stalled : BOOLEAN, full : BOOLEAN,
   timeoutAt : Nat, beatAt : Nat, idleAt : Nat]

\* Everything the source made is taken, and it will wake the task for more.
Caught(r) == r.taken = Len(r.made) /\ "events" \in r.waits

\* At rest, with nothing stuck in the socket.
Resting(r) == r.at = "parked" /\ ~r.woken /\ ~r.full

\* Nothing is missed: neither an item made behind the poll's back nor a timer.
Watching(r) ==
  /\ r.taken <= Len(r.made)
  /\ Resting(r) => Caught(r)
  /\ r.at = "heartbeat" => r.woken \/ Caught(r)
  /\ conf.timeout > 0 /\ (r.at \in {"events", "heartbeat"} \/ Resting(r)) =>
       now < r.timeoutAt /\ "timeout" \in r.waits
  /\ conf.heartbeat > 0 /\ Resting(r) => now < r.beatAt /\ "heartbeat" \in r.waits

\* The next heartbeat comes within an interval, and before the idle timer if the
\* interval is the shorter one.
Beating(r) == conf.heartbeat > 0 /\ r.at \in Open =>
  /\ r.beatAt <= now + conf.heartbeat
  /\ conf.heartbeat < conf.idle /\ ~r.full => now < r.idleAt /\ r.beatAt < r.idleAt

Fine(r) == r \in Streams /\ Watching(r) /\ Beating(r)

OpenStreams == {s \in Stream : str[s].at \in Open}

Shape ==
  /\ ConfigOK(conf) /\ now \in Nat /\ free \in Nat
  /\ str \in [Stream -> Streams]

IInv == Shape /\ (\A s \in Stream : Fine(str[s])) /\ SlotsExact

-----------------------------------------------------------------------------
(* Slots                                                                    *)

LEMMA OpenFinite ==
  ASSUME Shape
  PROVE  IsFiniteSet(OpenStreams) /\ Cardinality(OpenStreams) \in Nat
<1>1. OpenStreams \subseteq Stream
  BY DEF OpenStreams
<1> QED BY <1>1, SseAssumption, FS_Subset, FS_CardinalityType

\* A stream opens and takes a slot.
LEMMA SlotTaken ==
  ASSUME Shape, SlotsExact, NEW s \in Stream, NEW r, str' = [str EXCEPT ![s] = r],
         str[s].at \notin Open, r.at \in Open, Capped => free > 0,
         free' = IF Capped THEN free - 1 ELSE free, UNCHANGED conf
  PROVE  SlotsExact' /\ free' \in Nat
<1>1. OpenStreams' = OpenStreams \cup {s} /\ s \notin OpenStreams
  BY DEF OpenStreams, Shape
<1>2. Cardinality(OpenStreams') = Cardinality(OpenStreams) + 1
  BY <1>1, OpenFinite, FS_AddElement
<1> QED BY <1>2, OpenFinite DEF SlotsExact, OpenStreams, Capped, Shape

\* A stream closes and gives it back.
LEMMA SlotFreed ==
  ASSUME Shape, SlotsExact, NEW s \in Stream, NEW r, str' = [str EXCEPT ![s] = r],
         str[s].at \in Open, r.at \notin Open,
         free' = IF Capped THEN free + 1 ELSE free, UNCHANGED conf
  PROVE  SlotsExact' /\ free' \in Nat
<1>1. OpenStreams' = OpenStreams \ {s} /\ s \in OpenStreams
  BY DEF OpenStreams, Shape
<1>2. Cardinality(OpenStreams') = Cardinality(OpenStreams) - 1
  BY <1>1, OpenFinite, FS_RemoveElement
<1> QED BY <1>2, OpenFinite DEF SlotsExact, OpenStreams, Capped, Shape

\* No stream opens or closes.
LEMMA SlotsKept ==
  ASSUME Shape, SlotsExact, DOMAIN str' = Stream, UNCHANGED <<conf, free>>,
         \A s \in Stream : str'[s].at \in Open <=> str[s].at \in Open
  PROVE  SlotsExact'
<1>1. OpenStreams' = OpenStreams
  BY DEF OpenStreams
<1> QED BY <1>1 DEF SlotsExact, OpenStreams, Capped

-----------------------------------------------------------------------------
(* Steps of one stream                                                      *)

\* A closed record is fine, whatever was sent and taken of it.
LEMMA ClosingFine ==
  ASSUME NEW at \in Places \ Open
  PROVE  Closing(at) \in Streams /\ Fine(Closing(at))
<1>1. Closing(at) \in Streams
  <2>1. <<>> \in Seq(Items) /\ <<>> \in Seq(Int)
        /\ {} \in SUBSET {"idle", "timeout", "events", "heartbeat"}
    OBVIOUS
  <2> QED BY <2>1 DEF Closing, Streams
<1>2. Watching(Closing(at)) /\ Beating(Closing(at))
  BY DEF Closing, Watching, Beating, Resting, Caught, Open, Polling
<1> QED BY <1>1, <1>2 DEF Fine

LEMMA InitInv == Init => IInv
<1> SUFFICES ASSUME Init PROVE IInv
  OBVIOUS
<1>1. ConfigOK(conf) /\ now = 0
  BY SseAssumption DEF Init
<1>2. "none" \in Places \ Open
  BY DEF Places, Open, Polling
<1>3. str \in [Stream -> Streams] /\ \A s \in Stream : Fine(str[s])
  BY <1>2, ClosingFine DEF Init
<1>4. free \in Nat
  BY <1>1 DEF Init, ConfigOK
<1>5. SlotsExact
  <2>1. OpenStreams = {}
    BY DEF Init, OpenStreams, Closing, Open, Polling
  <2>2. Cardinality(OpenStreams) = 0
    BY <2>1, FS_EmptySet
  <2> QED BY <1>1, <2>2 DEF SlotsExact, OpenStreams, Init, Capped, ConfigOK
<1> QED BY <1>1, <1>3, <1>4, <1>5 DEF IInv, Shape

\* Fineness changes with the clock only.
LEMMA FineKept ==
  ASSUME UNCHANGED <<conf, now>>
  PROVE  \A r : Fine(r)' = Fine(r)
<1>1. \A r : Watching(r)' = Watching(r)
  BY DEF Watching
<1>2. \A r : Beating(r)' = Beating(r)
  BY DEF Beating
<1> QED BY <1>1, <1>2 DEF Fine

LEMMA StepFine ==
  ASSUME IInv, NEW s \in Stream, NEW r, Fine(r), str' = [str EXCEPT ![s] = r],
         r.at \in Open <=> str[s].at \in Open, UNCHANGED <<conf, now, free>>
  PROVE  IInv'
<1>1. Shape'
  BY DEF IInv, Shape, Fine
<1>2. \A t \in Stream : Fine(str[t])'
  BY FineKept DEF IInv, Shape
<1>3. SlotsExact'
  BY SlotsKept DEF IInv, Shape
<1> QED BY <1>1, <1>2, <1>3 DEF IInv

LEMMA LeaveFine ==
  ASSUME IInv, NEW s \in Stream, str[s].at \in Open, NEW why \in {"gone", "severed", "finished"},
         NEW frames \in Seq(Int), Leave(s, why, frames)
  PROVE  IInv'
<1> DEFINE r == [Closing(why) EXCEPT !.sent = str[s].sent \o frames, !.made = str[s].made,
                                     !.taken = str[s].taken]
<1>i. Shape /\ SlotsExact /\ str[s] \in Streams /\ Fine(str[s])
  BY DEF IInv, Shape
<1>1. why \in Places \ Open
  BY DEF Places, Open, Polling
<1>2. r \in Streams /\ r.at = why /\ r.taken = str[s].taken /\ r.made = str[s].made
  <2>1. str[s].sent \o frames \in Seq(Int) /\ str[s].made \in Seq(Items) /\ str[s].taken \in Nat
    BY <1>i DEF Streams
  <2>2. Closing(why) \in Streams /\ Closing(why).at = why
    BY <1>1, ClosingFine DEF Closing
  <2> QED BY <2>1, <2>2 DEF Streams
<1>3. /\ str' = [str EXCEPT ![s] = r] /\ free' = (IF Capped THEN free + 1 ELSE free)
      /\ UNCHANGED <<conf, now>>
  BY DEF Leave, Release
<1> HIDE DEF r
<1>4. Fine(r)
  BY <1>1, <1>2, <1>i DEF Fine, Watching, Beating, Resting, Open, Polling
<1>5. SlotsExact' /\ free' \in Nat
  BY <1>1, <1>2, <1>3, <1>i, SlotFreed
<1>6. Shape'
  BY <1>2, <1>3, <1>5, <1>i DEF Shape
<1>7. \A t \in Stream : Fine(str[t])'
  BY <1>3, <1>4, FineKept DEF IInv, Shape
<1> QED BY <1>5, <1>6, <1>7 DEF IInv

LEMMA FinishFine ==
  ASSUME IInv, NEW s \in Stream, str[s].at \in Open, Finish(s)
  PROVE  IInv'
<1>1. (IF conf.done THEN <<Done>> ELSE <<>>) \in Seq(Int)
  BY DEF Done
<1> QED BY <1>1, LeaveFine DEF Finish

LEMMA StartedOK ==
  ASSUME NEW q \in Streams, NEW a \in Nat, NEW b \in Nat, NEW c \in Nat
  PROVE  [q EXCEPT !.woken = TRUE, !.timeoutAt = a, !.beatAt = b, !.idleAt = c] \in Streams
<1> QED BY DEF Streams

LEMMA StartFine == ASSUME IInv, NEW s \in Stream, Start(s) PROVE IInv'
<1> DEFINE a == now + conf.timeout
           b == now + conf.heartbeat
           c == now + conf.idle
           r == [Closing("parked") EXCEPT !.woken = TRUE, !.timeoutAt = a, !.beatAt = b,
                                          !.idleAt = c]
<1>i. /\ Shape /\ SlotsExact /\ now \in Nat
      /\ conf.timeout \in Nat /\ conf.heartbeat \in Nat /\ conf.idle \in Nat
  BY DEF IInv, Shape, ConfigOK
<1>1. /\ str[s].at = "none" /\ (Capped => free > 0)
      /\ free' = (IF Capped THEN free - 1 ELSE free)
      /\ str' = [str EXCEPT ![s] = r] /\ UNCHANGED <<conf, now>>
  BY DEF Start
<1>2. /\ r.at = "parked" /\ r.woken /\ r.taken = 0 /\ r.made = <<>>
      /\ r.beatAt = now + conf.heartbeat /\ r.idleAt = now + conf.idle
  BY DEF Closing
<1>3. r \in Streams
  <2>1. /\ <<>> \in Seq(Items) /\ <<>> \in Seq(Int)
        /\ {} \in SUBSET {"idle", "timeout", "events", "heartbeat"}
        /\ "parked" \in Places
    BY DEF Places, Open
  <2>2. Closing("parked") \in Streams
    BY <2>1 DEF Closing, Streams
  <2>3. a \in Nat /\ b \in Nat /\ c \in Nat
    BY <1>i
  <2> HIDE DEF a, b, c
  <2> QED BY <2>2, <2>3, StartedOK
<1> HIDE DEF r
<1>4. Fine(r)
  BY <1>i, <1>2, <1>3 DEF Fine, Watching, Beating, Resting
<1>5. SlotsExact' /\ free' \in Nat
  <2>1. str[s].at \notin Open /\ r.at \in Open
    BY <1>1, <1>2 DEF Open, Polling
  <2> QED BY <1>i, <1>1, <2>1, SlotTaken
<1>6. Shape'
  BY <1>i, <1>1, <1>3, <1>5 DEF Shape
<1>7. \A t \in Stream : Fine(str[t])'
  BY <1>1, <1>4, FineKept DEF IInv, Shape
<1> QED BY <1>5, <1>6, <1>7 DEF IInv

LEMMA RefuseFine == ASSUME IInv, NEW s \in Stream, Refuse(s) PROVE IInv'
<1> DEFINE r == [str[s] EXCEPT !.at = "refused"]
<1>1. str[s] \in Streams /\ Fine(str[s])
  BY DEF IInv, Shape
<1>2. r \in Streams /\ r.at = "refused" /\ r.taken = str[s].taken /\ r.made = str[s].made
  BY <1>1 DEF Streams, Places
<1>3. str' = [str EXCEPT ![s] = r] /\ UNCHANGED <<conf, now, free>> /\ str[s].at = "none"
  BY DEF Refuse
<1> HIDE DEF r
<1>4. Fine(r) /\ ~(r.at \in Open) /\ ~(str[s].at \in Open)
  BY <1>1, <1>2, <1>3 DEF Fine, Watching, Beating, Resting, Open, Polling
<1> QED BY <1>3, <1>4, StepFine

\* What a body looks like while it is polled and while it waits to be.
LEMMA PollFine == ASSUME IInv, NEW s \in Stream, Poll(s) PROVE IInv'
<1>i. str[s] \in Streams /\ Fine(str[s]) /\ str[s].at = "parked" /\ str[s].at \in Open
  BY DEF IInv, Shape, Poll, Open
<1>1. CASE Leave(s, "severed", <<>>)
  <2>1. <<>> \in Seq(Int)
    OBVIOUS
  <2> QED BY <1>i, <1>1, <2>1, LeaveFine
<1>2. CASE ~Leave(s, "severed", <<>>)
  <2> DEFINE r == [str[s] EXCEPT !.woken = FALSE, !.waits = @ \cup {"idle"},
                                 !.at = IF str[s].full THEN "parked" ELSE First]
  <2>1. str' = [str EXCEPT ![s] = r] /\ UNCHANGED <<conf, now, free>>
    BY <1>2 DEF Poll, IInv, Shape
  <2>2. /\ r \in Streams /\ r.at = (IF str[s].full THEN "parked" ELSE "timeout")
        /\ r.full = str[s].full /\ r.taken = str[s].taken /\ r.made = str[s].made
        /\ r.beatAt = str[s].beatAt /\ r.idleAt = str[s].idleAt
    BY <1>i DEF Streams, Places, Open, Polling, First
  <2> HIDE DEF r
  <2>3. r.at \in Open
    BY <2>2 DEF Open, Polling
  <2>4. Fine(r)
    BY <1>i, <2>2, <2>3 DEF Fine, Watching, Beating, Resting
  <2> QED BY <1>i, <2>1, <2>3, <2>4, StepFine
<1> QED BY <1>1, <1>2

LEMMA PollTimeoutFine == ASSUME IInv, NEW s \in Stream, PollTimeout(s) PROVE IInv'
<1>i. /\ str[s] \in Streams /\ Fine(str[s]) /\ str[s].at = "timeout" /\ str[s].at \in Open
      /\ now \in Nat /\ str[s].timeoutAt \in Nat /\ conf.timeout \in Nat
  BY DEF IInv, Shape, ConfigOK, Streams, PollTimeout, Open, Polling
<1>1. CASE Finish(s)
  BY <1>i, <1>1, FinishFine
<1>2. CASE ~Finish(s)
  <2> DEFINE r == [str[s] EXCEPT !.at = "events", !.waits = @ \cup {"timeout"}]
  <2>1. /\ str' = [str EXCEPT ![s] = r] /\ UNCHANGED <<conf, now, free>>
        /\ conf.timeout > 0 => now < str[s].timeoutAt
    <3>1. ~(conf.timeout > 0 /\ str[s].timeoutAt <= now) /\ UNCHANGED <<conf, now, free>>
      BY <1>2 DEF PollTimeout
    <3>2. str' = [str EXCEPT ![s].at = "events", ![s].waits = @ \cup {"timeout"}]
      BY <1>2 DEF PollTimeout
    <3>3. str' = [str EXCEPT ![s] = r]
      BY <3>2 DEF IInv, Shape
    <3>4. conf.timeout > 0 => now < str[s].timeoutAt
      BY <1>i, <3>1
    <3> HIDE DEF r
    <3> QED BY <3>1, <3>3, <3>4
  <2>2. /\ r \in Streams /\ r.at = "events" /\ "timeout" \in r.waits
        /\ r.full = str[s].full /\ r.taken = str[s].taken /\ r.made = str[s].made
        /\ r.timeoutAt = str[s].timeoutAt
        /\ r.beatAt = str[s].beatAt /\ r.idleAt = str[s].idleAt
    BY <1>i DEF Streams, Places, Open, Polling
  <2> HIDE DEF r
  <2>3. r.at \in Open
    BY <2>2 DEF Open, Polling
  <2>4. Fine(r)
    BY <1>i, <2>1, <2>2, <2>3 DEF Fine, Watching, Beating, Resting
  <2> QED BY <1>i, <2>1, <2>3, <2>4, StepFine
<1> QED BY <1>1, <1>2

\* A frame that is yielded is written, and the idle timer starts anew, or it is stuck.
LEMMA YieldFine ==
  ASSUME Shape, NEW q \in Streams, NEW frame \in Int, q.taken <= Len(q.made),
         conf.heartbeat > 0 => q.beatAt <= now + conf.heartbeat
  PROVE  Fine(Yield(q, frame)) /\ Yield(q, frame).at \in Open
<1> DEFINE out  == [q EXCEPT !.sent = Append(@, frame)]
           kept == [out EXCEPT !.full = TRUE, !.at = "parked"]
           idle == now + conf.idle
           gone == [[out EXCEPT !.idleAt = idle] EXCEPT !.at = "timeout"]
<1>i. /\ now \in Nat /\ conf.heartbeat \in Nat /\ conf.idle \in Nat /\ idle \in Nat
      /\ q.beatAt \in Nat
  BY DEF Shape, ConfigOK, Streams
<1>1. /\ out \in Streams /\ out.taken = q.taken /\ out.made = q.made
      /\ out.beatAt = q.beatAt
  <2>1. Append(q.sent, frame) \in Seq(Int)
    BY DEF Streams
  <2> QED BY <2>1 DEF Streams
<1>2. Yield(q, frame) = IF q.stalled THEN kept ELSE gone
  BY DEF Yield, Written
<1> HIDE DEF out
<1>3. /\ kept \in Streams /\ kept.taken = q.taken /\ kept.made = q.made /\ kept.full
      /\ kept.beatAt = q.beatAt /\ kept.at = "parked"
  BY <1>1 DEF Streams, Places, Open
<1>4. /\ gone \in Streams /\ gone.taken = q.taken /\ gone.made = q.made
      /\ gone.beatAt = q.beatAt /\ gone.idleAt = idle /\ gone.at = "timeout"
  <2> HIDE DEF idle
  <2> QED BY <1>i, <1>1 DEF Streams, Places, Open, Polling
<1> HIDE DEF kept, gone
<1>5. Fine(kept) /\ kept.at \in Open
  BY <1>i, <1>3 DEF Fine, Watching, Beating, Resting, Open
<1>6. Fine(gone) /\ gone.at \in Open
  <2>1. Watching(gone) /\ gone.at \in Open
    BY <1>4 DEF Watching, Resting, Open, Polling
  <2>2. Beating(gone)
    BY <1>i, <1>4 DEF Beating
  <2> QED BY <1>4, <2>1, <2>2 DEF Fine
<1> QED BY <1>2, <1>5, <1>6

LEMMA PollEventsFine == ASSUME IInv, NEW s \in Stream, PollEvents(s) PROVE IInv'
<1> DEFINE r == str[s]
           n == r.taken + 1
<1>i. /\ Shape /\ r \in Streams /\ Fine(r) /\ r.at = "events" /\ r.at \in Open
      /\ r.taken \in Nat /\ Len(r.made) \in Nat /\ r.taken <= Len(r.made)
  BY DEF IInv, Shape, Streams, PollEvents, Open, Polling, Fine, Watching
<1>1. CASE /\ n > Len(r.made)
           /\ str' = [str EXCEPT ![s].at = "heartbeat", ![s].waits = @ \cup {"events"}]
           /\ UNCHANGED <<conf, now, free>>
  <2> DEFINE q == [r EXCEPT !.at = "heartbeat", !.waits = @ \cup {"events"}]
  <2>1. str' = [str EXCEPT ![s] = q]
    BY <1>1 DEF IInv, Shape
  <2>2. /\ q \in Streams /\ q.at = "heartbeat" /\ q.waits = r.waits \cup {"events"}
        /\ q.full = r.full /\ q.taken = r.taken /\ q.made = r.made
        /\ q.timeoutAt = r.timeoutAt /\ q.beatAt = r.beatAt /\ q.idleAt = r.idleAt
    BY <1>i DEF Streams, Places, Open, Polling
  <2>3. r.taken = Len(r.made)
    BY <1>i, <1>1
  <2> HIDE DEF q, n
  <2>4. q.at \in Open /\ UNCHANGED <<conf, now, free>>
    BY <1>1, <2>2 DEF Open, Polling
  <2> HIDE DEF r
  <2>5. Fine(q)
    BY <1>i, <2>2, <2>3, <2>4 DEF Fine, Watching, Beating, Resting, Caught
  <2> QED BY <1>i, <2>1, <2>4, <2>5, StepFine DEF r
<1>2. CASE Finish(s)
  BY <1>i, <1>2, FinishFine
<1>3. CASE /\ n <= Len(r.made)
           /\ str' = [str EXCEPT ![s] = Skipped(r)] /\ UNCHANGED <<conf, now, free>>
  <2> DEFINE q == [r EXCEPT !.taken = n]
  <2>1. str' = [str EXCEPT ![s] = q]
    BY <1>3 DEF Skipped
  <2>2. /\ q \in Streams /\ q.at = "events" /\ q.waits = r.waits
        /\ q.full = r.full /\ q.taken = n /\ q.made = r.made
        /\ q.timeoutAt = r.timeoutAt /\ q.beatAt = r.beatAt /\ q.idleAt = r.idleAt
    <3>1. n \in Nat
      BY <1>i
    <3> HIDE DEF n
    <3> QED BY <1>i, <3>1 DEF Streams
  <2> HIDE DEF q
  <2>3. Fine(q)
    BY <1>i, <1>3, <2>2 DEF Fine, Watching, Beating, Resting, Open, Polling
  <2> QED BY <1>i, <1>3, <2>1, <2>2, <2>3, StepFine
<1>4. CASE /\ n <= Len(r.made)
           /\ str' = [str EXCEPT ![s] = Yield([r EXCEPT !.taken = n], n)]
           /\ UNCHANGED <<conf, now, free>>
  <2> DEFINE q == [r EXCEPT !.taken = n]
  <2>1. q \in Streams /\ q.taken = n /\ q.made = r.made /\ q.beatAt = r.beatAt
    <3>1. n \in Nat
      BY <1>i
    <3> HIDE DEF n
    <3> QED BY <1>i, <3>1 DEF Streams
  <2>2. n \in Int
    BY <1>i
  <2>3. str' = [str EXCEPT ![s] = Yield(q, n)] /\ UNCHANGED <<conf, now, free>>
    BY <1>4
  <2> HIDE DEF q
  <2>4. Fine(Yield(q, n)) /\ Yield(q, n).at \in Open
    <3>1. conf.heartbeat > 0 => q.beatAt <= now + conf.heartbeat
      BY <1>i, <2>1 DEF Fine, Beating
    <3>2. q.taken <= Len(q.made)
      BY <1>4, <2>1
    <3> HIDE DEF n, r
    <3> QED BY <1>i, <2>1, <2>2, <3>1, <3>2, YieldFine
  <2> QED BY <1>i, <2>3, <2>4, StepFine
<1> QED BY <1>1, <1>2, <1>3, <1>4 DEF PollEvents

LEMMA PollHeartbeatFine == ASSUME IInv, NEW s \in Stream, PollHeartbeat(s) PROVE IInv'
<1> DEFINE r == str[s]
<1>i. /\ Shape /\ r \in Streams /\ Fine(r) /\ r.at = "heartbeat" /\ r.at \in Open
      /\ r.beatAt \in Nat /\ now \in Nat /\ conf.heartbeat \in Nat
      /\ UNCHANGED <<conf, now, free>>
  BY DEF IInv, Shape, ConfigOK, Streams, PollHeartbeat, Open, Polling
<1>1. CASE conf.heartbeat > 0 /\ r.beatAt <= now
  <2> DEFINE beat == r.beatAt + conf.heartbeat
             q == [r EXCEPT !.beatAt = beat]
  <2>1. str' = [str EXCEPT ![s] = Yield(q, Ping)]
    BY <1>1 DEF PollHeartbeat
  <2>2. beat \in Nat /\ beat <= now + conf.heartbeat
    BY <1>i, <1>1
  <2> HIDE DEF beat
  <2>3. q \in Streams /\ q.taken = r.taken /\ q.made = r.made /\ q.beatAt = beat
    BY <1>i, <2>2 DEF Streams
  <2> HIDE DEF q
  <2>4. Fine(Yield(q, Ping)) /\ Yield(q, Ping).at \in Open
    <3>1. q.taken <= Len(q.made) /\ Ping \in Int
      BY <1>i, <2>3 DEF Fine, Watching, Ping
    <3> QED BY <1>i, <2>2, <2>3, <3>1, YieldFine
  <2> QED BY <1>i, <2>1, <2>4, StepFine
<1>2. CASE ~(conf.heartbeat > 0 /\ r.beatAt <= now)
  <2> DEFINE q == [r EXCEPT !.at = "parked", !.waits = @ \cup {"heartbeat"}]
  <2>1. str' = [str EXCEPT ![s] = q]
    BY <1>2 DEF PollHeartbeat
  <2>2. /\ q \in Streams /\ q.at = "parked" /\ q.waits = r.waits \cup {"heartbeat"}
        /\ q.full = r.full /\ q.taken = r.taken /\ q.made = r.made /\ q.woken = r.woken
        /\ q.timeoutAt = r.timeoutAt /\ q.beatAt = r.beatAt /\ q.idleAt = r.idleAt
    BY <1>i DEF Streams, Places, Open
  <2> HIDE DEF q
  <2>3. q.at \in Open /\ (conf.heartbeat > 0 => now < q.beatAt)
    BY <1>i, <1>2, <2>2 DEF Open
  <2>4. Watching(q)
    BY <1>i, <2>2, <2>3 DEF Fine, Watching, Resting, Caught
  <2>5. Beating(q)
    BY <1>i, <2>2, <2>3 DEF Fine, Beating
  <2> QED BY <1>i, <2>1, <2>2, <2>3, <2>4, <2>5, StepFine DEF Fine
<1> QED BY <1>1, <1>2

-----------------------------------------------------------------------------
(* Steps of the environment                                                 *)

LEMMA MakeFine == ASSUME IInv, NEW s \in Stream, NEW item \in Items, Make(s, item) PROVE IInv'
<1> DEFINE r == str[s]
           q == [r EXCEPT !.made = Append(@, item), !.woken = @ \/ "events" \in r.waits,
                          !.waits = @ \ {"events"}]
<1>i. /\ r \in Streams /\ Fine(r) /\ r.at \in Open /\ r.made \in Seq(Items) /\ r.taken \in Nat
      /\ r.taken <= Len(r.made) /\ UNCHANGED <<conf, now, free>>
  BY DEF IInv, Shape, Streams, Make, Fine, Watching
<1>1. str' = [str EXCEPT ![s] = q]
  BY DEF Make, IInv, Shape
<1>2. /\ Append(r.made, item) \in Seq(Items) /\ Len(Append(r.made, item)) = Len(r.made) + 1
      /\ Len(r.made) \in Nat
  BY <1>i
<1>3. /\ q \in Streams /\ q.at = r.at /\ q.waits = r.waits \ {"events"}
      /\ q.woken = (r.woken \/ "events" \in r.waits)
      /\ q.full = r.full /\ q.taken = r.taken /\ q.made = Append(r.made, item)
      /\ q.timeoutAt = r.timeoutAt /\ q.beatAt = r.beatAt /\ q.idleAt = r.idleAt
  BY <1>i, <1>2 DEF Streams
<1> HIDE DEF q
<1>4. q.taken <= Len(q.made)
  BY <1>i, <1>2, <1>3
<1>5. ~Resting(q) /\ (q.at = "heartbeat" => q.woken)
  <2> HIDE DEF r
  <2> QED BY <1>i, <1>3 DEF Fine, Watching, Resting, Caught
<1>6. Watching(q) /\ Beating(q)
  <2> HIDE DEF r
  <2> QED BY <1>i, <1>3, <1>4, <1>5 DEF Fine, Watching, Beating
<1> QED BY <1>i, <1>1, <1>3, <1>6, StepFine DEF Fine

LEMMA StallFine == ASSUME IInv, NEW s \in Stream, Stall(s) PROVE IInv'
<1> DEFINE r == str[s]
           q == [r EXCEPT !.stalled = TRUE]
<1>i. /\ r \in Streams /\ Fine(r) /\ r.at \in Open /\ UNCHANGED <<conf, now, free>>
  BY DEF IInv, Shape, Stall
<1>1. str' = [str EXCEPT ![s] = q]
  BY DEF Stall, IInv, Shape
<1>2. /\ q \in Streams /\ q.at = r.at /\ q.waits = r.waits /\ q.woken = r.woken
      /\ q.full = r.full /\ q.taken = r.taken /\ q.made = r.made
      /\ q.timeoutAt = r.timeoutAt /\ q.beatAt = r.beatAt /\ q.idleAt = r.idleAt
  BY <1>i DEF Streams
<1> HIDE DEF q
<1>3. Fine(q)
  BY <1>i, <1>2 DEF Fine, Watching, Beating, Resting, Caught
<1> QED BY <1>i, <1>1, <1>2, <1>3, StepFine

LEMMA ResumeFine == ASSUME IInv, NEW s \in Stream, Resume(s) PROVE IInv'
<1> DEFINE r == str[s]
           idle == now + conf.idle
           read == [r EXCEPT !.stalled = FALSE]
           flow == [[r EXCEPT !.idleAt = idle] EXCEPT !.stalled = FALSE, !.full = FALSE,
                                                      !.woken = TRUE]
<1>i. /\ r \in Streams /\ Fine(r) /\ r.at \in Open /\ UNCHANGED <<conf, now, free>>
      /\ now \in Nat /\ conf.idle \in Nat /\ conf.heartbeat \in Nat /\ r.beatAt \in Nat
      /\ idle \in Nat
  BY DEF IInv, Shape, ConfigOK, Streams, Resume
<1>1. str' = [str EXCEPT ![s] = IF r.full THEN flow ELSE read]
  BY DEF Resume, Written
<1>2. CASE r.full
  <2>1. /\ flow \in Streams /\ flow.at = r.at /\ flow.woken
        /\ flow.taken = r.taken /\ flow.made = r.made /\ flow.waits = r.waits
        /\ flow.timeoutAt = r.timeoutAt /\ flow.beatAt = r.beatAt /\ flow.idleAt = idle
    <3> HIDE DEF idle
    <3> QED BY <1>i DEF Streams
  <2>2. str' = [str EXCEPT ![s] = flow]
    BY <1>1, <1>2
  <2> HIDE DEF flow
  <2>3. Watching(flow)
    BY <1>i, <2>1 DEF Fine, Watching, Resting, Caught
  <2>4. Beating(flow)
    BY <1>i, <2>1 DEF Fine, Beating
  <2> QED BY <1>i, <2>1, <2>2, <2>3, <2>4, StepFine DEF Fine
<1>3. CASE ~r.full
  <2>1. /\ read \in Streams /\ read.at = r.at /\ read.waits = r.waits /\ read.woken = r.woken
        /\ read.full = r.full /\ read.taken = r.taken /\ read.made = r.made
        /\ read.timeoutAt = r.timeoutAt /\ read.beatAt = r.beatAt /\ read.idleAt = r.idleAt
    BY <1>i DEF Streams
  <2>2. str' = [str EXCEPT ![s] = read]
    BY <1>1, <1>3
  <2> HIDE DEF read
  <2>3. Fine(read)
    BY <1>i, <2>1 DEF Fine, Watching, Beating, Resting, Caught
  <2> QED BY <1>i, <2>1, <2>2, <2>3, StepFine
<1> QED BY <1>2, <1>3

\* The clock moves while every body rests; a timer it reaches wakes its task.
LEMMA TickFine == ASSUME IInv, Tick PROVE IInv'
<1> DEFINE due(s)  == Due(str[s], now + 1)
           next(s) == [str[s] EXCEPT !.woken = @ \/ due(s) # {}, !.waits = @ \ due(s)]
<1>i. /\ ConfigOK(conf) /\ now \in Nat /\ free \in Nat /\ str \in [Stream -> Streams]
      /\ now' = now + 1 /\ UNCHANGED <<conf, free>> /\ Shape /\ SlotsExact
  BY DEF IInv, Shape, Tick
<1>1. str' = [s \in Stream |-> next(s)]
  BY DEF Tick
<1>2. ASSUME NEW s \in Stream
      PROVE  /\ next(s) \in Streams /\ next(s).at = str[s].at
             /\ next(s).waits = str[s].waits \ due(s)
             /\ next(s).woken = (str[s].woken \/ due(s) # {})
             /\ next(s).full = str[s].full
             /\ next(s).taken = str[s].taken /\ next(s).made = str[s].made
             /\ next(s).timeoutAt = str[s].timeoutAt /\ next(s).beatAt = str[s].beatAt
             /\ next(s).idleAt = str[s].idleAt
  <2>1. str[s] \in Streams
    BY <1>i
  <2> HIDE DEF due
  <2> QED BY <2>1 DEF Streams
<1>3. ASSUME NEW s \in Stream
      PROVE  Fine(str[s])'
  <2> DEFINE r == str[s]
             q == str'[s]
  <2>1. /\ r \in Streams /\ Fine(r) /\ r.beatAt \in Nat /\ r.idleAt \in Nat
        /\ r.timeoutAt \in Nat
        /\ conf.heartbeat \in Nat /\ conf.timeout \in Nat /\ conf.idle \in Nat
    BY <1>i DEF IInv, Streams, ConfigOK
  <2>2. r.at \in Open => r.at = "parked" /\ ~r.woken
    BY DEF Tick, AtRest
  <2>3. "events" \notin due(s)
    BY DEF Due
  <2>4. /\ conf.timeout > 0 /\ "timeout" \in r.waits /\ r.timeoutAt <= now + 1
             => "timeout" \in due(s)
        /\ conf.heartbeat > 0 /\ "heartbeat" \in r.waits /\ r.beatAt <= now + 1
             => "heartbeat" \in due(s)
    BY DEF Due
  <2>5. q = next(s)
    BY <1>1
  <2> HIDE DEF next
  <2>6. /\ q \in Streams /\ q.at = r.at /\ q.waits = r.waits \ due(s)
        /\ q.woken = (r.woken \/ due(s) # {}) /\ q.full = r.full
        /\ q.taken = r.taken /\ q.made = r.made /\ q.timeoutAt = r.timeoutAt
        /\ q.beatAt = r.beatAt /\ q.idleAt = r.idleAt
    BY <1>2, <2>5
  <2> HIDE DEF due
  <2>7. Resting(q) => Resting(r) /\ due(s) = {}
    BY <2>2, <2>6 DEF Resting, Open
  <2>8. q.at \in Open /\ ~q.full => Resting(r)
    BY <2>2, <2>6 DEF Resting
  <2>9. q.at \notin {"events", "heartbeat"}
    BY <2>2, <2>6 DEF Open, Polling
  <2> HIDE DEF r, q
  <2>10. /\ q.taken <= Len(q.made)
         /\ Resting(q) => Caught(q)
    BY <2>1, <2>3, <2>6, <2>7 DEF Fine, Watching, Caught
  <2>11. conf.timeout > 0 /\ Resting(q) => now + 1 < q.timeoutAt /\ "timeout" \in q.waits
    BY <1>i, <2>1, <2>4, <2>6, <2>7 DEF Fine, Watching
  <2>12. conf.heartbeat > 0 /\ Resting(q) => now + 1 < q.beatAt /\ "heartbeat" \in q.waits
    BY <1>i, <2>1, <2>4, <2>6, <2>7 DEF Fine, Watching
  <2>13. conf.heartbeat > 0 /\ q.at \in Open =>
           /\ q.beatAt <= now + 1 + conf.heartbeat
           /\ conf.heartbeat < conf.idle /\ ~q.full => now + 1 < q.idleAt /\ q.beatAt < q.idleAt
    BY <1>i, <2>1, <2>6, <2>8 DEF Fine, Watching, Beating
  <2>14. (Watching(str[s]) /\ Beating(str[s]))'
    BY <1>i, <2>9, <2>10, <2>11, <2>12, <2>13 DEF Watching, Beating, q
  <2> QED BY <2>6, <2>14 DEF Fine, q
<1>4. \A s \in Stream : str'[s].at = str[s].at
  BY <1>1, <1>2
<1>5. str' \in [Stream -> Streams]
  BY <1>1, <1>2
<1> HIDE DEF next
<1>6. SlotsExact'
  BY <1>i, <1>4, <1>5, SlotsKept
<1>7. Shape'
  BY <1>i, <1>5 DEF Shape
<1> QED BY <1>3, <1>6, <1>7 DEF IInv

-----------------------------------------------------------------------------
(* The theorems                                                             *)

LEMMA NextInv == IInv /\ [Next]_vars => IInv'
<1> SUFFICES ASSUME IInv, [Next]_vars PROVE IInv'
  OBVIOUS
<1>1. ASSUME NEW s \in Stream, Gone(s) PROVE IInv'
  <2>1. <<>> \in Seq(Int)
    OBVIOUS
  <2> QED BY <1>1, <2>1, LeaveFine DEF Gone
<1>2. CASE UNCHANGED vars
  <2>1. \A s \in Stream : Fine(str[s])'
    BY <1>2, FineKept DEF IInv, vars
  <2> QED BY <1>2, <2>1 DEF vars, IInv, Shape, SlotsExact, Capped
<1> QED
  BY <1>1, <1>2, StartFine, RefuseFine, PollFine, PollTimeoutFine, PollEventsFine,
     PollHeartbeatFine, StallFine, ResumeFine, MakeFine, TickFine
  DEF Next

\* The invariant of all streams, whatever sources, clients and timers do.
THEOREM Inductive == Spec => []IInv
<1> QED BY InitInv, NextInv, PTL DEF Spec

\* No slot is lost and none is given back twice.
THEOREM SlotsExactAlways == Spec => []SlotsExact
<1>1. IInv => SlotsExact
  BY DEF IInv
<1> QED BY <1>1, Inductive, PTL

\* No wake-up is lost: neither an item made during a poll nor one behind an oversized
\* one leaves the stream at rest.
THEOREM NothingStuckAlways == Spec => []NothingStuck
<1>1. IInv => NothingStuck
  <2> SUFFICES ASSUME IInv, NEW s \in Stream, AtRest(s), ~str[s].full
               PROVE  str[s].taken = Len(str[s].made)
    BY DEF NothingStuck
  <2> QED BY DEF IInv, Fine, Watching, Resting, Caught, AtRest
<1> QED BY <1>1, Inductive, PTL

\* The client timeout ends the stream, whatever the source sends.
THEOREM TimeoutEndsAlways == Spec => []TimeoutEnds
<1>1. IInv => TimeoutEnds
  <2> SUFFICES ASSUME IInv, NEW s \in Stream, AtRest(s), conf.timeout > 0, ~str[s].full
               PROVE  now < str[s].timeoutAt
    BY DEF TimeoutEnds
  <2> QED BY DEF IInv, Fine, Watching, Resting, AtRest
<1> QED BY <1>1, Inductive, PTL

\* Only the idle timer, seen when the task is polled, severs a stream.
LEMMA SeveredByPoll ==
  ASSUME IInv, Next, NEW s \in Stream, str'[s].at = "severed", str[s].at # "severed"
  PROVE  Poll(s) /\ conf.idle > 0 /\ str[s].idleAt <= now
<1>i. str \in [Stream -> Streams]
  BY DEF IInv, Shape
<1>w. ASSUME NEW t \in Stream, NEW r, str' = [str EXCEPT ![t] = r], r.at # "severed"
      PROVE  FALSE
  BY <1>w, <1>i
<1>l. ASSUME NEW t \in Stream, NEW why, NEW frames, Leave(t, why, frames)
      PROVE  why = "severed" /\ t = s
  <2>1. [Closing(why) EXCEPT !.sent = str[t].sent \o frames, !.made = str[t].made,
                             !.taken = str[t].taken].at = why
    BY DEF Closing
  <2> DEFINE r == [Closing(why) EXCEPT !.sent = str[t].sent \o frames, !.made = str[t].made,
                                       !.taken = str[t].taken]
  <2>2. str' = [str EXCEPT ![t] = r]
    BY <1>l DEF Leave
  <2> HIDE DEF r
  <2> QED BY <1>i, <2>1, <2>2 DEF r
<1>1. ASSUME NEW t \in Stream, Start(t) \/ Refuse(t) PROVE FALSE
  <2> DEFINE r == [Closing("parked") EXCEPT !.woken = TRUE, !.timeoutAt = now + conf.timeout,
                     !.beatAt = now + conf.heartbeat, !.idleAt = now + conf.idle]
  <2>1. r.at = "parked"
    BY DEF Closing
  <2>2. CASE str' = [str EXCEPT ![t] = r]
    <3> HIDE DEF r
    <3> QED BY <2>1, <2>2, <1>w
  <2>3. CASE str' = [str EXCEPT ![t].at = "refused"]
    BY <1>i, <2>3 DEF Streams
  <2> QED BY <1>1, <2>2, <2>3 DEF Start, Refuse
<1>2. ASSUME NEW t \in Stream, Gone(t) PROVE FALSE
  BY <1>2, <1>l DEF Gone
<1>3. ASSUME NEW t \in Stream, Poll(t)
      PROVE  t = s /\ conf.idle > 0 /\ str[s].idleAt <= now
  <2>1. CASE conf.idle > 0 /\ str[t].idleAt <= now
    BY <1>3, <2>1, <1>l DEF Poll
  <2>2. CASE ~(conf.idle > 0 /\ str[t].idleAt <= now)
    <3>1. str' = [str EXCEPT ![t].woken = FALSE, ![t].waits = @ \cup {"idle"},
                             ![t].at = IF str[t].full THEN "parked" ELSE First]
      BY <1>3, <2>2 DEF Poll
    <3> QED BY <1>i, <3>1 DEF First, Streams
  <2> QED BY <2>1, <2>2
<1>4. ASSUME NEW t \in Stream, PollTimeout(t) PROVE FALSE
  <2>1. CASE Finish(t)
    BY <2>1, <1>l DEF Finish
  <2>2. CASE str' = [str EXCEPT ![t].at = "events", ![t].waits = @ \cup {"timeout"}]
    BY <1>i, <2>2 DEF Streams
  <2> QED BY <1>4, <2>1, <2>2 DEF PollTimeout
<1>y. ASSUME NEW q, NEW frame, q \in Streams
      PROVE  Yield(q, frame).at # "severed"
  BY <1>y DEF Yield, Written, Streams
<1>5. ASSUME NEW t \in Stream, PollEvents(t) PROVE FALSE
  <2>1. CASE Finish(t)
    BY <2>1, <1>l DEF Finish
  <2>2. CASE str' = [str EXCEPT ![t].at = "heartbeat", ![t].waits = @ \cup {"events"}]
    BY <1>i, <2>2 DEF Streams
  <2>3. CASE str' = [str EXCEPT ![t] = Skipped(str[t])]
    BY <1>i, <2>3 DEF Skipped, Streams
  <2>4. CASE str' = [str EXCEPT ![t] = Yield([str[t] EXCEPT !.taken = str[t].taken + 1],
                                             str[t].taken + 1)]
    <3>1. [str[t] EXCEPT !.taken = str[t].taken + 1] \in Streams
      <4> DEFINE n == str[t].taken + 1
      <4>1. n \in Nat
        BY <1>i DEF Streams
      <4> HIDE DEF n
      <4>2. [str[t] EXCEPT !.taken = n] \in Streams
        BY <1>i, <4>1 DEF Streams
      <4> QED BY <4>2 DEF n
    <3> QED BY <2>4, <3>1, <1>y, <1>w
  <2> QED BY <1>5, <2>1, <2>2, <2>3, <2>4 DEF PollEvents
<1>6. ASSUME NEW t \in Stream, PollHeartbeat(t) PROVE FALSE
  <2> DEFINE r == str[t]
             q == [r EXCEPT !.beatAt = r.beatAt + conf.heartbeat]
             p == [r EXCEPT !.at = "parked", !.waits = r.waits \cup {"heartbeat"}]
  <2>1. str' = [str EXCEPT ![t] = IF conf.heartbeat > 0 /\ r.beatAt <= now
                                  THEN Yield(q, Ping) ELSE p]
    BY <1>6 DEF PollHeartbeat
  <2>2. q \in Streams
    <3> DEFINE beat == r.beatAt + conf.heartbeat
    <3>1. r \in Streams /\ r.beatAt \in Nat /\ conf.heartbeat \in Nat
      BY <1>i DEF IInv, Shape, ConfigOK, Streams
    <3>2. beat \in Nat
      BY <3>1
    <3> HIDE DEF beat
    <3>3. [r EXCEPT !.beatAt = beat] \in Streams
      BY <3>1, <3>2 DEF Streams
    <3> QED BY <3>3 DEF beat
  <2>3. p.at = "parked"
    BY <1>i DEF Streams
  <2> HIDE DEF p, q
  <2> QED BY <2>1, <2>2, <2>3, <1>y, <1>w
<1>7. ASSUME NEW t \in Stream, Stall(t) \/ \E item \in Items : Make(t, item) PROVE FALSE
  <2>1. CASE Stall(t)
    BY <2>1, <1>i DEF Stall, Streams
  <2>2. CASE \E item \in Items : Make(t, item)
    <3>1. PICK item \in Items :
            str' = [str EXCEPT ![t].made = Append(@, item),
                               ![t].woken = @ \/ "events" \in str[t].waits,
                               ![t].waits = @ \ {"events"}]
      BY <2>2 DEF Make
    <3> QED BY <3>1, <1>i DEF Streams
  <2> QED BY <1>7, <2>1, <2>2
<1>8. ASSUME NEW t \in Stream, Resume(t) PROVE FALSE
  BY <1>8, <1>i DEF Resume, Written, Streams
<1>9. CASE Tick
  BY <1>9, <1>i DEF Tick, Streams
<1> QED
  BY <1>1, <1>2, <1>3, <1>4, <1>5, <1>6, <1>7, <1>8, <1>9 DEF Next

\* A stream whose heartbeat is the shorter is never severed by the idle timeout while
\* its client reads: every heartbeat and every event pushes the deadline past the
\* next heartbeat.
THEOREM HeartbeatKeepsAliveAlways == Spec => HeartbeatKeepsAlive
<1>1. ASSUME IInv, [Next]_vars
      PROVE  [\A s \in Stream :
                /\ str'[s].at = "severed" /\ str[s].at # "severed"
                => str[s].full \/ conf.heartbeat = 0 \/ conf.heartbeat >= conf.idle]_vars
  <2> SUFFICES ASSUME Next, NEW s \in Stream, str'[s].at = "severed", str[s].at # "severed",
                      ~str[s].full, conf.heartbeat # 0, ~(conf.heartbeat >= conf.idle)
               PROVE  FALSE
    BY <1>1
  <2>1. Poll(s) /\ conf.idle > 0 /\ str[s].idleAt <= now
    BY <1>1, SeveredByPoll
  <2>2. /\ ConfigOK(conf) /\ Fine(str[s]) /\ str[s] \in Streams /\ now \in Nat
        /\ str[s].at \in Open
    BY <1>1, <2>1 DEF IInv, Shape, Poll, Open
  <2>3. now < str[s].idleAt
    BY <2>2 DEF Fine, Beating, ConfigOK
  <2> QED BY <2>1, <2>2, <2>3 DEF Streams
<1> QED BY <1>1, Inductive, PTL DEF Spec, HeartbeatKeepsAlive

-----------------------------------------------------------------------------
(* Multipart uploads *)

Files ==
  [name : Name \cup {Unset}, id : Nat, size : Nat, buf : Seq(Nat), data : Seq(Nat),
   pos : Nat, here : BOOLEAN]
Texts == [name : Name, id : Nat]
Parts == [name : Name, file : BOOLEAN, size : Nat]
Forms == [parts : Seq(Parts), total : Nat, texts : Seq(Texts), files : Seq(Files)]
Saves ==
  [path : Path \cup {Unset}, field : Nat, nth : Nat, id : Nat, data : Seq(Nat), open : BOOLEAN]

Receives == {"file", "flush"}
Parses   == {"head", "next", "bind"} \cup Receives
Handles  == {"handler", "saving"}
Phases   == Parses \cup Handles \cup {"done"}

\* What a field of the struct holds.
Lists(i) == IF Model[i].file THEN Seq(Files) ELSE Seq(Texts)

FormShape ==
  /\ pc \in [Request -> Phases]
  /\ form \in [Request -> Forms]
  /\ cur \in [Request -> Files]
  /\ bound \in [Request -> Seq(Seq(Texts \cup Files))]
  /\ ops \in [Request -> Nat]

SaveShape ==
  /\ task \in [Request -> Saves]
  /\ DOMAIN disk = Path
  /\ saved \subseteq Path \X Request \X Nat

-----------------------------------------------------------------------------
(* One request: p is where it is, f the form, c the part received, b what is bound. *)

FilesOf(parts) == {i \in DOMAIN parts : parts[i].file}
Waiting(p, c)  == IF p \in Receives THEN {c.id} ELSE {}

Kinds(p, f, c, b, n) ==
  /\ p \in Phases /\ f \in Forms /\ c \in Files /\ n \in Nat
  /\ b \in Seq(Seq(Texts \cup Files)) /\ Len(b) <= Len(Model)
  /\ \A i \in 1 .. Len(b) : b[i] \in Lists(i)

\* The part received: its bytes are in the spool and, after them, in the buffer.
Receiving(p, f, c) ==
  IF p \in Receives
  THEN /\ c.id = Len(f.parts) /\ c.id > 0
       /\ f.parts[c.id] = Part(c.name, TRUE, c.size)
       /\ c.data \o c.buf = Bytes(0, c.size) /\ c.here
       /\ Len(c.buf) < Flush \/ (p = "flush" /\ \E k \in Chunk : Len(c.buf) < Flush + k)
  ELSE c = NoFile

\* The parser's counters are right, and within the limits.
Limited(p, f) ==
  /\ Len(f.parts) <= Limit("fields")
  /\ Cardinality(FilesOf(f.parts)) <= Limit("files")
  /\ p \in {"head", "next"} => Cardinality(FilesOf(f.parts)) = Len(f.files)
  /\ p \in Receives => Cardinality(FilesOf(f.parts)) = Len(f.files) + 1
  /\ IsFiniteSet(Held(f.parts)) /\ Cardinality(Held(f.parts)) = f.total
  /\ f.total <= Limit("body")
  /\ \A i \in DOMAIN f.parts :
       f.parts[i].size <= Limit(IF f.parts[i].file THEN "file" ELSE "text")

Ordered(s) == \A i, j \in DOMAIN s : i < j => s[i].id < s[j].id

\* A file as it was sent, and the name of a text.
Whole(parts, x) ==
  /\ x.id \in DOMAIN parts /\ parts[x.id] = Part(x.name, TRUE, x.size)
  /\ x.data = Bytes(0, x.size) /\ x.pos = 0 /\ x.here

Told(parts, x) ==
  x.id \in DOMAIN parts /\ ~parts[x.id].file /\ parts[x.id].name = x.name

\* The lists of parts that no field has taken.
Listed(p, f, c) ==
  /\ Ordered(f.texts) /\ \A i \in DOMAIN f.texts : Told(f.parts, f.texts[i])
  /\ Ordered(f.files)
  /\ \A i \in DOMAIN f.files : Whole(f.parts, f.files[i]) /\ f.files[i].id \notin Waiting(p, c)

Untaken(b, isFile, n) ==
  \A i \in 1 .. Len(b) : ~(Model[i].name = n /\ Model[i].file = isFile)

IdsOf(s, I) == {s[i].id : i \in I}

\* What was sent for a field that comes later is still there.
Complete(p, f, c, b) ==
  p \in Parses => \A n \in Name :
    /\ Untaken(b, TRUE, n) =>
         IdsOf(f.files, Named(f.files, n)) = Sent(f.parts, TRUE, n) \ Waiting(p, c)
    /\ Untaken(b, FALSE, n) => IdsOf(f.texts, Named(f.texts, n)) = Sent(f.parts, FALSE, n)

\* A field holds what was sent for it.
Holds(parts, fld, got) ==
  /\ IdsOf(got, DOMAIN got) =
       IF fld.many THEN Sent(parts, fld.file, fld.name)
       ELSE Earliest(Sent(parts, fld.file, fld.name))
  /\ Ordered(got)
  /\ fld.file => \A j \in DOMAIN got : Whole(parts, got[j])
  /\ fld.required => got # <<>>

Bound(p, f, b, n) ==
  /\ b # <<>> => p \in {"bind"} \cup Handles
  /\ p \in Handles => Len(b) = Len(Model)
  /\ p = "saving" => n > 0
  /\ DistinctFields /\ (p = "bind" \/ (p = "handler" /\ n = 0)) =>
       \A i \in 1 .. Len(b) : Holds(f.parts, Model[i], b[i])
  /\ \A i \in 1 .. Len(b) : Model[i].file =>
       \A j \in DOMAIN b[i] : b[i][j].data = Bytes(0, b[i][j].size)

Sound(p, f, c, b, n) ==
  /\ Kinds(p, f, c, b, n) /\ Receiving(p, f, c) /\ Limited(p, f) /\ Listed(p, f, c)
  /\ Complete(p, f, c, b) /\ Bound(p, f, b, n)

Right(r) == Sound(pc[r], form[r], cur[r], bound[r], ops[r])

-----------------------------------------------------------------------------
(* Saves *)

\* A save works for a handler that waits, or for nobody.
Works(r) ==
  /\ task[r].open => task[r] # NoTask
  /\ pc[r] = "saving" =>
       /\ task[r] # NoTask /\ <<task[r].field, task[r].nth>> \in Uploads(r)
       /\ At(r, <<task[r].field, task[r].nth>>).id = task[r].id
       /\ At(r, <<task[r].field, task[r].nth>>).data = task[r].data
  /\ task[r] # NoTask =>
       /\ pc[r] \in {"saving", "done"} /\ task[r].path \in Path
       /\ task[r].data = Bytes(0, Len(task[r].data))
       /\ task[r].open => disk[task[r].path].by = r /\ disk[task[r].path].id = task[r].id

\* A save that returned Ok.
Rests(s) ==
  /\ disk[s[1]].by = s[2] /\ disk[s[1]].id = s[3]
  /\ disk[s[1]].data = Bytes(0, Len(disk[s[1]].data))
  /\ bound[s[2]] # <<>> => \E u \in Uploads(s[2]) :
       At(s[2], u).id = s[3] /\ Len(disk[s[1]].data) = At(s[2], u).size

\* Nobody has its destination open.
Guarded(s) ==
  /\ pc[s[2]] \in Handles \cup {"done"}
  /\ \A r \in Request : task[r].open => task[r].path # s[1]

UploadsInv ==
  /\ FormShape /\ SaveShape
  /\ \A r \in Request : Right(r) /\ Works(r)
  /\ \A s \in saved : Rests(s) /\ Guarded(s)

-----------------------------------------------------------------------------
(* Parts of sequences *)

\* The n-th position of a set of positions is one of them, in their order, and each of
\* them is the n-th for some n.
LEMMA Ranked ==
  ASSUME NEW m \in Nat, NEW I \in SUBSET (1 .. m)
  PROVE  /\ IsFiniteSet(I) /\ Cardinality(I) \in Nat
         /\ \A n \in 1 .. Cardinality(I) : Nth(I, n) \in I
         /\ \A i \in I : \E n \in 1 .. Cardinality(I) : Nth(I, n) = i
         /\ \A n, k \in 1 .. Cardinality(I) : n < k => Nth(I, n) < Nth(I, k)
<1> DEFINE UpTo(i) == {j \in I : j <= i}
           Rank(i) == Cardinality(UpTo(i))
           rank == [i \in I |-> Rank(i)]
<1>0. \A i \in I : i \in Int
  OBVIOUS
<1>1. IsFiniteSet(I) /\ Cardinality(I) \in Nat
  <2>1. IsFiniteSet(1 .. m)
    BY FS_Interval
  <2> QED BY <2>1, FS_Subset, FS_CardinalityType
<1>2. ASSUME NEW i \in I
      PROVE  IsFiniteSet(UpTo(i)) /\ Rank(i) \in 1 .. Cardinality(I)
  <2>1. IsFiniteSet(UpTo(i)) /\ Rank(i) <= Cardinality(I)
    <3>1. UpTo(i) \in SUBSET I
      OBVIOUS
    <3> QED BY <1>1, <3>1, FS_Subset
  <2>2. Rank(i) \in Nat
    BY <2>1, FS_CardinalityType
  <2>3. Rank(i) # 0
    <3>1. i \in UpTo(i)
      OBVIOUS
    <3> QED BY <2>1, <3>1, FS_EmptySet
  <2> QED BY <1>1, <2>1, <2>2, <2>3
<1>3. ASSUME NEW i \in I, NEW k \in I, i < k
      PROVE  Rank(i) < Rank(k)
  <2>1. UpTo(i) \in SUBSET UpTo(k) /\ UpTo(i) # UpTo(k)
    <3>1. k \in UpTo(k) /\ k \notin UpTo(i)
      BY <1>3
    <3>2. \A j \in I : j <= i => j <= k
      BY <1>0, <1>3
    <3>3. UpTo(i) \subseteq UpTo(k)
      BY <3>2
    <3> QED BY <3>1, <3>3
  <2>2. Rank(i) <= Rank(k) /\ Rank(i) # Rank(k)
    BY <1>2, <2>1, FS_Subset
  <2>3. Rank(i) \in Nat /\ Rank(k) \in Nat
    BY <1>2, FS_CardinalityType
  <2> HIDE DEF Rank
  <2> QED BY <2>2, <2>3
<1>4. \A n \in 1 .. Cardinality(I) : \E i \in I : Rank(i) = n
  <2>1. \A i, k \in I : Rank(i) = Rank(k) => i = k
    <3>1. \A i \in I : Rank(i) \in Nat
      BY <1>2, FS_CardinalityType
    <3> HIDE DEF Rank
    <3> QED BY <1>3, <3>1
  <2>2. rank \in Injection(I, 1 .. Cardinality(I))
    <3>1. \A i \in I : Rank(i) \in 1 .. Cardinality(I)
      BY <1>2
    <3> HIDE DEF Rank
    <3> QED BY <2>1, <3>1 DEF Injection, IsInjective
  <2>3. Cardinality(1 .. Cardinality(I)) = Cardinality(I) /\ IsFiniteSet(1 .. Cardinality(I))
    BY <1>1, FS_Interval
  <2>4. rank \in Surjection(I, 1 .. Cardinality(I))
    BY <2>2, <2>3, FS_Injection
  <2> HIDE DEF Rank
  <2> QED BY <2>4 DEF Surjection
<1>5. ASSUME NEW n \in 1 .. Cardinality(I)
      PROVE  Nth(I, n) \in I /\ Rank(Nth(I, n)) = n
  BY <1>4 DEF Nth
<1>6. \A i \in I : Rank(i) \in 1 .. Cardinality(I) /\ Rank(i) \in Nat
  BY <1>2, FS_CardinalityType
<1> HIDE DEF Rank
<1>7. ASSUME NEW i \in I
      PROVE  Nth(I, Rank(i)) = i
  <2>1. Nth(I, Rank(i)) \in I /\ Rank(Nth(I, Rank(i))) = Rank(i)
    BY <1>5, <1>6
  <2>2. \A j, k \in I : Rank(j) = Rank(k) => j = k
    BY <1>0, <1>3, <1>6
  <2> QED BY <2>1, <2>2
<1>8. ASSUME NEW n \in 1 .. Cardinality(I), NEW k \in 1 .. Cardinality(I), n < k
      PROVE  Nth(I, n) < Nth(I, k)
  <2>1. Nth(I, n) \in Int /\ Nth(I, k) \in Int
    BY <1>0, <1>5
  <2>2. ~(Nth(I, k) < Nth(I, n)) /\ Nth(I, k) # Nth(I, n)
    <3>1. /\ Nth(I, n) \in I /\ Rank(Nth(I, n)) = n /\ n \in Int
          /\ Nth(I, k) \in I /\ Rank(Nth(I, k)) = k /\ k \in Int
      BY <1>5
    <3>2. Nth(I, k) < Nth(I, n) => k < n
      BY <1>3, <3>1
    <3>3. ~(k < n) /\ k # n
      BY <1>8, <3>1
    <3> QED BY <3>1, <3>2, <3>3
  <2> QED BY <2>1, <2>2
<1> QED BY <1>1, <1>5, <1>6, <1>7, <1>8

\* t is what is picked of s at the positions I, in their order.
Picks(S, s, I, t) ==
  /\ t \in Seq(S) /\ (t = <<>> => I = {}) /\ (I = {} => t = <<>>)
  /\ \A n \in DOMAIN t : \E i \in I : t[n] = s[i]
  /\ \A i \in I : \E n \in DOMAIN t : t[n] = s[i]
  /\ \A n, k \in DOMAIN t : n < k => \E i, j \in I : i < j /\ t[n] = s[i] /\ t[k] = s[j]

\* Picking the elements at some positions of a sequence.
LEMMA Picked ==
  ASSUME NEW S, NEW s \in Seq(S), NEW I \in SUBSET DOMAIN s
  PROVE  Picks(S, s, I, Pick(s, I))
<1> DEFINE t == Pick(s, I)
           c == Cardinality(I)
<1>1. Len(s) \in Nat /\ I \in SUBSET (1 .. Len(s))
  OBVIOUS
<1>2. /\ c \in Nat /\ IsFiniteSet(I)
      /\ \A n \in 1 .. c : Nth(I, n) \in I
      /\ \A i \in I : \E n \in 1 .. c : Nth(I, n) = i
      /\ \A n, k \in 1 .. c : n < k => Nth(I, n) < Nth(I, k)
  BY <1>1, Ranked
<1>3. t = [n \in 1 .. c |-> s[Nth(I, n)]]
  BY DEF Pick
<1>4. \A n \in 1 .. c : s[Nth(I, n)] \in S
  BY <1>1, <1>2
<1>5. t \in Seq(S) /\ DOMAIN t = 1 .. c /\ Len(t) = c /\ \A n \in 1 .. c : t[n] = s[Nth(I, n)]
  <2> HIDE DEF c, t
  <2>1. [n \in 1 .. c |-> s[Nth(I, n)]] \in Seq(S)
    BY <1>2, <1>4
  <2> QED BY <1>2, <1>3, <2>1
<1>6. (t = <<>> => I = {}) /\ (I = {} => t = <<>>)
  <2>1. c = 0 <=> I = {}
    BY <1>2, FS_EmptySet
  <2> HIDE DEF c, t
  <2> QED BY <1>5, <2>1
<1> HIDE DEF c, t
<1>7. \A n \in DOMAIN t : \E i \in I : t[n] = s[i]
  BY <1>2, <1>5
<1>8. \A i \in I : \E n \in DOMAIN t : t[n] = s[i]
  BY <1>2, <1>5
<1>9. \A n, k \in DOMAIN t : n < k => \E i, j \in I : i < j /\ t[n] = s[i] /\ t[k] = s[j]
  BY <1>2, <1>5
<1>10. Picks(S, s, I, t)
  BY <1>5, <1>6, <1>7, <1>8, <1>9 DEF Picks
<1> QED BY <1>10 DEF t

\* What a run of bytes is.
LEMMA BytesOf ==
  ASSUME NEW m \in Nat, NEW k \in Nat
  PROVE  /\ Bytes(m, k) \in Seq(Nat) /\ Len(Bytes(m, k)) = k /\ DOMAIN Bytes(m, k) = 1 .. k
         /\ \A i \in 1 .. k : Bytes(m, k)[i] = m + i
BY DEF Bytes

\* More bytes of a file follow those that are there.
LEMMA BytesGrow ==
  ASSUME NEW x \in Seq(Nat), NEW y \in Seq(Nat), NEW m \in Nat, NEW k \in Nat,
         x \o y = Bytes(0, m)
  PROVE  x \o (y \o Bytes(m, k)) = Bytes(0, m + k)
<1> DEFINE new == Bytes(m, k)
           tail == y \o new
           grown == x \o tail
           all == Bytes(0, m + k)
<1>1. 0 \in Nat /\ m + k \in Nat
  OBVIOUS
<1>2. PICK p \in Nat, q \in Nat : p = Len(x) /\ q = Len(y)
  OBVIOUS
<1>3. /\ new \in Seq(Nat) /\ Len(new) = k
      /\ all \in Seq(Nat) /\ Len(all) = m + k
      /\ Len(Bytes(0, m)) = m
  BY <1>1, BytesOf
<1>4. /\ \A i \in 1 .. m : Bytes(0, m)[i] = i
      /\ \A i \in 1 .. k : new[i] = m + i
      /\ \A i \in 1 .. m + k : all[i] = i
  BY DEF Bytes
<1>5. m = p + q /\ \A i \in 1 .. m : Bytes(0, m)[i] = IF i <= p THEN x[i] ELSE y[i - p]
  BY <1>2, <1>3, ConcatProperties
<1> HIDE DEF new, all
<1>6. /\ tail \in Seq(Nat) /\ Len(tail) = q + k
      /\ \A i \in 1 .. q + k : tail[i] = IF i <= q THEN y[i] ELSE new[i - q]
  BY <1>2, <1>3, ConcatProperties
<1> HIDE DEF tail
<1>7. /\ grown \in Seq(Nat) /\ Len(grown) = p + (q + k)
      /\ \A i \in 1 .. p + (q + k) : grown[i] = IF i <= p THEN x[i] ELSE tail[i - p]
  <2>1. tail \in Seq(Nat) /\ Len(tail) = q + k
    BY <1>6
  <2>2. /\ grown \in Seq(Nat) /\ Len(grown) = Len(x) + Len(tail)
        /\ \A i \in 1 .. Len(x) + Len(tail) :
             grown[i] = IF i <= Len(x) THEN x[i] ELSE tail[i - Len(x)]
    BY <2>1, ConcatProperties
  <2> HIDE DEF grown
  <2> QED BY <1>2, <2>1, <2>2
<1> HIDE DEF grown
<1>8. m = p + q /\ p + (q + k) = m + k
  BY <1>5
<1>9. ASSUME NEW i \in 1 .. m + k
      PROVE  grown[i] = all[i]
  <2>1. CASE i <= p
    <3>1. i \in 1 .. m
      BY <1>8, <2>1
    <3> QED BY <1>4, <1>5, <1>7, <1>8, <2>1, <3>1
  <2>2. CASE p < i /\ i <= m
    <3>1. i \in 1 .. m /\ i - p \in 1 .. q + k /\ i - p <= q /\ ~(i <= p)
      BY <1>8, <2>2
    <3>2. grown[i] = tail[i - p] /\ tail[i - p] = y[i - p]
      BY <1>6, <1>7, <1>8, <3>1
    <3>3. Bytes(0, m)[i] = y[i - p] /\ Bytes(0, m)[i] = i /\ all[i] = i
      BY <1>4, <1>5, <3>1
    <3> QED BY <3>2, <3>3
  <2>3. CASE m < i
    <3>1. /\ i - p \in 1 .. q + k /\ ~(i - p <= q) /\ ~(i <= p)
          /\ (i - p) - q = i - m /\ i - m \in 1 .. k /\ m + (i - m) = i
      BY <1>8, <2>3
    <3>2. grown[i] = tail[i - p] /\ tail[i - p] = new[(i - p) - q]
      BY <1>6, <1>7, <1>8, <3>1
    <3>3. new[i - m] = m + (i - m) /\ all[i] = i
      BY <1>4, <3>1
    <3> QED BY <3>1, <3>2, <3>3
  <2> QED BY <1>8, <2>1, <2>2, <2>3
<1>10. grown = all
  BY <1>3, <1>7, <1>8, <1>9, SeqEqual
<1> QED BY <1>10 DEF grown, tail, new, all

\* The places of the bytes from m to n of the part i.
LEMMA BytePlaces ==
  ASSUME NEW i, NEW m \in Nat, NEW n \in Nat, m <= n + 1
  PROVE  IsFiniteSet({i} \X (m .. n)) /\ Cardinality({i} \X (m .. n)) = n + 1 - m
<1>1. IsFiniteSet(m .. n) /\ Cardinality(m .. n) = IF m > n THEN 0 ELSE n - m + 1
  BY FS_Interval
<1>2. Cardinality(m .. n) = n + 1 - m
  BY <1>1
<1>3. IsFiniteSet({i}) /\ Cardinality({i}) = 1
  BY FS_Singleton
<1>4. /\ IsFiniteSet({i} \X (m .. n))
      /\ Cardinality({i} \X (m .. n)) = Cardinality({i}) * Cardinality(m .. n)
  BY <1>1, <1>3, FS_Product
<1> QED BY <1>2, <1>3, <1>4

\* A merged limit is a number: the defaults leave none open.
LEMMA LimitNat ==
  ASSUME NEW l \in Limits PROVE Limit(l) \in Nat
BY UploadsAssumption DEF Limit

-----------------------------------------------------------------------------
(* Parts that are added, and the last one as it grows *)

\* t is s and one part more, x.
Adds(s, x, t) ==
  /\ t \in Seq(Parts) /\ Len(t) = Len(s) + 1 /\ DOMAIN t = DOMAIN s \cup {Len(s) + 1}
  /\ (\A i \in DOMAIN s : t[i] = s[i]) /\ t[Len(s) + 1] = x
  /\ IsFiniteSet(Held(t)) /\ Cardinality(Held(t)) = Cardinality(Held(s)) + x.size
  /\ Cardinality(FilesOf(t)) = Cardinality(FilesOf(s)) + (IF x.file THEN 1 ELSE 0)
  /\ Cardinality(FilesOf(s)) \in Nat
  /\ \A isFile \in BOOLEAN, n \in Name :
       Sent(t, isFile, n) = Sent(s, isFile, n) \cup
         IF x.file = isFile /\ x.name = n THEN {Len(s) + 1} ELSE {}

\* A part that comes adds its own bytes, to its own kind.
LEMMA PartAdded ==
  ASSUME NEW s \in Seq(Parts), NEW x \in Parts, IsFiniteSet(Held(s))
  PROVE  Adds(s, x, Append(s, x))
<1> DEFINE t == Append(s, x)
           e == Len(s) + 1
<1>1. /\ t \in Seq(Parts) /\ Len(t) = Len(s) + 1 /\ DOMAIN t = DOMAIN s \cup {e}
      /\ \A i \in DOMAIN s : t[i] = s[i]
      /\ t[e] = x /\ Len(s) \in Nat /\ DOMAIN s = 1 .. Len(s) /\ e \notin DOMAIN s
  OBVIOUS
<1>2. x.size \in Nat /\ x.file \in BOOLEAN
  BY DEF Parts
<1> HIDE DEF t, e
<1>3. IsFiniteSet(Held(t)) /\ Cardinality(Held(t)) = Cardinality(Held(s)) + x.size
  <2>1. Held(t) = Held(s) \cup ({e} \X (1 .. x.size))
    BY <1>1 DEF Held
  <2>2. Held(s) \cap ({e} \X (1 .. x.size)) = {}
    BY <1>1 DEF Held
  <2>3. IsFiniteSet({e} \X (1 .. x.size)) /\ Cardinality({e} \X (1 .. x.size)) = x.size
    <3>1. 1 \in Nat /\ 1 <= x.size + 1
      BY <1>2
    <3>2. /\ IsFiniteSet({e} \X (1 .. x.size))
          /\ Cardinality({e} \X (1 .. x.size)) = x.size + 1 - 1
      BY <1>2, <3>1, BytePlaces
    <3> QED BY <1>2, <3>2
  <2>4. /\ IsFiniteSet(Held(s) \cup ({e} \X (1 .. x.size)))
        /\ Cardinality(Held(s) \cup ({e} \X (1 .. x.size))) = Cardinality(Held(s)) + x.size - 0
    BY <2>2, <2>3, FS_Union, FS_EmptySet
  <2>5. Cardinality(Held(s)) \in Nat
    BY FS_CardinalityType
  <2> QED BY <1>2, <2>1, <2>4, <2>5
<1>4. /\ Cardinality(FilesOf(s)) \in Nat
      /\ Cardinality(FilesOf(t)) = Cardinality(FilesOf(s)) + (IF x.file THEN 1 ELSE 0)
  <2>1. IsFiniteSet(FilesOf(s)) /\ Cardinality(FilesOf(s)) \in Nat
    <3>1. IsFiniteSet(1 .. Len(s)) /\ FilesOf(s) \in SUBSET (1 .. Len(s))
      BY <1>1, FS_Interval DEF FilesOf
    <3> QED BY <3>1, FS_Subset, FS_CardinalityType
  <2>2. CASE x.file
    <3>1. FilesOf(t) = FilesOf(s) \cup {e} /\ e \notin FilesOf(s)
      BY <1>1, <2>2 DEF FilesOf
    <3> QED BY <2>1, <2>2, <3>1, FS_AddElement
  <2>3. CASE ~x.file
    <3>1. FilesOf(t) = FilesOf(s)
      BY <1>1, <2>3 DEF FilesOf
    <3> QED BY <2>1, <2>3, <3>1
  <2> QED BY <2>1, <2>2, <2>3
<1>5. ASSUME NEW isFile \in BOOLEAN, NEW n \in Name
      PROVE  Sent(t, isFile, n) = Sent(s, isFile, n) \cup
               IF x.file = isFile /\ x.name = n THEN {e} ELSE {}
  BY <1>1 DEF Sent
<1>6. Adds(s, x, t)
  BY <1>1, <1>3, <1>4, <1>5 DEF Adds, e
<1> QED BY <1>6 DEF t

\* t is s with k more bytes of part i.
Grows(s, i, k, t) ==
  /\ t \in Seq(Parts) /\ Len(t) = Len(s) /\ DOMAIN t = DOMAIN s
  /\ \A j \in DOMAIN s : j # i => t[j] = s[j]
  /\ t[i] = Part(s[i].name, s[i].file, s[i].size + k)
  /\ IsFiniteSet(Held(t)) /\ Cardinality(Held(t)) = Cardinality(Held(s)) + k
  /\ FilesOf(t) = FilesOf(s)
  /\ \A isFile \in BOOLEAN, n \in Name : Sent(t, isFile, n) = Sent(s, isFile, n)

\* A part that grows adds bytes and nothing else.
LEMMA PartGrown ==
  ASSUME NEW s \in Seq(Parts), NEW i \in DOMAIN s, NEW k \in Nat, IsFiniteSet(Held(s))
  PROVE  Grows(s, i, k, [s EXCEPT ![i].size = s[i].size + k])
<1> DEFINE t == [s EXCEPT ![i].size = s[i].size + k]
           a == s[i].size
<1>1. s[i] \in Parts /\ a \in Nat /\ a + k \in Nat /\ Len(s) \in Nat /\ i \in 1 .. Len(s)
  <2>1. s[i] \in Parts /\ Len(s) \in Nat /\ i \in 1 .. Len(s)
    OBVIOUS
  <2>2. a \in Nat
    BY <2>1 DEF Parts
  <2> QED BY <2>1, <2>2
<1>2. [s[i] EXCEPT !.size = a + k] = Part(s[i].name, s[i].file, a + k)
  BY <1>1 DEF Parts, Part
<1>3. Part(s[i].name, s[i].file, a + k) \in Parts
  BY <1>1 DEF Parts, Part
<1>4. /\ t \in Seq(Parts) /\ Len(t) = Len(s) /\ DOMAIN t = DOMAIN s
      /\ \A j \in DOMAIN s : j # i => t[j] = s[j]
      /\ t[i] = Part(s[i].name, s[i].file, a + k)
  <2>1. t = [s EXCEPT ![i] = Part(s[i].name, s[i].file, a + k)]
    BY <1>2
  <2> HIDE DEF t, a
  <2> QED BY <1>1, <1>3, <2>1
<1>5. t[i].file = s[i].file /\ t[i].name = s[i].name /\ t[i].size = a + k
  BY <1>4 DEF Part
<1> HIDE DEF t
<1>6. FilesOf(t) = FilesOf(s)
      /\ \A isFile \in BOOLEAN, n \in Name : Sent(t, isFile, n) = Sent(s, isFile, n)
  BY <1>4, <1>5 DEF FilesOf, Sent
<1>7. IsFiniteSet(Held(t)) /\ Cardinality(Held(t)) = Cardinality(Held(s)) + k
  <2> DEFINE new == {i} \X ((a + 1) .. (a + k))
  <2>1. Held(t) = Held(s) \cup new
    <3>1. 1 .. (a + k) = (1 .. a) \cup ((a + 1) .. (a + k))
      BY <1>1
    <3>2. \A j \in DOMAIN s : j # i => t[j].size = s[j].size
      BY <1>4
    <3> QED BY <1>4, <1>5, <3>1, <3>2 DEF Held
  <2>2. Held(s) \cap new = {}
    BY <1>1 DEF Held
  <2>3. IsFiniteSet(new) /\ Cardinality(new) = k
    <3> HIDE DEF a
    <3>1. PICK m \in Nat, n \in Nat : m = a + 1 /\ n = a + k
      BY <1>1
    <3>2. m <= n + 1 /\ n + 1 - m = k
      BY <1>1, <3>1
    <3>3. IsFiniteSet({i} \X (m .. n)) /\ Cardinality({i} \X (m .. n)) = n + 1 - m
      BY <3>2, BytePlaces
    <3> QED BY <3>1, <3>2, <3>3
  <2> HIDE DEF new
  <2>4. IsFiniteSet(Held(s) \cup new)
        /\ Cardinality(Held(s) \cup new) = Cardinality(Held(s)) + k - 0
    BY <2>2, <2>3, FS_Union, FS_EmptySet
  <2>5. Cardinality(Held(s)) \in Nat
    BY FS_CardinalityType
  <2> QED BY <2>1, <2>4, <2>5
<1>8. Grows(s, i, k, t)
  BY <1>4, <1>6, <1>7 DEF Grows
<1> QED BY <1>8 DEF t

-----------------------------------------------------------------------------
(* The form as it is parsed *)

\* A list of parts stays in order when a later one is appended.
LEMMA ListGrown ==
  ASSUME NEW s \in Seq(Texts \cup Files), NEW x \in Texts \cup Files,
         Ordered(s), \A i \in DOMAIN s : s[i].id < x.id
  PROVE  LET t == Append(s, x) IN
         /\ DOMAIN t = DOMAIN s \cup {Len(s) + 1} /\ t[Len(s) + 1] = x
         /\ \A i \in DOMAIN s : t[i] = s[i]
         /\ Ordered(t)
         /\ \A n \in Name : IdsOf(t, Named(t, n)) =
              IdsOf(s, Named(s, n)) \cup IF x.name = n THEN {x.id} ELSE {}
<1> DEFINE t == Append(s, x)
           e == Len(s) + 1
<1>1. /\ DOMAIN t = DOMAIN s \cup {e} /\ t[e] = x /\ \A i \in DOMAIN s : t[i] = s[i]
      /\ e \notin DOMAIN s /\ \A i \in DOMAIN s : i \in Int /\ i < e
      /\ e \in Int
  OBVIOUS
<1> HIDE DEF t, e
<1>2. Ordered(t)
  BY <1>1 DEF Ordered
<1>3. ASSUME NEW n \in Name
      PROVE  IdsOf(t, Named(t, n)) = IdsOf(s, Named(s, n)) \cup IF x.name = n THEN {x.id} ELSE {}
  <2>1. Named(t, n) = Named(s, n) \cup IF x.name = n THEN {e} ELSE {}
    BY <1>1 DEF Named
  <2>2. \A i \in Named(s, n) : t[i] = s[i]
    BY <1>1 DEF Named
  <2> QED BY <1>1, <2>1, <2>2 DEF IdsOf
<1> QED BY <1>1, <1>2, <1>3 DEF t, e

\* What is known of a list's entry while its part is left alone.
LEMMA StillSent ==
  ASSUME NEW s, NEW t, NEW x, x.id \in DOMAIN s => x.id \in DOMAIN t /\ t[x.id] = s[x.id]
  PROVE  (Told(s, x) => Told(t, x)) /\ (Whole(s, x) => Whole(t, x))
BY DEF Told, Whole

\* A text field that passes the checks.
LEMMA TextSound ==
  ASSUME NEW f, NEW c, NEW b, NEW ns, Sound("next", f, c, b, ns), NEW n \in Name, NEW k \in Chunk,
         Len(f.parts) + 1 <= Limit("fields"), f.total + k <= Limit("body"), k <= Limit("text")
  PROVE  Sound("next", WithText(f, n, k), c, b, ns)
<1> DEFINE g == WithText(f, n, k)
           x == Part(n, FALSE, k)
           e == Len(f.parts) + 1
           y == [name |-> n, id |-> e]
<1>1. /\ f \in Forms /\ f.parts \in Seq(Parts) /\ f.total \in Nat /\ f.texts \in Seq(Texts)
      /\ f.files \in Seq(Files) /\ k \in Nat /\ e \in Nat /\ b = <<>> /\ c = NoFile
      /\ Limit("fields") \in Nat
  <2>1. f \in Forms /\ k \in Nat
    BY UploadsAssumption DEF Sound, Kinds
  <2>2. b = <<>> /\ c = NoFile
    BY DEF Sound, Bound, Handles, Receiving, Receives
  <2>3. Limit("fields") \in Nat
    BY LimitNat DEF Limits
  <2> QED BY <2>1, <2>2, <2>3 DEF Forms
<1>2. x \in Parts /\ y \in Texts /\ x.size = k /\ x.file = FALSE /\ x.name = n
      /\ y.name = n /\ y.id = e
  BY <1>1 DEF Part, Parts, Texts
<1> HIDE DEF x, y, e
<1>3. /\ g = [f EXCEPT !.parts = Append(f.parts, x), !.total = f.total + k,
             !.texts = Append(f.texts, y)]
      /\ g \in Forms /\ g.parts = Append(f.parts, x) /\ g.total = f.total + k
      /\ g.texts = Append(f.texts, y) /\ g.files = f.files
  <2>1. g = [f EXCEPT !.parts = Append(f.parts, x), !.total = f.total + k,
             !.texts = Append(f.texts, y)]
    BY <1>1 DEF WithText, x, y, e, Forms
  <2>2. Append(f.parts, x) \in Seq(Parts) /\ f.total + k \in Nat
        /\ Append(f.texts, y) \in Seq(Texts)
    BY <1>1, <1>2
  <2> HIDE DEF g
  <2> QED BY <1>1, <2>1, <2>2 DEF Forms
<1> HIDE DEF g
<1>4. /\ IsFiniteSet(Held(f.parts)) /\ Cardinality(Held(f.parts)) = f.total
      /\ Cardinality(FilesOf(f.parts)) <= Limit("files")
      /\ Cardinality(FilesOf(f.parts)) = Len(f.files)
      /\ \A i \in DOMAIN f.parts :
           f.parts[i].size <= Limit(IF f.parts[i].file THEN "file" ELSE "text")
  BY DEF Sound, Limited
<1>5. /\ Len(g.parts) = e /\ DOMAIN g.parts = DOMAIN f.parts \cup {e}
      /\ (\A i \in DOMAIN f.parts : g.parts[i] = f.parts[i]) /\ g.parts[e] = x
      /\ IsFiniteSet(Held(g.parts)) /\ Cardinality(Held(g.parts)) = f.total + k
      /\ Cardinality(FilesOf(g.parts)) = Cardinality(FilesOf(f.parts))
      /\ \A m \in Name : /\ Sent(g.parts, TRUE, m) = Sent(f.parts, TRUE, m)
                         /\ Sent(g.parts, FALSE, m) = Sent(f.parts, FALSE, m) \cup
                              IF n = m THEN {e} ELSE {}
  <2>1. Adds(f.parts, x, g.parts)
    BY <1>1, <1>2, <1>3, <1>4, PartAdded
  <2>2. /\ Len(g.parts) = e /\ DOMAIN g.parts = DOMAIN f.parts \cup {e}
        /\ (\A i \in DOMAIN f.parts : g.parts[i] = f.parts[i]) /\ g.parts[e] = x
        /\ IsFiniteSet(Held(g.parts)) /\ Cardinality(Held(g.parts)) = f.total + k
    BY <1>2, <1>4, <2>1 DEF Adds, e
  <2>5. Cardinality(FilesOf(g.parts)) = Cardinality(FilesOf(f.parts))
    <3>1. /\ Cardinality(FilesOf(g.parts)) = Cardinality(FilesOf(f.parts)) +
             (IF x.file THEN 1 ELSE 0)
          /\ Cardinality(FilesOf(f.parts)) \in Nat
      BY <2>1 DEF Adds
    <3> QED BY <1>2, <3>1
  <2>3. \A isFile \in BOOLEAN, m \in Name :
          Sent(g.parts, isFile, m) = Sent(f.parts, isFile, m) \cup
            IF x.file = isFile /\ x.name = m THEN {e} ELSE {}
    BY <2>1 DEF Adds, e
  <2>4. \A m \in Name : /\ Sent(g.parts, TRUE, m) = Sent(f.parts, TRUE, m)
                        /\ Sent(g.parts, FALSE, m) = Sent(f.parts, FALSE, m) \cup
                             IF n = m THEN {e} ELSE {}
    BY <1>2, <2>3
  <2> QED BY <2>2, <2>4, <2>5
<1>6. DOMAIN f.parts = 1 .. Len(f.parts) /\ \A i \in DOMAIN f.parts : i < e
  BY <1>1 DEF e
<1>7. /\ Ordered(f.texts) /\ Ordered(f.files)
      /\ \A i \in DOMAIN f.texts : Told(f.parts, f.texts[i])
      /\ \A i \in DOMAIN f.files : Whole(f.parts, f.files[i])
  BY DEF Sound, Listed
<1>8. /\ DOMAIN g.texts = DOMAIN f.texts \cup {Len(f.texts) + 1} /\ g.texts[Len(f.texts) + 1] = y
      /\ \A i \in DOMAIN f.texts : g.texts[i] = f.texts[i]
      /\ Ordered(g.texts)
      /\ \A m \in Name : IdsOf(g.texts, Named(g.texts, m)) =
           IdsOf(f.texts, Named(f.texts, m)) \cup IF n = m THEN {e} ELSE {}
  <2>1. \A i \in DOMAIN f.texts : f.texts[i].id < y.id
    BY <1>2, <1>6, <1>7 DEF Told
  <2>2. f.texts \in Seq(Texts \cup Files) /\ y \in Texts \cup Files
    BY <1>1, <1>2
  <2> QED BY <1>2, <1>3, <1>7, <2>1, <2>2, ListGrown
<1>9. Kinds("next", g, c, b, ns) /\ Receiving("next", g, c) /\ Bound("next", g, b, ns)
  BY <1>1, <1>3 DEF Sound, Kinds, Receiving, Receives, Bound, Handles
<1>10. Limited("next", g)
  BY <1>2, <1>3, <1>4, <1>5, <1>6 DEF Limited, Receives, e
<1>11. Listed("next", g, c)
  <2>1. ASSUME NEW i \in DOMAIN g.texts PROVE Told(g.parts, g.texts[i])
    BY <1>2, <1>5, <1>7, <1>8 DEF Told
  <2>2. ASSUME NEW i \in DOMAIN g.files PROVE Whole(g.parts, g.files[i])
    <3>1. Whole(f.parts, g.files[i])
      BY <1>3, <1>7
    <3>2. g.files[i].id \in DOMAIN f.parts
      BY <3>1 DEF Whole
    <3> QED BY <1>5, <3>1, <3>2, StillSent
  <2> QED BY <1>3, <1>7, <1>8, <2>1, <2>2 DEF Listed, Waiting, Receives
<1>12. Complete("next", g, c, b)
  <2>1. ASSUME NEW m \in Name, Untaken(b, TRUE, m)
        PROVE  IdsOf(g.files, Named(g.files, m)) = Sent(g.parts, TRUE, m) \ {}
    <3>1. IdsOf(f.files, Named(f.files, m)) = Sent(f.parts, TRUE, m) \ {}
      BY <2>1 DEF Sound, Complete, Parses, Waiting, Receives
    <3> QED BY <1>3, <1>5, <3>1
  <2>2. ASSUME NEW m \in Name, Untaken(b, FALSE, m)
        PROVE  IdsOf(g.texts, Named(g.texts, m)) = Sent(g.parts, FALSE, m)
    <3>1. IdsOf(f.texts, Named(f.texts, m)) = Sent(f.parts, FALSE, m)
      BY <2>2 DEF Sound, Complete, Parses
    <3> QED BY <1>5, <1>8, <3>1
  <2> QED BY <2>1, <2>2 DEF Complete, Waiting, Receives
<1> QED BY <1>9, <1>10, <1>11, <1>12 DEF Sound, g

\* A file part that passes the checks begins, still without bytes.
LEMMA FileSound ==
  ASSUME NEW f, NEW c, NEW b, NEW ns, Sound("next", f, c, b, ns), NEW n \in Name,
         Len(f.parts) + 1 <= Limit("fields"), Len(f.files) < Limit("files")
  PROVE  Sound("file", [f EXCEPT !.parts = Append(@, Part(n, TRUE, 0))],
               [NoFile EXCEPT !.name = n, !.here = TRUE, !.id = Len(f.parts) + 1], b, ns)
<1> DEFINE x == Part(n, TRUE, 0)
           g == [f EXCEPT !.parts = Append(@, x)]
           e == Len(f.parts) + 1
           d == [NoFile EXCEPT !.name = n, !.here = TRUE, !.id = e]
<1>1. /\ f \in Forms /\ f.parts \in Seq(Parts) /\ f.total \in Nat /\ f.texts \in Seq(Texts)
      /\ f.files \in Seq(Files) /\ e \in Nat \ {0} /\ b = <<>>
      /\ Limit("files") \in Nat /\ Limit("file") \in Nat
  <2>1. f \in Forms /\ b = <<>>
    BY DEF Sound, Kinds, Bound, Handles
  <2>2. Limit("files") \in Nat /\ Limit("file") \in Nat
    BY LimitNat DEF Limits
  <2> QED BY <2>1, <2>2 DEF Forms
<1>2. x \in Parts /\ x.size = 0 /\ x.file = TRUE /\ x.name = n
  BY DEF Part, Parts
<1>3. /\ d \in Files /\ d.name = n /\ d.id = e /\ d.size = 0 /\ d.buf = <<>> /\ d.data = <<>>
      /\ d.here = TRUE
  <2> HIDE DEF e
  <2>1. NoFile \in Files
    BY DEF NoFile, Files
  <2>2. NoFile.size = 0 /\ NoFile.buf = <<>> /\ NoFile.data = <<>>
    BY DEF NoFile
  <2> QED BY <1>1, <2>1, <2>2 DEF Files
<1> HIDE DEF x, e, d
<1>4. /\ g \in Forms /\ g.parts = Append(f.parts, x) /\ g.total = f.total
      /\ g.texts = f.texts /\ g.files = f.files
  <2>1. Append(f.parts, x) \in Seq(Parts)
    BY <1>1, <1>2
  <2> QED BY <1>1, <2>1 DEF Forms
<1> HIDE DEF g
<1>5. /\ IsFiniteSet(Held(f.parts)) /\ Cardinality(Held(f.parts)) = f.total
      /\ f.total <= Limit("body")
      /\ Cardinality(FilesOf(f.parts)) = Len(f.files)
      /\ \A i \in DOMAIN f.parts :
           f.parts[i].size <= Limit(IF f.parts[i].file THEN "file" ELSE "text")
  BY DEF Sound, Limited
<1>6. Adds(f.parts, x, g.parts)
  BY <1>1, <1>2, <1>4, <1>5, PartAdded
<1>7. /\ Len(g.parts) = e /\ DOMAIN g.parts = DOMAIN f.parts \cup {e}
      /\ (\A i \in DOMAIN f.parts : g.parts[i] = f.parts[i]) /\ g.parts[e] = x
      /\ IsFiniteSet(Held(g.parts))
      /\ Cardinality(Held(g.parts)) = Cardinality(Held(f.parts)) + x.size
  BY <1>6 DEF Adds, e
<1>8. \A m \in Name : /\ Sent(g.parts, TRUE, m) = Sent(f.parts, TRUE, m) \cup
                           IF n = m THEN {e} ELSE {}
                      /\ Sent(g.parts, FALSE, m) = Sent(f.parts, FALSE, m)
  <2>1. \A isFile \in BOOLEAN, m \in Name :
          Sent(g.parts, isFile, m) = Sent(f.parts, isFile, m) \cup
            IF x.file = isFile /\ x.name = m THEN {e} ELSE {}
    BY <1>6 DEF Adds, e
  <2> QED BY <1>2, <2>1
<1>9. DOMAIN f.parts = 1 .. Len(f.parts) /\ \A i \in DOMAIN f.parts : i < e
  BY <1>1 DEF e
<1>10. /\ Ordered(f.texts) /\ Ordered(f.files)
       /\ \A i \in DOMAIN f.texts : Told(f.parts, f.texts[i])
       /\ \A i \in DOMAIN f.files : Whole(f.parts, f.files[i])
  BY DEF Sound, Listed
<1>11. Kinds("file", g, d, b, ns) /\ Bound("file", g, b, ns)
  BY <1>1, <1>3, <1>4 DEF Sound, Kinds, Bound, Handles, Phases, Parses, Receives
<1>12. Receiving("file", g, d)
  <2>1. <<>> \o <<>> = Bytes(0, 0) /\ Len(<<>>) = 0 /\ 0 < Flush
    BY UploadsAssumption DEF Bytes
  <2> QED BY <1>1, <1>2, <1>3, <1>7, <2>1 DEF Receiving, Receives, x
<1>13. Limited("file", g)
  <2>1. Cardinality(FilesOf(g.parts)) = Len(f.files) + 1
    <3>1. Cardinality(FilesOf(g.parts)) = Cardinality(FilesOf(f.parts)) + (IF x.file THEN 1 ELSE 0)
      BY <1>6 DEF Adds
    <3> QED BY <1>2, <1>5, <3>1
  <2>2. Len(f.files) + 1 <= Limit("files")
    BY <1>1
  <2>3. IsFiniteSet(Held(g.parts)) /\ Cardinality(Held(g.parts)) = f.total
    BY <1>1, <1>2, <1>5, <1>7
  <2>4. ASSUME NEW i \in DOMAIN g.parts
        PROVE  g.parts[i].size <= Limit(IF g.parts[i].file THEN "file" ELSE "text")
    <3>1. CASE i = e
      BY <1>1, <1>2, <1>7, <3>1
    <3>2. CASE i \in DOMAIN f.parts
      BY <1>5, <1>7, <3>2
    <3> QED BY <1>7, <3>1, <3>2
  <2>5. Len(g.parts) <= Limit("fields")
    BY <1>7 DEF e
  <2> QED BY <1>4, <1>5, <2>1, <2>2, <2>3, <2>4, <2>5 DEF Limited, Receives
<1>14. Listed("file", g, d)
  <2>1. ASSUME NEW i \in DOMAIN g.texts PROVE Told(g.parts, g.texts[i])
    <3>1. Told(f.parts, g.texts[i])
      BY <1>4, <1>10
    <3>2. g.texts[i].id \in DOMAIN f.parts
      BY <3>1 DEF Told
    <3> QED BY <1>7, <3>1, <3>2, StillSent
  <2>2. ASSUME NEW i \in DOMAIN g.files PROVE Whole(g.parts, g.files[i]) /\ g.files[i].id # e
    <3>1. Whole(f.parts, g.files[i])
      BY <1>4, <1>10
    <3>2. g.files[i].id \in DOMAIN f.parts
      BY <3>1 DEF Whole
    <3>3. Whole(g.parts, g.files[i])
      BY <1>7, <3>1, <3>2, StillSent
    <3>4. e \notin DOMAIN f.parts
      BY <1>9
    <3> QED BY <3>2, <3>3, <3>4
  <2> QED BY <1>3, <1>4, <1>10, <2>1, <2>2 DEF Listed, Waiting, Receives
<1>15. Complete("file", g, d, b)
  <2>1. ASSUME NEW m \in Name, Untaken(b, TRUE, m)
        PROVE  IdsOf(g.files, Named(g.files, m)) = Sent(g.parts, TRUE, m) \ {e}
    <3>1. IdsOf(f.files, Named(f.files, m)) = Sent(f.parts, TRUE, m) \ {}
      BY <2>1 DEF Sound, Complete, Parses, Waiting, Receives
    <3>2. e \notin Sent(f.parts, TRUE, m)
      BY <1>9 DEF Sent
    <3> QED BY <1>4, <1>8, <3>1, <3>2
  <2>2. ASSUME NEW m \in Name, Untaken(b, FALSE, m)
        PROVE  IdsOf(g.texts, Named(g.texts, m)) = Sent(g.parts, FALSE, m)
    <3>1. IdsOf(f.texts, Named(f.texts, m)) = Sent(f.parts, FALSE, m)
      BY <2>2 DEF Sound, Complete, Parses
    <3> QED BY <1>4, <1>8, <3>1
  <2> QED BY <1>3, <2>1, <2>2 DEF Complete, Waiting, Receives
<1>16. Sound("file", g, d, b, ns)
  BY <1>11, <1>12, <1>13, <1>14, <1>15 DEF Sound
<1> QED BY <1>16 DEF g, d, x, e

\* FileChunk: what is received, and the form that counts it.
Received(c, k)      == [c EXCEPT !.size = @ + k, !.buf = @ \o Bytes(c.size, k)]
Enlarged(f, k, c)   == [f EXCEPT !.total = @ + k, !.parts[c.id].size = c.size]

\* A chunk of a file that passes the checks.
LEMMA ChunkSound ==
  ASSUME NEW f, NEW c, NEW b, NEW ns, Sound("file", f, c, b, ns), NEW k \in Chunk,
         Received(c, k).size <= Limit("file"),
         Enlarged(f, k, Received(c, k)).total <= Limit("body")
  PROVE  LET d == Received(c, k) IN
         Sound(IF Len(d.buf) >= Flush THEN "flush" ELSE "file", Enlarged(f, k, d), d, b, ns)
<1> DEFINE d == Received(c, k)
           g == Enlarged(f, k, d)
           p == IF Len(d.buf) >= Flush THEN "flush" ELSE "file"
<1>0. d.size <= Limit("file") /\ g.total <= Limit("body")
  OBVIOUS
<1> HIDE DEF d, g, p
<1>1. /\ f \in Forms /\ f.parts \in Seq(Parts) /\ f.total \in Nat /\ f.texts \in Seq(Texts)
      /\ f.files \in Seq(Files) /\ b = <<>> /\ c \in Files /\ k \in Nat
      /\ c.size \in Nat /\ c.buf \in Seq(Nat) /\ c.data \in Seq(Nat) /\ c.id \in Nat
      /\ Limit("file") \in Nat
  <2>1. f \in Forms /\ b = <<>> /\ c \in Files /\ k \in Nat
    BY UploadsAssumption DEF Sound, Kinds, Bound, Handles
  <2>2. Limit("file") \in Nat
    BY LimitNat DEF Limits
  <2> QED BY <2>1, <2>2 DEF Forms, Files
<1>2. /\ c.id = Len(f.parts) /\ c.id > 0 /\ f.parts[c.id] = Part(c.name, TRUE, c.size)
      /\ c.data \o c.buf = Bytes(0, c.size) /\ c.here
      /\ Len(c.buf) < Flush
  BY DEF Sound, Receiving, Receives
<1>3. c.id \in DOMAIN f.parts
  BY <1>1, <1>2
<1>4. PICK x \in Seq(Nat), y \in Seq(Nat), sent \in Nat : x = c.data /\ y = c.buf /\ sent = c.size
  BY <1>1
<1>5. PICK z \in Seq(Nat), l \in Nat :
        /\ z = c.buf \o Bytes(c.size, k) /\ c.data \o z = Bytes(0, c.size + k)
        /\ l = Len(c.buf) /\ Len(z) = l + k
  <2>1. Bytes(sent, k) \in Seq(Nat) /\ Len(Bytes(sent, k)) = k
    BY <1>1, BytesOf
  <2>2. x \o y = Bytes(0, sent)
    BY <1>2, <1>4
  <2>3. x \o (y \o Bytes(sent, k)) = Bytes(0, sent + k)
    <3>1. k \in Nat
      BY <1>1
    <3> QED BY <2>2, <3>1, BytesGrow
  <2>4. y \o Bytes(sent, k) \in Seq(Nat) /\ Len(y \o Bytes(sent, k)) = Len(y) + Len(Bytes(sent, k))
    BY <2>1, ConcatProperties
  <2>5. Len(y) \in Nat
    OBVIOUS
  <2> QED BY <1>4, <2>1, <2>3, <2>4, <2>5
<1>6. /\ d \in Files /\ d.name = c.name /\ d.id = c.id /\ d.size = c.size + k
      /\ d.buf = z /\ d.data = c.data /\ d.here
  <2>1. d = [c EXCEPT !.size = c.size + k, !.buf = z]
    BY <1>5 DEF Received, d
  <2>2. c.size + k \in Nat
    BY <1>1
  <2> QED BY <1>1, <1>2, <1>5, <2>1, <2>2 DEF Files
<1>7. f.parts[c.id].size = c.size /\ f.parts[c.id].name = c.name /\ f.parts[c.id].file = TRUE
  BY <1>2 DEF Part
<1>8. /\ g = [f EXCEPT !.total = f.total + k,
                       !.parts = [f.parts EXCEPT ![c.id].size = f.parts[c.id].size + k]]
      /\ [f.parts EXCEPT ![c.id].size = f.parts[c.id].size + k] \in Seq(Parts)
  <2>1. g = [f EXCEPT !.total = f.total + k, !.parts = [f.parts EXCEPT ![c.id].size = c.size + k]]
    BY <1>1, <1>6 DEF Forms, Enlarged, g
  <2>2. IsFiniteSet(Held(f.parts))
    BY DEF Sound, Limited
  <2>3. Grows(f.parts, c.id, k, [f.parts EXCEPT ![c.id].size = f.parts[c.id].size + k])
    BY <1>1, <1>3, <2>2, PartGrown
  <2> QED BY <1>7, <2>1, <2>3 DEF Grows
<1>9. /\ g \in Forms /\ g.total = f.total + k /\ g.texts = f.texts /\ g.files = f.files
      /\ g.parts = [f.parts EXCEPT ![c.id].size = f.parts[c.id].size + k]
  <2>1. PICK t \in Seq(Parts) :
          /\ t = [f.parts EXCEPT ![c.id].size = f.parts[c.id].size + k]
          /\ g = [f EXCEPT !.total = f.total + k, !.parts = t]
    BY <1>8
  <2>2. f.total + k \in Nat
    BY <1>1
  <2>3. g.parts = t /\ g.total = f.total + k /\ g.texts = f.texts /\ g.files = f.files
        /\ g \in Forms
    BY <1>1, <2>1, <2>2 DEF Forms
  <2> QED BY <2>1, <2>3
<1>10. /\ IsFiniteSet(Held(f.parts)) /\ Cardinality(Held(f.parts)) = f.total
       /\ Len(f.parts) <= Limit("fields")
       /\ Cardinality(FilesOf(f.parts)) <= Limit("files")
       /\ Cardinality(FilesOf(f.parts)) = Len(f.files) + 1
       /\ \A i \in DOMAIN f.parts :
            f.parts[i].size <= Limit(IF f.parts[i].file THEN "file" ELSE "text")
  BY DEF Sound, Limited, Receives
<1>11. Grows(f.parts, c.id, k, g.parts)
  <2>1. f.parts \in Seq(Parts) /\ IsFiniteSet(Held(f.parts))
    BY <1>1, <1>10
  <2>2. Grows(f.parts, c.id, k, [f.parts EXCEPT ![c.id].size = f.parts[c.id].size + k])
    BY <1>1, <1>3, <2>1, PartGrown
  <2> QED BY <1>9, <2>2
<1>12. /\ Len(g.parts) = Len(f.parts) /\ DOMAIN g.parts = DOMAIN f.parts
       /\ \A j \in DOMAIN f.parts : j # c.id => g.parts[j] = f.parts[j]
       /\ g.parts[c.id] = Part(c.name, TRUE, c.size + k)
       /\ IsFiniteSet(Held(g.parts)) /\ Cardinality(Held(g.parts)) = f.total + k
       /\ FilesOf(g.parts) = FilesOf(f.parts)
  BY <1>7, <1>10, <1>11 DEF Grows
<1>13. \A m \in Name : /\ Sent(g.parts, TRUE, m) = Sent(f.parts, TRUE, m)
                       /\ Sent(g.parts, FALSE, m) = Sent(f.parts, FALSE, m)
  BY <1>11 DEF Grows
<1>14. p \in Receives /\ (p = "file" => Len(d.buf) < Flush)
  <2>1. Len(d.buf) = l + k /\ Flush \in Nat
    BY <1>5, <1>6, UploadsAssumption
  <2> QED BY <1>1, <2>1 DEF Receives, p
<1>15. Len(d.buf) < Flush + k
  <2>1. Len(d.buf) = l + k /\ l < Flush /\ Flush \in Nat
    BY <1>2, <1>5, <1>6, UploadsAssumption
  <2> QED BY <1>1, <2>1
<1>16. Kinds(p, g, d, b, ns) /\ Bound(p, g, b, ns)
  BY <1>1, <1>6, <1>9, <1>14 DEF Sound, Kinds, Bound, Handles, Phases, Parses, Receives
<1>17. Receiving(p, g, d)
  BY <1>2, <1>5, <1>6, <1>12, <1>14, <1>15 DEF Receiving, Receives
<1>18. Limited(p, g)
  <2>1. ASSUME NEW i \in DOMAIN g.parts
        PROVE  g.parts[i].size <= Limit(IF g.parts[i].file THEN "file" ELSE "text")
    <3>1. CASE i = c.id
      BY <1>0, <1>6, <1>12, <3>1 DEF Part
    <3>2. CASE i # c.id
      BY <1>10, <1>12, <3>2
    <3> QED BY <3>1, <3>2
  <2> QED BY <1>0, <1>9, <1>10, <1>12, <1>14, <2>1 DEF Limited, Receives
<1>19. Listed(p, g, d)
  <2>1. /\ Ordered(f.texts) /\ Ordered(f.files)
        /\ \A i \in DOMAIN f.texts : Told(f.parts, f.texts[i])
        /\ \A i \in DOMAIN f.files : Whole(f.parts, f.files[i]) /\ f.files[i].id # c.id
    BY DEF Sound, Listed, Waiting, Receives
  <2>2. ASSUME NEW i \in DOMAIN g.texts PROVE Told(g.parts, g.texts[i])
    <3>1. Told(f.parts, g.texts[i])
      BY <1>9, <2>1
    <3>2. g.texts[i].id \in DOMAIN f.parts /\ g.texts[i].id # c.id
      BY <1>7, <3>1 DEF Told
    <3> QED BY <1>12, <3>1, <3>2, StillSent
  <2>3. ASSUME NEW i \in DOMAIN g.files PROVE Whole(g.parts, g.files[i]) /\ g.files[i].id # c.id
    <3>1. Whole(f.parts, g.files[i]) /\ g.files[i].id # c.id
      BY <1>9, <2>1
    <3>2. g.files[i].id \in DOMAIN f.parts
      BY <3>1 DEF Whole
    <3> QED BY <1>12, <3>1, <3>2, StillSent
  <2> QED BY <1>6, <1>9, <1>14, <2>1, <2>2, <2>3 DEF Listed, Waiting
<1>20. Complete(p, g, d, b)
  <2>1. \A m \in Name :
          /\ Untaken(b, TRUE, m) =>
               IdsOf(f.files, Named(f.files, m)) = Sent(f.parts, TRUE, m) \ {c.id}
          /\ Untaken(b, FALSE, m) => IdsOf(f.texts, Named(f.texts, m)) = Sent(f.parts, FALSE, m)
    BY DEF Sound, Complete, Parses, Waiting, Receives
  <2> QED BY <1>6, <1>9, <1>13, <1>14, <2>1 DEF Complete, Waiting
<1> QED BY <1>16, <1>17, <1>18, <1>19, <1>20 DEF Sound, p, d, g

\* A flush moves bytes from the buffer to the spool.
LEMMA FlushedOK ==
  ASSUME NEW c \in Files
  PROVE  /\ Flushed(c) \in Files /\ Flushed(c).buf = <<>> /\ Flushed(c).data = c.data \o c.buf
         /\ Flushed(c).name = c.name /\ Flushed(c).id = c.id /\ Flushed(c).size = c.size
         /\ Flushed(c).here = c.here
<1>1. PICK z \in Seq(Nat) : z = c.data \o c.buf
  <2>1. c.data \in Seq(Nat) /\ c.buf \in Seq(Nat)
    BY DEF Files
  <2>2. c.data \o c.buf \in Seq(Nat)
    BY <2>1, ConcatProperties
  <2> QED BY <2>2
<1>2. Len(z) \in Nat /\ <<>> \in Seq(Nat)
  OBVIOUS
<1>3. Flushed(c) = [c EXCEPT !.data = z, !.buf = <<>>, !.pos = Len(z)]
  BY <1>1 DEF Flushed
<1> QED BY <1>1, <1>2, <1>3 DEF Files

\* The buffer is flushed in the middle of a part.
LEMMA FlushSound ==
  ASSUME NEW f, NEW c, NEW b, NEW ns, Sound("flush", f, c, b, ns)
  PROVE  Sound("file", f, Flushed(c), b, ns)
<1> DEFINE d == Flushed(c)
<1>1. c \in Files /\ c.id = Len(f.parts) /\ c.id > 0 /\ c.here
      /\ f.parts[c.id] = Part(c.name, TRUE, c.size) /\ c.data \o c.buf = Bytes(0, c.size)
  BY DEF Sound, Kinds, Receiving, Receives
<1>2. /\ d \in Files /\ d.buf = <<>> /\ d.data = c.data \o c.buf /\ d.name = c.name
      /\ d.id = c.id /\ d.size = c.size /\ d.here = c.here
  BY <1>1, FlushedOK
<1> HIDE DEF d
<1>3. Kinds("file", f, d, b, ns)
  BY <1>2 DEF Sound, Kinds, Phases, Parses, Receives
<1>4. Receiving("file", f, d)
  <2>1. PICK z \in Seq(Nat) : z = d.data
    BY <1>2 DEF Files
  <2>2. z \o <<>> = z /\ Len(<<>>) = 0 /\ 0 < Flush
    BY UploadsAssumption
  <2> QED BY <1>1, <1>2, <2>1, <2>2 DEF Receiving, Receives
<1>5. Limited("file", f)
  BY DEF Sound, Limited, Receives
<1>6. Listed("file", f, d)
  BY <1>2 DEF Sound, Listed, Waiting, Receives
<1>7. Complete("file", f, d, b)
  BY <1>2 DEF Sound, Complete, Waiting, Receives, Parses
<1>8. Bound("file", f, b, ns)
  BY DEF Sound, Bound, Handles
<1> QED BY <1>3, <1>4, <1>5, <1>6, <1>7, <1>8 DEF Sound, d

\* The part is complete: what it holds is what was sent.
LEMMA FileEndSound ==
  ASSUME NEW f, NEW c, NEW b, NEW ns, Sound("file", f, c, b, ns)
  PROVE  Sound("next", [f EXCEPT !.files = Append(@, [Flushed(c) EXCEPT !.pos = 0])],
               NoFile, b, ns)
<1> DEFINE x == [Flushed(c) EXCEPT !.pos = 0]
           g == [f EXCEPT !.files = Append(@, x)]
<1>1. /\ c \in Files /\ c.id = Len(f.parts) /\ c.id > 0 /\ c.here = TRUE
      /\ f.parts[c.id] = Part(c.name, TRUE, c.size) /\ c.data \o c.buf = Bytes(0, c.size)
      /\ f \in Forms /\ b = <<>>
  BY DEF Sound, Kinds, Receiving, Receives, Bound, Handles, Files
<1>2. f.parts \in Seq(Parts) /\ f.files \in Seq(Files) /\ f.total \in Nat /\ f.texts \in Seq(Texts)
  BY <1>1 DEF Forms
<1>3. /\ x \in Files /\ x.data = Bytes(0, c.size) /\ x.name = c.name /\ x.pos = 0
      /\ x.id = c.id /\ x.size = c.size /\ x.here = TRUE
  BY <1>1, FlushedOK DEF Files
<1> HIDE DEF x
<1>4. /\ g \in Forms /\ g.files = Append(f.files, x) /\ g.parts = f.parts /\ g.total = f.total
      /\ g.texts = f.texts
  <2>1. Append(f.files, x) \in Seq(Files)
    BY <1>2, <1>3
  <2> QED BY <1>1, <1>2, <2>1 DEF Forms
<1> HIDE DEF g
<1>5. DOMAIN f.parts = 1 .. Len(f.parts) /\ c.id \in DOMAIN f.parts /\ x.name = c.name
      /\ \A i \in DOMAIN f.parts : i # c.id => i < c.id
  BY <1>1, <1>2, <1>3 DEF Files
<1>6. /\ Ordered(f.texts) /\ Ordered(f.files)
      /\ \A i \in DOMAIN f.texts : Told(f.parts, f.texts[i])
      /\ \A i \in DOMAIN f.files : Whole(f.parts, f.files[i]) /\ f.files[i].id # c.id
  BY DEF Sound, Listed, Waiting, Receives
<1>7. /\ DOMAIN g.files = DOMAIN f.files \cup {Len(f.files) + 1} /\ g.files[Len(f.files) + 1] = x
      /\ \A i \in DOMAIN f.files : g.files[i] = f.files[i]
      /\ Ordered(g.files)
      /\ \A m \in Name : IdsOf(g.files, Named(g.files, m)) =
           IdsOf(f.files, Named(f.files, m)) \cup IF x.name = m THEN {x.id} ELSE {}
  <2>1. \A i \in DOMAIN f.files : f.files[i].id < x.id
    BY <1>3, <1>5, <1>6 DEF Whole
  <2>2. f.files \in Seq(Texts \cup Files) /\ x \in Texts \cup Files
    BY <1>2, <1>3
  <2> QED BY <1>4, <1>6, <2>1, <2>2, ListGrown
<1>8. Kinds("next", g, NoFile, b, ns)
  <2>1. NoFile \in Files
    BY DEF NoFile, Files
  <2> QED BY <1>4, <2>1 DEF Sound, Kinds, Phases, Parses
<1>9. Receiving("next", g, NoFile) /\ Bound("next", g, b, ns)
  BY <1>1 DEF Receiving, Receives, Bound, Handles
<1>10. Limited("next", g)
  <2>1. Len(g.files) = Len(f.files) + 1
    BY <1>2, <1>3, <1>4
  <2> QED BY <1>4, <2>1 DEF Sound, Limited, Receives
<1>11. Listed("next", g, NoFile)
  <2>1. Whole(f.parts, x)
    BY <1>1, <1>3, <1>5 DEF Whole
  <2>2. ASSUME NEW i \in DOMAIN g.files PROVE Whole(g.parts, g.files[i])
    BY <1>4, <1>6, <1>7, <2>1
  <2> QED BY <1>4, <1>6, <1>7, <2>2 DEF Listed, Waiting, Receives
<1>12. Complete("next", g, NoFile, b)
  <2>1. ASSUME NEW m \in Name, Untaken(b, TRUE, m)
        PROVE  IdsOf(g.files, Named(g.files, m)) = Sent(g.parts, TRUE, m) \ {}
    <3>1. IdsOf(f.files, Named(f.files, m)) = Sent(f.parts, TRUE, m) \ {c.id}
      BY <2>1 DEF Sound, Complete, Parses, Waiting, Receives
    <3>2. c.id \in Sent(f.parts, TRUE, m) <=> c.name = m
      BY <1>1, <1>5 DEF Sent, Part
    <3>3. /\ IdsOf(g.files, Named(g.files, m)) =
               IdsOf(f.files, Named(f.files, m)) \cup IF c.name = m THEN {c.id} ELSE {}
          /\ g.parts = f.parts
      BY <1>3, <1>4, <1>7
    <3>4. CASE c.name = m
      BY <3>1, <3>2, <3>3, <3>4
    <3>5. CASE c.name # m
      BY <3>1, <3>2, <3>3, <3>5
    <3> QED BY <3>4, <3>5
  <2>2. ASSUME NEW m \in Name, Untaken(b, FALSE, m)
        PROVE  IdsOf(g.texts, Named(g.texts, m)) = Sent(g.parts, FALSE, m)
    <3>1. IdsOf(f.texts, Named(f.texts, m)) = Sent(f.parts, FALSE, m)
      BY <2>2 DEF Sound, Complete, Parses, Receives
    <3> QED BY <1>4, <3>1
  <2> QED BY <2>1, <2>2 DEF Complete, Waiting, Receives
<1>13. Sound("next", g, NoFile, b, ns)
  BY <1>8, <1>9, <1>10, <1>11, <1>12 DEF Sound
<1> QED BY <1>13 DEF g, x

\* The first line is behind it, or the last part.
LEMMA MovedSound ==
  ASSUME NEW f, NEW c, NEW b, NEW ns, NEW p, NEW q, Sound(p, f, c, b, ns),
         <<p, q>> \in {<<"head", "next">>, <<"next", "bind">>}
  PROVE  Sound(q, f, c, b, ns)
<1>1. /\ p \in {"head", "next"} /\ q \in {"next", "bind"} /\ p = "head" => q = "next"
  OBVIOUS
<1>2. b = <<>>
  BY <1>1 DEF Sound, Bound, Handles
<1>3. Kinds(q, f, c, b, ns) /\ Receiving(q, f, c) /\ Listed(q, f, c)
  BY <1>1 DEF Sound, Kinds, Receiving, Receives, Listed, Waiting, Phases, Parses
<1>4. Limited(q, f)
  BY <1>1 DEF Sound, Limited, Receives
<1>5. Complete(q, f, c, b)
  BY <1>1 DEF Sound, Complete, Receives, Waiting, Parses
<1>6. Bound(q, f, b, ns)
  BY <1>1, <1>2 DEF Bound, Handles
<1> QED BY <1>3, <1>4, <1>5, <1>6 DEF Sound

-----------------------------------------------------------------------------
(* The fields of the struct *)

\* A field takes t of the list s and leaves u.
Splits(S, s, fld, t, u) ==
  /\ t \in Seq(S) /\ Ordered(t) /\ \A n \in DOMAIN t : \E i \in DOMAIN s : t[n] = s[i]
  /\ u \in Seq(S) /\ Ordered(u) /\ \A n \in DOMAIN u : \E i \in DOMAIN s : u[n] = s[i]
  /\ IdsOf(t, DOMAIN t) = IF fld.many THEN IdsOf(s, Named(s, fld.name))
                          ELSE Earliest(IdsOf(s, Named(s, fld.name)))
  /\ \A m : m # fld.name => IdsOf(u, Named(u, m)) = IdsOf(s, Named(s, m))

\* What a field takes of a list and what it leaves make up the list.
LEMMA TakenList ==
  ASSUME NEW S, \A x \in S : x.id \in Nat, NEW s \in Seq(S), Ordered(s), NEW fld
  PROVE  Splits(S, s, fld, Taken(s, fld), Remaining(s, fld))
<1> DEFINE A == TakenAt(s, fld)
           N == Named(s, fld.name)
           B == DOMAIN s \ A
           t == Pick(s, A)
           u == Pick(s, B)
<1>1. /\ A \in SUBSET DOMAIN s /\ A \subseteq N /\ B \in SUBSET DOMAIN s
      /\ \A i \in DOMAIN s : i \in Int /\ s[i].id \in Int
      /\ \A i \in N : i \in DOMAIN s /\ s[i].name = fld.name
  <2>1. \A i \in DOMAIN s : i \in Int /\ s[i] \in S
    OBVIOUS
  <2>2. A \subseteq N /\ N \subseteq DOMAIN s /\ \A i \in N : s[i].name = fld.name
    BY DEF TakenAt, Earliest, Named
  <2> QED BY <2>1, <2>2
<1>2. A = IF fld.many THEN N ELSE Earliest(N)
  BY DEF TakenAt
<1> HIDE DEF A, N, t, u
<1>3. /\ t \in Seq(S)
      /\ \A n \in DOMAIN t : \E i \in A : t[n] = s[i]
      /\ \A i \in A : \E n \in DOMAIN t : t[n] = s[i]
      /\ \A n, k \in DOMAIN t : n < k => \E i, j \in A : i < j /\ t[n] = s[i] /\ t[k] = s[j]
  <2>1. Picks(S, s, A, t)
    BY <1>1, Picked DEF t
  <2> QED BY <2>1 DEF Picks
<1>4. /\ u \in Seq(S)
      /\ \A n \in DOMAIN u : \E i \in B : u[n] = s[i]
      /\ \A i \in B : \E n \in DOMAIN u : u[n] = s[i]
      /\ \A n, k \in DOMAIN u : n < k => \E i, j \in B : i < j /\ u[n] = s[i] /\ u[k] = s[j]
  <2>1. Picks(S, s, B, u)
    BY <1>1, Picked DEF u
  <2> QED BY <2>1 DEF Picks
<1>5. Ordered(t)
  <2>1. ASSUME NEW n \in DOMAIN t, NEW k \in DOMAIN t, n < k
        PROVE  t[n].id < t[k].id
    <3>1. PICK i \in A, j \in A : i < j /\ t[n] = s[i] /\ t[k] = s[j]
      BY <1>3, <2>1
    <3>2. i \in DOMAIN s /\ j \in DOMAIN s
      BY <1>1
    <3> QED BY <3>1, <3>2 DEF Ordered
  <2> QED BY <2>1 DEF Ordered
<1>6. Ordered(u)
  <2>1. ASSUME NEW n \in DOMAIN u, NEW k \in DOMAIN u, n < k
        PROVE  u[n].id < u[k].id
    <3>1. PICK i \in B, j \in B : i < j /\ u[n] = s[i] /\ u[k] = s[j]
      BY <1>4, <2>1
    <3>2. i \in DOMAIN s /\ j \in DOMAIN s
      BY <1>1
    <3> QED BY <3>1, <3>2 DEF Ordered
  <2> QED BY <2>1 DEF Ordered
<1>7. IdsOf(t, DOMAIN t) = IdsOf(s, A)
  <2>1. /\ \A n \in DOMAIN t : \E i \in A : t[n].id = s[i].id
        /\ \A i \in A : \E n \in DOMAIN t : t[n].id = s[i].id
    BY <1>3
  <2> QED BY <2>1 DEF IdsOf
<1>8. IdsOf(s, Earliest(N)) = Earliest(IdsOf(s, N))
  <2>1. \A i, j \in N : i <= j <=> s[i].id <= s[j].id
    BY <1>1 DEF Ordered
  <2> QED BY <1>1, <2>1 DEF IdsOf, Earliest
<1>9. ASSUME NEW m, m # fld.name
      PROVE  IdsOf(u, Named(u, m)) = IdsOf(s, Named(s, m))
  <2>1. \A i \in Named(s, m) : i \in B
    BY <1>1, <1>9 DEF Named
  <2>2. ASSUME NEW i \in Named(s, m) PROVE \E n \in Named(u, m) : u[n] = s[i]
    BY <1>4, <2>1 DEF Named
  <2>3. ASSUME NEW n \in Named(u, m) PROVE \E i \in Named(s, m) : u[n] = s[i]
    BY <1>1, <1>4 DEF Named
  <2> QED BY <2>2, <2>3 DEF IdsOf
<1>10. IdsOf(t, DOMAIN t) = IF fld.many THEN IdsOf(s, N) ELSE Earliest(IdsOf(s, N))
  BY <1>2, <1>7, <1>8
<1>11. Taken(s, fld) = t /\ Remaining(s, fld) = u
  BY DEF Taken, Remaining, t, u, A
<1>12. /\ \A n \in DOMAIN t : \E i \in DOMAIN s : t[n] = s[i]
       /\ \A n \in DOMAIN u : \E i \in DOMAIN s : u[n] = s[i]
  BY <1>1, <1>3, <1>4
<1> HIDE DEF B
<1>13. Splits(S, s, fld, t, u)
  BY <1>3, <1>4, <1>5, <1>6, <1>9, <1>10, <1>12 DEF Splits, N
<1> QED BY <1>11, <1>13

\* Validation rewinds files, at most.
LEMMA Validated ==
  ASSUME NEW fld, fld.file, NEW s \in Seq(Files)
  PROVE  LET v == Validate(fld, s) IN
         /\ v \in Seq(Files) /\ DOMAIN v = DOMAIN s /\ (v = <<>> => s = <<>>)
         /\ IdsOf(v, DOMAIN v) = IdsOf(s, DOMAIN s) /\ (Ordered(s) => Ordered(v))
         /\ \A parts : \A j \in DOMAIN s : Whole(parts, s[j]) => Whole(parts, v[j])
<1> DEFINE v == [i \in 1 .. Len(s) |-> Sniffed(s[i], fld)]
<1>1. Validate(fld, s) = v
  BY DEF Validate
<1>2. ASSUME NEW x \in Files
      PROVE  LET y == Sniffed(x, fld) IN
             /\ y \in Files /\ y.id = x.id
             /\ \A parts : Whole(parts, x) => Whole(parts, y)
  <2>1. CASE Sniffed(x, fld) = x
    BY <2>1
  <2>2. CASE Sniffed(x, fld) = [x EXCEPT !.pos = 0]
    <3> DEFINE y == [x EXCEPT !.pos = 0]
    <3>1. /\ y \in Files /\ y.id = x.id /\ y.name = x.name /\ y.size = x.size
          /\ y.data = x.data /\ y.pos = 0 /\ y.here = x.here
      BY DEF Files
    <3> HIDE DEF y
    <3>2. \A parts : Whole(parts, x) => Whole(parts, y)
      BY <3>1 DEF Whole
    <3>3. Sniffed(x, fld) = y
      BY <2>2 DEF y
    <3> QED BY <3>1, <3>2, <3>3
  <2> QED BY <2>1, <2>2 DEF Sniffed
<1>3. \A i \in 1 .. Len(s) : s[i] \in Files
  OBVIOUS
<1>4. Len(s) \in Nat /\ DOMAIN s = 1 .. Len(s)
  OBVIOUS
<1>5. v \in Seq(Files) /\ DOMAIN v = 1 .. Len(s) /\ Len(v) = Len(s)
  <2>1. \A i \in 1 .. Len(s) : Sniffed(s[i], fld) \in Files
    BY <1>2, <1>3
  <2> QED BY <1>4, <2>1
<1>6. \A i \in DOMAIN s : /\ v[i].id = s[i].id
                          /\ \A parts : Whole(parts, s[i]) => Whole(parts, v[i])
  BY <1>2, <1>3, <1>4
<1>7. v = <<>> => s = <<>>
  BY <1>5
<1> HIDE DEF v
<1>8. IdsOf(v, DOMAIN v) = IdsOf(s, DOMAIN s) /\ (Ordered(s) => Ordered(v))
  BY <1>4, <1>5, <1>6 DEF IdsOf, Ordered
<1> QED BY <1>1, <1>4, <1>5, <1>6, <1>7, <1>8

\* With no two fields of one kind and name, nothing was taken for a later field.
LEMMA NotYet ==
  ASSUME DistinctFields, NEW b \in Seq(Seq(Texts \cup Files)), Len(b) < Len(Model)
  PROVE  LET fld == Model[Len(b) + 1] IN Untaken(b, fld.file, fld.name)
<1>1. Len(b) \in Nat /\ Len(Model) \in Nat /\ DOMAIN Model = 1 .. Len(Model)
  BY UploadsAssumption
<1>2. Len(b) + 1 \in DOMAIN Model /\ \A i \in 1 .. Len(b) : i \in DOMAIN Model /\ i # Len(b) + 1
  BY <1>1
<1> QED BY <1>2 DEF DistinctFields, Untaken

\* One more field of the struct is bound.
LEMMA BoundStep ==
  ASSUME NEW f, NEW g, NEW c, NEW b, NEW ns, NEW v, Sound("bind", f, c, b, ns),
         Len(b) < Len(Model), g.parts = f.parts, v \in Lists(Len(b) + 1),
         DistinctFields => Holds(f.parts, Model[Len(b) + 1], v),
         Model[Len(b) + 1].file => \A j \in DOMAIN v : v[j].data = Bytes(0, v[j].size)
  PROVE  /\ Bound("bind", g, Append(b, v), ns)
         /\ Append(b, v) \in Seq(Seq(Texts \cup Files)) /\ Len(Append(b, v)) <= Len(Model)
         /\ \A i \in 1 .. Len(Append(b, v)) : Append(b, v)[i] \in Lists(i)
<1> DEFINE d == Append(b, v)
           e == Len(b) + 1
<1>1. b \in Seq(Seq(Texts \cup Files)) /\ v \in Seq(Texts \cup Files) /\ Len(Model) \in Nat
      /\ \A i \in 1 .. Len(b) : b[i] \in Lists(i)
  BY UploadsAssumption DEF Sound, Kinds, Lists
<1>2. /\ d \in Seq(Seq(Texts \cup Files)) /\ Len(d) = e /\ d[e] = v /\ e \in Nat /\ e <= Len(Model)
      /\ \A i \in 1 .. Len(b) : d[i] = b[i]
      /\ \A i \in 1 .. e : i \in 1 .. Len(b) \/ i = e
      /\ d # <<>>
  <2>1. /\ d \in Seq(Seq(Texts \cup Files)) /\ Len(d) = e /\ d[e] = v /\ e \in Nat
        /\ \A i \in 1 .. Len(b) : d[i] = b[i]
    BY <1>1
  <2>2. Len(b) \in Nat /\ e <= Len(Model)
    BY <1>1
  <2>3. \A i \in 1 .. e : i \in 1 .. Len(b) \/ i = e
    BY <2>2
  <2>4. d # <<>>
    <3>1. Len(d) # 0
      BY <2>1, <2>2
    <3> HIDE DEF d
    <3> QED BY <3>1
  <2> QED BY <2>1, <2>2, <2>3, <2>4
<1> HIDE DEF d
<1>3. Bound("bind", f, b, ns)
  BY DEF Sound
<1> HIDE DEF e
<1>4. ASSUME DistinctFields, NEW i \in 1 .. Len(d)
      PROVE  Holds(g.parts, Model[i], d[i])
  BY <1>2, <1>3, <1>4 DEF Bound, e
<1>5. ASSUME NEW i \in 1 .. Len(d), Model[i].file
      PROVE  \A j \in DOMAIN d[i] : d[i][j].data = Bytes(0, d[i][j].size)
  <2>1. CASE i = e
    BY <1>2, <1>5, <2>1 DEF e
  <2>2. CASE i \in 1 .. Len(b)
    BY <1>2, <1>3, <1>5, <2>2 DEF Bound
  <2> QED BY <1>2, <2>1, <2>2
<1>6. Bound("bind", g, d, ns)
  BY <1>4, <1>5 DEF Bound, Handles
<1>7. \A i \in 1 .. Len(d) : d[i] \in Lists(i)
  BY <1>1, <1>2 DEF e
<1> QED BY <1>2, <1>6, <1>7 DEF d

\* A field that wants files takes them.
LEMMA BindFileSound ==
  ASSUME NEW f, NEW c, NEW b, NEW ns, Sound("bind", f, c, b, ns), Len(b) < Len(Model),
         NEW fld, fld = Model[Len(b) + 1], fld.file,
         fld.required => Taken(f.files, fld) # <<>>
  PROVE  Sound("bind", [f EXCEPT !.files = Remaining(f.files, fld)], c,
               Append(b, Validate(fld, Taken(f.files, fld))), ns)
<1> DEFINE t == Taken(f.files, fld)
           u == Remaining(f.files, fld)
           v == Validate(fld, t)
           g == [f EXCEPT !.files = u]
           d == Append(b, v)
<1>1. /\ f \in Forms /\ f.parts \in Seq(Parts) /\ f.files \in Seq(Files)
      /\ b \in Seq(Seq(Texts \cup Files)) /\ c = NoFile
  BY DEF Sound, Kinds, Forms, Receiving, Receives
<1>2. /\ Ordered(f.texts) /\ Ordered(f.files)
      /\ \A i \in DOMAIN f.texts : Told(f.parts, f.texts[i])
      /\ \A i \in DOMAIN f.files : Whole(f.parts, f.files[i])
  BY DEF Sound, Listed
<1>3. fld.file = TRUE /\ fld.name \in Name
  <2>1. Len(b) + 1 \in DOMAIN Model
    BY <1>1, UploadsAssumption
  <2>2. Model[Len(b) + 1] \in Fields
    BY <2>1, UploadsAssumption
  <2>3. \A x \in Fields : x.name \in Name /\ x.file \in BOOLEAN
    BY DEF Fields
  <2> QED BY <2>2, <2>3
<1>4. /\ t \in Seq(Files) /\ Ordered(t)
      /\ \A n \in DOMAIN t : \E i \in DOMAIN f.files : t[n] = f.files[i]
      /\ u \in Seq(Files) /\ Ordered(u)
      /\ \A n \in DOMAIN u : \E i \in DOMAIN f.files : u[n] = f.files[i]
      /\ IdsOf(t, DOMAIN t) = IF fld.many THEN IdsOf(f.files, Named(f.files, fld.name))
                              ELSE Earliest(IdsOf(f.files, Named(f.files, fld.name)))
      /\ \A m : m # fld.name => IdsOf(u, Named(u, m)) = IdsOf(f.files, Named(f.files, m))
  <2>1. \A x \in Files : x.id \in Nat
    BY DEF Files
  <2>2. Splits(Files, f.files, fld, t, u)
    BY <1>1, <1>2, <2>1, TakenList
  <2> QED BY <2>2 DEF Splits
<1> HIDE DEF t, u
<1>5. /\ v \in Seq(Files) /\ DOMAIN v = DOMAIN t /\ (v = <<>> => t = <<>>)
      /\ IdsOf(v, DOMAIN v) = IdsOf(t, DOMAIN t) /\ Ordered(v)
      /\ \A j \in DOMAIN t : Whole(f.parts, t[j]) => Whole(f.parts, v[j])
  BY <1>4, Validated
<1> HIDE DEF v
<1>6. /\ g \in Forms /\ g.parts = f.parts /\ g.total = f.total /\ g.files = u /\ g.texts = f.texts
  BY <1>1, <1>4 DEF Forms
<1> HIDE DEF g
<1>7. \A j \in DOMAIN v : Whole(f.parts, v[j])
  BY <1>2, <1>4, <1>5
<1>8. ASSUME DistinctFields PROVE Holds(f.parts, fld, v)
  <2>1. Untaken(b, TRUE, fld.name)
    BY <1>1, <1>3, <1>8, NotYet
  <2>2. IdsOf(f.files, Named(f.files, fld.name)) = Sent(f.parts, TRUE, fld.name)
    BY <1>3, <2>1 DEF Sound, Complete, Parses, Receives, Waiting
  <2>3. fld.required => v # <<>>
    BY <1>5 DEF t
  <2>4. IdsOf(v, DOMAIN v) = IF fld.many THEN Sent(f.parts, fld.file, fld.name)
                             ELSE Earliest(Sent(f.parts, fld.file, fld.name))
    BY <1>3, <1>4, <1>5, <2>2
  <2> QED BY <1>5, <1>7, <2>3, <2>4 DEF Holds
<1>9. /\ Bound("bind", g, d, ns)
      /\ d \in Seq(Seq(Texts \cup Files)) /\ Len(d) <= Len(Model)
      /\ \A i \in 1 .. Len(d) : d[i] \in Lists(i)
  <2>1. \A j \in DOMAIN v : v[j].data = Bytes(0, v[j].size)
    BY <1>7 DEF Whole
  <2>2. v \in Lists(Len(b) + 1)
    BY <1>5 DEF Lists
  <2> QED BY <1>6, <1>8, <2>1, <2>2, BoundStep
<1> HIDE DEF d
<1>10. Kinds("bind", g, c, d, ns) /\ Receiving("bind", g, c)
  BY <1>1, <1>6, <1>9 DEF Sound, Kinds, Receiving, Receives
<1>11. Limited("bind", g)
  BY <1>6 DEF Sound, Limited, Receives
<1>12. Listed("bind", g, c)
  <2>1. ASSUME NEW n \in DOMAIN u PROVE Whole(f.parts, u[n])
    BY <1>2, <1>4
  <2> QED BY <1>2, <1>4, <1>6, <2>1 DEF Listed, Waiting, Receives
<1>13. Complete("bind", g, c, d)
  <2>1. ASSUME NEW m \in Name, NEW isFile \in BOOLEAN, Untaken(d, isFile, m)
        PROVE  Untaken(b, isFile, m) /\ ~(isFile = TRUE /\ m = fld.name)
    <3>1. Len(d) = Len(b) + 1 /\ Len(b) \in Nat
      BY <1>1 DEF d
    <3>2. \A i \in 1 .. Len(b) + 1 : ~(Model[i].name = m /\ Model[i].file = isFile)
      BY <2>1, <3>1 DEF Untaken
    <3>3. Len(b) + 1 \in 1 .. Len(b) + 1 /\ 1 .. Len(b) \subseteq 1 .. Len(b) + 1
      BY <3>1
    <3> QED BY <1>3, <3>2, <3>3 DEF Untaken
  <2>2. ASSUME NEW m \in Name, Untaken(d, TRUE, m)
        PROVE  IdsOf(g.files, Named(g.files, m)) = Sent(g.parts, TRUE, m) \ {}
    <3>1. Untaken(b, TRUE, m) /\ m # fld.name
      BY <2>1, <2>2
    <3>2. IdsOf(f.files, Named(f.files, m)) = Sent(f.parts, TRUE, m) \ {}
      BY <3>1 DEF Sound, Complete, Parses, Receives, Waiting
    <3> QED BY <1>4, <1>6, <3>1, <3>2
  <2>3. ASSUME NEW m \in Name, Untaken(d, FALSE, m)
        PROVE  IdsOf(g.texts, Named(g.texts, m)) = Sent(g.parts, FALSE, m)
    <3>1. Untaken(b, FALSE, m)
      BY <2>1, <2>3
    <3>2. IdsOf(f.texts, Named(f.texts, m)) = Sent(f.parts, FALSE, m)
      BY <3>1 DEF Sound, Complete, Parses, Receives
    <3> QED BY <1>6, <3>2
  <2> QED BY <2>2, <2>3 DEF Complete, Waiting, Receives
<1>14. Sound("bind", g, c, d, ns)
  BY <1>9, <1>10, <1>11, <1>12, <1>13 DEF Sound
<1> QED BY <1>14 DEF g, d, v, t, u

\* A field that wants texts takes them.
LEMMA BindTextSound ==
  ASSUME NEW f, NEW c, NEW b, NEW ns, Sound("bind", f, c, b, ns), Len(b) < Len(Model),
         NEW fld, fld = Model[Len(b) + 1], ~fld.file,
         fld.required => Taken(f.texts, fld) # <<>>
  PROVE  Sound("bind", [f EXCEPT !.texts = Remaining(f.texts, fld)], c,
               Append(b, Validate(fld, Taken(f.texts, fld))), ns)
<1> DEFINE t == Taken(f.texts, fld)
           u == Remaining(f.texts, fld)
           g == [f EXCEPT !.texts = u]
           d == Append(b, t)
<1>1. /\ f \in Forms /\ f.parts \in Seq(Parts) /\ f.texts \in Seq(Texts)
      /\ b \in Seq(Seq(Texts \cup Files)) /\ c = NoFile
  BY DEF Sound, Kinds, Forms, Receiving, Receives
<1>2. /\ Ordered(f.texts) /\ Ordered(f.files)
      /\ \A i \in DOMAIN f.texts : Told(f.parts, f.texts[i])
      /\ \A i \in DOMAIN f.files : Whole(f.parts, f.files[i])
  BY DEF Sound, Listed
<1>3. fld.file = FALSE /\ fld.name \in Name
  <2>1. Len(b) + 1 \in DOMAIN Model
    BY <1>1, UploadsAssumption
  <2>2. Model[Len(b) + 1] \in Fields
    BY <2>1, UploadsAssumption
  <2>3. \A x \in Fields : x.name \in Name /\ x.file \in BOOLEAN
    BY DEF Fields
  <2> QED BY <2>2, <2>3
<1>4. /\ t \in Seq(Texts) /\ Ordered(t)
      /\ \A n \in DOMAIN t : \E i \in DOMAIN f.texts : t[n] = f.texts[i]
      /\ u \in Seq(Texts) /\ Ordered(u)
      /\ \A n \in DOMAIN u : \E i \in DOMAIN f.texts : u[n] = f.texts[i]
      /\ IdsOf(t, DOMAIN t) = IF fld.many THEN IdsOf(f.texts, Named(f.texts, fld.name))
                              ELSE Earliest(IdsOf(f.texts, Named(f.texts, fld.name)))
      /\ \A m : m # fld.name => IdsOf(u, Named(u, m)) = IdsOf(f.texts, Named(f.texts, m))
  <2>1. \A x \in Texts : x.id \in Nat
    BY DEF Texts
  <2>2. Splits(Texts, f.texts, fld, t, u)
    BY <1>1, <1>2, <2>1, TakenList
  <2> QED BY <2>2 DEF Splits
<1> HIDE DEF t, u
<1>5. Validate(fld, t) = t
  BY <1>3 DEF Validate
<1>6. /\ g \in Forms /\ g.parts = f.parts /\ g.total = f.total /\ g.texts = u /\ g.files = f.files
  BY <1>1, <1>4 DEF Forms
<1> HIDE DEF g
<1>8. ASSUME DistinctFields PROVE Holds(f.parts, fld, t)
  <2>1. Untaken(b, FALSE, fld.name)
    BY <1>1, <1>3, <1>8, NotYet
  <2>2. IdsOf(f.texts, Named(f.texts, fld.name)) = Sent(f.parts, FALSE, fld.name)
    BY <1>3, <2>1 DEF Sound, Complete, Parses, Receives
  <2>3. fld.required => t # <<>>
    BY DEF t
  <2>4. IdsOf(t, DOMAIN t) = IF fld.many THEN Sent(f.parts, fld.file, fld.name)
                             ELSE Earliest(Sent(f.parts, fld.file, fld.name))
    BY <1>3, <1>4, <2>2
  <2> QED BY <1>3, <1>4, <2>3, <2>4 DEF Holds
<1>9. /\ Bound("bind", g, d, ns)
      /\ d \in Seq(Seq(Texts \cup Files)) /\ Len(d) <= Len(Model)
      /\ \A i \in 1 .. Len(d) : d[i] \in Lists(i)
  <2>1. t \in Lists(Len(b) + 1)
    BY <1>3, <1>4 DEF Lists
  <2> QED BY <1>3, <1>6, <1>8, <2>1, BoundStep
<1> HIDE DEF d
<1>10. Kinds("bind", g, c, d, ns) /\ Receiving("bind", g, c)
  BY <1>1, <1>6, <1>9 DEF Sound, Kinds, Receiving, Receives
<1>11. Limited("bind", g)
  BY <1>6 DEF Sound, Limited, Receives
<1>12. Listed("bind", g, c)
  <2>1. ASSUME NEW n \in DOMAIN u PROVE Told(f.parts, u[n])
    BY <1>2, <1>4
  <2> QED BY <1>2, <1>4, <1>6, <2>1 DEF Listed, Waiting, Receives
<1>13. Complete("bind", g, c, d)
  <2>1. ASSUME NEW m \in Name, NEW isFile \in BOOLEAN, Untaken(d, isFile, m)
        PROVE  Untaken(b, isFile, m) /\ ~(isFile = FALSE /\ m = fld.name)
    <3>1. Len(d) = Len(b) + 1 /\ Len(b) \in Nat
      BY <1>1 DEF d
    <3>2. \A i \in 1 .. Len(b) + 1 : ~(Model[i].name = m /\ Model[i].file = isFile)
      BY <2>1, <3>1 DEF Untaken
    <3>3. Len(b) + 1 \in 1 .. Len(b) + 1 /\ 1 .. Len(b) \subseteq 1 .. Len(b) + 1
      BY <3>1
    <3> QED BY <1>3, <3>2, <3>3 DEF Untaken
  <2>2. ASSUME NEW m \in Name, Untaken(d, TRUE, m)
        PROVE  IdsOf(g.files, Named(g.files, m)) = Sent(g.parts, TRUE, m) \ {}
    <3>1. Untaken(b, TRUE, m)
      BY <2>1, <2>2
    <3>2. IdsOf(f.files, Named(f.files, m)) = Sent(f.parts, TRUE, m) \ {}
      BY <3>1 DEF Sound, Complete, Parses, Receives, Waiting
    <3> QED BY <1>6, <3>2
  <2>3. ASSUME NEW m \in Name, Untaken(d, FALSE, m)
        PROVE  IdsOf(g.texts, Named(g.texts, m)) = Sent(g.parts, FALSE, m)
    <3>1. Untaken(b, FALSE, m) /\ m # fld.name
      BY <2>1, <2>3
    <3>2. IdsOf(f.texts, Named(f.texts, m)) = Sent(f.parts, FALSE, m)
      BY <3>1 DEF Sound, Complete, Parses, Receives
    <3> QED BY <1>4, <1>6, <3>1, <3>2
  <2> QED BY <2>2, <2>3 DEF Complete, Waiting, Receives
<1>14. Sound("bind", g, c, d, ns)
  BY <1>9, <1>10, <1>11, <1>12, <1>13 DEF Sound
<1> QED BY <1>5, <1>14 DEF g, d, t, u

\* The handler starts, and what no field took is dropped.
LEMMA EnterSound ==
  ASSUME NEW f, NEW c, NEW b, NEW ns, Sound("bind", f, c, b, ns), Len(b) = Len(Model)
  PROVE  Sound("handler", [f EXCEPT !.texts = <<>>, !.files = <<>>], c, b, ns)
<1> DEFINE g == [f EXCEPT !.texts = <<>>, !.files = <<>>]
<1>1. g \in Forms /\ g.parts = f.parts /\ g.total = f.total /\ g.texts = <<>> /\ g.files = <<>>
  <2>1. f \in Forms
    BY DEF Sound, Kinds
  <2>2. <<>> \in Seq(Texts) /\ <<>> \in Seq(Files)
    OBVIOUS
  <2> QED BY <2>1, <2>2 DEF Forms
<1> HIDE DEF g
<1>2. Kinds("handler", g, c, b, ns)
  BY <1>1 DEF Sound, Kinds, Phases, Handles
<1>3. Receiving("handler", g, c) /\ Limited("handler", g)
  BY <1>1 DEF Sound, Receiving, Limited, Receives
<1>4. Listed("handler", g, c)
  BY <1>1 DEF Listed, Ordered
<1>5. Complete("handler", g, c, b)
  BY DEF Complete, Parses, Receives
<1>6. Bound("handler", g, b, ns)
  BY <1>1 DEF Sound, Bound, Handles
<1> QED BY <1>2, <1>3, <1>4, <1>5, <1>6 DEF Sound, g

-----------------------------------------------------------------------------
(* Before the first part, at the end, and the handler's uploads *)

\* A request that has not begun, or has ended.
LEMMA EmptySound ==
  ASSUME NEW p \in {"head", "done"}
  PROVE  Sound(p, NoForm, NoFile, <<>>, 0)
<1> DEFINE f == NoForm
           c == NoFile
<1>1. /\ f.parts = <<>> /\ f.total = 0 /\ f.texts = <<>> /\ f.files = <<>>
      /\ f \in Forms /\ c \in Files /\ Len(<<>>) = 0 /\ DOMAIN <<>> = {}
  BY DEF NoForm, Forms, NoFile, Files
<1>2. Limit("fields") \in Nat /\ Limit("files") \in Nat /\ Limit("body") \in Nat
  BY LimitNat DEF Limits
<1> HIDE DEF f, c
<1>3. Kinds(p, f, c, <<>>, 0)
  <2>1. <<>> \in Seq(Seq(Texts \cup Files)) /\ Len(Model) \in Nat
    BY UploadsAssumption
  <2> QED BY <1>1, <2>1 DEF Kinds, Phases, Parses
<1>4. Receiving(p, f, c)
  BY DEF Receiving, Receives, c
<1>5. Limited(p, f)
  <2>1. FilesOf(f.parts) = {} /\ Held(f.parts) = {}
    BY <1>1 DEF FilesOf, Held
  <2>2. IsFiniteSet({}) /\ Cardinality({}) = 0
    BY FS_EmptySet
  <2>3. p # "next" /\ p \notin Receives
    BY DEF Receives
  <2>4. Len(f.parts) = 0 /\ Len(f.files) = 0 /\ DOMAIN f.parts = {}
    BY <1>1
  <2>5. /\ Len(f.parts) <= Limit("fields") /\ Cardinality(FilesOf(f.parts)) <= Limit("files")
        /\ Cardinality(Held(f.parts)) = f.total /\ f.total <= Limit("body")
        /\ IsFiniteSet(Held(f.parts)) /\ Cardinality(FilesOf(f.parts)) = Len(f.files)
    <3>1. \A l \in Nat : 0 <= l
      OBVIOUS
    <3>2. /\ Cardinality(FilesOf(f.parts)) = 0 /\ Cardinality(Held(f.parts)) = 0
          /\ IsFiniteSet(Held(f.parts))
      BY <2>1, <2>2
    <3>3. f.total = 0
      BY <1>1
    <3> QED BY <1>2, <2>4, <3>1, <3>2, <3>3
  <2> QED BY <2>3, <2>4, <2>5 DEF Limited
<1>6. Listed(p, f, c)
  BY <1>1 DEF Listed, Ordered
<1>7. Complete(p, f, c, <<>>)
  BY <1>1 DEF Complete, IdsOf, Named, Sent
<1>8. Bound(p, f, <<>>, 0)
  BY <1>1 DEF Bound, Handles
<1> QED BY <1>3, <1>4, <1>5, <1>6, <1>7, <1>8 DEF Sound, f, c

\* A call of the handler.
LEMMA CallSound ==
  ASSUME NEW p \in Handles, NEW q \in Handles, NEW f, NEW c, NEW b, NEW n, NEW m \in Nat \ {0},
         Sound(p, f, c, b, n)
  PROVE  Sound(q, f, c, b, m)
<1>1. p \notin Receives /\ q \notin Receives /\ p \notin Parses /\ q \notin Parses
      /\ p \notin {"head", "next", "bind"} /\ q \notin {"head", "next", "bind"}
  BY DEF Handles, Receives, Parses
<1>2. Kinds(q, f, c, b, m) /\ Receiving(q, f, c)
  BY <1>1 DEF Sound, Kinds, Receiving, Phases
<1>3. Limited(q, f) /\ Listed(q, f, c) /\ Complete(q, f, c, b)
  BY <1>1 DEF Sound, Limited, Listed, Waiting, Complete
<1>4. Bound(q, f, b, m)
  BY <1>1 DEF Sound, Bound, Handles
<1> QED BY <1>2, <1>3, <1>4 DEF Sound

\* An upload of the handler changes, but neither its bytes nor its size.
LEMMA StoreSound ==
  ASSUME NEW p \in Handles, NEW q \in Handles, NEW f, NEW c, NEW b, NEW n, NEW m \in Nat \ {0},
         Sound(p, f, c, b, n), NEW i \in DOMAIN b, Model[i].file, NEW j \in DOMAIN b[i],
         NEW x \in Files, x.data = b[i][j].data, x.size = b[i][j].size
  PROVE  Sound(q, f, c, [b EXCEPT ![i][j] = x], m)
<1> DEFINE d == [b EXCEPT ![i][j] = x]
           t == [b[i] EXCEPT ![j] = x]
<1>1. Sound(q, f, c, b, m)
  BY CallSound
<1>2. /\ b \in Seq(Seq(Texts \cup Files)) /\ Len(b) = Len(Model) /\ Len(b) \in Nat
      /\ DOMAIN b = 1 .. Len(b) /\ \A k \in 1 .. Len(b) : b[k] \in Lists(k)
  <2>1. b \in Seq(Seq(Texts \cup Files))
    BY <1>1 DEF Sound, Kinds
  <2>2. Len(b) \in Nat /\ DOMAIN b = 1 .. Len(b)
    BY <2>1
  <2> QED BY <1>1, <2>1, <2>2 DEF Sound, Kinds, Bound
<1>3. b[i] \in Seq(Files)
  BY <1>2 DEF Lists
<1>4. /\ t \in Seq(Files) /\ DOMAIN t = DOMAIN b[i] /\ t[j] = x
      /\ \A k \in DOMAIN b[i] : k # j => t[k] = b[i][k]
  BY <1>3
<1>5. t \in Seq(Texts \cup Files)
  BY <1>4
<1>6. d = [b EXCEPT ![i] = t]
  OBVIOUS
<1> HIDE DEF d, t
<1>7. /\ d \in Seq(Seq(Texts \cup Files)) /\ Len(d) = Len(b) /\ d[i] = t
      /\ \A k \in 1 .. Len(b) : k # i => d[k] = b[k]
  BY <1>2, <1>5, <1>6
<1>8. Kinds(q, f, c, d, m)
  <2>1. ASSUME NEW k \in 1 .. Len(d) PROVE d[k] \in Lists(k)
    <3>1. CASE k = i
      BY <1>4, <1>7, <3>1 DEF Lists
    <3>2. CASE k # i
      BY <1>2, <1>7, <3>2
    <3> QED BY <3>1, <3>2
  <2> QED BY <1>1, <1>7, <2>1 DEF Sound, Kinds
<1>9. q \notin Parses /\ q \notin {"bind"} /\ m # 0
  BY DEF Handles, Parses, Receives
<1>10. Complete(q, f, c, d)
  BY <1>9 DEF Complete
<1>11. Bound(q, f, d, m)
  <2>1. ASSUME NEW k \in 1 .. Len(d), Model[k].file
        PROVE  \A l \in DOMAIN d[k] : d[k][l].data = Bytes(0, d[k][l].size)
    <3>1. \A l \in DOMAIN b[k] : b[k][l].data = Bytes(0, b[k][l].size)
      BY <1>1, <1>7, <2>1 DEF Sound, Bound
    <3>2. CASE k = i
      <4>1. \A l \in DOMAIN t : t[l].data = Bytes(0, t[l].size)
        BY <1>4, <3>1, <3>2
      <4> QED BY <1>7, <3>2, <4>1
    <3>3. CASE k # i
      BY <1>7, <3>1, <3>3
    <3> QED BY <3>2, <3>3
  <2> QED BY <1>2, <1>7, <1>9, <2>1 DEF Bound
<1> QED BY <1>1, <1>8, <1>10, <1>11 DEF Sound, d

-----------------------------------------------------------------------------
(* One request moves *)

\* Request r moves, and as to its form nobody else does.
Moves(r, p, f, c, b, n) ==
  /\ pc' = [pc EXCEPT ![r] = p] /\ form' = [form EXCEPT ![r] = f]
  /\ cur' = [cur EXCEPT ![r] = c] /\ bound' = [bound EXCEPT ![r] = b]
  /\ ops' = [ops EXCEPT ![r] = n]

\* A step of one request keeps the requests right if it keeps its own Sound.
LEMMA MovedRight ==
  ASSUME UploadsInv, NEW r \in Request, NEW p, NEW f, NEW c, NEW b, NEW n,
         Moves(r, p, f, c, b, n), Sound(p, f, c, b, n)
  PROVE  /\ FormShape' /\ \A q \in Request : Right(q)'
         /\ pc'[r] = p /\ bound'[r] = b
         /\ \A q \in Request : q # r => pc'[q] = pc[q] /\ bound'[q] = bound[q]
<1>1. /\ pc \in [Request -> Phases] /\ form \in [Request -> Forms] /\ cur \in [Request -> Files]
      /\ bound \in [Request -> Seq(Seq(Texts \cup Files))] /\ ops \in [Request -> Nat]
  BY DEF UploadsInv, FormShape
<1>2. p \in Phases /\ f \in Forms /\ c \in Files /\ b \in Seq(Seq(Texts \cup Files)) /\ n \in Nat
  BY DEF Sound, Kinds
<1>3. FormShape'
  BY <1>1, <1>2 DEF FormShape, Moves
<1>4. pc'[r] = p /\ form'[r] = f /\ cur'[r] = c /\ bound'[r] = b /\ ops'[r] = n
  BY <1>1 DEF Moves
<1>5. \A q \in Request : q # r => /\ pc'[q] = pc[q] /\ form'[q] = form[q] /\ cur'[q] = cur[q]
                                  /\ bound'[q] = bound[q] /\ ops'[q] = ops[q]
  BY <1>1 DEF Moves
<1>6. ASSUME NEW q \in Request PROVE Right(q)'
  <2>1. CASE q = r
    BY <1>4, <2>1 DEF Right
  <2>2. CASE q # r
    BY <1>5, <2>2 DEF Right, UploadsInv
  <2> QED BY <2>1, <2>2
<1> QED BY <1>3, <1>4, <1>5, <1>6

\* The saves of a request that parses, of one that has ended, and of the others.
LEMMA Aside ==
  ASSUME UploadsInv, NEW r \in Request, UNCHANGED <<task, saved, disk>>,
         \A q \in Request : q # r => pc'[q] = pc[q] /\ bound'[q] = bound[q],
         \/ pc'[r] = "done" /\ bound'[r] = <<>>
         \/ pc[r] \in Parses /\ pc'[r] \in Parses \cup {"handler"}
  PROVE  /\ SaveShape' /\ \A q \in Request : Works(q)'
         /\ \A s \in saved' : Rests(s)' /\ Guarded(s)'
<1>1. task' = task /\ saved' = saved /\ disk' = disk
  OBVIOUS
<1>2. SaveShape'
  BY <1>1 DEF UploadsInv, SaveShape
<1>3. ASSUME NEW q \in Request, q # r
      PROVE  /\ Uploads(q)' = Uploads(q) /\ pc'[q] = pc[q] /\ bound'[q] = bound[q]
             /\ \A u : At(q, u)' = At(q, u)
  BY <1>3 DEF Uploads, At
<1>4. \/ pc'[r] = "done" /\ bound'[r] = <<>>
      \/ task[r] = NoTask /\ pc'[r] # "saving" /\ \A s \in saved : s[2] # r
  <2>1. CASE pc[r] \in Parses /\ pc'[r] \in Parses \cup {"handler"}
    <3>1. task[r] = NoTask
      BY <2>1 DEF UploadsInv, Works, Parses, Receives
    <3>2. \A s \in saved : s[2] # r
      BY <2>1 DEF UploadsInv, Guarded, Parses, Receives, Handles
    <3>3. pc'[r] # "saving"
      BY <2>1 DEF Parses, Receives
    <3> QED BY <3>1, <3>2, <3>3
  <2> QED BY <2>1
<1>5. ASSUME NEW q \in Request PROVE Works(q)'
  <2>1. CASE q # r
    BY <1>1, <1>3, <2>1 DEF UploadsInv, Works
  <2>2. CASE q = r
    <3>1. Works(r)
      BY DEF UploadsInv
    <3> QED BY <1>1, <1>4, <2>2, <3>1 DEF Works
  <2> QED BY <2>1, <2>2
<1>6. ASSUME NEW s \in saved PROVE Rests(s)' /\ Guarded(s)'
  <2>1. Rests(s) /\ Guarded(s) /\ s[2] \in Request
    BY DEF UploadsInv, SaveShape
  <2>2. CASE s[2] # r
    <3>1. Rests(s)'
      BY <1>1, <1>3, <2>1, <2>2 DEF Rests
    <3>2. Guarded(s)'
      BY <1>1, <1>3, <2>1, <2>2 DEF Guarded
    <3> QED BY <3>1, <3>2
  <2>3. CASE s[2] = r
    <3>1. pc'[r] = "done" /\ bound'[r] = <<>>
      BY <1>4, <2>3
    <3> QED BY <1>1, <2>1, <2>3, <3>1 DEF Rests, Guarded
  <2> QED BY <2>2, <2>3
<1> QED BY <1>1, <1>2, <1>5, <1>6

-----------------------------------------------------------------------------
(* Steps up to the handler *)

\* What the invariant says of one request.
LEMMA RequestSound ==
  ASSUME UploadsInv, NEW r \in Request
  PROVE  /\ Sound(pc[r], form[r], cur[r], bound[r], ops[r])
         /\ pc = [pc EXCEPT ![r] = pc[r]] /\ form = [form EXCEPT ![r] = form[r]]
         /\ cur = [cur EXCEPT ![r] = cur[r]] /\ bound = [bound EXCEPT ![r] = bound[r]]
         /\ ops = [ops EXCEPT ![r] = ops[r]]
<1>1. Sound(pc[r], form[r], cur[r], bound[r], ops[r])
  BY DEF UploadsInv, Right
<1>2. /\ pc = [pc EXCEPT ![r] = pc[r]] /\ form = [form EXCEPT ![r] = form[r]]
      /\ cur = [cur EXCEPT ![r] = cur[r]] /\ bound = [bound EXCEPT ![r] = bound[r]]
      /\ ops = [ops EXCEPT ![r] = ops[r]]
  BY DEF UploadsInv, FormShape
<1> QED BY <1>1, <1>2

\* A request may end at any moment.
LEMMA EndInv == ASSUME UploadsInv, NEW r \in Request, NEW status, End(r, status) PROVE UploadsInv'
<1>1. Moves(r, "done", NoForm, NoFile, <<>>, 0)
  BY DEF End, Goto, Moves
<1>2. Sound("done", NoForm, NoFile, <<>>, 0)
  BY EmptySound
<1>3. /\ FormShape' /\ \A q \in Request : Right(q)'
      /\ pc'[r] = "done" /\ bound'[r] = <<>>
      /\ \A q \in Request : q # r => pc'[q] = pc[q] /\ bound'[q] = bound[q]
  BY <1>1, <1>2, MovedRight
<1>4. UNCHANGED <<task, saved, disk>>
  BY DEF End
<1>5. /\ SaveShape' /\ \A q \in Request : Works(q)'
      /\ \A s \in saved' : Rests(s)' /\ Guarded(s)'
  BY <1>3, <1>4, Aside
<1> QED BY <1>3, <1>5 DEF UploadsInv

\* A step of the parser or of the binding.
LEMMA ParseInv ==
  ASSUME UploadsInv, NEW r \in Request, NEW p \in Parses \cup {"handler"}, NEW f, NEW c, NEW b,
         pc[r] \in Parses, Moves(r, p, f, c, b, ops[r]), Sound(p, f, c, b, ops[r]),
         UNCHANGED <<task, saved, disk>>
  PROVE  UploadsInv'
<1>1. /\ FormShape' /\ \A q \in Request : Right(q)'
      /\ pc'[r] = p /\ bound'[r] = b
      /\ \A q \in Request : q # r => pc'[q] = pc[q] /\ bound'[q] = bound[q]
  BY MovedRight
<1>2. /\ SaveShape' /\ \A q \in Request : Works(q)'
      /\ \A s \in saved' : Rests(s)' /\ Guarded(s)'
  BY <1>1, Aside
<1> QED BY <1>1, <1>2 DEF UploadsInv

LEMMA HeadInv == ASSUME UploadsInv, NEW r \in Request, ParseHead(r) PROVE UploadsInv'
<1>1. CASE End(r, 400) \/ End(r, 500)
  BY <1>1, EndInv
<1>2. CASE Goto(r, "next") /\ UNCHANGED <<form, cur, bound>> /\ Outside
  <2>1. pc[r] = "head" /\ Moves(r, "next", form[r], cur[r], bound[r], ops[r])
    BY <1>2, RequestSound DEF Goto, Outside, Moves, ParseHead
  <2>2. Sound("next", form[r], cur[r], bound[r], ops[r])
    BY <2>1, RequestSound, MovedSound
  <2>3. UNCHANGED <<task, saved, disk>> /\ pc[r] \in Parses /\ "next" \in Parses
    BY <1>2, <2>1 DEF Outside, Parses
  <2> QED BY <2>1, <2>2, <2>3, ParseInv
<1> QED BY <1>1, <1>2 DEF ParseHead

LEMMA FormEndInv == ASSUME UploadsInv, NEW r \in Request, FormEnd(r) PROVE UploadsInv'
<1>1. pc[r] = "next" /\ Moves(r, "bind", form[r], cur[r], bound[r], ops[r])
  BY RequestSound DEF Goto, Outside, Moves, FormEnd
<1>2. Sound("bind", form[r], cur[r], bound[r], ops[r])
  BY <1>1, RequestSound, MovedSound
<1>3. UNCHANGED <<task, saved, disk>> /\ pc[r] \in Parses /\ "bind" \in Parses
  BY <1>1 DEF Outside, Parses, FormEnd
<1> QED BY <1>1, <1>2, <1>3, ParseInv

LEMMA TextInv ==
  ASSUME UploadsInv, NEW r \in Request, NEW n \in Name, NEW k \in Chunk, TextField(r, n, k)
  PROVE  UploadsInv'
<1> DEFINE f == WithText(form[r], n, k)
<1>1. CASE End(r, 422) \/ End(r, 413)
  BY <1>1, EndInv
<1>2. CASE /\ ~TooMany(r) /\ ~(f.total > Limit("body") \/ k > Limit("text"))
           /\ form' = [form EXCEPT ![r] = f] /\ UNCHANGED <<pc, cur, bound>> /\ Outside
  <2>1. pc[r] = "next" /\ Moves(r, "next", f, cur[r], bound[r], ops[r])
    BY <1>2, RequestSound DEF Outside, Moves, TextField
  <2>2. Sound("next", form[r], cur[r], bound[r], ops[r])
    BY <2>1, RequestSound
  <2>3. /\ form[r] \in Forms /\ k \in Nat
    BY <2>2, UploadsAssumption DEF Sound, Kinds
  <2>4. f.total = form[r].total + k /\ form[r].total + k \in Nat /\ Len(form[r].parts) + 1 \in Nat
    BY <2>3 DEF WithText, Forms
  <2>5. Limit("fields") \in Nat /\ Limit("body") \in Nat /\ Limit("text") \in Nat
    BY LimitNat DEF Limits
  <2>6. /\ Len(form[r].parts) + 1 <= Limit("fields") /\ form[r].total + k <= Limit("body")
        /\ k <= Limit("text")
    BY <1>2, <2>3, <2>4, <2>5 DEF TooMany
  <2>7. Sound("next", f, cur[r], bound[r], ops[r])
    BY <2>2, <2>6, TextSound
  <2>8. UNCHANGED <<task, saved, disk>> /\ pc[r] \in Parses /\ "next" \in Parses
    BY <1>2, <2>1 DEF Outside, Parses
  <2> HIDE DEF f
  <2> QED BY <2>1, <2>7, <2>8, ParseInv
<1> QED BY <1>1, <1>2 DEF TextField

LEMMA FileInv ==
  ASSUME UploadsInv, NEW r \in Request, NEW n \in Name, FileField(r, n) PROVE UploadsInv'
<1> DEFINE f == [form[r] EXCEPT !.parts = Append(@, Part(n, TRUE, 0))]
           c == [NoFile EXCEPT !.name = n, !.here = TRUE, !.id = Len(form[r].parts) + 1]
<1>1. CASE End(r, 422) \/ End(r, 400)
  BY <1>1, EndInv
<1>2. CASE /\ ~TooMany(r) /\ ~(Len(form[r].files) >= Limit("files"))
           /\ form' = [form EXCEPT ![r].parts = Append(@, Part(n, TRUE, 0))]
           /\ cur' = [cur EXCEPT ![r] = c] /\ Goto(r, "file") /\ UNCHANGED bound /\ Outside
  <2>1. pc[r] = "next" /\ Moves(r, "file", f, c, bound[r], ops[r])
    <3>1. form' = [form EXCEPT ![r] = f]
      BY <1>2
    <3> QED BY <1>2, <3>1, RequestSound DEF Goto, Outside, Moves, FileField
  <2>2. Sound("next", form[r], cur[r], bound[r], ops[r])
    BY <2>1, RequestSound
  <2>3. form[r].parts \in Seq(Parts) /\ form[r].files \in Seq(Files)
    BY <2>2 DEF Sound, Kinds, Forms
  <2>4. Limit("fields") \in Nat /\ Limit("files") \in Nat
    BY LimitNat DEF Limits
  <2>5. Len(form[r].parts) + 1 <= Limit("fields") /\ Len(form[r].files) < Limit("files")
    BY <1>2, <2>3, <2>4 DEF TooMany
  <2>6. Sound("file", f, c, bound[r], ops[r])
    BY <2>2, <2>5, FileSound
  <2>7. UNCHANGED <<task, saved, disk>> /\ pc[r] \in Parses /\ "file" \in Parses
    BY <1>2, <2>1 DEF Outside, Parses, Receives
  <2> HIDE DEF f, c
  <2> QED BY <2>1, <2>6, <2>7, ParseInv
<1> QED BY <1>1, <1>2 DEF FileField

LEMMA ChunkInv ==
  ASSUME UploadsInv, NEW r \in Request, NEW k \in Chunk, FileChunk(r, k) PROVE UploadsInv'
<1> DEFINE c == Received(cur[r], k)
           f == Enlarged(form[r], k, c)
           p == IF Len(c.buf) >= Flush THEN "flush" ELSE "file"
<1>1. CASE End(r, 413)
  BY <1>1, EndInv
<1>2. CASE /\ ~(c.size > Limit("file") \/ f.total > Limit("body"))
           /\ cur' = [cur EXCEPT ![r] = c] /\ form' = [form EXCEPT ![r] = f]
           /\ Goto(r, p) /\ UNCHANGED bound /\ Outside
  <2>1. pc[r] = "file" /\ Moves(r, p, f, c, bound[r], ops[r])
    BY <1>2, RequestSound DEF Goto, Outside, Moves, FileChunk
  <2>2. Sound("file", form[r], cur[r], bound[r], ops[r])
    BY <2>1, RequestSound
  <2>3. form[r] \in Forms /\ cur[r] \in Files /\ k \in Nat
    BY <2>2, UploadsAssumption DEF Sound, Kinds
  <2>4. c.size \in Nat /\ f.total \in Nat
    BY <2>3 DEF Received, Enlarged, Forms, Files
  <2>5. Limit("file") \in Nat /\ Limit("body") \in Nat
    BY LimitNat DEF Limits
  <2> HIDE DEF c, f
  <2>6. c.size <= Limit("file") /\ f.total <= Limit("body")
    BY <1>2, <2>4, <2>5
  <2>7. Sound(p, f, c, bound[r], ops[r])
    BY <2>2, <2>6, ChunkSound DEF c, f
  <2>8. UNCHANGED <<task, saved, disk>> /\ pc[r] \in Parses /\ p \in Parses
    BY <1>2, <2>1 DEF Outside, Parses, Receives
  <2> HIDE DEF p
  <2> QED BY <2>1, <2>7, <2>8, ParseInv
<1> QED BY <1>1, <1>2 DEF FileChunk, Received, Enlarged

LEMMA FlushInv == ASSUME UploadsInv, NEW r \in Request, FlushDone(r) PROVE UploadsInv'
<1>1. pc[r] = "flush" /\ Moves(r, "file", form[r], Flushed(cur[r]), bound[r], ops[r])
  BY RequestSound DEF Goto, Outside, Moves, FlushDone
<1>2. Sound("file", form[r], Flushed(cur[r]), bound[r], ops[r])
  BY <1>1, RequestSound, FlushSound
<1>3. UNCHANGED <<task, saved, disk>> /\ pc[r] \in Parses /\ "file" \in Parses
  BY <1>1 DEF Outside, Parses, Receives, FlushDone
<1> QED BY <1>1, <1>2, <1>3, ParseInv

LEMMA FileEndInv == ASSUME UploadsInv, NEW r \in Request, FileEnd(r) PROVE UploadsInv'
<1> DEFINE f == [form[r] EXCEPT !.files = Append(@, [Flushed(cur[r]) EXCEPT !.pos = 0])]
<1>1. pc[r] = "file" /\ Moves(r, "next", f, NoFile, bound[r], ops[r])
  <2>1. form' = [form EXCEPT ![r] = f]
    BY DEF FileEnd
  <2> HIDE DEF f
  <2> QED BY <2>1, RequestSound DEF Goto, Outside, Moves, FileEnd
<1>2. Sound("next", f, NoFile, bound[r], ops[r])
  BY <1>1, RequestSound, FileEndSound
<1>3. UNCHANGED <<task, saved, disk>> /\ pc[r] \in Parses /\ "next" \in Parses
  BY <1>1 DEF Outside, Parses, Receives, FileEnd
<1> HIDE DEF f
<1> QED BY <1>1, <1>2, <1>3, ParseInv

LEMMA BindInv == ASSUME UploadsInv, NEW r \in Request, Bind(r) PROVE UploadsInv'
<1> DEFINE fld == Model[Len(bound[r]) + 1]
           f == form[r]
           s == Taken(IF fld.file THEN f.files ELSE f.texts, fld)
           g == IF fld.file THEN [f EXCEPT !.files = Remaining(f.files, fld)]
                ELSE [f EXCEPT !.texts = Remaining(f.texts, fld)]
           b == Append(bound[r], Validate(fld, s))
<1>1. CASE \E status : End(r, status)
  BY <1>1, EndInv
<1>2. CASE /\ fld.required => s # <<>>
           /\ bound' = [bound EXCEPT ![r] = Append(@, Validate(fld, s))]
           /\ form' = [form EXCEPT ![r] = g]
           /\ UNCHANGED <<pc, cur>> /\ Outside
  <2>1. pc[r] = "bind" /\ Len(bound[r]) < Len(Model) /\ Moves(r, "bind", g, cur[r], b, ops[r])
    <3> HIDE DEF g
    <3>1. bound' = [bound EXCEPT ![r] = b]
      BY <1>2
    <3> HIDE DEF b
    <3> QED BY <1>2, <3>1, RequestSound DEF Outside, Moves, Bind
  <2>2. Sound("bind", f, cur[r], bound[r], ops[r])
    BY <2>1, RequestSound
  <2>3. Sound("bind", g, cur[r], b, ops[r])
    <3>1. CASE fld.file
      BY <1>2, <2>1, <2>2, <3>1, BindFileSound
    <3>2. CASE ~fld.file
      BY <1>2, <2>1, <2>2, <3>2, BindTextSound
    <3> QED BY <3>1, <3>2
  <2>4. UNCHANGED <<task, saved, disk>> /\ pc[r] \in Parses /\ "bind" \in Parses
    BY <1>2, <2>1 DEF Outside, Parses
  <2> HIDE DEF g, b
  <2> QED BY <2>1, <2>3, <2>4, ParseInv
<1> QED BY <1>1, <1>2 DEF Bind

LEMMA EnterInv == ASSUME UploadsInv, NEW r \in Request, Enter(r) PROVE UploadsInv'
<1> DEFINE f == [form[r] EXCEPT !.texts = <<>>, !.files = <<>>]
<1>1. CASE End(r, 422)
  BY <1>1, EndInv
<1>2. CASE /\ Goto(r, "handler") /\ form' = [form EXCEPT ![r].texts = <<>>, ![r].files = <<>>]
           /\ UNCHANGED <<cur, bound>> /\ Outside
  <2>1. pc[r] = "bind" /\ Len(bound[r]) = Len(Model)
    BY DEF Enter
  <2>2. Moves(r, "handler", f, cur[r], bound[r], ops[r])
    <3>1. form' = [form EXCEPT ![r] = f]
      BY <1>2 DEF UploadsInv, FormShape
    <3> HIDE DEF f
    <3> QED BY <1>2, <3>1, RequestSound DEF Goto, Outside, Moves
  <2>3. Sound("handler", f, cur[r], bound[r], ops[r])
    BY <2>1, RequestSound, EnterSound
  <2>4. UNCHANGED <<task, saved, disk>> /\ pc[r] \in Parses
    BY <1>2, <2>1 DEF Outside, Parses
  <2> HIDE DEF f
  <2> QED BY <2>2, <2>3, <2>4, ParseInv
<1> QED BY <1>1, <1>2 DEF Enter

-----------------------------------------------------------------------------
(* The handler and its saves *)

\* An upload of a handler is a file of the struct.
LEMMA UploadOf ==
  ASSUME UploadsInv, NEW r \in Request, NEW u \in Uploads(r)
  PROVE  /\ u = <<u[1], u[2]>> /\ u[1] \in DOMAIN bound[r] /\ Model[u[1]].file
         /\ u[1] \in Nat \ {0} /\ u[2] \in Nat
         /\ u[2] \in DOMAIN bound[r][u[1]] /\ bound[r][u[1]] \in Seq(Files)
         /\ At(r, u) \in Files
<1>1. u = <<u[1], u[2]>> /\ u[1] \in DOMAIN bound[r] /\ Model[u[1]].file
      /\ u[2] \in DOMAIN bound[r][u[1]]
  BY DEF Uploads
<1>2. Kinds(pc[r], form[r], cur[r], bound[r], ops[r])
  BY RequestSound DEF Sound
<1>3. bound[r] \in Seq(Seq(Texts \cup Files))
      /\ \A i \in 1 .. Len(bound[r]) : bound[r][i] \in Lists(i)
  BY <1>2 DEF Kinds
<1>4. DOMAIN bound[r] = 1 .. Len(bound[r]) /\ Len(bound[r]) \in Nat
  BY <1>3
<1>5. bound[r][u[1]] \in Seq(Files)
  BY <1>1, <1>3, <1>4 DEF Lists
<1>6. u[1] \in Nat \ {0} /\ u[2] \in Nat
  BY <1>1, <1>4, <1>5
<1>7. bound[r][u[1]][u[2]] \in Files
  BY <1>1, <1>5
<1> QED BY <1>1, <1>5, <1>6, <1>7 DEF At

\* An upload changes, but neither which it is nor its bytes.
Like(x, y) == x \in Files /\ x.id = y.id /\ x.size = y.size /\ x.data = y.data

\* Storing an upload that is like the one before.
LEMMA Alike ==
  ASSUME UploadsInv, NEW r \in Request, NEW u \in Uploads(r), NEW x, Like(x, At(r, u)),
         Store(r, u, x)
  PROVE  /\ Uploads(r)' = Uploads(r) /\ At(r, u)' = x
         /\ \A w \in Uploads(r) : At(r, w)'.id = At(r, w).id /\ At(r, w)'.size = At(r, w).size
         /\ \A q \in Request : q # r =>
              bound'[q] = bound[q] /\ Uploads(q)' = Uploads(q) /\ \A w : At(q, w)' = At(q, w)
<1> DEFINE i == u[1]
           j == u[2]
<1>1. /\ i \in DOMAIN bound[r] /\ j \in DOMAIN bound[r][i] /\ u = <<i, j>>
  BY UploadOf
<1>2. bound \in [Request -> Seq(Seq(Texts \cup Files))]
  BY DEF UploadsInv, FormShape
<1>3. bound' = [bound EXCEPT ![r] = [bound[r] EXCEPT ![i] = [bound[r][i] EXCEPT ![j] = x]]]
  BY DEF Store
<1> HIDE DEF i, j
<1>4. bound'[r] = [bound[r] EXCEPT ![i] = [bound[r][i] EXCEPT ![j] = x]]
      /\ \A q \in Request : q # r => bound'[q] = bound[q]
  BY <1>2, <1>3
<1>5. /\ DOMAIN bound'[r] = DOMAIN bound[r]
      /\ \A k \in DOMAIN bound[r] : DOMAIN bound'[r][k] = DOMAIN bound[r][k]
      /\ bound'[r][i][j] = x
      /\ \A k \in DOMAIN bound[r] : \A l \in DOMAIN bound[r][k] :
           ~(k = i /\ l = j) => bound'[r][k][l] = bound[r][k][l]
  BY <1>1, <1>4
<1>6. Uploads(r)' = Uploads(r)
  BY <1>5 DEF Uploads
<1>7. At(r, u)' = x
  BY <1>5 DEF At, i, j
<1>8. ASSUME NEW w \in Uploads(r)
      PROVE  At(r, w)'.id = At(r, w).id /\ At(r, w)'.size = At(r, w).size
  <2>1. w[1] \in DOMAIN bound[r] /\ w[2] \in DOMAIN bound[r][w[1]] /\ w = <<w[1], w[2]>>
    BY UploadOf
  <2>2. CASE w[1] = i /\ w[2] = j
    BY <1>1, <1>7, <2>1, <2>2 DEF Like
  <2>3. CASE ~(w[1] = i /\ w[2] = j)
    BY <1>5, <2>1, <2>3 DEF At
  <2> QED BY <2>2, <2>3
<1>9. ASSUME NEW q \in Request, q # r
      PROVE  bound'[q] = bound[q] /\ Uploads(q)' = Uploads(q) /\ \A w : At(q, w)' = At(q, w)
  BY <1>4, <1>9 DEF Uploads, At
<1> QED BY <1>6, <1>7, <1>8, <1>9

\* What was saved stays as it is, as long as the file and the upload do.
LEMMA RestsKept ==
  ASSUME UploadsInv, NEW s \in saved, disk'[s[1]] = disk[s[1]],
         \A q \in Request : Uploads(q)' = Uploads(q)
           /\ \A w \in Uploads(q) : At(q, w)'.id = At(q, w).id /\ At(q, w)'.size = At(q, w).size,
         \A q \in Request : bound'[q] # <<>> => bound[q] # <<>>
  PROVE  Rests(s)'
<1>1. Rests(s) /\ s[2] \in Request
  BY DEF UploadsInv, SaveShape
<1> QED BY <1>1 DEF Rests

\* A save of another request works on.
LEMMA OthersWork ==
  ASSUME UploadsInv, NEW q \in Request, task'[q] = task[q], pc'[q] = pc[q],
         Uploads(q)' = Uploads(q), \A w : At(q, w)' = At(q, w),
         task[q].open => /\ disk'[task[q].path].by = disk[task[q].path].by
                         /\ disk'[task[q].path].id = disk[task[q].path].id
  PROVE  Works(q)'
<1>1. Works(q)
  BY DEF UploadsInv
<1> QED BY <1>1 DEF Works

\* The requests stay right when an upload is stored.
LEMMA StoreRight ==
  ASSUME UploadsInv, NEW r \in Request, NEW u \in Uploads(r), NEW x, Like(x, At(r, u)),
         Store(r, u, x), pc[r] \in Handles, NEW p \in Handles, NEW m \in Nat \ {0},
         pc' = [pc EXCEPT ![r] = p], UNCHANGED <<form, cur>>, ops' = [ops EXCEPT ![r] = m]
  PROVE  /\ FormShape' /\ \A q \in Request : Right(q)'
         /\ pc'[r] = p /\ \A q \in Request : q # r => pc'[q] = pc[q]
<1> DEFINE b == [bound[r] EXCEPT ![u[1]][u[2]] = x]
<1>1. Moves(r, p, form[r], cur[r], b, m)
  <2>1. bound' = [bound EXCEPT ![r] = b]
    BY DEF Store
  <2> HIDE DEF b
  <2> QED BY <2>1, RequestSound DEF Moves
<1>2. /\ u[1] \in DOMAIN bound[r] /\ Model[u[1]].file /\ u[2] \in DOMAIN bound[r][u[1]]
      /\ x \in Files /\ x.data = bound[r][u[1]][u[2]].data /\ x.size = bound[r][u[1]][u[2]].size
  BY UploadOf DEF Like, At
<1>3. Sound(p, form[r], cur[r], b, m)
  BY <1>2, RequestSound, StoreSound
<1> HIDE DEF b
<1> QED BY <1>1, <1>3, MovedRight

LEMMA AccessInv ==
  ASSUME UploadsInv, NEW r \in Request, NEW u \in Uploads(r), Access(r, u) PROVE UploadsInv'
<1>1. pc[r] = "handler" /\ ops' = [ops EXCEPT ![r] = ops[r] + 1] /\ ops[r] + 1 \in Nat \ {0}
      /\ UNCHANGED <<pc, form, cur, task, saved, disk>>
  BY DEF Access, Call, UploadsInv, FormShape
<1>2. PICK x : Like(x, At(r, u)) /\ Store(r, u, x)
  <2> DEFINE a == At(r, u)
  <2>1. a \in Files
    BY UploadOf
  <2> HIDE DEF a
  <2>2. \A pos \in Nat, here \in BOOLEAN : /\ Like([a EXCEPT !.pos = pos], a)
                                           /\ Like([a EXCEPT !.here = here], a)
    BY <2>1 DEF Like, Files
  <2>3. a.size \in Nat /\ 0 \in Nat
    BY <2>1 DEF Files
  <2>4. ASSUME NEW k \in Chunk PROVE Min({a.pos + k, a.size}) \in Nat
    <3>1. PICK l \in Nat, m \in Nat : l = a.pos + k /\ m = a.size
      BY <2>1, UploadsAssumption DEF Files
    <3>2. Min({l, m}) \in {l, m}
      <4>1. \E z \in {l, m} : \A y \in {l, m} : z <= y
        OBVIOUS
      <4> QED BY <4>1 DEF Min
    <3> QED BY <3>1, <3>2
  <2>5. \/ Store(r, u, [a EXCEPT !.pos = a.size])
        \/ \E k \in Chunk : Store(r, u, [a EXCEPT !.pos = Min({@ + k, a.size})])
        \/ Store(r, u, [a EXCEPT !.pos = 0])
        \/ Store(r, u, [a EXCEPT !.here = FALSE])
    BY DEF Access, a
  <2>6. CASE Store(r, u, [a EXCEPT !.pos = a.size])
    BY <2>2, <2>3, <2>6 DEF a
  <2>7. CASE \E k \in Chunk : Store(r, u, [a EXCEPT !.pos = Min({@ + k, a.size})])
    <3>1. PICK k \in Chunk : Store(r, u, [a EXCEPT !.pos = Min({a.pos + k, a.size})])
      BY <2>1, <2>7 DEF Files
    <3> QED BY <2>2, <2>4, <3>1 DEF a
  <2>8. CASE Store(r, u, [a EXCEPT !.pos = 0])
    BY <2>2, <2>3, <2>8 DEF a
  <2>9. CASE Store(r, u, [a EXCEPT !.here = FALSE])
    BY <2>2, <2>9 DEF a
  <2> QED BY <2>5, <2>6, <2>7, <2>8, <2>9
<1>3. pc' = [pc EXCEPT ![r] = "handler"] /\ "handler" \in Handles
  BY <1>1, RequestSound DEF Handles
<1>4. FormShape' /\ \A q \in Request : Right(q)'
  BY <1>1, <1>2, <1>3, StoreRight
<1>5. /\ Uploads(r)' = Uploads(r)
      /\ \A w \in Uploads(r) : At(r, w)'.id = At(r, w).id /\ At(r, w)'.size = At(r, w).size
      /\ \A q \in Request : q # r =>
           bound'[q] = bound[q] /\ Uploads(q)' = Uploads(q) /\ \A w : At(q, w)' = At(q, w)
  BY <1>2, Alike
<1>6. ASSUME NEW q \in Request PROVE Works(q)'
  <2>1. CASE q # r
    BY <1>1, <1>5, <2>1, OthersWork
  <2>2. CASE q = r
    <3>1. Works(r)
      BY DEF UploadsInv
    <3> QED BY <1>1, <2>2, <3>1 DEF Works
  <2> QED BY <2>1, <2>2
<1>7. bound[r] # <<>>
  BY UploadOf
<1>8. ASSUME NEW s \in saved PROVE Rests(s)' /\ Guarded(s)'
  <2>1. Rests(s)'
    BY <1>1, <1>5, <1>7, RestsKept
  <2>2. Guarded(s)
    BY DEF UploadsInv
  <2> QED BY <1>1, <2>1, <2>2 DEF Guarded
<1>9. SaveShape'
  BY <1>1 DEF UploadsInv, SaveShape
<1> QED BY <1>1, <1>4, <1>6, <1>8, <1>9 DEF UploadsInv

\* An upload holds the bytes of its part, whatever was done with it.
LEMMA Bytewise ==
  ASSUME UploadsInv, NEW r \in Request, NEW u \in Uploads(r)
  PROVE  /\ At(r, u).data = Bytes(0, At(r, u).size) /\ Len(At(r, u).data) = At(r, u).size
         /\ At(r, u).data \in Seq(Nat) /\ At(r, u).id \in Nat
<1>1. Bound(pc[r], form[r], bound[r], ops[r]) /\ bound[r] \in Seq(Seq(Texts \cup Files))
  BY RequestSound DEF Sound, Kinds
<1>2. u[1] \in 1 .. Len(bound[r])
  BY <1>1, UploadOf
<1>3. At(r, u).data = Bytes(0, At(r, u).size)
  BY <1>1, <1>2, UploadOf DEF Bound, At
<1>4. At(r, u).size \in Nat /\ At(r, u).id \in Nat
  BY UploadOf DEF Files
<1>5. \A k \in Nat : Len(Bytes(0, k)) = k /\ Bytes(0, k) \in Seq(Nat)
  <2>1. 0 \in Nat
    OBVIOUS
  <2> QED BY <2>1, BytesOf
<1> QED BY <1>3, <1>4, <1>5

LEMMA SaveInv ==
  ASSUME UploadsInv, NEW r \in Request, NEW u \in Uploads(r), NEW p \in Path, Save(r, u, p)
  PROVE  UploadsInv'
<1> DEFINE a == At(r, u)
           x == [a EXCEPT !.here = FALSE]
           t == [NoTask EXCEPT !.path = p, !.field = u[1], !.nth = u[2],
                       !.id = a.id, !.data = a.data]
<1>1. pc[r] = "handler" /\ ops' = [ops EXCEPT ![r] = ops[r] + 1] /\ ops[r] + 1 \in Nat \ {0}
      /\ task[r] = NoTask /\ UNCHANGED <<form, cur, saved, disk>>
  BY DEF Save, Call, UploadsInv, FormShape
<1>2. CASE UNCHANGED <<pc, bound, task>>
  <2>1. Moves(r, "handler", form[r], cur[r], bound[r], ops[r] + 1)
    BY <1>1, <1>2, RequestSound DEF Moves
  <2>2. Sound("handler", form[r], cur[r], bound[r], ops[r] + 1)
    <3>1. "handler" \in Handles
      BY DEF Handles
    <3> QED BY <1>1, <3>1, RequestSound, CallSound
  <2>3. FormShape' /\ \A q \in Request : Right(q)'
    BY <2>1, <2>2, MovedRight
  <2>4. SaveShape'
    BY <1>1, <1>2 DEF UploadsInv, SaveShape
  <2>5. ASSUME NEW q \in Request PROVE Works(q)'
    BY <1>1, <1>2, OthersWork DEF Uploads, At
  <2>6. ASSUME NEW s \in saved PROVE Rests(s)' /\ Guarded(s)'
    <3>1. Rests(s) /\ Guarded(s)
      BY DEF UploadsInv
    <3> QED BY <1>1, <1>2, <3>1 DEF Rests, Guarded, Uploads, At
  <2> QED BY <1>1, <2>3, <2>4, <2>5, <2>6 DEF UploadsInv
<1>3. CASE /\ task' = [task EXCEPT ![r] = t] /\ Store(r, u, x) /\ Goto(r, "saving")
  <2>1. a \in Files /\ u = <<u[1], u[2]>> /\ u[1] \in Nat \ {0} /\ u[2] \in Nat
    BY UploadOf
  <2>2. /\ a.data \in Seq(Nat) /\ a.id \in Nat /\ a.data = Bytes(0, a.size) /\ Len(a.data) = a.size
    BY Bytewise
  <2>3. a.data = Bytes(0, Len(a.data))
    BY <2>2
  <2> HIDE DEF a
  <2>4. Like(x, a) /\ x.id = a.id /\ x.data = a.data
    BY <2>1 DEF Like, Files
  <2>5. /\ t \in Saves /\ t.path = p /\ t.field = u[1] /\ t.nth = u[2] /\ t.id = a.id
        /\ t.data = a.data /\ t.open = FALSE
    <3>1. NoTask \in Saves
      BY DEF NoTask, Saves
    <3>2. NoTask.open = FALSE
      BY DEF NoTask
    <3> QED BY <2>1, <2>2, <3>1, <3>2 DEF Saves
  <2> HIDE DEF t, x
  <2>6. t # NoTask
    BY <2>1, <2>5 DEF NoTask
  <2>7. task \in [Request -> Saves] /\ task'[r] = t
        /\ \A q \in Request : q # r => task'[q] = task[q]
    BY <1>3 DEF UploadsInv, SaveShape
  <2>8. pc' = [pc EXCEPT ![r] = "saving"] /\ pc[r] \in Handles /\ "saving" \in Handles
    BY <1>1, <1>3 DEF Goto, Handles
  <2>9. /\ FormShape' /\ \A q \in Request : Right(q)'
        /\ pc'[r] = "saving" /\ \A q \in Request : q # r => pc'[q] = pc[q]
    BY <1>1, <1>3, <2>4, <2>8, StoreRight DEF a
  <2>10. /\ Uploads(r)' = Uploads(r) /\ At(r, u)' = x
         /\ \A w \in Uploads(r) : At(r, w)'.id = At(r, w).id /\ At(r, w)'.size = At(r, w).size
         /\ \A q \in Request : q # r =>
              bound'[q] = bound[q] /\ Uploads(q)' = Uploads(q) /\ \A w : At(q, w)' = At(q, w)
    BY <1>3, <2>4, Alike DEF a
  <2>11. SaveShape'
    BY <1>1, <1>3, <2>5 DEF UploadsInv, SaveShape
  <2>12. ASSUME NEW q \in Request PROVE Works(q)'
    <3>1. CASE q # r
      BY <1>1, <2>7, <2>9, <2>10, <3>1, OthersWork
    <3>2. CASE q = r
      <4>1. /\ task'[r].path = p /\ task'[r].field = u[1] /\ task'[r].nth = u[2]
            /\ task'[r].id = a.id /\ task'[r].data = a.data /\ task'[r].open = FALSE
            /\ task'[r] # NoTask
        BY <2>5, <2>6, <2>7
      <4>2. <<task'[r].field, task'[r].nth>> = u
        BY <2>1, <4>1
      <4>3. u \in Uploads(r)' /\ At(r, u)'.id = a.id /\ At(r, u)'.data = a.data
        BY <2>4, <2>10
      <4>4. /\ <<task'[r].field, task'[r].nth>> \in Uploads(r)'
            /\ At(r, <<task[r].field, task[r].nth>>)' = At(r, u)'
        BY <4>2, <4>3 DEF At
      <4> QED BY <2>3, <2>9, <3>2, <4>1, <4>3, <4>4 DEF Works
    <3> QED BY <3>1, <3>2
  <2>13. bound[r] # <<>>
    BY UploadOf
  <2>14. ASSUME NEW s \in saved PROVE Rests(s)' /\ Guarded(s)'
    <3>1. Rests(s)'
      BY <1>1, <2>10, <2>13, RestsKept
    <3>2. Guarded(s) /\ s[2] \in Request
      BY DEF UploadsInv, SaveShape
    <3>3. Guarded(s)'
      BY <2>5, <2>7, <2>9, <3>2 DEF Guarded, Handles
    <3> QED BY <3>1, <3>3
  <2> QED BY <1>1, <2>9, <2>11, <2>12, <2>14 DEF UploadsInv
<1> QED BY <1>2, <1>3 DEF Save

-----------------------------------------------------------------------------
(* The end of a save *)

\* What the end of a save leaves as it was, for the requests and their uploads.
Handed(r) ==
  /\ FormShape' /\ \A q \in Request : Right(q)'
  /\ pc'[r] \in {"handler", "done"} /\ \A q \in Request : q # r => pc'[q] = pc[q]
  /\ \A q \in Request : Uploads(q)' = Uploads(q)
       /\ \A w \in Uploads(q) : At(q, w)'.id = At(q, w).id /\ At(q, w)'.size = At(q, w).size
  /\ \A q \in Request : q # r => \A w : At(q, w)' = At(q, w)
  /\ \A q \in Request : bound'[q] # <<>> => bound[q] # <<>>

Alive(r, x) == pc[r] = "saving" => Like(x, At(r, <<task[r].field, task[r].nth>>))

\* The result of a save comes back, or nobody waits for it.
LEMMA ReturnRight ==
  ASSUME UploadsInv, NEW r \in Request, task[r] # NoTask, NEW x, SaveReturns(r, x), Alive(r, x),
         UNCHANGED <<form, cur, ops>>
  PROVE  Handed(r)
<1>0. Works(r)
  BY DEF UploadsInv
<1>1. CASE pc[r] = "saving"
  <2> DEFINE u == <<task[r].field, task[r].nth>>
  <2>1. u \in Uploads(r) /\ Like(x, At(r, u))
    BY <1>0, <1>1 DEF Works, Alive
  <2>2. Store(r, u, x) /\ pc' = [pc EXCEPT ![r] = "handler"]
    BY <1>1 DEF SaveReturns, Goto
  <2> HIDE DEF u
  <2>3. ops' = [ops EXCEPT ![r] = ops[r]] /\ ops[r] \in Nat \ {0}
    <3>1. Sound("saving", form[r], cur[r], bound[r], ops[r])
      BY <1>1, RequestSound
    <3>2. ops[r] \in Nat /\ ops[r] > 0
      BY <3>1 DEF Sound, Kinds, Bound
    <3> QED BY <3>2, RequestSound
  <2>4. pc[r] \in Handles /\ "handler" \in Handles
    BY <1>1 DEF Handles
  <2>5. /\ FormShape' /\ \A q \in Request : Right(q)'
        /\ pc'[r] = "handler" /\ \A q \in Request : q # r => pc'[q] = pc[q]
    BY <2>1, <2>2, <2>3, <2>4, StoreRight
  <2>6. /\ Uploads(r)' = Uploads(r)
        /\ \A w \in Uploads(r) : At(r, w)'.id = At(r, w).id /\ At(r, w)'.size = At(r, w).size
        /\ \A q \in Request : q # r =>
             bound'[q] = bound[q] /\ Uploads(q)' = Uploads(q) /\ \A w : At(q, w)' = At(q, w)
    BY <2>1, <2>2, Alike
  <2>7. bound[r] # <<>>
    BY <2>1, UploadOf
  <2>8. ASSUME NEW q \in Request
        PROVE  /\ Uploads(q)' = Uploads(q)
               /\ \A w \in Uploads(q) : At(q, w)'.id = At(q, w).id /\ At(q, w)'.size = At(q, w).size
               /\ bound'[q] # <<>> => bound[q] # <<>>
    BY <2>6, <2>7
  <2> QED BY <2>5, <2>6, <2>8 DEF Handed
<1>2. CASE pc[r] # "saving"
  <2>1. UNCHANGED <<pc, bound>>
    BY <1>2 DEF SaveReturns
  <2>2. pc[r] = "done"
    BY <1>0, <1>2 DEF Works
  <2>3. FormShape' /\ \A q \in Request : Right(q)'
    BY <2>1 DEF UploadsInv, FormShape, Right
  <2>4. ASSUME NEW q \in Request
        PROVE  Uploads(q)' = Uploads(q) /\ \A w : At(q, w)' = At(q, w)
    BY <2>1 DEF Uploads, At
  <2>5. \A q \in Request : \A w \in Uploads(q) :
          At(q, w)'.id = At(q, w).id /\ At(q, w)'.size = At(q, w).size
    BY <2>1 DEF At
  <2> QED BY <2>1, <2>2, <2>3, <2>4, <2>5 DEF Handed
<1> QED BY <1>1, <1>2

\* When a save ends, all it may have changed is what it wrote to its destination.
LEMMA TaskEnds ==
  ASSUME UploadsInv, NEW r \in Request, task[r] # NoTask, Handed(r),
         task' = [task EXCEPT ![r] = NoTask], DOMAIN disk' = Path,
         \A p \in Path : disk'[p] # disk[p] =>
           /\ task[r].open /\ task[r].path = p
           /\ disk'[p].by = disk[p].by /\ disk'[p].id = disk[p].id
  PROVE  /\ task' \in [Request -> Saves] /\ \A q \in Request : Works(q)'
         /\ \A s \in saved : Rests(s)' /\ Guarded(s)'
<1>1. NoTask \in Saves /\ NoTask.open = FALSE
  BY DEF NoTask, Saves
<1>2. /\ task \in [Request -> Saves] /\ task' \in [Request -> Saves] /\ task'[r] = NoTask
      /\ \A q \in Request : q # r => task'[q] = task[q]
  BY <1>1 DEF UploadsInv, SaveShape
<1>3. ASSUME NEW q \in Request PROVE Works(q)'
  <2>1. CASE q = r
    <3>1. pc'[r] # "saving"
      BY DEF Handed
    <3> QED BY <1>1, <1>2, <2>1, <3>1 DEF Works
  <2>2. CASE q # r
    <3>1. /\ Uploads(q)' = Uploads(q) /\ pc'[q] = pc[q] /\ task'[q] = task[q]
          /\ \A w : At(q, w)' = At(q, w)
      BY <1>2, <2>2 DEF Handed
    <3>2. task[q].open => /\ disk'[task[q].path].by = disk[task[q].path].by
                          /\ disk'[task[q].path].id = disk[task[q].path].id
      <4>1. task[q].open => task[q].path \in Path
        BY DEF UploadsInv, Works
      <4> QED BY <4>1
    <3> QED BY <3>1, <3>2, OthersWork
  <2> QED BY <2>1, <2>2
<1>4. ASSUME NEW s \in saved PROVE Rests(s)' /\ Guarded(s)'
  <2>1. Guarded(s) /\ s[1] \in Path /\ s[2] \in Request
    BY DEF UploadsInv, SaveShape
  <2>2. disk'[s[1]] = disk[s[1]]
    BY <2>1 DEF Guarded
  <2>3. Rests(s)'
    BY <2>2, RestsKept DEF Handed
  <2>4. pc'[s[2]] \in Handles \cup {"done"}
    BY <2>1 DEF Handed, Guarded, Handles
  <2>5. \A q \in Request : task'[q].open => task'[q].path # s[1]
    BY <1>1, <1>2, <2>1 DEF Guarded
  <2> QED BY <2>3, <2>4, <2>5 DEF Guarded
<1> QED BY <1>2, <1>3, <1>4

\* A save that fails loses the spool but not the identity of the upload.
LEMMA LostAlive == ASSUME UploadsInv, NEW r \in Request PROVE Alive(r, Lost(r))
<1>1. CASE pc[r] = "saving"
  <2> DEFINE u == <<task[r].field, task[r].nth>>
             a == At(r, u)
  <2>1. u \in Uploads(r)
    BY <1>1 DEF UploadsInv, Works
  <2>2. Lost(r) = [a EXCEPT !.here = FALSE]
    BY <1>1 DEF Lost, At
  <2> HIDE DEF u
  <2>3. a \in Files
    BY <2>1, UploadOf
  <2> HIDE DEF a
  <2>4. Like([a EXCEPT !.here = FALSE], a)
    BY <2>3 DEF Like, Files
  <2> QED BY <2>2, <2>4 DEF Alive, a, u
<1> QED BY <1>1 DEF Alive

LEMMA OpenInv == ASSUME UploadsInv, NEW r \in Request, OpenFile(r) PROVE UploadsInv'
<1> DEFINE p == task[r].path
           t == [task[r] EXCEPT !.open = TRUE]
<1>1. /\ task[r] # NoTask /\ ~task[r].open /\ UNCHANGED <<form, cur, ops, saved>>
      /\ Works(r) /\ task[r] \in Saves /\ p \in Path /\ SaveShape /\ saved' = saved
  BY DEF OpenFile, UploadsInv, SaveShape, Works
<1>2. CASE /\ MayOpen(p) /\ disk' = [disk EXCEPT ![p] =
                           [by |-> r, id |-> task[r].id, data |-> <<>>]]
           /\ task' = [task EXCEPT ![r].open = TRUE] /\ UNCHANGED <<pc, bound>>
  <2>1. /\ t \in Saves /\ t.path = p /\ t.id = task[r].id /\ t.data = task[r].data
        /\ t.field = task[r].field /\ t.nth = task[r].nth /\ t.open = TRUE
    BY <1>1 DEF Saves
  <2>2. t # NoTask
    <3>1. NoTask.open = FALSE
      BY DEF NoTask
    <3> QED BY <2>1, <3>1
  <2>3. task' = [task EXCEPT ![r] = t]
    BY <1>2
  <2> HIDE DEF t
  <2>4. /\ task' \in [Request -> Saves] /\ task'[r] = t
        /\ \A q \in Request : q # r => task'[q] = task[q]
    BY <1>1, <2>1, <2>3 DEF SaveShape
  <2> HIDE DEF p
  <2>5. /\ disk'[p].by = r /\ disk'[p].id = task[r].id /\ DOMAIN disk' = Path
        /\ \A w \in Path : w # p => disk'[w] = disk[w]
    BY <1>1, <1>2 DEF SaveShape
  <2>6. disk[p].by \notin Request
    BY <1>2, UploadsAssumption DEF MayOpen, Nobody
  <2>7. FormShape' /\ \A q \in Request : Right(q)'
    BY <1>1, <1>2 DEF UploadsInv, FormShape, Right
  <2>8. ASSUME NEW q \in Request
        PROVE  Uploads(q)' = Uploads(q) /\ pc'[q] = pc[q] /\ \A w : At(q, w)' = At(q, w)
    BY <1>2 DEF Uploads, At
  <2>9. ASSUME NEW q \in Request PROVE Works(q)'
    <3>1. Works(q)
      BY DEF UploadsInv
    <3>2. CASE q = r
      <4>1. pc'[r] = pc[r]
        BY <1>2
      <4>2. pc[r] = "saving" =>
              /\ <<task'[r].field, task'[r].nth>> \in Uploads(r)'
              /\ At(r, <<task[r].field, task[r].nth>>)'.id = task'[r].id
              /\ At(r, <<task[r].field, task[r].nth>>)'.data = task'[r].data
        <5>1. task'[r].field = task[r].field /\ task'[r].nth = task[r].nth
              /\ task'[r].id = task[r].id /\ task'[r].data = task[r].data
          BY <2>1, <2>4
        <5> QED BY <1>1, <1>2, <2>8, <5>1 DEF Works, At
      <4>3. /\ task'[r] # NoTask /\ task'[r].path = p /\ p \in Path
            /\ task'[r].data = Bytes(0, Len(task'[r].data))
            /\ disk'[task'[r].path].by = r /\ disk'[task'[r].path].id = task'[r].id
        BY <1>1, <2>1, <2>2, <2>4, <2>5 DEF Works
      <4>4. pc'[r] \in {"saving", "done"}
        BY <1>1, <4>1 DEF Works
      <4> QED BY <3>2, <4>1, <4>2, <4>3, <4>4 DEF Works
    <3>3. CASE q # r
      <4>1. task[q].open => task[q].path \in Path /\ disk[task[q].path].by = q
        BY <3>1 DEF Works
      <4>2. task[q].open => disk'[task[q].path] = disk[task[q].path]
        BY <2>5, <2>6, <4>1
      <4> QED BY <2>4, <2>8, <3>3, <4>2, OthersWork
    <3> QED BY <3>2, <3>3
  <2>10. ASSUME NEW s \in saved PROVE Rests(s)' /\ Guarded(s)'
    <3>1. Rests(s) /\ Guarded(s) /\ s[1] \in Path /\ s[2] \in Request
      BY DEF UploadsInv, SaveShape
    <3>2. s[1] # p
      BY <2>6, <3>1 DEF Rests
    <3>3. disk'[s[1]] = disk[s[1]]
      BY <2>5, <3>1, <3>2
    <3>4. Rests(s)'
      BY <1>2, <2>8, <3>3, RestsKept
    <3>5. pc'[s[2]] \in Handles \cup {"done"}
      BY <1>2, <3>1 DEF Guarded
    <3>6. \A q \in Request : task'[q].open => task'[q].path # s[1]
      BY <2>1, <2>4, <3>1, <3>2 DEF Guarded
    <3> QED BY <3>4, <3>5, <3>6 DEF Guarded
  <2>11. SaveShape'
    BY <1>1, <2>4, <2>5 DEF SaveShape
  <2> QED BY <1>1, <2>7, <2>9, <2>10, <2>11 DEF UploadsInv
<1>3. CASE SaveReturns(r, Lost(r)) /\ task' = [task EXCEPT ![r] = NoTask] /\ UNCHANGED disk
  <2>1. Handed(r)
    BY <1>1, <1>3, LostAlive, ReturnRight
  <2>2. DOMAIN disk' = Path /\ disk' = disk
    BY <1>1, <1>3 DEF SaveShape
  <2>3. /\ task' \in [Request -> Saves] /\ \A q \in Request : Works(q)'
        /\ \A s \in saved : Rests(s)' /\ Guarded(s)'
    BY <1>1, <1>3, <2>1, <2>2, TaskEnds
  <2>4. SaveShape'
    BY <1>1, <2>2, <2>3 DEF SaveShape
  <2> QED BY <1>1, <2>1, <2>3, <2>4 DEF UploadsInv, Handed
<1> QED BY <1>2, <1>3 DEF OpenFile

LEMMA CopyInv == ASSUME UploadsInv, NEW r \in Request, Copy(r) PROVE UploadsInv'
<1> DEFINE t == task[r]
           u == <<t.field, t.nth>>
           x == [bound[r][t.field][t.nth] EXCEPT !.here = TRUE, !.pos = Len(t.data)]
           new == <<t.path, r, t.id>>
<1>1. /\ task[r] # NoTask /\ task[r].open /\ UNCHANGED <<form, cur, ops>>
      /\ task' = [task EXCEPT ![r] = NoTask] /\ Works(r) /\ SaveShape
      /\ t.path \in Path /\ disk[t.path].by = r /\ disk[t.path].id = t.id
      /\ t.data = Bytes(0, Len(t.data)) /\ t \in Saves
  BY DEF Copy, UploadsInv, SaveShape, Works
<1>2. ASSUME NEW d, disk' = [disk EXCEPT ![t.path].data = d]
      PROVE  /\ DOMAIN disk' = Path
             /\ \A p \in Path : disk'[p] # disk[p] =>
                  /\ task[r].open /\ task[r].path = p
                  /\ disk'[p].by = disk[p].by /\ disk'[p].id = disk[p].id
  BY <1>1, <1>2 DEF SaveShape
<1>3. CASE /\ \E k \in 0 .. Len(t.data) :
                disk' = [disk EXCEPT ![t.path].data = SubSeq(t.data, 1, k)]
           /\ SaveReturns(r, Lost(r)) /\ UNCHANGED saved
  <2>1. Handed(r)
    BY <1>1, <1>3, LostAlive, ReturnRight
  <2>2. PICK d : disk' = [disk EXCEPT ![t.path].data = d]
    BY <1>3
  <2>3. /\ DOMAIN disk' = Path
        /\ \A p \in Path : disk'[p] # disk[p] =>
             /\ task[r].open /\ task[r].path = p
             /\ disk'[p].by = disk[p].by /\ disk'[p].id = disk[p].id
    BY <1>2, <2>2
  <2>4. /\ task' \in [Request -> Saves] /\ \A q \in Request : Works(q)'
        /\ \A s \in saved : Rests(s)' /\ Guarded(s)'
    BY <1>1, <2>1, <2>3, TaskEnds
  <2>5. SaveShape' /\ saved' = saved
    BY <1>1, <1>3, <2>3, <2>4 DEF SaveShape
  <2> QED BY <2>1, <2>4, <2>5 DEF UploadsInv, Handed
<1>4. CASE /\ disk' = [disk EXCEPT ![t.path].data = t.data]
           /\ IF pc[r] = "saving" THEN saved' = saved \cup {new} /\ SaveReturns(r, x)
              ELSE UNCHANGED <<saved, pc, bound>>
  <2>1. SaveReturns(r, x)
    BY <1>4 DEF SaveReturns
  <2>2. pc[r] = "saving" => u \in Uploads(r) /\ At(r, u).id = t.id /\ At(r, u).data = t.data
    BY <1>1 DEF Works
  <2>3. Alive(r, x)
    <3>1. CASE pc[r] = "saving"
      <4> DEFINE a == At(r, u)
      <4>1. a \in Files /\ Len(t.data) \in Nat
        <5>1. t.data \in Seq(Nat)
          BY <1>1 DEF Saves
        <5> QED BY <2>2, <3>1, <5>1, UploadOf
      <4>2. x = [a EXCEPT !.here = TRUE, !.pos = Len(t.data)]
        BY DEF At
      <4> HIDE DEF a, x
      <4>3. Like(x, a)
        BY <4>1, <4>2 DEF Like, Files
      <4> QED BY <4>3 DEF Alive, a
    <3> QED BY <3>1 DEF Alive
  <2> HIDE DEF x
  <2>4. Handed(r)
    BY <1>1, <2>1, <2>3, ReturnRight
  <2>5. /\ DOMAIN disk' = Path
        /\ \A p \in Path : disk'[p] # disk[p] =>
             /\ task[r].open /\ task[r].path = p
             /\ disk'[p].by = disk[p].by /\ disk'[p].id = disk[p].id
    BY <1>2, <1>4
  <2>6. /\ task' \in [Request -> Saves] /\ \A q \in Request : Works(q)'
        /\ \A s \in saved : Rests(s)' /\ Guarded(s)'
    BY <1>1, <2>4, <2>5, TaskEnds
  <2>7. CASE pc[r] # "saving"
    <3>1. saved' = saved
      BY <1>4, <2>7
    <3>2. SaveShape'
      BY <1>1, <2>5, <2>6, <3>1 DEF SaveShape
    <3> QED BY <2>4, <2>6, <3>1, <3>2 DEF UploadsInv, Handed
  <2>8. CASE pc[r] = "saving"
    <3>0. PICK v, s0 : v = u /\ s0 = new
      OBVIOUS
    <3>1. saved' = saved \cup {s0} /\ s0 \in Path \X Request \X Nat
          /\ s0[1] = t.path /\ s0[2] = r /\ s0[3] = t.id
      BY <1>1, <1>4, <2>8, <3>0 DEF Saves
    <3>2. disk'[t.path].by = r /\ disk'[t.path].id = t.id /\ disk'[t.path].data = t.data
      <4>1. disk[t.path].by = r /\ disk'[t.path].by = r /\ disk'[t.path].id = t.id
        BY <1>1, <2>5
      <4>2. disk'[t.path].data = t.data
        <5>1. disk'[t.path] = [disk[t.path] EXCEPT !.data = t.data]
          BY <1>1, <1>4 DEF SaveShape
        <5> QED BY <5>1
      <4> QED BY <4>1, <4>2
    <3> HIDE DEF u, new
    <3>3. v \in Uploads(r)' /\ At(r, v)'.id = t.id /\ At(r, v)'.size = Len(t.data)
      <4>1. v \in Uploads(r) /\ At(r, v).id = t.id /\ At(r, v).size = Len(t.data)
        BY <2>2, <2>8, <3>0, Bytewise
      <4>2. v \in Uploads(r)' /\ At(r, v)'.id = At(r, v).id /\ At(r, v)'.size = At(r, v).size
        BY <2>4, <4>1 DEF Handed
      <4> QED BY <4>1, <4>2
    <3>4. Rests(s0)'
      BY <1>1, <3>1, <3>2, <3>3 DEF Rests
    <3>5. Guarded(s0)'
      <4>1. pc'[r] \in Handles \cup {"done"}
        BY <2>4 DEF Handed, Handles
      <4>2. ASSUME NEW q \in Request, task'[q].open PROVE task'[q].path # t.path
        <5>1. CASE q = r
          BY <1>1, <4>2, <5>1 DEF SaveShape, NoTask
        <5>2. CASE q # r
          <6>1. task'[q] = task[q]
            BY <1>1, <5>2 DEF SaveShape
          <6>2. disk[task[q].path].by = q
            BY <4>2, <6>1 DEF UploadsInv, Works
          <6> QED BY <1>1, <5>2, <6>1, <6>2
        <5> QED BY <5>1, <5>2
      <4> QED BY <3>1, <4>1, <4>2 DEF Guarded
    <3>6. SaveShape'
      BY <1>1, <2>5, <2>6, <3>1 DEF SaveShape
    <3>7. ASSUME NEW s \in saved' PROVE Rests(s)' /\ Guarded(s)'
      BY <2>6, <3>1, <3>4, <3>5
    <3> QED BY <2>4, <2>6, <3>6, <3>7 DEF UploadsInv, Handed
  <2> QED BY <2>7, <2>8
<1> QED BY <1>3, <1>4 DEF Copy

-----------------------------------------------------------------------------
(* The invariant *)

\* The invariant holds at the start.
LEMMA UploadsInvInit == ASSUME UploadsInit PROVE UploadsInv
<1>1. NoTask \in Saves /\ NoTask.open = FALSE
  BY DEF NoTask, Saves
<1>2. ASSUME NEW r \in Request PROVE Right(r) /\ Works(r)
  <2>1. pc[r] = "head" /\ form[r] = NoForm /\ cur[r] = NoFile /\ bound[r] = <<>> /\ ops[r] = 0
        /\ task[r] = NoTask
    BY DEF UploadsInit
  <2>2. Sound("head", NoForm, NoFile, <<>>, 0)
    BY EmptySound
  <2> QED BY <1>1, <2>1, <2>2 DEF Right, Works
<1>3. FormShape
  <2>1. /\ "head" \in Phases /\ NoForm \in Forms /\ NoFile \in Files /\ 0 \in Nat
        /\ <<>> \in Seq(Seq(Texts \cup Files))
    BY EmptySound DEF Sound, Kinds
  <2> QED BY <2>1 DEF UploadsInit, FormShape
<1>4. SaveShape
  BY <1>1 DEF UploadsInit, SaveShape
<1> QED BY <1>2, <1>3, <1>4 DEF UploadsInit, UploadsInv

\* Every step keeps the invariant.
LEMMA UploadsInvNext == ASSUME UploadsInv, [UploadsNext]_uploads PROVE UploadsInv'
<1>1. CASE UNCHANGED uploads
  <2>1. UNCHANGED <<pc, form, cur, bound, ops, task, saved, disk>>
    BY <1>1 DEF uploads
  <2>2. FormShape' /\ SaveShape'
    BY <2>1 DEF UploadsInv, FormShape, SaveShape
  <2>3. \A r \in Request : Right(r)' /\ Works(r)'
    BY <2>1 DEF UploadsInv, Right, Works, Uploads, At
  <2>4. \A s \in saved : Rests(s)' /\ Guarded(s)'
    BY <2>1 DEF UploadsInv, Rests, Guarded, Uploads, At
  <2> QED BY <2>1, <2>2, <2>3, <2>4 DEF UploadsInv
<1>2. CASE UploadsNext
  <2>1. PICK r \in Request :
          \/ ParseHead(r) \/ BadBody(r) \/ FileEnd(r) \/ FlushDone(r) \/ FlushFails(r) \/ FormEnd(r)
          \/ \E n \in Name : FileField(r, n) \/ (\E k \in Chunk : TextField(r, n, k))
          \/ \E k \in Chunk : FileChunk(r, k)
          \/ Bind(r) \/ Enter(r)
          \/ \E u \in Uploads(r) : Access(r, u) \/ (\E p \in Path : Save(r, u, p))
          \/ OpenFile(r) \/ Copy(r)
          \/ Return(r) \/ Cancel(r)
    BY <1>2 DEF UploadsNext
  <2>2. CASE ParseHead(r)
    BY <2>2, HeadInv
  <2>3. CASE BadBody(r) \/ FlushFails(r) \/ Return(r) \/ Cancel(r)
    BY <2>3, EndInv DEF BadBody, FlushFails, Return, Cancel
  <2>4. CASE FileEnd(r)
    BY <2>4, FileEndInv
  <2>5. CASE FlushDone(r)
    BY <2>5, FlushInv
  <2>6. CASE FormEnd(r)
    BY <2>6, FormEndInv
  <2>7. CASE \E n \in Name : FileField(r, n) \/ (\E k \in Chunk : TextField(r, n, k))
    BY <2>7, FileInv, TextInv
  <2>8. CASE \E k \in Chunk : FileChunk(r, k)
    BY <2>8, ChunkInv
  <2>9. CASE Bind(r) \/ Enter(r)
    BY <2>9, BindInv, EnterInv
  <2>10. CASE \E u \in Uploads(r) : Access(r, u) \/ (\E p \in Path : Save(r, u, p))
    BY <2>10, AccessInv, SaveInv
  <2>11. CASE OpenFile(r) \/ Copy(r)
    BY <2>11, OpenInv, CopyInv
  <2> QED BY <2>1, <2>2, <2>3, <2>4, <2>5, <2>6, <2>7, <2>8, <2>9, <2>10, <2>11
<1> QED BY <1>1, <1>2

\* The invariant is inductive.
LEMMA UploadsInductive == UploadsSpec => []UploadsInv
<1>1. UploadsInit => UploadsInv
  BY UploadsInvInit
<1>2. UploadsInv /\ [UploadsNext]_uploads => UploadsInv'
  BY UploadsInvNext
<1> QED BY <1>1, <1>2, PTL DEF UploadsSpec

-----------------------------------------------------------------------------
(* What the requests and the destinations can rely on *)

\* No form ever exceeds a limit of the merged configuration, whatever the parts, their
\* order and the chunks they come in (multipart.rs: the checks of parse).
THEOREM WithinLimitsHolds == UploadsSpec => []WithinLimits
<1>1. UploadsInv => WithinLimits
  <2> SUFFICES ASSUME UploadsInv, NEW r \in Request
               PROVE  LET parts == form[r].parts
                          buf   == cur[r].buf IN
                      /\ Len(parts) <= Limit("fields")
                      /\ Cardinality({i \in DOMAIN parts : parts[i].file}) <= Limit("files")
                      /\ Cardinality(Held(parts)) <= Limit("body")
                      /\ \A i \in DOMAIN parts :
                           parts[i].size <= Limit(IF parts[i].file THEN "file" ELSE "text")
                      /\ Len(buf) < Flush \/ \E k \in Chunk : Len(buf) < Flush + k
    BY DEF WithinLimits
  <2>1. Limited(pc[r], form[r]) /\ Receiving(pc[r], form[r], cur[r])
    BY RequestSound DEF Sound
  <2>2. Len(cur[r].buf) < Flush \/ \E k \in Chunk : Len(cur[r].buf) < Flush + k
    <3>1. CASE pc[r] \in Receives
      BY <2>1, <3>1 DEF Receiving
    <3>2. CASE pc[r] \notin Receives
      <4>1. cur[r].buf = <<>>
        BY <2>1, <3>2 DEF Receiving, NoFile
      <4>2. Flush \in Nat \ {0}
        BY UploadsAssumption
      <4> QED BY <4>1, <4>2
    <3> QED BY <3>1, <3>2
  <2> QED BY <2>1, <2>2 DEF Limited, FilesOf
<1> QED BY <1>1, UploadsInductive, PTL

\* A handler starts with exactly what was sent: whole files, and for each field the
\* parts of its name and kind in their order (multipart.rs and the code that
\* #[derive(FormModel)] generates).
THEOREM BoundAsSentHolds == UploadsSpec => []BoundAsSent
<1>1. UploadsInv => BoundAsSent
  <2> SUFFICES ASSUME UploadsInv, NEW r \in Request, DistinctFields, pc[r] = "handler", ops[r] = 0,
                      NEW i \in DOMAIN Model
               PROVE  LET fld == Model[i]
                          sent == Sent(form[r].parts, fld.file, fld.name)
                          got == bound[r][i] IN
                      /\ {got[j].id : j \in DOMAIN got} = IF fld.many THEN sent ELSE Earliest(sent)
                      /\ \A j, k \in DOMAIN got : j < k => got[j].id < got[k].id
                      /\ fld.file => \A j \in DOMAIN got :
                           /\ got[j].data = Bytes(0, form[r].parts[got[j].id].size)
                           /\ got[j].pos = 0 /\ got[j].here
                      /\ fld.required => got # <<>>
    BY DEF BoundAsSent
  <2> DEFINE got == bound[r][i]
             parts == form[r].parts
  <2>1. Bound(pc[r], form[r], bound[r], ops[r])
    BY RequestSound DEF Sound
  <2>2. i \in 1 .. Len(bound[r])
    <3>1. Len(bound[r]) = Len(Model) /\ DOMAIN Model = 1 .. Len(Model)
      BY <2>1, UploadsAssumption DEF Bound, Handles
    <3> QED BY <3>1
  <2>3. Holds(parts, Model[i], got)
    BY <2>1, <2>2 DEF Bound
  <2> HIDE DEF got, parts
  <2>4. Model[i].file => \A j \in DOMAIN got :
          /\ got[j].data = Bytes(0, parts[got[j].id].size) /\ got[j].pos = 0 /\ got[j].here
    <3> SUFFICES ASSUME Model[i].file, NEW j \in DOMAIN got
                 PROVE  /\ got[j].data = Bytes(0, parts[got[j].id].size)
                        /\ got[j].pos = 0 /\ got[j].here
      OBVIOUS
    <3>1. Whole(parts, got[j])
      BY <2>3 DEF Holds
    <3>2. parts[got[j].id].size = got[j].size
      BY <3>1 DEF Whole, Part
    <3> QED BY <3>1, <3>2 DEF Whole
  <2> QED BY <2>3, <2>4 DEF Holds, IdsOf, Ordered, got, parts
<1> QED BY <1>1, UploadsInductive, PTL

\* A save that returned Ok is never taken away, and its destination holds all of the
\* upload, whoever else saves there (multipart.rs: save_to opens with create_new).
THEOREM SavedIsKeptHolds == UploadsSpec => []SavedIsKept
<1>1. UploadsInv => SavedIsKept
  BY DEF UploadsInv, Rests, SavedIsKept
<1> QED BY <1>1, UploadsInductive, PTL

=============================================================================
