------------------------------- MODULE Throttle -------------------------------
(****************************************************************************)
(* Rate limiting (tork-core/src/throttle): the engine that enforces a policy *)
(* for each request, and the store that counts hits per window, in memory or *)
(* in Redis.                                                                 *)
(*                                                                           *)
(* Time is in whole seconds, as unix_secs() reads it. A request reads the    *)
(* clock, then asks the store, once in a fixed window and twice in a sliding *)
(* one; others, and with a remote store time, move in between.               *)
(****************************************************************************)
EXTENDS Integers, Sequences, FiniteSets

CONSTANTS
  Route,     \* the routes that carry the policy
  Scope,     \* the scope the route macro gives each of them
  Key,       \* trackers: client addresses, users
  Configs,   \* the configurations an application may have
  Sweep,     \* SWEEP_THRESHOLD
  Precise,   \* what f64 tells apart: 2^50 leaves three roundings of 2^-53 room
  MaxDelay,  \* bound: seconds from reading the clock to Redis's last answer
  MaxTime    \* bound: the last second

Limit == [limit : Nat, window : Nat \ {0}]

\* A configuration: the limits the policy resolves to, in order; Throttle::sliding;
\* whether the store is Redis or the map of this process, and whether it may fail.
\* "load" is a bound: the requests that arrive in all. A sliding limit is one whose
\* estimates, which are multiples of 1/window, f64 keeps apart unless they are equal.
ConfigOK(c) ==
  /\ c.limits \in Seq(Limit) /\ c.limits # <<>>
  /\ c.sliding \in BOOLEAN /\ c.remote \in BOOLEAN /\ c.failing \in BOOLEAN
  /\ c.sliding => \A i \in DOMAIN c.limits : c.limits[i].limit * c.limits[i].window <= Precise
  /\ c.failing => c.remote
  /\ c.load \in Nat

ASSUME ConfigsAssumption == \A c \in Configs : ConfigOK(c)
ASSUME BoundAssumption == Sweep \in Nat /\ Precise \in Nat /\ MaxDelay \in Nat /\ MaxTime \in Nat

VARIABLES
  conf,      \* the configuration
  now,       \* seconds since the epoch
  req,       \* the requests, in the order they came
  store      \* the counters, by scope, limit, key and bucket

vars == <<conf, now, req, store>>

Under   == {"asking", "weighing"}
Request == DOMAIN req

Init ==
  /\ conf \in Configs
  /\ now = 0
  /\ req = <<>>
  /\ store = [k \in {} |-> 0]

-----------------------------------------------------------------------------
(* The store.                                                               *)

Live(k) == k \in DOMAIN store /\ store[k].expires > now

\* ThrottleStore::count, and the count that incr returns.
Count(k) == IF Live(k) THEN store[k].count ELSE 0

\* (Mutant) The map is never swept.
KeptAll == DOMAIN store

\* The entries an insertion leaves in place: Redis expires keys by itself, the
\* map is swept of expired ones once it has grown past the threshold.
Kept ==
  IF conf.remote \/ Cardinality(DOMAIN store) > Sweep
  THEN {k \in DOMAIN store : Live(k)}
  ELSE DOMAIN store

\* ThrottleStore::incr: atomic. The expiry is set by the first hit only.
Incr(k, ttl) ==
  store' = [x \in Kept \cup {k} |->
              IF x # k THEN store[x]
              ELSE IF Live(k) THEN [store[k] EXCEPT !.count = @ + 1]
              ELSE [count |-> 1, expires |-> now + ttl]]

-----------------------------------------------------------------------------
(* The engine.                                                              *)

Index(r)      == Len(req[r].clock)
Read(r)       == req[r].clock[Index(r)]
Window(r)     == conf.limits[Index(r)].window
Bucket(r)     == Read(r) \div Window(r)
Elapsed(r)    == Read(r) % Window(r)

Counter(r, b) == <<Scope[req[r].route], Index(r), req[r].key, b>>

\* (Mutant) The counter is thrown away when its own window ends.
TtlOneWindow(r) == Window(r)

\* In a sliding window a counter is still read during the next one.
Ttl(r) == IF conf.sliding THEN 2 * Window(r) ELSE Window(r)

\* (Mutant) The limit itself is already too much by one.
OverByOne(r, current, previous) == current > conf.limits[Index(r)].limit + 1

\* The estimate against the limit, cleared of its denominator.
Over(r, current, previous) ==
  current * Window(r) + previous * (Window(r) - Elapsed(r))
    > conf.limits[Index(r)].limit * Window(r)

\* The weight of the previous window is a fraction that f64 holds exactly.
Dyadic(r) == \E n \in 0 .. Window(r) : (2^n * (Window(r) - Elapsed(r))) % Window(r) = 0

\* The estimate is exactly the limit, but the weight in it was rounded: the sum may
\* come out as the limit, just above it or just below.
Rounds(r, current, previous) ==
  /\ current * Window(r) + previous * (Window(r) - Elapsed(r))
       = conf.limits[Index(r)].limit * Window(r)
  /\ previous > 0 /\ ~Dyadic(r)

\* (Mutant) Retry-After is the time since the window began.
RetryAfterElapsed(r) == Elapsed(r)

RetryAfter(r) == Window(r) - Elapsed(r)

\* decide_one's verdict, and enforce going on to the next limit, for which the
\* clock is read again. The first limit to deny wins.
Decide(r, current, previous) ==
  \/ /\ Over(r, current, previous) \/ Rounds(r, current, previous)
     /\ req' = [req EXCEPT ![r].place = "denied", ![r].retry = RetryAfter(r)]
  \/ /\ ~Over(r, current, previous)
     /\ req' = IF Index(r) < Len(conf.limits)
               THEN [req EXCEPT ![r].place = "asking", ![r].clock = Append(@, now)]
               ELSE [req EXCEPT ![r].place = "allowed"]

\* check_request with its tracker; decide_one reads the clock.
Arrive(rt, k) ==
  /\ Len(req) < conf.load
  /\ req' = Append(req, [place |-> "asking", route |-> rt, key |-> k, clock |-> <<now>>,
                         current |-> 0, retry |-> 0])
  /\ UNCHANGED <<conf, now, store>>

Weigh(r, current) ==
  IF conf.sliding
  THEN req' = [req EXCEPT ![r].place = "weighing", ![r].current = current]
  ELSE Decide(r, current, 0)

\* The hit is counted. It counts although the request may be denied.
Hit(r) ==
  /\ req[r].place = "asking"
  /\ Incr(Counter(r, Bucket(r)), Ttl(r))
  /\ Weigh(r, Count(Counter(r, Bucket(r))) + 1)
  /\ UNCHANGED <<conf, now>>

\* (Mutant) A failing store denies the request.
HitFailsClosed(r) ==
  /\ conf.failing /\ req[r].place = "asking"
  /\ Incr(Counter(r, Bucket(r)), Ttl(r)) \/ UNCHANGED store
  /\ Weigh(r, conf.limits[Index(r)].limit + 1)
  /\ UNCHANGED <<conf, now>>

\* The store fails before or after it counted the hit: unwrap_or(0).
HitFails(r) ==
  /\ conf.failing /\ req[r].place = "asking"
  /\ Incr(Counter(r, Bucket(r)), Ttl(r)) \/ UNCHANGED store
  /\ Weigh(r, 0)
  /\ UNCHANGED <<conf, now>>

\* Sliding: the previous window's counter is read, and the request decided.
Look(r) ==
  /\ req[r].place = "weighing"
  /\ \E previous \in {Count(Counter(r, Bucket(r) - 1))} \cup IF conf.failing THEN {0} ELSE {} :
       Decide(r, req[r].current, previous)
  /\ UNCHANGED <<conf, now, store>>

\* The client goes away, and the request's future with it, at an await.
Abandon(r) ==
  /\ conf.remote /\ req[r].place \in Under
  /\ req' = [req EXCEPT ![r].place = "gone"]
  /\ UNCHANGED <<conf, now, store>>

\* A thread does not lose a second between reading the clock and taking the lock
\* of the map in its own process.
Delay == IF conf.remote THEN MaxDelay ELSE 0

Tick ==
  /\ now < MaxTime
  /\ \A r \in Request : req[r].place \in Under => now < Read(r) + Delay
  /\ now' = now + 1
  /\ UNCHANGED <<conf, req, store>>

Next ==
  \/ \E rt \in Route, k \in Key : Arrive(rt, k)
  \/ \E r \in Request : Hit(r) \/ HitFails(r) \/ Look(r) \/ Abandon(r)
  \/ Tick

Spec == Init /\ [][Next]_vars

-----------------------------------------------------------------------------
(* Properties.                                                              *)

\* The requests of a client to one scope that were allowed.
AllowedBy(sc, k) ==
  {r \in Request : /\ req[r].place = "allowed"
                   /\ Scope[req[r].route] = sc /\ req[r].key = k}

InBucket(i, r) == req[r].clock[i] \div conf.limits[i].window
Into(i, r)     == req[r].clock[i] % conf.limits[i].window

\* How many counters a window may have had, one after the other: a hit that was
\* computed in a fixed window may reach Redis when the window's counter has expired.
Counters == IF conf.remote /\ ~conf.sliding THEN 2 ELSE 1

\* No window lets more than its limit through, for any of the policy's limits,
\* although hits are counted by other requests between a request's steps and
\* expired counters are replaced or swept (engine.rs:211, docs/18 "a request must
\* satisfy every one"). A late hit in Redis starts a fixed window anew, once.
WindowCap ==
  ~conf.failing =>
    \A i \in DOMAIN conf.limits, rt \in Route, k \in Key :
      \A b \in 0 .. MaxTime :
        Cardinality({r \in AllowedBy(Scope[rt], k) : InBucket(i, r) = b})
          <= Counters * conf.limits[i].limit

\* No stretch as long as the window lets more than twice the limit through, for any
\* of the limits (docs/18-rate-limiting.md, "up to twice the limit"). Not claimed of
\* fixed windows in Redis, where late hits of a third window may add to it.
BurstBound ==
  ~conf.failing /\ Counters = 1 =>
    \A i \in DOMAIN conf.limits, rt \in Route, k \in Key :
      \A start \in 0 .. MaxTime :
        Cardinality({r \in AllowedBy(Scope[rt], k) :
                       req[r].clock[i] \in start .. start + conf.limits[i].window - 1})
          <= 2 * conf.limits[i].limit

\* Redis answers within a window, or its counters are gone when they are asked for.
Prompt == conf.remote => \A i \in DOMAIN conf.limits : MaxDelay <= conf.limits[i].window

\* No policy lets more through than it promises.
LimitsHold == Prompt => WindowCap /\ BurstBound

\* With a sliding window, whenever a request is allowed, what its window and the
\* previous one had let through by then, the latter weighted by its overlap, is
\* within the limit: the previous window's counter has not expired when it is
\* still needed. (Redis may answer when it has.)
SlidingSmooth ==
  \A r \in Request :
    conf.sliding /\ ~conf.remote /\ req[r].place = "allowed" =>
      \A i \in DOMAIN conf.limits :
        LET mine == AllowedBy(Scope[req[r].route], req[r].key)
            w    == conf.limits[i].window
            cur  == {q \in mine : InBucket(i, q) = InBucket(i, r) /\ Into(i, q) <= Into(i, r)}
            prev == {q \in mine : InBucket(i, q) = InBucket(i, r) - 1}
        IN  Cardinality(cur) * w + Cardinality(prev) * (w - Into(i, r))
              <= conf.limits[i].limit * w

\* An insertion leaves a map of at most one entry above the threshold, or one in
\* which everything was live: expired counters do not accumulate (store.rs:35).
SweptWhenLarge ==
  [][store' # store =>
       \/ conf.remote
       \/ Cardinality(DOMAIN store') <= Sweep + 1
       \/ \A k \in DOMAIN store' : store'[k].expires > now]_vars

\* With a fixed window a client that was denied and comes back after Retry-After
\* is not denied again by the same limit (unless it is 0), unless somebody used the
\* counter meanwhile (docs/18, "`429 Too Many Requests` with a `Retry-After` header"). It
\* does not hold of sliding windows.
RetryAfterHonoured ==
  ~conf.sliding /\ ~conf.remote =>
    \A r, q \in Request :
      LET i       == Index(q)
          same(x) == /\ Scope[req[x].route] = Scope[req[r].route]
                     /\ req[x].key = req[r].key /\ Index(x) >= i
          again   == Read(q) + req[q].retry
      IN  req[r].place = "denied" /\ req[q].place = "denied" /\ same(q)
            /\ Index(r) = i /\ again <= Read(r) /\ conf.limits[i].limit > 0
          => \E x \in Request \ {r} :
               same(x) /\ req[x].clock[i] \in again .. Read(r)

\* Nobody is denied before the limit is really used up: more than the limit have asked
\* for the same scope and key in this window and, weighted, in the one before, whatever
\* answers of the store were lost, late or missing. Just as many as the limit are enough
\* only in a sliding window, where the weight of the one before is rounded (f64).
DeniedOnlyWhenUsed ==
  \A r \in Request :
    req[r].place = "denied" =>
      LET i    == Index(r)
          same == {q \in Request : /\ Index(q) >= i /\ req[q].key = req[r].key
                                   /\ Scope[req[q].route] = Scope[req[r].route]}
          cur  == {q \in same : InBucket(i, q) = Bucket(r)}
          prev == {q \in same : conf.sliding /\ InBucket(i, q) = Bucket(r) - 1}
          used == Cardinality(cur) * Window(r) + Cardinality(prev) * (Window(r) - Elapsed(r))
          most == conf.limits[i].limit * Window(r)
      IN  \/ used > most
          \/ used = most /\ prev # {} /\ ~Dyadic(r)

=============================================================================
