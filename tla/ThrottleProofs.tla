----------------------------- MODULE ThrottleProofs -----------------------------
(****************************************************************************)
(* Proofs about Throttle, for any routes, keys, limits, windows, requests    *)
(* and delays between a request's reading of the clock and its hit.          *)
(*                                                                           *)
(* Counters of the store come and go, so nothing about them is said by       *)
(* itself: a counter of the invariant is told against the requests that      *)
(* asked it (Askers) and those that it let by (Passers), which grow only.    *)
(* It counts no more than asked, which is enough for denials, and while its  *)
(* window lasts no fewer than passed, which is what the limits need. The     *)
(* sliding estimate is bounded for the requests in the order of their place  *)
(* in the window (Upto), since a later one may be told of fewer hits.        *)
(****************************************************************************)
EXTENDS Throttle, FiniteSetTheorems, TLAPS

Places == Under \cup {"denied", "allowed", "gone"}

Requests ==
  [place : Places, route : Route, key : Key, clock : Seq(Nat), current : Nat, retry : Nat]

WindowOf(i) == conf.limits[i].window
LimitOf(i)  == conf.limits[i].limit
TtlOf(i)    == IF conf.sliding THEN 2 * WindowOf(i) ELSE WindowOf(i)

\* The counters that requests may name.
CounterNames == {Scope[rt] : rt \in Route} \X (DOMAIN conf.limits) \X Key \X Int

\* Request x reads or read the clock for counter k.
Names(x, k) ==
  /\ Scope[x.route] = k[1] /\ x.key = k[3]
  /\ k[2] \in DOMAIN x.clock /\ x.clock[k[2]] \div WindowOf(k[2]) = k[4]

\* It is past the hit on it.
Asked(x, k) == Names(x, k) /\ (k[2] < Len(x.clock) \/ x.place # "asking")

\* It got by the limit, or still will as far as its own count says.
Passed(x, k) ==
  /\ Names(x, k)
  /\ \/ k[2] < Len(x.clock)
     \/ x.place = "allowed"
     \/ x.place = "weighing" /\ x.current <= LimitOf(k[2])

Askers(k)  == {q \in Request : Asked(req[q], k)}
Passers(k) == {q \in Request : Passed(req[q], k)}

Before(k) == <<k[1], k[2], k[3], k[4] - 1>>

\* The estimate of a count and that of the window before, e seconds into the window.
Weight(k, current, previous, e) == current * WindowOf(k[2]) + previous * (WindowOf(k[2]) - e)
Bound(k) == LimitOf(k[2]) * WindowOf(k[2])

-----------------------------------------------------------------------------
(* The invariant *)

Shape ==
  /\ ConfigOK(conf) /\ now \in Nat
  /\ req \in Seq(Requests)
  /\ \A r \in Request : /\ Index(r) \in DOMAIN conf.limits
                        /\ req[r].place = "allowed" => Index(r) = Len(conf.limits)
  /\ IsFiniteSet(DOMAIN store)
  /\ store = [k \in DOMAIN store |-> store[k]]
  /\ \A k \in DOMAIN store :
       k \in CounterNames /\ store[k] \in [count : Nat, expires : Nat]

\* Clocks were read in the past, and not long ago by those still under way.
Timely ==
  \A r \in Request :
    /\ \A i \in DOMAIN req[r].clock : req[r].clock[i] <= now
    /\ req[r].place \in Under => now <= Read(r) + Delay

\* A counter counts nothing but hits, and outlives its window as it should.
Counted ==
  \A k \in DOMAIN store :
    /\ store[k].count <= Cardinality(Askers(k))
    /\ store[k].expires >= k[4] * WindowOf(k[2]) + TtlOf(k[2])

\* What a request under way knows is not more than what was asked.
Known ==
  \A r \in Request : req[r].place = "weighing" =>
    conf.sliding /\ req[r].current <= Cardinality(Askers(Counter(r, Bucket(r))))

\* The estimate is above the limit, or at it and rounded.
Reached(r, current, previous) == Over(r, current, previous) \/ Rounds(r, current, previous)

Previous(r) == IF conf.sliding THEN Cardinality(Askers(Counter(r, Bucket(r) - 1))) ELSE 0

Denied ==
  \A r \in Request : req[r].place = "denied" =>
    /\ req[r].retry = RetryAfter(r)
    /\ Reached(r, Cardinality(Askers(Counter(r, Bucket(r)))), Previous(r))

\* The counter of a denied request was used by another one before, fixed and local.
Used ==
  ~conf.sliding /\ ~conf.remote =>
    \A r \in Request : req[r].place = "denied" /\ LimitOf(Index(r)) > 0 =>
      \E q \in Askers(Counter(r, Bucket(r))) \ {r} : req[q].clock[Index(r)] <= Read(r)

\* While a counter is not renewed it counts all who got by.
Exact(k) == now < k[4] * WindowOf(k[2]) + TtlOf(k[2]) => Cardinality(Passers(k)) <= Count(k)

Single ==
  Prompt /\ ~conf.failing /\ Counters = 1 =>
    \A k \in CounterNames : Exact(k) /\ Cardinality(Passers(k)) <= LimitOf(k[2])

\* A fixed window in Redis: the first counter, its renewal, and nothing after.
Renewed(k) ==
  LET w == WindowOf(k[2])
      n == Cardinality(Passers(k))
      second == (k[4] + 2) * w
  IN  /\ n <= 2 * LimitOf(k[2])
      /\ Live(k) /\ store[k].expires < second => n <= store[k].count /\ n <= LimitOf(k[2])
      /\ now < (k[4] + 1) * w /\ ~Live(k) => n = 0
      /\ \/ n <= LimitOf(k[2])
         \/ now >= second
         \/ Live(k) /\ store[k].expires >= second /\ n <= LimitOf(k[2]) + store[k].count

Double == Prompt /\ ~conf.failing /\ Counters = 2 => \A k \in CounterNames : Renewed(k)

Within(k, q) == req[q].clock[k[2]] % WindowOf(k[2])

\* Those who got by, or will as far as the truth about the window before says.
Fits(k, q) ==
  req[q].place = "weighing" /\ k[2] = Index(q) =>
    Weight(k, req[q].current, Cardinality(Passers(Before(k))), Within(k, q)) <= Bound(k)

Smooth(k) == {q \in Passers(k) : Fits(k, q)}

Upto(k, r) == {q \in Smooth(k) : Within(k, q) <= Within(k, r)}

Calm(k) ==
  \A r \in Smooth(k) :
    Weight(k, Cardinality(Upto(k, r)), Cardinality(Passers(Before(k))), Within(k, r)) <= Bound(k)

Smoothed == conf.sliding /\ ~conf.remote => \A k \in CounterNames : Calm(k)

IInv ==
  /\ Shape /\ Timely /\ Counted /\ Known /\ Denied /\ Used
  /\ Single /\ Double /\ Smoothed

-----------------------------------------------------------------------------
(* Arithmetic *)

LEMMA DivMod ==
  ASSUME NEW x \in Nat, NEW w \in Nat \ {0}
  PROVE  /\ x \div w \in Nat /\ x % w \in Nat /\ x % w < w
         /\ x = (x \div w) * w + (x % w)
  OBVIOUS

LEMMA TimesLe ==
  ASSUME NEW a \in Int, NEW b \in Int, NEW w \in Nat, a <= b
  PROVE  a * w <= b * w
  OBVIOUS

LEMMA TimesCancel ==
  ASSUME NEW a \in Int, NEW b \in Int, NEW w \in Nat \ {0}, a * w <= b * w
  PROVE  a <= b
<1>1. SUFFICES ASSUME a >= b + 1 PROVE FALSE
  OBVIOUS
<1>2. (b + 1) * w <= a * w
  BY <1>1, TimesLe
<1>3. (b + 1) * w = b * w + w
  OBVIOUS
<1> QED BY <1>2, <1>3

LEMMA InWindow ==
  ASSUME NEW x \in Nat, NEW w \in Nat \ {0}
  PROVE  (x \div w) * w <= x /\ x < (x \div w + 1) * w
<1>1. (x \div w + 1) * w = (x \div w) * w + w
  BY DivMod
<1> QED BY <1>1, DivMod

\* Of two buckets the earlier ends before the later begins.
LEMMA BucketOrder ==
  ASSUME NEW x \in Nat, NEW w \in Nat \ {0}, NEW b \in Int
  PROVE  /\ b * w <= x => b <= x \div w
         /\ x < (b + 1) * w => x \div w <= b
<1>1. x \div w \in Nat /\ (x \div w) * w <= x /\ x < (x \div w + 1) * w
  BY DivMod, InWindow
<1>2. ASSUME b * w <= x, x \div w + 1 <= b PROVE FALSE
  BY <1>1, <1>2, TimesLe
<1>3. ASSUME x < (b + 1) * w, b + 1 <= x \div w PROVE FALSE
  BY <1>1, <1>3, TimesLe
<1> QED BY <1>1, <1>2, <1>3

-----------------------------------------------------------------------------
(* The requests that asked and passed *)

LEMMA Typed ==
  ASSUME Shape
  PROVE  /\ \A i \in DOMAIN conf.limits : WindowOf(i) \in Nat \ {0} /\ LimitOf(i) \in Nat
         /\ \A i \in DOMAIN conf.limits : TtlOf(i) \in Nat \ {0}
         /\ \A r \in Request : /\ req[r] \in Requests /\ Index(r) \in DOMAIN conf.limits
                               /\ Index(r) \in DOMAIN req[r].clock
                               /\ Read(r) \in Nat /\ Window(r) = WindowOf(Index(r))
                               /\ Bucket(r) \in Nat /\ Elapsed(r) \in Nat
                               /\ Elapsed(r) < Window(r)
                               /\ Counter(r, Bucket(r)) \in CounterNames
                               /\ Counter(r, Bucket(r) - 1) \in CounterNames
<1>1. \A i \in DOMAIN conf.limits : conf.limits[i] \in Limit
  BY DEF Shape, ConfigOK
<1>2. \A i \in DOMAIN conf.limits : WindowOf(i) \in Nat \ {0} /\ LimitOf(i) \in Nat
  BY <1>1 DEF Limit, WindowOf, LimitOf
<1>3. \A i \in DOMAIN conf.limits : TtlOf(i) \in Nat \ {0}
  BY <1>2 DEF TtlOf
<1>4. ASSUME NEW r \in Request
      PROVE  /\ req[r] \in Requests /\ Index(r) \in DOMAIN conf.limits
             /\ Index(r) \in DOMAIN req[r].clock
             /\ Read(r) \in Nat /\ Window(r) = WindowOf(Index(r))
  <2>1. req[r] \in Requests /\ Index(r) \in DOMAIN conf.limits
    BY DEF Shape, Request
  <2>2. Index(r) \in DOMAIN req[r].clock
    BY <2>1 DEF Requests, Index, Shape, ConfigOK
  <2> QED BY <2>1, <2>2 DEF Requests, Read, Window, WindowOf
<1>5. ASSUME NEW r \in Request
      PROVE  Bucket(r) \in Nat /\ Elapsed(r) \in Nat /\ Elapsed(r) < Window(r)
  BY <1>2, <1>4, DivMod DEF Bucket, Elapsed
<1>6. ASSUME NEW r \in Request, NEW b \in Int
      PROVE  Counter(r, b) \in CounterNames
  BY <1>4 DEF Counter, CounterNames, Requests
<1> QED BY <1>2, <1>3, <1>4, <1>5, <1>6

LEMMA RequestFinite == ASSUME Shape PROVE IsFiniteSet(Request)
<1>1. Request = 1 .. Len(req) /\ Len(req) \in Nat
  BY DEF Request, Shape
<1> QED BY <1>1, FS_Interval

LEMMA SetsFinite ==
  ASSUME Shape, NEW k
  PROVE  /\ IsFiniteSet(Askers(k)) /\ Cardinality(Askers(k)) \in Nat
         /\ IsFiniteSet(Passers(k)) /\ Cardinality(Passers(k)) \in Nat
         /\ Cardinality(Passers(k)) <= Cardinality(Askers(k))
<1>1. IsFiniteSet(Request)
  BY RequestFinite
<1>2. Passers(k) \subseteq Askers(k) /\ Askers(k) \subseteq Request
  BY DEF Passers, Askers, Passed, Asked
<1> QED BY <1>1, <1>2, FS_Subset, FS_CardinalityType

LEMMA SetsFiniteNext ==
  ASSUME NEW k
  PROVE  (Shape => /\ IsFiniteSet(Askers(k)) /\ Cardinality(Askers(k)) \in Nat
                   /\ IsFiniteSet(Passers(k)) /\ Cardinality(Passers(k)) \in Nat
                   /\ Cardinality(Passers(k)) <= Cardinality(Askers(k)))'
<1>1. Shape => /\ IsFiniteSet(Askers(k)) /\ Cardinality(Askers(k)) \in Nat
               /\ IsFiniteSet(Passers(k)) /\ Cardinality(Passers(k)) \in Nat
               /\ Cardinality(Passers(k)) <= Cardinality(Askers(k))
  BY SetsFinite
<1> QED BY <1>1, PTL

\* Request r goes on from where it was, and perhaps to the next limit.
Moves(r) ==
  /\ r \in Request /\ req[r].place \in Under /\ UNCHANGED conf
  /\ req' = [req EXCEPT ![r] = req'[r]]
  /\ req'[r] \in Requests
  /\ req'[r].route = req[r].route /\ req'[r].key = req[r].key
  /\ \/ /\ req'[r].clock = req[r].clock /\ req'[r].place # "asking"
        /\ req'[r].place = "allowed" => Index(r) = Len(conf.limits)
     \/ /\ req'[r].clock = Append(req[r].clock, now) /\ req'[r].place = "asking"
        /\ Index(r) < Len(conf.limits)

GetsBy(r) ==
  \/ req'[r].place \in {"allowed", "asking"}
  \/ req'[r].place = "weighing" /\ req'[r].current <= LimitOf(Index(r))

LEMMA MovesSets ==
  ASSUME Shape, NEW r, Moves(r), NEW k \in CounterNames
  PROVE  LET mine == Counter(r, Bucket(r)) IN
         /\ Askers(k)' = IF k = mine THEN Askers(k) \cup {r} ELSE Askers(k)
         /\ k # mine => Passers(k)' = Passers(k)
         /\ k = mine => Passers(k)' = (Passers(k) \ {r}) \cup (IF GetsBy(r) THEN {r} ELSE {})
         /\ k = mine /\ req[r].place = "asking" => r \notin Askers(k)
<1> DEFINE x == req[r]
           y == req'[r]
           mine == Counter(r, Bucket(r))
<1>1. /\ r \in Request /\ DOMAIN req' = DOMAIN req /\ \A q \in Request : q # r => req'[q] = req[q]
      /\ x \in Requests /\ y \in Requests /\ conf' = conf
  BY Typed DEF Moves, Request, Shape
<1>2. /\ k = <<k[1], k[2], k[3], k[4]>> /\ k[2] \in DOMAIN conf.limits
      /\ mine = <<Scope[x.route], Len(x.clock), x.key, x.clock[Len(x.clock)] \div WindowOf(Len(x.clock))>>
  BY DEF CounterNames, Counter, Bucket, Read, Index, Window, WindowOf
<1>3. k = mine <=> Names(x, k) /\ k[2] = Len(x.clock)
  <2>1. Len(x.clock) \in DOMAIN x.clock
    BY <1>1, Typed DEF Index
  <2> QED BY <1>2, <2>1 DEF Names
<1>4. \/ y.clock = x.clock /\ y.place # "asking"
      \/ y.clock = Append(x.clock, now) /\ y.place = "asking"
  BY DEF Moves
<1>5. /\ Names(x, k) => Names(y, k)
      /\ Names(y, k) => Names(x, k) \/ (k[2] = Len(x.clock) + 1 /\ Len(y.clock) = k[2] /\ y.place = "asking")
      /\ Len(y.clock) = Len(x.clock) \/ (Len(y.clock) = Len(x.clock) + 1 /\ y.place = "asking")
  <2>1. /\ x.clock \in Seq(Nat) /\ y.clock \in Seq(Nat) /\ now \in Nat
        /\ y.route = x.route /\ y.key = x.key
    BY <1>1 DEF Requests, Moves, Shape
  <2>2. CASE y.clock = x.clock
    BY <2>1, <2>2 DEF Names
  <2>3. CASE y.clock = Append(x.clock, now) /\ y.place = "asking"
    <3>1. /\ Len(y.clock) = Len(x.clock) + 1
          /\ \A i \in 1 .. Len(x.clock) : y.clock[i] = x.clock[i]
          /\ DOMAIN x.clock = 1 .. Len(x.clock) /\ DOMAIN y.clock = 1 .. Len(x.clock) + 1
      BY <2>1, <2>3
    <3>2. k[2] \in Nat
      BY <1>2, Typed DEF Shape, ConfigOK
    <3> QED BY <2>1, <2>3, <3>1, <3>2 DEF Names
  <2> QED BY <1>4, <2>2, <2>3
<1>6. Asked(y, k) <=> Asked(x, k) \/ k = mine
  <2>1. x.place \in Under
    BY DEF Moves
  <2>2. /\ Len(x.clock) \in Nat /\ Len(y.clock) \in Nat
        /\ Names(x, k) => k[2] \in 1 .. Len(x.clock)
    <3>1. x.clock \in Seq(Nat) /\ y.clock \in Seq(Nat)
      BY <1>1 DEF Requests
    <3>2. DOMAIN x.clock = 1 .. Len(x.clock) /\ Len(x.clock) \in Nat /\ Len(y.clock) \in Nat
      BY <3>1
    <3> HIDE DEF x, y
    <3> QED BY <3>2 DEF Names
  <2>3. ASSUME Asked(x, k) \/ k = mine PROVE Asked(y, k)
    BY <1>3, <1>4, <1>5, <2>2, <2>3 DEF Asked
  <2>4. ASSUME Asked(y, k) PROVE Asked(x, k) \/ k = mine
    <3>1. Names(x, k)
      BY <1>5, <2>4 DEF Asked
    <3> QED BY <1>3, <2>2, <3>1 DEF Asked
  <2> QED BY <2>3, <2>4
<1>7. k # mine => (Passed(y, k) <=> Passed(x, k))
  <2>1. /\ x.clock \in Seq(Nat) /\ y.clock \in Seq(Nat)
        /\ DOMAIN x.clock = 1 .. Len(x.clock) /\ DOMAIN y.clock = 1 .. Len(y.clock)
    BY <1>1 DEF Requests
  <2>2. Names(x, k) => k[2] \in 1 .. Len(x.clock)
    BY <2>1 DEF Names
  <2>3. Names(y, k) => k[2] \in 1 .. Len(y.clock)
    BY <2>1 DEF Names
  <2>4. ASSUME k # mine PROVE Names(x, k) => k[2] < Len(x.clock)
    BY <1>3, <2>1, <2>2, <2>4
  <2>5. ASSUME k # mine, Names(y, k), ~Names(x, k) PROVE ~Passed(y, k)
    BY <1>5, <2>5 DEF Passed
  <2> QED BY <1>5, <2>1, <2>2, <2>3, <2>4, <2>5 DEF Passed
<1>8. k = mine => (Passed(y, k) <=> GetsBy(r))
  <2>1. ASSUME k = mine PROVE Names(y, k) /\ k[2] = Len(x.clock)
    BY <1>3, <1>5, <2>1
  <2>2. x.clock \in Seq(Nat) /\ Len(x.clock) \in Nat
    BY <1>1 DEF Requests
  <2>3. y.place = "asking" => Len(y.clock) = Len(x.clock) + 1
    BY <1>1, <1>4, <2>2 DEF Shape
  <2> QED BY <1>4, <1>5, <2>1, <2>2, <2>3 DEF Passed, GetsBy, Index
<1>9. \A q : Asked(req[q], k)' <=> Asked(req'[q], k)
  BY <1>1 DEF Asked, Names, WindowOf
<1>10. \A q : Passed(req[q], k)' <=> Passed(req'[q], k)
  BY <1>1 DEF Passed, Names, WindowOf, LimitOf
<1>11. Askers(k)' = IF k = mine THEN Askers(k) \cup {r} ELSE Askers(k)
  BY <1>1, <1>6, <1>9 DEF Askers, Request
<1>12. k # mine => Passers(k)' = Passers(k)
  BY <1>1, <1>7, <1>10 DEF Passers, Request
<1>13. k = mine => Passers(k)' = (Passers(k) \ {r}) \cup (IF GetsBy(r) THEN {r} ELSE {})
  BY <1>1, <1>8, <1>10 DEF Passers, Request
<1>14. k = mine /\ x.place = "asking" => r \notin Askers(k)
  BY <1>3 DEF Askers, Asked
<1> QED BY <1>11, <1>12, <1>13, <1>14

-----------------------------------------------------------------------------
(* What the steps do *)

LEMMA Updated ==
  ASSUME NEW f, NEW g, NEW r \in DOMAIN f, NEW x, g = [f EXCEPT ![r] = x]
  PROVE  g[r] = x /\ g = [f EXCEPT ![r] = g[r]]
OBVIOUS

LEMMA CountType ==
  ASSUME Shape, NEW k
  PROVE  Count(k) \in Nat
BY DEF Shape, Count, Live

LEMMA CountTypeNext == ASSUME NEW k PROVE (Shape => Count(k) \in Nat)'
<1>1. Shape => Count(k) \in Nat
  BY CountType
<1> QED BY <1>1, PTL

\* The store after a hit on a counter.
LEMMA IncrFacts ==
  ASSUME Shape, NEW h \in CounterNames, NEW ttl \in Nat \ {0}, Incr(h, ttl), UNCHANGED now
  PROVE  /\ IsFiniteSet(DOMAIN store') /\ store' = [k \in DOMAIN store' |-> store'[k]]
         /\ \A k \in DOMAIN store' : k # h => k \in DOMAIN store /\ store'[k] = store[k]
         /\ \A k : k # h => Count(k)' = Count(k) /\ (Live(k)' <=> Live(k))
         /\ \A k : k # h /\ Live(k) => store'[k] = store[k]
         /\ h \in DOMAIN store' /\ Live(h)' /\ Count(h)' = Count(h) + 1
         /\ store'[h].count = Count(h) + 1 /\ store'[h] \in [count : Nat, expires : Nat]
         /\ store'[h].expires = IF Live(h) THEN store[h].expires ELSE now + ttl
<1>1. DOMAIN store' = Kept \cup {h} /\ Kept \subseteq DOMAIN store
  BY DEF Incr, Kept
<1>2. IsFiniteSet(DOMAIN store')
  BY <1>1, FS_Subset, FS_AddElement DEF Shape
<1>3. store' = [k \in DOMAIN store' |-> store'[k]]
  BY DEF Incr
<1>4. \A k \in DOMAIN store' : k # h => k \in DOMAIN store /\ store'[k] = store[k]
  BY <1>1 DEF Incr
<1>5. \A k : Live(k) => k \in Kept
  BY DEF Kept, Live
<1>6. \A k : k # h => (Live(k)' <=> Live(k))
  BY <1>1, <1>4, <1>5 DEF Live
<1>7. \A k : k # h /\ Live(k) => store'[k] = store[k]
  BY <1>1, <1>4, <1>5
<1>8. \A k : k # h => Count(k)' = Count(k)
  BY <1>6, <1>7 DEF Count
<1>9. h \in DOMAIN store' /\ store'[h] = IF Live(h) THEN [store[h] EXCEPT !.count = @ + 1]
                                         ELSE [count |-> 1, expires |-> now + ttl]
  BY <1>1 DEF Incr
<1>10. CASE Live(h)
  <2>1. store[h] \in [count : Nat, expires : Nat] /\ store[h].expires > now
    BY <1>10 DEF Shape, Live
  <2> QED BY <1>2, <1>3, <1>4, <1>6, <1>7, <1>8, <1>9, <1>10, <2>1 DEF Count, Live
<1>11. CASE ~Live(h)
  BY <1>2, <1>3, <1>4, <1>6, <1>7, <1>8, <1>9, <1>11 DEF Count, Live, Shape
<1> QED BY <1>10, <1>11

\* The limit's verdict.
Verdict(r, current, previous) ==
  \/ /\ Reached(r, current, previous)
     /\ req'[r].place = "denied" /\ req'[r].retry = RetryAfter(r) /\ req'[r].clock = req[r].clock
  \/ ~Over(r, current, previous) /\ req'[r].place \in {"allowed", "asking"}

LEMMA DecideFacts ==
  ASSUME Shape, NEW r \in Request, req[r].place \in Under, UNCHANGED conf,
         NEW current, NEW previous, Decide(r, current, previous)
  PROVE  Moves(r) /\ Verdict(r, current, previous)
<1>1. /\ req[r] \in Requests /\ req \in Seq(Requests) /\ RetryAfter(r) \in Nat /\ now \in Nat
      /\ Index(r) \in Nat /\ Len(conf.limits) \in Nat /\ Index(r) <= Len(conf.limits)
  <2>1. req[r] \in Requests /\ req \in Seq(Requests) /\ now \in Nat /\ r \in Request
    BY DEF Shape, Request
  <2>2. conf.limits \in Seq(Limit) /\ Index(r) \in DOMAIN conf.limits
    BY DEF Shape, ConfigOK
  <2>3. Index(r) \in Nat /\ Len(conf.limits) \in Nat /\ Index(r) <= Len(conf.limits)
    BY <2>2
  <2>4. Window(r) \in Nat \ {0} /\ Elapsed(r) \in Nat /\ Elapsed(r) < Window(r)
    BY Typed, <2>2
  <2>5. RetryAfter(r) \in Nat
    BY <2>4 DEF RetryAfter
  <2> QED BY <2>1, <2>3, <2>5
<1>2. CASE /\ Reached(r, current, previous)
           /\ req' = [req EXCEPT ![r].place = "denied", ![r].retry = RetryAfter(r)]
  <2>1. req' = [req EXCEPT ![r] = [req[r] EXCEPT !.place = "denied", !.retry = RetryAfter(r)]]
    BY <1>1, <1>2 DEF Request
  <2>2. req'[r] = [req[r] EXCEPT !.place = "denied", !.retry = RetryAfter(r)]
    BY <2>1, Updated DEF Request
  <2>3. req' = [req EXCEPT ![r] = req'[r]]
    BY <2>1, <2>2
  <2>4. /\ req'[r].place = "denied" /\ req'[r].retry = RetryAfter(r)
        /\ req'[r].clock = req[r].clock
        /\ req'[r].route = req[r].route /\ req'[r].key = req[r].key
        /\ req'[r] \in Requests
    BY <1>1, <2>2 DEF Requests, Places
  <2> QED BY <1>2, <2>3, <2>4 DEF Moves, Verdict
<1>3. CASE /\ ~Over(r, current, previous) /\ Index(r) < Len(conf.limits)
           /\ req' = [req EXCEPT ![r].place = "asking", ![r].clock = Append(@, now)]
  <2>1. req' = [req EXCEPT ![r] = [req[r] EXCEPT !.place = "asking",
                                                  !.clock = Append(req[r].clock, now)]]
    BY <1>1, <1>3 DEF Request
  <2>2. req'[r] = [req[r] EXCEPT !.place = "asking", !.clock = Append(req[r].clock, now)]
    BY <2>1, Updated DEF Request
  <2>3. req' = [req EXCEPT ![r] = req'[r]]
    BY <2>1, <2>2
  <2>4. Append(req[r].clock, now) \in Seq(Nat)
    BY <1>1 DEF Requests
  <2>5. /\ req'[r].place = "asking" /\ req'[r].clock = Append(req[r].clock, now)
        /\ req'[r].route = req[r].route /\ req'[r].key = req[r].key
        /\ req'[r] \in Requests
    BY <1>1, <2>2, <2>4 DEF Requests, Places, Under
  <2> QED BY <1>3, <2>3, <2>5 DEF Moves, Verdict
<1>4. CASE /\ ~Over(r, current, previous) /\ ~(Index(r) < Len(conf.limits))
           /\ req' = [req EXCEPT ![r].place = "allowed"]
  <2>1. req' = [req EXCEPT ![r] = [req[r] EXCEPT !.place = "allowed"]]
    BY <1>1, <1>4 DEF Request
  <2>2. req'[r] = [req[r] EXCEPT !.place = "allowed"]
    BY <2>1, Updated DEF Request
  <2>3. req' = [req EXCEPT ![r] = req'[r]]
    BY <2>1, <2>2
  <2>4. /\ req'[r].place = "allowed" /\ req'[r].clock = req[r].clock
        /\ req'[r].route = req[r].route /\ req'[r].key = req[r].key
        /\ req'[r] \in Requests
    BY <1>1, <2>2 DEF Requests, Places
  <2>5. Index(r) = Len(conf.limits)
    BY <1>1, <1>4
  <2> QED BY <1>4, <2>3, <2>4, <2>5 DEF Moves, Verdict
<1> QED BY <1>2, <1>3, <1>4 DEF Decide, Reached

\* A hit whose count came back as c.
Counts(r, c) ==
  /\ Moves(r) /\ req[r].place = "asking" /\ UNCHANGED now /\ c \in Nat
  /\ conf.sliding =>
       req'[r].place = "weighing" /\ req'[r].current = c /\ req'[r].clock = req[r].clock
  /\ ~conf.sliding => Verdict(r, c, 0)
  /\ Incr(Counter(r, Bucket(r)), Ttl(r)) \/ UNCHANGED store
  /\ c = 0 \/ (c = Count(Counter(r, Bucket(r))) + 1 /\ Incr(Counter(r, Bucket(r)), Ttl(r)))
  /\ ~conf.failing => c # 0

LEMMA WeighFacts ==
  ASSUME Shape, NEW r \in Request, req[r].place = "asking", UNCHANGED conf,
         NEW c \in Nat, Weigh(r, c)
  PROVE  /\ Moves(r)
         /\ conf.sliding =>
              req'[r].place = "weighing" /\ req'[r].current = c /\ req'[r].clock = req[r].clock
         /\ ~conf.sliding => Verdict(r, c, 0)
<1>1. CASE conf.sliding
  <2>1. req[r] \in Requests /\ req \in Seq(Requests)
    BY Typed DEF Shape
  <2>2. req' = [req EXCEPT ![r] = [req[r] EXCEPT !.place = "weighing", !.current = c]]
    BY <1>1, <2>1 DEF Weigh, Request
  <2>3. req'[r] = [req[r] EXCEPT !.place = "weighing", !.current = c]
    BY <2>2, Updated DEF Request
  <2>4. /\ req'[r].place = "weighing" /\ req'[r].current = c /\ req'[r].clock = req[r].clock
        /\ req'[r].route = req[r].route /\ req'[r].key = req[r].key
        /\ req'[r] \in Requests
    BY <2>1, <2>3 DEF Requests, Places, Under
  <2>5. req' = [req EXCEPT ![r] = req'[r]]
    BY <2>2, Updated DEF Request
  <2> QED BY <1>1, <2>4, <2>5 DEF Moves, Under
<1>2. CASE ~conf.sliding
  BY <1>2, DecideFacts DEF Weigh, Under
<1> QED BY <1>1, <1>2

LEMMA HitFacts ==
  ASSUME Shape, NEW r \in Request, Hit(r) \/ HitFails(r)
  PROVE  \E c : Counts(r, c)
<1>1. CASE Hit(r)
  <2>1. Count(Counter(r, Bucket(r))) + 1 \in Nat \ {0}
    BY CountType
  <2> QED BY <1>1, <2>1, WeighFacts DEF Hit, Counts
<1>2. CASE HitFails(r)
  <2>1. Weigh(r, 0) /\ UNCHANGED <<conf, now>> /\ req[r].place = "asking" /\ conf.failing
        /\ (Incr(Counter(r, Bucket(r)), Ttl(r)) \/ UNCHANGED store)
    BY <1>2 DEF HitFails
  <2>2. /\ Moves(r)
        /\ conf.sliding =>
             req'[r].place = "weighing" /\ req'[r].current = 0 /\ req'[r].clock = req[r].clock
        /\ ~conf.sliding => Verdict(r, 0, 0)
    <3>1. 0 \in Nat
      OBVIOUS
    <3> QED BY <2>1, <3>1, WeighFacts
  <2>3. Counts(r, 0)
    BY <2>1, <2>2 DEF Counts
  <2> QED BY <2>3
<1> QED BY <1>1, <1>2

LEMMA LookFacts ==
  ASSUME Shape, NEW r \in Request, Look(r)
  PROVE  /\ Moves(r) /\ req[r].place = "weighing" /\ UNCHANGED <<now, store>>
         /\ \E previous \in Nat :
              /\ Verdict(r, req[r].current, previous)
              /\ previous = Count(Counter(r, Bucket(r) - 1)) \/ (conf.failing /\ previous = 0)
<1>1. PICK previous \in {Count(Counter(r, Bucket(r) - 1))} \cup IF conf.failing THEN {0} ELSE {} :
        Decide(r, req[r].current, previous)
  BY DEF Look
<1>2. previous \in Nat
  BY CountType
<1>3. req[r].place \in Under /\ UNCHANGED conf
  BY DEF Look, Under
<1> QED BY <1>1, <1>2, <1>3, DecideFacts DEF Look

LEMMA AbandonFacts ==
  ASSUME Shape, NEW r \in Request, Abandon(r)
  PROVE  /\ Moves(r) /\ UNCHANGED <<now, store>> /\ conf.remote
         /\ req'[r].place = "gone" /\ req'[r].clock = req[r].clock
<1>1. req[r] \in Requests /\ req \in Seq(Requests)
  BY Typed DEF Shape
<1>2. req' = [req EXCEPT ![r] = [req[r] EXCEPT !.place = "gone"]]
  BY <1>1 DEF Abandon, Request
<1>3. req'[r] = [req[r] EXCEPT !.place = "gone"]
  BY <1>2, Updated DEF Request
<1>4. /\ req'[r].place = "gone" /\ req'[r].clock = req[r].clock
      /\ req'[r].route = req[r].route /\ req'[r].key = req[r].key
      /\ req'[r] \in Requests
  BY <1>1, <1>3 DEF Requests, Places, Under
<1>5. req' = [req EXCEPT ![r] = req'[r]]
  BY <1>2, Updated DEF Request
<1> QED BY <1>4, <1>5 DEF Abandon, Moves

\* A new request has asked for nothing yet.
LEMMA ArriveFacts ==
  ASSUME Shape, NEW rt \in Route, NEW key \in Key, Arrive(rt, key)
  PROVE  /\ UNCHANGED <<conf, now, store>>
         /\ req' \in Seq(Requests) /\ Request' = Request \cup {Len(req) + 1}
         /\ \A q \in Request : req'[q] = req[q]
         /\ req'[Len(req) + 1].place = "asking" /\ req'[Len(req) + 1].clock = <<now>>
         /\ \A k \in CounterNames : Askers(k)' = Askers(k) /\ Passers(k)' = Passers(k)
<1> DEFINE fresh == [place |-> "asking", route |-> rt, key |-> key, clock |-> <<now>>,
                     current |-> 0, retry |-> 0]
           n == Len(req) + 1
<1>1. fresh \in Requests /\ req \in Seq(Requests)
  BY DEF Shape, Requests, Places, Under
<1>2. req' = Append(req, fresh) /\ UNCHANGED <<conf, now, store>>
  BY DEF Arrive
<1>3. /\ req' \in Seq(Requests) /\ Request' = Request \cup {n} /\ n \notin Request
      /\ \A q \in Request : req'[q] = req[q]
      /\ req'[n] = fresh
  BY <1>1, <1>2 DEF Request
<1>4. ASSUME NEW k \in CounterNames
      PROVE  Askers(k)' = Askers(k) /\ Passers(k)' = Passers(k)
  <2>1. k[2] \in Nat \ {0}
    BY DEF CounterNames, Shape, ConfigOK
  <2>2. ~Asked(fresh, k) /\ ~Passed(fresh, k)
    BY <2>1 DEF Asked, Passed, Names
  <2>3. \A q : /\ Asked(req[q], k)' <=> Asked(req'[q], k)
               /\ Passed(req[q], k)' <=> Passed(req'[q], k)
    BY <1>2 DEF Asked, Passed, Names, WindowOf, LimitOf
  <2>4. /\ Askers(k)' = {q \in Request' : Asked(req'[q], k)}
        /\ Passers(k)' = {q \in Request' : Passed(req'[q], k)}
    BY <2>3 DEF Askers, Passers
  <2>5. \A q \in Request' : q \in Request \/ (q = n /\ req'[q] = fresh)
    BY <1>3
  <2>6. \A q \in Request : q \in Request' /\ req'[q] = req[q]
    BY <1>3
  <2>7. Askers(k)' = Askers(k)
    <3>1. {q \in Request' : Asked(req'[q], k)} = {q \in Request : Asked(req[q], k)}
      BY <2>2, <2>5, <2>6
    <3> QED BY <2>4, <3>1 DEF Askers
  <2>8. Passers(k)' = Passers(k)
    <3>1. {q \in Request' : Passed(req'[q], k)} = {q \in Request : Passed(req[q], k)}
      BY <2>2, <2>5, <2>6
    <3> QED BY <2>4, <3>1 DEF Passers
  <2> QED BY <2>7, <2>8
<1>5. req'[n].place = "asking" /\ req'[n].clock = <<now>>
  BY <1>3
<1> HIDE DEF fresh
<1> QED BY <1>2, <1>3, <1>4, <1>5

-----------------------------------------------------------------------------
(* The steps, as the invariant sees them *)

Arrives ==
  /\ UNCHANGED <<conf, now, store>>
  /\ req' \in Seq(Requests) /\ Request' = Request \cup {Len(req) + 1}
  /\ \A q \in Request : req'[q] = req[q]
  /\ req'[Len(req) + 1].place = "asking" /\ req'[Len(req) + 1].clock = <<now>>
  /\ \A k \in CounterNames : Askers(k)' = Askers(k) /\ Passers(k)' = Passers(k)

Looks(r) ==
  /\ Moves(r) /\ req[r].place = "weighing" /\ UNCHANGED <<now, store>>
  /\ \E previous \in Nat :
       /\ Verdict(r, req[r].current, previous)
       /\ previous = Count(Counter(r, Bucket(r) - 1)) \/ (conf.failing /\ previous = 0)

Leaves(r) ==
  /\ Moves(r) /\ UNCHANGED <<now, store>> /\ conf.remote
  /\ req'[r].place = "gone" /\ req'[r].clock = req[r].clock

Steps ==
  \/ Arrives
  \/ \E r \in Request : (\E c : Counts(r, c)) \/ Looks(r) \/ Leaves(r)
  \/ Tick
  \/ UNCHANGED vars

LEMMA NextSteps == ASSUME Shape, [Next]_vars PROVE Steps
<1>1. CASE \E rt \in Route, key \in Key : Arrive(rt, key)
  BY <1>1, ArriveFacts DEF Steps, Arrives
<1>2. ASSUME NEW r \in Request, Hit(r) \/ HitFails(r)
      PROVE  Steps
  BY <1>2, HitFacts DEF Steps
<1>3. ASSUME NEW r \in Request, Look(r)
      PROVE  Steps
  BY <1>3, LookFacts DEF Steps, Looks
<1>4. ASSUME NEW r \in Request, Abandon(r)
      PROVE  Steps
  BY <1>4, AbandonFacts DEF Steps, Leaves
<1> QED BY <1>1, <1>2, <1>3, <1>4 DEF Next, Steps

LEMMA Same ==
  ASSUME NEW q, UNCHANGED conf, req'[q].clock = req[q].clock,
         req'[q].route = req[q].route, req'[q].key = req[q].key
  PROVE  /\ Index(q)' = Index(q) /\ Read(q)' = Read(q) /\ Window(q)' = Window(q)
         /\ Bucket(q)' = Bucket(q) /\ Elapsed(q)' = Elapsed(q) /\ RetryAfter(q)' = RetryAfter(q)
         /\ \A b : Counter(q, b)' = Counter(q, b)
         /\ \A a, b : Reached(q, a, b)' <=> Reached(q, a, b)
BY DEF Index, Read, Window, Bucket, Elapsed, RetryAfter, Counter, Over, Dyadic, Rounds, Reached

LEMMA MoveShape ==
  ASSUME Shape, NEW r, Moves(r)
  PROVE  /\ req' \in Seq(Requests) /\ Request' = Request
         /\ \A q \in Request : q # r => req'[q] = req[q]
         /\ \A q \in Request : /\ Index(q)' \in DOMAIN conf.limits
                               /\ req'[q].place = "allowed" => Index(q)' = Len(conf.limits)
<1>1. r \in Request /\ req \in Seq(Requests) /\ req'[r] \in Requests
  BY DEF Moves, Shape
<1>2. req' \in Seq(Requests) /\ Request' = Request
      /\ \A q \in Request : q # r => req'[q] = req[q]
  BY <1>1 DEF Moves, Request
<1>3. ASSUME NEW q \in Request, q # r
      PROVE  /\ Index(q)' \in DOMAIN conf.limits
             /\ req'[q].place = "allowed" => Index(q)' = Len(conf.limits)
  BY <1>2, <1>3, Typed DEF Index, Shape
<1>4. Index(r)' \in DOMAIN conf.limits
  <2>1. CASE req'[r].clock = req[r].clock
    BY <1>1, <2>1, Typed DEF Index
  <2>2. CASE req'[r].clock = Append(req[r].clock, now) /\ Index(r) < Len(conf.limits)
    <3>1. Index(r)' = Index(r) + 1
      BY <1>1, <2>2, Typed DEF Index, Requests, Shape
    <3>2. Index(r) \in 1 .. Len(conf.limits) /\ DOMAIN conf.limits = 1 .. Len(conf.limits)
      BY <1>1, Typed DEF Shape, ConfigOK
    <3> QED BY <2>2, <3>1, <3>2
  <2> QED BY <2>1, <2>2 DEF Moves
<1>5. req'[r].place = "allowed" => Index(r)' = Len(conf.limits)
  BY DEF Moves, Index
<1> QED BY <1>2, <1>3, <1>4, <1>5

LEMMA TtlFacts ==
  ASSUME Shape, NEW r \in Request
  PROVE  /\ Ttl(r) = TtlOf(Index(r)) /\ Ttl(r) \in Nat \ {0}
         /\ Counter(r, Bucket(r))[2] = Index(r) /\ Counter(r, Bucket(r))[4] = Bucket(r)
         /\ Counter(r, Bucket(r)) \in CounterNames
         /\ Bucket(r) * WindowOf(Index(r)) <= Read(r)
         /\ Read(r) < (Bucket(r) + 1) * WindowOf(Index(r))
<1>1. Read(r) \in Nat /\ Window(r) = WindowOf(Index(r)) /\ WindowOf(Index(r)) \in Nat \ {0}
  BY Typed
<1> QED BY <1>1, Typed, InWindow DEF Ttl, TtlOf, Counter, Bucket

LEMMA ShapeNext == ASSUME Shape, Steps PROVE Shape'
<1>1. CASE Arrives
  <2>1. \A q \in Request' : /\ Index(q)' \in DOMAIN conf.limits
                            /\ req'[q].place = "allowed" => Index(q)' = Len(conf.limits)
    <3>1. ASSUME NEW q \in Request
          PROVE  /\ Index(q)' \in DOMAIN conf.limits
                 /\ req'[q].place = "allowed" => Index(q)' = Len(conf.limits)
      BY <1>1, <3>1, Typed DEF Arrives, Index, Shape
    <3>2. ASSUME NEW n, n = Len(req) + 1
          PROVE  Index(n)' \in DOMAIN conf.limits /\ req'[n].place # "allowed"
      <4>1. req'[n].clock = <<now>> /\ Len(<<now>>) = 1
        BY <1>1, <3>2 DEF Arrives
      <4>2. Len(conf.limits) \in Nat /\ Len(conf.limits) # 0
            /\ DOMAIN conf.limits = 1 .. Len(conf.limits)
        BY DEF Shape, ConfigOK
      <4>3. req'[n].place # "allowed"
        BY <1>1, <3>2 DEF Arrives
      <4> QED BY <4>1, <4>2, <4>3 DEF Index
    <3> QED BY <1>1, <3>1, <3>2 DEF Arrives
  <2> QED BY <1>1, <2>1 DEF Arrives, Shape, CounterNames
<1>2. ASSUME NEW r \in Request, NEW c, Counts(r, c)
      PROVE  Shape'
  <2>1. Moves(r) /\ UNCHANGED <<conf, now>>
    BY <1>2 DEF Counts, Moves
  <2>2. CASE Incr(Counter(r, Bucket(r)), Ttl(r))
    <3>1. /\ IsFiniteSet(DOMAIN store') /\ store' = [k \in DOMAIN store' |-> store'[k]]
          /\ \A k \in DOMAIN store' : k # Counter(r, Bucket(r)) =>
               k \in DOMAIN store /\ store'[k] = store[k]
          /\ store'[Counter(r, Bucket(r))] \in [count : Nat, expires : Nat]
      BY <2>1, <2>2, TtlFacts, IncrFacts
    <3>2. \A k \in DOMAIN store' :
            k \in CounterNames /\ store'[k] \in [count : Nat, expires : Nat]
      BY <3>1, TtlFacts DEF Shape
    <3> QED BY <2>1, <3>1, <3>2, MoveShape DEF Shape, CounterNames
  <2>3. CASE UNCHANGED store
    BY <2>1, <2>3, MoveShape DEF Shape, CounterNames
  <2> QED BY <1>2, <2>2, <2>3 DEF Counts
<1>3. ASSUME NEW r \in Request, Looks(r) \/ Leaves(r)
      PROVE  Shape'
  <2>1. Moves(r) /\ UNCHANGED <<conf, now, store>>
    BY <1>3 DEF Looks, Leaves, Moves
  <2> QED BY <2>1, MoveShape DEF Shape, CounterNames
<1>4. CASE Tick
  BY <1>4 DEF Tick, Shape, CounterNames, Request, Index
<1>5. CASE UNCHANGED vars
  BY <1>5 DEF vars, Shape, CounterNames, Request, Index
<1> QED BY <1>1, <1>2, <1>3, <1>4, <1>5 DEF Steps

\* Who asked, and when, is never forgotten.
LEMMA Remembered ==
  ASSUME Shape, Steps
  PROVE  /\ UNCHANGED conf /\ now' \in Nat /\ now <= now'
         /\ Request \subseteq Request'
         /\ \A q \in Request : \A i \in DOMAIN req[q].clock :
              i \in DOMAIN req'[q].clock /\ req'[q].clock[i] = req[q].clock[i]
         /\ \A k \in CounterNames :
              /\ Askers(k) \subseteq Askers(k)'
              /\ IsFiniteSet(Askers(k)') /\ Cardinality(Askers(k)') \in Nat
              /\ IsFiniteSet(Passers(k)') /\ Cardinality(Passers(k)') \in Nat
              /\ Cardinality(Askers(k)) <= Cardinality(Askers(k)')
<1> DEFINE Keeps(q) == \A i \in DOMAIN req[q].clock :
                         i \in DOMAIN req'[q].clock /\ req'[q].clock[i] = req[q].clock[i]
           Goal == /\ UNCHANGED conf /\ now' \in Nat /\ now <= now'
                   /\ Request \subseteq Request'
                   /\ \A q \in Request : Keeps(q)
                   /\ \A k \in CounterNames : Askers(k) \subseteq Askers(k)'
<1>0. now \in Nat
  BY DEF Shape
<1>1. ASSUME Arrives PROVE Goal
  BY <1>0, <1>1 DEF Arrives
<1>2. ASSUME NEW r \in Request, Moves(r), UNCHANGED now
      PROVE  Goal
  <2>1. Request' = Request /\ \A q \in Request : q # r => req'[q] = req[q]
    BY <1>2, MoveShape
  <2>2. Keeps(r)
    <3>1. CASE req'[r].clock = req[r].clock
      BY <3>1
    <3>2. CASE req'[r].clock = Append(req[r].clock, now)
      <4>1. req[r].clock \in Seq(Nat) /\ now \in Nat
        BY Typed DEF Requests, Shape
      <4> QED BY <3>2, <4>1
    <3> QED BY <1>2, <3>1, <3>2 DEF Moves
  <2>3. \A k \in CounterNames : Askers(k) \subseteq Askers(k)'
    BY <1>2, MovesSets
  <2>4. \A q \in Request : Keeps(q)
    BY <2>1, <2>2
  <2> HIDE DEF Keeps
  <2>5. UNCHANGED conf
    BY <1>2 DEF Moves
  <2> QED BY <1>0, <1>2, <2>1, <2>3, <2>4, <2>5
<1>3. ASSUME UNCHANGED <<conf, req>>, now' \in Nat, now <= now' PROVE Goal
  <2>1. ASSUME NEW k \in CounterNames PROVE Askers(k)' = Askers(k)
    BY <1>3 DEF Askers, Asked, Names, WindowOf, Request
  <2> QED BY <1>3, <2>1 DEF Request
<1>4. Tick \/ UNCHANGED vars => UNCHANGED <<conf, req>> /\ now' \in Nat /\ now <= now'
  BY <1>0 DEF Tick, vars
<1>5. Goal
  <2> HIDE DEF Goal
  <2> QED BY <1>1, <1>2, <1>3, <1>4 DEF Steps, Counts, Looks, Leaves
<1>6. Shape'
  BY ShapeNext
<1>7. ASSUME NEW k
      PROVE  /\ IsFiniteSet(Askers(k)') /\ Cardinality(Askers(k)') \in Nat
             /\ IsFiniteSet(Passers(k)') /\ Cardinality(Passers(k)') \in Nat
  BY <1>6, SetsFiniteNext
<1>8. \A k : Askers(k) \subseteq Askers(k)' => Cardinality(Askers(k)) <= Cardinality(Askers(k)')
  BY <1>7, FS_Subset
<1> HIDE DEF Keeps
<1> QED BY <1>5, <1>7, <1>8 DEF Keeps

LEMMA TimelyNext == ASSUME Shape, Timely, Steps PROVE Timely'
<1>1. CASE Arrives
  <2>1. ASSUME NEW q \in Request
        PROVE  /\ \A i \in DOMAIN req'[q].clock : req'[q].clock[i] <= now'
               /\ req'[q].place \in Under => now' <= Read(q)' + Delay'
    BY <1>1, <2>1 DEF Arrives, Timely, Read, Index, Delay
  <2>2. ASSUME NEW n, n = Len(req) + 1
        PROVE  /\ \A i \in DOMAIN req'[n].clock : req'[n].clock[i] <= now'
               /\ now' <= Read(n)' + Delay'
    <3>1. /\ req'[n].clock = <<now>> /\ DOMAIN <<now>> = {1} /\ <<now>>[1] = now
          /\ Len(<<now>>) = 1
      BY <1>1, <2>2 DEF Arrives
    <3>2. now \in Nat /\ now' = now /\ Delay' \in Nat
      BY <1>1, BoundAssumption DEF Arrives, Shape, Delay
    <3>3. Read(n)' = now
      BY <3>1 DEF Read, Index
    <3>4. \A i \in DOMAIN req'[n].clock : req'[n].clock[i] <= now'
      BY <3>1, <3>2
    <3>5. now' <= Read(n)' + Delay'
      <4>1. \A d \in Nat : now <= now + d
        BY <3>2
      <4> QED BY <3>2, <3>3, <4>1
    <3> QED BY <3>4, <3>5
  <2> QED BY <1>1, <2>1, <2>2 DEF Arrives, Timely
<1>2. ASSUME NEW r \in Request, Moves(r), UNCHANGED now
      PROVE  Timely'
  <2>1. /\ Request' = Request /\ \A q \in Request : q # r => req'[q] = req[q]
        /\ conf' = conf /\ now \in Nat /\ now' = now /\ Delay' = Delay /\ Delay \in Nat
    BY <1>2, MoveShape, BoundAssumption DEF Moves, Shape, Delay
  <2>2. ASSUME NEW q \in Request, q # r
        PROVE  /\ \A i \in DOMAIN req'[q].clock : req'[q].clock[i] <= now'
               /\ req'[q].place \in Under => now' <= Read(q)' + Delay'
    BY <2>1, <2>2 DEF Timely, Read, Index
  <2>3. /\ \A i \in DOMAIN req'[r].clock : req'[r].clock[i] <= now'
        /\ req'[r].place \in Under => now' <= Read(r)' + Delay'
    <3>1. CASE req'[r].clock = req[r].clock
      BY <1>2, <2>1, <3>1 DEF Moves, Timely, Read, Index
    <3>2. CASE req'[r].clock = Append(req[r].clock, now)
      <4>1. req[r].clock \in Seq(Nat)
        BY Typed DEF Requests
      <4>2. /\ DOMAIN req'[r].clock = 1 .. Len(req[r].clock) + 1
            /\ DOMAIN req[r].clock = 1 .. Len(req[r].clock)
            /\ \A i \in 1 .. Len(req[r].clock) : req'[r].clock[i] = req[r].clock[i]
            /\ Len(req'[r].clock) = Len(req[r].clock) + 1
            /\ req'[r].clock[Len(req[r].clock) + 1] = now
        BY <2>1, <3>2, <4>1
      <4>3. \A i \in DOMAIN req'[r].clock : req'[r].clock[i] <= now'
        <5>1. \A i \in DOMAIN req[r].clock : req[r].clock[i] <= now
          BY DEF Timely
        <5>2. ASSUME NEW i \in 1 .. Len(req[r].clock) + 1 PROVE req'[r].clock[i] <= now
          <6>1. CASE i = Len(req[r].clock) + 1
            BY <2>1, <4>2, <6>1
          <6>2. CASE i \in 1 .. Len(req[r].clock)
            BY <4>2, <5>1, <6>2
          <6>3. Len(req[r].clock) \in Nat
            BY <4>1
          <6>4. i \in Int /\ 1 <= i /\ i <= Len(req[r].clock) + 1
            BY <6>3
          <6>5. i = Len(req[r].clock) + 1 \/ i \in 1 .. Len(req[r].clock)
            BY <6>3, <6>4
          <6> QED BY <6>1, <6>2, <6>5
        <5> QED BY <2>1, <4>2, <5>2
      <4>4. Read(r)' = now
        BY <4>2 DEF Read, Index
      <4> QED BY <2>1, <4>3, <4>4
    <3> QED BY <1>2, <3>1, <3>2 DEF Moves
  <2> QED BY <2>1, <2>2, <2>3 DEF Timely
<1>3. CASE Tick
  <2>1. /\ req' = req /\ conf' = conf /\ now' = now + 1 /\ now \in Nat /\ Delay \in Nat
        /\ \A r \in Request : req[r].place \in Under => now < Read(r) + Delay
        /\ \A r \in Request : Read(r) \in Nat /\ req[r].clock \in Seq(Nat)
    BY <1>3, Typed, BoundAssumption DEF Tick, Shape, Delay, Requests
  <2>2. \A r \in Request : \A i \in DOMAIN req[r].clock : req[r].clock[i] <= now'
    BY <2>1 DEF Timely
  <2>3. \A r \in Request : req[r].place \in Under => now' <= Read(r) + Delay
    BY <2>1
  <2> QED BY <2>1, <2>2, <2>3 DEF Timely, Read, Index, Delay, Request
<1>4. CASE UNCHANGED vars
  BY <1>4 DEF vars, Timely, Read, Index, Delay, Request
<1> QED BY <1>1, <1>2, <1>3, <1>4 DEF Steps, Counts, Looks, Leaves

LEMMA CountAskers ==
  ASSUME Shape, Counted, NEW k
  PROVE  Count(k) <= Cardinality(Askers(k))
<1>1. Cardinality(Askers(k)) \in Nat
  BY SetsFinite
<1> QED BY <1>1 DEF Count, Live, Counted

\* What a hit knows is at most what was asked, itself included.
LEMMA HitAskers ==
  ASSUME Shape, Counted, Steps, NEW r \in Request, NEW c, Counts(r, c),
         NEW h, h = Counter(r, Bucket(r))
  PROVE  /\ h \in CounterNames /\ r \notin Askers(h) /\ Askers(h)' = Askers(h) \cup {r}
         /\ Cardinality(Askers(h)') = Cardinality(Askers(h)) + 1
         /\ Cardinality(Askers(h)) \in Nat
         /\ c <= Cardinality(Askers(h)') /\ Count(h) + 1 <= Cardinality(Askers(h)')
<1>1. h \in CounterNames /\ r \notin Askers(h) /\ Askers(h)' = Askers(h) \cup {r}
  <2>1. h \in CounterNames
    BY Typed
  <2> QED BY <2>1, MovesSets DEF Counts
<1>2. IsFiniteSet(Askers(h)) /\ Cardinality(Askers(h)) \in Nat /\ Count(h) \in Nat
  BY SetsFinite, CountType
<1>3. Cardinality(Askers(h) \cup {r}) = Cardinality(Askers(h)) + 1
  BY <1>1, <1>2, FS_AddElement
<1>4. Count(h) <= Cardinality(Askers(h))
  BY CountAskers
<1>5. c = 0 \/ c = Count(h) + 1
  BY DEF Counts
<1> QED BY <1>1, <1>2, <1>3, <1>4, <1>5

LEMMA CountedNext == ASSUME Shape, Timely, Counted, Steps PROVE Counted'
<1>1. \A k \in DOMAIN store : k \in CounterNames /\ store[k].count \in Nat
  BY DEF Shape
<1>2. UNCHANGED conf
  BY Remembered
<1>3. ASSUME NEW k \in DOMAIN store, k \in DOMAIN store', store'[k] = store[k]
      PROVE  /\ store'[k].count <= Cardinality(Askers(k)')
             /\ store'[k].expires >= k[4] * WindowOf(k[2])' + TtlOf(k[2])'
  <2>1. Cardinality(Askers(k)) <= Cardinality(Askers(k)') /\ Cardinality(Askers(k)') \in Nat
        /\ Cardinality(Askers(k)) \in Nat
    BY <1>1, Remembered, SetsFinite
  <2>2. WindowOf(k[2])' = WindowOf(k[2]) /\ TtlOf(k[2])' = TtlOf(k[2])
    BY <1>2 DEF WindowOf, TtlOf
  <2> QED BY <1>1, <1>3, <2>1, <2>2 DEF Counted
<1>4. CASE UNCHANGED store
  BY <1>3, <1>4 DEF Counted
<1>5. ASSUME NEW r \in Request, NEW c, Counts(r, c), Incr(Counter(r, Bucket(r)), Ttl(r)),
             NEW h, h = Counter(r, Bucket(r))
      PROVE  Counted'
  <2>1. UNCHANGED now /\ now \in Nat
    BY <1>5 DEF Counts, Shape
  <2>2. /\ \A k \in DOMAIN store' : k # h => k \in DOMAIN store /\ store'[k] = store[k]
        /\ store'[h].count = Count(h) + 1
        /\ store'[h].expires = IF Live(h) THEN store[h].expires ELSE now + Ttl(r)
    <3>1. h \in CounterNames /\ Incr(h, Ttl(r))
      BY <1>5, TtlFacts
    <3> QED BY <2>1, <3>1, TtlFacts, IncrFacts
  <2>3. store'[h].count <= Cardinality(Askers(h)')
    BY <1>5, <2>2, HitAskers
  <2>4. store'[h].expires >= h[4] * WindowOf(h[2]) + TtlOf(h[2])
    <3>1. CASE Live(h)
      BY <2>2, <3>1 DEF Live, Counted
    <3>2. CASE ~Live(h)
      <4>1. /\ TtlOf(h[2]) = Ttl(r) /\ Ttl(r) \in Nat
            /\ h[4] * WindowOf(h[2]) <= Read(r)
        BY <1>5, TtlFacts
      <4>2. Read(r) <= now /\ Read(r) \in Nat
        BY Typed DEF Timely, Read
      <4>3. h[4] * WindowOf(h[2]) \in Int
        BY <1>5, Typed, TtlFacts
      <4> QED BY <2>1, <2>2, <3>2, <4>1, <4>2, <4>3
    <3> QED BY <3>1, <3>2
  <2>5. WindowOf(h[2])' = WindowOf(h[2]) /\ TtlOf(h[2])' = TtlOf(h[2])
    BY <1>2 DEF WindowOf, TtlOf
  <2>6. \A k \in DOMAIN store' :
          /\ store'[k].count <= Cardinality(Askers(k)')
          /\ store'[k].expires >= k[4] * WindowOf(k[2])' + TtlOf(k[2])'
    BY <1>3, <2>2, <2>3, <2>4, <2>5
  <2> QED BY <2>6 DEF Counted
<1> QED BY <1>4, <1>5 DEF Steps, Counts, Arrives, Looks, Leaves, Tick, vars

LEMMA Others ==
  ASSUME Shape, Steps
  PROVE  \/ \E r \in Request :
              /\ Request' = Request /\ \A q \in Request : q # r => req'[q] = req[q]
              /\ (\E c : Counts(r, c)) \/ Looks(r) \/ Leaves(r)
         \/ /\ \A q \in Request : req'[q] = req[q]
            /\ Request' = Request \/ Arrives
<1>1. ASSUME NEW r \in Request, (\E c : Counts(r, c)) \/ Looks(r) \/ Leaves(r)
      PROVE  Request' = Request /\ \A q \in Request : q # r => req'[q] = req[q]
  BY <1>1, MoveShape DEF Counts, Looks, Leaves
<1> QED BY <1>1 DEF Steps, Arrives, Tick, vars, Request

LEMMA KnownNext == ASSUME Shape, Counted, Known, Steps PROVE Known'
<1> DEFINE K(q) == req[q].place = "weighing" =>
                     conf.sliding /\ req[q].current <= Cardinality(Askers(Counter(q, Bucket(q))))
<1>1. UNCHANGED conf
  BY Remembered
<1>2. ASSUME NEW q \in Request, req'[q] = req[q] PROVE K(q)'
  <2>1. PICK k : k = Counter(q, Bucket(q))
    OBVIOUS
  <2>2. Counter(q, Bucket(q))' = k
    BY <1>1, <1>2, <2>1, Same
  <2>3. k \in CounterNames /\ req[q].current \in Nat
    BY <2>1, Typed DEF Requests
  <2>4. /\ Cardinality(Askers(k)) <= Cardinality(Askers(k)')
        /\ Cardinality(Askers(k)) \in Nat /\ Cardinality(Askers(k)') \in Nat
    BY <2>3, Remembered, SetsFinite
  <2>5. req[q].place = "weighing" => conf.sliding /\ req[q].current <= Cardinality(Askers(k))
    BY <2>1 DEF Known
  <2>6. req[q].place = "weighing" => conf.sliding /\ req[q].current <= Cardinality(Askers(k)')
    BY <2>3, <2>4, <2>5
  <2> QED BY <1>1, <1>2, <2>2, <2>6
<1>3. ASSUME NEW r \in Request, NEW c, Counts(r, c) PROVE K(r)'
  <2>1. SUFFICES ASSUME req'[r].place = "weighing" PROVE K(r)'
    OBVIOUS
  <2>2. conf.sliding /\ req'[r].current = c /\ req'[r].clock = req[r].clock
    BY <1>3, <2>1 DEF Counts, Verdict
  <2>3. PICK k : k = Counter(r, Bucket(r))
    OBVIOUS
  <2>4. Counter(r, Bucket(r))' = k
    BY <1>1, <1>3, <2>2, <2>3, Same DEF Counts, Moves
  <2>5. c <= Cardinality(Askers(k)')
    BY <1>3, <2>3, HitAskers
  <2> QED BY <1>1, <2>2, <2>4, <2>5
<1>4. ASSUME NEW r \in Request, Looks(r) \/ Leaves(r) PROVE K(r)'
  BY <1>4 DEF Looks, Leaves, Verdict
<1>5. ASSUME NEW n, n = Len(req) + 1, Arrives PROVE K(n)'
  BY <1>5 DEF Arrives
<1>6. \A q \in Request' : K(q)'
  <2> HIDE DEF K
  <2> QED BY <1>2, <1>3, <1>4, <1>5, Others DEF Arrives
<1> QED BY <1>6 DEF Known

LEMMA ReachedGrows ==
  ASSUME Shape, NEW r \in Request, NEW a \in Nat, NEW p \in Nat, NEW b \in Nat, NEW s \in Nat,
         a <= b, p <= s, Reached(r, a, p)
  PROVE  Reached(r, b, s)
<1>1. Window(r) \in Nat /\ Window(r) - Elapsed(r) \in Nat
      /\ conf.limits[Index(r)].limit * Window(r) \in Nat
  BY Typed DEF LimitOf
<1>2. a * Window(r) <= b * Window(r) /\ p * (Window(r) - Elapsed(r)) <= s * (Window(r) - Elapsed(r))
  BY <1>1, TimesLe
<1>3. /\ a * Window(r) \in Nat /\ b * Window(r) \in Nat
      /\ p * (Window(r) - Elapsed(r)) \in Nat /\ s * (Window(r) - Elapsed(r)) \in Nat
  BY <1>1
<1>4. p > 0 => s > 0
  OBVIOUS
<1> QED BY <1>1, <1>2, <1>3, <1>4 DEF Reached, Over, Rounds

LEMMA DeniedNext == ASSUME Shape, Counted, Known, Denied, Steps PROVE Denied'
<1> DEFINE D(q) == req[q].place = "denied" =>
                     /\ req[q].retry = RetryAfter(q)
                     /\ Reached(q, Cardinality(Askers(Counter(q, Bucket(q)))), Previous(q))
<1>1. UNCHANGED conf
  BY Remembered
\* Whoever was above the limit by the counts of before still is.
<1>2. ASSUME NEW q \in Request, NEW a \in Nat, NEW p \in Nat, Reached(q, a, p),
             NEW k, k = Counter(q, Bucket(q)), NEW j, j = Counter(q, Bucket(q) - 1),
             a <= Cardinality(Askers(k)'),
             conf.sliding => p <= Cardinality(Askers(j)), ~conf.sliding => p = 0,
             req'[q].retry = RetryAfter(q), req'[q].clock = req[q].clock,
             req'[q].route = req[q].route, req'[q].key = req[q].key
      PROVE  D(q)'
  <2>1. /\ Counter(q, Bucket(q))' = k /\ Counter(q, Bucket(q) - 1)' = j
        /\ RetryAfter(q)' = RetryAfter(q)
        /\ \A b, s : Reached(q, b, s)' <=> Reached(q, b, s)
    BY <1>1, <1>2, Same
  <2>2. k \in CounterNames /\ j \in CounterNames
    BY <1>2, Typed
  <2>3. /\ Cardinality(Askers(k)') \in Nat /\ Cardinality(Askers(j)') \in Nat
        /\ Cardinality(Askers(j)) \in Nat /\ Cardinality(Askers(j)) <= Cardinality(Askers(j)')
    BY <2>2, Remembered, SetsFinite
  <2>4. CASE conf.sliding
    <3>1. Reached(q, Cardinality(Askers(k)'), Cardinality(Askers(j)'))
      BY <1>2, <2>3, <2>4, ReachedGrows
    <3>2. Previous(q)' = Cardinality(Askers(j)')
      BY <1>1, <2>1, <2>4 DEF Previous
    <3>3. Reached(q, Cardinality(Askers(k)), Previous(q))'
      BY <2>1, <3>1, <3>2
    <3> QED BY <1>2, <2>1, <3>3
  <2>5. CASE ~conf.sliding
    <3>1. Reached(q, Cardinality(Askers(k)'), 0)
      BY <1>2, <2>3, <2>5, ReachedGrows
    <3>2. Previous(q)' = 0
      BY <1>1, <2>5 DEF Previous
    <3>3. Reached(q, Cardinality(Askers(k)), Previous(q))'
      BY <2>1, <3>1, <3>2
    <3> QED BY <1>2, <2>1, <3>3
  <2> QED BY <2>4, <2>5
<1>3. ASSUME NEW q \in Request, req'[q] = req[q] PROVE D(q)'
  <2>1. PICK k : k = Counter(q, Bucket(q))
    OBVIOUS
  <2>2. PICK j : j = Counter(q, Bucket(q) - 1)
    OBVIOUS
  <2>3. k \in CounterNames
    BY <2>1, Typed
  <2>4. /\ Cardinality(Askers(k)) <= Cardinality(Askers(k)')
        /\ Cardinality(Askers(k)) \in Nat /\ Cardinality(Askers(j)) \in Nat
    BY <2>3, Remembered, SetsFinite
  <2>5. SUFFICES ASSUME req[q].place = "denied" PROVE D(q)'
    BY <1>3
  <2>6. /\ req[q].retry = RetryAfter(q)
        /\ Reached(q, Cardinality(Askers(k)), Previous(q))
    BY <2>1, <2>5 DEF Denied
  <2>7. Previous(q) = IF conf.sliding THEN Cardinality(Askers(j)) ELSE 0
    BY <2>2 DEF Previous
  <2>8. Previous(q) \in Nat /\ (conf.sliding => Previous(q) <= Cardinality(Askers(j)))
        /\ (~conf.sliding => Previous(q) = 0)
    BY <2>4, <2>7
  <2> HIDE DEF D
  <2> QED BY <1>2, <1>3, <2>1, <2>2, <2>4, <2>6, <2>8
<1>4. ASSUME NEW r \in Request, NEW c, Counts(r, c) PROVE D(r)'
  <2>1. SUFFICES ASSUME req'[r].place = "denied" PROVE D(r)'
    OBVIOUS
  <2>2. /\ ~conf.sliding /\ Reached(r, c, 0) /\ c \in Nat
        /\ req'[r].retry = RetryAfter(r) /\ req'[r].clock = req[r].clock
        /\ req'[r].route = req[r].route /\ req'[r].key = req[r].key
    BY <1>4, <2>1 DEF Counts, Verdict, Moves
  <2>3. PICK k : k = Counter(r, Bucket(r))
    OBVIOUS
  <2>4. PICK j : j = Counter(r, Bucket(r) - 1)
    OBVIOUS
  <2>5. c <= Cardinality(Askers(k)')
    BY <1>4, <2>3, HitAskers
  <2> HIDE DEF D
  <2> QED BY <1>2, <2>2, <2>3, <2>4, <2>5
<1>5. ASSUME NEW r \in Request, Looks(r) PROVE D(r)'
  <2>1. SUFFICES ASSUME req'[r].place = "denied" PROVE D(r)'
    OBVIOUS
  <2>2. PICK p \in Nat : /\ Verdict(r, req[r].current, p)
                         /\ p = Count(Counter(r, Bucket(r) - 1)) \/ (conf.failing /\ p = 0)
    BY <1>5 DEF Looks
  <2>3. /\ Reached(r, req[r].current, p)
        /\ req'[r].retry = RetryAfter(r) /\ req'[r].clock = req[r].clock
        /\ req'[r].route = req[r].route /\ req'[r].key = req[r].key
    <3>1. Moves(r)
      BY <1>5 DEF Looks
    <3>2. /\ Reached(r, req[r].current, p)
          /\ req'[r].retry = RetryAfter(r) /\ req'[r].clock = req[r].clock
      <4>1. Verdict(r, req[r].current, p)
        BY <2>2
      <4>2. req'[r].place \notin {"allowed", "asking"}
        BY <2>1
      <4> QED BY <4>1, <4>2 DEF Verdict
    <3> QED BY <3>1, <3>2 DEF Moves
  <2>4. PICK k : k = Counter(r, Bucket(r))
    OBVIOUS
  <2>5. PICK j : j = Counter(r, Bucket(r) - 1)
    OBVIOUS
  <2>6. conf.sliding /\ req[r].current <= Cardinality(Askers(k)) /\ req[r].current \in Nat
    BY <1>5, <2>4, Typed DEF Looks, Known, Requests
  <2>7. k \in CounterNames
    BY <2>4, Typed
  <2>8. /\ Cardinality(Askers(k)) <= Cardinality(Askers(k)')
        /\ Cardinality(Askers(k)) \in Nat /\ Cardinality(Askers(k)') \in Nat
        /\ Cardinality(Askers(j)) \in Nat
    BY <2>7, Remembered, SetsFinite
  <2>9. p <= Cardinality(Askers(j))
    BY <2>2, <2>5, <2>8, CountAskers
  <2>10. req[r].current <= Cardinality(Askers(k)')
    BY <2>6, <2>8
  <2> HIDE DEF D
  <2> QED BY <1>2, <2>2, <2>3, <2>4, <2>5, <2>6, <2>9, <2>10
<1>6. ASSUME NEW r \in Request, Leaves(r) PROVE D(r)'
  BY <1>6 DEF Leaves
<1>7. ASSUME NEW n, n = Len(req) + 1, Arrives PROVE D(n)'
  BY <1>7 DEF Arrives
<1>8. \A q \in Request' : D(q)'
  <2> HIDE DEF D
  <2> QED BY <1>3, <1>4, <1>5, <1>6, <1>7, Others DEF Arrives
<1> QED BY <1>8 DEF Denied

LEMMA UsedNext == ASSUME Shape, Timely, Counted, Known, Used, Steps PROVE Used'
<1> DEFINE U(r) == req[r].place = "denied" /\ LimitOf(Index(r)) > 0 =>
                     \E q \in Askers(Counter(r, Bucket(r))) \ {r} :
                       req[q].clock[Index(r)] <= Read(r)
<1>1. UNCHANGED conf
  BY Remembered
<1>2. SUFFICES ASSUME ~conf.sliding, ~conf.remote PROVE \A r \in Request' : U(r)'
  BY <1>1 DEF Used
\* A witness of before still is one.
<1>3. ASSUME NEW r \in Request, NEW q \in Request, q # r,
             NEW k, k = Counter(r, Bucket(r)), q \in Askers(k),
             req[q].clock[Index(r)] <= Read(r),
             req'[r].clock = req[r].clock, req'[r].route = req[r].route, req'[r].key = req[r].key
      PROVE  U(r)'
  <2>1. Counter(r, Bucket(r))' = k /\ Index(r)' = Index(r) /\ Read(r)' = Read(r)
    BY <1>1, <1>3, Same
  <2>2. k \in CounterNames /\ k[2] = Index(r)
    BY <1>3, TtlFacts
  <2>3. Index(r) \in DOMAIN req[q].clock
    BY <1>3, <2>2 DEF Askers, Asked, Names
  <2>4. q \in Askers(k)' /\ req'[q].clock[Index(r)] = req[q].clock[Index(r)]
    BY <1>3, <2>2, <2>3, Remembered
  <2>5. /\ q \in Askers(Counter(r, Bucket(r)))' \ {r}
        /\ req'[q].clock[Index(r)'] <= Read(r)'
    BY <1>3, <2>1, <2>4
  <2> QED BY <2>5
<1>4. ASSUME NEW r \in Request, req'[r] = req[r] PROVE U(r)'
  <2>1. SUFFICES ASSUME req[r].place = "denied", LimitOf(Index(r)) > 0 PROVE U(r)'
    BY <1>1, <1>4 DEF LimitOf, Index
  <2>2. PICK q \in Askers(Counter(r, Bucket(r))) \ {r} : req[q].clock[Index(r)] <= Read(r)
    BY <1>2, <2>1 DEF Used
  <2>3. PICK k : k = Counter(r, Bucket(r))
    OBVIOUS
  <2>4. q \in Request /\ q # r /\ q \in Askers(k)
    BY <2>2, <2>3 DEF Askers
  <2> HIDE DEF U
  <2> QED BY <1>3, <1>4, <2>2, <2>3, <2>4
<1>5. ASSUME NEW r \in Request, NEW c, Counts(r, c) PROVE U(r)'
  <2>1. SUFFICES ASSUME req'[r].place = "denied", LimitOf(Index(r))' > 0 PROVE U(r)'
    BY DEF LimitOf, Index
  <2>2. /\ Reached(r, c, 0) /\ c \in Nat
        /\ req'[r].clock = req[r].clock
        /\ req'[r].route = req[r].route /\ req'[r].key = req[r].key
    BY <1>2, <1>5, <2>1 DEF Counts, Verdict, Moves
  <2>3. PICK k : k = Counter(r, Bucket(r))
    OBVIOUS
  <2>4. c = Count(k) + 1
    <3>1. ~conf.failing
      BY <1>2 DEF Shape, ConfigOK
    <3> QED BY <1>5, <2>3, <3>1 DEF Counts
  <2>5. LimitOf(Index(r)) > 0 /\ LimitOf(Index(r)) \in Nat
    BY <1>1, <2>1, <2>2, Typed, Same DEF LimitOf
  <2>6. c > LimitOf(Index(r))
    <3>1. /\ Window(r) \in Nat \ {0} /\ 0 * (Window(r) - Elapsed(r)) = 0
          /\ conf.limits[Index(r)].limit = LimitOf(Index(r))
      BY Typed DEF LimitOf
    <3>2. c * Window(r) > LimitOf(Index(r)) * Window(r)
      BY <2>2, <3>1 DEF Reached, Over, Rounds
    <3>3. ASSUME c <= LimitOf(Index(r)) PROVE FALSE
      <4>1. c * Window(r) <= LimitOf(Index(r)) * Window(r)
        BY <2>2, <2>5, <3>1, <3>3, TimesLe
      <4>2. c * Window(r) \in Nat /\ LimitOf(Index(r)) * Window(r) \in Nat
        BY <2>2, <2>5, <3>1
      <4> QED BY <3>2, <4>1, <4>2
    <3> QED BY <2>2, <2>5, <3>3
  <2>7. Cardinality(Askers(k)) # 0
    <3>1. Count(k) <= Cardinality(Askers(k)) /\ Count(k) \in Nat
          /\ Cardinality(Askers(k)) \in Nat
      BY CountAskers, CountType, SetsFinite
    <3> QED BY <2>4, <2>5, <2>6, <3>1
  <2>8. PICK q : q \in Askers(k)
    <3>1. Askers(k) # {}
      BY <2>7, FS_EmptySet
    <3> QED BY <3>1
  <2>9. q # r /\ q \in Request
    BY <1>5, <2>3, <2>8, HitAskers DEF Askers
  <2>10. req[q].clock[Index(r)] <= Read(r)
    <3>1. k[2] = Index(r) /\ req[r].place \in Under
      BY <1>5, <2>3, TtlFacts DEF Counts, Under
    <3>2. Index(r) \in DOMAIN req[q].clock /\ req[q].clock \in Seq(Nat)
      BY <2>8, <2>9, <3>1, Typed DEF Askers, Asked, Names, Requests
    <3>3. req[q].clock[Index(r)] <= now /\ now <= Read(r) + Delay
      BY <2>9, <3>1, <3>2 DEF Timely
    <3>4. Delay = 0 /\ Read(r) \in Nat /\ now \in Nat
      BY <1>2, Typed DEF Delay, Shape
    <3>5. req[q].clock[Index(r)] \in Nat
      BY <3>2
    <3> QED BY <3>3, <3>4, <3>5
  <2> HIDE DEF U
  <2> QED BY <1>3, <2>2, <2>3, <2>8, <2>9, <2>10
<1>6. ASSUME NEW r \in Request, Looks(r) \/ Leaves(r) PROVE U(r)'
  <2>1. CASE Leaves(r)
    BY <1>2, <2>1 DEF Leaves
  <2>2. CASE Looks(r)
    BY <1>2, <2>2 DEF Looks, Known
  <2> QED BY <1>6, <2>1, <2>2
<1>7. ASSUME NEW n, n = Len(req) + 1, Arrives PROVE U(n)'
  BY <1>7 DEF Arrives
<1>8. \A q \in Request' : U(q)'
  <2> HIDE DEF U
  <2> QED BY <1>4, <1>5, <1>6, <1>7, Others DEF Arrives
<1> QED BY <1>8

-----------------------------------------------------------------------------
(* Who gets by *)

LEMMA OverLimit ==
  ASSUME Shape, NEW r \in Request, NEW a \in Nat, NEW p \in Nat, ~Over(r, a, p)
  PROVE  a <= LimitOf(Index(r))
<1>1. /\ Window(r) \in Nat \ {0} /\ Window(r) - Elapsed(r) \in Nat
      /\ conf.limits[Index(r)].limit = LimitOf(Index(r)) /\ LimitOf(Index(r)) \in Nat
  BY Typed DEF LimitOf
<1>2. p * (Window(r) - Elapsed(r)) \in Nat /\ a * Window(r) \in Nat
      /\ LimitOf(Index(r)) * Window(r) \in Nat
  BY <1>1
<1>3. a * Window(r) <= LimitOf(Index(r)) * Window(r)
  BY <1>1, <1>2 DEF Over
<1>4. a \in Int /\ LimitOf(Index(r)) \in Int
  BY <1>1
<1> QED BY <1>1, <1>3, <1>4, TimesCancel

LEMMA LooksPasses ==
  ASSUME Shape, NEW k \in CounterNames, NEW r \in Request, Looks(r)
  PROVE  Passers(k)' \subseteq Passers(k)
<1>1. Moves(r) /\ req[r].place = "weighing"
  BY DEF Looks
<1>2. SUFFICES ASSUME k = Counter(r, Bucket(r)), GetsBy(r) PROVE r \in Passers(k)
  BY <1>1, MovesSets
<1>3. PICK p \in Nat : Verdict(r, req[r].current, p)
  BY DEF Looks
<1>4. ~Over(r, req[r].current, p)
  BY <1>2, <1>3 DEF Verdict, GetsBy
<1>5. req[r].current <= LimitOf(Index(r))
  <2>1. req[r].current \in Nat
    BY Typed DEF Requests
  <2> QED BY <1>4, <2>1, OverLimit
<1>6. k[2] = Index(r) /\ Names(req[r], k)
  BY <1>2, Typed DEF Counter, Names, Bucket, Read, Window, WindowOf
<1> QED BY <1>1, <1>5, <1>6 DEF Passers, Passed

\* A counter's passers only become fewer, but for a hit that came back within the limit.
LEMMA PassersStep ==
  ASSUME Shape, Steps, NEW k \in CounterNames
  PROVE  /\ Cardinality(Passers(k)) \in Nat /\ Cardinality(Passers(k)') \in Nat
         /\ \/ /\ Passers(k)' \subseteq Passers(k)
               /\ Cardinality(Passers(k)') <= Cardinality(Passers(k))
            \/ \E r \in Request : \E c :
                 /\ Counts(r, c) /\ k = Counter(r, Bucket(r)) /\ c <= LimitOf(k[2])
                 /\ r \notin Passers(k) /\ Passers(k)' = Passers(k) \cup {r}
                 /\ Cardinality(Passers(k)') = Cardinality(Passers(k)) + 1
<1>1. /\ IsFiniteSet(Passers(k)) /\ Cardinality(Passers(k)) \in Nat
      /\ IsFiniteSet(Passers(k)') /\ Cardinality(Passers(k)') \in Nat
  BY SetsFinite, Remembered
<1>2. Passers(k)' \subseteq Passers(k) => Cardinality(Passers(k)') <= Cardinality(Passers(k))
  BY <1>1, FS_Subset
<1>3. CASE Arrives
  BY <1>1, <1>2, <1>3 DEF Arrives
<1>4. CASE UNCHANGED <<conf, req>>
  <2>1. Passers(k)' = Passers(k)
    BY <1>4 DEF Passers, Passed, Names, WindowOf, LimitOf, Request
  <2> QED BY <1>1, <1>2, <2>1
<1>5. ASSUME NEW r \in Request, NEW c, Counts(r, c), ~(Passers(k)' \subseteq Passers(k))
      PROVE  /\ k = Counter(r, Bucket(r)) /\ c <= LimitOf(k[2])
             /\ r \notin Passers(k) /\ Passers(k)' = Passers(k) \cup {r}
             /\ Cardinality(Passers(k)') = Cardinality(Passers(k)) + 1
  <2>1. Moves(r) /\ req[r].place = "asking" /\ c \in Nat
    BY <1>5 DEF Counts
  <2>2. k = Counter(r, Bucket(r))
    BY <1>5, <2>1, MovesSets
  <2>3. Passers(k)' = (Passers(k) \ {r}) \cup (IF GetsBy(r) THEN {r} ELSE {})
    BY <2>1, <2>2, MovesSets
  <2>4. r \notin Passers(k)
    <3>1. r \notin Askers(k)
      BY <2>1, <2>2, MovesSets
    <3> QED BY <3>1 DEF Askers, Passers, Asked, Passed
  <2>5. GetsBy(r) /\ Passers(k)' = Passers(k) \cup {r}
    BY <1>5, <2>3, <2>4
  <2>6. c <= LimitOf(Index(r))
    <3>1. CASE conf.sliding
      <4>1. req'[r].place = "weighing" /\ req'[r].current = c
        BY <1>5, <3>1 DEF Counts
      <4> QED BY <2>5, <4>1 DEF GetsBy
    <3>2. CASE ~conf.sliding
      <4>1. Verdict(r, c, 0)
        BY <1>5, <3>2 DEF Counts
      <4>2. ~Over(r, c, 0)
        BY <2>5, <4>1 DEF Verdict, GetsBy
      <4> QED BY <2>1, <4>2, OverLimit
    <3> QED BY <3>1, <3>2
  <2>7. k[2] = Index(r)
    BY <2>2, TtlFacts
  <2>8. Cardinality(Passers(k) \cup {r}) = Cardinality(Passers(k)) + 1
    BY <1>1, <2>4, FS_AddElement
  <2> QED BY <2>2, <2>4, <2>5, <2>6, <2>7, <2>8
<1>6. ASSUME NEW r \in Request, Looks(r) PROVE Passers(k)' \subseteq Passers(k)
  BY <1>6, LooksPasses
<1>7. ASSUME NEW r \in Request, Leaves(r) PROVE Passers(k)' \subseteq Passers(k)
  <2>1. Moves(r) /\ ~GetsBy(r)
    BY <1>7 DEF Leaves, GetsBy
  <2> QED BY <2>1, MovesSets
<1> QED BY <1>1, <1>2, <1>3, <1>4, <1>5, <1>6, <1>7 DEF Steps, Tick, vars

\* A hit comes within two windows of the beginning of its own, in this process
\* within the window itself.
LEMMA HitTime ==
  ASSUME Shape, Timely, Prompt, NEW r \in Request, req[r].place \in Under,
         NEW k, k = Counter(r, Bucket(r))
  PROVE  /\ now < k[4] * WindowOf(k[2]) + 2 * WindowOf(k[2])
         /\ ~conf.remote => now = Read(r) /\ now < k[4] * WindowOf(k[2]) + WindowOf(k[2])
<1>1. /\ k[2] = Index(r) /\ k[4] = Bucket(r) /\ k[2] \in DOMAIN conf.limits
      /\ WindowOf(k[2]) \in Nat \ {0} /\ Read(r) \in Nat /\ Bucket(r) \in Nat
  BY Typed, TtlFacts
<1>2. Read(r) <= now /\ now <= Read(r) + Delay /\ now \in Nat
  <2>1. Index(r) \in DOMAIN req[r].clock
    BY Typed
  <2> QED BY <2>1 DEF Timely, Read, Shape
<1>3. Read(r) < k[4] * WindowOf(k[2]) + WindowOf(k[2])
  <2>1. Read(r) < (Bucket(r) + 1) * WindowOf(k[2])
    BY <1>1, TtlFacts
  <2>2. (Bucket(r) + 1) * WindowOf(k[2]) = Bucket(r) * WindowOf(k[2]) + WindowOf(k[2])
    BY <1>1
  <2> QED BY <1>1, <2>1, <2>2
<1>4. Delay \in Nat /\ Delay <= WindowOf(k[2]) /\ (~conf.remote => Delay = 0)
  BY <1>1, BoundAssumption DEF Delay, Prompt, WindowOf
<1>5. k[4] * WindowOf(k[2]) \in Nat
  BY <1>1
<1> QED BY <1>1, <1>2, <1>3, <1>4, <1>5

LEMMA SingleNext == ASSUME Shape, Timely, Counted, Single, Steps PROVE Single'
<1>1. UNCHANGED conf /\ now \in Nat /\ now' \in Nat /\ now <= now'
  BY Remembered DEF Shape
<1>2. SUFFICES ASSUME Prompt, ~conf.failing, Counters = 1, NEW k \in CounterNames
               PROVE  Exact(k)' /\ Cardinality(Passers(k)') <= LimitOf(k[2])
  BY <1>1 DEF Single, Prompt, Counters, CounterNames, LimitOf
<1> DEFINE w == WindowOf(k[2])
           E == k[4] * w + TtlOf(k[2])
<1>3. /\ w \in Nat \ {0} /\ TtlOf(k[2]) \in Nat /\ E \in Int /\ LimitOf(k[2]) \in Nat
      /\ w' = w /\ E' = E /\ k[4] * w \in Int
  <2>1. k[2] \in DOMAIN conf.limits /\ k[4] \in Int
    BY DEF CounterNames
  <2>2. w' = w /\ TtlOf(k[2])' = TtlOf(k[2])
    BY <1>1 DEF WindowOf, TtlOf
  <2> QED BY <2>1, <2>2, Typed
<1>4. Exact(k) /\ Cardinality(Passers(k)) <= LimitOf(k[2])
  BY <1>2 DEF Single
<1>5. Cardinality(Passers(k)) \in Nat /\ Cardinality(Passers(k)') \in Nat /\ Count(k) \in Nat
  BY PassersStep, CountType
\* Time and others' hits leave the count alone while it matters.
<1>6. ASSUME now' < E, UNCHANGED store PROVE Count(k)' >= Cardinality(Passers(k))
  <2>1. now < E /\ Cardinality(Passers(k)) <= Count(k)
    BY <1>1, <1>3, <1>4, <1>6 DEF Exact
  <2>2. CASE Live(k)
    <3>1. store[k].expires >= E /\ k \in DOMAIN store /\ store[k].expires \in Nat
      BY <2>2 DEF Live, Counted, Shape
    <3>2. Live(k)'
      BY <1>1, <1>3, <1>6, <3>1 DEF Live
    <3> QED BY <1>6, <2>1, <2>2, <3>2 DEF Count
  <2>3. CASE ~Live(k)
    <3>1. Cardinality(Passers(k)) = 0
      BY <1>5, <2>1, <2>3 DEF Count
    <3>2. Count(k)' \in Nat
      <4>1. k \in DOMAIN store => store[k].count \in Nat
        BY DEF Shape
      <4> QED BY <1>6, <4>1 DEF Count, Live
    <3> QED BY <3>1, <3>2
  <2> QED BY <2>2, <2>3
<1>7. ASSUME NEW r \in Request, NEW c, Counts(r, c), NEW h, h = Counter(r, Bucket(r))
      PROVE  /\ c = Count(h) + 1 /\ Count(h)' = Count(h) + 1 /\ UNCHANGED now
             /\ k # h => Count(k)' = Count(k)
             /\ h \in CounterNames
  <2>1. c = Count(h) + 1 /\ Incr(h, Ttl(r)) /\ UNCHANGED now /\ h \in CounterNames
    BY <1>2, <1>7, TtlFacts DEF Counts
  <2> QED BY <2>1, TtlFacts, IncrFacts
<1>8. ASSUME Passers(k)' \subseteq Passers(k), Cardinality(Passers(k)') <= Cardinality(Passers(k))
      PROVE  Exact(k)' /\ Cardinality(Passers(k)') <= LimitOf(k[2])
  <2>1. ASSUME now' < E PROVE Count(k)' >= Cardinality(Passers(k))
    <3>1. CASE UNCHANGED store
      BY <1>6, <2>1, <3>1
    <3>2. ASSUME NEW r \in Request, NEW c, Counts(r, c) PROVE Count(k)' >= Cardinality(Passers(k))
      <4>1. PICK h : h = Counter(r, Bucket(r))
        OBVIOUS
      <4>2. Cardinality(Passers(k)) <= Count(k)
        BY <1>1, <1>3, <1>4, <2>1 DEF Exact
      <4> QED BY <1>5, <1>7, <3>2, <4>1, <4>2
    <3> QED BY <3>1, <3>2 DEF Steps, Arrives, Looks, Leaves, Tick, vars
  <2>2. Exact(k)'
    <3>1. now' < E => Count(k)' >= Cardinality(Passers(k)')
      <4>1. Count(k)' \in Nat
        BY ShapeNext, CountTypeNext
      <4> QED BY <1>5, <1>8, <2>1, <4>1
    <3> QED BY <1>3, <3>1 DEF Exact
  <2> QED BY <1>3, <1>4, <1>5, <1>8, <2>2
<1>9. ASSUME NEW r \in Request, NEW c, Counts(r, c), k = Counter(r, Bucket(r)), c <= LimitOf(k[2]),
             Cardinality(Passers(k)') = Cardinality(Passers(k)) + 1
      PROVE  Exact(k)' /\ Cardinality(Passers(k)') <= LimitOf(k[2])
  <2>1. now < E
    <3>1. /\ now < k[4] * w + 2 * w
          /\ ~conf.remote => now < k[4] * w + w
      BY <1>2, <1>9, HitTime DEF Counts, Under
    <3>2. conf.remote => TtlOf(k[2]) = 2 * w
      BY <1>2 DEF Counters, TtlOf
    <3>3. TtlOf(k[2]) = 2 * w \/ TtlOf(k[2]) = w
      BY DEF TtlOf
    <3> QED BY <1>1, <1>3, <3>1, <3>2, <3>3
  <2>2. Cardinality(Passers(k)) <= Count(k)
    BY <1>4, <2>1 DEF Exact
  <2>3. c = Count(k) + 1 /\ Count(k)' = Count(k) + 1 /\ UNCHANGED now
    BY <1>7, <1>9
  <2>4. Cardinality(Passers(k)') <= Count(k)'
    BY <1>5, <1>9, <2>2, <2>3
  <2> QED BY <1>3, <1>5, <1>9, <2>2, <2>3, <2>4 DEF Exact
<1> QED BY <1>8, <1>9, PassersStep

LEMMA DoubleNext == ASSUME Shape, Timely, Counted, Double, Steps PROVE Double'
<1>1. UNCHANGED conf /\ now \in Nat /\ now' \in Nat /\ now <= now'
  BY Remembered DEF Shape
<1>2. SUFFICES ASSUME Prompt, ~conf.failing, Counters = 2, NEW k \in CounterNames
               PROVE  Renewed(k)'
  BY <1>1 DEF Double, Prompt, Counters, CounterNames
<1> DEFINE w == WindowOf(k[2])
           L == LimitOf(k[2])
           n == Cardinality(Passers(k))
           first == (k[4] + 1) * w
           second == (k[4] + 2) * w
<1>3. /\ w \in Nat \ {0} /\ L \in Nat /\ TtlOf(k[2]) = w /\ first \in Int /\ second \in Int
      /\ w' = w /\ L' = L /\ second = first + w /\ first = k[4] * w + w /\ k[4] * w \in Int
  <2>1. k[2] \in DOMAIN conf.limits /\ k[4] \in Int
    BY DEF CounterNames
  <2>2. w' = w /\ L' = L
    BY <1>1 DEF WindowOf, LimitOf
  <2>3. w \in Nat \ {0} /\ L \in Nat
    BY <2>1, Typed
  <2>4. TtlOf(k[2]) = w
    BY <1>2 DEF TtlOf, Counters
  <2>5. second = first + w /\ first = k[4] * w + w /\ k[4] * w \in Int
    BY <2>1, <2>3
  <2> QED BY <2>1, <2>2, <2>3, <2>4, <2>5
<1>4. Renewed(k)
  BY <1>2 DEF Double
<1>5. n \in Nat /\ n' \in Nat
  BY PassersStep
<1>6. Live(k) => store[k].count \in Nat /\ store[k].expires \in Nat /\ store[k].expires >= first
  BY <1>3 DEF Live, Shape, Counted
\* What is known of the counter, before and after, in the names above.
<1>7. /\ n <= 2 * L
      /\ Live(k) /\ store[k].expires < second => n <= store[k].count /\ n <= L
      /\ now < first /\ ~Live(k) => n = 0
      /\ \/ n <= L
         \/ now >= second
         \/ Live(k) /\ store[k].expires >= second /\ n <= L + store[k].count
  BY <1>4 DEF Renewed
<1> DEFINE Goal == /\ n' <= 2 * L
                   /\ Live(k)' /\ store'[k].expires < second => n' <= store'[k].count /\ n' <= L
                   /\ now' < first /\ ~(Live(k)') => n' = 0
                   /\ \/ n' <= L
                      \/ now' >= second
                      \/ Live(k)' /\ store'[k].expires >= second /\ n' <= L + store'[k].count
<1>8. SUFFICES Goal
  BY <1>3 DEF Renewed
<1> HIDE DEF n, w, L, first, second
\* Passers leave, or time passes, or the entry of a dead counter goes.
<1>9. ASSUME n' <= n, Live(k)' => Live(k) /\ store'[k] = store[k],
             Live(k) /\ ~(Live(k)') => store[k].expires <= now'
      PROVE  Goal
  BY <1>1, <1>3, <1>5, <1>6, <1>7, <1>9
<1>10. ASSUME UNCHANGED store
       PROVE  /\ Live(k)' => Live(k) /\ store'[k] = store[k]
              /\ Live(k) /\ ~(Live(k)') => store[k].expires <= now'
  BY <1>1, <1>6, <1>10 DEF Live, Shape
<1>11. ASSUME NEW r \in Request, NEW c, Counts(r, c), NEW h, h = Counter(r, Bucket(r))
       PROVE  /\ UNCHANGED now
              /\ k # h => (Live(k)' <=> Live(k)) /\ (Live(k) => store'[k] = store[k])
              /\ k = h => /\ Live(k)' /\ store'[k].count = c /\ c = Count(k) + 1
                          /\ store'[k].expires = IF Live(k) THEN store[k].expires ELSE now + w
                          /\ now < second
  <2>1. c = Count(h) + 1 /\ Incr(h, Ttl(r)) /\ UNCHANGED now /\ h \in CounterNames
    BY <1>2, <1>11, TtlFacts DEF Counts
  <2>2. ASSUME k = h PROVE Ttl(r) = w /\ now < second
    <3>1. Ttl(r) = w
      BY <1>3, <1>11, <2>2, TtlFacts
    <3>2. now < k[4] * WindowOf(k[2]) + 2 * WindowOf(k[2])
      BY <1>2, <1>11, <2>2, HitTime DEF Counts, Under
    <3> QED BY <1>3, <3>1, <3>2 DEF w
  <2> QED BY <2>1, <2>2, TtlFacts, IncrFacts
<1>12. ASSUME n' <= n PROVE Goal
  <2>1. CASE UNCHANGED store
    BY <1>9, <1>10, <1>12, <2>1
  <2>2. ASSUME NEW r \in Request, NEW c, Counts(r, c) PROVE Goal
    <3>1. PICK h : h = Counter(r, Bucket(r))
      OBVIOUS
    <3>2. CASE k # h
      <4>1. (Live(k)' <=> Live(k)) /\ (Live(k) => store'[k] = store[k])
        BY <1>11, <2>2, <3>1, <3>2
      <4> HIDE DEF Goal
      <4> QED BY <1>9, <1>12, <4>1
    <3>3. CASE k = h
      <4>1. /\ Live(k)' /\ store'[k].count = c /\ c = Count(k) + 1 /\ UNCHANGED now
            /\ store'[k].expires = IF Live(k) THEN store[k].expires ELSE now + w
            /\ now < second
        BY <1>11, <2>2, <3>1, <3>3
      <4>2. Count(k) = IF Live(k) THEN store[k].count ELSE 0
        BY DEF Count
      <4>3. CASE Live(k)
        BY <1>1, <1>3, <1>5, <1>6, <1>7, <1>12, <4>1, <4>2, <4>3
      <4>4. CASE ~Live(k)
        BY <1>1, <1>3, <1>5, <1>7, <1>12, <4>1, <4>2, <4>4
      <4> QED BY <4>3, <4>4
    <3> QED BY <3>2, <3>3
  <2> HIDE DEF Goal
  <2> QED BY <2>1, <2>2 DEF Steps, Arrives, Looks, Leaves, Tick, vars
<1>13. ASSUME NEW r \in Request, NEW c, Counts(r, c), k = Counter(r, Bucket(r)), c <= L,
              n' = n + 1
       PROVE  Goal
  <2>1. /\ Live(k)' /\ store'[k].count = c /\ c = Count(k) + 1 /\ UNCHANGED now
        /\ store'[k].expires = IF Live(k) THEN store[k].expires ELSE now + w
        /\ now < second
    BY <1>11, <1>13
  <2>2. Count(k) = IF Live(k) THEN store[k].count ELSE 0
    BY DEF Count
  <2>3. CASE Live(k)
    BY <1>1, <1>3, <1>5, <1>6, <1>7, <1>13, <2>1, <2>2, <2>3
  <2>4. CASE ~Live(k)
    BY <1>1, <1>3, <1>5, <1>7, <1>13, <2>1, <2>2, <2>4
  <2> QED BY <2>3, <2>4
<1> HIDE DEF Goal
<1> QED BY <1>12, <1>13, PassersStep DEF n, L

-----------------------------------------------------------------------------
(* The sliding estimate *)

LEMMA WeightGrows ==
  ASSUME NEW k, WindowOf(k[2]) \in Nat, NEW a \in Nat, NEW b \in Nat, NEW p \in Nat, NEW s \in Nat,
         a <= b, p <= s, NEW e \in Nat, e <= WindowOf(k[2])
  PROVE  /\ Weight(k, a, p, e) <= Weight(k, b, s, e)
         /\ Weight(k, a, p, e) \in Nat /\ Weight(k, b, s, e) \in Nat
<1>1. WindowOf(k[2]) - e \in Nat
  OBVIOUS
<1>2. a * WindowOf(k[2]) <= b * WindowOf(k[2]) /\ p * (WindowOf(k[2]) - e) <= s * (WindowOf(k[2]) - e)
  BY <1>1, TimesLe
<1>3. /\ a * WindowOf(k[2]) \in Nat /\ b * WindowOf(k[2]) \in Nat
      /\ p * (WindowOf(k[2]) - e) \in Nat /\ s * (WindowOf(k[2]) - e) \in Nat
  BY <1>1
<1> QED BY <1>2, <1>3 DEF Weight

LEMMA NameFacts ==
  ASSUME Shape, NEW k \in CounterNames
  PROVE  /\ k = <<k[1], k[2], k[3], k[4]>> /\ k[2] \in DOMAIN conf.limits /\ k[4] \in Int
         /\ WindowOf(k[2]) \in Nat \ {0} /\ LimitOf(k[2]) \in Nat /\ Bound(k) \in Nat
         /\ Before(k) \in CounterNames /\ Before(k) # k
         /\ Before(k)[2] = k[2] /\ Before(k)[4] = k[4] - 1
<1>1. /\ k = <<k[1], k[2], k[3], k[4]>> /\ k[2] \in DOMAIN conf.limits /\ k[4] \in Int
      /\ k[1] \in {Scope[rt] : rt \in Route} /\ k[3] \in Key
  BY DEF CounterNames
<1>2. WindowOf(k[2]) \in Nat \ {0} /\ LimitOf(k[2]) \in Nat
  BY <1>1, Typed
<1>3. Bound(k) \in Nat
  BY <1>2 DEF Bound
<1>4. Before(k) \in CounterNames /\ Before(k)[2] = k[2] /\ Before(k)[4] = k[4] - 1
  BY <1>1 DEF Before, CounterNames
<1>5. Before(k) # k
  BY <1>1, <1>4
<1> QED BY <1>1, <1>2, <1>3, <1>4, <1>5

LEMMA WithinFacts ==
  ASSUME Shape, NEW k \in CounterNames, NEW q \in Passers(k)
  PROVE  /\ q \in Request /\ k[2] \in DOMAIN req[q].clock /\ req[q].clock[k[2]] \in Nat
         /\ req[q].clock[k[2]] \div WindowOf(k[2]) = k[4]
         /\ Within(k, q) \in Nat /\ Within(k, q) < WindowOf(k[2])
         /\ req[q].clock[k[2]] = k[4] * WindowOf(k[2]) + Within(k, q)
<1>1. /\ q \in Request /\ k[2] \in DOMAIN req[q].clock
      /\ req[q].clock[k[2]] \div WindowOf(k[2]) = k[4]
  BY DEF Passers, Passed, Names
<1>2. req[q].clock[k[2]] \in Nat
  <2>1. req[q].clock \in Seq(Nat)
    BY <1>1, Typed DEF Requests
  <2> QED BY <1>1, <2>1
<1>3. WindowOf(k[2]) \in Nat \ {0}
  BY NameFacts
<1> QED BY <1>1, <1>2, <1>3, DivMod DEF Within

LEMMA SmoothFinite ==
  ASSUME Shape, NEW k, NEW S, S \subseteq Passers(k)
  PROVE  IsFiniteSet(S) /\ Cardinality(S) \in Nat /\ Cardinality(S) <= Cardinality(Passers(k))
BY SetsFinite, FS_Subset, FS_CardinalityType

\* Nobody got by a window that has not begun.
LEMMA Future ==
  ASSUME Shape, Timely, NEW r \in Request, req[r].place \in Under, ~conf.remote,
         NEW k \in CounterNames, Before(k) = Counter(r, Bucket(r))
  PROVE  Passers(k) = {}
<1>1. SUFFICES ASSUME NEW q \in Passers(k) PROVE FALSE
  OBVIOUS
<1>2. /\ q \in Request /\ req[q].clock[k[2]] \in Nat /\ k[2] \in DOMAIN req[q].clock
      /\ req[q].clock[k[2]] \div WindowOf(k[2]) = k[4]
  BY WithinFacts
<1>3. /\ k[2] = Index(r) /\ k[4] = Bucket(r) + 1 /\ WindowOf(k[2]) \in Nat \ {0}
      /\ Bucket(r) \in Nat /\ Window(r) = WindowOf(k[2])
  BY NameFacts, TtlFacts, Typed
<1>4. req[q].clock[k[2]] <= Read(r) /\ Read(r) \in Nat
  <2>1. req[q].clock[k[2]] <= now /\ now <= Read(r) + Delay
    BY <1>2 DEF Timely
  <2>2. Delay = 0 /\ now \in Nat /\ Read(r) \in Nat
    BY Typed DEF Delay, Shape
  <2> QED BY <1>2, <2>1, <2>2
<1>5. Read(r) < (Bucket(r) + 1) * WindowOf(k[2])
  BY <1>3, TtlFacts
<1>6. req[q].clock[k[2]] \div WindowOf(k[2]) <= Bucket(r)
  <2>1. req[q].clock[k[2]] < (Bucket(r) + 1) * WindowOf(k[2])
    BY <1>2, <1>3, <1>4, <1>5
  <2> QED BY <1>2, <1>3, <2>1, BucketOrder
<1> QED BY <1>2, <1>3, <1>6

LEMMA SmoothSubset == ASSUME NEW k PROVE Smooth(k) \subseteq Passers(k) /\ (Smooth(k) \subseteq Passers(k))'
BY DEF Smooth

\* A step that lets no more through, of this window or the one before.
LEMMA CalmStays ==
  ASSUME Shape, Steps, NEW k \in CounterNames, Calm(k), Smooth(k)' \subseteq Smooth(k),
         Cardinality(Passers(Before(k))') <= Cardinality(Passers(Before(k)))
  PROVE  Calm(k)'
<1>1. UNCHANGED conf
  BY Remembered
<1>2. /\ WindowOf(k[2])' = WindowOf(k[2]) /\ Bound(k)' = Bound(k)
      /\ WindowOf(k[2]) \in Nat \ {0} /\ Bound(k) \in Nat /\ Before(k) \in CounterNames
  BY <1>1, NameFacts DEF WindowOf, LimitOf, Bound
<1>3. \A q \in Smooth(k) : /\ Within(k, q)' = Within(k, q)
                           /\ Within(k, q) \in Nat /\ Within(k, q) < WindowOf(k[2])
  <2>1. SUFFICES ASSUME NEW q \in Smooth(k) PROVE Within(k, q)' = Within(k, q)
    BY WithinFacts, SmoothSubset
  <2>2. q \in Request /\ k[2] \in DOMAIN req[q].clock
    BY <2>1, WithinFacts, SmoothSubset
  <2> QED BY <1>1, <2>2, Remembered DEF Within, WindowOf
<1>4. ASSUME NEW r \in Smooth(k)'
      PROVE  Weight(k, Cardinality(Upto(k, r)), Cardinality(Passers(Before(k))), Within(k, r))' <= Bound(k)
  <2>1. Upto(k, r)' \subseteq Upto(k, r)
    BY <1>3 DEF Upto
  <2>2. /\ IsFiniteSet(Upto(k, r)) /\ Cardinality(Upto(k, r)) \in Nat
    BY SmoothSubset, SmoothFinite DEF Upto
  <2>3. Cardinality(Upto(k, r)') <= Cardinality(Upto(k, r)) /\ Cardinality(Upto(k, r)') \in Nat
    BY <2>1, <2>2, FS_Subset, FS_CardinalityType
  <2>4. Cardinality(Passers(Before(k))) \in Nat /\ Cardinality(Passers(Before(k))') \in Nat
    BY <1>2, PassersStep
  <2>5. Weight(k, Cardinality(Upto(k, r)'), Cardinality(Passers(Before(k))'), Within(k, r))
          <= Weight(k, Cardinality(Upto(k, r)), Cardinality(Passers(Before(k))), Within(k, r))
        /\ Weight(k, Cardinality(Upto(k, r)'), Cardinality(Passers(Before(k))'), Within(k, r)) \in Nat
        /\ Weight(k, Cardinality(Upto(k, r)), Cardinality(Passers(Before(k))), Within(k, r)) \in Nat
    <3>1. /\ Within(k, r) \in Nat /\ Within(k, r) <= WindowOf(k[2]) /\ WindowOf(k[2]) \in Nat
      <4>1. r \in Smooth(k)
        BY <1>4
      <4>2. Within(k, r) \in Nat /\ Within(k, r) < WindowOf(k[2]) /\ WindowOf(k[2]) \in Nat
        BY <1>2, <1>3, <4>1
      <4> QED BY <4>2
    <3> QED BY <2>2, <2>3, <2>4, <3>1, WeightGrows
  <2>6. Weight(k, Cardinality(Upto(k, r)), Cardinality(Passers(Before(k))), Within(k, r)) <= Bound(k)
    BY <1>4 DEF Calm
  <2>7. Weight(k, Cardinality(Upto(k, r)), Cardinality(Passers(Before(k))), Within(k, r))'
          = Weight(k, Cardinality(Upto(k, r)'), Cardinality(Passers(Before(k))'), Within(k, r))
    BY <1>2, <1>3, <1>4 DEF Weight, Before
  <2> QED BY <1>2, <2>5, <2>6, <2>7
<1> QED BY <1>2, <1>4 DEF Calm

LEMMA FitsSame ==
  ASSUME Shape, UNCHANGED conf, NEW k, NEW q, req'[q] = req[q],
         Passers(Before(k))' = Passers(Before(k))
  PROVE  Fits(k, q)' <=> Fits(k, q)
<1>1. /\ Index(q)' = Index(q) /\ Within(k, q)' = Within(k, q) /\ Bound(k)' = Bound(k)
      /\ WindowOf(k[2])' = WindowOf(k[2])
  BY DEF Index, Within, Bound, WindowOf, LimitOf
<1>2. Weight(k, req[q].current, Cardinality(Passers(Before(k))), Within(k, q))'
        = Weight(k, req[q].current, Cardinality(Passers(Before(k))), Within(k, q))
  BY <1>1 DEF Weight
<1> QED BY <1>1, <1>2 DEF Fits

LEMMA SmoothElsewhere ==
  ASSUME Shape, NEW r, Moves(r), NEW h, h = Counter(r, Bucket(r)),
         NEW k \in CounterNames, k # h, Before(k) # h
  PROVE  Smooth(k)' = Smooth(k) /\ Passers(Before(k))' = Passers(Before(k))
<1>1. Before(k) \in CounterNames /\ k = <<k[1], k[2], k[3], k[4]>>
  BY NameFacts
<1>2. Passers(k)' = Passers(k) /\ Passers(Before(k))' = Passers(Before(k))
  <2>1. ASSUME NEW j \in CounterNames, j # h PROVE Passers(j)' = Passers(j)
    BY <2>1, MovesSets
  <2>2. PICK j : j = Before(k)
    OBVIOUS
  <2> QED BY <1>1, <2>1, <2>2 DEF Before
<1>3. UNCHANGED conf /\ r \in Request /\ \A q \in Request : q # r => req'[q] = req[q]
  BY MoveShape DEF Moves
<1>4. ASSUME NEW q \in Passers(k), q # r PROVE Fits(k, q)' <=> Fits(k, q)
  <2>1. req'[q] = req[q]
    BY <1>3, <1>4 DEF Passers
  <2> QED BY <1>2, <1>3, <2>1, FitsSame
<1>5. ASSUME r \in Passers(k) PROVE Fits(k, r)' /\ Fits(k, r)
  <2>1. k[2] # Index(r)
    <3>1. Names(req[r], k)
      BY <1>5 DEF Passers, Passed
    <3>2. k[2] = Index(r) => k = h
      BY <1>1, <3>1 DEF Names, Counter, Bucket, Read, Window, WindowOf
    <3> QED BY <3>2
  <2>2. req'[r].place = "weighing" => Index(r)' = Index(r)
    BY DEF Moves, Index
  <2> QED BY <2>1, <2>2 DEF Fits
<1>6. Smooth(k)' = {q \in Passers(k)' : Fits(k, q)'}
  BY DEF Smooth
<1> QED BY <1>2, <1>4, <1>5, <1>6 DEF Smooth

\* In this process the counter of the window before is still exact when it is read.
LEMMA LookSmooth ==
  ASSUME Shape, Timely, Counted, Known, Single, conf.sliding, ~conf.remote,
         NEW r \in Request, Looks(r), NEW h, h = Counter(r, Bucket(r))
  PROVE  Smooth(h)' \subseteq Smooth(h) /\ Passers(Before(h))' = Passers(Before(h))
<1>1. /\ h \in CounterNames /\ Before(h) \in CounterNames /\ Before(h) # h
      /\ Before(h) = Counter(r, Bucket(r) - 1) /\ h[2] = Index(r) /\ h[4] = Bucket(r)
      /\ WindowOf(h[2]) \in Nat \ {0} /\ Before(h)[2] = h[2] /\ Before(h)[4] = h[4] - 1
  BY TtlFacts, NameFacts DEF Before, Counter
<1>2. Moves(r) /\ req[r].place = "weighing" /\ UNCHANGED conf
  BY DEF Looks, Moves
<1>3. Passers(Before(h))' = Passers(Before(h)) /\ Passers(h)' \subseteq Passers(h)
  <2>1. PICK j : j = Before(h)
    OBVIOUS
  <2> QED BY <1>1, <1>2, <2>1, MovesSets, LooksPasses DEF Before
<1>4. ASSUME NEW q \in Smooth(h)', q # r PROVE q \in Smooth(h)
  <2>1. q \in Passers(h) /\ Fits(h, q)'
    BY <1>3, <1>4 DEF Smooth
  <2>2. req'[q] = req[q]
    BY <1>2, <1>4, <2>1, MoveShape DEF Passers
  <2> QED BY <1>2, <1>3, <2>1, <2>2, FitsSame DEF Smooth
<1>5. ASSUME r \in Smooth(h)' PROVE r \in Smooth(h)
  <2>1. r \in Passers(h) /\ r \in Passers(h)'
    BY <1>3, <1>5 DEF Smooth
  <2>2. GetsBy(r)
    BY <1>1, <1>2, <2>1, MovesSets
  <2>3. ~conf.failing /\ Prompt /\ Counters = 1
    BY DEF Shape, ConfigOK, Prompt, Counters
  <2>4. PICK p \in Nat : /\ Verdict(r, req[r].current, p)
                         /\ p = Count(Counter(r, Bucket(r) - 1)) \/ (conf.failing /\ p = 0)
    BY DEF Looks
  <2>5. ~Over(r, req[r].current, p) /\ p = Count(Before(h))
    BY <1>1, <2>2, <2>3, <2>4, <1>2 DEF Verdict, GetsBy
  <2>6. Cardinality(Passers(Before(h))) <= p /\ Cardinality(Passers(Before(h))) \in Nat
    <3>1. now < h[4] * WindowOf(h[2]) + WindowOf(h[2])
      BY <1>2, <2>3, HitTime DEF Under
    <3>2. (h[4] - 1) * WindowOf(h[2]) + 2 * WindowOf(h[2]) = h[4] * WindowOf(h[2]) + WindowOf(h[2])
      BY <1>1, Typed
    <3>3. now < Before(h)[4] * WindowOf(Before(h)[2]) + TtlOf(Before(h)[2])
      BY <1>1, <3>1, <3>2 DEF TtlOf
    <3>4. Exact(Before(h))
      BY <1>1, <2>3 DEF Single
    <3> QED BY <2>5, <3>3, <3>4, SetsFinite DEF Exact
  <2>7. /\ Within(h, r) = Elapsed(r) /\ WindowOf(h[2]) = Window(r) /\ Elapsed(r) \in Nat
        /\ Elapsed(r) <= Window(r) /\ Bound(h) = conf.limits[Index(r)].limit * Window(r)
    <3>1. Elapsed(r) \in Nat /\ Elapsed(r) < Window(r) /\ Window(r) \in Nat
      BY Typed
    <3>2. WindowOf(h[2]) = Window(r)
      BY <1>1 DEF Window, WindowOf
    <3>3. Within(h, r) = Elapsed(r)
      BY <1>1, <3>2 DEF Within, Elapsed, Read
    <3> QED BY <1>1, <3>1, <3>2, <3>3 DEF Bound, LimitOf
  <2>8. req[r].current \in Nat /\ Bound(h) \in Nat
    BY <1>1, Typed, NameFacts DEF Requests
  <2> DEFINE w == WindowOf(h[2])
             e == Elapsed(r)
             a == req[r].current
             n == Cardinality(Passers(Before(h)))
  <2>9. /\ w \in Nat /\ e \in Nat /\ e <= w /\ a \in Nat /\ a <= a /\ p <= p
        /\ n \in Nat /\ n <= p
    BY <1>1, <2>6, <2>7, <2>8
  <2>10. /\ Weight(h, a, n, e) <= Weight(h, a, p, e)
         /\ Weight(h, a, n, e) \in Nat /\ Weight(h, a, p, e) \in Nat
    <3> HIDE DEF e, a, n
    <3> QED BY <2>4, <2>9, WeightGrows
  <2>11. Weight(h, req[r].current, p, Elapsed(r)) <= Bound(h)
    BY <2>5, <2>7, <2>8, <2>10 DEF Over, Weight
  <2>12. Weight(h, req[r].current, Cardinality(Passers(Before(h))), Elapsed(r)) <= Bound(h)
    BY <2>8, <2>11, <2>10
  <2> QED BY <2>1, <2>7, <2>12 DEF Smooth, Fits
<1> QED BY <1>3, <1>4, <1>5

LEMMA HitCalm ==
  ASSUME Shape, Timely, Counted, Single, conf.sliding, ~conf.remote, Steps,
         NEW r \in Request, NEW c, Counts(r, c), NEW h, h = Counter(r, Bucket(r)), Calm(h)
  PROVE  Calm(h)'
<1>1. /\ h \in CounterNames /\ Before(h) \in CounterNames /\ Before(h) # h
      /\ h[2] = Index(r) /\ h[4] = Bucket(r)
      /\ WindowOf(h[2]) \in Nat \ {0} /\ Bound(h) \in Nat
  BY TtlFacts, NameFacts DEF Before
<1>2. /\ Moves(r) /\ UNCHANGED conf /\ req[r].place = "asking" /\ c \in Nat
      /\ req'[r].place = "weighing" /\ req'[r].current = c /\ req'[r].clock = req[r].clock
      /\ ~conf.failing /\ Prompt /\ Counters = 1
  BY DEF Counts, Moves, Shape, ConfigOK, Prompt, Counters
<1>3. Passers(Before(h))' = Passers(Before(h))
  <2>1. PICK j : j = Before(h)
    OBVIOUS
  <2> QED BY <1>1, <1>2, <2>1, MovesSets DEF Before
<1>4. Passers(h)' \subseteq Passers(h) \cup {r} /\ r \notin Passers(h)
  <2>1. r \notin Askers(h)
    BY <1>1, <1>2, MovesSets
  <2>2. r \notin Passers(h)
    BY <2>1 DEF Askers, Passers, Asked, Passed
  <2> QED BY <1>1, <1>2, <2>2, MovesSets
<1>5. ASSUME NEW q \in Smooth(h)', q # r PROVE q \in Smooth(h)
  <2>1. q \in Passers(h) /\ Fits(h, q)'
    BY <1>4, <1>5 DEF Smooth
  <2>2. req'[q] = req[q]
    BY <1>2, <1>5, <2>1, MoveShape DEF Passers
  <2> QED BY <1>2, <1>3, <2>1, <2>2, FitsSame DEF Smooth
<1>6. CASE r \notin Smooth(h)'
  <2>1. Cardinality(Passers(Before(h))) \in Nat
    BY SetsFinite
  <2> QED BY <1>1, <1>3, <1>5, <1>6, <2>1, CalmStays
<1>7. CASE r \in Smooth(h)'
  <2> DEFINE w == WindowOf(h[2])
             n == Cardinality(Passers(Before(h)))
             e == Within(h, r)
  <2>1. /\ WindowOf(h[2])' = w /\ Bound(h)' = Bound(h) /\ w \in Nat \ {0}
        /\ n' = n /\ n \in Nat
    BY <1>1, <1>2, <1>3, SetsFinite DEF WindowOf, LimitOf, Bound
  <2>2. /\ e \in Nat /\ e < w /\ e' = e /\ Read(r) \in Nat
        /\ Read(r) = Bucket(r) * w + e /\ e = Elapsed(r)
    <3>1. Read(r) \in Nat /\ Bucket(r) \in Nat
      BY Typed
    <3>2. e = Read(r) % w /\ Bucket(r) = Read(r) \div w
      BY <1>1 DEF Within, Read, Bucket, Window, WindowOf
    <3>3. e' = e
      BY <1>2 DEF Within, WindowOf
    <3>4. Elapsed(r) = Read(r) % w
      BY <1>1 DEF Elapsed, Window, WindowOf
    <3>5. /\ Read(r) % w \in Nat /\ Read(r) % w < w
          /\ Read(r) = (Read(r) \div w) * w + (Read(r) % w)
      BY <2>1, <3>1, DivMod
    <3> HIDE DEF e, w
    <3> QED BY <3>1, <3>2, <3>3, <3>4, <3>5
  \* The others of the window came before, whatever the order of their hits.
  <2>3. ASSUME NEW q \in Smooth(h), q # r
        PROVE  /\ Within(h, q)' = Within(h, q) /\ Within(h, q) \in Nat /\ Within(h, q) <= e
    <3>1. q \in Passers(h)
      BY SmoothSubset
    <3>2. /\ q \in Request /\ h[2] \in DOMAIN req[q].clock /\ req[q].clock[h[2]] \in Nat
          /\ Within(h, q) \in Nat
          /\ req[q].clock[h[2]] = h[4] * WindowOf(h[2]) + Within(h, q)
      BY <1>1, <3>1, WithinFacts
    <3>3. Within(h, q)' = Within(h, q)
      BY <1>2, <3>2, Remembered DEF Within, WindowOf
    <3>4. req[q].clock[h[2]] <= Read(r)
      <4>1. req[q].clock[h[2]] <= now
        BY <3>2 DEF Timely
      <4>2. now = Read(r)
        BY <1>2, HitTime DEF Under
      <4> QED BY <4>1, <4>2
    <3>5. Bucket(r) * w \in Nat
      BY <1>1, Typed
    <3> QED BY <1>1, <2>2, <3>2, <3>3, <3>4, <3>5
  <2>4. /\ IsFiniteSet(Smooth(h)') /\ Cardinality(Smooth(h)') \in Nat
        /\ Cardinality(Smooth(h)') <= c
    <3>1. Smooth(h)' \subseteq Passers(h) \cup {r}
      BY <1>4 DEF Smooth
    <3>2. IsFiniteSet(Passers(h)) /\ Cardinality(Passers(h)) \in Nat
      BY SetsFinite
    <3>3. /\ IsFiniteSet(Passers(h) \cup {r})
          /\ Cardinality(Passers(h) \cup {r}) = Cardinality(Passers(h)) + 1
      BY <1>4, <3>2, FS_AddElement
    <3>4. Cardinality(Passers(h)) + 1 <= c
      <4>1. now < h[4] * w + TtlOf(h[2])
        <5>1. now < h[4] * w + 2 * w
          BY <1>2, HitTime DEF Under
        <5> QED BY <5>1 DEF TtlOf
      <4>2. Cardinality(Passers(h)) <= Count(h)
        BY <1>1, <1>2, <4>1 DEF Single, Exact
      <4>3. c = Count(h) + 1 /\ Count(h) \in Nat
        BY <1>2, CountType DEF Counts
      <4> QED BY <3>2, <4>2, <4>3
    <3>5. /\ IsFiniteSet(Smooth(h)') /\ Cardinality(Smooth(h)') \in Nat
          /\ Cardinality(Smooth(h)') <= Cardinality(Passers(h)) + 1
      BY <3>1, <3>3, FS_Subset, FS_CardinalityType
    <3> QED BY <1>2, <3>2, <3>4, <3>5
  <2>5. Weight(h, c, n, e) <= Bound(h)
    <3>1. Fits(h, r)'
      BY <1>7 DEF Smooth
    <3>2. Index(r)' = h[2]
      BY <1>1, <1>2 DEF Index
    <3>3. Weight(h, req[r].current, n, e)' <= Bound(h)'
      BY <1>2, <3>1, <3>2 DEF Fits
    <3>4. Weight(h, req[r].current, n, e)' = Weight(h, c, n, e)
      BY <1>2, <2>1, <2>2 DEF Weight
    <3> QED BY <2>1, <3>3, <3>4
  <2>6. ASSUME NEW q \in Smooth(h)'
        PROVE  Weight(h, Cardinality(Upto(h, q)), n, Within(h, q))' <= Bound(h)
    <3> DEFINE u == Cardinality(Upto(h, q)')
    <3>1. IsFiniteSet(Upto(h, q)') /\ u \in Nat /\ u <= c
      <4>1. Upto(h, q)' \subseteq Smooth(h)'
        BY DEF Upto
      <4>2. IsFiniteSet(Upto(h, q)') /\ u \in Nat /\ u <= Cardinality(Smooth(h)')
        BY <2>4, <4>1, FS_Subset, FS_CardinalityType
      <4> QED BY <1>2, <2>4, <4>2
    <3>2. /\ Within(h, q)' = Within(h, q) /\ Within(h, q) \in Nat /\ Within(h, q) <= e
      BY <1>5, <2>2, <2>3
    <3>3. Weight(h, Cardinality(Upto(h, q)), n, Within(h, q))' = Weight(h, u, n, Within(h, q))
      BY <2>1, <3>2 DEF Weight
    <3>4. CASE Within(h, q) = e
      <4>1. Weight(h, u, n, e) <= Weight(h, c, n, e)
            /\ Weight(h, u, n, e) \in Nat /\ Weight(h, c, n, e) \in Nat
        <5>1. e \in Nat /\ e <= w /\ w \in Nat /\ n \in Nat /\ n <= n
          BY <2>1, <2>2
        <5> HIDE DEF e, n, u
        <5> QED BY <1>2, <3>1, <5>1, WeightGrows
      <4> QED BY <1>1, <2>5, <3>3, <3>4, <4>1
    <3>5. CASE Within(h, q) < e
      <4>1. q # r /\ q \in Smooth(h)
        BY <1>5, <2>2, <3>5
      <4>2. Upto(h, q)' \subseteq Upto(h, q)
        <5>1. SUFFICES ASSUME NEW x \in Upto(h, q)' PROVE x \in Upto(h, q)
          OBVIOUS
        <5>2. x \in Smooth(h)' /\ Within(h, x)' <= Within(h, q)
          BY <3>2, <5>1 DEF Upto
        <5>3. x # r
          BY <2>2, <3>2, <3>5, <5>2
        <5> QED BY <1>5, <2>3, <5>2, <5>3 DEF Upto
      <4>3. /\ IsFiniteSet(Upto(h, q)) /\ Cardinality(Upto(h, q)) \in Nat
        BY SmoothSubset, SmoothFinite DEF Upto
      <4>4. u <= Cardinality(Upto(h, q))
        BY <4>2, <4>3, FS_Subset
      <4>5. Weight(h, u, n, Within(h, q)) <= Weight(h, Cardinality(Upto(h, q)), n, Within(h, q))
            /\ Weight(h, u, n, Within(h, q)) \in Nat
            /\ Weight(h, Cardinality(Upto(h, q)), n, Within(h, q)) \in Nat
        <5>1. /\ Within(h, q) \in Nat /\ Within(h, q) <= w /\ w \in Nat /\ n \in Nat /\ n <= n
          BY <2>1, <2>2, <3>2
        <5> HIDE DEF n, u
        <5> QED BY <3>1, <4>3, <4>4, <5>1, WeightGrows
      <4>6. Weight(h, Cardinality(Upto(h, q)), n, Within(h, q)) <= Bound(h)
        BY <4>1 DEF Calm
      <4> QED BY <1>1, <3>3, <4>5, <4>6
    <3> QED BY <2>2, <3>2, <3>4, <3>5
  <2> QED BY <2>1, <2>6 DEF Calm
<1> QED BY <1>6, <1>7

LEMMA SmoothedNext ==
  ASSUME Shape, Timely, Counted, Known, Single, Smoothed, Steps
  PROVE  Smoothed'
<1>1. UNCHANGED conf
  BY Remembered
<1>2. SUFFICES ASSUME conf.sliding, ~conf.remote, NEW k \in CounterNames PROVE Calm(k)'
  BY <1>1 DEF Smoothed, CounterNames
<1>3. Calm(k) /\ Before(k) \in CounterNames /\ Before(k) # k
  BY <1>2, NameFacts DEF Smoothed
<1>4. Cardinality(Passers(Before(k))) \in Nat
  BY SetsFinite
<1>5. ASSUME Smooth(k)' \subseteq Smooth(k), Passers(Before(k))' = Passers(Before(k))
      PROVE  Calm(k)'
  BY <1>3, <1>4, <1>5, CalmStays
<1>6. ASSUME \A q \in Request : req'[q] = req[q],
             \A j \in CounterNames : Passers(j)' = Passers(j)
      PROVE  Calm(k)'
  <2>1. Passers(k)' = Passers(k) /\ Passers(Before(k))' = Passers(Before(k))
    <3>1. PICK j : j = Before(k)
      OBVIOUS
    <3> QED BY <1>3, <1>6, <3>1 DEF Before
  <2>2. ASSUME NEW q \in Smooth(k)' PROVE q \in Smooth(k)
    <3>1. q \in Passers(k) /\ Fits(k, q)' /\ req'[q] = req[q]
      BY <1>6, <2>1, <2>2 DEF Smooth, Passers
    <3> QED BY <1>1, <2>1, <3>1, FitsSame DEF Smooth
  <2> QED BY <1>5, <2>1, <2>2
<1>7. CASE Arrives
  BY <1>6, <1>7 DEF Arrives
<1>8. CASE UNCHANGED <<conf, req>>
  <2>1. ASSUME NEW j PROVE Passers(j)' = Passers(j)
    BY <1>8 DEF Passers, Passed, Names, WindowOf, LimitOf, Request
  <2> QED BY <1>6, <1>8, <2>1
<1>9. ASSUME NEW r \in Request, (\E c : Counts(r, c)) \/ Looks(r) PROVE Calm(k)'
  <2>1. PICK h : h = Counter(r, Bucket(r))
    OBVIOUS
  <2>2. Moves(r) /\ req[r].place \in Under
    BY <1>9 DEF Counts, Looks, Under
  <2>3. CASE k = h
    <3>1. CASE \E c : Counts(r, c)
      BY <1>2, <1>3, <2>1, <2>3, <3>1, HitCalm
    <3>2. CASE Looks(r)
      BY <1>2, <1>5, <2>1, <2>3, <3>2, LookSmooth
    <3> QED BY <1>9, <3>1, <3>2
  <2>4. CASE Before(k) = h
    <3>1. Passers(k) = {}
      BY <1>2, <2>1, <2>2, <2>4, Future
    <3>2. Passers(k)' = Passers(k)
      BY <1>3, <2>1, <2>2, <2>4, MovesSets
    <3> QED BY <3>1, <3>2 DEF Calm, Smooth
  <2>5. CASE k # h /\ Before(k) # h
    BY <1>5, <2>1, <2>2, <2>5, SmoothElsewhere
  <2> QED BY <2>3, <2>4, <2>5
<1> QED BY <1>2, <1>7, <1>8, <1>9 DEF Steps, Leaves, Tick, vars

-----------------------------------------------------------------------------
(* The invariant holds *)

LEMMA InvInit == Init => IInv
<1>1. SUFFICES ASSUME Init PROVE IInv
  OBVIOUS
<1>2. Request = {} /\ DOMAIN store = {} /\ ConfigOK(conf) /\ now = 0
  <2>1. /\ req = <<>> /\ store = [k \in {} |-> 0] /\ now = 0 /\ conf \in Configs
    BY <1>1 DEF Init
  <2>2. DOMAIN req = {} /\ DOMAIN store = {}
    BY <2>1
  <2> QED BY <2>1, <2>2, ConfigsAssumption DEF Request
<1>3. Shape
  <2>1. req \in Seq(Requests)
    <3>1. req = <<>>
      BY <1>1 DEF Init
    <3> QED BY <3>1
  <2>2. IsFiniteSet(DOMAIN store)
    BY <1>2, FS_EmptySet
  <2>3. store = [k \in DOMAIN store |-> store[k]]
    BY <1>1 DEF Init
  <2> QED BY <1>2, <2>1, <2>2, <2>3 DEF Shape
<1>4. ASSUME NEW k PROVE Passers(k) = {} /\ Cardinality(Passers(k)) = 0 /\ ~Live(k) /\ Count(k) = 0
  BY <1>2, FS_EmptySet DEF Passers, Live, Count
<1>5. Timely /\ Counted /\ Known /\ Denied /\ Used
  BY <1>2 DEF Timely, Counted, Known, Denied, Used
<1>6. Single
  BY <1>3, <1>4, NameFacts DEF Single, Exact
<1>7. Double
  BY <1>3, <1>4, NameFacts DEF Double, Renewed
<1>8. Smoothed
  BY <1>4 DEF Smoothed, Calm, Smooth
<1> QED BY <1>3, <1>5, <1>6, <1>7, <1>8 DEF IInv

LEMMA InvNext == ASSUME IInv, [Next]_vars PROVE IInv'
<1>1. Steps
  BY NextSteps DEF IInv
<1> QED BY <1>1, ShapeNext, TimelyNext, CountedNext, KnownNext, DeniedNext, UsedNext,
           SingleNext, DoubleNext, SmoothedNext DEF IInv

\* The counters, the requests' own knowledge of them and the clock stay in step.
THEOREM Invariant == Spec => []IInv
BY InvInit, InvNext, PTL DEF Spec

-----------------------------------------------------------------------------
(* What it says *)

LEMMA AllowedFacts ==
  ASSUME Shape, NEW sc, NEW key, NEW r \in AllowedBy(sc, key), NEW i \in DOMAIN conf.limits
  PROVE  /\ r \in Request /\ i \in DOMAIN req[r].clock /\ req[r].clock[i] \in Nat
         /\ InBucket(i, r) \in Nat
         /\ r \in Passers(<<sc, i, key, InBucket(i, r)>>)
<1>1. r \in Request /\ req[r].place = "allowed" /\ Scope[req[r].route] = sc /\ req[r].key = key
  BY DEF AllowedBy
<1>2. i \in DOMAIN req[r].clock /\ req[r].clock[i] \in Nat
  <2>1. req[r].clock \in Seq(Nat) /\ Len(req[r].clock) = Len(conf.limits)
    BY <1>1, Typed DEF Requests, Shape, Index
  <2>2. DOMAIN conf.limits = 1 .. Len(conf.limits)
    BY DEF Shape, ConfigOK
  <2> QED BY <2>1, <2>2
<1>3. InBucket(i, r) \in Nat
  BY <1>2, Typed, DivMod DEF InBucket, WindowOf
<1> QED BY <1>1, <1>2, <1>3 DEF Passers, Passed, Names, InBucket, WindowOf

LEMMA PassersWithin ==
  ASSUME Shape, Single, Double, Prompt, ~conf.failing, NEW k \in CounterNames
  PROVE  Cardinality(Passers(k)) <= Counters * LimitOf(k[2])
<1>1. LimitOf(k[2]) \in Nat
  BY NameFacts
<1>2. CASE Counters = 1
  BY <1>1, <1>2, SetsFinite DEF Single
<1>3. CASE Counters = 2
  BY <1>1, <1>3, SetsFinite DEF Double, Renewed
<1> QED BY <1>2, <1>3 DEF Counters

LEMMA CapHolds == ASSUME Shape, Single, Double, Prompt PROVE WindowCap
<1>1. SUFFICES ASSUME ~conf.failing, NEW i \in DOMAIN conf.limits, NEW rt \in Route, NEW key \in Key,
                      NEW b \in 0 .. MaxTime
               PROVE  Cardinality({r \in AllowedBy(Scope[rt], key) : InBucket(i, r) = b})
                        <= Counters * conf.limits[i].limit
  BY DEF WindowCap
<1> DEFINE S == {r \in AllowedBy(Scope[rt], key) : InBucket(i, r) = b}
           k == <<Scope[rt], i, key, b>>
<1>2. k \in CounterNames /\ k[2] = i
  BY BoundAssumption DEF CounterNames
<1>3. S \subseteq Passers(k)
  BY AllowedFacts
<1>4. Cardinality(S) <= Cardinality(Passers(k)) /\ Cardinality(S) \in Nat
      /\ Cardinality(Passers(k)) \in Nat
  BY <1>3, SetsFinite, SmoothFinite
<1>5. Cardinality(Passers(k)) <= Counters * LimitOf(k[2])
  BY <1>1, <1>2, PassersWithin
<1>6. Counters * LimitOf(i) \in Nat
  BY Typed DEF Counters
<1> HIDE DEF S, k
<1>7. Cardinality(S) <= Counters * LimitOf(i)
  BY <1>2, <1>4, <1>5, <1>6
<1> QED BY <1>7 DEF S, LimitOf

LEMMA BurstHolds == ASSUME Shape, Single, Double, Prompt PROVE BurstBound
<1>1. SUFFICES ASSUME ~conf.failing, Counters = 1,
                      NEW i \in DOMAIN conf.limits, NEW rt \in Route, NEW key \in Key,
                      NEW start \in 0 .. MaxTime
               PROVE  Cardinality({r \in AllowedBy(Scope[rt], key) :
                        req[r].clock[i] \in start .. start + conf.limits[i].window - 1})
                          <= 2 * conf.limits[i].limit
  BY DEF BurstBound
<1> DEFINE S == {r \in AllowedBy(Scope[rt], key) :
                   req[r].clock[i] \in start .. start + conf.limits[i].window - 1}
           w == WindowOf(i)
           b == start \div w
           j == <<Scope[rt], i, key, b>>
           k == <<Scope[rt], i, key, b + 1>>
<1>2. /\ w \in Nat \ {0} /\ LimitOf(i) \in Nat /\ start \in Nat /\ b \in Nat
      /\ b * w <= start /\ start < (b + 1) * w /\ (b + 2) * w = (b + 1) * w + w
      /\ b * w \in Nat /\ (b + 1) * w \in Nat /\ (b + 1 + 1) * w = (b + 1) * w + w
  <2>1. w \in Nat \ {0} /\ LimitOf(i) \in Nat /\ start \in Nat
    BY Typed, BoundAssumption
  <2>2. b \in Nat /\ b * w <= start /\ start < (b + 1) * w
    BY <2>1, DivMod, InWindow
  <2> HIDE DEF w, b
  <2> QED BY <2>1, <2>2
<1>3. j \in CounterNames /\ k \in CounterNames /\ j[2] = i /\ k[2] = i
  <2>1. b \in Int /\ b + 1 \in Int
    BY <1>2
  <2> HIDE DEF b
  <2> QED BY <2>1 DEF CounterNames
<1>4. ASSUME NEW r \in S PROVE r \in Passers(j) \cup Passers(k)
  <2>1. /\ r \in Request /\ req[r].clock[i] \in Nat /\ InBucket(i, r) \in Nat
        /\ r \in Passers(<<Scope[rt], i, key, InBucket(i, r)>>)
    BY <1>4, AllowedFacts
  <2>2. /\ start <= req[r].clock[i] /\ req[r].clock[i] < start + w
        /\ InBucket(i, r) = req[r].clock[i] \div w
    BY <1>2, <2>1 DEF InBucket, WindowOf
  <2>3. b * w <= req[r].clock[i] /\ req[r].clock[i] < (b + 1 + 1) * w
    <3> HIDE DEF w, b
    <3> QED BY <1>2, <2>1, <2>2
  <2>4. b <= InBucket(i, r) /\ InBucket(i, r) <= b + 1
    <3>1. b \in Int /\ b + 1 \in Int
      BY <1>2
    <3> HIDE DEF w, b
    <3> QED BY <1>2, <2>1, <2>2, <2>3, <3>1, BucketOrder
  <2>5. InBucket(i, r) = b \/ InBucket(i, r) = b + 1
    <3> HIDE DEF b
    <3> QED BY <1>2, <2>1, <2>4
  <2> QED BY <2>1, <2>5
<1>5. /\ IsFiniteSet(Passers(j)) /\ Cardinality(Passers(j)) \in Nat
      /\ IsFiniteSet(Passers(k)) /\ Cardinality(Passers(k)) \in Nat
      /\ Cardinality(Passers(j)) <= LimitOf(i) /\ Cardinality(Passers(k)) <= LimitOf(i)
  BY <1>1, <1>3, SetsFinite DEF Single
<1> HIDE DEF j, k, S
<1>6. /\ IsFiniteSet(Passers(j) \cup Passers(k))
      /\ Cardinality(Passers(j) \cup Passers(k)) <= Cardinality(Passers(j)) + Cardinality(Passers(k))
  <2>1. /\ IsFiniteSet(Passers(j) \cap Passers(k))
        /\ Cardinality(Passers(j) \cap Passers(k)) \in Nat
    BY <1>5, FS_Intersection, FS_CardinalityType
  <2>2. /\ IsFiniteSet(Passers(j) \cup Passers(k))
        /\ Cardinality(Passers(j) \cup Passers(k))
             = Cardinality(Passers(j)) + Cardinality(Passers(k)) - Cardinality(Passers(j) \cap Passers(k))
    BY <1>5, FS_Union
  <2> QED BY <1>5, <2>1, <2>2
<1>7. S \subseteq Passers(j) \cup Passers(k)
  BY <1>4
<1>8. /\ Cardinality(S) <= Cardinality(Passers(j) \cup Passers(k)) /\ Cardinality(S) \in Nat
      /\ Cardinality(Passers(j) \cup Passers(k)) \in Nat
  BY <1>6, <1>7, FS_Subset, FS_CardinalityType
<1>9. Cardinality(S) <= 2 * LimitOf(i)
  BY <1>2, <1>5, <1>6, <1>8
<1> QED BY <1>9 DEF S, LimitOf

\* No window lets more than its limit through, and no stretch as long as a window
\* more than twice the limit, whatever the limits, the windows and the requests
\* (engine.rs, docs/18-rate-limiting.md).
THEOREM LimitsNeverExceeded == Spec => []LimitsHold
<1>1. IInv => LimitsHold
  BY CapHolds, BurstHolds DEF IInv, LimitsHold
<1> QED BY <1>1, Invariant, PTL

LEMMA SlidingHolds == ASSUME Shape, Smoothed PROVE SlidingSmooth
<1>1. SUFFICES ASSUME NEW r \in Request, conf.sliding, ~conf.remote, req[r].place = "allowed",
                      NEW i \in DOMAIN conf.limits
               PROVE  LET mine == AllowedBy(Scope[req[r].route], req[r].key)
                          w    == conf.limits[i].window
                          cur  == {q \in mine : InBucket(i, q) = InBucket(i, r) /\ Into(i, q) <= Into(i, r)}
                          prev == {q \in mine : InBucket(i, q) = InBucket(i, r) - 1}
                      IN  Cardinality(cur) * w + Cardinality(prev) * (w - Into(i, r))
                            <= conf.limits[i].limit * w
  BY DEF SlidingSmooth
<1> DEFINE sc   == Scope[req[r].route]
           mine == AllowedBy(sc, req[r].key)
           cur  == {q \in mine : InBucket(i, q) = InBucket(i, r) /\ Into(i, q) <= Into(i, r)}
           prev == {q \in mine : InBucket(i, q) = InBucket(i, r) - 1}
           k    == <<sc, i, req[r].key, InBucket(i, r)>>
<1>2. r \in mine
  BY <1>1 DEF AllowedBy
<1>3. /\ InBucket(i, r) \in Nat /\ k \in CounterNames /\ k[2] = i /\ k[4] = InBucket(i, r)
      /\ Before(k) = <<sc, i, req[r].key, InBucket(i, r) - 1>>
  <2>1. InBucket(i, r) \in Nat
    BY <1>2, AllowedFacts
  <2>2. req[r].route \in Route /\ req[r].key \in Key
    BY Typed DEF Requests
  <2> QED BY <2>1, <2>2 DEF CounterNames, Before
<1>4. \A q \in mine : Into(i, q) = Within(k, q)
  BY DEF Into, Within, WindowOf
<1>5. ASSUME NEW q \in mine, InBucket(i, q) = InBucket(i, r) PROVE q \in Smooth(k)
  <2>1. q \in Passers(k)
    BY <1>5, AllowedFacts
  <2>2. req[q].place = "allowed"
    BY <1>5 DEF AllowedBy
  <2> QED BY <2>1, <2>2 DEF Smooth, Fits
<1>6. r \in Smooth(k) /\ cur \subseteq Upto(k, r)
  BY <1>2, <1>4, <1>5 DEF Upto
<1>7. prev \subseteq Passers(Before(k))
  BY <1>3, AllowedFacts
<1>8. /\ Cardinality(cur) \in Nat /\ Cardinality(Upto(k, r)) \in Nat
      /\ Cardinality(cur) <= Cardinality(Upto(k, r))
  <2>1. IsFiniteSet(Upto(k, r)) /\ Cardinality(Upto(k, r)) \in Nat
    BY SmoothSubset, SmoothFinite DEF Upto
  <2> HIDE DEF k, cur
  <2> QED BY <1>6, <2>1, FS_Subset, FS_CardinalityType
<1>9. /\ Cardinality(prev) \in Nat /\ Cardinality(Passers(Before(k))) \in Nat
      /\ Cardinality(prev) <= Cardinality(Passers(Before(k)))
  <2> HIDE DEF k, prev
  <2> QED BY <1>7, SetsFinite, SmoothFinite
<1>10. /\ Within(k, r) \in Nat /\ Within(k, r) <= WindowOf(k[2]) /\ WindowOf(k[2]) \in Nat
       /\ Bound(k) \in Nat
  <2>1. r \in Passers(k)
    BY <1>6 DEF Smooth
  <2>2. Within(k, r) \in Nat /\ Within(k, r) < WindowOf(k[2]) /\ WindowOf(k[2]) \in Nat
    BY <1>3, <2>1, WithinFacts, NameFacts
  <2> QED BY <1>3, <2>2, NameFacts
<1>11. Weight(k, Cardinality(Upto(k, r)), Cardinality(Passers(Before(k))), Within(k, r)) <= Bound(k)
  BY <1>1, <1>3, <1>6 DEF Smoothed, Calm
<1>12. Weight(k, Cardinality(cur), Cardinality(prev), Within(k, r)) <= Bound(k)
  <2> HIDE DEF k, cur, prev
  <2>1. Weight(k, Cardinality(cur), Cardinality(prev), Within(k, r))
          <= Weight(k, Cardinality(Upto(k, r)), Cardinality(Passers(Before(k))), Within(k, r))
        /\ Weight(k, Cardinality(cur), Cardinality(prev), Within(k, r)) \in Nat
        /\ Weight(k, Cardinality(Upto(k, r)), Cardinality(Passers(Before(k))), Within(k, r)) \in Nat
    BY <1>8, <1>9, <1>10, WeightGrows
  <2> QED BY <1>10, <1>11, <2>1
<1>13. Cardinality(cur) * WindowOf(i) + Cardinality(prev) * (WindowOf(i) - Into(i, r))
         <= LimitOf(i) * WindowOf(i)
  <2>1. Into(i, r) = Within(k, r)
    BY <1>2, <1>4
  <2> HIDE DEF k, cur, prev
  <2> QED BY <1>3, <1>12, <2>1 DEF Weight, Bound
<1> QED BY <1>13 DEF WindowOf, LimitOf

\* With a sliding window in this process what a request's window and, weighted, the one
\* before let through never exceeds the limit (engine.rs, the sliding estimate).
THEOREM SlidingNeverExceeded == Spec => []SlidingSmooth
<1>1. IInv => SlidingSmooth
  BY SlidingHolds DEF IInv
<1> QED BY <1>1, Invariant, PTL

LEMMA DeniedHolds == ASSUME Shape, Denied PROVE DeniedOnlyWhenUsed
<1>1. SUFFICES ASSUME NEW r \in Request, req[r].place = "denied"
               PROVE  LET i    == Index(r)
                          same == {q \in Request : /\ Index(q) >= i /\ req[q].key = req[r].key
                                                   /\ Scope[req[q].route] = Scope[req[r].route]}
                          cur  == {q \in same : InBucket(i, q) = Bucket(r)}
                          prev == {q \in same : conf.sliding /\ InBucket(i, q) = Bucket(r) - 1}
                          used == Cardinality(cur) * Window(r)
                                    + Cardinality(prev) * (Window(r) - Elapsed(r))
                          most == conf.limits[i].limit * Window(r)
                      IN  used > most \/ (used = most /\ prev # {} /\ ~Dyadic(r))
  BY DEF DeniedOnlyWhenUsed
<1> DEFINE i    == Index(r)
           same == {q \in Request : /\ Index(q) >= i /\ req[q].key = req[r].key
                                    /\ Scope[req[q].route] = Scope[req[r].route]}
           cur  == {q \in same : InBucket(i, q) = Bucket(r)}
           prev == {q \in same : conf.sliding /\ InBucket(i, q) = Bucket(r) - 1}
<1>2. ASSUME NEW b, NEW q \in Askers(Counter(r, b))
      PROVE  q \in same /\ InBucket(i, q) = b
  <2>1. /\ q \in Request /\ Scope[req[q].route] = Scope[req[r].route] /\ req[q].key = req[r].key
        /\ i \in DOMAIN req[q].clock /\ req[q].clock[i] \div WindowOf(i) = b
    BY <1>2 DEF Askers, Asked, Names, Counter
  <2>2. req[q].clock \in Seq(Nat)
    BY <2>1, Typed DEF Requests
  <2>3. i <= Index(q)
    <3>1. DOMAIN req[q].clock = 1 .. Len(req[q].clock)
      BY <2>2
    <3> HIDE DEF i
    <3> QED BY <2>1, <3>1 DEF Index
  <2>4. i \in Nat /\ Index(q) \in Nat
    <3>1. DOMAIN conf.limits = 1 .. Len(conf.limits)
      BY DEF Shape, ConfigOK
    <3> HIDE DEF i
    <3>2. Index(q) \in DOMAIN conf.limits /\ Index(r) \in DOMAIN conf.limits
      BY <2>1, Typed
    <3> QED BY <3>1, <3>2 DEF i
  <2> QED BY <2>1, <2>3, <2>4 DEF InBucket, WindowOf
<1>3. /\ IsFiniteSet(cur) /\ IsFiniteSet(prev)
      /\ Cardinality(cur) \in Nat /\ Cardinality(prev) \in Nat
  <2>1. IsFiniteSet(Request)
    BY RequestFinite
  <2>2. cur \subseteq Request /\ prev \subseteq Request
    OBVIOUS
  <2> QED BY <2>1, <2>2, FS_Subset, FS_CardinalityType
<1>4. Askers(Counter(r, Bucket(r))) \subseteq cur
  BY <1>2
<1>5. conf.sliding => Askers(Counter(r, Bucket(r) - 1)) \subseteq prev
  BY <1>2
<1>6. /\ Cardinality(Askers(Counter(r, Bucket(r)))) <= Cardinality(cur)
      /\ Cardinality(Askers(Counter(r, Bucket(r)))) \in Nat
      /\ Previous(r) <= Cardinality(prev) /\ Previous(r) \in Nat
  <2> HIDE DEF cur, prev
  <2>1. /\ Cardinality(Askers(Counter(r, Bucket(r)))) <= Cardinality(cur)
        /\ Cardinality(Askers(Counter(r, Bucket(r)))) \in Nat
    BY <1>3, <1>4, SetsFinite, FS_Subset
  <2>2. Previous(r) <= Cardinality(prev) /\ Previous(r) \in Nat
    BY <1>3, <1>5, SetsFinite, FS_Subset DEF Previous
  <2> QED BY <2>1, <2>2
<1>7. Reached(r, Cardinality(cur), Cardinality(prev))
  <2>1. Reached(r, Cardinality(Askers(Counter(r, Bucket(r)))), Previous(r))
    BY <1>1 DEF Denied
  <2> HIDE DEF cur, prev
  <2> QED BY <1>3, <1>6, <2>1, ReachedGrows
<1>8. Cardinality(prev) > 0 => prev # {}
  BY FS_EmptySet
<1> QED BY <1>7, <1>8 DEF Reached, Over, Rounds

\* Nobody is denied before more asked than the limit says, or as many and the estimate
\* was rounded (engine.rs, fail open, compared in f64).
THEOREM NeverDeniedEarly == Spec => []DeniedOnlyWhenUsed
<1>1. IInv => DeniedOnlyWhenUsed
  BY DeniedHolds DEF IInv
<1> QED BY <1>1, Invariant, PTL

LEMMA RetryHolds == ASSUME Shape, Denied, Used PROVE RetryAfterHonoured
<1>1. SUFFICES ASSUME ~conf.sliding, ~conf.remote, NEW r \in Request, NEW q \in Request,
                      req[r].place = "denied", req[q].place = "denied",
                      Scope[req[q].route] = Scope[req[r].route], req[q].key = req[r].key,
                      Index(r) = Index(q), Read(q) + req[q].retry <= Read(r),
                      conf.limits[Index(q)].limit > 0
               PROVE  \E x \in Request \ {r} :
                        /\ Scope[req[x].route] = Scope[req[r].route]
                        /\ req[x].key = req[r].key /\ Index(x) >= Index(q)
                        /\ req[x].clock[Index(q)] \in Read(q) + req[q].retry .. Read(r)
  BY DEF RetryAfterHonoured
<1> DEFINE i == Index(q)
           w == WindowOf(i)
           again == Read(q) + req[q].retry
<1>2. PICK x \in Askers(Counter(r, Bucket(r))) \ {r} : req[x].clock[i] <= Read(r)
  BY <1>1 DEF Used, LimitOf
<1>3. /\ x \in Request /\ Scope[req[x].route] = Scope[req[r].route] /\ req[x].key = req[r].key
      /\ i \in DOMAIN req[x].clock /\ req[x].clock[i] \div w = Bucket(r)
  BY <1>1, <1>2 DEF Askers, Asked, Names, Counter
<1>4. req[x].clock[i] \in Nat /\ Index(x) >= i /\ i \in Nat
  <2>1. req[x].clock \in Seq(Nat)
    BY <1>3, Typed DEF Requests
  <2>2. DOMAIN req[x].clock = 1 .. Len(req[x].clock) /\ Len(req[x].clock) \in Nat
    BY <2>1
  <2> HIDE DEF i
  <2> QED BY <1>3, <2>1, <2>2 DEF Index
<1>5. /\ w \in Nat \ {0} /\ Read(q) \in Nat /\ Read(r) \in Nat /\ Bucket(q) \in Nat
      /\ Bucket(r) \in Nat /\ Bucket(q) = Read(q) \div w /\ Bucket(r) = Read(r) \div w
      /\ req[q].retry = w - (Read(q) % w)
  <2>1. Window(r) = w /\ Window(q) = w
    BY <1>1, Typed
  <2>2. req[q].retry = RetryAfter(q)
    BY <1>1 DEF Denied
  <2>3. w \in Nat \ {0} /\ Read(q) \in Nat /\ Read(r) \in Nat /\ Bucket(q) \in Nat
        /\ Bucket(r) \in Nat
    BY Typed
  <2> HIDE DEF w
  <2> QED BY <2>1, <2>2, <2>3 DEF RetryAfter, Elapsed, Bucket
<1>6. again = (Bucket(q) + 1) * w
  <2>1. /\ Read(q) = (Read(q) \div w) * w + (Read(q) % w) /\ (Read(q) % w) \in Nat
    BY <1>5, DivMod
  <2>2. (Bucket(q) + 1) * w = Bucket(q) * w + w
    <3> HIDE DEF w
    <3> QED BY <1>5
  <2> HIDE DEF w
  <2> QED BY <1>5, <2>1, <2>2
<1>7. Bucket(q) + 1 <= Bucket(r)
  <2>1. (Bucket(q) + 1) * w <= Read(r)
    BY <1>1, <1>6
  <2>2. Bucket(q) + 1 \in Int
    BY <1>5
  <2> HIDE DEF w
  <2> QED BY <1>5, <2>1, <2>2, BucketOrder
<1>8. again <= req[x].clock[i]
  <2>1. (Bucket(q) + 1) * w <= Bucket(r) * w /\ Bucket(r) * w \in Nat /\ (Bucket(q) + 1) * w \in Nat
    BY <1>5, <1>7, TimesLe
  <2>2. Bucket(r) * w <= req[x].clock[i]
    BY <1>3, <1>4, <1>5, InWindow
  <2> HIDE DEF w, i, again
  <2> QED BY <1>4, <1>6, <2>1, <2>2
<1>9. req[x].clock[i] \in again .. Read(r)
  <2>1. again \in Int
    <3> HIDE DEF again
    <3> QED BY <1>5, <1>6
  <2> HIDE DEF again, i
  <2> QED BY <1>2, <1>4, <1>5, <1>8, <2>1
<1> QED BY <1>2, <1>3, <1>4, <1>9

\* In a fixed window in this process whoever comes back after Retry-After is not denied
\* again by the same limit, unless somebody used the counter meanwhile (docs/18).
THEOREM RetryAfterIsHonest == Spec => []RetryAfterHonoured
<1>1. IInv => RetryAfterHonoured
  BY RetryHolds DEF IInv
<1> QED BY <1>1, Invariant, PTL

LEMMA SweepStep ==
  ASSUME Shape, Steps
  PROVE  store' # store =>
           \/ conf.remote
           \/ Cardinality(DOMAIN store') <= Sweep + 1
           \/ \A k \in DOMAIN store' : store'[k].expires > now
<1>1. SUFFICES ASSUME ~conf.remote, NEW r \in Request, NEW c, Counts(r, c), NEW h,
                      h = Counter(r, Bucket(r)), Incr(h, Ttl(r))
               PROVE  \/ Cardinality(DOMAIN store') <= Sweep + 1
                      \/ \A k \in DOMAIN store' : store'[k].expires > now
  BY DEF Steps, Counts, Arrives, Looks, Leaves, Tick, vars
<1>2. DOMAIN store' = Kept \cup {h} /\ Ttl(r) \in Nat \ {0} /\ h \in CounterNames
      /\ UNCHANGED now /\ now \in Nat
  BY <1>1, TtlFacts DEF Incr, Counts, Shape
<1>3. CASE Cardinality(DOMAIN store) > Sweep
  <2>1. \A k \in Kept : Live(k)
    BY <1>1, <1>3 DEF Kept
  <2>2. /\ \A k \in DOMAIN store' : k # h => Live(k) /\ store'[k] = store[k]
        /\ store'[h].expires = IF Live(h) THEN store[h].expires ELSE now + Ttl(r)
    BY <1>1, <1>2, <2>1, IncrFacts
  <2>3. store'[h].expires > now
    BY <1>2, <2>2 DEF Live
  <2> QED BY <2>2, <2>3 DEF Live
<1>4. CASE ~(Cardinality(DOMAIN store) > Sweep)
  <2>1. Kept = DOMAIN store
    BY <1>1, <1>4 DEF Kept
  <2>2. IsFiniteSet(DOMAIN store) /\ Cardinality(DOMAIN store) \in Nat
    BY FS_CardinalityType DEF Shape
  <2>3. Cardinality(DOMAIN store \cup {h}) <= Cardinality(DOMAIN store) + 1
        /\ Cardinality(DOMAIN store \cup {h}) \in Nat
    <3>1. Cardinality(DOMAIN store \cup {h}) \in {Cardinality(DOMAIN store), Cardinality(DOMAIN store) + 1}
      BY <2>2, FS_AddElement
    <3> QED BY <2>2, <3>1
  <2> QED BY <1>2, <1>4, <2>1, <2>2, <2>3, BoundAssumption
<1> QED BY <1>3, <1>4

\* An insertion leaves a map of at most one entry above the threshold, or one in which
\* everything is live (store.rs:35).
THEOREM MapIsSwept == Spec => SweptWhenLarge
<1>1. IInv /\ [Next]_vars =>
        [store' # store =>
           \/ conf.remote
           \/ Cardinality(DOMAIN store') <= Sweep + 1
           \/ \A k \in DOMAIN store' : store'[k].expires > now]_vars
  BY NextSteps, SweepStep DEF IInv
<1> QED BY <1>1, Invariant, PTL DEF Spec, SweptWhenLarge

=============================================================================
