------------------------------ MODULE CacheProofs ------------------------------
(****************************************************************************)
(* Proofs about Cache, for any tasks, handles, keys and prefixes, in memory  *)
(* and in Redis, however calls fail, scans are batched and patterns match.   *)
(*                                                                           *)
(* A delete or clear is told apart by the writes it found in the store       *)
(* (old). Every write is known by its task, which is over by then, so no     *)
(* later write can be mistaken for one of them, and the keys under which     *)
(* they still are can only get fewer: the invariant follows them through     *)
(* what a scan has still to return and the batch it is about to delete.      *)
(****************************************************************************)
EXTENDS Cache, TLAPS

Segs  == STRING \cup Handle
Paths == Seq(Segs)
Works == {"reading", "computing", "writing", "deleting"}   \* on one key
Ats   == {"idle", "over", "scanning", "unlinking"} \cup Works

Tasks ==
  [op : Ops \cup {"none"}, at : Ats, cache : Handle \cup {None}, key : Seq(STRING),
   ttl : Ttls \cup {None}, left : SUBSET Paths, batch : SUBSET Paths, last : BOOLEAN,
   old : SUBSET Task]

\* The keys of a handle begin like this.
Under(c, k) == IsPrefix(FullKey(c, <<>>), k)

IsOver(t) == task[t].at = "over"

Shape ==
  /\ remote \in BOOLEAN
  /\ task \in [Task -> Tasks]
  /\ DOMAIN entry \subseteq Paths
  /\ \A t \in Task : task[t].at \notin {"idle", "over"} => task[t].cache \in Handle

\* What is in the store was written once, by a task that is over, for a handle that
\* may write there.
Written ==
  /\ \A k \in DOMAIN entry : /\ entry[k].by \in Task /\ IsOver(entry[k].by)
                             /\ entry[k].owner \in Handle /\ Under(entry[k].owner, k)
  /\ \A k, l \in DOMAIN entry : entry[k].by = entry[l].by => k = l

\* Where the entries are that a delete or clear found when it began.
Found(t) == {k \in DOMAIN entry : entry[k].by \in task[t].old}

\* Those of them that its pattern matches.
Due(t) == {k \in Found(t) : Matched(task[t].cache, k)}

Sweep(t) ==
  /\ \A u \in task[t].old : IsOver(u)
  /\ task[t].at = "deleting" => Found(t) \subseteq {Target(t)}
  /\ task[t].at \in {"scanning", "unlinking"} =>
       task[t].op = "clear" /\ \A k \in Found(t) : Under(task[t].cache, k)
  /\ task[t].at = "scanning" /\ remote => Due(t) \subseteq task[t].left
  /\ task[t].at = "unlinking" =>
       /\ remote
       /\ Due(t) \subseteq task[t].left \cup task[t].batch
       /\ task[t].last => task[t].left = {}
       /\ \A k \in task[t].batch : Matched(task[t].cache, k)

Settled == \A d \in dead : d.write \in Task /\ IsOver(d.write)

IInv ==
  /\ Shape /\ Written /\ Settled /\ Forgotten
  /\ \A t \in Task : Sweep(t)

-----------------------------------------------------------------------------
(* Keys                                                                     *)

LEMMA KeysOK ==
  ASSUME NEW c \in Handle, NEW k \in Seq(STRING)
  PROVE  FullKey(c, k) \in Paths /\ Under(c, FullKey(c, k))
<1> DEFINE base == IF remote THEN Prefix[c] ELSE <<c>>
<1>1. base \in Paths /\ k \in Paths /\ <<>> \in Paths
  <2>1. Prefix[c] \in Seq(STRING)
    BY CacheAssumption
  <2>2. \A q \in Seq(STRING) : q \in Paths
    BY DEF Paths, Segs
  <2>3. <<c>> \in Paths
    BY DEF Paths, Segs
  <2> QED BY <2>1, <2>2, <2>3 DEF Paths
<1>2. FullKey(c, k) = base \o k /\ FullKey(c, <<>>) = base \o <<>>
  BY DEF FullKey
<1> HIDE DEF base
<1>3. base \o <<>> = base
  BY <1>1 DEF Paths
<1>4. base \o k \in Paths
  BY <1>1 DEF Paths
<1>5. IsPrefix(base, base \o k)
  BY <1>1 DEF Paths, IsPrefix
<1> QED BY <1>2, <1>3, <1>4, <1>5 DEF Under

\* Two beginnings of one key: one begins the other.
LEMMA Comparable ==
  ASSUME NEW a \in Paths, NEW b \in Paths, NEW k \in Paths, IsPrefix(a, k), IsPrefix(b, k),
         Len(a) <= Len(b)
  PROVE  IsPrefix(a, b)
<1>1. \A i \in 1 .. Len(a) : a[i] = k[i]
  BY DEF Paths, IsPrefix
<1>2. \A i \in 1 .. Len(b) : b[i] = k[i]
  BY DEF Paths, IsPrefix
<1>3. \A i \in 1 .. Len(a) : a[i] = b[i]
  BY <1>1, <1>2 DEF Paths
<1> QED BY <1>3 DEF Paths, IsPrefix

\* Only a prefix that is a pattern misses a key that begins with it.
LEMMA PatternMisses ==
  ASSUME NEW c, NEW k, Under(c, k), ~Matched(c, k)
  PROVE  Overlooked(c, k)
BY DEF Under, Matched, Overlooked

\* What a key is for a handle depends on the store only.
LEMMA SameKeys ==
  ASSUME UNCHANGED remote
  PROVE  \A c, k : /\ Under(c, k)' <=> Under(c, k)
                   /\ Matched(c, k)' <=> Matched(c, k)
                   /\ Overlooked(c, k)' <=> Overlooked(c, k)
BY DEF Under, Matched, Overlooked, FullKey

-----------------------------------------------------------------------------
(* What a step of one task leaves of the invariant for the others.          *)

OverGrows == \A u \in Task : IsOver(u) => IsOver(u)'

\* What holds of the store goes on holding when entries are only taken out.
LEMMA StoreShrinks ==
  ASSUME Written, OverGrows, DOMAIN entry \subseteq Paths, UNCHANGED remote,
         DOMAIN entry' \subseteq DOMAIN entry,
         \A k \in DOMAIN entry' : entry'[k] = entry[k]
  PROVE  Written' /\ DOMAIN entry' \subseteq Paths
<1>1. \A c, k : Under(c, k)' <=> Under(c, k)
  BY DEF Under, FullKey
<1> QED BY <1>1 DEF Written, OverGrows

\* A delete or clear under way is not disturbed by others, which take entries out of
\* the store and of what it has left, or write entries that it did not find.
LEMMA SweepKept ==
  ASSUME NEW t \in Task, NEW K, Shape, Sweep(t), OverGrows, UNCHANGED remote,
         \A k \in DOMAIN entry' : entry'[k].by \in task[t].old =>
           k \in DOMAIN entry \ K /\ entry[k].by = entry'[k].by,
         task'[t].op = task[t].op,
         task'[t].at = task[t].at, task'[t].cache = task[t].cache, task'[t].key = task[t].key,
         task'[t].batch = task[t].batch, task'[t].last = task[t].last,
         task'[t].old = task[t].old, task'[t].left = task[t].left \ K
  PROVE  Sweep(t)'
<1>1. Found(t)' \subseteq Found(t) \ K
  BY DEF Found
<1>2. \A u \in task'[t].old : IsOver(u)'
  <2>1. task[t].old \subseteq Task
    BY DEF Shape, Tasks
  <2> QED BY <2>1 DEF OverGrows, Sweep
<1>3. Target(t)' = Target(t)
  BY DEF Target, FullKey
<1>4. Due(t)' \subseteq Due(t) \ K
  BY <1>1, SameKeys DEF Due
<1>5. task'[t].at \in {"scanning", "unlinking"} =>
        task'[t].op = "clear" /\ \A k \in Found(t)' : Under(task[t].cache, k)'
  BY <1>1, SameKeys DEF Sweep
<1>6. task'[t].at = "unlinking" =>
        /\ remote'
        /\ Due(t)' \subseteq task'[t].left \cup task'[t].batch
        /\ task'[t].last => task'[t].left = {}
        /\ \A k \in task'[t].batch : Matched(task[t].cache, k)'
  BY <1>4, SameKeys DEF Sweep
<1>7. /\ task'[t].at = "deleting" => Found(t)' \subseteq {Target(t)'}
      /\ task'[t].at = "scanning" /\ remote' => Due(t)' \subseteq task'[t].left
  BY <1>1, <1>3, <1>4 DEF Sweep
<1> QED BY <1>2, <1>5, <1>6, <1>7 DEF Sweep

\* A task that is over owes nothing.
LEMMA Finished ==
  ASSUME NEW t \in Task, task'[t] = Over
  PROVE  Sweep(t)'
<1>1. Over.at = "over" /\ Over.old = {}
  BY DEF Over, Idle
<1> QED BY <1>1 DEF Sweep

LEMMA OverIsTask == Over \in Tasks /\ Over.at = "over" /\ Idle \in Tasks /\ Idle.at = "idle"
<1> DEFINE paths == SUBSET Paths
           keys  == Seq(STRING)
<1>1. {} \in paths /\ {} \in SUBSET Task /\ <<>> \in keys
  OBVIOUS
<1> HIDE DEF paths, keys
<1> QED BY <1>1 DEF Over, Idle, Tasks, Ats, paths, keys

\* The record of a task that takes K from what it has left is still one.
LEMMA LeftTyped ==
  ASSUME NEW r \in Tasks, NEW K, NEW q, q = [r EXCEPT !.left = r.left \ K]
  PROVE  /\ q \in Tasks /\ q.left = r.left \ K
         /\ q.at = r.at /\ q.cache = r.cache /\ q.key = r.key /\ q.batch = r.batch
         /\ q.last = r.last /\ q.old = r.old /\ q.op = r.op
<1> DEFINE m == r.left \ K
<1>1. m \in SUBSET Paths
  BY DEF Tasks
<1> HIDE DEF m
<1>2. q = [r EXCEPT !.left = m]
  BY DEF m
<1>3. /\ q \in Tasks /\ q.left = m
      /\ q.at = r.at /\ q.cache = r.cache /\ q.key = r.key /\ q.batch = r.batch
      /\ q.last = r.last /\ q.old = r.old /\ q.op = r.op
  BY <1>1, <1>2 DEF Tasks
<1> QED BY <1>3 DEF m

\* One task moves and nothing is taken from what the others have left.
LEMMA TaskMoves ==
  ASSUME Shape, NEW t \in Task, NEW r \in Tasks, ~IsOver(t), UNCHANGED remote,
         task' = [task EXCEPT ![t] = r], DOMAIN entry' \subseteq Paths,
         r.at \notin {"idle", "over"} => r.cache \in Handle
  PROVE  Shape' /\ OverGrows /\ task'[t] = r /\ \A u \in Task \ {t} : task'[u] = task[u]
<1>1. task'[t] = r /\ \A u \in Task \ {t} : task'[u] = task[u]
  BY DEF Shape
<1>2. task' \in [Task -> Tasks]
  BY DEF Shape
<1>3. OverGrows
  BY <1>1 DEF OverGrows, IsOver
<1>4. \A u \in Task : task'[u].at \notin {"idle", "over"} => task'[u].cache \in Handle
  BY <1>1 DEF Shape
<1> QED BY <1>1, <1>2, <1>3, <1>4 DEF Shape

\* A step that leaves the store as it is: what is left to show is about the task.
LEMMA Quiet ==
  ASSUME IInv, NEW t \in Task, NEW r \in Tasks, ~IsOver(t), UNCHANGED <<remote, entry>>,
         task' = [task EXCEPT ![t] = r],
         r.at \notin {"idle", "over"} => r.cache \in Handle,
         dead' \subseteq dead \cup Claims(t), Forgotten', Sweep(t)'
  PROVE  IInv'
<1>1. DOMAIN entry \subseteq Paths
  BY DEF IInv, Shape
<1>2. Shape' /\ OverGrows /\ task'[t] = r /\ \A u \in Task \ {t} : task'[u] = task[u]
  BY <1>1, TaskMoves DEF IInv
<1>3. Written'
  BY <1>1, <1>2, StoreShrinks DEF IInv
<1>4. \A u \in Task \ {t} : Sweep(u)'
  <2> SUFFICES ASSUME NEW u \in Task \ {t}
               PROVE  Sweep(u)'
    OBVIOUS
  <2> DEFINE K == {}
  <2>1. task'[u] = task[u] /\ task'[u].left = task[u].left \ K
    BY <1>2
  <2>2. \A k \in DOMAIN entry' : entry'[k].by \in task[u].old =>
          k \in DOMAIN entry \ K /\ entry[k].by = entry'[k].by
    OBVIOUS
  <2>3. Shape /\ Sweep(u)
    BY DEF IInv
  <2> HIDE DEF K
  <2> QED BY <1>2, <2>1, <2>2, <2>3, SweepKept
<1>5. Settled'
  <2>1. \A u \in task[t].old : u \in Task /\ IsOver(u)
    BY DEF IInv, Shape, Tasks, Sweep
  <2>2. \A d \in Claims(t) : d.write \in task[t].old
    BY DEF Claims
  <2> QED BY <1>2, <2>1, <2>2 DEF IInv, Settled, OverGrows
<1> QED BY <1>2, <1>3, <1>4, <1>5 DEF IInv

\* Entries are taken out, and with them what other tasks have left of them.
LEMMA TakenOut ==
  ASSUME IInv, NEW T \in SUBSET Task, NEW K, UNCHANGED remote,
         entry' = [k \in DOMAIN entry \ K |-> entry[k]],
         task' \in [Task -> Tasks], OverGrows,
         \A u \in Task \ T : task'[u] = [task[u] EXCEPT !.left = task[u].left \ K],
         \A u \in T : /\ Sweep(u)'
                      /\ task'[u].at \notin {"idle", "over"} => task'[u].cache \in Handle,
         Settled', Forgotten'
  PROVE  IInv'
<1>1. /\ DOMAIN entry' = DOMAIN entry \ K
      /\ \A k \in DOMAIN entry' : entry'[k] = entry[k]
  OBVIOUS
<1>2. Written' /\ DOMAIN entry' \subseteq Paths
  BY <1>1, StoreShrinks DEF IInv, Shape
<1>3. ASSUME NEW u \in Task \ T
      PROVE  /\ task'[u].left = task[u].left \ K
             /\ task'[u].at = task[u].at /\ task'[u].cache = task[u].cache
             /\ task'[u].key = task[u].key /\ task'[u].batch = task[u].batch
             /\ task'[u].last = task[u].last /\ task'[u].old = task[u].old
             /\ task'[u].op = task[u].op
  <2>1. task[u] \in Tasks /\ task'[u] = [task[u] EXCEPT !.left = task[u].left \ K]
    BY DEF IInv, Shape
  <2> QED BY <2>1, LeftTyped
<1>4. \A u \in Task \ T : Sweep(u)'
  <2> SUFFICES ASSUME NEW u \in Task \ T
               PROVE  Sweep(u)'
    OBVIOUS
  <2>1. \A k \in DOMAIN entry' : entry'[k].by \in task[u].old =>
          k \in DOMAIN entry \ K /\ entry[k].by = entry'[k].by
    BY <1>1
  <2>2. Shape /\ Sweep(u)
    BY DEF IInv
  <2> QED BY <1>3, <2>1, <2>2, SweepKept
<1>5. Shape'
  BY <1>2, <1>3 DEF IInv, Shape
<1> QED BY <1>2, <1>4, <1>5 DEF IInv

\* Without the keys K the task t may say that what it found is gone.
Done(t, K) ==
  \A k \in Found(t) \ K : task[t].op = "clear" /\ Overlooked(task[t].cache, k)

LEMMA ClearDone ==
  ASSUME NEW t \in Task, NEW K, Sweep(t), task[t].at \in {"scanning", "unlinking"},
         Due(t) \subseteq K
  PROVE  Done(t, K)
<1> SUFFICES ASSUME NEW k \in Found(t) \ K
             PROVE  task[t].op = "clear" /\ Overlooked(task[t].cache, k)
  BY DEF Done
<1>1. task[t].op = "clear" /\ Under(task[t].cache, k)
  BY DEF Sweep
<1>2. ~Matched(task[t].cache, k)
  BY DEF Due
<1> QED BY <1>1, <1>2, PatternMisses

\* An entry that was taken out belongs to nobody; one that stays is not forgotten yet.
LEMMA ForgottenKept ==
  ASSUME IInv, NEW t \in Task, NEW K, UNCHANGED remote,
         entry' = [k \in DOMAIN entry \ K |-> entry[k]],
         dead' \subseteq dead \cup (IF Done(t, K) THEN Claims(t) ELSE {})
  PROVE  Forgotten'
<1> SUFFICES ASSUME NEW d \in dead', NEW k \in DOMAIN entry', entry'[k].by = d.write
             PROVE  d.op = "clear" /\ Overlooked(d.cache, k)'
  BY DEF Forgotten
<1>1. k \in DOMAIN entry /\ k \notin K /\ entry'[k] = entry[k]
  OBVIOUS
<1>2. CASE d \in dead
  BY <1>1, <1>2, SameKeys DEF IInv, Forgotten
<1>3. CASE d \in Claims(t) /\ Done(t, K)
  <2>1. d.write \in task[t].old /\ d.op = task[t].op /\ d.cache = task[t].cache
    BY <1>3 DEF Claims
  <2>2. k \in Found(t) \ K
    BY <1>1, <2>1 DEF Found
  <2> QED BY <1>3, <2>1, <2>2, SameKeys DEF Done
<1> QED BY <1>2, <1>3

\* The last step, or one in between, of a task that deletes.
LEMMA DropKept ==
  ASSUME IInv, NEW t \in Task, NEW K, NEW r \in Tasks, ~IsOver(t), UNCHANGED remote,
         Drop(t, K, r), r.at \notin {"idle", "over"} => r.cache \in Handle, Sweep(t)',
         dead' \subseteq dead \cup (IF Done(t, K) THEN Claims(t) ELSE {})
  PROVE  IInv'
<1>1. task'[t] = r /\ \A u \in Task \ {t} : task'[u] = [task[u] EXCEPT !.left = task[u].left \ K]
  BY DEF Drop
<1>2. entry' = [k \in DOMAIN entry \ K |-> entry[k]]
  BY DEF Drop
<1>3. \A u \in Task : task[u] \in Tasks
  BY DEF IInv, Shape
<1>4. ASSUME NEW u \in Task \ {t}
      PROVE  task'[u] \in Tasks /\ task'[u].at = task[u].at
  <2>1. task[u] \in Tasks /\ task'[u] = [task[u] EXCEPT !.left = task[u].left \ K]
    BY <1>1, <1>3
  <2> QED BY <2>1, LeftTyped
<1>5. task' \in [Task -> Tasks]
  <2>1. \A u \in Task : task'[u] \in Tasks
    BY <1>1, <1>4
  <2>2. task' = [u \in Task |-> task'[u]]
    BY DEF Drop
  <2> QED BY <2>1, <2>2
<1>6. OverGrows
  BY <1>4 DEF OverGrows, IsOver
<1>7. Settled'
  <2>1. \A u \in task[t].old : u \in Task /\ IsOver(u)
    BY DEF IInv, Shape, Tasks, Sweep
  <2>2. \A d \in Claims(t) : d.write \in task[t].old
    BY DEF Claims
  <2> QED BY <1>6, <2>1, <2>2 DEF IInv, Settled, OverGrows
<1>8. Forgotten'
  BY <1>2, ForgottenKept
<1> DEFINE T == {t}
<1>9. /\ T \in SUBSET Task
      /\ \A u \in Task \ T : task'[u] = [task[u] EXCEPT !.left = task[u].left \ K]
      /\ \A u \in T : /\ Sweep(u)'
                      /\ task'[u].at \notin {"idle", "over"} => task'[u].cache \in Handle
  BY <1>1
<1> HIDE DEF T
<1> QED BY <1>2, <1>5, <1>6, <1>7, <1>8, <1>9, TakenOut

\* Nobody's delete or clear is disturbed when the store loses entries by itself.
LEMMA LoseKept ==
  ASSUME IInv, NEW K, UNCHANGED <<remote, dead>>, Lose(K)
  PROVE  IInv'
<1>1. entry' = [k \in DOMAIN entry \ K |-> entry[k]]
  BY DEF Lose
<1>2. \A u \in Task : task'[u] = [task[u] EXCEPT !.left = task[u].left \ K]
  BY DEF Lose
<1>3. ASSUME NEW u \in Task
      PROVE  task'[u] \in Tasks /\ task'[u].at = task[u].at
  <2>1. task[u] \in Tasks /\ task'[u] = [task[u] EXCEPT !.left = task[u].left \ K]
    BY <1>2 DEF IInv, Shape
  <2> QED BY <2>1, LeftTyped
<1>4. task' \in [Task -> Tasks]
  <2>1. task' = [u \in Task |-> task'[u]]
    BY DEF Lose
  <2> QED BY <1>3, <2>1
<1>5. OverGrows
  BY <1>3 DEF OverGrows, IsOver
<1>6. Settled'
  BY <1>5 DEF IInv, Settled, OverGrows
<1>7. Forgotten'
  BY <1>1, SameKeys DEF IInv, Forgotten
<1> DEFINE T == {}
<1>8. /\ T \in SUBSET Task
      /\ \A u \in Task \ T : task'[u] = [task[u] EXCEPT !.left = task[u].left \ K]
      /\ \A u \in T : /\ Sweep(u)'
                      /\ task'[u].at \notin {"idle", "over"} => task'[u].cache \in Handle
  BY <1>2
<1> HIDE DEF T
<1> QED BY <1>1, <1>4, <1>5, <1>6, <1>7, <1>8, TakenOut

-----------------------------------------------------------------------------
(* The steps.                                                               *)

LEMMA InitInv == Init => IInv
<1> SUFFICES ASSUME Init
             PROVE  IInv
  OBVIOUS
<1>1. DOMAIN entry = {} /\ dead = {} /\ remote \in BOOLEAN
  BY DEF Init
<1>2. task \in [Task -> Tasks] /\ \A t \in Task : task[t] = Idle
  BY OverIsTask DEF Init
<1>3. \A t \in Task : task[t].at = "idle" /\ task[t].old = {}
  BY <1>2 DEF Idle
<1> QED BY <1>1, <1>2, <1>3 DEF IInv, Shape, Written, Settled, Forgotten, Sweep

LEMMA BeginInv ==
  ASSUME IInv, NEW t \in Task, NEW op \in Ops, NEW c \in Handle, NEW k \in Key \cup {<<>>},
         NEW ttl \in Ttls \cup {None}, Begin(t, op, c, k, ttl)
  PROVE  IInv'
<1> DEFINE at   == CASE op \in {"get", "get_or_set"} -> "reading"
                     [] op = "set"    -> "writing"
                     [] op = "delete" -> "deleting"
                     [] op = "clear"  -> "scanning"
           left == IF op = "clear" /\ remote THEN Own(c) ELSE {}
           old  == CASE op = "clear" -> {entry[x].by : x \in Mine(c)}
                     [] op = "delete" -> {entry[x].by : x \in DOMAIN entry \cap {FullKey(c, k)}}
                     [] OTHER -> {}
           r    == [Idle EXCEPT !.op = op, !.cache = c, !.key = k, !.ttl = ttl,
                      !.at = at, !.left = left, !.old = old]
<1>1. /\ task' = [task EXCEPT ![t] = r] /\ task[t].at = "idle"
      /\ UNCHANGED <<remote, now, entry, dead>>
  BY DEF Begin
<1>2. Shape /\ Written /\ Forgotten
  BY DEF IInv
<1>3. \A x \in DOMAIN entry : x \in Paths /\ entry[x].by \in Task /\ IsOver(entry[x].by)
  BY <1>2 DEF Shape, Written
<1>4. k \in Seq(STRING)
  <2>1. <<>> \in Seq(STRING) /\ Key \subseteq Seq(STRING)
    BY CacheAssumption
  <2> QED BY <2>1
<1>5. /\ at \in {"reading", "writing", "deleting", "scanning"}
      /\ at = "deleting" => op = "delete"
      /\ at = "scanning" => op = "clear"
  BY DEF Ops
<1>6. /\ left \in SUBSET Paths
      /\ op = "clear" /\ remote => left = Own(c)
  BY <1>3 DEF Own
<1>7. /\ old \in SUBSET Task /\ \A u \in old : IsOver(u)
      /\ op = "clear" => \A u \in old : \E x \in Mine(c) : u = entry[x].by
      /\ op = "delete" => \A u \in old : FullKey(c, k) \in DOMAIN entry /\ u = entry[FullKey(c, k)].by
  <2>1. CASE op = "clear"
    BY <1>3, <2>1 DEF Mine
  <2>2. CASE op = "delete"
    BY <1>3, <2>2
  <2>3. CASE op \notin {"clear", "delete"}
    BY <2>3
  <2> QED BY <2>1, <2>2, <2>3
<1> HIDE DEF at, left, old
<1>8. /\ r \in Tasks /\ r.at = at /\ r.cache = c /\ r.key = k /\ r.left = left /\ r.old = old
      /\ r.op = op
  <2> DEFINE keys  == Seq(STRING)
             paths == SUBSET Paths
  <2>1. {} \in paths /\ k \in keys /\ left \in paths
    BY <1>4, <1>6
  <2>2. at \in Ats
    BY <1>5 DEF Ats, Works
  <2> HIDE DEF keys, paths
  <2> QED BY <1>7, <2>1, <2>2 DEF Idle, Tasks, keys, paths
<1> HIDE DEF r
<1>9. task'[t] = r
  BY <1>1, <1>2 DEF Shape
<1>10. OverGrows
  BY <1>1, <1>2 DEF OverGrows, IsOver, Shape
<1>11. \A x, y \in DOMAIN entry : entry[x].by = entry[y].by => x = y
  BY <1>2 DEF Written
<1>12. Sweep(t)'
  <2>1. \A u \in task'[t].old : IsOver(u)'
    BY <1>7, <1>8, <1>9, <1>10 DEF OverGrows
  <2>5. \A x \in Found(t)' : x \in DOMAIN entry /\ entry[x].by \in old
    BY <1>1, <1>8, <1>9 DEF Found
  <2>2. at = "deleting" => Found(t)' \subseteq {Target(t)'}
    <3>1. Target(t)' = FullKey(c, k)
      <4>1. task'[t].cache = c /\ task'[t].key = k /\ remote' = remote
        BY <1>1, <1>8, <1>9
      <4> QED BY <4>1 DEF Target, FullKey
    <3>2. at = "deleting" => \A x \in Found(t)' : x = FullKey(c, k)
      BY <2>5, <1>5, <1>7, <1>11
    <3> QED BY <3>1, <3>2
  <2>3. at = "scanning" => \A x \in Found(t)' : x \in Mine(c)
    BY <2>5, <1>5, <1>7, <1>11 DEF Mine
  <2>4. at = "scanning" => task'[t].op = "clear" /\ \A x \in Found(t)' : Under(c, x)'
    BY <2>3, <1>1, <1>5, <1>8, <1>9, SameKeys DEF Mine, Under
  <2>6. at = "scanning" /\ remote => Due(t)' \subseteq left
    <3>1. \A x \in Due(t)' : x \in DOMAIN entry /\ Matched(c, x)
      BY <2>5, <1>1, <1>8, <1>9, SameKeys DEF Due
    <3> QED BY <1>5, <1>6, <3>1 DEF Own
  <2>7. /\ at # "unlinking" /\ task'[t].at = at /\ task'[t].left = left /\ remote' = remote
        /\ task'[t].cache = c
    BY <1>1, <1>5, <1>8, <1>9
  <2> QED BY <2>1, <2>2, <2>3, <2>4, <2>6, <2>7 DEF Sweep
<1>13. Forgotten' /\ ~IsOver(t)
  BY <1>1, <1>2, SameKeys DEF Forgotten, IsOver
<1> QED BY <1>1, <1>8, <1>12, <1>13, Quiet

LEMMA AtMoved ==
  ASSUME NEW r \in Tasks, NEW a \in Ats, NEW q, q = [r EXCEPT !.at = a]
  PROVE  q \in Tasks /\ q.at = a /\ q.cache = r.cache /\ q.old = r.old
<1> DEFINE paths == SUBSET Paths
           keys  == Seq(STRING)
<1>1. r \in [op : Ops \cup {"none"}, at : Ats, cache : Handle \cup {None}, key : keys,
             ttl : Ttls \cup {None}, left : paths, batch : paths, last : BOOLEAN,
             old : SUBSET Task]
  BY DEF Tasks
<1> HIDE DEF paths, keys
<1>2. /\ q \in [op : Ops \cup {"none"}, at : Ats, cache : Handle \cup {None}, key : keys,
                ttl : Ttls \cup {None}, left : paths, batch : paths, last : BOOLEAN,
                old : SUBSET Task]
      /\ q.at = a /\ q.cache = r.cache /\ q.old = r.old
  BY <1>1
<1> QED BY <1>2 DEF Tasks, paths, keys

\* A task that ends, or goes on with what it computes or writes, leaving the store.
LEMMA QuietStep ==
  ASSUME IInv, NEW t \in Task, task[t].at \notin {"idle", "over"},
         UNCHANGED <<remote, entry, dead>>,
         \/ task' = [task EXCEPT ![t] = Over]
         \/ \E a \in {"computing", "writing"} : task' = [task EXCEPT ![t] = [task[t] EXCEPT !.at = a]]
  PROVE  IInv'
<1>1. task[t] \in Tasks /\ ~IsOver(t) /\ task[t].cache \in Handle /\ Sweep(t) /\ Forgotten'
  BY SameKeys DEF IInv, Shape, IsOver, Forgotten
<1>2. CASE task' = [task EXCEPT ![t] = Over]
  <2>1. task'[t] = Over
    BY <1>2 DEF IInv, Shape
  <2> QED BY <1>1, <1>2, <2>1, OverIsTask, Finished, Quiet
<1>3. ASSUME NEW a \in {"computing", "writing"},
             task' = [task EXCEPT ![t] = [task[t] EXCEPT !.at = a]]
      PROVE  IInv'
  <2> DEFINE r == [task[t] EXCEPT !.at = a]
  <2>1. a \in Ats
    BY DEF Ats, Works
  <2>2. r \in Tasks /\ r.at = a /\ r.cache = task[t].cache /\ r.old = task[t].old
    BY <1>1, <2>1, AtMoved
  <2>3. task' = [task EXCEPT ![t] = r]
    BY <1>3
  <2> HIDE DEF r
  <2>4. OverGrows /\ task'[t] = r
    BY <1>1, <2>2, <2>3, TaskMoves DEF IInv, Shape
  <2>5. Sweep(t)'
    <3>1. \A u \in task[t].old : u \in Task /\ IsOver(u)
      BY <1>1 DEF Sweep, Tasks
    <3>2. \A u \in task'[t].old : IsOver(u)'
      BY <2>2, <2>4, <3>1 DEF OverGrows
    <3> QED BY <2>2, <2>4, <3>2 DEF Sweep
  <2> QED BY <1>1, <2>2, <2>3, <2>5, Quiet
<1> QED BY <1>2, <1>3

LEMMA ReadInv ==
  ASSUME IInv, NEW t \in Task, NEW o \in Outcomes, Read(t, o)
  PROVE  IInv'
<1>1. task[t].at = "reading" /\ UNCHANGED <<remote, entry, dead>>
  BY DEF Read
<1>2. \/ task' = [task EXCEPT ![t] = Over]
      \/ task' = [task EXCEPT ![t] = [task[t] EXCEPT !.at = "computing"]]
  BY DEF Read
<1> QED BY <1>1, <1>2, QuietStep

LEMMA ComputeInv ==
  ASSUME IInv, NEW t \in Task, Compute(t)
  PROVE  IInv'
<1>1. task[t].at = "computing" /\ UNCHANGED <<remote, entry, dead>>
  BY DEF Compute
<1>2. \/ task' = [task EXCEPT ![t] = Over]
      \/ task' = [task EXCEPT ![t] = [task[t] EXCEPT !.at = "writing"]]
  BY DEF Compute
<1> QED BY <1>1, <1>2, QuietStep

LEMMA ScanFailsInv ==
  ASSUME IInv, NEW t \in Task, ScanFails(t)
  PROVE  IInv'
<1>1. task[t].at = "scanning" /\ UNCHANGED <<remote, entry, dead>>
  BY DEF ScanFails
<1> QED BY <1>1, QuietStep DEF ScanFails

\* A task writes once, and whatever was found before it did was written by others.
LEMMA WriteInv ==
  ASSUME IInv, NEW t \in Task, NEW o \in Outcomes, Write(t, o)
  PROVE  IInv'
<1>1. task[t].at = "writing" /\ UNCHANGED <<remote, dead>> /\ task' = [task EXCEPT ![t] = Over]
  BY DEF Write
<1>2. ~IsOver(t) /\ task[t].cache \in Handle /\ task[t].key \in Seq(STRING)
  BY <1>1 DEF IInv, Shape, IsOver, Tasks
<1>3. CASE UNCHANGED entry
  BY <1>1, <1>3, QuietStep
<1>4. CASE entry' = [k \in DOMAIN entry \cup {Target(t)} |->
             IF k = Target(t)
             THEN [by |-> t, owner |-> task[t].cache, expires |-> Expiry(t),
                   written |-> now, ttl |-> task[t].ttl]
             ELSE entry[k]]
  <2>1. Target(t) \in Paths /\ Under(task[t].cache, Target(t))
    BY <1>2, KeysOK DEF Target
  <2>0. PICK g, d : g = Target(t) /\ d = task[t].cache
    OBVIOUS
  <2>2. /\ DOMAIN entry' = DOMAIN entry \cup {g}
        /\ entry'[g].by = t /\ entry'[g].owner = d
        /\ \A k \in DOMAIN entry' : k # g => k \in DOMAIN entry /\ entry'[k] = entry[k]
    BY <1>4, <2>0
  <2>3. DOMAIN entry' \subseteq Paths
    BY <2>1, <2>2, <2>0 DEF IInv, Shape
  <2>4. Shape' /\ OverGrows /\ task'[t] = Over /\ \A u \in Task \ {t} : task'[u] = task[u]
    BY <1>1, <1>2, <2>3, OverIsTask, TaskMoves DEF IInv
  <2>5. \A k \in DOMAIN entry : /\ entry[k].by \in Task /\ IsOver(entry[k].by)
                                /\ entry[k].owner \in Handle /\ Under(entry[k].owner, k)
    BY DEF IInv, Written
  <2>6. \A c, k : Under(c, k) => Under(c, k)'
    BY <1>1 DEF Under, FullKey
  <2>7. Written'
    <3>1. IsOver(t)' /\ Under(d, g)'
      BY <2>1, <2>4, <2>6, <2>0, OverIsTask DEF IsOver
    <3>2. ASSUME NEW k \in DOMAIN entry', k # g
          PROVE  /\ entry'[k].by \in Task /\ IsOver(entry[k].by)'
                 /\ entry'[k].owner \in Handle /\ Under(entry[k].owner, k)'
      <4>1. k \in DOMAIN entry /\ entry'[k] = entry[k]
        BY <2>2, <3>2
      <4>2. task'[entry[k].by].at = task[entry[k].by].at
        BY <1>2, <2>4, <2>5, <4>1
      <4> QED BY <2>5, <2>6, <4>1, <4>2 DEF IsOver, Under
    <3>3. /\ entry'[g].by \in Task /\ IsOver(entry[g].by)'
          /\ entry'[g].owner \in Handle /\ Under(entry[g].owner, g)'
      BY <1>2, <2>2, <2>0, <3>1 DEF IsOver, Under
    <3>4. ASSUME NEW k \in DOMAIN entry', NEW l \in DOMAIN entry', entry'[k].by = entry'[l].by
          PROVE  k = l
      <4>1. \A x \in DOMAIN entry' : x # g => entry'[x].by # t
        BY <1>2, <2>2, <2>5
      <4> QED BY <2>2, <3>4, <4>1 DEF IInv, Written
    <3> QED BY <3>2, <3>3, <3>4 DEF Written
  <2>8. Forgotten'
    <3>1. \A x \in dead : x.write # t
      BY <1>2 DEF IInv, Settled
    <3> QED BY <1>1, <2>2, <3>1, SameKeys DEF IInv, Forgotten
  <2>9. Settled'
    BY <1>1, <2>4 DEF IInv, Settled, OverGrows
  <2>10. ASSUME NEW u \in Task \ {t}
         PROVE  Sweep(u)'
    <3> DEFINE K == {}
    <3>1. task'[u] = task[u] /\ task'[u].left = task[u].left \ K
      BY <2>4
    <3>2. t \notin task[u].old
      BY <1>2 DEF IInv, Sweep
    <3>3. \A k \in DOMAIN entry' : entry'[k].by \in task[u].old =>
            k \in DOMAIN entry \ K /\ entry[k].by = entry'[k].by
      BY <2>2, <3>2
    <3>4. Shape /\ Sweep(u)
      BY DEF IInv
    <3> HIDE DEF K
    <3> QED BY <1>1, <2>4, <3>1, <3>3, <3>4, SweepKept
  <2>11. Sweep(t)'
    BY <2>4, Finished
  <2> QED BY <2>4, <2>7, <2>8, <2>9, <2>10, <2>11 DEF IInv
<1> QED BY <1>3, <1>4 DEF Write

LEMMA DeleteInv ==
  ASSUME IInv, NEW t \in Task, NEW o \in Outcomes, Delete(t, o)
  PROVE  IInv'
<1> DEFINE K == IF Effect(o) THEN {Target(t)} ELSE {}
<1>1. task[t].at = "deleting" /\ UNCHANGED remote /\ Drop(t, K, Over) /\ Forget(t, o = "ok")
  BY DEF Delete
<1>2. o = "ok" => Done(t, K)
  BY <1>1 DEF IInv, Sweep, Effect, Done
<1>3. dead' \subseteq dead \cup (IF Done(t, K) THEN Claims(t) ELSE {})
  BY <1>1, <1>2 DEF Forget
<1> HIDE DEF K
<1>4. task'[t] = Over
  BY <1>1 DEF Drop
<1>5. Sweep(t)' /\ ~IsOver(t)
  BY <1>1, <1>4, Finished DEF IsOver
<1> QED BY <1>1, <1>3, <1>5, OverIsTask, DropKept

LEMMA ClearLocalInv ==
  ASSUME IInv, NEW t \in Task, ClearLocal(t)
  PROVE  IInv'
<1> DEFINE K == Own(task[t].cache)
<1>1. task[t].at = "scanning" /\ UNCHANGED remote /\ Drop(t, K, Over) /\ Forget(t, TRUE)
  BY DEF ClearLocal
<1>2. Done(t, K)
  <2>1. Due(t) \subseteq K
    BY DEF Due, Found, Own
  <2> HIDE DEF K
  <2> QED BY <1>1, <2>1, ClearDone DEF IInv
<1>3. dead' \subseteq dead \cup (IF Done(t, K) THEN Claims(t) ELSE {})
  BY <1>1, <1>2 DEF Forget
<1> HIDE DEF K
<1>4. task'[t] = Over
  BY <1>1 DEF Drop
<1>5. Sweep(t)' /\ ~IsOver(t)
  BY <1>1, <1>4, Finished DEF IsOver
<1> QED BY <1>1, <1>3, <1>5, OverIsTask, DropKept

LEMMA ScanInv ==
  ASSUME IInv, NEW t \in Task, Scan(t)
  PROVE  IInv'
<1>1. remote /\ task[t].at = "scanning" /\ UNCHANGED <<remote, entry>>
  BY DEF Scan
<1>2. PICK batch \in SUBSET Own(task[t].cache), next \in {0, 1} :
        LET left == task[t].left \ batch
            last == AtEnd(batch, next)
        IN  /\ next = 0 => left = {}
            /\ task' = [task EXCEPT ![t] =
                 IF batch = {} /\ last THEN Over
                 ELSE [task[t] EXCEPT !.left = left, !.batch = batch, !.last = last,
                                !.at = IF batch = {} THEN "scanning" ELSE "unlinking"]]
            /\ Forget(t, batch = {} /\ last)
  BY DEF Scan
<1> DEFINE left == task[t].left \ batch
           last == AtEnd(batch, next)
           at   == IF batch = {} THEN "scanning" ELSE "unlinking"
           r    == [task[t] EXCEPT !.left = left, !.batch = batch, !.last = last, !.at = at]
<1>3. /\ last => left = {}
      /\ task' = [task EXCEPT ![t] = IF batch = {} /\ last THEN Over ELSE r]
      /\ Forget(t, batch = {} /\ last)
  BY <1>2 DEF AtEnd
<1>4. /\ task[t] \in Tasks /\ task[t].cache \in Handle /\ ~IsOver(t) /\ Sweep(t)
      /\ task[t].left \in SUBSET Paths /\ DOMAIN entry \subseteq Paths
  BY <1>1 DEF IInv, Shape, IsOver, Tasks
<1>5. Due(t) \subseteq task[t].left
  BY <1>1, <1>4 DEF Sweep
<1>6. CASE batch = {} /\ last
  <2>1. Due(t) \subseteq {}
    BY <1>3, <1>5, <1>6
  <2>2. dead' = dead \cup Claims(t)
    BY <1>3, <1>6 DEF Forget
  <2>3. Forgotten'
    <3>1. Done(t, {})
      BY <1>1, <1>4, <2>1, ClearDone
    <3>2. \A d \in Claims(t) : d.write \in task[t].old /\ d.op = task[t].op /\ d.cache = task[t].cache
      BY DEF Claims
    <3>3. \A d \in Claims(t), k \in DOMAIN entry :
            entry[k].by = d.write => d.op = "clear" /\ Overlooked(d.cache, k)
      BY <3>1, <3>2 DEF Done, Found
    <3> QED BY <1>1, <2>2, <3>3, SameKeys DEF IInv, Forgotten
  <2>4. task' = [task EXCEPT ![t] = Over]
    BY <1>3, <1>6
  <2>5. task'[t] = Over
    BY <2>4 DEF IInv, Shape
  <2>6. Sweep(t)'
    BY <2>5, Finished
  <2> QED BY <1>1, <1>4, <2>2, <2>3, <2>4, <2>6, OverIsTask, Quiet
<1>7. CASE ~(batch = {} /\ last)
  <2>1. left \in SUBSET Paths /\ batch \in SUBSET Paths /\ last \in BOOLEAN /\ at \in Ats
    BY <1>4 DEF Own, AtEnd, Ats
  <2>2. /\ at = "unlinking" \/ (at = "scanning" /\ batch = {})
        /\ at \notin {"deleting", "idle", "over"}
    OBVIOUS
  <2>3. task' = [task EXCEPT ![t] = r] /\ dead' = dead
    BY <1>3, <1>7 DEF Forget
  <2>4. Due(t) \subseteq left \cup batch /\ (last => left = {})
    BY <1>3, <1>5
  <2> HIDE DEF left, last, at
  <2>5. /\ r \in Tasks /\ r.at = at /\ r.left = left /\ r.batch = batch /\ r.last = last
        /\ r.cache = task[t].cache /\ r.old = task[t].old /\ r.op = task[t].op
    <3> DEFINE paths == SUBSET Paths
               keys  == Seq(STRING)
    <3>1. /\ task[t] \in [op : Ops \cup {"none"}, at : Ats, cache : Handle \cup {None},
                          key : keys, ttl : Ttls \cup {None}, left : paths, batch : paths,
                          last : BOOLEAN, old : SUBSET Task]
          /\ left \in paths /\ batch \in paths
      BY <1>4, <2>1 DEF Tasks
    <3> HIDE DEF paths, keys
    <3>2. /\ r \in [op : Ops \cup {"none"}, at : Ats, cache : Handle \cup {None},
                    key : keys, ttl : Ttls \cup {None}, left : paths, batch : paths,
                    last : BOOLEAN, old : SUBSET Task]
          /\ r.at = at /\ r.left = left /\ r.batch = batch /\ r.last = last
          /\ r.cache = task[t].cache /\ r.old = task[t].old /\ r.op = task[t].op
      BY <2>1, <3>1
    <3> QED BY <3>2 DEF Tasks, paths, keys
  <2> HIDE DEF r
  <2>6. task'[t] = r /\ OverGrows
    BY <1>1, <1>4, <2>2, <2>3, <2>5, TaskMoves DEF IInv
  <2>7. Found(t)' = Found(t)
    BY <1>1, <2>5, <2>6 DEF Found
  <2>8. Due(t)' = Due(t) /\ \A k \in Found(t) : Under(task[t].cache, k)'
    BY <1>1, <1>4, <2>5, <2>6, <2>7, SameKeys DEF Due, Sweep
  <2>9. \A k \in batch : Matched(task[t].cache, k)'
    BY <1>1, <1>2, <2>5, <2>6, SameKeys DEF Own
  <2>10. \A u \in task'[t].old : IsOver(u)'
    BY <1>4, <2>5, <2>6 DEF Sweep, OverGrows, Tasks
  <2>11. Sweep(t)'
    BY <1>1, <1>4, <2>2, <2>4, <2>5, <2>6, <2>7, <2>8, <2>9, <2>10 DEF Sweep
  <2>12. Forgotten'
    BY <1>1, <2>3, SameKeys DEF IInv, Forgotten
  <2> QED BY <1>1, <1>4, <2>3, <2>5, <2>11, <2>12, Quiet
<1> QED BY <1>6, <1>7

\* One DEL of a batch: what is left of the found entries is what the scan has left.
LEMMA UnlinkInv ==
  ASSUME IInv, NEW t \in Task, NEW o \in Outcomes, Unlink(t, o)
  PROVE  IInv'
<1> DEFINE K    == IF Effect(o) THEN task[t].batch ELSE {}
           left == task[t].left \ task[t].batch
           r    == [task[t] EXCEPT !.at = "scanning", !.batch = {}, !.left = left]
<1>1. /\ task[t].at = "unlinking" /\ UNCHANGED remote /\ Forget(t, o = "ok" /\ task[t].last)
      /\ Drop(t, K, IF o # "ok" \/ task[t].last THEN Over ELSE r)
  BY DEF Unlink
<1>2. /\ task[t] \in Tasks /\ task[t].cache \in Handle /\ ~IsOver(t) /\ Sweep(t) /\ remote
      /\ DOMAIN entry \subseteq Paths /\ task[t].left \in SUBSET Paths
  BY <1>1 DEF IInv, Shape, IsOver, Sweep, Tasks
<1>3. /\ task[t].op = "clear" /\ \A k \in Found(t) : Under(task[t].cache, k)
      /\ Due(t) \subseteq task[t].left \cup task[t].batch
      /\ task[t].last => task[t].left = {}
  BY <1>1, <1>2 DEF Sweep
<1>4. o = "ok" => K = task[t].batch
  BY DEF Effect
<1>5. dead' \subseteq dead \cup (IF Done(t, K) THEN Claims(t) ELSE {})
  <2>1. o = "ok" /\ task[t].last => Due(t) \subseteq K
    BY <1>3, <1>4
  <2>2. o = "ok" /\ task[t].last => Done(t, K)
    <3> HIDE DEF K
    <3> QED BY <1>1, <1>2, <2>1, ClearDone
  <2> QED BY <1>1, <2>2 DEF Forget
<1>6. left \in SUBSET Paths
  BY <1>2
<1> HIDE DEF K, left
<1>7. CASE o # "ok" \/ task[t].last
  <2>1. Drop(t, K, Over)
    BY <1>1, <1>7
  <2>2. task'[t] = Over
    BY <2>1 DEF Drop
  <2>3. Sweep(t)'
    BY <2>2, Finished
  <2> QED BY <1>1, <1>2, <1>5, <2>1, <2>3, OverIsTask, DropKept
<1>8. CASE o = "ok" /\ ~task[t].last
  <2>1. Drop(t, K, r)
    BY <1>1, <1>8
  <2>2. /\ r \in Tasks /\ r.at = "scanning" /\ r.left = left
        /\ r.cache = task[t].cache /\ r.old = task[t].old /\ r.op = task[t].op
    <3> DEFINE paths == SUBSET Paths
               keys  == Seq(STRING)
    <3>1. /\ task[t] \in [op : Ops \cup {"none"}, at : Ats, cache : Handle \cup {None},
                          key : keys, ttl : Ttls \cup {None}, left : paths, batch : paths,
                          last : BOOLEAN, old : SUBSET Task]
          /\ left \in paths /\ {} \in paths /\ "scanning" \in Ats
      BY <1>2, <1>6 DEF Tasks, Ats
    <3> HIDE DEF paths, keys
    <3>2. /\ r \in [op : Ops \cup {"none"}, at : Ats, cache : Handle \cup {None},
                    key : keys, ttl : Ttls \cup {None}, left : paths, batch : paths,
                    last : BOOLEAN, old : SUBSET Task]
          /\ r.at = "scanning" /\ r.left = left
          /\ r.cache = task[t].cache /\ r.old = task[t].old /\ r.op = task[t].op
      BY <3>1
    <3> QED BY <3>2 DEF Tasks, paths, keys
  <2> HIDE DEF r
  <2>3. /\ task'[t] = r
        /\ \A u \in Task \ {t} : task'[u] = [task[u] EXCEPT !.left = task[u].left \ K]
        /\ entry' = [k \in DOMAIN entry \ K |-> entry[k]]
    BY <2>1 DEF Drop
  <2>4. Found(t)' \subseteq Found(t) \ K
    BY <2>2, <2>3 DEF Found
  <2>5. Due(t)' \subseteq left
    BY <1>1, <1>3, <1>4, <1>8, <2>2, <2>3, <2>4, SameKeys DEF left, Due
  <2>6. task'[t].op = "clear" /\ \A k \in Found(t)' : Under(task[t].cache, k)'
    BY <1>1, <1>3, <2>2, <2>3, <2>4, SameKeys
  <2>7. \A u \in task'[t].old : IsOver(u)'
    <3>1. \A u \in task[t].old : u \in Task \ {t} /\ IsOver(u)
      BY <1>2 DEF Sweep, Tasks
    <3>2. ASSUME NEW u \in Task \ {t}
          PROVE  task'[u].at = task[u].at
      <4>1. task[u] \in Tasks /\ task'[u] = [task[u] EXCEPT !.left = task[u].left \ K]
        BY <2>3 DEF IInv, Shape
      <4> QED BY <4>1, LeftTyped
    <3> QED BY <2>2, <2>3, <3>1, <3>2 DEF IsOver
  <2>8. Sweep(t)'
    BY <2>2, <2>3, <2>5, <2>6, <2>7 DEF Sweep
  <2> QED BY <1>1, <1>2, <1>5, <2>1, <2>2, <2>8, DropKept
<1> QED BY <1>7, <1>8

LEMMA EvictInv ==
  ASSUME IInv, NEW c \in Handle, Evict(c)
  PROVE  IInv'
<1>1. PICK k \in Own(c) : Lose({k})
  BY DEF Evict
<1>2. UNCHANGED <<remote, dead>>
  BY DEF Evict
<1> QED BY <1>1, <1>2, LoseKept

LEMMA TickInv ==
  ASSUME IInv, Tick
  PROVE  IInv'
<1>1. UNCHANGED <<remote, dead>> /\ Lose({k \in DOMAIN entry : entry[k].expires <= now + 1})
  BY DEF Tick
<1> QED BY <1>1, LoseKept

LEMMA StutterInv ==
  ASSUME IInv, UNCHANGED vars
  PROVE  IInv'
<1>1. UNCHANGED <<remote, entry, task, dead>>
  BY DEF vars
<1>2. /\ Shape' /\ Settled' /\ Forgotten'
  BY <1>1, SameKeys DEF IInv, Shape, Settled, Forgotten, IsOver
<1>3. Written'
  BY <1>1 DEF IInv, Written, IsOver, Under, FullKey
<1>4. \A t \in Task : Sweep(t)'
  <2> SUFFICES ASSUME NEW t \in Task
               PROVE  Sweep(t)'
    OBVIOUS
  <2> DEFINE K == {}
  <2>1. task'[t] = task[t] /\ task'[t].left = task[t].left \ K
    BY <1>1
  <2>2. \A k \in DOMAIN entry' : entry'[k].by \in task[t].old =>
          k \in DOMAIN entry \ K /\ entry[k].by = entry'[k].by
    BY <1>1
  <2>3. Shape /\ Sweep(t) /\ OverGrows
    BY <1>1 DEF IInv, OverGrows, IsOver
  <2> HIDE DEF K
  <2> QED BY <1>1, <2>1, <2>2, <2>3, SweepKept
<1> QED BY <1>2, <1>3, <1>4 DEF IInv

LEMMA NextInv == IInv /\ [Next]_vars => IInv'
<1> SUFFICES ASSUME IInv, [Next]_vars
             PROVE  IInv'
  OBVIOUS
<1>1. CASE Next
  BY <1>1, BeginInv, ReadInv, WriteInv, DeleteInv, UnlinkInv, ComputeInv, ClearLocalInv,
     ScanInv, ScanFailsInv, EvictInv, TickInv DEF Next
<1>2. CASE UNCHANGED vars
  BY <1>2, StutterInv
<1> QED BY <1>1, <1>2

-----------------------------------------------------------------------------
(* Theorems.                                                                *)

\* What the steps of every task keep true, whatever the others do in between.
THEOREM Inductive == Spec => []IInv
<1> QED BY InitInv, NextInv, PTL DEF Spec

\* Nothing that a delete or clear found in the store is there once it has returned Ok,
\* for any number of tasks and handles, however a scan is cut into batches and however
\* the calls of others succeed, fail or are lost on the way (redis.rs:114, store.rs). A
\* clear in Redis leaves what its pattern misses, if the prefix is not plain, however
\* Redis matches it.
THEOREM ForgottenAlways == Spec => []Forgotten
<1>1. IInv => Forgotten
  BY DEF IInv
<1> QED BY <1>1, Inductive, PTL

-----------------------------------------------------------------------------
(* Handles that do not share keys.                                          *)

\* Two handles under which one key falls: one of their prefixes begins the other, or
\* they are one handle over its own store.
LEMMA KeyTellsHandle ==
  ASSUME NEW c \in Handle, NEW d \in Handle, NEW k \in Paths, Under(c, k), Under(d, k)
  PROVE  (remote => ~Apart(c, d)) /\ (~remote => c = d)
<1>1. CASE remote
  <2>1. Prefix[c] \in Paths /\ Prefix[d] \in Paths
    <3>1. Prefix[c] \in Seq(STRING) /\ Prefix[d] \in Seq(STRING)
      BY CacheAssumption
    <3> QED BY <3>1 DEF Paths, Segs
  <2> DEFINE a == Prefix[c]
             b == Prefix[d]
  <2>2. IsPrefix(a \o <<>>, k) /\ IsPrefix(b \o <<>>, k)
    BY <1>1 DEF Under, FullKey
  <2> HIDE DEF a, b
  <2>3. a \in Paths /\ b \in Paths
    BY <2>1 DEF a, b
  <2>4. a \o <<>> = a /\ b \o <<>> = b
    BY <2>3 DEF Paths
  <2>5. IsPrefix(a, k) /\ IsPrefix(b, k)
    BY <2>2, <2>4
  <2>6. Len(a) <= Len(b) \/ Len(b) <= Len(a)
    BY <2>3 DEF Paths
  <2>7. IsPrefix(a, b) \/ IsPrefix(b, a)
    BY <2>3, <2>5, <2>6, Comparable
  <2> QED BY <1>1, <2>7 DEF Apart, a, b
<1>2. CASE ~remote
  <2>1. IsPrefix(<<c>> \o <<>>, k) /\ IsPrefix(<<d>> \o <<>>, k)
    BY <1>2 DEF Under, FullKey
  <2>2. <<c>> \o <<>> = <<c>> /\ <<d>> \o <<>> = <<d>>
    OBVIOUS
  <2>3. k[1] = c /\ k[1] = d
    BY <2>1, <2>2 DEF IsPrefix, Paths
  <2> QED BY <1>2, <2>3
<1> QED BY <1>1, <1>2

Untouched(k) == k \in DOMAIN entry' /\ entry'[k] = entry[k]

\* Whose work it was that the entry under k is not there any more as it was.
Accounted(k) ==
  \/ Untouched(k)
  \/ now' # now
  \/ \E t \in Task : /\ task'[t].at # task[t].at
                     /\ remote => ~Apart(task[t].cache, entry[k].owner) \/ Reaches(t, k)
                     /\ ~remote => task[t].cache = entry[k].owner
  \/ ~remote /\ \E c \in Handle : Evict(c)

\* A task that moves answers for the keys that begin like those of its handle, and one
\* that clears for those that the pattern of its handle matches.
LEMMA Answers ==
  ASSUME IInv, NEW k \in DOMAIN entry, NEW t \in Task, task[t].at \notin {"idle", "over"},
         task'[t].at # task[t].at,
         \/ Under(task[t].cache, k)
         \/ task[t].op = "clear" /\ Matched(task[t].cache, k)
  PROVE  Accounted(k)
<1>1. /\ task[t].cache \in Handle /\ k \in Paths
      /\ entry[k].owner \in Handle /\ Under(entry[k].owner, k)
  BY DEF IInv, Shape, Written
<1>2. CASE Under(task[t].cache, k)
  <2>1. /\ remote => ~Apart(task[t].cache, entry[k].owner)
        /\ ~remote => task[t].cache = entry[k].owner
    BY <1>1, <1>2, KeyTellsHandle
  <2> QED BY <2>1 DEF Accounted
<1>3. CASE ~Under(task[t].cache, k)
  <2>1. task[t].op = "clear" /\ Matched(task[t].cache, k)
    BY <1>3
  <2>2. remote /\ ~Plain(Prefix[task[t].cache])
    BY <1>3, <2>1 DEF Under, Matched
  <2>3. Reaches(t, k)
    BY <2>1, <2>2 DEF Reaches
  <2> QED BY <2>2, <2>3 DEF Accounted
<1> QED BY <1>2, <1>3

LEMMA WriteAccounted ==
  ASSUME IInv, NEW k \in DOMAIN entry, NEW t \in Task, NEW o \in Outcomes, Write(t, o)
  PROVE  Accounted(k)
<1>1. task[t].at = "writing" /\ task'[t] = Over
  BY DEF IInv, Shape, Write
<1>2. task'[t].at # task[t].at
  BY <1>1, OverIsTask
<1>3. task[t].cache \in Handle /\ task[t].key \in Seq(STRING)
  BY <1>1 DEF IInv, Shape, Tasks
<1>4. Under(task[t].cache, Target(t))
  BY <1>3, KeysOK DEF Target
<1>5. CASE k = Target(t)
  BY <1>1, <1>2, <1>4, <1>5, Answers
<1>6. CASE k # Target(t)
  <2>1. Untouched(k)
    BY <1>6 DEF Write, Untouched
  <2> QED BY <2>1 DEF Accounted
<1> QED BY <1>5, <1>6

LEMMA DropAccounted ==
  ASSUME IInv, NEW k \in DOMAIN entry, NEW t \in Task, NEW K, NEW r, Drop(t, K, r),
         task[t].at \notin {"idle", "over"}, r.at # task[t].at,
         \A x \in K :
           \/ Under(task[t].cache, x)
           \/ task[t].op = "clear" /\ Matched(task[t].cache, x)
  PROVE  Accounted(k)
<1>1. task'[t].at # task[t].at
  BY DEF Drop
<1>2. CASE k \in K
  BY <1>1, <1>2, Answers
<1>3. CASE k \notin K
  <2>1. Untouched(k)
    BY <1>3 DEF Drop, Untouched
  <2> QED BY <2>1 DEF Accounted
<1> QED BY <1>2, <1>3

LEMMA DeleteAccounted ==
  ASSUME IInv, NEW k \in DOMAIN entry, NEW t \in Task, NEW o \in Outcomes, Delete(t, o)
  PROVE  Accounted(k)
<1> DEFINE K == IF Effect(o) THEN {Target(t)} ELSE {}
           r == Over
<1>1. task[t].at = "deleting" /\ Drop(t, K, r)
  BY DEF Delete
<1>2. task[t].cache \in Handle /\ task[t].key \in Seq(STRING)
  BY <1>1 DEF IInv, Shape, Tasks
<1>3. Under(task[t].cache, Target(t))
  BY <1>2, KeysOK DEF Target
<1>4. \A x \in K : Under(task[t].cache, x)
  BY <1>3
<1>5. r.at # task[t].at
  BY <1>1, OverIsTask
<1> HIDE DEF K, r
<1> QED BY <1>1, <1>4, <1>5, DropAccounted

LEMMA ClearLocalAccounted ==
  ASSUME IInv, NEW k \in DOMAIN entry, NEW t \in Task, ClearLocal(t)
  PROVE  Accounted(k)
<1> DEFINE K == Own(task[t].cache)
<1>1. task[t].at = "scanning" /\ Drop(t, K, Over)
  BY DEF ClearLocal
<1>2. (\A x \in K : task[t].op = "clear" /\ Matched(task[t].cache, x)) /\ Over.at # task[t].at
  BY <1>1, OverIsTask DEF IInv, Sweep, Own
<1> HIDE DEF K
<1> QED BY <1>1, <1>2, DropAccounted

LEMMA UnlinkAccounted ==
  ASSUME IInv, NEW k \in DOMAIN entry, NEW t \in Task, NEW o \in Outcomes, Unlink(t, o)
  PROVE  Accounted(k)
<1> DEFINE K == IF Effect(o) THEN task[t].batch ELSE {}
           r == IF o # "ok" \/ task[t].last THEN Over
                ELSE [task[t] EXCEPT !.at = "scanning", !.batch = {},
                                     !.left = task[t].left \ task[t].batch]
<1>1. task[t].at = "unlinking" /\ Drop(t, K, r)
  BY DEF Unlink
<1>2. \A x \in K : task[t].op = "clear" /\ Matched(task[t].cache, x)
  BY <1>1 DEF IInv, Sweep
<1>3. r.at # task[t].at
  <2>1. task[t] \in Tasks
    BY DEF IInv, Shape
  <2>2. [task[t] EXCEPT !.at = "scanning", !.batch = {},
                        !.left = task[t].left \ task[t].batch].at = "scanning"
    BY <2>1 DEF Tasks
  <2>3. r.at \in {"over", "scanning"}
    BY <2>2, OverIsTask
  <2> QED BY <1>1, <2>3
<1> HIDE DEF K, r
<1> QED BY <1>1, <1>2, <1>3, DropAccounted

LEMMA QuietAccounted ==
  ASSUME NEW k \in DOMAIN entry, UNCHANGED entry
  PROVE  Accounted(k)
BY DEF Accounted, Untouched

LEMMA EvictAccounted ==
  ASSUME NEW k \in DOMAIN entry, NEW c \in Handle, Evict(c)
  PROVE  Accounted(k)
<1>1. ~remote
  BY DEF Evict
<1> QED BY <1>1 DEF Accounted

LEMMA TickAccounted ==
  ASSUME NEW k \in DOMAIN entry, now \in Nat, Tick
  PROVE  Accounted(k)
<1>1. now' # now
  BY DEF Tick
<1> QED BY <1>1 DEF Accounted

\* The clock is a number.
LEMMA Clock == Spec => [](now \in Nat)
<1>1. Init => now \in Nat
  BY DEF Init
<1>2. now \in Nat /\ [Next]_vars => (now \in Nat)'
  <2> SUFFICES ASSUME now \in Nat, [Next]_vars
               PROVE  now' \in Nat
    OBVIOUS
  <2>1. now' = now \/ now' = now + 1
    BY DEF Next, vars, Begin, Read, Write, Delete, Unlink, Compute, ClearLocal, Scan,
       ScanFails, Evict, Tick
  <2> QED BY <2>1
<1> QED BY <1>1, <1>2, PTL DEF Spec

LEMMA NextAccounted == IInv /\ now \in Nat /\ Next => \A k \in DOMAIN entry : Accounted(k)
<1> SUFFICES ASSUME IInv, now \in Nat, Next, NEW k \in DOMAIN entry
             PROVE  Accounted(k)
  OBVIOUS
<1>1. CASE UNCHANGED entry
  BY <1>1, QuietAccounted
<1>2. CASE ~UNCHANGED entry
  <2>1. \/ \E t \in Task, o \in Outcomes : Write(t, o) \/ Delete(t, o) \/ Unlink(t, o)
        \/ \E t \in Task : ClearLocal(t)
        \/ \E c \in Handle : Evict(c)
        \/ Tick
    BY <1>2 DEF Next, Begin, Read, Compute, Scan, ScanFails
  <2> QED BY <2>1, WriteAccounted, DeleteAccounted, UnlinkAccounted, ClearLocalAccounted,
             EvictAccounted, TickAccounted
<1> QED BY <1>1, <1>2

\* Whatever a handle does, in memory or in Redis, the entries of a handle whose prefix
\* does not begin its own, nor begins with it, stay as they are (handle.rs:143, redis.rs:114),
\* unless it is a clear whose prefix is a pattern that matches their keys.
THEOREM OthersUntouchedAlways == Spec => OthersUntouched
<1>1. IInv /\ now \in Nat /\ [Next]_vars =>
        [\A k \in DOMAIN entry :
           \/ k \in DOMAIN entry' /\ entry'[k] = entry[k]
           \/ now' # now
           \/ \E t \in Task : /\ task'[t].at # task[t].at
                              /\ remote => ~Apart(task[t].cache, entry[k].owner) \/ Reaches(t, k)
                              /\ ~remote => task[t].cache = entry[k].owner
           \/ ~remote /\ \E c \in Handle : Evict(c)]_vars
  BY NextAccounted DEF Accounted, Untouched
<1> QED BY <1>1, Inductive, Clock, PTL DEF Spec, OthersUntouched

================================================================================
