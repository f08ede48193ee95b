--------------------------------- MODULE Cache ---------------------------------
(****************************************************************************)
(* The cache (tork-core/src/cache): Cache handles over a store in memory     *)
(* (moka) or in Redis, used by several tasks at once.                        *)
(*                                                                           *)
(* A task performs one operation. Each call of the store is one step; the    *)
(* value of a write is known by the task that wrote it. A Redis call may     *)
(* fail before or after it took effect, and clear() is many calls.           *)
(****************************************************************************)
EXTENDS Integers, Sequences, FiniteSets, SequencesExt

CONSTANTS
  Task,      \* the tasks
  Handle,    \* the Cache handles, with what they were built with:
  Prefix,    \*   the prefix of its keys, a sequence of characters
  Default,   \*   default_ttl
  Key,       \* what users call their entries, sequences of characters
  Glob(_, _), \* Redis's MATCH: whether a pattern matches a key
  Ttls,      \* the explicit TTLs, in time units
  Capacity,  \* MemoryStore's max_capacity
  PerMilli,  \* time units in a millisecond
  None,      \* no TTL given, no value
  MaxTime    \* bound: the last instant

ASSUME CacheAssumption ==
  /\ PerMilli \in Nat \ {0} /\ Capacity \in Nat /\ MaxTime \in Nat
  /\ Ttls \subseteq Nat /\ None \notin Nat \cup Task
  /\ Default \in [Handle -> Nat \cup {None}]
  /\ Prefix \in [Handle -> Seq(STRING)] /\ Key \subseteq Seq(STRING)

VARIABLES
  remote, \* the store: in Redis, or in this process
  now,    \* the clock
  entry,  \* the store's entries that have not expired, by full key
  task,   \* each task's operation and how far it is
  dead    \* history: the writes that a delete or clear found in the store, and by its
          \* Ok says are gone

vars == <<remote, now, entry, task, dead>>

Never == MaxTime + 1 + PerMilli  \* past every instant: no expiry
Idle  == [op |-> "none", at |-> "idle", cache |-> None, key |-> <<>>, ttl |-> None,
          left |-> {}, batch |-> {}, last |-> FALSE, old |-> {}]

Init ==
  /\ remote \in BOOLEAN
  /\ now = 0
  /\ entry = [k \in {} |-> 0]
  /\ task = [t \in Task |-> Idle]
  /\ dead = {}

\* full_key: Redis prefixes the key; a store in memory belongs to one handle.
FullKey(c, k) == (IF remote THEN Prefix[c] ELSE <<c>>) \o k

\* What the store holds under the prefix of handle c.
Mine(c) == {k \in DOMAIN entry : IsPrefix(FullKey(c, <<>>), k)}

\* The prefix has no character that means something in a pattern.
Plain(prefix) == \A i \in DOMAIN prefix : prefix[i] \notin {"*", "?", "[", "\\"}

\* clear's pattern is the prefix as it is, and a star. A store in memory has its own keys.
Matched(c, k) ==
  IF ~remote \/ Plain(Prefix[c]) THEN IsPrefix(FullKey(c, <<>>), k)
  ELSE Glob(Append(Prefix[c], "*"), k)

\* (Mutant) SCAN is not told to match the prefix.
OwnAll(c) == DOMAIN entry

\* The keys that clear takes for those of handle c.
Own(c) == {k \in DOMAIN entry : Matched(c, k)}

Target(t) == FullKey(task[t].cache, task[t].key)

\* A scan owes the caller every key that has been there all the time.
Lose(K) ==
  /\ entry' = [k \in DOMAIN entry \ K |-> entry[k]]
  /\ task' = [t \in Task |-> [task[t] EXCEPT !.left = @ \ K]]

\* How a call of the store ends for the caller, and whether it took effect.
Outcomes  == IF remote THEN {"ok", "lost", "failed"} ELSE {"ok"}
Effect(o) == o # "failed"
Over      == [Idle EXCEPT !.at = "over"]

-----------------------------------------------------------------------------
(* Time to live.                                                            *)

\* normalize_ttl: zero means never.
Normalize(ttl) == IF ttl = 0 THEN None ELSE ttl

\* The TTL of a write: the explicit one, or the default, which was normalized
\* when it was set.
TtlOf(t) ==
  IF task[t].ttl # None THEN Normalize(task[t].ttl)
  ELSE IF Default[task[t].cache] = None THEN None
  ELSE Normalize(Default[task[t].cache])

\* PX counts whole milliseconds and refuses zero; moka takes the duration as it is.
Lifetime(ttl) ==
  IF remote THEN PerMilli * (IF ttl < PerMilli THEN 1 ELSE ttl \div PerMilli) ELSE ttl

\* expire_after_create and expire_after_update; SET with or without PX.
Expiry(t) == IF TtlOf(t) = None THEN Never ELSE now + Lifetime(TtlOf(t))

-----------------------------------------------------------------------------
(* Operations.                                                              *)

\* A handler calls the cache: get, get_or_set, set or set_ttl, delete, clear.
Begin(t, op, c, k, ttl) ==
  /\ task[t].at = "idle"
  /\ op \notin {"get_or_set", "set"} => ttl = None
  /\ op = "clear" <=> k = <<>>
  /\ task' = [task EXCEPT ![t] =
       [Idle EXCEPT !.op = op, !.cache = c, !.key = k, !.ttl = ttl,
          !.at = CASE op \in {"get", "get_or_set"} -> "reading"
                   [] op = "set"    -> "writing"
                   [] op = "delete" -> "deleting"
                   [] op = "clear"  -> "scanning",
          !.left = IF op = "clear" /\ remote THEN Own(c) ELSE {},
          !.old = CASE op = "clear" -> {entry[x].by : x \in Mine(c)}
                    [] op = "delete" -> {entry[x].by : x \in DOMAIN entry \cap {FullKey(c, k)}}
                    [] OTHER -> {}]]
  /\ UNCHANGED <<remote, now, entry, dead>>

\* get, also as the first half of get_or_set, which computes on a miss only: an
\* error, also one of deserialization, ends it.
Read(t, o) ==
  /\ task[t].at = "reading"
  /\ task' = IF o = "ok" /\ task[t].op = "get_or_set" /\ Target(t) \notin DOMAIN entry
             THEN [task EXCEPT ![t].at = "computing"]
             ELSE [task EXCEPT ![t] = Over]
  /\ UNCHANGED <<remote, now, entry, dead>>

\* init runs; the task may also be dropped there.
Compute(t) ==
  /\ task[t].at = "computing"
  /\ \E after \in {[task[t] EXCEPT !.at = "writing"], Over} : task' = [task EXCEPT ![t] = after]
  /\ UNCHANGED <<remote, now, entry, dead>>

\* write: serialization may fail; then the store's set.
Write(t, o) ==
  /\ task[t].at = "writing"
  /\ \/ /\ Effect(o)
        /\ entry' = [k \in DOMAIN entry \cup {Target(t)} |->
             IF k = Target(t)
             THEN [by |-> t, owner |-> task[t].cache, expires |-> Expiry(t),
                   written |-> now, ttl |-> task[t].ttl]
             ELSE entry[k]]
     \/ UNCHANGED entry
  /\ task' = [task EXCEPT ![t] = Over]
  /\ UNCHANGED <<remote, now, dead>>

\* A delete or clear that returns Ok says that what it found is gone.
Claims(t) == {[write |-> u, op |-> task[t].op, cache |-> task[t].cache] : u \in task[t].old}

Forget(t, ok) == dead' = IF ok THEN dead \cup Claims(t) ELSE dead

\* The task t goes on after the keys K are gone.
Drop(t, K, after) ==
  /\ entry' = [k \in DOMAIN entry \ K |-> entry[k]]
  /\ task' = [x \in Task |-> IF x = t THEN after ELSE [task[x] EXCEPT !.left = @ \ K]]

Delete(t, o) ==
  /\ task[t].at = "deleting"
  /\ Drop(t, IF Effect(o) THEN {Target(t)} ELSE {}, Over)
  /\ Forget(t, o = "ok")
  /\ UNCHANGED <<remote, now>>

\* MemoryStore::clear: invalidate_all.
ClearLocal(t) ==
  /\ ~remote /\ task[t].at = "scanning"
  /\ Drop(t, Own(task[t].cache), Over)
  /\ Forget(t, TRUE)
  /\ UNCHANGED <<remote, now>>

\* (Mutant) An empty batch is taken for the end of the scan.
AtEndIfEmpty(batch, next) == batch = {}

\* Cursor 0 is the end of the scan.
AtEnd(batch, next) == next = 0

\* RedisStore::clear, one SCAN: a batch of keys that match, and the next cursor. No
\* DEL is sent for an empty batch.
Scan(t) ==
  /\ remote /\ task[t].at = "scanning"
  /\ \E batch \in SUBSET Own(task[t].cache), next \in {0, 1} :
       LET left == task[t].left \ batch
           last == AtEnd(batch, next)
       IN  /\ next = 0 => left = {}
           /\ task' = [task EXCEPT ![t] =
                IF batch = {} /\ last THEN Over
                ELSE [@ EXCEPT !.left = left, !.batch = batch, !.last = last,
                               !.at = IF batch = {} THEN "scanning" ELSE "unlinking"]]
           /\ Forget(t, batch = {} /\ last)
  /\ UNCHANGED <<remote, now, entry>>

\* The SCAN fails, and what is left stays.
ScanFails(t) ==
  /\ remote /\ task[t].at = "scanning"
  /\ task' = [task EXCEPT ![t] = Over]
  /\ UNCHANGED <<remote, now, entry, dead>>

\* RedisStore::clear, one DEL of a batch; the loop ends after the last.
Unlink(t, o) ==
  /\ task[t].at = "unlinking"
  /\ Drop(t, IF Effect(o) THEN task[t].batch ELSE {},
            IF o # "ok" \/ task[t].last THEN Over
            ELSE [task[t] EXCEPT !.at = "scanning", !.batch = {}, !.left = @ \ task[t].batch])
  /\ Forget(t, o = "ok" /\ task[t].last)
  /\ UNCHANGED <<remote, now>>

\* moka evicts when a store holds more than its capacity.
Evict(c) ==
  /\ ~remote /\ Cardinality(Own(c)) > Capacity
  /\ \E k \in Own(c) : Lose({k})
  /\ UNCHANGED <<remote, now, dead>>

\* Time passes; entries expire.
Tick ==
  /\ now < MaxTime
  /\ now' = now + 1
  /\ Lose({k \in DOMAIN entry : entry[k].expires <= now + 1})
  /\ UNCHANGED <<remote, dead>>

Ops == {"get", "get_or_set", "set", "delete", "clear"}

Next ==
  \/ \E t \in Task, op \in Ops, c \in Handle, k \in Key \cup {<<>>}, ttl \in Ttls \cup {None} :
       Begin(t, op, c, k, ttl)
  \/ \E t \in Task, o \in Outcomes :
       Read(t, o) \/ Write(t, o) \/ Delete(t, o) \/ Unlink(t, o)
  \/ \E t \in Task : Compute(t) \/ ClearLocal(t) \/ Scan(t) \/ ScanFails(t)
  \/ \E c \in Handle : Evict(c)
  \/ Tick

Spec == Init /\ [][Next]_vars

-----------------------------------------------------------------------------
(* Properties.                                                              *)

\* A key of handle c that its pattern misses, because the prefix has a bracket or a
\* backslash in it.
Overlooked(c, k) == remote /\ ~Plain(Prefix[c]) /\ ~Matched(c, k)

\* A value that was in the store when a delete or clear of it began is not there
\* once that has returned Ok, although keys are written, deleted and expire while
\* the scan goes on, batches may be empty, and calls of other tasks fail half way
\* (redis.rs:114, handle.rs:143). Only a clear in Redis through a prefix that is not
\* plain leaves keys, those that its own pattern misses.
Forgotten ==
  \A d \in dead, k \in DOMAIN entry :
    entry[k].by = d.write => d.op = "clear" /\ Overlooked(d.cache, k)

\* Neither prefix begins the other, so their keys cannot meet.
Apart(c, d) == ~IsPrefix(Prefix[c], Prefix[d]) /\ ~IsPrefix(Prefix[d], Prefix[c])

\* A task that clears through a prefix that is not plain, whose pattern matches k.
Reaches(t, k) ==
  task[t].op = "clear" /\ ~Plain(Prefix[task[t].cache]) /\ Matched(task[t].cache, k)

\* What another handle keeps in the same database is not touched by anything done
\* through this one (redis.rs:118, docs/17 "clear() removes only this cache's keys"),
\* unless it is a clear whose prefix is a pattern that matches the other's keys.
OthersUntouched ==
  [][\A k \in DOMAIN entry :
       \/ k \in DOMAIN entry' /\ entry'[k] = entry[k]
       \/ now' # now
       \/ \E t \in Task : /\ task'[t].at # task[t].at
                          /\ remote => ~Apart(task[t].cache, entry[k].owner) \/ Reaches(t, k)
                          /\ ~remote => task[t].cache = entry[k].owner
       \/ ~remote /\ \E c \in Handle : Evict(c)]_vars

=============================================================================
