---------------------------- MODULE ApplicationProofs ---------------------------
(****************************************************************************)
(* Proofs about Lifecycle, for any number of lifespans and hooks, and about  *)
(* Application, which takes its steps.                                       *)
(*                                                                           *)
(* The inductive invariant of the lifecycle says which lifespans are up at   *)
(* every stage: always an initial segment 1 .. k of them, with k fixed by    *)
(* the stage and the loop index. What the properties claim is read off it.   *)
(* An application whose lifespan loads the settings is one of these, so what *)
(* holds of every lifecycle holds of it; and its loads have the environment  *)
(* to themselves, however many there are, so each is explained by its own    *)
(* sources and the environment it was called in.                             *)
(****************************************************************************)
EXTENDS Application, SequenceTheorems, TLAPS

-----------------------------------------------------------------------------
(* What is up                                                               *)

\* Exactly the first k lifespans are up.
UpTo(k) == \A i \in Lifespan : cell[i] = "up" <=> i <= k

Exposed == {"building", "binding", "readying", "serving"}

\* Stages only one configuration reaches, and what is up without lifespans.
WithoutLifespans ==
  /\ stage \notin {"validating", "returned"} => config # "both"
  /\ stage = "rolling" => config = "lifespans"
  /\ stage = "validating" \/ config # "lifespans" => UpTo(0)
  /\ stage # "returned" => failed = "none"

\* What is up while the lifespans are started, used and stopped.
WithLifespans ==
  /\ stage = "starting" => next \in 1 .. N + 1 /\ UpTo(next - 1)
  /\ stage \in {"rolling", "stopping"} => next \in 0 .. N /\ UpTo(next)
  /\ stage \in Exposed => UpTo(N)
  /\ stage = "returned" /\ failed \in {"none", "validate", "startup"} => UpTo(0)
  /\ stage = "returned" /\ failed \in {"build", "bind", "ready"} => UpTo(N)

IInv == TypeOK /\ WithoutLifespans /\ (config = "lifespans" => WithLifespans)

-----------------------------------------------------------------------------

\* The invariant holds before validation: nothing is up.
LEMMA InitInv == Init => IInv
<1> SUFFICES ASSUME Init PROVE IInv
  OBVIOUS
<1>1. TypeOK
  BY DEF Init, TypeOK, Stages, Failures
<1>2. UpTo(0)
  BY LifespanAssumption DEF Init, UpTo, Lifespan
<1> QED BY <1>1, <1>2 DEF Init, IInv, WithoutLifespans, WithLifespans, Exposed

\* Every step of the life of an application keeps the invariant.
LEMMA NextInv == IInv /\ [Next]_app => IInv'
<1> SUFFICES ASSUME IInv, [Next]_app PROVE IInv'
  OBVIOUS
<1> USE LifespanAssumption, HookAssumption
    DEF IInv, TypeOK, WithoutLifespans, WithLifespans, UpTo, Lifespan, Exposed,
        Stages, Failures, fixed, Enter, Fail
<1>1. CASE Validate       BY <1>1 DEF Validate
<1>2. CASE StartLifespan
  <2>1. CASE cell' = [cell EXCEPT ![next] = "up"] /\ Enter("starting", next + 1)
    BY <1>2, <2>1 DEF StartLifespan
  <2>2. CASE Enter("rolling", next - 1) /\ UNCHANGED cell
    BY <1>2, <2>2 DEF StartLifespan
  <2> QED BY <1>2, <2>1, <2>2 DEF StartLifespan
<1>3. CASE RollBack       BY <1>3 DEF RollBack, Take
<1>4. CASE RolledBack     BY <1>4 DEF RolledBack
<1>5. CASE StartHook      BY <1>5 DEF StartHook
<1>6. CASE Started        BY <1>6 DEF Started
<1>7. CASE Build          BY <1>7 DEF Build
<1>8. CASE Bind           BY <1>8 DEF Bind
<1>9. CASE ReadyHook      BY <1>9 DEF ReadyHook
<1>10. CASE Serve         BY <1>10 DEF Serve
<1>11. CASE Signal        BY <1>11 DEF Signal
<1>12. CASE ServeEnds     BY <1>12 DEF ServeEnds
<1>13. CASE StopLifespan  BY <1>13 DEF StopLifespan, Take
<1>14. CASE StopHook      BY <1>14 DEF StopHook
<1>15. CASE Return        BY <1>15 DEF Return
<1>16. CASE UNCHANGED app BY <1>16 DEF app
<1> QED
  BY <1>1, <1>2, <1>3, <1>4, <1>5, <1>6, <1>7, <1>8, <1>9, <1>10, <1>11, <1>12,
     <1>13, <1>14, <1>15, <1>16
  DEF Next, Boot, Teardown

\* The inductive invariant holds in every reachable state.
THEOREM Inductive == Spec => []IInv
BY InitInv, NextInv, PTL DEF Spec

\* Every variable keeps its type, so the loop index never leaves the naturals.
THEOREM TypeCorrect == Spec => []TypeOK
<1>1. IInv => TypeOK
  BY DEF IInv
<1> QED BY <1>1, Inductive, PTL

\* Lifespans come down in the reverse of the order they came up, for any number
\* of them, through rollback and shutdown (run_startup, run_shutdown).
THEOREM ReverseOrderHolds == Spec => []ReverseOrder
<1>1. IInv => ReverseOrder
  BY LifespanAssumption
  DEF IInv, TypeOK, WithoutLifespans, WithLifespans, UpTo, Lifespan, Exposed, Stages,
      Failures, ReverseOrder
<1> QED BY <1>1, Inductive, PTL

\* The socket is bound, and requests are served, only with every lifespan up.
THEOREM ServingMeansStartedHolds == Spec => []ServingMeansStarted
<1>1. IInv => ServingMeansStarted
  BY LifespanAssumption
  DEF IInv, WithoutLifespans, WithLifespans, UpTo, Lifespan, Exposed,
      ServingMeansStarted
<1> QED BY <1>1, Inductive, PTL

\* A serve that ran to its end, or failed in startup, leaves no container up.
THEOREM CleanReturnHolds == Spec => []CleanReturn
<1>1. IInv => CleanReturn
  BY LifespanAssumption
  DEF IInv, TypeOK, WithoutLifespans, WithLifespans, UpTo, Lifespan, Exposed,
      CleanReturn
<1> QED BY <1>1, Inductive, PTL

applicationVars == <<app, settings>>

-----------------------------------------------------------------------------
(* The lifecycle *)

\* Loading settings adds nothing to the life of an application: each step is one of
\* module Lifecycle or leaves its variables alone.
THEOREM ApplicationImplementsLifecycle == ApplicationSpec => Spec
<1>1. ApplicationInit => Init
  BY DEF ApplicationInit
<1>2. [ApplicationNext]_applicationVars => [Next]_app
  <2> SUFFICES ASSUME [ApplicationNext]_applicationVars PROVE [Next]_app
    OBVIOUS
  <2>1. CASE \E l \in Loader : CallLoad(l) \/ Load(l)
    BY <2>1 DEF CallLoad, Load
  <2>2. CASE StartLoaded
    BY <2>2 DEF StartLoaded, Next, Boot
  <2>3. CASE Lives
    BY <2>3 DEF Lives, Next, Boot
  <2>4. CASE UNCHANGED applicationVars
    BY <2>4 DEF applicationVars
  <2> QED
    BY <2>1, <2>2, <2>3, <2>4 DEF ApplicationNext
<1> QED
  BY <1>1, <1>2, PTL DEF ApplicationSpec, Spec, applicationVars

\* Also with a load of settings that may fail in the middle of startup, a lifespan that
\* is up has those before it up (run_startup, run_shutdown).
THEOREM ApplicationReverseOrder == ApplicationSpec => []ReverseOrder
  BY ApplicationImplementsLifecycle, ReverseOrderHolds, PTL

\* A failed load leaves no lifespan up (run_startup).
THEOREM ApplicationCleanReturn == ApplicationSpec => []CleanReturn
  BY ApplicationImplementsLifecycle, CleanReturnHolds, PTL

-----------------------------------------------------------------------------
(* The environment lock *)

Holding == {"dotenv", "files", "secrets"}

\* The records of the loads, and their fields.
LoadShape ==
  /\ DOMAIN load = Loader
  /\ \A l \in Loader :
       DOMAIN load[l] = {"at", "seen", "lines", "files", "broken", "value", "secrets", "result"}

\* A load is under way only while it holds the lock (settings.rs:191).
LockOwned == \A l \in Loader : load[l].at \in Holding => holder = l

LockInv == LoadShape /\ LockOwned

LEMMA LockInvInit == ApplicationInit => LockInv
  BY DEF ApplicationInit, SettingsInit, NewLoad, LockInv, LoadShape, LockOwned, Holding

\* A step of a load changes the phase of that load only.
LEMMA LoadingKeepsLock ==
  ASSUME LockInv, NEW l \in Loader, Loading(l)
  PROVE  LockInv'
<1> USE DEF LockInv, LoadShape
<1>1. CASE ReadLine(l)
  <2>1. load'[l].at = "dotenv" /\ load[l].at = "dotenv" /\ holder' = holder
    BY <1>1 DEF ReadLine
  <2>2. LoadShape' /\ \A k \in Loader \ {l} : load'[k] = load[k]
    BY <1>1 DEF ReadLine
  <2> QED
    BY <2>1, <2>2 DEF LockOwned, Holding
<1>2. CASE ResolveFiles(l)
  <2>1. load[l].at = "dotenv" /\ holder' = holder
    BY <1>2 DEF ResolveFiles
  <2>2. LoadShape' /\ \A k \in Loader \ {l} : load'[k] = load[k]
    BY <1>2 DEF ResolveFiles
  <2> QED
    BY <2>1, <2>2 DEF LockOwned, Holding
<1>3. CASE MergeFile(l)
  <2>1. load[l].at = "files" /\ holder' = holder
    BY <1>3 DEF MergeFile
  <2>2. LoadShape' /\ \A k \in Loader \ {l} : load'[k] = load[k]
    BY <1>3 DEF MergeFile
  <2> QED
    BY <2>1, <2>2 DEF LockOwned, Holding
<1>4. CASE MergeEnv(l)
  <2>1. load[l].at = "files" /\ holder' = holder
    BY <1>4 DEF MergeEnv
  <2>2. LoadShape' /\ \A k \in Loader \ {l} : load'[k] = load[k]
    BY <1>4 DEF MergeEnv
  <2> QED
    BY <2>1, <2>2 DEF LockOwned, Holding
<1>5. CASE ReadSecret(l)
  <2>1. load[l].at = "secrets" /\ holder' = holder
    BY <1>5 DEF ReadSecret
  <2>2. LoadShape' /\ \A k \in Loader \ {l} : load'[k] = load[k]
    BY <1>5 DEF ReadSecret
  <2> QED
    BY <2>1, <2>2 DEF LockOwned, Holding
<1>6. CASE Finish(l)
  <2>1. load[l].at = "secrets" /\ load'[l].at = "done"
    BY <1>6 DEF Finish
  <2>2. LoadShape' /\ \A k \in Loader \ {l} : load'[k] = load[k]
    BY <1>6 DEF Finish
  <2>3. \A k \in Loader \ {l} : load[k].at \notin Holding
    BY <2>1 DEF LockOwned, Holding
  <2> QED
    BY <2>1, <2>2, <2>3 DEF LockOwned, Holding
<1> QED
  BY <1>1, <1>2, <1>3, <1>4, <1>5, <1>6 DEF Loading

LEMMA AcquireKeepsLock ==
  ASSUME LockInv, NEW l \in Loader, Acquire(l)
  PROVE  LockInv'
<1> USE DEF LockInv, LoadShape
<1>1. holder' = l /\ \A k \in Loader : load[k].at \notin Holding
  BY UnsetAssumption DEF Acquire, Free, LockOwned
<1>2. LoadShape' /\ \A k \in Loader \ {l} : load'[k] = load[k]
  BY DEF Acquire
<1> QED
  BY <1>1, <1>2 DEF LockOwned

LEMMA LockInvStep ==
  ASSUME LockInv, [ApplicationNext]_applicationVars
  PROVE  LockInv'
<1>1. CASE \E l \in Loader : CallLoad(l) \/ Load(l)
  BY <1>1, AcquireKeepsLock, LoadingKeepsLock DEF CallLoad, Load
<1>2. CASE UNCHANGED settings
  BY <1>2 DEF settings, LockInv, LoadShape, LockOwned
<1> QED
  BY <1>1, <1>2 DEF ApplicationNext, StartLoaded, Lives, applicationVars

\* While one load is under way no other is (env.rs:3).
THEOREM LoadsExcludeOneAnother ==
  ApplicationSpec => [](\A k, l \in Loader :
    load[k].at \in Holding /\ load[l].at \in Holding => k = l)
<1>1. LockInv => \A k, l \in Loader : load[k].at \in Holding /\ load[l].at \in Holding => k = l
  BY DEF LockInv, LockOwned
<1> QED
  BY <1>1, LockInvInit, LockInvStep, PTL DEF ApplicationSpec, applicationVars

\* From the moment a load has resolved the name of the environment until it returns, no
\* variable changes: the files and the variables it merges belong together.
THEOREM EnvironmentStill ==
  ApplicationSpec =>
    [][\A l \in Loader : load[l].at \in {"files", "secrets"} => UNCHANGED env]_applicationVars
<1>1. LockInv /\ [ApplicationNext]_applicationVars =>
        [\A l \in Loader : load[l].at \in {"files", "secrets"} => UNCHANGED env]_applicationVars
  <2> SUFFICES ASSUME LockInv, ApplicationNext, NEW l \in Loader,
                      load[l].at \in {"files", "secrets"}
               PROVE  UNCHANGED env
    OBVIOUS
  <2>1. CASE \E k \in Loader : CallLoad(k)
    BY <2>1 DEF CallLoad, Acquire
  <2>2. CASE \E k \in Loader : Load(k)
    <3> PICK k \in Loader : Loading(k)
      BY <2>2 DEF Load
    <3>1. ~ReadLine(k)
      BY DEF LockInv, LockOwned, Holding, ReadLine
    <3> QED
      BY <3>1 DEF Loading, ResolveFiles, MergeFile, MergeEnv, ReadSecret, Finish
  <2>3. CASE StartLoaded \/ Lives
    BY <2>3 DEF StartLoaded, Lives, settings
  <2> QED
    BY <2>1, <2>2, <2>3 DEF ApplicationNext
<1> QED
  BY <1>1, LockInvInit, LockInvStep, PTL DEF ApplicationSpec, applicationVars

-----------------------------------------------------------------------------
(* What a load merges *)

\* t is what is left of the sequence s after k elements.
Left(s, k, t) ==
  t \in Seq(Range(s)) /\ Len(t) = Len(s) - k /\ \A i \in 1 .. Len(t) : t[i] = s[k + i]

\* The first k lines of the `.env` file, read when it was `seen`, leave v at x.
Told(l, seen, k, v, x) ==
  LET lines == Declared[l].dotenv IN
    \/ x = seen[v] /\ (x # Unset \/ \A i \in 1 .. k : lines[i].name # v)
    \/ /\ seen[v] = Unset
       /\ \E i \in 1 .. k : /\ lines[i].name = v /\ x = lines[i].value
                            /\ \A j \in 1 .. i - 1 : lines[j].name # v

\* x is a value of the highest source from lo to hi that gives field f one, or Unset.
Highest(from, lo, hi, f, x) ==
  \/ x = Unset /\ \A i \in lo .. hi : from[i][f] = {}
  \/ /\ x # Unset
     /\ \E i \in lo .. hi : x \in from[i][f] /\ \A j \in i + 1 .. hi : from[j][f] = {}

\* Load x of l in environment e reads its `.env` file.
Reads(l, x, e) ==
  LET lines == Declared[l].dotenv IN
    /\ x.value = Nothing /\ x.broken = FALSE
    /\ \E k \in 0 .. Len(lines) :
         /\ \A i \in 1 .. k : lines[i] # Malformed
         /\ \/ Left(lines, k, x.lines)
            \/ x.lines = <<>> /\ k < Len(lines) /\ lines[k + 1] = Malformed
         /\ \A v \in Variable : Told(l, x.seen, k, v, e[v])

FilesIn(l, e) == Files(l, EnvironmentName(l, e))

\* It merges its files.
Merges(l, x, e) ==
  \E k \in 0 .. Len(FilesIn(l, e)) :
    /\ Left(FilesIn(l, e), k, x.files)
    /\ x.broken <=> \E i \in 1 .. k : FilesIn(l, e)[i] = Malformed
    /\ ~x.broken => \A f \in Field : Highest(Sources(l, e), 2, k + 1, f, x.value[f])

\* It reads its secrets: those of the k sources below are merged.
Seeks(l, x, e) ==
  LET n == Len(FilesIn(l, e)) + 2
      read == Declared[l].secrets \ x.secrets IN
    /\ x.secrets \subseteq Declared[l].secrets
    /\ x.broken <=> \E i \in DOMAIN FilesIn(l, e) : FilesIn(l, e)[i] = Malformed
    /\ ~x.broken => \A f \in Field :
         \/ \E s \in read : s.key = f /\ x.value[f] = s.value
         \/ (\A s \in read : s.key # f) /\ Highest(Sources(l, e), 2, n, f, x.value[f])

IsLayer(layer) == layer = [f \in Field |-> layer[f]]

\* What is true of load x of l while the environment is e.
Sound(l, x, e) ==
  /\ x.at = "idle" => x.value = Nothing /\ x.broken = FALSE
  /\ x.at = "dotenv" => Reads(l, x, e)
  /\ x.at \in {"files", "secrets"} => e = Alone(l, x.seen) /\ IsLayer(x.value)
  /\ x.at = "files" => Merges(l, x, e)
  /\ x.at = "secrets" => Seeks(l, x, e)
  /\ x.at = "done" => Explained(l, Alone(l, x.seen), x.result)

LoadInv ==
  /\ LockInv
  /\ env = [v \in Variable |-> env[v]]
  /\ \A l \in Loader : Sound(l, load[l], env)

\* Before anything is taken all is left.
LEMMA LeftAll ==
  ASSUME NEW s, s \in Seq(Range(s))
  PROVE  Left(s, 0, s)
  BY DEF Left

\* What is left after one more element is the tail.
LEMMA LeftTail ==
  ASSUME NEW s, s \in Seq(Range(s)), NEW k \in 0 .. Len(s), NEW t, Left(s, k, t)
  PROVE  /\ t = <<>> => k = Len(s)
         /\ t # <<>> => k + 1 \in 1 .. Len(s) /\ Head(t) = s[k + 1] /\ Left(s, k + 1, Tail(t))
<1>1. t \in Seq(Range(s)) /\ Len(t) = Len(s) - k /\ \A i \in 1 .. Len(t) : t[i] = s[k + i]
  BY DEF Left
<1>2. PICK n \in Nat : n = Len(s) /\ k \in 0 .. n
  OBVIOUS
<1>3. CASE t = <<>>
  BY <1>1, <1>2, <1>3
<1>4. CASE t # <<>>
  <2>1. /\ Len(t) = n - k /\ n - k \in Nat /\ n - k >= 1
        /\ Head(t) = t[1] /\ Tail(t) \in Seq(Range(s)) /\ Len(Tail(t)) = Len(t) - 1
        /\ \A i \in 1 .. Len(t) - 1 : Tail(t)[i] = t[i + 1]
    BY <1>1, <1>2, <1>4
  <2>2. \A i \in 1 .. n - k - 1 : i + 1 \in 1 .. n - k /\ k + (i + 1) = (k + 1) + i
    BY <1>2
  <2>3. \A i \in 1 .. n - k - 1 : Tail(t)[i] = s[(k + 1) + i]
    BY <1>1, <2>1, <2>2
  <2>4. Len(Tail(t)) = n - (k + 1) /\ 1 .. Len(Tail(t)) = 1 .. n - k - 1
    BY <1>2, <2>1
  <2>5. Left(s, k + 1, Tail(t))
    BY <1>2, <2>1, <2>3, <2>4 DEF Left
  <2> QED
    BY <1>1, <1>2, <1>4, <2>1, <2>5
<1> QED
  BY <1>3, <1>4

\* A source above those merged so far.
LEMMA Raised ==
  ASSUME NEW from, NEW lo \in Nat, NEW hi \in Nat, lo <= hi + 1, NEW f, NEW x, NEW y,
         Highest(from, lo, hi, f, x), from[hi + 1][f] = {y} \ {Unset}
  PROVE  Highest(from, lo, hi + 1, f, IF y = Unset THEN x ELSE y)
<1>1. CASE y = Unset
  <2>1. from[hi + 1][f] = {}
    BY <1>1
  <2>2. CASE x = Unset /\ \A i \in lo .. hi : from[i][f] = {}
    BY <1>1, <2>1, <2>2 DEF Highest
  <2>3. CASE /\ x # Unset
             /\ \E i \in lo .. hi : x \in from[i][f] /\ \A j \in i + 1 .. hi : from[j][f] = {}
    <3> PICK i \in lo .. hi : x \in from[i][f] /\ \A j \in i + 1 .. hi : from[j][f] = {}
      BY <2>3
    <3>1. i \in lo .. hi + 1 /\ \A j \in i + 1 .. hi + 1 : from[j][f] = {}
      BY <2>1
    <3> QED
      BY <1>1, <2>3, <3>1 DEF Highest
  <2> QED
    BY <2>2, <2>3 DEF Highest
<1>2. CASE y # Unset
  <2>1. y \in from[hi + 1][f] /\ hi + 1 \in lo .. hi + 1 /\ (hi + 1) + 1 .. hi + 1 = {}
    BY <1>2
  <2> QED
    BY <1>2, <2>1 DEF Highest
<1> QED
  BY <1>1, <1>2

\* A source below them all.
LEMMA Lowered ==
  ASSUME NEW from, NEW hi \in Nat, hi >= 2, NEW f, NEW x, NEW y,
         Highest(from, 2, hi, f, x), from[1][f] = {y} \ {Unset}
  PROVE  Highest(from, 1, hi, f, IF x = Unset THEN y ELSE x)
<1>1. CASE x = Unset
  <2>1. \A i \in 2 .. hi : from[i][f] = {}
    BY <1>1 DEF Highest
  <2>2. CASE y = Unset
    <3>1. \A i \in 1 .. hi : from[i][f] = {}
      BY <2>1, <2>2
    <3> QED
      BY <1>1, <2>2, <3>1 DEF Highest
  <2>3. CASE y # Unset
    <3>1. 1 \in 1 .. hi /\ y \in from[1][f] /\ \A j \in 1 + 1 .. hi : from[j][f] = {}
      BY <2>1, <2>3
    <3> QED
      BY <1>1, <2>3, <3>1 DEF Highest
  <2> QED
    BY <2>2, <2>3
<1>2. CASE x # Unset
  <2> PICK i \in 2 .. hi : x \in from[i][f] /\ \A j \in i + 1 .. hi : from[j][f] = {}
    BY <1>2 DEF Highest
  <2>1. i \in 1 .. hi
    OBVIOUS
  <2> QED
    BY <1>2, <2>1 DEF Highest
<1> QED
  BY <1>1, <1>2

\* One more line: the variable it names is set if it has no value.
LEMMA ToldNext ==
  ASSUME NEW l \in Loader, NEW seen, NEW k \in Nat, k + 1 \in DOMAIN Declared[l].dotenv,
         Declared[l].dotenv[k + 1] # Malformed, NEW v, NEW x, Told(l, seen, k, v, x),
         \A i \in 1 .. k : Declared[l].dotenv[i].value # Unset
  PROVE  Told(l, seen, k + 1, v,
              IF Declared[l].dotenv[k + 1].name = v /\ x = Unset
              THEN Declared[l].dotenv[k + 1].value ELSE x)
<1> DEFINE lines == Declared[l].dotenv
<1>0. 1 .. k + 1 = (1 .. k) \cup {k + 1}
  OBVIOUS
<1>1. CASE x = seen[v] /\ x # Unset
  BY <1>1 DEF Told
<1>2. CASE x = seen[v] /\ x = Unset /\ \A i \in 1 .. k : lines[i].name # v
  <2>1. CASE lines[k + 1].name = v
    <3>1. k + 1 \in 1 .. k + 1 /\ (k + 1) - 1 = k
      OBVIOUS
    <3> QED
      BY <1>2, <2>1, <3>1 DEF Told
  <2>2. CASE lines[k + 1].name # v
    BY <1>0, <1>2, <2>2 DEF Told
  <2> QED
    BY <2>1, <2>2
<1>3. CASE /\ seen[v] = Unset
           /\ \E i \in 1 .. k : /\ lines[i].name = v /\ x = lines[i].value
                                /\ \A j \in 1 .. i - 1 : lines[j].name # v
  <2>1. x # Unset
    BY <1>3
  <2> QED
    BY <1>0, <1>3, <2>1 DEF Told
<1> QED
  BY <1>1, <1>2, <1>3 DEF Told

\* When the `.env` file is read the environment is as a load by itself leaves it.
LEMMA ReadAlone ==
  ASSUME NEW l \in Loader, NEW x, NEW e, e = [v \in Variable |-> e[v]],
         Reads(l, x, e), x.lines = <<>>
  PROVE  e = Alone(l, x.seen)
<1> DEFINE lines == Declared[l].dotenv
           read  == {i \in DOMAIN lines : \A j \in 1 .. i : lines[j] # Malformed}
           sets(v) == {i \in read : lines[i].name = v}
           then(v) == IF x.seen[v] # Unset \/ sets(v) = {} THEN x.seen[v]
                      ELSE lines[CHOOSE i \in sets(v) : \A j \in sets(v) : i <= j].value
<1>1. lines \in Seq(Range(lines))
  BY DeclaredAssumption
<1>2. PICK k \in 0 .. Len(lines) :
        /\ \A i \in 1 .. k : lines[i] # Malformed
        /\ \/ Left(lines, k, x.lines)
           \/ x.lines = <<>> /\ k < Len(lines) /\ lines[k + 1] = Malformed
        /\ \A v \in Variable : Told(l, x.seen, k, v, e[v])
  BY DEF Reads
<1>3. k = Len(lines) \/ (k < Len(lines) /\ lines[k + 1] = Malformed)
  <2>1. CASE Left(lines, k, x.lines)
    <3>1. Len(x.lines) = 0 /\ Len(x.lines) = Len(lines) - k /\ Len(lines) \in Nat
      BY <1>1, <2>1 DEF Left
    <3>2. PICK n \in Nat : n = Len(lines) /\ k \in 0 .. n
      BY <3>1
    <3>3. k = n
      BY <3>1, <3>2
    <3> QED
      BY <3>2, <3>3
  <2> QED
    BY <1>2, <2>1
<1>4. read = 1 .. k
  <2>1. PICK n \in Nat : n = Len(lines) /\ DOMAIN lines = 1 .. n /\ k \in 0 .. n
    BY <1>1
  <2>2. \A i \in 1 .. n : i > k => k < n /\ k + 1 \in 1 .. i
    BY <2>1
  <2>3. \A i \in 1 .. n : i > k => i \notin read
    BY <1>3, <2>1, <2>2
  <2>4. \A i \in 1 .. k : i \in 1 .. n /\ \A j \in 1 .. i : j \in 1 .. k
    BY <2>1
  <2>5. \A i \in 1 .. k : i \in read
    BY <1>2, <2>1, <2>4
  <2> QED
    BY <2>1, <2>3, <2>5
<1>5. ASSUME NEW v \in Variable PROVE e[v] = then(v)
  <2>1. \A i : i \in sets(v) <=> i \in 1 .. k /\ lines[i].name = v
    BY <1>4
  <2> HIDE DEF sets
  <2>2. CASE e[v] = x.seen[v] /\ e[v] # Unset
    BY <2>2
  <2>3. CASE e[v] = x.seen[v] /\ \A i \in 1 .. k : lines[i].name # v
    BY <2>1, <2>3
  <2>4. CASE /\ x.seen[v] = Unset
             /\ \E i \in 1 .. k : /\ lines[i].name = v /\ e[v] = lines[i].value
                                  /\ \A j \in 1 .. i - 1 : lines[j].name # v
    <3> PICK i \in 1 .. k : /\ lines[i].name = v /\ e[v] = lines[i].value
                            /\ \A j \in 1 .. i - 1 : lines[j].name # v
      BY <2>4
    <3>1. i \in sets(v) /\ \A j \in sets(v) : i <= j
      BY <2>1
    <3>2. \A h \in sets(v) : (\A j \in sets(v) : h <= j) => h = i
      BY <2>1, <3>1
    <3>3. (CHOOSE h \in sets(v) : \A j \in sets(v) : h <= j) = i
      BY <3>1, <3>2
    <3> QED
      BY <2>4, <3>1, <3>3
  <2> QED
    BY <1>2, <2>2, <2>3, <2>4 DEF Told
<1>6. Alone(l, x.seen) = [v \in Variable |-> then(v)]
  BY DEF Alone
<1> QED
  BY <1>5, <1>6

\* What a layer, and the secrets, offer the fields.
Offers(layer) == [f \in Field |-> {layer[f]} \ {Unset}]

SecretsOf(l) == [f \in Field |-> {s.value : s \in {s \in Declared[l].secrets : s.key = f}}]

\* The base file is always among the files.
LEMMA FilesAre ==
  ASSUME NEW l \in Loader, NEW e
  PROVE  FilesIn(l, e) \in Seq(Range(FilesIn(l, e))) /\ Len(FilesIn(l, e)) \in Nat \ {0}
<1> DEFINE of == Declared[l].files
           name == EnvironmentName(l, e)
           named == [i \in DOMAIN of |-> of[i][name]]
           S == {Declared[l].config_file} \cup Range(named)
<1>1. of \in Seq(Range(of))
  BY DeclaredAssumption
<1>2. named \in Seq(S) /\ <<Declared[l].config_file>> \in Seq(S)
  <2>1. PICK n \in Nat : DOMAIN of = 1 .. n
    BY <1>1
  <2>2. \A i \in DOMAIN of : of[i][name] \in S
    BY DEF Range
  <2>3. named = [i \in 1 .. n |-> named[i]] /\ \A i \in 1 .. n : named[i] \in S
    BY <2>1, <2>2
  <2>4. Declared[l].config_file \in S
    OBVIOUS
  <2> HIDE DEF S, of, named
  <2> QED
    BY <2>3, <2>4
<1>3. FilesIn(l, e) = <<Declared[l].config_file>> \o named
  BY DEF FilesIn, Files
<1> HIDE DEF S, named
<1>4. FilesIn(l, e) \in Seq(S) /\ Len(FilesIn(l, e)) \in Nat \ {0}
  BY <1>2, <1>3
<1> QED
  BY <1>4 DEF Range

\* The sources, by their places.
LEMMA SourcesAre ==
  ASSUME NEW l \in Loader, NEW e, NEW m \in Nat, m = Len(FilesIn(l, e))
  PROVE  /\ DOMAIN Sources(l, e) = 1 .. m + 4
         /\ Sources(l, e)[1] = Offers(Declared[l].defaults)
         /\ \A i \in 1 .. m : Sources(l, e)[i + 1] = Offers(FilesIn(l, e)[i])
         /\ Sources(l, e)[m + 2] = Offers(Provided(l, e))
         /\ Sources(l, e)[m + 3] = SecretsOf(l)
         /\ Sources(l, e)[m + 4] = Offers(Declared[l].overrides)
<1> DEFINE F == FilesIn(l, e)
           given == [i \in DOMAIN F |-> Offers(F[i])]
           top == <<Offers(Provided(l, e)), SecretsOf(l), Offers(Declared[l].overrides)>>
           base == <<Offers(Declared[l].defaults)>>
           S == Range(base) \cup Range(given) \cup Range(top)
<1>1. Sources(l, e) = base \o given \o top
  BY DEF Sources, Offers, SecretsOf, FilesIn
<1>2. DOMAIN F = 1 .. m
  BY FilesAre
<1>3. given \in Seq(S) /\ Len(given) = m /\ \A i \in 1 .. m : given[i] = Offers(F[i])
  <2>1. \A i \in 1 .. m : Offers(F[i]) \in S
    BY <1>2 DEF Range
  <2> HIDE DEF S, F
  <2> QED
    BY <1>2, <2>1
<1>4. base \in Seq(S) /\ Len(base) = 1 /\ base[1] = Offers(Declared[l].defaults)
  BY DEF Range
<1>5. /\ top \in Seq(S) /\ Len(top) = 3 /\ top[1] = Offers(Provided(l, e))
      /\ top[2] = SecretsOf(l) /\ top[3] = Offers(Declared[l].overrides)
  BY DEF Range
<1> HIDE DEF S, given, top, base, F
<1>6. PICK T, lowest, middle, highest :
        T = S /\ lowest = base /\ middle = given /\ highest = top
  OBVIOUS
<1>7. /\ lowest \in Seq(T) /\ Len(lowest) = 1 /\ middle \in Seq(T) /\ Len(middle) = m
      /\ highest \in Seq(T) /\ Len(highest) = 3
  BY <1>3, <1>4, <1>5, <1>6
<1>8. PICK low :
        /\ low = lowest \o middle /\ low \in Seq(T) /\ Len(low) = 1 + m
        /\ \A i \in 1 .. 1 + m : low[i] = IF i <= 1 THEN lowest[i] ELSE middle[i - 1]
  <2>1. /\ lowest \o middle \in Seq(T)
        /\ Len(lowest \o middle) = Len(lowest) + Len(middle)
        /\ \A i \in 1 .. Len(lowest) + Len(middle) :
             (lowest \o middle)[i] = IF i <= Len(lowest) THEN lowest[i]
                                     ELSE middle[i - Len(lowest)]
    BY <1>7, ConcatProperties
  <2>2. PICK low : low = lowest \o middle
    OBVIOUS
  <2>3. /\ low \in Seq(T) /\ Len(low) = Len(lowest) + Len(middle)
        /\ \A i \in 1 .. Len(lowest) + Len(middle) :
             low[i] = IF i <= Len(lowest) THEN lowest[i] ELSE middle[i - Len(lowest)]
    BY <2>1, <2>2, Zenon
  <2>4. \A i \in 1 .. 1 + m : low[i] = IF i <= 1 THEN lowest[i] ELSE middle[i - 1]
    BY <1>7, <2>3
  <2> QED
    BY <1>7, <2>2, <2>3, <2>4
<1>9. PICK n \in Nat : n = 1 + m /\ n = Len(low) /\ low \in Seq(T)
  BY <1>8
<1>10. PICK all :
        /\ all = low \o highest /\ DOMAIN all = 1 .. n + 3
        /\ \A i \in 1 .. n + 3 : all[i] = IF i <= n THEN low[i] ELSE highest[i - n]
  <2>1. /\ low \o highest \in Seq(T)
        /\ Len(low \o highest) = Len(low) + Len(highest)
        /\ \A i \in 1 .. Len(low) + Len(highest) :
             (low \o highest)[i] = IF i <= Len(low) THEN low[i] ELSE highest[i - Len(low)]
    <3>1. low \in Seq(T) /\ highest \in Seq(T)
      BY <1>7, <1>9
    <3> QED
      BY <3>1, ConcatProperties
  <2>2. PICK all : all = low \o highest
    OBVIOUS
  <2>3. /\ all \in Seq(T) /\ Len(all) = Len(low) + Len(highest)
        /\ \A i \in 1 .. Len(low) + Len(highest) :
             all[i] = IF i <= Len(low) THEN low[i] ELSE highest[i - Len(low)]
    BY <2>1, <2>2, Zenon
  <2>4. DOMAIN all = 1 .. n + 3
    BY <1>7, <1>9, <2>3
  <2>5. \A i \in 1 .. n + 3 : all[i] = IF i <= n THEN low[i] ELSE highest[i - n]
    BY <1>7, <1>9, <2>3
  <2> QED
    BY <2>2, <2>4, <2>5
<1>11. all[1] = lowest[1] /\ \A i \in 1 .. m : all[i + 1] = middle[i]
  <2>1. /\ 1 \in 1 .. n /\ 1 \in 1 .. n + 3
        /\ \A i \in 1 .. m : i + 1 \in 1 .. n /\ i + 1 \in 1 .. n + 3
                           /\ i + 1 > 1 /\ (i + 1) - 1 = i
    BY <1>9
  <2>2. /\ \A i \in 1 .. n : low[i] = IF i <= 1 THEN lowest[i] ELSE middle[i - 1]
        /\ \A i \in 1 .. n + 3 : i <= n => all[i] = low[i]
    BY <1>8, <1>9, <1>10
  <2> QED
    BY <2>1, <2>2
<1>12. all[m + 2] = highest[1] /\ all[m + 3] = highest[2] /\ all[m + 4] = highest[3]
  <2>1. /\ m + 2 = n + 1 /\ m + 3 = n + 2 /\ m + 4 = n + 3
        /\ \A i \in 1 .. 3 : n + i \in 1 .. n + 3 /\ n + i > n /\ (n + i) - n = i
        /\ 1 \in 1 .. 3 /\ 2 \in 1 .. 3 /\ 3 \in 1 .. 3
    BY <1>9
  <2>2. \A i \in 1 .. n + 3 : i > n => all[i] = highest[i - n]
    BY <1>9, <1>10
  <2>3. all[n + 1] = highest[1] /\ all[n + 2] = highest[2] /\ all[n + 3] = highest[3]
    BY <2>1, <2>2
  <2> QED
    BY <2>1, <2>3
<1>13. DOMAIN all = 1 .. m + 4
  BY <1>9, <1>10
<1>14. Sources(l, e) = all
  BY <1>1, <1>6, <1>8, <1>10
<1> QED
  BY <1>3, <1>4, <1>5, <1>6, <1>11, <1>12, <1>13, <1>14 DEF F

-----------------------------------------------------------------------------
(* What each step of a load makes of it *)

\* The next line: from then on the environment has been told one more of them.
LEMMA ReadsLine ==
  ASSUME NEW l \in Loader, NEW x, NEW y, NEW e, NEW d, e = [v \in Variable |-> e[v]],
         Reads(l, x, e), x.lines # <<>>,
         y.seen = x.seen, y.value = x.value, y.broken = x.broken,
         NEW line, line = Head(x.lines),
         \/ line = Malformed /\ y.lines = <<>> /\ d = e
         \/ /\ line # Malformed /\ y.lines = Tail(x.lines)
            /\ d = [e EXCEPT ![line.name] = IF @ = Unset THEN line.value ELSE @]
  PROVE  Reads(l, y, d)
<1> DEFINE lines == Declared[l].dotenv
<1>1. /\ lines \in Seq(Range(lines))
      /\ \A i \in DOMAIN lines : lines[i] # Malformed => lines[i].value # Unset
  BY DeclaredAssumption
<1>2. PICK k \in 0 .. Len(lines) :
        /\ \A i \in 1 .. k : lines[i] # Malformed
        /\ Left(lines, k, x.lines)
        /\ \A v \in Variable : Told(l, x.seen, k, v, e[v])
  BY DEF Reads
<1>3. k + 1 \in 1 .. Len(lines) /\ line = lines[k + 1] /\ Left(lines, k + 1, Tail(x.lines))
  <2> HIDE DEF lines
  <2> QED
    BY <1>1, <1>2, LeftTail
<1>4. PICK n \in Nat : n = Len(lines) /\ k \in 0 .. n /\ k + 1 \in 1 .. n /\ DOMAIN lines = 1 .. n
  BY <1>1, <1>2, <1>3
<1>5. CASE line = Malformed
  <2>1. k < n /\ y.lines = <<>> /\ d = e
    BY <1>4, <1>5
  <2> QED
    BY <1>2, <1>3, <1>4, <1>5, <2>1 DEF Reads
<1>6. CASE line # Malformed
  <2>1. y.lines = Tail(x.lines) /\ d = [e EXCEPT ![line.name] = IF @ = Unset THEN line.value ELSE @]
    BY <1>6
  <2>2. ASSUME NEW v \in Variable PROVE Told(l, y.seen, k + 1, v, d[v])
    <3>1. d[v] = IF line.name = v /\ e[v] = Unset THEN line.value ELSE e[v]
      BY <2>1
    <3>2. \A i \in 1 .. k : lines[i].value # Unset
      BY <1>1, <1>2, <1>4
    <3>3. Told(l, x.seen, k, v, e[v]) /\ lines[k + 1] # Malformed /\ k + 1 \in DOMAIN lines
      BY <1>2, <1>3, <1>4, <1>6
    <3> QED
      BY <1>3, <3>1, <3>2, <3>3, ToldNext
  <2>3. \A i \in 1 .. k + 1 : lines[i] # Malformed
    <3>1. \A i \in 1 .. k + 1 : i \in 1 .. k \/ i = k + 1
      OBVIOUS
    <3> QED
      BY <1>2, <1>3, <1>6, <3>1
  <2>4. k + 1 \in 0 .. Len(lines)
    BY <1>4
  <2> QED
    BY <1>3, <2>1, <2>2, <2>3, <2>4 DEF Reads
<1> QED
  BY <1>5, <1>6

\* No file is merged yet.
LEMMA ResolvesFiles ==
  ASSUME NEW l \in Loader, NEW y, NEW e,
         y.value = Nothing, y.broken = FALSE, y.files = FilesIn(l, e)
  PROVE  Merges(l, y, e)
<1>1. FilesIn(l, e) \in Seq(Range(FilesIn(l, e))) /\ Len(FilesIn(l, e)) \in Nat
  BY FilesAre
<1>2. Left(FilesIn(l, e), 0, FilesIn(l, e)) /\ 0 \in 0 .. Len(FilesIn(l, e))
  BY <1>1, LeftAll
<1>3. \A f \in Field : Highest(Sources(l, e), 2, 0 + 1, f, y.value[f])
  BY DEF Highest, Nothing
<1> QED
  BY <1>2, <1>3 DEF Merges

\* One file more.
LEMMA MergesFile ==
  ASSUME NEW l \in Loader, NEW x, NEW y, NEW e, Merges(l, x, e), x.files # <<>>,
         y.files = Tail(x.files), NEW file, file = Head(x.files),
         \/ file = Malformed /\ y.broken = TRUE
         \/ file # Malformed /\ y.broken = x.broken /\ y.value = Over(x.value, file)
  PROVE  Merges(l, y, e)
<1> DEFINE F == FilesIn(l, e)
<1>1. F \in Seq(Range(F))
  BY FilesAre
<1>2. PICK k \in 0 .. Len(F) :
        /\ Left(F, k, x.files)
        /\ x.broken <=> \E i \in 1 .. k : F[i] = Malformed
        /\ ~x.broken => \A f \in Field : Highest(Sources(l, e), 2, k + 1, f, x.value[f])
  BY DEF Merges
<1>3. k + 1 \in 1 .. Len(F) /\ file = F[k + 1] /\ Left(F, k + 1, Tail(x.files))
  <2> HIDE DEF F
  <2> QED
    BY <1>1, <1>2, LeftTail
<1>4. PICK m \in Nat : m = Len(F) /\ k \in 0 .. m /\ k + 1 \in 1 .. m
  BY <1>1, <1>2, <1>3
<1>5. 1 .. k + 1 = (1 .. k) \cup {k + 1} /\ k + 1 \in 0 .. Len(F)
  BY <1>4
<1>6. y.broken <=> \E i \in 1 .. k + 1 : F[i] = Malformed
  BY <1>2, <1>3, <1>5
<1>7. ASSUME ~y.broken, NEW f \in Field
      PROVE  Highest(Sources(l, e), 2, (k + 1) + 1, f, y.value[f])
  <2>1. ~x.broken /\ y.value = Over(x.value, file)
    BY <1>7
  <2>2. Highest(Sources(l, e), 2, k + 1, f, x.value[f])
    BY <1>2, <2>1
  <2>3. y.value[f] = IF file[f] = Unset THEN x.value[f] ELSE file[f]
    BY <2>1 DEF Over
  <2>4. Sources(l, e)[(k + 1) + 1] = Offers(file)
    BY <1>3, <1>4, SourcesAre
  <2>5. Sources(l, e)[(k + 1) + 1][f] = {file[f]} \ {Unset}
    BY <2>4 DEF Offers
  <2>6. k + 1 \in Nat /\ 2 <= (k + 1) + 1
    BY <1>4
  <2> QED
    BY <2>2, <2>3, <2>5, <2>6, Raised
<1> QED
  BY <1>3, <1>5, <1>6, <1>7 DEF Merges

\* The variables, with all files merged.
LEMMA MergesEnv ==
  ASSUME NEW l \in Loader, NEW x, NEW y, NEW e, Merges(l, x, e), x.files = <<>>,
         y.broken = x.broken, y.value = Over(x.value, Provided(l, e)),
         y.secrets = Declared[l].secrets
  PROVE  Seeks(l, y, e)
<1> DEFINE F == FilesIn(l, e)
<1>1. F \in Seq(Range(F))
  BY FilesAre
<1>2. PICK k \in 0 .. Len(F) :
        /\ Left(F, k, x.files)
        /\ x.broken <=> \E i \in 1 .. k : F[i] = Malformed
        /\ ~x.broken => \A f \in Field : Highest(Sources(l, e), 2, k + 1, f, x.value[f])
  BY DEF Merges
<1>3. PICK m \in Nat : m = Len(F) /\ DOMAIN F = 1 .. m
  BY <1>1
<1>4. k = m
  <2> HIDE DEF F
  <2> QED
    BY <1>1, <1>2, <1>3, LeftTail
<1>5. ASSUME ~y.broken, NEW f \in Field
      PROVE  Highest(Sources(l, e), 2, m + 2, f, y.value[f])
  <2>1. Highest(Sources(l, e), 2, m + 1, f, x.value[f])
    BY <1>2, <1>4, <1>5
  <2>2. y.value[f] = IF Provided(l, e)[f] = Unset THEN x.value[f] ELSE Provided(l, e)[f]
    BY DEF Over
  <2>3. Sources(l, e)[m + 2] = Offers(Provided(l, e))
    BY <1>3, SourcesAre
  <2>4. m + 1 \in Nat /\ 2 <= (m + 1) + 1 /\ (m + 1) + 1 = m + 2
    OBVIOUS
  <2>5. Sources(l, e)[(m + 1) + 1][f] = {Provided(l, e)[f]} \ {Unset}
    BY <2>3, <2>4 DEF Offers
  <2>6. Highest(Sources(l, e), 2, (m + 1) + 1, f, y.value[f])
    BY <2>1, <2>2, <2>4, <2>5, Raised
  <2> QED
    BY <2>4, <2>6
<1>6. Declared[l].secrets \ y.secrets = {}
  OBVIOUS
<1> QED
  BY <1>2, <1>3, <1>4, <1>5, <1>6 DEF Seeks

\* A secret, in any order.
LEMMA SeeksSecret ==
  ASSUME NEW l \in Loader, NEW x, NEW y, NEW e, Seeks(l, x, e), NEW file \in x.secrets,
         IsLayer(x.value),
         y.broken = x.broken, y.secrets = x.secrets \ {file},
         y.value = [x.value EXCEPT ![file.key] = file.value]
  PROVE  Seeks(l, y, e) /\ IsLayer(y.value)
<1>1. Declared[l].secrets \ y.secrets = (Declared[l].secrets \ x.secrets) \cup {file}
  BY DEF Seeks
<1>2. ASSUME NEW f \in Field
      PROVE  y.value[f] = IF f = file.key THEN file.value ELSE x.value[f]
  BY DEF IsLayer
<1>3. y.value = [f \in Field |-> IF f = file.key THEN file.value ELSE x.value[f]]
  BY DEF IsLayer
<1>4. IsLayer(y.value)
  BY <1>3 DEF IsLayer
<1> QED
  BY <1>1, <1>2, <1>4 DEF Seeks

\* With the highest source's value in every field the judgement is the right one.
LEMMA JudgedRight ==
  ASSUME NEW l \in Loader, NEW e, NEW m \in Nat, m = Len(FilesIn(l, e)), NEW value,
         NEW full, full = Over(Declared[l].defaults, value),
         \A f \in Field : Highest(Sources(l, e), 1, m + 4, f, full[f]),
         \A i \in DOMAIN FilesIn(l, e) : FilesIn(l, e)[i] # Malformed
  PROVE  Explained(l, e, Judged(l, FALSE, value))
<1> DEFINE from == Sources(l, e)
           given(f) == {i \in DOMAIN from : from[i][f] # {}}
           highest(f) == IF given(f) = {} THEN {Unset}
                         ELSE from[CHOOSE i \in given(f) : \A j \in given(f) : j <= i][f]
<1>1. DOMAIN from = 1 .. m + 4
  BY SourcesAre
<1>2. ASSUME NEW f \in Field PROVE full[f] \in highest(f)
  <2>1. \A i : i \in given(f) <=> i \in 1 .. m + 4 /\ from[i][f] # {}
    BY <1>1
  <2> HIDE DEF given, from
  <2>2. CASE full[f] = Unset
    BY <2>1, <2>2 DEF Highest, from
  <2>3. CASE full[f] # Unset
    <3> PICK i \in 1 .. m + 4 : full[f] \in from[i][f] /\ \A j \in i + 1 .. m + 4 : from[j][f] = {}
      BY <2>3 DEF Highest, from
    <3>1. i \in given(f) /\ \A j \in given(f) : j <= i
      BY <2>1
    <3>2. \A h \in given(f) : (\A j \in given(f) : j <= h) => h = i
      BY <2>1, <3>1
    <3>3. (CHOOSE h \in given(f) : \A j \in given(f) : j <= h) = i
      BY <3>1, <3>2
    <3> QED
      BY <3>1, <3>3
  <2> QED
    BY <2>2, <2>3
<1> HIDE DEF highest
<1>3. full = [f \in Field |-> full[f]] /\ Range(full) = {full[f] : f \in Field}
  BY DEF Over, Range
<1>4. full \in [Field -> UNION {highest(f) : f \in Field}]
  BY <1>2, <1>3
<1> DEFINE right(chosen) ==
             IF Range(chosen) \subseteq Valid THEN [status |-> "loaded", value |-> chosen]
             ELSE IF Range(chosen) \subseteq Parsable
                  THEN [status |-> "CONFIG_VALIDATION_ERROR"]
                  ELSE [status |-> "CONFIG_LOAD_FAILED"]
<1>5. Judged(l, FALSE, value) = right(full)
  <2>1. Range(full) \subseteq Parsable <=> ~\E f \in Field : full[f] \notin Parsable
    BY <1>3
  <2>2. Range(full) \subseteq Valid <=> ~\E f \in Field : full[f] \notin Valid
    BY <1>3
  <2>3. Range(full) \subseteq Valid => Range(full) \subseteq Parsable
    BY ValuesAssumption
  <2> QED
    BY <2>1, <2>2, <2>3 DEF Judged
<1>6. \E chosen \in [Field -> UNION {highest(f) : f \in Field}] :
        (\A f \in Field : chosen[f] \in highest(f)) /\ Judged(l, FALSE, value) = right(chosen)
  <2> HIDE DEF right
  <2> QED
    BY <1>2, <1>4, <1>5
<1> QED
  BY <1>6 DEF Explained, highest, FilesIn

\* The overrides, the defaults, and the judgement.
LEMMA FinishesRight ==
  ASSUME NEW l \in Loader, NEW x, NEW e, Seeks(l, x, e), x.secrets = {}
  PROVE  Explained(l, e, Judged(l, x.broken, Over(x.value, Declared[l].overrides)))
<1> DEFINE F == FilesIn(l, e)
           value == Over(x.value, Declared[l].overrides)
           full == Over(Declared[l].defaults, value)
<1>1. PICK m \in Nat : m = Len(F) /\ DOMAIN F = 1 .. m
  BY FilesAre
<1>2. x.broken <=> \E i \in DOMAIN F : F[i] = Malformed
  BY DEF Seeks
<1>3. CASE x.broken
  <2>1. Judged(l, x.broken, value).status = "CONFIG_LOAD_FAILED"
    BY <1>3 DEF Judged
  <2>2. \E i \in DOMAIN Files(l, EnvironmentName(l, e)) :
           Files(l, EnvironmentName(l, e))[i] = Malformed
    BY <1>2, <1>3 DEF FilesIn
  <2> QED
    BY <2>1, <2>2, Zenon DEF Explained
<1>4. CASE ~x.broken
  <2>1. ASSUME NEW f \in Field PROVE Highest(Sources(l, e), 1, m + 4, f, full[f])
    <3>1. Highest(Sources(l, e), 2, m + 3, f, x.value[f])
      <4>0. Sources(l, e)[m + 3][f] = {s.value : s \in {s \in Declared[l].secrets : s.key = f}}
        <5>1. Sources(l, e)[m + 3] = SecretsOf(l)
          BY <1>1, SourcesAre
        <5> QED
          BY <5>1 DEF SecretsOf
      <4>1. CASE \E s \in Declared[l].secrets : s.key = f /\ x.value[f] = s.value
        <5>1. x.value[f] # Unset /\ x.value[f] \in Sources(l, e)[m + 3][f]
          BY <4>0, <4>1, DeclaredAssumption
        <5>2. m + 3 \in 2 .. m + 3 /\ (m + 3) + 1 .. m + 3 = {}
          OBVIOUS
        <5> QED
          BY <5>1, <5>2 DEF Highest
      <4>2. CASE (\A s \in Declared[l].secrets : s.key # f)
                 /\ Highest(Sources(l, e), 2, m + 2, f, x.value[f])
        <5>1. Sources(l, e)[(m + 2) + 1][f] = {Unset} \ {Unset}
          <6>1. (m + 2) + 1 = m + 3
            OBVIOUS
          <6> QED
            BY <4>0, <4>2, <6>1
        <5>2. m + 2 \in Nat /\ 2 <= (m + 2) + 1 /\ (m + 2) + 1 = m + 3
          OBVIOUS
        <5>3. Highest(Sources(l, e), 2, (m + 2) + 1, f, IF Unset = Unset THEN x.value[f] ELSE Unset)
          BY <4>2, <5>1, <5>2, Raised
        <5> QED
          BY <5>2, <5>3
      <4> QED
        BY <1>1, <1>4, <4>1, <4>2 DEF Seeks
    <3>2. Highest(Sources(l, e), 2, m + 4, f, value[f])
      <4>1. value[f] = IF Declared[l].overrides[f] = Unset
                       THEN x.value[f] ELSE Declared[l].overrides[f]
        BY DEF Over
      <4>2. Sources(l, e)[m + 4] = Offers(Declared[l].overrides)
        BY <1>1, SourcesAre
      <4>3. m + 3 \in Nat /\ 2 <= (m + 3) + 1 /\ (m + 3) + 1 = m + 4
        OBVIOUS
      <4>4. Sources(l, e)[(m + 3) + 1][f] = {Declared[l].overrides[f]} \ {Unset}
        BY <4>2, <4>3 DEF Offers
      <4> HIDE DEF value
      <4>5. Highest(Sources(l, e), 2, (m + 3) + 1, f, value[f])
        BY <3>1, <4>1, <4>3, <4>4, Raised
      <4> QED
        BY <4>3, <4>5
    <3>3. full[f] = IF value[f] = Unset THEN Declared[l].defaults[f] ELSE value[f]
      BY DEF Over
    <3>4. Sources(l, e)[1][f] = {Declared[l].defaults[f]} \ {Unset}
      <4>1. Sources(l, e)[1] = Offers(Declared[l].defaults)
        BY <1>1, SourcesAre
      <4> QED
        BY <4>1 DEF Offers
    <3>5. m + 4 \in Nat /\ m + 4 >= 2
      OBVIOUS
    <3> HIDE DEF value, full
    <3> QED
      BY <3>2, <3>3, <3>4, <3>5, Lowered
  <2>2. Explained(l, e, Judged(l, FALSE, value))
    <3> HIDE DEF value
    <3> QED
      BY <1>1, <1>2, <1>4, <2>1, JudgedRight
  <2>3. Judged(l, x.broken, value) = Judged(l, FALSE, value)
    BY <1>4 DEF Judged
  <2> QED
    BY <2>2, <2>3
<1> QED
  BY <1>3, <1>4

-----------------------------------------------------------------------------
(* The invariant of the loads *)

LEMMA LoadInvInit == ApplicationInit => LoadInv
<1> SUFFICES ASSUME ApplicationInit PROVE LoadInv
  OBVIOUS
<1>1. env = [v \in Variable |-> env[v]]
  BY EnvironmentsAssumption DEF ApplicationInit, SettingsInit
<1>2. ASSUME NEW l \in Loader PROVE Sound(l, load[l], env)
  BY DEF ApplicationInit, SettingsInit, NewLoad, Sound
<1> QED
  BY <1>1, <1>2, LockInvInit DEF LoadInv

\* A load that does not hold the lock does not depend on the environment.
LEMMA SoundElsewhere ==
  ASSUME NEW l, NEW x, NEW e, NEW d, Sound(l, x, e), d = e \/ x.at \notin Holding
  PROVE  Sound(l, x, d)
<1>1. CASE x.at \notin Holding
  BY <1>1 DEF Sound, Holding
<1> QED
  BY <1>1

\* The step of a load, for that load.
LEMMA AcquireIsSound ==
  ASSUME LoadInv, NEW l \in Loader, Acquire(l)
  PROVE  Sound(l, load'[l], env)
<1> DEFINE lines == Declared[l].dotenv
<1>0. DOMAIN load = Loader
      /\ DOMAIN load[l] = {"at", "seen", "lines", "files", "broken", "value", "secrets", "result"}
  BY DEF LoadInv, LockInv, LoadShape
<1>1. load[l].value = Nothing /\ load[l].broken = FALSE
  BY DEF LoadInv, Sound, Acquire
<1>2. PICK y : y = load'[l]
  OBVIOUS
<1>3. /\ y.at = "dotenv" /\ y.seen = env /\ y.lines = lines
      /\ y.value = Nothing /\ y.broken = FALSE
  BY <1>0, <1>1, <1>2 DEF Acquire
<1>4. lines \in Seq(Range(lines)) /\ Len(lines) \in Nat
  BY DeclaredAssumption
<1>5. \A v \in Variable : Told(l, y.seen, 0, v, env[v])
  BY <1>3 DEF Told
<1>6. Reads(l, y, env)
  <2>1. 0 \in 0 .. Len(lines) /\ Left(lines, 0, lines)
    BY <1>4, LeftAll
  <2> QED
    BY <1>3, <1>5, <2>1 DEF Reads
<1> QED
  BY <1>2, <1>3, <1>6 DEF Sound

LEMMA LoadingIsSound ==
  ASSUME LoadInv, NEW l \in Loader, Loading(l)
  PROVE  /\ Sound(l, load'[l], env') /\ env' = [v \in Variable |-> env'[v]]
         /\ \A k \in Loader \ {l} : load'[k] = load[k]
         /\ load[l].at \in Holding
<1>0. /\ DOMAIN load = Loader
      /\ DOMAIN load[l] = {"at", "seen", "lines", "files", "broken", "value", "secrets", "result"}
      /\ env = [v \in Variable |-> env[v]] /\ Sound(l, load[l], env)
  BY DEF LoadInv, LockInv, LoadShape
<1> PICK x, y, e, d : x = load[l] /\ y = load'[l] /\ e = env /\ d = env'
  OBVIOUS
<1>1. CASE ReadLine(l)
  <2> PICK line : line = Head(x.lines)
    OBVIOUS
  <2>1. /\ x.at = "dotenv" /\ y.at = "dotenv" /\ x.lines # <<>>
        /\ y.seen = x.seen /\ y.value = x.value /\ y.broken = x.broken
        /\ \/ line = Malformed /\ y.lines = <<>> /\ d = e
           \/ /\ line # Malformed /\ y.lines = Tail(x.lines)
              /\ d = [e EXCEPT ![line.name] = IF @ = Unset THEN line.value ELSE @]
    <3>1. CASE line = Malformed
      <4>1. load' = [load EXCEPT ![l].lines = <<>>] /\ d = e /\ x.at = "dotenv" /\ x.lines # <<>>
        BY <1>1, <3>1 DEF ReadLine
      <4> QED
        BY <1>0, <3>1, <4>1
    <3>2. CASE line # Malformed
      <4>1. /\ load' = [load EXCEPT ![l].lines = Tail(@)] /\ x.at = "dotenv" /\ x.lines # <<>>
            /\ d = [e EXCEPT ![line.name] = IF @ = Unset THEN line.value ELSE @]
        BY <1>1, <3>2 DEF ReadLine
      <4>2. /\ y.at = x.at /\ y.lines = Tail(x.lines)
            /\ y.seen = x.seen /\ y.value = x.value /\ y.broken = x.broken
        BY <1>0, <4>1
      <4> QED
        BY <3>2, <4>1, <4>2
    <3> QED
      BY <3>1, <3>2
  <2>2. Reads(l, x, e)
    BY <1>0, <2>1 DEF Sound
  <2>3. Reads(l, y, d)
    BY <1>0, <2>1, <2>2, ReadsLine
  <2>4. Sound(l, y, d)
    BY <2>1, <2>3 DEF Sound
  <2>5. d = [v \in Variable |-> d[v]]
    BY <1>0, <2>1
  <2>6. \A k \in Loader \ {l} : load'[k] = load[k]
    BY <1>0, <1>1 DEF ReadLine
  <2> QED
    BY <2>1, <2>4, <2>5, <2>6 DEF Holding
<1>2. CASE ResolveFiles(l)
  <2>1. /\ x.at = "dotenv" /\ y.at = "files" /\ x.lines = <<>> /\ d = e
        /\ y.seen = x.seen /\ y.value = x.value /\ y.broken = x.broken
        /\ y.files = FilesIn(l, e)
    BY <1>0, <1>2 DEF ResolveFiles, FilesIn
  <2>2. Reads(l, x, e)
    BY <1>0, <2>1 DEF Sound
  <2>3. y.value = Nothing /\ y.broken = FALSE
    BY <2>1, <2>2 DEF Reads
  <2>4. e = Alone(l, y.seen)
    BY <1>0, <2>1, <2>2, ReadAlone
  <2>5. Merges(l, y, e)
    BY <2>1, <2>3, ResolvesFiles
  <2>6. IsLayer(y.value)
    BY <2>3 DEF Nothing, IsLayer
  <2>7. Sound(l, y, d)
    BY <2>1, <2>4, <2>5, <2>6 DEF Sound
  <2>8. \A k \in Loader \ {l} : load'[k] = load[k]
    BY <1>0, <1>2 DEF ResolveFiles
  <2> QED
    BY <1>0, <2>1, <2>7, <2>8 DEF Holding
<1>3. CASE MergeFile(l)
  <2> PICK file : file = Head(x.files)
    OBVIOUS
  <2>1. /\ x.at = "files" /\ y.at = "files" /\ x.files # <<>> /\ d = e
        /\ y.seen = x.seen /\ y.files = Tail(x.files)
        /\ \/ file = Malformed /\ y.broken = TRUE /\ y.value = x.value
           \/ file # Malformed /\ y.broken = x.broken /\ y.value = Over(x.value, file)
    BY <1>0, <1>3 DEF MergeFile
  <2>2. /\ Merges(l, x, e) /\ e = Alone(l, x.seen)
        /\ IsLayer(x.value)
    BY <1>0, <2>1 DEF Sound
  <2>3. Merges(l, y, e)
    BY <2>1, <2>2, MergesFile
  <2>4. IsLayer(y.value)
    BY <2>1, <2>2 DEF Over, IsLayer
  <2>5. Sound(l, y, d)
    BY <2>1, <2>2, <2>3, <2>4 DEF Sound
  <2>6. \A k \in Loader \ {l} : load'[k] = load[k]
    BY <1>0, <1>3 DEF MergeFile
  <2> QED
    BY <1>0, <2>1, <2>5, <2>6 DEF Holding
<1>4. CASE MergeEnv(l)
  <2>1. /\ x.at = "files" /\ y.at = "secrets" /\ x.files = <<>> /\ d = e
        /\ y.seen = x.seen /\ y.broken = x.broken /\ y.value = Over(x.value, Provided(l, e))
        /\ y.secrets = Declared[l].secrets
    BY <1>0, <1>4 DEF MergeEnv
  <2>2. Merges(l, x, e) /\ e = Alone(l, x.seen)
    BY <1>0, <2>1 DEF Sound
  <2>3. Seeks(l, y, e)
    BY <2>1, <2>2, MergesEnv
  <2>4. IsLayer(y.value)
    BY <2>1 DEF Over, IsLayer
  <2>5. Sound(l, y, d)
    BY <2>1, <2>2, <2>3, <2>4 DEF Sound
  <2>6. \A k \in Loader \ {l} : load'[k] = load[k]
    BY <1>0, <1>4 DEF MergeEnv
  <2> QED
    BY <1>0, <2>1, <2>5, <2>6 DEF Holding
<1>5. CASE ReadSecret(l)
  <2> PICK file \in x.secrets :
         load' = [load EXCEPT ![l].secrets = @ \ {file}, ![l].value[file.key] = file.value]
    BY <1>5 DEF ReadSecret
  <2>1. /\ x.at = "secrets" /\ y.at = "secrets" /\ d = e
        /\ y.seen = x.seen /\ y.broken = x.broken /\ y.secrets = x.secrets \ {file}
        /\ y.value = [x.value EXCEPT ![file.key] = file.value]
    BY <1>0, <1>5 DEF ReadSecret
  <2>2. /\ Seeks(l, x, e) /\ e = Alone(l, x.seen)
        /\ IsLayer(x.value)
    BY <1>0, <2>1 DEF Sound
  <2>3. Seeks(l, y, e)
    BY <2>1, <2>2, SeeksSecret
  <2>4. IsLayer(y.value)
    BY <2>1, <2>2, SeeksSecret
  <2>5. Sound(l, y, d)
    BY <2>1, <2>2, <2>3, <2>4 DEF Sound
  <2>6. \A k \in Loader \ {l} : load'[k] = load[k]
    BY <1>0
  <2> QED
    BY <1>0, <2>1, <2>5, <2>6 DEF Holding
<1>6. CASE Finish(l)
  <2>1. /\ x.at = "secrets" /\ y.at = "done" /\ d = e /\ x.secrets = {} /\ y.seen = x.seen
        /\ y.result = Judged(l, x.broken, Over(x.value, Declared[l].overrides))
    BY <1>0, <1>6 DEF Finish
  <2>2. Seeks(l, x, e) /\ e = Alone(l, x.seen)
    BY <1>0, <2>1 DEF Sound
  <2>3. Explained(l, e, y.result)
    BY <2>1, <2>2, FinishesRight
  <2>4. Sound(l, y, d)
    BY <2>1, <2>2, <2>3 DEF Sound
  <2>5. \A k \in Loader \ {l} : load'[k] = load[k]
    BY <1>0, <1>6 DEF Finish
  <2> QED
    BY <1>0, <2>1, <2>4, <2>5 DEF Holding
<1> QED
  BY <1>1, <1>2, <1>3, <1>4, <1>5, <1>6 DEF Loading

LEMMA LoadInvStep ==
  ASSUME LoadInv, [ApplicationNext]_applicationVars
  PROVE  LoadInv'
<1>0. LockInv'
  BY LockInvStep DEF LoadInv
<1>1. CASE \E l \in Loader : CallLoad(l)
  <2> PICK l \in Loader : Acquire(l)
    BY <1>1 DEF CallLoad
  <2>1. env' = env /\ \A k \in Loader \ {l} : load'[k] = load[k]
    BY DEF Acquire, LoadInv, LockInv, LoadShape
  <2>2. \A k \in Loader : Sound(k, load'[k], env')
    BY <2>1, AcquireIsSound DEF LoadInv
  <2> QED
    BY <1>0, <2>1, <2>2 DEF LoadInv
<1>2. CASE \E l \in Loader : Load(l)
  <2> PICK l \in Loader : Loading(l)
    BY <1>2 DEF Load
  <2>1. /\ Sound(l, load'[l], env') /\ env' = [v \in Variable |-> env'[v]]
        /\ \A k \in Loader \ {l} : load'[k] = load[k]
        /\ load[l].at \in Holding
    BY LoadingIsSound
  <2>2. ASSUME NEW k \in Loader, k # l PROVE Sound(k, load'[k], env')
    <3>1. load[k].at \notin Holding
      BY <2>1, <2>2 DEF LoadInv, LockInv, LockOwned
    <3>2. Sound(k, load[k], env) /\ load'[k] = load[k]
      BY <2>1, <2>2 DEF LoadInv
    <3>3. PICK x, e, d : x = load[k] /\ e = env /\ d = env'
      OBVIOUS
    <3>4. Sound(k, x, d)
      BY <3>1, <3>2, <3>3, SoundElsewhere
    <3> QED
      BY <3>2, <3>3, <3>4
  <2> QED
    BY <1>0, <2>1, <2>2 DEF LoadInv
<1>3. CASE UNCHANGED settings
  BY <1>0, <1>3 DEF settings, LoadInv
<1> QED
  BY <1>1, <1>2, <1>3 DEF ApplicationNext, StartLoaded, Lives, applicationVars

\* A load that ends is explained by its own sources and the environment it found when it
\* began, for any number of loads, files, variables and secrets, whatever the other loads
\* read and write meanwhile (settings.rs:6, docs/13:79).
THEOREM LoadExplainedHolds == ApplicationSpec => []LoadExplained
<1>1. LoadInv => LoadExplained
  BY DEF LoadInv, Sound, LoadExplained
<1> QED
  BY <1>1, LoadInvInit, LoadInvStep, PTL DEF ApplicationSpec, applicationVars


=============================================================================
