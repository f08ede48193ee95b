------------------------------ MODULE Lifecycle ------------------------------
(****************************************************************************)
(* The life of one App (tork-core/src/app.rs, lifespan.rs): validation,      *)
(* startup with rollback, build, bind, readiness, serving and shutdown, as   *)
(* serve_listener runs them, and the shorter life of a TestApp. What happens *)
(* while serving is module Server.                                           *)
(****************************************************************************)
EXTENDS Naturals

CONSTANTS
  N,         \* lifespans registered
  Startup,   \* on_startup hooks
  Stop,      \* on_shutdown hooks
  Ready      \* on_ready hooks

ASSUME LifespanAssumption == N \in Nat \ {0}
ASSUME HookAssumption == Startup \in Nat /\ Stop \in Nat /\ Ready \in Nat

VARIABLES
  config,     \* which of lifespans and hooks the application registers
  kind,       \* serve_listener or build_test
  stage,      \* how far the life has come
  next,       \* the loop index of the stage
  cell,       \* each LifespanCell: no container yet, a container, or taken
  failed,     \* the stage that returned an error, or "none"
  signalled   \* the shutdown future has resolved

app == <<config, kind, stage, next, cell, failed, signalled>>

Lifespan == 1 .. N
Stages   == {"validating", "starting", "rolling", "building", "binding",
             "readying", "serving", "stopping", "returned"}
Failures == {"none", "validate", "startup", "build", "bind", "ready"}

Init ==
  /\ config \in {"lifespans", "hooks", "both"}
  /\ kind \in {"serve", "test"}
  /\ stage = "validating"
  /\ next = 1
  /\ cell = [k \in Lifespan |-> "empty"]
  /\ failed = "none"
  /\ signalled = FALSE

Enter(s, i) == stage' = s /\ next' = i
Fail(s)     == stage' = "returned" /\ failed' = s /\ UNCHANGED next
fixed       == <<config, kind>>

\* validate_lifecycle.
Validate ==
  /\ stage = "validating"
  /\ \/ config # "both" /\ Enter("starting", 1) /\ UNCHANGED failed
     \/ config = "both" /\ Fail("validate")
  /\ UNCHANGED <<fixed, cell, signalled>>

\* (Mutant) An error returns without rolling back.
StartLifespanNoRollback ==
  /\ stage = "starting" /\ config = "lifespans" /\ next <= N
  /\ \/ cell' = [cell EXCEPT ![next] = "up"] /\ Enter("starting", next + 1) /\ UNCHANGED failed
     \/ Fail("startup") /\ UNCHANGED cell
  /\ UNCHANGED <<fixed, signalled>>

\* run_startup, one lifespan: the container is stashed once its startup is done.
\* An error starts the rollback of those before it.
StartLifespan ==
  /\ stage = "starting" /\ config = "lifespans" /\ next <= N
  /\ \/ /\ cell' = [cell EXCEPT ![next] = "up"]
        /\ Enter("starting", next + 1)
     \/ /\ Enter("rolling", next - 1)
        /\ UNCHANGED cell
  /\ UNCHANGED <<fixed, failed, signalled>>

\* LifespanCell::shutdown takes the container; a second call finds none. Whether
\* the container's own shutdown succeeds changes nothing for the others.
Take(k) == cell' = [cell EXCEPT ![k] = IF @ = "up" THEN "down" ELSE @]

RollBack ==
  /\ stage = "rolling" /\ next >= 1
  /\ Take(next) /\ Enter("rolling", next - 1)
  /\ UNCHANGED <<fixed, failed, signalled>>

RolledBack ==
  /\ stage = "rolling" /\ next = 0
  /\ Fail("startup")
  /\ UNCHANGED <<fixed, cell, signalled>>

\* run_startup without lifespans: the on_startup hooks, with no rollback.
StartHook ==
  /\ stage = "starting" /\ config = "hooks" /\ next <= Startup
  /\ \/ Enter("starting", next + 1) /\ UNCHANGED failed
     \/ Fail("startup")
  /\ UNCHANGED <<fixed, cell, signalled>>

Started ==
  /\ stage = "starting"
  /\ next = 1 + IF config = "lifespans" THEN N ELSE Startup
  /\ Enter("building", 1)
  /\ UNCHANGED <<fixed, cell, failed, signalled>>

\* build, after the lifespans were moved out of the App. It can fail on the TLS
\* key, on a duplicate or invalid route, on a rejected duplicate middleware.
Build ==
  /\ stage = "building"
  /\ \/ /\ Enter(IF kind = "test" THEN "serving" ELSE "binding", 1)
        /\ UNCHANGED failed
     \/ Fail("build")
  /\ UNCHANGED <<fixed, cell, signalled>>

Bind ==
  /\ stage = "binding"
  /\ \/ Enter("readying", 1) /\ UNCHANGED failed
     \/ Fail("bind")
  /\ UNCHANGED <<fixed, cell, signalled>>

ReadyHook ==
  /\ stage = "readying" /\ next <= Ready
  /\ \/ Enter("readying", next + 1) /\ UNCHANGED failed
     \/ Fail("ready")
  /\ UNCHANGED <<fixed, cell, signalled>>

Serve ==
  /\ stage = "readying" /\ next = Ready + 1
  /\ Enter("serving", 1)
  /\ UNCHANGED <<fixed, cell, failed, signalled>>

\* The shutdown future resolves, or the test client calls shutdown. A future the
\* caller supplied may resolve during boot, and is then noticed when the accept
\* loop polls it first. (shutdown_signal installs its handlers at that poll: an
\* earlier SIGINT has its default effect and ends the process.)
Signal ==
  /\ ~signalled
  /\ signalled' = TRUE
  /\ UNCHANGED <<fixed, stage, next, cell, failed>>

\* run_with_shutdown returns.
ServeEnds ==
  /\ stage = "serving" /\ signalled
  /\ Enter("stopping", IF config = "lifespans" THEN N ELSE 1)
  /\ UNCHANGED <<fixed, cell, failed, signalled>>

\* (Mutant) The lifespans are stopped in the order they were started.
StopLifespanForward ==
  /\ stage = "stopping" /\ config = "lifespans" /\ next >= 1
  /\ Take(N + 1 - next) /\ Enter("stopping", next - 1)
  /\ UNCHANGED <<fixed, failed, signalled>>

\* run_shutdown: the lifespans in reverse, or the on_shutdown hooks in order.
\* Errors are logged and the loop goes on.
StopLifespan ==
  /\ stage = "stopping" /\ config = "lifespans" /\ next >= 1
  /\ Take(next) /\ Enter("stopping", next - 1)
  /\ UNCHANGED <<fixed, failed, signalled>>

StopHook ==
  /\ stage = "stopping" /\ config = "hooks" /\ next <= Stop
  /\ Enter("stopping", next + 1)
  /\ UNCHANGED <<fixed, cell, failed, signalled>>

Return ==
  /\ stage = "stopping"
  /\ next = IF config = "lifespans" THEN 0 ELSE Stop + 1
  /\ Enter("returned", next)
  /\ UNCHANGED <<fixed, cell, failed, signalled>>

Boot ==
  \/ Validate \/ StartLifespan \/ RollBack \/ RolledBack \/ StartHook \/ Started
  \/ Build \/ Bind \/ ReadyHook \/ Serve

Teardown == StopLifespan \/ StopHook \/ Return

Next == Boot \/ Signal \/ ServeEnds \/ Teardown

Spec == Init /\ [][Next]_app

-----------------------------------------------------------------------------
(* Properties.                                                              *)

TypeOK ==
  /\ config \in {"lifespans", "hooks", "both"}
  /\ kind \in {"serve", "test"}
  /\ stage \in Stages
  /\ next \in Nat
  /\ cell \in [Lifespan -> {"empty", "up", "down"}]
  /\ failed \in Failures
  /\ signalled \in BOOLEAN

\* Resources are released in the reverse of the order they were acquired in:
\* while a lifespan is still up, so is every one started before it, because what
\* came later may depend on it. It holds through the rollback of a failed
\* startup and through shutdown (app.rs, run_startup and run_shutdown).
ReverseOrder ==
  \A i, j \in Lifespan : i < j /\ cell[j] = "up" => cell[i] = "up"

\* The socket exists, hooks are told and requests are served only while every
\* lifespan is up (app.rs:754, "the socket is only exposed once startup hooks
\* have completed").
ServingMeansStarted ==
  stage \in {"building", "binding", "readying", "serving"} =>
    config # "both" /\ (config = "lifespans" => \A k \in Lifespan : cell[k] = "up")

\* A serve that returns leaves no container behind when it ran to its end and
\* when it failed during startup.
CleanReturn ==
  stage = "returned" /\ failed \in {"none", "validate", "startup"} =>
    \A k \in Lifespan : cell[k] # "up"

=============================================================================
