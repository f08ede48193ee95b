------------------------------ MODULE TestClient ------------------------------
(****************************************************************************)
(* The test client (tork-core/src/testing): how it boots an application in   *)
(* its own process or behind a real port, the requests it makes, which share *)
(* a jar of cookies, and how it is shut down or dropped. The life of the     *)
(* application is module Lifecycle, of kind "test" in process and of kind    *)
(* "serve", in a task of its own, behind a port.                             *)
(****************************************************************************)
EXTENDS Naturals, Sequences, SequencesExt

CONSTANTS
  N, Startup, Stop, Ready,  \* as in Lifecycle; Ready > 0: the last on_ready hook is the client's own
  Call,                     \* the requests a test may make
  Cookie, Value, None

VARIABLES
  config, kind, stage, next, cell, failed, signalled,  \* Lifecycle
  task,      \* the task that serves: running, ended or panicked
  address,   \* the channel of the address: its sender held, or what was sent
  caller,    \* the test: building the client, using it, closing it, ...
  jar,       \* the cookies
  call,      \* the requests
  received   \* the requests whose responses were received, in that order

app      == <<config, kind, stage, next, cell, failed, signalled>>
requests == <<jar, call, received>>
vars     == <<app, task, address, caller, requests>>

Life == INSTANCE Lifecycle

NotMade == [at |-> "none", kind |-> None, carried |-> None, after |-> 0, sets |-> None]

\* A jar may be seeded by the builder.
Init ==
  /\ Life!Init
  /\ task = "running" /\ address = "held" /\ caller = "building"
  /\ jar \in [Cookie -> Value \cup {None}]
  /\ call = [c \in Call |-> NotMade]
  /\ received = <<>>

-----------------------------------------------------------------------------
(* The application: in its own task, or as far as the caller awaits it.      *)

Runs == IF kind = "serve" THEN task = "running" ELSE caller \in {"building", "closing"}

\* The hook that bind_random_port registers runs after those of the application.
Announces == kind = "serve" /\ stage = "readying" /\ next = Ready

RunApp ==
  /\ Runs
  /\ Life!Boot \/ Life!ServeEnds \/ Life!Teardown
  /\ IF Announces THEN failed' = "none" /\ address' = "sent" ELSE UNCHANGED address
  /\ UNCHANGED <<task, caller, requests>>

\* (Mutant) The task keeps its error to itself.
TaskEndsSilently ==
  /\ kind = "serve" /\ task = "running" /\ stage = "returned"
  /\ task' = "ended"
  /\ UNCHANGED <<app, address, caller, requests>>

\* serve_with_shutdown has returned: an error goes to the caller, unless the address went.
TaskEnds ==
  /\ kind = "serve" /\ task = "running" /\ stage = "returned"
  /\ task' = "ended"
  /\ address' = IF failed # "none" /\ address = "held" THEN "error" ELSE address
  /\ UNCHANGED <<app, caller, requests>>

\* The task is about to run a hook or a lifespan of the application.
InUserCode ==
  \/ stage = "starting" /\ next <= (IF config = "lifespans" THEN N ELSE Startup)
  \/ stage = "rolling" /\ next >= 1
  \/ stage = "readying" /\ next < Ready
  \/ stage = "stopping" /\ (IF config = "lifespans" THEN next >= 1 ELSE next <= Stop)

\* Code of the application panics, and the task of the server is gone.
TaskPanics ==
  /\ kind = "serve" /\ task = "running" /\ InUserCode
  /\ task' = "panicked"
  /\ UNCHANGED <<app, address, caller, requests>>

\* The shutdown channel resolves, with a value or because its sender is gone; a TestApp
\* that is dropped is just gone.
Stops == caller = "closing" \/ (kind = "serve" /\ caller = "dropped")

Signal ==
  /\ Stops /\ Life!Signal
  /\ UNCHANGED <<task, address, caller, requests>>

-----------------------------------------------------------------------------
(* The caller.                                                              *)

\* build refuses headers of proxies among its defaults before anything runs.
Refuse ==
  /\ kind = "test" /\ caller = "building" /\ stage = "validating"
  /\ caller' = "failed"
  /\ UNCHANGED <<app, task, address, requests>>

\* bind_random_port receives the address or the error; its own handle on the sender
\* outlives the task (client.rs:416), so a sender is never found gone. In process,
\* build_test_with returns.
Booted ==
  /\ caller = "building"
  /\ \/ /\ IF kind = "serve" THEN address = "sent" ELSE stage = "serving"
        /\ caller' = "ready"
     \/ /\ IF kind = "serve" THEN address = "error" ELSE stage = "returned"
        /\ caller' = "failed"
  /\ UNCHANGED <<app, task, address, requests>>

Shutdown ==
  /\ caller = "ready" /\ caller' = "closing"
  /\ UNCHANGED <<app, task, address, requests>>

\* The task is joined, whatever became of it; run_shutdown has returned.
Closed ==
  /\ caller = "closing"
  /\ IF kind = "serve" THEN task # "running" ELSE stage = "returned"
  /\ caller' = "closed"
  /\ UNCHANGED <<app, task, address, requests>>

\* The client, or the future that makes or closes it, is dropped.
Dropped ==
  /\ caller \in {"building", "ready", "closing"}
  /\ caller' = "dropped"
  /\ UNCHANGED <<app, task, address, requests>>

-----------------------------------------------------------------------------
(* Requests. A builder holds the jar and the way to the application, and may  *)
(* be used when the client is gone.                                          *)

\* What send or sse will send, or connect.
Make(c) ==
  /\ caller = "ready" /\ call[c].at = "none"
  /\ \E k \in {"http", "websocket"} :
       call' = [call EXCEPT ![c].at = "made", ![c].kind = k]
  /\ UNCHANGED <<app, task, address, caller, jar, received>>

Reachable == kind = "test" \/ (task = "running" /\ stage \in {"readying", "serving"})

\* send, sse and connect: the cookies of the moment go into the request. An invalid URI,
\* a header of proxies in process, or a refused connection fails it.
Send(c) ==
  /\ call[c].at = "made"
  /\ \/ /\ Reachable
        /\ call' = [call EXCEPT ![c].at = "sent", ![c].carried = jar, ![c].after = Len(received)]
     \/ call' = [call EXCEPT ![c].at = "failed"]
  /\ UNCHANGED <<app, task, address, caller, jar, received>>

\* The head of a response, and the cookies that it sets.
Answer(c) ==
  /\ call[c].at = "sent" /\ Reachable /\ stage # "readying"
  /\ \E sets \in [Cookie -> Value \cup {None}] :
       call' = [call EXCEPT ![c].at = "answered", ![c].sets = sets]
  /\ UNCHANGED <<app, task, address, caller, jar, received>>

\* CookieJar::store.
Stored(base, sets) == [n \in Cookie |-> IF sets[n] # None THEN sets[n] ELSE base[n]]

Done(c) ==
  /\ call' = [call EXCEPT ![c].at = "done"]
  /\ received' = Append(received, c)
  /\ UNCHANGED <<app, task, address, caller>>

\* (Mutant) The jar is the one that the request took, with the new cookies.
ReceiveStale(c) ==
  /\ call[c].at = "answered" /\ call[c].kind # "websocket"
  /\ jar' = Stored(call[c].carried, call[c].sets)
  /\ Done(c)

\* send has collected the body, or sse opened the stream of events: the cookies are kept.
Receive(c) ==
  /\ call[c].at = "answered" /\ call[c].kind # "websocket"
  /\ jar' = Stored(jar, call[c].sets)
  /\ Done(c)

\* connect has switched protocols; the cookies of that response are not looked at.
Switch(c) ==
  /\ call[c].at = "answered" /\ call[c].kind = "websocket"
  /\ UNCHANGED jar
  /\ Done(c)

\* The connection or the body breaks, an upgrade is refused, or the test drops the future.
Break(c) ==
  /\ call[c].at \in {"sent", "answered"}
  /\ call' = [call EXCEPT ![c].at = "failed"]
  /\ UNCHANGED <<app, task, address, caller, jar, received>>

Next ==
  \/ RunApp \/ TaskEnds \/ TaskPanics \/ Signal
  \/ Refuse \/ Booted \/ Shutdown \/ Closed \/ Dropped
  \/ \E c \in Call : Make(c) \/ Send(c) \/ Answer(c) \/ Receive(c) \/ Switch(c) \/ Break(c)

\* The runtime polls its tasks, and the hooks, lifespans and the drain come to an end.
Fairness == WF_vars(RunApp \/ TaskEnds) /\ WF_vars(Signal) /\ WF_vars(Booted) /\ WF_vars(Closed)

Spec == Init /\ [][Next]_vars /\ Fairness

-----------------------------------------------------------------------------
(* Properties.                                                              *)

NothingUp == \A k \in 1 .. N : cell[k] # "up"

\* A client that a test can use has an application that is completely up, with no hook
\* left that may fail its boot: the address is sent by the last one (client.rs:419).
ReadyMeansUp ==
  caller = "ready" =>
    /\ failed = "none" /\ (kind = "serve" => task = "running")
    /\ stage = "serving" \/ (stage = "readying" /\ next = Ready + 1)
    /\ config = "lifespans" => \A k \in 1 .. N : cell[k] = "up"

\* When shutdown() has returned, every lifespan was torn down, in a task of the server or
\* in the caller, unless one of them panicked in that task (client.rs:386).
ClosedMeansDown == caller = "closed" /\ task # "panicked" => NothingUp /\ stage = "returned"

\* What a client owes a test, besides: none is left waiting for it to come up or to go
\* down, unless the task of its server panics before it has sent the address
\* (client.rs:444); and one that is dropped, be it in the middle of its boot, has its server
\* tear down what is up, but for the failures that Lifecycle's CleanReturn excepts, or a
\* panic (client.rs:432).
ClientContract ==
  /\ [](ReadyMeansUp /\ ClosedMeansDown)
  /\ caller = "building" ~> (caller # "building" \/ (task = "panicked" /\ address = "held"))
  /\ caller = "closing" ~> caller # "closing"
  /\ (kind = "serve" /\ caller = "dropped") ~>
       (NothingUp \/ task = "panicked" \/ failed \in {"build", "bind", "ready"})

\* The responses among the first `upto` that set the cookie n and went into the jar.
Setters(n, upto) ==
  {i \in 1 .. upto : LET d == call[received[i]] IN d.kind # "websocket" /\ d.sets[n] # None}

\* The value is that of the last of them.
Latest(n, upto, value) == \A i \in Setters(n, upto) :
  (\A j \in Setters(n, upto) : j <= i) => value = call[received[i]].sets[n]

\* A cookie has the value of the last response that set it, in the jar and in the requests
\* that were sent since, however many were under way at once and came back in whatever
\* order (docs/14-testing.md:96, "every `Set-Cookie` in a response is stored and replayed
\* on later requests"; that of a response which opens a WebSocket is not).
SessionCarried ==
  \A n \in Cookie :
    /\ Latest(n, Len(received), jar[n])
    /\ \A c \in Call : call[c].carried # None => Latest(n, call[c].after, call[c].carried[n])

=============================================================================
