------------------------------ MODULE ServerProofs ------------------------------
(****************************************************************************)
(* Proofs about Server, for any number of connections, lifespans and hooks.  *)
(*                                                                           *)
(* The composition is a lifecycle and an environment of the WebSocket part.  *)
(* The one thing the composition adds that neither part can know is that a    *)
(* claimed WebSocket lives in a request that holds the application           *)
(* (ClaimHeld), so the application is never gone while one is claimed.       *)
(****************************************************************************)
EXTENDS Server, TLAPS

Places == {"none", "queued", "handshaking", "handshaken", "upgraded", "closed"} \cup Held

ShapeOK ==
  /\ http \in [Conn -> Places]
  /\ phase \in [Conn -> Ws!Phases]

\* Exactly the first k lifespans are up.
UpTo(k) == \A i \in 1 .. N : cell[i] = "up" <=> i <= k

\* What is up while the lifespans are started and used.
BootInv ==
  /\ config = "lifespans" /\ kind = "serve"
  /\ next \in Nat
  /\ cell \in [1 .. N -> {"empty", "up", "down"}]
  /\ stage \in App!Stages
  /\ stage = "validating" => UpTo(0)
  /\ stage = "starting" => next \in 1 .. N + 1 /\ UpTo(next - 1)
  /\ stage \in {"rolling", "stopping"} => next \in 0 .. N
  /\ stage \in {"building", "binding", "readying", "serving"} => UpTo(N)

\* A WebSocket that was claimed and whose handler has not been spawned is inside a
\* request.
ClaimHeld == \A c \in Conn : phase[c] = "claimed" => http[c] = "busy"

\* Connections hold the application only while it serves, or past the drain's end.
HeldServed == (\E c \in Conn : http[c] \in Held) => timedOut \/ stage = "serving"

IInv == ShapeOK /\ BootInv /\ ClaimHeld /\ HeldServed

-----------------------------------------------------------------------------
(* The steps *)

\* What a connection does without the WebSocket part.
Moves(c) ==
  \/ Connect(c) \/ AcceptPlain(c) \/ AcceptTls(c) \/ Handshaken(c)
  \/ HandshakeLost(c) \/ ServeTls(c) \/ Request(c) \/ Respond(c)
  \/ SwitchProtocols(c) \/ Disconnect(c)

\* A connection is held anew only while the server accepts, and is not let go
\* with a claimed WebSocket in it.
LEMMA MovesFacts ==
  ASSUME ShapeOK, NEW c \in Conn, Moves(c)
  PROVE  /\ runtime = "up"
         /\ UNCHANGED <<app, ws, timedOut>>
         /\ \E to \in Places :
              /\ http' = [http EXCEPT ![c] = to]
              /\ to \in Held => http[c] \in Held \/ Accepting
         /\ http[c] = "busy" => phase[c] # "claimed"
<1> USE DEF Move, Places, Held, ShapeOK
<1>1. CASE Connect(c)          BY <1>1 DEF Connect
<1>2. CASE AcceptPlain(c)      BY <1>2 DEF AcceptPlain
<1>3. CASE AcceptTls(c)        BY <1>3 DEF AcceptTls
<1>4. CASE Handshaken(c)       BY <1>4 DEF Handshaken
<1>5. CASE HandshakeLost(c)    BY <1>5 DEF HandshakeLost
<1>6. CASE ServeTls(c)         BY <1>6 DEF ServeTls
<1>7. CASE Request(c)          BY <1>7 DEF Request
<1>8. CASE Respond(c)          BY <1>8 DEF Respond
<1>9. CASE SwitchProtocols(c)  BY <1>9 DEF SwitchProtocols
<1>10. CASE Disconnect(c)      BY <1>10 DEF Disconnect
<1> QED
  BY <1>1, <1>2, <1>3, <1>4, <1>5, <1>6, <1>7, <1>8, <1>9, <1>10 DEF Moves

\* A step of the lifecycle while the server does not run: no cell moves unless the
\* stage accounts for it.
LEMMA LifecycleKeepsBoot ==
  ASSUME BootInv, App!Boot \/ App!Signal \/ App!ServeEnds \/ App!Teardown
  PROVE  BootInv'
<1> USE CountAssumption
    DEF BootInv, UpTo, App!Stages, App!fixed, App!Enter, App!Fail, App!Lifespan
<1>1. CASE App!Validate       BY <1>1 DEF App!Validate
<1>2. CASE App!StartLifespan
  <2>1. CASE cell' = [cell EXCEPT ![next] = "up"] /\ App!Enter("starting", next + 1)
    BY <1>2, <2>1 DEF App!StartLifespan
  <2>2. CASE App!Enter("rolling", next - 1) /\ UNCHANGED cell
    BY <1>2, <2>2 DEF App!StartLifespan
  <2> QED BY <1>2, <2>1, <2>2 DEF App!StartLifespan
<1>3. CASE App!RollBack       BY <1>3 DEF App!RollBack, App!Take
<1>4. CASE App!RolledBack     BY <1>4 DEF App!RolledBack
<1>5. CASE App!StartHook      BY <1>5 DEF App!StartHook
<1>6. CASE App!Started        BY <1>6 DEF App!Started
<1>7. CASE App!Build          BY <1>7 DEF App!Build
<1>8. CASE App!Bind           BY <1>8 DEF App!Bind
<1>9. CASE App!ReadyHook      BY <1>9 DEF App!ReadyHook
<1>10. CASE App!Serve         BY <1>10 DEF App!Serve
<1>11. CASE App!Signal        BY <1>11 DEF App!Signal
<1>12. CASE App!ServeEnds     BY <1>12 DEF App!ServeEnds
<1>13. CASE App!StopLifespan  BY <1>13 DEF App!StopLifespan, App!Take
<1>14. CASE App!StopHook      BY <1>14 DEF App!StopHook
<1>15. CASE App!Return        BY <1>15 DEF App!Return
<1> QED
  BY <1>1, <1>2, <1>3, <1>4, <1>5, <1>6, <1>7, <1>8, <1>9, <1>10, <1>11, <1>12,
     <1>13, <1>14, <1>15
  DEF App!Boot, App!Teardown

\* Serving begins once and ends for good.
LEMMA StagesForward ==
  ASSUME App!Boot \/ App!Signal \/ App!Teardown
  PROVE  /\ stage = "serving" => stage' = "serving"
         /\ stage \in {"stopping", "returned"} => stage' \in {"stopping", "returned"}
<1> USE DEF App!fixed, App!Enter, App!Fail
<1>1. CASE App!Boot
  BY <1>1 DEF App!Boot, App!Validate, App!StartLifespan, App!RollBack, App!RolledBack,
     App!StartHook, App!Started, App!Build, App!Bind, App!ReadyHook, App!Serve
<1>2. CASE App!Signal   BY <1>2 DEF App!Signal
<1>3. CASE App!Teardown BY <1>3 DEF App!Teardown, App!StopLifespan, App!StopHook, App!Return
<1> QED
  BY <1>1, <1>2, <1>3

\* The steps of the WebSocket part that move a connection: where they leave it.
WsMoves(c) == InRequest(c) \/ Upgrade(c) \/ InHandler(c)

LEMMA WsMovesFacts ==
  ASSUME ShapeOK, NEW c \in Conn, WsMoves(c)
  PROVE  /\ UNCHANGED <<app, http, timedOut, shutdown, runtime>>
         /\ \/ phase' = phase
            \/ \E p \in Ws!Phases : /\ phase' = [phase EXCEPT ![c] = p]
                                    /\ p = "claimed" => http[c] = "busy"
<1> USE DEF ShapeOK, Ws!Goto, Ws!At, Ws!env, Ws!Phases, Ws!Handle, Ws!Recv, Ws!Live, Ws!Firing, Ws!Finished
<1>1. CASE InRequest(c)
  <2>1. CASE Ws!Reject(c) \/ Ws!Spawn(c)
    BY <1>1, <2>1 DEF InRequest, Ws!Reject, Ws!Spawn
  <2>2. CASE \E ip \in Ip \cup {NoIp} : Ws!Claim(c, ip) \/ Ws!Refuse(c, ip)
    BY <1>1, <2>2 DEF InRequest, Ws!Claim, Ws!Refuse
  <2> QED
    BY <1>1, <2>1, <2>2 DEF InRequest
<1>2. CASE Upgrade(c)
  BY <1>2 DEF Upgrade, Ws!Upgraded, Ws!Abandon
<1>3. CASE InHandler(c)
  <2>1. CASE Ws!SendGoingAway(c)
    BY <1>3, <2>1 DEF InHandler, Ws!SendGoingAway, Ws!FireDisconnectHooks, Ws!AfterHooks, Ws!Closed
  <2>2. CASE Ws!RecvClose(c) \/ Ws!RecvEnd(c)
    BY <1>3, <2>2 DEF InHandler, Ws!RecvClose, Ws!RecvEnd, Ws!FireDisconnectHooks, Ws!AfterHooks, Ws!Closed
  <2>3. CASE Ws!HooksDone(c) \/ Ws!RecvError(c)
    BY <1>3, <2>3 DEF InHandler, Ws!HooksDone, Ws!RecvError, Ws!AfterHooks, Ws!Closed
  <2>4. CASE Ws!Accept(c) \/ Ws!Opened(c) \/ Ws!RecvCall(c) \/ Ws!RecvShutdown(c) \/ Ws!RecvMessage(c)
    BY <1>3, <2>4 DEF InHandler, Ws!Accept, Ws!Opened, Ws!RecvCall, Ws!RecvShutdown, Ws!RecvMessage
  <2>5. CASE Ws!Cancel(c) \/ Ws!Drop(c)
    BY <1>3, <2>5 DEF InHandler, Ws!Cancel, Ws!Drop
  <2>6. CASE Ws!Close(c) \/ Ws!RunDetached(c)
    BY <1>3, <2>6 DEF InHandler, Ws!Close, Ws!RunDetached
  <2> QED
    BY <1>3, <2>1, <2>2, <2>3, <2>4, <2>5, <2>6 DEF InHandler
<1> QED
  BY <1>1, <1>2, <1>3 DEF WsMoves

-----------------------------------------------------------------------------
(* The inductive invariant                                                  *)

LEMMA InitInv == Init => IInv
<1> SUFFICES ASSUME Init PROVE IInv
  OBVIOUS
<1> USE CountAssumption DEF Init, App!Init, Ws!Init
<1>1. ShapeOK     BY DEF ShapeOK, Places, Ws!Phases
<1>2. BootInv     BY DEF BootInv, UpTo, App!Stages, App!Lifespan
<1>3. ClaimHeld   BY DEF ClaimHeld
<1>4. HeldServed  BY DEF HeldServed, Held
<1> QED BY <1>1, <1>2, <1>3, <1>4 DEF IInv

LEMMA NextInv == IInv /\ [Next]_vars => IInv'
<1> SUFFICES ASSUME IInv, [Next]_vars PROVE IInv'
  OBVIOUS
<1>i. ShapeOK /\ BootInv /\ ClaimHeld /\ HeldServed
  BY DEF IInv
<1>1. CASE \E c \in Conn : Moves(c)
  <2>1. PICK c \in Conn : Moves(c)
    BY <1>1
  <2>2. /\ UNCHANGED <<app, ws, timedOut>>
        /\ http[c] = "busy" => phase[c] # "claimed"
    BY <1>i, <2>1, MovesFacts
  <2>3. PICK to \in Places : /\ http' = [http EXCEPT ![c] = to]
                             /\ to \in Held => http[c] \in Held \/ Accepting
    BY <1>i, <2>1, MovesFacts
  <2>4. BootInv'
    BY <1>i, <2>2 DEF BootInv, UpTo, app
  <2>5. ShapeOK' /\ ClaimHeld'
    BY <1>i, <2>2, <2>3 DEF ShapeOK, ClaimHeld, ws
  <2>6. HeldServed'
    BY <1>i, <2>2, <2>3 DEF HeldServed, ShapeOK, Accepting, app
  <2> QED BY <2>4, <2>5, <2>6 DEF IInv
<1>2. CASE \E c \in Conn : WsMoves(c)
  <2>1. PICK c \in Conn : WsMoves(c)
    BY <1>2
  <2>2. /\ UNCHANGED <<app, http, timedOut>>
        /\ \/ phase' = phase
           \/ \E p \in Ws!Phases : /\ phase' = [phase EXCEPT ![c] = p]
                                   /\ p = "claimed" => http[c] = "busy"
    BY <1>i, <2>1, WsMovesFacts
  <2>3. BootInv'
    BY <1>i, <2>2 DEF BootInv, UpTo, app
  <2>4. ShapeOK' /\ ClaimHeld'
    BY <1>i, <2>2 DEF ShapeOK, ClaimHeld
  <2>5. HeldServed'
    BY <1>i, <2>2 DEF HeldServed, app
  <2> QED BY <2>3, <2>4, <2>5 DEF IInv
<1>3. CASE Boot \/ Signal \/ Teardown
  <2>1. UNCHANGED <<ws, http, timedOut>> /\ (App!Boot \/ App!Signal \/ App!Teardown)
    BY <1>3 DEF Boot, Signal, Teardown, Lifecycle
  <2>2. BootInv'
    BY <1>i, <2>1, LifecycleKeepsBoot
  <2>3. ShapeOK' /\ ClaimHeld'
    BY <1>i, <2>1 DEF ShapeOK, ClaimHeld, ws
  <2>4. HeldServed'
    BY <1>i, <2>1, StagesForward DEF HeldServed
  <2> QED BY <2>2, <2>3, <2>4 DEF IInv
<1>4. CASE StopAccepting
  <2>1. /\ UNCHANGED <<app, timedOut, phase>>
        /\ http' = [c \in Conn |-> IF http[c] = "handshaken" THEN "closed" ELSE http[c]]
    BY <1>4 DEF StopAccepting, Ws!BeginShutdown, Ws!conns
  <2>2. BootInv'
    BY <1>i, <2>1 DEF BootInv, UpTo, app
  <2>3. ShapeOK' /\ ClaimHeld'
    BY <1>i, <2>1 DEF ShapeOK, ClaimHeld, Places
  <2>4. HeldServed'
    BY <1>i, <2>1 DEF HeldServed, ShapeOK, Held, app
  <2> QED BY <2>2, <2>3, <2>4 DEF IInv
<1>5. CASE Drain
  <2>1. /\ UNCHANGED <<ws, http>> /\ App!ServeEnds
        /\ timedOut' = \E c \in Conn : http[c] \in Held
    BY <1>5 DEF Drain
  <2>2. BootInv'
    BY <1>i, <2>1, LifecycleKeepsBoot
  <2>3. ShapeOK' /\ ClaimHeld'
    BY <1>i, <2>1 DEF ShapeOK, ClaimHeld, ws
  <2>4. HeldServed'
    BY <2>1 DEF HeldServed
  <2> QED BY <2>2, <2>3, <2>4 DEF IInv
<1>6. CASE Exit
  <2>1. /\ UNCHANGED <<app, timedOut>>
        /\ http' = [c \in Conn |-> "closed"]
        /\ phase' = [c \in Conn |-> IF phase[c] \in Ws!Live THEN "ended"
                       ELSE IF phase[c] \in Ws!Handle THEN "rejected" ELSE phase[c]]
    BY <1>6 DEF Exit, Ws!StopRuntime
  <2>2. BootInv'
    BY <1>i, <2>1 DEF BootInv, UpTo, app
  <2>3. ShapeOK' /\ ClaimHeld'
    BY <1>i, <2>1 DEF ShapeOK, ClaimHeld, Places, Ws!Phases, Ws!Finished, Ws!Handle
  <2>4. HeldServed'
    BY <2>1 DEF HeldServed, Held
  <2> QED BY <2>2, <2>3, <2>4 DEF IInv
<1>7. CASE UNCHANGED vars
  BY <1>7 DEF vars, app, ws, IInv, ShapeOK, BootInv, UpTo, ClaimHeld, HeldServed
<1> QED
  BY <1>1, <1>2, <1>3, <1>4, <1>5, <1>6, <1>7 DEF Next, Moves, WsMoves

\* The composition keeps its invariant, whatever clients and handlers do.
THEOREM Inductive == Spec => []IInv
<1>1. Init => IInv              BY InitInv
<1>2. IInv /\ [Next]_vars => IInv'  BY NextInv
<1> QED BY <1>1, <1>2, PTL DEF Spec

\* No request is executed before every lifespan is up or, unless the drain timed out,
\* once the server has left its accept loop (serve_listener's order of startup,
\* bind, serve, drain and shutdown).
THEOREM RequestsHaveResourcesHolds == Spec => []RequestsHaveResources
<1>1. IInv => RequestsHaveResources
  BY CountAssumption DEF IInv, BootInv, UpTo, HeldServed, Held, RequestsHaveResources
<1> QED BY <1>1, Inductive, PTL

-----------------------------------------------------------------------------
(* Shutdown ends accepting                                                  *)

\* Once the shutdown has begun no connection comes to be served, over plain TCP or
\* from a handshake that was under way (server.rs, run_with_shutdown).
THEOREM NothingAcceptedHolds == Spec => NothingAcceptedAfterShutdown
<1>1. ASSUME IInv, [Next]_vars
      PROVE  [shutdown => \A c \in Conn : http'[c] \in Held => http[c] \in Held]_vars
  <2> SUFFICES ASSUME shutdown, Next, NEW d \in Conn, http'[d] \in Held
               PROVE  http[d] \in Held
    BY <1>1
  <2>i. ShapeOK
    BY <1>1 DEF IInv
  <2>1. CASE \E c \in Conn : Moves(c)
    <3>1. PICK c \in Conn : Moves(c)
      BY <2>1
    <3>2. PICK to \in Places : /\ http' = [http EXCEPT ![c] = to]
                               /\ to \in Held => http[c] \in Held \/ Accepting
      BY <2>i, <3>1, MovesFacts
    <3> QED BY <2>i, <3>2 DEF ShapeOK, Accepting
  <2>2. CASE \E c \in Conn : WsMoves(c)
    BY <2>i, <2>2, WsMovesFacts
  <2>3. CASE Boot \/ Signal \/ Teardown \/ Drain
    BY <2>3 DEF Boot, Signal, Teardown, Drain, Lifecycle
  <2>4. CASE StopAccepting
    BY <2>4 DEF StopAccepting, Accepting
  <2>5. CASE Exit
    BY <2>5 DEF Exit, Held
  <2> QED
    BY <2>1, <2>2, <2>3, <2>4, <2>5 DEF Next, Moves, WsMoves
<1> QED BY <1>1, Inductive, PTL DEF Spec, NothingAcceptedAfterShutdown

-----------------------------------------------------------------------------
(* The parts it is made of                                                  *)

\* What a step that leaves the WebSocket part alone is to it: nothing, or the
\* moment the application is gone.
LEMMA EnvironmentStep ==
  ASSUME ClaimHeld, UNCHANGED ws, runtime = "up", AppGone => AppGone', ClaimHeld'
  PROVE  [Ws!Next]_Ws!vars
<1>1. CASE AppGone' = AppGone
  BY <1>1 DEF Ws!vars, Ws!conns, Ws!env, ws
<1>2. CASE AppGone' # AppGone
  <2>1. ~AppGone /\ AppGone' = TRUE
    BY <1>2 DEF AppGone
  <2>2. \A c \in Conn : phase[c] # "claimed"
    BY <2>1 DEF AppGone, ClaimHeld, Held, ws
  <2>3. Ws!DropApp
    BY <2>1, <2>2 DEF Ws!DropApp, Ws!conns, ws
  <2> QED BY <2>3 DEF Ws!Next
<1> QED BY <1>1, <1>2

\* A step of the lifecycle, in the composition, is one of the lifecycle's own, and
\* nothing else moves it.
LEMMA LifecycleStep == [Next]_vars => [App!Next]_App!app
<1> SUFFICES ASSUME [Next]_vars PROVE [App!Next]_App!app
  OBVIOUS
<1> USE DEF app, App!app
<1>1. CASE \E c \in Conn : \/ Connect(c) \/ AcceptPlain(c) \/ AcceptTls(c)
                           \/ Handshaken(c) \/ HandshakeLost(c) \/ ServeTls(c)
  BY <1>1 DEF Connect, AcceptPlain, AcceptTls, Handshaken, HandshakeLost, ServeTls, Move
<1>2. CASE \E c \in Conn : \/ Request(c) \/ Respond(c) \/ SwitchProtocols(c) \/ Disconnect(c)
  BY <1>2 DEF Request, Respond, SwitchProtocols, Disconnect, Move
<1>3. CASE \E c \in Conn : InRequest(c) \/ Upgrade(c) \/ InHandler(c)
  BY <1>3 DEF InRequest, Upgrade, InHandler
<1>4. CASE Boot \/ Signal \/ Teardown \/ Drain
  BY <1>4 DEF Boot, Signal, Teardown, Drain, Lifecycle, App!Next
<1>5. CASE StopAccepting \/ Exit
  BY <1>5 DEF StopAccepting, Exit
<1>6. CASE UNCHANGED vars
  BY <1>6 DEF vars
<1> QED
  BY <1>1, <1>2, <1>3, <1>4, <1>5, <1>6 DEF Next

\* The server runs the life of an application as serve_listener orders it: its
\* accept loop is that life's stage "serving" and no connection moves it.
THEOREM ServerImplementsLifecycle == Spec => ImplementsLifecycle
<1>1. Init => App!Init
  BY DEF Init
<1>2. [Next]_vars => [App!Next]_App!app
  BY LifecycleStep
<1> QED BY <1>1, <1>2, PTL DEF Spec, ImplementsLifecycle, App!Spec

\* The application does not come back.
LEMMA GoneForGood ==
  ASSUME IInv, [Next]_vars, AppGone
  PROVE  AppGone'
<1>i. ShapeOK
  BY DEF IInv
<1>1. CASE \E c \in Conn : Moves(c)
  <2>1. PICK c \in Conn : Moves(c)
    BY <1>1
  <2>2. UNCHANGED app
    BY <1>i, <2>1, MovesFacts
  <2>3. PICK to \in Places : /\ http' = [http EXCEPT ![c] = to]
                             /\ to \in Held => http[c] \in Held \/ Accepting
    BY <1>i, <2>1, MovesFacts
  <2> QED BY <1>i, <2>2, <2>3 DEF AppGone, ShapeOK, Accepting, app
<1>2. CASE \E c \in Conn : WsMoves(c)
  BY <1>i, <1>2, WsMovesFacts DEF AppGone, app
<1>3. CASE Boot \/ Signal \/ Teardown
  BY <1>3, StagesForward DEF Boot, Signal, Teardown, Lifecycle, AppGone
<1>4. CASE StopAccepting \/ Drain
  BY <1>4 DEF StopAccepting, Accepting, Drain, App!ServeEnds, AppGone
<1>5. CASE Exit
  BY <1>5 DEF Exit, AppGone, Held, app
<1>6. CASE UNCHANGED vars
  BY <1>6 DEF vars, app, AppGone
<1> QED
  BY <1>1, <1>2, <1>3, <1>4, <1>5, <1>6 DEF Next, Moves, WsMoves

\* The steps of the WebSocket part stay steps of it inside a server: a connection is
\* claimed only while the request it came with holds the application.
LEMMA HandlerStep ==
  ASSUME IInv, NEW c \in Conn, WsMoves(c)
  PROVE  Ws!Next
<1>1. CASE InRequest(c)
  BY <1>1 DEF InRequest, Ws!Next, Ws!Handler
<1>2. CASE Upgrade(c)
  BY <1>2 DEF Upgrade, Ws!Next
<1>3. CASE InHandler(c)
  BY <1>3 DEF InHandler, Ws!Next, Ws!Handler
<1> QED BY <1>1, <1>2, <1>3 DEF WsMoves

\* The server is an environment the WebSocket part was specified for: it tells the
\* handlers once and drops the application only when no request holds it.
THEOREM ServerImplementsWebSocket == Spec => ImplementsWebSocket
<1>1. Init => Ws!Init
  BY DEF Init
<1>2. ASSUME IInv, IInv', [Next]_vars
      PROVE  [Ws!Next]_Ws!vars
  <2>i. ShapeOK /\ ClaimHeld /\ ClaimHeld' /\ (AppGone => AppGone')
    BY <1>2, GoneForGood DEF IInv
  <2>1. CASE \E c \in Conn : Moves(c)
    <3>1. UNCHANGED ws /\ runtime = "up"
      BY <2>i, <2>1, MovesFacts
    <3> QED BY <2>i, <3>1, EnvironmentStep
  <2>2. CASE \E c \in Conn : WsMoves(c)
    BY <1>2, <2>2, HandlerStep
  <2>3. CASE Boot \/ Signal \/ Teardown \/ Drain
    <3>1. UNCHANGED ws /\ runtime = "up"
      BY <2>3 DEF Boot, Signal, Teardown, Drain, Lifecycle
    <3> QED BY <2>i, <3>1, EnvironmentStep
  <2>4. CASE StopAccepting
    BY <2>4 DEF StopAccepting, Ws!Next
  <2>5. CASE Exit
    BY <2>5 DEF Exit, Ws!Next
  <2>6. CASE UNCHANGED vars
    BY <2>6 DEF vars, app, ws, AppGone, Ws!vars, Ws!conns, Ws!env
  <2> QED
    BY <1>2, <2>1, <2>2, <2>3, <2>4, <2>5, <2>6 DEF Next, Moves, WsMoves
<1> QED BY <1>1, <1>2, Inductive, PTL DEF Spec, ImplementsWebSocket, Ws!Spec

=============================================================================
