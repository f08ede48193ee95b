-------------------------------- MODULE Server --------------------------------
(****************************************************************************)
(* The running server: the accept loop, plain or TLS, the HTTP connections,  *)
(* the upgrade of a connection to a WebSocket, graceful shutdown with its    *)
(* drain timeout, and the end of the process (tork-core/src/server.rs).      *)
(*                                                                           *)
(* It composes Lifecycle, whose stage "serving" is run_with_shutdown here,   *)
(* with WebSocket, whose environment it is: AppInner is gone once the server *)
(* has returned and no HTTP connection is left to hold it.                   *)
(****************************************************************************)
EXTENDS Naturals, FiniteSets

CONSTANTS
  Conn, Ip, NoIp, Cap, Looping,    \* as in WebSocket
  N, Startup, Stop, Ready,         \* as in Lifecycle
  Sockets                          \* connections that may ask for an upgrade

ASSUME SocketsAssumption == Sockets \subseteq Conn
ASSUME CountAssumption == N \in Nat \ {0} /\ Startup \in Nat /\ Stop \in Nat /\ Ready \in Nat

VARIABLES
  tls,        \* whether an acceptor is configured
  config, kind, stage, next, cell, failed, signalled,
  phase, peer, permit, counts, tracked, code, wire, fired, begun, finished,
  reported, detached, shutdown, runtime,
  http,       \* each TCP connection, from connect to close or upgrade
  timedOut    \* the drain ended by its timeout

app    == <<tls, config, kind, stage, next, cell, failed, signalled>>
ws     == <<phase, peer, permit, counts, tracked, code, wire, fired, begun,
            finished, reported, detached, shutdown, runtime>>
vars   == <<app, ws, http, timedOut>>

\* A connection task owns the service, and with it an Arc<AppInner>, until it is
\* closed or gives its stream up to the upgrade.
Held == {"idle", "busy"}
AppGone == stage \in {"stopping", "returned"} /\ \A c \in Conn : http[c] \notin Held

App == INSTANCE Lifecycle
Ws  == INSTANCE WebSocket WITH appGone <- AppGone

Init ==
  /\ App!Init /\ config = "lifespans" /\ kind = "serve"
  /\ tls \in BOOLEAN
  /\ http = [c \in Conn |-> "none"]
  /\ timedOut = FALSE
  /\ Ws!Init

\* (Mutant) The accept loop does not end when the shutdown begins.
AcceptingOn == stage = "serving" /\ runtime = "up"

Accepting == stage = "serving" /\ ~shutdown /\ runtime = "up"

Move(c, from, to) ==
  /\ http[c] = from /\ runtime = "up"
  /\ http' = [http EXCEPT ![c] = to]
  /\ UNCHANGED <<app, ws, timedOut>>

-----------------------------------------------------------------------------
(* Accepting.                                                               *)

\* The client connects once the listener is bound; the kernel queues it.
Connect(c) == stage \in {"readying", "serving"} /\ Move(c, "none", "queued")

\* accept_plain: the connection is watched by GracefulShutdown and spawned.
AcceptPlain(c) == Accepting /\ ~tls /\ Move(c, "queued", "idle")

\* accept_tls: the handshake runs in a task of its own under a timeout; its
\* stream comes back over a channel that only the accept loop reads.
AcceptTls(c)     == Accepting /\ tls /\ Move(c, "queued", "handshaking")
Handshaken(c)    == Accepting /\ Move(c, "handshaking", "handshaken")
HandshakeLost(c) == Move(c, "handshaking", "closed")
ServeTls(c)      == Accepting /\ Move(c, "handshaken", "idle")

-----------------------------------------------------------------------------
(* Requests.                                                                *)

Request(c) == Move(c, "idle", "busy")

\* The response is written. The connection is kept alive unless it drains.
Respond(c) ==
  /\ phase[c] \in {"none", "refused", "rejected"}
  /\ \/ ~shutdown /\ Move(c, "busy", "idle")
     \/ Move(c, "busy", "closed")

\* The 101 of a WebSocket route is written and the stream leaves hyper.
SwitchProtocols(c) ==
  /\ phase[c] \in {"spawned", "upgrading"}
  /\ Move(c, "busy", "upgraded")

\* (Mutant) A connection goes away and leaves the WebSocket it claimed.
DisconnectLeaks(c) ==
  /\ http[c] \in Held
  /\ Move(c, http[c], "closed")

\* The client disconnects, or the idle timeout of the stream expires, also
\* while a handler is at work; a WebSocket it claimed is dropped first. An idle
\* connection is closed by GracefulShutdown too.
Disconnect(c) ==
  /\ phase[c] # "claimed"
  /\ http[c] \in Held
  /\ Move(c, http[c], "closed")

\* Steps of the WebSocket part inside a request, and the end of the upgrade.
InRequest(c) ==
  /\ c \in Sockets /\ http[c] = "busy"
  /\ UNCHANGED <<app, http, timedOut>>
  /\ \/ \E ip \in Ip \cup {NoIp} : Ws!Claim(c, ip) \/ Ws!Refuse(c, ip)
     \/ Ws!Reject(c) \/ Ws!Spawn(c)

Upgrade(c) ==
  /\ UNCHANGED <<app, http, timedOut>>
  /\ \/ http[c] = "upgraded" /\ Ws!Upgraded(c)
     \/ Ws!Abandon(c)

\* Steps of the handler task.
InHandler(c) ==
  /\ UNCHANGED <<app, http, timedOut>>
  /\ \/ Ws!Accept(c) \/ Ws!Opened(c) \/ Ws!RecvCall(c) \/ Ws!RecvShutdown(c)
     \/ Ws!SendGoingAway(c) \/ Ws!RecvMessage(c) \/ Ws!RecvClose(c)
     \/ Ws!RecvEnd(c) \/ Ws!RecvError(c) \/ Ws!HooksDone(c) \/ Ws!Cancel(c)
     \/ Ws!Close(c) \/ Ws!Drop(c) \/ Ws!RunDetached(c)

-----------------------------------------------------------------------------
(* The lifecycle around it.                                                 *)

Lifecycle(step) == step /\ UNCHANGED <<tls, ws, http, timedOut>> /\ runtime = "up"

Boot     == Lifecycle(App!Boot)
Signal   == Lifecycle(App!Signal)
Teardown == Lifecycle(App!Teardown)

\* The accept loop ends and, before anything else is awaited, the WebSocket
\* handlers are told and the handshake channel is dropped.
StopAccepting ==
  /\ Accepting /\ signalled
  /\ http' = [c \in Conn |-> IF http[c] = "handshaken" THEN "closed" ELSE http[c]]
  /\ UNCHANGED <<app, timedOut>>
  /\ Ws!BeginShutdown

\* (Mutant) The server returns without draining.
DrainSkipped ==
  /\ shutdown /\ runtime = "up"
  /\ App!ServeEnds
  /\ UNCHANGED <<tls, ws, http, timedOut>>

\* (Mutant) The drain has no timeout.
DrainForever ==
  /\ shutdown /\ runtime = "up"
  /\ \A c \in Conn : http[c] \notin Held
  /\ App!ServeEnds
  /\ UNCHANGED <<tls, ws, http, timedOut>>

\* (Mutant) serve_listener returns without run_shutdown.
DrainReturns ==
  /\ shutdown /\ runtime = "up"
  /\ stage = "serving" /\ signalled /\ stage' = "returned"
  /\ timedOut' = \E c \in Conn : http[c] \in Held
  /\ UNCHANGED <<tls, config, kind, next, cell, failed, signalled, ws, http>>

\* drain_with_timeout: all watched connections are done, or 15 seconds passed.
\* Upgraded connections are not watched.
Drain ==
  /\ shutdown /\ runtime = "up"
  /\ App!ServeEnds
  /\ timedOut' = \E c \in Conn : http[c] \in Held
  /\ UNCHANGED <<tls, ws, http>>

\* main returns and the runtime drops every task.
Exit ==
  /\ stage = "returned"
  /\ http' = [c \in Conn |-> "closed"]
  /\ UNCHANGED <<app, timedOut>>
  /\ Ws!StopRuntime

Next ==
  \/ \E c \in Conn :
       \/ Connect(c) \/ AcceptPlain(c) \/ AcceptTls(c) \/ Handshaken(c)
       \/ HandshakeLost(c) \/ ServeTls(c) \/ Request(c) \/ Respond(c)
       \/ SwitchProtocols(c) \/ Disconnect(c)
       \/ InRequest(c) \/ Upgrade(c) \/ InHandler(c)
  \/ Boot \/ Signal \/ StopAccepting \/ Drain \/ Teardown \/ Exit

\* The server's own task is polled and its timer fires; the application's
\* startup and shutdown code returns. Nothing is assumed of clients or handlers.
Fairness ==
  /\ WF_vars(Boot) /\ WF_vars(StopAccepting) /\ WF_vars(Drain) /\ WF_vars(Teardown)

Spec == Init /\ [][Next]_vars
FairSpec == Spec /\ Fairness

-----------------------------------------------------------------------------
(* Properties.                                                              *)

\* The server runs the lifecycle, and is an environment the WebSocket part was
\* specified for: what is proved of either holds of the whole.
ImplementsLifecycle == App!Spec
ImplementsWebSocket == Ws!Spec

\* A request is executed only with every lifespan up, from the moment the socket
\* can be connected to until the last lifespan was told to stop, unless the drain
\* timed out (serve_listener: bind after startup, drain before run_shutdown).
RequestsHaveResources ==
  (\E c \in Conn : http[c] = "busy") =>
    timedOut \/ (stage = "serving" /\ \A k \in 1 .. N : cell[k] = "up")

\* Nothing new is accepted once shutdown began, on the plain and the TLS path.
NothingAcceptedAfterShutdown ==
  [][shutdown => \A c \in Conn : http'[c] \in Held => http[c] \in Held]_vars

\* A signal brings the server down although a handler never returns and a
\* client never reads: the drain timeout bounds the wait. One that comes while
\* the application boots is not lost.
SignalReturns == signalled ~> stage = "returned"

\* A recv that closes its connection because the server shuts down begins the
\* disconnect hooks ("awaited in the connection's own task so they cannot be lost
\* to a detached Drop task during shutdown", ws.rs:796).
HooksSurviveShutdown ==
  [][\A c \in Looping :
       phase[c] = "goingAway" /\ phase'[c] = "leaving" => begun'[c] = 1]_vars

=============================================================================
