------------------------------ MODULE WebSocket ------------------------------
(****************************************************************************)
(* The WebSocket connections of one application (tork-core/src/ws.rs): the   *)
(* per-IP limiter, the upgrade, the live connection with its recv loop, the  *)
(* disconnect hooks and the shutdown watch channel.                          *)
(*                                                                           *)
(* Each connection is driven by the handler task that #[websocket] spawns.   *)
(* Connections meet in three places: the limiter's map, the watch channel,   *)
(* and the one Arc<WsHooks>, which the application state owns and every      *)
(* live connection only refers to weakly.                                    *)
(*                                                                           *)
(* The environment owns `shutdown` (the value in the watch channel),         *)
(* `appGone` (every Arc<AppInner> is dropped, and with it the state map and  *)
(* the watch sender) and `runtime`. Module Server gives it a server.         *)
(****************************************************************************)
EXTENDS Naturals, FiniteSets

CONSTANTS
  Conn,      \* requests for an upgrade, each used once
  Ip,        \* peer addresses
  NoIp,      \* a peer without an address (a Unix-domain socket)
  Cap,       \* max_connections_per_ip
  Looping    \* handlers that only await recv and return once it yields no
             \* message (docs/11, "while let Some(..)"); every other handler may
             \* also poll recv inside tokio::select! and ignore what it returned

ASSUME ConnAssumption == IsFiniteSet(Conn) /\ Looping \subseteq Conn
ASSUME IpAssumption == NoIp \notin Ip
ASSUME CapAssumption == Cap \in Nat

VARIABLES
  phase,      \* where the connection's task is
  peer,       \* the client's address, once it asked for the upgrade
  permit,     \* the address whose slot the connection holds, or NoIp
  counts,     \* WsIpLimiter.counts: slots in use by address
  tracked,    \* the addresses that have an entry in that map
  code,       \* WebSocketConn.close_code
  wire,       \* close frames exchanged so far (history)
  fired,      \* WebSocketConn.hooks_fired
  begun,      \* how often the disconnect hooks were begun (history)
  finished,   \* how often they ran to the end (history)
  reported,   \* the close code they were given (history)
  detached,   \* a task spawned by Drop is still to run the hooks
  shutdown, appGone, runtime

conns == <<phase, peer, permit, counts, tracked, code, wire, fired, begun, finished,
           reported, detached>>
env   == <<shutdown, appGone, runtime>>
vars  == <<conns, env>>

Firing   == {"firing", "closing"}                           \* awaiting hooks
Handle   == {"claimed", "spawned", "upgrading", "greeting"}  \* a WebSocket
Recv     == {"waiting", "goingAway"} \cup Firing             \* inside recv
Live     == {"open", "leaving"} \cup Recv                    \* a WebSocketConn
Finished == {"refused", "rejected", "ended"}
Phases   == {"none"} \cup Handle \cup Live \cup Finished
Codes    == {"none", "away", "peer", "handler"}

Init ==
  /\ phase    = [c \in Conn |-> "none"]
  /\ peer     = [c \in Conn |-> NoIp]
  /\ permit   = [c \in Conn |-> NoIp]
  /\ counts   = [i \in Ip |-> 0]
  /\ tracked  = {}
  /\ code     = [c \in Conn |-> "none"]
  /\ wire     = [c \in Conn |-> {}]
  /\ fired    = [c \in Conn |-> FALSE]
  /\ begun    = [c \in Conn |-> 0]
  /\ finished = [c \in Conn |-> 0]
  /\ reported = [c \in Conn |-> "none"]
  /\ detached = [c \in Conn |-> FALSE]
  /\ shutdown = FALSE
  /\ appGone  = FALSE
  /\ runtime  = "up"

At(c, p) == phase[c] = p /\ runtime = "up"
Goto(c, p) == phase' = [phase EXCEPT ![c] = p]

slots   == <<permit, counts, tracked>>
limiter == <<peer, slots>>
hooks   == <<fired, begun, finished, reported, detached>>
close   == <<code, wire>>

-----------------------------------------------------------------------------
(* The limiter.                                                             *)

\* WsIpLimiter::try_acquire, under the limiter's mutex. A refused client still
\* leaves its entry behind when the entry was only just inserted (Cap = 0).
HasSlot(ip) == counts[ip] < Cap

Acquire(c, ip) ==
  /\ tracked' = tracked \cup {ip}
  /\ counts' = [counts EXCEPT ![ip] = @ + 1]
  /\ permit' = [permit EXCEPT ![c] = ip]

\* (Mutant) The slot is not given back.
ReleaseLost(c) ==
  /\ permit' = [permit EXCEPT ![c] = NoIp]
  /\ UNCHANGED <<peer, counts, tracked>>

\* Drop of the WsIpPermit, wherever the value that owns it is dropped.
Release(c) ==
  /\ UNCHANGED peer
  /\ permit' = [permit EXCEPT ![c] = NoIp]
  /\ \/ /\ permit[c] \in tracked
        /\ counts' = [counts EXCEPT ![permit[c]] = @ - 1]
        /\ tracked' = IF counts[permit[c]] = 1 THEN tracked \ {permit[c]} ELSE tracked
     \/ /\ permit[c] \notin tracked
        /\ UNCHANGED <<counts, tracked>>

-----------------------------------------------------------------------------
(* From the request to a live connection.                                   *)

\* WebSocket::from_request_context: the upgrade is claimed and a slot taken
\* before any response is sent. A peer without an address is not capped.
Claim(c, ip) ==
  /\ At(c, "none") /\ ~appGone
  /\ \/ ip \in Ip /\ HasSlot(ip) /\ Acquire(c, ip)
     \/ ip = NoIp /\ UNCHANGED slots
  /\ peer' = [peer EXCEPT ![c] = ip]
  /\ Goto(c, "claimed")
  /\ UNCHANGED <<close, hooks, env>>

\* The 429: the client already holds the maximum.
Refuse(c, ip) ==
  /\ At(c, "none") /\ ~appGone
  /\ ip \in Ip /\ ~HasSlot(ip)
  /\ tracked' = tracked \cup {ip}
  /\ peer' = [peer EXCEPT ![c] = ip]
  /\ Goto(c, "refused")
  /\ UNCHANGED <<permit, counts, close, hooks, env>>

\* Another binding of the handler fails, or the client goes away, before the
\* handler task is spawned: the WebSocket is dropped with the request future.
Reject(c) ==
  /\ At(c, "claimed")
  /\ Goto(c, "rejected") /\ Release(c)
  /\ UNCHANGED <<close, hooks, env>>

\* The generated handler spawns the user's handler and answers 101.
Spawn(c) ==
  /\ At(c, "claimed")
  /\ Goto(c, "spawned")
  /\ UNCHANGED <<limiter, close, hooks, env>>

\* The handler calls accept, which awaits the upgrade under handshake_timeout.
Accept(c) ==
  /\ At(c, "spawned")
  /\ Goto(c, "upgrading")
  /\ UNCHANGED <<limiter, close, hooks, env>>

\* The upgrade resolves; the connect hooks begin.
Upgraded(c) ==
  /\ At(c, "upgrading")
  /\ Goto(c, "greeting")
  /\ UNCHANGED <<limiter, close, hooks, env>>

\* The connect hooks are done and accept returns the connection, which keeps
\* the permit and a Weak reference to the hooks.
Opened(c) ==
  /\ At(c, "greeting")
  /\ Goto(c, "open")
  /\ UNCHANGED <<limiter, close, hooks, env>>

\* The handler returns without accepting, the upgrade fails or times out, or a
\* connect hook panics: no connection exists, so no disconnect hook is due.
Abandon(c) ==
  /\ phase[c] \in {"spawned", "upgrading", "greeting"} /\ runtime = "up"
  /\ Goto(c, "rejected") /\ Release(c)
  /\ UNCHANGED <<close, hooks, env>>

-----------------------------------------------------------------------------
(* The live connection.                                                     *)

\* The Weak<WsHooks> upgrades while anyone holds the Arc: the state map, a
\* WebSocket not yet turned into a connection, hooks being run.
HooksAlive ==
  \/ ~appGone
  \/ \E c \in Conn : phase[c] \in Handle \cup Firing \/ detached[c]

\* Where the handler goes on once recv has yielded no message.
Closed(c) == IF c \in Looping THEN "leaving" ELSE "open"

\* And where after the hooks: "closing" yields the peer's close as a message,
\* after which a loop over recv calls it again and one over receive_text ends.
AfterHooks(c, p) == {Closed(c)} \cup IF p = "closing" THEN {"open"} ELSE {}

\* WebSocketConn::fire_disconnect_hooks up to the first await of a hook.
FireDisconnectHooks(c, p) ==
  /\ fired' = [fired EXCEPT ![c] = TRUE]
  /\ \/ /\ HooksAlive /\ ~fired[c]
        /\ begun' = [begun EXCEPT ![c] = @ + 1]
        /\ reported' = [reported EXCEPT ![c] = code'[c]]
        /\ Goto(c, p)
     \/ /\ ~HooksAlive \/ fired[c]
        /\ \E q \in AfterHooks(c, p) : Goto(c, q)
        /\ UNCHANGED <<begun, reported>>
  /\ UNCHANGED <<finished, detached>>

\* recv: when the channel already says so, it closes right away.
RecvCall(c) ==
  /\ At(c, "open")
  /\ Goto(c, IF shutdown THEN "goingAway" ELSE "waiting")
  /\ UNCHANGED <<limiter, close, hooks, env>>

\* (Mutant) Only the loss of the sender wakes recv, not the value it sends.
SignalledBySenderOnly == appGone

\* rx.changed() resolves when the value changed or the sender is gone; the
\* select! is biased, so it goes before any frame that is ready too.
Signalled == shutdown \/ appGone

RecvShutdown(c) ==
  /\ At(c, "waiting") /\ Signalled
  /\ Goto(c, "goingAway")
  /\ UNCHANGED <<limiter, close, hooks, env>>

\* send_close_going_away; an error is ignored and leaves no frame on the wire.
SendGoingAway(c) ==
  /\ At(c, "goingAway")
  /\ wire' \in {[wire EXCEPT ![c] = @ \cup {"away"}], wire}
  /\ UNCHANGED code
  /\ FireDisconnectHooks(c, "firing")
  /\ UNCHANGED <<limiter, env>>

\* A message, ping or pong for the handler; a raw frame only loops.
RecvMessage(c) ==
  /\ At(c, "waiting") /\ ~Signalled
  /\ Goto(c, "open")
  /\ UNCHANGED <<limiter, close, hooks, env>>

\* The peer closes, with or without a code.
RecvClose(c) ==
  /\ At(c, "waiting") /\ ~Signalled
  /\ \/ UNCHANGED close
     \/ /\ code' = [code EXCEPT ![c] = "peer"]
        /\ wire' = [wire EXCEPT ![c] = @ \cup {"peer"}]
  /\ FireDisconnectHooks(c, "closing")
  /\ UNCHANGED <<limiter, env>>

\* The idle timeout elapses or the stream ends.
RecvEnd(c) ==
  /\ At(c, "waiting") /\ ~Signalled
  /\ UNCHANGED close
  /\ FireDisconnectHooks(c, "firing")
  /\ UNCHANGED <<limiter, env>>

\* A protocol error is returned to the handler; no hook runs here.
RecvError(c) ==
  /\ At(c, "waiting") /\ ~Signalled
  /\ Goto(c, Closed(c))
  /\ UNCHANGED <<limiter, close, hooks, env>>

\* The awaited hooks are done and recv returns.
HooksDone(c) ==
  /\ phase[c] \in Firing /\ runtime = "up"
  /\ finished' = [finished EXCEPT ![c] = @ + 1]
  /\ \E q \in AfterHooks(c, phase[c]) : Goto(c, q)
  /\ UNCHANGED <<limiter, close, fired, begun, reported, detached, env>>

\* Another branch of the handler's select! completes, so the recv future is
\* dropped at the await it had reached.
Cancel(c) ==
  /\ c \notin Looping
  /\ phase[c] \in Recv /\ runtime = "up"
  /\ Goto(c, "open")
  /\ UNCHANGED <<limiter, close, hooks, env>>

\* (Mutant) close() does not record its code.
CloseUnrecorded(c) ==
  /\ At(c, "open")
  /\ wire' \in {[wire EXCEPT ![c] = @ \cup {"handler"}], wire}
  /\ UNCHANGED <<phase, limiter, code, hooks, env>>

\* WebSocketConn::close: the code is recorded before the frame is sent, and the
\* send may fail.
Close(c) ==
  /\ At(c, "open")
  /\ code' = [code EXCEPT ![c] = "handler"]
  /\ wire' \in {[wire EXCEPT ![c] = @ \cup {"handler"}], wire}
  /\ UNCHANGED <<phase, limiter, hooks, env>>

\* (Mutant) Drop hands the hooks to a task without looking at hooks_fired.
DropFiresAgain(c) ==
  /\ runtime = "up"
  /\ phase[c] \in IF c \in Looping THEN {"open", "leaving"} ELSE Live
  /\ Goto(c, "ended") /\ Release(c)
  /\ detached' = [detached EXCEPT ![c] = HooksAlive]
  /\ UNCHANGED <<close, fired, begun, finished, reported, env>>

\* The connection is dropped: the handler returns, panics, or is itself
\* cancelled inside recv. Drop spawns a task for hooks that did not fire.
Drop(c) ==
  /\ runtime = "up"
  /\ phase[c] \in IF c \in Looping THEN {"open", "leaving"} ELSE Live
  /\ Goto(c, "ended") /\ Release(c)
  /\ detached' = [detached EXCEPT ![c] = HooksAlive /\ ~fired[c]]
  /\ UNCHANGED <<close, fired, begun, finished, reported, env>>

\* The detached task runs the hooks to the end.
RunDetached(c) ==
  /\ detached[c] /\ runtime = "up"
  /\ detached' = [detached EXCEPT ![c] = FALSE]
  /\ begun' = [begun EXCEPT ![c] = @ + 1]
  /\ finished' = [finished EXCEPT ![c] = @ + 1]
  /\ reported' = [reported EXCEPT ![c] = code[c]]
  /\ UNCHANGED <<phase, limiter, close, fired, env>>

Handler(c) ==
  \/ Spawn(c) \/ Accept(c) \/ Opened(c)
  \/ RecvCall(c) \/ RecvShutdown(c) \/ SendGoingAway(c) \/ RecvMessage(c)
  \/ RecvClose(c) \/ RecvEnd(c) \/ RecvError(c) \/ HooksDone(c) \/ Cancel(c)
  \/ Close(c) \/ Drop(c) \/ RunDetached(c)

-----------------------------------------------------------------------------
(* The environment.                                                         *)

\* AppInner::begin_ws_shutdown.
BeginShutdown ==
  /\ ~shutdown /\ ~appGone /\ runtime = "up"
  /\ shutdown' = TRUE
  /\ UNCHANGED <<conns, appGone, runtime>>

\* The last Arc<AppInner> is dropped; no request is inside it any more.
DropApp ==
  /\ ~appGone /\ runtime = "up"
  /\ \A c \in Conn : phase[c] # "claimed"
  /\ appGone' = TRUE
  /\ UNCHANGED <<conns, shutdown, runtime>>

\* The runtime stops and drops every task where it stands. Drop still runs, but
\* what it spawns is never polled.
StopRuntime ==
  /\ runtime = "up"
  /\ runtime' = "down" /\ appGone' = TRUE
  /\ phase' = [c \in Conn |->
       IF phase[c] \in Live THEN "ended"
       ELSE IF phase[c] \in Handle THEN "rejected" ELSE phase[c]]
  /\ permit' = [c \in Conn |-> NoIp]
  /\ counts' = [i \in Ip |-> 0]
  /\ tracked' = {i \in tracked : counts[i] = 0}
  /\ detached' = [c \in Conn |-> FALSE]
  /\ UNCHANGED <<peer, close, fired, begun, finished, reported, shutdown>>

Next ==
  \/ \E c \in Conn, ip \in Ip \cup {NoIp} : Claim(c, ip) \/ Refuse(c, ip)
  \/ \E c \in Conn : Reject(c) \/ Upgraded(c) \/ Abandon(c)
  \/ \E c \in Conn : Handler(c)
  \/ BeginShutdown \/ DropApp \/ StopRuntime

\* The runtime polls a task that can go on. Nothing is assumed of the peer, of
\* when a handler is done with its own work, nor that anyone stops the server;
\* hooks are assumed to return, and a close frame to be written or to fail.
Fairness ==
  /\ \A c \in Conn : WF_vars(RecvShutdown(c)) /\ WF_vars(SendGoingAway(c))
  /\ \A c \in Conn : WF_vars(HooksDone(c)) /\ WF_vars(RunDetached(c))
  /\ \A c \in Looping : WF_vars(phase[c] = "leaving" /\ Drop(c))

Spec == Init /\ [][Next]_vars
FairSpec == Spec /\ Fairness

-----------------------------------------------------------------------------
(* Properties.                                                              *)

TypeOK ==
  /\ phase \in [Conn -> Phases]
  /\ peer \in [Conn -> Ip \cup {NoIp}]
  /\ permit \in [Conn -> Ip \cup {NoIp}]
  /\ counts \in [Ip -> Nat]
  /\ tracked \in SUBSET Ip
  /\ code \in [Conn -> Codes]
  /\ wire \in [Conn -> SUBSET Codes]
  /\ fired \in [Conn -> BOOLEAN]
  /\ begun \in [Conn -> Nat]
  /\ finished \in [Conn -> Nat]
  /\ reported \in [Conn -> Codes]
  /\ detached \in [Conn -> BOOLEAN]
  /\ shutdown \in BOOLEAN
  /\ appGone \in BOOLEAN
  /\ runtime \in {"up", "down"}

\* The sockets a client has under way: from the claimed upgrade until the
\* handle or the connection is dropped, whichever way that happens.
SocketsOf(ip) ==
  {c \in Conn : peer[c] = ip /\ phase[c] \in Handle \cup Live}

\* A client never has more than Cap sockets under way, however its requests,
\* failed upgrades, panics and closes interleave (WsIpLimiter, ws.rs:334).
CapRespected == \A ip \in Ip : Cardinality(SocketsOf(ip)) <= Cap

\* The shared counter is exactly the number of sockets under way: no path loses
\* a slot (the client would be locked out) or returns one twice (the count
\* would underflow and the cap would give way).
CountsExact == \A ip \in Ip : counts[ip] = Cardinality(SocketsOf(ip))

\* The limiter's map holds an entry only for clients with a socket, so it does
\* not grow with the number of clients ever seen. A cap of 0 refuses everyone
\* after inserting the entry and is excluded.
MapTight == Cap > 0 => tracked = {ip \in Ip : counts[ip] > 0}

\* The disconnect hooks are begun at most once per connection, whichever of
\* recv, a second recv, Drop and the detached task come first, and only for a
\* socket that was opened.
HooksAtMostOnce ==
  \A c \in Conn :
    /\ begun[c] + (IF detached[c] THEN 1 ELSE 0) <= 1
    /\ begun[c] = 1 \/ detached[c] => phase[c] \in Live \cup {"ended"}

\* A connection does not end without its disconnect hooks having been begun or
\* handed to a task, as long as the application is there to own them.
HooksNotForgotten ==
  \A c \in Conn :
    phase[c] = "ended" /\ ~appGone => begun[c] = 1 \/ detached[c]

\* The limiter in one: the cap holds, the counters are exact, the map is tight.
LimiterExact == CapRespected /\ CountsExact /\ MapTight

\* The hooks in one: whatever recv, Drop and the detached task do, and in whatever
\* order, a socket that was opened runs them once and not twice.
HooksExactlyOnce == HooksAtMostOnce /\ HooksNotForgotten

\* A handler that loops on recv and is waiting when the server begins to shut
\* down ends, with its disconnect hooks run to the end, unless the application
\* is gone before (docs/11, "recv also returns Ok(None) when the server begins a
\* graceful shutdown").
ShutdownEndsLoops ==
  \A c \in Looping :
    (phase[c] = "waiting" /\ shutdown)
      ~> (phase[c] = "ended" /\ (finished[c] = 1 \/ appGone))

\* Whoever closes with a code, the peer inside recv or the handler by close(), the
\* hooks are given one, on the inline and on the detached path
\* (WsDisconnectInfo::close_code, ws.rs:455). The server's own 1001 is not
\* recorded anywhere.
CloseCodeReported ==
  [][\A c \in Conn :
       begun'[c] > begun[c] /\ wire'[c] \ {"away"} # {}
         => reported'[c] # "none"]_vars

=============================================================================
