----------------------------- MODULE RealtimeProofs -----------------------------
(****************************************************************************)
(* Proofs about WebSocket, for any connections, addresses and cap, and about *)
(* Hub, for any slots, rooms, channels, messages and capacity.               *)
(*                                                                           *)
(* WebSocket, independent arguments. The limiter: every socket under way,    *)
(* and no other, holds a permit for its own peer, so the counters count      *)
(* exactly those sockets. The hooks: the fired flag and the detached task    *)
(* between them own the one right to run the disconnect hooks.               *)
(*                                                                           *)
(* Hub: the inductive invariant ties the map to the history of the channels  *)
(* and says what a scan under the mutex may rely on although handles and     *)
(* receivers move without the mutex: a room found without handles stays      *)
(* without, because the only way to get the first one is room() itself.      *)
(****************************************************************************)
EXTENDS WebSocket, Hub, FiniteSetTheorems, TLAPS

UnderWay == Handle \cup Live

\* A socket under way holds the slot of its peer; nothing else holds a slot.
PermitsHeld ==
  \A c \in Conn : permit[c] = IF phase[c] \in UnderWay THEN peer[c] ELSE NoIp

\* The limiter: its counts, their bound, and the entries of its map.
LimiterInv ==
  /\ PermitsHeld
  /\ CountsExact
  /\ \A ip \in Ip : counts[ip] <= Cap
  /\ \A ip \in Ip : counts[ip] > 0 => ip \in tracked
  /\ MapTight

\* Who still may run the disconnect hooks of a connection: nobody once they are
\* begun, the connection while it has not fired, the detached task after that.
HooksInv ==
  \A c \in Conn :
    /\ begun[c] <= 1
    /\ phase[c] \notin Live \cup {"ended"} => ~fired[c]
    /\ ~fired[c] /\ phase[c] # "ended" => begun[c] = 0
    /\ detached[c] => phase[c] = "ended" /\ begun[c] = 0
    /\ fired[c] /\ ~appGone => begun[c] = 1
    /\ phase[c] = "ended" /\ ~appGone => begun[c] = 1 \/ detached[c]

IInv == TypeOK /\ LimiterInv /\ HooksInv

LEMMA InitInv == Init => IInv
<1> SUFFICES ASSUME Init PROVE IInv
  OBVIOUS
<1>1. TypeOK
  BY DEF Init, TypeOK, Phases, Codes
<1>2. HooksInv
  BY DEF Init, HooksInv, Live, Recv, Firing
<1>3. \A ip \in Ip : SocketsOf(ip) = {}
  BY DEF Init, SocketsOf, Handle, Live, Recv, Firing
<1>4. LimiterInv
  BY <1>3, FS_EmptySet, CapAssumption
  DEF Init, LimiterInv, PermitsHeld, CountsExact, MapTight, UnderWay, Handle, Live, Recv, Firing
<1> QED BY <1>1, <1>2, <1>4 DEF IInv

-----------------------------------------------------------------------------
(* The limiter.                                                             *)

\* Steps that neither begin nor end a socket.
Stays ==
  /\ UNCHANGED limiter
  /\ \A c \in Conn : phase'[c] \in UnderWay <=> phase[c] \in UnderWay

LEMMA StaysInv ==
  ASSUME LimiterInv, Stays
  PROVE  LimiterInv'
<1>1. \A ip \in Ip : SocketsOf(ip)' = SocketsOf(ip)
  BY DEF Stays, SocketsOf, UnderWay, limiter
<1> QED
  BY <1>1
  DEF LimiterInv, PermitsHeld, CountsExact, MapTight, Stays, limiter, slots

\* A claimed upgrade: one socket and one slot more.
LEMMA ClaimInv ==
  ASSUME IInv, NEW c \in Conn, NEW ip \in Ip \cup {NoIp}, Claim(c, ip)
  PROVE  LimiterInv'
<1> USE DEF IInv, LimiterInv, TypeOK
<1>1. /\ phase[c] = "none" /\ phase' = [phase EXCEPT ![c] = "claimed"]
      /\ peer' = [peer EXCEPT ![c] = ip]
  BY DEF Claim, At, Goto
<1>2. \A i \in Ip : SocketsOf(i)' = IF i = ip THEN SocketsOf(i) \cup {c} ELSE SocketsOf(i)
  BY <1>1 DEF SocketsOf, Handle, Live, Recv, Firing
<1>3. \A i \in Ip : c \notin SocketsOf(i) /\ IsFiniteSet(SocketsOf(i))
  BY <1>1, ConnAssumption, FS_Subset DEF SocketsOf, Handle, Live, Recv, Firing
<1>4. CASE ip \in Ip /\ HasSlot(ip) /\ Acquire(c, ip)
  <2>1. counts' = [counts EXCEPT ![ip] = @ + 1] /\ tracked' = tracked \cup {ip}
        /\ permit' = [permit EXCEPT ![c] = ip] /\ counts[ip] < Cap
    BY <1>4 DEF Acquire, HasSlot
  <2>2. PermitsHeld'
    BY <1>1, <2>1 DEF PermitsHeld, UnderWay, Handle, Live, Recv, Firing
  <2>3. Cardinality(SocketsOf(ip) \cup {c}) = Cardinality(SocketsOf(ip)) + 1
    BY <1>3, <1>4, FS_AddElement
  <2>4. CountsExact'
    BY <1>2, <1>4, <2>1, <2>3 DEF CountsExact
  <2>5. /\ \A i \in Ip : counts'[i] <= Cap
        /\ \A i \in Ip : counts'[i] > 0 => i \in tracked'
        /\ MapTight'
    BY <1>4, <2>1, CapAssumption DEF MapTight
  <2> QED BY <2>2, <2>4, <2>5
<1>5. CASE ip = NoIp /\ UNCHANGED slots
  <2>1. PermitsHeld'
    BY <1>1, <1>5 DEF PermitsHeld, UnderWay, Handle, Live, Recv, Firing, slots
  <2>2. CountsExact'
    BY <1>2, <1>5, IpAssumption DEF CountsExact, slots
  <2> QED BY <1>5, <2>1, <2>2 DEF slots, MapTight
<1> QED BY <1>4, <1>5 DEF Claim

\* A refused upgrade changes nothing but the map of a zero cap.
LEMMA RefuseInv ==
  ASSUME IInv, NEW c \in Conn, NEW ip \in Ip \cup {NoIp}, Refuse(c, ip)
  PROVE  LimiterInv'
<1> USE DEF IInv, LimiterInv, TypeOK
<1>1. /\ phase[c] = "none" /\ phase' = [phase EXCEPT ![c] = "refused"]
      /\ peer' = [peer EXCEPT ![c] = ip] /\ UNCHANGED <<permit, counts>>
      /\ tracked' = tracked \cup {ip} /\ ip \in Ip /\ counts[ip] >= Cap
  BY CapAssumption DEF Refuse, At, Goto, HasSlot
<1>2. \A i \in Ip : SocketsOf(i)' = SocketsOf(i)
  BY <1>1 DEF SocketsOf, Handle, Live, Recv, Firing
<1>3. PermitsHeld'
  BY <1>1 DEF PermitsHeld, UnderWay, Handle, Live, Recv, Firing
<1>4. MapTight'
  BY <1>1, CapAssumption DEF MapTight
<1> QED BY <1>1, <1>2, <1>3, <1>4 DEF CountsExact

\* A socket that ends, wherever it had come to, gives its slot back.
LEMMA ReleaseInv ==
  ASSUME IInv, NEW c \in Conn, Release(c), phase[c] \in UnderWay,
         NEW p \in Finished, Goto(c, p)
  PROVE  LimiterInv' /\ counts' \in [Ip -> Nat]
<1> USE DEF IInv, LimiterInv, TypeOK
<1>1. phase' = [phase EXCEPT ![c] = p] /\ UNCHANGED peer
      /\ permit' = [permit EXCEPT ![c] = NoIp] /\ permit[c] = peer[c]
      /\ p \notin UnderWay
  BY DEF Release, Goto, PermitsHeld, UnderWay, Handle, Live, Recv, Firing, Finished
<1>2. \A i \in Ip : SocketsOf(i)' = IF i = peer[c] THEN SocketsOf(i) \ {c} ELSE SocketsOf(i)
  BY <1>1 DEF SocketsOf, UnderWay
<1>3. /\ \A i \in Ip : IsFiniteSet(SocketsOf(i))
      /\ peer[c] \in Ip => c \in SocketsOf(peer[c])
  BY <1>1, ConnAssumption, FS_Subset DEF SocketsOf, UnderWay
<1>4. PermitsHeld'
  BY <1>1 DEF PermitsHeld
<1>5. CASE peer[c] \in Ip
  <2>1. counts[peer[c]] > 0
    BY <1>3, <1>5, FS_EmptySet, FS_CardinalityType DEF CountsExact
  <2>2. /\ counts' = [counts EXCEPT ![peer[c]] = @ - 1]
        /\ tracked' = IF counts[peer[c]] = 1 THEN tracked \ {peer[c]} ELSE tracked
    BY <1>1, <1>5, <2>1 DEF Release
  <2>3. CountsExact'
    BY <1>2, <1>3, <1>5, <2>2, FS_RemoveElement DEF CountsExact
  <2>4. /\ \A i \in Ip : counts'[i] <= Cap
        /\ \A i \in Ip : counts'[i] > 0 => i \in tracked'
        /\ MapTight'
    BY <1>5, <2>1, <2>2, CapAssumption DEF MapTight
  <2>5. counts' \in [Ip -> Nat]
    BY <1>5, <2>1, <2>2
  <2> QED BY <1>4, <2>3, <2>4, <2>5
<1>6. CASE peer[c] = NoIp
  <2>1. UNCHANGED <<counts, tracked>>
    BY <1>1, <1>6, IpAssumption DEF Release
  <2> QED BY <1>2, <1>4, <1>6, <2>1, IpAssumption DEF CountsExact, MapTight
<1> QED BY <1>5, <1>6

\* The runtime going down ends every socket and returns every slot.
LEMMA StopLimiterInv ==
  ASSUME IInv, StopRuntime
  PROVE  LimiterInv'
<1> USE DEF IInv, LimiterInv, TypeOK, StopRuntime
<1>1. \A c \in Conn : phase'[c] \notin UnderWay
  BY DEF UnderWay, Handle, Live, Recv, Firing
<1>2. \A ip \in Ip : SocketsOf(ip)' = {}
  BY <1>1 DEF SocketsOf, UnderWay
<1>3. PermitsHeld' /\ CountsExact'
  BY <1>1, <1>2, FS_EmptySet DEF PermitsHeld, CountsExact
<1>4. MapTight'
  BY DEF MapTight
<1> QED BY <1>3, <1>4, CapAssumption

-----------------------------------------------------------------------------
(* The hooks.                                                               *)

\* Steps that leave the right to run the hooks where it is: the connection does
\* not end, and nobody fires.
Keeps ==
  /\ UNCHANGED hooks
  /\ appGone => appGone'
  /\ \A c \in Conn :
       \/ phase'[c] = phase[c]
       \/ phase'[c] # "ended" /\ (phase'[c] \in Live => ~fired[c])
            /\ phase[c] \notin Live \cup {"ended"}
       \/ phase[c] \in Live /\ phase'[c] \in Live

LEMMA KeepsInv ==
  ASSUME IInv, Keeps
  PROVE  HooksInv'
BY DEF IInv, HooksInv, Keeps, hooks, TypeOK, Live, Recv, Firing

\* recv firing the hooks, on whichever way out.
LEMMA FireInv ==
  ASSUME IInv, NEW c \in Conn, phase[c] \in Live, NEW p \in Firing, FireDisconnectHooks(c, p),
         UNCHANGED appGone
  PROVE  HooksInv'
<1> USE DEF IInv, HooksInv, TypeOK, Live, Recv, Firing, Goto, Closed, AfterHooks
<1>1. CASE HooksAlive /\ ~fired[c]
  BY <1>1 DEF FireDisconnectHooks
<1>2. CASE ~HooksAlive \/ fired[c]
  <2>1. ~HooksAlive => appGone
    BY DEF HooksAlive
  <2> QED BY <1>2, <2>1 DEF FireDisconnectHooks
<1> QED BY <1>1, <1>2

\* The awaited hooks returning.
LEMMA DoneInv ==
  ASSUME IInv, NEW c \in Conn, HooksDone(c)
  PROVE  HooksInv'
BY DEF IInv, HooksInv, TypeOK, Live, Recv, Firing, HooksDone, Goto, Closed, AfterHooks, env

\* Drop hands the right to a detached task, unless the hooks have fired.
LEMMA DropInv ==
  ASSUME IInv, NEW c \in Conn, Drop(c)
  PROVE  HooksInv'
<1>1. phase[c] \in Live
  BY DEF Drop, Live, Recv, Firing
<1>2. ~HooksAlive => appGone
  BY DEF HooksAlive
<1> QED BY <1>1, <1>2 DEF IInv, HooksInv, TypeOK, Live, Recv, Firing, Drop, Goto, env

\* The detached task uses it up.
LEMMA DetachedInv ==
  ASSUME IInv, NEW c \in Conn, RunDetached(c)
  PROVE  HooksInv'
BY DEF IInv, HooksInv, TypeOK, RunDetached, env

\* The runtime going down takes it from everybody.
LEMMA StopHooksInv ==
  ASSUME IInv, StopRuntime
  PROVE  HooksInv'
BY DEF IInv, HooksInv, TypeOK, StopRuntime, Live, Recv, Firing, Handle

-----------------------------------------------------------------------------
(* Every step.                                                              *)

\* The fire-and-return of recv keeps types, slots and the right to the hooks.
LEMMA FiringInv ==
  ASSUME IInv, NEW c \in Conn, phase[c] \in Live, NEW p \in Firing, FireDisconnectHooks(c, p),
         UNCHANGED <<limiter, env>>,
         code' \in [Conn -> Codes], wire' \in [Conn -> SUBSET Codes]
  PROVE  IInv'
<1>1. TypeOK'
  <2>1. /\ phase' \in [Conn -> Phases] /\ fired' \in [Conn -> BOOLEAN]
        /\ begun' \in [Conn -> Nat] /\ UNCHANGED <<finished, detached>>
    BY DEF IInv, TypeOK, FireDisconnectHooks, Goto, Closed, AfterHooks, Phases, Live, Recv, Firing
  <2>2. reported' \in [Conn -> Codes]
    BY DEF IInv, TypeOK, FireDisconnectHooks
  <2> QED BY <2>1, <2>2 DEF IInv, TypeOK, limiter, slots, env
<1>2. Stays
  BY DEF IInv, TypeOK, Stays, FireDisconnectHooks, Goto, Closed, AfterHooks, UnderWay, Live, Recv, Firing
<1>3. LimiterInv' /\ HooksInv'
  BY <1>2, StaysInv, FireInv DEF IInv, env
<1> QED BY <1>1, <1>3 DEF IInv

\* A socket that ends without having been opened.
LEMMA RejectedInv ==
  ASSUME IInv, NEW c \in Conn, phase[c] \in Handle, Release(c), Goto(c, "rejected"),
         UNCHANGED <<close, hooks, env>>
  PROVE  IInv'
<1>1. LimiterInv' /\ counts' \in [Ip -> Nat]
  BY ReleaseInv DEF UnderWay, Finished
<1>2. TypeOK'
  BY <1>1 DEF IInv, TypeOK, Release, Goto, Phases, Finished, close, hooks, env
<1>3. Keeps
  BY DEF IInv, TypeOK, Keeps, Goto, Handle, Live, Recv, Firing, env
<1> QED BY <1>1, <1>2, <1>3, KeepsInv DEF IInv

\* A handler step that only moves on: neither slots nor hooks are touched.
LEMMA MovesInv ==
  ASSUME IInv, NEW c \in Conn, NEW p \in Phases, Goto(c, p),
         UNCHANGED <<limiter, close, hooks, env>>,
         \/ phase[c] \in Handle /\ p \in Handle
         \/ phase[c] = "greeting" /\ p = "open"
         \/ phase[c] \in Live /\ p \in Live
  PROVE  IInv'
<1>1. TypeOK'
  BY DEF IInv, TypeOK, Goto, limiter, slots, close, hooks, env
<1>2. Stays
  BY DEF IInv, TypeOK, Stays, Goto, UnderWay, Handle, Live, Recv, Firing
<1>3. Keeps
  BY DEF IInv, TypeOK, HooksInv, Keeps, Goto, Handle, Live, Recv, Firing, env
<1> QED BY <1>1, <1>2, <1>3, StaysInv, KeepsInv DEF IInv

\* Every step of the handlers, their clients and their environment keeps the
\* invariant.
LEMMA NextInv == IInv /\ [Next]_vars => IInv'
<1> SUFFICES ASSUME IInv, [Next]_vars PROVE IInv'
  OBVIOUS
<1> USE DEF At
<1>1. ASSUME NEW c \in Conn, NEW ip \in Ip \cup {NoIp}, Claim(c, ip) PROVE IInv'
  <2>1. TypeOK'
    BY <1>1
    DEF IInv, TypeOK, Claim, Acquire, slots, Goto, Phases, Handle, close, hooks, env
  <2>2. Keeps
    BY <1>1 DEF IInv, TypeOK, Claim, Keeps, Goto, Live, Recv, Firing, env
  <2> QED BY <1>1, <2>1, <2>2, ClaimInv, KeepsInv DEF IInv
<1>2. ASSUME NEW c \in Conn, NEW ip \in Ip \cup {NoIp}, Refuse(c, ip) PROVE IInv'
  <2>1. TypeOK'
    BY <1>2 DEF IInv, TypeOK, Refuse, Goto, Phases, Finished, close, hooks, env
  <2>2. Keeps
    BY <1>2 DEF IInv, TypeOK, Refuse, Keeps, Goto, Live, Recv, Firing, env
  <2> QED BY <1>2, <2>1, <2>2, RefuseInv, KeepsInv DEF IInv
<1>3. ASSUME NEW c \in Conn, Reject(c) \/ Abandon(c) PROVE IInv'
  BY <1>3, RejectedInv DEF Reject, Abandon, Handle
<1>4. ASSUME NEW c \in Conn, Spawn(c) \/ Accept(c) \/ Upgraded(c) \/ Opened(c)
      PROVE  IInv'
  BY <1>4, MovesInv DEF Spawn, Accept, Upgraded, Opened, Phases, Handle, Live
<1>5. ASSUME NEW c \in Conn,
             RecvCall(c) \/ RecvShutdown(c) \/ RecvMessage(c) \/ RecvError(c) \/ Cancel(c)
      PROVE  IInv'
  BY <1>5, MovesInv
  DEF RecvCall, RecvShutdown, RecvMessage, RecvError, Cancel, Phases, Live, Recv, Firing, Closed
<1>6. ASSUME NEW c \in Conn, SendGoingAway(c) PROVE IInv'
  <2>1. wire' \in [Conn -> SUBSET Codes] /\ code' \in [Conn -> Codes]
    BY <1>6 DEF IInv, TypeOK, SendGoingAway, Codes
  <2> QED BY <1>6, <2>1, FiringInv DEF SendGoingAway, Live, Recv, Firing
<1>7. ASSUME NEW c \in Conn, RecvClose(c) PROVE IInv'
  <2>1. wire' \in [Conn -> SUBSET Codes] /\ code' \in [Conn -> Codes]
    BY <1>7 DEF IInv, TypeOK, RecvClose, Codes, close
  <2> QED BY <1>7, <2>1, FiringInv DEF RecvClose, Live, Recv, Firing
<1>8. ASSUME NEW c \in Conn, RecvEnd(c) PROVE IInv'
  BY <1>8, FiringInv DEF RecvEnd, Live, Recv, Firing, IInv, TypeOK, close
<1>9. ASSUME NEW c \in Conn, HooksDone(c) PROVE IInv'
  <2>1. TypeOK'
    BY <1>9
    DEF IInv, TypeOK, HooksDone, Goto, Closed, AfterHooks, Phases, Live, limiter, slots, close, env
  <2>2. Stays
    BY <1>9 DEF IInv, TypeOK, HooksDone, Stays, Goto, Closed, AfterHooks, UnderWay, Live, Recv, Firing
  <2> QED BY <1>9, <2>1, <2>2, StaysInv, DoneInv DEF IInv
<1>10. ASSUME NEW c \in Conn, Close(c) PROVE IInv'
  <2>1. TypeOK'
    BY <1>10 DEF IInv, TypeOK, Close, Codes, limiter, slots, hooks, env
  <2>2. Stays /\ Keeps
    BY <1>10 DEF Close, Stays, Keeps, env
  <2> QED BY <2>1, <2>2, StaysInv, KeepsInv DEF IInv
<1>11. ASSUME NEW c \in Conn, Drop(c) PROVE IInv'
  <2>1. phase[c] \in UnderWay /\ Release(c) /\ Goto(c, "ended")
    BY <1>11 DEF Drop, UnderWay, Live, Recv, Firing
  <2>2. LimiterInv' /\ counts' \in [Ip -> Nat]
    BY <2>1, ReleaseInv DEF Finished
  <2>3. TypeOK'
    BY <1>11, <2>1, <2>2
    DEF IInv, TypeOK, Drop, Release, Goto, Phases, Finished, close, env
  <2> QED BY <1>11, <2>2, <2>3, DropInv DEF IInv
<1>12. ASSUME NEW c \in Conn, RunDetached(c) PROVE IInv'
  <2>1. TypeOK'
    BY <1>12 DEF IInv, TypeOK, RunDetached, limiter, slots, close, env
  <2>2. Stays
    BY <1>12 DEF RunDetached, Stays
  <2> QED BY <1>12, <2>1, <2>2, StaysInv, DetachedInv DEF IInv
<1>13. CASE BeginShutdown \/ DropApp
  <2>1. TypeOK'
    BY <1>13
    DEF IInv, TypeOK, BeginShutdown, DropApp, conns
  <2>2. Stays /\ Keeps
    BY <1>13 DEF IInv, TypeOK, BeginShutdown, DropApp, Stays, Keeps, conns, limiter, slots, hooks
  <2> QED BY <2>1, <2>2, StaysInv, KeepsInv DEF IInv
<1>14. CASE StopRuntime
  <2>1. TypeOK'
    BY <1>14 DEF IInv, TypeOK, StopRuntime, Phases, Finished, close
  <2> QED BY <1>14, <2>1, StopLimiterInv, StopHooksInv DEF IInv
<1>15. CASE UNCHANGED vars
  <2>1. TypeOK'
    BY <1>15 DEF IInv, TypeOK, vars, conns, env
  <2>2. Stays /\ Keeps
    BY <1>15 DEF Stays, Keeps, vars, conns, env, limiter, slots, hooks
  <2> QED BY <2>1, <2>2, StaysInv, KeepsInv DEF IInv
<1> QED
  BY <1>1, <1>2, <1>3, <1>4, <1>5, <1>6, <1>7, <1>8, <1>9, <1>10, <1>11, <1>12,
     <1>13, <1>14, <1>15
  DEF Next, Handler

\* The inductive invariant holds in every reachable state.
THEOREM Inductive == Spec => []IInv
BY InitInv, NextInv, PTL DEF Spec

\* Every variable keeps its type; above all, the counters never underflow.
THEOREM TypeCorrect == Spec => []TypeOK
<1>1. IInv => TypeOK
  BY DEF IInv
<1> QED BY <1>1, Inductive, PTL

\* For any number of clients and connections, each counter of the limiter is the
\* number of sockets its client has under way (try_acquire and the permit's Drop).
THEOREM CountsExactHolds == Spec => []CountsExact
<1>1. IInv => CountsExact
  BY DEF IInv, LimiterInv
<1> QED BY <1>1, Inductive, PTL

\* No client ever has more than max_connections_per_ip sockets under way.
THEOREM CapRespectedHolds == Spec => []CapRespected
<1>1. IInv => CapRespected
  BY DEF IInv, LimiterInv, CountsExact, CapRespected
<1> QED BY <1>1, Inductive, PTL

\* The limiter's map does not outgrow the clients that have a socket.
THEOREM MapTightHolds == Spec => []MapTight
<1>1. IInv => MapTight
  BY DEF IInv, LimiterInv
<1> QED BY <1>1, Inductive, PTL

\* The limiter is exact for any number of clients: its cap, counters and map.
THEOREM LimiterExactHolds == Spec => []LimiterExact
<1>1. CapRespected /\ CountsExact /\ MapTight => LimiterExact
  BY DEF LimiterExact
<1> QED BY <1>1, CapRespectedHolds, CountsExactHolds, MapTightHolds, PTL

\* The disconnect hooks of a connection are begun at most once, whatever recv,
\* Drop and the detached task do and in whatever order.
THEOREM HooksAtMostOnceHolds == Spec => []HooksAtMostOnce
<1>1. IInv => HooksAtMostOnce
  BY DEF IInv, TypeOK, HooksInv, HooksAtMostOnce
<1> QED BY <1>1, Inductive, PTL

\* No connection ends without its hooks while the application lives.
THEOREM HooksNotForgottenHolds == Spec => []HooksNotForgotten
<1>1. IInv => HooksNotForgotten
  BY DEF IInv, HooksInv, HooksNotForgotten
<1> QED BY <1>1, Inductive, PTL

\* A socket that was opened runs its hooks once, for any number of connections.
THEOREM HooksExactlyOnceHolds == Spec => []HooksExactlyOnce
<1>1. HooksAtMostOnce /\ HooksNotForgotten => HooksExactlyOnce
  BY DEF HooksExactlyOnce
<1> QED BY <1>1, HooksAtMostOnceHolds, HooksNotForgottenHolds, PTL


-----------------------------------------------------------------------------
(* The close code.                                                          *)

\* Whoever put a close frame on the wire, the server's own aside, left its code.
CodeRecorded == \A c \in Conn : wire[c] \ {"away"} # {} => code[c] # "none"

\* Hooks begun in this step are given the code the connection has after it.
GivenCode == \A c \in Conn : begun'[c] > begun[c] => reported'[c] = code'[c]

\* Hooks begun inline, inside recv.
LEMMA FiringGivesCode ==
  ASSUME TypeOK, NEW c \in Conn, NEW p, FireDisconnectHooks(c, p)
  PROVE  GivenCode
BY DEF TypeOK, FireDisconnectHooks, GivenCode

\* Every step keeps the codes recorded and passes them on.
LEMMA NextCode ==
  ASSUME TypeOK, CodeRecorded, [Next]_vars
  PROVE  CodeRecorded' /\ GivenCode
<1> USE DEF TypeOK, CodeRecorded
<1>1. CASE UNCHANGED <<close, hooks>>
  BY <1>1 DEF GivenCode, close, hooks
<1>2. ASSUME NEW c \in Conn, SendGoingAway(c) PROVE CodeRecorded' /\ GivenCode
  BY <1>2, FiringGivesCode DEF SendGoingAway
<1>3. ASSUME NEW c \in Conn, RecvClose(c) PROVE CodeRecorded' /\ GivenCode
  BY <1>3, FiringGivesCode DEF RecvClose, close
<1>4. ASSUME NEW c \in Conn, RecvEnd(c) PROVE CodeRecorded' /\ GivenCode
  BY <1>4, FiringGivesCode DEF RecvEnd, close
<1>5. ASSUME NEW c \in Conn, Close(c) PROVE CodeRecorded' /\ GivenCode
  BY <1>5 DEF Close, GivenCode, hooks
<1>6. ASSUME NEW c \in Conn, RunDetached(c) PROVE CodeRecorded' /\ GivenCode
  BY <1>6 DEF RunDetached, GivenCode, close
<1>7. ASSUME NEW c \in Conn, HooksDone(c) \/ Drop(c)
      PROVE  CodeRecorded' /\ GivenCode
  BY <1>7 DEF HooksDone, Drop, GivenCode, close
<1>8. CASE StopRuntime
  BY <1>8 DEF StopRuntime, GivenCode, close
<1>9. CASE BeginShutdown \/ DropApp \/ UNCHANGED vars
  BY <1>1, <1>9 DEF BeginShutdown, DropApp, vars, conns, close, hooks
<1>10. ASSUME NEW c \in Conn, NEW ip \in Ip \cup {NoIp}, Claim(c, ip) \/ Refuse(c, ip)
       PROVE  CodeRecorded' /\ GivenCode
  BY <1>1, <1>10 DEF Claim, Refuse
<1>11. ASSUME NEW c \in Conn,
              \/ Reject(c) \/ Upgraded(c) \/ Abandon(c) \/ Spawn(c) \/ Accept(c)
              \/ Opened(c) \/ RecvCall(c) \/ RecvShutdown(c) \/ RecvMessage(c)
              \/ RecvError(c) \/ Cancel(c)
       PROVE  CodeRecorded' /\ GivenCode
  BY <1>1, <1>11
  DEF Reject, Upgraded, Abandon, Spawn, Accept, Opened, RecvCall, RecvShutdown,
      RecvMessage, RecvError, Cancel
<1> QED
  BY <1>2, <1>3, <1>4, <1>5, <1>6, <1>7, <1>8, <1>9, <1>10, <1>11 DEF Next, Handler

\* The disconnect hooks are never left without the code of a close by the peer or
\* by close(), on the inline and on the detached path (WsDisconnectInfo).
THEOREM CloseCodeReportedAlways == Spec => CloseCodeReported
<1>1. Init => CodeRecorded
  BY DEF Init, CodeRecorded
<1>2. TypeOK /\ CodeRecorded /\ [Next]_vars => CodeRecorded'
  BY NextCode
<1>3. TypeOK /\ CodeRecorded /\ [Next]_vars
        => [\A c \in Conn :
              begun'[c] > begun[c] /\ wire'[c] \ {"away"} # {}
                => reported'[c] # "none"]_vars
  BY NextCode DEF CodeRecorded, GivenCode
<1> QED BY <1>1, <1>2, <1>3, TypeCorrect, PTL DEF Spec, CloseCodeReported

-----------------------------------------------------------------------------
(* The hub                                                                  *)

\* A channel in the map is the one its room was created with.
MapBorn == \A r \in Room : rooms[r] # NoChan => born[rooms[r]] = r

\* The scan: the room being created is not in the map, its creator holds no
\* handle, and the rooms still to be looked at are in the map.
ScanHolds ==
  Scanning =>
    /\ rooms[lock.id] = NoChan
    /\ handle[lock.slot] = NoChan
    /\ \A r \in lock.todo : rooms[r] # NoChan
    /\ lock.suspect # NoRoom => lock.suspect \in lock.todo

\* Between the two reads of retain() nobody can get hold of the suspect.
SuspectUnreachable ==
  Scanning /\ lock.suspect # NoRoom => Handles(rooms[lock.suspect]) = {}

\* Rooms that were dead when the scan began stay dead until it reaches them.
DeadStayDead ==
  Scanning =>
    \A r \in lock.dead : rooms[r] # NoChan => r \in lock.todo /\ Dead(rooms[r])

HubInv ==
  /\ HubTypeOK
  /\ MapBorn
  /\ OneChannelPerRoom
  /\ ScanHolds
  /\ SuspectUnreachable
  /\ DeadStayDead

-----------------------------------------------------------------------------
(* Type correctness.                                                        *)

\* A push, with or without the loss of the oldest message, keeps the bound.
LEMMA PushType ==
  ASSUME NEW q \in Seq(Msg), NEW m \in Msg, Len(q) <= Capacity
  PROVE  Push(q, m) \in Seq(Msg) /\ Len(Push(q, m)) <= Capacity
<1>1. CASE Len(q) < Capacity
  BY <1>1, CapacityAssumption DEF Push
<1>2. CASE ~(Len(q) < Capacity)
  <2>1. q # <<>>
    BY <1>2, CapacityAssumption
  <2>2. Tail(q) \in Seq(Msg) /\ Len(Tail(q)) = Len(q) - 1
    BY <2>1
  <2> QED BY <1>2, <2>2, CapacityAssumption DEF Push
<1> QED BY <1>1, <1>2

\* Every step keeps the types.
LEMMA TypeStep == HubTypeOK /\ [HubNext]_hub => HubTypeOK'
<1> SUFFICES ASSUME HubTypeOK, [HubNext]_hub PROVE HubTypeOK'
  OBVIOUS
<1> USE NoneAssumption, CapacityAssumption DEF HubTypeOK, ScanState, Scanning
<1>1. ASSUME NEW s \in Slot, NEW r \in Room, RoomFound(s, r) PROVE HubTypeOK'
  BY <1>1 DEF RoomFound
<1>2. ASSUME NEW s \in Slot, NEW r \in Room, RoomMissing(s, r) PROVE HubTypeOK'
  BY <1>2 DEF RoomMissing
<1>3. ASSUME NEW r \in Room, ReadFirst(r) PROVE HubTypeOK'
  BY <1>3 DEF ReadFirst
<1>4. ASSUME NEW r \in Room, ReadSecond(r) PROVE HubTypeOK'
  BY <1>4 DEF ReadSecond
<1>5. ASSUME NEW ch \in Chan, RoomCreated(ch) PROVE HubTypeOK'
  BY <1>5 DEF RoomCreated, Free
<1>6. ASSUME NEW s \in Slot, NEW t \in Slot, CloneHandle(s, t) PROVE HubTypeOK'
  BY <1>6 DEF CloneHandle
<1>7. ASSUME NEW s \in Slot, NEW t \in Slot, Resubscribe(s, t) PROVE HubTypeOK'
  BY <1>7 DEF Resubscribe
<1>8. ASSUME NEW s \in Slot, DropHandle(s) PROVE HubTypeOK'
  BY <1>8 DEF DropHandle
<1>9. ASSUME NEW s \in Slot, Subscribe(s) PROVE HubTypeOK'
  BY <1>9 DEF Subscribe
<1>10. ASSUME NEW s \in Slot, DropReceiver(s) PROVE HubTypeOK'
  BY <1>10 DEF DropReceiver
<1>11. ASSUME NEW s \in Slot, Receive(s) PROVE HubTypeOK'
  BY <1>11 DEF Receive
<1>12. ASSUME NEW s \in Slot, NEW m \in Msg, Broadcast(s, m) PROVE HubTypeOK'
  BY <1>12, PushType DEF Broadcast
<1>13. CASE UNCHANGED hub
  BY <1>13 DEF hub
<1> QED
  BY <1>1, <1>2, <1>3, <1>4, <1>5, <1>6, <1>7, <1>8, <1>9, <1>10, <1>11, <1>12,
     <1>13
  DEF HubNext

-----------------------------------------------------------------------------
(* The inductive invariant.                                                 *)

LEMMA HubInvInit == HubInit => HubInv
<1> SUFFICES ASSUME HubInit PROVE HubInv
  OBVIOUS
<1> USE NoneAssumption DEF HubInit, Free, Scanning
<1>1. HubTypeOK
  BY CapacityAssumption DEF HubTypeOK, ScanState
<1>2. MapBorn
  BY DEF MapBorn
<1>3. \A ch \in Chan : Dead(ch)
  BY DEF Dead, Handles, Receivers
<1> QED
  BY <1>1, <1>2, <1>3
  DEF HubInv, OneChannelPerRoom, ScanHolds, SuspectUnreachable, DeadStayDead

\* A channel nobody refers to gains no user unless room() hands it out: handles
\* and receivers are made from handles and receivers only.
Quiet ==
  /\ UNCHANGED <<rooms, born, lock>>
  /\ \A ch \in Chan : Handles(ch) = {} => Handles(ch)' = {}
  /\ \A ch \in Chan : Dead(ch) => Dead(ch)'
  /\ Scanning /\ handle[lock.slot] = NoChan => handle'[lock.slot] = NoChan

\* What slots do on their own is quiet.
LEMMA SlotsAreQuiet ==
  ASSUME HubTypeOK,
         \/ \E s, t \in Slot : CloneHandle(s, t) \/ Resubscribe(s, t)
         \/ \E s \in Slot :
              DropHandle(s) \/ Subscribe(s) \/ DropReceiver(s) \/ Receive(s)
         \/ \E s \in Slot, m \in Msg : Broadcast(s, m)
         \/ UNCHANGED hub
  PROVE  Quiet
<1> USE NoneAssumption DEF HubTypeOK, Quiet, Dead, Handles, Receivers, Scanning
<1>1. ASSUME NEW s \in Slot, NEW t \in Slot, CloneHandle(s, t) PROVE Quiet
  BY <1>1 DEF CloneHandle, Running
<1>2. ASSUME NEW s \in Slot, NEW t \in Slot, Resubscribe(s, t) PROVE Quiet
  BY <1>2 DEF Resubscribe
<1>3. ASSUME NEW s \in Slot, DropHandle(s) PROVE Quiet
  BY <1>3 DEF DropHandle
<1>4. ASSUME NEW s \in Slot, Subscribe(s) PROVE Quiet
  BY <1>4 DEF Subscribe
<1>5. ASSUME NEW s \in Slot, DropReceiver(s) PROVE Quiet
  BY <1>5 DEF DropReceiver
<1>6. ASSUME NEW s \in Slot, Receive(s) PROVE Quiet
  BY <1>6 DEF Receive
<1>7. ASSUME NEW s \in Slot, NEW m \in Msg, Broadcast(s, m) PROVE Quiet
  BY <1>7 DEF Broadcast
<1>8. CASE UNCHANGED hub
  BY <1>8 DEF hub
<1> QED BY <1>1, <1>2, <1>3, <1>4, <1>5, <1>6, <1>7, <1>8

\* Quiet steps keep every part of the invariant.
LEMMA QuietInv == HubInv /\ HubTypeOK' /\ Quiet => HubInv'
<1> SUFFICES ASSUME HubInv, HubTypeOK', Quiet PROVE HubInv'
  OBVIOUS
<1> USE DEF HubInv, Quiet, Scanning
<1>1. MapBorn'
  BY DEF MapBorn
<1>2. OneChannelPerRoom'
  BY DEF OneChannelPerRoom
<1>3. ScanHolds'
  BY DEF ScanHolds
<1>4. SuspectUnreachable'
  BY DEF SuspectUnreachable, ScanHolds, HubTypeOK, ScanState
<1>5. DeadStayDead'
  BY DEF DeadStayDead, HubTypeOK, ScanState
<1> QED BY <1>1, <1>2, <1>3, <1>4, <1>5

\* Hub::room finding the id.
LEMMA FoundInv ==
  ASSUME HubInv, HubTypeOK', NEW s \in Slot, NEW r \in Room, RoomFound(s, r)
  PROVE  HubInv'
<1> USE NoneAssumption DEF HubInv, RoomFound, Scanning
<1>1. MapBorn'
  BY DEF MapBorn
<1>2. OneChannelPerRoom'
  BY DEF OneChannelPerRoom, MapBorn, Dead, Handles, Receivers, HubTypeOK
<1> QED
  BY <1>1, <1>2 DEF ScanHolds, SuspectUnreachable, DeadStayDead

\* Hub::room taking the mutex for a new id.
LEMMA MissingInv ==
  ASSUME HubInv, HubTypeOK', NEW s \in Slot, NEW r \in Room, RoomMissing(s, r)
  PROVE  HubInv'
<1> USE NoneAssumption DEF HubInv, RoomMissing, Scanning
<1>1. MapBorn' /\ OneChannelPerRoom'
  BY DEF MapBorn, OneChannelPerRoom, Dead, Handles, Receivers
<1>2. ScanHolds'
  BY DEF ScanHolds
<1>3. SuspectUnreachable' /\ DeadStayDead'
  BY DEF SuspectUnreachable, DeadStayDead, Dead, Handles, Receivers
<1> QED BY <1>1, <1>2, <1>3

\* The first read: a room without handles becomes the suspect.
LEMMA ReadFirstInv ==
  ASSUME HubInv, HubTypeOK', NEW r \in Room, ReadFirst(r)
  PROVE  HubInv'
<1> USE NoneAssumption DEF HubInv, ReadFirst, Scanning, Look
<1>1. MapBorn' /\ OneChannelPerRoom'
  BY DEF MapBorn, OneChannelPerRoom, Dead, Handles, Receivers
<1>2. CASE Handles(rooms[r]) # {}
  <2>1. lock' = [lock EXCEPT !.todo = @ \ {r}]
    BY <1>2
  <2>2. ScanHolds' /\ SuspectUnreachable'
    BY <2>1 DEF ScanHolds, SuspectUnreachable, HubTypeOK, ScanState
  <2>3. DeadStayDead'
    BY <1>2, <2>1 DEF DeadStayDead, HubTypeOK, ScanState, Dead, Handles, Receivers
  <2> QED BY <1>1, <2>2, <2>3
<1>3. CASE Handles(rooms[r]) = {}
  <2>1. lock' = [lock EXCEPT !.suspect = r]
    BY <1>3
  <2>2. ScanHolds' /\ SuspectUnreachable'
    BY <1>3, <2>1 DEF ScanHolds, SuspectUnreachable, HubTypeOK, ScanState, Handles
  <2>3. DeadStayDead'
    BY <2>1 DEF DeadStayDead, HubTypeOK, ScanState, Dead, Handles, Receivers
  <2> QED BY <1>1, <2>2, <2>3
<1> QED BY <1>2, <1>3

\* The second read: the suspect is evicted only when nobody refers to it.
LEMMA ReadSecondInv ==
  ASSUME HubInv, HubTypeOK', NEW r \in Room, ReadSecond(r)
  PROVE  HubInv'
<1> USE NoneAssumption DEF HubInv, ReadSecond, Scanning, Look
<1>1. lock.suspect = r /\ r \in lock.todo /\ Handles(rooms[r]) = {}
  BY DEF SuspectUnreachable, ScanHolds
<1>2. MapBorn'
  BY DEF MapBorn, HubTypeOK
<1>3. OneChannelPerRoom'
  BY <1>1 DEF OneChannelPerRoom, MapBorn, Dead, Handles, Receivers, HubTypeOK
<1>4. ScanHolds'
  BY DEF ScanHolds, HubTypeOK, ScanState
<1>5. SuspectUnreachable'
  BY DEF SuspectUnreachable, HubTypeOK, ScanState
<1>6. DeadStayDead'
  BY <1>1 DEF DeadStayDead, HubTypeOK, ScanState, Dead, Handles, Receivers
<1> QED BY <1>2, <1>3, <1>4, <1>5, <1>6

\* The insertion: the new channel was referred to by nobody and is the room's
\* only one.
LEMMA CreatedInv ==
  ASSUME HubInv, HubTypeOK', NEW ch \in Chan, RoomCreated(ch)
  PROVE  HubInv'
<1> USE NoneAssumption DEF HubInv, RoomCreated, Scanning, Unused
<1>1. MapBorn'
  BY DEF MapBorn, HubTypeOK
<1>2. OneChannelPerRoom'
  BY DEF OneChannelPerRoom, MapBorn, ScanHolds, Dead, Handles, Receivers, HubTypeOK
<1>3. ~Scanning'
  BY DEF Free
<1> QED
  BY <1>1, <1>2, <1>3 DEF ScanHolds, SuspectUnreachable, DeadStayDead

\* Every step of the hub and of its users keeps the invariant.
LEMMA HubInvNext == HubInv /\ [HubNext]_hub => HubInv'
<1> SUFFICES ASSUME HubInv, [HubNext]_hub PROVE HubInv'
  OBVIOUS
<1>1. HubTypeOK /\ HubTypeOK'
  BY TypeStep DEF HubInv
<1>2. CASE \E s \in Slot, r \in Room : RoomFound(s, r) \/ RoomMissing(s, r)
  BY <1>1, <1>2, FoundInv, MissingInv
<1>3. CASE \E r \in Room : ReadFirst(r) \/ ReadSecond(r)
  BY <1>1, <1>3, ReadFirstInv, ReadSecondInv
<1>4. CASE \E ch \in Chan : RoomCreated(ch)
  BY <1>1, <1>4, CreatedInv
<1>5. ASSUME Quiet PROVE HubInv'
  BY <1>1, <1>5, QuietInv
<1> QED BY <1>1, <1>2, <1>3, <1>4, <1>5, SlotsAreQuiet DEF HubNext

\* The inductive invariant holds in every reachable state.
THEOREM HubInductive == HubSpec => []HubInv
BY HubInvInit, HubInvNext, PTL DEF HubSpec

\* Every variable keeps its type.
THEOREM HubTypeCorrect == HubSpec => []HubTypeOK
<1>1. HubInv => HubTypeOK
  BY DEF HubInv
<1> QED BY <1>1, HubInductive, PTL

\* For any number of users and rooms, the eviction in Hub::room never takes a
\* room from somebody who can still send to it or receive from it, although it
\* reads the two counters at different times.
THEOREM OneChannelPerRoomHolds == HubSpec => []OneChannelPerRoom
<1>1. HubInv => OneChannelPerRoom
  BY DEF HubInv
<1> QED BY <1>1, HubInductive, PTL

\* The scan leaves no room in the map that was dead when the mutex was taken.
THEOREM DeadRoomsEvictedHolds == HubSpec => []DeadRoomsEvicted
<1>1. HubInv => DeadRoomsEvicted
  BY DEF HubInv, DeadStayDead, DeadRoomsEvicted, HubTypeOK, ScanState
<1> QED BY <1>1, HubInductive, PTL

-----------------------------------------------------------------------------
(* The hub implements the fan-out by room name.                             *)

\* Channels in use are told apart by their room's name.
LEMMA NamesTellApart ==
  ASSUME HubInv, NEW c \in Chan, NEW d \in Chan, ~Dead(c), ~Dead(d), born[c] = born[d]
  PROVE  c = d
BY DEF HubInv, OneChannelPerRoom

\* What a slot refers to has a name, and it is a room.
LEMMA UsedNamed ==
  ASSUME HubInv, NEW s \in Slot
  PROVE  /\ handle[s] # NoChan => handle[s] \in Chan /\ ~Dead(handle[s])
                                  /\ Name(handle[s]) \in Room
         /\ rx[s] # NoChan => rx[s] \in Chan /\ ~Dead(rx[s]) /\ Name(rx[s]) \in Room
BY DEF HubInv, HubTypeOK, OneChannelPerRoom, Dead, Handles, Receivers, Name

LEMMA InitAbstract == HubInit => Abstract!Init
BY DEF HubInit, Abstract!Init, Name

\* Every step is a step of the fan-out or is not seen there.
LEMMA NextAbstract == HubInv /\ [HubNext]_hub => [Abstract!Next]_(Abstract!vars)
<1> SUFFICES ASSUME HubInv, [HubNext]_hub PROVE [Abstract!Next]_(Abstract!vars)
  OBVIOUS
<1> USE NoneAssumption
<1>1. ASSUME NEW s \in Slot, NEW r \in Room, RoomFound(s, r) PROVE Abstract!Next
  <2>1. Abstract!Join(s, r)
    BY <1>1 DEF Name, RoomFound, Abstract!Join, HubInv, MapBorn, HubTypeOK
  <2> QED BY <2>1 DEF Abstract!Next
<1>2. ASSUME NEW s \in Slot, NEW r \in Room, RoomMissing(s, r)
      PROVE  UNCHANGED Abstract!vars
  BY <1>2 DEF RoomMissing, Name, Abstract!vars
<1>3. ASSUME NEW r \in Room, ReadFirst(r) \/ ReadSecond(r)
      PROVE  UNCHANGED Abstract!vars
  BY <1>3 DEF ReadFirst, ReadSecond, Name, Abstract!vars
<1>4. ASSUME NEW ch \in Chan, RoomCreated(ch) PROVE Abstract!Next
  <2>1. \A s \in Slot : handle[s] # ch /\ rx[s] # ch
    BY <1>4 DEF RoomCreated, Unused, Dead, Handles, Receivers
  <2>2. PICK t \in Slot, r \in Room :
          /\ handle[t] = NoChan
          /\ born' = [born EXCEPT ![ch] = r]
          /\ handle' = [handle EXCEPT ![t] = ch]
          /\ UNCHANGED <<rx, inbox>>
    BY <1>4 DEF RoomCreated, HubInv, HubTypeOK, ScanState, ScanHolds, Scanning
  <2>3. /\ handle \in [Slot -> Chan \cup {NoChan}] /\ rx \in [Slot -> Chan \cup {NoChan}]
        /\ born \in [Chan -> Room \cup {NoRoom}]
    BY DEF HubInv, HubTypeOK
  <2>4. \A s \in Slot : Name(rx[s])' = Name(rx[s])
    BY <2>1, <2>2, <2>3 DEF Name
  <2>5. Name(handle[t]) = NoRoom
    BY <2>2 DEF Name
  <2>6. \A s \in Slot : Name(handle[s])' = IF s = t THEN r ELSE Name(handle[s])
    BY <2>1, <2>2, <2>3 DEF Name
  <2>7. [s \in Slot |-> Name(handle[s])]' =
          [[s \in Slot |-> Name(handle[s])] EXCEPT ![t] = r]
    BY <2>6, Zenon
  <2>8. [s \in Slot |-> Name(rx[s])]' = [s \in Slot |-> Name(rx[s])]
    BY <2>4
  <2>9. Abstract!Join(t, r)
    BY <2>2, <2>5, <2>7, <2>8 DEF Abstract!Join
  <2> QED BY <2>9 DEF Abstract!Next
<1>5. ASSUME NEW s \in Slot, NEW t \in Slot, CloneHandle(s, t) PROVE Abstract!Next
  <2>1. Name(handle[s]) \in Room
    BY <1>5, UsedNamed DEF CloneHandle
  <2>2. Abstract!Join(t, Name(handle[s]))
    BY <1>5 DEF Name, CloneHandle, Abstract!Join, HubInv, HubTypeOK
  <2> QED BY <2>1, <2>2 DEF Abstract!Next
<1>6. ASSUME NEW s \in Slot, NEW t \in Slot, Resubscribe(s, t) PROVE Abstract!Next
  <2>1. Name(rx[s]) \in Room
    BY <1>6, UsedNamed DEF Resubscribe
  <2>2. Abstract!Subscribe(t, Name(rx[s]))
    BY <1>6 DEF Name, Resubscribe, Abstract!Subscribe, HubInv, HubTypeOK
  <2> QED BY <2>1, <2>2 DEF Abstract!Next
<1>7. ASSUME NEW s \in Slot, DropHandle(s) PROVE Abstract!Next
  <2>1. Abstract!Leave(s)
    BY <1>7 DEF Name, DropHandle, Abstract!Leave, HubInv, HubTypeOK
  <2> QED BY <2>1 DEF Abstract!Next
<1>8. ASSUME NEW s \in Slot, Subscribe(s) PROVE Abstract!Next
  <2>1. Name(handle[s]) \in Room
    BY <1>8, UsedNamed DEF Subscribe
  <2>2. Abstract!Subscribe(s, Name(handle[s]))
    BY <1>8 DEF Name, Subscribe, Abstract!Subscribe, HubInv, HubTypeOK
  <2> QED BY <2>1, <2>2 DEF Abstract!Next
<1>9. ASSUME NEW s \in Slot, DropReceiver(s) PROVE Abstract!Next
  <2>1. Abstract!Unsubscribe(s)
    BY <1>9 DEF Name, DropReceiver, Abstract!Unsubscribe, HubInv, HubTypeOK
  <2> QED BY <2>1 DEF Abstract!Next
<1>10. ASSUME NEW s \in Slot, Receive(s) PROVE Abstract!Next
  <2>1. Abstract!Receive(s)
    BY <1>10 DEF Name, Receive, Abstract!Receive, HubInv, HubTypeOK
  <2> QED BY <2>1 DEF Abstract!Next
<1>11. ASSUME NEW s \in Slot, NEW m \in Msg, Broadcast(s, m) PROVE Abstract!Next
  <2>1. handle[s] \in Chan /\ ~Dead(handle[s]) /\ Name(handle[s]) \in Room
    BY <1>11, UsedNamed DEF Broadcast
  <2>2. ASSUME NEW t \in Slot
        PROVE  rx[t] = handle[s] <=> Name(rx[t]) = Name(handle[s])
    <3>1. CASE rx[t] = NoChan
      BY <2>1, <3>1 DEF Name
    <3>2. CASE rx[t] # NoChan
      <4>1. rx[t] \in Chan /\ ~Dead(rx[t])
        BY <3>2, UsedNamed
      <4>2. born[rx[t]] = born[handle[s]] => rx[t] = handle[s]
        BY <2>1, <4>1, NamesTellApart
      <4> QED BY <2>1, <4>1, <4>2 DEF Name
    <3> QED BY <3>1, <3>2
  <2>3. \A t \in Slot : Name(rx[t])' = Name(rx[t]) /\ Name(handle[t])' = Name(handle[t])
    BY <1>11 DEF Broadcast, Name
  <2>4. Abstract!Publish(Name(handle[s]), m)
    BY <1>11, <2>2, <2>3 DEF Broadcast, Abstract!Publish, Abstract!Push, Push
  <2> QED BY <2>1, <2>4 DEF Abstract!Next
<1>12. CASE UNCHANGED hub
  BY <1>12 DEF hub, Abstract!vars, Name
<1> QED
  BY <1>1, <1>2, <1>3, <1>4, <1>5, <1>6, <1>7, <1>8, <1>9, <1>10, <1>11, <1>12
  DEF HubNext

\* Whatever is created, evicted and created again underneath, users of the hub
\* see rooms that are names: a message broadcast to a room reaches all of its
\* current subscribers and no one else (realtime.rs:1).
THEOREM HubImplementsFanout == HubSpec => ImplementsFanout
BY InitAbstract, NextAbstract, HubInductive, PTL DEF HubSpec, ImplementsFanout, Abstract!Spec

=============================================================================
