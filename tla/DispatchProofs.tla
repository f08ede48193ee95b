----------------------------- MODULE DispatchProofs -----------------------------
(****************************************************************************)
(* Proofs about Dispatch, for any chain of middlewares, any number of hooks, *)
(* and whatever the user's code answers, fails with or panics in.            *)
(*                                                                           *)
(* The invariant fixes what the hooks were told by the place the request is  *)
(* in: which loop is how far (AppOK, RouteOK), what is being returned there  *)
(* (FormOK), and which errors were reported to whom (ErrorsOK).              *)
(****************************************************************************)
EXTENDS Dispatch, TLAPS

\* The first m of n hooks in reverse order.
Backward(m, n) == [i \in 1 .. m |-> n + 1 - i]

Lost == {"torn", "dropped"}

Results == [form : {"nothing", "response", "error"}, kind : Kinds \cup {"none"}, id : Nat]

TypeOK ==
  /\ config \in [app : Nat, route : Nat, handlers : BOOLEAN, boundary : BOOLEAN]
  /\ at \in Stages /\ level \in Nat /\ next \in Nat \ {0}
  /\ matched \in BOOLEAN /\ result \in Results /\ errors \in Nat

\* What is being returned, by place: nothing on the way to the handler.
FormOK ==
  /\ at \in {"request", "down", "scopedRequest", "handler"} => result = Nothing
  /\ at \in {"panic", "scopedResponse", "response", "responded"} => result.form = "response"
  /\ at \in {"error", "scopedError", "render", "topError", "topRender"} => result.form = "error"
  /\ at = "up" => result.form # "nothing"
  /\ result.form = "error" => result.id \in 1 .. errors /\ result.kind \in Kinds

\* The app's request and response hooks.
AppOK ==
  /\ at = "request" => next <= config.app + 1 /\ Ran("request", "app", 0) = Upto(next - 1)
  /\ at \notin {"request"} \cup Lost => Ran("request", "app", 0) = Upto(config.app)
  /\ at \notin {"response", "responded"} \cup Lost => Ran("response", "app", 0) = <<>>
  /\ at = "response" => next <= config.app + 1 /\ Ran("response", "app", 0) = Upto(next - 1)
  /\ at = "responded" => Ran("response", "app", 0) = Upto(config.app)

\* The route's.
RouteOK ==
  /\ at \in {"scopedRequest", "handler", "scopedError", "panic", "scopedResponse"} => matched
  /\ at \in {"request", "down"} => ~matched /\ Ran("request", "route", 0) = <<>>
  /\ at = "scopedRequest" =>
       next <= config.route + 1 /\ Ran("request", "route", 0) = Upto(next - 1)
  /\ at \in {"handler", "error", "scopedError", "render", "panic", "scopedResponse"} /\ matched =>
       Ran("request", "route", 0) = Upto(config.route)
  /\ at \in (Inside \cup {"request"}) \ {"scopedResponse", "up"} =>
       Ran("response", "route", 0) = <<>>
  /\ at = "scopedResponse" =>
       next <= config.route + 1 /\ Ran("response", "route", 0) = Backward(next - 1, config.route)
  /\ ScopedHooksNest

\* No hook of the app was told of error i.
Untold(i) == Ran("error", "app", i) = <<>> /\ Ran("validation", "app", i) = <<>>

\* The first n hooks were told of the error that is being returned, as what it is.
Telling(n) ==
  /\ result.kind = "validation" => Ran("validation", "app", result.id) = Upto(n)
                                   /\ Ran("error", "app", result.id) = <<>>
  /\ result.kind # "validation" => Ran("error", "app", result.id) = Upto(n)
                                   /\ Ran("validation", "app", result.id) = <<>>

\* All of them were told of error i, as one of the two.
Told(i) ==
  /\ Ran("error", "app", i) \o Ran("validation", "app", i) = Upto(config.app)
  /\ Ran("error", "app", i) = <<>> \/ Ran("validation", "app", i) = <<>>

ErrorsOK ==
  /\ \A i \in Nat : i > errors => Untold(i)
  /\ at = "up" /\ result.form = "error" => Untold(result.id)
  /\ at \in {"error", "topError"} => next <= config.app + 1 /\ Telling(next - 1)
  /\ at \in {"scopedError", "render", "topRender"} => Told(result.id)
  /\ result.form = "response" /\ result.id # 0 => Told(result.id)

IInv == TypeOK /\ FormOK /\ AppOK /\ RouteOK /\ ErrorsOK

-----------------------------------------------------------------------------
(* Which hooks ran                                                          *)

LEMMA Empty ==
  /\ Upto(0) = <<>>
  /\ \A n \in Nat : Backward(0, n) = <<>>
  BY DEF Upto, Backward

LEMMA UptoNext ==
  ASSUME NEW n \in Nat \ {0}
  PROVE  Append(Upto(n - 1), n) = Upto(n)
<1>1. Upto(n - 1) \in Seq(Nat) /\ Len(Upto(n - 1)) = n - 1
  BY DEF Upto
<1> QED BY <1>1 DEF Upto

LEMMA BackwardNext ==
  ASSUME NEW n \in Nat, NEW m \in Nat \ {0}
  PROVE  Append(Backward(m - 1, n), n + 1 - m) = Backward(m, n)
<1>1. Backward(m - 1, n) \in Seq(Int) /\ Len(Backward(m - 1, n)) = m - 1
  BY DEF Backward
<1> QED BY <1>1 DEF Backward

LEMMA Beginnings ==
  ASSUME NEW n \in Nat, NEW m \in Nat, m <= n
  PROVE  IsPrefix(Upto(m), Upto(n)) /\ IsPrefix(Backward(m, n), Downto(n))
<1>1. /\ Upto(m) \in Seq(Nat) /\ Len(Upto(m)) = m
      /\ Upto(n) \in Seq(Nat) /\ Len(Upto(n)) = n
  BY DEF Upto
<1>2. /\ Backward(m, n) \in Seq(Int) /\ Len(Backward(m, n)) = m
      /\ Downto(n) \in Seq(Int) /\ Len(Downto(n)) = n
  BY DEF Backward, Downto
<1>3. IsPrefix(Upto(m), Upto(n))
  BY <1>1 DEF IsPrefix, Upto
<1>4. IsPrefix(Backward(m, n), Downto(n))
  BY <1>2 DEF IsPrefix, Backward, Downto
<1> QED BY <1>3, <1>4

LEMMA RunsOne ==
  ASSUME NEW e, NEW b, NEW i, NEW n, Runs(e, b, i, n)
  PROVE  /\ Ran(e, b, i)' = Append(Ran(e, b, i), n)
         /\ \A x, y, z : x # e \/ y # b \/ z # i => Ran(x, y, z)' = Ran(x, y, z)
<1>1. /\ DOMAIN log' = DOMAIN log \cup {<<e, b, i>>}
      /\ log'[<<e, b, i>>] = Append(Ran(e, b, i), n)
      /\ \A k \in DOMAIN log : k # <<e, b, i>> => log'[k] = log[k]
  BY DEF Runs
<1>2. \A x, y, z : <<x, y, z>> = <<e, b, i>> <=> x = e /\ y = b /\ z = i
  OBVIOUS
<1> QED BY <1>1, <1>2 DEF Ran

LEMMA RunsNone ==
  ASSUME UNCHANGED log
  PROVE  \A x, y, z : Ran(x, y, z)' = Ran(x, y, z)
BY DEF Ran

LEMMA AllTold ==
  ASSUME TypeOK, Telling(config.app)
  PROVE  Told(result.id)
<1> DEFINE s == Upto(config.app)
<1>1. s \in Seq(Nat)
  BY DEF TypeOK, Upto
<1> HIDE DEF s
<1>2. s \o <<>> = s /\ <<>> \o s = s
  BY <1>1
<1> QED BY <1>2 DEF Telling, Told, s

LEMMA LoopPlaces ==
  /\ DOMAIN Loops = {"request", "scopedRequest", "error", "scopedError", "panic",
                     "scopedResponse", "topError", "response"}
  /\ \A l \in {"request", "error", "panic", "topError", "response"} : Loops[l] = "app"
  /\ \A l \in {"scopedRequest", "scopedError", "scopedResponse"} : Loops[l] = "route"
BY DEF Loops

LEMMA InitInv == Init => IInv
<1> SUFFICES ASSUME Init
             PROVE  IInv
  OBVIOUS
<1>1. \A x, y, z : Ran(x, y, z) = <<>>
  BY DEF Init, Ran
<1>2. TypeOK /\ FormOK
  <2>1. /\ config \in [app : Nat, route : Nat, handlers : BOOLEAN, boundary : BOOLEAN]
        /\ level \in Nat /\ next \in Nat \ {0} /\ matched \in BOOLEAN /\ errors \in Nat
    <3>1. Counts \subseteq Nat
      BY CountsAssumption
    <3>2. config \in [app : Counts, route : Counts, handlers : BOOLEAN, boundary : BOOLEAN]
      BY DEF Init
    <3>3. level = 0 /\ next = 1 /\ matched = FALSE /\ errors = 0
      BY DEF Init
    <3>4. config \in [app : Nat, route : Nat, handlers : BOOLEAN, boundary : BOOLEAN]
      BY <3>1, <3>2
    <3>5. matched \in BOOLEAN
      BY <3>3
    <3>6. level \in Nat /\ next \in Nat \ {0} /\ errors \in Nat
      BY <3>3
    <3> QED BY <3>4, <3>5, <3>6
  <2>2. at \in Stages
    BY LoopPlaces DEF Init, Stages
  <2>3. result \in Results /\ result = Nothing /\ result.form = "nothing"
    BY DEF Init, Results, Nothing
  <2> QED BY <2>1, <2>2, <2>3 DEF TypeOK, FormOK, Init
<1>3. at = "request" /\ next = 1 /\ result.form = "nothing"
  BY DEF Init, Nothing
<1>4. AppOK
  BY <1>1, <1>2, <1>3, Empty DEF AppOK, TypeOK
<1>5. ScopedHooksNest
  BY <1>1, <1>2, Beginnings, Empty DEF ScopedHooksNest, TypeOK, Upto, Downto, IsPrefix
<1>6. RouteOK
  BY <1>1, <1>3, <1>5 DEF RouteOK, Inside, Init
<1>7. ErrorsOK
  BY <1>1, <1>3 DEF ErrorsOK, Untold
<1> QED BY <1>2, <1>4, <1>6, <1>7 DEF IInv

-----------------------------------------------------------------------------
(* The steps.                                                               *)

LEMMA HooksDoneInv ==
  ASSUME IInv, HooksDone
  PROVE  IInv'
<1>1. /\ at \in DOMAIN Loops /\ next > Number /\ at' = After /\ next' = 1
      /\ UNCHANGED <<config, level, matched, result, errors, log>>
  BY DEF HooksDone, Goto, fixed
<1>2. \A x, y, z : Ran(x, y, z)' = Ran(x, y, z)
  BY <1>1, RunsNone
<1>3. TypeOK /\ FormOK /\ AppOK /\ RouteOK /\ ErrorsOK
  BY DEF IInv
<1>4. \/ at = "request" /\ at' = "down" /\ next = config.app + 1
      \/ at = "scopedRequest" /\ at' = "handler" /\ next = config.route + 1
      \/ at = "error" /\ at' \in {"scopedError", "render"} /\ next = config.app + 1
      \/ at = "scopedError" /\ at' = "render"
      \/ at \in {"panic", "scopedResponse"} /\ at' = "up"
      \/ at = "topError" /\ at' = "topRender" /\ next = config.app + 1
      \/ at = "response" /\ at' = "responded" /\ next = config.app + 1
  BY <1>1, <1>3, LoopPlaces DEF After, Number, TypeOK, AppOK, RouteOK, ErrorsOK
<1>5. at' = "scopedError" => matched
  BY <1>1, <1>3, LoopPlaces DEF After
<1>6. TypeOK'
  BY <1>1, <1>3, <1>4 DEF TypeOK, Stages, Inside, Final
<1>7. FormOK'
  BY <1>1, <1>3, <1>4 DEF FormOK, Nothing
<1>8. AppOK'
  BY <1>1, <1>2, <1>3, <1>4 DEF AppOK, Lost, TypeOK
<1>9. RouteOK'
  <2>2. ScopedHooksNest'
    BY <1>1, <1>2, <1>3 DEF RouteOK, ScopedHooksNest
  <2> QED BY <1>1, <1>2, <1>3, <1>4, <1>5, <2>2 DEF RouteOK, Inside, TypeOK
<1>10. ErrorsOK'
  <2>1. /\ config' = config /\ errors' = errors /\ result' = result
        /\ config.app + 1 - 1 = config.app
    BY <1>1, <1>3 DEF TypeOK
  <2>2. \A i : /\ Told(i) => Told(i)'
               /\ Untold(i) => Untold(i)'
    BY <1>2, <2>1 DEF Told, Untold
  <2>3. at \in {"error", "topError"} => Told(result.id)
    <3> SUFFICES ASSUME at \in {"error", "topError"}
                 PROVE  Told(result.id)
      OBVIOUS
    <3>1. next - 1 = config.app /\ Telling(next - 1)
      BY <1>3, <1>4 DEF ErrorsOK, TypeOK
    <3> QED BY <1>3, <3>1, AllTold
  <2> QED BY <1>3, <1>4, <2>1, <2>2, <2>3 DEF ErrorsOK, FormOK
<1> QED BY <1>6, <1>7, <1>8, <1>9, <1>10 DEF IInv

\* One hook runs: only what its loop is about goes on, and by one.
LEMMA FireHookInv ==
  ASSUME IInv, FireHook
  PROVE  IInv'
<1>1. /\ at \in DOMAIN Loops /\ next <= Number /\ next' = next + 1
      /\ UNCHANGED <<config, at, level, matched, result, errors>>
  BY DEF FireHook, fixed
<1>2. TypeOK /\ FormOK /\ AppOK /\ RouteOK /\ ErrorsOK
  BY DEF IInv
<1>3. PICK e, b, i, n : /\ Runs(e, b, i, n) /\ e = Event /\ b = Loops[at] /\ n = Nth
                        /\ i = IF result.form = "error" THEN result.id ELSE 0
  BY DEF FireHook
<1>4. /\ Ran(e, b, i)' = Append(Ran(e, b, i), n)
      /\ \A x, y, z : x # e \/ y # b \/ z # i => Ran(x, y, z)' = Ran(x, y, z)
  BY <1>3, RunsOne
<1>5. \/ at = "request" /\ e = "request" /\ b = "app" /\ i = 0 /\ n = next /\ next <= config.app
      \/ at = "scopedRequest" /\ e = "request" /\ b = "route" /\ i = 0 /\ n = next
         /\ next <= config.route
      \/ at \in {"error", "topError"} /\ b = "app" /\ i = result.id /\ n = next
         /\ next <= config.app
         /\ e = (IF result.kind = "validation" THEN "validation" ELSE "error")
      \/ at = "scopedError" /\ e \in {"validation", "error"} /\ b = "route"
      \/ at = "panic" /\ e = "panic"
      \/ at = "scopedResponse" /\ e = "response" /\ b = "route" /\ i = 0
         /\ n = config.route + 1 - next /\ next <= config.route
      \/ at = "response" /\ e = "response" /\ b = "app" /\ i = 0 /\ n = next
         /\ next <= config.app
  BY <1>1, <1>2, <1>3, LoopPlaces DEF Event, Nth, Number, FormOK, Nothing
<1>6. TypeOK'
  BY <1>1, <1>2 DEF TypeOK
<1>7. FormOK'
  BY <1>1, <1>2 DEF FormOK, Nothing
<1>8. /\ Append(Upto(next - 1), next) = Upto(next) /\ next' - 1 = next
      /\ next <= config.app => next' <= config.app + 1
      /\ next <= config.route => next' <= config.route + 1
  <2>1. next \in Nat \ {0} /\ config.app \in Nat /\ config.route \in Nat
    BY <1>2 DEF TypeOK
  <2>2. Append(Upto(next - 1), next) = Upto(next)
    BY <2>1, UptoNext
  <2>3. next' = next + 1
    BY <1>1
  <2> QED BY <2>1, <2>2, <2>3
<1>9. AppOK'
  <2>1. CASE at \in {"request", "response"}
    BY <1>1, <1>2, <1>4, <1>5, <1>8, <2>1 DEF AppOK, Lost
  <2>2. CASE at \notin {"request", "response"}
    BY <1>1, <1>2, <1>4, <1>5, <2>2 DEF AppOK, Lost
  <2> QED BY <2>1, <2>2
<1>10. RouteOK'
  <2>1. ScopedHooksNest'
    <3>1. CASE at = "scopedRequest"
      <4>1. Ran("request", "route", 0)' = Upto(next) /\ next <= config.route
        BY <1>2, <1>4, <1>5, <1>8, <3>1 DEF RouteOK
      <4>2. Ran("response", "route", 0)' = <<>>
        BY <1>2, <1>4, <1>5, <3>1 DEF RouteOK, Inside
      <4>3. IsPrefix(Upto(next), Upto(config.route)) /\ IsPrefix(<<>>, Downto(config.route))
        BY <1>2, <4>1, Beginnings, Empty DEF TypeOK
      <4> QED BY <1>1, <4>1, <4>2, <4>3 DEF ScopedHooksNest
    <3>2. CASE at = "scopedResponse"
      <4>1. Ran("request", "route", 0)' = Upto(config.route) /\ next <= config.route
        BY <1>2, <1>4, <1>5, <3>2 DEF RouteOK
      <4>2. Ran("response", "route", 0)' = Backward(next, config.route)
        BY <1>2, <1>4, <1>5, <3>2, BackwardNext DEF RouteOK, TypeOK
      <4>3. /\ IsPrefix(Upto(config.route), Upto(config.route))
            /\ IsPrefix(Backward(next, config.route), Downto(config.route))
        BY <1>2, <4>1, Beginnings DEF TypeOK
      <4> QED BY <1>1, <4>1, <4>2, <4>3 DEF ScopedHooksNest
    <3>3. CASE at \notin {"scopedRequest", "scopedResponse"}
      BY <1>1, <1>2, <1>4, <1>5, <3>3 DEF RouteOK, ScopedHooksNest
    <3> QED BY <3>1, <3>2, <3>3
  <2>2. CASE at = "scopedRequest"
    BY <1>1, <1>2, <1>4, <1>5, <1>8, <2>1, <2>2 DEF RouteOK, TypeOK
  <2>3. CASE at = "scopedResponse"
    <3>1. Ran("response", "route", 0)' = Backward(next, config.route)
      BY <1>2, <1>4, <1>5, <2>3, BackwardNext DEF RouteOK, TypeOK
    <3>2. matched' /\ Ran("request", "route", 0)' = Upto(config.route)
      BY <1>1, <1>2, <1>4, <1>5, <2>3 DEF RouteOK
    <3>3. next' <= config'.route + 1 /\ Backward(next - 1, config.route)' = Backward(next, config.route)
      BY <1>1, <1>5, <1>8, <2>3
    <3> QED BY <1>1, <2>1, <2>3, <3>1, <3>2, <3>3 DEF RouteOK, Inside
  <2>4. CASE at \notin {"scopedRequest", "scopedResponse"}
    BY <1>1, <1>2, <1>4, <1>5, <2>1, <2>4 DEF RouteOK
  <2> QED BY <2>2, <2>3, <2>4
<1>11. ErrorsOK'
  <2>1. CASE at \in {"error", "topError"}
    <3>1. result.id \in 1 .. errors /\ result.form = "error"
      BY <1>2, <2>1 DEF FormOK
    <3>2. ASSUME NEW j \in Nat, j > errors
          PROVE  Untold(j)'
      <4>1. j # result.id /\ Untold(j)
        BY <1>2, <3>1, <3>2 DEF ErrorsOK, TypeOK
      <4> QED BY <1>4, <1>5, <2>1, <4>1 DEF Untold
    <3>3. PICK m, r : m = next /\ r = result
      OBVIOUS
    <3>4. /\ r.kind = "validation" => /\ Ran("validation", "app", r.id)' = Upto(m)
                                      /\ Ran("error", "app", r.id)' = <<>>
          /\ r.kind # "validation" => /\ Ran("error", "app", r.id)' = Upto(m)
                                      /\ Ran("validation", "app", r.id)' = <<>>
      BY <1>2, <1>4, <1>5, <1>8, <2>1, <3>3 DEF ErrorsOK, Telling
    <3>5. Telling(next - 1)'
      BY <1>1, <1>8, <3>3, <3>4 DEF Telling
    <3> QED BY <1>1, <1>2, <1>5, <1>8, <2>1, <3>1, <3>2, <3>5 DEF ErrorsOK
  <2>2. CASE at \notin {"error", "topError"}
    <3>1. \A j : (Untold(j) => Untold(j)') /\ (Told(j) => Told(j)')
      BY <1>1, <1>4, <1>5, <2>2 DEF Told, Untold
    <3> QED BY <1>1, <1>2, <2>2, <3>1 DEF ErrorsOK
  <2> QED BY <2>1, <2>2
<1> QED BY <1>6, <1>7, <1>9, <1>10, <1>11 DEF IInv

\* What is owed to errors goes on holding where no hook runs and none is made.
LEMMA ErrorsSame ==
  ASSUME UNCHANGED <<config, log>>
  PROVE  \A j : (Untold(j) => Untold(j)') /\ (Told(j) => Told(j)')
<1>1. \A x, y, z : Ran(x, y, z)' = Ran(x, y, z)
  BY RunsNone
<1> QED BY <1>1 DEF Untold, Told

LEMMA Fresh ==
  ASSUME TypeOK, NEW kind \in Kinds, result' = Failure(kind), errors' = errors + 1
  PROVE  /\ result' \in Results /\ errors' \in Nat
         /\ result'.form = "error" /\ result'.kind = kind /\ result'.id = errors + 1
         /\ result'.id \in 1 .. errors'
<1>1. errors \in Nat /\ errors + 1 \in Nat
  BY DEF TypeOK
<1> QED BY <1>1 DEF Failure, Results

\* A middleware lets a result of its own go outwards: with Own, or when its deadline passes.
LEMMA OwnInv ==
  ASSUME IInv, at \in Inside, at' = "up", next' \in Nat \ {0}, level' \in Nat, Own,
         UNCHANGED <<config, matched, log>>
  PROVE  IInv'
<1>1. TypeOK /\ FormOK /\ AppOK /\ RouteOK /\ ErrorsOK
  BY DEF IInv
<1>2. \A x, y, z : Ran(x, y, z)' = Ran(x, y, z)
  BY RunsNone
<1>3. at # "request" /\ at \notin Final
  BY DEF Inside, Final
<1>4. \/ result' = Response(0) /\ errors' = errors
      \/ \E kind \in Kinds : result' = Failure(kind) /\ errors' = errors + 1
  BY DEF Own
<1>5. Response(0) \in Results /\ Response(0).form = "response" /\ Response(0).id = 0
  BY DEF Response, Results
<1>6. /\ result' \in Results /\ errors' \in Nat /\ errors' >= errors
      /\ \/ result'.form = "response" /\ result'.id = 0
         \/ /\ result'.form = "error" /\ result'.kind \in Kinds /\ result'.id \in 1 .. errors'
            /\ result'.id = errors + 1
  <2>1. errors \in Nat
    BY <1>1 DEF TypeOK
  <2>2. CASE result' = Response(0) /\ errors' = errors
    BY <1>5, <2>1, <2>2
  <2>3. ASSUME NEW kind \in Kinds, result' = Failure(kind), errors' = errors + 1
        PROVE  /\ result' \in Results /\ errors' \in Nat /\ errors' >= errors
               /\ result'.form = "error" /\ result'.kind \in Kinds
               /\ result'.id \in 1 .. errors' /\ result'.id = errors + 1
    BY <1>1, <2>1, <2>3, Fresh
  <2> QED BY <1>4, <2>2, <2>3
<1>7. TypeOK'
  BY <1>1, <1>6 DEF TypeOK, Stages, Inside
<1>8. FormOK'
  BY <1>6 DEF FormOK
<1>9. AppOK'
  BY <1>1, <1>2, <1>3 DEF AppOK, Lost, Final, Inside
<1>10. RouteOK'
  BY <1>1, <1>2 DEF RouteOK, ScopedHooksNest
<1>11. ErrorsOK'
  <2>1. \A j \in Nat : j > errors => Untold(j)'
    BY <1>1, ErrorsSame DEF ErrorsOK
  <2>2. PICK r : r = result'
    OBVIOUS
  <2>3. r.form = "error" => Untold(r.id)'
    <3>1. errors + 1 \in Nat /\ errors + 1 > errors
      BY <1>1 DEF TypeOK
    <3> QED BY <1>6, <2>1, <2>2, <3>1
  <2>4. \A j \in Nat : j > errors' => Untold(j)'
    BY <1>1, <1>6, <2>1 DEF TypeOK
  <2> QED BY <1>6, <2>2, <2>3, <2>4 DEF ErrorsOK, Untold
<1> QED BY <1>7, <1>8, <1>9, <1>10, <1>11 DEF IInv

\* Only the call stack moves.
LEMMA LevelInv ==
  ASSUME IInv, level' \in Nat, UNCHANGED <<config, at, next, matched, result, errors, log>>
  PROVE  IInv'
<1>1. TypeOK /\ FormOK /\ AppOK /\ RouteOK /\ ErrorsOK
  BY DEF IInv
<1>2. \A x, y, z : Ran(x, y, z)' = Ran(x, y, z)
  BY RunsNone
<1>3. TypeOK' /\ FormOK'
  BY <1>1 DEF TypeOK, FormOK, Nothing
<1>4. AppOK' /\ RouteOK'
  BY <1>1, <1>2 DEF AppOK, RouteOK, ScopedHooksNest
<1>5. ErrorsOK'
  BY <1>1, <1>2 DEF ErrorsOK, Untold, Told, Telling
<1> QED BY <1>3, <1>4, <1>5 DEF IInv

\* A panic outside the boundary, or the end of the connection.
LEMMA LostInv ==
  ASSUME IInv, at' \in Lost, next' = 1, UNCHANGED <<config, level, matched, result, errors, log>>
  PROVE  IInv'
<1>1. TypeOK /\ FormOK /\ AppOK /\ RouteOK /\ ErrorsOK
  BY DEF IInv
<1>2. \A x, y, z : Ran(x, y, z)' = Ran(x, y, z)
  BY RunsNone
<1>3. at' \in Stages /\ at' \notin Inside \cup {"request"}
  BY DEF Lost, Stages, Final, Inside
<1>4. TypeOK' /\ FormOK'
  BY <1>1, <1>3 DEF TypeOK, FormOK, Nothing, Lost
<1>5. AppOK' /\ RouteOK'
  BY <1>1, <1>2, <1>3 DEF AppOK, RouteOK, ScopedHooksNest, Lost, Inside
<1>6. ErrorsOK'
  BY <1>1, ErrorsSame DEF ErrorsOK, Lost
<1> QED BY <1>4, <1>5, <1>6 DEF IInv

LEMMA ChainDoneInv ==
  ASSUME IInv, ChainDone
  PROVE  IInv'
<1>1. /\ at = "up" /\ next' = 1 /\ UNCHANGED <<config, level, matched, result, errors, log>>
      /\ at' = IF result.form = "error" THEN "topError" ELSE "response"
  BY DEF ChainDone, Goto, fixed
<1>2. TypeOK /\ FormOK /\ AppOK /\ RouteOK /\ ErrorsOK
  BY DEF IInv
<1>3. \A x, y, z : Ran(x, y, z)' = Ran(x, y, z)
  BY <1>1, RunsNone
<1>4. TypeOK'
  BY <1>1, <1>2, LoopPlaces DEF TypeOK, Stages
<1>6. FormOK'
  BY <1>1, <1>2 DEF FormOK, TypeOK, Results
<1>7. AppOK'
  BY <1>1, <1>2, <1>3, Empty DEF AppOK, Lost, TypeOK
<1>8. RouteOK'
  BY <1>1, <1>2, <1>3 DEF RouteOK, ScopedHooksNest, Inside
<1>9. ErrorsOK'
  BY <1>1, <1>2, <1>3, ErrorsSame, Empty DEF ErrorsOK, Telling, Untold, TypeOK
<1> QED BY <1>4, <1>6, <1>7, <1>8, <1>9 DEF IInv

LEMMA FoundInv ==
  ASSUME IInv, Found
  PROVE  IInv'
<1>1. /\ at = "down" /\ at' = "scopedRequest" /\ next' = 1 /\ matched' = TRUE
      /\ UNCHANGED <<config, level, result, errors, log>>
  BY DEF Found, Goto, fixed
<1>2. TypeOK /\ FormOK /\ AppOK /\ RouteOK /\ ErrorsOK
  BY DEF IInv
<1>3. \A x, y, z : Ran(x, y, z)' = Ran(x, y, z)
  BY <1>1, RunsNone
<1>4. TypeOK'
  BY <1>1, <1>2, LoopPlaces DEF TypeOK, Stages
<1>5. FormOK'
  BY <1>1, <1>2 DEF FormOK, Nothing
<1>6. AppOK'
  BY <1>1, <1>2, <1>3 DEF AppOK, Lost
<1>7. RouteOK'
  BY <1>1, <1>2, <1>3, Empty DEF RouteOK, ScopedHooksNest, Inside, TypeOK
<1>8. ErrorsOK'
  BY <1>1, <1>2, ErrorsSame DEF ErrorsOK
<1> QED BY <1>4, <1>5, <1>6, <1>7, <1>8 DEF IInv

\* A failure begins its way through the error hooks: 404 and 405, or the handler's.
LEMMA FailsInv ==
  ASSUME IInv, NEW kind \in Kinds, result' = Failure(kind), errors' = errors + 1,
         at' = "error", next' = 1, UNCHANGED <<config, level, matched, log>>,
         at = "handler" \/ at = "down"
  PROVE  IInv'
<1>1. TypeOK /\ FormOK /\ AppOK /\ RouteOK /\ ErrorsOK
  BY DEF IInv
<1>2. \A x, y, z : Ran(x, y, z)' = Ran(x, y, z)
  BY RunsNone
<1>3. /\ result' \in Results /\ errors' \in Nat /\ result'.form = "error"
      /\ result'.kind = kind /\ result'.id = errors + 1 /\ result'.id \in 1 .. errors'
  BY <1>1, Fresh
<1>4. TypeOK'
  BY <1>1, <1>3, LoopPlaces DEF TypeOK, Stages
<1>5. FormOK'
  BY <1>3 DEF FormOK
<1>6. AppOK'
  BY <1>1, <1>2 DEF AppOK, Lost
<1>7. RouteOK'
  BY <1>1, <1>2 DEF RouteOK, ScopedHooksNest, Inside
<1>8. ErrorsOK'
  <2>1. \A j \in Nat : j > errors => Untold(j)'
    BY <1>1, ErrorsSame DEF ErrorsOK
  <2>2. PICK r : r = result'
    OBVIOUS
  <2>3. Ran("error", "app", r.id)' = <<>> /\ Ran("validation", "app", r.id)' = <<>>
    <3>1. errors + 1 \in Nat /\ errors + 1 > errors
      BY <1>1 DEF TypeOK
    <3> QED BY <1>3, <2>1, <2>2, <3>1 DEF Untold
  <2>4. Telling(next - 1)'
    BY <2>2, <2>3, Empty DEF Telling
  <2>5. \A j \in Nat : j > errors' => Untold(j)'
    BY <1>1, <2>1 DEF TypeOK
  <2>6. next' <= config'.app + 1
    BY <1>1 DEF TypeOK
  <2> QED BY <1>3, <2>4, <2>5, <2>6 DEF ErrorsOK
<1> QED BY <1>4, <1>5, <1>6, <1>7, <1>8 DEF IInv

LEMMA NotFoundInv ==
  ASSUME IInv, NotFound
  PROVE  IInv'
<1>1. /\ at = "down" /\ at' = "error" /\ next' = 1 /\ result' = Failure("plain")
      /\ errors' = errors + 1 /\ UNCHANGED <<config, level, matched, log>>
  BY DEF NotFound, Goto, fixed
<1>2. "plain" \in Kinds
  BY DEF Kinds
<1> QED BY <1>1, <1>2, FailsInv

\* The handler's answer, or that of the panic boundary.
LEMMA AnswersInv ==
  ASSUME IInv, at = "handler", at' \in {"scopedResponse", "panic", "up"}, next' = 1,
         result' = Response(0), UNCHANGED <<config, level, matched, errors, log>>
  PROVE  IInv'
<1>1. TypeOK /\ FormOK /\ AppOK /\ RouteOK /\ ErrorsOK
  BY DEF IInv
<1>2. \A x, y, z : Ran(x, y, z)' = Ran(x, y, z)
  BY RunsNone
<1>3. result' \in Results /\ result'.form = "response" /\ result'.id = 0
  BY DEF Response, Results
<1>4. TypeOK'
  BY <1>1, <1>3, LoopPlaces DEF TypeOK, Stages, Inside
<1>5. FormOK'
  BY <1>3 DEF FormOK
<1>6. AppOK'
  BY <1>1, <1>2 DEF AppOK, Lost
<1>7. RouteOK'
  BY <1>1, <1>2, Empty DEF RouteOK, ScopedHooksNest, Inside, TypeOK
<1>8. ErrorsOK'
  BY <1>1, <1>3, ErrorsSame DEF ErrorsOK
<1> QED BY <1>4, <1>5, <1>6, <1>7, <1>8 DEF IInv

LEMMA HandlerReturnsInv ==
  ASSUME IInv, HandlerReturns
  PROVE  IInv'
<1>1. at = "handler" /\ UNCHANGED <<config, level, matched, log>>
  BY DEF HandlerReturns, fixed
<1>2. CASE result' = Response(0) /\ UNCHANGED errors /\ Goto("scopedResponse")
  BY <1>1, <1>2, AnswersInv DEF Goto
<1>3. ASSUME NEW kind \in Kinds, result' = Failure(kind), errors' = errors + 1, Goto("error")
      PROVE  IInv'
  BY <1>1, <1>3, FailsInv DEF Goto
<1> QED BY <1>2, <1>3 DEF HandlerReturns

LEMMA HandlerPanicsInv ==
  ASSUME IInv, HandlerPanics
  PROVE  IInv'
<1>1. at = "handler" /\ UNCHANGED <<config, level, matched, errors, log>> /\ next' = 1
  BY DEF HandlerPanics, Goto
<1>2. \/ result' = Response(0) /\ at' \in {"up", "panic"}
      \/ at' = "torn" /\ UNCHANGED result
  BY DEF HandlerPanics, Goto
<1> QED BY <1>1, <1>2, AnswersInv, LostInv DEF Lost

\* Rendering turns the error, of which all hooks were told, into a response.
LEMMA RenderInv ==
  ASSUME IInv, Render
  PROVE  IInv'
<1>1. /\ at \in {"render", "topRender"} /\ next' = 1
      /\ at' = (IF at = "topRender" THEN "response" ELSE IF matched THEN "scopedResponse" ELSE "up")
      /\ result' = Response(result.id)
      /\ UNCHANGED <<config, level, matched, errors>>
      /\ (\E i : Runs("handler", "app", i, 1)) \/ UNCHANGED log
  BY DEF Render, Goto, fixed
<1>2. TypeOK /\ FormOK /\ AppOK /\ RouteOK /\ ErrorsOK
  BY DEF IInv
<1>3. \A x, y, z : x # "handler" => Ran(x, y, z)' = Ran(x, y, z)
  BY <1>1, RunsOne, RunsNone
<1>4. /\ result' \in Results /\ result'.form = "response" /\ result'.id = result.id
      /\ Told(result.id)
  BY <1>1, <1>2 DEF Response, Results, TypeOK, ErrorsOK
<1>5. TypeOK'
  BY <1>1, <1>2, <1>4, LoopPlaces DEF TypeOK, Stages, Inside
<1>6. FormOK'
  BY <1>1, <1>4 DEF FormOK
<1>7. AppOK'
  BY <1>1, <1>2, <1>3, Empty DEF AppOK, Lost, TypeOK
<1>8. RouteOK'
  BY <1>1, <1>2, <1>3, Empty DEF RouteOK, ScopedHooksNest, Inside, TypeOK
<1>9. ErrorsOK'
  <2>1. \A j : (Untold(j) => Untold(j)') /\ (Told(j) => Told(j)')
    BY <1>1, <1>3 DEF Untold, Told
  <2>2. PICK i : i = result.id
    OBVIOUS
  <2>3. Told(i)' /\ result'.id = i
    BY <1>4, <2>1, <2>2
  <2> QED BY <1>1, <1>2, <1>4, <2>1, <2>3 DEF ErrorsOK, Told
<1> QED BY <1>5, <1>6, <1>7, <1>8, <1>9 DEF IInv

LEMMA NextInv == IInv /\ [Next]_vars => IInv'
<1> SUFFICES ASSUME IInv, [Next]_vars
             PROVE  IInv'
  OBVIOUS
<1>1. /\ level \in Nat /\ next \in Nat \ {0} /\ at \in Stages
      /\ 1 \in Nat \ {0}
  BY DEF IInv, TypeOK
<1>2. CASE Enter \/ HandOn
  <2>1. level' \in Nat
    BY <1>1, <1>2 DEF Enter, HandOn
  <2> QED BY <1>2, <2>1, LevelInv DEF Enter, HandOn, fixed
<1>3. CASE AnswerEarly
  BY <1>1, <1>3, OwnInv DEF AnswerEarly, Goto, fixed, Inside
<1>4. CASE Replace
  <2>1. level' \in Nat
    BY <1>1, <1>4 DEF Replace
  <2> QED BY <1>1, <1>4, <2>1, OwnInv DEF Replace, fixed, Inside
<1>5. ASSUME NEW t \in 1 .. Len(Stack), TimeoutFires(t)
      PROVE  IInv'
  <2>1. t \in Nat \ {0}
    BY StackAssumption
  <2>2. at \in Inside /\ at' = "up" /\ next' = 1 /\ level' = t - 1
        /\ UNCHANGED <<config, matched, log>>
    BY <1>5 DEF TimeoutFires, Goto, fixed
  <2>3. level' \in Nat
    BY <2>1, <2>2
  <2>4. "plain" \in Kinds /\ result' = Failure("plain") /\ errors' = errors + 1
    BY <1>5 DEF TimeoutFires, Kinds
  <2>5. Own
    BY <2>4 DEF Own
  <2> QED BY <1>1, <2>2, <2>3, <2>5, OwnInv
<1>6. CASE CodePanics \/ ClientLeaves
  BY <1>6, LostInv DEF CodePanics, ClientLeaves, Goto, fixed, Lost
<1>7. CASE UNCHANGED vars
  BY <1>1, <1>7, LevelInv DEF vars
<1> QED BY <1>2, <1>3, <1>4, <1>5, <1>6, <1>7, FireHookInv, HooksDoneInv, ChainDoneInv,
           FoundInv, NotFoundInv, RenderInv, HandlerReturnsInv, HandlerPanicsInv
        DEF Next, Framework

-----------------------------------------------------------------------------
(* Theorems.                                                                *)

\* What the hooks were told at every place a request can be in.
THEOREM Inductive == Spec => []IInv
<1> QED BY InitInv, NextInv, PTL DEF Spec

\* Whatever happens to a request, if it is answered each of the app's on_request and
\* on_response hooks ran once and in order (app.rs, AppInner::handle).
THEOREM AppHooksBracketAlways == Spec => []AppHooksBracket
<1>1. IInv => AppHooksBracket
  BY DEF IInv, AppOK, AppHooksBracket, Lost
<1> QED BY <1>1, Inductive, PTL

\* The hooks of a route nest around its handler, wherever a Timeout cuts it off
\* (service.rs, dispatch).
THEOREM ScopedHooksNestAlways == Spec => []ScopedHooksNest
<1>1. IInv => ScopedHooksNest
  BY DEF IInv, RouteOK
<1> QED BY <1>1, Inductive, PTL

\* An error that was answered was reported once to each of the app's hooks, as what it
\* is, wherever it was made and whatever replaced it on its way (app.rs, render_error).
THEOREM SeenErrorsReportedAlways == Spec => []SeenErrorsReported
<1>1. IInv => SeenErrorsReported
  BY DEF IInv, FormOK, ErrorsOK, Told, SeenErrorsReported
<1> QED BY <1>1, Inductive, PTL

================================================================================
