------------------------------- MODULE Dispatch -------------------------------
(****************************************************************************)
(* One request on its way through an application: app-wide hooks, the        *)
(* middleware chain, routing, the scoped hooks, the handler inside its panic *)
(* boundary, error rendering, and back (tork-core/src/app.rs `handle` and    *)
(* `render_error`, service.rs `dispatch`, middleware/mod.rs `Next::run`).    *)
(*                                                                           *)
(* Every await is a step, since the future may be dropped there: by the      *)
(* Timeout middleware from below itself, by the connection altogether.       *)
(* Requests share nothing here, so one is enough.                            *)
(****************************************************************************)
EXTENDS Naturals, SequencesExt

CONSTANTS
  Stack,     \* the middleware, outermost first: "pass" calls next and hands on
             \* what it returns, "guard" may answer or fail before or after that,
             \* "timeout" is the built-in Timeout
  Counts     \* how many hooks of each kind may be registered

ASSUME StackAssumption == Stack \in Seq({"pass", "guard", "timeout"})
ASSUME CountsAssumption == Counts \subseteq Nat

VARIABLES
  config,    \* hooks of each kind, the panic boundary
  at,        \* where the request is
  level,     \* how many middlewares are on the call stack
  next,      \* the index of the hook loop the request is in
  matched,   \* whether a route was found
  result,    \* what is being returned: nothing, a response, an error
  errors,    \* errors made so far; an error is named by its number
  panicked,  \* the handler panicked (history)
  log        \* which hooks ran, in their order, by event and error (history)

vars == <<config, at, level, next, matched, result, errors, panicked, log>>

\* The hook loops: whose hooks each runs.
Loops == [request |-> "app", scopedRequest |-> "route", error |-> "app",
          scopedError |-> "route", panic |-> "app", scopedResponse |-> "route",
          topError |-> "app", response |-> "app"]

Final  == {"responded", "torn", "dropped"}
Inside == {"down", "scopedRequest", "handler", "error", "scopedError", "render",
           "panic", "scopedResponse", "up"}
Stages == DOMAIN Loops \cup Inside \cup {"topRender"} \cup Final

Kinds == {"validation", "plain", "typed"}

Nothing        == [form |-> "nothing", kind |-> "none", id |-> 0]
Response(id)   == [form |-> "response", kind |-> "none", id |-> id]
Failure(kind)  == [form |-> "error", kind |-> kind, id |-> errors + 1]

Init ==
  /\ config \in [app : Counts, route : Counts, handlers : BOOLEAN,
                 boundary : BOOLEAN]
  /\ at = "request" /\ level = 0 /\ next = 1
  /\ matched = FALSE /\ result = Nothing /\ errors = 0
  /\ panicked = FALSE /\ log = [k \in {} |-> <<>>]

fixed == <<config, panicked>>
Goto(stage) == at' = stage /\ next' = 1

-----------------------------------------------------------------------------
(* The hooks. When nothing needs the metadata it is not built and the loops  *)
(* are skipped; they would be empty.                                         *)

\* The hooks that ran for an event, by their position; whose they were and for which
\* error is part of the event.
Ran(event, by, id) ==
  IF <<event, by, id>> \in DOMAIN log THEN log[<<event, by, id>>] ELSE <<>>

Runs(event, by, id, nth) ==
  log' = [k \in DOMAIN log \cup {<<event, by, id>>} |->
            IF k = <<event, by, id>> THEN Append(Ran(event, by, id), nth) ELSE log[k]]

Number == IF Loops[at] = "app" THEN config.app ELSE config.route

HasInfo == config.app > 0 \/ config.handlers \/ (matched /\ config.route > 0)

\* Which event the loop fires, and for which error.
Event ==
  CASE at \in {"error", "scopedError", "topError"} ->
         IF result.kind = "validation" THEN "validation" ELSE "error"
    [] at \in {"request", "scopedRequest"} -> "request"
    [] at \in {"response", "scopedResponse"} -> "response"
    [] at = "panic" -> "panic"

\* (Mutant) The scoped response hooks run in registration order.
NthForward == next

\* Scoped response hooks run innermost first.
Nth == IF at = "scopedResponse" THEN Number + 1 - next ELSE next

FireHook ==
  /\ at \in DOMAIN Loops /\ next <= Number
  /\ Runs(Event, Loops[at], IF result.form = "error" THEN result.id ELSE 0, Nth)
  /\ next' = next + 1
  /\ UNCHANGED <<fixed, at, level, matched, result, errors>>

After ==
  CASE at = "request" -> "down"
    [] at = "scopedRequest" -> "handler"
    [] at = "error" -> IF matched THEN "scopedError" ELSE "render"
    [] at = "scopedError" -> "render"
    [] at \in {"panic", "scopedResponse"} -> "up"
    [] at = "topError" -> "topRender"
    [] at = "response" -> "responded"

HooksDone ==
  /\ at \in DOMAIN Loops /\ next > Number
  /\ Goto(After)
  /\ UNCHANGED <<fixed, level, matched, result, errors, log>>

-----------------------------------------------------------------------------
(* The chain.                                                               *)

\* Next::run: the next middleware's handle.
Enter ==
  /\ at = "down" /\ level < Len(Stack)
  /\ level' = level + 1
  /\ UNCHANGED <<fixed, at, next, matched, result, errors, log>>

\* A middleware returns a response or an error of its own, without next or in
\* place of what next returned.
Own ==
  \/ result' = Response(0) /\ UNCHANGED errors
  \/ \E kind \in Kinds : result' = Failure(kind) /\ errors' = errors + 1

AnswerEarly ==
  /\ at = "down" /\ level < Len(Stack) /\ Stack[level + 1] = "guard"
  /\ Goto("up") /\ Own
  /\ UNCHANGED <<fixed, level, matched, log>>

Replace ==
  /\ at = "up" /\ level > 0 /\ Stack[level] = "guard"
  /\ level' = level - 1 /\ Own
  /\ UNCHANGED <<fixed, at, next, matched, log>>

HandOn ==
  /\ at = "up" /\ level > 0
  /\ level' = level - 1
  /\ UNCHANGED <<fixed, at, next, matched, result, errors, log>>

\* (Mutant) The deadline only covers the way down.
TimeoutOnWayDown(t) ==
  /\ at = "down" /\ t <= level /\ Stack[t] = "timeout"
  /\ Goto("up") /\ level' = t - 1
  /\ result' = Failure("plain") /\ errors' = errors + 1
  /\ UNCHANGED <<fixed, matched, log>>

\* The deadline passes: what runs below the Timeout is dropped where it stands. A
\* result that has reached the Timeout wins.
TimeoutFires(t) ==
  /\ at \in Inside /\ t <= level /\ Stack[t] = "timeout"
  /\ at = "up" => t < level
  /\ Goto("up") /\ level' = t - 1
  /\ result' = Failure("plain") /\ errors' = errors + 1
  /\ UNCHANGED <<fixed, matched, log>>

\* The chain is through; an error that left it is rendered with the app's hooks.
ChainDone ==
  /\ at = "up" /\ level = 0
  /\ Goto(IF result.form = "error" THEN "topError" ELSE "response")
  /\ UNCHANGED <<fixed, level, matched, result, errors, log>>

-----------------------------------------------------------------------------
(* Dispatch.                                                                *)

Found ==
  /\ at = "down" /\ level = Len(Stack)
  /\ matched' = TRUE /\ Goto("scopedRequest")
  /\ UNCHANGED <<fixed, level, result, errors, log>>

\* 404 and 405.
NotFound ==
  /\ at = "down" /\ level = Len(Stack)
  /\ result' = Failure("plain") /\ errors' = errors + 1
  /\ Goto("error")
  /\ UNCHANGED <<fixed, level, matched, log>>

\* (Mutant) A typed error goes to its exception handler without any hook.
HandlerReturnsUnreported ==
  /\ at = "handler"
  /\ \/ result' = Response(0) /\ UNCHANGED errors /\ Goto("scopedResponse")
     \/ /\ \E kind \in Kinds : /\ result' = Failure(kind)
                              /\ Goto(IF kind = "typed" THEN "render" ELSE "error")
        /\ errors' = errors + 1
  /\ UNCHANGED <<fixed, level, matched, log>>

\* Extraction, validation and the handler itself.
HandlerReturns ==
  /\ at = "handler"
  /\ \/ result' = Response(0) /\ UNCHANGED errors /\ Goto("scopedResponse")
     \/ /\ \E kind \in Kinds : result' = Failure(kind)
        /\ errors' = errors + 1 /\ Goto("error")
  /\ UNCHANGED <<fixed, level, matched, log>>

\* The handler panics. Inside the boundary this is a 500 that skips error and
\* scoped response hooks; with hooks to tell, panic_message first cuts the message
\* at byte 1024 and panics itself when that is in the middle of a character.
HandlerPanics ==
  /\ at = "handler" /\ panicked' = TRUE
  /\ \/ /\ config.boundary /\ ~HasInfo
        /\ result' = Response(0) /\ Goto("up")
     \/ /\ config.boundary /\ HasInfo
        /\ result' = Response(0) /\ Goto("panic")
     \/ /\ ~config.boundary \/ HasInfo
        /\ Goto("torn") /\ UNCHANGED result
  /\ UNCHANGED <<config, level, matched, errors, log>>

\* (Mutant) An error that left the chain is answered without on_response.
RenderEnds ==
  /\ at \in {"render", "topRender"}
  /\ Goto(IF at = "topRender" THEN "responded"
          ELSE IF matched THEN "scopedResponse" ELSE "up")
  /\ result' = Response(result.id)
  /\ UNCHANGED <<fixed, level, matched, errors, log>>

\* render_error past its hooks: a registered exception handler for the error's
\* source makes the response, or the default rendering does.
Render ==
  /\ at \in {"render", "topRender"}
  /\ Goto(IF at = "topRender" THEN "response"
          ELSE IF matched THEN "scopedResponse" ELSE "up")
  /\ result' = Response(result.id)
  /\ IF result.kind = "typed" /\ config.handlers
     THEN Runs("handler", "app", result.id, 1) ELSE UNCHANGED log
  /\ UNCHANGED <<fixed, level, matched, errors>>

\* A hook, a middleware or an exception handler panics: outside the boundary.
CodePanics ==
  /\ \/ at \in DOMAIN Loops /\ next <= Number
     \/ at \in {"down", "up"} /\ level > 0
     \/ at \in {"render", "topRender"} /\ config.handlers
  /\ Goto("torn")
  /\ UNCHANGED <<fixed, level, matched, result, errors, log>>

\* The connection goes away and drops the request's future.
ClientLeaves ==
  /\ at \notin Final
  /\ Goto("dropped")
  /\ UNCHANGED <<fixed, level, matched, result, errors, log>>

Framework ==
  \/ FireHook \/ HooksDone \/ Enter \/ HandOn \/ ChainDone
  \/ Found \/ NotFound \/ Render

Next ==
  \/ Framework \/ AnswerEarly \/ Replace
  \/ HandlerReturns \/ HandlerPanics \/ CodePanics \/ ClientLeaves
  \/ \E t \in 1 .. Len(Stack) : TimeoutFires(t)

\* The request's task is polled, hooks and middlewares return, timers fire.
\* Nothing is assumed of the handler.
Fairness ==
  /\ WF_vars(Framework)
  /\ \A t \in 1 .. Len(Stack) : WF_vars(TimeoutFires(t))

Spec == Init /\ [][Next]_vars
FairSpec == Spec /\ Fairness

-----------------------------------------------------------------------------
(* Properties.                                                              *)

Upto(n)   == [i \in 1 .. n |-> i]
Downto(n) == [i \in 1 .. n |-> n + 1 - i]

\* A request that is answered ran each app-wide on_request and on_response hook
\* exactly once and in order, whether the handler answered, failed, panicked or
\* was cut off in the middle of a hook (docs/09, "every request", "every
\* response").
AppHooksBracket ==
  at = "responded" =>
    /\ Ran("request", "app", 0) = Upto(config.app)
    /\ Ran("response", "app", 0) = Upto(config.app)

\* The hooks of a route bracket its handler: response hooks run inner before
\* outer, and only when all its request hooks ran (docs/09, "They compose with the
\* app-global hooks in this order").
ScopedHooksNest ==
  /\ IsPrefix(Ran("request", "route", 0), Upto(config.route))
  /\ IsPrefix(Ran("response", "route", 0), Downto(config.route))
  /\ Ran("response", "route", 0) # <<>> =>
       Ran("request", "route", 0) = Upto(config.route)

\* An error a client sees was reported to every app-wide error hook, exactly once
\* and before it was rendered; it was reported as a validation failure or as an
\* error, never as both (docs/09, "The two never both fire for the same error").
SeenErrorsReported ==
  at = "responded" /\ result.id # 0 =>
    /\ Ran("error", "app", result.id) \o Ran("validation", "app", result.id)
         = Upto(config.app)
    /\ Ran("error", "app", result.id) = <<>> \/ Ran("validation", "app", result.id) = <<>>

\* With a Timeout in the chain every request comes to an end, although a handler
\* never returns (middleware/timeout.rs).
TimeoutAnswers ==
  (\E t \in 1 .. Len(Stack) : Stack[t] = "timeout") => <>(at \in Final)

=============================================================================
