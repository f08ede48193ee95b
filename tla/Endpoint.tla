-------------------------------- MODULE Endpoint -------------------------------
(****************************************************************************)
(* A request against the table that Routing built, through the handler that  *)
(* the route macros generate (tork-macros/src/route.rs, dependency.rs,       *)
(* inject.rs): the rate limit, the parameters in their order, services with  *)
(* parameters of their own, the body that can be taken once, and the         *)
(* rendering of the result or of the first error (error.rs, response).       *)
(****************************************************************************)
EXTENDS Routing

CONSTANTS
  Methods, Paths,  \* the requests
  Facts,           \* what else the outcome depends on
  Services,        \* the types a handler may ask for, with their own parameters
  HandlerErrors,   \* the errors a handler or a `resolve` may return
  None

VARIABLES req

vars == <<builder, req>>

-----------------------------------------------------------------------------
(* Errors, and what the client sees of them *)

Kinds == {400, 401, 403, 404, 405, 409, 413, 422, 429, 500, 503, 504}

\* Error::http: a status without a kind of its own takes the code of a near one.
KindOf(status) ==
  IF status \in Kinds THEN status ELSE IF status >= 500 THEN 500 ELSE 400

\* Error::new and Error::http; the code is written as the status it stands for.
Err(status) == [status |-> status, code |-> KindOf(status), details |-> FALSE]

\* from_garde_report.
ValidationError == [Err(422) EXCEPT !.details = TRUE]

Redacts(e) == e.status >= 500

\* Error::into_response.
Rendered(e) ==
  [status |-> e.status, code |-> e.code, cached |-> FALSE,
   message |-> IF Redacts(e) THEN "generic" ELSE "own",
   details |-> e.details /\ ~Redacts(e)]

\* json_response, a broken value included; with_body.
JsonOf(value) ==
  IF value = "broken" THEN Rendered(Err(500))
  ELSE [status |-> 200, code |-> None, cached |-> TRUE, message |-> None, details |-> FALSE]

-----------------------------------------------------------------------------
(* Requests *)

\* body: what the body holds, or how reading it fails; bearer, state, resolve: whether
\* the header, the state and a dependency's own check are in order; limit: whether the
\* rate limit is "open" or "used", or the route's ThrottleKey finds no key; override: the test client replaces the services; handshake and
\* slot: whether a WebSocket may be opened (the slots are counted in module WebSocket).
Idle == [at |-> "idle", method |-> None, path |-> <<>>, facts |-> None, form |-> <<>>,
         route |-> None, todo |-> <<>>, taken |-> FALSE, args |-> {}, ran |-> FALSE,
         reply |-> None]

Init == RoutingInit /\ req = Idle

Finish(r, reply) == req' = [r EXCEPT !.at = "done", !.todo = <<>>, !.reply = reply]

Step(kind, when) == IF when THEN <<[kind |-> kind, name |-> None]>> ELSE <<>>

\* A handler with form parameters parses the body before the limit is checked; one of
\* the documents only asks its guard.
Before(d) ==
  IF d.kind = "docs" THEN Step("guard", d.guarded)
  ELSE Step("prelude", d.multipart) \o Step("throttle", TRUE)
       \o Step("handshake", d.kind = "websocket")

Steps(d) == Before(d) \o d.params \o Step("call", TRUE)

\* dispatch: the match, 404 and 405 included.
Request(method, path) ==
  /\ stage = "built" /\ req.at = "idle"
  /\ LET m == Find(method, path)
         r == [req EXCEPT !.method = method, !.path = path, !.route = m.route, !.form = m.form]
     IN  \/ m.route = NotFound   /\ Finish(r, Rendered(Err(404)))
         \/ m.route = NotAllowed /\ Finish(r, Rendered(Err(405)))
         \/ /\ m.route \in DOMAIN table
            /\ \E facts \in Facts :
                 req' = [r EXCEPT !.at = "bind", !.facts = facts, !.todo = Steps(table[m.route].decl)]
  /\ UNCHANGED builder

At(kinds) == req.at = "bind" /\ Head(req.todo).kind \in kinds

Rest1 == [req EXCEPT !.todo = Tail(@)]

Fail(e) == Finish(req, Rendered(e)) /\ UNCHANGED builder
Go(r)   == req' = r /\ UNCHANGED builder

\* The key is found first, and its error returned; __throttle_check answers by itself.
ThrottleCheck ==
  /\ At({"throttle"})
  /\ \/ req.facts.limit = "keyless" /\ \E e \in HandlerErrors : Fail(e)
     \/ req.facts.limit = "used" /\ Fail(Err(429))
     \/ req.facts.limit = "open" /\ Go(Rest1)

\* The value that matchit captured for a name: the first hole of that name.
CapturedAt(p, name) ==
  {i \in DOMAIN p : p[i] = name /\ \A j \in 1 .. i - 1 : p[j] # name}

\* __extract_path_param.
BindPath ==
  /\ At({"path"})
  /\ LET name == Head(req.todo).name
         hole == CapturedAt(table[req.route].path, name)
     IN  IF hole = {} THEN Fail(Err(500))
         ELSE LET value == req.form[CHOOSE i \in hole : TRUE] IN
              IF value = "text" THEN Fail(Err(422))
              ELSE Go([Rest1 EXCEPT !.args = @ \cup {<<name, value>>}])


\* take_body leaves None behind.
Taken(r) == [r EXCEPT !.taken = TRUE]

BodyError(kind, body) ==
  CASE body = "wrapped" -> Err(413)                     \* a middleware's error in the stream
    [] body \in {"broken", "large"} -> Err(400)
    [] body = "deep" /\ kind \in {"json", "valid"} -> Err(400)
    [] body \in {"deep", "syntax"} -> Err(IF kind = "prelude" THEN 400 ELSE 422)
    [] body = "rules" /\ kind \in {"valid", "form"} -> ValidationError
    [] OTHER -> None

\* take_body, then the body read within its limit, and what it should be.
Body(kind) ==
  LET e == BodyError(kind, req.facts.body) IN
    /\ At({kind})
    /\ IF req.taken THEN Fail(Err(400))
       ELSE IF e # None THEN Fail(e)
       ELSE Go(Taken(Rest1))

BindJson    == Body("json")
BindValid   == Body("valid")
BindForm    == Body("form")
BindPrelude == Body("prelude")   \* __parse_multipart, in front of form parameters

BindBearer == At({"bearer"}) /\ IF req.facts.bearer THEN Go(Rest1) ELSE Fail(Err(401))
BindState  == At({"state"})  /\ IF req.facts.state THEN Go(Rest1) ELSE Fail(Err(500))

\* check_guard hides a document from those who may not see it.
CheckGuard == At({"guard"}) /\ IF req.facts.bearer THEN Go(Rest1) ELSE Fail(Err(404))

\* __ws_handshake: the origin, then the headers of the upgrade.
HandshakeError ==
  IF req.facts.handshake = "origin" THEN Err(403)
  ELSE IF req.facts.handshake = "headers" THEN Err(400) ELSE None

CheckHandshake ==
  At({"handshake"}) /\ IF HandshakeError = None THEN Go(Rest1) ELSE Fail(HandshakeError)

\* WebSocket::from_request_context.
BindSocket == At({"socket"}) /\ IF req.facts.slot THEN Go(Rest1) ELSE Fail(Err(429))

\* LastEventId and SseResume never fail.
BindResume == At({"resume"}) /\ Go(Rest1)

FieldsOf(s) == Services[s]

\* derive(Inject) and #[dependency]: the parameters, then `resolve`, if there is one.
BindService ==
  /\ At({"inject", "dependency"})
  /\ LET step  == Head(req.todo)
         close == IF step.kind = "inject" THEN <<>> ELSE <<[kind |-> "resolve", name |-> None]>>
     IN  IF step.kind = "inject" /\ req.facts.override THEN Go(Rest1)
         ELSE Go([req EXCEPT !.todo = FieldsOf(step.name) \o close \o Tail(@)])

BindResolve ==
  /\ At({"resolve"})
  /\ IF req.facts.resolve THEN Go(Rest1) ELSE \E e \in HandlerErrors : Fail(e)

\* What a handler makes of a request: __finish or __finish_into of its result, a stream
\* unless there are too many, a document, or, whatever a WebSocket handler will return,
\* the switch of protocols.
Answers(kind) ==
  LET errors == {Rendered(e) : e \in HandlerErrors} IN
    CASE kind = "http"      -> {JsonOf("fine"), JsonOf("broken")} \cup errors
      [] kind = "sse"       -> {JsonOf("fine"), Rendered(Err(503))} \cup errors
      [] kind = "websocket" -> {[JsonOf("fine") EXCEPT !.status = 101]}
      [] kind = "docs"      -> {JsonOf("fine")}

CallHandler ==
  /\ At({"call"})
  /\ \E reply \in Answers(table[req.route].decl.kind) : Finish([req EXCEPT !.ran = TRUE], reply)
  /\ UNCHANGED builder

Next ==
  \/ Building /\ UNCHANGED req
  \/ \E m \in Methods, p \in Paths : Request(m, p)
  \/ ThrottleCheck \/ BindPath \/ BindJson \/ BindValid \/ BindForm \/ BindPrelude
  \/ BindBearer \/ BindState \/ BindResume
  \/ CheckGuard \/ CheckHandshake \/ BindSocket \/ BindService \/ BindResolve \/ CallHandler

Spec == Init /\ [][Next]_vars

-----------------------------------------------------------------------------
(* Properties *)

\* The pattern a developer reads off the source: the names of the prefixes around a
\* route, outermost first, and those of its own path.
Declared(route) ==
  FlattenSeq([i \in DOMAIN route.via |-> Names(routers[route.via[i]].prefix)])
  \o Names(route.decl.path)

HooksDeclared(route) ==
  FlattenSeq([i \in DOMAIN route.via |-> routers[route.via[i]].hooks])
  \o (IF route.decl.kind = "docs" THEN <<>> ELSE <<route.decl.id>>)

TagsDeclared(route) ==
  Range(route.decl.tags) \cup UNION {Range(routers[r].tags) : r \in Range(route.via)}

FitsNames(p, names) ==
  LET rest == p # <<>> /\ Last(p) \in Rest
      n    == IF rest THEN Len(p) - 1 ELSE Len(p)
  IN  /\ IF rest THEN Len(names) > n ELSE Len(names) = n
      /\ \A i \in 1 .. n : p[i] = names[i] \/ p[i] \in Hole

Meant(method) ==
  {i \in DOMAIN table :
     table[i].decl.method = method /\ FitsNames(Declared(table[i]), Names(req.path))}

\* A path without doubled slashes and null bytes, a trailing slash apart.
Clean(path) == Nul \notin Range(path) /\ Collapsed(path) = path

\* Whatever the order of the builder calls, a request reaches the route whose declared
\* pattern it fits, the most specific one, with the hooks of the routers around it; and
\* otherwise it is told 405 only if a route of another method fits, and 404 only if none
\* does, but for one that was left out of all_paths because its rest meets the hole, or
\* its hole the rest, of a route before it. A catch-all may take a path with a trailing
\* slash before a more specific route does (matcher.rs:68-131: the raw path goes first,
\* all_paths last).
Reached ==
  req.at = "done" /\ Clean(req.path) =>
    CASE req.route = NotFound   ->
           /\ Meant(req.method) = {}
           /\ \A m \in Methods : \A i \in Meant(m) : \E j \in 1 .. i - 1 :
                Parted(Declared(table[i]), Declared(table[j]))
      [] req.route = NotAllowed -> Meant(req.method) = {} /\ \E m \in Methods : Meant(m) # {}
      [] OTHER ->
           /\ req.route \in Meant(req.method)
           /\ table[req.route].hooks = HooksDeclared(table[req.route])
           /\ \/ \A i \in Meant(req.method) \ {req.route} :
                   FirstOver(Declared(table[req.route]), Declared(table[i]))
              \/ /\ Last(req.path) = Slash /\ Last(table[req.route].path) \in Rest

\* The parameters of a handler with those of its services put in their place.
Unfolded(d) == FlattenSeq([i \in DOMAIN d.params |->
  LET p == d.params[i] IN
    IF p.kind = "inject" THEN IF req.facts.override THEN <<>> ELSE Services[p.name]
    ELSE IF p.kind = "dependency" THEN Append(Services[p.name], [kind |-> "resolve", name |-> None])
    ELSE <<p>>])

Bodies == {"json", "valid", "form", "prelude"}

\* The statuses with which the k-th of a list of parameters may be refused.
RefusedWith(list, k) ==
  LET p == list[k] IN
    CASE p.kind \in Bodies /\ (\E j \in 1 .. k - 1 : list[j].kind \in Bodies) -> {400}
      [] p.kind \in Bodies -> {e.status : e \in {BodyError(p.kind, req.facts.body)} \ {None}}
      [] p.kind = "throttle" -> 
           (CASE req.facts.limit = "used"    -> {429}
              [] req.facts.limit = "keyless" -> {e.status : e \in HandlerErrors}
              [] OTHER                       -> {})
      [] p.kind = "bearer"   -> IF req.facts.bearer THEN {} ELSE {401}
      [] p.kind = "guard"    -> IF req.facts.bearer THEN {} ELSE {404}
      [] p.kind = "handshake" -> {e.status : e \in {HandshakeError} \ {None}}
      [] p.kind = "socket"   -> IF req.facts.slot THEN {} ELSE {429}
      [] p.kind = "state"    -> IF req.facts.state THEN {} ELSE {500}
      [] p.kind = "resolve"  -> IF req.facts.resolve THEN {} ELSE {e.status : e \in HandlerErrors}
      [] p.kind = "path"     ->
           LET i == CHOOSE i \in DOMAIN Declared(table[req.route]) :
                      Declared(table[req.route])[i] = p.name
           IN  IF Names(req.path)[i] = "text" THEN {422} ELSE {}
      [] OTHER -> {}


Own     == {i \in DOMAIN table : table[i].decl.kind # "docs"}
Streams == {i \in Own : table[i].decl.kind \in {"sse", "websocket"}}

\* The documents say of the application what it serves. However its routers were
\* nested, the operations are its routes under the whole paths a client asks for, each
\* with every path parameter its handler takes and the tags of the routers around it,
\* and no others; a stream or WebSocket is
\* a channel at its whole path whose operations name messages of that channel, unless
\* another route has the same channel name; and the documents are found where they are
\* said to be (spec.rs:206, asyncapi.rs:104, app.rs:646).
DocumentsServed ==
  stage = "built" /\ req.at = "idle" =>
    /\ {<<Names(k[1]), k[2]>> : k \in DOMAIN docs.openapi} =
         {<<Declared(table[i]), table[i].decl.method>> : i \in Own}
    /\ \A i \in Own, k \in DOMAIN docs.openapi :
         <<Names(k[1]), k[2]>> = <<Declared(table[i]), table[i].decl.method>> =>
           /\ {p.name : p \in {p \in Range(table[i].decl.params) : p.kind = "path"}}
                \subseteq Range(docs.openapi[k].parameters)
           /\ Range(docs.openapi[k].tags) = TagsDeclared(table[i])
    /\ \A i \in Streams :
         LET name == ChannelName(table[i].path) IN
           \/ \E j \in Streams \ {i} : ChannelName(table[j].path) = name
           \/ /\ Names(docs.asyncapi.channels[name].address) = Declared(table[i])
              /\ \A k \in DOMAIN docs.asyncapi.operations : k[1] = name =>
                   docs.asyncapi.operations[k] \subseteq docs.asyncapi.channels[name].messages
    /\ \A doc \in DOMAIN DocPaths :
         LET found == Find("GET", DocPaths[doc]).route IN
           found \in DOMAIN table \ Own /\ table[found].path = DocPaths[doc]

=============================================================================
