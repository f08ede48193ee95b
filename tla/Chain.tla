--------------------------------- MODULE Chain ---------------------------------
(****************************************************************************)
(* The built-in middlewares (tork-core/src/middleware) around the dispatch   *)
(* of a request: one layer per step on the way in, one on the way out, and   *)
(* the deadline of Timeout at any moment in between.                         *)
(*                                                                           *)
(* What the application has registered and what the client sent are chosen   *)
(* at the start. The route behind the chain is any response at all.          *)
(****************************************************************************)
EXTENDS Integers, Sequences, FiniteSets, SequencesExt

CONSTANTS
  Registered,  \* the lists of middlewares an application may register
  Limit,       \* BodyLimit's limit, in frames
  MinSize, MaxSize, \* Compression's window
  Sizes,       \* the sizes of bodies
  Endless,     \* the size of a stream that does not end
  None

Layers == {"RequestId", "Trace", "Timeout", "BodyLimit", "TrustedHost", "HttpsRedirect",
           "ProxyHeaders", "Cors", "Compression", "SecurityHeaders"}

ASSUME ChainAssumption ==
  /\ Registered \subseteq Seq(Layers)
  /\ {Limit, MinSize, MaxSize} \subseteq Nat /\ Sizes \subseteq Nat
  /\ Endless \notin Nat /\ None \notin {"http", "https"}

VARIABLES
  stack,     \* the middlewares after resolve_duplicates, outermost first
  setup,     \* how Cors and SecurityHeaders were configured
  request,   \* the request as the next layer sees it
  level,     \* the layer that runs: 1 .. Len(stack), or one more for the route
  dir,       \* "in", "out" or "sent"
  held,      \* what each layer keeps while it awaits the rest
  reply      \* the result on its way out

vars == <<stack, setup, request, level, dir, held, reply>>

-----------------------------------------------------------------------------
(* resolve_duplicates *)

\* Every built-in layer answers Reject: a second one of a kind fails the build.
Kept(list) == \A i, j \in DOMAIN list : list[i] = list[j] => i = j

-----------------------------------------------------------------------------
Hosts == {None, "good", "bad"}

\* The requests that differ for a layer of the list: a field that none of them looks at
\* is left at one value.
Requests(list) ==
  LET when(l, values, other) == IF l \in Range(list) THEN values ELSE {other} IN
  {r \in [
    origin : when("Cors", {None, "ours", "other"}, None), \* whether Cors allows it
    preflight : when("Cors", BOOLEAN, FALSE),    \* OPTIONS, Access-Control-Request-Method
    gzip : when("Compression", BOOLEAN, FALSE),  \* Accept-Encoding names gzip
    asked : when("TrustedHost", Hosts, "good"),  \* Host as it was sent: "good" is allowed
    host : when("TrustedHost", Hosts, "good"),   \* Host as the next layer reads it
    fwdHost : when("ProxyHeaders", Hosts, None), \* X-Forwarded-Host
    fwdProto : when("ProxyHeaders", {None, "http", "https", "junk"}, None),
    proxy : when("ProxyHeaders", BOOLEAN, FALSE), \* the peer is a trusted proxy
    uri : when("HttpsRedirect", {None, "http", "https"}, None), \* the target's scheme
    scheme : {None},                             \* RequestScheme in the extensions
    id : when("RequestId", {None, "theirs"}, None), \* x-request-id
    declared : when("BodyLimit", {None} \cup Sizes, None), \* Content-Length
    size : when("BodyLimit", Sizes, 0)]          \* the body
   : r.declared \in {None, r.size} /\ r.host = r.asked}

\* A result: zipped is set when Compression has encoded it, broke when the body broke off
\* while Compression read it.
NoReply == [err |-> FALSE, status |-> None, size |-> 0, event |-> FALSE, fails |-> FALSE,
            broke |-> FALSE, gzip |-> 0, zipped |-> FALSE, length |-> None, vary |-> {},
            origin |-> None, id |-> None, frame |-> None]

Init ==
  /\ stack \in {list \in Registered : Kept(list)}
  /\ setup \in [any : BOOLEAN, credentials : BOOLEAN]
  /\ "Cors" \notin Range(stack) => ~setup.any /\ ~setup.credentials
  /\ request \in Requests(stack)
  /\ level = 1 /\ dir = "in"
  /\ held = [i \in DOMAIN stack |-> None]
  /\ reply = NoReply

-----------------------------------------------------------------------------
(* The way in *)

At(l) == dir = "in" /\ level \in DOMAIN stack /\ stack[level] = l

\* next.run(r), after keeping k for the way out.
RunNext(r, k) ==
  /\ request' = r
  /\ held' = [held EXCEPT ![level] = k]
  /\ level' = level + 1
  /\ UNCHANGED <<stack, setup, dir, reply>>

\* The layer answers by itself; the layers outside see its result.
Answer(p) ==
  /\ reply' = p
  /\ dir' = "out" /\ level' = level - 1
  /\ UNCHANGED <<stack, setup, request, held>>

Fail(status) == Answer([NoReply EXCEPT !.err = TRUE, !.status = status])
Ok(status)   == [NoReply EXCEPT !.status = status]

\* An id that is there is reused.
AssignId ==
  /\ At("RequestId")
  /\ LET id == IF request.id # None THEN request.id ELSE "ours" IN
     RunNext([request EXCEPT !.id = id], id)

StartTrace == At("Trace") /\ RunNext(request, None)

StartTimer == At("Timeout") /\ RunNext(request, None)

DeclaredTooLarge(r) == r.declared # None /\ r.declared > Limit

\* (Mutant) Only the declared length is looked at.
TooLargeDeclared(r) == DeclaredTooLarge(r)

\* The declared length first, then the frames as they arrive.
TooLarge(r) == DeclaredTooLarge(r) \/ r.size > Limit

\* The body may also break off while it is read.
CheckBody ==
  /\ At("BodyLimit")
  /\ \/ TooLarge(request) /\ Fail(413)
     \/ ~DeclaredTooLarge(request) /\ Fail(400)
     \/ ~TooLarge(request) /\ RunNext(request, None)

CheckHost ==
  /\ At("TrustedHost")
  /\ IF request.host = "good" THEN RunNext(request, None) ELSE Fail(400)

\* is_https: the scheme the proxy told, else that of the request target. The client
\* writes the target: none in origin form, any in absolute form or as :scheme.
IsHttps(r) == IF r.scheme # None THEN r.scheme = "https" ELSE r.uri = "https"

Redirect ==
  /\ At("HttpsRedirect")
  /\ IF IsHttps(request) THEN RunNext(request, None) ELSE Answer(Ok(308))

Trusted(r) == r.proxy

Normalize ==
  /\ At("ProxyHeaders")
  /\ IF Trusted(request)
     THEN RunNext([request EXCEPT
                     !.host = IF request.fwdHost # None THEN request.fwdHost ELSE @,
                     !.scheme = IF request.fwdProto \in {"http", "https"}
                                THEN request.fwdProto ELSE @], None)
     ELSE RunNext(request, None)

\* allow_origin_value: a wildcard is refused together with credentials.
AllowedOrigin(r) ==
  IF r.origin = None \/ (setup.any /\ setup.credentials) THEN None
  ELSE IF setup.any THEN "*"
  ELSE IF r.origin = "ours" THEN "ours" ELSE None

EnterCors ==
  /\ At("Cors")
  /\ IF request.preflight
     THEN Answer([Ok(204) EXCEPT !.origin = AllowedOrigin(request), !.vary = {"Origin"}])
     ELSE RunNext(request, AllowedOrigin(request))

EnterCompression == At("Compression") /\ RunNext(request, request.gzip)

EnterSecurity == At("SecurityHeaders") /\ RunNext(request, None)

-----------------------------------------------------------------------------
(* The route *)

\* AppInner::dispatch never fails. The body may be a stream, and a stream may end in
\* an error, as stream_capped's does past its limit; a handler may set headers itself,
\* the length of the whole body among them.
Dispatch ==
  /\ dir = "in" /\ level = Len(stack) + 1
  /\ \E size \in Sizes \cup {Endless}, event, fails, own \in BOOLEAN, enc \in {0, 1} :
       /\ size = Endless => ~fails
       /\ event => enc = 0 /\ ~own
       /\ own => size \in Sizes
       /\ reply' = [NoReply EXCEPT !.status = 200, !.size = size, !.event = event,
                      !.fails = fails, !.gzip = enc,
                      !.length = IF own THEN size ELSE None,
                      !.frame = IF own THEN "handler" ELSE None]
  /\ dir' = "out" /\ level' = level - 1
  /\ UNCHANGED <<stack, setup, request, held>>

-----------------------------------------------------------------------------
(* The way out *)

Leaving(l) == dir = "out" /\ level \in DOMAIN stack /\ stack[level] = l

Pass(p) ==
  /\ reply' = p
  /\ level' = level - 1
  /\ UNCHANGED <<stack, setup, request, dir, held>>

\* A layer without work on the way out, and every layer on an Err: `?` passes it on.
PassThrough ==
  /\ dir = "out" /\ level \in DOMAIN stack
  /\ \/ reply.err
     \/ stack[level] \in {"Trace", "Timeout", "BodyLimit", "TrustedHost", "HttpsRedirect",
                          "ProxyHeaders"}
  /\ Pass(reply)

Echoed == held[level]

EchoId == Leaving("RequestId") /\ ~reply.err /\ Pass([reply EXCEPT !.id = Echoed])

\* insert_vary replaces the whole header.
VaryOnOrigin(p) == {"Origin"}

LeaveCors ==
  /\ Leaving("Cors") /\ ~reply.err
  /\ IF held[level] = None THEN Pass(reply)
     ELSE Pass([reply EXCEPT !.origin = held[level], !.vary = VaryOnOrigin(reply)])

\* A handler's own header stays.
LeaveSecurity ==
  /\ Leaving("SecurityHeaders") /\ ~reply.err
  /\ Pass([reply EXCEPT !.frame = IF @ = None THEN "layer" ELSE @])

\* (Mutant) A response that is encoded already is encoded once more.
EligibleAgain(p) ==
  held[level] /\ ~p.event /\ (p.length = None \/ p.length \in MinSize .. MaxSize)

\* What Compression will read as a whole: not an event stream, and of a fitting or
\* an unknown length.
Eligible(p) ==
  /\ held[level] /\ p.gzip = 0 /\ ~p.event
  /\ p.length = None \/ p.length \in MinSize .. MaxSize

\* into_body_bytes: a stream that fails leaves nothing, and the headers as they are.
Collected(p) == [p EXCEPT !.size = IF p.fails THEN 0 ELSE @, !.fails = FALSE,
                          !.broke = @ \/ p.fails]

\* gzip changes the size and the announced length with it.
Encoded(p) == [p EXCEPT !.gzip = @ + 1, !.zipped = TRUE,
                        !.size = (@ + 1) \div 2, !.length = (p.size + 1) \div 2]

\* A stream that does not end is never collected: this step waits.
LeaveCompression ==
  /\ Leaving("Compression") /\ ~reply.err
  /\ LET p == IF reply.event THEN reply ELSE [reply EXCEPT !.vary = @ \cup {"Accept-Encoding"}] IN
     IF ~Eligible(p) THEN Pass(p)
     ELSE /\ p.size # Endless
          /\ LET q == Collected(p) IN
             IF q.size \notin MinSize .. MaxSize THEN Pass(q) ELSE Pass(Encoded(q))

\* (Mutant) The deadline only bounds the way in.
TimedInwards(i) == level > i /\ dir = "in"

Timed(i) == level > i /\ dir # "sent"

\* The deadline passes while the layers inside are at work, in either direction:
\* they are dropped.
TimeoutFires == \E i \in DOMAIN stack :
  /\ stack[i] = "Timeout" /\ Timed(i)
  /\ reply' = [NoReply EXCEPT !.err = TRUE, !.status = 504]
  /\ dir' = "out" /\ level' = i - 1
  /\ UNCHANGED <<stack, setup, request, held>>

\* AppInner::handle: an error that reaches the outside is rendered, with no header of
\* any layer.
Send ==
  /\ dir = "out" /\ level = 0
  /\ dir' = "sent"
  /\ reply' = [reply EXCEPT !.err = FALSE]
  /\ UNCHANGED <<stack, setup, request, level, held>>

Layer ==
  \/ AssignId \/ StartTrace \/ StartTimer \/ CheckBody \/ CheckHost \/ Redirect \/ Normalize
  \/ EnterCors \/ EnterCompression \/ EnterSecurity
  \/ PassThrough \/ EchoId \/ LeaveCors \/ LeaveSecurity \/ LeaveCompression
  \/ Send

Next == Layer \/ Dispatch \/ TimeoutFires

\* A timer goes off and a layer that can go on does. Nothing is assumed of the route:
\* it may never answer.
Spec == Init /\ [][Next]_vars /\ WF_vars(Layer) /\ WF_vars(TimeoutFires)

-----------------------------------------------------------------------------
Before(a, b) == \E i, j \in DOMAIN stack : i < j /\ stack[i] = a /\ stack[j] = b
Has(l) == l \in Range(stack)
Routed == dir = "in" /\ level = Len(stack) + 1

\* A request reaches its route only if every guard that is registered lets it pass: the
\* host that counts is allowed and the scheme that counts is https, its body is no larger
\* than the limit, and it is no preflight. What counts is what a trusted proxy told, if
\* ProxyHeaders stands before the guard and the proxy told anything; else what the client
\* itself sent, so that nothing an untrusted peer forwards counts, nor what ProxyHeaders
\* rewrites behind the guard (proxy_headers.rs:88-112, trusted_host.rs:56-72,
\* https_redirect.rs:72-77, body_limit.rs:49-71: layers that read what another one
\* writes, in an order the application picks).
GuardsHold == Routed =>
  LET told(l) == Before("ProxyHeaders", l) /\ request.proxy
      host == IF told("TrustedHost") /\ request.fwdHost # None
              THEN request.fwdHost ELSE request.asked
      scheme == IF told("HttpsRedirect") /\ request.fwdProto \in {"http", "https"}
                THEN request.fwdProto ELSE request.uri
  IN  /\ Has("TrustedHost") => host = "good"
      /\ Has("HttpsRedirect") => scheme = "https"
      /\ Has("BodyLimit") => request.size <= Limit
      /\ Has("Cors") => ~request.preflight

\* A response leaves with the length of its body, unless the body broke off while
\* Compression read it and nothing was encoded; Compression encodes only for a client that
\* takes gzip and never what is encoded already, and an event stream goes out as it is
\* (compression.rs:95-140: the body, its length and its encoding are changed by one
\* layer and announced by another).
WellFramed == dir = "sent" =>
  /\ reply.length \notin {None, reply.size} => reply.broke /\ ~reply.zipped
  /\ reply.zipped => request.gzip
  /\ reply.gzip <= 1
  /\ reply.event => reply.gzip = 0

\* A response that names one origin says that it varies with it, whatever the layers
\* around Cors add, and no answer allows both any origin and credentials.
OriginVaries == dir = "sent" /\ reply.origin # None =>
  /\ reply.origin = "*" => ~setup.credentials
  /\ "Origin" \in reply.vary

\* Every request is answered in the end when a Timeout is outermost, even if the route
\* never answers or streams without an end into Compression (timeout.rs:40-52).
Answered == stack # <<>> /\ stack[1] = "Timeout" => <>(dir = "sent")

=============================================================================
