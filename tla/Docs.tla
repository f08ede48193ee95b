---------------------------------- MODULE Docs ----------------------------------
(****************************************************************************)
(* What tork-openapi makes of the routes of an application: the OpenAPI and  *)
(* the AsyncAPI document (spec.rs, asyncapi.rs), and the routes that serve   *)
(* them and the page that shows them (docs.rs). The metadata they read is    *)
(* what the macros put into a route (tork-macros: route.rs, sse.rs,          *)
(* websocket.rs, api_router.rs). Schemas and texts are left out.             *)
(*                                                                           *)
(* A path is a sequence of tokens: slashes, and the names between them.      *)
(****************************************************************************)
EXTENDS Integers, Sequences, FiniteSets, SequencesExt

CONSTANTS
  Hole, Rest,  \* the tokens for `{name}` and `{*name}` in a pattern
  Word,        \* what a channel name keeps of a token: letters and digits
  DocPaths     \* where the document, its page and the AsyncAPI document are served

Slash == "/"

\* The segments of a path.
Names(p) == SelectSeq(p, LAMBDA t : t # Slash)

\* The last of the elements at some indices, as inserting them into one map leaves it.
LastOf(list, at) == list[CHOOSE i \in at : \A j \in at : j <= i]

-----------------------------------------------------------------------------
(* OpenAPI *)

\* An `#[api_router]` module gives its requirements to its HTTP routes only.
Inherited(d) == IF d.kind = "http" THEN d.router_security ELSE {}

SecurityOf(d) == IF d.security # {} THEN d.security ELSE Inherited(d)

\* (Mutant) The path as the handler's macro gave it.
DocumentedLocal(route) == route.decl.path

Documented(route) == route.path

\* placeholder_names.
Placeholders(p) == SelectSeq(Names(p), LAMBDA t : t \in Hole \cup Rest)

Operation(route) ==
  [parameters |-> Placeholders(Documented(route)), tags |-> route.tags,
   stream |-> route.decl.kind = "sse", security |-> SecurityOf(route.decl)]

\* build_document: the operations by path and method, of whatever kind the route is.
OpenApiOf(routes) ==
  LET key(route) == <<Documented(route), route.decl.method>> IN
    [k \in {key(routes[i]) : i \in DOMAIN routes} |->
       Operation(LastOf(routes, {i \in DOMAIN routes : key(routes[i]) = k}))]

-----------------------------------------------------------------------------
(* AsyncAPI *)

\* channel_name: braces vanish, so that a placeholder reads like a name.
ChannelName(p) ==
  IF Names(p) = <<>> THEN <<"root">> ELSE [i \in DOMAIN Names(p) |-> Word[Names(p)[i]]]

\* The messages of a channel: the data of a stream, what a WebSocket receives and sends.
Messages(d) ==
  IF d.kind = "sse" THEN d.sends
  ELSE (IF d.receives = {} THEN {} ELSE {"incoming"}) \cup (IF d.sends = {} THEN {} ELSE {"outgoing"})

\* Its operations, each with the messages of the channel it names.
Actions(d) ==
  IF d.kind = "sse" THEN {[action |-> "send", messages |-> {}]}
  ELSE {[action |-> IF m = "incoming" THEN "receive" ELSE "send", messages |-> {m}] : m \in Messages(d)}

AsyncApiOf(routes) ==
  LET streams == SelectSeq(routes, LAMBDA r : r.decl.kind \in {"sse", "websocket"})
      name(r) == ChannelName(r.path)
      acts(n, a) == {i \in DOMAIN streams :
        name(streams[i]) = n /\ a \in {o.action : o \in Actions(streams[i].decl)}}
      names == {name(streams[i]) : i \in DOMAIN streams}
  IN  [channels |-> [n \in names |->
         LET r == LastOf(streams, {i \in DOMAIN streams : name(streams[i]) = n}) IN
           [address |-> r.path, messages |-> Messages(r.decl)]],
       operations |-> [k \in {k \in names \X {"send", "receive"} : acts(k[1], k[2]) # {}} |->
         LET r == LastOf(streams, acts(k[1], k[2])) IN
           (CHOOSE o \in Actions(r.decl) : o.action = k[2]).messages]]

-----------------------------------------------------------------------------
(* Serving them *)

\* OpenApi::protect guards the document and its page, nothing the AsyncAPI document.
DocRoute(path, guarded) ==
  [decl |-> [id |-> "docs", kind |-> "docs", method |-> "GET", path |-> path, guarded |-> guarded,
             params |-> <<>>, multipart |-> FALSE],
   path |-> path, tags |-> <<>>, hooks |-> <<>>, via |-> <<>>]

\* documentation_routes of both providers, in the order App::build asks them.
DocRoutes == <<DocRoute(DocPaths.spec, TRUE), DocRoute(DocPaths.page, TRUE), DocRoute(DocPaths.async, FALSE)>>

DocumentsOf(routes) == [openapi |-> OpenApiOf(routes), asyncapi |-> AsyncApiOf(routes)]

=============================================================================
