------------------------------- MODULE MCEndpoint ------------------------------
EXTENDS Endpoint, TLC

P(kind, name) == [kind |-> kind, name |-> name]
D(id, kind, method, path, multipart, params) ==
  [id |-> id, kind |-> kind, method |-> method, path |-> path, tags |-> <<"own">>,
   multipart |-> multipart, params |-> params, security |-> {}, router_security |-> {"bearerAuth"},
   sends |-> IF kind = "http" THEN {} ELSE {"data"}, receives |-> {}]

MCPrefixSet == {<<"/">>, <<"/", "a", "/">>, <<"/", "{a}">>}

MCDecls == {
  D("feed", "sse", "GET", <<"/">>, FALSE, <<P("bearer", None), P("resume", None), P("inject", "store")>>),
  [D("chat", "websocket", "GET", <<"/", "{a}">>, FALSE,
     <<P("path", "{a}"), P("dependency", "user"), P("socket", None)>>) EXCEPT !.receives = {"data"}],
  [D("create", "http", "POST", <<"/", "a", "/">>, FALSE, <<P("dependency", "user"), P("valid", None)>>)
     EXCEPT !.security = {"apiKey"}],
  D("sign", "http", "POST", <<"/", "{a}">>, FALSE, <<P("form", None), P("path", "{a}")>>),
  D("upload", "http", "POST", <<"/", "{*rest}">>, TRUE, <<P("path", "{*rest}"), P("state", None)>>)}

\* A channel of /{a} has the name of the channel of /a.
MCWord == [t \in {"a", "{a}", "{*rest}"} |-> IF t = "{*rest}" THEN "_rest" ELSE "a"]

MCDocPaths == [spec |-> <<"/", "spec">>, page |-> <<"/", "page">>, async |-> <<"/", "a", "/", "spec">>]

MCServices == [store |-> <<P("state", None), P("bearer", None)>>,
               user  |-> <<P("bearer", None), P("json", None)>>]

MCPaths == {<<"/">>, <<"/", "a">>, <<"/", "a", "/">>, <<"/", "a", "/", "a">>, <<"/", "text">>,
            <<"/", "a", "/", "text", "/">>, <<"/", "/", "a">>, <<"/", Nul>>,
            <<"/", "spec">>}

AllRight == [body |-> "good", bearer |-> TRUE, state |-> TRUE, resolve |-> TRUE,
             limit |-> "open", override |-> FALSE, handshake |-> "ok", slot |-> TRUE]

\* All in order, one thing wrong, or two.
MCFacts ==
  LET bodies == {"good", "wrapped", "large", "deep", "syntax", "rules"} IN
  {[AllRight EXCEPT !.body = b] : b \in bodies}
  \cup {[AllRight EXCEPT !.bearer = FALSE, !.state = s, !.override = o] : s, o \in BOOLEAN}
  \cup {[AllRight EXCEPT !.limit = l, !.body = b] : l \in {"used", "keyless"}, b \in {"good", "large"}}
  \cup {[AllRight EXCEPT !.resolve = FALSE], [AllRight EXCEPT !.state = FALSE]}
  \cup {[AllRight EXCEPT !.handshake = h, !.slot = FALSE] : h \in {"ok", "origin", "headers"}}

MCErrors == {Err(418), [Err(503) EXCEPT !.details = TRUE]}

\* Two routes in all, one hook or tag; no router that is left unused; things go wrong in
\* a table of one route.
Narrow ==
  /\ Cardinality({r \in RouterId : routers[r].tags # <<>>})
       + Cardinality({r \in RouterId : routers[r].hooks # <<>>}) <= 1
  /\ \A r \in RouterId : Len(routers[r].hooks) <= 1 /\ Len(routers[r].routes) <= 2
  /\ stage = "building" \/ \A r \in RouterId : routers[r].moved \/ routers[r] = EmptyRouter
  /\ req.facts \in {None, AllRight} \/ Cardinality(Own) = 1

Symmetry == Permutations(RouterId)
=============================================================================
