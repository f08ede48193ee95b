-------------------------------- MODULE Routing --------------------------------
(****************************************************************************)
(* Routers and the route table (tork-core/src/router): the builder calls in  *)
(* any order, the flattening of nested routers, and the lookup of a request. *)
(****************************************************************************)
EXTENDS Docs

CONSTANTS
  RouterId,  \* the routers an application builds
  PrefixSet,  \* the prefixes it gives them
  Decls,     \* the handlers: their method, local path and parameters
  MaxCalls,  \* bound: builder calls
  Nul        \* a name with a null byte in it

ASSUME RoutingAssumption ==
  /\ \A p \in PrefixSet : \A i \in DOMAIN p : p[i] \notin Rest
  /\ \A d \in Decls : d.path[1] = Slash
  /\ Hole \cap Rest = {} /\ Slash \notin Hole \cup Rest
  /\ MaxCalls \in Nat

VARIABLES
  routers,  \* what each Router holds, and whether it was moved
  mounted,  \* App.routers: those that were included, in order
  calls,    \* builder calls so far
  stage,    \* "building", "built", or "conflict": build failed
  table,    \* the Matcher's routes
  docs      \* the documents that are served, made once

builder == <<routers, mounted, calls, stage, table, docs>>

-----------------------------------------------------------------------------
(* Paths *)

TrimEnd(p) ==
  LET kept == {i \in DOMAIN p : p[i] # Slash} IN
    IF kept = {} THEN <<>> ELSE SubSeq(p, 1, CHOOSE i \in kept : \A j \in kept : j <= i)

TrimStart(p) == Reverse(TrimEnd(Reverse(p)))

\* (Mutant) The two are put side by side.
JoinedAsIs(prefix, path) == prefix \o path

\* join_paths: one slash between the two, one at the start, none at the end.
Joined(prefix, path) ==
  LET head     == TrimEnd(prefix)
      tail     == TrimStart(path)
      combined == head \o (IF tail = <<>> THEN <<>> ELSE <<Slash>> \o tail)
      rooted   == IF combined # <<>> /\ combined[1] = Slash THEN combined ELSE <<Slash>> \o combined
  IN  IF TrimEnd(rooted) = <<>> THEN <<Slash>> ELSE TrimEnd(rooted)

-----------------------------------------------------------------------------
(* Building *)

\* via names the routers around a route, outermost first: it is not in the code.
RouteOf(d) == [decl |-> d, path |-> d.path, tags |-> d.tags, hooks |-> <<d.id>>, via |-> <<>>]

EmptyRouter == [moved |-> FALSE, prefix |-> <<>>, tags |-> <<>>, hooks |-> <<>>, routes |-> <<>>]

RoutingInit ==
  /\ routers = [r \in RouterId |-> EmptyRouter]
  /\ mounted = <<>> /\ calls = 0
  /\ stage = "building" /\ table = <<>> /\ docs = DocumentsOf(<<>>)

\* prepend_hooks.
HooksAround(outer, inner) == outer \o inner

\* inherit_tags: those that are not there yet.
Inherit(own, tags) == own \o SelectSeq(tags, LAMBDA t : t \notin Range(own))

\* into_routes, for one route of router r.
Flat(r, route) ==
  [route EXCEPT !.path  = Joined(routers[r].prefix, @),
                !.tags  = Inherit(@, routers[r].tags),
                !.hooks = HooksAround(routers[r].hooks, @),
                !.via   = <<r>> \o @]

IntoRoutes(r) == [i \in DOMAIN routers[r].routes |-> Flat(r, routers[r].routes[i])]

Call(r) ==
  /\ stage = "building" /\ calls < MaxCalls /\ ~routers[r].moved
  /\ calls' = calls + 1
  /\ UNCHANGED <<stage, table, docs>>

SetPrefix(r, p) ==
  /\ Call(r) /\ routers' = [routers EXCEPT ![r].prefix = p]
  /\ UNCHANGED mounted

SetTags(r) ==
  /\ Call(r) /\ routers' = [routers EXCEPT ![r].tags = <<"common", r>>]
  /\ UNCHANGED mounted

\* One of the four kinds of scoped hooks: they are kept and nested alike.
OnRequest(r) ==
  /\ Call(r) /\ routers' = [routers EXCEPT ![r].hooks = Append(@, r)]
  /\ UNCHANGED mounted

AddRoute(r, d) ==
  /\ Call(r) /\ routers' = [routers EXCEPT ![r].routes = Append(@, RouteOf(d))]
  /\ UNCHANGED mounted

\* Router::include resolves the child and moves it.
Include(r, child) ==
  /\ r # child /\ Call(r) /\ ~routers[child].moved
  /\ routers' = [routers EXCEPT ![r].routes = @ \o IntoRoutes(child), ![child].moved = TRUE]
  /\ UNCHANGED mounted

\* App::include_router.
Mount(r) ==
  /\ Call(r)
  /\ routers' = [routers EXCEPT ![r].moved = TRUE]
  /\ mounted' = Append(mounted, r)

\* What matchit makes of a token: a name is itself, a hole any name, a rest any more.
Shape(p) == [i \in DOMAIN p |-> IF p[i] \in Hole THEN "{}" ELSE IF p[i] \in Rest THEN "{*}" ELSE p[i]]

\* A hole and a rest meet where two patterns begin to differ.
Parted(p, q) == \E i \in DOMAIN p \cap DOMAIN q :
  /\ {Shape(p)[i], Shape(q)[i]} = {"{}", "{*}"}
  /\ \A j \in 1 .. i - 1 : Shape(p)[j] = Shape(q)[j]

\* matchit takes two patterns into one tree in neither order if they have the same shape,
\* or if a hole and a rest meet.
Clash(p, q) == Shape(p) = Shape(q) \/ Parted(p, q)

\* Every method has a tree of its own, and a pattern it refuses fails the build.
Conflicting(routes) == \E i, j \in DOMAIN routes :
  i # j /\ routes[i].decl.method = routes[j].decl.method
        /\ Clash(routes[i].path, routes[j].path)

\* all_paths, the one tree for all methods: what it refuses is left out.
AllPaths(routes) ==
  FoldLeft(LAMBDA kept, route :
             IF \E p \in kept : Clash(p, route.path) THEN kept ELSE kept \cup {route.path},
           {}, routes)

\* App::build: the documents are made of the application's own routes, and served by
\* routes that come after them; then Matcher::build.
BuildTable ==
  /\ stage = "building" /\ mounted # <<>>
  /\ LET own    == FlattenSeq([i \in DOMAIN mounted |-> IntoRoutes(mounted[i])])
         routes == own \o DocRoutes
     IN  IF Conflicting(routes) THEN stage' = "conflict" /\ UNCHANGED <<table, docs>>
         ELSE stage' = "built" /\ table' = routes /\ docs' = DocumentsOf(own)
  /\ UNCHANGED <<routers, mounted, calls>>

Building ==
  \/ \E r \in RouterId :
       \/ \E p \in PrefixSet : SetPrefix(r, p)
       \/ SetTags(r) \/ OnRequest(r) \/ Mount(r)
       \/ \E d \in Decls : AddRoute(r, d)
       \/ \E child \in RouterId : Include(r, child)
  \/ BuildTable

-----------------------------------------------------------------------------
(* Looking a request up *)

\* matchit's at: a pattern fits a path, and the most specific one wins: at the first
\* token where two differ, a name before a hole before a rest.
Takes(token, name) == token = name \/ (token \in Hole /\ name # Slash)

FitsPattern(p, path) ==
  IF p[Len(p)] \in Rest
  THEN /\ Len(path) >= Len(p)
       /\ \A i \in 1 .. Len(p) - 1 : Takes(p[i], path[i])
  ELSE Len(path) = Len(p) /\ \A i \in DOMAIN p : Takes(p[i], path[i])

Rank(token) == IF token \in Rest THEN 3 ELSE IF token \in Hole THEN 2 ELSE 1

FirstOver(p, q) == \E i \in DOMAIN p \cap DOMAIN q :
  /\ Rank(p[i]) < Rank(q[i])
  /\ \A j \in 1 .. i - 1 : Rank(p[j]) = Rank(q[j])

Fits(method, path) ==
  {i \in DOMAIN table : table[i].decl.method = method /\ FitsPattern(table[i].path, path)}

BestFit(method, path) == CHOOSE i \in Fits(method, path) :
  \A j \in Fits(method, path) \ {i} : FirstOver(table[i].path, table[j].path)

\* normalized_request_path, where None is the path itself.
Trimmed(path) == IF TrimEnd(path) = <<>> THEN <<Slash>> ELSE TrimEnd(path)

\* collapse_double_slashes: the names joined with single slashes, the first dropped.
Collapsed(path) ==
  LET names == SelectSeq(path, LAMBDA t : t # Slash)
      twice == \E i \in 1 .. Len(path) - 1 : path[i] = Slash /\ path[i + 1] = Slash
  IN  IF ~twice THEN path
      ELSE IF names = <<>> THEN <<Slash>>
      ELSE [i \in 1 .. 2 * Len(names) - 1 |-> IF i % 2 = 1 THEN names[(i + 1) \div 2] ELSE Slash]

\* The forms in which a path is looked up among the routes of a method, one after the
\* other, and those in which it is looked up in all_paths: the second only if the path
\* ends in a slash, the third only if it does not.
Tried(path)   == <<path, Trimmed(path), Collapsed(path)>>
Allowed(path) == {path, IF Last(path) = Slash THEN Trimmed(path) ELSE Collapsed(path)}

NotFound   == 0
NotAllowed == -1

\* Matcher::find: a route by its number, and the form that it fits.
Find(method, path) ==
  LET hits  == {k \in DOMAIN Tried(path) : Fits(method, Tried(path)[k]) # {}}
      form  == Tried(path)[CHOOSE k \in hits : \A l \in hits : k <= l]
      known == \E p \in AllPaths(table), f \in Allowed(path) : FitsPattern(p, f)
  IN  IF Nul \in Range(path) THEN [route |-> NotFound, form |-> path]
      ELSE IF hits # {} THEN [route |-> BestFit(method, form), form |-> form]
      ELSE [route |-> IF known THEN NotAllowed ELSE NotFound, form |-> path]
=============================================================================
