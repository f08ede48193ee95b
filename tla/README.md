# Tork in TLA+

A verification development for the Tork web framework (the Rust workspace this
directory sits beside). It models what the framework does between the user's
handlers and the libraries it stands on (tokio, hyper, rustls, matchit, moka,
redis): the order in which things start and stop, who holds what while requests,
WebSockets and shutdown interleave, and the shared structures those tasks meet in.
Paths below are relative to `src/crates/tork-core/src/` unless they say otherwise.

## The system

| component | state it keeps | operations | hard parts |
|---|---|---|---|
| Application lifecycle (`app.rs`, `lifespan.rs`) | the lifespans' containers, the hooks, the state map | `validate_lifecycle`, `run_startup` with rollback, `build`, bind, `on_ready`, `run_shutdown`, and the same for a `TestApp` | a failure at any point; the order of release |
| HTTP server (`server.rs`) | listener, watched connections, TLS handshakes under way, shutdown future | accept (plain, TLS), serve, stop accepting, `begin_ws_shutdown`, drain with timeout | shutdown racing with connections, handshakes and handlers |
| WebSocket (`ws.rs`) | per-IP counters, a permit per socket, the connection (hooks flag, close code), the shutdown watch | claim, accept, `recv`, send, `close`, `Drop` | cancelled futures, Drop on every path, hooks exactly once, the end of the runtime |
| Broadcast hub (`realtime.rs`) | map from room ids to channels behind a mutex; channels counted by reference | `room`, `broadcast`, `subscribe`, clone and drop of handles and receivers | eviction judged from two counters that others change without the mutex |
| Dispatch, hooks, errors (`service.rs`, `app.rs`, `hooks.rs`, `error.rs`) | none between requests | match, scoped and global hooks, panic boundary, exception handlers | which hooks run on which outcome |
| Middleware (`middleware/`) | the stack | `Next::run`, duplicate policies, the built-ins | a middleware that answers early or is dropped (Timeout) |
| Router (`router/`) | routers being built, the route table | builder calls in any order, nesting, `App::build`, `Matcher::find` | prefixes, tags and hooks of a router apply to routes added before and after; 404 or 405 |
| Rate limiting (`throttle/`) | counters per key and window in a store | `decide_one`, `enforce`, `incr`, `count` | concurrent requests, the turn of a window, a failing store |
| Cache (`cache/`) | entries with expiry in a store | `get`, `set`, `get_or_set`, `delete`, `clear` | concurrent misses, a write that overtakes a delete, a partial `clear` |
| Server-Sent Events (`sse.rs`) | a semaphore, a body per stream | permit, `poll_frame` | poll order of timeout, events and heartbeat; the permit's release |
| Extractors, body, multipart (`extract/`, `body.rs`, `multipart.rs`) | the body of a request, temporary files | take, limit, parse, spool | limits, clean-up on every path |
| Settings (`settings.rs`, `env.rs`) | the process environment and its lock | `load` | loads on several threads write the environment they read; precedence |
| State, DI (`state.rs`, `inject.rs`, the macros) | a typed map written at startup | insert, get, override; `Inject`, dependencies | the order of a handler's parameters |
| Documents (`tork-openapi`) | two documents made once | `documentation_routes`, `build_document`, `protect` | they describe routes that nesting has changed |
| Test support (`testing/`) | the task that serves, the channels to and from it, a jar of cookies | `build`, `bind_random_port`, requests, `shutdown`, drop | a boot that fails or panics; a client dropped at any moment; requests that share the jar |
| Logging, TLS files, Redis handle, responses | | | formatting, library set-up |

How they meet. `serve_listener` runs the lifecycle and, as one of its stages, the
server; a lifespan's startup may load settings, which shares the environment with
every other load. Every connection task of the server owns an `Arc<AppInner>`. A
request passes the global hooks, the middleware chain and the matcher before its
handler, whose parameters are extracted one after the other. A WebSocket route claims
the connection's upgrade inside a request, and from then on lives in a task the server
does not watch, tied to the application by a `Weak` reference to its hooks and by a
watch channel. A stream route answers with a body that is polled as long as the client
reads. Handlers share the hub, the cache and the throttler through the state map. A test
runs the same lifecycle, in its own task or behind a port, and talks to the application
through a client.

## Modules

| module | models | extends, instances |
|---|---|---|
| `Lifecycle` | `App` from `validate_lifecycle` to the return of `serve`, and `build_test`/`TestApp` | |
| `Settings` | several loads of settings that run at once | |
| `Application` | a lifespan whose startup loads the settings | extends `Lifecycle`, `Settings` |
| `WebSocket` | all WebSocket connections of an application | |
| `Server` | accept loops, connections, drain, exit | instances `Lifecycle` (its stage *serving*), `WebSocket` (its environment) |
| `Fanout` | what a hub promises: publish and subscribe by room name | |
| `Hub` | `Hub` and `Room` with the mutex and the reference counts | refines `Fanout` |
| `Dispatch` | the hooks, panics and errors of one request between socket and handler | |
| `Chain` | the ten built-in middlewares around one request | |
| `Docs` | what the OpenAPI and AsyncAPI documents hold, and the routes that serve them | |
| `Routing` | routers built in any order, the route table, the lookup | extends `Docs` |
| `Endpoint` | one request against that table, through its handler's parameters | extends `Routing` |
| `Throttle` | the throttle engine and its two stores | |
| `Cache` | the cache handles and their two stores | |
| `Sse` | event streams, their timers, and the connection under them | |
| `Uploads` | multipart requests, and what handlers do with the files | |
| `TestClient` | a test's client from its boot to its end, and its requests | instances `Lifecycle` |
| `ApplicationProofs`, `RealtimeProofs`, `ServerProofs`, `DispatchProofs`, `ChainProofs`, `ThrottleProofs`, `CacheProofs`, `BodyProofs` | theorems | the module they are named for; `ApplicationProofs` also `Lifecycle`, `RealtimeProofs` `WebSocket` and `Hub`, `BodyProofs` `Sse` and `Uploads` |
| `MC...` | small sets for TLC | the module they are named for |

### Lifecycle

`stage` is the point reached in `serve_listener`, `next` the index of the loop the
stage runs, `cell[k]` the `Option` in the k-th `LifespanCell` (*empty* before
startup, *up* with a container, *down* after `take`). One action is one iteration:
`StartLifespan` with its failure, `RollBack`, `StartHook`, `ReadyHook`,
`StopLifespan`, `StopHook`. `Build` and `Bind` may fail. `Signal` is the shutdown
future, which a caller may supply and which may have resolved during boot. A
`TestApp` skips bind and readiness. Hooks have no state: only whether they fail.

### Settings and Application

A load takes the environment lock, sets from its `.env` what is not set yet (one line a
step, up to a line that cannot be parsed), resolves the name of its environment and with
it its files, merges those one by one, then variables, secrets and
overrides over the defaults, and judges every field. The lock spans all of it. A
secret directory has no order, so two names of one field may come either way round.
`seen` is history: the environment a load found. `Application` takes the steps of
`Lifecycle` and lets the startup of one lifespan call a load and fail with it; other
loads run at any time on other threads. figment, dotenvy and TOML are external.

### WebSocket

`phase` is where the connection's task is, from the request through the `WebSocket`
handle (*claimed*, *spawned*, *upgrading*, *greeting*) to the `WebSocketConn`
(*open*, inside `recv`: *waiting*, *goingAway*, *firing*/*closing*) and its end.
Every await inside `recv` is a phase of its own, because a handler may drop the
future there (`Cancel`) or be dropped itself (`Drop`). `counts` and `tracked` are
the limiter's map: an address may have an entry with count zero. `begun`,
`finished`, `reported` and `wire` are history: what the hooks were told and what
went over the wire. `shutdown`, `appGone` and `runtime` belong to the environment.
Messages have no content. The disconnect hooks are assumed to be registered (with
none, there is nothing to say about them). A message, a ping and a raw frame are
one step that returns to the handler; `receive_text` and the typed variants loop
over `recv`.

`Looping` handlers are the documented `while let Some(..) = recv()` loop: they only
await `recv` and leave when it yields no message. All others may cancel `recv`,
ignore its answer and call it again.

### Server

`http[c]` follows a TCP connection: *queued* in the kernel, *handshaking* and
*handshaken* for TLS (the stream lies in the channel that only the accept loop
reads), *idle*, *busy* with a request, *upgraded*, *closed*. `AppGone` is computed:
`run_with_shutdown` has returned and no connection task holds the service. `tls`,
chosen at the start, is which of the two accept loops runs. The
steps of `Lifecycle` and `WebSocket` are taken from their modules; `StopAccepting`
ends the loop and announces the shutdown in one step, as no await lies between.
`Exit` is `main` returning: the runtime drops what still runs. One request per
connection is at most an upgrade. hyper is external: a kept-alive connection is
closed by its `GracefulShutdown`, a busy one after its response.

### Hub and Fanout

`handle[s]` and `rx[s]` are the channel a place in the program refers to, so that
`Arc::strong_count` (without the map's own) and `receiver_count` are the sizes of
`Handles` and `Receivers`. `room()` for an unknown id holds the mutex over many
steps: `ReadFirst` and `ReadSecond` are the two operands of the `||` in `retain`,
and everybody else moves between them. A channel's identity is reused when nothing
refers to it, so confusing an old and a new channel would show. The buffer drops
its oldest message when full; a receiver's `Lagged` error is not distinguished
from receiving the next message.

The model interleaves the two counter reads; it does not model weaker memory. The
reads are safe in the code for the reason the proof uses: a room seen without
handles can get one only through `room()`, which the mutex excludes, and
subscribing needs a handle or a receiver. `strong_count` is a relaxed load; a count
of one seen late only keeps a room longer, and the release/acquire pair of the
receiver's own lock orders a subscription before the drop of its handle.

### Dispatch

One request from `AppInner::handle` to its response. `at` is the hook loop or the
place it is in, `next` the index in that loop, `level` the number of middlewares on
the call stack, `result` what is being returned. Every await is a step: a `Timeout`
below which the request runs may drop it there (`TimeoutFires` for each one whose
level has been entered), and so may the connection (`ClientLeaves`). `log` is
history: which hooks ran, in their order, by event and error. Errors are told apart by a number, as a
middleware may replace one by another.

A configuration has the same number of hooks of each kind. With no hook and no
exception handler the code builds no `RequestInfo` and skips the loops, which is
what empty loops do; only the panic path asks (`HasInfo`), because it formats the
message only when there are hooks to tell. A middleware is *pass*, *guard* (answers
or fails before or after `next`) or *timeout*. `CodePanics` is a panic of user code
outside the boundary, which covers the handler only. Request logs, the metadata
itself and statuses have no state.

### Chain

`stack` is the list of layers after `resolve_duplicates`. A request goes inwards one
layer a step (`AssignId`, `CheckBody`, `CheckHost`, `Redirect`, `Normalize`,
`EnterCors`, ...), is answered by the route with any response (`Dispatch`), and goes
outwards through the same layers; a layer that answers early turns it round. `held` is
what a layer keeps on the call stack. Headers are the few fields the layers read of
one another: origin, host, forwarded host and scheme, content length, encoding, `Vary`.
The deadline of a `Timeout` may pass wherever the request is below it, also while
`Compression` collects a body. The scheme of the request target (`uri`) is the client's
word, whatever connection it came over: absolute form and `:scheme` of plaintext HTTP/2
may say *https*. A handler may set a length of its own, also on a stream that then fails. `resolve_duplicates` is a condition of the initial states: every
built-in layer rejects a second one, and such an application does not build.

### Docs, Routing and Endpoint

Paths are sequences of tokens: slashes, names and placeholders. `Routing` has one
action per builder call, in any order, as the prefix, the tags and the hooks of a router
are applied when it is included or mounted, whatever was called first; `BuildTable` is
`App::build`, which makes the documents, adds the routes that serve them, and fails if two
patterns conflict. `Find` tries the raw path, the path without its trailing slash, and the
collapsed one. The radix tree is matchit's, modelled as the most specific match; what it
refuses in one tree (`Clash`) is a second pattern of one shape, and a rest where a hole
begins. That fails the build for two routes of one method; `AllPaths`, the tree of all
methods from which 405 is told, is built in the order of the routes and leaves such a path out. `via`,
the routers around a route, is history: the properties compare the route table with what it says.

`Docs` holds the two documents as functions of the routes. Schemas and texts are left
out; what remains is which operation, parameter, tag, security requirement, channel and
message there is.

`Endpoint` sends one request after the table is built. `todo` is the rest of what the
generated handler does: rate limit, multipart prelude or WebSocket guard and handshake
(`Before`), the parameters, the call. A service of the `Inject` or dependency kind puts
its own parameters in its place. The first step that refuses answers. `facts` says what
the outcome depends on: what the body holds, which headers and states are there, whether a key for the limit is
found and what the limit says. JSON, a validated body, a urlencoded form and the multipart
prelude take the body in one way (`Body`) and differ in what they refuse it for.

### Throttle

One action per access of the store: `Arrive` reads the clock, `Hit` is `incr` and,
in a fixed window, the decision; in a sliding one `Look` is the `count` of the
previous window. `Decide` goes on to the next limit of the policy, for which the
clock is read again. The store is a map from scope, limit, key and bucket to a count
and an expiry. A local store is a map behind a mutex: no second passes between
reading the clock and taking the lock (`Delay`). A remote store answers
up to `MaxDelay` seconds later, and may lose requests and answers. The
configuration (`conf`) is chosen at the start. The
estimate is compared multiplied by the window. In the code it is a sum of `f64` whose
weight is rounded unless it is a dyadic fraction, so where the exact sum is the limit itself
either outcome may come (`Rounds`): a window of 20 s at second 9, a limit of 60 with 100 and 5
counted give 60.00000000000001. Numbers up to `Precise` are told apart otherwise; in the code
that is about 2^50, in the run 1024.

The policy has been resolved to its limits beforehand, and the key extracted (in
`Endpoint` that may fail): both are functions of the route and the request. `Scope` is the text the route macro
compiles in: the method and the path it can see.

### Cache

A task performs one operation of a handle; each call of the store is a step, and so is
every `SCAN` and `DEL` of a `clear` in Redis, with batches that may be empty and may
miss keys written meanwhile. A call may fail before or after it took effect. An entry
remembers who wrote it, and `dead` is history: the writes that a finished delete or
clear had found. `clear` in Redis scans for a glob, the user's prefix and a star. `Glob`, what
Redis makes of a pattern, is a parameter; a *plain* prefix has no character that means
something in one, and there a pattern is a prefix test. Times are in units finer than the millisecond `PX` counts in.

### Sse

`str[s]` is a stream: where its task is, which wakers its last poll left behind
(`waits`), what the source made and what was taken, the frames, and the three
instants at which its timers fire. A poll takes several steps, in the order of
`poll_frame`, and the source moves on between them. A parked stream runs only after a
waker was called, and the clock stands still while any stream is runnable. So a waker
that the code forgot to register would be a stream at rest with work to do. The
server's idle timeout sits under the body and counts writes.

### Uploads

Each request parses a form part by part, and a file chunk by chunk, with the counters
in the order the code checks them; a flush of the spool is a step during which the
blocking thread owns the file. `Bind` is what `#[derive(FormModel)]` generates. A
handler then reads and saves; a save is an existence check, an open and the copy, and goes on without its
request (`task`). A byte is its position in the file, so order and cursor matter. A handler
awaits each operation or is dropped with it; one that drops the future of a save itself
and goes on is not modelled.

### TestClient

`caller` is the test: *building*, *ready*, *closing*, and its ends. A client in process awaits
the steps of `Lifecycle` itself, so they stop when it is dropped; behind a port they belong to a
`task`, which may also panic in any hook or lifespan (`TaskPanics`). `address` is the oneshot by
which the last `on_ready` hook, or the end of the task, answers `bind_random_port`. The server's
shutdown future resolves with a value or with the loss of its sender (`Stops`). Requests share
the jar: `Send` puts it into the request, `Receive` stores what the response set, and others come
between; `carried` and `received` are history. A request may outlive its client: in process it
holds the application, and is answered also after the teardown. That the runtime of a test
drops its tasks at the end is not modelled, nor are the messages of a WebSocket.

## What is checked

Each run names its properties in its `.cfg`. `mutants` in `PROJECT.json` give for
every property a plausible error in the code under which TLC refutes it; they are
the operators marked *(Mutant)* just before the definition they stand for.

| run | bounds | shows |
|---|---|---|
| `application` | 3 lifespans, 1 hook of each kind, 2 of `on_ready`; 2 requests of a test and 1 cookie of 2 values, or 3 loads (one is the second lifespan's), 2 fields, 2 prefixes, 12 start environments | order of release and clean return, also when the load fails; every load is explained by its own sources and the environment it found; a test's client comes up and goes down with its application and keeps its cookies |
| `websocket` | 2 connections, one looping, 1 address and none, cap 1 | limiter exact and tight; hooks exactly once, with the close code; a waiting loop ends after the shutdown began |
| `server` | 2 connections, one may upgrade; plain and TLS; 2 lifespans | requests only with resources; no connection after the shutdown; implements `Lifecycle` and `WebSocket`; a signal, also one during boot, brings it down |
| `server_hooks` (violation) | 1 looping connection | see findings |
| `hub` | 3 places, 2 rooms, 3 channels, buffer 1 | no dead room survives `room()`; refines `Fanout` |
| `dispatch` | guard, Timeout, guard; no or 2 hooks of each kind | hooks bracket the request, nest and report once on every way through; a Timeout ends every request |
| `chain` | every list of up to 2 of the 10 layers, 3 of those whose order matters, one of 4; bodies of 0, 2, 3, 4 frames around the limits 2 and 3, and endless ones | guards hold in any order, also behind a proxy; length and encoding fit the body, but for a handler's length that outlives its body; an outermost Timeout answers every request |
| `endpoint` | 2 routers, 3 prefixes, 4 handlers, 5 builder calls, 9 paths, 2 methods; one or two things wrong with a request | a request reaches the route its declared pattern says, with its hooks; it is refused by the first fault; the documents say what is served |
| `throttle` | 2 keys; 1 in 1 s with 2 in 4 s, and 1 in 3 s, fixed in memory; 2 in 2 s and 2 in 3 s sliding in memory; 1 in 2 s in Redis, up to 2 seconds late: fixed, sliding, sliding and failing | no window lets more than any of its limits through (a fixed one in Redis twice that), no stretch more than twice; the sliding estimate bounds what was allowed; `Retry-After` is kept; nobody is denied early, but for rounding at the limit itself; the map is swept |
| `cache` | 3 tasks, 2 handles (`[a]`, a pattern for the keys of the other, and `ab`), 2 keys, TTLs none, 0 and 3 half-milliseconds, capacity 1 | what a finished delete or clear found is gone; another handle's entries are untouched; both but for what a prefix that is no plain text makes a clear miss or match |
| `sse` | 2 streams; heartbeat with idle timeout and a cap of 1; heartbeat with a longer client timeout, `done_event` and a cap of 1; no cap; 2 items each, 4 instants | slots exact; no wake-up lost; the client timeout ends the stream; a heartbeat keeps an idle connection |
| `uploads` | 2 requests, one parsing at a time; limits of 1 to 3 merged from three levels; 3 fields, two of one name; chunks of 1 and 2 bytes, spool of 2; 2 calls a handler; 1 destination | every limit, at every moment; a handler starts with exactly what was sent; a save that returned Ok stays |

Why the bounds suffice. Two connections are the smallest number that compete for
the slot of a cap of one and that overlap one connection's release with the other's
claim; a peer without an address is always among the choices. Three lifespans give
a rollback with a first, a middle and a last. Three places in the hub are a creator
of a room, a last handle being dropped and a receiver that stays; three channels
let one be created, one linger without a room and one be reused. What does not
depend on numbers is proved for all of them (below). In `Dispatch` a guard outside
and one inside the Timeout are all the places a middleware can have relative to it,
and two hooks are enough for an order and for a loop cut in the middle. In
`Throttle` the `load` of a configuration exceeds each limit by at least one, and
`MaxTime` covers two windows and the turn between them; `Sweep` is 1 in place of
4096, so that a map over the threshold occurs. In `Cache` three tasks are a
clear, a writer it may overtake and a second clear or delete. The `application` run has an
application that its main serves, with the loads, or one that a test boots, without them: the two
share nothing at once. Two `on_ready` hooks are one of the application and the client's own, two
requests one that is under way while the other is answered. In `Settings` one loader shares the
prefix of the lifespan's, one does not but writes a variable of it; each of the sources
is the highest for some field of some loader. In `Uploads` requests share nothing but
the destination, hence `OneParses`. Interactions between layers are between two, with
the three-layer lists for what one layer writes, a second changes and a third reads. `MCEndpoint`'s
constraint `Narrow` keeps two routes, one hook or tag, and requests with a fault to
tables of one route; nesting, conflicts and the lookup need two routes, faults only one.

Symmetry is used over connections' interchangeable names (tasks, keys, streams, requests,
routers) and only in runs of invariants and action properties, for which it is sound.

Deadlock is not checked: every one of these systems ends (the application returned,
the runtime stopped, the request was answered) or may rest with all clients gone.

### Fairness

Liveness is stated under the least the code's scheduling gives. `WebSocket`: a task
whose wait is over is polled (`RecvShutdown`), a close frame is
written or fails, hooks return, a looping handler leaves. Nothing is assumed of
clients, of handlers' own work, or that anybody stops the server. `Server`: booting,
the end of the accept loop, the drain and the teardown go on, so the user's startup and
shutdown code returns, and the 15-second timer fires with
connections still open. `Dispatch`: the
framework's own steps and hooks go on and the timer of a `Timeout` fires; nothing is
assumed of the handler, which may hang. `Chain`: the layers go on and the deadline
passes; nothing is assumed of the route or of a body. `Sse` states its deadlines as
invariants of its clock, which does not advance while a stream is runnable; that a woken task is
polled is all this assumes. `TestClient`: the task and the caller are polled, and hooks, lifespans
and the drain come to an end; requests and the test itself may stop anywhere. `Hub`,
`Settings`, `Throttle`, `Cache`,
`Uploads` and `Endpoint` have no liveness property.

## What is proved

The proof modules of components follow one layout: an inductive invariant (`IInv`, or one
named for its subject where a module holds several), a lemma that it holds initially, one
step per action that it is preserved, and the properties read off it. The assumptions are those named in
the modules: `N` positive, the hooks' numbers naturals, `Cap` a natural, the *No…* and
*Unset* values outside their sets, finite sets of connections, places and streams, positive
capacity, prefixes and keys sequences of strings, `.env` lines and files in sequences
(`DeclaredAssumption`), an environment a function on the variables.

- `ApplicationProofs`, on `Lifecycle`. What is up is always an initial segment `1 .. k`, and the
  stage and the loop index fix `k` (`UpTo`). Reverse order of release, readiness
  and the clean return follow. `ReverseOrder` alone is not inductive: it does not
  say that the rollback begins just below the lifespan that failed.
- `ApplicationProofs`, on `Application`. Every step of an application that loads settings is a step of
  `Lifecycle` or leaves its variables alone, so it inherits the two properties.
  `LockOwned`, that a load under way is the holder of the lock, is inductive by itself
  and gives `LoadsExcludeOneAnother` and `EnvironmentStill`: from the moment a load has
  resolved the name of its environment until it returns, no variable changes. For
  any loaders, fields, files and environments.
- `ApplicationProofs`, on what a load returns. `LoadExplained` speaks of finished loads
  and is not inductive. `LoadInv` says at every stage how the part merged so far
  is explained: `Reads`, that the environment is what the first `k` lines make of the one
  it was called in (`Told`), hence at the last line what the load by itself would leave
  (`ReadAlone`); `Merges` and `Seeks`, that each field has a value of the highest source from
  the second up to the last merged (`Highest`), with a step up for each source (`Raised`) and
  the defaults put below in the end (`Lowered`). Between loads it needs the lock: one that
  does not hold it does not depend on the environment (`SoundElsewhere`).
- `RealtimeProofs`, on `WebSocket`. Independent parts. Limiter: a socket under way holds
  exactly the permit of its peer (`PermitsHeld`), hence each count is the
  cardinality of a set of connections that a step changes by one element; exact counts, the cap
  and the tightness of the map follow (`LimiterExactHolds`). Hooks: `fired` and `detached` between them
  own the one right to run the hooks (`HooksInv`), with a clause for a dead `Weak`
  (`HooksExactlyOnceHolds`). A third, small one: a close frame that is not the server's own left its
  code (`CodeRecorded`), and hooks are given the code of the same step
  (`CloseCodeReportedAlways`).
- `RealtimeProofs`, on `Hub`. `MapBorn` ties the map to the channels' history, `ScanHolds`,
  `SuspectUnreachable` and `DeadStayDead` say what the thread under the mutex may
  rely on between its two reads. The refinement: every step of `Hub` is a step of
  `Fanout` or leaves its variables alone; eviction is invisible because only
  channels without users are evicted (`NameInjective` on used channels).
- `ServerProofs`. The server takes its steps from `Lifecycle` and `WebSocket`, so the
  refinements ask only that whatever else it does is a stutter, and that its use of the two
  is allowed. What neither part can know is `ClaimHeld`: a WebSocket that was claimed and
  not yet spawned sits in a request, which holds the application; without it the step by
  which the application goes would not be one of `WebSocket`. `HeldServed` says that connections
  hold the application only while the stage is *serving* or the drain timed out, and `BootInv`
  that all lifespans are up then; `RequestsHaveResources` is their conjunction.
- `DispatchProofs`. The place a request is in fixes what the hooks were told: which loop
  is how far (`AppOK`, `RouteOK`), what is being returned there (`FormOK`), and of which
  errors they heard (`ErrorsOK`). The errors are why the properties alone are not enough: one
  on its way out through the chain is *untold*, one that is rendered was told to all, and
  a later one is new, so a middleware or a Timeout may replace one by another at any
  level. `TimeoutFires` leaves a loop in the middle, which is why the scoped hooks are
  claimed only as a prefix. For any chain and any numbers of hooks.
- `ChainProofs`. On the way in, `Guarded` says what the layers passed so far have seen to,
  in terms of what was *passed* and not of positions, so it survives any order. What a request says of its own scheme is taken as
  `HttpsRedirect` takes it (`IsHttps`); that it came over HTTPS is not proved and not true. On the way out
  `Sound` holds of every response any layer may hand to the next, whose length may be stale only
  by the handler's own on a body that `Compression` found broken (`frame`); `HeldOK` ties what a
  layer keeps on the call stack to its kind, so that `Cors` cannot find what
  `Compression` kept. By the theorems the order is unbounded; TLC's lists have at most four.
- `BodyProofs`, on `Sse`. `Watching` says of a body at rest that it left a waker with every source
  and timer that may wake it, and of a body within a poll what it has seen to; the items made behind
  the poll's back need the clause for *heartbeat*. `Beating` bounds the next
  heartbeat by the idle timer. Both are about one stream and one clock: only `Tick` needs all
  streams at rest. Slots are a cardinality that a step changes by one, as in the limiter.
- `CacheProofs`. `Sweep` follows the writes a delete or clear found when it began: under
  which keys they can still be, in what the scan has left to return, or in the batch it is
  about to delete. Two facts keep them from coming back: a task writes once and is
  over then (`Written`), and whoever is *found* is over. `Forgotten` alone does not say
  that a scan which has seen its last cursor has nothing left. `OthersUntouched` rests on
  `KeyTellsHandle`: two prefixes of one key are comparable. What a pattern matches is arbitrary
  in both: a clear through a prefix that is not plain is held to what its own pattern
  matched.

- `BodyProofs`, on `Uploads`. `Sound` is about one request: the part being received is the
  last one and its bytes are in the spool and, after them, in the buffer (`Receiving`); the
  parser's counters are right, `total` being the number of bytes held (`Limited`); its lists
  are in order and hold whole files (`Listed`); what was sent for a field that comes
  later is still in them (`Complete`); and what is bound is what was sent (`Bound`).
  `BoundAsSent` alone says nothing before the handler, and that a file is whole there rests
  on the buffer being flushed when its part ends. The requests meet at the destinations: a running
  save has its destination to itself once it opened it (`Works`), one that returned Ok has
  nobody at its own (`Rests`, `Guarded`), and `create_new` is the step both rest on. For any
  requests, limits, chunks, destinations and struct; `BoundAsSent` supposes that no two
  fields of the struct have one kind and name (`DistinctFields`), as it must: the first takes all.
- `ThrottleProofs`. A counter is told against the requests: it never says more than have asked
  in its window (`Askers`; `Counted`), which is why nobody is denied early; and for as long as it is not
  renewed no less than got by (`Passers`; `Exact`), which is why a limit holds (`Single`).
  In Redis a fixed window's counter may expire and start anew while late hits arrive, once:
  `Double` follows the first counter and its renewal. `Smoothed` is the weighted
  estimate for every instant of a window (`Upto`), with those under way who will get by as far as they
  know (`Fits`). The limits alone are not inductive: they do not say what a
  counter stands for while requests that read it have not decided yet. For any limits,
  windows, keys, configurations and failures, and any delay of Redis up to a window.

Only proved: `OriginVaries`, and what the theorems say that name no property in `PROJECT.json`.
Only model-checked: everything temporal with fairness (`SignalReturns`,
`ShutdownEndsLoops`, `TimeoutAnswers`, `Answered`, `ClientContract`), since the prover has no
reasoning about ENABLED; `SessionCarried`; and the three invariants of `Endpoint`: what `Joined`, `Find` and
the documents compute for paths and routers of any length is induction over data.

## Findings

`PROJECT.json` lists the disagreements between the code and what the repository says of
it, each with the line it quotes. One has a run that ends in a violation on purpose:

1. `server_hooks`: without HTTP connections the server returns at once, the
   application state goes and with it the hooks a closing `recv` would have run.

The others were met while translating; the models contain the behaviour:

2. After a successful startup, an error of `build`, bind or an
   `on_ready` hook returns from `serve` with `?` and shuts no lifespan down
   (`CleanReturn` excepts these three).
3. `hooks_fired` is set before the hooks are awaited;
   a cancelled `recv` loses the rest of them, and `Drop` then skips them.
4. The runtime may stop before a handler waiting in `recv` was polled to send its 1001.
5. `panic_message` cuts a long message at byte 1024, which
   panics when that is inside a character, after and outside `catch_unwind`.
6. Routes with one method and local path, mounted under different
   prefixes, share their counters.
7. `HttpsRedirect` redirects the HTTPS requests of an application that terminates TLS
   itself: the target of an ordinary HTTP/1.1 request has no scheme.
8. `collapse_double_slashes` loses the leading slash, so the third form never matches.
9. `Cors` replaces the `Vary` that `Compression` put there.
10. `Multipart<T>` ignores the limits `upload(...)` gave the route.
11. `max_files` answers 400, not 413.
12. An upload whose operation failed is gone; a second save cannot succeed.
13. Two paths with one AsyncAPI channel name replace each other's channel.
14. WebSocket routes are operations of the OpenAPI document.

15. With a bracket in its prefix a Redis cache's `clear` removes nothing and returns Ok, as the
    prefix is not escaped in the pattern of the scan.
16. With a wildcard in it, `clear` takes other caches' entries along.
17. `HttpsRedirect` lets a plaintext request pass that says *https* in its target.
18. `Compression` makes an empty body of one that fails, under the length the handler told.
19. With `GET /{a}` and `POST /{*rest}`, `GET /a/a` answers 404: the tree of all paths has refused the
    second pattern, and the error is ignored.
20. A panic in a lifespan or hook leaves `bind_random_port` waiting for ever, as it holds the sender it
    waits for (`ClientContract` excepts it).
21. A test's client does not keep the cookies that a WebSocket handshake sets.

Smaller ones, without an entry:

- The disconnect hooks get no close code after the server's own 1001, which
  `send_close_going_away` does not record; `CloseCodeReported` excepts it.
- The panic boundary is on by default, as `app.rs:489` says; `docs/09:216` says that
  it is off.
- `Retry-After` of a sliding window names the start of the next window, where the
  previous one still has its full weight, so a client that waits as told may be
  denied again; `RetryAfterHonoured` is about fixed windows in this process, and limits above 0.
- In Redis, a hit computed at the end of a window may arrive after the window's
  counter has expired and start it anew, so a fixed window in Redis may let more
  than its limit through but never more than twice, as long as Redis answers within a
  window; `WindowCap` says the one of the other stores and the other of this one, and
  `BurstBound` leaves this one out: a stretch may meet late hits of a third window.
- A multipart route parses its body before the rate limit is asked (`route.rs:576`).
- `error.rs:293` names the code of a validation error `VALIDATION_FAILED`, a comment
  `VALIDATION_ERROR`.
- `SecurityHeaders` sets its headers on responses only: an error from further in passes
  it and is rendered without them.
- `Compression` collects every eligible body, a stream without an end included, unless it is an event stream.
- The variables a `.env` sets stay in the process, and count as real ones for every later
  load; without `env_file` the default `.env` is looked for all the same.
- Two secret files that name one field (`host`, `HOST`) win in the order of the directory.
- `protect` guards the document and its page; the AsyncAPI document is open.
- The reader of event streams in `testing/sse.rs`, which is not modelled, converts each frame on its own,
  so a character split over two frames is damaged.

## Hazards without a property

Three of the hazards in `PROJECT.json` have none. Two are findings above (4 and 5): the models
reach them, and nothing that holds can cover them. A client that stops reading holds its stream and its slot while no
idle timeout is configured; `Sse` lets it stall and claims nothing. A poll of a stream whose source has
an oversized event at every moment does not come back to its timeout: the clock of `Sse` stands
still while a stream is runnable, so `TimeoutEnds` is about timers that are asked in every poll,
not about a poll without an end.

## Not modelled, and the plan

Left out: formatting and log configuration (Logging), certificates read into rustls
(TLS), what builders of test requests put into them and readers take out of responses, their event streams, the log recorder and the messages of a test's WebSocket (Test support), marker types (Security schemes), parsing of
attributes and compile errors (Macros), schemas, texts and the HTML page (documents),
response constructors that set one status and one header, examples and benchmarks: none
keeps state or orders steps. The typed state map is written once before anything reads
it; only the answer of a lookup is modelled. In a local store of counters no second passes
between reading the clock (engine.rs:193) and taking the lock (store.rs:53). Panics of a validator and a poisoned lock are not modelled,
nor a secret that is both a group and a value, which figment decides. Real time is measured in
`Throttle`, `Cache` and `Sse` only: elsewhere a timeout is a step that may happen.

Planned, the most important first:

- `Server` with `Sse` in place of its abstract busy connections, so that a drain meets
  streams that never end.
