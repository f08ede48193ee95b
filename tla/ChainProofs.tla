------------------------------ MODULE ChainProofs ------------------------------
(****************************************************************************)
(* Proofs about Chain, for every list of middlewares an application may      *)
(* register, every request and every response of the route behind them.      *)
(*                                                                           *)
(* On the way in the invariant says what the layers that were passed have    *)
(* seen to (Guarded); on the way out, what holds of the response whatever    *)
(* layers are still to come (Sound).                                         *)
(****************************************************************************)
EXTENDS Chain, TLAPS

Asked == [origin : {None, "ours", "other"}, preflight : BOOLEAN, gzip : BOOLEAN,
          asked : Hosts, host : Hosts, fwdHost : Hosts, fwdProto : {None, "http", "https", "junk"},
          proxy : BOOLEAN, uri : {None, "http", "https"},
          scheme : {None, "http", "https"}, id : {None, "theirs", "ours"},
          declared : Nat \cup {None}, size : Nat]

Replies == [err : BOOLEAN, status : Nat \cup {None}, size : Nat \cup {Endless},
            event : BOOLEAN, fails : BOOLEAN, broke : BOOLEAN, gzip : {0, 1},
            zipped : BOOLEAN, length : Nat \cup {None},
            vary : SUBSET {"Origin", "Accept-Encoding"}, origin : {None, "*", "ours"},
            id : {None, "theirs", "ours"}, frame : {None, "handler", "layer"}]

\* An origin that may be named to the client.
Nameable(o) == o # None /\ o = "*" => ~setup.credentials

\* A response any layer may hand to the next: a length is the body's, or that of a body
\* that broke off in Compression; it is encoded once, by the layer only if the client
\* takes gzip, and an event stream never; an origin it names may be named, and is what
\* it varies with.
Sound(p) ==
  /\ p \in Replies
  /\ p.length \notin {None, p.size} => p.broke /\ ~p.zipped
  /\ p.zipped => request.gzip /\ p.gzip = 1
  /\ p.event => p.gzip = 0
  /\ p.origin # None => Nameable(p.origin) /\ "Origin" \in p.vary

\* What a layer may keep while it awaits the rest.
Keeps(l) ==
  CASE l = "RequestId"   -> {"theirs", "ours"}
    [] l = "Cors"        -> {o \in {None, "*", "ours"} : Nameable(o)}
    [] l = "Compression" -> {request.gzip}
    [] OTHER             -> {None}

StackOK == stack \in Seq(Layers) /\ Kept(stack) /\ setup \in [any : BOOLEAN, credentials : BOOLEAN]

PlaceOK ==
  /\ dir \in {"in", "out", "sent"}
  /\ level \in 0 .. Len(stack) + 1
  /\ dir = "in" => level >= 1
  /\ request \in Asked

\* A layer that was entered keeps what a layer of its kind keeps.
HeldOK ==
  /\ DOMAIN held = DOMAIN stack
  /\ \A i \in DOMAIN stack :
       IF dir = "in" /\ level <= i THEN held[i] = None
       ELSE dir # "sent" /\ i <= level => held[i] \in Keeps(stack[i])

Shape == StackOK /\ PlaceOK /\ HeldOK /\ Sound(reply)

-----------------------------------------------------------------------------
(* The way in                                                               *)

Passed(l) == \E i \in DOMAIN stack : i < level /\ stack[i] = l

\* A trusted proxy's headers have been taken over.
Forwarded == Passed("ProxyHeaders") /\ request.proxy

Scheme == {"http", "https"}

\* What TrustedHost and HttpsRedirect judge: what a trusted proxy told, if ProxyHeaders
\* stands before them.
Told(l) == Before("ProxyHeaders", l) /\ request.proxy

HostThatCounts == IF Told("TrustedHost") /\ request.fwdHost # None
                  THEN request.fwdHost ELSE request.asked

SchemeThatCounts == IF Told("HttpsRedirect") /\ request.fwdProto \in Scheme
                    THEN request.fwdProto ELSE request.uri

Guarded == dir = "in" =>
  /\ request.scheme = (IF Forwarded /\ request.fwdProto \in Scheme
                       THEN request.fwdProto ELSE None)
  /\ request.host = (IF Forwarded /\ request.fwdHost # None
                     THEN request.fwdHost ELSE request.asked)
  /\ Passed("TrustedHost") => HostThatCounts = "good"
  /\ Passed("HttpsRedirect") => SchemeThatCounts = "https"
  /\ Passed("BodyLimit") => request.size <= Limit
  /\ Passed("Cors") => ~request.preflight

IInv == Shape /\ Guarded

-----------------------------------------------------------------------------
(* The state keeps its shape                                                *)

LEMMA Fields ==
  /\ Sound(NoReply)
  /\ \A n \in Nat : Sound(Ok(n))
  /\ \A n \in Nat : Sound([NoReply EXCEPT !.err = TRUE, !.status = n])
<1> QED BY DEF NoReply, Ok, Replies, Sound

LEMMA InitType == Init => Shape
<1> SUFFICES ASSUME Init PROVE Shape
  OBVIOUS
<1>1. StackOK
  BY ChainAssumption DEF StackOK, Init
<1>2. request \in Asked
  <2> DEFINE when(l, values, other) == IF l \in Range(stack) THEN values ELSE {other}
  <2>1. request \in [
          origin : when("Cors", {None, "ours", "other"}, None),
          preflight : when("Cors", BOOLEAN, FALSE),
          gzip : when("Compression", BOOLEAN, FALSE),
          asked : when("TrustedHost", Hosts, "good"),
          host : when("TrustedHost", Hosts, "good"),
          fwdHost : when("ProxyHeaders", Hosts, None),
          fwdProto : when("ProxyHeaders", {None, "http", "https", "junk"}, None),
          proxy : when("ProxyHeaders", BOOLEAN, FALSE),
          uri : when("HttpsRedirect", {None, "http", "https"}, None),
          scheme : {None},
          id : when("RequestId", {None, "theirs"}, None),
          declared : when("BodyLimit", {None} \cup Sizes, None),
          size : when("BodyLimit", Sizes, 0)]
    BY Zenon DEF Requests, Init
  <2>2. \A l : when(l, {None, "ours", "other"}, None) \subseteq {None, "ours", "other"}
    OBVIOUS
  <2>3. \A l : when(l, BOOLEAN, FALSE) \subseteq BOOLEAN
    OBVIOUS
  <2>4. \A l : when(l, Hosts, "good") \subseteq Hosts /\ when(l, Hosts, None) \subseteq Hosts
    BY DEF Hosts
  <2>5. \A l : when(l, {None, "http", "https", "junk"}, None)
                 \subseteq {None, "http", "https", "junk"}
    OBVIOUS
  <2>6. \A l : /\ when(l, {None, "theirs"}, None) \subseteq {None, "theirs", "ours"}
               /\ when(l, {None, "http", "https"}, None) \subseteq {None, "http", "https"}
    OBVIOUS
  <2>7. \A l : /\ when(l, {None} \cup Sizes, None) \subseteq Nat \cup {None}
               /\ when(l, Sizes, 0) \subseteq Nat
    <3>1. Sizes \subseteq Nat /\ 0 \in Nat
      BY ChainAssumption
    <3> QED BY <3>1, Zenon
  <2> HIDE DEF when
  <2>8. /\ when("Cors", {None, "ours", "other"}, None) \subseteq {None, "ours", "other"}
        /\ when("Cors", BOOLEAN, FALSE) \subseteq BOOLEAN
        /\ when("Compression", BOOLEAN, FALSE) \subseteq BOOLEAN
        /\ when("TrustedHost", Hosts, "good") \subseteq Hosts
        /\ when("ProxyHeaders", Hosts, None) \subseteq Hosts
        /\ when("ProxyHeaders", {None, "http", "https", "junk"}, None)
             \subseteq {None, "http", "https", "junk"}
        /\ when("ProxyHeaders", BOOLEAN, FALSE) \subseteq BOOLEAN
        /\ when("HttpsRedirect", BOOLEAN, FALSE) \subseteq BOOLEAN
        /\ when("HttpsRedirect", {None, "http", "https"}, None)
             \subseteq {None, "http", "https"}
        /\ when("RequestId", {None, "theirs"}, None) \subseteq {None, "theirs", "ours"}
        /\ when("BodyLimit", {None} \cup Sizes, None) \subseteq Nat \cup {None}
        /\ when("BodyLimit", Sizes, 0) \subseteq Nat
    BY <2>2, <2>3, <2>4, <2>5, <2>6, <2>7, Zenon
  <2> QED BY <2>1, <2>8 DEF Asked
<1>3. Len(stack) \in Nat
  BY <1>1 DEF StackOK
<1>4. PlaceOK
  BY <1>2, <1>3 DEF PlaceOK, Init
<1>5. HeldOK
  <2>1. \A i \in DOMAIN stack : 1 <= i
    BY <1>1 DEF StackOK
  <2> QED BY <2>1 DEF HeldOK, Init
<1> QED BY <1>1, <1>4, <1>5, Fields DEF Shape, Init

\* What is sound depends only on the configuration and on whether the client takes gzip.
LEMMA SameRules ==
  ASSUME UNCHANGED <<setup, request.gzip>>
  PROVE  (\A l : Keeps(l)' = Keeps(l)) /\ (\A p : Sound(p)' = Sound(p))
<1>1. \A o : Nameable(o)' = Nameable(o)
  BY DEF Nameable
<1> QED BY <1>1 DEF Keeps, Sound, Replies

\* A layer that runs the rest.
LEMMA RunType ==
  ASSUME Shape, NEW l, At(l), NEW r \in Asked, r.gzip = request.gzip,
         NEW k \in Keeps(l), RunNext(r, k)
  PROVE  Shape'
<1> USE DEF Shape, At, RunNext
<1>1. StackOK'
  BY DEF StackOK, Kept
<1>2. PlaceOK'
  BY DEF PlaceOK, StackOK
<1>s. (\A m : Keeps(m)' = Keeps(m)) /\ (\A p : Sound(p)' = Sound(p))
  BY SameRules
<1>3. HeldOK'
  <2>1. DOMAIN held' = DOMAIN stack' /\ stack' = stack /\ dir' = "in" /\ dir = "in"
    BY DEF HeldOK
  <2>2. ASSUME NEW i \in DOMAIN stack
        PROVE  IF level + 1 <= i THEN held'[i] = None
               ELSE i <= level + 1 => held'[i] \in Keeps(stack[i])
    BY <2>2 DEF HeldOK, PlaceOK, StackOK
  <2>3. level' = level + 1
    OBVIOUS
  <2> QED BY <1>s, <2>1, <2>2, <2>3 DEF HeldOK
<1>4. Sound(reply)'
  BY <1>s
<1> QED BY <1>1, <1>2, <1>3, <1>4

\* A response on its way out.
LEMMA OutType ==
  ASSUME Shape, NEW p, Sound(p), reply' = p, dir' = "out",
         level' \in 0 .. Len(stack), level' < level, dir # "sent",
         UNCHANGED <<stack, setup, request, held>>
  PROVE  Shape'
<1> USE DEF Shape
<1>1. StackOK'
  BY DEF StackOK, Kept
<1>2. PlaceOK'
  BY DEF PlaceOK, StackOK
<1>3. HeldOK'
  BY SameRules DEF HeldOK, PlaceOK, StackOK
<1>4. Sound(reply)'
  BY SameRules
<1> QED BY <1>1, <1>2, <1>3, <1>4

\* Every layer, on the way in, runs the rest with a request of the same kind or answers.
LEMMA EnterType ==
  ASSUME Shape,
         \/ AssignId \/ StartTrace \/ StartTimer \/ CheckBody \/ CheckHost \/ Redirect
         \/ Normalize \/ EnterCors \/ EnterCompression \/ EnterSecurity
  PROVE  Shape'
<1>t. request \in Asked /\ setup \in [any : BOOLEAN, credentials : BOOLEAN]
  BY DEF Shape, PlaceOK, StackOK
<1>a. ASSUME NEW p, Sound(p), Answer(p), dir = "in", level \in DOMAIN stack
      PROVE  Shape'
  <2>1. level' \in 0 .. Len(stack) /\ level' < level
    BY <1>a DEF Answer, Shape, PlaceOK, StackOK
  <2> QED BY <1>a, <2>1, OutType DEF Answer
<1>f. ASSUME NEW n \in Nat, Fail(n), dir = "in", level \in DOMAIN stack
      PROVE  Shape'
  <2> QED BY <1>f, <1>a, Fields DEF Fail
<1>1. CASE AssignId
  <2>1. PICK id \in {"theirs", "ours"} :
          RunNext([request EXCEPT !.id = id], id)
    <3>1. (IF request.id # None THEN request.id ELSE "ours") \in {"theirs", "ours"}
      BY <1>t DEF Asked
    <3> QED BY <1>1, <3>1 DEF AssignId
  <2>2. [request EXCEPT !.id = id] \in Asked /\ [request EXCEPT !.id = id].gzip = request.gzip
    BY <1>t DEF Asked
  <2> QED BY <1>1, <2>1, <2>2, RunType DEF AssignId, Keeps
<1>2. CASE StartTrace \/ StartTimer \/ EnterSecurity
  BY <1>2, <1>t, RunType DEF StartTrace, StartTimer, EnterSecurity, Keeps
<1>3. CASE CheckBody
  <2>1. CASE Fail(413) \/ Fail(400)
    BY <1>3, <2>1, <1>f DEF CheckBody, At
  <2>2. CASE RunNext(request, None)
    BY <1>3, <2>2, <1>t, RunType DEF CheckBody, Keeps
  <2> QED BY <1>3, <2>1, <2>2 DEF CheckBody
<1>4. CASE CheckHost
  <2>1. CASE Fail(400)
    BY <1>4, <2>1, <1>f DEF CheckHost, At
  <2>2. CASE RunNext(request, None)
    BY <1>4, <2>2, <1>t, RunType DEF CheckHost, Keeps
  <2> QED BY <1>4, <2>1, <2>2 DEF CheckHost
<1>5. CASE Redirect
  <2>1. CASE Answer(Ok(308))
    <3>1. 308 \in Nat
      OBVIOUS
    <3>2. Sound(Ok(308))
      BY <3>1, Fields, Zenon
    <3> QED BY <1>5, <2>1, <3>2, <1>a DEF Redirect, At
  <2>2. CASE RunNext(request, None)
    BY <1>5, <2>2, <1>t, RunType DEF Redirect, Keeps
  <2> QED BY <1>5, <2>1, <2>2 DEF Redirect
<1>6. CASE Normalize
  <2>1. PICK r \in Asked : r.gzip = request.gzip /\ RunNext(r, None)
    <3> DEFINE n == [request EXCEPT
                       !.host = IF request.fwdHost # None THEN request.fwdHost ELSE @,
                       !.scheme = IF request.fwdProto \in {"http", "https"}
                                  THEN request.fwdProto ELSE @]
    <3>1. n \in Asked /\ n.gzip = request.gzip
      BY <1>t DEF Asked
    <3>2. RunNext(n, None) \/ RunNext(request, None)
      BY <1>6 DEF Normalize
    <3> HIDE DEF n
    <3> QED BY <1>t, <3>1, <3>2
  <2> QED BY <1>6, <2>1, RunType DEF Normalize, Keeps
<1>7. CASE EnterCors
  <2>1. AllowedOrigin(request) \in {o \in {None, "*", "ours"} : Nameable(o)}
    BY DEF AllowedOrigin, Nameable
  <2>2. CASE RunNext(request, AllowedOrigin(request))
    BY <1>7, <2>1, <2>2, <1>t, RunType DEF EnterCors, Keeps
  <2>3. CASE Answer([Ok(204) EXCEPT !.origin = AllowedOrigin(request), !.vary = {"Origin"}])
    <3>1. Sound([Ok(204) EXCEPT !.origin = AllowedOrigin(request), !.vary = {"Origin"}])
      BY <2>1 DEF Ok, NoReply, Replies, Sound
    <3> QED BY <1>7, <2>3, <3>1, <1>a DEF EnterCors, At
  <2> QED BY <1>7, <2>2, <2>3 DEF EnterCors
<1>8. CASE EnterCompression
  <2>1. request.gzip \in Keeps("Compression")
    BY <1>t DEF Asked, Keeps
  <2> QED BY <1>8, <2>1, <1>t, RunType DEF EnterCompression
<1> QED
  BY <1>1, <1>2, <1>3, <1>4, <1>5, <1>6, <1>7, <1>8

\* A layer, on the way out, passes on a response of the same kind.
LEMMA LeaveType ==
  ASSUME Shape, PassThrough \/ EchoId \/ LeaveCors \/ LeaveSecurity \/ LeaveCompression
  PROVE  Shape'
<1>t. Sound(reply) /\ level \in DOMAIN stack /\ dir = "out" /\ held[level] \in Keeps(stack[level])
  BY DEF Shape, HeldOK, StackOK, PassThrough, EchoId, LeaveCors, LeaveSecurity,
         LeaveCompression, Leaving
<1>p. ASSUME NEW p, Sound(p), Pass(p)
      PROVE  Shape'
  <2>1. level' \in 0 .. Len(stack) /\ level' < level
    BY <1>t, <1>p DEF Pass, Shape, StackOK
  <2> QED BY <1>t, <1>p, <2>1, OutType DEF Pass
<1>1. CASE PassThrough
  BY <1>1, <1>t, <1>p DEF PassThrough
<1>2. CASE EchoId
  <2>1. Sound([reply EXCEPT !.id = Echoed])
    BY <1>2, <1>t DEF EchoId, Leaving, Echoed, Keeps, Sound, Replies
  <2> QED BY <1>2, <2>1, <1>p DEF EchoId
<1>3. CASE LeaveCors
  <2>1. CASE held[level] = None
    BY <1>3, <2>1, <1>t, <1>p DEF LeaveCors
  <2>2. CASE held[level] # None
    <3>1. held[level] \in {"*", "ours"} /\ Nameable(held[level])
      BY <1>3, <2>2, <1>t DEF LeaveCors, Leaving, Keeps
    <3>2. Sound([reply EXCEPT !.origin = held[level], !.vary = VaryOnOrigin(reply)])
      BY <1>t, <3>1 DEF VaryOnOrigin, Sound, Replies
    <3> QED BY <1>3, <2>2, <3>2, <1>p DEF LeaveCors
  <2> QED BY <2>1, <2>2
<1>4. CASE LeaveSecurity
  <2>1. Sound([reply EXCEPT !.frame = IF @ = None THEN "layer" ELSE @])
    BY <1>t DEF Sound, Replies
  <2> QED BY <1>4, <2>1, <1>p DEF LeaveSecurity
<1>5. CASE LeaveCompression
  <2> DEFINE p == IF reply.event THEN reply
                  ELSE [reply EXCEPT !.vary = @ \cup {"Accept-Encoding"}]
             q == Collected(p)
  <2>1. Sound(p)
    BY <1>t DEF Sound, Replies
  <2>2. ASSUME Eligible(p), p.size # Endless
        PROVE  Sound(q) /\ q.size \in Nat /\ q.gzip = 0 /\ ~q.event /\ request.gzip
    <3>1. held[level] = request.gzip
      BY <1>5, <1>t DEF LeaveCompression, Leaving, Keeps
    <3> HIDE DEF p
    <3>2. /\ p \in Replies /\ p.size \in Nat /\ p.gzip = 0 /\ ~p.event /\ request.gzip
          /\ p.length \notin {None, p.size} => p.broke
          /\ p.origin # None => Nameable(p.origin) /\ "Origin" \in p.vary
      BY <2>1, <2>2, <3>1 DEF Eligible, Sound, Replies
    <3>3. ~p.zipped
      BY <2>1, <3>2 DEF Sound
    <3> DEFINE n == IF p.fails THEN 0 ELSE p.size
               b == p.broke \/ p.fails
    <3>4. q = [p EXCEPT !.size = n, !.fails = FALSE, !.broke = b]
      BY <3>2 DEF Collected, Replies
    <3>5. n \in Nat /\ b \in BOOLEAN /\ (n # p.size => b)
      BY <3>2 DEF Replies
    <3>6. /\ q \in Replies /\ q.size = n /\ q.broke = b /\ q.gzip = 0 /\ ~q.event /\ ~q.zipped
          /\ q.length = p.length /\ q.origin = p.origin /\ q.vary = p.vary
      <4> HIDE DEF n, b, q
      <4> QED BY <3>2, <3>3, <3>4, <3>5 DEF Replies
    <3>7. q.length \notin {None, q.size} => q.broke
      BY <3>2, <3>5, <3>6
    <3> HIDE DEF q, n, b
    <3> QED BY <3>2, <3>5, <3>6, <3>7 DEF Sound
  <2>3. ASSUME Eligible(p), p.size # Endless
        PROVE  Sound(Encoded(q))
    <3>1. Sound(q) /\ q.size \in Nat /\ q.gzip = 0 /\ ~q.event /\ request.gzip
      BY <2>2, <2>3
    <3> HIDE DEF q
    <3> DEFINE n == (q.size + 1) \div 2
    <3>2. n \in Nat
      BY <3>1
    <3>3. Encoded(q) = [q EXCEPT !.gzip = 1, !.zipped = TRUE, !.size = n, !.length = n]
      BY <3>1 DEF Encoded
    <3> HIDE DEF n
    <3>4. Sound([q EXCEPT !.gzip = 1, !.zipped = TRUE, !.size = n, !.length = n])
      BY <3>1, <3>2 DEF Sound, Replies
    <3> QED BY <3>3, <3>4
  <2>4. \/ Pass(p)
        \/ /\ Eligible(p) /\ p.size # Endless
           /\ Pass(q) \/ Pass(Encoded(q))
    BY <1>5 DEF LeaveCompression
  <2> HIDE DEF p, q
  <2> QED BY <2>1, <2>2, <2>3, <2>4, <1>p
<1> QED
  BY <1>1, <1>2, <1>3, <1>4, <1>5

\* The route, the deadline and the end.
LEMMA RestType ==
  ASSUME Shape, Dispatch \/ TimeoutFires \/ Send
  PROVE  Shape'
<1>l. Len(stack) \in Nat /\ DOMAIN stack = 1 .. Len(stack) /\ level \in Nat
  BY DEF Shape, StackOK, PlaceOK
<1>1. CASE Dispatch
  <2>1. PICK size \in Sizes \cup {Endless}, event, fails, own \in BOOLEAN, enc \in {0, 1} :
          /\ size = Endless => ~fails
          /\ event => enc = 0 /\ ~own
          /\ own => size \in Sizes
          /\ reply' = [NoReply EXCEPT !.status = 200, !.size = size, !.event = event,
                         !.fails = fails, !.gzip = enc,
                         !.length = IF own THEN size ELSE None,
                         !.frame = IF own THEN "handler" ELSE None]
    BY <1>1, Zenon DEF Dispatch
  <2> DEFINE length == IF own THEN size ELSE None
             frame  == IF own THEN "handler" ELSE None
             answer == [NoReply EXCEPT !.status = 200]
             body   == [answer EXCEPT !.size = size, !.event = event, !.fails = fails]
             p == [body EXCEPT !.gzip = enc, !.length = length, !.frame = frame]
  <2>2. Sound(p)
    <3>1. size \in Nat \cup {Endless} /\ (own => size \in Nat)
      BY <2>1, ChainAssumption
    <3>2. NoReply \in Replies /\ NoReply.origin = None /\ ~NoReply.zipped
      BY Fields DEF NoReply, Sound
    <3>3. body \in Replies /\ p \in Replies
      <4>1. 200 \in Nat /\ length \in Nat \cup {None} /\ frame \in {None, "handler"}
        BY <3>1
      <4> HIDE DEF length, frame
      <4>2. body \in Replies
        <5>1. answer \in Replies
          BY <3>2 DEF Replies
        <5> HIDE DEF answer
        <5> QED BY <3>1, <5>1 DEF Replies
      <4> HIDE DEF body
      <4>3. p \in Replies
        BY <4>1, <4>2 DEF Replies
      <4> QED BY <4>2, <4>3
    <3>4. /\ p.length = length /\ p.size = size /\ p.fails = fails
          /\ p.event = event /\ p.gzip = enc /\ p.origin = None /\ ~p.zipped
      BY <3>2 DEF Replies
    <3> HIDE DEF p
    <3> QED BY <2>1, <3>3, <3>4 DEF Sound
  <2>3. level' \in 0 .. Len(stack) /\ level' < level
    <3>1. level = Len(stack) + 1 /\ level' = level - 1
      BY <1>1 DEF Dispatch
    <3> QED BY <1>l, <3>1
  <2>4. reply' = p
    BY <2>1
  <2> HIDE DEF p
  <2> QED BY <1>1, <2>2, <2>3, <2>4, OutType DEF Dispatch
<1>2. CASE TimeoutFires
  <2>1. PICK i \in DOMAIN stack :
          /\ stack[i] = "Timeout" /\ Timed(i)
          /\ reply' = [NoReply EXCEPT !.err = TRUE, !.status = 504]
          /\ dir' = "out" /\ level' = i - 1
          /\ UNCHANGED <<stack, setup, request, held>>
    BY <1>2 DEF TimeoutFires
  <2>2. Sound([NoReply EXCEPT !.err = TRUE, !.status = 504])
    <3>1. 504 \in Nat
      OBVIOUS
    <3> QED BY <3>1, Fields, Zenon
  <2>3. level' \in 0 .. Len(stack) /\ level' < level
    BY <1>l, <2>1 DEF Timed
  <2> QED BY <2>1, <2>2, <2>3, OutType DEF Timed
<1>3. CASE Send
  <2>1. Sound([reply EXCEPT !.err = FALSE])
    BY DEF Shape, Sound, Replies
  <2>2. Sound(reply)'
    BY <1>3, <2>1, SameRules DEF Send
  <2>3. StackOK' /\ PlaceOK'
    BY <1>3 DEF Send, Shape, StackOK, PlaceOK, Kept
  <2>4. HeldOK'
    BY <1>3 DEF Send, Shape, HeldOK
  <2> QED BY <2>2, <2>3, <2>4 DEF Shape
<1> QED
  BY <1>1, <1>2, <1>3

LEMMA NextType == Shape /\ [Next]_vars => Shape'
<1> SUFFICES ASSUME Shape, [Next]_vars PROVE Shape'
  OBVIOUS
<1>1. CASE Next
  BY <1>1, EnterType, LeaveType, RestType DEF Next, Layer
<1>2. CASE UNCHANGED vars
  <2>1. Sound(reply)'
    BY <1>2, SameRules DEF vars, Shape
  <2>2. HeldOK'
    BY <1>2, SameRules DEF vars, Shape, HeldOK
  <2> QED BY <1>2, <2>1, <2>2 DEF vars, Shape, StackOK, PlaceOK, Kept
<1> QED BY <1>1, <1>2

-----------------------------------------------------------------------------
(* The guards                                                               *)

\* No layer is registered twice, so the layers passed are those before this one.
LEMMA Passing ==
  ASSUME Shape, NEW l, At(l), level' = level + 1, UNCHANGED stack
  PROVE  /\ \A m : Passed(m)' <=> Passed(m) \/ m = l
         /\ ~Passed(l)
         /\ \A m : Before(m, l) <=> Passed(m)
         /\ \A m : Has(m)' <=> Has(m)
         /\ Has(l)
<1>1. /\ level \in DOMAIN stack /\ stack[level] = l
      /\ Len(stack) \in Nat /\ DOMAIN stack = 1 .. Len(stack)
      /\ \A i, j \in DOMAIN stack : stack[i] = stack[j] => i = j
  BY DEF Shape, StackOK, Kept, At
<1>2. \A m : Passed(m)' <=> Passed(m) \/ m = l
  BY <1>1 DEF Passed
<1>3. ~Passed(l)
  BY <1>1 DEF Passed
<1>4. \A m : Before(m, l) <=> Passed(m)
  BY <1>1 DEF Passed, Before
<1>5. (\A m : Has(m)' <=> Has(m)) /\ Has(l)
  BY <1>1 DEF Has, Range
<1> QED BY <1>2, <1>3, <1>4, <1>5

LEMMA NextGuarded == Shape /\ Guarded /\ [Next]_vars => Guarded'
<1> SUFFICES ASSUME Shape, Guarded, [Next]_vars, dir' = "in" PROVE Guarded'
  BY DEF Guarded
<1>t. /\ request \in Asked /\ request.size \in Nat /\ Limit \in Nat
  BY ChainAssumption DEF Shape, PlaceOK, Asked
<1>b. UNCHANGED stack => \A a, b : Before(a, b)' <=> Before(a, b)
  BY DEF Before
\* A layer that passes the request on without touching what guards look at.
<1>s. ASSUME NEW l, At(l), NEW r, NEW k, RunNext(r, k),
             r.scheme = request.scheme /\ r.host = request.host,
             r.fwdHost = request.fwdHost /\ r.fwdProto = request.fwdProto,
             r.proxy = request.proxy /\ r.asked = request.asked /\ r.uri = request.uri,
             r.size = request.size /\ r.preflight = request.preflight,
             l = "TrustedHost" => request.host = "good",
             l = "BodyLimit" => request.size <= Limit,
             l = "HttpsRedirect" => IsHttps(request),
             l = "Cors" => ~request.preflight,
             l # "ProxyHeaders"
      PROVE  Guarded'
  <2>1. /\ request' = r /\ UNCHANGED <<stack, setup, dir>> /\ level' = level + 1
    BY <1>s DEF RunNext
  <2>2. /\ \A m : Passed(m)' <=> Passed(m) \/ m = l
        /\ \A m : Before(m, l) <=> Passed(m)
        /\ \A m : Has(m)' <=> Has(m)
    BY <1>s, <2>1, Passing
  <2>3. (\A a, b : Before(a, b)' <=> Before(a, b)) /\ dir = "in"
    BY <1>b, <1>s, <2>1 DEF At
  <2>4. /\ Forwarded' <=> Forwarded
        /\ HostThatCounts' = HostThatCounts /\ SchemeThatCounts' = SchemeThatCounts
    BY <1>s, <2>1, <2>2, <2>3 DEF Told, Forwarded, HostThatCounts, SchemeThatCounts
  <2>5. l = "TrustedHost" => HostThatCounts = "good"
    BY <1>s, <2>2, <2>3 DEF Told, Forwarded, Guarded, HostThatCounts
  <2>6. l = "HttpsRedirect" => SchemeThatCounts = "https"
    <3> SUFFICES ASSUME l = "HttpsRedirect" PROVE SchemeThatCounts = "https"
      OBVIOUS
    <3>1. IF request.scheme # None THEN request.scheme = "https" ELSE request.uri = "https"
      BY <1>s DEF IsHttps
    <3>2. Told("HttpsRedirect") <=> Forwarded
      BY <2>2 DEF Told, Forwarded
    <3>3. request.scheme = (IF Forwarded /\ request.fwdProto \in Scheme
                            THEN request.fwdProto ELSE None)
      BY <2>3 DEF Guarded
    <3>4. CASE Forwarded /\ request.fwdProto \in Scheme
      BY <3>1, <3>2, <3>3, <3>4, ChainAssumption DEF SchemeThatCounts, Scheme
    <3>5. CASE ~(Forwarded /\ request.fwdProto \in Scheme)
      BY <3>1, <3>2, <3>3, <3>5 DEF SchemeThatCounts
    <3> QED BY <3>4, <3>5
  <2> QED BY <1>s, <2>1, <2>2, <2>3, <2>4, <2>5, <2>6 DEF Guarded
<1>r. ASSUME NEW l, At(l), NEW k, RunNext(request, k),
             l = "TrustedHost" => request.host = "good",
             l = "BodyLimit" => request.size <= Limit,
             l = "HttpsRedirect" => IsHttps(request),
             l = "Cors" => ~request.preflight,
             l # "ProxyHeaders"
      PROVE  Guarded'
  BY <1>r, <1>s
<1>1. CASE AssignId
  <2>1. PICK id : RunNext([request EXCEPT !.id = id], id)
    BY <1>1 DEF AssignId
  <2> DEFINE r == [request EXCEPT !.id = id]
  <2>2. /\ r.scheme = request.scheme /\ r.host = request.host
        /\ r.fwdHost = request.fwdHost /\ r.fwdProto = request.fwdProto
        /\ r.proxy = request.proxy /\ r.asked = request.asked /\ r.uri = request.uri
        /\ r.size = request.size /\ r.preflight = request.preflight
    BY <1>t DEF Asked
  <2>3. At("RequestId") /\ RunNext(r, id)
    BY <1>1, <2>1 DEF AssignId
  <2> HIDE DEF r
  <2> QED BY <1>s, <2>2, <2>3
<1>2. CASE StartTrace \/ StartTimer \/ EnterSecurity
  BY <1>2, <1>r DEF StartTrace, StartTimer, EnterSecurity
<1>3. CASE CheckBody
  <2>1. request.size <= Limit /\ RunNext(request, None)
    BY <1>3, <1>t DEF CheckBody, TooLarge, Fail, Answer
  <2> QED BY <1>3, <1>r, <2>1 DEF CheckBody
<1>4. CASE CheckHost
  <2>1. request.host = "good" /\ RunNext(request, None)
    BY <1>4 DEF CheckHost, Fail, Answer
  <2> QED BY <1>4, <1>r, <2>1 DEF CheckHost
<1>5. CASE Redirect
  <2>1. IsHttps(request) /\ RunNext(request, None)
    BY <1>5 DEF Redirect, Answer
  <2> QED BY <1>5, <1>r, <2>1 DEF Redirect
<1>6. CASE Normalize
  <2> DEFINE r == [request EXCEPT
                     !.host = IF request.fwdHost # None THEN request.fwdHost ELSE @,
                     !.scheme = IF request.fwdProto \in {"http", "https"}
                                THEN request.fwdProto ELSE @]
  <2>1. /\ UNCHANGED <<stack, setup, dir>> /\ level' = level + 1
        /\ request' = IF request.proxy THEN r ELSE request
    BY <1>6 DEF Normalize, Trusted, RunNext
  <2>2. /\ r.fwdHost = request.fwdHost /\ r.fwdProto = request.fwdProto
        /\ r.proxy = request.proxy /\ r.asked = request.asked /\ r.uri = request.uri
        /\ r.size = request.size /\ r.preflight = request.preflight
        /\ r.host = (IF request.fwdHost # None THEN request.fwdHost ELSE request.host)
        /\ r.scheme = (IF request.fwdProto \in {"http", "https"}
                       THEN request.fwdProto ELSE request.scheme)
    BY <1>t DEF Asked
  <2> HIDE DEF r
  <2>3. /\ \A m : Passed(m)' <=> Passed(m) \/ m = "ProxyHeaders"
        /\ ~Passed("ProxyHeaders")
        /\ (\A m : Has(m)' <=> Has(m)) /\ Has("ProxyHeaders")
    BY <1>6, <2>1, Passing DEF Normalize
  <2>4. (\A a, b : Before(a, b)' <=> Before(a, b)) /\ dir = "in"
    BY <1>b, <1>6, <2>1 DEF Normalize, At
  <2>5. request.scheme = None /\ request.host = request.asked
    BY <2>3, <2>4 DEF Guarded, Forwarded
  <2>6. HostThatCounts' = HostThatCounts /\ SchemeThatCounts' = SchemeThatCounts
    BY <2>1, <2>2, <2>4 DEF Told, HostThatCounts, SchemeThatCounts
  <2>7. Forwarded' <=> request.proxy
    BY <2>1, <2>2, <2>3 DEF Forwarded
  <2>8. CASE request.proxy
    BY <2>1, <2>2, <2>3, <2>4, <2>5, <2>6, <2>7, <2>8 DEF Guarded, Scheme
  <2>9. CASE ~request.proxy
    BY <2>1, <2>3, <2>4, <2>5, <2>6, <2>7, <2>9 DEF Guarded
  <2> QED BY <2>8, <2>9
<1>7. CASE EnterCors
  <2>1. ~request.preflight /\ RunNext(request, AllowedOrigin(request))
    BY <1>7 DEF EnterCors, Answer
  <2> QED BY <1>7, <1>r, <2>1 DEF EnterCors
<1>8. CASE EnterCompression
  BY <1>8, <1>r DEF EnterCompression
<1>9. CASE PassThrough \/ EchoId \/ LeaveCors \/ LeaveSecurity \/ LeaveCompression
  BY <1>9 DEF PassThrough, EchoId, LeaveCors, LeaveSecurity, LeaveCompression, Leaving, Pass
<1>10. CASE Dispatch \/ TimeoutFires \/ Send
  BY <1>10 DEF Dispatch, TimeoutFires, Send
<1>11. CASE UNCHANGED vars
  BY <1>11 DEF vars, Guarded, Passed, Forwarded, Told, Before, Has, HostThatCounts,
               SchemeThatCounts
<1> QED
  BY <1>1, <1>2, <1>3, <1>4, <1>5, <1>6, <1>7, <1>8, <1>9, <1>10, <1>11 DEF Next, Layer

LEMMA InitGuarded == Init => Guarded
<1> SUFFICES ASSUME Init PROVE Guarded
  OBVIOUS
<1>1. request.scheme = None /\ request.host = request.asked /\ level = 1
  BY Zenon DEF Init, Requests
<1>2. \A l : ~Passed(l)
  <2>1. \A i \in DOMAIN stack : ~(i < 1)
    BY ChainAssumption DEF Init
  <2> QED BY <1>1, <2>1 DEF Passed
<1> QED BY <1>1, <1>2 DEF Guarded, Forwarded

-----------------------------------------------------------------------------
(* The theorems                                                             *)

\* The chain keeps its invariant, however the layers are ordered.
THEOREM Inductive == Spec => []IInv
<1>1. Init => IInv
  BY InitType, InitGuarded DEF IInv
<1>2. IInv /\ [Next]_vars => IInv'
  BY NextType, NextGuarded DEF IInv
<1> QED BY <1>1, <1>2, PTL DEF Spec

\* A request that reaches its route was let pass by every guard that is registered,
\* in whatever order the application registered them, by the host and the scheme that
\* count there (GuardsHold).
THEOREM GuardsHoldAlways == Spec => []GuardsHold
<1>1. IInv => GuardsHold
  <2> SUFFICES ASSUME IInv, Routed PROVE GuardsHold
    BY DEF GuardsHold
  <2>1. \A l : Has(l) => Passed(l)
    BY DEF IInv, Shape, StackOK, Routed, Has, Range, Passed
  <2>2. Guarded /\ dir = "in"
    BY DEF IInv, Routed
  <2> QED BY <2>1, <2>2 DEF Guarded, GuardsHold, Told, HostThatCounts, SchemeThatCounts, Scheme
<1> QED BY <1>1, Inductive, PTL

\* A response is sent with the length of its body unless that body broke off in
\* Compression, encoded at most once and by Compression only for a client that takes
\* gzip, and an event stream as it is, whatever the route made and wherever Compression
\* stands (WellFramed).
THEOREM WellFramedAlways == Spec => []WellFramed
<1>1. IInv => WellFramed
  BY DEF IInv, Shape, Sound, Replies, WellFramed
<1> QED BY <1>1, Inductive, PTL

\* An origin is named only together with Vary, and never any origin with credentials.
THEOREM OriginVariesAlways == Spec => []OriginVaries
<1>1. IInv => OriginVaries
  BY DEF IInv, Shape, Sound, Nameable, OriginVaries
<1> QED BY <1>1, Inductive, PTL

=============================================================================
