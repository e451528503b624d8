----------------------------- MODULE Transport ------------------------------
(***************************************************************************)
(* Calls over the network, in three parts that share no state: package     *)
(* httpclient, package web and the gRPC server of adapters/grpc.           *)
(***************************************************************************)
EXTENDS Integers, Sequences, FiniteSets

-----------------------------------------------------------------------------
(* httpclient.Client: derived clients and calls with retries.  Two calls   *)
(* may run on clients derived from one base.  A setting is one value of    *)
(* the header map; a body is "none" or the caller's.                       *)

CONSTANTS
    Clients,        \* clients derived from the base one
    MaxRetries, MaxBody

VARIABLES
    owner,      \* owner[c]: the map c's headers live in; a map is named after the client made with it
    header,     \* header[m]: the contents of map m
    wrote,      \* history: wrote[c]: what c's own chain put into its headers
    call,       \* call[c]: the do of client c
    open        \* response bodies not closed

hcVars == <<owner, header, wrote, call, open>>
Base == "base"
NoCall == [pc |-> "idle", retries |-> 0, data |-> FALSE, attempt |-> 0, sent |-> <<>>, lastErr |-> "none", result |-> "none"]

ClientInit ==
    /\ owner = [c \in Clients \cup {Base} |-> Base]
    /\ header = [m \in Clients \cup {Base} |-> {}] /\ wrote = [c \in Clients \cup {Base} |-> {}]
    /\ call = [c \in Clients |-> NoCall] /\ open = {}

-----------------------------------------------------------------------------
\* Header: clone with a map of its own, then the write.
cloneMap(c) == c
Header(c) ==
    /\ call[c].pc = "idle" /\ wrote[c] = {}
    /\ owner' = [owner EXCEPT ![c] = cloneMap(c)]
    /\ header' = [header EXCEPT ![cloneMap(c)] = header[owner[Base]] \cup {c}]
    /\ wrote' = [wrote EXCEPT ![c] = {c}]
    /\ UNCHANGED <<call, open>>

\* do: the body is read once, and every attempt reads it anew.
Start(c, n, body) ==
    /\ call[c].pc = "idle"
    /\ call' = [call EXCEPT ![c] = [NoCall EXCEPT !.pc = "send", !.retries = n, !.data = body]]
    /\ UNCHANGED <<owner, header, wrote, open>>
attempts(c) == call[c].retries + 1
reader_once(c) == call[c].data /\ call[c].attempt = 0
reader(c) == call[c].data
shouldRetry(status) == status \in {429, 500}
closed(c) == {<<c, call[c].attempt + 1>>}
Sent(c) == [call[c] EXCEPT !.attempt = @ + 1, !.sent = Append(@, reader(c))]
Fails(c) ==
    /\ call[c].pc = "send"
    /\ call' = [call EXCEPT ![c] = [Sent(c) EXCEPT !.lastErr = "transport", !.pc = "wait"]]
    /\ UNCHANGED <<owner, header, wrote, open>>
Answers(c, status) ==
    /\ call[c].pc = "send"
    /\ IF shouldRetry(status) /\ call[c].attempt < attempts(c) - 1
       THEN /\ open' = (open \cup {<<c, call[c].attempt + 1>>}) \ closed(c)
            /\ call' = [call EXCEPT ![c] = [Sent(c) EXCEPT !.lastErr = "status", !.pc = "wait"]]
       ELSE /\ open' = open \cup {<<c, call[c].attempt + 1>>}
            /\ call' = [call EXCEPT ![c] = [Sent(c) EXCEPT !.result = "answer", !.pc = "read"]]
    /\ UNCHANGED <<owner, header, wrote>>

\* readResponse closes the body, whatever it reads.
tooLarge(n) == MaxBody > 0 /\ n > MaxBody
readResponse(c, n) ==
    /\ call[c].pc = "read"
    /\ open' = open \ {<<c, call[c].attempt>>}
    /\ call' = [call EXCEPT ![c].pc = "done", ![c].result = IF tooLarge(n) THEN "tooLarge" ELSE "answer"]
    /\ UNCHANGED <<owner, header, wrote>>

\* Between attempts: the delay, or the end of the context; after the last, lastErr.
Backoff(c) ==
    /\ call[c].pc = "wait"
    /\ \/ /\ call[c].attempt < attempts(c)
          /\ \/ call' = [call EXCEPT ![c].pc = "send"]
             \/ call' = [call EXCEPT ![c].pc = "done", ![c].result = "cancelled"]
       \/ /\ call[c].attempt = attempts(c)
          /\ call' = [call EXCEPT ![c].pc = "done", ![c].result = "failed"]
    /\ UNCHANGED <<owner, header, wrote, open>>

ClientNext ==
    \E c \in Clients :
        \/ Header(c) \/ Fails(c) \/ Backoff(c)
        \/ \E n \in 0 .. MaxRetries, body \in BOOLEAN : Start(c, n, body)
        \/ \E status \in {200, 404, 429, 500} : Answers(c, status)
        \/ \E n \in {0, MaxBody, MaxBody + 1} : readResponse(c, n)

-----------------------------------------------------------------------------
\* A client sends the base's headers and its own, whatever is derived next to it.
ClientsApart == \A c \in Clients : header[owner[c]] = wrote[c] /\ header[Base] = {}

\* Every response body is closed when do returns, those of the attempts given up too.
BodiesClosed == \A c \in Clients : call[c].pc \in {"send", "wait", "done"} => \A i \in 1 .. MaxRetries + 1 : <<c, i>> \notin open

\* Each attempt carries the caller's whole body, and there are at most retries + 1.
WholeBodyEachTime ==
    \A c \in Clients : /\ call[c].attempt <= attempts(c)
                       /\ \A i \in DOMAIN call[c].sent : call[c].sent[i] = call[c].data

-----------------------------------------------------------------------------
(* The web package: routes declared with groups and middleware (router.go, *)
(* and the same code in package router), and one request's way through the *)
(* chain of a route to its answer (context.go, streaming.go, middleware.go,*)
(* security.go).  A declaration snapshots the middleware of its router;    *)
(* `program` keeps the declarations in the order they were made.           *)
(* A guard (Auth, AuthJWT, CSRF, RateLimit) refuses the requests in        *)
(* req.bad; header contents and formatting are left out.                   *)

CONSTANTS Guards,     \* the guarding middleware used, e.g. {"auth"}
          MaxDecls,   \* bound: declarations before the server starts
          MaxWrites   \* bound: calls a handler makes on its Context
VARIABLES groups,     \* the middleware of the routers being declared, innermost last
          routes,     \* the chain of each route
          program,    \* the declarations so far
          req         \* the request and its Context
webVars == <<groups, routes, program, req>>
Elements(s) == {s[i] : i \in DOMAIN s}
Middlewares == Guards \cup {"recovery", "cors"}
NoRequest == [pc |-> "idle", route |-> 0, depth |-> 0, method |-> "GET", bad |-> {}, pending |-> 0, headers |-> 0,
              status |-> 0, statusWritten |-> FALSE, bodyWritten |-> FALSE, bodies |-> <<>>, calls |-> 0, ran |-> FALSE,
              end |-> "none"]
WebInit == groups = << <<>> >> /\ routes = <<>> /\ program = <<>> /\ req = NoRequest
-----------------------------------------------------------------------------
(* Declaring routes. *)
Declare(what) == req = NoRequest /\ Len(program) < MaxDecls /\ program' = Append(program, what) /\ UNCHANGED req
Use(m) ==
  /\ Declare(<<"use", m>>)
  /\ groups' = [groups EXCEPT ![Len(groups)] = Append(@, m)]
  /\ UNCHANGED routes
inherited == groups[Len(groups)]
Group ==
  /\ Declare(<<"group">>)
  /\ groups' = Append(groups, inherited)
  /\ UNCHANGED routes
EndGroup ==
  /\ Len(groups) > 1
  /\ Declare(<<"end">>)
  /\ groups' = SubSeq(groups, 1, Len(groups) - 1)
  /\ UNCHANGED routes
wrapped == groups[Len(groups)]
add ==
  /\ Declare(<<"add">>)
  /\ routes' = Append(routes, wrapped)
  /\ UNCHANGED groups
-----------------------------------------------------------------------------
(* The Context. *)
writeHeader(r, code) ==
  IF r.statusWritten THEN r
  ELSE [r EXCEPT !.status = IF r.pending # 0 THEN r.pending ELSE code, !.headers = @ + 1, !.statusWritten = TRUE]
JSON(r, code, body) ==
  IF r.bodyWritten THEN r ELSE [writeHeader(r, code) EXCEPT !.bodies = Append(@, body), !.bodyWritten = TRUE]
NoContent(r) == [writeHeader(r, 204) EXCEPT !.bodyWritten = TRUE]
Redirect(r) ==
  IF r.bodyWritten THEN r
  ELSE [r EXCEPT !.bodies = Append(@, "redirect"), !.status = IF r.statusWritten THEN @ ELSE 302, !.headers = @ + 1,
                 !.statusWritten = TRUE, !.bodyWritten = TRUE]
SSE(r) == IF r.statusWritten THEN r ELSE [writeHeader(r, 200) EXCEPT !.bodyWritten = TRUE]
(* Error picks the code: 422, 404 or 500 by the kind of the error. *)
codeOf(err) == CASE err = "validation" -> 422 [] err = "notFound" -> 404 [] OTHER -> 500
respond(r, value, err) ==
  CASE r.bodyWritten -> r
    [] ~r.bodyWritten /\ err # "nil" -> JSON(r, codeOf(err), "error")
    [] ~r.bodyWritten /\ err = "nil" /\ value -> JSON(r, 200, "value")
    [] OTHER -> IF r.statusWritten THEN r ELSE NoContent(r)
-----------------------------------------------------------------------------
(* A request. *)
Request(i, method, bad) ==
  /\ req = NoRequest /\ Len(groups) = 1
  /\ req' = [NoRequest EXCEPT !.pc = "chain", !.route = i, !.method = method, !.bad = bad]
  /\ UNCHANGED <<groups, routes, program>>
chain == routes[req.route]
refusal == [auth |-> 401, csrf |-> 403, rate |-> 429]
(* CSRF lets the safe methods through whatever token they carry. *)
csrfChecks(method) == method \notin {"GET", "HEAD", "OPTIONS"}
refused(r, m) == m \in r.bad /\ (m = "csrf" => csrfChecks(r.method))
(* The next layer of the chain: it answers and returns, or calls the layer below. *)
Layer ==
  /\ req.pc = "chain" /\ req.depth < Len(chain)
  /\ LET m == chain[req.depth + 1] IN
     req' = CASE m \in Guards /\ refused(req, m) -> [JSON(req, refusal[m], "error") EXCEPT !.pc = "done", !.end = "refused"]
              [] m = "cors" /\ req.method = "OPTIONS" -> [NoContent(req) EXCEPT !.pc = "done", !.end = "preflight"]
              [] OTHER -> [req EXCEPT !.depth = @ + 1]
  /\ UNCHANGED <<groups, routes, program>>
InHandler == req.pc = "chain" /\ req.depth = Len(chain)
Call(r) ==
  /\ InHandler /\ req.calls < MaxWrites
  /\ req' = [r EXCEPT !.calls = @ + 1, !.ran = TRUE]
  /\ UNCHANGED <<groups, routes, program>>
Status == Call(IF req.statusWritten THEN req ELSE [req EXCEPT !.pending = 201])
WriteJSON == Call(JSON(req, 200, "value"))
WriteNothing == Call(NoContent(req))
WriteRedirect == Call(Redirect(req))
WriteSSE == Call(SSE(req))
(* withRespond: the handler returns and its result is written before the chain unwinds. *)
withRespond(value, err) ==
  /\ InHandler
  /\ req' = [respond(req, value, err) EXCEPT !.pc = "done", !.ran = TRUE, !.end = IF err # "nil" THEN err ELSE "ok"]
  /\ UNCHANGED <<groups, routes, program>>
(* A panic unwinds to Recovery, which answers 500; without one net/http drops the connection. *)
Recovery(r) == respond(r, FALSE, "internal")
Unwound(r) ==
  IF "recovery" \in Elements(chain) THEN [Recovery(r) EXCEPT !.pc = "done", !.ran = TRUE, !.end = "recovered"]
  ELSE [r EXCEPT !.pc = "dropped", !.ran = TRUE]
Panic == InHandler /\ req' = Unwound(req) /\ UNCHANGED <<groups, routes, program>>
(* The value's own MarshalJSON panics: the header is out, no byte of the body is. *)
EncodePanics == InHandler /\ ~req.bodyWritten /\ req' = Unwound(writeHeader(req, 200)) /\ UNCHANGED <<groups, routes, program>>
WebNext ==
  \/ \E m \in Middlewares : Use(m)
  \/ Group \/ EndGroup \/ add
  \/ \E i \in DOMAIN routes, method \in {"POST", "OPTIONS"}, bad \in SUBSET Guards : Request(i, method, bad)
  \/ Layer \/ Status \/ WriteJSON \/ WriteNothing \/ WriteRedirect \/ WriteSSE
  \/ \E value \in BOOLEAN, err \in {"nil", "validation", "notFound", "other"} : withRespond(value, err)
  \/ Panic \/ EncodePanics
-----------------------------------------------------------------------------
Count(s, what, from, to) == Cardinality({k \in from..to : s[k][1] = what})
(* The group of the declaration at p has not ended up to q. *)
Stays(s, p, q) == \A k \in p..q : Count(s, "group", p, k) >= Count(s, "end", p, k)
InForce(p, q) == p < q /\ Stays(program, p, q)
RouteAt(i) == CHOOSE q \in DOMAIN program : program[q] = <<"add">> /\ Count(program, "add", 1, q) = i
(* A handler runs only when no guard in force where its route was declared refused  *)
(* the request, whatever groups were opened and closed around it (Router.Group,     *)
(* Router.add): a group takes its parent's guards and never loses or leaks one.     *)
GuardsHold ==
  req.ran => \A p \in DOMAIN program : program[p][1] = "use" /\ InForce(p, RouteAt(req.route)) => ~refused(req, program[p][2])
(* An answer is written once: one status line and at most one body, none under 204, *)
(* whatever the handler wrote itself before it returned or panicked                 *)
(* (Context.writeHeader, JSON, NoContent, Redirect, respond, Recovery).             *)
OneAnswer ==
  /\ req.headers <= 1 /\ Len(req.bodies) <= 1
  /\ req.pc = "done" => req.headers = 1
  /\ req.status = 204 => req.bodies = <<>>
(* An error the handler returns, or panics with under Recovery, before it wrote     *)
(* anything is what the client gets, under its own code unless the handler chose a  *)
(* status first or the header was already out (Context.respond, Error, Recovery).   *)
ErrorShown ==
  req.pc = "done" /\ req.end \in {"validation", "notFound", "other", "recovered"} =>
    /\ req.bodies # <<>> \/ (req.calls > 0 /\ req.bodyWritten)
    /\ req.calls = 0 => req.bodies = <<"error">>
    /\ req.calls = 0 /\ req.end # "recovered" => req.status = codeOf(req.end)

-----------------------------------------------------------------------------
(* adapters/grpc.Server: the interceptor chain around a handler, and Run   *)
(* with its graceful shutdown.  A call is unary or a stream; each stage    *)
(* may panic.                                                              *)

CONSTANTS
    Calls,
    HasAuth,        \* Options.Auth is set
    RecoveryOption, Logging,    \* the options as the caller sets them
    Extra           \* number of additional interceptors

VARIABLES
    run,         \* Run: "idle", "serving", "draining", "returned"
    server,     \* grpc.Server: "new", "serving", "draining" (GracefulStop), "stopped"
    drained,    \* GracefulStop returned and done is closed
    rpc         \* rpc[c]: [stage, depth, token, user, answer]

grVars == <<run, server, drained, rpc>>

\* New: the two bools count as set when there are no additional interceptors.
withRecovery == RecoveryOption \/ Extra = 0
withLogging == Logging \/ Extra = 0
interceptors == (IF withRecovery THEN <<"recovery">> ELSE <<>>) \o (IF HasAuth THEN <<"auth">> ELSE <<>>)
         \o (IF withLogging THEN <<"logging">> ELSE <<>>) \o [i \in 1 .. Extra |-> "extra"]

NoRpc == [stage |-> "none", depth |-> 0, token |-> "none", user |-> "none", answer |-> "none"]
GrpcInit == run = "idle" /\ server = "new" /\ drained = FALSE /\ rpc = [c \in Calls |-> NoRpc]

-----------------------------------------------------------------------------
\* Run: listen and serve; a failing listen returns at once.
Run ==
    /\ run = "idle"
    /\ \/ run' = "serving" /\ server' = IF server = "new" THEN "serving" ELSE server
       \/ run' = "returned" /\ UNCHANGED server
    /\ UNCHANGED <<drained, rpc>>

\* A call comes in and walks the chain.
Arrive(c, token) ==
    /\ server = "serving" /\ rpc[c].stage = "none"
    /\ rpc' = [rpc EXCEPT ![c] = [NoRpc EXCEPT !.stage = "in", !.token = token]]
    /\ UNCHANGED <<run, server, drained>>
Here(c) == IF rpc[c].depth < Len(interceptors) THEN interceptors[rpc[c].depth + 1] ELSE "handler"

\* authenticate: no metadata, no token or one fn rejects end the call.
authenticate(c) == rpc[c].token = "good"
passed(c) == [rpc[c] EXCEPT !.depth = rpc[c].depth + 1, !.user = IF Here(c) = "auth" THEN "claims" ELSE rpc[c].user]
Enter(c) ==
    /\ rpc[c].stage = "in" /\ Here(c) # "handler"
    /\ rpc' = [rpc EXCEPT ![c] =
          IF Here(c) = "auth" /\ ~authenticate(c) THEN [@ EXCEPT !.stage = "out", !.answer = "Unauthenticated"]
          ELSE passed(c)]
    /\ UNCHANGED <<run, server, drained>>
Handle(c) ==
    /\ rpc[c].stage = "in" /\ Here(c) = "handler"
    /\ \E a \in {"OK", "error"} : rpc' = [rpc EXCEPT ![c] = [@ EXCEPT !.stage = "out", !.answer = a]]
    /\ UNCHANGED <<run, server, drained>>

\* A panic in any stage below recovery becomes Internal there; otherwise it ends the process.
HandlerPanic(c) ==
    /\ rpc[c].stage = "in" /\ Here(c) \in {"auth", "extra", "handler"}
    /\ LET caught == \E i \in 1 .. rpc[c].depth : interceptors[i] = "recovery" IN
       rpc' = [rpc EXCEPT ![c] = [@ EXCEPT !.stage = "out", !.answer = IF caught THEN "Internal" ELSE "crash"]]
    /\ UNCHANGED <<run, server, drained>>

\* The context ends or a signal arrives: GracefulStop in a goroutine, or Stop after the timeout.
Shutdown ==
    /\ run = "serving"
    /\ run' = "draining" /\ server' = IF server = "serving" THEN "draining" ELSE server
    /\ UNCHANGED <<drained, rpc>>
Running == {c \in Calls : rpc[c].stage = "in"}
GracefulStop == Running = {} \/ server = "stopped"
Drain ==
    /\ run = "draining" /\ ~drained /\ GracefulStop
    /\ drained' = TRUE /\ server' = "stopped"
    /\ UNCHANGED <<run, rpc>>
Returns ==
    /\ run = "draining"
    /\ server' = IF drained THEN server ELSE "stopped"
    /\ run' = "returned"
    /\ rpc' = [c \in Calls |-> IF ~drained /\ c \in Running THEN [rpc[c] EXCEPT !.stage = "out", !.answer = "cancelled"]
                               ELSE rpc[c]]
    /\ UNCHANGED drained

\* Stop, the caller's: calls are cut off, and Run goes on waiting for its context.
Stop ==
    /\ server # "stopped"
    /\ server' = "stopped"
    /\ rpc' = [c \in Calls |-> IF c \in Running THEN [rpc[c] EXCEPT !.stage = "out", !.answer = "cancelled"] ELSE rpc[c]]
    /\ UNCHANGED <<run, drained>>

GrpcNext ==
    \/ Run \/ Shutdown \/ Drain \/ Returns \/ Stop
    \/ \E c \in Calls : Enter(c) \/ Handle(c) \/ HandlerPanic(c) \/ \E t \in {"none", "bad", "good"} : Arrive(c, t)

-----------------------------------------------------------------------------
\* No panic of an interceptor or a handler takes the process down, unless the caller
\* adds interceptors and leaves Recovery off.
PanicsAnswered == \A c \in Calls : rpc[c].answer = "crash" => ~RecoveryOption /\ Extra > 0

\* Only a call with a good token reaches the handler, and it finds the claims there.
HandlerHasClaims ==
    \A c \in Calls : HasAuth /\ (rpc[c].stage = "in" /\ Here(c) \in {"logging", "extra", "handler"}) =>
        rpc[c].token = "good" /\ rpc[c].user = "claims"

\* When Run returns after a shutdown, no call is half done: it was waited for, or
\* cut off when the timeout passed.
NothingLeftRunning == run = "returned" /\ server # "new" => Running = {}

-----------------------------------------------------------------------------
Init == ClientInit /\ WebInit /\ GrpcInit
Next ==
    \/ ClientNext /\ UNCHANGED <<webVars, grVars>>
    \/ WebNext /\ UNCHANGED <<hcVars, grVars>>
    \/ GrpcNext /\ UNCHANGED <<hcVars, webVars>>
-----------------------------------------------------------------------------
(* The inductive invariants of the properties above (OuterServicesProofs). *)
Dos == [pc : {"idle", "send", "wait", "read", "done"}, retries : Nat, data : BOOLEAN, attempt : Nat, sent : Seq(BOOLEAN),
        lastErr : {"none", "transport", "status"}, result : {"none", "answer", "tooLarge", "cancelled", "failed"}]
\* A call that may send has an attempt left; the header maps of derived clients are their own;
\* the only open body is the one about to be read.
DoOK(k) ==
    /\ k.attempt <= k.retries + 1 /\ (k.pc \in {"idle", "send"} => k.attempt <= k.retries)
    /\ \A i \in DOMAIN k.sent : k.sent[i] = k.data
ClientInv ==
    /\ owner \in [Clients \cup {Base} -> Clients \cup {Base}] /\ header \in [Clients \cup {Base} -> SUBSET Clients]
    /\ wrote \in [Clients \cup {Base} -> SUBSET Clients] /\ call \in [Clients -> Dos] /\ open \subseteq Clients \X Nat
    /\ owner[Base] = Base /\ header[Base] = {}
    /\ \A c \in Clients : (owner[c] = Base /\ wrote[c] = {}) \/ (owner[c] = c /\ header[c] = wrote[c])
    /\ \A c \in Clients : DoOK(call[c])
    /\ \A c \in Clients, i \in Nat : <<c, i>> \in open => call[c].pc = "read" /\ i = call[c].attempt

Decls == {<<"group">>, <<"end">>, <<"add">>} \cup {<<"use", m>> : m \in Middlewares}
Opened(s, p) == Count(s, "group", p, Len(s)) - Count(s, "end", p, Len(s))

Reqs == [pc : {"idle", "chain", "done", "dropped"}, route : Nat, depth : Nat, method : {"GET", "POST", "OPTIONS"}, bad : SUBSET Guards,
         pending : {0, 201}, headers : Nat, status : Nat, statusWritten : BOOLEAN, bodyWritten : BOOLEAN,
         bodies : Seq({"error", "value", "redirect"}), calls : Nat, ran : BOOLEAN,
         end : {"none", "refused", "preflight", "ok", "validation", "notFound", "other", "recovered"}]
\* What of the answer is out: a body only under a header, and none under 204.
Written(r) ==
  /\ r.headers = IF r.statusWritten THEN 1 ELSE 0
  /\ ~r.statusWritten => r.status = 0
  /\ r.bodyWritten => r.statusWritten
  /\ ~r.bodyWritten => r.bodies = <<>>
  /\ Len(r.bodies) <= 1
  /\ r.status = 204 => r.bodies = <<>> /\ r.bodyWritten
\* The declarations: a guard that is still in force is in every group opened since, and a
\* route has the guards that were in force where it was declared.
WebType ==
  /\ groups \in Seq(Seq(Middlewares)) /\ Len(groups) >= 1 /\ routes \in Seq(Seq(Middlewares))
  /\ program \in Seq(Decls) /\ req \in Reqs
GroupsHold ==
  \A p \in DOMAIN program : program[p][1] = "use" /\ Stays(program, p, Len(program)) =>
    /\ Opened(program, p) < Len(groups)
    /\ \A d \in Len(groups) - Opened(program, p) .. Len(groups) : program[p][2] \in Elements(groups[d])
RoutesHold ==
  /\ Len(routes) = Count(program, "add", 1, Len(program))
  /\ \A i \in DOMAIN routes : \E q \in DOMAIN program : program[q] = <<"add">> /\ Count(program, "add", 1, q) = i
  /\ \A q \in DOMAIN program : program[q] = <<"add">> => Count(program, "add", 1, q) \in DOMAIN routes
  /\ \A p, q \in DOMAIN program : program[q] = <<"add">> /\ program[p][1] = "use" /\ InForce(p, q) =>
       \A i \in DOMAIN routes : i = Count(program, "add", 1, q) => program[p][2] \in Elements(routes[i])
\* The request: how far it is, and what it may have written there.
Passed(r) ==
  /\ r.pc # "idle" => /\ r.route \in DOMAIN routes /\ r.depth <= Len(routes[r.route])
                      /\ \A k \in 1 .. r.depth : routes[r.route][k] \in Guards => ~refused(r, routes[r.route][k])
  /\ r.ran => r.pc # "idle" /\ r.depth = Len(routes[r.route])
Begun(r) ==
  r.pc = "chain" => /\ r.statusWritten => r.bodyWritten
                    /\ ~r.ran => r.calls = 0
                    /\ r.calls = 0 => ~r.statusWritten /\ r.pending = 0
Ended(r) ==
  r.pc = "done" =>
    /\ r.statusWritten
    /\ r.end \in {"validation", "notFound", "other", "recovered"} =>
         /\ r.bodies # <<>> \/ (r.calls > 0 /\ r.bodyWritten)
         /\ r.calls = 0 => r.bodies = <<"error">>
         /\ r.calls = 0 /\ r.end # "recovered" => r.status = codeOf(r.end)
WebInv ==
  WebType /\ GroupsHold /\ RoutesHold /\ Written(req) /\ Passed(req) /\ Begun(req) /\ Ended(req)

CallType == [stage : {"none", "in", "out"}, depth : Nat, token : {"none", "bad", "good"}, user : {"none", "claims"},
             answer : {"none", "OK", "error", "Unauthenticated", "Internal", "crash", "cancelled"}]
GrpcType ==
    /\ run \in {"idle", "serving", "draining", "returned"} /\ server \in {"new", "serving", "draining", "stopped"}
    /\ drained \in BOOLEAN /\ rpc \in [Calls -> CallType]
\* How far a call is in the chain, and what the interceptors it passed did.
OnItsWay(c) ==
    /\ rpc[c].depth <= Len(interceptors)
    /\ rpc[c].stage = "in" => \A i \in 1 .. rpc[c].depth : interceptors[i] = "auth" => rpc[c].token = "good" /\ rpc[c].user = "claims"
    /\ rpc[c].answer = "crash" => ~withRecovery
\* Run and the server agree, and calls run only in a server that serves or drains.
InStep ==
    /\ run = "idle" => server \in {"new", "stopped"}
    /\ run = "serving" => server \in {"serving", "stopped"}
    /\ run = "draining" => server \in {"draining", "stopped"}
    /\ run = "returned" => server \in {"new", "stopped"}
    /\ drained => server = "stopped"
    /\ server \in {"new", "stopped"} => Running = {}
GrpcInv == GrpcType /\ (\A c \in Calls : OnItsWay(c)) /\ InStep
=============================================================================
