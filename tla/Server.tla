-------------------------------- MODULE Server --------------------------------
(***************************************************************************)
(* The running server: a request passes the request-id middleware, the     *)
(* body parser and the router, then LoggingInterceptor around its handler, *)
(* which counts it, and AllExceptionsFilter if something threw.  Requests  *)
(* overlap, and the database and the Stellar RPC come and go meanwhile.    *)
(*                                                                         *)
(* What the handlers of proofs do is in the other modules; here a handler  *)
(* is what it may throw.  Counters live as long as the process.            *)
(***************************************************************************)
EXTENDS ServerStart, FiniteSets

CONSTANTS Requests,
          Sockets,
          Routes,       \* what clients ask for: some of Known, or "nowhere"
          Null

Known  == {"health", "metrics", "list", "one", "verify", "generate"}
Proofs == {"list", "one", "verify", "generate"}

Statuses == {200, 201, 400, 401, 404, 500}
Ids == {"given", "generated"}

ASSUME FinitenessAssumption == IsFiniteSet(Requests) /\ IsFiniteSet(Sockets)
ASSUME RouteAssumption == Routes \subseteq Known \cup {"nowhere"}
ASSUME NullAssumption == Null \notin Statuses /\ Null \notin Ids

VARIABLES
    rpc,        \* whether the Stellar RPC answers
    pc,         \* where each request is
    route,      \* what it asks for
    id,         \* its X-Request-ID header
    code,       \* response.statusCode, as Nest or the filter set it
    thrown,     \* the status of the exception under way
    errorId,    \* the request id in the body of an error reply
    checks,     \* what the health check found
    seen,       \* what of that was so at some moment of the check
    entered,    \* the requests that reached the interceptor of a route
    label,      \* the status the request was counted with
    total,      \* MetricsService.totalRequests
    errors,     \* MetricsService.errorRequests
    counted,    \* http_requests_total, by path and status
    observed,   \* observations of proof_generation_duration_seconds, by path
    open,       \* the sockets clients hold
    gauge       \* active_connections

progressVars == <<pc, route, id, code, thrown, errorId, checks, label>>
metricVars  == <<total, errors, counted, observed>>
socketVars  == <<open, gauge>>
vars == <<startVars, rpc, progressVars, seen, entered, metricVars, socketVars>>

Labels == {"idle", "received", "database", "rpc", "handler", "returned", "threw",
           "filter", "done"}
Findings == {"unknown", "up", "down"}
Parts == {"database", "stellarRpc"}

TypeOK ==
    /\ StartTypeOK
    /\ rpc      \in {"up", "down"}
    /\ pc       \in [Requests -> Labels]
    /\ route    \in [Requests -> Routes \cup {Null}]
    /\ id       \in [Requests -> Ids \cup {Null}]
    /\ code     \in [Requests -> Statuses]
    /\ thrown   \in [Requests -> Statuses \cup {Null}]
    /\ errorId  \in [Requests -> Ids \cup {Null}]
    /\ checks   \in [Requests -> [Parts -> Findings]]
    /\ seen     \in [Requests -> SUBSET (Parts \X Findings)]
    /\ entered  \subseteq Requests
    /\ label    \in [Requests -> Statuses \cup {Null}]
    /\ total    \in Nat
    /\ errors   \in 0..total
    /\ counted  \in [Known \X Statuses -> 0..total]
    /\ observed \in [Known -> 0..total]
    /\ open     \subseteq Sockets
    /\ gauge    \in Nat

Init ==
    /\ StartInit
    /\ rpc      \in {"up", "down"}
    /\ pc       = [r \in Requests |-> "idle"]
    /\ route    = [r \in Requests |-> Null]
    /\ id       = [r \in Requests |-> Null]
    /\ code     = [r \in Requests |-> 200]
    /\ thrown   = [r \in Requests |-> Null]
    /\ errorId  = [r \in Requests |-> Null]
    /\ checks   = [r \in Requests |-> [p \in Parts |-> "unknown"]]
    /\ seen     = [r \in Requests |-> {}]
    /\ entered  = {}
    /\ label    = [r \in Requests |-> Null]
    /\ total    = 0
    /\ errors   = 0
    /\ counted  = [l \in Known \X Statuses |-> 0]
    /\ observed = [p \in Known |-> 0]
    /\ open     = {}
    /\ gauge    = 0

-----------------------------------------------------------------------------
(* MetricsService.                                                          *)

\* recordHttpRequest, with the status the response has at the time.
Count(r) ==
    /\ total'   = total + 1
    /\ errors'  = IF code[r] >= 500 THEN errors + 1 ELSE errors
    /\ counted' = [counted EXCEPT ![<<route[r], code[r]>>] = @ + 1]
    /\ label'   = [label EXCEPT ![r] = code[r]]

-----------------------------------------------------------------------------
(* A request.                                                               *)

Goto(r, l) == pc' = [pc EXCEPT ![r] = l]

\* Nest's default is 200, of a POST 201.
SuccessStatus(rt) == IF rt \in {"verify", "generate"} THEN 201 ELSE 200

\* JwtAuthGuard, called by every handler of proofs: a token or 401.
Unauthorized == {401}

\* The pipe refuses a query or a body with 400; the reading handlers, and that of
\* generate, answer 400 to everything they do not know, the database included.
GetProofs     == Unauthorized \cup {400}
GetProofById  == Unauthorized \cup {404, 400}
VerifyProof   == Unauthorized \cup {404, 400, 500}
GenerateProof == Unauthorized \cup {404, 400}

\* What the handler of a route may throw.
Failures(rt) ==
    CASE rt = "list"     -> GetProofs
      [] rt = "one"      -> GetProofById
      [] rt = "verify"   -> VerifyProof
      [] rt = "generate" -> GenerateProof
      [] OTHER           -> {}

\* Mutant: the parser comes before the request-id middleware.
ReceiveParsed(r) ==
    /\ pc[r] = "idle"
    /\ phase = "listening"
    /\ \E rt \in Routes, i \in Ids \cup {Null} :
           route' = [route EXCEPT ![r] = rt] /\ id' = [id EXCEPT ![r] = i]
    /\ Goto(r, "received")
    /\ UNCHANGED <<code, thrown, errorId, checks, label, metricVars>>

\* requestIdMiddleware keeps the id it is given or makes one.
Receive(r) ==
    /\ pc[r] = "idle"
    /\ phase = "listening"
    /\ \E rt \in Routes, i \in Ids :
           route' = [route EXCEPT ![r] = rt] /\ id' = [id EXCEPT ![r] = i]
    /\ Goto(r, "received")
    /\ UNCHANGED <<code, thrown, errorId, checks, label, metricVars>>

\* The body is no JSON, 400, or too large, which the filter takes for an error
\* of its own; or no route matches.  No interceptor sees these.
Turn(r) ==
    /\ pc[r] = "received"
    /\ \E s \in {400, 500} \cup (IF route[r] = "nowhere" THEN {404} ELSE {}) :
           thrown' = [thrown EXCEPT ![r] = s]
    /\ Goto(r, "filter")
    /\ UNCHANGED <<route, id, code, errorId, checks, label, metricVars>>

\* The router sets the status of a success, and only then calls the interceptor.
Enter(r) ==
    /\ pc[r] = "received"
    /\ route[r] \in Known
    /\ code' = [code EXCEPT ![r] = SuccessStatus(route[r])]
    /\ Goto(r, IF route[r] = "health" THEN "database" ELSE "handler")
    /\ UNCHANGED <<route, id, thrown, errorId, checks, label, metricVars>>

\* Mutant: a probe that throws leaves the check unknown.
ProbeDatabaseUncaught(r) ==
    /\ pc[r] = "database"
    /\ checks' = IF db = "up" THEN [checks EXCEPT ![r]["database"] = "up"] ELSE checks
    /\ Goto(r, "rpc")
    /\ UNCHANGED <<route, id, code, thrown, errorId, label, metricVars>>

\* getHealth probes the database, then the RPC.
ProbeDatabase(r) ==
    /\ pc[r] = "database"
    /\ checks' = [checks EXCEPT ![r]["database"] = db]
    /\ Goto(r, "rpc")
    /\ UNCHANGED <<route, id, code, thrown, errorId, label, metricVars>>

ProbeRpc(r) ==
    /\ pc[r] = "rpc"
    /\ checks' = [checks EXCEPT ![r]["stellarRpc"] = rpc]
    /\ Goto(r, "returned")
    /\ UNCHANGED <<route, id, code, thrown, errorId, label, metricVars>>

\* What getHealth says of its two checks.
Health(r) == IF \E p \in Parts : checks[r][p] = "down" THEN "degraded" ELSE "ok"

Return(r) ==
    /\ pc[r] = "handler"
    /\ route[r] \in Proofs => db = "up"
    /\ Goto(r, "returned")
    /\ UNCHANGED <<route, id, code, thrown, errorId, checks, label, metricVars>>

Throw(r) ==
    /\ pc[r] = "handler"
    /\ \E s \in Failures(route[r]) : thrown' = [thrown EXCEPT ![r] = s]
    /\ Goto(r, "threw")
    /\ UNCHANGED <<route, id, code, errorId, checks, label, metricVars>>

\* The interceptor's next branch; then Nest sends the result.
TapNext(r) ==
    /\ pc[r] = "returned"
    /\ Count(r)
    /\ observed' = IF route[r] \in Proofs THEN [observed EXCEPT ![route[r]] = @ + 1]
                   ELSE observed
    /\ Goto(r, "done")
    /\ UNCHANGED <<route, id, code, thrown, errorId, checks>>

\* Mutant: what throws is left to the filter, which counts nothing.
TapErrorUncounted(r) ==
    /\ pc[r] = "threw"
    /\ Goto(r, "filter")
    /\ UNCHANGED <<route, id, code, thrown, errorId, checks, label, metricVars>>

\* Its error branch: the filter has not set the status yet.
TapError(r) ==
    /\ pc[r] = "threw"
    /\ Count(r)
    /\ Goto(r, "filter")
    /\ UNCHANGED <<route, id, code, thrown, errorId, checks, observed>>

\* Mutant: only exceptions of HTTP are caught.
FilterHttpOnly(r) ==
    /\ pc[r] = "filter"
    /\ thrown[r] # 500
    /\ code' = [code EXCEPT ![r] = thrown[r]]
    /\ errorId' = [errorId EXCEPT ![r] = id[r]]
    /\ Goto(r, "done")
    /\ UNCHANGED <<route, id, thrown, checks, label, metricVars>>

\* AllExceptionsFilter sends the status and the id of the request.
Filter(r) ==
    /\ pc[r] = "filter"
    /\ code' = [code EXCEPT ![r] = thrown[r]]
    /\ errorId' = [errorId EXCEPT ![r] = id[r]]
    /\ Goto(r, "done")
    /\ UNCHANGED <<route, id, thrown, checks, label, metricVars>>

\* What a request does once it was received.
Proceed(r) ==
    /\ phase = "listening"
    /\ \/ Turn(r) \/ Enter(r) \/ ProbeDatabase(r) \/ ProbeRpc(r) \/ Return(r)
       \/ Throw(r) \/ TapNext(r) \/ TapError(r) \/ Filter(r)

-----------------------------------------------------------------------------
(* Around the requests.                                                     *)

RpcChanges ==
    /\ phase # "ended"
    /\ rpc' \in {"up", "down"} \ {rpc}

\* trackConnections is called before the first connection can be accepted.
Open(c) ==
    /\ phase = "listening"
    /\ c \notin open
    /\ open' = open \cup {c}
    /\ gauge' = Cardinality(open')

Close(c) ==
    /\ phase = "listening"
    /\ c \in open
    /\ open' = open \ {c}
    /\ gauge' = Cardinality(open')

\* What a health check under way may find, and what has reached the interceptor.
Watch ==
    /\ seen' = [r \in Requests |->
                   IF pc'[r] \in {"database", "rpc"}
                   THEN seen[r] \cup {<<"database", db'>>, <<"stellarRpc", rpc'>>}
                   ELSE seen[r]]
    /\ entered' = entered \cup {r \in Requests : pc'[r] \in {"database", "handler"}}

RequestNext ==
    /\ \E r \in Requests : Receive(r) \/ Proceed(r)
    /\ UNCHANGED <<startVars, rpc, socketVars>>

SocketNext ==
    /\ \E c \in Sockets : Open(c) \/ Close(c)
    /\ UNCHANGED <<startVars, rpc, progressVars, metricVars>>

Next ==
    /\ \/ RequestNext
       \/ SocketNext
       \/ StartNext /\ UNCHANGED <<rpc, progressVars, metricVars, socketVars>>
       \/ RpcChanges /\ UNCHANGED <<startVars, progressVars, metricVars, socketVars>>
    /\ Watch

Spec == Init /\ [][Next]_vars

-----------------------------------------------------------------------------
(* Properties.                                                              *)

\* The requests whose handler, its pipes included, has ended, by its result or by
\* an exception.
Handled == {r \in entered : pc[r] \in {"filter", "done"}}

\* Every request that reached the interceptor is counted when its handler ends, once
\* and under one path and status, whether by the interceptor's next or by its error
\* branch, and none that was refused before; a duration is observed for each that
\* did not throw; the connections are the sockets open (LoggingInterceptor 41-109,
\* MetricsService 49-75).  Which status it is counted under is CountedAsAnswered.
CountersAddUp ==
    /\ \A r \in Requests : label[r] # Null <=> r \in Handled
    /\ total = Cardinality(Handled)
    /\ \A p \in Known, s \in Statuses :
           counted[<<p, s>>] = Cardinality({r \in Handled : route[r] = p /\ label[r] = s})
    /\ \A p \in Proofs :
           observed[p] = Cardinality({r \in Handled : route[r] = p /\ thrown[r] = Null})
    /\ gauge = Cardinality(open)

\* A health check that answers ok found each of its two dependencies reachable
\* at some moment of the check, and one that answers degraded did not find one
\* of them; not at the same moment, for they are probed one after the other
\* (getHealth 24-55).
HealthTruthful ==
    \A r \in Requests : pc[r] = "done" /\ route[r] = "health" /\ thrown[r] = Null =>
        IF Health(r) = "ok" THEN \A p \in Parts : <<p, "up">>   \in seen[r]
                            ELSE \E p \in Parts : <<p, "down">> \in seen[r]

\* Every error reply can be traced: its body carries the id of its header,
\* wherever the request failed, the body parser and the router included
\* (main.ts 41, AllExceptionsFilter 20-45).
ErrorsTraceable ==
    \A r \in Requests : pc[r] = "done" /\ thrown[r] # Null =>
        id[r] # Null /\ errorId[r] = id[r]

\* FINDING, violated.  http_requests_total counts requests by status
\* (metrics.service.ts:20-21): a request is counted under the status it is
\* answered with.
CountedAsAnswered ==
    \A r \in Requests : pc[r] = "done" /\ label[r] # Null => label[r] = code[r]

-----------------------------------------------------------------------------
(* Liveness: the start goes on, and an await of a request settles, unless   *)
(* it is for Redis: queue.add waits as long as Redis cannot be reached.     *)

AwaitsRedis(r) == pc[r] = "handler" /\ route[r] = "generate"

FairSpec ==
    /\ Spec
    /\ WF_startVars(Bootstrap)
    /\ \A r \in Requests :
           WF_<<progressVars, metricVars>>(~AwaitsRedis(r) /\ Proceed(r))

\* A request is answered, whatever it throws and wherever, unless the process ends
\* or it is one to generate a proof, which may wait in its handler for ever.
RequestsEnd ==
    \A r \in Requests :
        pc[r] = "received" ~> pc[r] = "done" \/ phase = "ended" \/ AwaitsRedis(r)
=============================================================================
