------------------------------- MODULE Ingress -------------------------------
(***************************************************************************)
(* The two ingress planes (internal/ingress): the operator's Unix socket   *)
(* behind the admission gate, and the gateway's mTLS listener with its     *)
(* JSON and gRPC faces.  A request is admitted, decoded, attributed to the *)
(* host-attested peer with the logon recorded once per connection, handed  *)
(* to the Manager or an engine, and answered.                              *)
(***************************************************************************)
EXTENDS AdmissionGate, Sequences

CONSTANTS Loads   \* scenarios: a plane, its connections and their requests

\* A load's requests are among Requests and name its connections, and on the
\* operator plane a connection has the rate key of a caller.
ASSUME LoadAssumption ==
    /\ IsFiniteSet(Requests)
    /\ \A l \in Loads :
         /\ Len(l.reqs) \in Nat /\ Len(l.conns) \in Nat
         /\ \A r \in 1 .. Len(l.reqs) : r \in Requests /\ l.reqs[r].conn \in 1 .. Len(l.conns)
         /\ l.plane = "operator" => \A c \in 1 .. Len(l.conns) : l.conns[c] \in Callers

VARIABLES load,     \* the scenario
          pc,       \* where a request is
          seen,     \* the window start a request read from the clock
          answer,   \* the status a request was answered with
          latch,    \* the connections whose success latch is set
          logons,   \* success records of a connection in the trail
          refusals, \* history: failure records of a connection
          dropped,  \* records of a connection the emit refused (counted)
          called    \* the requests that reached the Manager or an engine

ingressVars == <<load, pc, seen, answer, latch, logons, refusals, dropped, called>>

\* registerRoutes of the operator plane, with the mounts of Serve.
LifecycleRoutes == {"create", "destroy", "revoke_one", "revoke_all", "resume_all"}
KeyRoutes == {"mcp_create", "mcp_revoke"}
ReadRoutes == {"list", "get", "deployment"}
ProbeRoutes == {"healthz", "metrics"}

\* registerRoutes and grpcMux of the gateway.
JSONRoutes == {"create", "destroy", "status", "exec"}
RPCRoutes == {"rpc_create", "rpc_route", "rpc_destroy"}

Conns == 1 .. Len(load.conns)
Active == 1 .. Len(load.reqs)
Conn(r) == load.reqs[r].conn
Route(r) == load.reqs[r].route
Body(r) == load.reqs[r].body

Answers == {"OK", "INVALID_ARGUMENT", "UNAUTHENTICATED", "PERMISSION_DENIED",
            "NOT_FOUND", "CONFLICT", "UNAVAILABLE", "RESOURCE_EXHAUSTED",
            "INTERNAL", "FAILED_PRECONDITION", "TOO_LARGE"}

-----------------------------------------------------------------------------
(* Identity from the connection. *)

Unattested == "unattested"

\* defaultSANMap: only a tenant/caller-shaped SAN names a service.
Mapped(san) == san # "dns"

\* verifiedSANsOf: a handshake without a verified chain carries no SAN.
VerifiedSANs(tls) == IF tls.verified THEN tls.leaf ELSE <<>>

\* CertSANResolver.Resolve: the first SAN of the verified leaf that maps.
SANIdentity(sans) ==
    LET good == {i \in DOMAIN sans : Mapped(sans[i])} IN
    IF good = {} THEN Unattested ELSE sans[CHOOSE i \in good : \A j \in good : i <= j]

\* peerCredOf, connCredOf, PeerCredResolver.Resolve with defaultUIDMap.
PeerIdentity(uid) == uid

Resolved(c) == IF load.plane = "operator" THEN PeerIdentity(load.conns[c])
                                          ELSE SANIdentity(VerifiedSANs(load.conns[c]))

\* callerRateKey: the unattested share one key.
RateKey(r) == load.conns[Conn(r)]

-----------------------------------------------------------------------------
(* Routes. *)

\* Mutant of ClassOf: the kill-switch family is not in priorityRoutes.
ClassOfProbes(route) == IF route \in ProbeRoutes THEN "priority" ELSE "general"

\* priorityRoutes, classOf.
ClassOf(route) == IF route \in ProbeRoutes \cup {"revoke_one", "revoke_all", "resume_all"}
                  THEN "priority" ELSE "general"

\* decodeJSON and writeDecodeError of the operator plane: reasonCodeFor has no
\* code of its own for an oversized body.
OperatorDecode(body) == CASE body = "large" -> {"INTERNAL"}
                          [] body = "malformed" -> {"INVALID_ARGUMENT"}
                          [] OTHER -> {}

\* decodeJSON and writeDecodeError of the gateway.
GatewayDecode(body) == CASE body = "large" -> {"TOO_LARGE"}
                         [] body = "malformed" -> {"INVALID_ARGUMENT"}
                         [] OTHER -> {}

\* createBody.toRequest with mountIntentBody.validate, on either plane: one
\* scope id, an absolute destination, bounded ids.
ToRequest(route, body) ==
    IF route = "create" /\ body = "invalid" THEN {"INVALID_ARGUMENT"} ELSE {}

\* execBody.toExecRequest: a program to run, and decodable stdin.
ToExecRequest(route, body) ==
    IF route = "exec" /\ body = "invalid" THEN {"INVALID_ARGUMENT"} ELSE {}

\* setupServer.Create: the trust profile is required.
TrustProfile(route, body) ==
    IF route = "rpc_create" /\ body = "invalid" THEN {"INVALID_ARGUMENT"} ELSE {}

\* The answers that end a request before its handler is entered.
DecodeFails(r) ==
    CASE Route(r) \in ReadRoutes -> {}
      [] Route(r) \in RPCRoutes -> TrustProfile(Route(r), Body(r))
      [] load.plane = "operator" -> OperatorDecode(Body(r)) \cup ToRequest(Route(r), Body(r))
      [] OTHER -> UNION {GatewayDecode(Body(r)), ToRequest(Route(r), Body(r)),
                         ToExecRequest(Route(r), Body(r))}

\* writeCreateError, writeDestroyError, writeRevokeError.
OperatorError(route, err) ==
    CASE err = "unattested" -> "UNAUTHENTICATED"
      [] route = "create" /\ err = "invalid" -> "INVALID_ARGUMENT"
      [] route = "destroy" /\ err = "notowned" -> "NOT_FOUND"
      [] OTHER -> "CONFLICT"

\* writeMCPKeyError.
MCPKeyError(err) == CASE err = "unattested" -> "UNAUTHENTICATED"
                      [] err = "scope" -> "PERMISSION_DENIED"
                      [] err = "invalid" -> "INVALID_ARGUMENT"
                      [] OTHER -> "UNAVAILABLE"

\* writeReadError.
ReadError(err) == CASE err = "unattested" -> "UNAUTHENTICATED"
                    [] err = "notowned" -> "NOT_FOUND"
                    [] OTHER -> "UNAVAILABLE"

\* Mutant of ServiceError: the report is put on the wire as it is.
ServiceErrorRaw(err) == err

\* writeServiceError.
ServiceError(err) == CASE err = "unattested" -> "UNAUTHENTICATED"
                       [] err = "notowned" -> "NOT_FOUND"
                       [] err = "invalid" -> "INVALID_ARGUMENT"
                       [] OTHER -> "CONFLICT"

\* grpcStatusFromError.
GRPCStatus(err) == CASE err = "unattested" -> "UNAUTHENTICATED"
                     [] err = "notowned" -> "NOT_FOUND"
                     [] err = "invalid" -> "INVALID_ARGUMENT"
                     [] OTHER -> "FAILED_PRECONDITION"

AnswerOf(r, report) ==
    CASE report = "ok" -> "OK"
      [] Route(r) \in KeyRoutes -> MCPKeyError(report)
      [] Route(r) \in ReadRoutes -> ReadError(report)
      [] Route(r) \in RPCRoutes -> GRPCStatus(report)
      [] load.plane = "operator" -> OperatorError(Route(r), report)
      [] OTHER -> ServiceError(report)

-----------------------------------------------------------------------------
(* Steps of a request. *)

\* The handler returns and the gate's deferred release runs.
Respond(r, status) == /\ answer' = [answer EXCEPT ![r] = status]
                      /\ pc' = [pc EXCEPT ![r] = "done"]
                      /\ ReleaseSlot(r)
                      /\ UNCHANGED <<window, limit, charged>>

Goto(r, to) == pc' = [pc EXCEPT ![r] = to] /\ UNCHANGED answer

trailVars == <<latch, logons, refusals, dropped>>

\* A request on the operator socket: HTTP/1.1, one at a time per connection.
\* admissionGate reads the clock for a general request before the limiter.
AcceptOperator(r) ==
    /\ pc[r] = "idle" /\ load.plane = "operator"
    /\ \A q \in Active : Conn(q) = Conn(r) => pc[q] \in {"idle", "done"}
    /\ Goto(r, IF ClassOf(Route(r)) = "general" THEN "limit" ELSE "acquire")
    /\ seen' = [seen EXCEPT ![r] = IF pc'[r] = "limit" THEN window ELSE 0]
    /\ UNCHANGED <<load, trailVars, called, gateVars>>

\* A request on the gateway: h2 multiplexes a connection, and there is no gate.
AcceptGateway(r) ==
    /\ pc[r] = "idle" /\ load.plane = "gateway"
    /\ Goto(r, "decode")
    /\ UNCHANGED <<load, seen, trailVars, called, gateVars>>

\* admissionGate: the limiter admits, or the request is throttled (429).
Limit(r) ==
    /\ pc[r] = "limit"
    /\ \E ok \in BOOLEAN :
         /\ Allow(RateKey(r), seen[r], ok)
         /\ pc' = [pc EXCEPT ![r] = IF ok THEN "wait" ELSE "done"]
         /\ answer' = [answer EXCEPT ![r] = IF ok THEN @ ELSE "RESOURCE_EXHAUSTED"]
    /\ seen' = [seen EXCEPT ![r] = 0]
    /\ UNCHANGED <<load, trailVars, called, taken, held, window>>

\* Acquire without waiting: a priority request takes a reserved slot.
Acquire(r) ==
    /\ pc[r] = "acquire"
    /\ IF Free("reserved")
       THEN AcquireNow(r, ClassOf(Route(r))) /\ Goto(r, "decode")
       ELSE Goto(r, "wait") /\ UNCHANGED <<taken, held>>
    /\ UNCHANGED <<load, seen, trailVars, called, window, limit, charged>>

Admit(r) ==
    /\ pc[r] = "wait"
    /\ AcquireWait(r, ClassOf(Route(r)))
    /\ Goto(r, "decode")
    /\ UNCHANGED <<load, seen, trailVars, called, window, limit, charged>>

\* Acquire reports false: admitWait ran out, or the client hung up.
Shed(r) ==
    /\ pc[r] = "wait"
    /\ ClassOf(Route(r)) = "priority" => load.hangups
    /\ Respond(r, "UNAVAILABLE")
    /\ UNCHANGED <<load, seen, trailVars, called>>

\* The mux: /healthz and /metrics answer at once; the key routes refuse when
\* the deployment has no key engine; the others decode and validate the body.
Decode(r) ==
    /\ pc[r] = "decode"
    /\ CASE Route(r) \in ProbeRoutes -> Respond(r, "OK")
         [] DecodeFails(r) # {} -> \E a \in DecodeFails(r) : Respond(r, a)
         [] Route(r) \in KeyRoutes /\ ~load.keys -> Respond(r, "UNAVAILABLE")
         [] OTHER -> Goto(r, "resolve") /\ UNCHANGED gateVars
    /\ UNCHANGED <<load, seen, trailVars, called>>

\* One record offered to the trail, which may refuse it.
Record(c, field, ok) ==
    /\ ok \/ load.drops
    /\ dropped' = IF ok THEN dropped ELSE [dropped EXCEPT ![c] = @ + 1]
    /\ logons' = IF ok /\ field = "logon" THEN [logons EXCEPT ![c] = @ + 1] ELSE logons
    /\ refusals' = IF ok /\ field = "refusal" THEN [refusals EXCEPT ![c] = @ + 1] ELSE refusals

\* authntrail Resolve, the inner resolver refused: a failure record, always
\* (the read surface holds the bare resolver and records nothing), then 401.
Refuse(r) ==
    LET c == Conn(r) IN
    /\ pc[r] = "resolve" /\ Resolved(c) = Unattested
    /\ IF Route(r) \in ReadRoutes
       THEN UNCHANGED <<logons, refusals, dropped>>
       ELSE \E ok \in BOOLEAN : Record(c, "refusal", ok)
    /\ Respond(r, AnswerOf(r, "unattested"))
    /\ UNCHANGED <<load, seen, latch, called>>

\* Mutant of CompareAndSwap: the latch is set when the record is written.
LoadOnly(c, won) == (won <=> c \notin latch) /\ UNCHANGED latch

\* latch.CompareAndSwap(false, true).
CompareAndSwap(c, won) == (won <=> c \notin latch) /\ latch' = latch \cup {c}

\* authntrail Resolve, the inner resolver attested the caller: the request
\* that wins the latch records the logon, the others go on.
Attest(r) ==
    LET c == Conn(r) IN
    /\ pc[r] = "resolve" /\ Resolved(c) # Unattested
    /\ IF Route(r) \in ReadRoutes
       THEN Goto(r, "call") /\ UNCHANGED latch
       ELSE \E won \in BOOLEAN : CompareAndSwap(c, won) /\ Goto(r, IF won THEN "emit" ELSE "call")
    /\ UNCHANGED <<load, seen, logons, refusals, dropped, called, gateVars>>

\* The logon record; a refused one is counted and opens the latch again.
Emit(r) ==
    /\ pc[r] = "emit"
    /\ \E ok \in BOOLEAN : /\ Record(Conn(r), "logon", ok)
                           /\ latch' = IF ok THEN latch ELSE latch \ {Conn(r)}
    /\ Goto(r, "call")
    /\ UNCHANGED <<load, seen, called, gateVars>>

\* A handler's call and the answer written from what it reports.
Reported(r, reports) ==
    /\ pc[r] = "call"
    /\ called' = called \cup {r}
    /\ \E report \in reports : Respond(r, AnswerOf(r, report))
    /\ UNCHANGED <<load, seen, trailVars>>

\* Handlers of the operator plane: Create and Destroy on the Manager, and
\* RevokeOne, RevokeAll, ResumeAll on the kill switch with the scope minted
\* for the attested caller.
OperatorCall(r) ==
    /\ load.plane = "operator" /\ Route(r) \in LifecycleRoutes
    /\ Reported(r, CASE Route(r) = "create" -> {"ok", "invalid", "refused"}
                     [] Route(r) = "destroy" -> {"ok", "notowned", "refused"}
                     [] OTHER -> {"ok", "refused"})

\* MCPKeyCreate, MCPKeyRevoke.
KeyCall(r) == Route(r) \in KeyRoutes /\ Reported(r, {"ok", "invalid", "scope", "refused"})

\* ListSessions, GetSession, Deployment: a live row with the key, or none.
ReadReports(route) == CASE route = "deployment" -> {"ok"}
                        [] route = "list" -> {"ok", "refused"}
                        [] OTHER -> {"ok", "notowned", "refused"}

\* The read surface, behind attest.
ReadCall(r) == Route(r) \in ReadRoutes /\ Reported(r, ReadReports(Route(r)))

\* Create, Destroy, Status, Exec of the gateway's JSON face.
ServiceCall(r) == /\ load.plane = "gateway" /\ Route(r) \in JSONRoutes
                  /\ Reported(r, {"ok", "invalid", "notowned", "refused"})

\* Create, Route, Destroy of the gRPC face.
SetupCall(r) == Route(r) \in RPCRoutes /\ Reported(r, {"ok", "invalid", "notowned", "refused"})

Call(r) == \/ OperatorCall(r) \/ KeyCall(r) \/ ReadCall(r) \/ ServiceCall(r) \/ SetupCall(r)

IngressInit ==
    /\ load \in Loads
    /\ pc = [r \in Requests |-> "idle"]
    /\ seen = [r \in Requests |-> 0]
    /\ answer = [r \in Requests |-> "none"]
    /\ latch = {} /\ called = {}
    /\ logons = [c \in Conns |-> 0]
    /\ refusals = [c \in Conns |-> 0]
    /\ dropped = [c \in Conns |-> 0]
    /\ GateInit

RequestStep(r) == \/ AcceptOperator(r) \/ AcceptGateway(r) \/ Limit(r) \/ Acquire(r)
                  \/ Admit(r) \/ Shed(r)
                  \/ Decode(r) \/ Refuse(r) \/ Attest(r) \/ Emit(r) \/ Call(r)

IngressNext == \/ \E r \in Active : RequestStep(r)
               \/ Tick /\ load.ticks /\ UNCHANGED ingressVars

IngressSpec == IngressInit /\ [][IngressNext]_<<ingressVars, gateVars>>

\* A general handler may hang for ever in the Manager; a priority handler and
\* every bounded step ends.
IngressFair(r) ==
    LET priority == ClassOf(Route(r)) = "priority" IN
    /\ WF_<<ingressVars, gateVars>>(
         /\ r \in Active
         /\ \/ Limit(r) \/ Acquire(r) \/ Shed(r)
            \/ priority /\ (Decode(r) \/ Refuse(r) \/ Attest(r) \/ Emit(r) \/ Call(r)))
    /\ SF_<<ingressVars, gateVars>>(r \in Active /\ priority /\ Admit(r))

-----------------------------------------------------------------------------
(* Properties. *)

IngressType == /\ GateType
               /\ load \in Loads
               /\ pc \in [Requests -> {"idle", "limit", "acquire", "wait", "decode",
                                       "resolve", "emit", "call", "done"}]
               /\ seen \in [Requests -> Windows]
               /\ answer \in [Requests -> Answers \cup {"none"}]
               /\ latch \subseteq Conns
               /\ called \subseteq Requests

\* The trail never holds two logons of one connection, whatever requests share
\* it and whichever emits were refused (the latch of authntrail).
LogonOnce == \A c \in Conns : logons[c] <= 1

\* A request of a connection reaches a recorded handler only with the logon in
\* the trail, a record of it being written, or a loss counted.
LogonAccounted ==
    \A r \in called : Route(r) \notin ReadRoutes =>
        \/ logons[Conn(r)] = 1
        \/ dropped[Conn(r)] > 0
        \/ \E q \in Active : Conn(q) = Conn(r) /\ pc[q] = "emit"

\* No request of an unattested connection reaches the Manager or an engine,
\* and no request does that was throttled, shed or refused at decode.
RefusedUntouched ==
    \A r \in called : /\ Resolved(Conn(r)) # Unattested
                      /\ answer[r] \notin {"UNAUTHENTICATED", "RESOURCE_EXHAUSTED"}

\* Whatever reaches the Manager or an engine came in by the front door (registerRoutes
\* of both planes, authntrail): attested, admitted, and with one logon of its
\* connection in the trail, being written, or counted as lost.
CallsAttested == RefusedUntouched /\ LogonOnce /\ LogonAccounted

\* A revoke, a resume or a probe of a client that stays on the line is never
\* shed or throttled, and is answered although every general slot is held by
\* handlers that never return (the reserved pool).
PriorityServed ==
    \A r \in Requests :
        (/\ r \in Active /\ load.plane = "operator" /\ ~load.hangups
         /\ Route(r) \in {"revoke_one", "revoke_all", "resume_all", "healthz", "metrics"}
         /\ pc[r] # "idle")
        ~> (pc[r] = "done" /\ answer[r] \notin {"UNAVAILABLE", "RESOURCE_EXHAUSTED"})

\* A general request does not queue behind a saturated pool for ever: it is
\* admitted, throttled or shed.
WaitEnds == \A r \in Requests : (pc[r] \in {"limit", "wait"}) ~> (pc[r] \notin {"limit", "wait"})

\* Nobody waits for a slot for ever (Gate.Acquire, classOf): a priority request is
\* served although the general pool hangs, a general one is admitted or shed.
RequestsServed == PriorityServed /\ WaitEnds
=============================================================================
