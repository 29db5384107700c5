------------------------------ MODULE Chassis ------------------------------
(***************************************************************************)
(* The HTTP boundary of a node: chassis/chassis_app.py (lifespan, the two  *)
(* endpoints and their status codes), chassis/actions.py (the registry,    *)
(* the packet bridge, execute_action) and chassis/engine_boot.py, the      *)
(* LifecycleHook of the graph engine; chassis/auth/app.py, the same app    *)
(* behind chassis/auth/auth.py.  Neither create_app applies the layers of  *)
(* chassis/middleware.py, so no answer passes them.                        *)
(*                                                                         *)
(* Everything runs on one event loop, so a step is what happens between    *)
(* two awaits: up to the handler's await, and from its return to the       *)
(* response.  Between them other requests run, and the module globals of   *)
(* actions.py (handlers, bridge) may be replaced.                          *)
(*                                                                         *)
(* External: the ASGI server (requests are served only between the two     *)
(* halves of the lifespan, which it ends after the open ones), the graph   *)
(* driver, the domain loader, the handlers and the bridge functions.       *)
(***************************************************************************)
EXTENDS Naturals

CONSTANTS Requests,     \* requests, each sent once
          Actions,      \* action names, "health" is the probe's
          Bridges,      \* packet bridges that may be wired
          MaxWirings,   \* bound: changes of the registry or bridge after startup
          Errors,       \* types of exception that handlers raise
          None          \* nothing

ASSUME HealthAssumption == "health" \in Actions
ASSUME BridgesAssumption == None \notin Bridges
ASSUME WiringsAssumption == MaxWirings \in Nat

\* chassis/errors.py, and what else a handler may raise.
ChassisErrors == {"ValidationError", "NotFoundError", "AuthorizationError",
                  "RateLimitError", "ExecutionError"}
ASSUME ErrorsAssumption == Errors \subseteq ChassisErrors \cup {"ValueError", "Exception"}

\* What a handler's await ends with: a dict, which may say {"status":
\* "healthy"}, something else, or an exception whose text contains
\* "validation" or "invalid" or neither.  A dict may hold a value that has no
\* JSON ("opaque").
Outcomes == [type : {"dict", "healthy", "opaque", "not_dict"}, keyword : {FALSE}]
              \cup [type : Errors, keyword : BOOLEAN]
ASSUME OutcomesAssumption == None \notin Outcomes

VARIABLES
  auth,      \* the app: "none" (chassis_app.py), or auth/app.py with its key set or not
  hook,      \* what _resolve_hook found: "graph" or "noop"
  life,      \* where the lifespan context manager stands
  pool,      \* the Neo4j pool of the graph engine
  handlers,  \* keys of _handlers
  bridge,    \* _inflate_fn, _deflate_fn, or None
  wirings,
  pc, action,\* where each request stands, and its action
  token,     \* its Authorization header: "key", "other" or None
  probe,     \* is it a GET /v1/health?
  packet,    \* the bridge that inflated its packet, or None
  outcome,   \* what its handler did, or None
  deflated,  \* history: the bridge that deflated it, or None
  wired,     \* history: the bridges in place since its packet was inflated
  code       \* HTTP status sent, or 0

vars == <<auth, hook, life, pool, handlers, bridge, wirings, pc, action, token,
          probe, packet, outcome, deflated, wired, code>>
lifeVars == <<auth, hook, life, pool>>
wireVars == <<handlers, bridge, wirings>>

TypeOK ==
  /\ auth \in {"none", "keyed", "unkeyed"} /\ hook \in {"graph", "noop"}
  /\ life \in {"new", "connecting", "serving", "closing", "stopped", "crashed"}
  /\ pool \in {"none", "open", "closed"}
  /\ handlers \subseteq Actions
  /\ bridge \in Bridges \cup {None}
  /\ wirings \in 0..MaxWirings
  /\ pc \in [Requests -> {"new", "running", "done"}]
  /\ action \in [Requests -> Actions]
  /\ probe \in [Requests -> BOOLEAN]
  /\ packet \in [Requests -> Bridges \cup {None}]
  /\ outcome \in [Requests -> Outcomes \cup {None}]
  /\ deflated \in [Requests -> Bridges \cup {None}]
  /\ token \in [Requests -> {"key", "other", None}]
  /\ code \in [Requests -> {0, 200, 400, 401, 403, 404, 422, 500, 503}]
  /\ wired \in [Requests -> SUBSET (Bridges \cup {None})]

Init ==
  /\ auth \in {"none", "keyed", "unkeyed"}
  /\ hook \in {"graph", "noop"} /\ (auth # "none" => hook = "graph")
  /\ life = "new"
  /\ pool = "none"
  /\ handlers = {}
  /\ bridge = None
  /\ wirings = 0
  /\ pc = [r \in Requests |-> "new"]
  /\ action = [r \in Requests |-> "health"]
  /\ probe = [r \in Requests |-> FALSE]
  /\ packet = [r \in Requests |-> None]
  /\ outcome = [r \in Requests |-> None]
  /\ deflated = [r \in Requests |-> None]
  /\ code = [r \in Requests |-> 0]
  /\ token = [r \in Requests |-> None]
  /\ wired = [r \in Requests |-> {}]

requestVars == <<pc, action, token, probe, packet, outcome, deflated, code>>

-----------------------------------------------------------------------------
(* Lifespan.  (Names ending in _Mut are plausible bugs in the definition     *)
(* after them, kept to show which property notices; they are not the model.) *)

\* GraphLifecycle.startup() creates the driver and awaits connect().
StartupBegin ==
  /\ life = "new"
  /\ life' = IF hook = "graph" THEN "connecting" ELSE "serving"
  /\ UNCHANGED <<auth, hook, pool, wireVars, requestVars, wired>>

\* connect() returns, the domain loader is built, the handlers are wired (by
\* init_dependencies, external: it registers some, and may set a bridge).
StartupEnd ==
  /\ life = "connecting"
  /\ life' = "serving"
  /\ pool' = "open"
  /\ \E H \in SUBSET Actions, b \in Bridges \cup {None} : handlers' = H /\ bridge' = b
  /\ UNCHANGED <<auth, hook, wirings, requestVars, wired>>

\* connect() raises, or what comes after it does: lifespan has no try, so
\* shutdown() is not called and a pool that was opened stays open.
StartupFails ==
  /\ life = "connecting"
  /\ life' = "crashed"
  /\ pool' \in {"none", "open"}
  /\ UNCHANGED <<auth, hook, wireVars, requestVars, wired>>

\* The server ends the lifespan once no request is open.
Drained == \A r \in Requests : pc[r] # "running"

ShutdownBegin ==
  /\ life = "serving" /\ Drained
  /\ life' = "closing"
  /\ UNCHANGED <<auth, hook, pool, wireVars, requestVars, wired>>

\* The engine's shutdown() awaits close() on the pool; close() may raise.
PoolAfterClose == IF pool = "open" THEN "closed" ELSE pool

ShutdownEnd ==
  /\ life = "closing"
  /\ \/ life' = "stopped" /\ pool' = PoolAfterClose
     \/ life' = "crashed" /\ pool' = pool /\ pool = "open"
  /\ UNCHANGED <<auth, hook, wireVars, requestVars, wired>>

\* The module functions of actions.py, called while requests are open.
RegisterHandlers(A) ==
  /\ handlers' = handlers \cup A
  /\ UNCHANGED <<bridge, wired>>
ClearHandlers_Mut ==
  /\ handlers' = {}
  /\ bridge' = None
  /\ UNCHANGED wired
ClearHandlers ==
  /\ handlers' = {}
  /\ UNCHANGED <<bridge, wired>>
SetPacketBridge(b) ==
  /\ bridge' = b
  /\ wired' = [r \in Requests |-> IF pc[r] = "running" THEN wired[r] \cup {b} ELSE wired[r]]
  /\ UNCHANGED handlers

Rewire ==
  /\ life = "serving" /\ wirings < MaxWirings
  /\ wirings' = wirings + 1
  /\ \/ \E A \in SUBSET Actions \ {{}} : RegisterHandlers(A)
     \/ ClearHandlers
     \/ \E b \in Bridges \cup {None} : SetPacketBridge(b)
  /\ UNCHANGED <<lifeVars, requestVars>>

-----------------------------------------------------------------------------
(* Auth *)

\* BearerAuthMiddleware.dispatch: public paths (the probe's) and OPTIONS pass.
Authorized_Mut(t) == auth # "unkeyed" => t # "other"
Authorized(t) == auth = "keyed" /\ t = "key"
Admitted(t, public) == auth = "none" \/ public \/ Authorized(t)
RejectCode(t) == IF t = None THEN 401 ELSE 403

-----------------------------------------------------------------------------
(* Status codes *)

\* An exception that leaves hook.execute(): ValueError is 400, others 500; on
\* the probe everything is 503.
RaisedCode(p, valueError) ==
  IF p THEN 503 ELSE IF valueError THEN 400 ELSE 500

\* execute_action returned.  A handler that raised gives status "failed" and
\* its text; ExecuteResponse refuses data that is not a dict with a pydantic
\* ValidationError, which is a ValueError; FastAPI serializes the result
\* outside of the endpoint's try, and a value without JSON is a plain 500.  The
\* probe's JSONResponse is built inside the try.
FailedCode(o) == IF o.keyword THEN 422 ELSE 500
ExecutedCode(o) ==
  CASE o.type \in {"dict", "healthy"} -> 200
    [] o.type = "not_dict"            -> 400
    [] o.type = "opaque"              -> 500
    [] OTHER                          -> FailedCode(o)
ReturnedCodeLax_Mut(p, o) ==
  IF p THEN IF o.type \in {"healthy", "dict"} THEN 200 ELSE 503 ELSE ExecutedCode(o)
ReturnedCode(p, o) ==
  IF p THEN IF o.type = "healthy" THEN 200 ELSE 503 ELSE ExecutedCode(o)

Answer(r, c) ==
  /\ pc' = [pc EXCEPT ![r] = "done"]
  /\ code' = [code EXCEPT ![r] = c]

-----------------------------------------------------------------------------
(* Requests *)

Received(r, public) ==
  /\ life = "serving" /\ pc[r] = "new"
  /\ \E t \in IF auth = "none" THEN {None} ELSE {"key", "other", None} :
       /\ Admitted(t, public)
       /\ token' = [token EXCEPT ![r] = t]
  /\ UNCHANGED <<lifeVars, wireVars, outcome, deflated>>

\* 401 without a Bearer token, 403 with another one or without a key.
AuthRejects(r) ==
  /\ life = "serving" /\ pc[r] = "new"
  /\ \E t \in {"key", "other", None} :
       /\ ~ Admitted(t, FALSE)
       /\ token' = [token EXCEPT ![r] = t]
       /\ Answer(r, RejectCode(t))
  /\ UNCHANGED <<lifeVars, wireVars, action, probe, packet, wired, outcome, deflated>>

Arrives(r, a, p) ==
  /\ p => a = "health"
  /\ Received(r, p)
  /\ action' = [action EXCEPT ![r] = a]
  /\ probe' = [probe EXCEPT ![r] = p]

\* The body is not an ExecuteRequest, or no endpoint has the path.
Malformed(r) ==
  /\ Received(r, FALSE)
  /\ Answer(r, 422) \/ Answer(r, 404)
  /\ UNCHANGED <<action, probe, packet, wired>>

\* _NoOpLifecycle.execute: "No engine lifecycle hook configured".
StubAnswers(r, a, p) ==
  /\ hook = "noop"
  /\ Arrives(r, a, p)
  /\ Answer(r, IF p THEN 503 ELSE 500)
  /\ UNCHANGED <<packet, wired>>

\* execute_action as far as its await: inflate, then look up the handler.
Execute(r, a, p) ==
  /\ hook = "graph"
  /\ Arrives(r, a, p)
  /\ packet' = [packet EXCEPT ![r] = bridge]
  /\ wired' = [wired EXCEPT ![r] = {bridge}]
  /\ IF a \in handlers
       THEN /\ pc' = [pc EXCEPT ![r] = "running"]
            /\ UNCHANGED code
       ELSE Answer(r, RaisedCode(p, TRUE))

\* inflate_fn raises.
InflateRaises(r, a, p, valueError) ==
  /\ hook = "graph" /\ bridge # None
  /\ Arrives(r, a, p)
  /\ Answer(r, RaisedCode(p, valueError))
  /\ UNCHANGED <<packet, wired>>

\* if _deflate_fn is not None and request_packet is not None
Deflates(r) == bridge # None /\ packet[r] # None

\* The handler ends; the response is deflated, whatever the handler did.
HandlerEnds(r, o) ==
  /\ pc[r] = "running"
  /\ outcome' = [outcome EXCEPT ![r] = o]
  /\ deflated' = [deflated EXCEPT ![r] = IF Deflates(r) THEN bridge ELSE None]
  /\ Answer(r, ReturnedCode(probe[r], o))
  /\ UNCHANGED <<lifeVars, wireVars, action, token, probe, packet, wired>>

\* Likewise, but deflate_fn raises: the handler's result is dropped.
DeflateRaises(r, o, valueError) ==
  /\ pc[r] = "running" /\ Deflates(r)
  /\ outcome' = [outcome EXCEPT ![r] = o]
  /\ deflated' = [deflated EXCEPT ![r] = bridge]
  /\ Answer(r, RaisedCode(probe[r], valueError))
  /\ UNCHANGED <<lifeVars, wireVars, action, token, probe, packet, wired>>

Request(r) ==
  \/ AuthRejects(r) \/ Malformed(r)
  \/ \E a \in Actions, p \in BOOLEAN :
       \/ StubAnswers(r, a, p)
       \/ Execute(r, a, p)
       \/ \E v \in BOOLEAN : InflateRaises(r, a, p, v)
  \/ \E o \in Outcomes :
       \/ HandlerEnds(r, o)
       \/ \E v \in BOOLEAN : DeflateRaises(r, o, v)

Lifespan ==
  StartupBegin \/ StartupEnd \/ StartupFails \/ ShutdownBegin \/ ShutdownEnd

Next == Lifespan \/ Rewire \/ \E r \in Requests : Request(r)

Spec == Init /\ [][Next]_vars

-----------------------------------------------------------------------------
(* Correctness *)

Ran(r) == outcome[r] # None
Completed(r) == Ran(r) /\ outcome[r].type \in {"dict", "healthy"}

\* 200 is only sent for a request whose handler ran to its end and returned a
\* dict, and a probe gets it only when the engine said "healthy": no stub, no
\* bridge failure and no rewiring in between turns something else into 200; and
\* deflate_fn is never handed the None of a request that was not inflated.
OkMeansCompleted ==
  \A r \in Requests : code[r] = 200 =>
    /\ Completed(r)
    /\ probe[r] => outcome[r].type = "healthy"
    /\ deflated[r] # None => packet[r] # None

\* With auth/app.py no request reaches a handler or the bridge unless it is a
\* probe or carries the key, and none but the probe when no key is set; what
\* auth refuses, it answers with 401 or 403 and nobody else does.
OnlyAuthorizedRun ==
  auth # "none" =>
    \A r \in Requests :
      /\ (pc[r] = "running" \/ Ran(r) \/ packet[r] # None) /\ ~probe[r] =>
           auth = "keyed" /\ token[r] = "key"
      /\ code[r] \in {401, 403} => packet[r] = None /\ ~Ran(r)

\* Handler and deflate look at the bridge again after the await.  A packet is
\* deflated by the bridge that inflated it, and every inflated one is, unless
\* set_packet_bridge was called while its handler ran: then by a bridge that
\* was wired meanwhile, or by none only if None was wired meanwhile.
BridgeOfItsTime ==
  \A r \in Requests : Ran(r) =>
    IF deflated[r] # None THEN packet[r] # None /\ deflated[r] \in wired[r]
    ELSE packet[r] = None \/ None \in wired[r]
=============================================================================
