--------------------------- MODULE ChassisProofs ---------------------------
(***************************************************************************)
(* What an answer of a node vouches for, for any number of requests,       *)
(* actions, bridges and rewirings: its status code, the key it took to     *)
(* reach a handler, and the bridge its packet went through.                *)
(***************************************************************************)
EXTENDS Chassis, TLAPS

-----------------------------------------------------------------------------
\* What each answer says of its request; a request that is open has none, and
\* before it is received nothing was done for it.
VouchesFor(r) ==
  code[r] = 200 => /\ Completed(r)
                   /\ probe[r] => outcome[r].type = "healthy"
                   /\ deflated[r] # None => packet[r] # None
AuthorizedOnly(r) ==
  auth # "none" =>
    /\ (pc[r] = "running" \/ Ran(r) \/ packet[r] # None) /\ ~probe[r] =>
         auth = "keyed" /\ token[r] = "key"
    /\ code[r] \in {401, 403} => packet[r] = None /\ ~Ran(r)
BridgeKept(r) ==
  /\ pc[r] = "running" => packet[r] \in wired[r] /\ bridge \in wired[r]
  /\ Ran(r) => IF deflated[r] # None THEN packet[r] # None /\ deflated[r] \in wired[r]
               ELSE packet[r] = None \/ None \in wired[r]

\* Requests are served from the end of the startup on, so the bridge that it
\* may wire is in place before the first one.
RequestInv(r) ==
  /\ life \in {"new", "connecting"} => pc[r] = "new"
  /\ pc[r] # "done" => code[r] = 0 /\ outcome[r] = None
  /\ pc[r] = "new" => packet[r] = None
  /\ VouchesFor(r) /\ AuthorizedOnly(r) /\ BridgeKept(r)

ChassisInv == TypeOK /\ \A r \in Requests : RequestInv(r)

\* A step of one request leaves the others alone.
Untouched(r) ==
  \A q \in Requests \ {r} :
    /\ pc'[q] = pc[q] /\ probe'[q] = probe[q] /\ token'[q] = token[q]
    /\ packet'[q] = packet[q] /\ outcome'[q] = outcome[q] /\ deflated'[q] = deflated[q]
    /\ code'[q] = code[q] /\ wired'[q] = wired[q]

LEMMA UntouchedKeeps ==
  ASSUME ChassisInv, NEW r \in Requests, Untouched(r), auth' = auth, life' = life,
         bridge' = bridge, TypeOK', RequestInv(r)'
  PROVE  ChassisInv'
<1>1. ASSUME NEW q \in Requests, q # r PROVE RequestInv(q)'
  BY <1>1 DEF ChassisInv, Untouched, RequestInv, VouchesFor, AuthorizedOnly, BridgeKept,
              Completed, Ran
<1>2. QED
  BY <1>1 DEF ChassisInv

Codes == {0, 200, 400, 401, 403, 404, 422, 500, 503}

LEMMA AnswerTypes ==
  ASSUME TypeOK, NEW r \in Requests, NEW c \in Codes, Answer(r, c)
  PROVE  /\ pc' \in [Requests -> {"new", "running", "done"}] /\ code' \in [Requests -> Codes]
         /\ pc'[r] = "done" /\ code'[r] = c
         /\ \A q \in Requests \ {r} : pc'[q] = pc[q] /\ code'[q] = code[q]
  BY DEF TypeOK, Answer, Codes

LEMMA AuthRejectsKeeps ==
  ASSUME ChassisInv, NEW r \in Requests, AuthRejects(r) PROVE ChassisInv'
<1>1. PICK t \in {"key", "other", None} :
        /\ ~ Admitted(t, FALSE)
        /\ token' = [token EXCEPT ![r] = t]
        /\ Answer(r, RejectCode(t))
  BY DEF AuthRejects
<1>2. auth # "none" /\ RejectCode(t) \in {401, 403}
  BY <1>1 DEF Admitted, RejectCode
<1>4. TypeOK /\ RejectCode(t) \in Codes
  BY <1>2 DEF ChassisInv, Codes
<1>5. /\ pc' \in [Requests -> {"new", "running", "done"}] /\ code' \in [Requests -> Codes]
      /\ pc'[r] = "done" /\ code'[r] = RejectCode(t)
      /\ \A q \in Requests \ {r} : pc'[q] = pc[q] /\ code'[q] = code[q]
  BY <1>1, <1>4, AnswerTypes
<1>6. /\ UNCHANGED <<lifeVars, wireVars, action, probe, packet, wired, outcome, deflated>>
      /\ pc[r] = "new" /\ life = "serving"
  BY DEF AuthRejects
<1>7. /\ token' \in [Requests -> {"key", "other", None}]
      /\ \A q \in Requests \ {r} : token'[q] = token[q]
  BY <1>1, <1>4 DEF TypeOK
<1>8. TypeOK'
  BY <1>4, <1>5, <1>6, <1>7 DEF TypeOK, Codes, lifeVars, wireVars
<1>9. RequestInv(r)'
  BY <1>2, <1>5, <1>6 DEF ChassisInv, RequestInv, VouchesFor, AuthorizedOnly,
     BridgeKept, Ran, lifeVars
<1>10. Untouched(r) /\ auth' = auth /\ life' = life /\ bridge' = bridge
  BY <1>5, <1>6, <1>7 DEF Untouched, lifeVars, wireVars
<1>11. QED
  BY <1>8, <1>9, <1>10, UntouchedKeeps

\* A request that auth lets through carries the key, or is the probe.
LEMMA ReceivedIs ==
  ASSUME TypeOK, NEW r \in Requests, NEW p \in BOOLEAN, Received(r, p)
  PROVE  /\ pc[r] = "new" /\ life = "serving" /\ UNCHANGED <<lifeVars, wireVars, outcome, deflated>>
         /\ token' \in [Requests -> {"key", "other", None}]
         /\ \A q \in Requests \ {r} : token'[q] = token[q]
         /\ auth # "none" /\ ~ p => auth = "keyed" /\ token'[r] = "key"
  BY DEF TypeOK, Received, Admitted, Authorized

LEMMA ArrivesIs ==
  ASSUME TypeOK, NEW r \in Requests, NEW a \in Actions, NEW p \in BOOLEAN, Arrives(r, a, p)
  PROVE  /\ Received(r, p)
         /\ action' \in [Requests -> Actions] /\ probe' \in [Requests -> BOOLEAN]
         /\ probe'[r] = p /\ \A q \in Requests \ {r} : probe'[q] = probe[q]
  BY DEF TypeOK, Arrives

LEMMA MalformedKeeps ==
  ASSUME ChassisInv, NEW r \in Requests, Malformed(r) PROVE ChassisInv'
<1>1. TypeOK /\ Received(r, FALSE) /\ UNCHANGED <<action, probe, packet, wired>>
  BY DEF ChassisInv, Malformed
<1>2. PICK c \in {422, 404} : Answer(r, c)
  BY DEF Malformed
<1>3. c \in Codes
  BY DEF Codes
<1>4. /\ pc' \in [Requests -> {"new", "running", "done"}] /\ code' \in [Requests -> Codes]
      /\ pc'[r] = "done" /\ code'[r] = c
      /\ \A q \in Requests \ {r} : pc'[q] = pc[q] /\ code'[q] = code[q]
  BY <1>1, <1>2, <1>3, AnswerTypes
<1>5. /\ pc[r] = "new" /\ life = "serving" /\ UNCHANGED <<lifeVars, wireVars, outcome, deflated>>
      /\ token' \in [Requests -> {"key", "other", None}]
      /\ \A q \in Requests \ {r} : token'[q] = token[q]
  BY <1>1, ReceivedIs
<1>6. TypeOK'
  BY <1>1, <1>4, <1>5 DEF TypeOK, Codes, lifeVars, wireVars
<1>7. RequestInv(r)'
  BY <1>1, <1>2, <1>4, <1>5 DEF ChassisInv, RequestInv, VouchesFor, AuthorizedOnly,
     BridgeKept, Ran, lifeVars
<1>8. Untouched(r) /\ auth' = auth /\ life' = life /\ bridge' = bridge
  BY <1>1, <1>4, <1>5 DEF Untouched, lifeVars, wireVars
<1>9. QED
  BY <1>6, <1>7, <1>8, UntouchedKeeps

\* A request that is answered before its handler is awaited.
LEMMA EarlyAnswerKeeps ==
  ASSUME ChassisInv, NEW r \in Requests, NEW a \in Actions, NEW p \in BOOLEAN, Arrives(r, a, p),
         NEW c \in {400, 500, 503}, Answer(r, c),
         packet' \in [Requests -> Bridges \cup {None}],
         wired' \in [Requests -> SUBSET (Bridges \cup {None})],
         \A q \in Requests \ {r} : packet'[q] = packet[q] /\ wired'[q] = wired[q]
  PROVE  ChassisInv'
<1>1. TypeOK /\ c \in Codes
  BY DEF ChassisInv, Codes
<1>2. /\ pc' \in [Requests -> {"new", "running", "done"}] /\ code' \in [Requests -> Codes]
      /\ pc'[r] = "done" /\ code'[r] = c
      /\ \A q \in Requests \ {r} : pc'[q] = pc[q] /\ code'[q] = code[q]
  BY <1>1, AnswerTypes
<1>3. /\ Received(r, p)
      /\ action' \in [Requests -> Actions] /\ probe' \in [Requests -> BOOLEAN]
      /\ probe'[r] = p /\ \A q \in Requests \ {r} : probe'[q] = probe[q]
  BY <1>1, ArrivesIs
<1>4. /\ pc[r] = "new" /\ life = "serving" /\ UNCHANGED <<lifeVars, wireVars, outcome, deflated>>
      /\ token' \in [Requests -> {"key", "other", None}]
      /\ \A q \in Requests \ {r} : token'[q] = token[q]
      /\ auth # "none" /\ ~ p => auth = "keyed" /\ token'[r] = "key"
  BY <1>1, <1>3, ReceivedIs
<1>5. TypeOK'
  BY <1>1, <1>2, <1>3, <1>4 DEF TypeOK, Codes, lifeVars, wireVars
<1>6. RequestInv(r)'
  BY <1>2, <1>3, <1>4 DEF ChassisInv, RequestInv, VouchesFor, AuthorizedOnly,
     BridgeKept, Ran, lifeVars
<1>7. Untouched(r) /\ auth' = auth /\ life' = life /\ bridge' = bridge
  BY <1>2, <1>3, <1>4 DEF Untouched, lifeVars, wireVars
<1>8. QED
  BY <1>5, <1>6, <1>7, UntouchedKeeps

LEMMA StubAndInflateKeep ==
  ASSUME ChassisInv, NEW r \in Requests, NEW a \in Actions, NEW p \in BOOLEAN,
         \/ StubAnswers(r, a, p)
         \/ \E v \in BOOLEAN : InflateRaises(r, a, p, v)
  PROVE  ChassisInv'
<1>1. PICK c \in {400, 500, 503} : Answer(r, c)
  BY DEF StubAnswers, InflateRaises, RaisedCode
<1>2. Arrives(r, a, p) /\ packet' = packet /\ wired' = wired
  BY DEF StubAnswers, InflateRaises
<1>3. /\ packet' \in [Requests -> Bridges \cup {None}]
      /\ wired' \in [Requests -> SUBSET (Bridges \cup {None})]
      /\ \A q \in Requests \ {r} : packet'[q] = packet[q] /\ wired'[q] = wired[q]
  BY <1>2 DEF ChassisInv, TypeOK
<1>4. QED
  BY <1>1, <1>2, <1>3, EarlyAnswerKeeps

LEMMA ExecuteKeeps ==
  ASSUME ChassisInv, NEW r \in Requests, NEW a \in Actions, NEW p \in BOOLEAN, Execute(r, a, p)
  PROVE  ChassisInv'
<1>1. /\ Arrives(r, a, p) /\ TypeOK
      /\ packet' \in [Requests -> Bridges \cup {None}] /\ packet'[r] = bridge
      /\ wired' \in [Requests -> SUBSET (Bridges \cup {None})] /\ wired'[r] = {bridge}
      /\ \A q \in Requests \ {r} : packet'[q] = packet[q] /\ wired'[q] = wired[q]
  BY DEF Execute, ChassisInv, TypeOK
<1>2. CASE a \notin handlers
  <2>1. PICK c \in {400, 500, 503} : Answer(r, c)
    BY <1>2 DEF Execute, RaisedCode
  <2>2. QED
    BY <1>1, <2>1, EarlyAnswerKeeps
<1>3. CASE a \in handlers
  <2>1. /\ UNCHANGED code
        /\ pc' \in [Requests -> {"new", "running", "done"}] /\ pc'[r] = "running"
        /\ \A q \in Requests \ {r} : pc'[q] = pc[q]
    BY <1>1, <1>3 DEF Execute, TypeOK
  <2>2. /\ Received(r, p)
        /\ action' \in [Requests -> Actions] /\ probe' \in [Requests -> BOOLEAN]
        /\ probe'[r] = p /\ \A q \in Requests \ {r} : probe'[q] = probe[q]
    BY <1>1, ArrivesIs
  <2>3. /\ pc[r] = "new" /\ life = "serving" /\ UNCHANGED <<lifeVars, wireVars, outcome, deflated>>
        /\ token' \in [Requests -> {"key", "other", None}]
        /\ \A q \in Requests \ {r} : token'[q] = token[q]
        /\ auth # "none" /\ ~ p => auth = "keyed" /\ token'[r] = "key"
    BY <1>1, <2>2, ReceivedIs
  <2>4. TypeOK'
    BY <1>1, <2>1, <2>2, <2>3 DEF TypeOK, lifeVars, wireVars
  <2>5. RequestInv(r)'
    <3>1. life' = "serving" /\ code'[r] = 0 /\ outcome'[r] = None /\ pc'[r] = "running"
      BY <2>1, <2>3 DEF ChassisInv, RequestInv, lifeVars
    <3>2. AuthorizedOnly(r)'
      BY <2>2, <2>3, <3>1 DEF AuthorizedOnly, lifeVars
    <3>3. BridgeKept(r)'
      BY <1>1, <2>3, <3>1 DEF BridgeKept, Ran, wireVars
    <3>4. QED
      BY <3>1, <3>2, <3>3 DEF RequestInv, VouchesFor
  <2>6. Untouched(r) /\ auth' = auth /\ life' = life /\ bridge' = bridge
    BY <1>1, <2>1, <2>2, <2>3 DEF Untouched, lifeVars, wireVars
  <2>7. QED
    BY <2>4, <2>5, <2>6, UntouchedKeeps
<1>4. QED
  BY <1>2, <1>3

\* What is answered when a handler has ended: 200 for a completed one only.
LEMMA ReturnedCodeIs ==
  ASSUME NEW p \in BOOLEAN, NEW o \in Outcomes
  PROVE  /\ ReturnedCode(p, o) \in {200, 400, 422, 500, 503}
         /\ ReturnedCode(p, o) = 200 =>
              o.type \in {"dict", "healthy"} /\ (p => o.type = "healthy")
  BY DEF ReturnedCode, ExecutedCode, FailedCode

LEMMA HandlerEndsKeeps ==
  ASSUME ChassisInv, NEW r \in Requests, NEW o \in Outcomes,
         HandlerEnds(r, o) \/ \E v \in BOOLEAN : DeflateRaises(r, o, v)
  PROVE  ChassisInv'
<1>1. /\ TypeOK /\ pc[r] = "running" /\ probe[r] \in BOOLEAN
      /\ UNCHANGED <<lifeVars, wireVars, action, token, probe, packet, wired>>
      /\ outcome' = [outcome EXCEPT ![r] = o]
  BY DEF HandlerEnds, DeflateRaises, ChassisInv, TypeOK
<1>2. PICK d \in Bridges \cup {None} :
        /\ deflated' = [deflated EXCEPT ![r] = d]
        /\ d # None => packet[r] # None /\ d = bridge
        /\ d = None => packet[r] = None \/ bridge = None
  BY <1>1 DEF HandlerEnds, DeflateRaises, Deflates, TypeOK
<1>3. PICK c \in {200, 400, 422, 500, 503} :
        /\ Answer(r, c)
        /\ c = 200 => o.type \in {"dict", "healthy"} /\ (probe[r] => o.type = "healthy")
  <2>1. CASE HandlerEnds(r, o)
    BY <1>1, <2>1, ReturnedCodeIs DEF HandlerEnds
  <2>2. ASSUME NEW v \in BOOLEAN, DeflateRaises(r, o, v)
        PROVE  Answer(r, RaisedCode(probe[r], v)) /\ RaisedCode(probe[r], v) \in {400, 500, 503}
    BY <2>2 DEF DeflateRaises, RaisedCode
  <2>3. QED
    BY <2>1, <2>2
<1>4. c \in Codes
  BY DEF Codes
<1>5. /\ pc' \in [Requests -> {"new", "running", "done"}] /\ code' \in [Requests -> Codes]
      /\ pc'[r] = "done" /\ code'[r] = c
      /\ \A q \in Requests \ {r} : pc'[q] = pc[q] /\ code'[q] = code[q]
  BY <1>1, <1>3, <1>4, AnswerTypes
<1>6. /\ outcome' \in [Requests -> Outcomes \cup {None}] /\ outcome'[r] = o
      /\ deflated' \in [Requests -> Bridges \cup {None}] /\ deflated'[r] = d
      /\ \A q \in Requests \ {r} : outcome'[q] = outcome[q] /\ deflated'[q] = deflated[q]
  BY <1>1, <1>2 DEF TypeOK
<1>7. TypeOK'
  BY <1>1, <1>5, <1>6 DEF TypeOK, Codes, lifeVars, wireVars
<1>8. RequestInv(r)'
  <2>1. /\ packet'[r] = packet[r] /\ probe'[r] = probe[r] /\ token'[r] = token[r] /\ auth' = auth
        /\ o # None
    BY <1>1, OutcomesAssumption DEF lifeVars
  <2>2. VouchesFor(r)'
    BY <1>2, <1>3, <1>5, <1>6, <2>1 DEF VouchesFor, Completed, Ran
  <2>4. BridgeKept(r)'
    <3>1. bridge \in wired[r] /\ wired'[r] = wired[r]
      BY <1>1 DEF ChassisInv, RequestInv, BridgeKept
    <3>2. QED
      BY <1>2, <1>5, <1>6, <2>1, <3>1 DEF BridgeKept
  <2>3. AuthorizedOnly(r)'
    BY <1>1, <1>3, <1>5, <2>1 DEF ChassisInv, RequestInv, AuthorizedOnly
  <2>5. life' \notin {"new", "connecting"}
    BY <1>1 DEF ChassisInv, RequestInv, lifeVars
  <2>6. QED
    BY <1>5, <2>2, <2>3, <2>4, <2>5 DEF RequestInv
<1>9. Untouched(r) /\ auth' = auth /\ life' = life /\ bridge' = bridge
  BY <1>1, <1>5, <1>6 DEF Untouched, lifeVars, wireVars
<1>10. QED
  BY <1>7, <1>8, <1>9, UntouchedKeeps

LEMMA LifespanKeeps == ASSUME ChassisInv, Lifespan \/ Rewire \/ UNCHANGED vars PROVE ChassisInv'
<1>1. UNCHANGED <<auth, requestVars>>
  BY DEF Lifespan, StartupBegin, StartupEnd, StartupFails, ShutdownBegin, ShutdownEnd, Rewire,
         lifeVars, vars, requestVars
<1>2. TypeOK'
  <2>1. CASE Lifespan
    BY <2>1, <1>1 DEF ChassisInv, TypeOK, Lifespan, StartupBegin, StartupEnd, StartupFails,
       ShutdownBegin, ShutdownEnd, PoolAfterClose, wireVars, requestVars
  <2>2. CASE Rewire
    BY <2>2, <1>1, WiringsAssumption DEF ChassisInv, TypeOK, Rewire, RegisterHandlers,
       ClearHandlers, SetPacketBridge, lifeVars, requestVars
  <2>3. CASE UNCHANGED vars
    BY <2>3 DEF ChassisInv, TypeOK, vars
  <2>4. QED
    BY <2>1, <2>2, <2>3
<1>3. ASSUME NEW r \in Requests PROVE RequestInv(r)'
  <2>1. /\ TypeOK /\ RequestInv(r)
        /\ UNCHANGED <<auth, pc, action, token, probe, packet, outcome, deflated, code>>
    BY <1>1 DEF ChassisInv, requestVars
  \* What happens to the bridge: it is wired before the first request, or in a
  \* step that records it with every running request, or not at all.
  <2>2. /\ life' \in {"new", "connecting"} => life \in {"new", "connecting"}
        /\ \/ pc[r] = "new" /\ wired' = wired
           \/ pc[r] = "running" /\ wired'[r] = wired[r] \cup {bridge'}
           \/ pc[r] # "running" /\ wired'[r] = wired[r]
           \/ bridge' = bridge /\ wired' = wired
    <3>1. CASE Lifespan
      BY <2>1, <3>1 DEF Lifespan, StartupBegin, StartupEnd, StartupFails, ShutdownBegin,
         ShutdownEnd, wireVars, RequestInv
    <3>2. CASE Rewire
      BY <2>1, <3>2 DEF Rewire, RegisterHandlers, ClearHandlers, SetPacketBridge, lifeVars, TypeOK
    <3>3. CASE UNCHANGED vars
      BY <3>3 DEF vars
    <3>4. QED
      BY <3>1, <3>2, <3>3
  <2>3. BridgeKept(r)'
    BY <2>1, <2>2 DEF RequestInv, BridgeKept, Ran
  <2>4. QED
    BY <2>1, <2>2, <2>3 DEF RequestInv, VouchesFor, AuthorizedOnly, Completed, Ran
<1>4. QED
  BY <1>2, <1>3 DEF ChassisInv

LEMMA ChassisStep == ChassisInv /\ [Next]_vars => ChassisInv'
<1> SUFFICES ASSUME ChassisInv, [Next]_vars PROVE ChassisInv'
  OBVIOUS
<1>1. CASE Lifespan \/ Rewire \/ UNCHANGED vars
  BY <1>1, LifespanKeeps
<1>2. ASSUME NEW r \in Requests, Request(r) PROVE ChassisInv'
  <2>1. CASE AuthRejects(r) \/ Malformed(r)
    BY <2>1, AuthRejectsKeeps, MalformedKeeps
  <2>2. ASSUME NEW a \in Actions, NEW p \in BOOLEAN,
               \/ StubAnswers(r, a, p) \/ Execute(r, a, p)
               \/ \E v \in BOOLEAN : InflateRaises(r, a, p, v)
        PROVE  ChassisInv'
    BY <2>2, StubAndInflateKeep, ExecuteKeeps
  <2>3. ASSUME NEW o \in Outcomes,
               HandlerEnds(r, o) \/ \E v \in BOOLEAN : DeflateRaises(r, o, v)
        PROVE  ChassisInv'
    BY <2>3, HandlerEndsKeeps
  <2>4. QED
    BY <1>2, <2>1, <2>2, <2>3 DEF Request
<1>3. QED
  BY <1>1, <1>2 DEF Next

LEMMA ChassisInit == Init => ChassisInv
<1> SUFFICES ASSUME Init PROVE ChassisInv
  OBVIOUS
<1>1. TypeOK
  BY HealthAssumption, WiringsAssumption DEF Init, TypeOK
<1>2. ASSUME NEW r \in Requests PROVE RequestInv(r)
  BY DEF Init, RequestInv, VouchesFor, AuthorizedOnly, BridgeKept, Ran
<1>3. QED
  BY <1>1, <1>2 DEF ChassisInv

LEMMA ChassisInvariant == Spec => []ChassisInv
  BY ChassisInit, ChassisStep, PTL DEF Spec

-----------------------------------------------------------------------------

\* The app keeps its types: each request is answered with one of its codes.
THEOREM ChassisTypeCorrect == Spec => []TypeOK
  BY ChassisInvariant, PTL DEF ChassisInv

(* However the registry and the bridge are re-wired while requests run, a  *)
(* 200 vouches for a handler that returned a dict, a probe's for a healthy *)
(* one (chassis_app.py, actions.py).                                       *)
THEOREM ChassisOkMeansCompleted == Spec => []OkMeansCompleted
<1>1. ChassisInv => OkMeansCompleted
  BY DEF ChassisInv, RequestInv, VouchesFor, OkMeansCompleted
<1>2. QED
  BY <1>1, ChassisInvariant, PTL

(* Behind auth/app.py nothing runs without the key but the probe, for any  *)
(* number of requests in any order (auth.py, dispatch()).                  *)
THEOREM ChassisOnlyAuthorizedRun == Spec => []OnlyAuthorizedRun
<1>1. ChassisInv => OnlyAuthorizedRun
  BY DEF ChassisInv, RequestInv, AuthorizedOnly, OnlyAuthorizedRun
<1>2. QED
  BY <1>1, ChassisInvariant, PTL

(* Whatever is wired while handlers run, a packet is deflated by a bridge  *)
(* that was wired meanwhile, and by the one that inflated it when none was *)
(* (execute_action, which reads _deflate_fn again after its await).        *)
THEOREM ChassisBridgeOfItsTime == Spec => []BridgeOfItsTime
<1>1. ChassisInv => BridgeOfItsTime
  BY DEF ChassisInv, RequestInv, BridgeKept, BridgeOfItsTime
<1>2. QED
  BY <1>1, ChassisInvariant, PTL
=============================================================================
