--------------------------- MODULE PacketsProofs ---------------------------
(***************************************************************************)
(* The two ends of a packet, for any actions, nodes, limits and number of  *)
(* requests, retries and calls: the runtime that routes it (Constellation) *)
(* and the client that posts it (ExecuteClient).                           *)
(***************************************************************************)
EXTENDS Constellation, ExecuteClient, FiniteSetTheorems, TLAPS

-----------------------------------------------------------------------------
(* The runtime *)

\* A node that the router visits is a node, and the entry it leaves is one.
LEMMA HopType ==
  ASSUME TypeOK, Hop, NEW s \in {"completed", "forwarded", "error"}
  PROVE  /\ hops' \in Seq(Nodes) /\ Len(hops') = Len(hops) + 1 /\ Len(hops') <= MaxHops
         /\ hops' = Append(hops, actionMap[current])
         /\ Traced(actionMap[current], s) \in Seq(TraceEntry)
         /\ Len(Traced(actionMap[current], s)) = Len(trace) + 1
<1>1. current \in Actions /\ actionMap[current] \in Nodes
  BY RegistryAssumption, NoneAssumption DEF TypeOK, Hop, Known, Mapped
<1>2. [node |-> actionMap[current], action |-> current, status |-> s] \in TraceEntry
  BY <1>1 DEF TraceEntry
<1>3. QED
  BY <1>1, <1>2, BoundsAssumption DEF TypeOK, Hop, HopsLeft, Traced

\* The counters and the history of a call of execute() that ends, or has begun.
Counters == [request_count : Nat, action_errors : Nat, node_hop_count_total : Nat]
Outcomes == [ok : Nat, failed : Nat, escaped : Nat, hops : Nat]

LEMMA BeginType == ASSUME TypeOK PROVE Counted \in Counters
<1>1. metrics \in Counters
  BY DEF TypeOK, Counters
<1>2. QED
  BY <1>1 DEF Counted, Counters

LEMMA EndType ==
  ASSUME TypeOK, NEW s \in Statuses, NEW m \in Counters, Fail(s, m)
  PROVE  /\ pc' = "idle" /\ answer' \in Statuses
         /\ metrics' \in Counters /\ tally' \in Outcomes
<1>1. ErrorsCounted(m) \in Counters
  BY DEF ErrorsCounted, Counters
<1>2. [tally EXCEPT !.failed = @ + 1] \in Outcomes
  BY DEF TypeOK, Outcomes
<1>3. QED
  BY <1>1, <1>2 DEF Fail

LEMMA SuccessType ==
  ASSUME TypeOK, NEW s \in Statuses, NEW visited \in Seq(Nodes), Succeed(s, visited)
  PROVE  /\ pc' = "idle" /\ answer' \in Statuses \cup {"escaped"}
         /\ metrics' \in Counters /\ tally' \in Outcomes
<1>1. Len(visited) \in Nat /\ metrics \in Counters /\ tally \in Outcomes
  BY DEF TypeOK, Counters, Outcomes
<1>2. [metrics EXCEPT !.node_hop_count_total = @ + Len(visited)] \in Counters
  BY <1>1 DEF Counters
<1>3. tally.hops + Len(visited) \in Nat /\ tally.escaped + 1 \in Nat /\ tally.ok + 1 \in Nat
  BY <1>1 DEF Outcomes
<1>4. [tally EXCEPT !.escaped = @ + 1, !.hops = @ + Len(visited)] \in Outcomes
  BY <1>1, <1>3 DEF Outcomes
<1>5. [tally EXCEPT !.ok = @ + 1, !.hops = @ + Len(visited)] \in Outcomes
  BY <1>1, <1>3 DEF Outcomes
<1>6. QED
  BY <1>2, <1>4, <1>5 DEF Succeed

LEMMA EscapeType ==
  ASSUME TypeOK, NEW m \in Counters, Escape(m)
  PROVE  /\ pc' = "idle" /\ answer' = "escaped"
         /\ metrics' \in Counters /\ tally' \in Outcomes
<1>1. [tally EXCEPT !.escaped = @ + 1] \in Outcomes
  BY DEF TypeOK, Outcomes
<1>2. QED
  BY <1>1 DEF Escape

LEMMA RuntimeTypeStep == TypeOK /\ [Next]_vars => TypeOK'
<1> SUFFICES ASSUME TypeOK, [Next]_vars PROVE TypeOK'
  OBVIOUS
<1> USE DEF TypeOK, Counters, Outcomes
<1>1. ASSUME NEW a \in Actions, NEW n \in Nodes, NEW h \in BOOLEAN, RegisterAction(a, n, h)
      PROVE  TypeOK'
  <2>1. UNCHANGED <<pc, client, current, payload, hashed, trace, received, hops, answer, metrics, tally, phase>>
    BY <1>1 DEF RegisterAction, requestVars, packetVars
  <2>2. actionMap' \in [Actions -> Nodes \cup {None}] /\ handlers' \subseteq Actions
    BY <1>1 DEF RegisterAction
  <2>3. QED
    BY <2>1, <2>2
<1>2. CASE ValidateStartup
  BY <1>2 DEF ValidateStartup, requestVars, packetVars
<1>3. CASE Reject
  BY <1>3, BeginType, EndType DEF Reject, registryVars, packetVars, Statuses
<1>4. ASSUME NEW a \in Actions, NEW p \in ClientPayloads, Accept(a, p) PROVE TypeOK'
  <2>1. Upstream(a) \in Seq(TraceEntry) /\ <<>> \in Seq(TraceEntry) /\ <<>> \in Seq(Nodes)
    BY DEF Upstream, TraceEntry
  <2>2. /\ trace' \in Seq(TraceEntry) /\ received' \in 0..Len(trace')
        /\ hops' \in Seq(Nodes) /\ Len(hops') <= MaxHops
    <3>1. trace' \in Seq(TraceEntry) /\ received' = Len(trace') /\ hops' = <<>>
      BY <1>4, <2>1 DEF Accept
    <3>2. QED
      BY <3>1, BoundsAssumption
  <2>3. /\ pc' \in {"idle", "routing"} /\ answer' \in Statuses \cup {"escaped", None}
        /\ metrics' \in Counters
        /\ tally' \in Outcomes
    <3>1. CASE p = "unserializable"
      BY <1>4, <3>1, BeginType, EscapeType DEF Accept
    <3>2. CASE p # "unserializable"
      BY <1>4, <3>2, BeginType DEF Accept
    <3>3. QED
      BY <3>1, <3>2
  <2>4. QED
    BY <1>4, <2>2, <2>3 DEF Accept, registryVars
<1>5. CASE HopTimesOut
  <2>1. /\ trace' \in Seq(TraceEntry) /\ Len(trace') = Len(trace) + 1
    BY <1>5 DEF HopTimesOut, Traced, TraceEntry
  <2>2. received' \in 0..Len(trace') /\ "timeout" \in Statuses
    BY <1>5, <2>1 DEF HopTimesOut, Statuses
  <2>3. QED
    BY <1>5, <2>1, <2>2, EndType DEF HopTimesOut, registryVars
<1>6. CASE HopUnknown
  BY <1>6, EndType DEF HopUnknown, registryVars, packetVars, Statuses
<1>7. CASE MaxHopsExceeded
  BY <1>7, EndType DEF MaxHopsExceeded, registryVars, packetVars, Statuses
<1>8. CASE HopCompletes
  <2>1. PICK s \in Statuses : Succeed(s, hops')
    BY <1>8 DEF HopCompletes
  <2>2. /\ hops' \in Seq(Nodes) /\ Len(hops') <= MaxHops
        /\ trace' \in Seq(TraceEntry) /\ Len(trace') = Len(trace) + 1
    BY <1>8, HopType DEF HopCompletes
  <2>3. /\ pc' \in {"idle", "routing"} /\ answer' \in Statuses \cup {"escaped", None}
        /\ metrics' \in Counters
        /\ tally' \in Outcomes
    BY <2>1, <2>2, SuccessType
  <2>4. received' \in 0..Len(trace')
    BY <1>8, <2>2 DEF HopCompletes, Hop
  <2>5. QED
    BY <1>8, <2>2, <2>3, <2>4 DEF HopCompletes, Hop, registryVars
<1>9. ASSUME NEW a \in Actions, NEW p \in Payloads, HopForwards(a, p) PROVE TypeOK'
  <2>1. /\ hops' \in Seq(Nodes) /\ Len(hops') <= MaxHops
        /\ trace' \in Seq(TraceEntry) /\ Len(trace') = Len(trace) + 1
    BY <1>9, HopType DEF HopForwards
  <2>2. QED
    BY <1>9, <2>1 DEF HopForwards, Hop, registryVars, ClientPayloads
<1>10. ASSUME NEW s \in {"error", "rejected"}, HopRefuses(s) PROVE TypeOK'
  <2>1. hops' \in Seq(Nodes) /\ Len(hops') <= MaxHops
    BY <1>10, HopType DEF HopRefuses
  <2>2. QED
    BY <1>10, <2>1, EndType DEF HopRefuses, Hop, registryVars, Statuses
<1>11. CASE HopCrashes
  <2>1. /\ hops' \in Seq(Nodes) /\ Len(hops') <= MaxHops
        /\ trace' \in Seq(TraceEntry) /\ Len(trace') = Len(trace) + 1
    BY <1>11, HopType DEF HopCrashes
  <2>2. received' \in 0..Len(trace') /\ "error" \in Statuses
    BY <1>11, <2>1 DEF HopCrashes, Hop, Statuses
  <2>3. QED
    BY <1>11, <2>1, <2>2, EndType DEF HopCrashes, Hop, registryVars
<1>12. CASE UNCHANGED vars
  BY <1>12 DEF vars
<1> HIDE DEF TypeOK, Counters, Outcomes
<1>13. QED
  BY <1>1, <1>2, <1>3, <1>4, <1>5, <1>6, <1>7, <1>8, <1>9, <1>10, <1>11, <1>12 DEF Next, RouterTurn

\* The runtime keeps its types: the hops of a route stay within max_hops, the
\* trace only grows, and every packet in it came from the client's.
THEOREM RuntimeTypeCorrect == Spec => []TypeOK
<1>1. Init => TypeOK
  BY BoundsAssumption DEF Init, TypeOK, ClientPayloads
<1>2. QED
  BY <1>1, RuntimeTypeStep, PTL DEF Spec

\* A call of execute() that had m counted when it ended is counted once more.
CountedUpTo(m) ==
  /\ m.request_count = tally.ok + tally.failed + tally.escaped + 1
  /\ m.action_errors = tally.failed
  /\ m.node_hop_count_total = tally.hops

LEMMA FailAddsUp ==
  ASSUME TypeOK, NEW s \in Statuses, NEW m \in Counters, CountedUpTo(m), Fail(s, m)
  PROVE  MetricsAddUp'
<1>1. /\ metrics'.request_count = m.request_count
      /\ metrics'.action_errors = m.action_errors + 1
      /\ metrics'.node_hop_count_total = m.node_hop_count_total
  BY DEF Fail, ErrorsCounted, Counters
<1>2. /\ tally'.ok = tally.ok /\ tally'.failed = tally.failed + 1
      /\ tally'.escaped = tally.escaped /\ tally'.hops = tally.hops
      /\ tally.ok \in Nat /\ tally.failed \in Nat /\ tally.escaped \in Nat
  BY DEF Fail, TypeOK
<1>3. pc' = "idle"
  BY DEF Fail
<1>4. QED
  BY <1>1, <1>2, <1>3 DEF MetricsAddUp, CountedUpTo

LEMMA EscapeAddsUp ==
  ASSUME TypeOK, NEW m \in Counters, CountedUpTo(m), Escape(m)
  PROVE  MetricsAddUp'
<1>1. /\ tally'.ok = tally.ok /\ tally'.failed = tally.failed
      /\ tally'.escaped = tally.escaped + 1 /\ tally'.hops = tally.hops
      /\ tally.ok \in Nat /\ tally.failed \in Nat /\ tally.escaped \in Nat
  BY DEF Escape, TypeOK
<1>2. QED
  BY <1>1 DEF Escape, MetricsAddUp, CountedUpTo

LEMMA SuccessAddsUp ==
  ASSUME TypeOK, NEW s \in Statuses, NEW visited \in Seq(Nodes), CountedUpTo(metrics),
         Succeed(s, visited)
  PROVE  MetricsAddUp'
<1>1. /\ metrics'.request_count = metrics.request_count
      /\ metrics'.action_errors = metrics.action_errors
      /\ metrics'.node_hop_count_total = metrics.node_hop_count_total + Len(visited)
  BY DEF Succeed, TypeOK
<1>2. /\ metrics.request_count \in Nat /\ metrics.action_errors \in Nat /\ Len(visited) \in Nat
      /\ tally.ok \in Nat /\ tally.failed \in Nat /\ tally.escaped \in Nat /\ tally.hops \in Nat
  BY DEF TypeOK
<1>3. /\ tally'.failed = tally.failed /\ tally'.hops = tally.hops + Len(visited)
      /\ \/ tally'.ok = tally.ok /\ tally'.escaped = tally.escaped + 1
         \/ tally'.ok = tally.ok + 1 /\ tally'.escaped = tally.escaped
  <2>1. CASE client = "null"
    <3>1. tally' = [tally EXCEPT !.escaped = @ + 1, !.hops = @ + Len(visited)]
      BY <2>1 DEF Succeed
    <3>2. QED
      BY <3>1 DEF TypeOK
  <2>2. CASE client # "null"
    <3>1. tally' = [tally EXCEPT !.ok = @ + 1, !.hops = @ + Len(visited)]
      BY <2>2 DEF Succeed
    <3>2. QED
      BY <3>1 DEF TypeOK
  <2>3. QED
    BY <2>1, <2>2
<1>4. pc' = "idle"
  BY DEF Succeed
<1>5. tally'.ok + tally'.failed + tally'.escaped = tally.ok + tally.failed + tally.escaped + 1
  <2>1. \A a, b, c \in Nat : (a + 1) + b + c = a + b + c + 1 /\ a + b + (c + 1) = a + b + c + 1
    OBVIOUS
  <2>2. CASE tally'.ok = tally.ok /\ tally'.escaped = tally.escaped + 1
    BY <2>2, <1>2, <1>3, <2>1
  <2>3. CASE tally'.ok = tally.ok + 1 /\ tally'.escaped = tally.escaped
    BY <2>3, <1>2, <1>3, <2>1
  <2>4. QED
    BY <1>3, <2>2, <2>3
<1>6. QED
  BY <1>1, <1>2, <1>3, <1>4, <1>5 DEF MetricsAddUp, CountedUpTo

\* Whatever becomes of a request (a refusal, a route that ends well or badly, a
\* handler that raises, a payload that cannot be hashed or read), the counters
\* of the runtime account for it once (orchestrator.py, execute()).
THEOREM RuntimeMetricsAddUp == Spec => []MetricsAddUp
<1>1. Init => MetricsAddUp
  BY DEF Init, MetricsAddUp
<1>2. TypeOK /\ MetricsAddUp /\ [Next]_vars => MetricsAddUp'
  <2> SUFFICES ASSUME TypeOK, MetricsAddUp, [Next]_vars PROVE MetricsAddUp'
    OBVIOUS
  <2>0. metrics \in Counters /\ tally \in Outcomes
    BY DEF TypeOK, Counters, Outcomes
  <2>1. ASSUME UNCHANGED <<pc, metrics, tally>> PROVE MetricsAddUp'
    BY <2>1 DEF MetricsAddUp
  <2>2. NextRequest => CountedUpTo(Counted)
    BY <2>0 DEF NextRequest, MetricsAddUp, CountedUpTo, Counted, Counters, Outcomes
  <2>3. pc = "routing" => CountedUpTo(metrics)
    BY DEF MetricsAddUp, CountedUpTo
  <2>4. CASE Reject
    BY <2>4, <2>2, BeginType, FailAddsUp DEF Reject, Statuses
  <2>5. ASSUME NEW a \in Actions, NEW p \in ClientPayloads, Accept(a, p) PROVE MetricsAddUp'
    <3>1. CASE p = "unserializable"
      BY <2>5, <3>1, <2>2, BeginType, EscapeAddsUp DEF Accept
    <3>2. CASE p # "unserializable"
      <4>1. CountedUpTo(metrics') /\ UNCHANGED tally /\ pc' = "routing"
        BY <2>5, <3>2, <2>2 DEF Accept
      <4>2. QED
        BY <4>1 DEF MetricsAddUp, CountedUpTo
    <3>3. QED
      BY <3>1, <3>2
  <2>6. CASE HopTimesOut
    BY <2>6, <2>0, <2>3, FailAddsUp DEF HopTimesOut, Statuses
  <2>7. CASE HopUnknown
    BY <2>7, <2>0, <2>3, FailAddsUp DEF HopUnknown, Statuses
  <2>8. CASE MaxHopsExceeded
    BY <2>8, <2>0, <2>3, FailAddsUp DEF MaxHopsExceeded, Statuses
  <2>9. CASE HopCompletes
    <3>1. hops' \in Seq(Nodes) /\ pc = "routing"
      BY <2>9, HopType DEF HopCompletes, Hop
    <3>2. QED
      BY <2>9, <3>1, <2>3, SuccessAddsUp DEF HopCompletes
  <2>10. ASSUME NEW s \in {"error", "rejected"}, HopRefuses(s) PROVE MetricsAddUp'
    BY <2>10, <2>0, <2>3, FailAddsUp DEF HopRefuses, Hop, Statuses
  <2>11. CASE HopCrashes
    BY <2>11, <2>0, <2>3, FailAddsUp DEF HopCrashes, Hop, Statuses
  <2>12. QED
    BY <2>1, <2>4, <2>5, <2>6, <2>7, <2>8, <2>9, <2>10, <2>11
       DEF Next, RouterTurn, RegisterAction, ValidateStartup, HopForwards, requestVars, vars
<1>3. QED
  BY <1>1, <1>2, RuntimeTypeCorrect, PTL DEF Spec

-----------------------------------------------------------------------------
\* While a packet is on its way, its trace is what came with it and one entry
\* of the node for every hop, and no answer has been given.
RouteTraced ==
  pc = "routing" =>
    /\ answer = None
    /\ Len(trace) = received + Len(hops)
    /\ \A k \in 1..Len(hops) :
         trace[received + k].node = hops[k] /\ trace[received + k].status = "forwarded"

RouteInv == TypeOK /\ RouteTraced /\ TraceExplainsRoute

\* A hop that is traced adds the entry of its node behind those of the others.
LEMMA HopTraced ==
  ASSUME RouteInv, Hop, NEW s \in {"completed", "forwarded", "error"},
         trace' = Traced(actionMap[current], s)
  PROVE  /\ Len(trace') = received' + Len(hops') /\ Len(hops') >= 1
         /\ \A k \in 1..Len(hops') :
              /\ trace'[received' + k].node = hops'[k]
              /\ trace'[received' + k].status = IF k = Len(hops') THEN s ELSE "forwarded"
<1> DEFINE e == [node |-> actionMap[current], action |-> current, status |-> s]
<1>1. /\ trace \in Seq(TraceEntry) /\ hops \in Seq(Nodes)
      /\ received \in Nat /\ Len(hops) \in Nat /\ Len(trace) = received + Len(hops)
      /\ \A k \in 1..Len(hops) :
           trace[received + k].node = hops[k] /\ trace[received + k].status = "forwarded"
  BY DEF RouteInv, RouteTraced, Hop, TypeOK
<1>2. trace' = Append(trace, e) /\ hops' = Append(hops, actionMap[current]) /\ received' = received
  BY DEF Traced, Hop
<1>3. /\ Len(trace') = Len(trace) + 1 /\ Len(hops') = Len(hops) + 1
      /\ \A k \in 1..Len(hops) : hops'[k] = hops[k] /\ trace'[received + k] = trace[received + k]
      /\ hops'[Len(hops) + 1] = actionMap[current] /\ trace'[Len(trace) + 1] = e
  <2>1. actionMap[current] \in Nodes
    BY RegistryAssumption, NoneAssumption DEF RouteInv, TypeOK, Hop, Known, Mapped
  <2>2. e \in TraceEntry
    BY <2>1 DEF RouteInv, TypeOK, TraceEntry
  <2> HIDE DEF e
  <2>3. /\ Len(trace') = Len(trace) + 1 /\ trace'[Len(trace) + 1] = e
        /\ \A j \in 1..Len(trace) : trace'[j] = trace[j]
    BY <1>1, <1>2, <2>2
  <2>4. /\ Len(hops') = Len(hops) + 1 /\ hops'[Len(hops) + 1] = actionMap[current]
        /\ \A k \in 1..Len(hops) : hops'[k] = hops[k]
    BY <1>1, <1>2, <2>1
  <2>5. \A k \in 1..Len(hops) : received + k \in 1..Len(trace)
    BY <1>1
  <2>6. QED
    BY <2>3, <2>4, <2>5
<1>4. ASSUME NEW k \in 1..Len(hops')
      PROVE  /\ trace'[received' + k].node = hops'[k]
             /\ trace'[received' + k].status = IF k = Len(hops') THEN s ELSE "forwarded"
  <2>1. CASE k = Len(hops) + 1
    BY <2>1, <1>1, <1>2, <1>3
  <2>2. CASE k # Len(hops) + 1
    <3>1. k \in 1..Len(hops) /\ k # Len(hops')
      BY <2>2, <1>1, <1>3
    <3>2. QED
      BY <3>1, <1>1, <1>2, <1>3
  <2>3. QED
    BY <2>1, <2>2
<1>5. Len(trace') = received' + Len(hops') /\ Len(hops') >= 1
  BY <1>1, <1>2, <1>3
<1>6. QED
  BY <1>4, <1>5

\* An answer that is not a success, or none, has nothing to explain.
LEMMA OtherAnswers ==
  ASSUME pc' = "idle", answer' \in {"error", "rejected", "timeout", "escaped"}
  PROVE  RouteTraced' /\ TraceExplainsRoute'
  BY DEF RouteTraced, TraceExplainsRoute

LEMMA RouteStep == RouteInv /\ [Next]_vars => RouteInv'
<1> SUFFICES ASSUME RouteInv, [Next]_vars PROVE RouteTraced' /\ TraceExplainsRoute'
  BY RuntimeTypeStep DEF RouteInv
<1>1. ASSUME UNCHANGED <<pc, answer, trace, received, hops>>
      PROVE  RouteTraced' /\ TraceExplainsRoute'
  BY <1>1 DEF RouteInv, RouteTraced, TraceExplainsRoute
<1>2. CASE Reject
  BY <1>2, OtherAnswers DEF Reject, Fail
<1>3. ASSUME NEW a \in Actions, NEW p \in ClientPayloads, Accept(a, p)
      PROVE  RouteTraced' /\ TraceExplainsRoute'
  <2>1. CASE p = "unserializable"
    BY <1>3, <2>1, OtherAnswers DEF Accept, Escape
  <2>2. CASE p # "unserializable"
    <3>1. answer' = None /\ hops' = <<>> /\ received' = Len(trace')
      BY <1>3, <2>2 DEF Accept
    <3>2. Len(trace') \in Nat
      BY <1>3 DEF Accept, Upstream
    <3>3. QED
      BY <3>1, <3>2, AnswerAssumption DEF RouteTraced, TraceExplainsRoute, Statuses
  <2>3. QED
    BY <2>1, <2>2
<1>4. CASE HopTimesOut
  BY <1>4, OtherAnswers DEF HopTimesOut, Fail
<1>5. CASE HopUnknown
  BY <1>5, OtherAnswers DEF HopUnknown, Fail
<1>6. CASE MaxHopsExceeded
  BY <1>6, OtherAnswers DEF MaxHopsExceeded, Fail
<1>7. CASE HopCompletes
  <2>1. pc' = "idle"
    BY <1>7 DEF HopCompletes, Succeed
  <2>2. hops' \in Seq(Nodes)
    BY <1>7, HopType DEF HopCompletes, RouteInv
  <2>3. QED
    BY <1>7, <2>1, <2>2, HopTraced DEF HopCompletes, RouteTraced, TraceExplainsRoute
<1>8. ASSUME NEW a \in Actions, NEW p \in Payloads, HopForwards(a, p)
      PROVE  RouteTraced' /\ TraceExplainsRoute'
  <2>1. pc' = "routing" /\ answer' = None
    BY <1>8 DEF HopForwards, Hop, RouteInv, RouteTraced
  <2>2. /\ Len(trace') = received' + Len(hops')
        /\ \A k \in 1..Len(hops') :
             trace'[received' + k].node = hops'[k] /\ trace'[received' + k].status = "forwarded"
    BY <1>8, HopTraced DEF HopForwards
  <2>3. QED
    BY <2>1, <2>2, AnswerAssumption DEF RouteTraced, TraceExplainsRoute, Statuses
<1>9. ASSUME NEW s \in {"error", "rejected"}, HopRefuses(s)
      PROVE  RouteTraced' /\ TraceExplainsRoute'
  BY <1>9, OtherAnswers DEF HopRefuses, Fail
<1>10. CASE HopCrashes
  BY <1>10, OtherAnswers DEF HopCrashes, Fail
<1>11. QED
  BY <1>1, <1>2, <1>3, <1>4, <1>5, <1>6, <1>7, <1>8, <1>9, <1>10
     DEF Next, RouterTurn, RegisterAction, ValidateStartup, requestVars, packetVars, vars

\* A successful answer comes with a trace that names the nodes of its route in
\* their order, behind whatever other constellations had traced before.
THEOREM RuntimeTraceExplainsRoute == Spec => []TraceExplainsRoute
<1>1. Init => RouteInv
  <2> SUFFICES ASSUME Init PROVE RouteInv
    OBVIOUS
  <2>1. TypeOK
    BY BoundsAssumption DEF Init, TypeOK, ClientPayloads
  <2>2. QED
    BY <2>1, AnswerAssumption DEF Init, RouteInv, RouteTraced, TraceExplainsRoute, Statuses
<1>2. QED
  BY <1>1, RouteStep, PTL DEF Spec, RouteInv

-----------------------------------------------------------------------------
(* The client and the node *)

\* A client that sleeps has an attempt left.
ClientInv == ClientTypeOK /\ (at = "sleeping" => attempt < Retries)

LEMMA ReplyType ==
  ASSUME ClientTypeOK, NEW post \in Posts, NEW a \in Answers, Reply(post, a)
  PROVE  replies' \in SUBSET [to : Posts, answer : Answers]
  BY DEF Reply, ClientTypeOK

LEMMA ClientTypeStep == ClientInv /\ [ClientNext]_clientVars => ClientInv'
<1> SUFFICES ASSUME ClientInv, [ClientNext]_clientVars PROVE ClientInv'
  OBVIOUS
<1> USE RetriesAssumption, CallsAssumption DEF ClientInv, ClientTypeOK
<1>0. Current \in Posts
  BY DEF Current, Posts
<1>1. CASE Post
  BY <1>1, <1>0 DEF Post, choice, nodeVars
<1>2. CASE Sleep
  BY <1>2 DEF Sleep, choice, nodeVars
<1>3. CASE TimesOut
  BY <1>3 DEF TimesOut, NextAttempt, choice, nodeVars
<1>4. CASE ConnectionFails
  BY <1>4 DEF ConnectionFails, NextAttempt, choice, nodeVars
<1>5. ASSUME NEW r \in replies, Receive(r) PROVE ClientInv'
  <2>1. /\ at' \in {"response", "failure", "raised", "sleeping"}
        /\ at' = "sleeping" => attempt < Retries
    BY <1>5 DEF Receive, NextAttempt, Outcome
  <2>2. QED
    BY <1>5, <2>1, <1>0 DEF Receive, choice, nodeVars
<1>6. CASE CallAgain
  BY <1>6 DEF CallAgain, choice, nodeVars
<1>7. ASSUME NEW post \in Posts, Deliver(post) PROVE ClientInv'
  <2>1. replies' \in SUBSET [to : Posts, answer : Answers] /\ running' \subseteq Posts
    BY <1>7, ReplyType DEF Deliver, Answers
  <2>2. QED
    BY <1>7, <2>1 DEF Deliver, choice
<1>8. ASSUME NEW post \in Posts, NEW well \in BOOLEAN, HandlerEnds(post, well) PROVE ClientInv'
  <2>1. replies' \in SUBSET [to : Posts, answer : Answers]
    BY <1>8, ReplyType DEF HandlerEnds, Answers
  <2>2. running' \subseteq Posts /\ executed' \subseteq Posts
    BY <1>8 DEF HandlerEnds
  <2>3. QED
    BY <1>8, <2>1, <2>2 DEF HandlerEnds, choice
<1>9. CASE UNCHANGED clientVars
  BY <1>9 DEF clientVars
<1> HIDE DEF ClientInv, ClientTypeOK
<1>10. QED
  BY <1>1, <1>2, <1>3, <1>4, <1>5, <1>6, <1>7, <1>8, <1>9 DEF ClientNext, ClientStep

LEMMA ClientInvInit == ClientInit => ClientInv
  BY RetriesAssumption, CallsAssumption DEF ClientInit, ClientInv, ClientTypeOK

\* The clients keep their types: no attempt is made beyond the retries, and no
\* call beyond those of the caller.
THEOREM ClientTypeCorrect == ClientSpec => []ClientTypeOK
  BY ClientInvInit, ClientTypeStep, PTL DEF ClientSpec, ClientInv

-----------------------------------------------------------------------------
\* What the node has begun it has seen: the packet, and the key if there is
\* one; and it has begun one post of a call, and one of a key, at most.
Started == running \cup executed
SeenWhatStarted ==
  /\ \A p \in Started : PacketId(p) \in seen
  /\ keyed => \A p \in Started : IdempotencyKey(p) \in seen \ {<<>>}
  /\ \A p, q \in Started : p.call = q.call => p = q
  /\ keyed => \A p, q \in Started : IdempotencyKey(p) = IdempotencyKey(q) => p = q

OnceInv == ClientInv /\ SeenWhatStarted

LEMMA AtMostOne ==
  ASSUME NEW S, \A x, y \in S : x = y
  PROVE  Cardinality(S) <= 1
<1>1. CASE S = {}
  BY <1>1, FS_EmptySet
<1>2. CASE S # {}
  <2>1. PICK x \in S : TRUE
    BY <1>2
  <2>2. S = {x}
    BY <2>1
  <2>3. QED
    BY <2>2, FS_Singleton
<1>3. QED
  BY <1>1, <1>2

\* A node that accepts a post has begun no other of its call or of its key.
LEMMA AcceptStep ==
  ASSUME SeenWhatStarted, NEW post \in Posts, Accepts(post), UNCHANGED <<choice, executed>>,
         running' = running \cup {post},
         seen' = seen \cup ({PacketId(post), IdempotencyKey(post)} \ {<<>>})
  PROVE  SeenWhatStarted'
<1>1. \A p : PacketId(p)' = PacketId(p) /\ IdempotencyKey(p)' = IdempotencyKey(p)
  BY DEF choice, PacketId, IdempotencyKey
<1>2. Started' = Started \cup {post} /\ seen \subseteq seen' /\ keyed' = keyed
  BY DEF Started, choice
<1>3. PacketId(post) \in seen' /\ PacketId(post) # <<>>
  BY DEF PacketId
<1>4. keyed => IdempotencyKey(post) \in seen' \ {<<>>} /\ IdempotencyKey(post) \notin seen
  BY DEF Accepts
<1>5. \A p \in Started : p.call # post.call
  BY DEF Accepts, SeenWhatStarted, PacketId
<1>6. keyed => \A p \in Started : IdempotencyKey(p) # IdempotencyKey(post)
  BY <1>4 DEF SeenWhatStarted
<1>7. \A p \in Started' : PacketId(p)' \in seen'
  BY <1>1, <1>2, <1>3 DEF SeenWhatStarted
<1>8. keyed' => \A p \in Started' : IdempotencyKey(p)' \in seen' \ {<<>>}
  BY <1>1, <1>2, <1>4 DEF SeenWhatStarted
<1>9. \A p, q \in Started' : p.call = q.call => p = q
  BY <1>2, <1>5 DEF SeenWhatStarted
<1>10. keyed' => \A p, q \in Started' : IdempotencyKey(p)' = IdempotencyKey(q)' => p = q
  BY <1>1, <1>2, <1>6 DEF SeenWhatStarted
<1>11. QED
  BY <1>7, <1>8, <1>9, <1>10 DEF SeenWhatStarted

\* No other step has the node begin a post or forget one.
LEMMA StartedKept ==
  ASSUME SeenWhatStarted, Started' \subseteq Started, UNCHANGED <<choice, seen>>
  PROVE  SeenWhatStarted'
<1>1. \A p : PacketId(p)' = PacketId(p) /\ IdempotencyKey(p)' = IdempotencyKey(p)
  BY DEF choice, PacketId, IdempotencyKey
<1>2. keyed' = keyed /\ seen' = seen
  BY DEF choice
<1>3. QED
  BY <1>1, <1>2 DEF SeenWhatStarted

LEMMA OnceStep == OnceInv /\ [ClientNext]_clientVars => OnceInv'
<1> SUFFICES ASSUME OnceInv, [ClientNext]_clientVars PROVE SeenWhatStarted'
  BY ClientTypeStep DEF OnceInv
<1>1. ASSUME UNCHANGED <<choice, nodeVars>> PROVE SeenWhatStarted'
  BY <1>1, StartedKept DEF OnceInv, Started, nodeVars
<1>2. ASSUME NEW post \in Posts, Deliver(post) PROVE SeenWhatStarted'
  <2>1. CASE Accepts(post)
    BY <1>2, <2>1, AcceptStep DEF Deliver, OnceInv
  <2>2. CASE ~ Accepts(post)
    BY <1>2, <2>2, StartedKept DEF Deliver, OnceInv, Started
  <2>3. QED
    BY <2>1, <2>2
<1>3. ASSUME NEW post \in Posts, NEW well \in BOOLEAN, HandlerEnds(post, well)
      PROVE  SeenWhatStarted'
  BY <1>3, StartedKept DEF HandlerEnds, OnceInv, Started
<1>4. QED
  BY <1>1, <1>2, <1>3 DEF ClientNext, ClientStep, Post, Sleep, TimesOut, ConnectionFails,
     Receive, CallAgain, clientVars, choice, nodeVars

\* However often a call posts its packet, the node begins it once; with a key
\* that the caller of the JavaScript client names, all its calls together.
THEOREM ClientExecutesAtMostOnce == ClientSpec => []ExecutedAtMostOnce
<1>1. ClientInit => OnceInv
  BY ClientInvInit DEF ClientInit, OnceInv, SeenWhatStarted, Started
<1>2. OnceInv => ExecutedAtMostOnce
  <2> SUFFICES ASSUME OnceInv PROVE ExecutedAtMostOnce
    OBVIOUS
  <2>1. ASSUME NEW c \in 1..MaxCalls PROVE Cardinality(Begun(c)) <= 1
    <3>1. \A p, q \in Begun(c) : p = q
      BY DEF Begun, OnceInv, SeenWhatStarted, Started
    <3>2. QED
      BY <3>1, AtMostOne
  <2>2. ASSUME keyed, callerKey PROVE Cardinality(executed) <= 1
    <3>1. \A p \in executed : IdempotencyKey(p) = <<"key">>
      BY <2>2 DEF OnceInv, SeenWhatStarted, Started, IdempotencyKey, ClientInv, ClientTypeOK
    <3>2. \A p, q \in executed : p = q
      BY <2>2, <3>1 DEF OnceInv, SeenWhatStarted, Started
    <3>3. QED
      BY <3>2, AtMostOne
  <2>3. QED
    BY <2>1, <2>2 DEF ExecutedAtMostOnce
<1>3. QED
  BY <1>1, <1>2, OnceStep, PTL DEF ClientSpec

-----------------------------------------------------------------------------
\* Answers are to calls that were made, and while a Python call goes on none
\* of its posts has been answered.
AnswersEndCalls ==
  /\ \A p \in answered : p.call <= call
  /\ language = "python" /\ at \in {"post", "waiting", "sleeping"} =>
       \A p \in answered : p.call # call

LEMMA AnswersStep ==
  ClientInv /\ AnswersEndCalls /\ [ClientNext]_clientVars => AnswersEndCalls'
<1> SUFFICES ASSUME ClientInv, AnswersEndCalls, [ClientNext]_clientVars PROVE AnswersEndCalls'
  OBVIOUS
<1> USE DEF AnswersEndCalls
<1>1. ASSUME UNCHANGED <<choice, call, answered>>, at' \in {"raised", at} \/ at \in {"post", "waiting", "sleeping"}
      PROVE  AnswersEndCalls'
  BY <1>1 DEF choice
<1>2. CASE Post \/ Sleep \/ TimesOut \/ ConnectionFails
  BY <1>2, <1>1 DEF Post, Sleep, TimesOut, ConnectionFails, choice, nodeVars
<1>3. ASSUME NEW r \in replies, Receive(r) PROVE AnswersEndCalls'
  <2>1. \A p \in answered' : p.call <= call'
    BY <1>3, CallsAssumption DEF Receive, Current, ClientInv, ClientTypeOK
  <2>2. language = "python" => at' \in {"response", "failure", "raised"}
    BY <1>3 DEF Receive, RetriesAnswer, Outcome
  <2>3. QED
    BY <1>3, <2>1, <2>2 DEF Receive, choice
<1>4. CASE CallAgain
  <2>1. \A p \in answered : p.call \in Nat
    BY CallsAssumption DEF ClientInv, ClientTypeOK, Posts
  <2>2. QED
    BY <1>4, <2>1, CallsAssumption DEF CallAgain, ClientInv, ClientTypeOK
<1>5. ASSUME NEW post \in Posts, Deliver(post) \/ \E well \in BOOLEAN : HandlerEnds(post, well)
      PROVE  AnswersEndCalls'
  BY <1>5, <1>1 DEF Deliver, HandlerEnds
<1>6. CASE UNCHANGED clientVars
  BY <1>6, <1>1 DEF clientVars, choice
<1>7. QED
  BY <1>2, <1>3, <1>4, <1>5, <1>6 DEF ClientNext, ClientStep

\* A Python call that has had an answer posts no more.
THEOREM ClientAnsweredIsOver == ClientSpec => AnsweredIsOver
<1>1. ClientInit => ClientInv /\ AnswersEndCalls
  BY ClientInvInit DEF ClientInit, AnswersEndCalls
<1>2. AnswersEndCalls /\ [ClientNext]_clientVars
        => [language = "python" /\ wire' # wire /\ at = "post"
              => \A p \in answered : p.call # call]_clientVars
  BY DEF AnswersEndCalls
<1>3. QED
  BY <1>1, <1>2, ClientTypeStep, AnswersStep, PTL DEF ClientSpec, AnsweredIsOver
=============================================================================
