--------------------------- MODULE Constellation ---------------------------
(***************************************************************************)
(* The packet runtime of a node: chassis/action_registry.py (which node    *)
(* and handler serve an action), chassis/orchestrator.py (validation at    *)
(* startup, execute() and its metrics), chassis/router.py (the hops of a   *)
(* packet) and the content hash of chassis/types.py.                       *)
(*                                                                         *)
(* The runtime is synchronous: one request at a time.  A step is a call    *)
(* of execute() up to the router's loop, or one turn of that loop.         *)
(*                                                                         *)
(* External: the node registry (constellation.node_registry is not in the  *)
(* repository) and the handlers, which may return a TerminalResult, a      *)
(* packet to forward, a plain value, or raise.                             *)
(***************************************************************************)
EXTENDS Naturals, Sequences, SequencesExt

CONSTANTS Actions,      \* action names
          Nodes,        \* node names that handlers may be registered for
          NodeRegistry, \* the nodes of the external registry
          Supports,     \* Supports[n]: supported_actions of a registered node
          Payloads,     \* payloads
          MaxHops,      \* max_hops of route_packet
          MaxRequests,  \* bound: requests
          None

ASSUME RegistryAssumption ==
  NodeRegistry \subseteq Nodes /\ Supports \in [NodeRegistry -> SUBSET Actions]
ASSUME BoundsAssumption == MaxHops \in Nat \ {0} /\ MaxRequests \in Nat
ASSUME NoneAssumption == None \notin Actions \cup Nodes \cup Payloads

VARIABLES
  phase,       \* "registering", "up" or "refused"
  actionMap,   \* ACTION_MAP: action -> node, or None
  handlers,    \* keys of _HANDLERS
  pc,          \* "idle" or "routing"
  client,      \* the payload the client sent
  current,     \* current_action of the router
  payload, hashed, trace,  \* the packet: its payload, what content_hash covers
  received,    \* length of the trace that came with the request
  hops,        \* nodes visited
  answer,      \* status of the last response; "escaped" if execute() raised
  metrics,     \* _METRICS, the counters that count
  tally        \* history: responses by kind, and the hops of the successes

vars == <<phase, actionMap, handlers, pc, client, current, payload, hashed,
          trace, received, hops, answer, metrics, tally>>
registryVars == <<phase, actionMap, handlers>>

Statuses == {"success", "partial", "error", "rejected", "timeout"}
ASSUME AnswerAssumption == None \notin Statuses   \* Python's None is no status

\* A client may send JSON null, or a value json.dumps refuses; a dict
\* otherwise, told apart by name.
ClientPayloads == Payloads \cup {"null", "unserializable"}

TraceEntry == [node : Nodes \cup {"router"}, action : Actions,
               status : {"completed", "forwarded", "error", "timeout"}]

TypeOK ==
  /\ phase \in {"registering", "up", "refused"}
  /\ actionMap \in [Actions -> Nodes \cup {None}]
  /\ handlers \subseteq Actions
  /\ pc \in {"idle", "routing"}
  /\ {client, payload, hashed} \subseteq ClientPayloads
  /\ current \in Actions
  /\ trace \in Seq(TraceEntry) /\ received \in 0..Len(trace)
  /\ hops \in Seq(Nodes) /\ Len(hops) <= MaxHops
  /\ answer \in Statuses \cup {"escaped", None}
  /\ metrics \in [request_count : Nat, action_errors : Nat, node_hop_count_total : Nat]
  /\ tally \in [ok : Nat, failed : Nat, escaped : Nat, hops : Nat]

Init ==
  /\ phase = "registering"
  /\ actionMap = [a \in Actions |-> None]
  /\ handlers = {}
  /\ pc = "idle"
  /\ \E a \in Actions, p \in Payloads :
       current = a /\ client = p /\ payload = p /\ hashed = p
  /\ trace = <<>> /\ received = 0 /\ hops = <<>>
  /\ answer = None
  /\ metrics = [request_count |-> 0, action_errors |-> 0, node_hop_count_total |-> 0]
  /\ tally = [ok |-> 0, failed |-> 0, escaped |-> 0, hops |-> 0]

packetVars == <<client, current, payload, hashed, trace, received, hops>>
requestVars == <<pc, packetVars, answer, metrics, tally>>

-----------------------------------------------------------------------------
(* Registration and validation.  (Names ending in _Mut: plausible bugs.)     *)

\* @register_action(a), or register_action(a, fn): node and handler; with a
\* node name instead of a function, the node only.
RegisterAction(a, n, withHandler) ==
  /\ phase = "registering" /\ actionMap[a] = None
  /\ actionMap' = [actionMap EXCEPT ![a] = n]
  /\ handlers' = IF withHandler THEN handlers \cup {a} ELSE handlers
  /\ UNCHANGED <<phase, requestVars>>

Mapped == {a \in Actions : actionMap[a] # None}

\* validate_startup() finds no error.
StartupValid ==
  /\ Mapped # {} /\ NodeRegistry # {}
  /\ \A a \in Mapped : actionMap[a] \in NodeRegistry
  /\ \A n \in NodeRegistry : Supports[n] \subseteq Mapped

ValidateStartup ==
  /\ phase = "registering"
  /\ phase' = IF StartupValid THEN "up" ELSE "refused"
  /\ UNCHANGED <<actionMap, handlers, requestVars>>

-----------------------------------------------------------------------------
(* How execute() ends *)

\* except ConstellationError
ErrorsCounted_Mut(m) == m
ErrorsCounted(m) == [m EXCEPT !.action_errors = @ + 1]

Fail(status, m) ==
  /\ pc' = "idle"
  /\ answer' = status
  /\ metrics' = ErrorsCounted(m)
  /\ tally' = [tally EXCEPT !.failed = @ + 1]

\* Another exception leaves execute(): no response, no error counted.
Escape(m) ==
  /\ pc' = "idle"
  /\ answer' = "escaped"
  /\ metrics' = m
  /\ tally' = [tally EXCEPT !.escaped = @ + 1]

\* route_packet returned; reading "_cost" from a null payload raises after
\* the hops have been counted.
Succeed(status, visited) ==
  LET m == [metrics EXCEPT !.node_hop_count_total = @ + Len(visited)]
  IN  /\ IF client = "null"
           THEN /\ answer' = "escaped"
                /\ tally' = [tally EXCEPT !.escaped = @ + 1, !.hops = @ + Len(visited)]
           ELSE /\ answer' = status
                /\ tally' = [tally EXCEPT !.ok = @ + 1, !.hops = @ + Len(visited)]
      /\ metrics' = m
      /\ pc' = "idle"

-----------------------------------------------------------------------------
(* execute() up to the router *)

Counted == [metrics EXCEPT !.request_count = @ + 1]

NextRequest == phase = "up" /\ pc = "idle" /\ metrics.request_count < MaxRequests

\* Unknown domain, unknown or missing action.
Reject ==
  /\ NextRequest
  /\ Fail("rejected", Counted)
  /\ UNCHANGED <<registryVars, packetVars>>

\* The trace of a packet that other constellations have routed.
Upstream(a) == <<[node |-> "router", action |-> a, status |-> "forwarded"]>>

\* normalize_packet: the packet takes the trace and the payload, and is hashed.
Accept(a, p) ==
  /\ NextRequest /\ a \in Mapped
  /\ current' = a /\ client' = p /\ payload' = p /\ hashed' = p
  /\ trace' \in {<<>>, Upstream(a)} /\ received' = Len(trace')
  /\ hops' = <<>>
  /\ IF p = "unserializable"
       THEN Escape(Counted)
       ELSE /\ pc' = "routing" /\ answer' = None /\ metrics' = Counted
            /\ UNCHANGED tally
  /\ UNCHANGED registryVars

-----------------------------------------------------------------------------
(* route_packet: one turn of its loop *)

HopsLeft == Len(hops) < MaxHops

\* append_trace
TraceReset_Mut(node, status) == <<[node |-> node, action |-> current, status |-> status]>>
Traced(node, status) == Append(trace, [node |-> node, action |-> current, status |-> status])

\* The timeout is looked at between hops only.
HopTimesOut ==
  /\ pc = "routing" /\ HopsLeft
  /\ trace' = Traced("router", "timeout")
  /\ Fail("timeout", metrics)
  /\ UNCHANGED <<registryVars, client, current, payload, hashed, received, hops>>

\* resolve_initial_node, get_node and get_action_handler all succeed.
Known(a) == a \in Mapped \cap handlers /\ actionMap[a] \in NodeRegistry

\* One of them raises.
HopUnknown ==
  /\ pc = "routing" /\ HopsLeft /\ ~Known(current)
  /\ Fail("rejected", metrics)
  /\ UNCHANGED <<registryVars, packetVars>>

MaxHopsForgotten_Mut == pc = "routing" /\ ~HopsLeft /\ UNCHANGED vars
MaxHopsExceeded ==
  /\ pc = "routing" /\ ~HopsLeft
  /\ Fail("error", metrics)
  /\ UNCHANGED <<registryVars, packetVars>>

\* The handler of the current action runs at its node.
Hop ==
  /\ pc = "routing" /\ HopsLeft /\ Known(current)
  /\ hops' = Append(hops, actionMap[current])
  /\ UNCHANGED <<registryVars, client, hashed, received>>

\* It returns a TerminalResult, of any status, or a plain value.
HopCompletes ==
  /\ Hop
  /\ trace' = Traced(actionMap[current], "completed")
  /\ \E s \in Statuses : Succeed(s, hops')
  /\ UNCHANGED <<current, payload>>

\* It returns a packet: the loop goes on with its action, and its payload is
\* put into the packet of the request.
HopForwards(a, p) ==
  /\ Hop
  /\ trace' = Traced(actionMap[current], "forwarded")
  /\ current' = a
  /\ payload' = p
  /\ UNCHANGED <<pc, answer, metrics, tally>>

\* It raises: a ConstellationError as it is, untraced, or something else.
HopRefuses(s) ==
  /\ Hop
  /\ Fail(s, metrics)
  /\ UNCHANGED <<current, payload, trace>>

HopCrashes ==
  /\ Hop
  /\ trace' = Traced(actionMap[current], "error")
  /\ Fail("error", metrics)
  /\ UNCHANGED <<current, payload>>

RouterTurn ==
  \/ HopTimesOut \/ HopUnknown \/ MaxHopsExceeded
  \/ HopCompletes \/ HopCrashes
  \/ \E a \in Actions, p \in Payloads : HopForwards(a, p)
  \/ \E s \in {"error", "rejected"} : HopRefuses(s)

Next ==
  \/ \E a \in Actions, n \in Nodes, h \in BOOLEAN : RegisterAction(a, n, h)
  \/ ValidateStartup
  \/ Reject \/ \E a \in Actions, p \in ClientPayloads : Accept(a, p)
  \/ RouterTurn

Spec == Init /\ [][Next]_vars
\* The router's loop runs, and handlers return: it has no preemption.
RouterFairness == WF_vars(RouterTurn)
FairSpec == Spec /\ RouterFairness

-----------------------------------------------------------------------------
(* Correctness *)

\* The metrics account for every request: it was answered, was counted as an
\* error, or raised; the hop counter counts exactly the routes that returned.
MetricsAddUp ==
  /\ metrics.request_count =
       tally.ok + tally.failed + tally.escaped + (IF pc = "routing" THEN 1 ELSE 0)
  /\ metrics.action_errors = tally.failed
  /\ metrics.node_hop_count_total = tally.hops

\* A route that returned is explained by what it added to the packet's trace,
\* node by node: forwarded at each but the last, where it completed.
TraceExplainsRoute ==
  answer \in {"success", "partial"} =>
    /\ Len(trace) = received + Len(hops)
    /\ \A k \in DOMAIN hops :
         /\ trace[received + k].node = hops[k]
         /\ trace[received + k].status = IF k = Len(hops) THEN "completed" ELSE "forwarded"

\* Nodes that forward a packet in circles do not keep it: every route ends.
RouteEnds == pc = "routing" ~> pc = "idle"
=============================================================================
