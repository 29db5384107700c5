---------------------------- MODULE ExecuteClient ----------------------------
(***************************************************************************)
(* client/execute_client.py and client/js/executeClient.ts: a caller has   *)
(* one job done by a node, by POST /v1/execute of a signed packet.  A call *)
(* of execute() posts its packet up to Retries + 1 times; when it raises,  *)
(* the caller may call again for the same job.                             *)
(*                                                                         *)
(* External, from contracts/conformant_node_contract.yaml: the node, which *)
(* rejects a packet it has received before (line 40) and, for actions that *)
(* are configured so, one without an idempotency key or with a known one   *)
(* (line 39); and the network, where a request may come late or never, and *)
(* a reply only reaches a client that still waits for it.                  *)
(***************************************************************************)
EXTENDS Naturals, FiniteSets

CONSTANTS Retries,    \* self.retries
          MaxCalls    \* bound: calls of execute() for the job

ASSUME RetriesAssumption == Retries \in Nat
ASSUME CallsAssumption == MaxCalls \in Nat \ {0}

VARIABLES
  language,   \* the client's: "python" or "javascript"
  callerKey,  \* do the caller's options name an idempotency key?
  keyed,      \* must packets of this action carry a key?
  call, attempt, at, \* where the current call of execute() stands
  wire,       \* posts on their way to the node
  seen,       \* packets and keys the node has received
  running,    \* posts whose handler runs
  executed,   \* posts whose handler has ended well
  replies,    \* answers on their way back
  answered    \* history: posts the client had an HTTP answer to

clientVars == <<language, callerKey, keyed, call, attempt, at, wire, seen, running, executed,
          replies, answered>>
choice == <<language, callerKey, keyed>>
nodeVars == <<seen, running, executed>>

Posts == [call : 1..MaxCalls, attempt : 0..Retries]
Current == [call |-> call, attempt |-> attempt]

\* Answers: 200 with a response packet or with a packet of another type, 200
\* with something else, or an HTTP error.
Answers == {"response", "failure", "garbage", "error"}

ClientTypeOK ==
  /\ language \in {"python", "javascript"} /\ callerKey \in BOOLEAN /\ keyed \in BOOLEAN
  /\ call \in 1..MaxCalls /\ attempt \in 0..Retries
  /\ at \in {"post", "waiting", "sleeping", "response", "failure", "raised"}
  /\ wire \subseteq Posts /\ running \subseteq Posts
  /\ executed \subseteq Posts /\ answered \subseteq Posts
  /\ replies \in SUBSET [to : Posts, answer : Answers]

ClientInit ==
  /\ language \in {"python", "javascript"} /\ callerKey \in BOOLEAN /\ keyed \in BOOLEAN
  /\ call = 1 /\ attempt = 0 /\ at = "post"
  /\ wire = {} /\ seen = {} /\ running = {} /\ executed = {}
  /\ replies = {} /\ answered = {}

-----------------------------------------------------------------------------
(* The packet.  (Names ending in _Mut are plausible bugs in the definition   *)
(* after them, kept to show which property notices; they are not the model.) *)

\* It is built once per call, before the loop: attempts share its packet_id.
PacketId_Mut(post) == <<"packet", post.call, post.attempt>>
PacketId(post) == <<"packet", post.call>>

\* builder.build() of the Python client is not given the options' key.
IdempotencyKey(post) ==
  CASE language = "python" -> <<>>
    [] language = "javascript" /\ callerKey -> <<"key">>
    [] language = "javascript" /\ ~callerKey -> IF Retries > 0 THEN <<"key", post.call>> ELSE <<>>

-----------------------------------------------------------------------------
(* The clients *)

Post ==
  /\ at = "post"
  /\ at' = "waiting"
  /\ wire' = wire \cup {Current}
  /\ UNCHANGED <<choice, call, attempt, nodeVars, replies, answered>>

\* An attempt failed in a way that the client retries.
NextAttempt == at' = IF attempt < Retries THEN "sleeping" ELSE "raised"

Sleep ==
  /\ at = "sleeping"
  /\ at' = "post" /\ attempt' = attempt + 1
  /\ UNCHANGED <<choice, call, wire, nodeVars, replies, answered>>

\* httpx.TimeoutException: only the Python client sets a timeout.  It bounds
\* each operation of httpx: an answer that trickles in without a pause as long
\* as the timeout, for ever, is not one that the network may give here.
TimeoutApplies_Mut == language = "python" /\ attempt = 0
TimeoutApplies == language = "python"
TimesOut ==
  /\ at = "waiting" /\ TimeoutApplies
  /\ NextAttempt
  /\ UNCHANGED <<choice, call, attempt, wire, nodeVars, replies, answered>>

\* httpx.TransportError, a rejected fetch(): the connection could not be made,
\* or broke before or after the node had the request.
ConnectionFails ==
  /\ at = "waiting"
  /\ NextAttempt
  /\ UNCHANGED <<choice, call, attempt, wire, nodeVars, replies, answered>>

\* HTTPStatusError and what the parser raises leave the Python client at once;
\* the other one catches every error alike, but does not look into the answer.
RetriesAnswer_Mut(answer) == answer = "error" \/ (language = "javascript" /\ answer = "garbage")
RetriesAnswer(answer) == language = "javascript" /\ answer \in {"error", "garbage"}

Outcome(answer) == IF answer \in {"response", "failure"} THEN answer ELSE "raised"

Receive(r) ==
  /\ r \in replies /\ r.to = Current /\ at = "waiting"
  /\ replies' = replies \ {r}
  /\ answered' = answered \cup {Current}
  /\ IF RetriesAnswer(r.answer) THEN NextAttempt ELSE at' = Outcome(r.answer)
  /\ UNCHANGED <<choice, call, attempt, wire, nodeVars>>

\* The caller tries again with the same options.
CallAgain ==
  /\ at = "raised" /\ call < MaxCalls
  /\ call' = call + 1 /\ attempt' = 0 /\ at' = "post"
  /\ UNCHANGED <<choice, wire, nodeVars, replies, answered>>

-----------------------------------------------------------------------------
(* The node *)

Accepts(post) ==
  /\ PacketId(post) \notin seen
  /\ keyed => IdempotencyKey(post) # <<>> /\ IdempotencyKey(post) \notin seen

\* A reply to a client that no longer waits for it goes nowhere.
Reply(post, answer) ==
  replies' = replies \cup (IF at = "waiting" /\ post = Current
                             THEN {[to |-> post, answer |-> answer]} ELSE {})

Deliver(post) ==
  /\ post \in wire
  /\ wire' = wire \ {post}
  /\ IF Accepts(post)
       THEN /\ running' = running \cup {post}
            /\ seen' = seen \cup ({PacketId(post), IdempotencyKey(post)} \ {<<>>})
            /\ UNCHANGED replies
       ELSE /\ Reply(post, "error")
            /\ UNCHANGED <<running, seen>>
  /\ UNCHANGED <<choice, call, attempt, at, executed, answered>>

\* What comes back may be spoiled on its way (by a proxy).
HandlerEnds(post, well) ==
  /\ post \in running
  /\ running' = running \ {post}
  /\ executed' = IF well THEN executed \cup {post} ELSE executed
  /\ \E a \in {"garbage", "error", IF well THEN "response" ELSE "failure"} : Reply(post, a)
  /\ UNCHANGED <<choice, call, attempt, at, wire, seen, answered>>

ClientStep == Post \/ Sleep \/ TimesOut \/ ConnectionFails \/ \E r \in replies : Receive(r)

ClientNext ==
  \/ ClientStep \/ CallAgain
  \/ \E post \in Posts : Deliver(post) \/ \E well \in BOOLEAN : HandlerEnds(post, well)

ClientSpec == ClientInit /\ [][ClientNext]_clientVars
\* The client's own timers and coroutine run; the network and the node owe nothing.
ClientFairness == WF_clientVars(Post \/ Sleep \/ TimesOut)

-----------------------------------------------------------------------------
(* Correctness *)

Begun(c) == {p \in Posts : p.call = c /\ (p \in running \/ p \in executed)}

\* However often a call posts its packet, and in whatever order the node gets
\* the copies, its handler ends well at most once and two never run side by
\* side; and a JavaScript caller who names a key is safe over all of its calls
\* (execute_client.py:23, executeClient.ts:9-10).
ExecutedAtMostOnce ==
  /\ \A c \in 1..MaxCalls : Cardinality(Begun(c)) <= 1
  /\ keyed /\ callerKey => Cardinality(executed) <= 1

\* The Python client sends a packet again only if no answer came to any copy of
\* it: an answered call is over, whatever the answer was (execute_client.py:34-39).
AnsweredIsOver ==
  [][language = "python" /\ wire' # wire /\ at = "post" => \A p \in answered : p.call # call]_clientVars

\* A Python call ends although node and network owe nothing: what is silent runs
\* into the timeout (execute_client.py:31).  An answer that never ends but never
\* pauses either is excluded (see TimesOut).
PythonCallReturns ==
  language = "python" ~> at \in {"response", "failure", "raised"}
=============================================================================
