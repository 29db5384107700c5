------------------------------ MODULE MCPackets ------------------------------
(***************************************************************************)
(* Both ends of a packet, side by side in one run: the client that posts   *)
(* it, and the runtime that routes it.  Each sees the other as its         *)
(* environment, so the behaviours are those of one while the other rests.  *)
(***************************************************************************)
EXTENDS Constellation, ExecuteClient

MCSupports == [n \in NodeRegistry |-> IF n = "matcher" THEN {"match"} ELSE {"enrich"}]

VARIABLE end

RuntimeRests ==
  /\ phase = "refused" /\ actionMap = [a \in Actions |-> None] /\ handlers = {}
  /\ pc = "idle" /\ current = "match"
  /\ client = "p0" /\ payload = "p0" /\ hashed = "p0"
  /\ trace = <<>> /\ received = 0 /\ hops = <<>> /\ answer = None
  /\ metrics = [request_count |-> 0, action_errors |-> 0, node_hop_count_total |-> 0]
  /\ tally = [ok |-> 0, failed |-> 0, escaped |-> 0, hops |-> 0]

ClientRests ==
  /\ language = "python" /\ callerKey = FALSE /\ keyed = FALSE
  /\ call = 1 /\ attempt = 0 /\ at = "raised"
  /\ wire = {} /\ seen = {} /\ running = {} /\ executed = {}
  /\ replies = {} /\ answered = {}

PacketsInit ==
  \/ end = "runtime" /\ Init /\ ClientRests
  \/ end = "client" /\ RuntimeRests /\ ClientInit

PacketsNext ==
  \/ end = "runtime" /\ Next /\ UNCHANGED <<end, clientVars>>
  \/ end = "client" /\ ClientNext /\ UNCHANGED <<end, vars>>

PacketsSpec ==
  /\ PacketsInit /\ [][PacketsNext]_<<end, vars, clientVars>>
  /\ RouterFairness /\ ClientFairness
=============================================================================
