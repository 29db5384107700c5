-------------------------- MODULE HealthAggregator --------------------------
(***************************************************************************)
(* chassis/health.py: HealthAggregator runs the registered probes of an    *)
(* engine concurrently, each under a timeout, and sums them up.  Checks    *)
(* overlap (one per request of the health endpoint), and probes may be     *)
(* registered, replaced or removed while a check awaits.                   *)
(*                                                                         *)
(* Probes are external: one may answer, raise, or never answer.  Time is   *)
(* counted in ticks; the event loop fires a timer before time moves on.    *)
(***************************************************************************)
EXTENDS Naturals, FiniteSets

CONSTANTS Names,      \* probe names
          Probes,     \* probe functions
          Checks,     \* concurrent calls of check_all() and check_one()
          Timeout,    \* timeout_seconds, in ticks
          MaxChanges, \* bound: calls of register() and deregister()
          None

ASSUME TimeoutAssumption == Timeout \in Nat \ {0}
ASSUME ChangesAssumption == MaxChanges \in Nat
ASSUME NoneAssumption == None \notin Probes \cup {"healthy", "degraded", "unhealthy"}

VARIABLES
  probes,    \* _probes: the function registered under each name, or None
  changes,
  pc,        \* where each check stands
  running,   \* running[c]: name -> function of the probes that c runs
  result,    \* result[c]: the ProbeResults c has so far, healthy or not
  elapsed,   \* ticks since c called gather
  waited,    \* waited[c][n]: ticks that wait_for has waited for n
  status,    \* what c returned last, or None
  steady     \* history: names whose function did not change while c ran

vars == <<probes, changes, pc, running, result, elapsed, waited,
          status, steady>>

Registered == {n \in Names : probes[n] # None}

PerProbe(S) == UNION {[ns -> S] : ns \in SUBSET Names}

TypeOK ==
  /\ probes \in [Names -> Probes \cup {None}]
  /\ changes \in 0..MaxChanges
  /\ pc \in [Checks -> {"idle", "running"}]
  /\ running \in [Checks -> PerProbe(Probes)]
  /\ result \in [Checks -> PerProbe({"pending", "pass", "fail"})]
  /\ elapsed \in [Checks -> Nat]
  /\ waited \in [Checks -> PerProbe(0..Timeout)]
  /\ \A c \in Checks : DOMAIN result[c] = DOMAIN running[c] /\ DOMAIN waited[c] = DOMAIN running[c]
  /\ status \in [Checks -> {"healthy", "degraded", "unhealthy", None}]
  /\ steady \in [Checks -> SUBSET Names]

Empty == [n \in {} |-> None]

Init ==
  /\ probes \in [Names -> Probes \cup {None}]
  /\ changes = 0
  /\ pc = [c \in Checks |-> "idle"]
  /\ running = [c \in Checks |-> Empty]
  /\ result = [c \in Checks |-> Empty]
  /\ elapsed = [c \in Checks |-> 0]
  /\ waited = [c \in Checks |-> Empty]
  /\ status = [c \in Checks |-> None]
  /\ steady = [c \in Checks |-> {}]

\* register(n, p), or deregister(n) for p = None.
Change(n, p) ==
  /\ changes < MaxChanges
  /\ changes' = changes + 1
  /\ probes' = [probes EXCEPT ![n] = p]
  /\ steady' = [c \in Checks |-> IF p = probes[n] THEN steady[c] ELSE steady[c] \ {n}]
  /\ UNCHANGED <<pc, running, result, elapsed, waited, status>>

-----------------------------------------------------------------------------
(* Checking.  (Names ending in _Mut are plausible bugs, not the model.)    *)

\* Without a probe the answer is immediate; else every probe registered now
\* becomes a task of the gather.
SnapshotFirst_Mut == LET n == CHOOSE n \in Registered : TRUE IN [m \in {n} |-> probes[n]]
Snapshot == [n \in Registered |-> probes[n]]

Run(c, fns) ==
  /\ pc' = [pc EXCEPT ![c] = "running"]
  /\ running' = [running EXCEPT ![c] = fns]
  /\ result' = [result EXCEPT ![c] = [n \in DOMAIN fns |-> "pending"]]
  /\ elapsed' = [elapsed EXCEPT ![c] = 0]
  /\ waited' = [waited EXCEPT ![c] = [n \in DOMAIN fns |-> 0]]
  /\ status' = [status EXCEPT ![c] = None]

AnswerAtOnce(c, s) ==
  /\ status' = [status EXCEPT ![c] = s]
  /\ UNCHANGED <<pc, running, result, elapsed, waited>>

CheckBegin(c) ==
  /\ pc[c] = "idle"
  /\ IF Registered = {} THEN AnswerAtOnce(c, "healthy") ELSE Run(c, Snapshot)
  /\ steady' = [steady EXCEPT ![c] = Registered]
  /\ UNCHANGED <<probes, changes>>

\* check_one(n) awaits the one probe in the same way.
CheckOne(c, n) ==
  /\ pc[c] = "idle"
  /\ IF n \in Registered THEN Run(c, [m \in {n} |-> probes[m]]) ELSE AnswerAtOnce(c, "unhealthy")
  /\ steady' = [steady EXCEPT ![c] = {n} \cap Registered]
  /\ UNCHANGED <<probes, changes>>

\* gather has started all of them; these have not ended.
PendingInTurn_Mut(c) ==
  LET P == {n \in DOMAIN running[c] : result[c][n] = "pending"}
  IN  IF P = {} THEN {} ELSE {CHOOSE n \in P : TRUE}
Pending(c) == {n \in DOMAIN running[c] : result[c][n] = "pending"}

\* _run_probe: the awaited function returns something true or false, or raises.
ProbeEnds(c, n) ==
  /\ pc[c] = "running" /\ n \in Pending(c)
  /\ \E v \in {"pass", "fail"} : result' = [result EXCEPT ![c][n] = v]
  /\ UNCHANGED <<probes, changes, pc, running, elapsed, waited, status, steady>>

\* _run_probe: wait_for gives up on it.
TimeoutSwallowed_Mut == "pending"
TimeoutResult == "fail"
Due(c, n) == waited[c][n] = Timeout

ProbeTimesOut(c, n) ==
  /\ pc[c] = "running" /\ n \in Pending(c) /\ Due(c, n)
  /\ result' = [result EXCEPT ![c][n] = TimeoutResult]
  /\ UNCHANGED <<probes, changes, pc, running, elapsed, waited, status, steady>>

\* all(...) and any(...) over the results.
Summary(res) ==
  IF \A n \in DOMAIN res : res[n] = "pass" THEN "healthy"
  ELSE IF \E n \in DOMAIN res : res[n] = "pass" THEN "degraded" ELSE "unhealthy"

\* gather resumes with every result.
CheckEnd(c) ==
  /\ pc[c] = "running" /\ Pending(c) = {}
  /\ status' = [status EXCEPT ![c] = Summary(result[c])]
  /\ pc' = [pc EXCEPT ![c] = "idle"]
  /\ UNCHANGED <<probes, changes, running, result, elapsed, waited, steady>>

\* Time passes for every check that waits, unless a timer is due.
Waiting == {c \in Checks : pc[c] = "running" /\ Pending(c) # {}}

Tick ==
  /\ Waiting # {}
  /\ \A c \in Waiting : \A n \in Pending(c) : ~Due(c, n)
  /\ elapsed' = [c \in Checks |-> IF c \in Waiting THEN elapsed[c] + 1 ELSE elapsed[c]]
  /\ waited' = [c \in Checks |->
       IF c \in Waiting
         THEN [n \in DOMAIN running[c] |->
                 IF n \in Pending(c) THEN waited[c][n] + 1 ELSE waited[c][n]]
         ELSE waited[c]]
  /\ UNCHANGED <<probes, changes, pc, running, result, status, steady>>

Check(c) ==
  \/ CheckBegin(c) \/ CheckEnd(c)
  \/ \E n \in Names : CheckOne(c, n) \/ ProbeEnds(c, n) \/ ProbeTimesOut(c, n)

Next ==
  \/ \E n \in Names, p \in Probes \cup {None} : Change(n, p)
  \/ \E c \in Checks : Check(c)
  \/ Tick

Spec == Init /\ [][Next]_vars

\* The event loop's own work: timers fire, finished gathers resume, time
\* passes.  No fairness for ProbeEnds: a probe may hang.
FairSpec ==
  /\ Spec
  /\ WF_vars(Tick)
  /\ \A c \in Checks :
       WF_vars(CheckEnd(c)) /\ \A n \in Names : WF_vars(ProbeTimesOut(c, n))

-----------------------------------------------------------------------------
(* Correctness *)

\* "healthy" vouches for every probe that was registered when the check began
\* and was not replaced meanwhile, whatever else was registered or removed.
HealthyVouchesForAll ==
  \A c \in Checks : status[c] = "healthy" =>
    \A n \in steady[c] : n \in DOMAIN result[c] /\ result[c][n] = "pass"

\* The probes wait side by side: however many hang, a check takes at most one
\* timeout, so it fits the budget of whoever probes the endpoint.
OneTimeoutForAll == \A c \in Checks : elapsed[c] <= Timeout

\* A check returns even when a probe never does.
CheckReturns == \A c \in Checks : pc[c] = "running" ~> pc[c] = "idle"
=============================================================================
