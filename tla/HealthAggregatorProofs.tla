----------------------- MODULE HealthAggregatorProofs -----------------------
(***************************************************************************)
(* What a health check promises, for any probes, any overlapping checks    *)
(* and any timeout, while probes come and go.                              *)
(***************************************************************************)
EXTENDS HealthAggregator, TLAPS

-----------------------------------------------------------------------------
(* Functions on some of the names *)

LEMMA PerProbeMember ==
  ASSUME NEW S, NEW f
  PROVE  f \in PerProbe(S) <=> DOMAIN f \subseteq Names /\ f \in [DOMAIN f -> S]
  BY DEF PerProbe

LEMMA EmptyPerProbe == Empty \in PerProbe({}) /\ DOMAIN Empty = {} /\ \A S : Empty \in PerProbe(S)
  BY PerProbeMember DEF Empty

\* One result or one timer of a check changes.
LEMMA PerProbeExcept ==
  ASSUME NEW S, NEW f \in PerProbe(S), NEW n \in DOMAIN f, NEW v \in S
  PROVE  [f EXCEPT ![n] = v] \in PerProbe(S) /\ DOMAIN [f EXCEPT ![n] = v] = DOMAIN f
  BY PerProbeMember

-----------------------------------------------------------------------------
(* Typing *)

\* The tasks of a gather are probes that are registered.
LEMMA TasksType ==
  ASSUME TypeOK
  PROVE  /\ Snapshot \in PerProbe(Probes)
         /\ \A n \in Registered : [m \in {n} |-> probes[m]] \in PerProbe(Probes)
<1>1. Registered \subseteq Names /\ \A n \in Registered : probes[n] \in Probes
  BY DEF TypeOK, Registered
<1>2. QED
  BY <1>1, PerProbeMember DEF Snapshot

LEMMA RunType ==
  ASSUME TypeOK, NEW c \in Checks, NEW fns \in PerProbe(Probes), Run(c, fns),
         UNCHANGED <<probes, changes>>, steady' \in [Checks -> SUBSET Names]
  PROVE  TypeOK'
<1>1. /\ [n \in DOMAIN fns |-> "pending"] \in PerProbe({"pending", "pass", "fail"})
      /\ [n \in DOMAIN fns |-> 0] \in PerProbe(0..Timeout)
  BY PerProbeMember, TimeoutAssumption
<1>2. /\ running' \in [Checks -> PerProbe(Probes)]
      /\ result' \in [Checks -> PerProbe({"pending", "pass", "fail"})]
      /\ waited' \in [Checks -> PerProbe(0..Timeout)]
  BY <1>1 DEF Run, TypeOK
<1>3. \A d \in Checks : DOMAIN result'[d] = DOMAIN running'[d] /\ DOMAIN waited'[d] = DOMAIN running'[d]
  BY DEF Run, TypeOK
<1>4. QED
  BY <1>2, <1>3 DEF Run, TypeOK

LEMMA AnswerType ==
  ASSUME TypeOK, NEW c \in Checks, NEW s \in {"healthy", "unhealthy"}, AnswerAtOnce(c, s),
         UNCHANGED <<probes, changes>>, steady' \in [Checks -> SUBSET Names]
  PROVE  TypeOK'
  BY DEF AnswerAtOnce, TypeOK

LEMMA ResultType ==
  ASSUME TypeOK, NEW c \in Checks, NEW n \in Pending(c), NEW v \in {"pass", "fail"},
         result' = [result EXCEPT ![c][n] = v],
         UNCHANGED <<probes, changes, pc, running, elapsed, waited, status, steady>>
  PROVE  TypeOK'
<1>1. result[c] \in PerProbe({"pending", "pass", "fail"}) /\ n \in DOMAIN result[c]
  BY DEF TypeOK, Pending
<1>2. /\ [result[c] EXCEPT ![n] = v] \in PerProbe({"pending", "pass", "fail"})
      /\ DOMAIN [result[c] EXCEPT ![n] = v] = DOMAIN result[c]
  BY <1>1, PerProbeExcept
<1>3. result' = [result EXCEPT ![c] = [result[c] EXCEPT ![n] = v]]
  OBVIOUS
<1>4. result' \in [Checks -> PerProbe({"pending", "pass", "fail"})]
  BY <1>2, <1>3 DEF TypeOK
<1>5. \A d \in Checks : DOMAIN result'[d] = DOMAIN result[d]
  BY <1>2, <1>3 DEF TypeOK
<1>6. QED
  BY <1>4, <1>5 DEF TypeOK

\* A timer that is not due has time left.
LEMMA TickType == ASSUME TypeOK, Tick PROVE TypeOK'
<1> DEFINE w(c) == [n \in DOMAIN running[c] |->
                      IF n \in Pending(c) THEN waited[c][n] + 1 ELSE waited[c][n]]
<1>1. ASSUME NEW c \in Waiting PROVE w(c) \in PerProbe(0..Timeout)
  <2>1. /\ c \in Checks /\ DOMAIN running[c] \subseteq Names
        /\ \A n \in DOMAIN running[c] : waited[c][n] \in 0..Timeout
    <3>1. c \in Checks /\ running[c] \in PerProbe(Probes) /\ waited[c] \in PerProbe(0..Timeout)
          /\ DOMAIN waited[c] = DOMAIN running[c]
      BY DEF Waiting, TypeOK
    <3>2. DOMAIN running[c] \subseteq Names /\ waited[c] \in [DOMAIN waited[c] -> 0..Timeout]
      BY <3>1, PerProbeMember
    <3>3. QED
      BY <3>1, <3>2
  <2>2. \A n \in Pending(c) : waited[c][n] # Timeout
    BY DEF Tick, Due
  <2>3. w(c) \in [DOMAIN running[c] -> 0..Timeout] /\ DOMAIN w(c) = DOMAIN running[c]
    BY <2>1, <2>2, TimeoutAssumption
  <2>4. QED
    BY <2>1, <2>3, PerProbeMember
<1>2. waited' = [c \in Checks |-> IF c \in Waiting THEN w(c) ELSE waited[c]]
  BY DEF Tick
<1>3. \A c \in Checks : DOMAIN w(c) = DOMAIN running[c]
  OBVIOUS
<1> HIDE DEF w
<1>4. waited' \in [Checks -> PerProbe(0..Timeout)]
  BY <1>1, <1>2 DEF TypeOK
<1>5. elapsed' \in [Checks -> Nat]
  BY DEF Tick, TypeOK
<1>6. \A c \in Checks : DOMAIN waited'[c] = DOMAIN running[c]
  BY <1>2, <1>3 DEF TypeOK
<1>7. QED
  BY <1>4, <1>5, <1>6 DEF Tick, TypeOK

LEMMA HealthTypeStep == TypeOK /\ [Next]_vars => TypeOK'
<1> SUFFICES ASSUME TypeOK, [Next]_vars PROVE TypeOK'
  OBVIOUS
<1>1. ASSUME NEW n \in Names, NEW p \in Probes \cup {None}, Change(n, p) PROVE TypeOK'
  BY <1>1, ChangesAssumption DEF Change, TypeOK
<1>2. ASSUME NEW c \in Checks, CheckBegin(c) PROVE TypeOK'
  <2>1. steady' \in [Checks -> SUBSET Names]
    BY <1>2 DEF CheckBegin, TypeOK, Registered
  <2>2. QED
    BY <1>2, <2>1, TasksType, RunType, AnswerType DEF CheckBegin
<1>3. ASSUME NEW c \in Checks, NEW n \in Names, CheckOne(c, n) PROVE TypeOK'
  <2>1. steady' \in [Checks -> SUBSET Names]
    BY <1>3 DEF CheckOne, TypeOK
  <2>2. QED
    BY <1>3, <2>1, TasksType, RunType, AnswerType DEF CheckOne
<1>4. ASSUME NEW c \in Checks, NEW n \in Names, ProbeEnds(c, n) PROVE TypeOK'
  BY <1>4, ResultType DEF ProbeEnds
<1>5. ASSUME NEW c \in Checks, NEW n \in Names, ProbeTimesOut(c, n) PROVE TypeOK'
  BY <1>5, ResultType DEF ProbeTimesOut, TimeoutResult
<1>6. ASSUME NEW c \in Checks, CheckEnd(c) PROVE TypeOK'
  BY <1>6 DEF CheckEnd, TypeOK, Summary
<1>7. CASE Tick
  BY <1>7, TickType
<1>8. CASE UNCHANGED vars
  BY <1>8 DEF vars, TypeOK
<1>9. QED
  BY <1>1, <1>2, <1>3, <1>4, <1>5, <1>6, <1>7, <1>8 DEF Next, Check

LEMMA HealthTypeInit == Init => TypeOK
  BY EmptyPerProbe, ChangesAssumption DEF Init, TypeOK

\* The aggregator keeps its types: no timer runs past its timeout.
THEOREM HealthTypeCorrect == Spec => []TypeOK
  BY HealthTypeInit, HealthTypeStep, PTL DEF Spec

-----------------------------------------------------------------------------
(* The checks *)

\* All pending probes of a check have waited since its gather began; a check
\* that returned has none pending.
SideBySide ==
  \A c \in Checks :
    /\ \A n \in Pending(c) : waited[c][n] = elapsed[c]
    /\ pc[c] = "idle" => Pending(c) = {}
    /\ elapsed[c] <= Timeout

\* A check that runs has a task for every probe that was there and stayed.
RunsTheSteady ==
  \A c \in Checks : pc[c] = "running" => steady[c] \subseteq DOMAIN running[c] /\ status[c] = None

HealthInv == TypeOK /\ SideBySide /\ RunsTheSteady /\ HealthyVouchesForAll

\* What a check that begins promises.
LEMMA BeginStep ==
  ASSUME HealthInv, NEW c \in Checks, NEW fns \in PerProbe(Probes), Run(c, fns), pc[c] = "idle",
         UNCHANGED <<probes, changes>>,
         NEW S \in SUBSET DOMAIN fns, steady' = [steady EXCEPT ![c] = S]
  PROVE  SideBySide' /\ RunsTheSteady' /\ HealthyVouchesForAll'
<1>1. \A d \in Checks \ {c} :
        /\ pc'[d] = pc[d] /\ running'[d] = running[d] /\ result'[d] = result[d]
        /\ elapsed'[d] = elapsed[d] /\ waited'[d] = waited[d] /\ status'[d] = status[d]
        /\ steady'[d] = steady[d] /\ Pending(d)' = Pending(d)
  BY DEF Run, HealthInv, TypeOK, Pending
<1>2. /\ pc'[c] = "running" /\ running'[c] = fns /\ elapsed'[c] = 0 /\ status'[c] = None
      /\ waited'[c] = [n \in DOMAIN fns |-> 0] /\ steady'[c] = S
  BY DEF Run, HealthInv, TypeOK
<1>3. \A n \in Pending(c)' : waited'[c][n] = 0
  BY <1>2 DEF Pending
<1>4. SideBySide'
  BY <1>1, <1>2, <1>3, TimeoutAssumption DEF HealthInv, SideBySide
<1>5. RunsTheSteady'
  BY <1>1, <1>2 DEF HealthInv, RunsTheSteady
<1>6. HealthyVouchesForAll'
  BY <1>1, <1>2, NoneAssumption DEF HealthInv, HealthyVouchesForAll
<1>7. QED
  BY <1>4, <1>5, <1>6

\* A check that answers at once vouches for nothing.
LEMMA AnswerStep ==
  ASSUME HealthInv, NEW c \in Checks, NEW s, AnswerAtOnce(c, s), pc[c] = "idle",
         NEW S \in SUBSET Names, steady' = [steady EXCEPT ![c] = S], s = "healthy" => S = {}
  PROVE  SideBySide' /\ RunsTheSteady' /\ HealthyVouchesForAll'
<1>1. \A d \in Checks : /\ d # c => status'[d] = status[d] /\ steady'[d] = steady[d]
                        /\ d = c => status'[d] = s /\ steady'[d] = S
  BY DEF AnswerAtOnce, HealthInv, TypeOK
<1>2. UNCHANGED <<pc, running, result, elapsed, waited>> /\ \A d : Pending(d)' = Pending(d)
  BY DEF AnswerAtOnce, Pending
<1>3. QED
  BY <1>1, <1>2 DEF HealthInv, SideBySide, RunsTheSteady, HealthyVouchesForAll

\* A probe that ended is pending no more, and the others wait on.
LEMMA ResultStep ==
  ASSUME HealthInv, NEW c \in Checks, pc[c] = "running", NEW n \in Pending(c),
         NEW v \in {"pass", "fail"}, result' = [result EXCEPT ![c][n] = v],
         UNCHANGED <<probes, changes, pc, running, elapsed, waited, status, steady>>
  PROVE  SideBySide' /\ RunsTheSteady' /\ HealthyVouchesForAll'
<1>1. \A d \in Checks \ {c} : result'[d] = result[d]
  BY DEF HealthInv, TypeOK
<1>2. result'[c] = [result[c] EXCEPT ![n] = v] /\ n \in DOMAIN result[c]
  BY DEF HealthInv, TypeOK, Pending
<1>3. \A d \in Checks : Pending(d)' \subseteq Pending(d)
  BY <1>1, <1>2 DEF Pending, HealthInv, TypeOK
<1>4. SideBySide' /\ RunsTheSteady'
  BY <1>3 DEF HealthInv, SideBySide, RunsTheSteady
<1>5. status[c] # "healthy"
  BY NoneAssumption DEF HealthInv, RunsTheSteady
<1>6. HealthyVouchesForAll'
  BY <1>1, <1>5 DEF HealthInv, HealthyVouchesForAll
<1>7. QED
  BY <1>4, <1>6

LEMMA EndStep ==
  ASSUME HealthInv, NEW c \in Checks, CheckEnd(c)
  PROVE  SideBySide' /\ RunsTheSteady' /\ HealthyVouchesForAll'
<1>1. /\ \A d \in Checks \ {c} : pc'[d] = pc[d] /\ status'[d] = status[d]
      /\ pc'[c] = "idle" /\ status'[c] = Summary(result[c]) /\ Pending(c) = {}
      /\ UNCHANGED <<running, result, elapsed, waited, steady>> /\ \A d : Pending(d)' = Pending(d)
  BY DEF CheckEnd, HealthInv, TypeOK, Pending
<1>2. SideBySide'
  BY <1>1 DEF HealthInv, SideBySide
<1>3. RunsTheSteady'
  BY <1>1 DEF HealthInv, RunsTheSteady
<1>4. Summary(result[c]) = "healthy" => \A n \in DOMAIN result[c] : result[c][n] = "pass"
  BY DEF Summary
<1>5. steady[c] \subseteq DOMAIN result[c]
  BY DEF HealthInv, RunsTheSteady, CheckEnd, TypeOK
<1>6. HealthyVouchesForAll'
  BY <1>1, <1>4, <1>5 DEF HealthInv, HealthyVouchesForAll
<1>7. QED
  BY <1>2, <1>3, <1>6

\* Time passes only while no timer is due: a check that waits has time left.
LEMMA TickStep ==
  ASSUME HealthInv, Tick
  PROVE  SideBySide' /\ RunsTheSteady' /\ HealthyVouchesForAll'
<1>1. /\ UNCHANGED <<pc, running, result, status, steady>> /\ \A d : Pending(d)' = Pending(d)
      /\ \A c \in Checks \ Waiting : elapsed'[c] = elapsed[c] /\ waited'[c] = waited[c]
      /\ \A c \in Waiting : elapsed'[c] = elapsed[c] + 1
      /\ \A c \in Waiting : \A n \in Pending(c) :
           waited'[c][n] = waited[c][n] + 1 /\ waited[c][n] # Timeout
  BY DEF Tick, Due, Pending, Waiting
<1>2. ASSUME NEW c \in Waiting PROVE elapsed[c] + 1 <= Timeout
  <2>1. PICK n \in Pending(c) : TRUE
    BY DEF Waiting
  <2>2. elapsed[c] # Timeout /\ elapsed[c] <= Timeout /\ elapsed[c] \in Nat
    BY <1>1, <2>1 DEF HealthInv, SideBySide, Waiting, TypeOK
  <2>3. QED
    BY <2>2, TimeoutAssumption
<1>3. SideBySide'
  BY <1>1, <1>2 DEF HealthInv, SideBySide, Waiting
<1>4. QED
  BY <1>1, <1>3 DEF HealthInv, RunsTheSteady, HealthyVouchesForAll

LEMMA HealthStep == HealthInv /\ [Next]_vars => HealthInv'
<1> SUFFICES ASSUME HealthInv, [Next]_vars
             PROVE  SideBySide' /\ RunsTheSteady' /\ HealthyVouchesForAll'
  BY HealthTypeStep DEF HealthInv
<1>1. ASSUME NEW n \in Names, NEW p \in Probes \cup {None}, Change(n, p)
      PROVE  SideBySide' /\ RunsTheSteady' /\ HealthyVouchesForAll'
  <2>1. /\ UNCHANGED <<pc, running, result, elapsed, waited, status>>
        /\ \A d : Pending(d)' = Pending(d)
        /\ \A c \in Checks : steady'[c] \subseteq steady[c]
    BY <1>1 DEF Change, Pending
  <2>2. QED
    BY <2>1 DEF HealthInv, SideBySide, RunsTheSteady, HealthyVouchesForAll
<1>2. ASSUME NEW c \in Checks, CheckBegin(c)
      PROVE  SideBySide' /\ RunsTheSteady' /\ HealthyVouchesForAll'
  <2>1. Registered \in SUBSET Names /\ DOMAIN Snapshot = Registered
    BY DEF Registered, Snapshot
  <2>2. TypeOK
    BY DEF HealthInv
  <2>3. QED
    BY <1>2, <2>1, <2>2, TasksType, BeginStep, AnswerStep DEF CheckBegin
<1>3. ASSUME NEW c \in Checks, NEW n \in Names, CheckOne(c, n)
      PROVE  SideBySide' /\ RunsTheSteady' /\ HealthyVouchesForAll'
  <2>1. TypeOK
    BY DEF HealthInv
  <2>2. CASE n \in Registered
    <3>1. {n} \cap Registered \in SUBSET DOMAIN [m \in {n} |-> probes[m]]
      OBVIOUS
    <3>2. QED
      BY <1>3, <2>1, <2>2, <3>1, TasksType, BeginStep DEF CheckOne
  <2>3. CASE n \notin Registered
    BY <1>3, <2>3, AnswerStep DEF CheckOne
  <2>4. QED
    BY <2>2, <2>3
<1>4. ASSUME NEW c \in Checks, NEW n \in Names, ProbeEnds(c, n) \/ ProbeTimesOut(c, n)
      PROVE  SideBySide' /\ RunsTheSteady' /\ HealthyVouchesForAll'
  BY <1>4, ResultStep DEF ProbeEnds, ProbeTimesOut, TimeoutResult
<1>5. ASSUME NEW c \in Checks, CheckEnd(c)
      PROVE  SideBySide' /\ RunsTheSteady' /\ HealthyVouchesForAll'
  BY <1>5, EndStep
<1>6. CASE Tick
  BY <1>6, TickStep
<1>7. CASE UNCHANGED vars
  BY <1>7 DEF vars, HealthInv, SideBySide, RunsTheSteady, HealthyVouchesForAll, Pending
<1>8. QED
  BY <1>1, <1>2, <1>3, <1>4, <1>5, <1>6, <1>7 DEF Next, Check

LEMMA HealthInvariant == Spec => []HealthInv
<1>1. Init => HealthInv
  <2> SUFFICES ASSUME Init PROVE HealthInv
    OBVIOUS
  <2>1. \A c \in Checks : Pending(c) = {}
    BY DEF Init, Pending, Empty
  <2>2. QED
    BY <2>1, HealthTypeInit, TimeoutAssumption, NoneAssumption
       DEF Init, HealthInv, SideBySide, RunsTheSteady, HealthyVouchesForAll
<1>2. QED
  BY <1>1, HealthStep, PTL DEF Spec

\* However many probes hang, however many checks overlap and whatever is
\* registered meanwhile, a check takes at most one timeout.
THEOREM HealthOneTimeout == Spec => []OneTimeoutForAll
<1>1. HealthInv => OneTimeoutForAll
  BY DEF HealthInv, SideBySide, OneTimeoutForAll
<1>2. QED
  BY <1>1, HealthInvariant, PTL

\* "healthy" means that every probe that was there all along has passed.
THEOREM HealthyVouches == Spec => []HealthyVouchesForAll
<1>1. HealthInv => HealthyVouchesForAll
  BY DEF HealthInv
<1>2. QED
  BY <1>1, HealthInvariant, PTL
=============================================================================
