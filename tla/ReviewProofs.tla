---------------------------- MODULE ReviewProofs ----------------------------
(***************************************************************************)
(* What aggregate_reports computes, for every policy and every number of   *)
(* reports; and what the review workflow decides, for every pull request,  *)
(* whatever the analyzers find and whichever step of a job fails.  The     *)
(* pipeline runs aggregate_reports twice; it is shown to implement         *)
(* AggregateSpec, so that what is proved of the loop holds in the jobs.    *)
(***************************************************************************)
EXTENDS ReviewPipeline, SequenceTheorems, TLAPS

-----------------------------------------------------------------------------
(* The loop of aggregate.py *)

\* aggregate.py's variables keep their types under its own steps.
LEMMA AggregateTypeStep == AggregateTypeOK /\ [AggregateNext]_aggregateVars => AggregateTypeOK'
<1> SUFFICES ASSUME AggregateTypeOK, [AggregateNext]_aggregateVars PROVE AggregateTypeOK'
  OBVIOUS
<1>1. CASE AggregateStep
  <2>1. final' \in Verdicts
    BY <1>1 DEF AggregateStep, AggregateTypeOK, Absorb, Verdicts
  <2>2. QED
    BY <1>1, <2>1 DEF AggregateStep, AggregateTypeOK
<1>2. ASSUME NEW rs \in ReportLists, AggregateBegin(rs) PROVE AggregateTypeOK'
  <2>1. rs \in Seq(Report)
    BY MaxReportsAssumption DEF ReportLists
  <2>2. QED
    BY <1>2, <2>1 DEF AggregateBegin, AggregateTypeOK, Verdicts
<1>3. CASE UNCHANGED aggregateVars
  BY <1>3 DEF aggregateVars, AggregateTypeOK
<1>4. QED
  BY <1>1, <1>2, <1>3 DEF AggregateNext

\* aggregate_reports always has one of the four verdicts in hand and stays
\* within its list of reports, however often the script is run.
THEOREM AggregateTypeCorrect == AggregateSpec => []AggregateTypeOK
<1>1. AggregateInit => AggregateTypeOK
  BY DEF AggregateInit, AggregateTypeOK, Verdicts
<1>2. QED
  BY <1>1, AggregateTypeStep, PTL DEF AggregateSpec

-----------------------------------------------------------------------------
\* One iteration: absorbing a report into the verdict of a set of reports
\* gives the verdict of the set with that report, whatever the report is.
LEMMA AbsorbIsUnion ==
  ASSUME NEW S, NEW r
  PROVE  Absorb(VerdictOfSet(S), r) = VerdictOfSet(S \cup {r})
<1> DEFINE blocks(x) == x.dimension \in Blocking /\ VerdictOf(x) = "BLOCK"
           escalates(x) == x.dimension \in Advisory /\ VerdictOf(x) = "ESCALATE"
           warns(x) == VerdictOf(x) = "WARN"
<1>1. ~(blocks(r) /\ escalates(r)) /\ ~(blocks(r) /\ warns(r)) /\ ~(escalates(r) /\ warns(r))
  OBVIOUS
<1>2. \A x \in S \cup {r} : x \in S \/ x = r
  OBVIOUS
<1>3. QED
  BY <1>1, <1>2 DEF Absorb, VerdictOfSet

\* aggregate_reports computes the priority verdict of the reports it has
\* read: the order of the --reports arguments is irrelevant.
THEOREM AggregateOrderIndependent == AggregateSpec => []OrderIndependent
<1>1. AggregateInit => OrderIndependent
  BY DEF AggregateInit, OrderIndependent, VerdictOfSet, Absorbed
<1>2. AggregateTypeOK /\ OrderIndependent /\ [AggregateNext]_aggregateVars => OrderIndependent'
  <2> SUFFICES ASSUME AggregateTypeOK, OrderIndependent, [AggregateNext]_aggregateVars
               PROVE  OrderIndependent'
    OBVIOUS
  <2>1. CASE AggregateStep
    <3>1. Absorbed' = Absorbed \cup {reports[i + 1]}
      BY <2>1 DEF AggregateStep, AggregateTypeOK, Absorbed
    <3>2. final' = VerdictOfSet(Absorbed \cup {reports[i + 1]})
      BY <2>1, AbsorbIsUnion DEF AggregateStep, OrderIndependent
    <3>3. VerdictOfSet(Absorbed)' = VerdictOfSet(Absorbed')
      BY DEF VerdictOfSet
    <3>4. QED
      BY <3>1, <3>2, <3>3 DEF OrderIndependent
  <2>2. ASSUME NEW rs \in ReportLists, AggregateBegin(rs) PROVE OrderIndependent'
    <3>1. Absorbed' = {}
      BY <2>2 DEF AggregateBegin, Absorbed
    <3>2. QED
      BY <2>2, <3>1 DEF AggregateBegin, OrderIndependent, VerdictOfSet
  <2>3. CASE UNCHANGED aggregateVars
    BY <2>3 DEF aggregateVars, OrderIndependent, Absorbed, VerdictOfSet
  <2>4. QED
    BY <2>1, <2>2, <2>3 DEF AggregateNext
<1>3. QED
  BY <1>1, <1>2, AggregateTypeCorrect, PTL DEF AggregateSpec

\* No report that is read later weakens the decision taken so far.
THEOREM AggregateNeverWeakens == AggregateSpec => NeverWeakened
<1>1. AggregateTypeOK /\ [AggregateNext]_aggregateVars
        => [i' > i => Rank(final') >= Rank(final)]_aggregateVars
  <2> SUFFICES ASSUME AggregateTypeOK, AggregateNext PROVE i' > i => Rank(final') >= Rank(final)
    BY DEF aggregateVars
  <2>1. CASE AggregateStep
    BY <2>1 DEF AggregateTypeOK, Verdicts, AggregateStep, Absorb, Rank
  <2>2. ASSUME NEW rs \in ReportLists, AggregateBegin(rs) PROVE ~(i' > i)
    BY <2>2 DEF AggregateBegin, AggregateTypeOK
  <2>3. QED
    BY <2>1, <2>2 DEF AggregateNext
<1>2. QED
  BY <1>1, AggregateTypeCorrect, PTL DEF AggregateSpec, NeverWeakened

-----------------------------------------------------------------------------
(* Reports, and lists of them *)

LEMMA SeqOfMore ==
  ASSUME NEW S, NEW T, S \subseteq T, NEW s \in Seq(S)
  PROVE  s \in Seq(T)
  OBVIOUS

LEMMA ShortListsAreReportLists ==
  ASSUME NEW rs \in Seq(Report), Len(rs) <= MaxReports
  PROVE  rs \in ReportLists
<1>1. Len(rs) \in 0..MaxReports /\ rs \in [1..Len(rs) -> Report]
  BY MaxReportsAssumption
<1>2. QED
  BY <1>1 DEF ReportLists

\* The five checks, and what an analyzer may write.
LEMMA StepNames ==
  /\ Len(Steps) = 5 /\ 5 <= MaxReports
  /\ \A k \in 1..5 : Steps[k] \in ToSet(Steps)
  /\ \A k \in 1..5 : Steps[k] \in DOMAIN Findings
<1>1. Len(Steps) = 5 /\ DOMAIN Steps = 1..5
  BY DEF Steps
<1>2. \A k \in 1..5 : k = 1 \/ k = 2 \/ k = 3 \/ k = 4 \/ k = 5
  OBVIOUS
<1>3. \A k \in 1..5 : Steps[k] \in DOMAIN Findings
  BY <1>2 DEF Steps, Findings
<1>4. QED
  BY <1>1, <1>3, StepsAssumption DEF ToSet

LEMMA FindingsAreVerdicts ==
  ASSUME NEW c \in DOMAIN Findings, NEW v \in Findings[c]
  PROVE  v \in Verdicts
  BY DEF Findings, Verdicts, TemplateCompliance, ArchitectureBoundary, ProtectedPaths,
         SpecCoverage, YamlValidation

\* One more report is written, by the check whose turn it is.
LEMMA AnalyzeType ==
  ASSUME TypeOK, Analyze
  PROVE  \E r \in CheckReport :
           /\ r.dimension \in ToSet(Steps)
           /\ written' = Append(written, r) /\ Len(written') = Len(written) + 1
           /\ Len(written') <= Len(Steps) /\ written' \in Seq(CheckReport)
<1> DEFINE check == Steps[Len(written) + 1]
<1>1. /\ written \in Seq(CheckReport) /\ Len(written) \in Nat
      /\ Len(written) + 1 \in 1..5
  BY StepNames DEF TypeOK, Analyze
<1>2. check \in ToSet(Steps) /\ check \in DOMAIN Findings
  BY <1>1, StepNames
<1>3. PICK v \in Findings[check] : written' = Append(written, [dimension |-> check, verdict |-> v])
  BY DEF Analyze
<1>4. [dimension |-> check, verdict |-> v] \in CheckReport
  BY <1>2, <1>3, FindingsAreVerdicts, StepsAssumption DEF CheckReport
<1> HIDE DEF check
<1>5. QED
  BY <1>1, <1>2, <1>3, <1>4, StepNames

-----------------------------------------------------------------------------
(* Typing *)

\* The reports a job gives to aggregate.py are a list that it may be given.
LEMMA GivenReports ==
  ASSUME TypeOK
  PROVE  /\ DeterministicReports \in Seq(Report) /\ DeterministicReports \in ReportLists
         /\ FinalReports \in Seq(Report) /\ FinalReports \in ReportLists
<1>1. /\ written \in Seq(Report) /\ Len(written) <= MaxReports
      /\ detFile \in Seq(Report) /\ semFile \in Seq(Report)
  BY StepNames, SeqOfMore, MaxReportsAssumption DEF TypeOK, Report
<1>2. detFile \o semFile \in Seq(Report) /\ Len(detFile \o semFile) <= MaxReports
  <2>1. Len(detFile \o semFile) = Len(detFile) + Len(semFile) /\ detFile \o semFile \in Seq(Report)
    BY <1>1
  <2>2. QED
    BY <2>1, <1>1, StepNames, MaxReportsAssumption DEF TypeOK
<1>3. QED
  BY <1>1, <1>2, ShortListsAreReportLists DEF DeterministicReports, FinalReports

\* What the jobs do to the variables of aggregate.py, aggregate.py does.
LEMMA PipelineAggregates ==
  ASSUME TypeOK, [Next]_vars
  PROVE  [AggregateNext]_aggregateVars
<1>1. CASE AggregateDeterministic
  BY <1>1, GivenReports DEF AggregateDeterministic, AggregateIn, AggregateNext
<1>2. CASE AggregateFinal
  BY <1>2, GivenReports DEF AggregateFinal, AggregateIn, AggregateNext
<1>3. CASE AggregateReads
  BY <1>3 DEF AggregateReads, AggregateNext
<1>4. QED
  BY <1>1, <1>2, <1>3 DEF Next, Classify, Analyze, UploadDeterministic, SemanticReview,
     StepFails, Skip, Superseded, FinalDecision, FinalFails, vars

LEMMA PipelineTypeStep == TypeOK /\ [Next]_vars => TypeOK'
<1> SUFFICES ASSUME TypeOK, [Next]_vars PROVE TypeOK'
  OBVIOUS
<1>0. AggregateTypeOK'
  BY PipelineAggregates, AggregateTypeStep DEF TypeOK
<1> USE <1>0 DEF TypeOK
<1>1. CASE Classify
  <2>1. class' \in [risk : {"low", "medium", "high", "critical"}, semantic : BOOLEAN]
    BY <1>1 DEF Classify, Risk, RunSemantic
  <2>2. QED
    BY <1>1, <2>1 DEF Classify, Jobs
<1>2. CASE Analyze
  BY <1>2, AnalyzeType DEF Analyze
<1>3. ASSUME NEW job \in {"deterministic", "final"}, NEW rs, AggregateIn(job, rs) PROVE TypeOK'
  BY <1>3 DEF AggregateIn
<1>4. CASE AggregateReads
  BY <1>4 DEF AggregateReads, jobVars
<1>5. CASE UploadDeterministic
  <2>1. [dimension |-> "aggregate", final_verdict |-> final] \in AggregateReport
    BY DEF AggregateTypeOK, AggregateReport
  <2>2. detFile' \in Seq(AggregateReport) /\ Len(detFile') <= 1
    BY <1>5, <2>1 DEF UploadDeterministic
  <2>3. QED
    BY <1>5, <2>2 DEF UploadDeterministic, AggregateDone, Jobs
<1>6. CASE SemanticReview
  <2>1. [dimension |-> "semantic_review", verdict |-> SemanticVerdict] \in CheckReport
    BY StepsAssumption DEF SemanticVerdict, CheckReport, Verdicts
  <2>2. semFile' \in Seq(CheckReport) /\ Len(semFile') <= 1
    BY <1>6, <2>1 DEF SemanticReview
  <2>3. QED
    BY <1>6, <2>2 DEF SemanticReview, Jobs
<1>7. ASSUME NEW j \in Jobs, StepFails(j) PROVE TypeOK'
  BY <1>7 DEF StepFails, Jobs
<1>8. ASSUME NEW j \in Jobs, Skip(j) PROVE TypeOK'
  BY <1>8 DEF Skip, Jobs
<1>9. CASE Superseded
  BY <1>9 DEF Superseded
<1>10. CASE FinalDecision
  BY <1>10 DEF FinalDecision, AggregateDone, AggregateTypeOK, Jobs
<1>11. CASE FinalFails
  BY <1>11 DEF FinalFails, Jobs
<1>12. CASE UNCHANGED vars
  BY <1>12 DEF vars, jobVars
<1> HIDE DEF TypeOK
<1>13. QED
  BY <1>1, <1>2, <1>3, <1>4, <1>5, <1>6, <1>7, <1>8, <1>9, <1>10, <1>11, <1>12
     DEF Next, AggregateDeterministic, AggregateFinal

LEMMA PipelineTypeInit == Init => TypeOK
<1>1. AggregateInit => AggregateTypeOK
  BY DEF AggregateInit, AggregateTypeOK, Verdicts
<1>2. QED
  BY <1>1, StepNames DEF Init, TypeOK

\* The jobs keep their types: at most five reports are written, and an
\* artifact holds at most the report of its job.
THEOREM PipelineTypeCorrect == Spec => []TypeOK
  BY PipelineTypeInit, PipelineTypeStep, PTL DEF Spec

\* Both uses of aggregate.py in the workflow are runs of aggregate_reports on
\* lists of reports it may be given: the pipeline implements AggregateSpec.
THEOREM PipelineImplementsAggregate == Spec => AggregateSpec
<1>1. Init => AggregateInit
  BY DEF Init
<1>2. TypeOK /\ [Next]_vars => [AggregateNext]_aggregateVars
  BY PipelineAggregates
<1>3. QED
  BY <1>1, <1>2, PipelineTypeCorrect, PTL DEF Spec, AggregateSpec

\* So the order in which a job names its reports cannot change its verdict.
THEOREM PipelineOrderIndependent == Spec => []OrderIndependent
  BY PipelineImplementsAggregate, AggregateOrderIndependent, PTL

\* Nor does a report that a job reads later weaken it.
THEOREM PipelineNeverWeakens == Spec => NeverWeakened
  BY PipelineImplementsAggregate, AggregateNeverWeakens, PTL

-----------------------------------------------------------------------------
(* What the artifacts stand for *)

\* A report of each check in turn; the classification is that of the pull
\* request.
ReportsInOrder == \A k \in 1..Len(written) : written[k].dimension \in Blocking
ClassTrue == class.semantic => RunSemantic

\* While a job aggregates, its script has the reports of the job, and what it
\* was started on can no longer change.
AggregatesItsOwn ==
  /\ aggregating = "deterministic" =>
       /\ status["classify"] = "success" /\ status["deterministic"] = "pending"
       /\ Len(written) = Len(Steps) /\ reports = written
  /\ aggregating = "final" => FinalReady /\ reports = FinalReports

\* The deterministic artifact tells whether a check blocked; a job that ended
\* well has left it.
DetFileTrue ==
  /\ detFile # <<>> => Len(written) = Len(Steps) /\ BlockingChecksBlock
  /\ status["deterministic"] = "success" => detFile # <<>>

\* The semantic review read an artifact without a BLOCK, of a change in limits.
SemFileTrue ==
  semFile # <<>> =>
    /\ status["semantic"] # "pending" /\ status["deterministic"] = "success"
    /\ semFile[1] = [dimension |-> "semantic_review", verdict |-> SemanticVerdict]
    /\ RunSemantic /\ detFile[1].final_verdict # "BLOCK"

\* The verdict was given when everything it could rest on was there.
VerdictTrue == verdict # "none" => FinalReady /\ SemanticWarningReachesFinal

PipelineInv ==
  /\ TypeOK /\ OrderIndependent
  /\ ReportsInOrder /\ ClassTrue /\ AggregatesItsOwn
  /\ DetFileTrue /\ SemFileTrue /\ VerdictTrue

LEMMA ReportVerdicts ==
  /\ \A r \in CheckReport : VerdictOf(r) = r.verdict
  /\ \A r \in AggregateReport : VerdictOf(r) = "APPROVE"
<1>1. \A r \in CheckReport : "verdict" \in DOMAIN r
  BY DEF CheckReport
<1>2. \A r \in AggregateReport : "verdict" \notin DOMAIN r
  BY DEF AggregateReport
<1>3. QED
  BY <1>1, <1>2 DEF VerdictOf

\* A list that is short and not empty has one element.
LEMMA OneElement ==
  ASSUME NEW S, NEW s \in Seq(S), Len(s) <= 1, s # <<>>
  PROVE  Len(s) = 1 /\ s[1] \in S
  OBVIOUS

\* Two lists of one element each, one behind the other.
LEMMA TwoElements ==
  ASSUME NEW S, NEW s \in Seq(S), NEW t \in Seq(S), Len(s) = 1, Len(t) = 1
  PROVE  Len(s \o t) = 2 /\ (s \o t)[1] = s[1] /\ (s \o t)[2] = t[1]
<1>1. Len(s \o t) = Len(s) + Len(t)
  BY ConcatProperties
<1>2. \A k \in 1..(Len(s) + Len(t)) : (s \o t)[k] = IF k <= Len(s) THEN s[k] ELSE t[k - Len(s)]
  BY ConcatProperties
<1>3. 1 \in 1..(Len(s) + Len(t)) /\ 2 \in 1..(Len(s) + Len(t))
  OBVIOUS
<1>4. QED
  BY <1>1, <1>2, <1>3

\* What aggregate_reports makes of the reports of the analyzers.
LEMMA DeterministicVerdict ==
  ASSUME PipelineInv, aggregating = "deterministic", i = Len(reports)
  PROVE  final = "BLOCK" <=> Found("BLOCK")
<1>1. /\ reports = written /\ written \in Seq(CheckReport)
      /\ \A k \in 1..Len(written) : written[k].dimension \in Blocking
  BY DEF PipelineInv, AggregatesItsOwn, ReportsInOrder, TypeOK
<1>2. \A k \in 1..Len(written) : VerdictOf(written[k]) = written[k].verdict
  BY <1>1, ReportVerdicts
<1>3. Absorbed = {written[k] : k \in 1..Len(written)}
  BY <1>1 DEF Absorbed
<1>4. final = "BLOCK" <=> \E r \in Absorbed : r.dimension \in Blocking /\ VerdictOf(r) = "BLOCK"
  BY DEF PipelineInv, OrderIndependent, VerdictOfSet
<1>5. QED
  BY <1>1, <1>2, <1>3, <1>4 DEF Found

\* What it makes of the two artifacts when the semantic one is a warning.
LEMMA FinalVerdict ==
  ASSUME PipelineInv, aggregating = "final", i = Len(reports),
         semFile # <<>>, semFile[1].verdict = "WARN"
  PROVE  final = "WARN"
<1>1. /\ detFile \in Seq(AggregateReport) /\ Len(detFile) = 1 /\ detFile[1] \in AggregateReport
      /\ semFile \in Seq(CheckReport) /\ Len(semFile) = 1 /\ semFile[1] \in CheckReport
      /\ reports = detFile \o semFile
  BY OneElement DEF PipelineInv, TypeOK, DetFileTrue, SemFileTrue, AggregatesItsOwn, FinalReports
<1>2. Len(reports) = 2 /\ reports[1] = detFile[1] /\ reports[2] = semFile[1]
  <2>1. detFile \in Seq(Report) /\ semFile \in Seq(Report)
    BY <1>1, SeqOfMore DEF Report
  <2>2. QED
    BY <1>1, <2>1, TwoElements
<1>3. Absorbed = {detFile[1], semFile[1]}
  BY <1>2 DEF Absorbed
<1>4. VerdictOf(detFile[1]) = "APPROVE" /\ VerdictOf(semFile[1]) = "WARN"
  BY <1>1, ReportVerdicts
<1>5. QED
  BY <1>3, <1>4 DEF PipelineInv, OrderIndependent, VerdictOfSet

LEMMA PipelineInvInit == Init => PipelineInv
<1> SUFFICES ASSUME Init PROVE PipelineInv
  OBVIOUS
<1>1. OrderIndependent
  BY DEF Init, AggregateInit, OrderIndependent, VerdictOfSet, Absorbed
<1>2. QED
  BY <1>1, PipelineTypeInit
     DEF Init, PipelineInv, ReportsInOrder, ClassTrue, AggregatesItsOwn, DetFileTrue,
         SemFileTrue, VerdictTrue, Jobs

\* A job that is over stays as it ended.
JobsStayOver == \A j \in Jobs : status[j] # "pending" => status'[j] = status[j]

LEMMA OverIsOver == ASSUME TypeOK, [Next]_vars PROVE JobsStayOver
<1> USE DEF TypeOK, JobsStayOver
<1>1. CASE UNCHANGED status
  BY <1>1
<1>2. ASSUME NEW j \in Jobs, NEW s, status[j] = "pending", status' = [status EXCEPT ![j] = s]
      PROVE  JobsStayOver
  BY <1>2
<1>3. CASE Superseded
  BY <1>3 DEF Superseded
<1>4. CASE Classify
  BY <1>4, <1>2 DEF Classify, Jobs
<1>5. CASE UploadDeterministic
  BY <1>5, <1>2 DEF UploadDeterministic, Running, Jobs
<1>6. CASE SemanticReview
  BY <1>6, <1>2 DEF SemanticReview, Running, Jobs
<1>7. ASSUME NEW j \in Jobs, StepFails(j) \/ Skip(j) PROVE JobsStayOver
  BY <1>7, <1>2 DEF StepFails, Skip, Running
<1>8. CASE FinalDecision \/ FinalFails
  BY <1>8, <1>2 DEF FinalDecision, FinalFails, Jobs
<1> HIDE DEF TypeOK, JobsStayOver
<1>9. QED
  BY <1>1, <1>3, <1>4, <1>5, <1>6, <1>7, <1>8
     DEF Next, Analyze, AggregateDeterministic, AggregateFinal, AggregateIn, AggregateReads, jobVars, vars

\* Each part of the invariant rests on a few files, and on jobs that are over.
LEMMA Undisturbed ==
  ASSUME PipelineInv, JobsStayOver, UNCHANGED <<kinds, size>>
  PROVE  /\ FinalReady => FinalReady'
         /\ UNCHANGED written => ReportsInOrder'
         /\ UNCHANGED class => ClassTrue'
         /\ UNCHANGED <<written, detFile>>
              /\ (status'["deterministic"] = "success" => status["deterministic"] = "success")
              => DetFileTrue'
         /\ UNCHANGED <<detFile, semFile>> => SemFileTrue'
         /\ UNCHANGED <<semFile, verdict>> => VerdictTrue'
<1>1. FinalReady => FinalReady'
  BY DEF JobsStayOver, FinalReady
<1>2. QED
  BY <1>1 DEF PipelineInv, ReportsInOrder, ClassTrue, DetFileTrue, SemFileTrue, VerdictTrue,
         JobsStayOver, Jobs, Found, BlockingChecksBlock, DetVerdict, RunSemantic, Risk,
         SemanticVerdict, SemanticWarningReachesFinal

\* A job that aggregates and is not over goes on with the same reports.
LEMMA AggregationUndisturbed ==
  ASSUME PipelineInv, JobsStayOver, aggregating' \in {aggregating, "none"},
         UNCHANGED <<written, detFile, semFile, reports>>,
         aggregating' = "deterministic" => status'["deterministic"] = status["deterministic"]
  PROVE  AggregatesItsOwn'
<1>1. FinalReady => FinalReady'
  BY DEF JobsStayOver, FinalReady
<1>2. QED
  BY <1>1 DEF PipelineInv, AggregatesItsOwn, FinalReports, JobsStayOver, Jobs

LEMMA PipelineStep == PipelineInv /\ OrderIndependent' /\ [Next]_vars => PipelineInv'
<1> SUFFICES ASSUME PipelineInv, OrderIndependent', [Next]_vars PROVE PipelineInv'
  OBVIOUS
<1> DEFINE Rest == /\ ReportsInOrder' /\ ClassTrue' /\ AggregatesItsOwn'
                   /\ DetFileTrue' /\ SemFileTrue' /\ VerdictTrue'
<1>1. /\ TypeOK /\ TypeOK' /\ JobsStayOver
      /\ AggregatesItsOwn /\ DetFileTrue /\ SemFileTrue /\ VerdictTrue /\ ReportsInOrder
  BY PipelineTypeStep, OverIsOver DEF PipelineInv
<1> SUFFICES Rest
  BY <1>1 DEF PipelineInv
<1>2. ASSUME UNCHANGED <<kinds, size, class, written, detFile, semFile, verdict>>, AggregatesItsOwn',
             status'["deterministic"] = "success" => status["deterministic"] = "success"
      PROVE  Rest
  BY <1>1, <1>2, Undisturbed
<1>3. CASE Classify
  <2>1. /\ UNCHANGED <<kinds, size, written, aggregating, detFile, semFile, verdict, aggregateVars>>
        /\ status'["deterministic"] = status["deterministic"]
    BY <1>1, <1>3 DEF Classify, TypeOK, Jobs
  <2>2. ClassTrue'
    BY <1>3 DEF Classify, ClassTrue, RunSemantic, Risk
  <2>3. QED
    BY <1>1, <2>1, <2>2, Undisturbed, AggregationUndisturbed DEF aggregateVars
<1>4. CASE Analyze
  <2>1. UNCHANGED <<kinds, size, status, class, aggregating, detFile, semFile, verdict, aggregateVars>>
    BY <1>4 DEF Analyze
  <2>2. PICK r \in CheckReport : r.dimension \in ToSet(Steps) /\ written' = Append(written, r)
    BY <1>1, <1>4, AnalyzeType
  <2>3. ReportsInOrder'
    <3>1. /\ Len(written') = Len(written) + 1 /\ written'[Len(written) + 1] = r
          /\ \A k \in 1..Len(written) : written'[k] = written[k]
          /\ Len(written) \in Nat
      BY <2>2, <1>1 DEF TypeOK
    <3>2. QED
      BY <2>2, <3>1, <1>1, BlockingAssumption DEF ReportsInOrder
  <2>4. detFile = <<>> /\ aggregating # "deterministic"
    BY <1>1, <1>4, StepNames DEF Analyze, DetFileTrue, AggregatesItsOwn, TypeOK
  <2>5. DetFileTrue' /\ AggregatesItsOwn'
    BY <1>1, <2>1, <2>4 DEF DetFileTrue, AggregatesItsOwn, FinalReady, FinalReports, aggregateVars
  <2>6. QED
    BY <1>1, <2>1, <2>3, <2>5, Undisturbed
<1>5. CASE AggregateDeterministic
  <2>1. /\ UNCHANGED <<kinds, size, status, class, written, detFile, semFile, verdict>>
        /\ aggregating' = "deterministic" /\ reports' = written
        /\ status["classify"] = "success" /\ status["deterministic"] = "pending"
        /\ Len(written) = Len(Steps)
    BY <1>5 DEF AggregateDeterministic, AggregateIn, AggregateBegin, DeterministicReports, Running
  <2>2. AggregatesItsOwn'
    BY <2>1 DEF AggregatesItsOwn
  <2>3. QED
    BY <1>2, <2>1, <2>2
<1>6. CASE AggregateFinal
  <2>1. /\ UNCHANGED <<kinds, size, status, class, written, detFile, semFile, verdict>>
        /\ aggregating' = "final" /\ reports' = FinalReports /\ FinalReady
    BY <1>6 DEF AggregateFinal, AggregateIn, AggregateBegin
  <2>2. AggregatesItsOwn'
    BY <2>1 DEF AggregatesItsOwn, FinalReady, FinalReports
  <2>3. QED
    BY <1>2, <2>1, <2>2
<1>7. CASE AggregateReads
  BY <1>1, <1>2, <1>7, AggregationUndisturbed DEF AggregateReads, AggregateStep, jobVars
<1>8. CASE UploadDeterministic
  <2>1. /\ UNCHANGED <<kinds, size, class, written, semFile, verdict, aggregateVars>>
        /\ aggregating = "deterministic" /\ aggregating' = "none" /\ i = Len(reports)
        /\ detFile' = <<[dimension |-> "aggregate", final_verdict |-> final]>>
    BY <1>8 DEF UploadDeterministic, AggregateDone
  <2>2. status["deterministic"] = "pending" /\ Len(written) = Len(Steps)
    BY <2>1, <1>1 DEF AggregatesItsOwn
  <2>3. detFile' # <<>> /\ detFile'[1].final_verdict = final
    BY <2>1
  <2>4. BlockingChecksBlock'
    BY <2>1, <2>3, DeterministicVerdict DEF BlockingChecksBlock, DetVerdict, Found
  <2>5. DetFileTrue'
    BY <2>1, <2>2, <2>3, <2>4 DEF DetFileTrue
  <2>6. SemFileTrue' /\ AggregatesItsOwn'
    BY <2>1, <2>2, <1>1 DEF SemFileTrue, AggregatesItsOwn
  <2>7. QED
    BY <1>1, <2>1, <2>5, <2>6, Undisturbed
<1>9. CASE SemanticReview
  <2>1. /\ UNCHANGED <<kinds, size, class, written, aggregating, detFile, verdict, aggregateVars>>
        /\ semFile' = <<[dimension |-> "semantic_review", verdict |-> SemanticVerdict]>>
        /\ status["semantic"] = "pending" /\ status["deterministic"] = "success"
        /\ class.semantic /\ detFile[1].final_verdict # "BLOCK"
    BY <1>9 DEF SemanticReview, SemanticWanted, Running
  <2>2. status'["semantic"] = "success" /\ status'["deterministic"] = "success"
    BY <1>1, <1>9, <2>1 DEF SemanticReview, TypeOK, Jobs
  <2>3. ~ FinalReady
    BY <2>1 DEF FinalReady, Jobs
  <2>4. AggregatesItsOwn' /\ VerdictTrue'
    BY <1>1, <2>1, <2>3 DEF AggregatesItsOwn, VerdictTrue, aggregateVars
  <2>5. SemFileTrue'
    <3>1. RunSemantic' /\ SemanticVerdict' = SemanticVerdict
      BY <2>1 DEF PipelineInv, ClassTrue, RunSemantic, Risk, SemanticVerdict
    <3>2. semFile'[1] = [dimension |-> "semantic_review", verdict |-> SemanticVerdict]
      BY <2>1
    <3>3. QED
      BY <2>1, <2>2, <3>1, <3>2 DEF SemFileTrue
  <2>6. QED
    BY <1>1, <2>1, <2>4, <2>5, Undisturbed
<1>10. ASSUME NEW j \in Jobs, StepFails(j) PROVE Rest
  <2>1. /\ UNCHANGED <<kinds, size, class, written, detFile, semFile, verdict, aggregateVars>>
        /\ aggregating' = "none" /\ status' = [status EXCEPT ![j] = "failure"]
    BY <1>10 DEF StepFails
  <2>2. status'["deterministic"] = "success" => status["deterministic"] = "success"
    BY <1>1, <2>1 DEF TypeOK, Jobs
  <2>3. AggregatesItsOwn'
    BY <2>1 DEF AggregatesItsOwn
  <2>4. QED
    BY <1>2, <2>1, <2>2, <2>3
<1>11. ASSUME NEW j \in Jobs, Skip(j) PROVE Rest
  <2>1. /\ UNCHANGED <<kinds, size, class, written, aggregating, detFile, semFile, verdict, aggregateVars>>
        /\ status' = [status EXCEPT ![j] = "skipped"]
    BY <1>11 DEF Skip
  <2>2. status'["deterministic"] = "success" => status["deterministic"] = "success"
    BY <1>1, <2>1 DEF TypeOK, Jobs
  <2>3. AggregatesItsOwn'
    <3>1. CASE j = "deterministic"
      <4>1. status["deterministic"] = "pending" /\ status["classify"] # "success"
        BY <1>11, <3>1 DEF Skip
      <4>2. aggregating \notin {"deterministic", "final"}
        BY <1>1, <4>1 DEF AggregatesItsOwn, FinalReady, Jobs
      <4>3. QED
        BY <2>1, <4>2 DEF AggregatesItsOwn
    <3>2. CASE j # "deterministic"
      BY <1>1, <2>1, <3>2, AggregationUndisturbed DEF aggregateVars, TypeOK, Jobs
    <3>3. QED
      BY <3>1, <3>2
  <2>4. QED
    BY <1>2, <2>1, <2>2, <2>3
<1>12. CASE Superseded
  <2>1. /\ UNCHANGED <<kinds, size, class, written, detFile, semFile, verdict, aggregateVars>>
        /\ aggregating' = "none" /\ status'["deterministic"] \in {status["deterministic"], "cancelled"}
    BY <1>12 DEF Superseded, Jobs
  <2>2. AggregatesItsOwn'
    BY <2>1 DEF AggregatesItsOwn
  <2>3. QED
    BY <1>2, <2>1, <2>2
<1>13. CASE FinalDecision
  <2>1. /\ UNCHANGED <<kinds, size, class, written, detFile, semFile, aggregateVars>>
        /\ aggregating = "final" /\ aggregating' = "none" /\ i = Len(reports) /\ verdict' = final
        /\ status'["deterministic"] = status["deterministic"]
    BY <1>1, <1>13 DEF FinalDecision, AggregateDone, TypeOK, Jobs
  <2>2. FinalReady'
    BY <1>1, <2>1, Undisturbed DEF AggregatesItsOwn
  <2>3. SemanticWarningReachesFinal'
    BY <2>1, FinalVerdict DEF SemanticWarningReachesFinal
  <2>4. AggregatesItsOwn' /\ VerdictTrue'
    BY <2>1, <2>2, <2>3 DEF AggregatesItsOwn, VerdictTrue
  <2>5. QED
    BY <1>1, <2>1, <2>4, Undisturbed
<1>14. CASE FinalFails
  <2>1. /\ UNCHANGED <<kinds, size, class, written, detFile, semFile, verdict, aggregateVars>>
        /\ aggregating' = "none" /\ status'["deterministic"] = status["deterministic"]
    BY <1>1, <1>14 DEF FinalFails, TypeOK, Jobs
  <2>2. AggregatesItsOwn'
    BY <2>1 DEF AggregatesItsOwn
  <2>3. QED
    BY <1>2, <2>1, <2>2
<1>15. CASE UNCHANGED vars
  BY <1>1, <1>2, <1>15, AggregationUndisturbed DEF vars, jobVars, aggregateVars
<1> HIDE DEF Rest
<1>16. QED
  BY <1>3, <1>4, <1>5, <1>6, <1>7, <1>8, <1>9, <1>10, <1>11, <1>12, <1>13, <1>14, <1>15 DEF Next

-----------------------------------------------------------------------------
(* What the verdicts stand for *)

LEMMA PipelineInvariant == Spec => []PipelineInv
  BY PipelineInvInit, PipelineStep, PipelineOrderIndependent, PTL DEF Spec

\* The deterministic verdict is BLOCK exactly when an analyzer found one: no
\* report is lost between the analyzers and the artifact, and none outweighed.
THEOREM PipelineBlockingChecksBlock == Spec => []BlockingChecksBlock
<1>1. PipelineInv => BlockingChecksBlock
  BY DEF PipelineInv, DetFileTrue, BlockingChecksBlock
<1>2. QED
  BY <1>1, PipelineInvariant, PTL

\* The semantic review only saw changes within the limits that nothing blocked.
THEOREM PipelineReviewedWithinLimits == Spec => []ReviewedWithinLimits
<1>1. PipelineInv => ReviewedWithinLimits
  <2> SUFFICES ASSUME PipelineInv, semFile # <<>> PROVE ReviewedWithinLimits
    BY DEF ReviewedWithinLimits
  <2>1. RunSemantic /\ detFile # <<>> /\ detFile[1].final_verdict # "BLOCK"
    BY DEF PipelineInv, SemFileTrue, DetFileTrue
  <2>2. ~ Found("BLOCK")
    BY <2>1 DEF PipelineInv, DetFileTrue, BlockingChecksBlock, DetVerdict
  <2>3. QED
    BY <2>1, <2>2 DEF ReviewedWithinLimits, RunSemantic, Risk
<1>2. QED
  BY <1>1, PipelineInvariant, PTL

\* A warning of the semantic review is the final verdict.
THEOREM PipelineWarningReachesFinal == Spec => []SemanticWarningReachesFinal
<1>1. PipelineInv => SemanticWarningReachesFinal
  BY DEF PipelineInv, VerdictTrue, SemanticWarningReachesFinal
<1>2. QED
  BY <1>1, PipelineInvariant, PTL
=============================================================================
