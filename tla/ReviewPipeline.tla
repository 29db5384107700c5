--------------------------- MODULE ReviewPipeline ---------------------------
(***************************************************************************)
(* .github/workflows/ai-review.yml and tools/review: the four jobs that    *)
(* review a pull request, their dependencies, the files they hand on, and  *)
(* the verdicts the scripts compute.  Any step of a job may also fail (a   *)
(* missing dependency, a git error, a file the analyzer cannot parse).     *)
(*                                                                         *)
(* A pull request is reduced to what the scripts tell apart: the kinds of  *)
(* path it changes, as review_policy.yaml's globs see them, and which size *)
(* limit it exceeds.                                                       *)
(***************************************************************************)
EXTENDS ReviewAggregate, SequencesExt

CONSTANT PathKinds   \* kinds of changed path, a subset of AllKinds

\* A representative path and the policy entries it matches.
AllKinds ==
  {"workflow",    \* .github/workflows/ci.yml: critical, ci_only, protected
   "review_gate", \* .github/workflows/ai-review.yml: also a protected template file
   "policy",      \* tools/review/policy/*: critical, protected
   "spec",        \* spec.yaml: critical, spec_change
   "handlers",    \* engine/handlers.py: critical, engine logic
   "service",     \* engine/services/*.py: high risk, engine logic
   "tests",       \* tests/**: tests_only
   "docs",        \* docs/**: docs_only
   "other"}       \* matches nothing

ASSUME KindsAssumption == PathKinds \subseteq AllKinds

Critical == {"workflow", "review_gate", "policy", "spec", "handlers"}
HighRisk == {"service"}
Protected == {"workflow", "review_gate", "policy"}
Source == {"handlers", "service"}

\* changed_lines against the two limits: at most 800, at most 1200, above.
Sizes == {"small", "above_semantic_limit", "above_autonomous_limit"}

Steps == <<"template_compliance", "architecture_boundary", "protected_paths",
           "spec_coverage", "yaml_validation">>
ASSUME StepsAssumption ==
  ToSet(Steps) \cup {"semantic_review"} \subseteq Dimensions /\ Len(Steps) <= MaxReports
\* review_policy.yaml lists every deterministic check under blocking_checks.
ASSUME BlockingAssumption == ToSet(Steps) \subseteq Blocking

VARIABLES
  kinds, size,    \* the pull request
  status,         \* status of each job
  class,          \* pr_classification.json
  written,        \* the reports the deterministic job has written, in order
  aggregating,    \* the job that runs aggregate.py, or "none"
  detFile,        \* the deterministic-review artifact: a sequence of 0 or 1 report
  semFile,        \* the semantic-review artifact, likewise
  verdict         \* final_verdict.json, or "none"

jobVars == <<kinds, size, status, class, written, aggregating, detFile, semFile, verdict>>
vars == <<jobVars, aggregateVars>>

Jobs == {"classify", "deterministic", "semantic", "final"}

TypeOK ==
  /\ kinds \in SUBSET PathKinds /\ size \in Sizes
  /\ status \in [Jobs -> {"pending", "success", "failure", "skipped", "cancelled"}]
  /\ class \in [risk : {"low", "medium", "high", "critical"}, semantic : BOOLEAN]
  /\ written \in Seq(CheckReport) /\ Len(written) <= Len(Steps)
  /\ aggregating \in {"none", "deterministic", "final"}
  /\ detFile \in Seq(AggregateReport) /\ Len(detFile) <= 1
  /\ semFile \in Seq(CheckReport) /\ Len(semFile) <= 1
  /\ verdict \in Verdicts \cup {"none"}
  /\ AggregateTypeOK

Init ==
  /\ kinds \in SUBSET PathKinds \ {{}} /\ size \in Sizes
  /\ status = [j \in Jobs |-> "pending"]
  /\ class = [risk |-> "low", semantic |-> FALSE]
  /\ written = <<>> /\ aggregating = "none" /\ detFile = <<>> /\ semFile = <<>>
  /\ verdict = "none"
  /\ AggregateInit

-----------------------------------------------------------------------------
(* classify_pr.py.  (Names ending in _Mut: see ReviewAggregate.) *)

Risk ==
  IF size = "above_autonomous_limit" \/ kinds \cap Critical # {} THEN "critical"
  ELSE IF kinds \cap HighRisk # {} THEN "high" ELSE "medium"

RunSemanticLimit_Mut ==
  /\ Risk \in {"high", "critical"}
  /\ kinds # {"docs"} /\ kinds # {"tests"}
  /\ size # "above_autonomous_limit"
RunSemantic ==
  /\ Risk \in {"high", "critical"}
  /\ kinds # {"docs"} /\ kinds # {"tests"}
  /\ size = "small"

Classify ==
  /\ status["classify"] = "pending"
  /\ class' = [risk |-> Risk, semantic |-> RunSemantic]
  /\ status' = [status EXCEPT !["classify"] = "success"]
  /\ UNCHANGED <<kinds, size, written, aggregating, detFile, semFile, verdict, aggregateVars>>

-----------------------------------------------------------------------------
(* The deterministic job: five analyzers in order, then their aggregate *)

Running(j) ==
  /\ status[j] = "pending"
  /\ j \in {"deterministic", "semantic"} => status["classify"] = "success"
  /\ j = "semantic" => status["deterministic"] = "success"

\* What each analyzer may answer.  Required files, symbols, the registered
\* handlers and the policy files are not modelled: a rule about them may or
\* may not be broken.  Rules about the changed paths are decided by kinds.
TemplateCompliance ==
  IF "review_gate" \in kinds THEN {"BLOCK"} ELSE {"APPROVE", "BLOCK"}
ArchitectureBoundary ==
  IF "handlers" \in kinds THEN {"APPROVE", "ESCALATE", "BLOCK"}
  ELSE IF kinds \cap Source # {} THEN {"APPROVE", "BLOCK"} ELSE {"APPROVE"}
ProtectedPaths == IF kinds \cap Protected # {} THEN {"ESCALATE"} ELSE {"APPROVE"}
SpecCoverage == {"APPROVE", "ESCALATE", "BLOCK"}
YamlValidation == {"APPROVE", "BLOCK"}

Findings ==
  [template_compliance |-> TemplateCompliance,
   architecture_boundary |-> ArchitectureBoundary,
   protected_paths |-> ProtectedPaths,
   spec_coverage |-> SpecCoverage,
   yaml_validation |-> YamlValidation]

Analyze ==
  /\ Running("deterministic")
  /\ Len(written) < Len(Steps)
  /\ LET check == Steps[Len(written) + 1]
     IN  \E v \in Findings[check] :
           written' = Append(written, [dimension |-> check, verdict |-> v])
  /\ UNCHANGED <<kinds, size, status, class, aggregating, detFile, semFile, verdict, aggregateVars>>

\* aggregate.py in a job: started on some reports, then one iteration at a time.
AggregateIn(job, rs) ==
  /\ aggregating = "none"
  /\ aggregating' = job
  /\ AggregateBegin(rs)
  /\ UNCHANGED <<kinds, size, status, class, written, detFile, semFile, verdict>>

AggregateReads ==
  /\ aggregating # "none"
  /\ AggregateStep
  /\ UNCHANGED jobVars

AggregateDone(job) == aggregating = job /\ i = Len(reports) /\ aggregating' = "none"

\* The five reports are aggregated, and the artifact is uploaded.
DeterministicReportsLast_Mut == <<written[Len(written)]>>
DeterministicReports == written
AggregateDeterministic ==
  /\ Running("deterministic") /\ Len(written) = Len(Steps)
  /\ AggregateIn("deterministic", DeterministicReports)

UploadDeterministic ==
  /\ Running("deterministic") /\ AggregateDone("deterministic")
  /\ detFile' = <<[dimension |-> "aggregate", final_verdict |-> final]>>
  /\ status' = [status EXCEPT !["deterministic"] = "success"]
  /\ UNCHANGED <<kinds, size, class, written, semFile, verdict, aggregateVars>>

-----------------------------------------------------------------------------
(* The semantic job *)

\* llm/semantic_review.py
SemanticVerdict ==
  IF size # "small" THEN "ESCALATE"
  ELSE IF "spec" \in kinds /\ "tests" \notin kinds THEN "WARN" ELSE "APPROVE"

\* Its if: condition, on the outputs of the jobs it needs.
SemanticWanted == class.semantic /\ detFile[1].final_verdict # "BLOCK"

SemanticReview ==
  /\ Running("semantic") /\ SemanticWanted
  /\ semFile' = <<[dimension |-> "semantic_review", verdict |-> SemanticVerdict]>>
  /\ status' = [status EXCEPT !["semantic"] = "success"]
  /\ UNCHANGED <<kinds, size, class, written, aggregating, detFile, verdict, aggregateVars>>

-----------------------------------------------------------------------------
(* What the workflow engine does around the scripts *)

\* A step of a job fails: the job ends there, its artifact is not uploaded.
StepFails(j) ==
  /\ j \in Jobs \ {"final"} /\ Running(j)
  /\ j = "semantic" => SemanticWanted
  /\ status' = [status EXCEPT ![j] = "failure"]
  /\ aggregating' = "none"
  /\ UNCHANGED <<kinds, size, class, written, detFile, semFile, verdict, aggregateVars>>

\* A job whose needs did not succeed, or whose condition is false, is skipped.
Skip(j) ==
  /\ status[j] = "pending"
  /\ \/ j \in {"deterministic", "semantic"} /\ status["classify"] \in {"failure", "skipped"}
     \/ j = "semantic" /\ status["deterministic"] \in {"failure", "skipped"}
     \/ j = "semantic" /\ Running(j) /\ ~SemanticWanted
  /\ status' = [status EXCEPT ![j] = "skipped"]
  /\ UNCHANGED <<kinds, size, class, written, aggregating, detFile, semFile, verdict, aggregateVars>>

\* if: always() -- as soon as the needed jobs are over, however they ended.
FinalReady == \A j \in Jobs \ {"final"} : status[j] # "pending"

\* cancel-in-progress: a newer push cancels what has not ended.  A job with
\* if: always() still starts; one that runs is cancelled like a failure.
Superseded ==
  /\ status["final"] = "pending" /\ ~ FinalReady
  /\ status' = [j \in Jobs |-> IF j # "final" /\ status[j] = "pending" THEN "cancelled" ELSE status[j]]
  /\ aggregating' = "none"
  /\ UNCHANGED <<kinds, size, class, written, detFile, semFile, verdict, aggregateVars>>

\* --reports deterministic_verdict.json semantic_review.json
FinalReportsFirst_Mut == IF detFile # <<>> THEN detFile ELSE semFile
FinalReports == detFile \o semFile

AggregateFinal ==
  /\ status["final"] = "pending" /\ FinalReady
  /\ AggregateIn("final", FinalReports)

\* The final job fails the check on BLOCK and ESCALATE.
FinalDecision ==
  /\ status["final"] = "pending" /\ AggregateDone("final")
  /\ verdict' = final
  /\ status' = [status EXCEPT !["final"] =
                  IF final \in {"BLOCK", "ESCALATE"} THEN "failure" ELSE "success"]
  /\ UNCHANGED <<kinds, size, class, written, detFile, semFile, aggregateVars>>

FinalFails ==
  /\ status["final"] = "pending" /\ FinalReady
  /\ status' = [status EXCEPT !["final"] = "failure"]
  /\ aggregating' = "none"
  /\ UNCHANGED <<kinds, size, class, written, detFile, semFile, verdict, aggregateVars>>

Next ==
  \/ Classify \/ Analyze \/ AggregateDeterministic \/ UploadDeterministic \/ SemanticReview
  \/ \E j \in Jobs : StepFails(j) \/ Skip(j)
  \/ Superseded
  \/ AggregateFinal \/ AggregateReads \/ FinalDecision \/ FinalFails

Spec == Init /\ [][Next]_vars

-----------------------------------------------------------------------------
(* Correctness *)

Found(v) == \E k \in 1..Len(written) : written[k].verdict = v
DetVerdict == IF detFile = <<>> THEN "none" ELSE detFile[1].final_verdict

\* The deterministic stage keeps its promise: its verdict is BLOCK exactly
\* when one of the analyzers blocked, whichever and in whatever company.
BlockingChecksBlock == detFile # <<>> => (DetVerdict = "BLOCK" <=> Found("BLOCK"))

\* warn_if_only_advisory_findings: true -- a warning of the semantic review is
\* still there in the final verdict.
SemanticWarningReachesFinal ==
  (verdict # "none" /\ semFile # <<>> /\ semFile[1].verdict = "WARN") => verdict = "WARN"

\* The semantic review, which costs a call of a model, only ever sees changes
\* inside both size limits that touch a critical or high-risk path, and none
\* that the deterministic stage blocked (classify_pr.py:47-68, ai-review.yml:168):
\* what it saw and what the classification said two jobs earlier agree.
ReviewedWithinLimits ==
  semFile # <<>> =>
    /\ size = "small" /\ kinds \cap (Critical \cup HighRisk) # {}
    /\ ~ Found("BLOCK")

\* review_policy.yaml: block_if_any_blocking_check_fails: true.
BlockIfAnyBlockingCheckFails ==
  (status["deterministic"] = "success" /\ Found("BLOCK")) => status["final"] # "success"
=============================================================================
