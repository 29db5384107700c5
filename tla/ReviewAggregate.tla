-------------------------- MODULE ReviewAggregate --------------------------
(***************************************************************************)
(* tools/review/aggregate.py: aggregate_reports, the loop that folds the   *)
(* reports named on the command line into one verdict.  The loop is a      *)
(* state machine, so that what it computes for every list of reports can   *)
(* be proved with a loop invariant.  ReviewPipeline extends it: two of its *)
(* jobs run the script.                                                    *)
(***************************************************************************)
EXTENDS Naturals, Sequences

CONSTANTS Dimensions,   \* names of the checks that write a report
          Blocking,     \* policy["blocking_checks"]
          Advisory,     \* policy["advisory_checks"]
          MaxReports    \* bound: reports given on the command line

ASSUME PolicyAssumption == Blocking \cap Advisory = {}
ASSUME MaxReportsAssumption == MaxReports \in Nat

Verdicts == {"APPROVE", "WARN", "ESCALATE", "BLOCK"}

\* A report file: written by a check, or by aggregate.py itself, which names
\* its verdict "final_verdict" and its dimension "aggregate".
CheckReport == [dimension : Dimensions, verdict : Verdicts]
AggregateReport == [dimension : {"aggregate"}, final_verdict : Verdicts]
Report == CheckReport \cup AggregateReport

\* report.get("verdict", "APPROVE")
VerdictOf(r) == IF "verdict" \in DOMAIN r THEN r.verdict ELSE "APPROVE"

\* One iteration.  (A name ending in _Mut is a plausible bug in the definition
\* after it, kept to show which property notices; it is not part of the model.)
AbsorbLast_Mut(v, r) ==
  IF r.dimension \in Blocking /\ VerdictOf(r) = "BLOCK" THEN "BLOCK"
  ELSE IF r.dimension \in Advisory /\ VerdictOf(r) = "ESCALATE" /\ v # "BLOCK" THEN "ESCALATE"
  ELSE IF VerdictOf(r) = "WARN" THEN "WARN" ELSE "APPROVE"
Absorb(v, r) ==
  IF r.dimension \in Blocking /\ VerdictOf(r) = "BLOCK" THEN "BLOCK"
  ELSE IF r.dimension \in Advisory /\ VerdictOf(r) = "ESCALATE" /\ v # "BLOCK" THEN "ESCALATE"
  ELSE IF VerdictOf(r) = "WARN" /\ v = "APPROVE" THEN "WARN" ELSE v

VARIABLES reports,   \* the list, files that do not exist left out
          i,         \* reports absorbed so far
          final      \* final_verdict

aggregateVars == <<reports, i, final>>

AggregateTypeOK ==
  /\ reports \in Seq(Report)
  /\ i \in 0..Len(reports)
  /\ final \in Verdicts

ReportLists == UNION {[1..n -> Report] : n \in 0..MaxReports}

AggregateInit == reports = <<>> /\ i = 0 /\ final = "APPROVE"

\* The script is started on the reports rs.
AggregateBegin(rs) == reports' = rs /\ i' = 0 /\ final' = "APPROVE"

AggregateStep ==
  /\ i < Len(reports)
  /\ i' = i + 1
  /\ final' = Absorb(final, reports[i + 1])
  /\ UNCHANGED reports

AggregateNext == AggregateStep \/ \E rs \in ReportLists : AggregateBegin(rs)

AggregateSpec == AggregateInit /\ [][AggregateNext]_aggregateVars

-----------------------------------------------------------------------------
\* The verdict of a set of reports, by priority: no order of the reports and
\* no report after the deciding one matters.
VerdictOfSet(S) ==
  IF \E r \in S : r.dimension \in Blocking /\ VerdictOf(r) = "BLOCK" THEN "BLOCK"
  ELSE IF \E r \in S : r.dimension \in Advisory /\ VerdictOf(r) = "ESCALATE" THEN "ESCALATE"
  ELSE IF \E r \in S : VerdictOf(r) = "WARN" THEN "WARN" ELSE "APPROVE"

Absorbed == {reports[j] : j \in 1..i}

\* The loop computes the priority verdict of the reports it has read, so the
\* order in which the checks are listed cannot change a decision.
OrderIndependent == final = VerdictOfSet(Absorbed)

\* Reading on never weakens a decision (a BLOCK stays a BLOCK, an ESCALATE is
\* only replaced by a BLOCK): VERDICT_PRIORITY is respected step by step.
Rank(v) == CASE v = "APPROVE" -> 1 [] v = "WARN" -> 2 [] v = "ESCALATE" -> 3 [] OTHER -> 4
NeverWeakened == [][i' > i => Rank(final') >= Rank(final)]_aggregateVars
=============================================================================
