------------------------------ MODULE BuildGate ------------------------------
(***************************************************************************)
(* What an audit promises the build that waits for its exit code: it never *)
(* passes once something blocking was found, and decides once.             *)
(***************************************************************************)
VARIABLES
  found,    \* what blocks, as far as found
  verdict   \* "running", "pass" or "fail"

gateVars == <<found, verdict>>

GateInit == found = {} /\ verdict = "running"

Find == verdict = "running" /\ found \subseteq found' /\ UNCHANGED verdict

Pass == verdict = "running" /\ found = {} /\ verdict' = "pass" /\ UNCHANGED found

\* For what was found, or for any other reason.
Refuse == verdict = "running" /\ verdict' = "fail" /\ UNCHANGED found

GateNext == Find \/ Pass \/ Refuse

GateSpec == GateInit /\ [][GateNext]_gateVars
=============================================================================
