------------------------------ MODULE MCDeploy ------------------------------
EXTENDS Deploy, TLC

Symmetry == Permutations(Operators)

Full == [services |-> Services, sync |-> TRUE, rebuild |-> TRUE, prune |-> FALSE, dry |-> FALSE]
One == [Full EXCEPT !.services = {CHOOSE s \in Services : TRUE}]

\* A full run; one for one service without sync, or with sync and --prune-docker;
\* --no-rebuild; and a full run with --dry-run.
MCModes == {Full, [One EXCEPT !.sync = FALSE], [One EXCEPT !.prune = TRUE],
            [Full EXCEPT !.rebuild = FALSE], [Full EXCEPT !.dry = TRUE]}

MCDryModes == {[Full EXCEPT !.dry = TRUE]}
=============================================================================
