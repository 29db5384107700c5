----------------------------- MODULE MCChassis -----------------------------
(* Chassis for TLC: requests are interchangeable, and bridges are. *)
EXTENDS Chassis, TLC

Symmetry == Permutations(Requests) \cup Permutations(Bridges)
=============================================================================
