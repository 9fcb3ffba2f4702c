----------------------------- MODULE MCTelemetry -----------------------------
(* Small instances of Telemetry for TLC. *)
EXTENDS Telemetry, TLC

(* Boot ids and stations are interchangeable. *)
Symmetry == Permutations(Boots) \cup Permutations(Stations)

=============================================================================
