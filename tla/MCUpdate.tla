------------------------------ MODULE MCUpdate ------------------------------
(* Update on a small instance; no symmetry, as it is live.                   *)
EXTENDS Update

=============================================================================
