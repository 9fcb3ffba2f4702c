---------------------------- MODULE MCCredentials ----------------------------
(* Credentials on small instances; no symmetry, as one of them is live.      *)
EXTENDS Credentials

=============================================================================
