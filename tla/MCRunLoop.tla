----------------------------- MODULE MCRunLoop -----------------------------
(* RunLoop on a small instance: one tick stands for about ten seconds, and a *)
(* platform asks for less or for more than it may.                           *)
EXTENDS RunLoop

RetryAfters == {0, CAP + 4}

=============================================================================
