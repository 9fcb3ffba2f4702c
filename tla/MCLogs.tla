------------------------------- MODULE MCLogs -------------------------------
(* Logs on a small instance: a buffer of two entries that overflows several  *)
(* times.                                                                    *)
EXTENDS Logs

=============================================================================
