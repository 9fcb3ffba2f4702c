------------------------------ MODULE MCHealth ------------------------------
(* Health on a small instance: a queue of one, so that it is full, empty and *)
(* turned over between two queries, and a clock with one step back.          *)
EXTENDS Health

=============================================================================
