----------------------------- MODULE MCTickets ------------------------------
(* Constants for model-checking Tickets.                                   *)
EXTENDS Tickets, TLC

\* The messages are alike.
Symmetric == Permutations(Messages)
=============================================================================
