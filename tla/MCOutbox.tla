------------------------------ MODULE MCOutbox ------------------------------
(* The outbox on a small instance.  Events are interchangeable and so are  *)
(* passes; the symmetry is used only by runs without liveness.             *)
EXTENDS Outbox, TLC

Symmetry == Permutations(Event) \cup Permutations(Worker)
=============================================================================
