------------------------------ MODULE MCDrainer ------------------------------
(* Instances of the drainer small enough for TLC. *)
EXTENDS Drainer, TLC

\* All workers run in the one server process.
OneServer == [w \in Workers |-> "server"]

\* The invocations are interchangeable (safety only).
WorkerSymmetry == Permutations(Workers)
=============================================================================
