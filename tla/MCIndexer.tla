------------------------------ MODULE MCIndexer ------------------------------
(* An instance of the indexer small enough for TLC. *)
EXTENDS Indexer

CONSTANTS f1, a1

\* A freelancer and an application.
TwoKinds == (f1 :> "freelancer") @@ (a1 :> "application")
=============================================================================
