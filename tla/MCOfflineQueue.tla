---------------------------- MODULE MCOfflineQueue ----------------------------
(* An instance of the offline queue small enough for TLC. *)
EXTENDS OfflineQueue
=============================================================================
