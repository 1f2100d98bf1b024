------------------------------ MODULE MCEscrow ------------------------------
(* Instances of the escrow contract small enough for TLC. *)
EXTENDS Escrow, TLC

Symmetry == Permutations(Addrs)

\* The default fee of 2.5% and a higher one cut by its cap.
MCFeeConfigs == {[bps |-> 1000, cap |-> 2]}
=============================================================================
