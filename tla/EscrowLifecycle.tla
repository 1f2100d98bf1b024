-------------------------- MODULE EscrowLifecycle --------------------------
(***************************************************************************)
(* What the escrow contract promises about one deal, with everything that  *)
(* is not the life of a deal left out: a deal is opened for a net sum, pays *)
(* instalments only while it is open, may be frozen by a dispute, and is    *)
(* closed exactly once, either by a settlement that hands out the whole net *)
(* sum to the last unit, or by its last instalment.  A frozen deal leaves   *)
(* the frozen phase only by settlement.                                     *)
(***************************************************************************)
EXTENDS Integers

VARIABLES count,   \* number of deals opened
          deals    \* deal by identifier, 1..count

lifecycleVars == <<count, deals>>

\* A deal as it is when it is opened.
IsNew(d) ==
    /\ d.net > 0
    /\ d = [net |-> d.net, instalments |-> 0, settled |-> 0, phase |-> "open"]

LifecycleInit == count = 0 /\ DOMAIN deals = {}

\* A new deal takes the next identifier; the deals opened before keep theirs.
Open ==
    /\ count' = count + 1
    /\ deals' = [i \in 1..count' |-> IF i = count' THEN deals'[i] ELSE deals[i]]
    /\ IsNew(deals'[count'])

\* Part of the net sum is paid; the last part closes the deal.
Instalment(i) ==
    /\ deals[i].phase = "open"
    /\ deals'[i].instalments > deals[i].instalments
    /\ deals'[i].phase \in {"open", "closed"}
    /\ deals' = [deals EXCEPT ![i].instalments = deals'[i].instalments,
                              ![i].phase = deals'[i].phase]

Freeze(i) ==
    /\ deals[i].phase = "open"
    /\ deals' = [deals EXCEPT ![i].phase = "frozen"]

\* The whole net sum leaves the contract, once.
Settle(i) ==
    /\ deals[i].phase \in {"open", "frozen"}
    /\ deals' = [deals EXCEPT ![i].phase = "closed",
                              ![i].settled = deals[i].net]

LifecycleNext ==
    \/ Open
    \/ /\ \E i \in 1..count : Instalment(i) \/ Freeze(i) \/ Settle(i)
       /\ UNCHANGED count

LifecycleSpec == LifecycleInit /\ [][LifecycleNext]_lifecycleVars
=============================================================================
