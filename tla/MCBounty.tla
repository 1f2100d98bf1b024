------------------------------ MODULE MCBounty ------------------------------
(* Two parts: two escrows of a bounty with their milestones and disputes, and a  *)
(* bounty of its own contract over the escrows that fund it and pay it back.     *)
(* What is true of the escrows is checked in both.                               *)
EXTENDS Bounty, TLC

VARIABLE part

MCVars == <<vars, bountyVars, part>>

Symmetry == Permutations(Addrs)

\* Two signers, and one or both of them approve.
MCSigners   == {<<a, b>> : a, b \in Addrs} \ {<<a, a>> : a \in Addrs}
MCApprovals == MCSigners \cup {<<a>> : a \in Addrs}

MCInit == Init /\ BountyInit /\ part \in {"escrows", "bounty"}

EscrowsPart ==
    /\ part = "escrows"
    /\ Next
    /\ \A id \in DOMAIN escrow' : escrow'[id].bounty = 1 /\ escrow'[id].unlockAt = 1
    /\ UNCHANGED <<bountyVars, part>>

\* What happens to the escrows of the bounty outside of its contract: one more
\* deposit for it, releases and refunds by the payers, and the passage of its
\* deadline.
EscrowCall ==
    \/ \E payer \in Addrs : counter < 2 /\ Deposit(1, payer, payer, 40, 0)
    \/ \E id \in Ids : ReleaseFunds(escrow[id].payer, id) \/ RefundEscrow(escrow[id].payer, id)
    \/ RefundExpiredBounty(1)
    \/ bounty # <<>> /\ Tick

\* One bounty, which the owner of the contract creates; anyone may apply for it,
\* and for one that does not exist yet.  The owner links the escrow contract,
\* then names the signers, himself first, and lowers the threshold last.
BountyPart ==
    /\ part = "bounty"
    /\ \/ /\ BountyNext
          /\ Len(bounty') <= 1
          /\ \A b \in DOMAIN bounty' : owner' \in {NoAddr, bounty'[b].creator}
          /\ signers' # <<>> => linked' /\ signers'[1] = owner' /\ required' = 2
          /\ threshold' = 40 => signers' # <<>>
       \/ EscrowCall /\ UNCHANGED bountyVars
    /\ UNCHANGED part

MCSpec == MCInit /\ [][EscrowsPart \/ BountyPart]_MCVars
=============================================================================
