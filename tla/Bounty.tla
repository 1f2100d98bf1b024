------------------------------- MODULE Bounty -------------------------------
(***************************************************************************)
(* The Soroban bounty contract, backend/contracts/bounty/src/lib.rs, over   *)
(* the escrow contract it funds bounties with and has them refunded by.     *)
(*                                                                         *)
(* A call is one ledger transaction together with the calls it makes: when   *)
(* the escrow contract refuses, nothing of it remains.  The admin slot is    *)
(* set once here; its hand-over is the library's that Escrow models.         *)
(***************************************************************************)
EXTENDS Escrow, Sequences, SequencesExt

CONSTANTS
    Budgets,         \* arguments of create_bounty tried
    Deadlines,       \* arguments of create_bounty tried
    Thresholds,      \* arguments of set_multisig_threshold tried
    SignerLists,     \* arguments of set_multisig_signers tried
    Approvals,       \* arguments of complete_bounty tried
    MaxApplications  \* bound on the applications

\* What the bounty contract asks of the escrow contract is among what that is
\* asked: a bounty's budget, to be released on completion.
ASSUME BountyAssumption ==
    /\ Budgets \subseteq Nat /\ Budgets \subseteq Amounts /\ 0 \in UnlockTimes
    /\ Bounties \subseteq Nat
    /\ Deadlines \subseteq Nat
    /\ Thresholds \subseteq Nat
    /\ SignerLists \subseteq Seq(Addrs)
    /\ Approvals \subseteq Seq(Addrs)
    /\ MaxApplications \in Nat

VARIABLES
    bounty,       \* Bounty by identifier
    application,  \* BountyApplication by identifier
    owner,        \* bounty_admin
    linked,       \* EscrowContract is set
    signers,      \* MultisigSigners, empty when not set
    required,     \* MultisigRequired
    threshold,    \* MultisigThreshold
    funding,      \* history: the escrow a bounty was created with, 0 if none
    submitter,    \* history: who submitted since the last selection
    expired       \* history: bounties expired and refunded through this escrow

multisigVars == <<owner, linked, signers, required, threshold>>
awardVars    == <<application, submitter>>
bountyVars   == <<bounty, multisigVars, awardVars, funding, expired>>

BountyStatus == {"Open", "InProgress", "PendingCompletion", "Completed", "Cancelled"}
BountyRecord == [creator : Addrs, budget : Budgets, deadline : Deadlines,
                 status : BountyStatus, freelancer : Addrs \cup {NoAddr}, escrowId : Nat]
Application  == [bounty : Nat, freelancer : Addrs]

BountyInit ==
    /\ bounty = <<>> /\ application = <<>>
    /\ owner = NoAddr /\ linked = FALSE
    /\ signers = <<>> /\ required = 0 /\ threshold = 1000
    /\ funding = <<>> /\ submitter = <<>> /\ expired = {}

-----------------------------------------------------------------------------
(* Configuration *)

\* initialize and set_admin: whoever comes first.
Initialize(caller) ==
    /\ owner = NoAddr
    /\ owner' = caller
    /\ UNCHANGED <<vars, bounty, linked, signers, required, threshold, awardVars, funding, expired>>

SetEscrowContract(caller) ==
    /\ caller = owner
    /\ linked' = TRUE
    /\ UNCHANGED <<vars, bounty, owner, signers, required, threshold, awardVars, funding, expired>>

SetMultisigSigners(caller, list, count) ==
    /\ caller = owner
    /\ count \in 1 .. Len(list)
    /\ signers' = list /\ required' = count
    /\ UNCHANGED <<vars, bounty, owner, linked, threshold, awardVars, funding, expired>>

SetMultisigThreshold(caller, value) ==
    /\ caller = owner
    /\ value > 0
    /\ threshold' = value
    /\ UNCHANGED <<vars, bounty, owner, linked, signers, required, awardVars, funding, expired>>

-----------------------------------------------------------------------------
(* Creation and funding *)

NewBounty(creator, budget, deadline, escrowId) ==
    /\ Len(bounty) + 1 \in Bounties
    /\ bounty' = Append(bounty, [creator |-> creator, budget |-> budget,
                    deadline |-> deadline, status |-> "Open", freelancer |-> NoAddr,
                    escrowId |-> escrowId])
    /\ funding' = Append(funding, escrowId)
    /\ submitter' = Append(submitter, NoAddr)

CreateBounty(creator, budget, deadline) ==
    /\ NewBounty(creator, budget, deadline, 0)
    /\ UNCHANGED <<vars, application, multisigVars, expired>>

\* The identifier that deposit returns; the mutation takes the one before it.
LastEscrow == counter
NextEscrow == counter + 1

\* The escrow is deposited by the creator for himself.
CreateAndFundBounty(creator, budget, deadline) ==
    /\ linked
    /\ NewBounty(creator, budget, deadline, NextEscrow)
    /\ Deposit(Len(bounty) + 1, creator, creator, budget, 0)
    /\ UNCHANGED <<application, multisigVars, expired>>

LinkEscrow(caller, b, id) ==
    /\ caller = bounty[b].creator
    /\ bounty' = [bounty EXCEPT ![b].escrowId = id]
    /\ UNCHANGED <<vars, multisigVars, awardVars, funding, expired>>

-----------------------------------------------------------------------------
(* Award and completion *)

\* No status is asked for, nor that the bounty exists.
ApplyForBounty(freelancer, b) ==
    /\ Len(application) < MaxApplications
    /\ application' = Append(application, [bounty |-> b, freelancer |-> freelancer])
    /\ UNCHANGED <<vars, bounty, multisigVars, submitter, funding, expired>>

\* What the selection makes of the bounty, whatever its status was; the mutation
\* leaves a submitted one as it is.
KeepsSubmitted(b) == IF bounty[b].status = "PendingCompletion"
                     THEN "PendingCompletion" ELSE "InProgress"
SelectedStatus(b) == "InProgress"

SelectFreelancer(caller, b, a) ==
    /\ caller = bounty[b].creator
    /\ application[a].bounty = b
    /\ bounty' = [bounty EXCEPT ![b].freelancer = application[a].freelancer,
                                ![b].status = SelectedStatus(b)]
    /\ submitter' = [submitter EXCEPT ![b] = NoAddr]
    /\ UNCHANGED <<vars, application, multisigVars, funding, expired>>

SubmitCompletion(caller, b) ==
    /\ bounty[b].status = "InProgress"
    /\ bounty[b].freelancer = caller
    /\ bounty' = [bounty EXCEPT ![b].status = "PendingCompletion"]
    /\ submitter' = [submitter EXCEPT ![b] = caller]
    /\ UNCHANGED <<vars, application, multisigVars, funding, expired>>

IsHighValue(b) == bounty[b].budget >= threshold

\* The approvers, every one of whom signs the call, make up a quorum.
Quorum(approvers) ==
    /\ signers # <<>>
    /\ Len(approvers) >= required
    /\ ToSet(approvers) \subseteq ToSet(signers)
    /\ IsInjective(approvers)

\* No money moves: the escrow stays as it is.
CompleteBounty(caller, b, approvers) ==
    /\ caller = bounty[b].creator
    /\ bounty[b].status = "PendingCompletion"
    /\ IsHighValue(b) => Quorum(approvers)
    /\ bounty' = [bounty EXCEPT ![b].status = "Completed"]
    /\ UNCHANGED <<vars, application, submitter, multisigVars, funding, expired>>

-----------------------------------------------------------------------------
(* Cancellation and expiry *)

CancelBounty(caller, b) ==
    /\ caller = bounty[b].creator
    /\ bounty[b].status = "Open"
    /\ bounty' = [bounty EXCEPT ![b].status = "Cancelled"]
    /\ UNCHANGED <<vars, multisigVars, awardVars, funding, expired>>

\* Anyone may expire a bounty.  The caller names the escrow contract; another
\* one than this may refund something else, or nothing.  The mutation goes on
\* when the refund is refused.
RefundOrGoOn(b) == RefundExpiredBounty(b) \/ UNCHANGED vars
RefundedFor(b)  == RefundExpiredBounty(b)

CheckAndExpireBounty(b) ==
    /\ now > bounty[b].deadline
    /\ bounty[b].status = "Open"
    /\ bounty' = [bounty EXCEPT ![b].status = "Cancelled"]
    /\ \/ RefundedFor(b) /\ expired' = expired \cup {b}
       \/ UNCHANGED <<vars, expired>>
    /\ UNCHANGED <<multisigVars, awardVars, funding>>

-----------------------------------------------------------------------------

OwnerCall(caller) ==
    \/ Initialize(caller)
    \/ SetEscrowContract(caller)
    \/ \E list \in SignerLists : \E count \in DOMAIN list :
          SetMultisigSigners(caller, list, count)
    \/ \E value \in Thresholds : SetMultisigThreshold(caller, value)

CreatorCall(caller) ==
    \/ \E budget \in Budgets, deadline \in Deadlines :
          CreateBounty(caller, budget, deadline) \/ CreateAndFundBounty(caller, budget, deadline)
    \/ \E b \in DOMAIN bounty :
          \/ \E id \in Ids : LinkEscrow(caller, b, id)
          \/ \E a \in DOMAIN application : SelectFreelancer(caller, b, a)
          \/ \E approvers \in Approvals : CompleteBounty(caller, b, approvers)
          \/ CancelBounty(caller, b)

FreelancerCall(caller) ==
    \/ \E b \in Bounties : ApplyForBounty(caller, b)
    \/ \E b \in DOMAIN bounty : SubmitCompletion(caller, b)

BountyNext ==
    \/ \E caller \in Addrs : OwnerCall(caller) \/ CreatorCall(caller) \/ FreelancerCall(caller)
    \/ \E b \in DOMAIN bounty : CheckAndExpireBounty(b)

\* The escrow contract is also called by others.
BountySpec ==
    /\ Init /\ BountyInit
    /\ [][BountyNext \/ (Next /\ UNCHANGED bountyVars)]_<<vars, bountyVars>>

-----------------------------------------------------------------------------
(* Properties *)

\* The records refer to what exists: an awarded bounty has a freelancer, and the
\* escrow it was created with is a deposit of its creator, for it.
BountyTypeOK ==
    /\ bounty \in Seq(BountyRecord) /\ application \in Seq(Application)
    /\ owner \in Addrs \cup {NoAddr} /\ linked \in BOOLEAN
    /\ signers \in Seq(Addrs) /\ required \in 0 .. Len(signers) /\ threshold \in Nat
    /\ \A b \in DOMAIN bounty : funding[b] # 0 =>
          /\ funding[b] \in Ids
          /\ escrow[funding[b]].bounty = b
          /\ escrow[funding[b]].payer = bounty[b].creator
    /\ expired \subseteq DOMAIN bounty

\* Work is approved only of the freelancer who holds the bounty: whoever is
\* selected while it waits for approval or is completed applied for it and
\* submitted after being selected, however often the selection changed.
AwardEarned ==
    \A b \in DOMAIN bounty :
        bounty[b].status \in {"PendingCompletion", "Completed"} =>
            /\ submitter[b] = bounty[b].freelancer
            /\ \E a \in DOMAIN application :
                  application[a] = [bounty |-> b, freelancer |-> submitter[b]]

\* An expired bounty got its money back: the escrow it was created with is
\* refunded in full, whatever its parties did with it before - unless a later
\* deposit for the same bounty took its place, which is the one refunded then.
ExpiryRefunds ==
    \A b \in expired :
        LET id == funding[b]
        IN  id # 0 => \/ escrow[id].status = "Refunded" /\ paid[id].payer = escrow[id].amount
                      \/ \E later \in Ids : later > id /\ escrow[later].bounty = b
=============================================================================
