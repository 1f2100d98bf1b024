----------------------------- MODULE Governance -----------------------------
(***************************************************************************)
(* The governance contract: backend/contracts/governance/src/lib.rs.         *)
(*                                                                         *)
(* Token holders lock tokens in the contract; every change of a deposit      *)
(* writes a checkpoint, and a weighted vote counts the power its voter had   *)
(* at the proposal's snapshot ledger.  A proposal that is approved can be    *)
(* queued, waits out a timelock in which a guardian may veto it, and then    *)
(* applies the parameters it carries to the configuration.                   *)
(*                                                                         *)
(* A call is one step.  Ledger sequence and timestamp advance together, so    *)
(* one clock stands for both and all durations are counted in ledgers.        *)
(***************************************************************************)
EXTENDS Integers, Sequences, FiniteSets, Functions, SequencesExt

CONSTANTS
    Accounts,      \* token holders and voters
    Guardians,     \* addresses the admin may make guardians
    Tokens,        \* the tokens each account starts with
    Amounts,       \* amounts deposited, withdrawn and transferred
    Params,        \* parameter changes proposals carry
    Fees, Limits,  \* what the admin sets directly: fees, <<min, max>> budgets
    MaxFee,        \* 1000
    Quorums,       \* quorum thresholds, in percent
    Totals,        \* values of the total voting power
    VotingPeriods, \* voting periods
    Delays,        \* timelock delays
    DefaultDelay,  \* DEFAULT_TIMELOCK_SECONDS
    None,          \* an absent Option
    MaxProposals,  \* bound on the proposals created
    MaxLedger      \* bound on the ledgers closed

ASSUME GovernanceAssumption ==
    /\ IsFiniteSet(Accounts) /\ Tokens \in Nat /\ Amounts \subseteq Nat \ {0}
    /\ Fees \subseteq Nat /\ Limits \subseteq Int \X Int /\ MaxFee \in Nat
    /\ Quorums \subseteq 0..100 /\ Totals \subseteq Nat \ {0}
    /\ VotingPeriods \subseteq Nat /\ Delays \subseteq Nat /\ DefaultDelay \in Nat
    /\ None \notin Int
    /\ Params \subseteq [fee : Nat \cup {None}, min : Int \cup {None}, max : Int \cup {None}]
    /\ None \notin Params
    /\ MaxProposals \in Nat /\ MaxLedger \in Nat

VARIABLES
    ledger,       \* the current ledger
    wallet,       \* voting tokens each account holds itself
    checkpoints,  \* per account: its voting checkpoints, oldest first
    config,       \* fee and budget limits
    settings,     \* voting token set, quorum, total power (0: unset), default timelock
    guardians,    \* guardian addresses
    proposals,    \* proposals by id: [status, yes, no, deadline, snapshot, param]
    voted,        \* one-address-one-vote records
    weighted,     \* weighted vote records
    timelock,     \* per proposal: when its queued execution unlocks
    closing       \* history: per account, its deposit at the end of each ledger

tokenVars    == <<wallet, checkpoints>>
adminVars    == <<config, settings, guardians>>
proposalVars == <<proposals, voted, weighted, timelock>>
vars == <<ledger, tokenVars, adminVars, proposalVars, closing>>

-----------------------------------------------------------------------------

Statuses == {"pending", "approved", "rejected", "executed", "vetoed"}

\* The parts lo..hi of a sequence of checkpoints, as pairs.
Ranges(D) == D \X D

\* The greatest index of cps whose checkpoint is not after ledger l, by bisection.
Bisect(cps, l) ==
    LET search[r \in Ranges(DOMAIN cps)] ==
            LET mid == r[1] + ((r[2] - r[1]) + 1) \div 2
            IN  IF r[1] >= r[2] THEN r[1]
                ELSE IF cps[mid].ledger <= l THEN search[<<mid, r[2]>>]
                                             ELSE search[<<r[1], mid - 1>>]
    IN  search[<<1, Len(cps)>>]

VotesAt(account, l) ==
    LET cps == checkpoints[account]
        n   == Len(cps)
    IN  CASE n = 0              -> 0
          [] n > 0 /\ cps[n].ledger <= l -> cps[n].votes
          [] n > 0 /\ cps[n].ledger > l /\ cps[1].ledger > l -> 0
          [] OTHER              -> cps[Bisect(cps, l)].votes

\* Whether a new checkpoint replaces the last one; the mutation always replaces.
ReplacesAny(cps)  == cps # <<>>
ReplacesLast(cps) == cps # <<>> /\ Last(cps).ledger = ledger

WriteCheckpoint(account, votes) ==
    LET cp  == [ledger |-> ledger, votes |-> votes]
        cps == checkpoints[account]
    IN  checkpoints' = [checkpoints EXCEPT ![account] =
            IF ReplacesLast(cps) THEN [cps EXCEPT ![Len(cps)] = cp]
                                 ELSE Append(cps, cp)]

-----------------------------------------------------------------------------

Init ==
    /\ ledger = 1
    /\ wallet = [a \in Accounts |-> Tokens]
    /\ checkpoints = [a \in Accounts |-> <<>>]
    /\ config = [fee |-> 50, min |-> 100, max |-> 1000000]
    /\ settings = [token |-> FALSE, quorum |-> 10, total |-> 0, delay |-> DefaultDelay]
    /\ guardians = {}
    /\ proposals = <<>>
    /\ voted = {} /\ weighted = {}
    /\ timelock = [p \in 1..MaxProposals |-> None]
    /\ closing = [a \in Accounts |-> <<>>]

CloseLedger ==
    /\ ledger < MaxLedger
    /\ ledger' = ledger + 1
    /\ closing' = [a \in Accounts |-> Append(closing[a], VotesAt(a, ledger))]
    /\ UNCHANGED <<tokenVars, adminVars, proposalVars>>

(* Deposits *)

\* Holders transfer the token among themselves.
Transfer(from, to, amount) ==
    /\ from # to
    /\ wallet[from] >= amount
    /\ wallet' = [wallet EXCEPT ![from] = @ - amount, ![to] = @ + amount]
    /\ UNCHANGED <<ledger, checkpoints, adminVars, proposalVars, closing>>

\* The deposit after adding an amount.
Increased(current, amount) == current + amount

DepositVotes(account, amount) ==
    /\ settings.token
    /\ wallet[account] >= amount
    /\ wallet' = [wallet EXCEPT ![account] = @ - amount]
    /\ WriteCheckpoint(account, Increased(VotesAt(account, ledger), amount))
    /\ UNCHANGED <<ledger, adminVars, proposalVars, closing>>

\* Whether a deposit covers a withdrawal.
Covers(current, amount) == current >= amount

WithdrawVotes(account, amount) ==
    /\ settings.token
    /\ Covers(VotesAt(account, ledger), amount)
    /\ wallet' = [wallet EXCEPT ![account] = @ + amount]
    /\ WriteCheckpoint(account, VotesAt(account, ledger) - amount)
    /\ UNCHANGED <<ledger, adminVars, proposalVars, closing>>

-----------------------------------------------------------------------------
(* Proposals and votes *)

\* The ledger at which voting power is measured; the mutation takes the ledger
\* of the proposal itself.
CurrentLedger  == ledger
SnapshotLedger == IF ledger > 0 THEN ledger - 1 ELSE 0

\* create_proposal, and create_param_proposal when param is not None.
CreateProposal(period, param) ==
    /\ Len(proposals) < MaxProposals
    /\ proposals' = Append(proposals,
          [status |-> "pending", yes |-> 0, no |-> 0, deadline |-> ledger + period,
           snapshot |-> SnapshotLedger, param |-> param])
    /\ UNCHANGED <<ledger, tokenVars, adminVars, voted, weighted, timelock, closing>>

VotingOpen(p) ==
    /\ proposals[p].status = "pending"
    /\ ledger < proposals[p].deadline

Count(p, yes, weight) ==
    IF yes THEN proposals' = [proposals EXCEPT ![p].yes = @ + weight]
           ELSE proposals' = [proposals EXCEPT ![p].no = @ + weight]

CastVote(voter, p, yes) ==
    /\ VotingOpen(p)
    /\ ~\E v \in voted : v.proposal = p /\ v.voter = voter
    /\ Count(p, yes, 1)
    /\ voted' = voted \cup {[proposal |-> p, voter |-> voter, weight |-> 1, yes |-> yes]}
    /\ UNCHANGED <<ledger, tokenVars, adminVars, weighted, timelock, closing>>

\* Whether a holder has voted with weight already.
WeightedCast(voter, p) == \E v \in weighted : v.proposal = p /\ v.voter = voter

VoteWeighted(voter, p, yes) ==
    LET power == VotesAt(voter, proposals[p].snapshot)
    IN  /\ power > 0
        /\ VotingOpen(p)
        /\ ~WeightedCast(voter, p)
        /\ Count(p, yes, power)
        /\ weighted' = weighted \cup
              {[proposal |-> p, voter |-> voter, weight |-> power, yes |-> yes]}
        /\ UNCHANGED <<ledger, tokenVars, adminVars, voted, timelock, closing>>

\* The outcome of a vote; the mutation approves a tie.
TieApproves(p) == IF proposals[p].yes >= proposals[p].no THEN "approved" ELSE "rejected"
Outcome(p)     == IF proposals[p].yes > proposals[p].no THEN "approved" ELSE "rejected"

\* Whether the vote can be decided; the mutation decides it again.
DeadlinePassed(p) == ledger >= proposals[p].deadline
Decidable(p)      == ledger >= proposals[p].deadline /\ proposals[p].status = "pending"

Decide(p) ==
    /\ Decidable(p)
    /\ proposals' = [proposals EXCEPT ![p].status = Outcome(p)]
    /\ UNCHANGED <<ledger, tokenVars, adminVars, voted, weighted, timelock, closing>>

\* execute_proposal decides without a quorum, finalize_proposal with one.
ExecuteProposal(p) == Decide(p)

Participation(p) ==
    ((proposals[p].yes + proposals[p].no) * 100) \div settings.total

FinalizeProposal(p) ==
    /\ settings.total > 0
    /\ Participation(p) >= settings.quorum
    /\ Decide(p)

-----------------------------------------------------------------------------
(* Timelock, execution and veto *)

\* Queueing again replaces the timelock.
QueueExecution(p, delay) ==
    /\ proposals[p].status = "approved"
    /\ timelock' = [timelock EXCEPT ![p] = ledger + delay]
    /\ UNCHANGED <<ledger, tokenVars, adminVars, proposals, voted, weighted, closing>>

QueueExecutionDefault(p) == QueueExecution(p, settings.delay)

\* A carried value, or the one in force.
Choose(target, current) == IF target = None THEN current ELSE target

ApplyParam(param) ==
    IF param = None THEN UNCHANGED config
    ELSE /\ param.fee # None => param.fee <= MaxFee
         /\ param.min # None => param.min > 0
         /\ config' = [fee |-> Choose(param.fee, config.fee),
                       min |-> Choose(param.min, config.min),
                       max |-> Choose(param.max, config.max)]

\* The timelock once the proposal is done.
ClearsTimelock(p) == [timelock EXCEPT ![p] = None]

ExecuteTimelocked(p) ==
    /\ timelock[p] # None
    /\ ledger >= timelock[p]
    /\ proposals[p].status = "approved"
    /\ ApplyParam(proposals[p].param)
    /\ proposals' = [proposals EXCEPT ![p].status = "executed"]
    /\ timelock' = ClearsTimelock(p)
    /\ UNCHANGED <<ledger, tokenVars, settings, guardians, voted, weighted, closing>>

VetoProposal(guardian, p) ==
    /\ guardian \in guardians
    /\ timelock[p] # None
    /\ proposals[p].status = "approved"
    /\ proposals' = [proposals EXCEPT ![p].status = "vetoed"]
    /\ timelock' = ClearsTimelock(p)
    /\ UNCHANGED <<ledger, tokenVars, adminVars, voted, weighted, closing>>

-----------------------------------------------------------------------------
(* What only the admin can call *)

SetVotingToken ==
    /\ ~settings.token
    /\ settings' = [settings EXCEPT !.token = TRUE]
    /\ UNCHANGED <<ledger, tokenVars, config, guardians, proposalVars, closing>>

SetPlatformFee(fee) ==
    /\ fee <= MaxFee
    /\ config' = [config EXCEPT !.fee = fee]
    /\ UNCHANGED <<ledger, tokenVars, settings, guardians, proposalVars, closing>>

SetBountyLimits(min, max) ==
    /\ min > 0
    /\ max > min
    /\ config' = [config EXCEPT !.min = min, !.max = max]
    /\ UNCHANGED <<ledger, tokenVars, settings, guardians, proposalVars, closing>>

SetQuorumPercent(quorum) ==
    /\ settings' = [settings EXCEPT !.quorum = quorum]
    /\ UNCHANGED <<ledger, tokenVars, config, guardians, proposalVars, closing>>

SetTotalVotingPower(total) ==
    /\ settings' = [settings EXCEPT !.total = total]
    /\ UNCHANGED <<ledger, tokenVars, config, guardians, proposalVars, closing>>

SetTimelockDuration(delay) ==
    /\ settings' = [settings EXCEPT !.delay = delay]
    /\ UNCHANGED <<ledger, tokenVars, config, guardians, proposalVars, closing>>

AddGuardian(guardian) ==
    /\ guardians' = guardians \cup {guardian}
    /\ UNCHANGED <<ledger, tokenVars, config, settings, proposalVars, closing>>

RemoveGuardian(guardian) ==
    /\ guardians' = guardians \ {guardian}
    /\ UNCHANGED <<ledger, tokenVars, config, settings, proposalVars, closing>>

AdminCall ==
    \/ SetVotingToken
    \/ \E fee \in Fees : SetPlatformFee(fee)
    \/ \E limits \in Limits : SetBountyLimits(limits[1], limits[2])
    \/ \E quorum \in Quorums : SetQuorumPercent(quorum)
    \/ \E total \in Totals : SetTotalVotingPower(total)
    \/ \E delay \in Delays : SetTimelockDuration(delay)
    \/ \E guardian \in Guardians : AddGuardian(guardian) \/ RemoveGuardian(guardian)

-----------------------------------------------------------------------------

Deposits ==
    \E a \in Accounts, amount \in Amounts :
        \/ DepositVotes(a, amount)
        \/ WithdrawVotes(a, amount)
        \/ \E b \in Accounts : Transfer(a, b, amount)

Ballots ==
    \E p \in DOMAIN proposals, voter \in Accounts, yes \in BOOLEAN :
        CastVote(voter, p, yes) \/ VoteWeighted(voter, p, yes)

Executions ==
    \E p \in DOMAIN proposals :
        \/ ExecuteProposal(p)
        \/ FinalizeProposal(p)
        \/ \E delay \in Delays : QueueExecution(p, delay)
        \/ QueueExecutionDefault(p)
        \/ ExecuteTimelocked(p)
        \/ \E guardian \in Guardians : VetoProposal(guardian, p)

Next ==
    \/ CloseLedger
    \/ Deposits
    \/ \E period \in VotingPeriods, param \in Params \cup {None} :
          CreateProposal(period, param)
    \/ Ballots
    \/ Executions
    \/ AdminCall

Spec == Init /\ [][Next]_vars

-----------------------------------------------------------------------------
(* Properties *)

\* get_past_votes answers for every past ledger with the power the account had
\* when that ledger closed, whatever deposits and withdrawals came later.
PastVotesExact ==
    \A a \in Accounts : \A l \in DOMAIN closing[a] : VotesAt(a, l) = closing[a][l]

Weight(votes) == FoldFunction(LAMBDA x, y : x + y, 0, [v \in votes |-> v.weight])

\* The same tokens never weigh twice on a proposal: however they move between
\* accounts, the weights cast on a proposal stay within the tokens in existence.
NoDoublePower ==
    \A p \in DOMAIN proposals :
        Weight({v \in weighted : v.proposal = p}) <= Tokens * Cardinality(Accounts)

\* Only an approved proposal is queued: one that was executed or vetoed has no
\* timelock left, so it cannot be executed again.
QueuedIsApproved ==
    \A p \in 1..MaxProposals : timelock[p] # None =>
        p \in DOMAIN proposals /\ proposals[p].status = "approved"

\* A decided proposal stands for the majority of its final tally.
OutcomeMatchesTally ==
    \A p \in DOMAIN proposals :
        /\ proposals[p].status \in {"approved", "executed", "vetoed"} =>
              proposals[p].yes > proposals[p].no
        /\ proposals[p].status = "rejected" => ~(proposals[p].yes > proposals[p].no)

\* A decision is final: a proposal rejected, executed or vetoed stays so with the
\* tally it had, and an approved one can only be executed or vetoed.
DecidedIsFinal ==
    [][\A p \in DOMAIN proposals :
          LET before == proposals[p]
              after  == proposals'[p]
          IN  /\ before.status \in {"rejected", "executed", "vetoed"} => after = before
              /\ before.status = "approved" =>
                    \E status \in {"approved", "executed", "vetoed"} :
                        after = [before EXCEPT !.status = status]]_vars

=============================================================================
