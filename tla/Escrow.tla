------------------------------- MODULE Escrow -------------------------------
(***************************************************************************)
(* The Soroban escrow contract, backend/contracts/escrow/src/lib.rs: the    *)
(* custody of deposits, their release, refund and dispute, milestones, the  *)
(* platform fee, the admin slot and the oracle gate.  Yield accrual, which  *)
(* can pay its yield out of the same balance, is not modelled.              *)
(*                                                                         *)
(* A call of the contract is one ledger transaction: it commits whole or    *)
(* rolls back whole, so each entry point is one action and its `ensure`s    *)
(* and `require_auth`s are the action's guards.  A token transfer fails,    *)
(* and with it the call, when the contract's balance is too small.  One     *)
(* token is modelled: an escrow touches only the balance of its own token.  *)
(***************************************************************************)
EXTENDS Integers, FiniteSets, Functions

CONSTANTS
    Addrs,             \* accounts that call the contract
    NoAddr,            \* "not set" in an Option<Address>
    Bounties,          \* bounty identifiers
    Indices,           \* milestone indices
    Amounts,           \* gross deposits tried
    MsAmounts,         \* milestone amounts tried
    Nominees,          \* arguments of propose_admin tried
    UnlockTimes,       \* release conditions tried; 0 is OnCompletion
    FeeConfigs,        \* arguments of update_fee tried
    SplitChoices,      \* arguments of set_dispute_split tried
    StalenessChoices,  \* arguments of set_oracle_staleness_secs tried
    Oracles,           \* arguments of set_oracle_address tried
    DefaultStaleness,  \* get_oracle_staleness_secs when never set
    MinStaleness, MaxStaleness,  \* MIN_/MAX_ORACLE_STALENESS_SECS
    MaxPriceAge,       \* the oracle contract's MAX_PRICE_AGE_SECS
    DisputeTimeout,    \* DISPUTE_TIMEOUT_SECS
    MaxEscrows,        \* bound on the number of deposits
    MaxTime            \* bound on the ledger clock

ASSUME EscrowAssumption ==
    /\ NoAddr \notin Addrs
    /\ Nominees \subseteq Addrs
    /\ Amounts \subseteq Nat
    /\ MsAmounts \subseteq Nat
    /\ UnlockTimes \subseteq Nat
    /\ IsFiniteSet(Indices)
    /\ FeeConfigs \subseteq [bps : Nat, cap : Nat]
    /\ SplitChoices \subseteq Nat
    /\ StalenessChoices \subseteq Nat
    /\ DefaultStaleness \in Nat
    /\ MinStaleness \in Nat /\ MaxStaleness \in Nat
    /\ MaxPriceAge \in Nat
    /\ DisputeTimeout \in Nat \ {0}
    /\ MaxEscrows \in Nat
    /\ MaxTime \in Nat

VARIABLES
    now,           \* ledger timestamp
    counter,       \* escrow_counter: the identifier of the last deposit
    escrow,        \* EscrowAccount by identifier, 1..counter
    bountyEscrow,  \* b_esc: the escrow of a bounty, 0 when there is none
    milestone,     \* Milestone by escrow and index; amount 0 when absent
    progress,      \* MilestoneCount, Total, ReleasedCount, ReleasedAmount
    disputeExpiry, \* DisputeExpiry by escrow, 0 when absent
    disputeSplit,  \* DisputeSplit, the payee's share in basis points
    admin,         \* platform_admin
    pendingAdmin,  \* UpgPendingAdmin of the upgradeable library
    feeConfig,     \* FeeConfig
    oracle,        \* OracleAddress
    staleness,     \* OracleStalenessSecs
    lastPrice,     \* timestamp of the oracle contract's LastPrice, -1 if none
    pool,          \* the contract's token balance
    heldFees,      \* history: fees that stayed in the contract
    paid           \* history: tokens an escrow has handed to payee and payer

dealVars   == <<counter, escrow, bountyEscrow>>
msVars     == <<milestone, progress>>
moneyVars  == <<pool, heldFees, paid>>
adminVars  == <<admin, pendingAdmin>>
configVars == <<disputeSplit, feeConfig, oracle, staleness>>
vars == <<now, dealVars, msVars, disputeExpiry, adminVars, configVars,
          lastPrice, moneyVars>>

-----------------------------------------------------------------------------
(* Data of the contract *)

Statuses == {"Active", "Released", "Refunded", "Disputed", "Complete"}
Live     == {"Active", "Disputed"}

EscrowAccount == [bounty : Bounties, payer : Addrs, payee : Addrs,
                  amount : Nat, unlockAt : Nat, status : Statuses]

NoMilestone == [amount |-> 0, released |-> FALSE]
Milestone   == [amount : Nat, released : BOOLEAN]
Progress    == [count : Nat, total : Nat,
                releasedCount : Nat, releasedAmount : Nat]
NoProgress  == [count |-> 0, total |-> 0,
                releasedCount |-> 0, releasedAmount |-> 0]
Payment     == [payee : Nat, payer : Nat]

Bps == 10000
DefaultFeeConfig == [bps |-> 250, cap |-> 500]

PlatformFee(amount, cfg) ==
    LET raw == (amount * cfg.bps) \div Bps
    IN  IF raw > cfg.cap THEN cfg.cap ELSE raw

Ids == 1..counter
Added(id)    == {k \in Indices : milestone[id][k].amount > 0}
Released(id) == {k \in Indices : milestone[id][k].released}
PaidOut(id)  == paid[id].payee + paid[id].payer

\* What is left of a deposit once the fee is taken.
NetAmount(amount) == amount - PlatformFee(amount, feeConfig)

\* The escrow a bounty points at after a deposit.
LatestDeposit(bounty, id) == [bountyEscrow EXCEPT ![bounty] = id]

\* f with its domain 1..n extended by one point.
Extend(f, n, v) == [i \in 1..(n + 1) |-> IF i = n + 1 THEN v ELSE f[i]]

IsParty(caller, id) == caller \in {escrow[id].payer, escrow[id].payee}
IsAdmin(caller)     == caller = admin

\* The checks phase of every call on an open escrow; the mutation drops it.
AnyStatus(id)     == TRUE
RequireActive(id) == escrow[id].status = "Active"

RequireDisputed(id) == escrow[id].status = "Disputed"

CanRelease(id) == now >= escrow[id].unlockAt

\* The oracle contract answers with the last observation while it is recent and
\* with a fallback price stamped with the current time when it is not.
PriceTimestamp ==
    IF lastPrice >= 0 /\ now - lastPrice <= MaxPriceAge THEN lastPrice ELSE now

OracleFresh == oracle # NoAddr => now - PriceTimestamp <= staleness

\* Whether the contract can transfer an amount; the mutation lets it overdraw.
Overdraw(amount) == TRUE
CanTransfer(amount) == pool >= amount

\* The token transfers of one call, out of the contract's balance.
Pay(id, toPayee, toPayer) ==
    /\ CanTransfer(toPayee + toPayer)
    /\ pool' = pool - (toPayee + toPayer)
    /\ paid' = [paid EXCEPT ![id] = [payee |-> @.payee + toPayee,
                                     payer |-> @.payer + toPayer]]
    /\ UNCHANGED heldFees

SetStatus(id, status) ==
    /\ escrow' = [escrow EXCEPT ![id].status = status]
    /\ UNCHANGED <<counter, bountyEscrow>>

-----------------------------------------------------------------------------
(* Initial state: a freshly deployed contract, nothing configured *)

Nothing == [i \in 1..0 |-> 0]

Init ==
    /\ now = 0
    /\ counter = 0
    /\ escrow = Nothing
    /\ bountyEscrow = [b \in Bounties |-> 0]
    /\ milestone = Nothing
    /\ progress = Nothing
    /\ disputeExpiry = Nothing
    /\ disputeSplit = 5000
    /\ admin = NoAddr
    /\ pendingAdmin = NoAddr
    /\ feeConfig = DefaultFeeConfig
    /\ oracle = NoAddr
    /\ staleness = DefaultStaleness
    /\ lastPrice = -1
    /\ pool = 0
    /\ heldFees = 0
    /\ paid = Nothing

-----------------------------------------------------------------------------
(* Entry points *)

Deposit(bounty, payer, payee, amount, unlockAt) ==
    LET fee  == PlatformFee(amount, feeConfig)
        held == IF admin = NoAddr THEN fee ELSE 0
    IN  /\ counter < MaxEscrows
        /\ amount > 0
        /\ counter' = counter + 1
        /\ escrow' = Extend(escrow, counter,
               [bounty |-> bounty, payer |-> payer, payee |-> payee,
                amount |-> NetAmount(amount), unlockAt |-> unlockAt,
                status |-> "Active"])
        /\ bountyEscrow' = LatestDeposit(bounty, counter + 1)
        /\ milestone' = Extend(milestone, counter, [k \in Indices |-> NoMilestone])
        /\ progress' = Extend(progress, counter, NoProgress)
        /\ disputeExpiry' = Extend(disputeExpiry, counter, 0)
        /\ paid' = Extend(paid, counter, [payee |-> 0, payer |-> 0])
        /\ pool' = pool + (amount - fee) + held
        /\ heldFees' = heldFees + held
        /\ UNCHANGED <<now, adminVars, configVars, lastPrice>>

ReleaseFunds(caller, id) ==
    /\ IsParty(caller, id)
    /\ RequireActive(id)
    /\ CanRelease(id)
    /\ OracleFresh
    /\ SetStatus(id, "Released")
    /\ Pay(id, escrow[id].amount, 0)
    /\ UNCHANGED <<now, msVars, disputeExpiry, adminVars, configVars, lastPrice>>

RefundEscrow(caller, id) ==
    /\ caller = escrow[id].payer
    /\ RequireActive(id)
    /\ SetStatus(id, "Refunded")
    /\ Pay(id, 0, escrow[id].amount)
    /\ UNCHANGED <<now, msVars, disputeExpiry, adminVars, configVars, lastPrice>>

\* Called for a bounty, on behalf of the bounty contract; it reaches only the
\* escrow deposited last for that bounty.
RefundExpiredBounty(bounty) ==
    LET id == bountyEscrow[bounty]
    IN  /\ id > 0
        /\ RequireActive(id)
        /\ SetStatus(id, "Refunded")
        /\ Pay(id, 0, escrow[id].amount)
        /\ UNCHANGED <<now, msVars, disputeExpiry, adminVars, configVars, lastPrice>>

\* When a dispute raised now expires; the mutation never records it.
NoExpiry == 0
DisputeExpiresAt == now + DisputeTimeout

DisputeEscrow(caller, id) ==
    /\ now + DisputeTimeout <= MaxTime
    /\ IsParty(caller, id)
    /\ RequireActive(id)
    /\ SetStatus(id, "Disputed")
    /\ disputeExpiry' = [disputeExpiry EXCEPT ![id] = DisputeExpiresAt]
    /\ UNCHANGED <<now, msVars, adminVars, configVars, lastPrice, moneyVars>>

ResolveDispute(caller, id, releaseToPayee) ==
    /\ IsAdmin(caller)
    /\ RequireDisputed(id)
    /\ SetStatus(id, IF releaseToPayee THEN "Released" ELSE "Refunded")
    /\ IF releaseToPayee THEN Pay(id, escrow[id].amount, 0)
                         ELSE Pay(id, 0, escrow[id].amount)
    /\ UNCHANGED <<now, msVars, disputeExpiry, adminVars, configVars, lastPrice>>

\* The shares of a split; the mutation rounds both down.
PayeeShare(id) == (escrow[id].amount * disputeSplit) \div Bps
PayerShareRounded(id) == (escrow[id].amount * (Bps - disputeSplit)) \div Bps
PayerShare(id) == escrow[id].amount - PayeeShare(id)

\* Anyone may call it; the escrow ends as Refunded whatever the split.
ResolveExpiredDispute(id) ==
    /\ RequireDisputed(id)
    /\ disputeExpiry[id] > 0
    /\ now >= disputeExpiry[id]
    /\ SetStatus(id, "Refunded")
    /\ Pay(id, PayeeShare(id), PayerShare(id))
    /\ UNCHANGED <<now, msVars, disputeExpiry, adminVars, configVars, lastPrice>>

\* Room for one more milestone; the mutation looks at it alone, not at the total.
FitsAlone(id, amount) == amount <= escrow[id].amount
Fits(id, amount) == progress[id].total + amount <= escrow[id].amount

AddMilestone(caller, id, index, amount) ==
    LET p == progress[id]
    IN  /\ caller = escrow[id].payer
        /\ RequireActive(id)
        /\ amount > 0
        /\ Fits(id, amount)
        /\ index \notin Added(id)
        /\ milestone' = [milestone EXCEPT ![id][index] =
                            [amount |-> amount, released |-> FALSE]]
        /\ progress' = [progress EXCEPT ![id] =
                            [p EXCEPT !.total = p.total + amount,
                                      !.count = p.count + 1]]
        /\ UNCHANGED <<now, dealVars, disputeExpiry, adminVars, configVars,
                       lastPrice, moneyVars>>

\* The last unreleased milestone closes the escrow; the mutation is off by one.
StatusAfterLate(p) ==
    IF p.count > 0 /\ p.releasedCount >= p.count THEN "Complete" ELSE "Active"
StatusAfter(p) ==
    IF p.count > 0 /\ p.releasedCount + 1 >= p.count THEN "Complete" ELSE "Active"

ReleaseMilestone(caller, id, index) ==
    LET p      == progress[id]
        amount == milestone[id][index].amount
    IN  /\ caller = escrow[id].payer
        /\ index \in Added(id) \ Released(id)
        /\ RequireActive(id)
        /\ milestone' = [milestone EXCEPT ![id][index].released = TRUE]
        /\ progress' = [progress EXCEPT ![id] =
               [p EXCEPT !.releasedCount = p.releasedCount + 1,
                         !.releasedAmount = p.releasedAmount + amount]]
        /\ Pay(id, amount, 0)
        /\ SetStatus(id, StatusAfter(p))
        /\ UNCHANGED <<now, disputeExpiry, adminVars, configVars, lastPrice>>

\* The backend's single entry point, which delegates by operation name.
SubmitTransaction(caller, operation, id) ==
    \/ operation = "release" /\ ReleaseFunds(caller, id)
    \/ operation = "refund" /\ RefundEscrow(caller, id)
    \/ operation = "dispute" /\ DisputeEscrow(caller, id)

-----------------------------------------------------------------------------
(* Administration *)

SetAdmin(caller) ==
    /\ admin = NoAddr
    /\ admin' = caller
    /\ UNCHANGED <<now, dealVars, msVars, disputeExpiry, pendingAdmin,
                   configVars, lastPrice, moneyVars>>

ProposeAdmin(caller, nominee) ==
    /\ IsAdmin(caller)
    /\ nominee # admin
    /\ pendingAdmin' = nominee
    /\ UNCHANGED <<now, dealVars, msVars, disputeExpiry, admin,
                   configVars, lastPrice, moneyVars>>

AcceptAdmin(caller) ==
    /\ admin # NoAddr
    /\ caller = pendingAdmin
    /\ admin' = caller
    /\ pendingAdmin' = NoAddr
    /\ UNCHANGED <<now, dealVars, msVars, disputeExpiry,
                   configVars, lastPrice, moneyVars>>

CancelAdminTransfer(caller) ==
    /\ IsAdmin(caller)
    /\ pendingAdmin # NoAddr
    /\ pendingAdmin' = NoAddr
    /\ UNCHANGED <<now, dealVars, msVars, disputeExpiry, admin,
                   configVars, lastPrice, moneyVars>>

SetDisputeSplit(caller, payeeBps) ==
    /\ IsAdmin(caller)
    /\ payeeBps <= Bps
    /\ disputeSplit' = payeeBps
    /\ UNCHANGED <<now, dealVars, msVars, disputeExpiry, adminVars, feeConfig,
                   oracle, staleness, lastPrice, moneyVars>>

UpdateFee(caller, cfg) ==
    /\ IsAdmin(caller)
    /\ cfg.bps <= 1000
    /\ feeConfig' = cfg
    /\ UNCHANGED <<now, dealVars, msVars, disputeExpiry, adminVars, disputeSplit,
                   oracle, staleness, lastPrice, moneyVars>>

SetOracleAddress(caller, address) ==
    /\ IsAdmin(caller)
    /\ oracle' = address
    /\ UNCHANGED <<now, dealVars, msVars, disputeExpiry, adminVars, disputeSplit,
                   feeConfig, staleness, lastPrice, moneyVars>>

SetOracleStaleness(caller, secs) ==
    /\ IsAdmin(caller)
    /\ secs \in MinStaleness..MaxStaleness
    /\ staleness' = secs
    /\ UNCHANGED <<now, dealVars, msVars, disputeExpiry, adminVars, disputeSplit,
                   feeConfig, oracle, lastPrice, moneyVars>>

-----------------------------------------------------------------------------
(* Environment *)

\* The registered feed pushes an observation, not made in the future, into the
\* oracle contract.
UpdatePrice ==
    /\ Oracles # {}
    /\ lastPrice' \in 0..now
    /\ UNCHANGED <<now, dealVars, msVars, disputeExpiry, adminVars, configVars,
                   moneyVars>>

\* Ledgers close and their timestamp advances, up to MaxTime.
Tick ==
    /\ now < MaxTime
    /\ now' = now + 1
    /\ UNCHANGED <<dealVars, msVars, disputeExpiry, adminVars, configVars,
                   lastPrice, moneyVars>>

-----------------------------------------------------------------------------

PartyCall(caller) ==
    \E id \in Ids :
        \/ ReleaseFunds(caller, id)
        \/ RefundEscrow(caller, id)
        \/ DisputeEscrow(caller, id)
        \/ \E op \in {"release", "refund", "dispute"} :
              SubmitTransaction(caller, op, id)
        \/ \E index \in Indices :
              \/ ReleaseMilestone(caller, id, index)
              \/ \E amount \in MsAmounts : AddMilestone(caller, id, index, amount)

AdminCall(caller) ==
    \/ SetAdmin(caller)
    \/ \E nominee \in Nominees : ProposeAdmin(caller, nominee)
    \/ AcceptAdmin(caller)
    \/ CancelAdminTransfer(caller)
    \/ \E bps \in SplitChoices : SetDisputeSplit(caller, bps)
    \/ \E cfg \in FeeConfigs : UpdateFee(caller, cfg)
    \/ \E address \in Oracles : SetOracleAddress(caller, address)
    \/ \E secs \in StalenessChoices : SetOracleStaleness(caller, secs)
    \/ \E id \in Ids, toPayee \in BOOLEAN : ResolveDispute(caller, id, toPayee)

Next ==
    \/ \E bounty \in Bounties, payer, payee \in Addrs,
          amount \in Amounts, unlockAt \in UnlockTimes :
             Deposit(bounty, payer, payee, amount, unlockAt)
    \/ \E caller \in Addrs : PartyCall(caller) \/ AdminCall(caller)
    \/ \E bounty \in Bounties : RefundExpiredBounty(bounty)
    \/ \E id \in Ids : ResolveExpiredDispute(id)
    \/ UpdatePrice
    \/ Tick

Spec == Init /\ [][Next]_vars

-----------------------------------------------------------------------------
(* Properties *)

\* The state of the contract has the shape the storage declarations give it.
TypeOK ==
    /\ now \in Nat
    /\ counter \in Nat
    /\ escrow \in [Ids -> EscrowAccount]
    /\ bountyEscrow \in [Bounties -> 0..counter]
    /\ milestone \in [Ids -> [Indices -> Milestone]]
    /\ progress \in [Ids -> Progress]
    /\ disputeExpiry \in [Ids -> Nat]
    /\ disputeSplit \in 0..Bps
    /\ admin \in Addrs \cup {NoAddr}
    /\ pendingAdmin \in Addrs \cup {NoAddr}
    /\ feeConfig \in [bps : 0..1000, cap : Nat]
    /\ oracle \in Oracles \cup {NoAddr}
    /\ staleness \in Nat
    /\ lastPrice \in Nat \cup {-1}
    /\ pool \in Nat
    /\ heldFees \in Nat
    /\ paid \in [Ids -> Payment]

\* What an escrow has handed out is what its status and its milestone counter
\* say: the released milestones, plus the whole net amount, to the last unit and
\* whatever the split, if and only if it ended by a release or a refund.
PayoutMatchesStatus ==
    \A id \in Ids :
        PaidOut(id) = progress[id].releasedAmount
            + (IF escrow[id].status \in {"Released", "Refunded"}
               THEN escrow[id].amount ELSE 0)

\* The milestone counters agree with the milestone records, and an escrow is
\* Complete exactly when it has milestones and every one of them is released; so
\* an Active or Disputed escrow with milestones still has one to release.
MilestonesAgree ==
    \A id \in Ids :
        /\ progress[id].count = Cardinality(Added(id))
        /\ progress[id].releasedCount = Cardinality(Released(id))
        /\ Released(id) \subseteq Added(id)
        /\ escrow[id].status \in Live =>
              (Added(id) # {} => Released(id) # Added(id))
        /\ escrow[id].status = "Complete" =>
              Added(id) # {} /\ Released(id) = Added(id)

SumOver(S, f(_)) == FoldFunction(LAMBDA x, y : x + y, 0, [x \in S |-> f(x)])

OpenIds  == {id \in Ids : escrow[id].status \in Live}
Owed(id) == escrow[id].amount - progress[id].releasedAmount

\* The balance covers what every open escrow is still owed: closing one escrow
\* never draws on the deposit of another.
LockedBalancesCovered == pool >= SumOver(OpenIds, Owed)

\* Paying a milestone and then the whole amount is the only way to a shortfall: as
\* long as no escrow ended so, the balance covers the open escrows and the fees
\* kept in the contract, and the milestones of an escrow hand out no more than it
\* has.
CoveredUnlessOverpaid ==
    (\A id \in Ids : escrow[id].status \in {"Released", "Refunded"} =>
                        progress[id].releasedAmount = 0)
        => /\ pool >= heldFees + SumOver(OpenIds, Owed)
           /\ \A id \in Ids : PaidOut(id) <= escrow[id].amount

\* A bounty points at the escrow deposited last for it, the one that
\* refund_expired_bounty refunds, and at none only while it has none.
LatestEscrow ==
    \A bounty \in Bounties :
        LET ofBounty == {id \in Ids : escrow[id].bounty = bounty}
        IN  /\ bountyEscrow[bounty] = 0 <=> ofBounty = {}
            /\ ofBounty # {} => bountyEscrow[bounty] \in ofBounty
            /\ \A id \in ofBounty : id <= bountyEscrow[bounty]

\* A disputed escrow has a recorded expiry at most one timeout away, so that
\* resolve_expired_dispute never misses it, and an Active one has none.
DisputeHasExpiry ==
    \A id \in Ids :
        /\ escrow[id].status = "Disputed" =>
              disputeExpiry[id] \in DisputeTimeout..(now + DisputeTimeout)
        /\ escrow[id].status = "Active" => disputeExpiry[id] = 0

\* A closed escrow is final: no call changes its status, its milestones or what
\* it has paid, and a disputed one is frozen until a resolution closes it.
ClosedIsFinal ==
    [][\A id \in Ids :
          /\ escrow[id].status \notin Live =>
                /\ escrow'[id] = escrow[id]
                /\ milestone'[id] = milestone[id]
                /\ paid'[id] = paid[id]
          /\ escrow[id].status = "Disputed" =>
                /\ milestone'[id] = milestone[id]
                /\ escrow'[id].status \in {"Disputed", "Released", "Refunded"}
                /\ paid'[id] # paid[id] => escrow'[id].status # "Disputed"
      ]_vars

\* The phase of an escrow seen as a deal of the abstract lifecycle.
PhaseOf(id) ==
    CASE escrow[id].status = "Active"   -> "open"
      [] escrow[id].status = "Disputed" -> "frozen"
      [] OTHER                          -> "closed"

Deals == [id \in Ids |->
    [net         |-> escrow[id].amount,
     instalments |-> progress[id].releasedAmount,
     settled     |-> PaidOut(id) - progress[id].releasedAmount,
     phase       |-> PhaseOf(id)]]

Lifecycle == INSTANCE EscrowLifecycle WITH count <- counter, deals <- Deals

\* The contract implements the abstract lifecycle of a deal.
ImplementsLifecycle == Lifecycle!LifecycleSpec

-----------------------------------------------------------------------------
(* Liveness *)

\* Ledgers keep closing, and since resolve_expired_dispute needs no authority,
\* somebody submits it for a dispute that stays ripe.
FairSpec ==
    /\ Spec
    /\ WF_vars(Tick)
    /\ \A id \in 1..MaxEscrows : WF_vars(id \in Ids /\ ResolveExpiredDispute(id))

\* A dispute does not hold the funds for ever, even if the admin never acts:
\* it is resolved, unless the contract cannot cover the escrow.
DisputesSettle ==
    \A id \in 1..MaxEscrows :
        (id \in Ids /\ escrow[id].status = "Disputed")
            ~> (id \in Ids => \/ escrow[id].status # "Disputed"
                              \/ pool < escrow[id].amount)
=============================================================================
