---------------------------- MODULE ContractProofs ----------------------------
(***************************************************************************)
(* Theorems about the escrow contract, for any number of escrows, parties,  *)
(* bounties and milestones, any amounts and any configuration: its types and *)
(* the six shapes of a step; with them its safety properties, and that it     *)
(* implements the abstract lifecycle of a deal under the mapping Deals of     *)
(* module Escrow.                                                            *)
(*                                                                         *)
(* Then the bounty contract over it, for any number of bounties, applications *)
(* and signers.  A call of the bounty contract is a step of the escrow        *)
(* contract or leaves it alone, so what is proved of the escrows holds under  *)
(* it; the properties of the bounties are then proved from the shapes that a  *)
(* call of their contract can have.                                          *)
(***************************************************************************)
EXTENDS Bounty, FiniteSetTheorems, SequenceTheorems, SumTheorems, TLAPS

-----------------------------------------------------------------------------
(* Arithmetic of the platform fee and of the split of a dispute *)

\* A part of an amount in basis points, rounded down, is a natural number no
\* larger than the amount.
LEMMA BpsPart ==
    ASSUME NEW amount \in Nat, NEW bps \in 0..Bps
    PROVE  /\ (amount * bps) \div Bps \in Nat
           /\ (amount * bps) \div Bps <= amount
<1> DEFINE product == amount * bps
<1>1. product \in Nat /\ product <= amount * 10000
  BY DEF Bps
<1> HIDE DEF product
<1>2. product \div 10000 \in Nat /\ product \div 10000 <= amount
  BY <1>1
<1>3. product \div Bps \in Nat /\ product \div Bps <= amount
  BY <1>2 DEF Bps
<1>4. QED
  BY <1>3 DEF product

\* The fee of platform_fee_with_config is between 0 and the amount, so the net
\* amount an escrow records is a natural number.
LEMMA FeeWithinAmount ==
    ASSUME NEW amount \in Nat, NEW cfg \in [bps : 0..1000, cap : Nat]
    PROVE  /\ PlatformFee(amount, cfg) \in Nat
           /\ PlatformFee(amount, cfg) <= amount
<1>1. cfg.bps \in 0..Bps /\ cfg.cap \in Nat
  BY DEF Bps
<1>2. /\ (amount * cfg.bps) \div Bps \in Nat
      /\ (amount * cfg.bps) \div Bps <= amount
  BY <1>1, BpsPart
<1>3. QED
  BY <1>1, <1>2, SMTT(30) DEF PlatformFee

\* The net amount and the two shares of a split are naturals that add up.
LEMMA NetAmountIsNat ==
    ASSUME TypeOK, NEW amount \in Nat
    PROVE  /\ PlatformFee(amount, feeConfig) \in Nat
           /\ NetAmount(amount) \in Nat
BY FeeWithinAmount DEF TypeOK, NetAmount

LEMMA SharesAddUp ==
    ASSUME TypeOK, NEW id \in Ids
    PROVE  /\ PayeeShare(id) \in Nat
           /\ PayerShare(id) \in Nat
           /\ PayeeShare(id) + PayerShare(id) = escrow[id].amount
<1>1. escrow[id].amount \in Nat /\ disputeSplit \in 0..Bps
  BY DEF TypeOK, EscrowAccount
<1>2. PayeeShare(id) \in Nat /\ PayeeShare(id) <= escrow[id].amount
  BY <1>1, BpsPart DEF PayeeShare
<1>3. QED
  BY <1>1, <1>2 DEF PayerShare

\* Extending a function on 1..n by a value of its range.
LEMMA ExtendType ==
    ASSUME NEW n \in Nat, NEW S, NEW f \in [1..n -> S], NEW v \in S
    PROVE  Extend(f, n, v) \in [1..(n + 1) -> S]
BY DEF Extend

LEMMA ExtendApply ==
    ASSUME NEW n \in Nat, NEW f, NEW v
    PROVE  /\ Extend(f, n, v)[n + 1] = v
           /\ \A i \in 1..n : Extend(f, n, v)[i] = f[i]
BY DEF Extend

-----------------------------------------------------------------------------
(* Type correctness *)

\* A payment of natural amounts keeps the balance and the history well typed.
LEMMA PayType ==
    ASSUME TypeOK, NEW id \in Ids, NEW x \in Nat, NEW y \in Nat,
           Pay(id, x, y)
    PROVE  /\ pool' \in Nat /\ heldFees' \in Nat
           /\ paid' \in [Ids -> Payment]
           /\ x + y <= pool
BY DEF TypeOK, Pay, CanTransfer, Payment

\* A status change keeps the escrows well typed.
LEMMA SetStatusType ==
    ASSUME TypeOK, NEW id \in Ids, NEW status \in Statuses,
           SetStatus(id, status)
    PROVE  /\ counter' = counter /\ bountyEscrow' = bountyEscrow
           /\ escrow' \in [Ids -> EscrowAccount]
<1>1. escrow[id] \in EscrowAccount /\ escrow \in [Ids -> EscrowAccount]
  BY DEF TypeOK
<1>2. [escrow[id] EXCEPT !.status = status] \in EscrowAccount
  BY <1>1 DEF EscrowAccount
<1>3. escrow' = [escrow EXCEPT ![id] = [escrow[id] EXCEPT !.status = status]]
  BY DEF SetStatus
<1>4. QED
  BY <1>1, <1>2, <1>3 DEF SetStatus

\* Every call that only moves an escrow to a new status and pays for it.
LEMMA PayoutType ==
    ASSUME TypeOK, NEW id \in Ids, NEW status \in Statuses,
           NEW x \in Nat, NEW y \in Nat,
           SetStatus(id, status), Pay(id, x, y),
           UNCHANGED <<now, msVars, disputeExpiry, adminVars, configVars, lastPrice>>
    PROVE  TypeOK'
<1>1. Ids' = Ids
  BY SetStatusType DEF Ids
<1>2. QED
  BY <1>1, SetStatusType, PayType
  DEF TypeOK, msVars, adminVars, configVars

LEMMA DepositType ==
    ASSUME TypeOK, NEW bid \in Bounties, NEW payer \in Addrs,
           NEW payee \in Addrs, NEW amount \in Amounts,
           NEW unlockAt \in UnlockTimes,
           Deposit(bid, payer, payee, amount, unlockAt)
    PROVE  TypeOK'
<1> DEFINE account == [bounty |-> bid, payer |-> payer, payee |-> payee,
                       amount |-> NetAmount(amount), unlockAt |-> unlockAt,
                       status |-> "Active"]
<1>1. amount \in Nat /\ unlockAt \in Nat
  BY EscrowAssumption
<1>2. account \in EscrowAccount
  BY <1>1, NetAmountIsNat DEF EscrowAccount, Statuses
<1>3. counter' = counter + 1 /\ counter \in Nat /\ Ids' = 1..(counter + 1)
  BY DEF Deposit, TypeOK, Ids
<1>4. escrow' \in [Ids' -> EscrowAccount]
  <2>1. escrow' = Extend(escrow, counter, account)
    BY DEF Deposit
  <2>2. QED
    BY <2>1, <1>2, <1>3, ExtendType, ZenonT(40) DEF TypeOK, Ids
<1>5. milestone' \in [Ids' -> [Indices -> Milestone]]
  <2>1. [k \in Indices |-> NoMilestone] \in [Indices -> Milestone]
    BY DEF NoMilestone, Milestone
  <2>2. milestone' = Extend(milestone, counter, [k \in Indices |-> NoMilestone])
    BY DEF Deposit
  <2>3. QED
    BY <2>1, <2>2, <1>3, ExtendType DEF TypeOK, Ids
<1>6. progress' \in [Ids' -> Progress]
  <2>1. NoProgress \in Progress
    BY DEF NoProgress, Progress
  <2>2. QED
    BY <2>1, <1>3, ExtendType, ZenonT(40) DEF TypeOK, Ids, Deposit
<1>7. disputeExpiry' \in [Ids' -> Nat]
  BY <1>3, ExtendType, ZenonT(40) DEF TypeOK, Ids, Deposit
<1>8. paid' \in [Ids' -> Payment]
  <2>1. [payee |-> 0, payer |-> 0] \in Payment
    BY DEF Payment
  <2>2. QED
    BY <2>1, <1>3, ExtendType, ZenonT(40) DEF TypeOK, Ids, Deposit
<1>9. pool' \in Nat /\ heldFees' \in Nat
  <2> DEFINE fee == PlatformFee(amount, feeConfig)
             held == IF admin = NoAddr THEN fee ELSE 0
  <2>1. /\ fee \in Nat /\ amount - fee \in Nat /\ held \in Nat
        /\ pool \in Nat /\ heldFees \in Nat
    BY <1>1, NetAmountIsNat DEF TypeOK, NetAmount
  <2>2. pool' = pool + (amount - fee) + held /\ heldFees' = heldFees + held
    BY DEF Deposit
  <2> HIDE DEF fee, held
  <2>3. QED
    BY <2>1, <2>2
<1>10. bountyEscrow' \in [Bounties -> 0..counter']
  BY <1>3 DEF TypeOK, Deposit, LatestDeposit
<1>11. UNCHANGED <<now, admin, pendingAdmin, disputeSplit, feeConfig, oracle,
                   staleness, lastPrice>>
  BY DEF Deposit, adminVars, configVars
<1>12. QED
  BY <1>3, <1>4, <1>5, <1>6, <1>7, <1>8, <1>9, <1>10, <1>11 DEF TypeOK

\* The milestone counters stay natural when a milestone is added or released.
LEMMA ProgressCounters ==
    ASSUME NEW p \in Progress, NEW x \in Nat
    PROVE  /\ p.total + x \in Nat /\ p.count + 1 \in Nat
           /\ p.releasedCount + 1 \in Nat /\ p.releasedAmount + x \in Nat
BY DEF Progress

LEMMA ProgressUpdate ==
    ASSUME NEW p \in Progress, NEW x \in Nat, NEW y \in Nat
    PROVE  /\ [p EXCEPT !.total = x, !.count = y] \in Progress
           /\ [p EXCEPT !.releasedCount = x, !.releasedAmount = y] \in Progress
BY DEF Progress

LEMMA ProgressType ==
    ASSUME NEW p \in Progress, NEW x \in Nat
    PROVE  /\ [p EXCEPT !.total = p.total + x, !.count = p.count + 1]
                  \in Progress
           /\ [p EXCEPT !.releasedCount = p.releasedCount + 1,
                         !.releasedAmount = p.releasedAmount + x] \in Progress
<1> DEFINE total          == p.total + x
           count          == p.count + 1
           releasedCount  == p.releasedCount + 1
           releasedAmount == p.releasedAmount + x
<1>1. /\ total \in Nat /\ count \in Nat
      /\ releasedCount \in Nat /\ releasedAmount \in Nat
  BY ProgressCounters
<1> HIDE DEF total, count, releasedCount, releasedAmount
<1>2. /\ [p EXCEPT !.total = total, !.count = count] \in Progress
      /\ [p EXCEPT !.releasedCount = releasedCount,
                    !.releasedAmount = releasedAmount] \in Progress
  BY <1>1, ProgressUpdate
<1>3. QED
  BY <1>2 DEF total, count, releasedCount, releasedAmount

LEMMA AddMilestoneType ==
    ASSUME TypeOK, NEW caller, NEW id \in Ids, NEW index \in Indices,
           NEW amount \in MsAmounts, AddMilestone(caller, id, index, amount)
    PROVE  TypeOK'
<1>1. amount \in Nat /\ Ids' = Ids /\ counter' = counter
  BY EscrowAssumption DEF AddMilestone, dealVars, Ids
<1>2. milestone' \in [Ids -> [Indices -> Milestone]]
  <2>1. [amount |-> amount, released |-> FALSE] \in Milestone
    BY <1>1 DEF Milestone
  <2>2. QED
    BY <2>1 DEF AddMilestone, TypeOK
<1>3. progress' \in [Ids -> Progress]
  <2> DEFINE p == progress[id]
  <2>1. p \in Progress
    BY DEF TypeOK
  <2>2. [p EXCEPT !.total = p.total + amount, !.count = p.count + 1] \in Progress
    <3> HIDE DEF p
    <3>1. QED
      BY <1>1, <2>1, ProgressType
  <2>3. progress' = [progress EXCEPT ![id] =
            [p EXCEPT !.total = p.total + amount, !.count = p.count + 1]]
    BY DEF AddMilestone
  <2>4. QED
    BY <2>2, <2>3 DEF TypeOK
<1>4. UNCHANGED <<now, escrow, bountyEscrow, disputeExpiry, admin, pendingAdmin,
                  disputeSplit, feeConfig, oracle, staleness, lastPrice, pool,
                  heldFees, paid>>
  BY DEF AddMilestone, dealVars, adminVars, configVars, moneyVars
<1>5. QED
  BY <1>1, <1>2, <1>3, <1>4 DEF TypeOK

LEMMA ReleaseMilestoneType ==
    ASSUME TypeOK, NEW caller, NEW id \in Ids, NEW index \in Indices,
           ReleaseMilestone(caller, id, index)
    PROVE  TypeOK'
<1> DEFINE p == progress[id]
           amount == milestone[id][index].amount
<1>1. p \in Progress /\ milestone[id][index] \in Milestone
  BY DEF TypeOK
<1>2. amount \in Nat
  BY <1>1 DEF Milestone
<1>3. /\ counter' = counter /\ bountyEscrow' = bountyEscrow
      /\ escrow' \in [Ids -> EscrowAccount]
  <2>1. StatusAfter(p) \in Statuses
    BY DEF StatusAfter, Statuses
  <2>2. SetStatus(id, StatusAfter(p))
    BY DEF ReleaseMilestone
  <2>3. QED
    BY <2>1, <2>2, SetStatusType
<1>4. /\ pool' \in Nat /\ heldFees' \in Nat
      /\ paid' \in [Ids -> Payment]
  <2>1. Pay(id, amount, 0)
    BY DEF ReleaseMilestone
  <2> HIDE DEF amount
  <2>2. QED
    BY <1>2, <2>1, PayType
<1>5. milestone' \in [Ids -> [Indices -> Milestone]]
  <2>1. [milestone[id][index] EXCEPT !.released = TRUE] \in Milestone
    BY <1>1 DEF Milestone
  <2>2. milestone' = [milestone EXCEPT ![id] = [milestone[id] EXCEPT ![index] =
                          [milestone[id][index] EXCEPT !.released = TRUE]]]
    BY DEF ReleaseMilestone
  <2>3. QED
    BY <2>1, <2>2 DEF TypeOK
<1>6. progress' \in [Ids -> Progress]
  <2>1. [p EXCEPT !.releasedCount = p.releasedCount + 1,
                  !.releasedAmount = p.releasedAmount + amount] \in Progress
    <3> HIDE DEF p, amount
    <3>1. QED
      BY <1>1, <1>2, ProgressType
  <2>2. progress' = [progress EXCEPT ![id] =
            [p EXCEPT !.releasedCount = p.releasedCount + 1,
                      !.releasedAmount = p.releasedAmount + amount]]
    BY DEF ReleaseMilestone
  <2>3. QED
    BY <2>1, <2>2, SMTT(30) DEF TypeOK
<1>7. UNCHANGED <<now, disputeExpiry, admin, pendingAdmin, disputeSplit,
                  feeConfig, oracle, staleness, lastPrice>>
  BY DEF ReleaseMilestone, adminVars, configVars
<1>8. Ids' = Ids
  BY <1>3 DEF Ids
<1>9. QED
  BY <1>3, <1>4, <1>5, <1>6, <1>7, <1>8 DEF TypeOK

-----------------------------------------------------------------------------
(* The shapes a step can have, as far as the escrows are concerned *)

\* No escrow is touched; the clock may advance, the configuration may change.
Quiet ==
    /\ UNCHANGED <<dealVars, msVars, disputeExpiry, moneyVars>>
    /\ now' \in {now, now + 1}

\* A live escrow is paid out and closed.
Closes(id, status, x, y) ==
    /\ escrow[id].status \in Live
    /\ x + y = escrow[id].amount
    /\ SetStatus(id, status)
    /\ Pay(id, x, y)
    /\ UNCHANGED <<now, msVars, disputeExpiry, adminVars, configVars, lastPrice>>

ClosingStep ==
    \E id \in Ids, status \in {"Released", "Refunded"}, x \in Nat, y \in Nat :
        Closes(id, status, x, y)

DepositStep ==
    \E bid \in Bounties, payer, payee \in Addrs,
       amount \in Amounts, unlockAt \in UnlockTimes :
        Deposit(bid, payer, payee, amount, unlockAt)

DisputeStep ==
    \E caller \in Addrs, id \in Ids : DisputeEscrow(caller, id)

AddMilestoneStep ==
    \E caller \in Addrs, id \in Ids, index \in Indices, amount \in MsAmounts :
        AddMilestone(caller, id, index, amount)

ReleaseMilestoneStep ==
    \E caller \in Addrs, id \in Ids, index \in Indices :
        ReleaseMilestone(caller, id, index)

\* The five calls that pay an escrow out have the closing shape.
LEMMA ClosingCalls ==
    ASSUME TypeOK, NEW id \in Ids, NEW caller,
           \/ ReleaseFunds(caller, id)
           \/ RefundEscrow(caller, id)
           \/ ResolveDispute(caller, id, TRUE)
           \/ ResolveDispute(caller, id, FALSE)
           \/ ResolveExpiredDispute(id)
           \/ \E bid \in Bounties :
                 bountyEscrow[bid] = id /\ RefundExpiredBounty(bid)
    PROVE  ClosingStep
<1>1. escrow[id].amount \in Nat /\ 0 \in Nat
  BY DEF TypeOK, EscrowAccount
<1>2. escrow[id].amount + 0 = escrow[id].amount
      /\ 0 + escrow[id].amount = escrow[id].amount
  BY <1>1
<1>3. CASE ReleaseFunds(caller, id) \/ ResolveDispute(caller, id, TRUE)
  <2>1. Closes(id, "Released", escrow[id].amount, 0)
    BY <1>2, <1>3
    DEF ReleaseFunds, ResolveDispute, RequireActive, RequireDisputed, Live, Closes
  <2>2. QED
    BY <1>1, <2>1 DEF ClosingStep
<1>4. CASE \/ RefundEscrow(caller, id) \/ ResolveDispute(caller, id, FALSE)
           \/ \E bid \in Bounties :
                 bountyEscrow[bid] = id /\ RefundExpiredBounty(bid)
  <2>1. Closes(id, "Refunded", 0, escrow[id].amount)
    BY <1>2, <1>4
    DEF RefundEscrow, RefundExpiredBounty, ResolveDispute, RequireActive,
        RequireDisputed, Live, Closes
  <2>2. QED
    BY <1>1, <2>1 DEF ClosingStep
<1>5. CASE ResolveExpiredDispute(id)
  <2>1. Closes(id, "Refunded", PayeeShare(id), PayerShare(id))
    BY <1>5, SharesAddUp DEF ResolveExpiredDispute, RequireDisputed, Live, Closes
  <2>2. QED
    BY <2>1, SharesAddUp DEF ClosingStep
<1>6. QED
  BY <1>3, <1>4, <1>5

\* Every step of the contract has one of the six shapes.
LEMMA StepShapes ==
    ASSUME TypeOK, [Next]_vars
    PROVE  Quiet \/ ClosingStep \/ DepositStep \/ DisputeStep
               \/ AddMilestoneStep \/ ReleaseMilestoneStep
<1>1. CASE UNCHANGED vars
  BY <1>1 DEF vars, dealVars, msVars, moneyVars, Quiet
<1>2. CASE DepositStep
  BY <1>2
<1>3. ASSUME NEW caller \in Addrs, NEW id \in Ids,
             \/ ReleaseFunds(caller, id)
             \/ RefundEscrow(caller, id)
             \/ DisputeEscrow(caller, id)
             \/ \E op \in {"release", "refund", "dispute"} :
                   SubmitTransaction(caller, op, id)
      PROVE  ClosingStep \/ DisputeStep
  <2>1. ReleaseFunds(caller, id) \/ RefundEscrow(caller, id)
            \/ DisputeEscrow(caller, id)
    BY <1>3 DEF SubmitTransaction
  <2>2. QED
    BY <2>1, ClosingCalls DEF DisputeStep
<1>4. ASSUME NEW caller \in Addrs, NEW id \in Ids, NEW index \in Indices,
             \/ ReleaseMilestone(caller, id, index)
             \/ \E amount \in MsAmounts : AddMilestone(caller, id, index, amount)
      PROVE  AddMilestoneStep \/ ReleaseMilestoneStep
  BY <1>4 DEF AddMilestoneStep, ReleaseMilestoneStep
<1>5. ASSUME NEW caller \in Addrs, AdminCall(caller)
      PROVE  Quiet \/ ClosingStep
  <2>1. CASE \E id \in Ids, toPayee \in BOOLEAN : ResolveDispute(caller, id, toPayee)
    <3>1. PICK id \in Ids, toPayee \in BOOLEAN : ResolveDispute(caller, id, toPayee)
      BY <2>1
    <3>2. ResolveDispute(caller, id, TRUE) \/ ResolveDispute(caller, id, FALSE)
      BY <3>1
    <3>3. QED
      BY <3>2, ClosingCalls
  <2>2. CASE \/ SetAdmin(caller)
             \/ \E nominee \in Nominees : ProposeAdmin(caller, nominee)
             \/ AcceptAdmin(caller)
             \/ CancelAdminTransfer(caller)
             \/ \E bps \in SplitChoices : SetDisputeSplit(caller, bps)
             \/ \E cfg \in FeeConfigs : UpdateFee(caller, cfg)
             \/ \E address \in Oracles : SetOracleAddress(caller, address)
             \/ \E secs \in StalenessChoices : SetOracleStaleness(caller, secs)
    BY <2>2
    DEF SetAdmin, ProposeAdmin, AcceptAdmin, CancelAdminTransfer,
        SetDisputeSplit, UpdateFee, SetOracleAddress, SetOracleStaleness, Quiet
  <2>3. QED
    BY <1>5, <2>1, <2>2 DEF AdminCall
<1>6. ASSUME NEW bid \in Bounties, RefundExpiredBounty(bid)
      PROVE  ClosingStep
  <2>1. bountyEscrow[bid] \in Ids
    BY <1>6 DEF TypeOK, RefundExpiredBounty, Ids
  <2>2. QED
    BY <1>6, <2>1, ClosingCalls
<1>7. ASSUME NEW id \in Ids, ResolveExpiredDispute(id)
      PROVE  ClosingStep
  BY <1>7, ClosingCalls
<1>8. CASE UpdatePrice \/ Tick
  BY <1>8 DEF UpdatePrice, Tick, Quiet
<1>9. QED
  BY <1>1, <1>2, <1>3, <1>4, <1>5, <1>6, <1>7, <1>8
  DEF Next, PartyCall, DepositStep

-----------------------------------------------------------------------------
(* Type correctness of the specification *)

\* The calls of the administrator and the environment keep the configuration,
\* the admin slot, the feed and the clock well typed.
LEMMA QuietType ==
    ASSUME TypeOK, Quiet,
           admin' \in Addrs \cup {NoAddr}, pendingAdmin' \in Addrs \cup {NoAddr},
           disputeSplit' \in 0..Bps, feeConfig' \in [bps : 0..1000, cap : Nat],
           oracle' \in Oracles \cup {NoAddr}, staleness' \in Nat,
           lastPrice' \in Nat \cup {-1}
    PROVE  TypeOK'
<1>1. now' \in Nat
  BY DEF TypeOK, Quiet
<1>2. UNCHANGED <<counter, escrow, bountyEscrow, milestone, progress,
                  disputeExpiry, pool, heldFees, paid>>
  BY DEF Quiet, dealVars, msVars, moneyVars
<1>3. Ids' = Ids
  BY <1>2 DEF Ids
<1>4. QED
  BY <1>1, <1>2, <1>3 DEF TypeOK

LEMMA AdminType ==
    ASSUME TypeOK, NEW caller \in Addrs, AdminCall(caller),
           ~ \E id \in Ids, toPayee \in BOOLEAN : ResolveDispute(caller, id, toPayee)
    PROVE  TypeOK'
<1> USE DEF TypeOK, adminVars, configVars
<1>1. CASE SetAdmin(caller) \/ AcceptAdmin(caller) \/ CancelAdminTransfer(caller)
  BY <1>1, QuietType DEF SetAdmin, AcceptAdmin, CancelAdminTransfer, Quiet
<1>2. ASSUME NEW nominee \in Nominees, ProposeAdmin(caller, nominee)
      PROVE  TypeOK'
  BY <1>2, EscrowAssumption, QuietType DEF ProposeAdmin, Quiet
<1>3. ASSUME NEW bps \in SplitChoices, SetDisputeSplit(caller, bps)
      PROVE  TypeOK'
  <2>1. bps \in 0..Bps
    BY <1>3, EscrowAssumption, SMTT(30) DEF SetDisputeSplit, Bps
  <2>2. QED
    BY <1>3, <2>1, QuietType, SMTT(30) DEF SetDisputeSplit, Quiet
<1>4. ASSUME NEW cfg \in FeeConfigs, UpdateFee(caller, cfg)
      PROVE  TypeOK'
  <2>1. cfg \in [bps : 0..1000, cap : Nat]
    <3>1. cfg \in [bps : Nat, cap : Nat] /\ cfg.bps <= 1000
      BY <1>4, EscrowAssumption DEF UpdateFee
    <3>2. QED
      BY ONLY <3>1
  <2>2. QED
    BY <1>4, <2>1, QuietType DEF UpdateFee, Quiet
<1>5. ASSUME NEW address \in Oracles, SetOracleAddress(caller, address)
      PROVE  TypeOK'
  BY <1>5, QuietType DEF SetOracleAddress, Quiet
<1>6. ASSUME NEW secs \in StalenessChoices, SetOracleStaleness(caller, secs)
      PROVE  TypeOK'
  BY <1>6, EscrowAssumption, QuietType DEF SetOracleStaleness, Quiet
<1>7. QED
  BY <1>1, <1>2, <1>3, <1>4, <1>5, <1>6 DEF AdminCall

LEMMA DisputeType ==
    ASSUME TypeOK, NEW caller, NEW id \in Ids, DisputeEscrow(caller, id)
    PROVE  TypeOK'
<1>1. /\ counter' = counter /\ bountyEscrow' = bountyEscrow
      /\ escrow' \in [Ids -> EscrowAccount]
  BY SetStatusType DEF DisputeEscrow, Statuses
<1>2. disputeExpiry' \in [Ids -> Nat]
  BY EscrowAssumption DEF DisputeEscrow, DisputeExpiresAt, TypeOK
<1>3. UNCHANGED <<now, milestone, progress, admin, pendingAdmin, disputeSplit,
                  feeConfig, oracle, staleness, lastPrice, pool, heldFees, paid>>
  BY DEF DisputeEscrow, msVars, adminVars, configVars, moneyVars
<1>4. Ids' = Ids
  BY <1>1 DEF Ids
<1>5. QED
  BY <1>1, <1>2, <1>3, <1>4 DEF TypeOK

LEMMA TypeInit == Init => TypeOK
<1> SUFFICES ASSUME Init PROVE TypeOK
  OBVIOUS
<1>1. Ids = 1..0 /\ counter = 0
  BY DEF Init, Ids
<1>2. /\ escrow \in [Ids -> EscrowAccount]
      /\ milestone \in [Ids -> [Indices -> Milestone]]
      /\ progress \in [Ids -> Progress]
      /\ disputeExpiry \in [Ids -> Nat]
      /\ paid \in [Ids -> Payment]
  BY <1>1 DEF Init, Nothing
<1>3. DefaultFeeConfig \in [bps : 0..1000, cap : Nat]
  BY DEF DefaultFeeConfig
<1>4. staleness \in Nat
  BY EscrowAssumption DEF Init
<1>5. QED
  BY <1>1, <1>2, <1>3, <1>4 DEF Init, TypeOK, Bps

LEMMA TypeStep ==
    ASSUME TypeOK, [Next]_vars
    PROVE  TypeOK'
<1>1. CASE UNCHANGED vars
  BY <1>1 DEF vars, dealVars, msVars, adminVars, configVars, moneyVars, TypeOK, Ids
<1>2. CASE DepositStep
  BY <1>2, DepositType DEF DepositStep
<1>3. CASE ClosingStep
  BY <1>3, PayoutType DEF ClosingStep, Closes, Statuses
<1>4. CASE DisputeStep
  BY <1>4, DisputeType DEF DisputeStep
<1>5. CASE AddMilestoneStep
  BY <1>5, AddMilestoneType DEF AddMilestoneStep
<1>6. CASE ReleaseMilestoneStep
  BY <1>6, ReleaseMilestoneType DEF ReleaseMilestoneStep
<1>7. ASSUME NEW caller \in Addrs, AdminCall(caller)
      PROVE  TypeOK'
  <2>1. CASE \E id \in Ids, toPayee \in BOOLEAN : ResolveDispute(caller, id, toPayee)
    <3>1. PICK id \in Ids, toPayee \in BOOLEAN : ResolveDispute(caller, id, toPayee)
      BY <2>1
    <3>2. ResolveDispute(caller, id, TRUE) \/ ResolveDispute(caller, id, FALSE)
      BY <3>1
    <3>3. QED
      BY <3>2, ClosingCalls, <1>3
  <2>2. QED
    BY <1>7, <2>1, AdminType
<1>8. CASE UpdatePrice \/ Tick
  <2>1. /\ Quiet /\ lastPrice' \in Nat \cup {-1}
        /\ UNCHANGED <<admin, pendingAdmin, disputeSplit, feeConfig, oracle, staleness>>
    BY <1>8 DEF UpdatePrice, Tick, Quiet, TypeOK, adminVars, configVars
  <2>2. QED
    BY <2>1, QuietType DEF TypeOK
<1>9. ASSUME NEW caller \in Addrs, PartyCall(caller)
      PROVE  ClosingStep \/ DisputeStep \/ AddMilestoneStep \/ ReleaseMilestoneStep
  BY <1>9, ClosingCalls
  DEF PartyCall, SubmitTransaction, DisputeStep, AddMilestoneStep,
      ReleaseMilestoneStep
<1>10. ASSUME NEW bid \in Bounties, RefundExpiredBounty(bid)
       PROVE  ClosingStep
  <2>1. bountyEscrow[bid] \in Ids
    BY <1>10 DEF TypeOK, RefundExpiredBounty, Ids
  <2>2. QED
    BY <1>10, <2>1, ClosingCalls
<1>11. ASSUME NEW id \in Ids, ResolveExpiredDispute(id)
       PROVE  ClosingStep
  BY <1>11, ClosingCalls
<1>12. QED
  BY <1>1, <1>2, <1>3, <1>4, <1>5, <1>6, <1>7, <1>8, <1>9, <1>10, <1>11
  DEF Next, DepositStep

\* Every reachable state of the contract is well typed: in particular the
\* contract's balance never goes negative and every net amount, share and
\* milestone total is a natural number.
THEOREM TypeCorrect == Spec => []TypeOK
BY TypeInit, TypeStep, PTL DEF Spec

-----------------------------------------------------------------------------
(* What each shape does to one escrow *)

\* The fields of an escrow other than its status.
SameTerms(id) ==
    /\ escrow'[id].bounty = escrow[id].bounty
    /\ escrow'[id].payer = escrow[id].payer
    /\ escrow'[id].amount = escrow[id].amount

LEMMA StatusEffect ==
    ASSUME TypeOK, NEW id \in Ids, NEW status, SetStatus(id, status)
    PROVE  /\ Ids' = Ids /\ counter' = counter /\ bountyEscrow' = bountyEscrow
           /\ escrow'[id].status = status
           /\ \A i \in Ids : SameTerms(i)
           /\ \A i \in Ids \ {id} : escrow'[i] = escrow[i]
<1>1. escrow \in [Ids -> EscrowAccount]
  BY DEF TypeOK
<1>2. escrow' = [escrow EXCEPT ![id] = [escrow[id] EXCEPT !.status = status]]
  BY DEF SetStatus
<1>3. \A i \in Ids \ {id} : escrow'[i] = escrow[i]
  BY <1>1, <1>2
<1>4. escrow'[id] = [escrow[id] EXCEPT !.status = status]
  BY <1>1, <1>2
<1>5. escrow'[id].status = status /\ SameTerms(id)
  BY <1>1, <1>4 DEF EscrowAccount, SameTerms
<1>6. QED
  BY <1>3, <1>5 DEF SetStatus, Ids, SameTerms

LEMMA PayEffect ==
    ASSUME TypeOK, NEW id \in Ids, NEW x \in Nat, NEW y \in Nat, Pay(id, x, y)
    PROVE  /\ paid'[id].payee + paid'[id].payer = PaidOut(id) + x + y
           /\ \A i \in Ids \ {id} : paid'[i] = paid[i]
<1>1. paid \in [Ids -> Payment] /\ paid[id] \in Payment
  BY DEF TypeOK
<1>2. paid' = [paid EXCEPT ![id] = [payee |-> paid[id].payee + x,
                                    payer |-> paid[id].payer + y]]
  BY DEF Pay
<1>3. paid'[id] = [payee |-> paid[id].payee + x, payer |-> paid[id].payer + y]
  BY <1>1, <1>2
<1>4. paid'[id].payee = paid[id].payee + x /\ paid'[id].payer = paid[id].payer + y
  BY <1>3
<1>5. paid[id].payee \in Nat /\ paid[id].payer \in Nat
  BY <1>1 DEF Payment
<1>6. paid'[id].payee + paid'[id].payer = PaidOut(id) + x + y
  BY <1>4, <1>5 DEF PaidOut
<1>7. \A i \in Ids \ {id} : paid'[i] = paid[i]
  BY <1>1, <1>2
<1>8. QED
  BY <1>6, <1>7

\* A new escrow, with nothing paid and no milestone; the others are untouched.
Opens(bid, amount) ==
    /\ counter \in Nat /\ counter' = counter + 1 /\ now' = now
    /\ Ids' = Ids \cup {counter + 1} /\ counter + 1 \notin Ids
    /\ Ids = 1..counter /\ Ids' = 1..(counter + 1)
    /\ escrow'[counter + 1].bounty = bid
    /\ escrow'[counter + 1].amount = NetAmount(amount)
    /\ escrow'[counter + 1].status = "Active"
    /\ milestone'[counter + 1] = [k \in Indices |-> NoMilestone]
    /\ progress'[counter + 1] = NoProgress
    /\ disputeExpiry'[counter + 1] = 0
    /\ paid'[counter + 1] = [payee |-> 0, payer |-> 0]
    /\ \A i \in Ids :
          /\ escrow'[i] = escrow[i] /\ milestone'[i] = milestone[i]
          /\ progress'[i] = progress[i] /\ paid'[i] = paid[i]
          /\ disputeExpiry'[i] = disputeExpiry[i]
    /\ bountyEscrow' = [bountyEscrow EXCEPT ![bid] = counter + 1]

LEMMA DepositEffect ==
    ASSUME TypeOK, DepositStep
    PROVE  \E bid \in Bounties, amount \in Amounts :
               amount \in Nat \ {0} /\ Opens(bid, amount)
<1>1. PICK bid \in Bounties, payer \in Addrs, payee \in Addrs,
           amount \in Amounts, unlockAt \in UnlockTimes :
              Deposit(bid, payer, payee, amount, unlockAt)
  BY DEF DepositStep
<1>2. /\ counter \in Nat /\ counter' = counter + 1
      /\ Ids' = 1..(counter + 1) /\ Ids = 1..counter
  BY <1>1 DEF TypeOK, Deposit, Ids
<1>3. Ids' = Ids \cup {counter + 1} /\ counter + 1 \notin Ids
  BY <1>2
<1>4. Opens(bid, amount)
  BY <1>1, <1>2, <1>3, ExtendApply DEF Deposit, LatestDeposit, Opens
<1>5. amount \in Nat \ {0}
  BY <1>1, EscrowAssumption DEF Deposit
<1>6. QED
  BY <1>4, <1>5

\* A milestone is paid out of an active escrow, which the last one completes.
PaysMilestone(id, index) ==
    /\ milestone[id][index].amount \in Nat \ {0}
    /\ milestone[id][index].released = FALSE
    /\ escrow[id].status = "Active"
    /\ escrow'[id].status = StatusAfter(progress[id])
    /\ milestone'[id][index].amount = milestone[id][index].amount
    /\ milestone'[id][index].released = TRUE
    /\ \A k \in Indices \ {index} : milestone'[id][k] = milestone[id][k]
    /\ progress'[id].count = progress[id].count
    /\ progress'[id].releasedCount = progress[id].releasedCount + 1
    /\ progress'[id].releasedAmount =
          progress[id].releasedAmount + milestone[id][index].amount
    /\ paid'[id].payee + paid'[id].payer =
          PaidOut(id) + milestone[id][index].amount
    /\ \A i \in Ids \ {id} :
          /\ escrow'[i] = escrow[i] /\ milestone'[i] = milestone[i]
          /\ progress'[i] = progress[i] /\ paid'[i] = paid[i]
    /\ \A i \in Ids : SameTerms(i)
    /\ Ids' = Ids
    /\ UNCHANGED <<counter, bountyEscrow, disputeExpiry, now>>

LEMMA ReleaseMilestoneEffect ==
    ASSUME TypeOK, NEW caller, NEW id \in Ids, NEW index \in Indices,
           ReleaseMilestone(caller, id, index)
    PROVE  PaysMilestone(id, index)
<1> DEFINE p      == progress[id]
           m      == milestone[id][index]
           amount == m.amount
<1>1. /\ progress \in [Ids -> Progress] /\ p \in Progress
      /\ milestone \in [Ids -> [Indices -> Milestone]] /\ m \in Milestone
  BY DEF TypeOK
<1>2. amount \in Nat \ {0} /\ m.released = FALSE
  BY <1>1 DEF ReleaseMilestone, Added, Released, Milestone
<1>3. /\ milestone'[id][index].amount = amount
      /\ milestone'[id][index].released = TRUE
      /\ \A k \in Indices \ {index} : milestone'[id][k] = milestone[id][k]
      /\ \A i \in Ids \ {id} : milestone'[i] = milestone[i]
  <2>1. milestone' = [milestone EXCEPT ![id] = [milestone[id] EXCEPT ![index] =
                          [m EXCEPT !.released = TRUE]]]
    BY DEF ReleaseMilestone
  <2>2. /\ [m EXCEPT !.released = TRUE].amount = amount
        /\ [m EXCEPT !.released = TRUE].released = TRUE
    BY <1>1 DEF Milestone
  <2> HIDE DEF amount, m
  <2>3. QED
    BY <1>1, <2>1, <2>2
<1>4. /\ progress'[id].count = p.count
      /\ progress'[id].releasedCount = p.releasedCount + 1
      /\ progress'[id].releasedAmount = p.releasedAmount + amount
      /\ \A i \in Ids \ {id} : progress'[i] = progress[i]
  <2>1. progress' = [progress EXCEPT ![id] =
            [p EXCEPT !.releasedCount = p.releasedCount + 1,
                      !.releasedAmount = p.releasedAmount + amount]]
    BY DEF ReleaseMilestone
  <2> HIDE DEF amount, m
  <2>2. progress'[id] = [p EXCEPT !.releasedCount = p.releasedCount + 1,
                                  !.releasedAmount = p.releasedAmount + amount]
    BY <1>1, <2>1
  <2>3. QED
    BY <1>1, <2>1, <2>2 DEF Progress
<1>5. /\ paid'[id].payee + paid'[id].payer = PaidOut(id) + amount + 0
      /\ \A i \in Ids \ {id} : paid'[i] = paid[i]
  <2>1. Pay(id, amount, 0)
    BY DEF ReleaseMilestone
  <2> HIDE DEF amount, m
  <2>2. QED
    BY <1>2, <2>1, PayEffect
<1>6. PaidOut(id) + amount + 0 = PaidOut(id) + amount
  <2>1. PaidOut(id) \in Nat
    BY DEF TypeOK, Payment, PaidOut
  <2> HIDE DEF amount, m
  <2>2. QED
    BY <1>2, <2>1
<1>7. SetStatus(id, StatusAfter(p)) /\ RequireActive(id)
  BY DEF ReleaseMilestone
<1>8. QED
  BY <1>2, <1>3, <1>4, <1>5, <1>6, <1>7, StatusEffect
  DEF ReleaseMilestone, RequireActive, PaysMilestone

\* A milestone is added to an active escrow, within its amount.
AddsMilestone(id, index, amount) ==
    /\ amount \in Nat \ {0}
    /\ escrow[id].status = "Active"
    /\ index \notin Added(id)
    /\ milestone'[id][index].amount = amount
    /\ milestone'[id][index].released = FALSE
    /\ \A k \in Indices \ {index} : milestone'[id][k] = milestone[id][k]
    /\ progress'[id].count = progress[id].count + 1
    /\ progress'[id].total = progress[id].total + amount
    /\ progress'[id].releasedCount = progress[id].releasedCount
    /\ progress'[id].releasedAmount = progress[id].releasedAmount
    /\ progress'[id].total <= escrow[id].amount
    /\ \A i \in Ids \ {id} :
          milestone'[i] = milestone[i] /\ progress'[i] = progress[i]
    /\ Ids' = Ids
    /\ UNCHANGED <<counter, escrow, bountyEscrow, disputeExpiry, paid, now>>

LEMMA AddMilestoneEffect ==
    ASSUME TypeOK, NEW caller, NEW id \in Ids, NEW index \in Indices,
           NEW amount \in MsAmounts, AddMilestone(caller, id, index, amount)
    PROVE  AddsMilestone(id, index, amount)
<1> DEFINE p == progress[id]
<1>1. /\ progress \in [Ids -> Progress] /\ p \in Progress
      /\ milestone \in [Ids -> [Indices -> Milestone]]
  BY DEF TypeOK
<1>2. amount \in Nat \ {0}
  BY EscrowAssumption DEF AddMilestone
<1>3. /\ milestone'[id][index].amount = amount
      /\ milestone'[id][index].released = FALSE
      /\ \A k \in Indices \ {index} : milestone'[id][k] = milestone[id][k]
      /\ \A i \in Ids \ {id} : milestone'[i] = milestone[i]
  BY <1>1 DEF AddMilestone
<1>4. /\ progress'[id] = [p EXCEPT !.total = p.total + amount,
                                   !.count = p.count + 1]
      /\ \A i \in Ids \ {id} : progress'[i] = progress[i]
  BY <1>1 DEF AddMilestone
<1>5. /\ progress'[id].count = p.count + 1
      /\ progress'[id].total = p.total + amount
      /\ progress'[id].releasedCount = p.releasedCount
      /\ progress'[id].releasedAmount = p.releasedAmount
  <2> HIDE DEF p
  <2>1. QED
    BY <1>1, <1>4 DEF Progress
<1>6. progress'[id].total <= escrow[id].amount
  BY <1>5 DEF AddMilestone, Fits
<1>7. QED
  BY <1>2, <1>3, <1>5, <1>4, <1>6
  DEF AddMilestone, RequireActive, dealVars, moneyVars, Ids, AddsMilestone


-----------------------------------------------------------------------------
(* Payouts *)

LEMMA PayoutStep ==
    ASSUME TypeOK, PayoutMatchesStatus, [Next]_vars
    PROVE  PayoutMatchesStatus'
<1> DEFINE Closed(i) ==
        IF escrow[i].status \in {"Released", "Refunded"} THEN escrow[i].amount ELSE 0
           Matches(i) == PaidOut(i) = progress[i].releasedAmount + Closed(i)
<1>1. \A i \in Ids : /\ paid[i].payee \in Nat /\ paid[i].payer \in Nat
                     /\ PaidOut(i) \in Nat
                     /\ progress[i].releasedAmount \in Nat
                     /\ escrow[i].amount \in Nat
  BY DEF TypeOK, Payment, Progress, EscrowAccount, PaidOut
<1>2. CASE Quiet
  BY <1>2 DEF Quiet, dealVars, msVars, moneyVars, PayoutMatchesStatus, Ids, PaidOut
<1>3. CASE ClosingStep
  <2>1. PICK id \in Ids, status \in {"Released", "Refunded"},
             x \in Nat, y \in Nat : Closes(id, status, x, y)
    BY <1>3 DEF ClosingStep
  <2>2. /\ SetStatus(id, status) /\ Pay(id, x, y) /\ progress' = progress
        /\ x + y = escrow[id].amount /\ escrow[id].status \in Live
    BY <2>1 DEF Closes, msVars
  <2>3. PaidOut(id) = progress[id].releasedAmount
    BY <1>1, <2>2 DEF PayoutMatchesStatus, Live
  <2>4. paid'[id].payee + paid'[id].payer
            = progress[id].releasedAmount + escrow[id].amount
    <3>1. paid'[id].payee + paid'[id].payer = PaidOut(id) + x + y
      BY <2>2, PayEffect
    <3>2. QED
      BY <1>1, <2>2, <2>3, <3>1
  <2>5. /\ Ids' = Ids /\ escrow'[id].status = status /\ SameTerms(id)
        /\ \A i \in Ids \ {id} : escrow'[i] = escrow[i] /\ paid'[i] = paid[i]
    BY <2>2, StatusEffect, PayEffect
  <2>6. QED
    BY <2>2, <2>4, <2>5 DEF PayoutMatchesStatus, PaidOut, SameTerms
<1>4. CASE DepositStep
  <2>1. PICK bid \in Bounties, amount \in Amounts : Opens(bid, amount)
    BY <1>4, DepositEffect
  <2>2. /\ Ids' = Ids \cup {counter + 1}
        /\ escrow'[counter + 1].status = "Active"
        /\ progress'[counter + 1] = NoProgress
        /\ paid'[counter + 1] = [payee |-> 0, payer |-> 0]
        /\ \A i \in Ids : escrow'[i] = escrow[i] /\ paid'[i] = paid[i]
                          /\ progress'[i] = progress[i]
    BY <2>1 DEF Opens
  <2>3. QED
    BY <2>2 DEF PayoutMatchesStatus, PaidOut, NoProgress
<1>5. CASE DisputeStep
  <2>1. PICK caller \in Addrs, id \in Ids : DisputeEscrow(caller, id)
    BY <1>5 DEF DisputeStep
  <2>2. /\ SetStatus(id, "Disputed") /\ escrow[id].status = "Active"
        /\ progress' = progress /\ paid' = paid
    BY <2>1 DEF DisputeEscrow, RequireActive, msVars, moneyVars
  <2>3. QED
    BY <2>2, StatusEffect DEF PayoutMatchesStatus, PaidOut
<1>6. CASE AddMilestoneStep
  <2>1. PICK id \in Ids, index \in Indices, amount \in MsAmounts :
            AddsMilestone(id, index, amount)
    BY <1>6, AddMilestoneEffect DEF AddMilestoneStep
  <2>2. /\ Ids' = Ids /\ escrow' = escrow /\ paid' = paid
        /\ \A i \in Ids : progress'[i].releasedAmount = progress[i].releasedAmount
    BY <2>1 DEF AddsMilestone
  <2>3. QED
    BY <2>2 DEF PayoutMatchesStatus, PaidOut
<1>7. CASE ReleaseMilestoneStep
  <2>1. PICK id \in Ids, index \in Indices : PaysMilestone(id, index)
    BY <1>7, ReleaseMilestoneEffect DEF ReleaseMilestoneStep
  <2> DEFINE amount == milestone[id][index].amount
  <2>2. /\ Ids' = Ids /\ amount \in Nat
        /\ escrow[id].status = "Active"
        /\ escrow'[id].status \in {"Active", "Complete"}
        /\ paid'[id].payee + paid'[id].payer = PaidOut(id) + amount
        /\ progress'[id].releasedAmount = progress[id].releasedAmount + amount
        /\ \A i \in Ids \ {id} : /\ escrow'[i] = escrow[i] /\ paid'[i] = paid[i]
                                 /\ progress'[i] = progress[i]
    BY <2>1 DEF StatusAfter, PaysMilestone
  <2>3. PaidOut(id) = progress[id].releasedAmount
    BY <1>1, <2>2 DEF PayoutMatchesStatus
  <2> HIDE DEF amount
  <2>4. paid'[id].payee + paid'[id].payer = progress'[id].releasedAmount + 0
    BY <1>1, <2>2, <2>3
  <2>5. QED
    BY <2>2, <2>4 DEF PayoutMatchesStatus, PaidOut
<1>8. QED
  BY <1>2, <1>3, <1>4, <1>5, <1>6, <1>7, StepShapes

\* An escrow has handed out its released milestones, and on top of them its
\* whole net amount exactly when it was released or refunded.
THEOREM PayoutCorrect == Spec => []PayoutMatchesStatus
<1>1. Init => PayoutMatchesStatus
  BY DEF Init, PayoutMatchesStatus, Ids
<1>2. QED
  BY <1>1, PayoutStep, TypeCorrect, PTL DEF Spec

-----------------------------------------------------------------------------
(* Disputes *)

LEMMA ExpiryStep ==
    ASSUME TypeOK, DisputeHasExpiry, [Next]_vars
    PROVE  DisputeHasExpiry'
<1>1. /\ now \in Nat /\ DisputeTimeout \in Nat
      /\ \A i \in Ids : disputeExpiry[i] \in Nat
  BY EscrowAssumption DEF TypeOK
<1>2. CASE Quiet
  BY <1>1, <1>2 DEF Quiet, dealVars, DisputeHasExpiry, Ids
<1>3. CASE ClosingStep
  <2>1. PICK id \in Ids, status \in {"Released", "Refunded"},
             x \in Nat, y \in Nat : Closes(id, status, x, y)
    BY <1>3 DEF ClosingStep
  <2>2. SetStatus(id, status) /\ disputeExpiry' = disputeExpiry /\ now' = now
    BY <2>1 DEF Closes
  <2>3. QED
    BY <2>2, StatusEffect DEF DisputeHasExpiry
<1>4. CASE DepositStep
  <2>1. PICK bid \in Bounties, amount \in Amounts : Opens(bid, amount)
    BY <1>4, DepositEffect
  <2>2. /\ Ids' = Ids \cup {counter + 1} /\ now' = now
        /\ escrow'[counter + 1].status = "Active"
        /\ disputeExpiry'[counter + 1] = 0
        /\ \A i \in Ids : escrow'[i] = escrow[i]
                          /\ disputeExpiry'[i] = disputeExpiry[i]
    BY <2>1 DEF Opens
  <2>3. QED
    BY <2>2 DEF DisputeHasExpiry
<1>5. CASE DisputeStep
  <2>1. PICK caller \in Addrs, id \in Ids : DisputeEscrow(caller, id)
    BY <1>5 DEF DisputeStep
  <2>2. /\ SetStatus(id, "Disputed") /\ now' = now
        /\ disputeExpiry' = [disputeExpiry EXCEPT ![id] = now + DisputeTimeout]
    BY <2>1 DEF DisputeEscrow, DisputeExpiresAt
  <2>3. /\ disputeExpiry'[id] = now + DisputeTimeout
        /\ \A i \in Ids \ {id} : disputeExpiry'[i] = disputeExpiry[i]
    BY <2>2 DEF TypeOK
  <2>4. now + DisputeTimeout \in DisputeTimeout..(now + DisputeTimeout)
    BY <1>1
  <2>5. QED
    BY <2>2, <2>3, <2>4, StatusEffect DEF DisputeHasExpiry
<1>6. CASE AddMilestoneStep
  BY <1>6, AddMilestoneEffect DEF AddMilestoneStep, AddsMilestone, DisputeHasExpiry
<1>7. CASE ReleaseMilestoneStep
  <2>1. PICK id \in Ids, index \in Indices : PaysMilestone(id, index)
    BY <1>7, ReleaseMilestoneEffect DEF ReleaseMilestoneStep
  <2>2. /\ Ids' = Ids /\ now' = now /\ disputeExpiry' = disputeExpiry
        /\ escrow[id].status = "Active"
        /\ escrow'[id].status \in {"Active", "Complete"}
        /\ \A i \in Ids \ {id} : escrow'[i] = escrow[i]
    BY <2>1 DEF StatusAfter, PaysMilestone
  <2>3. QED
    BY <2>2 DEF DisputeHasExpiry
<1>8. QED
  BY <1>2, <1>3, <1>4, <1>5, <1>6, <1>7, StepShapes

\* Every disputed escrow has an expiry at most one timeout ahead, so it can
\* always be resolved without the admin once that time has passed.
THEOREM ExpiryCorrect == Spec => []DisputeHasExpiry
<1>1. Init => DisputeHasExpiry
  BY DEF Init, DisputeHasExpiry, Ids
<1>2. QED
  BY <1>1, ExpiryStep, TypeCorrect, PTL DEF Spec

-----------------------------------------------------------------------------
(* The escrow of a bounty *)

LEMMA LatestStep ==
    ASSUME TypeOK, LatestEscrow, [Next]_vars
    PROVE  LatestEscrow'
<1>1. CASE DepositStep
  <2>1. PICK bid \in Bounties, amount \in Amounts : Opens(bid, amount)
    BY <1>1, DepositEffect
  <2>2. /\ Ids' = Ids \cup {counter + 1} /\ counter \in Nat /\ Ids = 1..counter
        /\ escrow'[counter + 1].bounty = bid
        /\ \A i \in Ids : escrow'[i] = escrow[i]
        /\ bountyEscrow' = [bountyEscrow EXCEPT ![bid] = counter + 1]
    BY <2>1 DEF Opens
  <2>3. bountyEscrow \in [Bounties -> 0..counter]
    BY DEF TypeOK
  <2> DEFINE Of(b)  == {id \in Ids : escrow[id].bounty = b}
             Of1(b) == {id \in Ids' : escrow'[id].bounty = b}
  <2>4. Of1(bid) = Of(bid) \cup {counter + 1}
    BY <2>2
  <2>5. \A b \in Bounties \ {bid} :
            Of1(b) = Of(b) /\ bountyEscrow'[b] = bountyEscrow[b]
    BY <2>2, <2>3
  <2>6. bountyEscrow'[bid] = counter + 1
    BY <2>2, <2>3
  <2>7. \A b \in Bounties :
            /\ bountyEscrow[b] = 0 <=> Of(b) = {}
            /\ Of(b) # {} => bountyEscrow[b] \in Of(b)
            /\ \A id \in Of(b) : id <= bountyEscrow[b]
    BY DEF LatestEscrow
  <2>8. /\ counter + 1 # 0 /\ counter + 1 \in Of1(bid)
        /\ \A id \in Of1(bid) : id <= counter + 1
    BY <2>2, <2>4
  <2>9. \A b \in Bounties :
            /\ bountyEscrow'[b] = 0 <=> Of1(b) = {}
            /\ Of1(b) # {} => bountyEscrow'[b] \in Of1(b)
            /\ \A id \in Of1(b) : id <= bountyEscrow'[b]
    <3> HIDE DEF Of, Of1
    <3>1. QED
      BY <2>5, <2>6, <2>7, <2>8
  <2>10. QED
    BY <2>9 DEF LatestEscrow
<1>2. ASSUME Ids' = Ids, bountyEscrow' = bountyEscrow,
             \A i \in Ids : escrow'[i].bounty = escrow[i].bounty
      PROVE  LatestEscrow'
  <2>1. \A b \in Bounties : {id \in Ids' : escrow'[id].bounty = b}
                                = {id \in Ids : escrow[id].bounty = b}
    BY <1>2
  <2>2. QED
    BY <1>2, <2>1 DEF LatestEscrow
<1>3. CASE Quiet
  BY <1>2, <1>3 DEF Quiet, dealVars, Ids
<1>4. CASE ClosingStep
  BY <1>2, <1>4, StatusEffect DEF ClosingStep, Closes, SameTerms
<1>5. CASE DisputeStep
  BY <1>2, <1>5, StatusEffect DEF DisputeStep, DisputeEscrow, SameTerms
<1>6. CASE AddMilestoneStep
  BY <1>2, <1>6, AddMilestoneEffect DEF AddMilestoneStep, AddsMilestone
<1>7. CASE ReleaseMilestoneStep
  BY <1>2, <1>7, ReleaseMilestoneEffect
  DEF ReleaseMilestoneStep, PaysMilestone, SameTerms
<1>8. QED
  BY <1>1, <1>3, <1>4, <1>5, <1>6, <1>7, StepShapes

\* The escrow refunded when a bounty expires is the one deposited last for it.
THEOREM LatestCorrect == Spec => []LatestEscrow
<1>1. Init => LatestEscrow
  BY DEF Init, LatestEscrow, Ids
<1>2. QED
  BY <1>1, LatestStep, TypeCorrect, PTL DEF Spec

-----------------------------------------------------------------------------
(* Closed escrows *)

\* What ClosedIsFinal says of one escrow in one step.
StaysFinal(id) ==
    /\ escrow[id].status \notin Live =>
          /\ escrow'[id] = escrow[id]
          /\ milestone'[id] = milestone[id]
          /\ paid'[id] = paid[id]
    /\ escrow[id].status = "Disputed" =>
          /\ milestone'[id] = milestone[id]
          /\ escrow'[id].status \in {"Disputed", "Released", "Refunded"}
          /\ paid'[id] # paid[id] => escrow'[id].status # "Disputed"

LEMMA FinalStep ==
    ASSUME TypeOK, [Next]_vars
    PROVE  \A id \in Ids : StaysFinal(id)
<1>1. CASE Quiet
  BY <1>1 DEF Quiet, dealVars, msVars, moneyVars, StaysFinal
<1>2. CASE ClosingStep
  <2>1. PICK id \in Ids, status \in {"Released", "Refunded"},
             x \in Nat, y \in Nat : Closes(id, status, x, y)
    BY <1>2 DEF ClosingStep
  <2>2. /\ SetStatus(id, status) /\ Pay(id, x, y) /\ milestone' = milestone
        /\ escrow[id].status \in Live
    BY <2>1 DEF Closes, msVars
  <2>3. /\ escrow'[id].status = status
        /\ \A i \in Ids \ {id} : escrow'[i] = escrow[i] /\ paid'[i] = paid[i]
    BY <2>2, StatusEffect, PayEffect
  <2>4. QED
    BY <2>2, <2>3 DEF StaysFinal
<1>3. CASE DepositStep
  <2>1. PICK bid \in Bounties, amount \in Amounts : Opens(bid, amount)
    BY <1>3, DepositEffect
  <2>2. QED
    BY <2>1 DEF Opens, StaysFinal
<1>4. CASE DisputeStep
  <2>1. PICK caller \in Addrs, id \in Ids : DisputeEscrow(caller, id)
    BY <1>4 DEF DisputeStep
  <2>2. /\ SetStatus(id, "Disputed") /\ escrow[id].status = "Active"
        /\ milestone' = milestone /\ paid' = paid
    BY <2>1 DEF DisputeEscrow, RequireActive, msVars, moneyVars
  <2>3. QED
    BY <2>2, StatusEffect DEF StaysFinal, Live
<1>5. CASE AddMilestoneStep
  <2>1. PICK id \in Ids, index \in Indices, amount \in MsAmounts :
            AddsMilestone(id, index, amount)
    BY <1>5, AddMilestoneEffect DEF AddMilestoneStep
  <2>2. QED
    BY <2>1 DEF AddsMilestone, StaysFinal, Live
<1>6. CASE ReleaseMilestoneStep
  <2>1. PICK id \in Ids, index \in Indices : PaysMilestone(id, index)
    BY <1>6, ReleaseMilestoneEffect DEF ReleaseMilestoneStep
  <2>2. QED
    BY <2>1 DEF PaysMilestone, StaysFinal, Live
<1>7. QED
  BY <1>1, <1>2, <1>3, <1>4, <1>5, <1>6, StepShapes

\* No call ever touches an escrow that is Released, Refunded or Complete, and a
\* disputed one moves only to Released or Refunded, the step that pays it.
THEOREM FinalCorrect == Spec => ClosedIsFinal
<1>1. TypeOK /\ [Next]_vars => [\A id \in Ids : StaysFinal(id)]_vars
  BY FinalStep
<1>2. QED
  BY <1>1, TypeCorrect, PTL DEF Spec, ClosedIsFinal, StaysFinal

-----------------------------------------------------------------------------
(* Milestone counters *)

\* What MilestonesAgree says of one escrow.
Agrees(id) ==
    /\ progress[id].count = Cardinality(Added(id))
    /\ progress[id].releasedCount = Cardinality(Released(id))
    /\ Released(id) \subseteq Added(id)
    /\ escrow[id].status \in Live => (Added(id) # {} => Released(id) # Added(id))
    /\ escrow[id].status = "Complete" => Added(id) # {} /\ Released(id) = Added(id)

LEMMA MilestoneSetsFinite ==
    ASSUME NEW id
    PROVE  /\ IsFiniteSet(Added(id)) /\ Cardinality(Added(id)) \in Nat
           /\ IsFiniteSet(Released(id)) /\ Cardinality(Released(id)) \in Nat
<1>1. Added(id) \subseteq Indices /\ Released(id) \subseteq Indices
  BY DEF Added, Released
<1>2. QED
  BY <1>1, EscrowAssumption, FS_Subset, FS_CardinalityType

\* Adding a milestone counts it and leaves it to be released.
LEMMA AddAgrees ==
    ASSUME TypeOK, NEW id \in Ids, NEW index \in Indices, NEW amount,
           AddsMilestone(id, index, amount), Agrees(id)
    PROVE  Agrees(id)'
<1>1. index \notin Added(id) /\ index \notin Released(id)
  BY DEF AddsMilestone, Agrees
<1>2. Added(id)' = Added(id) \cup {index}
  BY <1>1 DEF AddsMilestone, Added
<1>3. Released(id)' = Released(id)
  BY <1>1 DEF AddsMilestone, Released
<1>4. Cardinality(Added(id) \cup {index}) = Cardinality(Added(id)) + 1
  BY <1>1, MilestoneSetsFinite, FS_AddElement
<1>5. QED
  BY <1>1, <1>2, <1>3, <1>4 DEF Agrees, AddsMilestone, Live

\* Releasing one counts it, and completes the escrow exactly when it is the last.
LEMMA ReleaseAgrees ==
    ASSUME TypeOK, NEW id \in Ids, NEW index \in Indices,
           PaysMilestone(id, index), Agrees(id)
    PROVE  Agrees(id)'
<1> DEFINE A == Added(id)
           R == Released(id)
           R1 == R \cup {index}
<1>1. index \in A /\ index \notin R /\ R \subseteq A
  BY DEF PaysMilestone, Added, Released, Agrees
<1>2. Added(id)' = A
  BY DEF PaysMilestone, Added
<1>3. Released(id)' = R1
  BY <1>1 DEF PaysMilestone, Released
<1>4. /\ IsFiniteSet(A) /\ Cardinality(A) \in Nat
      /\ IsFiniteSet(R) /\ Cardinality(R) \in Nat
  BY MilestoneSetsFinite
<1>5. progress[id].count = Cardinality(A)
      /\ progress[id].releasedCount = Cardinality(R)
  BY DEF Agrees
<1> HIDE DEF A, R
<1>6. IsFiniteSet(R1) /\ Cardinality(R1) = Cardinality(R) + 1
  BY <1>1, <1>4, FS_AddElement
<1>7. /\ R1 \subseteq A /\ A # {}
      /\ Cardinality(R1) <= Cardinality(A)
      /\ Cardinality(R1) = Cardinality(A) => R1 = A
  BY <1>1, <1>4, <1>6, FS_Subset
<1>8. A # {} => Cardinality(A) > 0
  BY <1>4, FS_EmptySet
<1>9. /\ progress'[id].count = Cardinality(A)
      /\ progress'[id].releasedCount = Cardinality(R1)
  BY <1>5, <1>6 DEF PaysMilestone
<1>10. escrow'[id].status = IF Cardinality(R) + 1 >= Cardinality(A)
                            THEN "Complete" ELSE "Active"
  BY <1>5, <1>7, <1>8 DEF PaysMilestone, StatusAfter
<1>11. CASE R1 = A
  BY <1>2, <1>3, <1>4, <1>6, <1>7, <1>9, <1>10, <1>11 DEF Agrees, Live
<1>12. CASE R1 # A
  <2>1. Cardinality(R) + 1 < Cardinality(A)
    BY <1>4, <1>6, <1>7, <1>12
  <2>2. escrow'[id].status = "Active"
    BY <1>4, <1>10, <2>1
  <2>3. QED
    BY <1>2, <1>3, <1>7, <1>9, <1>12, <2>2 DEF Agrees, Live
<1>13. QED
  BY <1>11, <1>12

LEMMA AgreeStep ==
    ASSUME TypeOK, MilestonesAgree, [Next]_vars
    PROVE  MilestonesAgree'
<1>1. \A i \in Ids : Agrees(i)
  BY DEF MilestonesAgree, Agrees
<1>2. ASSUME NEW i \in Ids, milestone'[i] = milestone[i],
             progress'[i] = progress[i],
             \/ escrow'[i].status = escrow[i].status
             \/ escrow'[i].status \in {"Released", "Refunded"}
             \/ escrow[i].status = "Active" /\ escrow'[i].status = "Disputed"
      PROVE  Agrees(i)'
  <2>1. Added(i)' = Added(i) /\ Released(i)' = Released(i)
    BY <1>2 DEF Added, Released
  <2>2. QED
    BY <1>1, <1>2, <2>1 DEF Agrees, Live
<1>3. SUFFICES \A i \in Ids' : Agrees(i)'
  BY DEF MilestonesAgree, Agrees
<1>4. CASE Quiet
  BY <1>2, <1>4 DEF Quiet, dealVars, msVars, Ids
<1>5. CASE ClosingStep
  <2>1. PICK id \in Ids, status \in {"Released", "Refunded"},
             x \in Nat, y \in Nat : Closes(id, status, x, y)
    BY <1>5 DEF ClosingStep
  <2>2. SetStatus(id, status) /\ milestone' = milestone /\ progress' = progress
    BY <2>1 DEF Closes, msVars
  <2>3. QED
    BY <1>2, <2>2, StatusEffect
<1>6. CASE DepositStep
  <2>1. PICK bid \in Bounties, amount \in Amounts : Opens(bid, amount)
    BY <1>6, DepositEffect
  <2>2. \A i \in Ids : Agrees(i)'
    BY <1>2, <2>1 DEF Opens
  <2>3. ASSUME NEW n, n = counter + 1
        PROVE  Agrees(n)'
    <3>1. Added(n)' = {} /\ Released(n)' = {}
      BY <2>1, <2>3 DEF Opens, Added, Released, NoMilestone
    <3>2. /\ progress'[n].count = 0 /\ progress'[n].releasedCount = 0
          /\ escrow'[n].status = "Active"
      BY <2>1, <2>3 DEF Opens, NoProgress
    <3>3. QED
      BY <3>1, <3>2, FS_EmptySet DEF Agrees
  <2>4. QED
    BY <2>1, <2>2, <2>3 DEF Opens
<1>7. CASE DisputeStep
  <2>1. PICK caller \in Addrs, id \in Ids : DisputeEscrow(caller, id)
    BY <1>7 DEF DisputeStep
  <2>2. /\ SetStatus(id, "Disputed") /\ escrow[id].status = "Active"
        /\ milestone' = milestone /\ progress' = progress
    BY <2>1 DEF DisputeEscrow, RequireActive, msVars
  <2>3. QED
    BY <1>2, <2>2, StatusEffect
<1>8. CASE AddMilestoneStep
  <2>1. PICK id \in Ids, index \in Indices, amount \in MsAmounts :
            AddsMilestone(id, index, amount)
    BY <1>8, AddMilestoneEffect DEF AddMilestoneStep
  <2>2. Agrees(id)'
    BY <1>1, <2>1, AddAgrees
  <2>3. \A i \in Ids \ {id} : Agrees(i)'
    BY <1>2, <2>1 DEF AddsMilestone
  <2>4. QED
    BY <2>1, <2>2, <2>3 DEF AddsMilestone
<1>9. CASE ReleaseMilestoneStep
  <2>1. PICK id \in Ids, index \in Indices : PaysMilestone(id, index)
    BY <1>9, ReleaseMilestoneEffect DEF ReleaseMilestoneStep
  <2>2. Agrees(id)'
    BY <1>1, <2>1, ReleaseAgrees
  <2>3. \A i \in Ids \ {id} : Agrees(i)'
    BY <1>2, <2>1 DEF PaysMilestone
  <2>4. QED
    BY <2>1, <2>2, <2>3 DEF PaysMilestone
<1>10. QED
  BY <1>4, <1>5, <1>6, <1>7, <1>8, <1>9, StepShapes

\* The milestone counters count the milestone records, and an escrow completes
\* with its last milestone, never before and never later.
THEOREM MilestonesCorrect == Spec => []MilestonesAgree
<1>1. Init => MilestonesAgree
  BY DEF Init, MilestonesAgree, Ids
<1>2. QED
  BY <1>1, AgreeStep, TypeCorrect, PTL DEF Spec

-----------------------------------------------------------------------------
(* Money: the balance is the fees kept and what the escrows have not paid out *)

\* What the milestones of an escrow have still to hand out.
Left(id) ==
    [k \in Indices |-> IF milestone[id][k].released THEN 0
                                                    ELSE milestone[id][k].amount]

\* The plan of milestones fits the escrow, and it is the sum of what was released
\* and of what is left.
Planned(id) ==
    /\ progress[id].total <= escrow[id].amount
    /\ progress[id].total = progress[id].releasedAmount + Total(Left(id))

\* What an escrow has not paid out; below zero when it paid more than it had.
Kept == [id \in Ids |-> escrow[id].amount - PaidOut(id)]

\* The inductive invariant: nothing enters or leaves the balance beside a deposit's
\* net amount, a fee that had no receiver, and the payments of the escrows.
Conserved ==
    /\ pool = heldFees + Total(Kept)
    /\ \A id \in Ids : Planned(id)

LEMMA IdsFinite == TypeOK => IsFiniteSet(Ids)
BY FS_Interval DEF TypeOK, Ids

LEMMA KeptType == TypeOK => Kept \in [Ids -> Int] /\ Total(Kept) \in Int
<1> SUFFICES ASSUME TypeOK PROVE Kept \in [Ids -> Int] /\ Total(Kept) \in Int
  OBVIOUS
<1>1. ASSUME NEW id \in Ids PROVE escrow[id].amount - PaidOut(id) \in Int
  BY DEF TypeOK, EscrowAccount, Payment, PaidOut
<1>2. Kept \in [Ids -> Int]
  BY <1>1 DEF Kept
<1>3. QED
  BY <1>2, IdsFinite, TotalInt

LEMMA LeftType ==
    ASSUME TypeOK, NEW id \in Ids
    PROVE  Left(id) \in [Indices -> Nat] /\ Total(Left(id)) \in Nat
<1>1. milestone[id] \in [Indices -> Milestone]
  BY DEF TypeOK
<1>2. Left(id) \in [Indices -> Nat]
  BY <1>1 DEF Left, Milestone
<1>3. Total(Left(id)) \in Nat
  BY <1>2, EscrowAssumption, TotalPart
<1>4. QED
  BY <1>2, <1>3

\* The next value of what is kept, where one escrow pays or none does.
LEMMA KeptSame ==
    ASSUME TypeOK, Ids' = Ids, \A i \in Ids : escrow'[i].amount = escrow[i].amount,
           \A i \in Ids : paid'[i] = paid[i]
    PROVE  Kept' = Kept
BY DEF Kept, PaidOut

LEMMA KeptNext == TypeOK' => (Kept \in [Ids -> Int] /\ Total(Kept) \in Int)'
BY KeptType, PTL

LEMMA LeftNext ==
    ASSUME TypeOK', NEW id \in Ids'
    PROVE  Left(id)' \in [Indices -> Nat] /\ Total(Left(id)') \in Nat
<1>1. milestone'[id] \in [Indices -> Milestone]
  BY DEF TypeOK
<1>2. Left(id)' \in [Indices -> Nat]
  BY <1>1 DEF Left, Milestone
<1>3. Total(Left(id)') \in Nat
  BY <1>2, EscrowAssumption, TotalPart
<1>4. QED
  BY <1>2, <1>3

LEMMA KeptPays ==
    ASSUME TypeOK, TypeOK', NEW id \in Ids, NEW x \in Nat, NEW y \in Nat, Pay(id, x, y),
           Ids' = Ids, \A i \in Ids : escrow'[i].amount = escrow[i].amount
    PROVE  Total(Kept') = Total(Kept) - (x + y)
<1>1. PICK before \in [Ids -> Int] : before = Kept
  BY KeptType
<1>2. Kept' \in [Ids' -> Int]
  BY KeptNext
<1>3. PICK after \in [Ids -> Int] : after = Kept'
  BY <1>2
<1>4. \A i \in Ids \ {id} : after[i] = before[i]
  BY <1>1, <1>3, PayEffect DEF Kept, PaidOut
<1>5. after[id] - before[id] = -(x + y)
  <2>1. /\ before[id] = escrow[id].amount - PaidOut(id)
        /\ after[id] = escrow[id].amount - (paid'[id].payee + paid'[id].payer)
    BY <1>1, <1>3 DEF Kept, PaidOut
  <2>2. paid'[id].payee + paid'[id].payer = PaidOut(id) + x + y
    BY PayEffect
  <2>3. escrow[id].amount \in Nat /\ PaidOut(id) \in Nat
    BY DEF TypeOK, EscrowAccount, Payment, PaidOut
  <2>4. QED
    BY <2>1, <2>2, <2>3
<1>6. Total(after) = Total(before) + (after[id] - before[id])
  BY <1>4, IdsFinite, TotalChange
<1>7. Total(before) \in Int
  BY <1>1, KeptType
<1>8. QED
  BY <1>1, <1>3, <1>5, <1>6, <1>7

LEMMA KeptDeposit ==
    ASSUME TypeOK, TypeOK', NEW bid, NEW amount \in Nat, Opens(bid, amount)
    PROVE  Total(Kept') = Total(Kept) + NetAmount(amount)
<1> DEFINE n == counter + 1
<1>1. PICK before \in [Ids -> Int] : before = Kept /\ Total(Kept) \in Int
  BY KeptType
<1>2. PICK D : D = Ids' /\ D = Ids \cup {n} /\ n \in D /\ Ids = D \ {n}
  <2>1. Ids' = Ids \cup {n} /\ n \notin Ids
    BY DEF Opens
  <2>2. Ids' = Ids \cup {n} /\ n \in Ids' /\ Ids = Ids' \ {n}
    <3> HIDE DEF n
    <3>1. QED
      BY <2>1
  <2>3. QED
    BY <2>2
<1>3. PICK after \in [D -> Int] : after = Kept'
  BY <1>2, KeptNext
<1>4. IsFiniteSet(D)
  BY <1>2, IdsFinite, FS_AddElement
<1>5. \A i \in D \ {n} : before[i] = after[i]
  BY <1>1, <1>2, <1>3 DEF Kept, PaidOut, Opens
<1>6. after[n] = NetAmount(amount)
  <2>1. /\ escrow'[n].amount = NetAmount(amount)
        /\ paid'[n].payee = 0 /\ paid'[n].payer = 0
    BY DEF Opens
  <2>2. after[n] = escrow'[n].amount - (paid'[n].payee + paid'[n].payer)
    BY <1>2, <1>3 DEF Kept, PaidOut
  <2>3. NetAmount(amount) \in Nat
    BY NetAmountIsNat
  <2>4. QED
    BY <2>1, <2>2, <2>3
<1>7. Total(after) = after[n] + Total(before)
  <2>1. PICK m : m = n
    OBVIOUS
  <2>2. /\ before \in [D \ {m} -> Int] /\ m \in D
        /\ \A i \in D \ {m} : before[i] = after[i]
    BY <1>1, <1>2, <1>5, <2>1
  <2> HIDE DEF n
  <2>3. Total(after) = after[m] + Total(before)
    BY <1>4, <2>2, TotalMore
  <2>4. QED
    BY <2>1, <2>3
<1>8. NetAmount(amount) \in Nat
  BY NetAmountIsNat
<1>9. QED
  BY <1>1, <1>3, <1>6, <1>7, <1>8

\* What a deposit brings in: its net amount, and the fee when nobody takes it.
LEMMA DepositMoney ==
    ASSUME TypeOK, DepositStep
    PROVE  \E bid \in Bounties, amount \in Amounts :
               /\ amount \in Nat /\ Opens(bid, amount)
               /\ \E held \in Nat : /\ pool' = pool + NetAmount(amount) + held
                                    /\ heldFees' = heldFees + held
<1>1. PICK bid \in Bounties, payer \in Addrs, payee \in Addrs,
           amount \in Amounts, unlockAt \in UnlockTimes :
              Deposit(bid, payer, payee, amount, unlockAt)
  BY DEF DepositStep
<1>2. /\ counter \in Nat /\ counter' = counter + 1
      /\ Ids' = 1..(counter + 1) /\ Ids = 1..counter
  BY <1>1 DEF TypeOK, Deposit, Ids
<1>3. Ids' = Ids \cup {counter + 1} /\ counter + 1 \notin Ids
  BY <1>2
<1>4. Opens(bid, amount)
  BY <1>1, <1>2, <1>3, ExtendApply DEF Deposit, LatestDeposit, Opens
<1>5. amount \in Nat
  BY EscrowAssumption
<1>6. PICK held : held = IF admin = NoAddr THEN PlatformFee(amount, feeConfig) ELSE 0
  OBVIOUS
<1>7. held \in Nat
  BY <1>5, <1>6, NetAmountIsNat
<1>8. pool' = pool + NetAmount(amount) + held /\ heldFees' = heldFees + held
  BY <1>1, <1>6 DEF Deposit, NetAmount
<1>9. QED
  BY <1>4, <1>5, <1>7, <1>8

LEMMA BalanceStep ==
    ASSUME TypeOK, TypeOK', pool = heldFees + Total(Kept), [Next]_vars
    PROVE  pool' = heldFees' + Total(Kept')
<1>1. pool \in Nat /\ heldFees \in Nat /\ Total(Kept) \in Int
  BY KeptType DEF TypeOK
<1>2. ASSUME NEW id \in Ids, NEW x \in Nat, NEW y \in Nat, Pay(id, x, y),
             Ids' = Ids, \A i \in Ids : escrow'[i].amount = escrow[i].amount
      PROVE  pool' = heldFees' + Total(Kept')
  <2>1. Total(Kept') = Total(Kept) - (x + y)
    BY <1>2, KeptPays
  <2>2. pool' = pool - (x + y) /\ heldFees' = heldFees
    BY <1>2 DEF Pay
  <2>3. QED
    BY <1>1, <2>1, <2>2
<1>3. ASSUME Ids' = Ids, \A i \in Ids : escrow'[i].amount = escrow[i].amount,
             UNCHANGED moneyVars
      PROVE  pool' = heldFees' + Total(Kept')
  BY <1>3, KeptSame DEF moneyVars
<1>4. CASE Quiet
  BY <1>3, <1>4 DEF Quiet, dealVars, Ids
<1>5. CASE ClosingStep
  <2>1. PICK id \in Ids, status \in {"Released", "Refunded"},
             x \in Nat, y \in Nat : Closes(id, status, x, y)
    BY <1>5 DEF ClosingStep
  <2>2. SetStatus(id, status) /\ Pay(id, x, y)
    BY <2>1 DEF Closes
  <2>3. QED
    BY <1>2, <2>2, StatusEffect DEF SameTerms
<1>6. CASE DepositStep
  <2>1. PICK bid \in Bounties, amount \in Amounts :
            /\ amount \in Nat /\ Opens(bid, amount)
            /\ \E held \in Nat : /\ pool' = pool + NetAmount(amount) + held
                                 /\ heldFees' = heldFees + held
    BY <1>6, DepositMoney
  <2>2. Total(Kept') = Total(Kept) + NetAmount(amount) /\ NetAmount(amount) \in Nat
    BY <2>1, KeptDeposit, NetAmountIsNat
  <2>3. QED
    BY <1>1, <2>1, <2>2
<1>7. CASE DisputeStep
  <2>1. PICK caller \in Addrs, id \in Ids : DisputeEscrow(caller, id)
    BY <1>7 DEF DisputeStep
  <2>2. SetStatus(id, "Disputed") /\ UNCHANGED moneyVars
    BY <2>1 DEF DisputeEscrow
  <2>3. QED
    BY <1>3, <2>2, StatusEffect DEF SameTerms
<1>8. CASE AddMilestoneStep
  BY <1>3, <1>8 DEF AddMilestoneStep, AddMilestone, dealVars, Ids
<1>9. CASE ReleaseMilestoneStep
  <2>1. PICK caller \in Addrs, id \in Ids, index \in Indices :
            ReleaseMilestone(caller, id, index)
    BY <1>9 DEF ReleaseMilestoneStep
  <2>2. PICK amount : amount = milestone[id][index].amount
    OBVIOUS
  <2>3. Pay(id, amount, 0) /\ amount \in Nat
    BY <2>1, <2>2 DEF ReleaseMilestone, TypeOK, Milestone
  <2>4. PICK status : SetStatus(id, status)
    BY <2>1 DEF ReleaseMilestone
  <2>5. QED
    BY <1>2, <2>3, <2>4, StatusEffect DEF SameTerms
<1>10. QED
  BY <1>4, <1>5, <1>6, <1>7, <1>8, <1>9, StepShapes

\* A milestone added moves nothing, and one released moves its amount from what
\* is left to what was released.
LEMMA PlanAdds ==
    ASSUME TypeOK, TypeOK', NEW id \in Ids, NEW index \in Indices, NEW amount,
           AddsMilestone(id, index, amount), Planned(id)
    PROVE  Planned(id)'
<1>1. PICK before \in [Indices -> Int] : before = Left(id) /\ Total(before) \in Int
  BY LeftType
<1>2. PICK after \in [Indices -> Int] : after = Left(id)'
  BY LeftNext DEF AddsMilestone
<1>3. \A k \in Indices \ {index} : after[k] = before[k]
  BY <1>1, <1>2 DEF Left, AddsMilestone
<1>4. before[index] = 0 /\ after[index] = amount /\ amount \in Nat
  <2>1. milestone[id][index].amount = 0
    BY DEF AddsMilestone, Added, TypeOK, Milestone
  <2>2. QED
    BY <1>1, <1>2, <2>1 DEF Left, AddsMilestone
<1>5. Total(after) = Total(before) + (after[index] - before[index])
  BY <1>3, EscrowAssumption, TotalChange
<1>6. /\ progress[id].total = progress[id].releasedAmount + Total(before)
      /\ progress[id].releasedAmount \in Nat /\ progress[id].total \in Nat
  BY <1>1 DEF Planned, TypeOK, Progress
<1>7. /\ progress'[id].total = progress[id].total + amount
      /\ progress'[id].releasedAmount = progress[id].releasedAmount
      /\ progress'[id].total <= escrow'[id].amount
  BY DEF AddsMilestone
<1>8. progress'[id].total = progress'[id].releasedAmount + Total(after)
  BY <1>1, <1>4, <1>5, <1>6, <1>7
<1>9. QED
  BY <1>2, <1>7, <1>8 DEF Planned

LEMMA PlanPays ==
    ASSUME TypeOK, TypeOK', NEW id \in Ids, NEW index \in Indices,
           PaysMilestone(id, index), progress'[id].total = progress[id].total,
           Planned(id)
    PROVE  Planned(id)'
<1>1. PICK before \in [Indices -> Int] : before = Left(id) /\ Total(before) \in Int
  BY LeftType
<1>2. PICK after \in [Indices -> Int] : after = Left(id)'
  BY LeftNext DEF PaysMilestone
<1>3. \A k \in Indices \ {index} : after[k] = before[k]
  BY <1>1, <1>2 DEF Left, PaysMilestone
<1>4. PICK amount \in Nat : amount = milestone[id][index].amount
  BY DEF PaysMilestone
<1>5. before[index] = amount /\ after[index] = 0
  BY <1>1, <1>2, <1>4 DEF Left, PaysMilestone
<1>6. Total(after) = Total(before) + (after[index] - before[index])
  BY <1>3, EscrowAssumption, TotalChange
<1>7. /\ progress[id].total = progress[id].releasedAmount + Total(before)
      /\ progress[id].total <= escrow[id].amount
      /\ progress[id].releasedAmount \in Nat /\ progress[id].total \in Nat
  BY <1>1 DEF Planned, TypeOK, Progress
<1>8. /\ progress'[id].total = progress[id].total
      /\ progress'[id].releasedAmount = progress[id].releasedAmount + amount
      /\ escrow'[id].amount = escrow[id].amount
  BY <1>4 DEF PaysMilestone, SameTerms
<1>9. progress'[id].total = progress'[id].releasedAmount + Total(after)
  BY <1>1, <1>5, <1>6, <1>7, <1>8
<1>10. QED
  BY <1>2, <1>7, <1>8, <1>9 DEF Planned

LEMMA PlanStep ==
    ASSUME TypeOK, TypeOK', \A id \in Ids : Planned(id), [Next]_vars
    PROVE  \A id \in Ids' : Planned(id)'
<1>1. ASSUME NEW i \in Ids, milestone'[i] = milestone[i], progress'[i] = progress[i],
             escrow'[i].amount = escrow[i].amount
      PROVE  Planned(i)'
  <2>1. Left(i)' = Left(i)
    BY <1>1 DEF Left
  <2>2. QED
    BY <1>1, <2>1 DEF Planned
<1>2. CASE Quiet
  BY <1>1, <1>2 DEF Quiet, dealVars, msVars, Ids
<1>3. CASE ClosingStep
  <2>1. PICK id \in Ids, status \in {"Released", "Refunded"},
             x \in Nat, y \in Nat : Closes(id, status, x, y)
    BY <1>3 DEF ClosingStep
  <2>2. SetStatus(id, status) /\ milestone' = milestone /\ progress' = progress
    BY <2>1 DEF Closes, msVars
  <2>3. QED
    BY <1>1, <2>2, StatusEffect DEF SameTerms
<1>4. CASE DepositStep
  <2>1. PICK bid \in Bounties, amount \in Amounts :
            amount \in Nat /\ Opens(bid, amount)
    BY <1>4, DepositEffect
  <2>2. \A i \in Ids : Planned(i)'
    BY <1>1, <2>1 DEF Opens
  <2>3. ASSUME NEW n, n = counter + 1 PROVE Planned(n)'
    <3> DEFINE g == [k \in Indices |-> 0]
    <3>1. g \in [Indices -> Int] /\ \A k \in Indices : g[k] = 0
      OBVIOUS
    <3>2. Left(n)' = g
      BY <2>1, <2>3 DEF Opens, Left, NoMilestone
    <3> HIDE DEF g
    <3>3. Total(g) = 0
      BY <3>1, EscrowAssumption, TotalZero
    <3>4. /\ progress'[n].total = 0 /\ progress'[n].releasedAmount = 0
          /\ escrow'[n].amount = NetAmount(amount)
      BY <2>1, <2>3 DEF Opens, NoProgress
    <3>5. NetAmount(amount) \in Nat
      BY <2>1, NetAmountIsNat
    <3>6. QED
      BY <3>2, <3>3, <3>4, <3>5 DEF Planned
  <2>4. QED
    BY <2>1, <2>2, <2>3 DEF Opens
<1>5. CASE DisputeStep
  <2>1. PICK caller \in Addrs, id \in Ids : DisputeEscrow(caller, id)
    BY <1>5 DEF DisputeStep
  <2>2. SetStatus(id, "Disputed") /\ milestone' = milestone /\ progress' = progress
    BY <2>1 DEF DisputeEscrow, msVars
  <2>3. QED
    BY <1>1, <2>2, StatusEffect DEF SameTerms
<1>6. CASE AddMilestoneStep
  <2>1. PICK id \in Ids, index \in Indices, amount \in MsAmounts :
            AddsMilestone(id, index, amount)
    BY <1>6, AddMilestoneEffect DEF AddMilestoneStep
  <2>2. Planned(id)'
    BY <2>1, PlanAdds
  <2>3. \A i \in Ids \ {id} : Planned(i)'
    BY <1>1, <2>1 DEF AddsMilestone
  <2>4. QED
    BY <2>1, <2>2, <2>3 DEF AddsMilestone
<1>7. CASE ReleaseMilestoneStep
  <2>1. PICK caller \in Addrs, id \in Ids, index \in Indices :
            ReleaseMilestone(caller, id, index)
    BY <1>7 DEF ReleaseMilestoneStep
  <2>2. PaysMilestone(id, index)
    BY <2>1, ReleaseMilestoneEffect
  <2>3. progress'[id].total = progress[id].total
    BY <2>1 DEF ReleaseMilestone, TypeOK, Progress
  <2>4. Planned(id)'
    BY <2>2, <2>3, PlanPays
  <2>5. \A i \in Ids \ {id} : Planned(i)'
    BY <1>1, <2>2 DEF PaysMilestone
  <2>6. QED
    BY <2>2, <2>4, <2>5 DEF PaysMilestone
<1>8. QED
  BY <1>2, <1>3, <1>4, <1>5, <1>6, <1>7, StepShapes

\* As long as no escrow ended by a release or a refund after a milestone, none paid
\* more than it had, and what the open ones are owed is a part of what is kept.
LEMMA ConservedCovers ==
    ASSUME TypeOK, PayoutMatchesStatus, Conserved
    PROVE  CoveredUnlessOverpaid
<1> SUFFICES ASSUME \A id \in Ids : escrow[id].status \in {"Released", "Refunded"} =>
                                        progress[id].releasedAmount = 0
             PROVE  /\ pool >= heldFees + SumOver(OpenIds, Owed)
                    /\ \A id \in Ids : PaidOut(id) <= escrow[id].amount
  BY DEF CoveredUnlessOverpaid
<1>1. \A id \in Ids : /\ escrow[id].amount \in Nat
                      /\ progress[id].releasedAmount \in Nat
                      /\ progress[id].releasedAmount <= escrow[id].amount
  <2> SUFFICES ASSUME NEW id \in Ids
               PROVE  /\ escrow[id].amount \in Nat
                      /\ progress[id].releasedAmount \in Nat
                      /\ progress[id].releasedAmount <= escrow[id].amount
    OBVIOUS
  <2>1. /\ escrow[id].amount \in Nat
        /\ progress[id].releasedAmount \in Nat /\ progress[id].total \in Nat
    BY DEF TypeOK, EscrowAccount, Progress
  <2>2. PICK left \in Nat : left = Total(Left(id))
    BY LeftType
  <2>3. progress[id].total = progress[id].releasedAmount + left
        /\ progress[id].total <= escrow[id].amount
    BY <2>2 DEF Conserved, Planned
  <2>4. QED
    BY <2>1, <2>2, <2>3
<1>2. ASSUME NEW id \in Ids
      PROVE  /\ PaidOut(id) \in Nat /\ PaidOut(id) <= escrow[id].amount
             /\ id \in OpenIds => PaidOut(id) = progress[id].releasedAmount
  <2>1. PaidOut(id) = progress[id].releasedAmount
            + (IF escrow[id].status \in {"Released", "Refunded"}
               THEN escrow[id].amount ELSE 0)
    BY DEF PayoutMatchesStatus
  <2>2. CASE escrow[id].status \in {"Released", "Refunded"}
    BY <1>1, <2>1, <2>2 DEF OpenIds, Live
  <2>3. CASE escrow[id].status \notin {"Released", "Refunded"}
    BY <1>1, <2>1, <2>3
  <2>4. QED
    BY <2>2, <2>3
<1>3. PICK kept \in [Ids -> Nat] : kept = Kept
  <2>1. ASSUME NEW id \in Ids PROVE escrow[id].amount - PaidOut(id) \in Nat
    BY <1>1, <1>2
  <2>2. QED
    BY <2>1 DEF Kept
<1>4. OpenIds \in SUBSET Ids
  BY DEF OpenIds
<1>5. PICK owed : owed = [id \in OpenIds |-> Owed(id)]
  OBVIOUS
<1>6. owed \in [OpenIds -> Nat] /\ \A id \in OpenIds : owed[id] = kept[id]
  <2>1. ASSUME NEW id \in OpenIds PROVE Owed(id) \in Nat /\ Owed(id) = kept[id]
    BY <1>1, <1>2, <1>3, <1>4 DEF Owed, Kept
  <2>2. QED
    BY <1>5, <2>1
<1>7. Total(owed) \in Nat /\ Total(owed) <= Total(kept)
  BY <1>4, <1>6, IdsFinite, TotalPart
<1>8. SumOver(OpenIds, Owed) = Total(owed)
  BY <1>5, Zenon DEF SumOver, Total
<1>9. pool = heldFees + Total(kept) /\ pool \in Nat /\ heldFees \in Nat
  BY <1>3 DEF Conserved, TypeOK
<1>10. Total(kept) \in Int
  BY <1>3, KeptType
<1>11. pool >= heldFees + Total(owed)
  BY <1>7, <1>9, <1>10
<1>12. QED
  BY <1>2, <1>8, <1>11

\* The balance is at every moment the fees kept in the contract and what each
\* escrow has not paid out, to the unit, and the milestones fit their escrow.
THEOREM MoneyConserved == Spec => []Conserved
<1>1. Init => Conserved
  <2> SUFFICES ASSUME Init PROVE Conserved
    OBVIOUS
  <2>1. Ids = {} /\ pool = 0 /\ heldFees = 0
    BY DEF Init, Ids
  <2>2. Total(Kept) = 0
    BY <2>1, TotalEmpty DEF Kept
  <2>3. QED
    BY <2>1, <2>2 DEF Conserved
<1>2. TypeOK /\ TypeOK' /\ Conserved /\ [Next]_vars => Conserved'
  <2> SUFFICES ASSUME TypeOK, TypeOK', Conserved, [Next]_vars PROVE Conserved'
    OBVIOUS
  <2>1. pool' = heldFees' + Total(Kept')
    BY BalanceStep DEF Conserved
  <2>2. \A id \in Ids' : Planned(id)'
    BY PlanStep DEF Conserved
  <2>3. QED
    BY <2>1, <2>2 DEF Conserved
<1>3. QED
  BY <1>1, <1>2, TypeCorrect, PTL DEF Spec

\* Closing one escrow draws on the deposit of another only after an escrow ended by
\* a release or a refund on top of a milestone it had paid.
THEOREM Covered == Spec => []CoveredUnlessOverpaid
BY ConservedCovers, MoneyConserved, PayoutCorrect, TypeCorrect, PTL

-----------------------------------------------------------------------------
(* THE REFINEMENT: every shape of a step is a step of the lifecycle, or none.  *)

Phases == {"open", "frozen", "closed"}
Deal   == [net : Nat, instalments : Nat, settled : Nat, phase : Phases]

-----------------------------------------------------------------------------
(* Records of deals *)

LEMMA DealEquality ==
    ASSUME NEW r \in Deal, NEW s \in Deal,
           r.net = s.net, r.instalments = s.instalments,
           r.settled = s.settled, r.phase = s.phase
    PROVE  r = s
BY DEF Deal

LEMMA SettledDeal ==
    ASSUME NEW r \in Deal, NEW s \in Deal,
           s.net = r.net, s.instalments = r.instalments
    PROVE  s = [[r EXCEPT !.phase = s.phase] EXCEPT !.settled = s.settled]
BY DEF Deal, Phases

LEMMA PaidDeal ==
    ASSUME NEW r \in Deal, NEW s \in Deal,
           s.net = r.net, s.settled = r.settled
    PROVE  s = [[r EXCEPT !.instalments = s.instalments] EXCEPT !.phase = s.phase]
BY DEF Deal, Phases

LEMMA FrozenDeal ==
    ASSUME NEW r \in Deal, NEW s \in Deal, s.net = r.net,
           s.instalments = r.instalments, s.settled = r.settled
    PROVE  s = [r EXCEPT !.phase = s.phase]
BY DEF Deal, Phases

LEMMA NewDeal ==
    ASSUME NEW r \in Deal, r.instalments = 0, r.settled = 0, r.phase = "open"
    PROVE  r = [net |-> r.net, instalments |-> 0, settled |-> 0, phase |-> "open"]
BY DEF Deal

\* A function of deals that differs at one point is the function updated there.
LEMMA UpdatedAt ==
    ASSUME NEW n \in Nat, NEW f \in [1..n -> Deal], NEW g \in [1..n -> Deal],
           NEW i \in 1..n, \A j \in (1..n) \ {i} : g[j] = f[j]
    PROVE  g = [f EXCEPT ![i] = g[i]]
OBVIOUS

LEMMA SettledAt ==
    ASSUME NEW n \in Nat, NEW f \in [1..n -> Deal], NEW g \in [1..n -> Deal],
           NEW i \in 1..n, \A j \in (1..n) \ {i} : g[j] = f[j],
           g[i].net = f[i].net, g[i].instalments = f[i].instalments
    PROVE  g = [f EXCEPT ![i].phase = g[i].phase, ![i].settled = g[i].settled]
<1>1. f[i] \in Deal /\ g[i] \in Deal
  OBVIOUS
<1>2. g[i] = [[f[i] EXCEPT !.phase = g[i].phase] EXCEPT !.settled = g[i].settled]
  BY <1>1, SettledDeal, Zenon
<1>3. g = [f EXCEPT ![i] = g[i]]
  BY UpdatedAt
<1>4. [f EXCEPT ![i].phase = g[i].phase, ![i].settled = g[i].settled]
        = [f EXCEPT ![i] = [[f[i] EXCEPT !.phase = g[i].phase]
                                EXCEPT !.settled = g[i].settled]]
  OBVIOUS
<1>5. QED
  BY <1>2, <1>3, <1>4

LEMMA PaidAt ==
    ASSUME NEW n \in Nat, NEW f \in [1..n -> Deal], NEW g \in [1..n -> Deal],
           NEW i \in 1..n, \A j \in (1..n) \ {i} : g[j] = f[j],
           g[i].net = f[i].net, g[i].settled = f[i].settled
    PROVE  g = [f EXCEPT ![i].instalments = g[i].instalments,
                         ![i].phase = g[i].phase]
<1>1. f[i] \in Deal /\ g[i] \in Deal
  OBVIOUS
<1>2. g[i] = [[f[i] EXCEPT !.instalments = g[i].instalments]
                  EXCEPT !.phase = g[i].phase]
  BY <1>1, PaidDeal, Zenon
<1>3. g = [f EXCEPT ![i] = g[i]]
  BY UpdatedAt
<1>4. [f EXCEPT ![i].instalments = g[i].instalments, ![i].phase = g[i].phase]
        = [f EXCEPT ![i] = [[f[i] EXCEPT !.instalments = g[i].instalments]
                                EXCEPT !.phase = g[i].phase]]
  OBVIOUS
<1>5. QED
  BY <1>2, <1>3, <1>4

LEMMA FrozenAt ==
    ASSUME NEW n \in Nat, NEW f \in [1..n -> Deal], NEW g \in [1..n -> Deal],
           NEW i \in 1..n, \A j \in (1..n) \ {i} : g[j] = f[j],
           g[i].net = f[i].net, g[i].instalments = f[i].instalments,
           g[i].settled = f[i].settled
    PROVE  g = [f EXCEPT ![i].phase = g[i].phase]
<1>1. f[i] \in Deal /\ g[i] \in Deal
  OBVIOUS
<1>2. g[i] = [f[i] EXCEPT !.phase = g[i].phase]
  BY <1>1, FrozenDeal
<1>3. g = [f EXCEPT ![i] = g[i]]
  BY UpdatedAt
<1>4. [f EXCEPT ![i].phase = g[i].phase]
        = [f EXCEPT ![i] = [f[i] EXCEPT !.phase = g[i].phase]]
  OBVIOUS
<1>5. QED
  BY <1>2, <1>3, <1>4

-----------------------------------------------------------------------------
(* The mapping *)

DealOf(i) ==
    /\ Deals[i].net = escrow[i].amount
    /\ Deals[i].instalments = progress[i].releasedAmount
    /\ Deals[i].settled = (IF escrow[i].status \in {"Released", "Refunded"}
                           THEN escrow[i].amount ELSE 0)
    /\ Deals[i].phase = PhaseOf(i)

WellMapped == Deals \in [1..counter -> Deal] /\ \A i \in Ids : DealOf(i)

LEMMA Mapping == TypeOK /\ PayoutMatchesStatus => WellMapped
<1> SUFFICES ASSUME TypeOK, PayoutMatchesStatus PROVE WellMapped
  OBVIOUS
<1>1. ASSUME NEW i \in Ids
      PROVE  Deals[i] \in Deal /\ DealOf(i)
  <2>1. /\ escrow[i].amount \in Nat /\ progress[i].releasedAmount \in Nat
        /\ PhaseOf(i) \in Phases
    BY DEF TypeOK, EscrowAccount, Progress, PhaseOf, Phases
  <2>2. PaidOut(i) - progress[i].releasedAmount =
            (IF escrow[i].status \in {"Released", "Refunded"}
             THEN escrow[i].amount ELSE 0)
    BY <2>1 DEF PayoutMatchesStatus
  <2>3. Deals[i] = [net         |-> escrow[i].amount,
                    instalments |-> progress[i].releasedAmount,
                    settled     |-> PaidOut(i) - progress[i].releasedAmount,
                    phase       |-> PhaseOf(i)]
    BY DEF Deals
  <2>4. QED
    BY <2>1, <2>2, <2>3 DEF Deal, DealOf
<1>2. Deals \in [1..counter -> Deal]
  BY <1>1 DEF Deals, Ids
<1>3. QED
  BY <1>1, <1>2 DEF WellMapped

LEMMA MappingNext == (TypeOK /\ PayoutMatchesStatus)' => WellMapped'
BY Mapping, PTL

\* A deal whose escrow keeps its terms, status and payments does not change.
LEMMA SameDeal ==
    ASSUME WellMapped, WellMapped', NEW i \in Ids, i \in Ids',
           escrow'[i].amount = escrow[i].amount,
           escrow'[i].status = escrow[i].status,
           progress'[i].releasedAmount = progress[i].releasedAmount
    PROVE  Deals'[i] = Deals[i]
<1>1. /\ Deals[i] \in Deal /\ Deals'[i] \in Deal
      /\ DealOf(i) /\ DealOf(i)'
  BY DEF WellMapped, Ids
<1>2. PhaseOf(i)' = PhaseOf(i)
  BY DEF PhaseOf
<1>3. QED
  BY <1>1, <1>2, DealEquality DEF DealOf

LEMMA SameDeals ==
    ASSUME WellMapped, WellMapped', counter \in Nat, counter' = counter,
           \A i \in Ids : Deals'[i] = Deals[i]
    PROVE  Deals' = Deals
BY DEF WellMapped, Ids

-----------------------------------------------------------------------------
(* Every step of the contract is a step or a stutter of the lifecycle *)

\* A fee of at most ten per cent leaves something of a positive amount.
LEMMA FeeLeavesSome ==
    ASSUME NEW amount \in Nat \ {0}, NEW bps \in 0..1000
    PROVE  /\ (amount * bps) \div Bps \in Nat
           /\ (amount * bps) \div Bps < amount
<1> DEFINE product == amount * bps
<1>1. product \in Nat /\ product <= amount * 1000
  OBVIOUS
<1> HIDE DEF product
<1>2. product \div 10000 \in Nat /\ product \div 10000 < amount
  BY <1>1
<1>3. product \div Bps \in Nat /\ product \div Bps < amount
  BY <1>2 DEF Bps
<1>4. QED
  BY <1>3 DEF product

LEMMA NetAmountPositive ==
    ASSUME TypeOK, NEW amount \in Nat \ {0}
    PROVE  NetAmount(amount) \in Nat \ {0}
<1> DEFINE raw == (amount * feeConfig.bps) \div Bps
<1>1. feeConfig.bps \in 0..1000 /\ feeConfig.cap \in Nat
  BY DEF TypeOK
<1>2. raw \in Nat /\ raw < amount
  BY <1>1, FeeLeavesSome, ZenonT(40)
<1>3. NetAmount(amount) = amount - (IF raw > feeConfig.cap THEN feeConfig.cap
                                                            ELSE raw)
  BY DEF NetAmount, PlatformFee
<1> HIDE DEF raw
<1>4. QED
  BY <1>1, <1>2, <1>3

LEMMA RefinesStep ==
    ASSUME TypeOK, TypeOK', PayoutMatchesStatus, PayoutMatchesStatus', [Next]_vars
    PROVE  [Lifecycle!LifecycleNext]_(Lifecycle!lifecycleVars)
<1>1. WellMapped /\ WellMapped' /\ counter \in Nat
  BY Mapping, MappingNext DEF TypeOK
<1>2. SUFFICES \/ counter' = counter /\ Deals' = Deals
               \/ Lifecycle!Open
               \/ \E i \in 1..counter : /\ \/ Lifecycle!Instalment(i)
                                           \/ Lifecycle!Freeze(i)
                                           \/ Lifecycle!Settle(i)
                                        /\ counter' = counter
  BY DEF Lifecycle!LifecycleNext, Lifecycle!lifecycleVars
<1>3. CASE Quiet
  <2>1. counter' = counter /\ \A i \in Ids : Deals'[i] = Deals[i]
    BY <1>1, <1>3, SameDeal DEF Quiet, dealVars, msVars, Ids
  <2>2. QED
    BY <1>1, <2>1, SameDeals
<1>4. CASE ClosingStep
  <2>1. PICK id \in Ids, status \in {"Released", "Refunded"},
             x \in Nat, y \in Nat : Closes(id, status, x, y)
    BY <1>4 DEF ClosingStep
  <2>2. SetStatus(id, status) /\ progress' = progress /\ escrow[id].status \in Live
    BY <2>1 DEF Closes, msVars
  <2>3. /\ counter' = counter /\ Ids' = Ids /\ escrow'[id].status = status
        /\ SameTerms(id) /\ \A i \in Ids \ {id} : escrow'[i] = escrow[i]
    BY <2>2, StatusEffect
  <2>4. \A i \in Ids \ {id} : Deals'[i] = Deals[i]
    BY <1>1, <2>2, <2>3, SameDeal
  <2>5. /\ Deals[id] \in Deal /\ Deals'[id] \in Deal /\ DealOf(id) /\ DealOf(id)'
        /\ Deals \in [1..counter -> Deal] /\ Deals' \in [1..counter -> Deal]
    BY <1>1, <2>3 DEF WellMapped, Ids
  <2>6. /\ Deals'[id].net = Deals[id].net
        /\ Deals'[id].instalments = Deals[id].instalments
        /\ Deals'[id].settled = Deals[id].net
        /\ Deals'[id].phase = "closed"
        /\ Deals[id].phase \in {"open", "frozen"}
    BY <2>2, <2>3, <2>5 DEF DealOf, SameTerms, PhaseOf, Live
  <2>7. Deals' = [Deals EXCEPT ![id].phase = Deals'[id].phase,
                               ![id].settled = Deals'[id].settled]
    BY <1>1, <2>4, <2>5, <2>6, SettledAt DEF Ids
  <2>8. Deals' = [Deals EXCEPT ![id].phase = "closed",
                               ![id].settled = Deals[id].net]
    BY <2>6, <2>7
  <2>9. Lifecycle!Settle(id)
    BY <2>6, <2>8 DEF Lifecycle!Settle
  <2>10. QED
    BY <2>3, <2>9 DEF Ids
<1>5. CASE DepositStep
  <2>1. PICK bid \in Bounties, amount \in Amounts :
            amount \in Nat \ {0} /\ Opens(bid, amount)
    BY <1>5, DepositEffect
  <2> PICK n : n = counter + 1
    OBVIOUS
  <2>2. /\ counter' = n /\ Ids' = Ids \cup {n} /\ n \notin Ids
        /\ Ids = 1..counter /\ Ids' = 1..n
        /\ escrow'[n].amount = NetAmount(amount)
        /\ escrow'[n].status = "Active"
        /\ progress'[n].releasedAmount = 0
        /\ \A i \in Ids : escrow'[i] = escrow[i] /\ progress'[i] = progress[i]
    BY <2>1 DEF Opens, NoProgress
  <2>3. \A i \in Ids : Deals'[i] = Deals[i]
    BY <1>1, <2>2, SameDeal
  <2>4. Deals' \in [1..n -> Deal] /\ n \in 1..n /\ Deals'[n] \in Deal /\ DealOf(n)'
    BY <1>1, <2>2 DEF WellMapped
  <2>5. /\ Deals'[n].net > 0 /\ Deals'[n].instalments = 0
        /\ Deals'[n].settled = 0 /\ Deals'[n].phase = "open"
    BY <2>1, <2>2, <2>4, NetAmountPositive DEF DealOf, PhaseOf
  <2>6. Lifecycle!IsNew(Deals'[n])
    BY <2>4, <2>5, NewDeal DEF Lifecycle!IsNew
  <2>7. Deals' = [i \in 1..n |-> IF i = n THEN Deals'[i] ELSE Deals[i]]
    BY <2>2, <2>3, <2>4
  <2>8. QED
    BY <2>2, <2>6, <2>7 DEF Lifecycle!Open
<1>6. CASE DisputeStep
  <2>1. PICK caller \in Addrs, id \in Ids : DisputeEscrow(caller, id)
    BY <1>6 DEF DisputeStep
  <2>2. /\ SetStatus(id, "Disputed") /\ progress' = progress
        /\ escrow[id].status = "Active"
    BY <2>1 DEF DisputeEscrow, RequireActive, msVars
  <2>3. /\ counter' = counter /\ Ids' = Ids /\ escrow'[id].status = "Disputed"
        /\ SameTerms(id) /\ \A i \in Ids \ {id} : escrow'[i] = escrow[i]
    BY <2>2, StatusEffect
  <2>4. \A i \in Ids \ {id} : Deals'[i] = Deals[i]
    BY <1>1, <2>2, <2>3, SameDeal
  <2>5. /\ Deals[id] \in Deal /\ Deals'[id] \in Deal /\ DealOf(id) /\ DealOf(id)'
        /\ Deals \in [1..counter -> Deal] /\ Deals' \in [1..counter -> Deal]
    BY <1>1, <2>3 DEF WellMapped, Ids
  <2>6. /\ Deals'[id].net = Deals[id].net
        /\ Deals'[id].instalments = Deals[id].instalments
        /\ Deals'[id].settled = Deals[id].settled
        /\ Deals'[id].phase = "frozen" /\ Deals[id].phase = "open"
    BY <2>2, <2>3, <2>5 DEF DealOf, SameTerms, PhaseOf
  <2>7. Deals' = [Deals EXCEPT ![id].phase = Deals'[id].phase]
    BY <1>1, <2>4, <2>5, <2>6, FrozenAt DEF Ids
  <2>8. Deals' = [Deals EXCEPT ![id].phase = "frozen"]
    BY <2>6, <2>7
  <2>9. Lifecycle!Freeze(id)
    BY <2>6, <2>8 DEF Lifecycle!Freeze
  <2>10. QED
    BY <2>3, <2>9 DEF Ids
<1>7. CASE AddMilestoneStep
  <2>1. PICK id \in Ids, index \in Indices, amount \in MsAmounts :
            AddsMilestone(id, index, amount)
    BY <1>7, AddMilestoneEffect DEF AddMilestoneStep
  <2>2. /\ counter' = counter /\ Ids' = Ids /\ escrow' = escrow
        /\ \A i \in Ids : progress'[i].releasedAmount = progress[i].releasedAmount
    BY <2>1 DEF AddsMilestone
  <2>3. \A i \in Ids : Deals'[i] = Deals[i]
    BY <1>1, <2>2, SameDeal
  <2>4. QED
    BY <1>1, <2>2, <2>3, SameDeals
<1>8. CASE ReleaseMilestoneStep
  <2>1. PICK id \in Ids, index \in Indices : PaysMilestone(id, index)
    BY <1>8, ReleaseMilestoneEffect DEF ReleaseMilestoneStep
  <2> DEFINE amount == milestone[id][index].amount
  <2>2. /\ counter' = counter /\ Ids' = Ids /\ SameTerms(id)
        /\ amount \in Nat \ {0}
        /\ escrow[id].status = "Active"
        /\ escrow'[id].status \in {"Active", "Complete"}
        /\ progress'[id].releasedAmount = progress[id].releasedAmount + amount
        /\ \A i \in Ids \ {id} : escrow'[i] = escrow[i] /\ progress'[i] = progress[i]
    BY <2>1 DEF PaysMilestone, StatusAfter
  <2> HIDE DEF amount
  <2>3. \A i \in Ids \ {id} : Deals'[i] = Deals[i]
    BY <1>1, <2>2, SameDeal
  <2>4. /\ Deals[id] \in Deal /\ Deals'[id] \in Deal /\ DealOf(id) /\ DealOf(id)'
        /\ Deals \in [1..counter -> Deal] /\ Deals' \in [1..counter -> Deal]
    BY <1>1, <2>2 DEF WellMapped, Ids
  <2>5. progress[id].releasedAmount \in Nat
    BY DEF TypeOK, Progress
  <2>6. /\ Deals'[id].net = Deals[id].net
        /\ Deals'[id].instalments > Deals[id].instalments
        /\ Deals'[id].settled = Deals[id].settled
        /\ Deals'[id].phase \in {"open", "closed"} /\ Deals[id].phase = "open"
    BY <2>2, <2>4, <2>5 DEF DealOf, SameTerms, PhaseOf
  <2>7. Deals' = [Deals EXCEPT ![id].instalments = Deals'[id].instalments,
                               ![id].phase = Deals'[id].phase]
    BY <1>1, <2>3, <2>4, <2>6, PaidAt DEF Ids
  <2>8. Lifecycle!Instalment(id)
    BY <2>6, <2>7 DEF Lifecycle!Instalment
  <2>9. id \in 1..counter
    BY DEF Ids
  <2>10. QED
    BY <2>2, <2>8, <2>9
<1>9. QED
  BY <1>3, <1>4, <1>5, <1>6, <1>7, <1>8, StepShapes

\* The escrow contract implements the lifecycle: a deal pays instalments only
\* while open, is frozen only from open, and is closed once, either by its last
\* instalment or by a settlement that hands out the whole net amount.
THEOREM Refinement == Spec => ImplementsLifecycle
<1>1. Init => Lifecycle!LifecycleInit
  BY DEF Init, Lifecycle!LifecycleInit, Deals, Ids
<1>2. QED
  BY <1>1, RefinesStep, TypeCorrect, PayoutCorrect, PTL
  DEF Spec, ImplementsLifecycle, Lifecycle!LifecycleSpec

-----------------------------------------------------------------------------
(* The bounty contract *)

BountyStep == BountyNext \/ (Next /\ UNCHANGED bountyVars)

-----------------------------------------------------------------------------
(* The records of the contract *)

Records ==
    /\ bounty \in Seq(BountyRecord) /\ application \in Seq(Application)
    /\ DOMAIN bounty \subseteq Bounties
    /\ funding \in Seq(Nat) /\ Len(funding) = Len(bounty)
    /\ submitter \in Seq(Addrs \cup {NoAddr}) /\ Len(submitter) = Len(bounty)

Settings ==
    /\ owner \in Addrs \cup {NoAddr}
    /\ signers \in Seq(Addrs) /\ required \in 0 .. Len(signers) /\ threshold \in Nat

LEMMA WithStatus ==
    ASSUME NEW r \in BountyRecord, NEW s \in BountyStatus
    PROVE  /\ [r EXCEPT !.status = s] \in BountyRecord
           /\ [r EXCEPT !.status = s].creator = r.creator
           /\ [r EXCEPT !.status = s].freelancer = r.freelancer
           /\ [r EXCEPT !.status = s].status = s
BY DEF BountyRecord

LEMMA WithFreelancer ==
    ASSUME NEW r \in BountyRecord, NEW f \in Addrs \cup {NoAddr}
    PROVE  /\ [r EXCEPT !.freelancer = f] \in BountyRecord
           /\ [r EXCEPT !.freelancer = f].creator = r.creator
           /\ [r EXCEPT !.freelancer = f].freelancer = f
BY DEF BountyRecord

LEMMA WithEscrow ==
    ASSUME NEW r \in BountyRecord, NEW id \in Nat
    PROVE  /\ [r EXCEPT !.escrowId = id] \in BountyRecord
           /\ [r EXCEPT !.escrowId = id].creator = r.creator
           /\ [r EXCEPT !.escrowId = id].freelancer = r.freelancer
           /\ [r EXCEPT !.escrowId = id].status = r.status
BY DEF BountyRecord

\* The record of b becomes r; its creator and what funds it stay.
Updates(b, r) ==
    /\ b \in DOMAIN bounty /\ r \in BountyRecord /\ r.creator = bounty[b].creator
    /\ bounty' \in Seq(BountyRecord) /\ Len(bounty') = Len(bounty)
    /\ bounty'[b] = r
    /\ \A c \in DOMAIN bounty \ {b} : bounty'[c] = bounty[c]
    /\ UNCHANGED <<multisigVars, funding>>

LEMMA UpdateEffect ==
    ASSUME Records, NEW b \in DOMAIN bounty, NEW r \in BountyRecord,
           r.creator = bounty[b].creator, bounty' = [bounty EXCEPT ![b] = r],
           UNCHANGED <<multisigVars, funding>>
    PROVE  Updates(b, r)
<1>1. bounty \in Seq(BountyRecord) /\ DOMAIN bounty = 1 .. Len(bounty)
  BY DEF Records
<1>2. /\ bounty' \in Seq(BountyRecord) /\ Len(bounty') = Len(bounty)
      /\ bounty'[b] = r
      /\ \A c \in 1 .. Len(bounty) : c # b => bounty'[c] = bounty[c]
  BY <1>1, ExceptSeq
<1>3. QED
  BY <1>1, <1>2 DEF Updates

-----------------------------------------------------------------------------
(* The shapes of a call that touches a bounty *)

\* A new bounty, with the escrow id it is funded by, or 0.
Adds(creator, id) ==
    /\ Len(bounty) + 1 \in Bounties /\ creator \in Addrs /\ id \in Nat
    /\ bounty' \in Seq(BountyRecord) /\ Len(bounty') = Len(bounty) + 1
    /\ bounty'[Len(bounty) + 1].creator = creator
    /\ bounty'[Len(bounty) + 1].status = "Open"
    /\ \A c \in DOMAIN bounty : bounty'[c] = bounty[c]
    /\ funding' \in Seq(Nat) /\ Len(funding') = Len(bounty) + 1
    /\ funding'[Len(bounty) + 1] = id
    /\ \A c \in DOMAIN bounty : funding'[c] = funding[c]
    /\ submitter' \in Seq(Addrs \cup {NoAddr}) /\ Len(submitter') = Len(bounty) + 1
    /\ \A c \in DOMAIN bounty : submitter'[c] = submitter[c]
    /\ UNCHANGED <<application, multisigVars, expired>>

\* The submitter of b becomes who; the others stay.
Notes(b, who) ==
    /\ submitter' \in Seq(Addrs \cup {NoAddr}) /\ Len(submitter') = Len(submitter)
    /\ submitter'[b] = who
    /\ \A c \in DOMAIN bounty \ {b} : submitter'[c] = submitter[c]

Configures == UNCHANGED <<bounty, awardVars, funding, expired>>

Links == \E b \in DOMAIN bounty, r \in BountyRecord :
    /\ Updates(b, r)
    /\ r.status = bounty[b].status /\ r.freelancer = bounty[b].freelancer
    /\ UNCHANGED <<awardVars, expired>>

Applies == \E a \in Application :
    /\ application' = Append(application, a)
    /\ UNCHANGED <<bounty, multisigVars, submitter, funding, expired>>

Selects == \E b \in DOMAIN bounty, r \in BountyRecord, a \in DOMAIN application :
    /\ Updates(b, r) /\ Notes(b, NoAddr)
    /\ r.status = "InProgress" /\ r.freelancer = application[a].freelancer
    /\ application[a].bounty = b
    /\ UNCHANGED <<application, expired>>

Submits == \E b \in DOMAIN bounty, r \in BountyRecord :
    /\ Updates(b, r) /\ Notes(b, bounty[b].freelancer)
    /\ bounty[b].status = "InProgress"
    /\ r.status = "PendingCompletion" /\ r.freelancer = bounty[b].freelancer
    /\ UNCHANGED <<application, expired>>

Completes == \E b \in DOMAIN bounty, r \in BountyRecord :
    /\ Updates(b, r)
    /\ bounty[b].status = "PendingCompletion"
    /\ r.status = "Completed" /\ r.freelancer = bounty[b].freelancer
    /\ UNCHANGED <<awardVars, expired>>

\* The expiry may refund the escrow that the bounty points at.
Cancels == \E b \in DOMAIN bounty, r \in BountyRecord :
    /\ Updates(b, r)
    /\ bounty[b].status = "Open" /\ r.status = "Cancelled"
    /\ UNCHANGED awardVars
    /\ \/ expired' = expired
       \/ expired' = expired \cup {b} /\ RefundExpiredBounty(b)

LEMMA AddEffect ==
    ASSUME Records, NEW creator \in Addrs, NEW budget \in Budgets, NEW deadline \in Deadlines,
           NEW id \in Nat, NewBounty(creator, budget, deadline, id),
           UNCHANGED <<application, multisigVars, expired>>
    PROVE  Adds(creator, id)
<1> DEFINE r == [creator |-> creator, budget |-> budget, deadline |-> deadline,
                 status |-> "Open", freelancer |-> NoAddr, escrowId |-> id]
<1>1. r \in BountyRecord /\ r.creator = creator /\ r.status = "Open"
  BY DEF BountyRecord, BountyStatus
<1>2. /\ Len(bounty) + 1 \in Bounties
      /\ bounty' = Append(bounty, r) /\ funding' = Append(funding, id)
      /\ submitter' = Append(submitter, NoAddr)
  BY DEF NewBounty
<1> HIDE DEF r
<1>3. /\ bounty \in Seq(BountyRecord) /\ funding \in Seq(Nat)
      /\ submitter \in Seq(Addrs \cup {NoAddr}) /\ NoAddr \in Addrs \cup {NoAddr}
      /\ Len(funding) = Len(bounty) /\ Len(submitter) = Len(bounty)
      /\ DOMAIN bounty = 1 .. Len(bounty)
  BY DEF Records
<1>4. /\ bounty' \in Seq(BountyRecord) /\ Len(bounty') = Len(bounty) + 1
      /\ bounty'[Len(bounty) + 1] = r
      /\ \A c \in DOMAIN bounty : bounty'[c] = bounty[c]
  BY <1>1, <1>2, <1>3, AppendProperties
<1>5. /\ funding' \in Seq(Nat) /\ Len(funding') = Len(bounty) + 1
      /\ funding'[Len(bounty) + 1] = id
      /\ \A c \in DOMAIN bounty : funding'[c] = funding[c]
  BY <1>2, <1>3, AppendProperties
<1>6. /\ submitter' \in Seq(Addrs \cup {NoAddr}) /\ Len(submitter') = Len(bounty) + 1
      /\ \A c \in DOMAIN bounty : submitter'[c] = submitter[c]
  BY <1>2, <1>3, AppendProperties
<1>7. QED
  BY <1>1, <1>2, <1>4, <1>5, <1>6 DEF Adds

LEMMA NoteEffect ==
    ASSUME Records, NEW b \in DOMAIN bounty, NEW who \in Addrs \cup {NoAddr},
           submitter' = [submitter EXCEPT ![b] = who]
    PROVE  Notes(b, who)
<1>1. /\ submitter \in Seq(Addrs \cup {NoAddr}) /\ b \in 1 .. Len(submitter)
      /\ DOMAIN bounty = 1 .. Len(submitter)
  BY DEF Records
<1>2. QED
  BY <1>1, ExceptSeq DEF Notes

LEMMA LinkShape ==
    ASSUME TypeOK, Records, NEW b \in DOMAIN bounty, NEW caller, NEW id \in Ids,
           LinkEscrow(caller, b, id)
    PROVE  Links /\ UNCHANGED vars
<1> DEFINE r == [bounty[b] EXCEPT !.escrowId = id]
<1>1. bounty[b] \in BountyRecord /\ id \in Nat
  BY DEF Records, TypeOK, Ids
<1>2. /\ r \in BountyRecord /\ r.creator = bounty[b].creator
      /\ r.freelancer = bounty[b].freelancer /\ r.status = bounty[b].status
  BY <1>1, WithEscrow
<1>3. /\ bounty' = [bounty EXCEPT ![b] = r]
      /\ UNCHANGED <<vars, multisigVars, awardVars, funding, expired>>
  BY DEF LinkEscrow
<1> HIDE DEF r
<1>4. Updates(b, r)
  BY <1>2, <1>3, UpdateEffect
<1>5. QED
  BY <1>2, <1>3, <1>4 DEF Links

LEMMA SelectShape ==
    ASSUME Records, NEW b \in DOMAIN bounty, NEW a \in DOMAIN application, NEW caller,
           SelectFreelancer(caller, b, a)
    PROVE  Selects /\ UNCHANGED vars
<1> DEFINE f == application[a].freelancer
           q == [bounty[b] EXCEPT !.freelancer = f]
           r == [q EXCEPT !.status = "InProgress"]
<1>1. bounty[b] \in BountyRecord /\ f \in Addrs \cup {NoAddr} /\ NoAddr \in Addrs \cup {NoAddr}
  <2>1. bounty[b] \in BountyRecord /\ application[a] \in Application
    BY DEF Records
  <2>2. QED
    BY <2>1 DEF Application
<1>2. q \in BountyRecord /\ q.creator = bounty[b].creator /\ q.freelancer = f
  BY <1>1, WithFreelancer
<1>3. bounty' = [bounty EXCEPT ![b] = r]
  <2> DEFINE t == [bounty EXCEPT ![b] = q]
  <2>1. bounty' = [t EXCEPT ![b] = [t[b] EXCEPT !.status = "InProgress"]]
    BY DEF SelectFreelancer, SelectedStatus
  <2>2. bounty \in [1 .. Len(bounty) -> BountyRecord] /\ b \in 1 .. Len(bounty)
    BY DEF Records
  <2> HIDE DEF q
  <2>3. t[b] = q
    BY <2>2
  <2>4. bounty' = [t EXCEPT ![b] = r]
    BY <2>1, <2>3
  <2>5. QED
    BY <2>2, <2>4
<1>4. /\ submitter' = [submitter EXCEPT ![b] = NoAddr] /\ application[a].bounty = b
      /\ UNCHANGED <<vars, application, multisigVars, funding, expired>>
  BY DEF SelectFreelancer
<1> HIDE DEF q, f
<1>5. /\ r \in BountyRecord /\ r.creator = bounty[b].creator
      /\ r.freelancer = f /\ r.status = "InProgress"
  BY <1>2, WithStatus DEF BountyStatus
<1> HIDE DEF r
<1>6. Updates(b, r) /\ Notes(b, NoAddr)
  BY <1>1, <1>3, <1>4, <1>5, UpdateEffect, NoteEffect
<1>7. QED
  BY <1>4, <1>5, <1>6 DEF Selects, f

LEMMA SubmitShape ==
    ASSUME Records, NEW b \in DOMAIN bounty, NEW caller \in Addrs, SubmitCompletion(caller, b)
    PROVE  Submits /\ UNCHANGED vars
<1> DEFINE r == [bounty[b] EXCEPT !.status = "PendingCompletion"]
<1>1. bounty[b] \in BountyRecord
  BY DEF Records
<1>2. /\ r \in BountyRecord /\ r.creator = bounty[b].creator
      /\ r.freelancer = bounty[b].freelancer /\ r.status = "PendingCompletion"
  BY <1>1, WithStatus DEF BountyStatus
<1>3. /\ bounty' = [bounty EXCEPT ![b] = r] /\ submitter' = [submitter EXCEPT ![b] = caller]
      /\ bounty[b].status = "InProgress" /\ bounty[b].freelancer = caller
      /\ UNCHANGED <<vars, application, multisigVars, funding, expired>>
  BY DEF SubmitCompletion
<1> HIDE DEF r
<1>4. Updates(b, r) /\ Notes(b, caller)
  BY <1>2, <1>3, UpdateEffect, NoteEffect
<1>5. QED
  BY <1>2, <1>3, <1>4 DEF Submits

LEMMA CompleteShape ==
    ASSUME Records, NEW b \in DOMAIN bounty, NEW caller, NEW approvers,
           CompleteBounty(caller, b, approvers)
    PROVE  Completes /\ UNCHANGED vars
<1> DEFINE r == [bounty[b] EXCEPT !.status = "Completed"]
<1>1. bounty[b] \in BountyRecord
  BY DEF Records
<1>2. /\ r \in BountyRecord /\ r.creator = bounty[b].creator
      /\ r.freelancer = bounty[b].freelancer /\ r.status = "Completed"
  BY <1>1, WithStatus DEF BountyStatus
<1>3. /\ bounty' = [bounty EXCEPT ![b] = r] /\ bounty[b].status = "PendingCompletion"
      /\ UNCHANGED <<vars, application, submitter, multisigVars, funding, expired>>
  BY DEF CompleteBounty
<1> HIDE DEF r
<1>4. Updates(b, r)
  BY <1>2, <1>3, UpdateEffect
<1>5. QED
  BY <1>2, <1>3, <1>4 DEF Completes, awardVars

LEMMA CancelShape ==
    ASSUME Records, NEW b \in DOMAIN bounty,
           bounty[b].status = "Open",
           bounty' = [bounty EXCEPT ![b].status = "Cancelled"],
           UNCHANGED <<multisigVars, awardVars, funding>>,
           \/ expired' = expired
           \/ expired' = expired \cup {b} /\ RefundExpiredBounty(b)
    PROVE  Cancels
<1> DEFINE r == [bounty[b] EXCEPT !.status = "Cancelled"]
<1>1. bounty[b] \in BountyRecord
  BY DEF Records
<1>2. /\ r \in BountyRecord /\ r.creator = bounty[b].creator /\ r.status = "Cancelled"
  BY <1>1, WithStatus DEF BountyStatus
<1>3. bounty' = [bounty EXCEPT ![b] = r]
  OBVIOUS
<1> HIDE DEF r
<1>4. Updates(b, r)
  BY <1>2, <1>3, UpdateEffect
<1>5. QED
  BY <1>2, <1>4 DEF Cancels

-----------------------------------------------------------------------------
(* Every step has one of the shapes *)

Funds == \E creator \in Addrs, amount \in Amounts :
    /\ Adds(creator, counter + 1)
    /\ Deposit(Len(bounty) + 1, creator, creator, amount, 0)

Touches == Links \/ Applies \/ Selects \/ Submits \/ Completes
             \/ \E creator \in Addrs : Adds(creator, 0)

Refunds == \E b \in Bounties : RefundExpiredBounty(b)

LEMMA OwnerShape ==
    ASSUME NEW caller \in Addrs, OwnerCall(caller)
    PROVE  Configures /\ UNCHANGED vars
BY DEF OwnerCall, Initialize, SetEscrowContract, SetMultisigSigners, SetMultisigThreshold,
       Configures

LEMMA CreatorShape ==
    ASSUME TypeOK, Records, NEW caller \in Addrs, CreatorCall(caller)
    PROVE  Funds \/ ((Touches \/ Cancels) /\ UNCHANGED vars)
<1>1. ASSUME NEW budget \in Budgets, NEW deadline \in Deadlines,
             CreateBounty(caller, budget, deadline)
      PROVE  Touches /\ UNCHANGED vars
  <2>1. /\ NewBounty(caller, budget, deadline, 0)
        /\ UNCHANGED <<vars, application, multisigVars, expired>>
    BY <1>1 DEF CreateBounty
  <2>2. Adds(caller, 0)
    BY <2>1, AddEffect
  <2>3. QED
    BY <2>1, <2>2 DEF Touches
<1>2. ASSUME NEW budget \in Budgets, NEW deadline \in Deadlines,
             CreateAndFundBounty(caller, budget, deadline)
      PROVE  Funds
  <2>1. /\ NewBounty(caller, budget, deadline, counter + 1)
        /\ Deposit(Len(bounty) + 1, caller, caller, budget, 0)
        /\ UNCHANGED <<application, multisigVars, expired>>
    BY <1>2 DEF CreateAndFundBounty, NextEscrow
  <2>2. counter + 1 \in Nat /\ budget \in Amounts
    BY BountyAssumption DEF TypeOK
  <2>3. Adds(caller, counter + 1)
    BY <2>1, <2>2, AddEffect
  <2>4. QED
    BY <2>1, <2>2, <2>3 DEF Funds
<1>3. ASSUME NEW b \in DOMAIN bounty, CancelBounty(caller, b)
      PROVE  Cancels /\ UNCHANGED vars
  <2>1. /\ bounty[b].status = "Open"
        /\ bounty' = [bounty EXCEPT ![b].status = "Cancelled"]
        /\ UNCHANGED <<multisigVars, awardVars, funding>> /\ expired' = expired
        /\ UNCHANGED vars
    BY <1>3 DEF CancelBounty
  <2>2. QED
    BY <2>1, CancelShape
<1>4. ASSUME NEW b \in DOMAIN bounty,
             \/ \E id \in Ids : LinkEscrow(caller, b, id)
             \/ \E a \in DOMAIN application : SelectFreelancer(caller, b, a)
             \/ \E approvers \in Approvals : CompleteBounty(caller, b, approvers)
      PROVE  Touches /\ UNCHANGED vars
  BY <1>4, LinkShape, SelectShape, CompleteShape DEF Touches
<1>5. CASE \E budget \in Budgets, deadline \in Deadlines :
              CreateBounty(caller, budget, deadline)
                \/ CreateAndFundBounty(caller, budget, deadline)
  <2>1. PICK budget \in Budgets, deadline \in Deadlines :
            CreateBounty(caller, budget, deadline)
              \/ CreateAndFundBounty(caller, budget, deadline)
    BY <1>5
  <2>2. CASE CreateBounty(caller, budget, deadline)
    BY <2>2, <1>1
  <2>3. CASE CreateAndFundBounty(caller, budget, deadline)
    BY <2>3, <1>2
  <2>4. QED
    BY <2>1, <2>2, <2>3
<1>6. CASE ~ \E budget \in Budgets, deadline \in Deadlines :
              CreateBounty(caller, budget, deadline)
                \/ CreateAndFundBounty(caller, budget, deadline)
  <2>1. PICK b \in DOMAIN bounty :
            \/ \E id \in Ids : LinkEscrow(caller, b, id)
            \/ \E a \in DOMAIN application : SelectFreelancer(caller, b, a)
            \/ \E approvers \in Approvals : CompleteBounty(caller, b, approvers)
            \/ CancelBounty(caller, b)
    BY <1>6, Zenon DEF CreatorCall
  <2>2. QED
    BY <2>1, <1>3, <1>4, Zenon
<1>7. QED
  BY <1>5, <1>6

LEMMA FreelancerShape ==
    ASSUME Records, NEW caller \in Addrs, FreelancerCall(caller)
    PROVE  Touches /\ UNCHANGED vars
<1>1. ASSUME NEW b \in Bounties, ApplyForBounty(caller, b)
      PROVE  Applies /\ UNCHANGED vars
  <2>1. Bounties \subseteq Nat
    BY BountyAssumption
  <2>2. QED
    BY <1>1, <2>1 DEF ApplyForBounty, Applies, Application
<1>2. QED
  BY <1>1, SubmitShape DEF FreelancerCall, Touches

LEMMA ExpireShape ==
    ASSUME Records, NEW b \in DOMAIN bounty, CheckAndExpireBounty(b)
    PROVE  Cancels /\ (UNCHANGED vars \/ Refunds)
<1>1. /\ bounty[b].status = "Open"
      /\ bounty' = [bounty EXCEPT ![b].status = "Cancelled"]
      /\ UNCHANGED <<multisigVars, awardVars, funding>>
      /\ \/ RefundExpiredBounty(b) /\ expired' = expired \cup {b}
         \/ UNCHANGED <<vars, expired>>
  BY DEF CheckAndExpireBounty, RefundedFor
<1>2. Cancels
  BY <1>1, CancelShape
<1>3. b \in Bounties
  BY DEF Records
<1>4. QED
  BY <1>1, <1>2, <1>3 DEF Refunds

LEMMA BountyShapes ==
    ASSUME TypeOK, Records, [BountyStep]_<<vars, bountyVars>>
    PROVE  \/ UNCHANGED bountyVars /\ [Next]_vars
           \/ (Configures \/ Touches) /\ UNCHANGED vars
           \/ Funds
           \/ Cancels /\ (UNCHANGED vars \/ Refunds)
BY OwnerShape, CreatorShape, FreelancerShape, ExpireShape DEF BountyStep, BountyNext

-----------------------------------------------------------------------------
(* The escrows under the bounty contract *)

LEMMA EscrowImplemented ==
    ASSUME TypeOK, Records, [BountyStep]_<<vars, bountyVars>>
    PROVE  [Next]_vars
<1>1. CASE Funds
  <2>1. PICK creator \in Addrs, amount \in Amounts :
            Adds(creator, counter + 1) /\ Deposit(Len(bounty) + 1, creator, creator, amount, 0)
    BY <1>1 DEF Funds
  <2>2. Len(bounty) + 1 \in Bounties /\ 0 \in UnlockTimes
    BY <2>1, BountyAssumption DEF Adds
  <2>3. QED
    BY <2>1, <2>2 DEF Next
<1>2. CASE Refunds
  BY <1>2 DEF Refunds, Next
<1>3. QED
  BY <1>1, <1>2, BountyShapes

LEMMA RecordsStep ==
    ASSUME TypeOK, Records, [BountyStep]_<<vars, bountyVars>>
    PROVE  Records'
<1>1. ASSUME NEW creator \in Addrs, NEW id, Adds(creator, id)
      PROVE  Records'
  <2>1. /\ DOMAIN bounty' = 1 .. (Len(bounty) + 1) /\ DOMAIN bounty = 1 .. Len(bounty)
        /\ Len(bounty) \in Nat
    BY <1>1 DEF Records, Adds
  <2>2. DOMAIN bounty' \subseteq Bounties
    BY <1>1, <2>1 DEF Records, Adds
  <2>3. QED
    BY <1>1, <2>2 DEF Records, Adds
<1>2. ASSUME NEW b, NEW r, Updates(b, r), application' = application,
             submitter' \in Seq(Addrs \cup {NoAddr}) /\ Len(submitter') = Len(submitter)
      PROVE  Records'
  <2>1. DOMAIN bounty' = DOMAIN bounty
    BY <1>2 DEF Records, Updates
  <2>2. QED
    BY <1>2, <2>1 DEF Records, Updates
<1>3. CASE Applies
  <2>1. PICK a \in Application : application' = Append(application, a)
    BY <1>3 DEF Applies
  <2>2. application' \in Seq(Application)
    BY <2>1, AppendProperties DEF Records
  <2>3. QED
    BY <1>3, <2>2 DEF Applies, Records
<1>4. CASE Links \/ Completes \/ Cancels
  BY <1>2, <1>4 DEF Links, Completes, Cancels, awardVars, Records
<1>5. CASE Selects \/ Submits
  BY <1>2, <1>5 DEF Selects, Submits, Notes, Records
<1>6. CASE UNCHANGED bountyVars \/ Configures
  BY <1>6 DEF bountyVars, awardVars, Configures, Records
<1>7. CASE Funds \/ \E creator \in Addrs : Adds(creator, 0)
  BY <1>1, <1>7 DEF Funds
<1>8. QED
  BY <1>3, <1>4, <1>5, <1>6, <1>7, BountyShapes DEF Touches

LEMMA RecordsInit == BountyInit => Records
<1> SUFFICES ASSUME BountyInit PROVE Records
  OBVIOUS
<1>1. /\ bounty = <<>> /\ application = <<>> /\ funding = <<>> /\ submitter = <<>>
  BY DEF BountyInit
<1>2. QED
  BY <1>1 DEF Records

LEMMA TypesAndRecords == BountySpec => [](TypeOK /\ Records)
<1>1. Init /\ BountyInit => TypeOK /\ Records
  BY TypeInit, RecordsInit
<1>2. TypeOK /\ Records /\ [BountyStep]_<<vars, bountyVars>> => (TypeOK /\ Records)'
  BY EscrowImplemented, RecordsStep, TypeStep
<1>3. QED
  BY <1>1, <1>2, PTL DEF BountySpec, BountyStep

\* Under the calls of the bounty contract the escrow contract behaves as on its
\* own, so all that is proved of it, the lifecycle it implements included, holds
\* of the escrows that fund bounties.
THEOREM EscrowUnderBounty == BountySpec => Spec
<1>1. TypeOK /\ Records /\ [BountyStep]_<<vars, bountyVars>> => [Next]_vars
  BY EscrowImplemented
<1>2. QED
  BY <1>1, TypesAndRecords, PTL DEF BountySpec, BountyStep, Spec

-----------------------------------------------------------------------------
(* What the escrows keep *)

LEMMA TermsKept ==
    ASSUME TypeOK, [Next]_vars
    PROVE  Ids \subseteq Ids' /\ \A i \in Ids : SameTerms(i)
<1>1. CASE Quiet
  BY <1>1 DEF Quiet, dealVars, Ids, SameTerms
<1>2. CASE ClosingStep
  BY <1>2, StatusEffect DEF ClosingStep, Closes
<1>3. CASE DepositStep
  BY <1>3, DepositEffect DEF Opens, SameTerms
<1>4. CASE DisputeStep
  BY <1>4, StatusEffect DEF DisputeStep, DisputeEscrow
<1>5. CASE AddMilestoneStep
  BY <1>5, AddMilestoneEffect DEF AddMilestoneStep, AddsMilestone, SameTerms
<1>6. CASE ReleaseMilestoneStep
  BY <1>6, ReleaseMilestoneEffect DEF ReleaseMilestoneStep, PaysMilestone
<1>7. QED
  BY <1>1, <1>2, <1>3, <1>4, <1>5, <1>6, StepShapes

LEMMA PayerEffect ==
    ASSUME TypeOK, NEW id \in Ids, NEW x \in Nat, NEW y \in Nat, Pay(id, x, y)
    PROVE  /\ paid'[id].payer = paid[id].payer + y
           /\ \A i \in Ids \ {id} : paid'[i] = paid[i]
<1>1. paid \in [Ids -> Payment]
  BY DEF TypeOK
<1>2. paid' = [paid EXCEPT ![id] = [payee |-> paid[id].payee + x,
                                    payer |-> paid[id].payer + y]]
  BY DEF Pay
<1>3. QED
  BY <1>1, <1>2

\* Milestones are paid to the payee: what the payer got back of an escrow that
\* is still open is nothing.
UnpaidWhileLive == \A id \in Ids : escrow[id].status \in Live => paid[id].payer = 0

LEMMA UnpaidStep ==
    ASSUME TypeOK, UnpaidWhileLive, [Next]_vars
    PROVE  UnpaidWhileLive'
<1>1. CASE Quiet
  BY <1>1 DEF Quiet, dealVars, moneyVars, Ids, UnpaidWhileLive
<1>2. CASE ClosingStep
  <2>1. PICK id \in Ids, status \in {"Released", "Refunded"}, x \in Nat, y \in Nat :
            SetStatus(id, status) /\ Pay(id, x, y)
    BY <1>2 DEF ClosingStep, Closes
  <2>2. QED
    BY <2>1, StatusEffect, PayerEffect DEF UnpaidWhileLive, Live
<1>3. CASE DepositStep
  BY <1>3, DepositEffect DEF Opens, UnpaidWhileLive
<1>4. CASE DisputeStep
  <2>1. PICK id \in Ids : /\ SetStatus(id, "Disputed") /\ escrow[id].status = "Active"
                          /\ paid' = paid
    BY <1>4 DEF DisputeStep, DisputeEscrow, RequireActive, moneyVars
  <2>2. QED
    BY <2>1, StatusEffect DEF UnpaidWhileLive, Live
<1>5. CASE AddMilestoneStep
  BY <1>5, AddMilestoneEffect DEF AddMilestoneStep, AddsMilestone, UnpaidWhileLive
<1>6. CASE ReleaseMilestoneStep
  <2>1. PICK caller \in Addrs, id \in Ids, index \in Indices :
            ReleaseMilestone(caller, id, index)
    BY <1>6 DEF ReleaseMilestoneStep
  <2>2. PaysMilestone(id, index) /\ Pay(id, milestone[id][index].amount, 0)
    BY <2>1, ReleaseMilestoneEffect DEF ReleaseMilestone
  <2>3. /\ paid'[id].payer = paid[id].payer + 0 /\ Ids' = Ids
        /\ escrow[id].status = "Active"
        /\ \A i \in Ids \ {id} : escrow'[i] = escrow[i] /\ paid'[i] = paid[i]
    BY <2>2, PayerEffect DEF PaysMilestone
  <2>4. paid[id].payer = 0
    BY <2>3 DEF UnpaidWhileLive, Live
  <2>5. paid'[id].payer = 0
    BY <2>3, <2>4
  <2>6. QED
    BY <2>3, <2>5 DEF UnpaidWhileLive
<1>7. QED
  BY <1>1, <1>2, <1>3, <1>4, <1>5, <1>6, StepShapes

\* No escrow that is still open has given anything back to its payer.
THEOREM UnpaidCorrect == Spec => []UnpaidWhileLive
<1>1. Init => UnpaidWhileLive
  BY DEF Init, UnpaidWhileLive, Ids
<1>2. QED
  BY <1>1, UnpaidStep, TypeCorrect, PTL DEF Spec

-----------------------------------------------------------------------------
(* The escrow a bounty is funded by *)

Funded(b) ==
    funding[b] # 0 => /\ funding[b] \in Ids
                      /\ escrow[funding[b]].bounty = b
                      /\ escrow[funding[b]].payer = bounty[b].creator
AllFunded == \A b \in DOMAIN bounty : Funded(b)

\* A call that adds no bounty leaves creators and funding alone.
LEMMA SameFunding ==
    ASSUME Records,
           \/ UNCHANGED bountyVars \/ Configures
           \/ Links \/ Applies \/ Selects \/ Submits \/ Completes \/ Cancels
    PROVE  /\ DOMAIN bounty' = DOMAIN bounty /\ funding' = funding
           /\ \A b \in DOMAIN bounty : bounty'[b].creator = bounty[b].creator
<1>1. ASSUME NEW b, NEW r, Updates(b, r)
      PROVE  /\ DOMAIN bounty' = DOMAIN bounty /\ funding' = funding
             /\ \A c \in DOMAIN bounty : bounty'[c].creator = bounty[c].creator
  BY <1>1 DEF Records, Updates
<1>2. CASE UNCHANGED bountyVars \/ Configures \/ Applies
  BY <1>2 DEF bountyVars, Configures, Applies
<1>3. CASE Links \/ Selects \/ Submits \/ Completes \/ Cancels
  BY <1>1, <1>3 DEF Links, Selects, Submits, Completes, Cancels
<1>4. QED
  BY <1>2, <1>3

LEMMA FundedStep ==
    ASSUME TypeOK, Records, AllFunded, [BountyStep]_<<vars, bountyVars>>
    PROVE  AllFunded'
<1>1. Ids \subseteq Ids' /\ \A i \in Ids : SameTerms(i)
  BY EscrowImplemented, TermsKept
<1>2. ASSUME NEW creator \in Addrs, NEW id, Adds(creator, id),
             \/ id = 0
             \/ /\ id \in Ids' /\ escrow'[id].bounty = Len(bounty) + 1
                /\ escrow'[id].payer = creator
      PROVE  AllFunded'
  <2>1. /\ DOMAIN bounty' = DOMAIN bounty \cup {Len(bounty) + 1}
        /\ funding'[Len(bounty) + 1] = id /\ bounty'[Len(bounty) + 1].creator = creator
        /\ \A c \in DOMAIN bounty : bounty'[c] = bounty[c] /\ funding'[c] = funding[c]
    BY <1>2 DEF Adds, Records
  <2>2. \A c \in DOMAIN bounty : Funded(c)'
    BY <1>1, <2>1 DEF AllFunded, Funded, SameTerms
  <2>3. PICK n \in Nat : n = Len(bounty) + 1
    BY DEF Records
  <2>4. Funded(n)'
    BY <1>2, <2>1, <2>3 DEF Funded
  <2>5. QED
    BY <2>1, <2>2, <2>3, <2>4 DEF AllFunded
<1>3. CASE Funds
  <2>1. PICK creator \in Addrs, amount \in Amounts :
            Adds(creator, counter + 1) /\ Deposit(Len(bounty) + 1, creator, creator, amount, 0)
    BY <1>3 DEF Funds
  <2>2. /\ counter \in Nat /\ counter' = counter + 1
        /\ escrow' = Extend(escrow, counter,
               [bounty |-> Len(bounty) + 1, payer |-> creator, payee |-> creator,
                amount |-> NetAmount(amount), unlockAt |-> 0, status |-> "Active"])
    BY <2>1 DEF Deposit, TypeOK
  <2>3. /\ counter + 1 \in Ids' /\ escrow'[counter + 1].bounty = Len(bounty) + 1
        /\ escrow'[counter + 1].payer = creator
    <3> DEFINE account == [bounty |-> Len(bounty) + 1, payer |-> creator, payee |-> creator,
                           amount |-> NetAmount(amount), unlockAt |-> 0, status |-> "Active"]
    <3>1. account.bounty = Len(bounty) + 1 /\ account.payer = creator
      OBVIOUS
    <3>2. escrow' = Extend(escrow, counter, account)
      BY <2>2
    <3> HIDE DEF account
    <3>3. escrow'[counter + 1] = account
      BY <2>2, <3>2, ExtendApply
    <3>4. counter + 1 \in Ids'
      BY <2>2 DEF Ids
    <3>5. QED
      BY <3>1, <3>3, <3>4
  <2>4. PICK id \in Nat : id = counter + 1
    BY <2>2
  <2>5. Adds(creator, id)
    BY <2>1, <2>4
  <2>6. QED
    BY <1>2, <2>3, <2>4, <2>5
<1>4. CASE \E creator \in Addrs : Adds(creator, 0)
  BY <1>2, <1>4
<1>5. CASE \/ UNCHANGED bountyVars \/ Configures
           \/ Links \/ Applies \/ Selects \/ Submits \/ Completes \/ Cancels
  BY <1>1, <1>5, SameFunding DEF AllFunded, Funded, SameTerms
<1>6. QED
  BY <1>3, <1>4, <1>5, BountyShapes DEF Touches

-----------------------------------------------------------------------------
(* The award of a bounty *)

\* Whoever a bounty was awarded to applied for it, and whoever's work waits for
\* approval or has it submitted it.
Applied(b) == \E a \in DOMAIN application :
    application[a].bounty = b /\ application[a].freelancer = bounty[b].freelancer
Awarded(b) ==
    /\ bounty[b].status \in {"InProgress", "PendingCompletion", "Completed"} => Applied(b)
    /\ bounty[b].status \in {"PendingCompletion", "Completed"} =>
           submitter[b] = bounty[b].freelancer
AllAwarded == \A b \in DOMAIN bounty : Awarded(b)

\* What was applied for stays applied for.
LEMMA OthersAwarded ==
    ASSUME Records, NEW b \in DOMAIN bounty, Awarded(b),
           bounty'[b].status = bounty[b].status,
           bounty'[b].freelancer = bounty[b].freelancer,
           submitter'[b] = submitter[b],
           application' = application \/ Applies
    PROVE  Awarded(b)'
<1>1. \A a \in DOMAIN application : a \in DOMAIN application' /\ application'[a] = application[a]
  <2>1. CASE Applies
    <3>1. PICK x \in Application : application' = Append(application, x)
      BY <2>1 DEF Applies
    <3>2. QED
      BY <3>1, AppendProperties DEF Records
  <2>2. QED
    BY <2>1
<1>2. QED
  BY <1>1 DEF Awarded, Applied

LEMMA AwardedStep ==
    ASSUME TypeOK, Records, AllAwarded, [BountyStep]_<<vars, bountyVars>>
    PROVE  AllAwarded'
<1>1. ASSUME NEW creator \in Addrs, NEW id, Adds(creator, id)
      PROVE  AllAwarded'
  <2>1. PICK n \in Nat : n = Len(bounty) + 1
    BY DEF Records
  <2>2. /\ DOMAIN bounty' = DOMAIN bounty \cup {n} /\ bounty'[n].status = "Open"
        /\ application' = application
        /\ \A c \in DOMAIN bounty : bounty'[c] = bounty[c] /\ submitter'[c] = submitter[c]
    BY <1>1, <2>1 DEF Adds, Records
  <2>3. Awarded(n)'
    BY <2>2 DEF Awarded
  <2>4. \A c \in DOMAIN bounty : Awarded(c)'
    BY <2>2, OthersAwarded DEF AllAwarded
  <2>5. QED
    BY <2>2, <2>3, <2>4 DEF AllAwarded
<1>2. ASSUME NEW b \in DOMAIN bounty, NEW r \in BountyRecord, Updates(b, r), application' = application,
             \A c \in DOMAIN bounty \ {b} : submitter'[c] = submitter[c],
             Awarded(b)'
      PROVE  AllAwarded'
  <2>1. /\ DOMAIN bounty' = DOMAIN bounty
        /\ \A c \in DOMAIN bounty \ {b} : bounty'[c] = bounty[c]
    BY <1>2 DEF Updates, Records
  <2>2. \A c \in DOMAIN bounty \ {b} : Awarded(c)'
    BY <1>2, <2>1, OthersAwarded DEF AllAwarded
  <2>3. QED
    BY <1>2, <2>1, <2>2 DEF AllAwarded
<1>3. CASE UNCHANGED bountyVars \/ Configures \/ Applies
  BY <1>3, OthersAwarded DEF bountyVars, Configures, Applies, awardVars, AllAwarded
<1>4. CASE Links
  <2>1. PICK b \in DOMAIN bounty, r \in BountyRecord :
            /\ Updates(b, r) /\ bounty'[b] = r
            /\ r.status = bounty[b].status /\ r.freelancer = bounty[b].freelancer
            /\ submitter' = submitter /\ application' = application
    BY <1>4 DEF Links, awardVars, Updates
  <2>2. Awarded(b)'
    BY <2>1, OthersAwarded DEF AllAwarded
  <2>3. QED
    BY <1>2, <2>1, <2>2
<1>5. CASE Selects
  <2>1. PICK b \in DOMAIN bounty, r \in BountyRecord, a \in DOMAIN application :
            /\ Updates(b, r) /\ bounty'[b] = r /\ Notes(b, NoAddr)
            /\ r.status = "InProgress" /\ r.freelancer = application[a].freelancer
            /\ application[a].bounty = b
            /\ application' = application
    BY <1>5 DEF Selects, Updates
  <2>2. Awarded(b)'
    BY <2>1 DEF Awarded, Applied
  <2>3. QED
    BY <1>2, <2>1, <2>2 DEF Notes
<1>6. CASE Submits
  <2>1. PICK b \in DOMAIN bounty, r \in BountyRecord :
            /\ Updates(b, r) /\ bounty'[b] = r /\ Notes(b, bounty[b].freelancer)
            /\ bounty[b].status = "InProgress" /\ r.freelancer = bounty[b].freelancer
            /\ application' = application
    BY <1>6 DEF Submits, Updates
  <2>2. Awarded(b)'
    BY <2>1 DEF Awarded, Applied, Notes, AllAwarded
  <2>3. QED
    BY <1>2, <2>1, <2>2 DEF Notes
<1>7. CASE Completes
  <2>1. PICK b \in DOMAIN bounty, r \in BountyRecord :
            /\ Updates(b, r) /\ bounty'[b] = r
            /\ bounty[b].status = "PendingCompletion" /\ r.freelancer = bounty[b].freelancer
            /\ submitter' = submitter /\ application' = application
    BY <1>7 DEF Completes, Updates, awardVars
  <2>2. Awarded(b)'
    BY <2>1 DEF Awarded, Applied, AllAwarded
  <2>3. QED
    BY <1>2, <2>1, <2>2
<1>8. CASE Cancels
  <2>1. PICK b \in DOMAIN bounty, r \in BountyRecord :
            /\ Updates(b, r) /\ bounty'[b] = r /\ r.status = "Cancelled"
            /\ submitter' = submitter /\ application' = application
    BY <1>8 DEF Cancels, Updates, awardVars
  <2>2. Awarded(b)'
    BY <2>1 DEF Awarded
  <2>3. QED
    BY <1>2, <2>1, <2>2
<1>9. CASE Funds \/ \E creator \in Addrs : Adds(creator, 0)
  BY <1>1, <1>9 DEF Funds
<1>10. QED
  BY <1>3, <1>4, <1>5, <1>6, <1>7, <1>8, <1>9, BountyShapes DEF Touches

LEMMA ApplicationEquality ==
    ASSUME NEW x \in Application, NEW b, NEW f, x.bounty = b, x.freelancer = f
    PROVE  x = [bounty |-> b, freelancer |-> f]
BY DEF Application

\* Work is approved only of a freelancer who applied for the bounty and submitted
\* after being selected last, however often the selection changed.
THEOREM AwardCorrect == BountySpec => []AwardEarned
<1>1. Init /\ BountyInit => AllAwarded
  BY DEF BountyInit, AllAwarded
<1>2. ASSUME Records, AllAwarded PROVE AwardEarned
  <2>1. \A a \in DOMAIN application : application[a] \in Application
    BY <1>2 DEF Records
  <2>2. QED
    BY <1>2, <2>1, ApplicationEquality DEF AllAwarded, Awarded, Applied, AwardEarned
<1>3. QED
  BY <1>1, <1>2, AwardedStep, TypesAndRecords, PTL DEF BountySpec, BountyStep

-----------------------------------------------------------------------------
(* The expiry of a bounty *)

GaveBack(id)   == escrow[id].status = "Refunded" /\ paid[id].payer = escrow[id].amount
Superseded(b)  == \E later \in Ids : later > funding[b] /\ escrow[later].bounty = b
Expiry(b)      == funding[b] # 0 => GaveBack(funding[b]) \/ Superseded(b)
ExpiriesKept   == expired \subseteq DOMAIN bounty /\ \A b \in expired : Expiry(b)

\* What is assumed of the escrows, each of it proved of their own contract.
EscrowFacts == TypeOK /\ LatestEscrow /\ UnpaidWhileLive

\* An expiry once served stays so: closed escrows are final, and an escrow
\* deposited later stays one.
LEMMA ExpiryStays ==
    ASSUME TypeOK, Records, AllFunded, [Next]_vars, NEW b \in DOMAIN bounty, Expiry(b),
           funding'[b] = funding[b]
    PROVE  Expiry(b)'
<1> SUFFICES ASSUME funding[b] # 0
             PROVE  GaveBack(funding[b])' \/ Superseded(b)'
  BY DEF Expiry
<1>1. PICK id \in Ids : id = funding[b]
  BY DEF AllFunded, Funded
<1>2. /\ Ids \subseteq Ids' /\ \A i \in Ids : SameTerms(i)
      /\ \A i \in Ids : StaysFinal(i)
  BY TermsKept, FinalStep
<1>3. CASE GaveBack(id)
  BY <1>1, <1>2, <1>3 DEF GaveBack, StaysFinal, Live
<1>4. CASE Superseded(b)
  BY <1>1, <1>2, <1>4 DEF Superseded, SameTerms
<1>5. QED
  BY <1>1, <1>3, <1>4 DEF Expiry

\* The refund closes the escrow deposited last for the bounty, with all it holds.
LEMMA RefundServes ==
    ASSUME EscrowFacts, Records, AllFunded, NEW b \in DOMAIN bounty,
           RefundExpiredBounty(b), funding' = funding
    PROVE  Expiry(b)'
<1> DEFINE last == bountyEscrow[b]
<1>1. b \in Bounties /\ counter \in Nat /\ bountyEscrow \in [Bounties -> 0 .. counter]
  BY DEF Records, EscrowFacts, TypeOK
<1>2. PICK id \in Ids : id = last
  BY <1>1 DEF RefundExpiredBounty, Ids
<1>3. /\ SetStatus(id, "Refunded") /\ Pay(id, 0, escrow[id].amount)
      /\ escrow[id].status = "Active"
  BY <1>2 DEF RefundExpiredBounty, RequireActive
<1>4. TypeOK /\ escrow[id].amount \in Nat
  BY DEF EscrowFacts, TypeOK, EscrowAccount
<1>5. /\ Ids' = Ids /\ escrow'[id].status = "Refunded" /\ \A i \in Ids : SameTerms(i)
      /\ paid'[id].payer = paid[id].payer + escrow[id].amount
  BY <1>3, <1>4, StatusEffect, PayerEffect
<1>6. paid'[id].payer = escrow[id].amount
  <2>1. paid[id].payer = 0
    BY <1>3 DEF EscrowFacts, UnpaidWhileLive, Live
  <2>2. QED
    BY <1>4, <1>5, <2>1
<1>7. GaveBack(id)'
  BY <1>5, <1>6 DEF GaveBack, SameTerms
<1>8. escrow[id].bounty = b /\ \A i \in Ids : escrow[i].bounty = b => i <= id
  BY <1>1, <1>2 DEF EscrowFacts, LatestEscrow, Ids
<1>9. ASSUME funding[b] # 0 PROVE GaveBack(funding[b])' \/ Superseded(b)'
  <2>1. PICK f \in Ids : f = funding[b]
    BY <1>9 DEF AllFunded, Funded
  <2>2. escrow[f].bounty = b /\ f <= id
    BY <1>8, <1>9, <2>1 DEF AllFunded, Funded
  <2>3. CASE f = id
    BY <1>7, <2>1, <2>3 DEF GaveBack
  <2>4. CASE f # id
    <3>1. id > f
      BY <1>1, <2>2, <2>4 DEF Ids
    <3>2. id \in Ids' /\ escrow'[id].bounty = b
      BY <1>5, <1>8 DEF SameTerms
    <3>3. QED
      BY <2>1, <3>1, <3>2 DEF Superseded
  <2>5. QED
    BY <2>3, <2>4
<1>10. QED
  BY <1>9 DEF Expiry

LEMMA ExpiriesStep ==
    ASSUME EscrowFacts, Records, AllFunded, ExpiriesKept, [BountyStep]_<<vars, bountyVars>>
    PROVE  ExpiriesKept'
<1>1. TypeOK /\ [Next]_vars
  BY EscrowImplemented DEF EscrowFacts
<1>2. ASSUME expired' = expired, DOMAIN bounty \subseteq DOMAIN bounty',
             \A b \in DOMAIN bounty : funding'[b] = funding[b]
      PROVE  ExpiriesKept'
  BY <1>1, <1>2, ExpiryStays DEF ExpiriesKept
<1>3. ASSUME NEW creator \in Addrs, NEW id, Adds(creator, id)
      PROVE  ExpiriesKept'
  BY <1>2, <1>3 DEF Adds, Records
<1>4. CASE \/ UNCHANGED bountyVars \/ Configures
           \/ Links \/ Applies \/ Selects \/ Submits \/ Completes
  <2>1. expired' = expired
    BY <1>4 DEF bountyVars, Configures, Links, Applies, Selects, Submits, Completes
  <2>2. QED
    BY <1>2, <1>4, <2>1, SameFunding
<1>5. CASE Cancels
  <2>1. PICK b \in DOMAIN bounty :
            \/ expired' = expired
            \/ expired' = expired \cup {b} /\ RefundExpiredBounty(b)
    BY <1>5 DEF Cancels
  <2>2. DOMAIN bounty' = DOMAIN bounty /\ funding' = funding
    BY <1>5, SameFunding
  <2>3. CASE expired' = expired
    BY <1>2, <2>2, <2>3
  <2>4. CASE expired' = expired \cup {b} /\ RefundExpiredBounty(b)
    <3>1. Expiry(b)'
      BY <2>2, <2>4, RefundServes
    <3>2. \A c \in expired : Expiry(c)'
      BY <1>1, <2>2, ExpiryStays DEF ExpiriesKept
    <3>3. QED
      BY <2>2, <2>4, <3>1, <3>2 DEF ExpiriesKept
  <2>5. QED
    BY <2>1, <2>3, <2>4
<1>6. CASE Funds \/ \E creator \in Addrs : Adds(creator, 0)
  <2>1. PICK creator \in Addrs : Adds(creator, counter + 1) \/ Adds(creator, 0)
    BY <1>6 DEF Funds
  <2>2. QED
    BY <1>3, <2>1
<1>7. QED
  BY <1>1, <1>4, <1>5, <1>6, BountyShapes DEF Touches

LEMMA FundedAndExpired ==
    BountySpec => [](EscrowFacts /\ Records /\ AllFunded /\ ExpiriesKept)
<1>1. Init /\ BountyInit => AllFunded /\ ExpiriesKept
  BY DEF BountyInit, AllFunded, ExpiriesKept
<1>2. BountySpec => []EscrowFacts
  BY EscrowUnderBounty, TypeCorrect, LatestCorrect, UnpaidCorrect, PTL DEF EscrowFacts
<1>3. EscrowFacts => TypeOK
  BY DEF EscrowFacts
<1>4. QED
  BY <1>1, <1>2, <1>3, FundedStep, ExpiriesStep, TypesAndRecords, PTL
     DEF BountySpec, BountyStep

\* An expired bounty got its money back: the escrow it was created with is
\* refunded in full, or a later deposit for it took its place.
THEOREM ExpiryRefundCorrect == BountySpec => []ExpiryRefunds
<1>1. ExpiriesKept => ExpiryRefunds
  BY DEF ExpiriesKept, Expiry, GaveBack, Superseded, ExpiryRefunds
<1>2. QED
  BY <1>1, FundedAndExpired, PTL

-----------------------------------------------------------------------------
(* The settings of the contract *)

LEMMA OwnerSettings ==
    ASSUME Settings, NEW caller \in Addrs, OwnerCall(caller)
    PROVE  Settings'
<1>1. CASE Initialize(caller) \/ SetEscrowContract(caller)
  BY <1>1 DEF Initialize, SetEscrowContract, Settings
<1>2. ASSUME NEW list \in SignerLists, NEW count \in DOMAIN list,
             SetMultisigSigners(caller, list, count)
      PROVE  Settings'
  <2>1. list \in Seq(Addrs) /\ count \in 0 .. Len(list)
    BY BountyAssumption
  <2>2. QED
    BY <1>2, <2>1 DEF SetMultisigSigners, Settings
<1>3. ASSUME NEW value \in Thresholds, SetMultisigThreshold(caller, value)
      PROVE  Settings'
  BY <1>3, BountyAssumption DEF SetMultisigThreshold, Settings
<1>4. QED
  BY <1>1, <1>2, <1>3 DEF OwnerCall

\* Only the owner's calls touch the settings.
LEMMA OwnersAlone ==
    ASSUME TypeOK, Records, [BountyStep]_<<vars, bountyVars>>
    PROVE  UNCHANGED multisigVars \/ \E caller \in Addrs : OwnerCall(caller)
<1>1. ASSUME NEW caller \in Addrs, CreatorCall(caller) \/ FreelancerCall(caller)
      PROVE  Funds \/ Touches \/ Cancels
  BY <1>1, CreatorShape, FreelancerShape
<1>2. CASE Funds \/ Touches \/ Cancels
  BY <1>2 DEF Funds, Touches, Cancels, Links, Applies, Selects, Submits, Completes,
              Adds, Updates
<1>3. CASE \E b \in DOMAIN bounty : CheckAndExpireBounty(b)
  BY <1>2, <1>3, ExpireShape
<1>4. CASE UNCHANGED bountyVars
  BY <1>4 DEF bountyVars
<1>5. QED
  BY <1>1, <1>2, <1>3, <1>4 DEF BountyStep, BountyNext

LEMMA SettingsStep ==
    ASSUME TypeOK, Records, Settings, [BountyStep]_<<vars, bountyVars>>
    PROVE  Settings'
<1>1. CASE UNCHANGED multisigVars
  BY <1>1 DEF multisigVars, Settings
<1>2. QED
  BY <1>1, OwnersAlone, OwnerSettings

LEMMA LinkedStep ==
    ASSUME TypeOK, Records, linked \in BOOLEAN, [BountyStep]_<<vars, bountyVars>>
    PROVE  linked' \in BOOLEAN
<1>1. CASE UNCHANGED multisigVars
  BY <1>1, Zenon DEF multisigVars
<1>2. ASSUME NEW caller \in Addrs, OwnerCall(caller)
      PROVE  linked' \in BOOLEAN
  BY <1>2, Zenon DEF OwnerCall, Initialize, SetEscrowContract, SetMultisigSigners,
                     SetMultisigThreshold
<1>3. QED
  BY <1>1, <1>2, OwnersAlone, Zenon

\* Every reachable state of the bounty contract is well typed, and the escrow a
\* bounty was created with is a deposit of its creator, for it.
THEOREM BountyTypeCorrect == BountySpec => []BountyTypeOK
<1>1. BountyInit => Settings
  BY DEF BountyInit, Settings
<1>2. BountyInit => linked \in BOOLEAN
  BY Zenon DEF BountyInit
<1>3. TypeOK /\ Records /\ Settings /\ [BountyStep]_<<vars, bountyVars>> => Settings'
  BY SettingsStep
<1>4. TypeOK /\ Records /\ linked \in BOOLEAN /\ [BountyStep]_<<vars, bountyVars>>
          => (linked \in BOOLEAN)'
  BY LinkedStep, Zenon
<1>5. Records /\ Settings /\ AllFunded /\ ExpiriesKept /\ linked \in BOOLEAN => BountyTypeOK
  BY Zenon DEF Records, Settings, AllFunded, Funded, ExpiriesKept, BountyTypeOK
<1>6. QED
  BY <1>1, <1>2, <1>3, <1>4, <1>5, TypesAndRecords, FundedAndExpired, PTL
     DEF BountySpec, BountyStep
===============================================================================
