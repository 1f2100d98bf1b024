# A TLA+ model of the Stellar creator portfolio

This directory holds a formal model of the parts of the platform that move money, decide, or keep
two sides in step: TLA+ modules, the TLC configurations that check them on small instances, and
theorems checked by TLAPS. Every definition is translated from the source; `PROJECT.json` ("map")
gives the file and lines behind each one. Source paths below are relative to the repository root.

| to | run, in this directory |
| --- | --- |
| parse a module | `tlasany Escrow.tla` |
| check an instance | `tlc -workers 2 -config MCBounty.cfg MCBounty` |
| check the proofs of a module | `tlapm ContractProofs.tla` |

## 1. The system

Creators publish bounties, clients fund them, freelancers are selected and paid. The money and the
decisions live in Soroban contracts on Stellar (`backend/contracts`, Rust). A Next.js application
(`app`, `lib`, `server`, TypeScript, Prisma over PostgreSQL) talks to them through a queue of
transactions, and a Rust service (`backend/services/indexer`) mirrors their events into the same
database. Users see the mirror, never the chain. Beside the chain there are two more escrows, one
kept in rows of the database and one paid by card through Stripe. A mobile application (`mobile`)
queues what its user does offline, holds a web socket open and joins video calls over another.

```
 mobile app                     application server                         Stellar
 OfflineQueue ---replay--->  routes --- TransactionQueue --drainer--> RPC pool, breaker --> contracts
 WebSocketService <--------> realtime        ^      (SequencePool)                      | events
 SignalingClient  <--------> signaling       |                                          v
                             escrow rows   chain_* tables <------ indexer <--------- RPC node
                             card escrows <---webhook--- Stripe
```

### Inventory

| component | state | operations | what is hard | what makes it correct |
| --- | --- | --- | --- | --- |
| escrow contract, `backend/contracts/escrow` | escrows, milestones and counters, dispute expiry and split, fee, oracle, admin slot, one pooled token balance | `deposit`, `release_funds`, `refund_*`, `add_milestone`, `release_milestone`, `dispute_escrow`, `resolve_*`, `submit_transaction`, configuration | order of calls by two parties and the admin; rounding; one pool for all escrows; a dispute nobody resolves | an escrow pays exactly what its status says; closed is final; one deal never touches another; every dispute ends |
| oracle contract, `backend/contracts/oracle` | observations of sources, last price | `update_price`, `get_price` with a fallback | staleness hidden by the fallback | a consumer can tell old data from new |
| bounty contract, `backend/contracts/bounty` | bounties, applications, signers and threshold | create, fund, apply, select, submit, complete, cancel, expire, link | two contracts in one call; a selection at any time; who may approve | only the holder's work is approved; what expires is paid back |
| governance contract, `backend/contracts/governance` | vote checkpoints, proposals, ballots, timelocks, platform parameters, guardians | `deposit_votes`, `withdraw_votes`, `vote`, `vote_weighted`, `execute_proposal`, `finalize_proposal`, `queue_execution*`, `execute_timelocked`, `veto_proposal`, setters | bisection over checkpoints; tokens that move between holders; two ways to decide | no token weighs twice; past power is exact; a decision stands for its tally and is final |
| upgrade library, `backend/contracts/upgradeable` | pending upgrade, pending admin | propose, execute, cancel, accept | timelock, replaced proposals | nobody but the nominee takes over |
| transaction queue and sequence pool, `lib/soroban` | `TransactionQueue`, `SequencePool`, `SorobanTransaction` rows; in-flight set and refill promises per process | `enqueueTransaction`, `drainAccount`, `acquireSequence`, refill, purge | awaits between reading and writing; overlapping ticks; crash between submission and confirm; a purge that takes live for dead | one invocation at a time, in order; confirmed means executed; every row resolves; sequences are not shared |
| event indexer, `backend/services/indexer` | cursor, ledger hashes, raw events, one table per kind | `detect_reorg`, `rollback`, `fetch_events`, `process_event`, `save_cursor` | reorganisations during a poll; a roll-back without a transaction; pages; replay after a crash | behind the cursor the mirror is exact; it catches up |
| database escrow, `lib/escrow`, `lib/db` | escrow, balance and transaction rows; the connection pool | `releaseEscrowFunds`, `refundEscrow`, `disputeEscrow` in `executeTransaction` | locks that end with their statement; retries of a half-done handler; every call holds one connection and asks for another | paid once, as the status says; every call ends |
| dispute routes, `app/api/admin` | dispute and audit rows | resolve, deadline job | two resolvers around an on-chain call; a failure between chain and row | row, chain and audit log agree |
| card escrow, `lib/payments`, `app/api/payments`, `app/api/webhooks/stripe` | records in memory, idempotency cache; PaymentIntents at Stripe | create, release, refund, webhook events | lost answers; events late, twice or out of order | the record says where the money is; one key, one payment |
| RPC circuit breaker, `server/services/stellar-circuit-breaker.ts` | state, failures, probe flag | `execute`, `getState` | calls that outlive a state change | one probe at a time; it closes again |
| RPC endpoint pool, `lib/config/rpc-fallback.ts` | order of endpoints, shared index, failure counts | `rpcCall`, probes | calls that rotate one index under each other; a swap under a waiting call; errors of endpoints that are up | one failed endpoint is not noticed |
| mobile offline queue, `mobile/src/offline` | queue and dead letters in storage, `isFlushing` | enqueue, dequeue, retry, bury, requeue, flush | read, await, write back; restarts; lost answers | nothing is lost, nothing done twice; it runs empty |
| mobile web socket, `mobile/src/services/WebSocketService.ts` | socket, state, queue, timers | connect, disconnect, destroy, send, events, timers | late events of a replaced socket; handlers that send from inside an event; sends that throw | one socket; no message lost, repeated or overtaken; it comes back |
| realtime signaling, `server/realtime/signaling.ts` and its client | peers, rooms, heartbeat state; socket, attempts, timers | join, close, heartbeat, pong deadline; dial, retry, dispose | zombies; a reconnection beside the old socket | members know who is there; zombies go |
| offline sync, `app/api/sync` | bounties, applications | push, pull | lost update between compare and write | the newer change wins |
| other contracts (insurance, referral, freelancer, identity, core, stellar_insights) | one registry or pool each | one record per call | little; insurance and referral pay out of a pool | pools cover what they owe |
| remaining services, UI, infrastructure | — | — | no protocol of their own | — |

`PROJECT.json` lists each with its status, and under "hazards" the lines where the code is hard to
test, with the properties that guard them or the reason none does.

## 2. Modules

| module | models | role |
| --- | --- | --- |
| `Escrow` | the escrow contract and what it sees of the oracle | component |
| `EscrowLifecycle` | what the contract promises about one deal | abstract specification |
| `Bounty` | the bounty contract, over `Escrow` | component that composes with another |
| `Governance` | the governance contract | component |
| `Drainer` | transaction queue, drainer and sequence pool, one account | component |
| `Indexer` | the indexer's loop and the node it polls | component |
| `Settlement` | release, refund and dispute of the database escrow | component |
| `Disputes` | the two routes that resolve a dispute | component |
| `CardEscrow` | payments route, idempotency cache, webhook; Stripe as its environment | component |
| `CircuitBreaker`, `RpcPool` | the two guards in front of the Stellar RPC | components |
| `OfflineQueue` | the mobile queue and its replay | component |
| `Socket` | the mobile web socket service | component |
| `Signaling` | signaling server and client of one call | component |
| `ContractProofs` | — | theorems about `Escrow` (its types, the shapes of its steps, its properties, the refinement), and over them about `Bounty` |
| `DrainerProofs`, `GovernanceProofs`, `IndexerProofs` | — | theorems about the module of that name |
| `QueueProofs` | — | theorems about `OfflineQueue` |
| `ProgressProofs` | — | theorems about `Settlement`, `CircuitBreaker`, `Socket` and their union `MCProgress` |
| `ServicesProofs` | — | theorems about `Disputes`, `CardEscrow`, `Signaling`, `RpcPool` and their union `MCServices` |
| `SumTheorems` | — | induction over a set of numbers and sums over finite sets, for the modules above |
| `MC…` | instances, symmetry sets, fairness of compositions | for TLC only |

`MCBounty`, `MCGovernance`, `MCProgress` and `MCServices` each check several *parts*: a constant
variable `part`, chosen in the initial state, says which one runs, and the others stand still. The
parts of one such module share no state in the code either (or, in `MCBounty` and `MCGovernance`,
are two instances of one contract with different calls switched on), so a run is the union of the
runs of its parts. In `MCBounty` the properties of the escrow contract are checked in both parts, so
also under the calls that the bounty contract makes.

### Escrow

A contract call is one ledger transaction, so each entry point is one action; its `ensure`s,
authorisation checks and `Option` cases are conjuncts of the guard. `Deposit`, `ReleaseFunds`,
`RefundEscrow`, `RefundExpiredBounty`, `AddMilestone`, `ReleaseMilestone`, `DisputeEscrow`,
`ResolveDispute`, `ResolveExpiredDispute`, `SubmitTransaction` and the administrative calls stand
for the functions of those names. Amounts and basis points are integers with the code's truncating
division. `pool` is the contract's token balance; `CanTransfer` is the token contract's refusal to
overdraw it. `heldFees` and `paid` are history variables.

Abstractions: one token; no events, storage lifetimes or creation times; `submit_transaction`'s
second authorisation of the same address adds nothing; `refund_expired_bounty` takes any
authenticated caller, as the code does; prices are reduced to the time of the last observation,
never in the future.

`EscrowLifecycle` says in fifty lines what a deal is: opened for a net sum, paid in instalments
while open, frozen by a dispute, closed once. `Escrow` implements it with status, counters and
payments as the refinement mapping (`Deals`).

### Bounty

`Bounty` extends `Escrow` and calls its actions: `CreateAndFundBounty` is the creation together
with `Deposit`, `CheckAndExpireBounty` the cancellation together with `RefundExpiredBounty`, each
one step because a call and the calls it makes commit or fail as one. The escrow contract of an
expiry is named by the caller, so the refund may also happen somewhere else; `expired` records the
expiries that went to this one. A selection has no guard on the status, an application none at all,
as in the code. `funding`, `submitter` and `expired` are history variables.

### Governance

Ledger sequence and ledger time are one clock, `ledger`. Checkpoints are the sequences the contract
stores, and `VotesAt` is its bisection, written as a recursive function of the range that is left.
`closing` is a history variable with the power each account really had when each ledger closed.
`create_param_proposal` is `CreateProposal` with a parameter set. The admin is fixed: hand-over and
upgrade are those of the shared library.

### Drainer

A worker is one invocation of `drainAccount`; its program counter names the await it is suspended
at, and between two awaits anything else may run: other ticks, the background refill, the purge, a
late landing, a crash. One database statement is one step, because the row lock of
`FOR UPDATE SKIP LOCKED` ends with its statement. The network may execute a submission, refuse it,
or leave the caller without an answer and execute it later (`limbo`, `LandLate`). Which bookkeeping
statements can fail is a constant (`FaultKinds`), so each instance chooses its faults.

The pooled sequence is modelled as the code uses it, a gate for concurrency: the SDK puts its own
number on the wire. `entry.maxAttempts` is not read by the drainer and is left out. A second
background check that finds one waiting is taken to fail. As `docs/SOROBAN_SEQUENCE_MANAGEMENT.md`
says, nothing in the repository starts the drainer yet; the model is of the code as it would run.

### Indexer

The loop is modelled statement by statement (`pc`): detection, the `DELETE`s of a roll-back in
their order, the events of a page one at a time, the hash, the cursor. The node's chain is
external: it closes ledgers with new events and may drop a suffix and grow another. `detect_reorg`
may skip any ledger it cannot verify. A statement that fails, an event that cannot be stored and a
crash are actions, at most `MaxFaults` of them. `missed`, `lost`, `dirty` and `orphaned` are
history variables that record the exceptions of the properties. The model takes the events as the
node would return them under the names the handlers know; whether the contracts publish those names
is outside it.

### Settlement

`executeTransaction` opens a transaction and calls the handler without handing it over, so every
statement of a handler commits by itself on another connection of the pool while the empty
transaction keeps one. A step is one statement; a row lock is a step that holds nothing afterwards.
A statement needs a free connection; when there is none, the pool's time-out fails the call
(`PoolTimeout`). A deadlock is retried `Attempts` times, other failures are not. `crossed` and
`torn` are history: escrows that two calls were at together, and calls cut off after the status.

### Disputes, CardEscrow

`Disputes` runs requests of the two routes against one set of rows: each reads, asks the escrow API
for the resolution on chain, writes the row, writes the audit log, with an await before each. The
call may not reach the contract, which is no error for the route; a statement may fail, or the server
stop, at any of these awaits, which ends the request where it is (`RequestFails`). The deadline job
takes its list of disputes at the start and goes through it. The histories keep apart what went
wrong: `unreached` (the contract never got a request), `torn` (it acted, and the request ended before
the row), `unlogged` (the row was written, the entry could not be), `contested` (two requests at one
dispute).

`CardEscrow` models one request of the payments route as its calls to Stripe with the record
written in between, and Stripe as an environment: the customer authorises, an authorisation
expires, an event may be delivered at any time after its cause, again, and late. The record is made
before Stripe is asked for the intent (`CreateEscrow`, `CreateIntent`), so a refusal leaves a record
without an intent and a lost answer an intent without a record that knows it (`CreateFails`); nothing
is cached then. A customer pays with the client secret of the response and not without (`payable`).
An answer to a capture, a cancellation or a refund may be lost after Stripe has done what it was
asked for. A cached response expires (`EntryExpires`). `strayed`, `early` and `clashed` name the
exceptions of the properties.

### CircuitBreaker, RpcPool

A call of the breaker is admitted (`Execute`) and ends later (`Succeed`, `Fail`) in whatever state
the circuit is then; `admitted` remembers whether it is a probe. `GetState` refreshes the state as
the getter does. In `RpcPool` everything between two answers of one call is one step; the index is
shared by all calls, as is the failure count of a *position*, which the code does not move along
when a probe swaps two endpoints. Which endpoint scores best is left open. An endpoint that is up may
still answer with an HTTP status or a JSON-RPC error, which the code takes for a failure like any
other (`RpcFails`); `met` remembers which calls that, a rotation or a swap has happened to.

### OfflineQueue

The two storage keys are read and written whole. A handler is the list of its storage calls
(`StepsOf`), each an await: it reads a key into a copy of its own (`q`, `d`), and the write puts
that copy back over whatever others wrote meanwhile. The flush works on a snapshot of its own and
is kept single by `isFlushing`. The server may carry an operation out and the answer be lost; the
storage may fail; the app may restart between any two calls and forget the flag. `stale`, `cut` and
`unanswered` record which operations the exceptions of the properties apply to.

### Socket, Signaling

In `Socket` the events of each socket are separate from the service's record of it: a socket that
was closed tells so later, and the handler acts on the service whatever socket is its own by then.
A callback is one step, except `onopen`, which runs the application's state handlers, that may send,
before it empties the queue: `task` says what of it is going on, `Flush` is one turn of its loop. A
send may throw, and puts its message at the end of the queue, in the loop as well. A closure may
come from the peer with code 1000, after which no reconnection is scheduled. Timers (reconnection,
heartbeat, silence) are flags; a timer that fires is an action. A reconnection that is scheduled while
one is set forgets the first, which still fires (`strays`). `destroy` is `disconnect` with the queue
cleared. `Signaling`
has both ends: the client dials, retries and disposes; the server's rooms, `awaitingPong`, the
heartbeat, the pong deadline and the close event race to collect a peer. Cuts of the network and
restarts of the server are actions. `told` counts what a member was told of the others; a
departure is counted when it is sent. `retold` records the sockets
told of a member that joined again.

## 3. Runs

| run | instance | checks | states |
| --- | --- | --- | --- |
| `escrow_safety` | 2 parties (either may be admin), 2 escrows of one bounty, 2 milestones each of 13 or 26 out of 39, dispute before and after the timeout; and 1 bounty over 2 escrows with its quorum, 2 applications, releases and refunds from outside | `TypeOK`, `PayoutMatchesStatus`, `MilestonesAgree`, `CoveredUnlessOverpaid`, `ImplementsLifecycle`; `BountyTypeOK`, `AwardEarned`, `ExpiryRefunds` | 816 k |
| `escrow_admin` | 1 escrow under every administrative call | `DisputesSettle` | 332 k |
| `escrow_drain` | 2 escrows with milestones, as in `escrow_safety` | `LockedBalancesCovered` is violated | — |
| `drainer` | 2 ticks of one process, 2 transactions of 2 attempts, failing confirm, mark or refill, purge, late landing | `TypeOK`, `OneWorkerPerServer`, `OrderedSubmission`, `ConfirmedLanded`, `CollisionNeedsPurge` | 382 k |
| `drainer_crash` | 1 transaction; crash or failing catch block; fairness | `EntriesResolve` | 69 k |
| `drainer_collision` | 2 transactions, no failure at all | `NoCollision` is violated | — |
| `governance` | 2 holders and 1 proposal over 3 ledgers; and 1 voter, 2 proposals, guardian and every setting over 4 | `PastVotesExact`, `NoDoublePower`, `OutcomeMatchesTally`, `DecidedIsFinal` | 1 352 k |
| `indexer` | 3 ledgers, 2 events on a freelancer and an application, pages of 1, 1 reorganisation, 1 failure or crash; fairness | `IndexExact`, `RowsFollow`, `CatchesUp` | 522 k |
| `offline_queue` | 2 operations, 2 handlers at once, 2 retries, 1 tap of the user, 1 fault; fairness | `NothingLost`, `AppliedOnce`, `QueueDrains` | 825 k |
| `progress` | 3 calls on 1 database escrow over 3 connections with 1 failing statement; 3 calls through a breaker of threshold 2; 2 sockets, 2 messages through a queue of 1, 2 calls of connect, disconnect and destroy, 1 break; fairness | `TypeOK`; `PaidOnce`, `CallsEnd`; `ProbeAlone`, `Recovers`; `OneSocket`, `InOrder`, `ComesBack` | 262 k |
| `services` | 2 disputes and 2 requests; 2 card escrows, 2 requests under 1 key, 2 lost answers; 2 peers, 3 sockets, 1 breakdown; 3 endpoints, 2 calls, 2 outages, 1 swap | `TypeOK`; `ResolutionAgrees`; `RecordAgreesWithStripe`, `OnePaymentPerKey`; `ViewsAgree`, `ZombiesCollected`; `OneFailureIsHidden` | 2 292 k |
| `settlement_double` | as `progress` | `NoDoublePayout` is violated | — |

What the deeper properties say:

- `PayoutMatchesStatus`: what an escrow handed out is its released milestones, plus its whole net
  amount exactly if it was released or refunded, to the last unit and whatever the split.
- `CoveredUnlessOverpaid`: the pool covers every open escrow and the held fees as long as no escrow
  was overpaid. It narrows the finding below to its one cause.
- `ImplementsLifecycle`: every step of the contract is a step of the abstract deal or none.
- `AwardEarned`: although a creator may select at any time, also a bounty that is submitted,
  completed or cancelled, the work approved is always that of the freelancer who holds it now.
- `ExpiryRefunds`: an expiry through this escrow contract left the first escrow refunded in full,
  whatever its parties had done, unless a later deposit for the bounty took its place.
- `CollisionNeedsPurge`: whatever fails, two executed submissions share a sequence only if the purge
  had put that sequence back.
- `PastVotesExact`: the bisection over checkpoints, with several changes in one ledger collapsed,
  gives exactly the power at each closed ledger.
- `IndexExact`: behind the cursor the raw events are the chain's. The exceptions are listed in the
  property, and each is a way the code loses or keeps events it should not (section 6).
- `NothingLost`, `AppliedOnce`: an accepted operation is somewhere until it is carried out, and is
  carried out once. The exceptions name the overlap of two handlers, a cut-off move, a lost answer.
- `PaidOnce`: although no lock holds, calls that do not cross pay an escrow at most once, through
  failures and retries, because the status is set first and the retry finds it; `CallsEnd` is about
  calls that hold all the connections and wait for one more.
- `ProbeAlone`, `Recovers`: a call admitted while the circuit was closed and ending half-open must
  not let in a second probe, nor leave the flag set for ever.
- `InOrder`: every message sent is handed to a socket once, or waits once, or was pushed out of the
  full queue, across reconnections and sends that throw; and none is overtaken by a later one, but for
  the two ways the code has: a state handler of a new connection sends before the queue is emptied
  (`hurried`), and a message whose sending threw goes to its end (`putBack`).
- `OneSocket`, `ComesBack`: timers, replaced sockets and late events never open a second connection;
  and a connection that is wanted comes again, also when nobody told that the last one went dead. The
  second names the two orders of events the code does not recover from (`dismissed`, `stranded`).
- `ResolutionAgrees`: each resolution on chain or in the row is in the audit log, or its request is
  still underway, or it is on record as not entered (`unlogged`, `torn`); this holds also of disputes
  two requests were at. And the row of a resolved dispute says what the contract did, unless no request
  reached the contract, two were at the dispute, or the contract acted for one that ended before it
  wrote the row; no other failure makes them differ, in whatever order requests come.
- `OnePaymentPerKey`: a request sent again after a refusal or a lost answer creates a second escrow;
  the customer still pays once, because only a response holds the secret to pay with, and what was
  answered is cached. Excepted are keys that two requests used at one time or that expired.
- `RecordAgreesWithStripe`: a lost answer leaves a record behind what Stripe did; whatever the client
  does next, the record never says the opposite of where the money is. The exceptions are the events
  that come out of order, among them the event of a capture that a give-back whose answer was lost
  has already undone.
- `NoDoublePower`: however tokens move between accounts in the course of a vote, the weights cast on
  a proposal stay within the tokens there are.
- `ViewsAgree`, `ZombiesCollected`: whatever order sockets join, die, are replaced and collected in,
  what each member was told adds up to the room, and a silent socket is gone after one more ping.
- `OneFailureIsHidden`: although calls rotate one shared index under each other, with one endpoint
  down a call of a pool of three or more always comes to one that answers, unless a probe swapped
  endpoints under it or an endpoint that is up refused it. What other calls meet does no harm to it.

### Bounds, and why they are enough

- Escrow: two escrows are needed for one to be paid with the other's deposit and for a bounty to
  change its escrow; two milestones for "some but not all released"; two parties for every
  combination of payer, payee and admin. 13 and 26 add up to the net amount 39 of a deposit of 40,
  so a milestone total can meet the bound exactly, and 39 is odd, so an even split must round. The
  safety instance leaves the settings at their defaults, the admin instance changes them all.
- Bounty: one bounty with two escrows has its own one, one from outside before or after it, and both
  settled in either order; two applications let the selection change hands and one be for another
  bounty; the budget is of high value once the threshold is lowered, and below it before. The owner of
  the contract creates the bounty, which fixes who is who, and configures in one order. The deadline
  of a bounty is the lock time of the deposit made with it, so `UnlockTimes` has 0 for it and 1 for
  the escrows of the other part, which are tried before and after. Two bounties
  share nothing but the counters.
- Drainer: two ticks are the least that can overlap and two transactions the least that can be out
  of order. Two pool slots with a refill at one exercise both refills. One failure at a time covers
  each recovery path; both attempts of an entry are used.
- Governance: one token per holder, moved at will, is enough to vote twice with it; three ledgers
  put changes before, in and after the snapshot. The part of the deposits has no parameters, the
  part of the executions no deposits, and four ledgers for period, delay and what comes after.
- Indexer: three ledgers let the cursor run ahead of a fork and back; pages of one event end inside
  ledgers of two; the window `Depth` of 2 is shorter than the chain, so old hashes fall out of it.
- OfflineQueue: two handlers are the least that can overwrite each other, two operations the least
  for one to be lost with the other's copy; two retries reach both the retry and the dead letters.
- Settlement: as many calls as connections (three) is the least at which everyone waits for
  everyone, and three calls let a release, a refund and a dispute meet. One failure cuts a call off
  at every statement in turn; two attempts let the retry fail again.
- CircuitBreaker: threshold two separates the first failure from the last; of three calls one can be
  left from before, one be the probe and one be refused. Five failures open the circuit twice.
- Socket: two sockets are the present one and the replaced one, whose late closure is the hard case;
  two messages overflow a queue of one, and one overtakes the other when it waits, or was put back, and
  a handler sends the second. Two calls connect, and then disconnect, connect again or
  destroy; one connection breaks, goes dead or is closed by its peer. Larger instances were out of the
  time a run may take; the safety properties are proved for any.
- Disputes, CardEscrow, Signaling, RpcPool: two disputes for the job's list to go on after one; two
  requests to cross, a third to meet what a failed one left, and one failure at each await in turn; two
  escrows under one key for a repeated request to create the second; two lost answers, because the
  second is lost by the request that mends the first; three sockets for a peer to reconnect beside its
  partner; two calls of the pool to rotate under each other, three endpoints with two primaries for
  both the swap and the fallback, and an outage that opens and one that ends.

Symmetry is used in two safety runs only, `escrow_safety` (the parties) and `drainer` (the ticks).
`CHECK_DEADLOCK FALSE` is set everywhere: clocks, deposits, transactions, failures and messages are
bounded, so the instances stop, and so may the systems, when nobody calls them. (Deadlock among calls of
the database escrow is what `CallsEnd` is about.)

Every property has a mutant in `PROJECT.json`: a plausible slip in one mapped definition (a dropped
guard, a rounding, an off-by-one, a missing reset) under which the same run must fail.

### Fairness

- `DisputesSettle` assumes that ledgers close and that somebody submits `resolve_expired_dispute`
  for a ripe dispute; the call needs no authority, so any party can. The admin is not assumed to act.
- `EntriesResolve` assumes that ticks recur (`setInterval`), that started statements end and that the
  network answers each call. The last is needed: the polling loop in `server/stellar/contract.ts`
  has no limit, and a transaction the network drops would hold its account for ever.
- `CatchesUp` assumes that the loop runs on, that a stopped process is restarted and that the node
  answers in the end. Ledgers need not close and faults need not happen.
- `QueueDrains` assumes that handlers run on, requests end, and flushes go on being started. The
  last is what NetInfo's events are trusted for; no timer of the code starts one.
- `CallsEnd` assumes only that an await returns: a statement ends, a wait for a connection ends with
  one or with the pool's time-out. Without the time-out it fails, and rightly.
- `Recovers` assumes that calls go on being made, that the recovery time passes, and that an
  operation succeeds unless it fails; failures are bounded.
- `ComesBack` assumes that timers fire, that a socket tells when it opens or closes, that a loop that
  flushes the queue goes on and does not throw for ever, and that time passes for a connection whose
  peer is gone; that a peer stays silent, or that the user calls anything, is not assumed.

## 4. What is proved

TLAPS checks the theorems for every value of the constants allowed by the named `ASSUME` of the
component's module (`EscrowAssumption`, `DrainerAssumption` and so on: natural bounds, finite index
sets, names that are not taken): any number of parties, escrows, bounties, proposals, invocations,
processes, requests, calls, sockets, messages and failures. Two of them are worth a word.
`GovernanceAssumption` takes the set of accounts to be finite, without which there is no sum of the
tokens in existence. `OneProcess`, a hypothesis of two theorems about the drainer and no assumption
of its module, says that one server process drains the account, the deployment the drainer's header
describes; with two the code keeps neither property (section 6).

| theorem | states |
| --- | --- |
| `ContractProofs!TypeCorrect` | `Spec => []TypeOK`: balance, shares and milestone totals stay natural numbers |
| `ContractProofs!PayoutCorrect` | `Spec => []PayoutMatchesStatus` |
| `ContractProofs!MilestonesCorrect` | `Spec => []MilestonesAgree` |
| `ContractProofs!MoneyConserved` | `Spec => []Conserved`: the balance is the fees kept and what each escrow has not paid out, to the unit |
| `ContractProofs!Covered` | `Spec => []CoveredUnlessOverpaid` |
| `ContractProofs!ExpiryCorrect` | `Spec => []DisputeHasExpiry` |
| `ContractProofs!LatestCorrect` | `Spec => []LatestEscrow` |
| `ContractProofs!FinalCorrect` | `Spec => ClosedIsFinal` |
| `ContractProofs!Refinement` | `Spec => ImplementsLifecycle` |
| `ContractProofs!EscrowUnderBounty` | `BountySpec => Spec`: under the bounty contract the escrow contract behaves as on its own |
| `ContractProofs!UnpaidCorrect` | `Spec => []UnpaidWhileLive`: an open escrow gave nothing back to its payer |
| `ContractProofs!AwardCorrect`, `ExpiryRefundCorrect`, `BountyTypeCorrect` | `BountySpec => []AwardEarned`, `[]ExpiryRefunds`, `[]BountyTypeOK` |
| `DrainerProofs!TypeCorrect` | `Spec => []TypeOK` |
| `DrainerProofs!GuardCorrect` | `Spec => []OneWorkerPerServer` |
| `DrainerProofs!OutcomeCorrect` | `Spec => []ConfirmedLanded` |
| `DrainerProofs!OrderCorrect` | with `OneProcess`: `Spec => []OrderedSubmission` |
| `DrainerProofs!CollisionsCorrect` | with `OneProcess`: `Spec => []CollisionNeedsPurge` |
| `GovernanceProofs!OutcomeCorrect` | `Spec => []OutcomeMatchesTally` |
| `GovernanceProofs!QueueCorrect` | `Spec => []QueuedIsApproved` |
| `GovernanceProofs!DecisionsFinal` | `Spec => DecidedIsFinal` |
| `GovernanceProofs!PastVotesCorrect` | `Spec => []PastVotesExact` |
| `GovernanceProofs!NoDoublePowerCorrect` | `Spec => []NoDoublePower` |
| `ProgressProofs!PaymentsCorrect` | `SettlementSpec => []PaidOnce` |
| `ProgressProofs!ProbeCorrect` | `BreakerSpec => []ProbeAlone` |
| `ProgressProofs!SocketCorrect`, `OrderCorrect` | `SocketSpec => []OneSocket`, `[]InOrder` |
| `ProgressProofs!ProgressTypeCorrect` | `Spec => []TypeOK`, the types of the three |
| `ServicesProofs!DisputesCorrect` | `DisputesSpec => []ResolutionAgrees` |
| `ServicesProofs!RecordsCorrect`, `OnePaymentCorrect` | `CardSpec => []RecordAgreesWithStripe`, `[]OnePaymentPerKey` |
| `ServicesProofs!ViewsCorrect`, `ZombiesCorrect` | `SignalingSpec => []ViewsAgree`, `[]ZombiesCollected` |
| `ServicesProofs!FailureHidden` | `RpcPoolSpec => []OneFailureIsHidden` |
| `ServicesProofs!ServicesTypeCorrect` | `Spec => []TypeOK`, the types of the four |
| `IndexerProofs!IndexIsExact`, `RowsFollowChain` | `Spec => []IndexExact`, `[]RowsFollow` |
| `QueueProofs!QueueLosesNothing`, `QueueAppliesOnce` | `Spec => []NothingLost`, `[]AppliedOnce` |

In `ProgressProofs` and `ServicesProofs`, `PartsImplemented` and `ServicesImplemented` carry what is
proved of a component by itself over to the specification the run checks.

The arguments.

- **Escrow.** Lemmas about the arithmetic come first: a fee is between zero and the amount, the two
  shares of a split are naturals that add up to it. `StepShapes` then shows that each step of the
  contract is one of a few shapes (a deposit, a payout that closes an escrow, a dispute, a milestone
  added or released, an administrative or clock step), so that each invariant is proved once per
  shape and not once per entry point. `TypeOK` is inductive with those lemmas. The other invariants
  are each inductive relative to `TypeOK`; `MilestonesAgree` further needs the finiteness of the
  milestone sets for their cardinalities. The refinement uses `TypeOK /\ PayoutMatchesStatus` as its
  invariant: without the second, a settlement could not be shown to hand out exactly the net sum,
  since `Deals` computes it from what was paid.
- **The money of the escrows.** That the balance covers what is open is not inductive, because it says
  nothing of an escrow that paid too much. `Conserved` says what the balance *is*: the fees kept plus
  the sum, over all escrows, of amount less payments, negative terms included; and that the
  milestones of each escrow add up to no more than it has. `CoveredUnlessOverpaid` follows, since only
  an escrow that closed after a milestone has a negative term. A step changes one term of the sum, or
  adds one; `SumTheorems` says what that does to it.
- **Bounty.** A call of the bounty contract is a step of the escrow contract or leaves it alone, so
  `BountySpec => Spec` and every theorem about escrows holds under it. `AwardEarned` needs that the
  holder of a bounty applied for it and that submitted work is his (`Awarded`): a selection also takes
  back what was submitted. `ExpiryRefunds` needs that the escrow a bounty was created with is a deposit for it
  (`Funded`), `UnpaidWhileLive`, since a refund is full only because an open escrow gave nothing back
  before, and `ClosedIsFinal`, which keeps it so.
- **Drainer, the entries.** None of the properties is inductive: a flag says nothing of who set it,
  and a row set to confirmed says nothing of the network. The invariant (`Inv`) adds that a process
  has its flag set exactly while one of its invocations runs (`Exclusive`, `Flagged`), that what an
  invocation carries from before its awaits is still below the attempts allowed, and that one at
  its confirm has been executed (`JobOK`). Every step continues, begins or ends one invocation, or
  writes one entry; the rows of the pool play no part. The order needs one process: with two, each
  has a flag of its own, and both may take the account.
- **Drainer, the sequences.** `PoolInv` says who holds a sequence that the purge never freed: an
  available row, an invocation that reserved it and has not used it, or one submission, in flight
  or executed once, and never two of them. A claim takes a row nobody holds; a refill, whose start
  was read before its rows are inserted, still goes on after the highest sequence of the pool
  (`Ahead`), because one process runs one refill at a time; a sequence is released only by
  a transaction the network refused, and marked used by any other.
- **Governance, decisions.** `OutcomeMatchesTally` rests on `QueuedIsApproved`: an executed proposal
  comes out of the queue, where only its approval put it. These proofs never look at what a vote
  weighs.
- **Governance, voting power.** The bisection is shown to find, in a list of checkpoints that rise by
  ledger, the last one not after the ledger asked for, by induction over the width of the range:
  `Induction` of `SumTheorems` is stated over a set of numbers, so the provers can use it. With that,
  `TokenInv`: the checkpoints answer for each closed ledger as the account stood at its end, and the
  deposits of a ledger add up to at most the tokens in existence, because a transfer conserves their
  sum. `BallotInv` says that a weighted vote is what its account had at the proposal's snapshot, a
  ledger closed before, and that an account has one; `NoDoublePower` is then a comparison of two sums.
- **Settlement.** `Ledger(e)` says of an escrow no calls crossed at: at most one call has set its
  status and not ended, that call has the status its function sets, and how far it has come
  (`Underway`) says how much was paid and recorded. The status alone would not do: between the
  status and the payment they disagree.
- **CircuitBreaker.** The type invariant with `ProbeAlone` is inductive; the case that matters is a
  late end of an ordinary call in the half-open state, which may decide the circuit only as the
  probe's own end or by leaving the state with the flag cleared.
- **Socket.** `Lines` splits `InOrder` into what it says of the messages handed over, of those that
  wait, and of one of each; lemmas on `Append`, `Tail` and concatenation keep it. It is not inductive
  alone: a message sent straight through must find nothing waiting but what was put back, which is
  `Emptied`, the state between two callbacks while the service is connected. `OneSocket` needs that no socket but the present one is live and that an unused one is not known.
- **Disputes.** What is in the log is proved of every dispute, with the requests that have been at
  the contract or the row but not yet at the log (`Logged`), and that a dispute past the contract was asked there (`Asked`). For the agreement of row and
  chain, `Agreed(d)` says of a dispute no two requests were at: the request that has it on its list
  will find it open when it comes to it, and between the contract and the row exactly the request at
  hand accounts for the difference, unless a request ended there before.
- **CardEscrow.** `Follows(e)` lets record and intent differ only between Stripe's answer to a refund
  and the mark on the record, and says what a request that is past Stripe has seen there. For the
  payments, `Owned` says that no escrow was created under two keys and that one which was paid for had
  been answered (`payable`); `KeyOnce` says that under a key at most one request is running, that
  nothing of it is cached then, that none of its escrows is payable before its entry is cached, and at
  most one ever is.
- **Signaling.** `Silent` says that a socket which missed one ping is dead and awaits its answer, so
  that the next heartbeat takes it; counts of a finite room changed by one keep `ViewsAgree`.
- **Indexer.** `IndexExact` looks at the loop between polls only. The invariant says at every `await`
  where each event of the chain is: stored, in the batch, missed, or ahead of `next` (`Complete`), and
  the other way round that what was read of a ledger that is not dirty is on the chain (`Sound`); that
  a ledger that was passed and is gone is dirty (`Gone`), so that a fork growing back is not mistaken
  for what was indexed; and what a roll-back has undone at each of its statements (`Undoing`). The
  rows need more, because a replay after a crash writes old statuses: `Ordered` says that the batch
  rises along the chain and leaves nothing out between its first event and `next`, so an event that
  has been handled is never followed by an earlier one, and `Mirrored` says what the row is once the
  creation, or also the last event, has been handled. A lemma on `EventsFrom` says that a poll returns
  the chain from the cursor on in order, by induction over the ledgers.
- **OfflineQueue.** An operation that no handler acted on with an outdated copy, and no move between the
  two keys was cut off for, has one place (`Place`): one entry in one of the queues, both only while a
  handler is between the two writes of a burial, neither only between those of a requeue. `Somewhere`
  and `Carried` say where it is meanwhile and how often the server has run it. The hard case is a
  handler about to write back the copy of a key it read some awaits ago: either the key is still what
  it read, or the write makes every operation in which the two differ stale, and the operation the
  handler is itself about is shared with no other handler or is stale as well. The code filters its
  queues by identifier; lemmas on `Filtered` say that it keeps the other entries, in order.
- **RpcPool.** `Calm` says of a call under which no probe swapped and which no endpoint that is up
  refused: the positions it passed are of the endpoint that is down, and only its first attempt has tried one position alone. That leaves an
  attempt to spare, which a call needs when another has rotated the index onto a position it tried.

Three of these proofs failed at first because what they were to prove was false on instances larger than
the ones checked, and TLC then showed it there. A give-back whose answer is lost, repeated, crosses the
event of the capture it undid, which takes two lost answers (`MaxLost` is 2 since, and the property
names the case); a member that joins twice is counted twice by the others in a room of more than two,
which `MAX_PEERS_PER_ROOM` allows (`retold` in `ViewsAgree`; the default is 2); and in a pool of two
endpoints a call may throw although one of them answers (`N > 2` in `OneFailureIsHidden`; the pools of
`lib/config/rpc-fallback.ts` have five and three).

Every safety property of a passing run has its theorem. Only model-checked are the liveness
properties (`DisputesSettle`, `EntriesResolve`, `CatchesUp`, `QueueDrains`, `CallsEnd`, `Recovers`,
`ComesBack`): liveness under fairness and `ENABLED` are out of the prover's reach here, as is what
needs an induction theorem that takes an operator as its parameter. A theorem states its property with
the same exceptions as the run does; section 6 lists what they stand for in the code.

## 5. Findings

| run | what the code does |
| --- | --- |
| `escrow_drain` | `release_milestone` pays without reducing `escrow.amount`; a later release, refund or resolution pays the whole amount again out of other escrows' deposits. |
| `drainer_collision` | The purge frees the slot of a submission that takes longer than the lock timeout but is alive; its sequence is handed out again. |
| `settlement_double` | The transaction opened for a handler is not the one its statements run in, so no lock outlives its statement; two calls both find the escrow active and both pay it. |

## 6. Known limits of the code

Several properties hold only because they name what they exclude, and some hazards have no property
at all because the code does not have it. Each is a behaviour of the code, met while the properties
were being stated.

**Escrow and bounty contracts**

- `get_price` stamps its fallback with the present time, so the freshness guard of `release_funds`
  passes exactly when no recent observation exists.
- An escrow whose milestones add up to less than its amount is `Complete` when they are released, and
  the rest of the deposit stays in the contract.
- `refund_expired_bounty` finds one escrow per bounty, the latest; an earlier one is out of its
  reach. Anyone may deposit for a bounty and so displace its escrow (`ExpiryRefunds` names this).
- `complete_bounty` says it releases payment and moves no money; the escrow of a completed or
  cancelled bounty stays active until its parties act. `create_and_fund_bounty` deposits for the
  creator himself, so a release pays him.
- A bounty without an escrow cannot expire: the refund fails and the expiry with it. One expired
  through another contract than the escrow's gets nothing back.
- `select_freelancer` reopens completed, cancelled and expired bounties. The list of signers may hold
  one address twice, so that `required` distinct ones can never be found.

**Governance.** `execute_timelocked` applies a carried limit without comparing it with the other, so
the maximum can fall below the minimum, which `set_bounty_limits` refuses. `execute_proposal` decides
without the quorum that `finalize_proposal` asks for.

**Drainer.** `ConfirmedLanded` does not say that an entry is executed once: a failure of
`markSequenceUsed` after the confirm, or an answer lost after the submission, makes it run again.
With several server processes two of them can select the same slot and drain one account; the
instances have one, and order and collisions are proved for one.

**Indexer** (the exceptions of `IndexExact` and `RowsFollow`)

- `detect_reorg` compares only ledgers with a stored hash, one per poll. A fork that starts below the
  lowest stored mismatch is rolled back from that mismatch only; ledgers between stay wrong (`dirty`).
- The hash is fetched after the events were handled, so a fork in between is recorded as seen.
- A roll-back that stops after deleting the hashes leaves its gap undetected: the cursor is the old one.
- A page that ends inside a ledger loses that ledger's other events; so does an event whose handling
  fails (`lost`).
- Status updates do not move the row's ledger, so a roll-back to a later ledger keeps the status of
  the abandoned fork (`orphaned`).

**Database escrow.** Calls that cross pay twice (`settlement_double`); a handler cut off after the
status leaves the escrow settled and unpaid (`torn`), and no retry mends it.

**Disputes.** A request whose on-chain call fails still resolves the dispute (`unreached`). One that ends
after the contract acted and before the row is written leaves the dispute open: the next may ask for
another resolution, which the contract ignores and the row takes (`torn`). Two requests at one dispute
overwrite each other's rows (`contested`). The job's audit entry refers to a user that need not exist, and
is not written then (`unlogged`). Nothing sets a deadline; neither route updates the escrow row. The job's
reason is taken to be the split it asks for.

**Card escrow.** A late or repeated event sets the status back (`strayed`), so a released escrow may read
as authorised again. A request that Stripe refused or whose answer was lost leaves a record behind, with
or without an intent, and its repetition makes another: one key may have several escrows, of which the
customer can pay one. Two overlapping requests under one key, or one after the entry expired, create two
that can both be paid (`clashed`). A refund of what was given back before is refused by Stripe, and the
record stays as it was. A give-back whose answer is lost may cross the event of the capture (`strayed`); a
refund before the payment is authorised closes the record while the customer can still pay (`early`).

**RPC pool.** A JSON-RPC error, also one that only says that the request is wrong, counts against the
endpoint and is hidden from the caller, who is told that all endpoints failed. A pool of two would hide nothing: the attempt that passes over the endpoint already tried
is its last. Two calls over three endpoints of which one answers can pass it over for ever, each
rotating the index under the other. A probe that swaps endpoints leaves the failure counts with the
positions, and a call that waited across the swap may throw although only one endpoint is down.

**Offline queue.** Two overlapping operations lose or revive an entry (`stale`), so not all "queued
mutations survive"; a requeue cut off between its two writes loses one (`cut`).

**Web socket.** What a state handler sends on a new connection overtakes the queue (`hurried`), and a
message whose sending throws goes to its end (`putBack`); one that can never be sent makes the loop that
empties the queue run for ever, which the fairness of `ComesBack` leaves out. A closure with code 1000 by
the peer, or told late of a socket that was replaced when the next is not there yet, ends reconnection
(`dismissed`). A late closure of a replaced socket takes state and timers from the one that is open
(`stranded`), after which its death is not noticed. A reconnection scheduled twice leaves a timer that
`disconnect` does not clear. The time of the last heartbeat is not reset on opening.

**Signaling.** A reconnection opens a second socket while the first still has a place, so one peer can
fill a room of two and its partner is refused; a refused client does not ask again. In a larger room a
repeated join would be counted twice (`retold`). Retries scheduled after a failure ignore the disposal.
A repeated join notifies the others twice. What is broadcast over the HTTP fallback without a recipient
is never polled.

## 7. Not modelled, and what would come next

| part | why |
| --- | --- |
| yield of the escrow contract | Records of its own, paid out of the deposits' balance; `Escrow` leaves that outflow out, so `CoveredUnlessOverpaid` is about a contract without yield. It would be the next module, `EscrowYield` over `Escrow`. |
| upgrade entry points | They replace the code that is modelled. |
| insurance and referral contracts | Pools with one record per claim or referral, sequential; the custody they share with the escrow is modelled there. |
| freelancer, identity, core and stellar_insights contracts | One writer per record; the fee arithmetic of core is the escrow's. |
| offline synchronisation routes | One comparison of times and one update; the lost update between them is listed as a hazard. |
| expiry pipeline | The indexer queues a job, the drainer runs it. Both ends are modelled, the hand-over (one `INSERT` under a fixed id) is not; a failed row blocks its id for good, listed as a hazard. |
| `sequence-manager.ts`, `transaction-queue.ts` | Superseded; nothing calls them. |
| API, auth, notification and discovery services in Rust | Handlers of one statement each. |
| collaboration relay | Forwards updates to the CRDT library it wraps. |
| web and mobile screens, components, hooks, search, rendering | The bulk of the repository's lines: user interface and queries without a protocol between actors; the protocols they use are modelled in the modules above. |
| infrastructure, tests, data | Not program logic. |

Next, in this order: `EscrowYield`; an abstract mirror that
`Indexer` implements when nothing is lost; the expiry pipeline as a composition of `Indexer` and
`Drainer`.
