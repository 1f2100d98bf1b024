------------------------------- MODULE Drainer -------------------------------
(***************************************************************************)
(* The transaction queue drainer and its pool of sequence numbers:           *)
(* lib/soroban/transaction-queue-drainer.ts and sequence-manager-v2.ts, for  *)
(* one account (rows, pool and in-flight guard are all kept per account).    *)
(*                                                                         *)
(* A worker is one invocation of drainAccount by some tick of a server       *)
(* process; it awaits the database and the network, and every await is a     *)
(* point where other workers, the background refill, the purge or a crash    *)
(* can run.  One database statement is one step: the row lock that           *)
(* FOR UPDATE SKIP LOCKED takes ends with its statement.                    *)
(***************************************************************************)
EXTENDS Integers, Sequences, FiniteSets, FiniteSetsExt, Bags

CONSTANTS
    Workers,       \* invocations of drainAccount that can be alive at once
    Servers,       \* server processes
    ServerOf,      \* the process a worker runs in
    FaultKinds,    \* statements that can fail: see Faulty
    PoolSize,      \* POOL_SIZE
    RefillAt,      \* POOL_REFILL_AT
    MaxAttempts,   \* MAX_ATTEMPTS
    MaxRetries,    \* maxRetries of acquireSequence
    MaxLimbo,      \* bound on the submissions out of sight at one time
    MaxEntries,    \* bound on the transactions enqueued
    MaxFaults      \* bound on database failures and crashes

ASSUME DrainerAssumption ==
    /\ ServerOf \in [Workers -> Servers]
    /\ FaultKinds \subseteq {"confirm", "mark", "settle", "requeue", "refill", "crash"}
    /\ PoolSize \in Nat \ {0}
    /\ RefillAt \in Nat
    /\ MaxAttempts \in Nat \ {0}
    /\ MaxRetries \in Nat \ {0}
    /\ MaxLimbo \in Nat
    /\ MaxEntries \in Nat
    /\ MaxFaults \in Nat

VARIABLES
    queue,      \* TransactionQueue rows of the account, oldest first
    pool,       \* SequencePool rows by id
    persisted,  \* sequences of the SorobanTransaction rows
    inFlight,   \* per server: the account is in its inFlight set
    refill,     \* per server: first sequence of the refill in progress, or 0
    check,      \* per server: the await its background check is at
    pc,         \* per worker: the await it is at
    job,        \* per worker: its locals
    limbo,      \* submissions sent whose outcome nobody waits for any more
    ledger,     \* history: the bag of submissions that executed
    purged,     \* history: sequences put back by the purge
    faults      \* failures so far

dbVars     == <<queue, pool, persisted>>
serverVars == <<inFlight, refill, check>>
workerVars == <<pc, job>>
netVars    == <<limbo, ledger>>
vars == <<dbVars, serverVars, workerVars, netVars, purged, faults>>

-----------------------------------------------------------------------------

Entry   == [status : {"pending", "confirmed", "failed"}, attempts : 0..MaxAttempts]
\* reserved: "no", or "fresh" until LOCK_TIMEOUT_MS have passed, then "stale"
PoolRow == [sequence : Nat, reserved : {"no", "fresh", "stale"}, used : BOOLEAN]
\* entry: the row read; attempts: its attempts when read; row, sequence: the
\* pool row selected; try: the attempt of acquireSequence; badSeq: the error
Job     == [entry : Nat, attempts : Nat, row : Nat, sequence : Nat, try : Nat,
            badSeq : BOOLEAN]
NoJob   == [entry |-> 0, attempts |-> 0, row |-> 0, sequence |-> 0, try |-> 0,
            badSeq |-> FALSE]
Submission == [entry : Nat, sequence : Nat]

Places == {"idle", "claim", "reserve", "fetch", "refilling", "reclaim",
           "submit", "confirm", "mark", "settle", "requeue"}

Pending   == {e \in DOMAIN queue : queue[e].status = "pending"}
Available == {r \in DOMAIN pool : pool[r].reserved = "no"}
Sequences == {pool[r].sequence : r \in DOMAIN pool}

\* findFirst ordered by createdAt; the mutation orders it the other way.
NewestPending == Max(Pending)
OldestPending == Min(Pending)

\* The rows a claim can select: the available ones with the lowest sequence.
Claimable == {r \in Available :
                 \A q \in Available : pool[r].sequence <= pool[q].sequence}

Faulty(kind) ==
    /\ kind \in FaultKinds
    /\ faults < MaxFaults
    /\ faults' = faults + 1

Goto(w, place) == pc' = [pc EXCEPT ![w] = place]

\* The finally block: the invocation ends and the account is free again; the
\* mutation forgets the account.
KeepsAccount(w) == inFlight
FreesAccount(w) == [inFlight EXCEPT ![ServerOf[w]] = FALSE]

Finish(w) ==
    /\ Goto(w, "idle")
    /\ job' = [job EXCEPT ![w] = NoJob]
    /\ inFlight' = FreesAccount(w)
    /\ UNCHANGED <<refill, check>>

\* Where a rejected submission goes on; the mutation takes it for a success.
Swallowed == "confirm"
Thrown    == "settle"

Fail(w, badSeq) ==
    /\ Goto(w, Thrown)
    /\ job' = [job EXCEPT ![w].badSeq = badSeq]

-----------------------------------------------------------------------------

Init ==
    /\ queue = <<>> /\ pool = <<>> /\ persisted = {}
    /\ inFlight = [s \in Servers |-> FALSE]
    /\ refill = [s \in Servers |-> 0]
    /\ check = [s \in Servers |-> "none"]
    /\ pc = [w \in Workers |-> "idle"]
    /\ job = [w \in Workers |-> NoJob]
    /\ limbo = {} /\ ledger = EmptyBag
    /\ purged = {} /\ faults = 0

EnqueueTransaction ==
    /\ Len(queue) < MaxEntries
    /\ queue' = Append(queue, [status |-> "pending", attempts |-> 0])
    /\ UNCHANGED <<pool, persisted, serverVars, workerVars, netVars, purged, faults>>

\* Whether a tick may drain the account; the mutation drops the guard.
AlwaysDrains(s) == TRUE
MayDrain(s) == ~inFlight[s]

\* drainAccount up to the row it reads.
DrainAccount(w) ==
    /\ pc[w] = "idle"
    /\ Pending # {}
    /\ MayDrain(ServerOf[w])
    /\ inFlight' = [inFlight EXCEPT ![ServerOf[w]] = TRUE]
    /\ job' = [job EXCEPT ![w] = [NoJob EXCEPT
                  !.entry = OldestPending,
                  !.attempts = queue[OldestPending].attempts, !.try = 1]]
    /\ Goto(w, "claim")
    /\ UNCHANGED <<dbVars, refill, check, netVars, purged, faults>>

-----------------------------------------------------------------------------
(* acquireSequence and the pool *)

\* The SELECT of claimPooledSequence.
ClaimSelect(w) ==
    /\ pc[w] \in {"claim", "reclaim"}
    /\ \E r \in Claimable :
          job' = [job EXCEPT ![w].row = r, ![w].sequence = pool[r].sequence]
    /\ Goto(w, "reserve")
    /\ UNCHANGED <<dbVars, serverVars, netVars, purged, faults>>

\* The SELECT finds nothing: refill and try once more; then sleep and start
\* over, or give up.
ClaimNothing(w) ==
    /\ Available = {}
    /\ \/ pc[w] = "claim" /\ Goto(w, "fetch") /\ UNCHANGED job
       \/ /\ pc[w] = "reclaim"
          /\ job[w].try < MaxRetries
          /\ Goto(w, "claim")
          /\ job' = [job EXCEPT ![w].try = @ + 1]
       \/ /\ pc[w] = "reclaim"
          /\ job[w].try >= MaxRetries
          /\ Fail(w, FALSE)
    /\ UNCHANGED <<dbVars, serverVars, netVars, purged, faults>>

\* The UPDATE of claimPooledSequence, and the background check it leads to.  A
\* check can fail unnoticed: one per process is followed at a time, and a second
\* one begun while it waits is taken to fail.
ClaimReserve(w) ==
    /\ pc[w] = "reserve"
    /\ pool' = [pool EXCEPT ![job[w].row].reserved = "fresh"]
    /\ check' = [check EXCEPT ![ServerOf[w]] = IF @ = "none" THEN "count" ELSE @]
    /\ Goto(w, "submit")
    /\ UNCHANGED <<queue, persisted, inFlight, refill, job, netVars, purged, faults>>

\* The first sequence of a refill: after the highest of the pool, whose rows are
\* never deleted; the network is asked only for an account without rows.
StartOfRefill == IF pool = <<>> THEN 1 ELSE Max(Sequences) + 1

\* refillSequencePool joins the refill of this process if there is one.
JoinRefill(s) ==
    refill' = [refill EXCEPT ![s] = IF @ = 0 THEN StartOfRefill ELSE @]

\* The fallback of acquireSequence: the network answers, the refill starts.
AwaitRefill(w) ==
    /\ pc[w] = "fetch"
    /\ JoinRefill(ServerOf[w])
    /\ Goto(w, "refilling")
    /\ UNCHANGED <<dbVars, inFlight, check, job, netVars, purged, faults>>

FetchFails(w) ==
    /\ pc[w] = "fetch"
    /\ Fail(w, FALSE)
    /\ UNCHANGED <<dbVars, serverVars, netVars, purged, faults>>

\* checkAndRefillPool: the count, and then the refill when it was low.
CountPool(s) ==
    /\ check[s] = "count"
    /\ check' = [check EXCEPT ![s] =
                    IF Cardinality(Available) < RefillAt THEN "fetch" ELSE "none"]
    /\ UNCHANGED <<dbVars, inFlight, refill, workerVars, netVars, purged, faults>>

BackgroundRefill(s) ==
    /\ check[s] = "fetch"
    /\ check' = [check EXCEPT ![s] = "none"]
    /\ JoinRefill(s) \/ UNCHANGED refill   \* the network may not answer
    /\ UNCHANGED <<dbVars, inFlight, workerVars, netVars, purged, faults>>

WaitingFor(s) == {w \in Workers : ServerOf[w] = s /\ pc[w] = "refilling"}

\* createMany: no unique index backs skipDuplicates, so every row is inserted.
CompleteRefill(s) ==
    /\ refill[s] > 0
    /\ pool' = pool \o [i \in 1..PoolSize |->
                  [sequence |-> refill[s] + i - 1, reserved |-> "no", used |-> FALSE]]
    /\ refill' = [refill EXCEPT ![s] = 0]
    /\ pc' = [w \in Workers |-> IF w \in WaitingFor(s) THEN "reclaim" ELSE pc[w]]
    /\ UNCHANGED <<queue, persisted, inFlight, check, job, netVars,
                   purged, faults>>

RefillFails(s) ==
    /\ refill[s] > 0
    /\ Faulty("refill")
    /\ refill' = [refill EXCEPT ![s] = 0]
    /\ pc' = [w \in Workers |-> IF w \in WaitingFor(s) THEN "settle" ELSE pc[w]]
    /\ UNCHANGED <<dbVars, inFlight, check, job, netVars, purged>>

-----------------------------------------------------------------------------
(* Submission; the network is external *)

SubmissionOf(w) == [entry |-> job[w].entry, sequence |-> job[w].sequence]

\* The transaction executes; its hash is returned, or the poll for it throws.
Land(w) ==
    /\ pc[w] = "submit"
    /\ ledger' = ledger (+) SetToBag({SubmissionOf(w)})
    /\ (Goto(w, "confirm") /\ UNCHANGED job) \/ Fail(w, FALSE)
    /\ UNCHANGED <<dbVars, serverVars, limbo, purged, faults>>

\* The network refuses the transaction, for its sequence or another reason.
Reject(w) ==
    /\ pc[w] = "submit"
    /\ \E badSeq \in BOOLEAN : Fail(w, badSeq)
    /\ UNCHANGED <<dbVars, serverVars, netVars, purged, faults>>

\* The call throws before the outcome is known; the transaction may still land.
LoseTrack(w) ==
    /\ pc[w] = "submit"
    /\ limbo' = limbo \cup {SubmissionOf(w)}
    /\ Cardinality(limbo') <= MaxLimbo
    /\ Fail(w, FALSE)
    /\ UNCHANGED <<dbVars, serverVars, ledger, purged, faults>>

LandLate ==
    /\ \E sub \in limbo : limbo' = limbo \ {sub} /\ ledger' = ledger (+) SetToBag({sub})
    /\ UNCHANGED <<dbVars, serverVars, workerVars, purged, faults>>

-----------------------------------------------------------------------------
(* The end of drainAccount *)

\* The two rows are written together or not at all: a sequence that already has
\* a SorobanTransaction row violates the unique index and throws.
Confirm(w) ==
    /\ pc[w] = "confirm"
    /\ IF job[w].sequence \notin persisted
       THEN /\ queue' = [queue EXCEPT ![job[w].entry] =
                  [status |-> "confirmed", attempts |-> job[w].attempts + 1]]
            /\ persisted' = persisted \cup {job[w].sequence}
            /\ Goto(w, "mark")
            /\ UNCHANGED job
       ELSE Fail(w, FALSE) /\ UNCHANGED <<queue, persisted>>
    /\ UNCHANGED <<pool, serverVars, netVars, purged, faults>>

ConfirmFails(w) ==
    /\ pc[w] = "confirm"
    /\ Faulty("confirm")
    /\ Fail(w, FALSE)
    /\ UNCHANGED <<dbVars, serverVars, netVars, purged>>

MarkUsed(seq) ==
    [r \in DOMAIN pool |->
        IF pool[r].sequence = seq /\ pool[r].reserved # "no"
        THEN [pool[r] EXCEPT !.used = TRUE] ELSE pool[r]]

ReleaseBack(seq) ==
    [r \in DOMAIN pool |->
        IF pool[r].sequence = seq /\ pool[r].reserved # "no" /\ ~pool[r].used
        THEN [pool[r] EXCEPT !.reserved = "no"] ELSE pool[r]]

MarkSequenceUsed(w) ==
    /\ pc[w] = "mark"
    /\ pool' = MarkUsed(job[w].sequence)
    /\ Finish(w)
    /\ UNCHANGED <<queue, persisted, netVars, purged, faults>>

\* markSequenceUsed is still inside the try: its failure is handled as if the
\* submission had failed.
MarkFails(w) ==
    /\ pc[w] = "mark"
    /\ Faulty("mark")
    /\ Fail(w, FALSE)
    /\ UNCHANGED <<dbVars, serverVars, netVars, purged>>

\* What the catch block does with the sequence; the mutation always puts it back.
AlwaysBack(seq, badSeq) == ReleaseBack(seq)
SettleSequence(seq, badSeq) == IF badSeq THEN ReleaseBack(seq) ELSE MarkUsed(seq)

Settle(w) ==
    /\ pc[w] = "settle"
    /\ pool' = IF job[w].sequence = 0 THEN pool
               ELSE SettleSequence(job[w].sequence, job[w].badSeq)
    /\ Goto(w, "requeue")
    /\ UNCHANGED <<queue, persisted, serverVars, job, netVars, purged, faults>>

SettleFails(w) ==
    /\ pc[w] = "settle"
    /\ job[w].sequence # 0
    /\ Faulty("settle")
    /\ Finish(w)
    /\ UNCHANGED <<dbVars, netVars, purged>>

\* The mutation allows one attempt more.
ExhaustedLate(attempts) == attempts > MaxAttempts
Exhausted(attempts)     == attempts >= MaxAttempts

\* The row goes back to pending, or to failed when its attempts are exhausted.
Requeue(w) ==
    /\ pc[w] = "requeue"
    /\ queue' = [queue EXCEPT ![job[w].entry] =
          [attempts |-> job[w].attempts + 1,
           status   |-> IF Exhausted(job[w].attempts + 1) THEN "failed" ELSE "pending"]]
    /\ Finish(w)
    /\ UNCHANGED <<pool, persisted, netVars, purged, faults>>

RequeueFails(w) ==
    /\ pc[w] = "requeue"
    /\ Faulty("requeue")
    /\ Finish(w)
    /\ UNCHANGED <<dbVars, netVars, purged>>

-----------------------------------------------------------------------------
(* Time, purge and crashes *)

\* LOCK_TIMEOUT_MS pass for the reservations made so far.
ReservationsAge ==
    /\ \E r \in DOMAIN pool : pool[r].reserved = "fresh" /\ ~pool[r].used
    /\ pool' = [r \in DOMAIN pool |->
                   IF pool[r].reserved = "fresh"
                   THEN [pool[r] EXCEPT !.reserved = "stale"] ELSE pool[r]]
    /\ UNCHANGED <<queue, persisted, serverVars, workerVars, netVars, purged, faults>>

StaleRows == {r \in DOMAIN pool : pool[r].reserved = "stale" /\ ~pool[r].used}

PurgeStaleReservations ==
    /\ StaleRows # {}
    /\ pool' = [r \in DOMAIN pool |->
                   IF r \in StaleRows THEN [pool[r] EXCEPT !.reserved = "no"]
                                      ELSE pool[r]]
    /\ purged' = purged \cup {pool[r].sequence : r \in StaleRows}
    /\ UNCHANGED <<queue, persisted, serverVars, workerVars, netVars, faults>>

\* A process dies with everything in its memory and starts again; what it had
\* sent may still land.
Crash(s) ==
    /\ Faulty("crash")
    /\ LET dead == {w \in Workers : ServerOf[w] = s}
           sent == {SubmissionOf(w) : w \in {v \in dead : pc[v] = "submit"}}
       IN  /\ pc' = [w \in Workers |-> IF w \in dead THEN "idle" ELSE pc[w]]
           /\ job' = [w \in Workers |-> IF w \in dead THEN NoJob ELSE job[w]]
           /\ \E some \in SUBSET sent : limbo' = limbo \cup some
           /\ Cardinality(limbo') <= MaxLimbo
    /\ inFlight' = [inFlight EXCEPT ![s] = FALSE]
    /\ refill' = [refill EXCEPT ![s] = 0]
    /\ check' = [check EXCEPT ![s] = "none"]
    /\ UNCHANGED <<dbVars, ledger, purged>>

-----------------------------------------------------------------------------

\* The steps of an invocation that do not wait for the network.
Advance(w) ==
    \/ ClaimSelect(w) \/ ClaimNothing(w) \/ ClaimReserve(w)
    \/ Confirm(w) \/ MarkSequenceUsed(w) \/ Settle(w) \/ Requeue(w)

\* The network answers a worker, one way or another.
Answer(w) ==
    \/ AwaitRefill(w) \/ FetchFails(w)
    \/ Land(w) \/ Reject(w) \/ LoseTrack(w)

WorkerFault(w) ==
    ConfirmFails(w) \/ MarkFails(w) \/ SettleFails(w) \/ RequeueFails(w)

Next ==
    \/ EnqueueTransaction
    \/ \E w \in Workers : DrainAccount(w) \/ Advance(w) \/ Answer(w) \/ WorkerFault(w)
    \/ \E s \in Servers : \/ CountPool(s) \/ BackgroundRefill(s)
                          \/ CompleteRefill(s) \/ RefillFails(s) \/ Crash(s)
    \/ LandLate
    \/ ReservationsAge
    \/ PurgeStaleReservations

Spec == Init /\ [][Next]_vars

\* Ticks recur, started statements end, and the network answers every call: the
\* poll for a transaction that the network drops would otherwise never end.
FairSpec ==
    /\ Spec
    /\ \A w \in Workers : /\ WF_vars(DrainAccount(w))
                          /\ WF_vars(Advance(w))
                          /\ WF_vars(Answer(w))
    /\ \A s \in Servers : WF_vars(CompleteRefill(s))

-----------------------------------------------------------------------------
(* Properties *)

\* Among the types: no entry is ever attempted more than MaxAttempts times.
TypeOK ==
    /\ queue \in Seq(Entry) /\ pool \in Seq(PoolRow) /\ persisted \subseteq Nat
    /\ inFlight \in [Servers -> BOOLEAN]
    /\ refill \in [Servers -> Nat]
    /\ check \in [Servers -> {"none", "count", "fetch"}]
    /\ pc \in [Workers -> Places] /\ job \in [Workers -> Job]
    /\ limbo \subseteq Submission /\ IsABag(ledger) /\ BagToSet(ledger) \subseteq Submission
    /\ purged \subseteq Nat /\ faults \in 0..MaxFaults

Active(s) == {w \in Workers : ServerOf[w] = s /\ pc[w] # "idle"}

\* A process has the account in flight exactly while one of its invocations is
\* at work: two never drain it together, and no path out forgets to free it.
OneWorkerPerServer ==
    \A s \in Servers : /\ Cardinality(Active(s)) <= 1
                       /\ inFlight[s] <=> Active(s) # {}

\* Submission is ordered: while an invocation works on an entry, every entry
\* enqueued before it is confirmed or failed.
OrderedSubmission ==
    \A w \in Workers : \A e \in 1..(job[w].entry - 1) : queue[e].status # "pending"

\* A confirmed entry was executed, and a failed one used up its attempts.
ConfirmedLanded ==
    \A e \in DOMAIN queue :
        /\ queue[e].status = "confirmed" =>
              \E sub \in BagToSet(ledger) : sub.entry = e
        /\ queue[e].status = "failed" => queue[e].attempts >= MaxAttempts

\* Two executed submissions carry this sequence.
Collided(seq) ==
    LET carriers == {sub \in BagToSet(ledger) : sub.sequence = seq}
    IN  Cardinality(carriers) > 1 \/ \E sub \in carriers : ledger[sub] > 1

\* The sequence pool eliminates collisions: no two executed submissions carry
\* the same sequence.
NoCollision == \A sub \in BagToSet(ledger) : ~Collided(sub.sequence)

\* Only the purge causes collisions: submissions that share a sequence share one
\* that the purge had put back.
CollisionNeedsPurge ==
    \A sub \in BagToSet(ledger) : Collided(sub.sequence) => sub.sequence \in purged

\* Every transaction enqueued is eventually confirmed or failed for good.
EntriesResolve ==
    \A e \in 1..MaxEntries :
        (e \in DOMAIN queue) ~> [](e \in DOMAIN queue /\ queue[e].status # "pending")
=============================================================================
