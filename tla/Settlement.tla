------------------------------ MODULE Settlement ------------------------------
(***************************************************************************)
(* Escrows of the database: release, refund and dispute                      *)
(* (lib/escrow/escrow-transaction-handler.ts), run by executeTransaction       *)
(* (lib/db/transaction-manager.ts) on the connection pool of the Prisma        *)
(* client.                                                                  *)
(*                                                                         *)
(* executeTransaction opens a transaction and does not hand it to the         *)
(* handler: every statement of a handler, the row locks included, commits by   *)
(* itself on another connection of the pool, while the empty transaction       *)
(* keeps one.  So a step is one statement, and no lock is held between two.    *)
(*                                                                         *)
(* Names are distinct from those of CircuitBreaker and Socket, which one        *)
(* instance (MCProgress) checks together with it.                            *)
(***************************************************************************)
EXTENDS Integers, Sequences, FiniteSets

CONSTANTS
    Escrows,      \* escrow rows
    Calls,        \* calls of the handler
    Pool,         \* connections of the Prisma client
    Attempts,     \* maxRetries
    MaxErrors     \* bound on statements that fail

ASSUME SettlementAssumption ==
    /\ "none" \notin Escrows
    /\ IsFiniteSet(Calls)
    /\ {Pool, Attempts, MaxErrors} \subseteq Nat

VARIABLES
    status,     \* Escrow.status
    credits,    \* payouts to Balance.available, by escrow and party
    recorded,   \* Transaction rows, by escrow and party
    call,       \* a call of the handler
    crossed,    \* history: escrows whose status changed under a call that had read it
    torn,       \* history: escrows on which a call failed after it had set the status
    errors

rows == <<status, credits, recorded>>
settlementVars == <<rows, call, crossed, torn, errors>>

-----------------------------------------------------------------------------
Functions == {"release", "refund", "dispute"}
SetTo == [release |-> "released", refund |-> "refunded", dispute |-> "disputed"]
Statuses == {"active", "released", "refunded", "disputed"}

\* Whom balance.upsert credits.
Parties == {"creator", "client"}
Payee == [release |-> "creator", refund |-> "client"]
Nobody == [p \in Parties |-> 0]

\* The statements of a call once its transaction began; lock stands for the
\* SELECT ... FOR UPDATE statements, which hold nothing once they returned.
StepsOf(fn) == IF fn = "dispute" THEN <<"lock", "read", "set", "open">>
               ELSE <<"lock", "read", "set", "credit", "record">>

\* at is the statement that comes next, 0 before the call and after it; a call
\* that waits has no transaction yet.
CallState == [fn : Functions \cup {"none"}, escrow : Escrows \cup {"none"},
              at : 0 .. 5, attempt : Nat, waits : BOOLEAN]
Unused == [fn |-> "none", escrow |-> "none", at |-> 0, attempt |-> 0, waits |-> FALSE]
Over(c) == [call[c] EXCEPT !.at = 0, !.waits = FALSE]
Running(c) == call[c].at > 0
Working(c) == Running(c) /\ ~call[c].waits
AtStep(c, step) == Working(c) /\ StepsOf(call[c].fn)[call[c].at] = step
HasSet(c) == Running(c) /\ call[c].at > 3

\* The transaction of a working call holds a connection, and each of its
\* statements needs one more.
FreeConnection == Cardinality({c \in Calls : Working(c)}) < Pool

SettlementInit ==
    /\ status = [e \in Escrows |-> "active"]
    /\ credits = [e \in Escrows |-> Nobody]
    /\ recorded = [e \in Escrows |-> Nobody]
    /\ call = [c \in Calls |-> Unused]
    /\ crossed = {} /\ torn = {}
    /\ errors = 0

-----------------------------------------------------------------------------
\* releaseEscrowFunds, refundEscrow and disputeEscrow wait for a connection.
StartCall(c, fn, e) ==
    /\ call[c] = Unused
    /\ call' = [call EXCEPT ![c] = [fn |-> fn, escrow |-> e, at |-> 1,
                                    attempt |-> 1, waits |-> TRUE]]
    /\ UNCHANGED <<rows, crossed, torn, errors>>

BeginTransaction(c) ==
    /\ call[c].waits /\ FreeConnection
    /\ call' = [call EXCEPT ![c].waits = FALSE]
    /\ UNCHANGED <<rows, crossed, torn, errors>>

\* A statement that returned; after the last one the transaction commits.
Statement(c, step) == AtStep(c, step) /\ FreeConnection
NextStep(c) == IF call[c].at = Len(StepsOf(call[c].fn)) THEN Over(c)
               ELSE [call[c] EXCEPT !.at = @ + 1]

Lock(c) ==
    /\ Statement(c, "lock")
    /\ call' = [call EXCEPT ![c] = NextStep(c)]
    /\ UNCHANGED <<rows, crossed, torn, errors>>

\* Release and refund need an active escrow, a dispute any.  The mutation only
\* refuses what was disputed.
UnlessDisputed(fn, s) == fn = "dispute" \/ s # "disputed"
MayProceed(fn, s) == fn = "dispute" \/ s = "active"

ReadEscrow(c) ==
    /\ Statement(c, "read")
    /\ call' = [call EXCEPT ![c] = IF MayProceed(call[c].fn, status[call[c].escrow])
                                   THEN NextStep(c) ELSE Over(c)]
    /\ UNCHANGED <<rows, crossed, torn, errors>>

\* escrow.update writes the status whatever it has become.
SetStatus(c) ==
    LET e == call[c].escrow
        outdated == ~MayProceed(call[c].fn, status[e])
        under == \E d \in Calls \ {c} : HasSet(d) /\ call[d].escrow = e
    IN  /\ Statement(c, "set")
        /\ status' = [status EXCEPT ![e] = SetTo[call[c].fn]]
        /\ crossed' = IF outdated \/ under THEN crossed \cup {e} ELSE crossed
        /\ call' = [call EXCEPT ![c] = NextStep(c)]
        /\ UNCHANGED <<credits, recorded, torn, errors>>

\* balance.upsert with an increment, which the database does at one go.
Credit(c) ==
    /\ Statement(c, "credit")
    /\ credits' = [credits EXCEPT ![call[c].escrow][Payee[call[c].fn]] = @ + 1]
    /\ call' = [call EXCEPT ![c] = NextStep(c)]
    /\ UNCHANGED <<status, recorded, crossed, torn, errors>>

\* transaction.create
Record(c) ==
    /\ Statement(c, "record")
    /\ recorded' = [recorded EXCEPT ![call[c].escrow][Payee[call[c].fn]] = @ + 1]
    /\ call' = [call EXCEPT ![c] = NextStep(c)]
    /\ UNCHANGED <<status, credits, crossed, torn, errors>>

\* dispute.create; what becomes of the row is in Disputes.
OpenRow(c) ==
    /\ Statement(c, "open")
    /\ call' = [call EXCEPT ![c] = NextStep(c)]
    /\ UNCHANGED <<rows, crossed, torn, errors>>

\* A statement fails: what earlier ones did stays.  After a deadlock the handler
\* starts again, up to maxRetries times; any other error ends the call.  The
\* mutation retries anything, and without end.
RetryForever(c, deadlock) == TRUE
MayRetry(c, deadlock) == deadlock /\ call[c].attempt < Attempts

\* attempt grows only while it is below Attempts.
NextAttempt(c) == IF call[c].attempt < Attempts THEN call[c].attempt + 1
                  ELSE call[c].attempt
Again(c) == [call[c] EXCEPT !.at = 1, !.waits = TRUE, !.attempt = NextAttempt(c)]

Failed(c, deadlock) ==
    /\ call' = [call EXCEPT ![c] = IF MayRetry(c, deadlock) THEN Again(c) ELSE Over(c)]
    /\ torn' = IF HasSet(c) THEN torn \cup {call[c].escrow} ELSE torn
    /\ UNCHANGED <<rows, crossed>>

StatementFails(c, deadlock) ==
    /\ Working(c)
    /\ errors < MaxErrors
    /\ errors' = errors + 1
    /\ Failed(c, deadlock)

\* There is no connection to be had: the pool's time-out ends the wait.
PoolTimeout(c) ==
    /\ Running(c) /\ ~FreeConnection
    /\ Failed(c, FALSE)
    /\ UNCHANGED errors

-----------------------------------------------------------------------------
CallStep(c) ==
    \/ BeginTransaction(c) \/ Lock(c) \/ ReadEscrow(c) \/ SetStatus(c)
    \/ Credit(c) \/ Record(c) \/ OpenRow(c) \/ PoolTimeout(c)

SettlementNext ==
    \E c \in Calls :
       \/ CallStep(c)
       \/ \E fn \in Functions, e \in Escrows : StartCall(c, fn, e)
       \/ \E deadlock \in BOOLEAN : StatementFails(c, deadlock)

SettlementSpec == SettlementInit /\ [][SettlementNext]_settlementVars

-----------------------------------------------------------------------------
(* Properties.                                                                *)

SettlementTypeOK ==
    /\ status \in [Escrows -> Statuses]
    /\ credits \in [Escrows -> [Parties -> Nat]]
    /\ recorded \in [Escrows -> [Parties -> Nat]]
    /\ call \in [Calls -> CallState]
    /\ crossed \subseteq Escrows /\ torn \subseteq Escrows
    /\ errors \in 0 .. MaxErrors

Payouts(e) == credits[e]["creator"] + credits[e]["client"]
AtRest(e) == \A c \in Calls : call[c].escrow = e => ~Running(c)

\* What an escrow at rest has paid went to the party its status names, and the
\* Transaction rows say so; a disputed one may have been paid before.
PaidAsSettled(e) ==
    /\ recorded[e] = credits[e]
    /\ status[e] = "released" => credits[e] = [Nobody EXCEPT !["creator"] = 1]
    /\ status[e] = "refunded" => credits[e] = [Nobody EXCEPT !["client"] = 1]
    /\ status[e] = "active" => credits[e] = Nobody

\* Calls that do not cross pay an escrow at most once, also when one fails
\* half-way and is retried: the retry finds the status the first attempt set.
\* If none failed half-way, the payment is what the status says.
PaidOnce ==
    \A e \in Escrows \ crossed :
        /\ Payouts(e) <= 1
        /\ e \notin torn /\ AtRest(e) => PaidAsSettled(e)

\* Every call ends, also when the open transactions hold all the connections
\* and every one of them waits for one more.
CallsEnd == \A c \in Calls : Running(c) ~> ~Running(c)

\* "Handles concurrent escrow mutations with pessimistic locking": an escrow is
\* paid once, whoever else is at it.
NoDoublePayout == \A e \in Escrows : Payouts(e) <= 1
=============================================================================
