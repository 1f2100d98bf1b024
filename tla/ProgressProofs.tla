---------------------------- MODULE ProgressProofs ----------------------------
(***************************************************************************)
(* The database escrows, the circuit breaker and the web socket service,      *)
(* proved for any number of calls, retries, failures, callers, sockets and     *)
(* messages.  They share no state, so each is proved on its own, and what the   *)
(* runs check of the three together follows at the end.                       *)
(***************************************************************************)
EXTENDS MCProgress, SequenceTheorems, TLAPS

-----------------------------------------------------------------------------
(* THE DATABASE ESCROWS: calls that do not cross pay an escrow once.           *)
(* Each step is first brought to one of a few shapes (Moves), and the ledger   *)
(* of an escrow is then shown to survive each shape.                          *)

-----------------------------------------------------------------------------
(* The invariant *)

\* A call that runs has a function, an escrow, and a statement of its own list.
CallOK(c) ==
    /\ call[c] \in CallState
    /\ Running(c) => /\ call[c].fn \in Functions /\ call[c].escrow \in Escrows
                     /\ call[c].fn = "dispute" => call[c].at <= 4

Types ==
    /\ status \in [Escrows -> Statuses]
    /\ credits \in [Escrows -> [Parties -> Nat]]
    /\ recorded \in [Escrows -> [Parties -> Nat]]
    /\ call \in [Calls -> CallState]
    /\ crossed \subseteq Escrows /\ torn \subseteq Escrows
    /\ errors \in 0 .. MaxErrors
    /\ \A c \in Calls : CallOK(c)

\* Calls that have set the status of e and not ended.
Setter(c, e) == HasSet(c) /\ call[c].escrow = e

\* How far the one call that has set the status has come.
Underway(c, e) ==
    /\ status[e] = SetTo[call[c].fn]
    /\ call[c].fn # "dispute" /\ call[c].at = 4 =>
           credits[e] = Nobody /\ recorded[e] = Nobody
    /\ call[c].fn # "dispute" /\ call[c].at = 5 =>
           credits[e] = [Nobody EXCEPT ![Payee[call[c].fn]] = 1] /\ recorded[e] = Nobody
    /\ call[c].fn = "dispute" => e \in torn \/ recorded[e] = credits[e]

Ledger(e) ==
    /\ Payouts(e) <= 1
    /\ status[e] = "active" => credits[e] = Nobody /\ recorded[e] = Nobody
    /\ \A c, d \in Calls : Setter(c, e) /\ Setter(d, e) => c = d
    /\ \A c \in Calls : Setter(c, e) => Underway(c, e)
    /\ (\A c \in Calls : ~Setter(c, e)) /\ e \notin torn => PaidAsSettled(e)

SettlementInv == Types /\ \A e \in Escrows \ crossed : Ledger(e)

LEMMA SettlementInitInv == SettlementInit => SettlementInv
<1> SUFFICES ASSUME SettlementInit PROVE SettlementInv
  OBVIOUS
<1>1. \A c \in Calls : CallOK(c) /\ ~HasSet(c)
  BY SettlementAssumption
     DEF SettlementInit, CallOK, HasSet, Running, CallState, Unused, Functions
<1>2. Types
  BY <1>1, SettlementAssumption
     DEF SettlementInit, Types, CallState, Unused, Statuses, Nobody, CallOK
<1>3. \A e \in Escrows : Ledger(e)
  BY <1>1 DEF SettlementInit, Ledger, Payouts, Parties, Nobody, Setter, PaidAsSettled
<1>4. QED
  BY <1>2, <1>3 DEF SettlementInv

-----------------------------------------------------------------------------
(* The shapes of a step *)

\* Call c goes to statement n of its list, and nothing else happens to calls.
Moves(c, n) ==
    /\ call' \in [Calls -> CallState]
    /\ \A d \in Calls \ {c} : call'[d] = call[d]
    /\ call'[c].at = n
    /\ call'[c].fn = call[c].fn /\ call'[c].escrow = call[c].escrow

\* Which statement of a call comes where.
LEMMA StatementPlaces ==
    ASSUME Types, NEW c \in Calls
    PROVE  /\ AtStep(c, "lock") => call[c].at = 1
           /\ AtStep(c, "read") => call[c].at = 2
           /\ AtStep(c, "set") => call[c].at = 3
           /\ AtStep(c, "credit") => call[c].at = 4 /\ call[c].fn # "dispute"
           /\ AtStep(c, "record") => call[c].at = 5 /\ call[c].fn # "dispute"
           /\ AtStep(c, "open") => call[c].at = 4 /\ call[c].fn = "dispute"
<1>1. /\ call[c] \in CallState
      /\ Running(c) => call[c].at \in 1 .. 5
      /\ Running(c) /\ call[c].fn = "dispute" => call[c].at \in 1 .. 4
  BY DEF Types, CallOK, CallState, Running
<1>2. CASE call[c].fn = "dispute"
  BY <1>1, <1>2 DEF AtStep, Working, StepsOf
<1>3. CASE call[c].fn # "dispute"
  <2>1. StepsOf(call[c].fn) = <<"lock", "read", "set", "credit", "record">>
    BY <1>3 DEF StepsOf
  <2>2. /\ StepsOf(call[c].fn)[1] = "lock" /\ StepsOf(call[c].fn)[2] = "read"
        /\ StepsOf(call[c].fn)[3] = "set" /\ StepsOf(call[c].fn)[4] = "credit"
        /\ StepsOf(call[c].fn)[5] = "record"
    BY <2>1
  <2>3. Running(c) => call[c].at \in {1, 2, 3, 4, 5}
    BY <1>1
  <2> HIDE <2>1
  <2>4. QED
    BY <1>3, <2>2, <2>3, Zenon DEF AtStep, Working
<1>4. QED
  BY <1>2, <1>3

\* A call whose statement, attempt and waiting change is still one.
LEMMA CallChanges ==
    ASSUME NEW r \in CallState, NEW n \in 0 .. 5, NEW k \in Nat, NEW w \in BOOLEAN
    PROVE  /\ [r EXCEPT !.at = n, !.waits = w] \in CallState
           /\ [r EXCEPT !.at = n] \in CallState
           /\ [r EXCEPT !.at = n, !.waits = w, !.attempt = k] \in CallState
           /\ [r EXCEPT !.waits = w] \in CallState
BY DEF CallState

\* The next statement of a call.
LEMMA NextPlace ==
    ASSUME Types, NEW c \in Calls, Running(c),
           call' = [call EXCEPT ![c] = NextStep(c)]
    PROVE  /\ call[c].at = 1 => Moves(c, 2)
           /\ call[c].at = 2 => Moves(c, 3)
           /\ call[c].at = 3 => Moves(c, 4)
           /\ call[c].at = 4 /\ call[c].fn # "dispute" => Moves(c, 5)
           /\ call[c].at = 4 /\ call[c].fn = "dispute" => Moves(c, 0)
           /\ call[c].at = 5 => Moves(c, 0)
<1>1. /\ call[c] \in CallState /\ call[c].at \in 1 .. 5
      /\ call[c].fn = "dispute" => call[c].at \in 1 .. 4
  BY DEF Types, CallOK, CallState, Running
<1>2. Len(StepsOf(call[c].fn)) = IF call[c].fn = "dispute" THEN 4 ELSE 5
  BY DEF StepsOf
<1>3. NextStep(c) \in CallState
  <2>1. Over(c) \in CallState
    BY <1>1, 0 \in 0 .. 5, CallChanges, Zenon DEF Over
  <2>2. CASE call[c].at = Len(StepsOf(call[c].fn))
    BY <2>1, <2>2 DEF NextStep
  <2>3. CASE call[c].at # Len(StepsOf(call[c].fn))
    <3>1. call[c].at + 1 \in 0 .. 5
      BY <1>1, <1>2, <2>3
    <3>2. [call[c] EXCEPT !.at = call[c].at + 1] \in CallState
      BY <1>1, <3>1, CallChanges, Zenon
    <3>3. QED
      BY <2>3, <3>2 DEF NextStep
  <2>4. QED
    BY <2>2, <2>3
<1>4. QED
  BY <1>1, <1>2, <1>3 DEF Moves, NextStep, Over, Types, CallState

\* What the tables say of the two functions that pay.
LEMMA Tables ==
    /\ SetTo["release"] = "released" /\ SetTo["refund"] = "refunded"
    /\ SetTo["dispute"] = "disputed"
    /\ Payee["release"] = "creator" /\ Payee["refund"] = "client"
    /\ \A p \in Parties : [Nobody EXCEPT ![p] = Nobody[p] + 1] = [Nobody EXCEPT ![p] = 1]
BY DEF SetTo, Payee, Parties, Nobody

\* What a call becomes when it is over, and when it starts again.
LEMMA NewCalls ==
    ASSUME Types, NEW c \in Calls
    PROVE  /\ Over(c) \in CallState /\ Over(c).at = 0
           /\ Over(c).fn = call[c].fn /\ Over(c).escrow = call[c].escrow
           /\ Again(c) \in CallState /\ Again(c).at = 1
           /\ Again(c).fn = call[c].fn /\ Again(c).escrow = call[c].escrow
<1>1. call[c] \in CallState
  BY DEF Types
<1>2. NextAttempt(c) \in Nat
  BY <1>1, SettlementAssumption DEF NextAttempt, CallState
<1>3. Over(c) \in CallState
  <2>1. 0 \in 0 .. 5
    OBVIOUS
  <2>2. QED
    BY <1>1, <2>1, CallChanges, Zenon DEF Over
<1>4. Again(c) \in CallState
  <2>1. 1 \in 0 .. 5
    OBVIOUS
  <2>2. QED
    BY <1>1, <1>2, <2>1, CallChanges, Zenon DEF Again
<1>5. QED
  BY <1>1, <1>3, <1>4 DEF Over, Again, CallState

\* A call that fails has ended or starts again.
LEMMA FailedMoves ==
    ASSUME Types, NEW c \in Calls, NEW deadlock \in BOOLEAN, Failed(c, deadlock)
    PROVE  \E n \in {0, 1} : Moves(c, n)
<1>1. CASE MayRetry(c, deadlock)
  <2>1. call' = [call EXCEPT ![c] = Again(c)]
    BY <1>1 DEF Failed
  <2>2. Moves(c, 1)
    BY <2>1, NewCalls DEF Moves, Types
  <2>3. QED
    BY <2>2
<1>2. CASE ~MayRetry(c, deadlock)
  <2>1. call' = [call EXCEPT ![c] = Over(c)]
    BY <1>2 DEF Failed
  <2>2. Moves(c, 0)
    BY <2>1, NewCalls DEF Moves, Types
  <2>3. QED
    BY <2>2
<1>3. QED
  BY <1>1, <1>2

\* Moving keeps every call well formed.
LEMMA MovesOK ==
    ASSUME Types, NEW c \in Calls, NEW n \in 0 .. 5, Moves(c, n), Running(c),
           call[c].fn = "dispute" => n <= 4
    PROVE  \A d \in Calls : CallOK(d)'
BY DEF Types, Moves, CallOK, Running

-----------------------------------------------------------------------------
(* The ledger of an escrow under each shape *)

\* The rows of e stay, and so do the calls that have set its status.
LEMMA LedgerSame ==
    ASSUME NEW e \in Escrows, Ledger(e),
           status'[e] = status[e], credits'[e] = credits[e],
           recorded'[e] = recorded[e], torn \subseteq torn',
           \A d \in Calls : Setter(d, e)' <=> Setter(d, e),
           \A d \in Calls : Setter(d, e) =>
               call'[d].fn = call[d].fn /\ call'[d].at = call[d].at
    PROVE  Ledger(e)'
<1>1. Payouts(e)' = Payouts(e)
  BY DEF Payouts
<1>2. \A d \in Calls : Setter(d, e)' => Underway(d, e)'
  <2> TAKE d \in Calls
  <2> HAVE Setter(d, e)'
  <2>1. Setter(d, e) /\ Underway(d, e)
    BY DEF Ledger
  <2>2. QED
    BY <2>1 DEF Underway
<1>3. PaidAsSettled(e)' <=> PaidAsSettled(e)
  BY DEF PaidAsSettled
<1>4. QED
  BY <1>1, <1>2, <1>3 DEF Ledger

\* A call that had set nothing moves to a statement before the setting one.
LEMMA LedgerQuiet ==
    ASSUME Types, NEW e \in Escrows, Ledger(e), UNCHANGED rows,
           torn \subseteq torn', NEW c \in Calls, NEW n \in 0 .. 3,
           \A d \in Calls \ {c} : call'[d] = call[d],
           ~HasSet(c), call'[c].at = n
    PROVE  Ledger(e)'
<1>1. \A d \in Calls \ {c} : Setter(d, e)' <=> Setter(d, e)
  BY DEF Setter, HasSet, Running
<1>2. ~Setter(c, e) /\ ~Setter(c, e)'
  BY DEF Setter, HasSet, Running
<1>3. QED
  BY <1>1, <1>2, LedgerSame DEF rows

\* A step of a call on another escrow.
LEMMA LedgerElsewhere ==
    ASSUME Types, NEW e \in Escrows, Ledger(e), torn \subseteq torn',
           NEW c \in Calls, NEW n \in 0 .. 5, Moves(c, n), call[c].escrow # e,
           status'[e] = status[e], credits'[e] = credits[e],
           recorded'[e] = recorded[e]
    PROVE  Ledger(e)'
<1>1. \A d \in Calls \ {c} : Setter(d, e)' <=> Setter(d, e)
  BY DEF Setter, HasSet, Running, Moves
<1>2. ~Setter(c, e) /\ ~Setter(c, e)'
  BY DEF Setter, Moves
<1>3. QED
  BY <1>1, <1>2, LedgerSame DEF Moves

\* The call that had set the status ends or starts again: of the escrow, either
\* all is paid and recorded, or the failure is on the list.
LEMMA LedgerEnds ==
    ASSUME Types, NEW e \in Escrows, Ledger(e), torn \subseteq torn',
           NEW c \in Calls, NEW n \in 0 .. 3, Moves(c, n), Setter(c, e),
           status' = status, credits' = credits,
           status'[e] # "active", e \in torn' \/ PaidAsSettled(e)'
    PROVE  Ledger(e)'
<1>1. \A d \in Calls : ~Setter(d, e)'
  BY DEF Ledger, Setter, HasSet, Running, Moves
<1>2. Payouts(e)' <= 1
  BY DEF Payouts, Ledger
<1>3. QED
  BY <1>1, <1>2 DEF Ledger

-----------------------------------------------------------------------------
(* The steps *)

\* The parts of the type that no call step of this kind disturbs.
LEMMA TypesKept ==
    ASSUME Types, NEW c \in Calls, NEW n \in 0 .. 5, Moves(c, n), Running(c),
           call[c].fn = "dispute" => n <= 4,
           status' \in [Escrows -> Statuses],
           credits' \in [Escrows -> [Parties -> Nat]],
           recorded' \in [Escrows -> [Parties -> Nat]],
           crossed' \subseteq Escrows, torn' \subseteq Escrows,
           errors' \in 0 .. MaxErrors
    PROVE  Types'
<1>1. \A d \in Calls : CallOK(d)'
  BY MovesOK
<1>2. QED
  BY <1>1 DEF Types, Moves

\* A call begins to wait, or its transaction begins.
LEMMA StartStep ==
    ASSUME SettlementInv, NEW c \in Calls, NEW fn \in Functions, NEW e \in Escrows,
           StartCall(c, fn, e)
    PROVE  SettlementInv'
<1> DEFINE new == [fn |-> fn, escrow |-> e, at |-> 1, attempt |-> 1, waits |-> TRUE]
<1>1. /\ new \in CallState /\ new.at = 1 /\ new.fn = fn /\ new.escrow = e
  BY DEF CallState
<1>2. call' = [call EXCEPT ![c] = new] /\ ~HasSet(c)
  BY DEF StartCall, HasSet, Running, Unused
<1> HIDE DEF new
<1>3. /\ call' \in [Calls -> CallState] /\ call'[c] = new
      /\ \A d \in Calls \ {c} : call'[d] = call[d]
  BY <1>1, <1>2 DEF SettlementInv, Types
<1>4. \A d \in Calls : CallOK(d)'
  <2>1. \A d \in Calls \ {c} : CallOK(d)'
    BY <1>3 DEF CallOK, Running, SettlementInv, Types
  <2>2. CallOK(c)'
    BY <1>1, <1>3 DEF CallOK, Running, Functions
  <2>3. QED
    BY <2>1, <2>2
<1>5. Types'
  BY <1>3, <1>4 DEF StartCall, SettlementInv, Types, rows
<1>6. \A f \in Escrows \ crossed' : Ledger(f)'
  BY <1>1, <1>2, <1>3, LedgerQuiet DEF StartCall, SettlementInv
<1>7. QED
  BY <1>5, <1>6 DEF SettlementInv

\* A statement that changes no row and comes before the setting one.
LEMMA EarlyStep ==
    ASSUME SettlementInv, NEW c \in Calls, NEW n \in 0 .. 3, Moves(c, n), Running(c),
           ~HasSet(c), UNCHANGED <<rows, crossed>>, torn \subseteq torn',
           torn' \subseteq Escrows, errors' \in 0 .. MaxErrors
    PROVE  SettlementInv'
<1>1. Types'
  BY TypesKept DEF SettlementInv, Types, rows
<1>2. \A f \in Escrows \ crossed' : Ledger(f)'
  BY LedgerQuiet DEF SettlementInv, Moves
<1>3. QED
  BY <1>1, <1>2 DEF SettlementInv

\* The call that had set the status of its escrow is over, or starts again.
LEMMA LateStep ==
    ASSUME SettlementInv, NEW c \in Calls, NEW n \in 0 .. 3, Moves(c, n), HasSet(c),
           status' = status, credits' = credits, crossed' = crossed,
           recorded' \in [Escrows -> [Parties -> Nat]],
           \A f \in Escrows \ {call[c].escrow} : recorded'[f] = recorded[f],
           torn \subseteq torn', torn' \subseteq Escrows, errors' \in 0 .. MaxErrors,
           \A f \in Escrows \ crossed : f = call[c].escrow =>
               f \in torn' \/ PaidAsSettled(f)'
    PROVE  SettlementInv'
<1>1. Types'
  BY TypesKept DEF SettlementInv, Types, HasSet
<1>2. ASSUME NEW f \in Escrows \ crossed'
      PROVE  Ledger(f)'
  <2>1. CASE f # call[c].escrow
    BY <2>1, LedgerElsewhere DEF SettlementInv
  <2>2. CASE f = call[c].escrow
    <3>1. Setter(c, f) /\ Ledger(f)
      BY <2>2 DEF Setter, SettlementInv
    <3>2. call[c].fn \in Functions /\ status[f] = SetTo[call[c].fn]
      BY <3>1 DEF Ledger, Underway, SettlementInv, Types, CallOK, HasSet
    <3>3. status'[f] # "active"
      BY <3>2 DEF SetTo, Functions
    <3>4. QED
      BY <2>2, <3>1, <3>3, LedgerEnds DEF SettlementInv
  <2>3. QED
    BY <2>1, <2>2
<1>3. QED
  BY <1>1, <1>2 DEF SettlementInv

LEMMA LockStep == ASSUME SettlementInv, NEW c \in Calls, Lock(c) PROVE SettlementInv'
<1>1. call[c].at = 1 /\ Running(c)
  BY StatementPlaces DEF Lock, Statement, AtStep, Working, SettlementInv
<1>2. Moves(c, 2)
  BY <1>1, NextPlace DEF Lock, SettlementInv
<1>3. QED
  BY <1>1, <1>2, EarlyStep DEF Lock, HasSet, SettlementInv, Types

LEMMA ReadStep == ASSUME SettlementInv, NEW c \in Calls, ReadEscrow(c) PROVE SettlementInv'
<1>1. call[c].at = 2 /\ Running(c)
  BY StatementPlaces DEF ReadEscrow, Statement, AtStep, Working, SettlementInv
<1>2. CASE MayProceed(call[c].fn, status[call[c].escrow])
  <2>1. Moves(c, 3)
    BY <1>1, <1>2, NextPlace DEF ReadEscrow, SettlementInv
  <2>2. QED
    BY <1>1, <2>1, EarlyStep DEF ReadEscrow, HasSet, SettlementInv, Types
<1>3. CASE ~MayProceed(call[c].fn, status[call[c].escrow])
  <2>1. Moves(c, 0)
    BY <1>3, NewCalls DEF ReadEscrow, Moves, SettlementInv, Types
  <2>2. QED
    BY <1>1, <2>1, EarlyStep DEF ReadEscrow, HasSet, SettlementInv, Types
<1>4. QED
  BY <1>2, <1>3

LEMMA BeginStep == ASSUME SettlementInv, NEW c \in Calls, BeginTransaction(c) PROVE SettlementInv'
<1> DEFINE new == [call[c] EXCEPT !.waits = FALSE]
<1>1. /\ call[c] \in CallState /\ call[c].waits
      /\ call' = [call EXCEPT ![c] = new]
  BY DEF BeginTransaction, SettlementInv, Types
<1>2. /\ new \in CallState /\ new.at = call[c].at
      /\ new.fn = call[c].fn /\ new.escrow = call[c].escrow
  BY <1>1, CallChanges, Zenon DEF CallState
<1> HIDE DEF new
<1>3. Moves(c, call[c].at)
  BY <1>1, <1>2 DEF Moves, SettlementInv, Types
<1>4. Running(c) \/ ~Running(c)
  OBVIOUS
<1>5. \A d \in Calls : CallOK(d)'
  BY <1>3 DEF Moves, CallOK, Running, SettlementInv, Types
<1>6. Types'
  BY <1>3, <1>5 DEF BeginTransaction, Moves, SettlementInv, Types, rows
<1>7. \A f \in Escrows \ crossed' : Ledger(f)'
  <2> TAKE f \in Escrows \ crossed'
  <2>1. Ledger(f)
    BY DEF SettlementInv, BeginTransaction
  <2>2. \A d \in Calls : /\ Setter(d, f)' <=> Setter(d, f)
                         /\ call'[d].fn = call[d].fn /\ call'[d].at = call[d].at
    BY <1>3 DEF Setter, HasSet, Running, Moves
  <2>3. QED
    BY <2>1, <2>2, LedgerSame DEF BeginTransaction, rows
<1>8. QED
  BY <1>6, <1>7 DEF SettlementInv

LEMMA SettlementFailStep ==
    ASSUME SettlementInv, NEW c \in Calls, NEW deadlock \in BOOLEAN, Running(c),
           Failed(c, deadlock), errors' \in 0 .. MaxErrors
    PROVE  SettlementInv'
<1>1. PICK n \in {0, 1} : Moves(c, n)
  BY FailedMoves DEF SettlementInv
<1>2. UNCHANGED <<rows, crossed>>
  BY DEF Failed
<1>3. CASE HasSet(c)
  <2>1. call[c].escrow \in Escrows
    BY <1>3 DEF HasSet, SettlementInv, Types, CallOK
  <2>2. torn' = torn \cup {call[c].escrow}
    BY <1>3 DEF Failed
  <2>3. QED
    BY <1>1, <1>2, <1>3, <2>1, <2>2, LateStep DEF rows, SettlementInv, Types
<1>4. CASE ~HasSet(c)
  <2>1. torn' = torn
    BY <1>4 DEF Failed
  <2>2. QED
    BY <1>1, <1>2, <1>4, <2>1, EarlyStep DEF SettlementInv, Types
<1>5. QED
  BY <1>3, <1>4

\* The statement that sets the status: unless it crosses another call, the escrow
\* was active or is only disputed now, and nothing had been paid half-way.
LEMMA SetStep == ASSUME SettlementInv, NEW c \in Calls, SetStatus(c) PROVE SettlementInv'
<1>0. PICK e \in Escrows, fn \in Functions : call[c].escrow = e /\ call[c].fn = fn
  BY StatementPlaces DEF SetStatus, Statement, AtStep, Working, SettlementInv, Types, CallOK
<1>1. call[c].at = 3 /\ Running(c) /\ ~HasSet(c)
  BY StatementPlaces DEF SetStatus, Statement, AtStep, Working, SettlementInv, HasSet
<1>2. Moves(c, 4)
  BY <1>1, NextPlace DEF SetStatus, SettlementInv
<1>3. /\ status' = [status EXCEPT ![e] = SetTo[fn]] /\ crossed \subseteq crossed'
      /\ crossed' \subseteq Escrows /\ SetTo[fn] \in Statuses \ {"active"}
      /\ UNCHANGED <<credits, recorded, torn, errors>>
  BY <1>0 DEF SetStatus, SettlementInv, Types, SetTo, Functions, Statuses
<1>4. Types'
  <2>1. status' \in [Escrows -> Statuses]
    BY <1>3 DEF SettlementInv, Types
  <2>2. /\ credits' \in [Escrows -> [Parties -> Nat]]
        /\ recorded' \in [Escrows -> [Parties -> Nat]]
        /\ torn' \subseteq Escrows /\ errors' \in 0 .. MaxErrors
    BY <1>3 DEF SettlementInv, Types
  <2>3. QED
    BY <1>1, <1>2, <1>3, <2>1, <2>2, TypesKept DEF SettlementInv
<1>5. ASSUME e \notin crossed'
      PROVE  Ledger(e)'
  <2>1. /\ MayProceed(fn, status[e]) /\ Ledger(e)
        /\ \A d \in Calls \ {c} : ~Setter(d, e)
    BY <1>0, <1>3, <1>5 DEF SetStatus, Setter, SettlementInv
  <2>2. /\ \A d \in Calls \ {c} : ~Setter(d, e)'
        /\ Setter(c, e)' /\ status'[e] = SetTo[fn]
    BY <1>0, <1>2, <1>3, <2>1 DEF Moves, Setter, HasSet, Running, SettlementInv, Types
  <2>3. \A d \in Calls : ~Setter(d, e)
    BY <1>1, <2>1 DEF Setter
  <2>4. fn # "dispute" => credits[e] = Nobody /\ recorded[e] = Nobody
    BY <2>1 DEF MayProceed, Ledger
  <2>5. e \in torn \/ recorded[e] = credits[e]
    BY <2>1, <2>3 DEF Ledger, PaidAsSettled
  <2>6. Underway(c, e)'
    BY <1>0, <1>2, <1>3, <2>2, <2>4, <2>5 DEF Underway, Moves
  <2>7. Payouts(e)' <= 1
    BY <1>3, <2>1 DEF Payouts, Ledger
  <2>8. status'[e] # "active"
    BY <1>3, <2>2
  <2>9. QED
    BY <2>2, <2>6, <2>7, <2>8 DEF Ledger
<1>6. ASSUME NEW f \in Escrows \ crossed', f # e
      PROVE  Ledger(f)'
  BY <1>0, <1>2, <1>3, <1>6, LedgerElsewhere DEF SettlementInv, Types
<1>7. QED
  BY <1>4, <1>5, <1>6 DEF SettlementInv

LEMMA CreditStep == ASSUME SettlementInv, NEW c \in Calls, Credit(c) PROVE SettlementInv'
<1>0. PICK e \in Escrows, fn \in {"release", "refund"} :
            call[c].escrow = e /\ call[c].fn = fn
  BY StatementPlaces
     DEF Credit, Statement, AtStep, Working, SettlementInv, Types, CallOK, Functions
<1>1. call[c].at = 4 /\ Running(c) /\ Setter(c, e)
  BY <1>0, StatementPlaces
     DEF Credit, Statement, AtStep, Working, SettlementInv, Setter, HasSet
<1>2. Moves(c, 5)
  BY <1>0, <1>1, NextPlace DEF Credit, SettlementInv
<1>3. /\ credits' = [credits EXCEPT ![e][Payee[fn]] = credits[e][Payee[fn]] + 1]
      /\ Payee[fn] \in Parties /\ UNCHANGED <<status, recorded, crossed, torn, errors>>
  BY <1>0 DEF Credit, Payee, Parties
<1>4. /\ credits' \in [Escrows -> [Parties -> Nat]]
      /\ \A f \in Escrows \ {e} : credits'[f] = credits[f]
  BY <1>3 DEF SettlementInv, Types
<1>5. Types'
  BY <1>0, <1>1, <1>2, <1>3, <1>4, TypesKept DEF SettlementInv, Types
<1>6. ASSUME e \notin crossed'
      PROVE  Ledger(e)'
  <2>1. Ledger(e) /\ status[e] = SetTo[fn] /\ credits[e] = Nobody /\ recorded[e] = Nobody
    BY <1>0, <1>1, <1>3, <1>6 DEF Ledger, Underway, SettlementInv
  <2>2. credits'[e] = [Nobody EXCEPT ![Payee[fn]] = 1]
    BY <1>3, <2>1, Tables DEF SettlementInv, Types
  <2>3. Payouts(e)' <= 1
    BY <1>3, <2>2 DEF Payouts, Nobody, Parties
  <2>4. Underway(c, e)'
    BY <1>0, <1>2, <1>3, <2>1, <2>2 DEF Underway, Moves
  <2>5. /\ \A d \in Calls \ {c} : ~Setter(d, e)'
        /\ Setter(c, e)'
    BY <1>0, <1>1, <1>2, <2>1 DEF Ledger, Setter, HasSet, Running, Moves
  <2>6. status'[e] # "active"
    BY <1>3, <2>1 DEF SetTo, Functions
  <2>7. QED
    BY <2>3, <2>4, <2>5, <2>6 DEF Ledger
<1>7. ASSUME NEW f \in Escrows \ crossed', f # e
      PROVE  Ledger(f)'
  BY <1>0, <1>2, <1>3, <1>4, <1>7, LedgerElsewhere DEF SettlementInv
<1>8. QED
  BY <1>5, <1>6, <1>7 DEF SettlementInv

\* The Transaction row makes the payment complete.
LEMMA RecordStep == ASSUME SettlementInv, NEW c \in Calls, Record(c) PROVE SettlementInv'
<1>0. PICK e \in Escrows, fn \in {"release", "refund"} :
            call[c].escrow = e /\ call[c].fn = fn
  BY StatementPlaces
     DEF Record, Statement, AtStep, Working, SettlementInv, Types, CallOK, Functions
<1>1. call[c].at = 5 /\ Running(c) /\ Setter(c, e) /\ HasSet(c)
  BY <1>0, StatementPlaces
     DEF Record, Statement, AtStep, Working, SettlementInv, Setter, HasSet
<1>2. Moves(c, 0)
  BY <1>1, NextPlace DEF Record, SettlementInv
<1>3. /\ recorded' = [recorded EXCEPT ![e][Payee[fn]] = recorded[e][Payee[fn]] + 1]
      /\ Payee[fn] \in Parties /\ UNCHANGED <<status, credits, crossed, torn, errors>>
  BY <1>0 DEF Record, Payee, Parties
<1>4. /\ recorded' \in [Escrows -> [Parties -> Nat]]
      /\ \A f \in Escrows \ {e} : recorded'[f] = recorded[f]
  BY <1>3 DEF SettlementInv, Types
<1>5. ASSUME e \notin crossed
      PROVE  PaidAsSettled(e)'
  <2>1. /\ status[e] = SetTo[fn] /\ recorded[e] = Nobody
        /\ credits[e] = [Nobody EXCEPT ![Payee[fn]] = 1]
    BY <1>0, <1>1, <1>5 DEF Ledger, Underway, SettlementInv
  <2>2. recorded'[e] = [Nobody EXCEPT ![Payee[fn]] = 1]
    BY <1>3, <2>1, Tables DEF SettlementInv, Types
  <2>3. QED
    <3>1. CASE fn = "release"
      BY <1>3, <2>1, <2>2, <3>1, Tables DEF PaidAsSettled
    <3>2. CASE fn = "refund"
      BY <1>3, <2>1, <2>2, <3>2, Tables DEF PaidAsSettled
    <3>3. QED
      BY <3>1, <3>2
<1>6. QED
  BY <1>0, <1>1, <1>2, <1>3, <1>4, <1>5, LateStep DEF SettlementInv, Types

LEMMA OpenStep == ASSUME SettlementInv, NEW c \in Calls, OpenRow(c) PROVE SettlementInv'
<1>0. PICK e \in Escrows : call[c].escrow = e /\ call[c].fn = "dispute"
  BY StatementPlaces
     DEF OpenRow, Statement, AtStep, Working, SettlementInv, Types, CallOK
<1>1. call[c].at = 4 /\ Running(c) /\ Setter(c, e) /\ HasSet(c)
  BY <1>0, StatementPlaces
     DEF OpenRow, Statement, AtStep, Working, SettlementInv, Setter, HasSet
<1>2. Moves(c, 0)
  BY <1>0, <1>1, NextPlace DEF OpenRow, SettlementInv
<1>3. UNCHANGED <<status, credits, recorded, crossed, torn, errors>>
  BY DEF OpenRow, rows
<1>4. ASSUME e \notin crossed, e \notin torn
      PROVE  PaidAsSettled(e)'
  <2>1. Underway(c, e)
    BY <1>0, <1>1, <1>3, <1>4 DEF Ledger, SettlementInv
  <2>2. status[e] = "disputed" /\ recorded[e] = credits[e]
    BY <1>0, <1>4, <2>1, Tables DEF Underway
  <2>3. QED
    BY <1>3, <2>2 DEF PaidAsSettled
<1>5. QED
  BY <1>0, <1>1, <1>2, <1>3, <1>4, LateStep DEF SettlementInv, Types

LEMMA SettlementNextInv == ASSUME SettlementInv, [SettlementNext]_settlementVars PROVE SettlementInv'
<1>1. CASE UNCHANGED settlementVars
  BY <1>1 DEF settlementVars, rows, SettlementInv, Types, Ledger, Setter, HasSet, Running,
              CallOK, Underway, Payouts, PaidAsSettled
<1>2. ASSUME NEW c \in Calls, PoolTimeout(c)
      PROVE  SettlementInv'
  BY <1>2, SettlementFailStep DEF PoolTimeout, SettlementInv, Types
<1>3. ASSUME NEW c \in Calls, NEW deadlock \in BOOLEAN, StatementFails(c, deadlock)
      PROVE  SettlementInv'
  <2>1. errors' \in 0 .. MaxErrors
    BY <1>3, SettlementAssumption DEF StatementFails, SettlementInv, Types
  <2>2. QED
    BY <1>3, <2>1, SettlementFailStep DEF StatementFails, Working
<1>4. ASSUME NEW c \in Calls, CallStep(c)
      PROVE  SettlementInv'
  BY <1>2, <1>4, BeginStep, LockStep, ReadStep, SetStep, CreditStep, RecordStep,
     OpenStep, Zenon DEF CallStep
<1>5. CASE SettlementNext
  BY <1>3, <1>4, <1>5, StartStep, Zenon DEF SettlementNext
<1>6. QED
  BY <1>1, <1>5

\* Calls of which none changes the status of an escrow under another one pay the
\* escrow at most once; if besides none failed half-way, an escrow at rest has
\* paid the party its status names and nobody else, and its rows say so.
THEOREM PaymentsCorrect == SettlementSpec => []PaidOnce
<1>1. SettlementInv => PaidOnce
  <2> SUFFICES ASSUME SettlementInv, NEW e \in Escrows \ crossed
               PROVE  /\ Payouts(e) <= 1
                      /\ e \notin torn /\ AtRest(e) => PaidAsSettled(e)
    BY DEF PaidOnce
  <2>1. Ledger(e)
    BY DEF SettlementInv
  <2>2. AtRest(e) => \A c \in Calls : ~Setter(c, e)
    BY DEF AtRest, Setter, HasSet
  <2>3. QED
    BY <2>1, <2>2 DEF Ledger
<1>2. QED
  BY SettlementInitInv, SettlementNextInv, <1>1, PTL DEF SettlementSpec

-----------------------------------------------------------------------------
(* THE CIRCUIT BREAKER.  The steps that set a flag are kept apart from those   *)
(* about the calls: the first need a first-order prover, the second an SMT     *)
(* solver.                                                                    *)

Flags == elapsed \in BOOLEAN /\ probing \in BOOLEAN

Counts ==
    /\ circuit \in {"CLOSED", "OPEN", "HALF_OPEN"}
    /\ failuresInRow \in Nat
    /\ admitted \in [Callers -> {"no", "normal", "probe"}]
    /\ rpcErrors \in 0 .. MaxRpcErrors

LEMMA TypeParts == BreakerTypeOK <=> Flags /\ Counts
BY Zenon DEF BreakerTypeOK, Flags, Counts

BreakerInv == Flags /\ Counts /\ ProbeAlone

\* No probe runs, and the flag is down.
NoProbe == ~probing /\ \A c \in Callers : admitted[c] # "probe"

LEMMA NoProbeIsAlone == NoProbe => ProbeAlone
BY Zenon DEF NoProbe, ProbeAlone

LEMMA OnlyHalfOpenProbes == ProbeAlone /\ circuit # "HALF_OPEN" => NoProbe
BY Zenon DEF NoProbe, ProbeAlone

-----------------------------------------------------------------------------
LEMMA BreakerInitInv == BreakerInit => BreakerInv
<1> SUFFICES ASSUME BreakerInit PROVE BreakerInv
  OBVIOUS
<1>1. Flags
  BY Zenon DEF BreakerInit, Flags
<1>2. Counts
  BY BreakerAssumption DEF BreakerInit, Counts
<1>3. \A c \in Callers : admitted[c] # "probe"
  BY DEF BreakerInit
<1>4. NoProbe
  BY <1>3, Zenon DEF BreakerInit, NoProbe
<1>5. QED
  BY <1>1, <1>2, <1>4, NoProbeIsAlone DEF BreakerInv

\* A refresh only leaves OPEN, in which no probe runs.
LEMMA RefreshedState ==
    ASSUME Counts
    PROVE  /\ Refreshed \in {"CLOSED", "OPEN", "HALF_OPEN"}
           /\ circuit = "HALF_OPEN" => Refreshed = "HALF_OPEN"
BY DEF Counts, Refreshed

\* Calls and flag stay, and the circuit does not leave HALF_OPEN.
LEMMA SameCalls ==
    ASSUME BreakerInv, admitted' = admitted, probing' = probing,
           circuit = "HALF_OPEN" => circuit' = "HALF_OPEN"
    PROVE  ProbeAlone'
BY Zenon DEF BreakerInv, ProbeAlone

LEMMA ElapseStep == ASSUME BreakerInv, RecoveryElapses PROVE BreakerInv'
<1>1. Flags'
  BY Zenon DEF RecoveryElapses, BreakerInv, Flags
<1>2. Counts'
  BY DEF RecoveryElapses, BreakerInv, Counts
<1>3. ProbeAlone'
  BY SameCalls DEF RecoveryElapses
<1>4. QED
  BY <1>1, <1>2, <1>3 DEF BreakerInv

LEMMA GetStateStep == ASSUME BreakerInv, GetState PROVE BreakerInv'
<1>1. Flags'
  BY Zenon DEF GetState, BreakerInv, Flags
<1>2. /\ circuit' \in {"CLOSED", "OPEN", "HALF_OPEN"}
      /\ circuit = "HALF_OPEN" => circuit' = "HALF_OPEN"
  BY RefreshedState DEF GetState, BreakerInv
<1>3. Counts'
  BY <1>2 DEF GetState, BreakerInv, Counts
<1>4. ProbeAlone'
  BY <1>2, SameCalls DEF GetState
<1>5. QED
  BY <1>1, <1>3, <1>4 DEF BreakerInv

-----------------------------------------------------------------------------
LEMMA ExecuteStep ==
    ASSUME BreakerInv, NEW c \in Callers, Execute(c)
    PROVE  BreakerInv'
<1>1. /\ circuit' \in {"CLOSED", "OPEN", "HALF_OPEN"}
      /\ circuit = "HALF_OPEN" => circuit' = "HALF_OPEN"
  BY RefreshedState DEF Execute, BreakerInv
<1>2. Flags'
  BY Zenon DEF Execute, BreakerInv, Flags
<1>3. Counts'
  BY <1>1 DEF Execute, BreakerInv, Counts
<1>4. ProbeAlone'
  <2>1. CASE /\ circuit' = "CLOSED" /\ admitted' = [admitted EXCEPT ![c] = "normal"]
             /\ UNCHANGED probing
    <3>1. NoProbe
      BY <1>1, <2>1, OnlyHalfOpenProbes DEF BreakerInv
    <3>2. \A d \in Callers : admitted'[d] # "probe"
      BY <2>1, <3>1 DEF BreakerInv, Counts, NoProbe
    <3>3. NoProbe'
      BY <2>1, <3>1, <3>2, Zenon DEF NoProbe
    <3>4. QED
      BY <3>3, NoProbeIsAlone, PTL
  <2>2. CASE /\ circuit' = "HALF_OPEN" /\ ~probing /\ probing' = TRUE
             /\ admitted' = [admitted EXCEPT ![c] = "probe"]
    <3>1. \A d \in Callers : admitted[d] # "probe"
      BY <2>2, Zenon DEF BreakerInv, ProbeAlone
    <3>2. \A d \in Callers : admitted'[d] = "probe" <=> d = c
      BY <2>2, <3>1 DEF BreakerInv, Counts
    <3>3. QED
      BY <2>2, <3>2, Zenon DEF ProbeAlone
  <2>3. CASE UNCHANGED <<admitted, probing>>
    BY <1>1, <2>3, SameCalls
  <2>4. QED
    BY <2>1, <2>2, <2>3, Zenon DEF Execute
<1>5. QED
  BY <1>2, <1>3, <1>4 DEF BreakerInv

\* When a half-open period ends, no call is its probe any more.
LEMMA HalfOpenEnds ==
    ASSUME BreakerInv, NEW c \in Callers, NEW succeeded \in BOOLEAN,
           EndsHalfOpen(c, succeeded), rpcErrors' \in 0 .. MaxRpcErrors
    PROVE  BreakerInv'
<1>1. /\ admitted' = Left(c) /\ circuit' \in {"CLOSED", "OPEN"}
      /\ failuresInRow' = 0
  BY DEF EndsHalfOpen, TransitionTo
<1>2. /\ admitted' \in [Callers -> {"no", "normal", "probe"}]
      /\ \A d \in Callers : admitted'[d] # "probe"
  BY <1>1 DEF Left, BreakerInv, Counts
<1>3. Counts'
  BY <1>1, <1>2 DEF Counts
<1>4. Flags' /\ ~probing'
  BY Zenon DEF EndsHalfOpen, ProbingAfter, TransitionTo, Flags
<1>5. NoProbe'
  BY <1>2, <1>4, Zenon DEF NoProbe
<1>6. ProbeAlone'
  BY <1>5, NoProbeIsAlone, PTL
<1>7. QED
  BY <1>3, <1>4, <1>6 DEF BreakerInv

\* A call that ends outside HALF_OPEN was no probe.
LEMMA OldCallEnds ==
    ASSUME BreakerInv, NEW c \in Callers, circuit # "HALF_OPEN",
           admitted' = Ended(c), probing' = probing, Flags',
           circuit' \in {"CLOSED", "OPEN"}, failuresInRow' \in Nat,
           rpcErrors' \in 0 .. MaxRpcErrors
    PROVE  BreakerInv'
<1>1. NoProbe
  BY OnlyHalfOpenProbes DEF BreakerInv
<1>2. /\ admitted' \in [Callers -> {"no", "normal", "probe"}]
      /\ \A d \in Callers : admitted'[d] # "probe"
  BY <1>1 DEF Ended, BreakerInv, Counts, NoProbe
<1>3. Counts'
  BY <1>2 DEF Counts
<1>4. NoProbe'
  BY <1>1, <1>2, Zenon DEF NoProbe
<1>5. ProbeAlone'
  BY <1>4, NoProbeIsAlone, PTL
<1>6. QED
  BY <1>3, <1>5 DEF BreakerInv

LEMMA SucceedStep ==
    ASSUME BreakerInv, NEW c \in Callers, Succeed(c)
    PROVE  BreakerInv'
<1>1. rpcErrors' \in 0 .. MaxRpcErrors
  BY DEF Succeed, BreakerInv, Counts
<1>2. CASE EndsHalfOpen(c, TRUE)
  BY <1>1, <1>2, HalfOpenEnds
<1>3. CASE ~EndsHalfOpen(c, TRUE)
  <2>1. /\ circuit # "HALF_OPEN" /\ failuresInRow' = 0 /\ admitted' = Ended(c)
        /\ circuit' = circuit /\ probing' = probing /\ elapsed' = elapsed
    BY <1>3, Zenon DEF Succeed
  <2>2. Flags'
    BY <2>1, Zenon DEF BreakerInv, Flags
  <2>3. circuit' \in {"CLOSED", "OPEN"}
    BY <2>1 DEF BreakerInv, Counts
  <2>4. QED
    BY <1>1, <2>1, <2>2, <2>3, OldCallEnds
<1>4. QED
  BY <1>2, <1>3

LEMMA BreakerFailStep ==
    ASSUME BreakerInv, NEW c \in Callers, Fail(c)
    PROVE  BreakerInv'
<1>1. rpcErrors' \in 0 .. MaxRpcErrors
  BY BreakerAssumption DEF Fail, BreakerInv, Counts
<1>2. CASE EndsHalfOpen(c, FALSE)
  BY <1>1, <1>2, HalfOpenEnds
<1>3. CASE /\ circuit = "CLOSED" /\ TransitionTo("OPEN")
           /\ admitted' = Ended(c) /\ UNCHANGED probing
  <2>1. Flags'
    BY <1>3, Zenon DEF BreakerInv, Flags, TransitionTo
  <2>2. circuit # "HALF_OPEN" /\ circuit' = "OPEN" /\ failuresInRow' = 0
    BY <1>3 DEF TransitionTo
  <2>3. QED
    BY <1>1, <1>3, <2>1, <2>2, OldCallEnds
<1>4. CASE /\ circuit \in {"CLOSED", "OPEN"} /\ failuresInRow' = failuresInRow + 1
           /\ admitted' = Ended(c) /\ UNCHANGED <<circuit, elapsed, probing>>
  <2>1. Flags'
    BY <1>4, Zenon DEF BreakerInv, Flags
  <2>2. /\ circuit # "HALF_OPEN" /\ circuit' \in {"CLOSED", "OPEN"}
        /\ failuresInRow' \in Nat
    BY <1>4 DEF BreakerInv, Counts
  <2>3. QED
    BY <1>1, <1>4, <2>1, <2>2, OldCallEnds
<1>5. QED
  BY <1>2, <1>3, <1>4, Zenon DEF Fail

LEMMA BreakerNextInv == ASSUME BreakerInv, [BreakerNext]_breakerVars PROVE BreakerInv'
<1>1. CASE UNCHANGED breakerVars
  BY <1>1, Zenon DEF breakerVars, BreakerInv, Flags, Counts, ProbeAlone
<1>2. CASE BreakerNext
  BY <1>2, ElapseStep, GetStateStep, ExecuteStep, SucceedStep, BreakerFailStep, Zenon
     DEF BreakerNext
<1>3. QED
  BY <1>1, <1>2

\* Every reachable state of the breaker is well typed.
THEOREM BreakerTypeCorrect == BreakerSpec => []BreakerTypeOK
<1>1. BreakerInv => BreakerTypeOK
  BY TypeParts DEF BreakerInv
<1>2. QED
  BY BreakerInitInv, BreakerNextInv, <1>1, PTL DEF BreakerSpec

\* The breaker never lets two probes of one half-open period run, whatever older
\* calls do, and its flag is set exactly while one runs: it cannot be left set,
\* which would reject every call for ever.
THEOREM ProbeCorrect == BreakerSpec => []ProbeAlone
<1>1. BreakerInv => ProbeAlone
  BY DEF BreakerInv
<1>2. QED
  BY BreakerInitInv, BreakerNextInv, <1>1, PTL DEF BreakerSpec

-----------------------------------------------------------------------------
(* THE WEB SOCKET SERVICE, for any number of sockets, messages, breaks and     *)
(* reconnections and for any size of its queue.                               *)

-----------------------------------------------------------------------------
(* Messages in line *)

\* Message a may come before b, with the exceptions in H and B.
Precedes(a, b, H, B) == a < b \/ (a > b /\ (a \in H \/ b \in B))
Sorted(p, H, B) ==
    \A i, j \in 1 .. Len(p) : i < j => Precedes(p[i], p[j], H, B)

\* What was handed out and what waits, when n messages were sent and those in D
\* were pushed out.
InLine(p, q, H, B, D, n) ==
    /\ p \in Seq(Nat) /\ q \in Seq(Nat) /\ n \in Nat
    /\ Sorted(p, H, B) /\ Sorted(q, H, B)
    /\ \A a \in ToSet(p), b \in ToSet(q) : Precedes(a, b, H, B)
    /\ ToSet(p) \cup ToSet(q) \cup D = 1 .. n

LEMMA AppendedSet ==
    ASSUME NEW S, NEW p \in Seq(S), NEW m
    PROVE  ToSet(Append(p, m)) = ToSet(p) \cup {m}
<1>1. DOMAIN p = 1 .. Len(p) /\ Len(p) \in Nat
  OBVIOUS
<1>2. /\ DOMAIN Append(p, m) = 1 .. Len(p) + 1 /\ Append(p, m)[Len(p) + 1] = m
      /\ \A i \in 1 .. Len(p) : Append(p, m)[i] = p[i]
  OBVIOUS
<1> DEFINE r == Append(p, m)
<1> HIDE DEF r
<1>3. ASSUME NEW x \in ToSet(r) PROVE x \in ToSet(p) \cup {m}
  <2>1. PICK i \in 1 .. Len(p) + 1 : x = r[i]
    BY <1>2 DEF ToSet, r
  <2>2. CASE i = Len(p) + 1
    BY <2>1, <2>2, <1>2 DEF r
  <2>3. CASE i \in 1 .. Len(p)
    BY <2>1, <2>3, <1>1, <1>2 DEF r, ToSet
  <2>4. QED
    BY <1>1, <2>2, <2>3
<1>4. ASSUME NEW x \in ToSet(p) PROVE x \in ToSet(r)
  <2>1. PICK i \in 1 .. Len(p) : x = p[i]
    BY <1>1 DEF ToSet
  <2>2. i \in DOMAIN r /\ r[i] = x
    BY <2>1, <1>1, <1>2 DEF r
  <2>3. QED
    BY <2>2 DEF ToSet
<1>5. m \in ToSet(r)
  <2>1. Len(p) + 1 \in DOMAIN r /\ r[Len(p) + 1] = m
    BY <1>1, <1>2 DEF r
  <2>2. QED
    BY <2>1 DEF ToSet
<1>6. QED
  BY <1>3, <1>4, <1>5 DEF r

LEMMA AppendedSorted ==
    ASSUME NEW p \in Seq(Nat), NEW H, NEW B, NEW m \in Nat, Sorted(p, H, B),
           \A a \in ToSet(p) : Precedes(a, m, H, B)
    PROVE  Sorted(Append(p, m), H, B)
<1> DEFINE r == Append(p, m)
<1>1. /\ Len(p) \in Nat /\ Len(r) = Len(p) + 1 /\ r[Len(p) + 1] = m
      /\ \A i \in 1 .. Len(p) : r[i] = p[i]
  BY AppendProperties
<1>2. \A i \in 1 .. Len(p) : p[i] \in ToSet(p)
  BY DEF ToSet
<1> HIDE DEF r
<1> SUFFICES ASSUME NEW i \in 1 .. Len(r), NEW j \in 1 .. Len(r), i < j
             PROVE  Precedes(r[i], r[j], H, B)
  BY DEF Sorted, r
<1>3. i \in 1 .. Len(p) /\ r[i] = p[i]
  BY <1>1
<1>4. CASE j = Len(p) + 1
  BY <1>1, <1>2, <1>3, <1>4
<1>5. CASE j \in 1 .. Len(p)
  BY <1>1, <1>3, <1>5 DEF Sorted
<1>6. QED
  BY <1>1, <1>4, <1>5

LEMMA TailSorted ==
    ASSUME NEW q \in Seq(Nat), NEW H, NEW B, Sorted(q, H, B), q # <<>>
    PROVE  /\ Tail(q) \in Seq(Nat) /\ Head(q) \in Nat
           /\ Sorted(Tail(q), H, B)
           /\ ToSet(q) = {Head(q)} \cup ToSet(Tail(q))
           /\ \A b \in ToSet(Tail(q)) : Precedes(Head(q), b, H, B)
<1> DEFINE r == Tail(q)
<1>1. /\ r \in Seq(Nat) /\ Len(r) = Len(q) - 1 /\ Head(q) = q[1] /\ Head(q) \in Nat
      /\ \A i \in 1 .. Len(r) : r[i] = q[i + 1]
  BY HeadTailProperties
<1>2. Len(q) \in Nat \ {0} /\ Len(r) \in Nat
  BY <1>1
<1>3. DOMAIN q = 1 .. Len(q) /\ DOMAIN r = 1 .. Len(r)
  BY <1>1
<1> HIDE DEF r
<1>4. \A i \in 1 .. Len(r) : i + 1 \in 1 .. Len(q) /\ 1 < i + 1
  BY <1>1, <1>2
<1>5. Sorted(r, H, B)
  <2> SUFFICES ASSUME NEW i \in 1 .. Len(r), NEW j \in 1 .. Len(r), i < j
               PROVE  Precedes(r[i], r[j], H, B)
    BY DEF Sorted
  <2>1. /\ i + 1 \in 1 .. Len(q) /\ j + 1 \in 1 .. Len(q) /\ i + 1 < j + 1
        /\ r[i] = q[i + 1] /\ r[j] = q[j + 1]
    BY <1>1, <1>4
  <2>2. QED
    BY <2>1 DEF Sorted
<1>6. ASSUME NEW b \in ToSet(r)
      PROVE  Precedes(Head(q), b, H, B) /\ b \in ToSet(q)
  <2>1. PICK i \in 1 .. Len(r) : b = r[i]
    BY <1>3 DEF ToSet
  <2>2. b = q[i + 1] /\ 1 \in 1 .. Len(q) /\ i + 1 \in 1 .. Len(q) /\ 1 < i + 1
    BY <1>1, <1>2, <1>4, <2>1
  <2>3. Precedes(q[1], q[i + 1], H, B)
    BY <2>2 DEF Sorted
  <2>4. QED
    BY <1>1, <1>3, <2>2, <2>3 DEF ToSet
<1>7. ASSUME NEW x \in ToSet(q)
      PROVE  x = Head(q) \/ x \in ToSet(r)
  <2>1. PICK i \in 1 .. Len(q) : x = q[i]
    BY <1>3 DEF ToSet
  <2>2. CASE i = 1
    BY <1>1, <2>1, <2>2
  <2>3. CASE i # 1
    <3>1. i - 1 \in 1 .. Len(r) /\ r[i - 1] = q[(i - 1) + 1] /\ (i - 1) + 1 = i
      BY <1>1, <1>2, <2>3
    <3>2. QED
      BY <1>3, <2>1, <3>1 DEF ToSet
  <2>4. QED
    BY <2>2, <2>3
<1>8. Head(q) \in ToSet(q)
  BY <1>1, <1>2, <1>3 DEF ToSet
<1>9. QED
  BY <1>1, <1>5, <1>6, <1>7, <1>8 DEF r

LEMMA ConcatSorted ==
    ASSUME NEW p, NEW q, NEW H, NEW B, NEW D, NEW n, InLine(p, q, H, B, D, n)
    PROVE  /\ p \o q \in Seq(Nat) /\ Sorted(p \o q, H, B)
           /\ ToSet(p \o q) \cup D = 1 .. n
<1> DEFINE r == p \o q
<1>0. p \in Seq(Nat) /\ q \in Seq(Nat)
  BY DEF InLine
<1>1. /\ r \in Seq(Nat) /\ Len(r) = Len(p) + Len(q)
      /\ \A i \in 1 .. Len(p) + Len(q) :
            r[i] = IF i <= Len(p) THEN p[i] ELSE q[i - Len(p)]
  BY <1>0, ConcatProperties
<1>2. /\ Len(q) \in Nat /\ Len(p) \in Nat
      /\ DOMAIN p = 1 .. Len(p) /\ DOMAIN q = 1 .. Len(q) /\ DOMAIN r = 1 .. Len(r)
  BY <1>0, <1>1
<1> HIDE DEF r
<1>3. \A i \in 1 .. Len(r) :
          \/ i \in 1 .. Len(p) /\ r[i] = p[i]
          \/ i > Len(p) /\ i - Len(p) \in 1 .. Len(q) /\ r[i] = q[i - Len(p)]
  BY <1>1, <1>2
<1>4. Sorted(r, H, B)
  <2> SUFFICES ASSUME NEW i \in 1 .. Len(r), NEW j \in 1 .. Len(r), i < j
               PROVE  Precedes(r[i], r[j], H, B)
    BY DEF Sorted
  <2>1. CASE i \in 1 .. Len(p) /\ r[i] = p[i]
    <3>1. CASE j \in 1 .. Len(p) /\ r[j] = p[j]
      BY <2>1, <3>1 DEF InLine, Sorted
    <3>2. CASE j - Len(p) \in 1 .. Len(q) /\ r[j] = q[j - Len(p)]
      <4>1. p[i] \in ToSet(p) /\ q[j - Len(p)] \in ToSet(q)
        BY <1>2, <2>1, <3>2 DEF ToSet
      <4>2. QED
        BY <2>1, <3>2, <4>1 DEF InLine
    <3>3. QED
      BY <1>3, <3>1, <3>2
  <2>2. CASE i > Len(p) /\ i - Len(p) \in 1 .. Len(q) /\ r[i] = q[i - Len(p)]
    <3>1. j \notin 1 .. Len(p) /\ i - Len(p) < j - Len(p)
      BY <1>2, <2>2
    <3>2. j - Len(p) \in 1 .. Len(q) /\ r[j] = q[j - Len(p)]
      BY <1>3, <3>1
    <3>3. QED
      BY <2>2, <3>1, <3>2 DEF InLine, Sorted
  <2>3. QED
    BY <1>3, <2>1, <2>2
<1>5. ToSet(r) = ToSet(p) \cup ToSet(q)
  <2>1. ASSUME NEW i \in 1 .. Len(p) PROVE r[i] = p[i] /\ i \in 1 .. Len(r)
    BY <1>1, <1>2
  <2>2. ASSUME NEW i \in 1 .. Len(q)
        PROVE  r[i + Len(p)] = q[i] /\ i + Len(p) \in 1 .. Len(r)
    <3>1. /\ i + Len(p) \in 1 .. Len(p) + Len(q) /\ ~(i + Len(p) <= Len(p))
          /\ (i + Len(p)) - Len(p) = i
      BY <1>2
    <3>2. QED
      BY <1>1, <3>1
  <2>3. ToSet(r) \subseteq ToSet(p) \cup ToSet(q)
    BY <1>2, <1>3 DEF ToSet
  <2>4. ToSet(p) \subseteq ToSet(r)
    BY <1>2, <2>1 DEF ToSet
  <2>5. ToSet(q) \subseteq ToSet(r)
    BY <1>2, <2>2 DEF ToSet
  <2>6. QED
    BY <2>3, <2>4, <2>5
<1>6. QED
  BY <1>1, <1>4, <1>5 DEF InLine, r

\* More exceptions allow what fewer allow.
LEMMA MoreExceptions ==
    ASSUME NEW p, NEW q, NEW H, NEW B, NEW D, NEW n, InLine(p, q, H, B, D, n),
           NEW H2, NEW B2, H \subseteq H2, B \subseteq B2
    PROVE  InLine(p, q, H2, B2, D, n)
BY DEF InLine, Sorted, Precedes

\* The message at the head of the queue may be pushed out, handed out, or put back.
LEMMA HeadLeaves ==
    ASSUME NEW p, NEW q, NEW H, NEW B, NEW D, NEW n, InLine(p, q, H, B, D, n), q # <<>>
    PROVE  /\ InLine(p, Tail(q), H, B, D \cup {Head(q)}, n)
           /\ InLine(Append(p, Head(q)), Tail(q), H, B, D, n)
           /\ InLine(p, Append(Tail(q), Head(q)), H, B \cup {Head(q)}, D, n)
<1>1. PICK h, t : h = Head(q) /\ t = Tail(q)
  OBVIOUS
<1>2. /\ t \in Seq(Nat) /\ h \in Nat /\ p \in Seq(Nat) /\ q \in Seq(Nat) /\ n \in Nat
      /\ Sorted(t, H, B) /\ Sorted(p, H, B)
      /\ ToSet(q) = {h} \cup ToSet(t)
      /\ \A b \in ToSet(t) : Precedes(h, b, H, B)
      /\ \A a \in ToSet(p), b \in ToSet(q) : Precedes(a, b, H, B)
      /\ ToSet(p) \cup ToSet(q) \cup D = 1 .. n
  BY <1>1, TailSorted DEF InLine
<1>3. InLine(p, t, H, B, D \cup {h}, n)
  <2>1. ToSet(p) \cup ToSet(t) \cup (D \cup {h}) = 1 .. n
    BY <1>2
  <2>2. QED
    BY <1>2, <2>1, Zenon DEF InLine
<1>4. InLine(Append(p, h), t, H, B, D, n)
  <2>1. Append(p, h) \in Seq(Nat) /\ ToSet(Append(p, h)) = ToSet(p) \cup {h}
    BY <1>2, AppendedSet, AppendProperties
  <2>2. Sorted(Append(p, h), H, B)
    BY <1>2, AppendedSorted
  <2> DEFINE r == Append(p, h)
  <2> HIDE DEF r
  <2>3. /\ ToSet(r) \cup ToSet(t) \cup D = 1 .. n
        /\ \A a \in ToSet(r), b \in ToSet(t) : Precedes(a, b, H, B)
    BY <1>2, <2>1 DEF r
  <2>4. QED
    BY <1>2, <2>1, <2>2, <2>3, Zenon DEF InLine, r
<1>5. InLine(p, Append(t, h), H, B \cup {h}, D, n)
  <2>1. Append(t, h) \in Seq(Nat) /\ ToSet(Append(t, h)) = ToSet(t) \cup {h}
    BY <1>2, AppendedSet, AppendProperties
  <2>2. PICK B2 : B2 = B \cup {h}
    OBVIOUS
  <2>3. /\ Sorted(t, H, B2) /\ Sorted(p, H, B2)
        /\ \A a \in ToSet(p), b \in ToSet(q) : Precedes(a, b, H, B2)
    BY <1>2, <2>2 DEF Sorted, Precedes
  <2>4. ASSUME NEW b \in ToSet(t) PROVE Precedes(b, h, H, B2)
    <3>1. b \in Nat /\ (h < b \/ b < h)
      BY <1>2 DEF Precedes
    <3>2. QED
      BY <1>2, <2>2, <3>1 DEF Precedes
  <2>5. Sorted(Append(t, h), H, B2)
    BY <1>2, <2>3, <2>4, AppendedSorted
  <2> DEFINE r == Append(t, h)
  <2> HIDE DEF r
  <2>6. /\ ToSet(p) \cup ToSet(r) \cup D = 1 .. n
        /\ \A a \in ToSet(p), b \in ToSet(r) : Precedes(a, b, H, B2)
    BY <1>2, <2>1, <2>3 DEF r
  <2>7. InLine(p, r, H, B2, D, n)
    BY <1>2, <2>1, <2>3, <2>5, <2>6, Zenon DEF InLine, r
  <2>8. QED
    BY <2>2, <2>7 DEF r
<1>6. QED
  BY <1>1, <1>3, <1>4, <1>5

\* A new message joins the end of the queue.
LEMMA NewWaits ==
    ASSUME NEW p, NEW q, NEW H, NEW B, NEW D, NEW n, InLine(p, q, H, B, D, n)
    PROVE  InLine(p, Append(q, n + 1), H, B, D, n + 1)
<1> DEFINE r == Append(q, n + 1)
<1>1. /\ p \in Seq(Nat) /\ q \in Seq(Nat) /\ n \in Nat /\ n + 1 \in Nat
      /\ ToSet(p) \cup ToSet(q) \cup D = 1 .. n
  BY DEF InLine
<1>2. \A a \in ToSet(p) \cup ToSet(q) : Precedes(a, n + 1, H, B)
  BY <1>1 DEF Precedes
<1>3. /\ r \in Seq(Nat) /\ ToSet(r) = ToSet(q) \cup {n + 1}
      /\ Sorted(r, H, B)
  BY <1>1, <1>2, AppendedSet, AppendedSorted, AppendProperties DEF InLine
<1> HIDE DEF r
<1>4. ToSet(p) \cup ToSet(r) \cup D = 1 .. n + 1
  <2>1. 1 .. n + 1 = (1 .. n) \cup {n + 1}
    BY <1>1
  <2>2. QED
    BY <1>1, <1>3, <2>1, Zenon
<1>5. InLine(p, r, H, B, D, n + 1)
  BY <1>1, <1>2, <1>3, <1>4 DEF InLine
<1>6. QED
  BY <1>5 DEF r

\* Or it is handed out at once, ahead of a queue that may be overtaken.
LEMMA NewOvertakes ==
    ASSUME NEW p, NEW q, NEW H, NEW B, NEW D, NEW n, InLine(p, q, H, B, D, n),
           n + 1 \in H \/ ToSet(q) \subseteq B
    PROVE  InLine(Append(p, n + 1), q, H, B, D, n + 1)
<1> DEFINE r == Append(p, n + 1)
<1>1. /\ p \in Seq(Nat) /\ q \in Seq(Nat) /\ n \in Nat /\ n + 1 \in Nat
      /\ ToSet(p) \cup ToSet(q) \cup D = 1 .. n
  BY DEF InLine
<1>2. /\ \A a \in ToSet(p) : Precedes(a, n + 1, H, B)
      /\ \A b \in ToSet(q) : Precedes(n + 1, b, H, B)
  BY <1>1 DEF Precedes
<1>3. /\ r \in Seq(Nat) /\ ToSet(r) = ToSet(p) \cup {n + 1}
      /\ Sorted(r, H, B)
  BY <1>1, <1>2, AppendedSet, AppendedSorted, AppendProperties DEF InLine
<1> HIDE DEF r
<1>4. ToSet(r) \cup ToSet(q) \cup D = 1 .. n + 1
  <2>1. 1 .. n + 1 = (1 .. n) \cup {n + 1}
    BY <1>1
  <2>2. QED
    BY <1>1, <1>3, <2>1, Zenon
<1>5. InLine(r, q, H, B, D, n + 1)
  BY <1>1, <1>2, <1>3, <1>4 DEF InLine
<1>6. QED
  BY <1>5 DEF r

\* The queue is cleared.
LEMMA AllLeave ==
    ASSUME NEW p, NEW q, NEW H, NEW B, NEW D, NEW n, InLine(p, q, H, B, D, n)
    PROVE  InLine(p, <<>>, H, B, D \cup ToSet(q), n)
<1>1. PICK e : e = <<>>
  OBVIOUS
<1>2. e \in Seq(Nat) /\ Sorted(e, H, B) /\ ToSet(e) = {}
  BY <1>1 DEF Sorted, ToSet
<1>3. ToSet(p) \cup ToSet(e) \cup (D \cup ToSet(q)) = 1 .. n
  BY <1>2 DEF InLine
<1>4. QED
  BY <1>1, <1>2, <1>3, Zenon DEF InLine

-----------------------------------------------------------------------------
(* The invariant *)

Kinds == socket \in [Sockets -> SocketStates] /\ ws \in Sockets \cup {"none"}

\* While the service is connected and idle nothing waits but what was put back, so
\* what is sent straight through overtakes nothing else.
Emptied == IsConnected /\ Idle => ToSet(outbox) \subseteq putBack

Lines == InLine(handed, outbox, hurried, putBack, dropped, sent)

SocketInv == Kinds /\ OneSocket /\ Emptied /\ Lines

LEMMA SocketInitInv == SocketInit => SocketInv
<1> SUFFICES ASSUME SocketInit PROVE SocketInv
  OBVIOUS
<1>1. Kinds /\ OneSocket
  BY DEF SocketInit, Kinds, OneSocket, SocketStates, Live
<1>2. Emptied
  BY DEF SocketInit, Emptied, IsConnected
<1>3. InLine(<<>>, <<>>, {}, {}, {}, 0)
  BY DEF InLine, Sorted, ToSet
<1>4. Lines
  BY <1>3 DEF SocketInit, Lines
<1>5. QED
  BY <1>1, <1>2, <1>4 DEF SocketInv

\* connect opens a socket only when none is live, and a new one is not open.
LEMMA ConnectsEffect ==
    ASSUME NEW now \in [Sockets -> SocketStates], NEW cur \in Sockets \cup {"none"},
           NEW other, NEW held, NEW others, NEW tries,
           \A s \in Sockets : now[s] \in Live => s = cur,
           Connects(now, cur, other, held, others, tries)
    PROVE  /\ Kinds' /\ OneSocket'
           /\ IsConnected' => socket' = now /\ ws' = cur /\ other = "connected"
<1>1. CASE InUse(now, cur) /\ Connected(now, cur, other)
  <2>1. socket' = now /\ ws' = cur /\ state' = other
    BY <1>1 DEF Connected
  <2>2. QED
    BY <2>1 DEF Kinds, OneSocket, IsConnected
<1>2. CASE ~InUse(now, cur) /\ Connected(now, cur, other)
  <2>1. PICK s \in Sockets :
            /\ socket' = [now EXCEPT ![s] = "connecting"]
            /\ ws' = s /\ state' = "connecting"
    BY <1>2 DEF Connected
  <2>2. \A t \in Sockets : now[t] \notin Live
    BY <1>2, SocketAssumption DEF InUse
  <2>3. Kinds' /\ OneSocket'
    BY <2>1, <2>2 DEF Kinds, OneSocket, SocketStates
  <2>4. ~IsConnected'
    BY <2>1 DEF IsConnected
  <2>5. QED
    BY <2>3, <2>4
<1>3. CASE ~InUse(now, cur) /\ ScheduleReconnect(held, others, tries)
           /\ socket' = now /\ ws' = cur
  <2>1. state' # "connected"
    BY <1>3 DEF ScheduleReconnect
  <2>2. QED
    BY <1>3, <2>1 DEF Kinds, OneSocket, IsConnected
<1>4. QED
  BY <1>1, <1>2, <1>3 DEF Connects

\* The socket that was closed is live no more.
LEMMA ClosedEffect ==
    ASSUME SocketInv
    PROVE  /\ Closed(ws) \in [Sockets -> SocketStates]
           /\ \A s \in Sockets : Closed(ws)[s] \notin Live
<1>1. CASE ws = "none"
  BY <1>1, SocketAssumption DEF Closed, SocketInv, Kinds, OneSocket
<1>2. CASE ws \in Sockets
  <2> DEFINE x == CASE socket[ws] = "open" -> "closing"
                    [] socket[ws] \in {"connecting", "dead"} -> "lost"
                    [] OTHER -> socket[ws]
  <2>1. x \in SocketStates /\ x \notin Live
    BY <1>2 DEF SocketInv, Kinds, SocketStates, Live
  <2>2. Closed(ws) = [socket EXCEPT ![ws] = x]
    BY <1>2, SocketAssumption DEF Closed
  <2> HIDE DEF x
  <2>3. QED
    BY <1>2, <2>1, <2>2 DEF SocketInv, Kinds, OneSocket
<1>3. QED
  BY <1>1, <1>2 DEF SocketInv, Kinds

\* The queue and what was handed out stay, and the service does not become
\* connected and idle.
LEMMA QueueStays ==
    ASSUME SocketInv, UNCHANGED queue, IsConnected' /\ Idle' => IsConnected /\ Idle
    PROVE  Emptied' /\ Lines'
BY DEF SocketInv, Emptied, Lines, queue

-----------------------------------------------------------------------------
(* The steps *)

LEMMA ConnectingStep ==
    ASSUME SocketInv, NEW held, NEW others, NEW tries,
           Connects(socket, ws, state, held, others, tries), UNCHANGED <<task, queue>>
    PROVE  SocketInv'
<1>1. /\ Kinds' /\ OneSocket'
      /\ IsConnected' => socket' = socket /\ ws' = ws /\ state = "connected"
  BY ConnectsEffect DEF SocketInv, Kinds, OneSocket
<1>2. IsConnected' /\ Idle' => IsConnected /\ Idle
  BY <1>1 DEF IsConnected, IsOpen, Idle
<1>3. QED
  BY <1>1, <1>2, QueueStays DEF SocketInv

LEMMA DisconnectStep ==
    ASSUME SocketInv, NEW destroy \in BOOLEAN, Disconnect(destroy)
    PROVE  SocketInv'
<1>1. Kinds' /\ OneSocket'
  BY ClosedEffect DEF Disconnect, Kinds, OneSocket
<1>2. ~IsConnected'
  BY DEF Disconnect, IsConnected
<1>3. Lines'
  <2>1. UNCHANGED <<sent, handed, hurried, putBack>>
    BY DEF Disconnect
  <2>2. CASE outbox' = <<>> /\ dropped' = dropped \cup ToSet(outbox)
    BY <2>1, <2>2, AllLeave DEF SocketInv, Lines
  <2>3. CASE UNCHANGED <<outbox, dropped>>
    BY <2>1, <2>3 DEF SocketInv, Lines
  <2>4. QED
    BY <2>2, <2>3, Zenon DEF Disconnect
<1>4. QED
  BY <1>1, <1>2, <1>3 DEF SocketInv, Emptied

LEMMA HeartbeatStep == ASSUME SocketInv, Heartbeat PROVE SocketInv'
<1>1. PICK now, cur, other : now = Closed(ws) /\ cur = "none" /\ other = "disconnected"
  OBVIOUS
<1>2. /\ now \in [Sockets -> SocketStates] /\ cur \in Sockets \cup {"none"}
      /\ \A s \in Sockets : now[s] \in Live => s = cur
      /\ Connects(now, cur, other, FALSE, strays, 0)
  BY <1>1, ClosedEffect DEF Heartbeat
<1>3. /\ Kinds' /\ OneSocket'
      /\ IsConnected' => other = "connected"
  BY <1>2, ConnectsEffect, Zenon
<1>4. ~IsConnected' /\ UNCHANGED queue
  BY <1>1, <1>3 DEF Heartbeat
<1>5. QED
  BY <1>3, <1>4, QueueStays DEF SocketInv

\* What goes to the queue may push its oldest message out.
LEMMA QueuedInLine ==
    ASSUME SocketInv
    PROVE  /\ InLine(handed, Queued(outbox, sent + 1), hurried, putBack,
                     dropped \cup PushedOut(outbox), sent + 1)
           /\ ToSet(Queued(outbox, sent + 1)) \subseteq ToSet(outbox) \cup {sent + 1}
<1>1. PICK room, out : /\ room = IF Len(outbox) >= QueueSize THEN Tail(outbox) ELSE outbox
                       /\ out = PushedOut(outbox)
  OBVIOUS
<1>2. outbox \in Seq(Nat) /\ sent \in Nat
  BY DEF SocketInv, Lines, InLine
<1>3. /\ room \in Seq(Nat) /\ ToSet(room) \subseteq ToSet(outbox)
      /\ InLine(handed, room, hurried, putBack, dropped \cup out, sent)
  <2>1. CASE Len(outbox) >= QueueSize
    <3>1. outbox # <<>>
      BY <1>2, <2>1, SocketAssumption
    <3>2. room = Tail(outbox) /\ out = {Head(outbox)}
      BY <1>1, <2>1 DEF PushedOut
    <3>3. InLine(handed, room, hurried, putBack, dropped \cup out, sent)
      BY <3>1, <3>2, HeadLeaves DEF SocketInv, Lines
    <3>4. room \in Seq(Nat) /\ ToSet(room) \subseteq ToSet(outbox)
      BY <1>2, <3>1, <3>2, TailSorted DEF SocketInv, Lines, InLine
    <3>5. QED
      BY <3>3, <3>4
  <2>2. CASE ~(Len(outbox) >= QueueSize)
    <3>1. room = outbox /\ dropped \cup out = dropped
      BY <1>1, <2>2 DEF PushedOut
    <3>2. QED
      BY <1>2, <3>1 DEF SocketInv, Lines
  <2>3. QED
    BY <2>1, <2>2
<1>4. InLine(handed, Append(room, sent + 1), hurried, putBack, dropped \cup out, sent + 1)
  BY <1>3, NewWaits
<1>5. ToSet(Append(room, sent + 1)) \subseteq ToSet(outbox) \cup {sent + 1}
  BY <1>3, AppendedSet
<1>6. Queued(outbox, sent + 1) = Append(room, sent + 1)
  BY <1>1 DEF Queued
<1>7. QED
  BY <1>1, <1>4, <1>5, <1>6

LEMMA SendStep ==
    ASSUME SocketInv, NEW throws \in BOOLEAN, SendMessage(throws)
    PROVE  SocketInv'
<1>1. /\ Kinds' /\ OneSocket' /\ (IsConnected' <=> IsConnected) /\ (Idle' <=> Idle)
  BY DEF SendMessage, SocketInv, Kinds, OneSocket, IsConnected, IsOpen, Idle
<1>2. /\ sent' = sent + 1
      /\ hurried' = IF Idle THEN hurried ELSE hurried \cup {sent + 1}
      /\ putBack' = IF throws THEN putBack \cup {sent + 1} ELSE putBack
  BY DEF SendMessage
<1>3. hurried \subseteq hurried' /\ putBack \subseteq putBack'
  BY <1>2
<1>4. CASE IsConnected /\ ~throws
  <2>1. /\ handed' = Append(handed, sent + 1)
        /\ outbox' = outbox /\ dropped' = dropped
    BY <1>2, <1>4 DEF SendMessage
  <2>2. InLine(handed, outbox, hurried', putBack', dropped, sent)
    BY <1>3, MoreExceptions DEF SocketInv, Lines
  <2>3. sent + 1 \in hurried' \/ ToSet(outbox) \subseteq putBack'
    BY <1>2, <1>4 DEF SocketInv, Emptied
  <2>4. InLine(Append(handed, sent + 1), outbox, hurried', putBack', dropped, sent + 1)
    BY <2>2, <2>3, NewOvertakes
  <2>5. Lines'
    BY <1>2, <2>1, <2>4 DEF Lines
  <2>6. Emptied'
    BY <1>1, <1>3, <2>1 DEF SocketInv, Emptied
  <2>7. QED
    BY <1>1, <2>5, <2>6 DEF SocketInv
<1>5. CASE ~(IsConnected /\ ~throws)
  <2>1. /\ handed' = handed
        /\ outbox' = Queued(outbox, sent + 1) /\ dropped' = dropped \cup PushedOut(outbox)
    BY <1>2, <1>5 DEF SendMessage
  <2>2. InLine(handed', outbox', hurried, putBack, dropped', sent')
    BY <1>2, <2>1, QueuedInLine
  <2>3. Lines'
    BY <1>3, <2>2, MoreExceptions DEF Lines
  <2>4. Emptied'
    BY <1>1, <1>2, <1>5, <2>1, QueuedInLine DEF SocketInv, Emptied
  <2>5. QED
    BY <1>1, <2>3, <2>4 DEF SocketInv
<1>6. QED
  BY <1>4, <1>5

LEMMA OpensStep == ASSUME SocketInv, NEW s \in Sockets, Opens(s) PROVE SocketInv'
<1>1. Kinds' /\ OneSocket'
  BY DEF Opens, SocketInv, Kinds, OneSocket, SocketStates, Live
<1>2. ~Idle' /\ UNCHANGED queue
  BY DEF Opens, Idle
<1>3. QED
  BY <1>1, <1>2, QueueStays DEF SocketInv

LEMMA FlushStep ==
    ASSUME SocketInv, NEW throws \in BOOLEAN, Flush(throws)
    PROVE  SocketInv'
<1>1. Kinds' /\ OneSocket' /\ ~Idle'
  BY DEF Flush, SocketInv, Kinds, OneSocket, Idle
<1>2. outbox # <<>> /\ UNCHANGED <<sent, dropped, hurried>>
  BY DEF Flush
<1>3. CASE throws
  <2>1. /\ outbox' = Append(Tail(outbox), Head(outbox)) /\ handed' = handed
        /\ putBack' = putBack \cup {Head(outbox)}
    BY <1>3 DEF Flush, Requeued
  <2>2. QED
    BY <1>1, <1>2, <2>1, HeadLeaves DEF SocketInv, Emptied, Lines
<1>4. CASE ~throws
  <2>1. /\ outbox' = Tail(outbox) /\ handed' = Append(handed, Head(outbox))
        /\ putBack' = putBack
    BY <1>4 DEF Flush
  <2>2. QED
    BY <1>1, <1>2, <2>1, HeadLeaves DEF SocketInv, Emptied, Lines
<1>5. QED
  BY <1>3, <1>4

LEMMA FlushEndsStep == ASSUME SocketInv, FlushEnds PROVE SocketInv'
<1>1. Kinds' /\ OneSocket'
  BY DEF FlushEnds, SocketInv, Kinds, OneSocket
<1>2. UNCHANGED queue /\ (IsConnected' <=> IsConnected)
  BY DEF FlushEnds, IsConnected, IsOpen
<1>3. IsConnected => ToSet(outbox) = {}
  BY DEF FlushEnds, ToSet
<1>4. Emptied' /\ Lines'
  BY <1>2, <1>3 DEF SocketInv, Emptied, Lines, queue
<1>5. QED
  BY <1>1, <1>4 DEF SocketInv

LEMMA ClosesStep ==
    ASSUME SocketInv, NEW s \in Sockets, NEW normal \in BOOLEAN, Closes(s, normal)
    PROVE  SocketInv'
<1>1. Kinds' /\ OneSocket'
  BY DEF Closes, SocketInv, Kinds, OneSocket, SocketStates, Live
<1>2. state' # "connected"
  BY DEF Closes, ScheduleReconnect
<1>3. QED
  BY <1>1, <1>2, QueueStays DEF SocketInv, Closes, IsConnected

LEMMA DiesStep == ASSUME SocketInv, NEW s \in Sockets, Dies(s) PROVE SocketInv'
<1>1. Kinds' /\ OneSocket'
  BY DEF Dies, SocketInv, Kinds, OneSocket, SocketStates, Live
<1>2. IsConnected' /\ Idle' => IsConnected /\ Idle
  BY SocketAssumption DEF Dies, IsConnected, IsOpen, SocketInv, Kinds, Idle
<1>3. QED
  BY <1>1, <1>2, QueueStays DEF SocketInv, Dies

\* Steps that touch neither the sockets nor the queue.
LEMMA OtherStep ==
    ASSUME SocketInv, UNCHANGED <<socket, ws, state, task, queue>>
    PROVE  SocketInv'
<1>1. Kinds' /\ OneSocket' /\ (IsConnected' /\ Idle' => IsConnected /\ Idle)
  BY DEF SocketInv, Kinds, OneSocket, IsConnected, IsOpen, Idle
<1>2. QED
  BY <1>1, QueueStays DEF SocketInv

LEMMA SocketNextInv == ASSUME SocketInv, [SocketNext]_socketVars PROVE SocketInv'
<1>1. CASE UNCHANGED socketVars
  BY <1>1, OtherStep DEF socketVars
<1>2. CASE Connect \/ ReconnectTimer \/ StrayTimer
  BY <1>2, ConnectingStep DEF Connect, ReconnectTimer, StrayTimer
<1>3. CASE GrowsSilent \/ \E s \in Sockets : Hears(s)
  BY <1>3, OtherStep DEF GrowsSilent, Hears
<1>4. CASE \E s \in Sockets : SocketEvent(s)
  BY <1>4, OpensStep, ClosesStep DEF SocketEvent, TellsClosed
<1>5. CASE \E s \in Sockets : Dies(s) \/ \E normal \in BOOLEAN : Breaks(s, normal)
  BY <1>5, ClosesStep, DiesStep DEF Breaks
<1>6. CASE \E b \in BOOLEAN : Disconnect(b) \/ SendMessage(b) \/ Flush(b)
  BY <1>6, DisconnectStep, SendStep, FlushStep
<1>7. CASE FlushEnds \/ Heartbeat
  BY <1>7, FlushEndsStep, HeartbeatStep
<1>8. QED
  BY <1>1, <1>2, <1>3, <1>4, <1>5, <1>6, <1>7, Zenon DEF SocketNext, SocketStep

\* However the application, the timers and late events of old sockets mix, there
\* is at most one live socket, and the service knows it.
THEOREM SocketCorrect == SocketSpec => []OneSocket
<1>1. SocketInv => OneSocket
  BY DEF SocketInv
<1>2. QED
  BY SocketInitInv, SocketNextInv, <1>1, PTL DEF SocketSpec

\* No message is lost but those pushed out of a full queue, none is handed out twice,
\* and a later one overtakes an earlier one only when a state handler sent it or the
\* sending of the earlier one threw: across any number of reconnections.
THEOREM OrderCorrect == SocketSpec => []InOrder
<1>1. SocketInv => InOrder
  <2> SUFFICES ASSUME SocketInv PROVE InOrder
    OBVIOUS
  <2> DEFINE all == handed \o outbox
  <2>1. /\ all \in Seq(Nat) /\ Sorted(all, hurried, putBack)
        /\ ToSet(all) \cup dropped = 1 .. sent
    BY ConcatSorted DEF SocketInv, Lines
  <2>2. DOMAIN all = 1 .. Len(all)
    BY <2>1
  <2> HIDE DEF all
  <2>3. \A i, j \in DOMAIN all : i < j =>
            \/ all[i] < all[j]
            \/ all[i] > all[j] /\ (all[i] \in hurried \/ all[j] \in putBack)
    BY <2>1, <2>2 DEF Sorted, Precedes
  <2>4. QED
    BY <2>1, <2>3 DEF InOrder, all
<1>2. QED
  BY SocketInitInv, SocketNextInv, <1>1, PTL DEF SocketSpec

-----------------------------------------------------------------------------
(* The types of the service, in three parts.                                  *)

States == {"connecting", "connected", "disconnected", "reconnecting", "error"}

Booleans == {reconnecting, beating, silent, wanted, dismissed, stranded} \subseteq BOOLEAN

Places ==
    /\ socket \in [Sockets -> SocketStates]
    /\ ws \in Sockets \cup {"none"}
    /\ state \in States
    /\ task \in {"none", "notify", "flush"}
    /\ attempts \in 0 .. MaxReconnects /\ strays \in Nat
    /\ switches \in 0 .. MaxSwitches /\ breaks \in 0 .. MaxBreaks

Queues ==
    /\ outbox \in Seq(1 .. MaxMessages) /\ Len(outbox) <= QueueSize
    /\ handed \in Seq(1 .. MaxMessages)
    /\ dropped \subseteq 1 .. MaxMessages
    /\ hurried \subseteq 1 .. MaxMessages /\ putBack \subseteq 1 .. MaxMessages
    /\ sent \in 0 .. MaxMessages

LEMMA SocketParts == SocketTypeOK <=> Booleans /\ Places /\ Queues
BY DEF SocketTypeOK, Booleans, Places, Queues, States

\* A reconnection is scheduled as often as it may be.
LEMMA ScheduledPlaces ==
    ASSUME NEW held, NEW others \in Nat, NEW tries \in 0 .. MaxReconnects,
           ScheduleReconnect(held, others, tries)
    PROVE  /\ state' \in States /\ attempts' \in 0 .. MaxReconnects /\ strays' \in Nat
           /\ reconnecting' = TRUE \/ reconnecting' = held
<1>1. MaxReconnects \in Nat
  BY SocketAssumption
<1>2. CASE tries >= MaxReconnects
  BY <1>2, Zenon DEF ScheduleReconnect, States
<1>3. CASE ~(tries >= MaxReconnects)
  <2>1. tries + 1 \in 0 .. MaxReconnects
    BY <1>1, <1>3
  <2>2. others + (IF held THEN 1 ELSE 0) \in Nat
    OBVIOUS
  <2>3. QED
    BY <1>3, <2>1, <2>2, Zenon DEF ScheduleReconnect, States
<1>4. QED
  BY <1>2, <1>3

LEMMA ConnectsPlaces ==
    ASSUME NEW table \in [Sockets -> SocketStates], NEW cur \in Sockets \cup {"none"},
           NEW other \in States, NEW held, NEW others \in Nat,
           NEW tries \in 0 .. MaxReconnects,
           Connects(table, cur, other, held, others, tries)
    PROVE  /\ socket' \in [Sockets -> SocketStates]
           /\ ws' \in Sockets \cup {"none"}
           /\ state' \in States /\ attempts' \in 0 .. MaxReconnects /\ strays' \in Nat
           /\ reconnecting' = TRUE \/ reconnecting' = held
<1>1. CASE /\ Connected(table, cur, other)
           /\ reconnecting' = held /\ strays' = others /\ attempts' = tries
  <2>1. /\ socket' \in [Sockets -> SocketStates]
        /\ ws' \in Sockets \cup {"none"} /\ state' \in States
    BY <1>1 DEF Connected, SocketStates, States
  <2>2. QED
    BY <1>1, <2>1, Zenon
<1>2. CASE socket' = table /\ ws' = cur /\ ScheduleReconnect(held, others, tries)
  BY <1>2, ScheduledPlaces, Zenon
<1>3. QED
  BY <1>1, <1>2, Zenon DEF Connects

LEMMA ClosedPlaces ==
    ASSUME Places, NEW s \in Sockets \cup {"none"}
    PROVE  Closed(s) \in [Sockets -> SocketStates]
<1>1. CASE s = "none"
  BY <1>1 DEF Places, Closed
<1>2. CASE s \in Sockets /\ s # "none"
  <2> DEFINE v == CASE socket[s] = "open" -> "closing"
                    [] socket[s] \in {"connecting", "dead"} -> "lost"
                    [] OTHER -> socket[s]
  <2>1. v \in SocketStates
    BY <1>2 DEF Places, SocketStates
  <2>2. Closed(s) = [socket EXCEPT ![s] = v]
    BY <1>2 DEF Closed
  <2> HIDE DEF v
  <2>3. QED
    BY <2>1, <2>2 DEF Places
<1>3. QED
  BY <1>1, <1>2

LEMMA ClosesPlaces ==
    ASSUME Places, NEW s \in Sockets, NEW normal \in BOOLEAN, Closes(s, normal)
    PROVE  /\ socket' \in [Sockets -> SocketStates] /\ ws' = ws /\ task' = task
           /\ state' \in States
           /\ attempts' \in 0 .. MaxReconnects /\ strays' \in Nat /\ switches' = switches
<1>1. socket' \in [Sockets -> SocketStates]
  BY DEF Closes, Places, SocketStates
<1>2. CASE normal
  BY <1>1, <1>2, Zenon DEF Closes, Places, States
<1>3. CASE ~normal
  <2>1. ScheduleReconnect(FALSE, strays, attempts)
    BY <1>3, Zenon DEF Closes
  <2>2. state' \in States /\ attempts' \in 0 .. MaxReconnects /\ strays' \in Nat
    BY <2>1, ScheduledPlaces DEF Places
  <2>3. QED
    BY <1>1, <2>2, Zenon DEF Closes
<1>4. QED
  BY <1>2, <1>3

LEMMA PlacesStep == ASSUME Places, [SocketNext]_socketVars PROVE Places'
<1> /\ {MaxSwitches, MaxBreaks, MaxReconnects} \subseteq Nat
    /\ switches \in 0 .. MaxSwitches /\ breaks \in 0 .. MaxBreaks
  BY SocketAssumption DEF Places
<1>1. CASE Connect \/ ReconnectTimer \/ StrayTimer
  <2>1. /\ socket \in [Sockets -> SocketStates] /\ ws \in Sockets \cup {"none"}
        /\ state \in States /\ attempts \in 0 .. MaxReconnects /\ strays \in Nat
        /\ task \in {"none", "notify", "flush"}
    BY DEF Places
  <2>2. /\ task' = task /\ breaks' = breaks
        /\ \/ switches < MaxSwitches /\ switches' = switches + 1
           \/ switches' = switches
    BY <1>1 DEF Connect, ReconnectTimer, StrayTimer
  <2>3. switches' \in 0 .. MaxSwitches
    BY <2>2
  <2>4. \/ Connects(socket, ws, state, reconnecting, strays, attempts)
        \/ Connects(socket, ws, state, FALSE, strays, attempts)
        \/ /\ strays - 1 \in Nat
           /\ Connects(socket, ws, state, reconnecting, strays - 1, attempts)
    <3>1. CASE Connect
      BY <3>1, Zenon DEF Connect
    <3>2. CASE ReconnectTimer
      BY <3>2, Zenon DEF ReconnectTimer
    <3>3. CASE StrayTimer
      <4>1. strays - 1 \in Nat
        BY <2>1, <3>3 DEF StrayTimer
      <4>2. QED
        BY <3>3, <4>1, Zenon DEF StrayTimer
    <3>4. QED
      BY <1>1, <3>1, <3>2, <3>3
  <2>5. /\ socket' \in [Sockets -> SocketStates] /\ ws' \in Sockets \cup {"none"}
        /\ state' \in States /\ attempts' \in 0 .. MaxReconnects /\ strays' \in Nat
    BY <2>1, <2>4, ConnectsPlaces, Zenon
  <2>6. QED
    BY <2>1, <2>2, <2>3, <2>5, Zenon DEF Places
<1>2. CASE \E destroy \in BOOLEAN : Disconnect(destroy)
  BY <1>2, ClosedPlaces, SocketAssumption DEF Disconnect, Places, States
<1>3. CASE Heartbeat
  <2>1. Closed(ws) \in [Sockets -> SocketStates]
    BY ClosedPlaces DEF Places
  <2>2. /\ task' = task /\ switches' = switches /\ breaks' = breaks
        /\ Connects(Closed(ws), "none", "disconnected", FALSE, strays, 0)
    BY <1>3 DEF Heartbeat
  <2>3. "disconnected" \in States /\ strays \in Nat /\ 0 \in 0 .. MaxReconnects
    BY DEF Places, States
  <2>4. QED
    BY <2>1, <2>2, <2>3, ConnectsPlaces DEF Places
<1>4. CASE \/ \E throws \in BOOLEAN : SendMessage(throws) \/ Flush(throws)
           \/ GrowsSilent \/ FlushEnds
           \/ \E s \in Sockets : Hears(s)
           \/ UNCHANGED socketVars
  BY <1>4 DEF SendMessage, Flush, GrowsSilent, FlushEnds, Hears, socketVars, timers, Places
<1>5. CASE \E s \in Sockets : Opens(s) \/ Dies(s)
  BY <1>5 DEF Opens, Dies, Places, SocketStates, timers, States
<1>6. CASE \E s \in Sockets, normal \in BOOLEAN : Breaks(s, normal) \/ TellsClosed(s, normal)
  <2>1. PICK s \in Sockets, normal \in BOOLEAN : Breaks(s, normal) \/ TellsClosed(s, normal)
    BY <1>6
  <2>2. /\ Closes(s, normal)
        /\ \/ breaks < MaxBreaks /\ breaks' = breaks + 1
           \/ breaks' = breaks
    BY <2>1 DEF Breaks, TellsClosed
  <2>3. breaks' \in 0 .. MaxBreaks
    BY <2>2
  <2>4. QED
    BY <2>2, <2>3, ClosesPlaces DEF Places
<1>7. QED
  BY <1>1, <1>2, <1>3, <1>4, <1>5, <1>6, Zenon DEF SocketNext, SocketStep, SocketEvent

\* What a message does to the queue keeps it of its type and within its bound.
LEMMA QueuedPlaces ==
    ASSUME Queues, NEW m \in 1 .. MaxMessages
    PROVE  /\ Append(handed, m) \in Seq(1 .. MaxMessages)
           /\ Queued(outbox, m) \in Seq(1 .. MaxMessages)
           /\ Len(Queued(outbox, m)) <= QueueSize
           /\ PushedOut(outbox) \subseteq 1 .. MaxMessages
<1> outbox \in Seq(1 .. MaxMessages) /\ handed \in Seq(1 .. MaxMessages)
    /\ Len(outbox) <= QueueSize /\ QueueSize \in Nat \ {0}
  BY SocketAssumption DEF Queues
<1>1. CASE Len(outbox) >= QueueSize
  <2>1. outbox # <<>>
    BY <1>1
  <2>2. /\ Tail(outbox) \in Seq(1 .. MaxMessages) /\ Len(Tail(outbox)) = Len(outbox) - 1
        /\ Head(outbox) \in 1 .. MaxMessages
    BY <2>1, HeadTailProperties
  <2>3. QED
    BY <1>1, <2>2, AppendProperties DEF Queued, PushedOut
<1>2. CASE ~(Len(outbox) >= QueueSize)
  BY <1>2, AppendProperties DEF Queued, PushedOut
<1>3. QED
  BY <1>1, <1>2

LEMMA QueuesStep == ASSUME Queues, [SocketNext]_socketVars PROVE Queues'
<1> /\ MaxMessages \in Nat /\ QueueSize \in Nat \ {0}
    /\ outbox \in Seq(1 .. MaxMessages) /\ Len(outbox) <= QueueSize
    /\ handed \in Seq(1 .. MaxMessages)
    /\ dropped \subseteq 1 .. MaxMessages
    /\ hurried \subseteq 1 .. MaxMessages /\ putBack \subseteq 1 .. MaxMessages
    /\ sent \in 0 .. MaxMessages
  BY SocketAssumption DEF Queues
<1>1. CASE \E throws \in BOOLEAN : SendMessage(throws)
  <2>0. PICK throws \in BOOLEAN : SendMessage(throws)
    BY <1>1
  <2>1. sent' \in 1 .. MaxMessages
    BY <2>0 DEF SendMessage
  <2>2. PICK m \in 1 .. MaxMessages : m = sent'
    BY <2>1
  <2>3. /\ hurried' = IF Idle THEN hurried ELSE hurried \cup {m}
        /\ putBack' = IF throws THEN putBack \cup {m} ELSE putBack
        /\ \/ handed' = Append(handed, m) /\ UNCHANGED <<outbox, dropped>>
           \/ /\ outbox' = Queued(outbox, m) /\ dropped' = dropped \cup PushedOut(outbox)
              /\ UNCHANGED handed
    BY <2>0, <2>2 DEF SendMessage
  <2>4. hurried' \subseteq 1 .. MaxMessages /\ putBack' \subseteq 1 .. MaxMessages
    BY <2>3
  <2>5. /\ outbox' \in Seq(1 .. MaxMessages) /\ Len(outbox') <= QueueSize
        /\ handed' \in Seq(1 .. MaxMessages) /\ dropped' \subseteq 1 .. MaxMessages
    BY <2>3, QueuedPlaces
  <2>6. sent' \in 0 .. MaxMessages
    BY <2>1
  <2>7. QED
    BY <2>4, <2>5, <2>6, Zenon DEF Queues
<1>2. CASE \E throws \in BOOLEAN : Flush(throws)
  <2>0. PICK throws \in BOOLEAN : Flush(throws)
    BY <1>2
  <2>1. outbox # <<>> /\ UNCHANGED <<sent, dropped, hurried>>
    BY <2>0 DEF Flush
  <2>2. PICK h, t : h = Head(outbox) /\ t = Tail(outbox)
    OBVIOUS
  <2>3. /\ t \in Seq(1 .. MaxMessages) /\ Len(t) = Len(outbox) - 1
        /\ h \in 1 .. MaxMessages
    BY <2>1, <2>2, HeadTailProperties
  <2>4. \/ /\ outbox' = Append(t, h) /\ putBack' = putBack \cup {h} /\ handed' = handed
        \/ /\ outbox' = t /\ handed' = Append(handed, h) /\ putBack' = putBack
    BY <2>0, <2>2 DEF Flush, Requeued
  <2>5. /\ Append(t, h) \in Seq(1 .. MaxMessages) /\ Len(Append(t, h)) = Len(outbox)
        /\ Append(handed, h) \in Seq(1 .. MaxMessages)
    BY <2>3, AppendProperties
  <2>6. /\ outbox' \in Seq(1 .. MaxMessages) /\ Len(outbox') <= QueueSize
        /\ handed' \in Seq(1 .. MaxMessages) /\ putBack' \subseteq 1 .. MaxMessages
    <3>1. CASE outbox' = Append(t, h) /\ putBack' = putBack \cup {h} /\ handed' = handed
      BY <2>3, <2>5, <3>1
    <3>2. CASE outbox' = t /\ handed' = Append(handed, h) /\ putBack' = putBack
      BY <2>3, <2>5, <3>2
    <3>3. QED
      BY <2>4, <3>1, <3>2
  <2>7. QED
    BY <2>1, <2>6, Zenon DEF Queues
<1>3. CASE \E destroy \in BOOLEAN : Disconnect(destroy)
  <2>1. /\ UNCHANGED <<sent, handed, hurried, putBack>>
        /\ \/ UNCHANGED <<outbox, dropped>>
           \/ outbox' = <<>> /\ dropped' = dropped \cup ToSet(outbox)
    BY <1>3 DEF Disconnect
  <2>2. ToSet(outbox) \subseteq 1 .. MaxMessages
    BY DEF ToSet
  <2>3. PICK e : e = <<>>
    OBVIOUS
  <2>4. e \in Seq(1 .. MaxMessages) /\ Len(e) <= QueueSize
    BY <2>3
  <2>5. CASE UNCHANGED <<outbox, dropped>>
    BY <2>1, <2>5 DEF Queues
  <2>6. CASE outbox' = e /\ dropped' = dropped \cup ToSet(outbox)
    BY <2>1, <2>2, <2>4, <2>6 DEF Queues
  <2>7. QED
    BY <2>1, <2>3, <2>5, <2>6
<1>4. CASE UNCHANGED queue
  BY <1>4 DEF queue, Queues
<1>5. QED
  BY <1>1, <1>2, <1>3, <1>4
     DEF SocketNext, SocketStep, SocketEvent, Connect, ReconnectTimer, StrayTimer,
         Heartbeat, GrowsSilent, FlushEnds, Opens, Breaks, Dies, Hears, TellsClosed, Closes,
         socketVars

LEMMA BooleansStep == ASSUME Booleans, [SocketNext]_socketVars PROVE Booleans'
<1>1. /\ reconnecting' \in BOOLEAN /\ beating' \in BOOLEAN /\ silent' \in BOOLEAN
      /\ wanted' \in BOOLEAN /\ dismissed' \in BOOLEAN /\ stranded' \in BOOLEAN
  <2> USE DEF Booleans
  <2>0. ASSUME NEW table, NEW cur, NEW other, NEW held \in BOOLEAN, NEW others, NEW tries,
               \/ Connects(table, cur, other, held, others, tries)
               \/ ScheduleReconnect(held, others, tries)
        PROVE  reconnecting' \in BOOLEAN
    BY <2>0, Zenon DEF Connects, ScheduleReconnect
  <2>1. CASE \/ GrowsSilent \/ FlushEnds \/ UNCHANGED socketVars
             \/ \E b \in BOOLEAN : Disconnect(b) \/ SendMessage(b) \/ Flush(b)
    BY <2>1, Zenon DEF Disconnect, SendMessage, Flush, FlushEnds, GrowsSilent, timers,
                       socketVars
  <2>2. CASE Connect \/ ReconnectTimer \/ StrayTimer \/ Heartbeat
    BY <2>0, <2>2, Zenon DEF Connect, ReconnectTimer, StrayTimer, Heartbeat
  <2>3. CASE \E s \in Sockets : Opens(s) \/ Dies(s) \/ Hears(s)
    BY <2>3, Zenon DEF Opens, Dies, Hears, timers
  <2>4. ASSUME NEW s \in Sockets, NEW normal \in BOOLEAN, Closes(s, normal)
        PROVE  /\ reconnecting' \in BOOLEAN /\ beating' \in BOOLEAN /\ silent' \in BOOLEAN
               /\ wanted' \in BOOLEAN /\ dismissed' \in BOOLEAN /\ stranded' \in BOOLEAN
    <3>1. reconnecting' \in BOOLEAN
      BY <2>0, <2>4, Zenon DEF Closes
    <3>2. /\ dismissed' = (dismissed \/ (normal /\ (s = ws \/ ~InUse(socket, ws))))
          /\ stranded' = (s # ws /\ (stranded \/ IsOpen(ws)))
      BY <2>4, Zenon DEF Closes
    <3>3. dismissed' \in BOOLEAN /\ stranded' \in BOOLEAN
      BY <3>2, Zenon
    <3>4. QED
      BY <2>4, <3>1, <3>3, Zenon DEF Closes
  <2>5. ASSUME NEW s \in Sockets, NEW normal \in BOOLEAN,
               Breaks(s, normal) \/ TellsClosed(s, normal)
        PROVE  Closes(s, normal)
    BY <2>5, Zenon DEF Breaks, TellsClosed
  <2>6. QED
    BY <2>1, <2>2, <2>3, <2>4, <2>5, Zenon DEF SocketNext, SocketStep, SocketEvent
<1>2. QED
  BY <1>1, Zenon DEF Booleans

\* Every reachable state of the service is well typed: its queue never outgrows
\* messageQueueSize, and it counts no more reconnections than it may try.
THEOREM SocketTypeCorrect == SocketSpec => []SocketTypeOK
<1>1. SocketInit => Places /\ Queues
  BY SocketAssumption DEF SocketInit, Places, Queues, SocketStates, States
<1>2. SocketInit => Booleans
  BY Zenon DEF SocketInit, Booleans
<1>3. QED
  BY <1>1, <1>2, SocketParts, PlacesStep, QueuesStep, BooleansStep, PTL DEF SocketSpec

-----------------------------------------------------------------------------
(* THE THREE TOGETHER, as the run checks them: a behaviour of one of them is    *)
(* a behaviour of each, the two others standing still.                         *)

\* Every reachable state of the escrows of the database is well typed.
THEOREM SettlementTypeCorrect == SettlementSpec => []SettlementTypeOK
<1>1. SettlementInv => SettlementTypeOK
  BY DEF SettlementInv, Types, SettlementTypeOK
<1>2. QED
  BY SettlementInitInv, SettlementNextInv, <1>1, PTL DEF SettlementSpec

\* The steps of the three are steps of each, or leave it alone; so what is proved
\* of each on its own holds in the specification that the run checks.
THEOREM PartsImplemented == Spec => SettlementSpec /\ BreakerSpec /\ SocketSpec
<1>1. Init => SettlementInit /\ BreakerInit /\ SocketInit
  BY DEF Init
<1>2. [Next]_Vars => /\ [SettlementNext]_settlementVars
                     /\ [BreakerNext]_breakerVars
                     /\ [SocketNext]_socketVars
  BY DEF Next, Vars, Settles, Guards, Talks
<1>3. QED
  BY <1>1, <1>2, PTL DEF Spec, SettlementSpec, BreakerSpec, SocketSpec

\* Every reachable state of the three is well typed.
THEOREM ProgressTypeCorrect == Spec => []TypeOK
BY PartsImplemented, SettlementTypeCorrect, BreakerTypeCorrect, SocketTypeCorrect, PTL
   DEF TypeOK
=============================================================================
