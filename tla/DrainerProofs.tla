---------------------------- MODULE DrainerProofs ----------------------------
(***************************************************************************)
(* The transaction queue drainer, proved for any number of invocations,        *)
(* server processes, entries, refills, purges and failures.                   *)
(*                                                                         *)
(* For the entries it matters which invocations begin and end in a step and   *)
(* which entry it writes; the rows of the pool play no part.  For collisions  *)
(* it matters who holds a sequence: an available row, an invocation that has   *)
(* not used it, a submission out of sight or an executed one, only one of     *)
(* them as long as the purge leaves the sequence alone.                       *)
(***************************************************************************)
EXTENDS Drainer, SumTheorems, SequenceTheorems, TLAPS

-----------------------------------------------------------------------------
(* The invariant *)

\* A job is a record with the fields of Job, whatever their values.
Shaped(j) ==
    j = [entry |-> j.entry, attempts |-> j.attempts, row |-> j.row,
         sequence |-> j.sequence, try |-> j.try, badSeq |-> j.badSeq]

Kinds ==
    /\ pc \in [Workers -> Places]
    /\ DOMAIN job = Workers /\ job = [w \in Workers |-> job[w]]
    /\ \A w \in Workers : Shaped(job[w])
    /\ DOMAIN inFlight = Servers
    /\ queue \in Seq(Entry)

Busy(w) == pc[w] # "idle"

Exclusive ==
    \A v, w \in Workers : Busy(v) /\ Busy(w) /\ ServerOf[v] = ServerOf[w] => v = w

Flagged ==
    \A s \in Servers : inFlight[s] <=> \E w \in Workers : ServerOf[w] = s /\ Busy(w)

Landed(e) == \E sub \in BagToSet(ledger) : sub.entry = e

EntryOK(e) ==
    /\ queue[e].status = "pending" => queue[e].attempts < MaxAttempts
    /\ queue[e].status = "confirmed" => Landed(e)
    /\ queue[e].status = "failed" => queue[e].attempts >= MaxAttempts

JobOK(w) ==
    /\ Busy(w) => /\ job[w].entry \in 1 .. Len(queue)
                  /\ job[w].attempts \in 0 .. MaxAttempts - 1
    /\ ~Busy(w) => job[w].entry = 0
    /\ pc[w] = "confirm" => Landed(job[w].entry)

Inv ==
    /\ Kinds /\ Exclusive /\ Flagged
    /\ \A e \in 1 .. Len(queue) : EntryOK(e)
    /\ \A w \in Workers : JobOK(w)

LEMMA InitInv == Init => Inv
<1> SUFFICES ASSUME Init PROVE Inv
  OBVIOUS
<1>1. \A w \in Workers : ~Busy(w) /\ pc[w] = "idle" /\ job[w] = NoJob
  BY DEF Init, Busy
<1>2. Kinds
  BY DEF Init, Kinds, Places, NoJob, Shaped
<1>3. Exclusive
  BY <1>1 DEF Exclusive
<1>4. Flagged
  BY <1>1, Zenon DEF Init, Flagged
<1>5. \A w \in Workers : JobOK(w)
  BY <1>1 DEF JobOK, NoJob
<1>6. Len(queue) = 0
  BY DEF Init
<1>7. QED
  BY <1>2, <1>3, <1>4, <1>5, <1>6 DEF Inv

-----------------------------------------------------------------------------
(* The shapes of a step: what becomes of the invocations *)

\* Jobs keep their shape, and none but those of ws the entry they work on.
Jobs(ws) ==
    /\ DOMAIN job' = Workers /\ job' = [w \in Workers |-> job'[w]]
    /\ \A w \in Workers : Shaped(job'[w])
    /\ \A w \in Workers \ ws : /\ job'[w].entry = job[w].entry
                               /\ job'[w].attempts = job[w].attempts

\* No invocation begins or ends, and one comes to confirm only after its
\* submission executed.
Continues ==
    /\ pc' \in [Workers -> Places] /\ inFlight' = inFlight /\ Jobs({})
    /\ \A w \in Workers : /\ Busy(w)' <=> Busy(w)
                          /\ pc'[w] = "confirm" /\ pc[w] # "confirm" => Landed(job[w].entry)'

\* One invocation ends.
Ends(w) ==
    /\ pc' = [pc EXCEPT ![w] = "idle"] /\ Jobs({w}) /\ job'[w].entry = 0
    /\ inFlight' = [inFlight EXCEPT ![ServerOf[w]] = FALSE]

LEMMA ContinuesGuard ==
    ASSUME Inv, Continues
    PROVE  Exclusive' /\ Flagged'
<1>1. \A w \in Workers : Busy(w)' <=> Busy(w)
  BY DEF Continues
<1>2. Exclusive'
  BY <1>1, Zenon DEF Inv, Exclusive
<1>3. Flagged'
  BY <1>1, Zenon DEF Inv, Flagged, Continues
<1>4. QED
  BY <1>2, <1>3

LEMMA EndsGuard ==
    ASSUME Inv, NEW w \in Workers, Busy(w), Ends(w)
    PROVE  /\ Exclusive' /\ Flagged' /\ pc' \in [Workers -> Places]
           /\ ~Busy(w)' /\ \A v \in Workers \ {w} : pc'[v] = pc[v]
<1>1. /\ pc' \in [Workers -> Places] /\ ~Busy(w)'
      /\ \A v \in Workers \ {w} : pc'[v] = pc[v]
  BY DEF Inv, Kinds, Ends, Busy, Places
<1>2. \A v \in Workers : Busy(v)' <=> Busy(v) /\ v # w
  BY <1>1 DEF Busy
<1>3. Exclusive'
  BY <1>2, Zenon DEF Inv, Exclusive
<1>4. /\ ServerOf[w] \in Servers /\ inFlight'[ServerOf[w]] = FALSE
      /\ \A s \in Servers \ {ServerOf[w]} : inFlight'[s] = inFlight[s]
  BY DrainerAssumption DEF Ends, Inv, Kinds
<1>5. \A v \in Workers : ServerOf[v] = ServerOf[w] => ~Busy(v)'
  BY <1>2 DEF Inv, Exclusive
<1>6. ASSUME NEW s \in Servers
      PROVE  inFlight'[s] <=> \E v \in Workers : ServerOf[v] = s /\ Busy(v)'
  <2>1. CASE s = ServerOf[w]
    BY <1>4, <1>5, <2>1, Zenon
  <2>2. CASE s # ServerOf[w]
    <3>1. inFlight'[s] = inFlight[s]
      BY <1>4, <2>2
    <3>2. \A v \in Workers : ServerOf[v] = s => (Busy(v)' <=> Busy(v))
      BY <1>2, <2>2
    <3>3. inFlight[s] <=> \E v \in Workers : ServerOf[v] = s /\ Busy(v)
      BY Zenon DEF Inv, Flagged
    <3>4. QED
      BY <3>1, <3>2, <3>3, Zenon
  <2>3. QED
    BY <2>1, <2>2
<1>7. QED
  BY <1>1, <1>3, <1>6, Zenon DEF Flagged

-----------------------------------------------------------------------------
(* The shapes of a step: what becomes of the entries *)

LedgerGrows == BagToSet(ledger) \subseteq BagToSet(ledger')

\* One entry is written, and what it says then is true.
Writes(e, r) ==
    /\ queue' = [queue EXCEPT ![e] = r]
    /\ r \in Entry
    /\ r.status = "pending" => r.attempts < MaxAttempts
    /\ r.status = "confirmed" => Landed(e)
    /\ r.status = "failed" => r.attempts >= MaxAttempts

LEMMA LandedStays ==
    ASSUME LedgerGrows, NEW e, Landed(e)
    PROVE  Landed(e)'
BY DEF LedgerGrows, Landed

\* What the entries of the next state are to those of this one.
Entries ==
    /\ queue' \in Seq(Entry) /\ Len(queue) <= Len(queue')
    /\ \A e \in 1 .. Len(queue') : EntryOK(e)'

LEMMA SameEntries ==
    ASSUME Inv, queue' = queue, LedgerGrows
    PROVE  Entries
<1>1. ASSUME NEW e \in 1 .. Len(queue')
      PROVE  EntryOK(e)'
  <2>1. EntryOK(e)
    BY DEF Inv
  <2>2. QED
    BY <2>1, LandedStays DEF EntryOK
<1>2. QED
  BY <1>1 DEF Entries, Inv, Kinds

LEMMA WritesEntries ==
    ASSUME Inv, NEW e \in 1 .. Len(queue), NEW r, Writes(e, r), LedgerGrows
    PROVE  Entries
<1>1. queue \in Seq(Entry) /\ r \in Entry
  BY DEF Inv, Kinds, Writes
<1>2. /\ queue' \in Seq(Entry) /\ Len(queue') = Len(queue) /\ queue'[e] = r
      /\ \A d \in 1 .. Len(queue) : d # e => queue'[d] = queue[d]
  BY <1>1 DEF Writes
<1>3. ASSUME NEW d \in 1 .. Len(queue')
      PROVE  EntryOK(d)'
  <2>1. CASE d = e
    BY <1>2, <2>1, LandedStays DEF EntryOK, Writes
  <2>2. CASE d # e
    <3>1. EntryOK(d) /\ queue'[d] = queue[d]
      BY <1>2, <2>2 DEF Inv
    <3>2. QED
      BY <3>1, LandedStays DEF EntryOK
  <2>3. QED
    BY <2>1, <2>2
<1>4. QED
  BY <1>2, <1>3 DEF Entries, Inv, Kinds

-----------------------------------------------------------------------------
(* The two kinds of shapes together *)

LEMMA ContinuesInv ==
    ASSUME Inv, Continues, Entries, LedgerGrows
    PROVE  Inv'
<1>1. Kinds'
  BY DEF Kinds, Inv, Continues, Jobs, Entries
<1>2. ASSUME NEW w \in Workers
      PROVE  JobOK(w)'
  <2>1. /\ job'[w].entry = job[w].entry /\ job'[w].attempts = job[w].attempts
        /\ Busy(w)' <=> Busy(w)
    BY DEF Continues, Jobs
  <2>2. JobOK(w)
    BY DEF Inv
  <2>3. /\ Len(queue) \in Nat /\ Len(queue') \in Nat /\ Len(queue) <= Len(queue')
    BY DEF Entries, Inv, Kinds
  <2>4. Busy(w)' => /\ job'[w].entry \in 1 .. Len(queue')
                    /\ job'[w].attempts \in 0 .. MaxAttempts - 1
    BY <2>1, <2>2, <2>3 DEF JobOK
  <2>5. ~Busy(w)' => job'[w].entry = 0
    BY <2>1, <2>2 DEF JobOK
  <2>6. pc'[w] = "confirm" => Landed(job[w].entry)'
    BY <2>1, <2>2, LandedStays DEF JobOK, Continues, Landed
  <2>7. QED
    BY <2>4, <2>5, <2>6 DEF JobOK
<1>3. QED
  BY <1>1, <1>2, ContinuesGuard DEF Inv, Entries

LEMMA EndsInv ==
    ASSUME Inv, NEW w \in Workers, Busy(w), Ends(w), Entries, LedgerGrows
    PROVE  Inv'
<1>1. /\ Exclusive' /\ Flagged' /\ pc' \in [Workers -> Places]
      /\ ~Busy(w)' /\ \A v \in Workers \ {w} : pc'[v] = pc[v]
  BY EndsGuard
<1>2. Kinds'
  BY <1>1 DEF Kinds, Inv, Ends, Jobs, Entries
<1>3. JobOK(w)'
  BY <1>1 DEF JobOK, Ends, Busy
<1>4. ASSUME NEW v \in Workers \ {w}
      PROVE  JobOK(v)'
  <2>1. /\ job'[v].entry = job[v].entry /\ job'[v].attempts = job[v].attempts
        /\ pc'[v] = pc[v]
    BY <1>1 DEF Ends, Jobs
  <2>2. JobOK(v)
    BY DEF Inv
  <2>3. /\ Len(queue) \in Nat /\ Len(queue') \in Nat /\ Len(queue) <= Len(queue')
    BY DEF Entries, Inv, Kinds
  <2>4. Busy(v)' => /\ job'[v].entry \in 1 .. Len(queue')
                    /\ job'[v].attempts \in 0 .. MaxAttempts - 1
    BY <2>1, <2>2, <2>3 DEF JobOK, Busy
  <2>5. ~Busy(v)' => job'[v].entry = 0
    BY <2>1, <2>2 DEF JobOK, Busy
  <2>6. pc'[v] = "confirm" => Landed(job[v].entry)'
    BY <2>1, <2>2, LandedStays DEF JobOK, Landed
  <2>7. QED
    BY <2>4, <2>5, <2>6 DEF JobOK
<1>5. QED
  BY <1>1, <1>2, <1>3, <1>4 DEF Inv, Entries

-----------------------------------------------------------------------------
(* Invocations that go on *)

LEMMA Stays ==
    ASSUME Inv, UNCHANGED <<workerVars, inFlight>>
    PROVE  Continues
BY DEF Inv, Kinds, Continues, Jobs, workerVars, Busy

LEMMA MovesWithJob ==
    ASSUME Inv, NEW w \in Workers, Busy(w), NEW x \in Places \ {"idle"}, NEW j,
           Goto(w, x), job' = [job EXCEPT ![w] = j], Shaped(j),
           j.entry = job[w].entry, j.attempts = job[w].attempts, inFlight' = inFlight,
           x = "confirm" => Landed(job[w].entry)'
    PROVE  Continues
<1>1. /\ pc' \in [Workers -> Places] /\ pc'[w] = x
      /\ \A v \in Workers \ {w} : pc'[v] = pc[v]
  BY DEF Goto, Inv, Kinds
<1>2. /\ DOMAIN job' = Workers /\ job' = [v \in Workers |-> job'[v]] /\ job'[w] = j
      /\ \A v \in Workers \ {w} : job'[v] = job[v]
  BY DEF Inv, Kinds
<1>3. Jobs({})
  BY <1>2 DEF Jobs, Inv, Kinds
<1>4. \A v \in Workers : Busy(v)' <=> Busy(v)
  BY <1>1 DEF Busy
<1>5. QED
  BY <1>1, <1>3, <1>4 DEF Continues

LEMMA Moves ==
    ASSUME Inv, NEW w \in Workers, Busy(w), NEW x \in Places \ {"idle"},
           Goto(w, x), job' = job, inFlight' = inFlight,
           x = "confirm" => Landed(job[w].entry)'
    PROVE  Continues
<1>1. job' = [job EXCEPT ![w] = job[w]] /\ Shaped(job[w])
  BY DEF Inv, Kinds
<1>2. QED
  BY <1>1, MovesWithJob

\* What jobs may become without changing the entry they are about.
LEMMA JobChanges ==
    ASSUME NEW j, Shaped(j), NEW x, NEW y
    PROVE  /\ Shaped([j EXCEPT !.badSeq = x])
           /\ [j EXCEPT !.badSeq = x].entry = j.entry
           /\ [j EXCEPT !.badSeq = x].attempts = j.attempts
           /\ Shaped([j EXCEPT !.try = x])
           /\ [j EXCEPT !.try = x].entry = j.entry
           /\ [j EXCEPT !.try = x].attempts = j.attempts
           /\ Shaped([j EXCEPT !.row = x, !.sequence = y])
           /\ [j EXCEPT !.row = x, !.sequence = y].entry = j.entry
           /\ [j EXCEPT !.row = x, !.sequence = y].attempts = j.attempts
<1>1. /\ Shaped([j EXCEPT !.badSeq = x])
      /\ [j EXCEPT !.badSeq = x].entry = j.entry
      /\ [j EXCEPT !.badSeq = x].attempts = j.attempts
  BY DEF Shaped
<1>2. /\ Shaped([j EXCEPT !.try = x])
      /\ [j EXCEPT !.try = x].entry = j.entry
      /\ [j EXCEPT !.try = x].attempts = j.attempts
  BY DEF Shaped
<1>3. [j EXCEPT !.row = x, !.sequence = y]
        = [entry |-> j.entry, attempts |-> j.attempts, row |-> x,
           sequence |-> y, try |-> j.try, badSeq |-> j.badSeq]
  <2>1. PICK a, b, c, d, e, f :
           j = [entry |-> a, attempts |-> b, row |-> c, sequence |-> d,
                try |-> e, badSeq |-> f]
    BY DEF Shaped
  <2> DEFINE k == [j EXCEPT !.row = x]
  <2>2. k = [entry |-> a, attempts |-> b, row |-> x, sequence |-> d, try |-> e,
             badSeq |-> f]
    BY <2>1
  <2> HIDE DEF k
  <2>3. [k EXCEPT !.sequence = y]
           = [entry |-> a, attempts |-> b, row |-> x, sequence |-> y, try |-> e,
              badSeq |-> f]
    BY <2>2
  <2>4. j.entry = a /\ j.attempts = b /\ j.try = e /\ j.badSeq = f
    BY <2>1
  <2>5. QED
    BY <2>3, <2>4 DEF k
<1>4. QED
  BY <1>1, <1>2, <1>3 DEF Shaped

LEMMA Fails ==
    ASSUME Inv, NEW w \in Workers, Busy(w), NEW badSeq, Fail(w, badSeq),
           inFlight' = inFlight
    PROVE  Continues
<1>1. Shaped(job[w])
  BY DEF Inv, Kinds
<1>2. Goto(w, "settle") /\ job' = [job EXCEPT ![w] = [job[w] EXCEPT !.badSeq = badSeq]]
  BY DEF Fail, Thrown
<1>3. "settle" \in Places \ {"idle"}
  BY DEF Places
<1> HIDE DEF Goto
<1>4. QED
  BY <1>1, <1>2, <1>3, JobChanges, MovesWithJob

\* Those who waited for a refill go on together.
LEMMA RefillEnds ==
    ASSUME Inv, NEW s \in Servers, NEW x \in {"reclaim", "settle"},
           pc' = [w \in Workers |-> IF w \in WaitingFor(s) THEN x ELSE pc[w]],
           UNCHANGED <<inFlight, job>>
    PROVE  Continues
BY DEF WaitingFor, Inv, Kinds, Continues, Jobs, Busy, Places

-----------------------------------------------------------------------------
(* The steps *)

LEMMA LandEffect ==
    ASSUME NEW sub
    PROVE  BagToSet(ledger (+) SetToBag({sub})) = BagToSet(ledger) \cup {sub}
BY DEF BagToSet, SetToBag, (+)

LEMMA SameLedger == ASSUME ledger' = ledger PROVE LedgerGrows
BY DEF LedgerGrows

LEMMA EnqueueStep == ASSUME Inv, EnqueueTransaction PROVE Inv'
<1> DEFINE new == [status |-> "pending", attempts |-> 0]
<1>1. queue' = Append(queue, new) /\ new \in Entry
  BY DrainerAssumption DEF EnqueueTransaction, Entry
<1>2. new.status = "pending" /\ new.attempts < MaxAttempts
  BY DrainerAssumption
<1> HIDE DEF new
<1>3. /\ queue' \in Seq(Entry) /\ Len(queue') = Len(queue) + 1 /\ Len(queue) \in Nat
      /\ queue'[Len(queue) + 1] = new
      /\ \A e \in 1 .. Len(queue) : queue'[e] = queue[e]
  BY <1>1, AppendProperties DEF Inv, Kinds
<1>4. LedgerGrows
  BY SameLedger DEF EnqueueTransaction, netVars
<1>5. ASSUME NEW e \in 1 .. Len(queue')
      PROVE  EntryOK(e)'
  <2>1. CASE e = Len(queue) + 1
    BY <1>2, <1>3, <2>1 DEF EntryOK
  <2>2. CASE e \in 1 .. Len(queue)
    <3>1. EntryOK(e) /\ queue'[e] = queue[e]
      BY <1>3, <2>2 DEF Inv
    <3>2. QED
      BY <1>4, <3>1, LandedStays DEF EntryOK
  <2>3. QED
    BY <1>3, <2>1, <2>2
<1>6. Entries
  BY <1>3, <1>5 DEF Entries
<1>7. QED
  BY <1>4, <1>6, Stays, ContinuesInv DEF EnqueueTransaction, serverVars

\* The steps that leave the entries and the ledger alone, and end no invocation.
LEMMA QuietStep ==
    ASSUME Inv, Continues, queue' = queue, ledger' = ledger
    PROVE  Inv'
BY SameLedger, SameEntries, ContinuesInv

LEMMA ClaimSelectStep == ASSUME Inv, NEW w \in Workers, ClaimSelect(w) PROVE Inv'
<1>1. /\ Busy(w) /\ Goto(w, "reserve") /\ UNCHANGED <<dbVars, serverVars, netVars>>
      /\ \E r \in Claimable :
            job' = [job EXCEPT ![w].row = r, ![w].sequence = pool[r].sequence]
  BY DEF ClaimSelect, Busy
<1>2. PICK r : job' = [job EXCEPT ![w].row = r, ![w].sequence = pool[r].sequence]
  BY <1>1
<1>3. job' = [job EXCEPT ![w] =
                 [job[w] EXCEPT !.row = r, !.sequence = pool[r].sequence]]
  BY <1>2 DEF Inv, Kinds, Shaped
<1>4. Shaped(job[w]) /\ "reserve" \in Places \ {"idle"}
  BY DEF Inv, Kinds, Places
<1>5. Continues
  BY <1>1, <1>3, <1>4, JobChanges, MovesWithJob DEF serverVars
<1>6. QED
  BY <1>1, <1>5, QuietStep DEF dbVars, netVars

LEMMA ClaimNothingStep == ASSUME Inv, NEW w \in Workers, ClaimNothing(w) PROVE Inv'
<1>1. Busy(w) /\ UNCHANGED <<dbVars, serverVars, netVars>>
  BY DEF ClaimNothing, Busy
<1>2. /\ "fetch" \in Places \ {"idle"} /\ "claim" \in Places \ {"idle"}
      /\ UNCHANGED inFlight
  BY <1>1 DEF Places, serverVars
<1>3. Continues
  <2>1. CASE Goto(w, "fetch") /\ UNCHANGED job
    <3> HIDE DEF Goto
    <3>1. QED
      BY <1>1, <1>2, <2>1, Moves
  <2>2. CASE Goto(w, "claim") /\ job' = [job EXCEPT ![w].try = @ + 1]
    <3>1. PICK x : x = job[w].try + 1
      OBVIOUS
    <3>2. /\ job' = [job EXCEPT ![w] = [job[w] EXCEPT !.try = x]]
          /\ Shaped(job[w])
      BY <2>2, <3>1 DEF Inv, Kinds
    <3>3. Goto(w, "claim")
      BY <2>2
    <3> HIDE DEF Goto
    <3>4. QED
      BY <1>1, <1>2, <3>2, <3>3, JobChanges, MovesWithJob
  <2>3. CASE Fail(w, FALSE)
    BY <1>1, <1>2, <2>3, Fails
  <2>4. QED
    BY <2>1, <2>2, <2>3 DEF ClaimNothing
<1>4. QED
  BY <1>1, <1>3, QuietStep DEF dbVars, netVars

LEMMA ClaimReserveStep == ASSUME Inv, NEW w \in Workers, ClaimReserve(w) PROVE Inv'
<1>1. /\ Busy(w) /\ Goto(w, "submit") /\ job' = job /\ inFlight' = inFlight
      /\ queue' = queue /\ ledger' = ledger /\ "submit" \in Places \ {"idle"}
  BY DEF ClaimReserve, Busy, netVars, Places
<1> HIDE DEF Goto
<1>2. Continues
  BY <1>1, Moves
<1>3. QED
  BY <1>1, <1>2, QuietStep

LEMMA AwaitRefillStep == ASSUME Inv, NEW w \in Workers, AwaitRefill(w) PROVE Inv'
<1>1. /\ Busy(w) /\ Goto(w, "refilling") /\ job' = job /\ inFlight' = inFlight
      /\ queue' = queue /\ ledger' = ledger /\ "refilling" \in Places \ {"idle"}
  BY DEF AwaitRefill, Busy, dbVars, netVars, Places
<1> HIDE DEF Goto
<1>2. Continues
  BY <1>1, Moves
<1>3. QED
  BY <1>1, <1>2, QuietStep

LEMMA SettleStep == ASSUME Inv, NEW w \in Workers, Settle(w) PROVE Inv'
<1>1. /\ Busy(w) /\ Goto(w, "requeue") /\ job' = job /\ inFlight' = inFlight
      /\ queue' = queue /\ ledger' = ledger /\ "requeue" \in Places \ {"idle"}
  BY DEF Settle, Busy, serverVars, netVars, Places
<1> HIDE DEF Goto
<1>2. Continues
  BY <1>1, Moves
<1>3. QED
  BY <1>1, <1>2, QuietStep

\* Every step that only fails: the entries and the ledger are as they were.
LEMMA FailStep ==
    ASSUME Inv, NEW w \in Workers,
           \/ FetchFails(w) \/ Reject(w) \/ LoseTrack(w) \/ ConfirmFails(w) \/ MarkFails(w)
    PROVE  Inv'
<1>1. /\ Busy(w) /\ inFlight' = inFlight /\ queue' = queue /\ ledger' = ledger
  BY DEF FetchFails, Reject, LoseTrack, ConfirmFails, MarkFails, Busy, serverVars,
         dbVars, netVars
<1>2. PICK badSeq : Fail(w, badSeq)
  BY Zenon DEF FetchFails, Reject, LoseTrack, ConfirmFails, MarkFails
<1>3. Continues
  BY <1>1, <1>2, Fails
<1>4. QED
  BY <1>1, <1>3, QuietStep

\* The steps of the servers that leave the invocations where they are.
LEMMA BackgroundStep ==
    ASSUME Inv,
           \/ \E s \in Servers : CountPool(s) \/ BackgroundRefill(s)
           \/ ReservationsAge
           \/ PurgeStaleReservations
    PROVE  Inv'
<1>1. UNCHANGED <<workerVars, inFlight, queue, ledger>>
  BY DEF CountPool, BackgroundRefill, ReservationsAge, PurgeStaleReservations,
         dbVars, serverVars, netVars
<1>2. QED
  BY <1>1, Stays, QuietStep

LEMMA RefillStep ==
    ASSUME Inv, NEW s \in Servers, CompleteRefill(s) \/ RefillFails(s)
    PROVE  Inv'
<1>1. UNCHANGED <<inFlight, job, queue, ledger>>
  BY DEF CompleteRefill, RefillFails, dbVars, netVars
<1>2. PICK x \in {"reclaim", "settle"} :
         pc' = [w \in Workers |-> IF w \in WaitingFor(s) THEN x ELSE pc[w]]
  BY DEF CompleteRefill, RefillFails
<1>3. QED
  BY <1>1, <1>2, RefillEnds, QuietStep

LEMMA LandStep == ASSUME Inv, NEW w \in Workers, Land(w) PROVE Inv'
<1> DEFINE sub == SubmissionOf(w)
<1>1. /\ Busy(w) /\ queue' = queue /\ inFlight' = inFlight
      /\ ledger' = ledger (+) SetToBag({sub}) /\ sub.entry = job[w].entry
  BY DEF Land, Busy, dbVars, serverVars, SubmissionOf
<1> HIDE DEF sub
<1>2. BagToSet(ledger') = BagToSet(ledger) \cup {sub}
  BY <1>1, LandEffect
<1>3. LedgerGrows
  BY <1>2 DEF LedgerGrows
<1>4. Continues
  <2>1. CASE Goto(w, "confirm") /\ UNCHANGED job
    <3>1. Landed(job[w].entry)'
      BY <1>1, <1>2, <2>1 DEF Landed
    <3>2. Goto(w, "confirm") /\ job' = job /\ "confirm" \in Places \ {"idle"}
      BY <2>1 DEF Places
    <3> HIDE DEF Goto
    <3>3. QED
      BY <1>1, <3>1, <3>2, Moves
  <2>2. CASE Fail(w, FALSE)
    BY <1>1, <2>2, Fails
  <2>3. QED
    BY <2>1, <2>2 DEF Land
<1>5. QED
  BY <1>1, <1>3, <1>4, SameEntries, ContinuesInv

LEMMA LandLateStep == ASSUME Inv, LandLate PROVE Inv'
<1>1. UNCHANGED <<workerVars, inFlight, queue>>
  BY DEF LandLate, dbVars, serverVars
<1>2. PICK sub \in limbo : ledger' = ledger (+) SetToBag({sub})
  BY DEF LandLate
<1>3. LedgerGrows
  BY <1>2, LandEffect DEF LedgerGrows
<1>4. QED
  BY <1>1, <1>3, Stays, SameEntries, ContinuesInv

LEMMA ConfirmStep == ASSUME Inv, NEW w \in Workers, Confirm(w) PROVE Inv'
<1>1. /\ Busy(w) /\ inFlight' = inFlight /\ ledger' = ledger
      /\ job[w].entry \in 1 .. Len(queue) /\ job[w].attempts \in 0 .. MaxAttempts - 1
      /\ Landed(job[w].entry)
  BY DEF Confirm, Busy, serverVars, netVars, Inv, JobOK
<1>2. LedgerGrows
  BY <1>1, SameLedger
<1>3. CASE job[w].sequence \notin persisted
  <2> DEFINE r == [status |-> "confirmed", attempts |-> job[w].attempts + 1]
  <2>1. /\ queue' = [queue EXCEPT ![job[w].entry] = r] /\ Goto(w, "mark") /\ job' = job
        /\ r \in Entry /\ r.status = "confirmed" /\ "mark" \in Places \ {"idle"}
    BY <1>1, <1>3, DrainerAssumption DEF Confirm, Entry, Places
  <2> HIDE DEF r, Goto
  <2>2. Writes(job[w].entry, r)
    BY <1>1, <2>1 DEF Writes
  <2>3. Entries
    BY <1>1, <1>2, <2>2, WritesEntries
  <2>4. Continues
    BY <1>1, <2>1, Moves
  <2>5. QED
    BY <1>2, <2>3, <2>4, ContinuesInv
<1>4. CASE job[w].sequence \in persisted
  <2>1. Fail(w, FALSE) /\ queue' = queue
    BY <1>4 DEF Confirm
  <2>2. QED
    BY <1>1, <2>1, Fails, QuietStep
<1>5. QED
  BY <1>3, <1>4

LEMMA FinishEnds ==
    ASSUME Inv, NEW w \in Workers, Finish(w)
    PROVE  Ends(w)
<1>1. /\ pc' = [pc EXCEPT ![w] = "idle"]
      /\ inFlight' = [inFlight EXCEPT ![ServerOf[w]] = FALSE]
      /\ job' = [job EXCEPT ![w] = NoJob]
  BY DEF Finish, Goto, FreesAccount
<1>2. NoJob.entry = 0 /\ Shaped(NoJob)
  BY DEF NoJob, Shaped
<1>3. /\ DOMAIN job' = Workers /\ job' = [v \in Workers |-> job'[v]] /\ job'[w] = NoJob
      /\ \A v \in Workers \ {w} : job'[v] = job[v]
  BY <1>1 DEF Inv, Kinds
<1>4. Jobs({w})
  BY <1>2, <1>3 DEF Jobs, Inv, Kinds
<1>5. QED
  BY <1>1, <1>2, <1>3, <1>4 DEF Ends

\* Every step in which an invocation ends without writing its entry.
LEMMA FinishStep ==
    ASSUME Inv, NEW w \in Workers,
           MarkSequenceUsed(w) \/ SettleFails(w) \/ RequeueFails(w)
    PROVE  Inv'
<1>1. Busy(w) /\ Finish(w) /\ queue' = queue /\ ledger' = ledger
  BY DEF MarkSequenceUsed, SettleFails, RequeueFails, Busy, dbVars, netVars
<1>2. QED
  BY <1>1, FinishEnds, SameLedger, SameEntries, EndsInv

LEMMA RequeueStep == ASSUME Inv, NEW w \in Workers, Requeue(w) PROVE Inv'
<1>1. /\ Busy(w) /\ Finish(w) /\ ledger' = ledger
      /\ job[w].entry \in 1 .. Len(queue) /\ job[w].attempts \in 0 .. MaxAttempts - 1
  BY DEF Requeue, Busy, netVars, Inv, JobOK
<1> DEFINE n == job[w].attempts + 1
           r == [attempts |-> n,
                 status   |-> IF n >= MaxAttempts THEN "failed" ELSE "pending"]
<1>2. queue' = [queue EXCEPT ![job[w].entry] = r]
  BY DEF Requeue, Exhausted
<1>3. n \in 1 .. MaxAttempts
  BY <1>1, DrainerAssumption
<1> HIDE DEF n
<1>4. /\ r \in Entry /\ r.status # "confirmed"
      /\ r.status = "pending" => r.attempts < MaxAttempts
      /\ r.status = "failed" => r.attempts >= MaxAttempts
  BY <1>3, DrainerAssumption DEF Entry
<1> HIDE DEF r
<1>5. Writes(job[w].entry, r)
  BY <1>2, <1>4 DEF Writes
<1>6. QED
  BY <1>1, <1>5, FinishEnds, SameLedger, WritesEntries, EndsInv

\* The oldest pending entry is one of the pending ones.
LEMMA OldestExists ==
    ASSUME Inv, Pending # {}
    PROVE  OldestPending \in Pending /\ \A y \in Pending : OldestPending <= y
<1>1. Pending \subseteq Nat /\ \A e \in Pending : e \in Nat
  BY DEF Pending, Inv, Kinds
<1> DEFINE R == OpToRel(<, Nat)
<1>2. IsWellFoundedOn(R, Nat) /\ \A x, y \in Nat : y < x => <<y, x>> \in R
  BY NatLessThanWellFounded DEF OpToRel
<1> HIDE DEF R
<1>3. \E x \in Pending : \A y \in Pending : x <= y
  <2>1. PICK x \in Pending : \A y \in Pending : ~ (<<y, x>> \in R)
    BY <1>1, <1>2, WFMin
  <2>2. ASSUME NEW y \in Pending
        PROVE  x <= y
    <3>1. x \in Nat /\ y \in Nat /\ ~ (<<y, x>> \in R)
      BY <1>1, <2>1
    <3>2. ~ (y < x)
      BY <1>2, <3>1, Zenon
    <3>3. QED
      BY <3>1, <3>2
  <2>3. QED
    BY <2>2
<1>4. QED
  BY <1>3 DEF OldestPending, Min

\* The job of a new invocation.
NewJob(x, y) == [NoJob EXCEPT !.entry = x, !.attempts = y, !.try = 1]

LEMMA NewJobShape ==
    ASSUME NEW x, NEW y
    PROVE  Shaped(NewJob(x, y)) /\ NewJob(x, y).entry = x /\ NewJob(x, y).attempts = y
<1>1. PICK j, z : j = NoJob /\ z = 1
  OBVIOUS
<1>2. PICK a, b, c, d, e, f :
         j = [entry |-> a, attempts |-> b, row |-> c, sequence |-> d, try |-> e,
              badSeq |-> f]
  BY <1>1 DEF NoJob
<1> DEFINE k == [j EXCEPT !.entry = x]
           l == [k EXCEPT !.attempts = y]
           m == [l EXCEPT !.try = z]
<1>3. k = [entry |-> x, attempts |-> b, row |-> c, sequence |-> d, try |-> e,
           badSeq |-> f]
  BY <1>2
<1> HIDE DEF k
<1>4. l = [entry |-> x, attempts |-> y, row |-> c, sequence |-> d, try |-> e,
           badSeq |-> f]
  BY <1>3
<1> HIDE DEF l
<1>5. m = [entry |-> x, attempts |-> y, row |-> c, sequence |-> d, try |-> z,
           badSeq |-> f]
  BY <1>4
<1> HIDE DEF m
<1>6. Shaped(m) /\ m.entry = x /\ m.attempts = y
  BY <1>5 DEF Shaped
<1>7. m = NewJob(x, y)
  BY <1>1, Zenon DEF k, l, m, NewJob
<1>8. QED
  BY <1>6, <1>7

LEMMA DrainStep == ASSUME Inv, NEW w \in Workers, DrainAccount(w) PROVE Inv'
<1> DEFINE s == ServerOf[w]
           j == NewJob(OldestPending, queue[OldestPending].attempts)
<1>1. s \in Servers /\ ~Busy(w)
  BY DrainerAssumption DEF DrainAccount, Busy
<1>2. ~inFlight[s] /\ UNCHANGED <<queue, ledger>>
  BY DEF DrainAccount, MayDrain, dbVars, netVars
<1>3. \A v \in Workers : ServerOf[v] = s => ~Busy(v)
  BY <1>1, <1>2, Zenon DEF Inv, Flagged
<1>4. inFlight' = [inFlight EXCEPT ![s] = TRUE] /\ pc' = [pc EXCEPT ![w] = "claim"]
  BY DEF DrainAccount, Goto
<1>5. job' = [job EXCEPT ![w] = j]
  BY DEF DrainAccount, NewJob
<1>6. Shaped(j) /\ j.entry = OldestPending /\ j.attempts = queue[OldestPending].attempts
  BY NewJobShape, Zenon
<1> HIDE DEF s, j
<1>7. OldestPending \in Pending
  BY OldestExists DEF DrainAccount
<1>8. j.entry \in 1 .. Len(queue) /\ j.attempts \in 0 .. MaxAttempts - 1
  <2>1. OldestPending \in 1 .. Len(queue) /\ queue[OldestPending].status = "pending"
    BY <1>7 DEF Pending, Inv, Kinds
  <2>2. queue[OldestPending] \in Entry /\ EntryOK(OldestPending)
    BY <2>1 DEF Inv, Kinds
  <2>3. queue[OldestPending].attempts \in 0 .. MaxAttempts
    BY <2>2 DEF Entry
  <2>4. QED
    BY <1>6, <2>1, <2>2, <2>3, DrainerAssumption DEF EntryOK
<1>9. /\ pc' \in [Workers -> Places] /\ pc'[w] = "claim"
      /\ \A v \in Workers \ {w} : pc'[v] = pc[v]
  BY <1>4 DEF Inv, Kinds, Places
<1>10. /\ DOMAIN job' = Workers /\ job' = [v \in Workers |-> job'[v]] /\ job'[w] = j
       /\ \A v \in Workers \ {w} : job'[v] = job[v]
  BY <1>5 DEF Inv, Kinds
<1>11. /\ DOMAIN inFlight' = Servers /\ inFlight'[s] = TRUE
       /\ \A t \in Servers \ {s} : inFlight'[t] = inFlight[t]
  BY <1>1, <1>4 DEF Inv, Kinds
<1>12. \A v \in Workers : Busy(v)' <=> Busy(v) \/ v = w
  BY <1>9 DEF Busy
<1>13. Kinds'
  BY <1>2, <1>6, <1>9, <1>10, <1>11 DEF Kinds, Inv
<1>14. Exclusive'
  BY <1>3, <1>12 DEF Exclusive, Inv, s
<1>15. ASSUME NEW t \in Servers
       PROVE  inFlight'[t] <=> \E v \in Workers : ServerOf[v] = t /\ Busy(v)'
  <2>1. CASE t = s
    BY <1>11, <1>12, <2>1, Zenon DEF s
  <2>2. CASE t # s
    <3>1. inFlight'[t] = inFlight[t]
      BY <1>11, <2>2
    <3>2. \A v \in Workers : ServerOf[v] = t => (Busy(v)' <=> Busy(v))
      BY <1>12, <2>2 DEF s
    <3>3. inFlight[t] <=> \E v \in Workers : ServerOf[v] = t /\ Busy(v)
      BY Zenon DEF Inv, Flagged
    <3>4. QED
      BY <3>1, <3>2, <3>3, Zenon
  <2>3. QED
    BY <2>1, <2>2
<1>16. Flagged'
  BY <1>15, Zenon DEF Flagged
<1>17. Entries
  BY <1>2, SameLedger, SameEntries
<1>18. ASSUME NEW v \in Workers
       PROVE  JobOK(v)'
  <2>1. CASE v = w
    BY <1>2, <1>8, <1>9, <1>10, <2>1 DEF JobOK, Busy
  <2>2. CASE v # w
    <3>1. job'[v] = job[v] /\ pc'[v] = pc[v] /\ JobOK(v)
      BY <1>9, <1>10, <2>2 DEF Inv
    <3>2. QED
      BY <1>2, <3>1 DEF JobOK, Busy, Landed
  <2>3. QED
    BY <2>1, <2>2
<1>19. QED
  BY <1>13, <1>14, <1>16, <1>17, <1>18 DEF Inv, Entries

LEMMA CrashStep == ASSUME Inv, NEW s \in Servers, Crash(s) PROVE Inv'
<1>1. /\ queue' = queue /\ ledger' = ledger /\ inFlight' = [inFlight EXCEPT ![s] = FALSE]
      /\ pc' = [w \in Workers |-> IF ServerOf[w] = s THEN "idle" ELSE pc[w]]
      /\ job' = [w \in Workers |-> IF ServerOf[w] = s THEN NoJob ELSE job[w]]
  BY DEF Crash, dbVars
<1>2. /\ pc' \in [Workers -> Places]
      /\ \A w \in Workers : Busy(w)' <=> Busy(w) /\ ServerOf[w] # s
  BY <1>1 DEF Inv, Kinds, Places, Busy
<1>3. Shaped(NoJob) /\ NoJob.entry = 0
  BY DEF Shaped, NoJob
<1>4. DOMAIN inFlight' = Servers
  BY <1>1 DEF Inv, Kinds
<1>5. /\ DOMAIN job' = Workers /\ job' = [w \in Workers |-> job'[w]]
      /\ \A w \in Workers : job'[w] = IF ServerOf[w] = s THEN NoJob ELSE job[w]
  BY <1>1
<1>6. Kinds'
  BY <1>1, <1>2, <1>3, <1>4, <1>5 DEF Inv, Kinds
<1>7. Exclusive'
  BY <1>2, Zenon DEF Inv, Exclusive
<1>8. ASSUME NEW t \in Servers
      PROVE  inFlight'[t] <=> \E v \in Workers : ServerOf[v] = t /\ Busy(v)'
  <2>1. CASE t = s
    <3>1. inFlight'[t] = FALSE
      BY <1>1, <2>1 DEF Inv, Kinds
    <3>2. QED
      BY <1>2, <2>1, <3>1, Zenon
  <2>2. CASE t # s
    <3>1. inFlight'[t] = inFlight[t]
      BY <1>1, <2>2 DEF Inv, Kinds
    <3>2. \A v \in Workers : ServerOf[v] = t => (Busy(v)' <=> Busy(v))
      BY <1>2, <2>2
    <3>3. inFlight[t] <=> \E v \in Workers : ServerOf[v] = t /\ Busy(v)
      BY Zenon DEF Inv, Flagged
    <3>4. QED
      BY <3>1, <3>2, <3>3, Zenon
  <2>3. QED
    BY <2>1, <2>2
<1>9. Flagged'
  BY <1>8, Zenon DEF Flagged
<1>10. Entries
  BY <1>1, SameLedger, SameEntries
<1>11. ASSUME NEW w \in Workers
       PROVE  JobOK(w)'
  <2>1. CASE ServerOf[w] = s
    BY <1>1, <1>3, <2>1 DEF JobOK, Busy
  <2>2. CASE ServerOf[w] # s
    <3>1. job'[w] = job[w] /\ pc'[w] = pc[w] /\ JobOK(w)
      BY <1>1, <2>2 DEF Inv
    <3>2. QED
      BY <1>1, <3>1 DEF JobOK, Busy, Landed
  <2>3. QED
    BY <2>1, <2>2
<1>12. QED
  BY <1>6, <1>7, <1>9, <1>10, <1>11 DEF Inv, Entries

LEMMA NextInv == ASSUME Inv, [Next]_vars PROVE Inv'
<1>1. CASE UNCHANGED vars
  <2>1. UNCHANGED <<workerVars, inFlight, queue, ledger>>
    BY <1>1 DEF vars, dbVars, serverVars, netVars
  <2>2. QED
    BY <2>1, Stays, QuietStep
<1>2. ASSUME NEW w \in Workers, DrainAccount(w) \/ Advance(w) \/ Answer(w) \/ WorkerFault(w)
      PROVE  Inv'
  <2>1. CASE DrainAccount(w)
    BY <2>1, DrainStep
  <2>2. CASE Advance(w)
    BY <2>2, ClaimSelectStep, ClaimNothingStep, ClaimReserveStep, ConfirmStep, FinishStep,
       SettleStep, RequeueStep DEF Advance
  <2>3. CASE Answer(w)
    BY <2>3, AwaitRefillStep, FailStep, LandStep DEF Answer
  <2>4. CASE WorkerFault(w)
    BY <2>4, FailStep, FinishStep DEF WorkerFault
  <2>5. QED
    BY <1>2, <2>1, <2>2, <2>3, <2>4
<1>3. ASSUME NEW s \in Servers,
             \/ CountPool(s) \/ BackgroundRefill(s)
             \/ CompleteRefill(s) \/ RefillFails(s) \/ Crash(s)
      PROVE  Inv'
  BY <1>3, BackgroundStep, RefillStep, CrashStep
<1>4. QED
  BY <1>1, <1>2, <1>3, EnqueueStep, LandLateStep, BackgroundStep DEF Next

\* The flags, the invocations and the entries agree in every reachable state.
THEOREM Invariant == Spec => []Inv
<1>1. QED
  BY InitInv, NextInv, PTL DEF Spec

-----------------------------------------------------------------------------
(* What follows from the invariant *)

\* A process has the account in flight exactly while one of its invocations is
\* at work, and never two of them: the in-flight set of startDrainer, freed by
\* the finally block of drainAccount on every path out.
THEOREM GuardCorrect == Spec => []OneWorkerPerServer
<1>1. ASSUME Inv, NEW s \in Servers
      PROVE  Cardinality(Active(s)) <= 1 /\ (inFlight[s] <=> Active(s) # {})
  <2>1. inFlight[s] <=> Active(s) # {}
    <3>1. inFlight[s] <=> \E w \in Workers : ServerOf[w] = s /\ Busy(w)
      BY <1>1, Zenon DEF Inv, Flagged
    <3>2. Active(s) # {} <=> \E w \in Workers : ServerOf[w] = s /\ Busy(w)
      BY DEF Active, Busy
    <3>3. QED
      BY <3>1, <3>2, Zenon
  <2>2. Cardinality(Active(s)) <= 1
    <3>1. CASE Active(s) = {}
      BY <3>1, FS_EmptySet
    <3>2. CASE Active(s) # {}
      <4>1. PICK w \in Active(s) : TRUE
        BY <3>2
      <4>2. Active(s) = {w}
        BY <1>1, <4>1 DEF Active, Busy, Inv, Exclusive
      <4>3. Cardinality({w}) = 1
        BY FS_Singleton
      <4>4. QED
        BY <4>2, <4>3
    <3>3. QED
      BY <3>1, <3>2
  <2>3. QED
    BY <2>1, <2>2, Zenon
<1>2. Inv => OneWorkerPerServer
  BY <1>1, Zenon DEF OneWorkerPerServer
<1>3. QED
  BY <1>2, Invariant, PTL

\* An entry the drainer calls confirmed was executed, and one it calls failed
\* used up its attempts, whatever fails between the submission and the write.
THEOREM OutcomeCorrect == Spec => []ConfirmedLanded
<1>1. Inv => ConfirmedLanded
  <2> SUFFICES ASSUME Inv, NEW e \in DOMAIN queue
               PROVE  /\ queue[e].status = "confirmed" => Landed(e)
                      /\ queue[e].status = "failed" => queue[e].attempts >= MaxAttempts
    BY DEF ConfirmedLanded, Landed
  <2>1. EntryOK(e)
    BY DEF Inv, Kinds
  <2>2. QED
    BY <2>1 DEF EntryOK
<1>2. QED
  BY <1>1, Invariant, PTL

-----------------------------------------------------------------------------
(* Order.  It holds where one process drains the account: with two, each may *)
(* work on an entry of its own.                                             *)

OneProcess == \A v, w \in Workers : ServerOf[v] = ServerOf[w]

\* What a step that begins no invocation does: it writes no entry but those
\* being worked on, and no invocation turns to another entry.
KeepsToEntry ==
    /\ Len(queue) <= Len(queue')
    /\ \A e \in 1 .. Len(queue) :
          queue'[e] = queue[e] \/ \E w \in Workers : Busy(w) /\ job[w].entry = e
    /\ \A w \in Workers : job'[w].entry \in {0, job[w].entry}

LEMMA KeptJob ==
    ASSUME Inv, NEW w \in Workers, NEW j, job' = [job EXCEPT ![w] = j],
           j.entry = 0 \/ j.entry = job[w].entry
    PROVE  \A v \in Workers : job'[v].entry \in {0, job[v].entry}
BY DEF Inv, Kinds

LEMMA KeptByError ==
    ASSUME Inv, NEW w \in Workers, NEW x,
           job' = [job EXCEPT ![w].badSeq = x]
    PROVE  \A v \in Workers : job'[v].entry \in {0, job[v].entry}
<1>1. PICK j : j = [job[w] EXCEPT !.badSeq = x]
  OBVIOUS
<1>2. Shaped(job[w])
  BY DEF Inv, Kinds
<1>3. job' = [job EXCEPT ![w] = j]
  BY <1>1 DEF Inv, Kinds
<1>4. j.entry = job[w].entry
  BY <1>1, <1>2, JobChanges, Zenon
<1>5. QED
  BY <1>3, <1>4, KeptJob, Zenon

LEMMA KeptByRetry ==
    ASSUME Inv, NEW w \in Workers, NEW x,
           job' = [job EXCEPT ![w].try = x]
    PROVE  \A v \in Workers : job'[v].entry \in {0, job[v].entry}
<1>1. PICK j : j = [job[w] EXCEPT !.try = x]
  OBVIOUS
<1>2. Shaped(job[w])
  BY DEF Inv, Kinds
<1>3. job' = [job EXCEPT ![w] = j]
  BY <1>1 DEF Inv, Kinds
<1>4. j.entry = job[w].entry
  BY <1>1, <1>2, JobChanges, Zenon
<1>5. QED
  BY <1>3, <1>4, KeptJob, Zenon

LEMMA RowChange ==
    ASSUME NEW j, Shaped(j), NEW x
    PROVE  Shaped([j EXCEPT !.row = x]) /\ [j EXCEPT !.row = x].entry = j.entry
BY DEF Shaped

LEMMA SequenceChange ==
    ASSUME NEW j, Shaped(j), NEW x
    PROVE  [j EXCEPT !.sequence = x].entry = j.entry
BY DEF Shaped

LEMMA KeptByClaim ==
    ASSUME Inv, NEW w \in Workers, NEW x, NEW y,
           job' = [job EXCEPT ![w].row = x, ![w].sequence = y]
    PROVE  \A v \in Workers : job'[v].entry \in {0, job[v].entry}
<1>1. PICK k : k = [job[w] EXCEPT !.row = x]
  OBVIOUS
<1>2. PICK j : j = [k EXCEPT !.sequence = y]
  OBVIOUS
<1>3. Shaped(job[w])
  BY DEF Inv, Kinds
<1>4. Shaped(k) /\ k.entry = job[w].entry
  BY <1>1, <1>3, RowChange, Zenon
<1>5. j.entry = k.entry
  BY <1>2, <1>4, SequenceChange, Zenon
<1>6. job' = [job EXCEPT ![w] = j]
  BY <1>1, <1>2 DEF Inv, Kinds
<1>7. QED
  BY <1>4, <1>5, <1>6, KeptJob, Zenon

LEMMA KeptByEnd ==
    ASSUME Inv, NEW w \in Workers, job' = [job EXCEPT ![w] = NoJob]
    PROVE  \A v \in Workers : job'[v].entry \in {0, job[v].entry}
<1>1. NoJob.entry = 0
  BY DEF NoJob
<1>2. QED
  BY <1>1, KeptJob

LEMMA KeptJobs ==
    ASSUME Inv, NEW w \in Workers,
           \/ job' = job
           \/ \E x : job' = [job EXCEPT ![w].badSeq = x]
           \/ \E x : job' = [job EXCEPT ![w].try = x]
           \/ \E x, y : job' = [job EXCEPT ![w].row = x, ![w].sequence = y]
           \/ job' = [job EXCEPT ![w] = NoJob]
    PROVE  \A v \in Workers : job'[v].entry \in {0, job[v].entry}
<1>1. CASE \E x : job' = [job EXCEPT ![w].badSeq = x]
  BY <1>1, KeptByError, Zenon
<1>2. CASE \E x : job' = [job EXCEPT ![w].try = x]
  BY <1>2, KeptByRetry, Zenon
<1>3. CASE \E x, y : job' = [job EXCEPT ![w].row = x, ![w].sequence = y]
  BY <1>3, KeptByClaim, Zenon
<1>4. CASE job' = [job EXCEPT ![w] = NoJob]
  BY <1>4, KeptByEnd, Zenon
<1>5. CASE job' = job
  BY <1>5
<1>6. QED
  BY <1>1, <1>2, <1>3, <1>4, <1>5, Zenon

LEMMA WorkerKeeps ==
    ASSUME Inv, NEW w \in Workers, Advance(w) \/ Answer(w) \/ WorkerFault(w)
    PROVE  KeepsToEntry
<1>1. Busy(w) /\ queue \in Seq(Entry)
  BY DEF Advance, Answer, WorkerFault, ClaimSelect, ClaimNothing, ClaimReserve, Confirm,
         MarkSequenceUsed, Settle, Requeue, AwaitRefill, FetchFails, Land, Reject, LoseTrack,
         ConfirmFails, MarkFails, SettleFails, RequeueFails, Busy, Inv, Kinds
<1>2. \A v \in Workers : job'[v].entry \in {0, job[v].entry}
  <2>1. CASE Advance(w)
    BY <2>1, KeptJobs DEF Advance, ClaimSelect, ClaimNothing, ClaimReserve, Confirm,
       MarkSequenceUsed, Settle, Requeue, Fail, Finish
  <2>2. CASE Answer(w)
    BY <2>2, KeptJobs DEF Answer, AwaitRefill, FetchFails, Land, Reject, LoseTrack, Fail
  <2>3. CASE WorkerFault(w)
    BY <2>3, KeptJobs DEF WorkerFault, ConfirmFails, MarkFails, SettleFails, RequeueFails,
       Fail, Finish
  <2>4. QED
    BY <2>1, <2>2, <2>3
<1>3. queue' = queue \/ \E r : queue' = [queue EXCEPT ![job[w].entry] = r]
  BY DEF Advance, Answer, WorkerFault, ClaimSelect, ClaimNothing, ClaimReserve, Confirm,
         MarkSequenceUsed, Settle, Requeue, AwaitRefill, FetchFails, Land, Reject, LoseTrack,
         ConfirmFails, MarkFails, SettleFails, RequeueFails, dbVars
<1>4. /\ Len(queue') = Len(queue) /\ Len(queue) \in Nat
      /\ \A e \in 1 .. Len(queue) : e # job[w].entry => queue'[e] = queue[e]
  BY <1>1, <1>3
<1>5. QED
  BY <1>1, <1>2, <1>4 DEF KeepsToEntry

LEMMA RestKeeps ==
    ASSUME Inv,
           \/ EnqueueTransaction \/ LandLate \/ ReservationsAge \/ PurgeStaleReservations
           \/ \E s \in Servers : \/ CountPool(s) \/ BackgroundRefill(s) \/ CompleteRefill(s)
                                 \/ RefillFails(s) \/ Crash(s)
           \/ UNCHANGED vars
    PROVE  KeepsToEntry
<1>1. queue' = queue \/ \E r : queue' = Append(queue, r)
  BY DEF EnqueueTransaction, LandLate, ReservationsAge, PurgeStaleReservations, CountPool,
         BackgroundRefill, CompleteRefill, RefillFails, Crash, vars, dbVars
<1>2. \A w \in Workers : job'[w].entry \in {0, job[w].entry}
  <2>1. job' = job \/ \E s \in Servers :
                        job' = [w \in Workers |-> IF ServerOf[w] = s THEN NoJob ELSE job[w]]
    BY DEF EnqueueTransaction, LandLate, ReservationsAge, PurgeStaleReservations, CountPool,
           BackgroundRefill, CompleteRefill, RefillFails, Crash, vars, workerVars
  <2>2. NoJob.entry = 0
    BY DEF NoJob
  <2>3. QED
    BY <2>1, <2>2
<1>3. queue \in Seq(Entry)
  BY DEF Inv, Kinds
<1>4. Len(queue) <= Len(queue') /\ \A e \in 1 .. Len(queue) : queue'[e] = queue[e]
  <2>1. CASE \E r : queue' = Append(queue, r)
    BY <1>3, <2>1
  <2>2. QED
    BY <1>1, <1>3, <2>1
<1>5. QED
  BY <1>2, <1>4 DEF KeepsToEntry

LEMMA OrderKept ==
    ASSUME OneProcess, Inv, OrderedSubmission, [Next]_vars
    PROVE  OrderedSubmission'
<1> SUFFICES ASSUME NEW w \in Workers, NEW e \in 1 .. (job'[w].entry - 1)
             PROVE  queue'[e].status # "pending"
  BY DEF OrderedSubmission
<1>1. CASE KeepsToEntry
  <2>1. job'[w].entry = job[w].entry
    BY <1>1 DEF KeepsToEntry
  <2>2. Busy(w) /\ job[w].entry \in 1 .. Len(queue)
    BY <2>1 DEF Inv, JobOK
  <2>3. e \in 1 .. Len(queue) /\ e # job[w].entry /\ queue[e].status # "pending"
    BY <2>1, <2>2 DEF OrderedSubmission, Inv, Kinds
  <2>4. \A v \in Workers : Busy(v) => v = w
    BY <2>2 DEF OneProcess, Inv, Exclusive
  <2>5. queue'[e] = queue[e]
    BY <1>1, <2>3, <2>4 DEF KeepsToEntry
  <2>6. QED
    BY <2>3, <2>5
<1>2. ASSUME NEW v \in Workers, DrainAccount(v)
      PROVE  queue'[e].status # "pending"
  <2>1. queue' = queue /\ Pending # {} /\ job' = [job EXCEPT ![v] =
                             NewJob(OldestPending, queue[OldestPending].attempts)]
    BY <1>2 DEF DrainAccount, dbVars, NewJob
  <2>2. \A u \in Workers : ServerOf[u] = ServerOf[v] => ~Busy(u)
    <3>1. ServerOf[v] \in Servers /\ ~inFlight[ServerOf[v]]
      BY <1>2, DrainerAssumption DEF DrainAccount, MayDrain
    <3>2. QED
      BY <3>1, Zenon DEF Inv, Flagged
  <2>3. \A u \in Workers : job[u].entry = 0
    BY <2>2 DEF OneProcess, Inv, JobOK
  <2>4. \A u \in Workers : job'[u].entry \in {0, OldestPending}
    BY <2>1, <2>3, NewJobShape DEF Inv, Kinds
  <2>5. OldestPending \in Pending /\ \A y \in Pending : OldestPending <= y
    BY <2>1, OldestExists
  <2>6. e < OldestPending /\ e \in 1 .. Len(queue)
    BY <2>4, <2>5 DEF Pending, Inv, Kinds
  <2>7. QED
    BY <2>1, <2>5, <2>6 DEF Pending, Inv, Kinds
<1>3. QED
  BY <1>1, <1>2, WorkerKeeps, RestKeeps DEF Next

\* While an invocation works on an entry, every entry before it is confirmed or
\* failed for good: drainAccount takes the oldest, and the in-flight set keeps a
\* second invocation of the process away until the first one has written its.
THEOREM OrderCorrect ==
    ASSUME OneProcess
    PROVE  Spec => []OrderedSubmission
<1>1. Init => OrderedSubmission
  BY DEF Init, OrderedSubmission, NoJob
<1>2. Inv /\ OrderedSubmission /\ [Next]_vars => OrderedSubmission'
  BY OrderKept
<1>3. QED
  BY <1>1, <1>2, Invariant, PTL DEF Spec
-----------------------------------------------------------------------------
(* The rows of the pool *)

LEMMA PoolRowChanges ==
    ASSUME NEW row \in PoolRow, NEW x \in {"no", "fresh", "stale"}
    PROVE  /\ [row EXCEPT !.reserved = x] \in PoolRow
           /\ [row EXCEPT !.reserved = x].sequence = row.sequence
           /\ [row EXCEPT !.reserved = x].reserved = x
           /\ [row EXCEPT !.used = TRUE] \in PoolRow
           /\ [row EXCEPT !.used = TRUE].sequence = row.sequence
           /\ [row EXCEPT !.used = TRUE].reserved = row.reserved
BY DEF PoolRow

\* What a step does that deletes no row and adds none: the sequences stay, and
\* only rows of the sequences in S become available again.
Loosens(S) ==
    /\ pool' \in Seq(PoolRow)
    /\ DOMAIN pool' = DOMAIN pool
    /\ \A r \in DOMAIN pool :
          /\ pool'[r].sequence = pool[r].sequence
          /\ pool'[r].reserved = "no" => pool[r].reserved = "no" \/ pool[r].sequence \in S

LEMMA MappedRows ==
    ASSUME pool \in Seq(PoolRow), NEW S, DOMAIN pool' = DOMAIN pool,
           pool' = [r \in DOMAIN pool |-> pool'[r]],
           \A r \in DOMAIN pool :
              /\ pool'[r] \in PoolRow
              /\ pool'[r].sequence = pool[r].sequence
              /\ pool'[r].reserved = "no" => pool[r].reserved = "no" \/ pool[r].sequence \in S
    PROVE  Loosens(S)
<1>1. Len(pool) \in Nat /\ DOMAIN pool = 1 .. Len(pool)
  OBVIOUS
<1>2. pool' \in [1 .. Len(pool) -> PoolRow]
  BY <1>1
<1>3. pool' \in Seq(PoolRow)
  BY <1>1, <1>2
<1>4. QED
  BY <1>3 DEF Loosens

LEMMA UsedRows ==
    ASSUME pool \in Seq(PoolRow), NEW seq, pool' = MarkUsed(seq)
    PROVE  Loosens({})
<1>1. \A r \in DOMAIN pool : pool[r] \in PoolRow
  OBVIOUS
<1>2. \A r \in DOMAIN pool : /\ pool'[r] \in PoolRow
                             /\ pool'[r].sequence = pool[r].sequence
                             /\ pool'[r].reserved = pool[r].reserved
  BY <1>1, PoolRowChanges DEF MarkUsed
<1>3. DOMAIN pool' = DOMAIN pool /\ pool' = [r \in DOMAIN pool |-> pool'[r]]
  BY DEF MarkUsed
<1>4. QED
  BY <1>2, <1>3, MappedRows

LEMMA ReleasedRows ==
    ASSUME pool \in Seq(PoolRow), NEW seq, pool' = ReleaseBack(seq)
    PROVE  Loosens({seq})
<1>1. \A r \in DOMAIN pool : pool[r] \in PoolRow
  OBVIOUS
<1>2. \A r \in DOMAIN pool : /\ pool'[r] \in PoolRow
                             /\ pool'[r].sequence = pool[r].sequence
                             /\ pool'[r] = pool[r] \/ pool[r].sequence \in {seq}
  BY <1>1, PoolRowChanges DEF ReleaseBack
<1>3. DOMAIN pool' = DOMAIN pool /\ pool' = [r \in DOMAIN pool |-> pool'[r]]
  BY DEF ReleaseBack
<1>4. QED
  BY <1>2, <1>3, MappedRows

LEMMA ReservedRow ==
    ASSUME pool \in Seq(PoolRow), NEW x, pool' = [pool EXCEPT ![x].reserved = "fresh"]
    PROVE  Loosens({}) /\ \A r \in DOMAIN pool : r = x => pool'[r].reserved = "fresh"
<1>1. \A r \in DOMAIN pool : pool[r] \in PoolRow
  OBVIOUS
<1>2. \A r \in DOMAIN pool :
         pool'[r] = IF r = x THEN [pool[r] EXCEPT !.reserved = "fresh"] ELSE pool[r]
  OBVIOUS
<1>3. \A r \in DOMAIN pool : /\ pool'[r] \in PoolRow
                             /\ pool'[r].sequence = pool[r].sequence
                             /\ pool'[r] = pool[r] \/ pool'[r].reserved = "fresh"
                             /\ r = x => pool'[r].reserved = "fresh"
  <2> SUFFICES ASSUME NEW r \in DOMAIN pool
               PROVE  /\ pool'[r] \in PoolRow
                      /\ pool'[r].sequence = pool[r].sequence
                      /\ pool'[r] = pool[r] \/ pool'[r].reserved = "fresh"
                      /\ r = x => pool'[r].reserved = "fresh"
    OBVIOUS
  <2>1. CASE r = x
    <3>1. pool'[r] = [pool[r] EXCEPT !.reserved = "fresh"]
      BY <1>2, <2>1
    <3>2. PICK row \in PoolRow : row = pool[r]
      BY <1>1
    <3>3. /\ [row EXCEPT !.reserved = "fresh"] \in PoolRow
          /\ [row EXCEPT !.reserved = "fresh"].sequence = row.sequence
          /\ [row EXCEPT !.reserved = "fresh"].reserved = "fresh"
      BY PoolRowChanges
    <3>4. pool'[r] = [row EXCEPT !.reserved = "fresh"]
      BY <3>1, <3>2
    <3>5. QED
      BY <3>2, <3>3, <3>4, Zenon
  <2>2. CASE r # x
    BY <1>1, <1>2, <2>2
  <2>3. QED
    BY <2>1, <2>2
<1>4. DOMAIN pool' = DOMAIN pool /\ pool' = [r \in DOMAIN pool |-> pool'[r]]
  OBVIOUS
<1>5. \A r \in DOMAIN pool : pool'[r].reserved = "no" => pool[r].reserved = "no"
  BY <1>3
<1>6. QED
  BY <1>3, <1>4, <1>5, MappedRows

LEMMA AgedRows ==
    ASSUME pool \in Seq(PoolRow), ReservationsAge
    PROVE  Loosens({})
<1>1. \A r \in DOMAIN pool : pool[r] \in PoolRow
  OBVIOUS
<1>2. pool' = [r \in DOMAIN pool |-> IF pool[r].reserved = "fresh"
                                     THEN [pool[r] EXCEPT !.reserved = "stale"] ELSE pool[r]]
  BY DEF ReservationsAge
<1>3. \A r \in DOMAIN pool : /\ pool'[r] \in PoolRow
                             /\ pool'[r].sequence = pool[r].sequence
                             /\ pool'[r] = pool[r] \/ pool'[r].reserved = "stale"
  BY <1>1, <1>2, PoolRowChanges
<1>4. DOMAIN pool' = DOMAIN pool /\ pool' = [r \in DOMAIN pool |-> pool'[r]]
  BY <1>2
<1>5. \A r \in DOMAIN pool : pool'[r].reserved = "no" => pool[r].reserved = "no"
  BY <1>3
<1>6. QED
  BY <1>3, <1>4, <1>5, MappedRows

LEMMA PurgedRows ==
    ASSUME pool \in Seq(PoolRow), PurgeStaleReservations
    PROVE  Loosens(purged')
<1>1. \A r \in DOMAIN pool : pool[r] \in PoolRow
  OBVIOUS
<1>2. /\ pool' = [r \in DOMAIN pool |-> IF r \in StaleRows
                                        THEN [pool[r] EXCEPT !.reserved = "no"] ELSE pool[r]]
      /\ \A r \in StaleRows : pool[r].sequence \in purged'
  BY DEF PurgeStaleReservations
<1>3. \A r \in DOMAIN pool : /\ pool'[r] \in PoolRow
                             /\ pool'[r].sequence = pool[r].sequence
                             /\ pool'[r] = pool[r] \/ pool[r].sequence \in purged'
  BY <1>1, <1>2, PoolRowChanges
<1>4. DOMAIN pool' = DOMAIN pool /\ pool' = [r \in DOMAIN pool |-> pool'[r]]
  BY <1>2
<1>5. \A r \in DOMAIN pool :
         pool'[r].reserved = "no" => pool[r].reserved = "no" \/ pool[r].sequence \in purged'
  BY <1>3
<1>6. QED
  BY <1>3, <1>4, <1>5, MappedRows

\* A list of numbers has a highest one.
LEMMA HighestOf ==
    ASSUME NEW N \in Nat \ {0}, NEW f \in [1 .. N -> Nat]
    PROVE  \E x \in 1 .. N : \A r \in 1 .. N : f[r] <= f[x]
<1> DEFINE P(n) == n + 1 \in 1 .. N =>
                      \E x \in 1 .. (n + 1) : \A r \in 1 .. (n + 1) : f[r] <= f[x]
           S == {n \in Nat : P(n)}
<1>1. P(0)
  <2> SUFFICES ASSUME 0 + 1 \in 1 .. N
               PROVE  \E x \in 1 .. (0 + 1) : \A r \in 1 .. (0 + 1) : f[r] <= f[x]
    OBVIOUS
  <2>1. 1 \in 1 .. (0 + 1) /\ f[1] \in Nat
    OBVIOUS
  <2>2. \A r \in 1 .. (0 + 1) : f[r] <= f[1]
    <3> SUFFICES ASSUME NEW r \in 1 .. (0 + 1) PROVE f[r] <= f[1]
      OBVIOUS
    <3>1. r = 1
      OBVIOUS
    <3>2. QED
      BY <2>1, <3>1
  <2>3. QED
    BY <2>1, <2>2
<1>2. ASSUME NEW n \in Nat, P(n) PROVE P(n + 1)
  <2> SUFFICES ASSUME (n + 1) + 1 \in 1 .. N
               PROVE  \E x \in 1 .. ((n + 1) + 1) : \A r \in 1 .. ((n + 1) + 1) : f[r] <= f[x]
    OBVIOUS
  <2>1. PICK x \in 1 .. (n + 1) : \A r \in 1 .. (n + 1) : f[r] <= f[x]
    <3>1. n + 1 \in 1 .. N
      OBVIOUS
    <3>2. QED
      BY <1>2, <3>1
  <2>2. \A r \in 1 .. ((n + 1) + 1) : f[r] \in Nat /\ (r \in 1 .. (n + 1) \/ r = (n + 1) + 1)
    OBVIOUS
  <2>3. x \in 1 .. ((n + 1) + 1) /\ f[x] \in Nat
    BY <2>2
  <2>4. CASE f[(n + 1) + 1] <= f[x]
    <3>1. \A r \in 1 .. ((n + 1) + 1) : f[r] <= f[x]
      BY <2>1, <2>2, <2>4
    <3>2. QED
      BY <2>3, <3>1
  <2>5. CASE ~(f[(n + 1) + 1] <= f[x])
    <3>1. \A r \in 1 .. ((n + 1) + 1) : f[r] <= f[(n + 1) + 1]
      <4> SUFFICES ASSUME NEW r \in 1 .. ((n + 1) + 1) PROVE f[r] <= f[(n + 1) + 1]
        OBVIOUS
      <4>1. f[r] \in Nat /\ f[(n + 1) + 1] \in Nat
        BY <2>2
      <4>2. CASE r \in 1 .. (n + 1)
        <5>1. f[r] <= f[x]
          BY <2>1, <4>2
        <5>2. QED
          BY <2>3, <2>5, <4>1, <5>1
      <4>3. QED
        BY <2>2, <4>1, <4>2
    <3>2. QED
      BY <3>1
  <2>6. QED
    BY <2>4, <2>5
<1> HIDE DEF P
<1>3. 0 \in S /\ \A n \in Nat : n \in S => n + 1 \in S
  BY <1>1, <1>2
<1>4. \A n \in S : P(n)
  OBVIOUS
<1> HIDE DEF S
<1>5. \A n \in Nat : n \in S
  BY <1>3, Induction
<1>6. N - 1 \in Nat /\ (N - 1) + 1 = N /\ N \in 1 .. N
  OBVIOUS
<1>7. P(N - 1)
  BY <1>4, <1>5, <1>6
<1>8. QED
  BY <1>6, <1>7 DEF P

\* So a refill starts after every sequence there is.
LEMMA Highest ==
    ASSUME pool \in Seq(PoolRow), pool # <<>>
    PROVE  \E x \in Sequences : \A y \in Sequences : y <= x
<1>1. \A r \in DOMAIN pool : pool[r] \in PoolRow
  OBVIOUS
<1>2. PICK n \in Nat \ {0} : DOMAIN pool = 1 .. n
  <2>1. Len(pool) \in Nat \ {0} /\ DOMAIN pool = 1 .. Len(pool)
    OBVIOUS
  <2>2. QED
    BY <2>1
<1> DEFINE f == [r \in 1 .. n |-> pool[r].sequence]
<1>3. f \in [1 .. n -> Nat]
  BY <1>1, <1>2 DEF PoolRow
<1>4. \A r \in 1 .. n : f[r] = pool[r].sequence
  OBVIOUS
<1> HIDE DEF f
<1>5. PICK x \in 1 .. n : \A r \in 1 .. n : f[r] <= f[x]
  BY <1>3, HighestOf
<1>6. QED
  BY <1>2, <1>4, <1>5 DEF Sequences

LEMMA StartBeyond ==
    ASSUME pool \in Seq(PoolRow)
    PROVE  /\ StartOfRefill \in Nat \ {0}
           /\ \A r \in DOMAIN pool : pool[r].sequence < StartOfRefill
<1>1. CASE pool = <<>>
  BY <1>1 DEF StartOfRefill
<1>2. CASE pool # <<>>
  <2>1. \A y \in Sequences : y \in Nat
    <3>1. \A r \in DOMAIN pool : pool[r] \in PoolRow
      OBVIOUS
    <3>2. QED
      BY <3>1 DEF Sequences, PoolRow
  <2>2. Max(Sequences) \in Sequences /\ \A y \in Sequences : y <= Max(Sequences)
    <3>1. PICK x \in Sequences : \A y \in Sequences : y <= x
      BY <1>2, Highest
    <3>2. \A y \in Sequences : x >= y
      BY <2>1, <3>1
    <3>3. Max(Sequences) \in Sequences /\ \A y \in Sequences : Max(Sequences) >= y
      BY <3>2 DEF Max
    <3>4. QED
      BY <2>1, <3>3
  <2>3. PICK x \in Nat : x = Max(Sequences)
    BY <2>1, <2>2
  <2>4. StartOfRefill = x + 1
    BY <1>2, <2>3 DEF StartOfRefill
  <2>5. \A y \in Sequences : y < x + 1
    <3> SUFFICES ASSUME NEW y \in Sequences PROVE y < x + 1
      OBVIOUS
    <3>1. y \in Nat /\ y <= x
      BY <2>1, <2>2, <2>3
    <3>2. QED
      BY <3>1
  <2>6. QED
    BY <2>4, <2>5 DEF Sequences
<1>3. QED
  BY <1>1, <1>2

\* A completed refill appends PoolSize rows with the sequences from its start on.
LEMMA RefilledRows ==
    ASSUME pool \in Seq(PoolRow), NEW s \in Servers, refill[s] \in Nat, CompleteRefill(s)
    PROVE  /\ pool' \in Seq(PoolRow) /\ Len(pool') = Len(pool) + PoolSize
           /\ \A r \in DOMAIN pool : r \in DOMAIN pool' /\ pool'[r] = pool[r]
           /\ \A r \in DOMAIN pool' :
                 r \notin DOMAIN pool => pool'[r].sequence = refill[s] + (r - Len(pool)) - 1
<1>1. PICK b \in Nat : b = refill[s]
  OBVIOUS
<1> DEFINE more == [i \in 1 .. PoolSize |->
                      [sequence |-> b + i - 1, reserved |-> "no", used |-> FALSE]]
<1>2. pool' = pool \o more
  BY <1>1 DEF CompleteRefill
<1>3. PoolSize \in Nat
  BY DrainerAssumption
<1>4. \A i \in 1 .. PoolSize : more[i] \in PoolRow /\ more[i].sequence = b + i - 1
  BY DEF PoolRow
<1>5. more \in Seq(PoolRow) /\ Len(more) = PoolSize
  <2>1. more \in [1 .. PoolSize -> PoolRow]
    BY <1>4
  <2>2. DOMAIN more = 1 .. PoolSize
    OBVIOUS
  <2> HIDE DEF more
  <2>3. QED
    BY <1>3, <2>1, <2>2
<1> HIDE DEF more
<1>6. /\ pool' \in Seq(PoolRow) /\ Len(pool') = Len(pool) + PoolSize
      /\ \A r \in 1 .. (Len(pool) + PoolSize) :
            pool'[r] = IF r <= Len(pool) THEN pool[r] ELSE more[r - Len(pool)]
  <2>1. /\ pool' \in Seq(PoolRow) /\ Len(pool') = Len(pool) + Len(more)
        /\ \A r \in 1 .. (Len(pool) + Len(more)) :
              pool'[r] = IF r <= Len(pool) THEN pool[r] ELSE more[r - Len(pool)]
    BY <1>2, <1>5, ConcatProperties
  <2>2. QED
    BY <1>5, <2>1
<1>7. Len(pool) \in Nat /\ DOMAIN pool = 1 .. Len(pool) /\ DOMAIN pool' = 1 .. Len(pool')
  BY <1>6
<1>8. \A r \in DOMAIN pool : r \in DOMAIN pool' /\ pool'[r] = pool[r]
  BY <1>3, <1>6, <1>7
<1>9. ASSUME NEW r \in DOMAIN pool', r \notin DOMAIN pool
      PROVE  pool'[r].sequence = b + (r - Len(pool)) - 1
  <2>1. r - Len(pool) \in 1 .. PoolSize /\ ~(r <= Len(pool)) /\ r \in 1 .. (Len(pool) + PoolSize)
    BY <1>3, <1>6, <1>7, <1>9
  <2>2. pool'[r] = more[r - Len(pool)]
    BY <1>6, <2>1
  <2>3. QED
    BY <1>4, <2>1, <2>2
<1>10. QED
  BY <1>1, <1>6, <1>8, <1>9
-----------------------------------------------------------------------------
(* The types *)

LEMMA JobTypes ==
    ASSUME NEW j \in Job, NEW x \in BOOLEAN, NEW n \in Nat, NEW m \in Nat
    PROVE  /\ [j EXCEPT !.badSeq = x] \in Job
           /\ [j EXCEPT !.try = n] \in Job
           /\ [j EXCEPT !.row = n, !.sequence = m] \in Job
<1>1. [j EXCEPT !.badSeq = x] \in Job /\ [j EXCEPT !.try = n] \in Job
  BY DEF Job
<1>2. PICK k \in Job : k = [j EXCEPT !.row = n]
  BY DEF Job
<1>3. [k EXCEPT !.sequence = m] \in Job
  BY DEF Job
<1>4. QED
  BY <1>1, <1>2, <1>3

\* The job of a new invocation has the type of a job.
LEMMA NewJobType ==
    ASSUME NEW x \in Nat, NEW y \in Nat
    PROVE  NoJob \in Job /\ NewJob(x, y) \in Job
<1>1. NoJob \in Job
  BY DEF NoJob, Job
<1>2. PICK j \in Job, z \in Nat : j = NoJob /\ z = 1
  BY <1>1
<1>3. PICK k \in Job : k = [j EXCEPT !.entry = x]
  BY DEF Job
<1>4. PICK l \in Job : l = [k EXCEPT !.attempts = y]
  BY DEF Job
<1>5. [l EXCEPT !.try = z] \in Job
  BY DEF Job
<1>6. NewJob(x, y) = [l EXCEPT !.try = z]
  BY <1>2, <1>3, <1>4, Zenon DEF NewJob
<1>7. QED
  BY <1>1, <1>5, <1>6

LEMMA OneJobTyped ==
    ASSUME job \in [Workers -> Job], NEW w \in Workers, NEW j \in Job,
           job' = [job EXCEPT ![w] = j]
    PROVE  job' \in [Workers -> Job]
OBVIOUS

LEMMA FailTyped ==
    ASSUME job \in [Workers -> Job], NEW w \in Workers, NEW x \in BOOLEAN, Fail(w, x)
    PROVE  job' \in [Workers -> Job]
<1>1. job' = [job EXCEPT ![w] = [job[w] EXCEPT !.badSeq = x]] /\ job[w] \in Job
  BY DEF Fail
<1>2. PICK j \in Job : j = [job[w] EXCEPT !.badSeq = x]
  BY <1>1, JobTypes
<1>3. QED
  BY <1>1, <1>2, OneJobTyped

LEMMA FinishTyped ==
    ASSUME job \in [Workers -> Job], NEW w \in Workers, Finish(w)
    PROVE  job' \in [Workers -> Job]
<1>1. job' = [job EXCEPT ![w] = NoJob]
  BY DEF Finish
<1>2. NoJob \in Job
  BY DEF NoJob, Job
<1>3. QED
  BY <1>1, <1>2, OneJobTyped

LEMMA JobTyped ==
    ASSUME Inv, TypeOK, [Next]_vars
    PROVE  job' \in [Workers -> Job]
<1>1. job \in [Workers -> Job]
  BY DEF TypeOK
<1>2. ASSUME NEW w \in Workers, DrainAccount(w)
      PROVE  job' \in [Workers -> Job]
  <2>1. OldestPending \in Pending
    BY <1>2, OldestExists DEF DrainAccount
  <2>2. PICK x \in Nat, y \in Nat : x = OldestPending /\ y = queue[OldestPending].attempts
    <3>1. \A e \in Pending : e \in Nat /\ queue[e] \in Entry
      BY DEF Pending, Inv, Kinds
    <3>2. \A q \in Entry : q.attempts \in Nat
      BY DrainerAssumption DEF Entry
    <3>3. QED
      BY <2>1, <3>1, <3>2
  <2>3. PICK j \in Job : j = NewJob(x, y)
    BY NewJobType
  <2>4. job' = [job EXCEPT ![w] = j]
    BY <1>2, <2>2, <2>3 DEF DrainAccount, NewJob
  <2>5. QED
    BY <1>1, <2>4, OneJobTyped
<1>3. ASSUME NEW w \in Workers, ClaimSelect(w)
      PROVE  job' \in [Workers -> Job]
  <2>1. PICK r \in Claimable :
           job' = [job EXCEPT ![w].row = r, ![w].sequence = pool[r].sequence]
    BY <1>3 DEF ClaimSelect
  <2>2. r \in DOMAIN pool /\ pool \in Seq(PoolRow)
    BY DEF Claimable, Available, TypeOK
  <2>3. r \in Nat /\ pool[r] \in PoolRow
    BY <2>2
  <2>4. PICK n \in Nat, m \in Nat : n = r /\ m = pool[r].sequence
    BY <2>3 DEF PoolRow
  <2>5. PICK j \in Job : j = [job[w] EXCEPT !.row = n, !.sequence = m]
    <3>1. job[w] \in Job
      BY <1>1
    <3>2. QED
      BY <3>1, JobTypes
  <2>6. job' = [job EXCEPT ![w] = j]
    BY <1>1, <2>1, <2>4, <2>5
  <2>7. QED
    BY <1>1, <2>6, OneJobTyped
<1>4. ASSUME NEW w \in Workers, ClaimNothing(w)
      PROVE  job' \in [Workers -> Job]
  <2>1. CASE job' = [job EXCEPT ![w].try = @ + 1]
    <3>1. PICK n \in Nat : n = job[w].try + 1
      <4>1. job[w] \in Job
        BY <1>1
      <4>2. QED
        BY <4>1 DEF Job
    <3>2. PICK j \in Job : j = [job[w] EXCEPT !.try = n]
      <4>1. job[w] \in Job
        BY <1>1
      <4>2. QED
        BY <4>1, JobTypes
    <3>3. job' = [job EXCEPT ![w] = j]
      BY <1>1, <2>1, <3>1, <3>2
    <3>4. QED
      BY <1>1, <3>3, OneJobTyped
  <2>2. CASE Fail(w, FALSE)
    BY <1>1, <2>2, FailTyped
  <2>3. CASE job' = job
    BY <1>1, <2>3
  <2>4. QED
    BY <1>4, <2>1, <2>2, <2>3 DEF ClaimNothing
<1>5. ASSUME NEW s \in Servers, Crash(s)
      PROVE  job' \in [Workers -> Job]
  <2>1. job' = [w \in Workers |-> IF ServerOf[w] = s THEN NoJob ELSE job[w]]
    BY <1>5 DEF Crash
  <2>2. NoJob \in Job
    BY DEF NoJob, Job
  <2>3. QED
    BY <1>1, <2>1, <2>2
<1>6. ASSUME NEW w \in Workers, Advance(w) \/ Answer(w) \/ WorkerFault(w)
      PROVE  job' \in [Workers -> Job]
  <2>1. \/ ClaimSelect(w) \/ ClaimNothing(w)
        \/ job' = job \/ (\E x \in BOOLEAN : Fail(w, x)) \/ Finish(w)
    BY <1>6, Zenon
    DEF Advance, Answer, WorkerFault, ClaimReserve, Confirm, MarkSequenceUsed, Settle, Requeue,
        AwaitRefill, FetchFails, Land, Reject, LoseTrack, ConfirmFails, MarkFails,
        SettleFails, RequeueFails
  <2>2. QED
    BY <1>1, <1>3, <1>4, <2>1, FailTyped, FinishTyped
<1>7. \/ job' = job
      \/ \E w \in Workers : DrainAccount(w) \/ Advance(w) \/ Answer(w) \/ WorkerFault(w)
      \/ \E s \in Servers : Crash(s)
  BY DEF Next, vars, workerVars, EnqueueTransaction, LandLate, ReservationsAge,
         PurgeStaleReservations, CountPool, BackgroundRefill, CompleteRefill, RefillFails
<1>8. QED
  BY <1>1, <1>2, <1>5, <1>6, <1>7

\* What a step does to the rows of the pool: it fills the pool up, or it changes
\* rows, of which one becomes available only by a release or the purge.
PoolStep ==
    \/ \E s \in Servers : CompleteRefill(s)
    \/ Loosens({})
    \/ \E w \in Workers : Settle(w) /\ job[w].badSeq /\ Loosens({job[w].sequence})
    \/ PurgeStaleReservations /\ Loosens(purged')

LEMMA PoolSteps == ASSUME TypeOK, [Next]_vars PROVE PoolStep
<1>1. pool \in Seq(PoolRow)
  BY DEF TypeOK
<1>2. CASE pool' = pool
  BY <1>1, <1>2 DEF PoolStep, Loosens
<1>3. ASSUME NEW w \in Workers, ClaimReserve(w) PROVE PoolStep
  BY <1>1, <1>3, ReservedRow DEF PoolStep, ClaimReserve
<1>4. ASSUME NEW w \in Workers, MarkSequenceUsed(w) PROVE PoolStep
  BY <1>1, <1>4, UsedRows DEF PoolStep, MarkSequenceUsed
<1>5. ASSUME NEW w \in Workers, Settle(w) PROVE PoolStep
  <2>1. \/ pool' = pool
        \/ job[w].badSeq /\ pool' = ReleaseBack(job[w].sequence)
        \/ pool' = MarkUsed(job[w].sequence)
    BY <1>5 DEF Settle, SettleSequence
  <2>2. QED
    BY <1>1, <1>2, <1>5, <2>1, UsedRows, ReleasedRows DEF PoolStep
<1>6. CASE ReservationsAge
  BY <1>1, <1>6, AgedRows DEF PoolStep
<1>7. CASE PurgeStaleReservations
  BY <1>1, <1>7, PurgedRows DEF PoolStep
<1>8. \/ pool' = pool
      \/ \E w \in Workers : ClaimReserve(w) \/ MarkSequenceUsed(w) \/ Settle(w)
      \/ \E s \in Servers : CompleteRefill(s)
      \/ ReservationsAge \/ PurgeStaleReservations
  BY DEF Next, vars, dbVars, EnqueueTransaction, DrainAccount, Advance, Answer, WorkerFault,
         ClaimSelect, ClaimNothing, Confirm, Requeue, AwaitRefill, FetchFails, Land, Reject,
         LoseTrack, ConfirmFails, MarkFails, SettleFails, RequeueFails, LandLate, CountPool,
         BackgroundRefill, RefillFails, Crash
<1>9. QED
  BY <1>2, <1>3, <1>4, <1>5, <1>6, <1>7, <1>8 DEF PoolStep

LEMMA PoolTyped ==
    ASSUME TypeOK, [Next]_vars
    PROVE  pool' \in Seq(PoolRow)
<1>1. ASSUME NEW s \in Servers, CompleteRefill(s) PROVE pool' \in Seq(PoolRow)
  BY <1>1, RefilledRows DEF TypeOK
<1>2. QED
  BY <1>1, PoolSteps DEF PoolStep, Loosens

LEMMA ServersTyped ==
    ASSUME TypeOK, [Next]_vars
    PROVE  /\ inFlight' \in [Servers -> BOOLEAN]
           /\ refill' \in [Servers -> Nat]
           /\ check' \in [Servers -> {"none", "count", "fetch"}]
<1>1. \A w \in Workers : ServerOf[w] \in Servers
  BY DrainerAssumption
<1>2. inFlight' \in [Servers -> BOOLEAN]
  <2>1. inFlight' = inFlight \/ \E s \in Servers, x \in BOOLEAN :
                                   inFlight' = [inFlight EXCEPT ![s] = x]
    BY <1>1
    DEF Next, vars, serverVars, EnqueueTransaction, DrainAccount, Advance, Answer, WorkerFault,
        ClaimSelect, ClaimNothing, ClaimReserve, Confirm, MarkSequenceUsed, Settle, Requeue,
        AwaitRefill, FetchFails, Land, Reject, LoseTrack, ConfirmFails, MarkFails,
        SettleFails, RequeueFails, LandLate, CountPool, BackgroundRefill, CompleteRefill,
        RefillFails, Crash, ReservationsAge, PurgeStaleReservations, Finish, FreesAccount
  <2>2. QED
    BY <2>1 DEF TypeOK
<1>3. refill' \in [Servers -> Nat]
  <2>1. PICK n \in Nat : n = StartOfRefill
    BY StartBeyond DEF TypeOK
  <2>2. \/ refill' = refill
        \/ \E s \in Servers : JoinRefill(s)
        \/ \E s \in Servers : refill' = [refill EXCEPT ![s] = 0]
    BY <1>1
    DEF Next, vars, serverVars, EnqueueTransaction, DrainAccount, Advance, Answer, WorkerFault,
        ClaimSelect, ClaimNothing, ClaimReserve, Confirm, MarkSequenceUsed, Settle, Requeue,
        AwaitRefill, FetchFails, Land, Reject, LoseTrack, ConfirmFails, MarkFails,
        SettleFails, RequeueFails, LandLate, CountPool, BackgroundRefill, CompleteRefill,
        RefillFails, Crash, ReservationsAge, PurgeStaleReservations, Finish
  <2>3. QED
    BY <2>1, <2>2 DEF TypeOK, JoinRefill
<1>4. check' \in [Servers -> {"none", "count", "fetch"}]
  <2>1. check' = check \/ \E s \in Servers, x \in {"none", "count", "fetch"} :
                             check' = [check EXCEPT ![s] = x]
    <3>1. ASSUME NEW w \in Workers, ClaimReserve(w)
          PROVE  \E s \in Servers, x \in {"none", "count", "fetch"} :
                             check' = [check EXCEPT ![s] = x]
      BY <1>1, <3>1 DEF ClaimReserve, TypeOK
    <3>2. ASSUME NEW s \in Servers, CountPool(s) \/ BackgroundRefill(s) \/ Crash(s)
          PROVE  \E x \in {"none", "count", "fetch"} : check' = [check EXCEPT ![s] = x]
      BY <3>2 DEF CountPool, BackgroundRefill, Crash
    <3>3. \/ check' = check
          \/ \E w \in Workers : ClaimReserve(w)
          \/ \E s \in Servers : CountPool(s) \/ BackgroundRefill(s) \/ Crash(s)
      BY DEF Next, vars, serverVars, EnqueueTransaction, DrainAccount, Advance, Answer,
             WorkerFault, ClaimSelect, ClaimNothing, Confirm, MarkSequenceUsed, Settle, Requeue,
             AwaitRefill, FetchFails, Land, Reject, LoseTrack, ConfirmFails, MarkFails,
             SettleFails, RequeueFails, LandLate, CompleteRefill, RefillFails,
             ReservationsAge, PurgeStaleReservations, Finish
    <3>4. QED
      BY <3>1, <3>2, <3>3
  <2>2. QED
    BY <2>1 DEF TypeOK
<1>5. QED
  BY <1>2, <1>3, <1>4

-----------------------------------------------------------------------------
(* The submissions *)

LEMMA LandBag ==
    ASSUME IsABag(ledger), NEW sub, ledger' = ledger (+) SetToBag({sub})
    PROVE  /\ IsABag(ledger') /\ BagToSet(ledger') = BagToSet(ledger) \cup {sub}
           /\ \A x \in BagToSet(ledger) \ {sub} : ledger'[x] = ledger[x]
           /\ sub \notin BagToSet(ledger) => ledger'[sub] = 1
<1>1. /\ DOMAIN ledger' = DOMAIN ledger \cup {sub}
      /\ ledger' = [x \in DOMAIN ledger' |-> ledger'[x]]
      /\ \A x \in DOMAIN ledger \ {sub} : ledger'[x] = ledger[x] + 0
      /\ sub \notin DOMAIN ledger => ledger'[sub] = 0 + 1
      /\ sub \in DOMAIN ledger => ledger'[sub] = ledger[sub] + 1
  BY DEF SetToBag, (+), BagToSet
<1>2. \A x \in DOMAIN ledger : ledger[x] \in Nat \ {0}
  BY DEF IsABag
<1>3. ASSUME NEW x \in DOMAIN ledger'
      PROVE  ledger'[x] \in Nat \ {0}
  <2>1. CASE x # sub
    BY <1>1, <1>2, <2>1
  <2>2. CASE x = sub /\ sub \in DOMAIN ledger
    <3>1. PICK n \in Nat \ {0} : n = ledger[sub]
      BY <1>2, <2>2
    <3>2. ledger'[x] = n + 1
      BY <1>1, <2>2, <3>1
    <3>3. QED
      BY <3>2
  <2>3. CASE x = sub /\ sub \notin DOMAIN ledger
    BY <1>1, <2>3
  <2>4. QED
    BY <1>1, <2>1, <2>2, <2>3
<1>4. ASSUME NEW x \in DOMAIN ledger \ {sub}
      PROVE  ledger'[x] = ledger[x]
  <2>1. PICK n \in Nat : n = ledger[x]
    BY <1>2
  <2>2. ledger'[x] = n + 0
    BY <1>1, <2>1
  <2>3. QED
    BY <2>1, <2>2
<1>5. QED
  BY <1>1, <1>3, <1>4 DEF IsABag, BagToSet

\* What a step may do to the submissions.
Lands(sub)     == ledger' = ledger (+) SetToBag({sub}) /\ limbo' = limbo
LandsLate(sub) == /\ sub \in limbo
                  /\ ledger' = ledger (+) SetToBag({sub}) /\ limbo' = limbo \ {sub}
LosesSight(S)  == ledger' = ledger /\ limbo' = limbo \cup S

LEMMA NetSteps ==
    ASSUME [Next]_vars
    PROVE  \/ limbo' = limbo /\ ledger' = ledger
           \/ \E w \in Workers : Land(w) /\ Lands(SubmissionOf(w))
           \/ \E w \in Workers : LoseTrack(w) /\ LosesSight({SubmissionOf(w)})
           \/ \E sub \in limbo : LandLate /\ LandsLate(sub)
           \/ \E s \in Servers : Crash(s)
<1>1. ASSUME NEW w \in Workers, Land(w) PROVE Lands(SubmissionOf(w))
  BY <1>1 DEF Land, Lands
<1>2. ASSUME NEW w \in Workers, LoseTrack(w) PROVE LosesSight({SubmissionOf(w)})
  BY <1>2 DEF LoseTrack, LosesSight
<1>3. ASSUME LandLate PROVE \E sub \in limbo : LandsLate(sub)
  BY <1>3 DEF LandLate, LandsLate
<1>4. \/ limbo' = limbo /\ ledger' = ledger
      \/ \E w \in Workers : Land(w) \/ LoseTrack(w)
      \/ LandLate
      \/ \E s \in Servers : Crash(s)
  BY DEF Next, vars, netVars, EnqueueTransaction, DrainAccount, Advance, Answer, WorkerFault,
         ClaimSelect, ClaimNothing, ClaimReserve, Confirm, MarkSequenceUsed, Settle, Requeue,
         AwaitRefill, FetchFails, Reject, ConfirmFails, MarkFails, SettleFails, RequeueFails,
         CountPool, BackgroundRefill, CompleteRefill, RefillFails, ReservationsAge,
         PurgeStaleReservations
<1>5. QED
  BY <1>1, <1>2, <1>3, <1>4

LEMMA CrashLoses ==
    ASSUME NEW s \in Servers, Crash(s)
    PROVE  \E S : /\ LosesSight(S)
                  /\ \A sub \in S : \E w \in Workers :
                        ServerOf[w] = s /\ pc[w] = "submit" /\ sub = SubmissionOf(w)
<1> DEFINE dead == {w \in Workers : ServerOf[w] = s}
           sent == {SubmissionOf(w) : w \in {v \in dead : pc[v] = "submit"}}
<1>1. PICK S \in SUBSET sent : limbo' = limbo \cup S
  BY DEF Crash
<1>2. ledger' = ledger
  BY DEF Crash
<1>3. QED
  BY <1>1, <1>2 DEF LosesSight

LEMMA NetTyped ==
    ASSUME TypeOK, [Next]_vars
    PROVE  /\ limbo' \subseteq Submission /\ IsABag(ledger')
           /\ BagToSet(ledger') \subseteq Submission
<1>1. \A w \in Workers : SubmissionOf(w) \in Submission
  BY DEF SubmissionOf, Submission, TypeOK, Job
<1>2. IsABag(ledger) /\ limbo \subseteq Submission /\ BagToSet(ledger) \subseteq Submission
  BY DEF TypeOK
<1>3. ASSUME NEW sub \in Submission, Lands(sub) \/ LandsLate(sub)
      PROVE  /\ limbo' \subseteq Submission /\ IsABag(ledger')
             /\ BagToSet(ledger') \subseteq Submission
  <2>1. /\ ledger' = ledger (+) SetToBag({sub})
        /\ limbo' \subseteq limbo
    BY <1>3 DEF Lands, LandsLate
  <2>2. IsABag(ledger') /\ BagToSet(ledger') = BagToSet(ledger) \cup {sub}
    BY <1>2, <2>1, LandBag
  <2>3. QED
    BY <1>2, <2>1, <2>2
<1>4. ASSUME NEW S \in SUBSET Submission, LosesSight(S)
      PROVE  /\ limbo' \subseteq Submission /\ IsABag(ledger')
             /\ BagToSet(ledger') \subseteq Submission
  BY <1>2, <1>4 DEF LosesSight
<1>5. ASSUME NEW s \in Servers, Crash(s)
      PROVE  /\ limbo' \subseteq Submission /\ IsABag(ledger')
             /\ BagToSet(ledger') \subseteq Submission
  <2>1. PICK S : /\ LosesSight(S)
                 /\ \A sub \in S : \E w \in Workers : sub = SubmissionOf(w)
    BY <1>5, CrashLoses
  <2>2. S \subseteq Submission
    BY <1>1, <2>1
  <2>3. QED
    BY <1>4, <2>1, <2>2
<1>6. ASSUME NEW w \in Workers, LosesSight({SubmissionOf(w)})
      PROVE  /\ limbo' \subseteq Submission /\ IsABag(ledger')
             /\ BagToSet(ledger') \subseteq Submission
  BY <1>1, <1>4, <1>6
<1>7. CASE limbo' = limbo /\ ledger' = ledger
  BY <1>2, <1>7
<1>8. QED
  BY <1>1, <1>2, <1>3, <1>5, <1>6, <1>7, NetSteps

LEMMA RestTyped ==
    ASSUME TypeOK, [Next]_vars
    PROVE  persisted' \subseteq Nat /\ purged' \subseteq Nat /\ faults' \in 0 .. MaxFaults
<1>1. persisted' \subseteq Nat
  <2>1. persisted' = persisted \/ \E w \in Workers : persisted' = persisted \cup {job[w].sequence}
    BY DEF Next, vars, dbVars, EnqueueTransaction, DrainAccount, Advance, Answer, WorkerFault,
           ClaimSelect, ClaimNothing, ClaimReserve, Confirm, MarkSequenceUsed, Settle, Requeue,
           AwaitRefill, FetchFails, Land, Reject, LoseTrack, ConfirmFails, MarkFails,
           SettleFails, RequeueFails, LandLate, CountPool, BackgroundRefill, CompleteRefill,
           RefillFails, Crash, ReservationsAge, PurgeStaleReservations
  <2>2. \A w \in Workers : job[w].sequence \in Nat
    BY DEF TypeOK, Job
  <2>3. persisted \subseteq Nat
    BY DEF TypeOK
  <2>4. ASSUME NEW w \in Workers, persisted' = persisted \cup {job[w].sequence}
        PROVE  persisted' \subseteq Nat
    BY <2>2, <2>3, <2>4
  <2>5. QED
    BY <2>1, <2>3, <2>4
<1>2. purged' \subseteq Nat
  <2>1. purged' = purged \/ purged' = purged \cup {pool[r].sequence : r \in StaleRows}
    BY DEF Next, vars, EnqueueTransaction, DrainAccount, Advance, Answer, WorkerFault,
           ClaimSelect, ClaimNothing, ClaimReserve, Confirm, MarkSequenceUsed, Settle, Requeue,
           AwaitRefill, FetchFails, Land, Reject, LoseTrack, ConfirmFails, MarkFails,
           SettleFails, RequeueFails, LandLate, CountPool, BackgroundRefill, CompleteRefill,
           RefillFails, Crash, ReservationsAge, PurgeStaleReservations
  <2>2. \A r \in StaleRows : pool[r] \in PoolRow
    BY DEF StaleRows, TypeOK
  <2>3. \A r \in StaleRows : pool[r].sequence \in Nat
    BY <2>2 DEF PoolRow
  <2>4. purged \subseteq Nat
    BY DEF TypeOK
  <2> HIDE DEF StaleRows
  <2>5. QED
    BY <2>1, <2>3, <2>4
<1>3. faults' \in 0 .. MaxFaults
  <2>1. faults' = faults \/ \E kind : Faulty(kind)
    BY DEF Next, vars, EnqueueTransaction, DrainAccount, Advance, Answer, WorkerFault,
           ClaimSelect, ClaimNothing, ClaimReserve, Confirm, MarkSequenceUsed, Settle, Requeue,
           AwaitRefill, FetchFails, Land, Reject, LoseTrack, ConfirmFails, MarkFails,
           SettleFails, RequeueFails, LandLate, CountPool, BackgroundRefill, CompleteRefill,
           RefillFails, Crash, ReservationsAge, PurgeStaleReservations
  <2>2. QED
    BY <2>1, DrainerAssumption DEF Faulty, TypeOK
<1>4. QED
  BY <1>1, <1>2, <1>3

LEMMA InitTypes == Init => TypeOK
<1> SUFFICES ASSUME Init PROVE TypeOK
  OBVIOUS
<1>1. IsABag(ledger) /\ BagToSet(ledger) = {}
  BY DEF Init, EmptyBag, SetToBag, IsABag, BagToSet
<1>2. NoJob \in Job
  BY DEF NoJob, Job
<1>3. QED
  BY <1>1, <1>2, DrainerAssumption DEF Init, TypeOK, Places

\* The drainer keeps to its types; among them, an entry is attempted at most
\* MaxAttempts times, whatever fails between the read and the write of its row.
THEOREM TypeCorrect == Spec => []TypeOK
<1>1. TypeOK /\ Inv /\ [Next]_vars => TypeOK'
  <2> SUFFICES ASSUME TypeOK, Inv, [Next]_vars PROVE TypeOK'
    OBVIOUS
  <2>1. queue' \in Seq(Entry) /\ pc' \in [Workers -> Places]
    BY NextInv DEF Inv, Kinds
  <2>2. QED
    BY <2>1, JobTyped, PoolTyped, ServersTyped, NetTyped, RestTyped DEF TypeOK
<1>2. QED
  BY <1>1, InitTypes, Invariant, PTL DEF Spec

-----------------------------------------------------------------------------
(* Collisions.  Where one process drains the account, only the purge makes a    *)
(* sequence available that was submitted; two processes may select one row.     *)

Unique == \A r, q \in DOMAIN pool : pool[r].sequence = pool[q].sequence => r = q

\* A refill under way starts after every sequence of the pool, and is one of the
\* process that drains.
Ahead ==
    \A s \in Servers :
        /\ refill[s] > 0 \/ check[s] # "none" => \E w \in Workers : ServerOf[w] = s
        /\ refill[s] > 0 => \A r \in DOMAIN pool : pool[r].sequence < refill[s]

\* The submissions that left a process, and what is so of a sequence.
Out == limbo \cup BagToSet(ledger)
Unsent(seq) == \A sub \in Out : sub.sequence # seq
Held(seq) == \A r \in DOMAIN pool : pool[r].sequence = seq => pool[r].reserved # "no"

\* A submission is the one with its sequence, and it landed once if at all.
Once(sub) ==
    /\ Held(sub.sequence)
    /\ \A other \in Out : other.sequence = sub.sequence => other = sub
    /\ sub \in BagToSet(ledger) => sub \notin limbo /\ ledger[sub] = 1

OutOK ==
    \A sub \in Out : /\ sub.sequence \in Sequences
                     /\ sub.sequence \notin purged => Once(sub)

\* An invocation has a row, and has not used the sequence of its row.
HasRow(w) == pc[w] \in {"reserve", "submit"} \/ job[w].badSeq
Unused(w) == pc[w] \in {"reserve", "submit"} \/ (pc[w] = "settle" /\ job[w].badSeq)

ClaimOK(w) ==
    /\ HasRow(w) => /\ job[w].row \in DOMAIN pool
                    /\ pool[job[w].row].sequence = job[w].sequence
    /\ job[w].badSeq => pc[w] \in {"settle", "requeue"}
    /\ job[w].sequence \notin purged =>
          /\ Unused(w) => Unsent(job[w].sequence)
          /\ pc[w] = "submit" => Held(job[w].sequence)

PoolInv == Unique /\ Ahead /\ OutOK /\ \A w \in Workers : ClaimOK(w)

LEMMA InitPool == Init => PoolInv
<1> SUFFICES ASSUME Init PROVE PoolInv
  OBVIOUS
<1>1. pool = <<>> /\ limbo = {} /\ BagToSet(ledger) = {}
  BY DEF Init, EmptyBag, SetToBag, BagToSet
<1>2. Unique /\ Ahead /\ OutOK
  BY <1>1 DEF Init, Unique, Ahead, OutOK, Out
<1>3. \A w \in Workers : pc[w] = "idle" /\ ~job[w].badSeq
  BY DEF Init, NoJob
<1>4. \A w \in Workers : ClaimOK(w)
  BY <1>3 DEF ClaimOK, HasRow, Unused
<1>5. QED
  BY <1>2, <1>4 DEF PoolInv

-----------------------------------------------------------------------------
(* The rows *)

\* The rows there are keep their sequences.
RowsStay ==
    /\ \A r \in DOMAIN pool : r \in DOMAIN pool' /\ pool'[r].sequence = pool[r].sequence
    /\ purged \subseteq purged'

LEMMA PurgedGrows == ASSUME [Next]_vars PROVE purged \subseteq purged'
BY DEF Next, vars, EnqueueTransaction, DrainAccount, Advance, Answer, WorkerFault,
       ClaimSelect, ClaimNothing, ClaimReserve, Confirm, MarkSequenceUsed, Settle, Requeue,
       AwaitRefill, FetchFails, Land, Reject, LoseTrack, ConfirmFails, MarkFails,
       SettleFails, RequeueFails, LandLate, CountPool, BackgroundRefill, CompleteRefill,
       RefillFails, Crash, ReservationsAge, PurgeStaleReservations

\* A refill takes sequences beyond those of every row.
LEMMA RefillUnique ==
    ASSUME TypeOK, PoolInv, NEW s \in Servers, CompleteRefill(s)
    PROVE  /\ Unique'
           /\ \A r \in DOMAIN pool : r \in DOMAIN pool' /\ pool'[r] = pool[r]
           /\ \A r \in DOMAIN pool' :
                 r \notin DOMAIN pool => \A q \in DOMAIN pool :
                                            pool'[r].sequence # pool[q].sequence
<1>1. refill[s] \in Nat /\ refill[s] > 0
  BY DEF TypeOK, CompleteRefill
<1>2. /\ pool' \in Seq(PoolRow) /\ Len(pool') = Len(pool) + PoolSize
      /\ \A r \in DOMAIN pool : r \in DOMAIN pool' /\ pool'[r] = pool[r]
      /\ \A r \in DOMAIN pool' :
            r \notin DOMAIN pool => pool'[r].sequence = refill[s] + (r - Len(pool)) - 1
  BY <1>1, RefilledRows DEF TypeOK
<1>3. PICK n \in Nat, b \in Nat : n = Len(pool) /\ b = refill[s]
  BY <1>1 DEF TypeOK
<1>4. DOMAIN pool = 1 .. n /\ \A r \in DOMAIN pool' : r \in Nat \ {0}
  BY <1>2, <1>3 DEF TypeOK
<1>5. \A q \in DOMAIN pool : pool[q].sequence \in Nat /\ pool[q].sequence < b
  <2>1. \A q \in DOMAIN pool : pool[q] \in PoolRow
    BY DEF TypeOK
  <2>2. QED
    BY <1>1, <1>3, <2>1 DEF PoolRow, PoolInv, Ahead
<1>6. \A r \in DOMAIN pool' : r \notin DOMAIN pool =>
         r > n /\ pool'[r].sequence = b + (r - n) - 1
  BY <1>2, <1>3, <1>4
<1>7. ASSUME NEW r \in DOMAIN pool', r \notin DOMAIN pool, NEW q \in DOMAIN pool
      PROVE  pool'[r].sequence # pool[q].sequence
  <2>1. r \in Nat /\ r > n /\ pool'[r].sequence = b + (r - n) - 1
    BY <1>4, <1>6, <1>7
  <2>2. QED
    BY <1>5, <2>1
<1>8. ASSUME NEW r \in DOMAIN pool', NEW q \in DOMAIN pool',
             pool'[r].sequence = pool'[q].sequence
      PROVE  r = q
  <2>1. CASE r \in DOMAIN pool /\ q \in DOMAIN pool
    BY <1>2, <1>8, <2>1 DEF PoolInv, Unique
  <2>2. CASE r \notin DOMAIN pool /\ q \notin DOMAIN pool
    BY <1>4, <1>6, <1>8, <2>2
  <2>3. CASE r \notin DOMAIN pool /\ q \in DOMAIN pool
    BY <1>2, <1>7, <1>8, <2>3
  <2>4. CASE r \in DOMAIN pool /\ q \notin DOMAIN pool
    BY <1>2, <1>7, <1>8, <2>4
  <2>5. QED
    BY <2>1, <2>2, <2>3, <2>4
<1>9. QED
  BY <1>2, <1>7, <1>8 DEF Unique

LEMMA RowsKept ==
    ASSUME TypeOK, PoolInv, [Next]_vars
    PROVE  Unique' /\ RowsStay
<1>1. purged \subseteq purged'
  BY PurgedGrows
<1>2. ASSUME NEW s \in Servers, CompleteRefill(s) PROVE Unique' /\ RowsStay
  BY <1>1, <1>2, RefillUnique DEF RowsStay
<1>3. ASSUME NEW S, Loosens(S) PROVE Unique' /\ RowsStay
  BY <1>1, <1>3 DEF Loosens, RowsStay, Unique, PoolInv
<1>4. QED
  BY <1>2, <1>3, PoolSteps DEF PoolStep

\* A sequence stays held unless the purge or its own invocation released it.
LEMMA HeldStays ==
    ASSUME TypeOK, PoolInv, [Next]_vars, NEW seq \in Sequences, Held(seq),
           seq \notin purged',
           \A w \in Workers : ~(Settle(w) /\ job[w].badSeq /\ job[w].sequence = seq)
    PROVE  Held(seq)'
<1>1. CASE \E s \in Servers : CompleteRefill(s)
  BY <1>1, RefillUnique DEF Held, Sequences
<1>2. CASE Loosens({})
  BY <1>2 DEF Loosens, Held
<1>3. ASSUME NEW w \in Workers, Settle(w), job[w].badSeq, Loosens({job[w].sequence})
      PROVE  Held(seq)'
  BY <1>3 DEF Loosens, Held
<1>4. CASE Loosens(purged')
  BY <1>4 DEF Loosens, Held
<1>5. QED
  BY <1>1, <1>2, <1>3, <1>4, PoolSteps DEF PoolStep

\* A refill starts, and its check is made, on behalf of an invocation.
LEMMA RefillShapes ==
    ASSUME [Next]_vars
    PROVE  /\ \/ refill' = refill
              \/ \E s \in Servers : refill' = [refill EXCEPT ![s] = 0]
              \/ \E s \in Servers : /\ JoinRefill(s)
                                    /\ check[s] # "none" \/ \E w \in Workers : ServerOf[w] = s
           /\ \/ check' = check
              \/ \E s \in Servers : \E x : /\ check' = [check EXCEPT ![s] = x]
                                           /\ x # "none" => check[s] # "none" \/
                                                            \E w \in Workers : ServerOf[w] = s
<1>1. \A w \in Workers : ServerOf[w] \in Servers
  BY DrainerAssumption
<1>2. \/ refill' = refill
      \/ \E s \in Servers : refill' = [refill EXCEPT ![s] = 0]
      \/ \E s \in Servers : /\ JoinRefill(s)
                            /\ check[s] # "none" \/ \E w \in Workers : ServerOf[w] = s
  <2>1. \/ refill' = refill
        \/ \E s \in Servers : refill' = [refill EXCEPT ![s] = 0]
        \/ \E w \in Workers : JoinRefill(ServerOf[w])
        \/ \E s \in Servers : JoinRefill(s) /\ check[s] = "fetch"
    BY DEF Next, vars, serverVars, EnqueueTransaction, DrainAccount, Advance, Answer,
           WorkerFault, ClaimSelect, ClaimNothing, ClaimReserve, Confirm, MarkSequenceUsed,
           Settle, Requeue, AwaitRefill, FetchFails, Land, Reject, LoseTrack, ConfirmFails,
           MarkFails, SettleFails, RequeueFails, LandLate, CountPool, BackgroundRefill,
           CompleteRefill, RefillFails, Crash, ReservationsAge, PurgeStaleReservations, Finish
  <2> HIDE DEF JoinRefill
  <2>2. QED
    BY <1>1, <2>1
<1>3. \/ check' = check
      \/ \E s \in Servers : \E x : /\ check' = [check EXCEPT ![s] = x]
                                   /\ x # "none" => check[s] # "none" \/
                                                    \E w \in Workers : ServerOf[w] = s
  <2>1. ASSUME NEW w \in Workers, ClaimReserve(w)
        PROVE  \E x : check' = [check EXCEPT ![ServerOf[w]] = x]
    BY <2>1 DEF ClaimReserve
  <2>2. ASSUME NEW s \in Servers, CountPool(s)
        PROVE  check[s] # "none" /\ \E x : check' = [check EXCEPT ![s] = x]
    BY <2>2 DEF CountPool
  <2>3. ASSUME NEW s \in Servers, BackgroundRefill(s) \/ Crash(s)
        PROVE  check' = [check EXCEPT ![s] = "none"]
    BY <2>3 DEF BackgroundRefill, Crash
  <2>4. \/ check' = check
        \/ \E w \in Workers : ClaimReserve(w)
        \/ \E s \in Servers : CountPool(s) \/ BackgroundRefill(s) \/ Crash(s)
    BY DEF Next, vars, serverVars, EnqueueTransaction, DrainAccount, Advance, Answer,
           WorkerFault, ClaimSelect, ClaimNothing, Confirm, MarkSequenceUsed, Settle, Requeue,
           AwaitRefill, FetchFails, Land, Reject, LoseTrack, ConfirmFails, MarkFails,
           SettleFails, RequeueFails, LandLate, CompleteRefill, RefillFails,
           ReservationsAge, PurgeStaleReservations, Finish
  <2>5. QED
    BY <1>1, <2>1, <2>2, <2>3, <2>4
<1>4. QED
  BY <1>2, <1>3

LEMMA AheadStays ==
    ASSUME OneProcess, TypeOK, PoolInv, [Next]_vars
    PROVE  Ahead'
<1>1. ASSUME NEW s \in Servers
      PROVE  /\ refill'[s] > 0 => \/ refill'[s] = refill[s]
                                  \/ /\ refill'[s] = StartOfRefill
                                     /\ check[s] # "none" \/ \E w \in Workers : ServerOf[w] = s
             /\ check'[s] # "none" => check[s] # "none" \/ \E w \in Workers : ServerOf[w] = s
  BY RefillShapes DEF TypeOK, JoinRefill
<1>2. ASSUME NEW s \in Servers, refill'[s] > 0 \/ check'[s] # "none"
      PROVE  \E w \in Workers : ServerOf[w] = s
  BY <1>1, <1>2 DEF PoolInv, Ahead
<1>3. ASSUME NEW s \in Servers, refill'[s] > 0, NEW S, Loosens(S)
      PROVE  \A r \in DOMAIN pool' : pool'[r].sequence < refill'[s]
  <2>1. \A r \in DOMAIN pool : pool[r].sequence < StartOfRefill
    BY StartBeyond DEF TypeOK
  <2>2. \A r \in DOMAIN pool : pool[r].sequence < refill'[s]
    BY <1>1, <1>3, <2>1 DEF PoolInv, Ahead
  <2>3. QED
    BY <1>3, <2>2 DEF Loosens
<1>4. ASSUME NEW t \in Servers, CompleteRefill(t), NEW s \in Servers
      PROVE  ~(refill'[s] > 0)
  <2>1. refill' = [refill EXCEPT ![t] = 0] /\ refill[t] > 0
    BY <1>4 DEF CompleteRefill
  <2>2. CASE s = t
    BY <2>1, <2>2 DEF TypeOK
  <2>3. CASE s # t
    <3>1. refill'[s] = refill[s]
      BY <2>1, <2>3 DEF TypeOK
    <3>2. PICK v \in Workers : ServerOf[v] = t
      BY <2>1 DEF PoolInv, Ahead
    <3>3. ~(refill[s] > 0)
      BY <2>3, <3>2 DEF OneProcess, PoolInv, Ahead
    <3>4. QED
      BY <3>1, <3>3
  <2>4. QED
    BY <2>2, <2>3
<1>5. ASSUME NEW s \in Servers, refill'[s] > 0
      PROVE  \A r \in DOMAIN pool' : pool'[r].sequence < refill'[s]
  BY <1>3, <1>4, <1>5, PoolSteps DEF PoolStep
<1>6. QED
  BY <1>2, <1>5 DEF Ahead

-----------------------------------------------------------------------------
(* The submissions *)

LEMMA OutStays ==
    ASSUME TypeOK, PoolInv, [Next]_vars, limbo' = limbo, ledger' = ledger
    PROVE  OutOK'
<1>1. Out' = Out
  BY DEF Out
<1>2. RowsStay
  BY RowsKept
<1>3. ASSUME NEW sub \in Out
      PROVE  /\ sub.sequence \in Sequences'
             /\ sub.sequence \notin purged' => Once(sub)'
  <2>1. /\ sub.sequence \in Sequences
        /\ sub.sequence \notin purged => Once(sub)
    BY DEF PoolInv, OutOK
  <2>2. sub.sequence \in Sequences'
    BY <1>2, <2>1 DEF Sequences, RowsStay
  <2>3. ASSUME sub.sequence \notin purged'
        PROVE  Once(sub)'
    <3>1. sub.sequence \notin purged /\ Once(sub)
      BY <1>2, <2>1, <2>3 DEF RowsStay
    <3>2. ASSUME NEW w \in Workers, Settle(w), job[w].badSeq, job[w].sequence = sub.sequence
          PROVE  FALSE
      <4>1. Unused(w) /\ ClaimOK(w)
        BY <3>2 DEF Settle, Unused, PoolInv
      <4>2. Unsent(sub.sequence)
        BY <3>1, <3>2, <4>1 DEF ClaimOK
      <4>3. QED
        BY <4>2 DEF Unsent
    <3>3. Held(sub.sequence)'
      BY <2>1, <2>3, <3>1, <3>2, HeldStays DEF Once
    <3>4. QED
      BY <1>1, <3>1, <3>3 DEF Once
  <2>4. QED
    BY <2>2, <2>3
<1>4. QED
  BY <1>1, <1>3 DEF OutOK

\* A submission leaves its process with a sequence it alone holds.
LEMMA OutAdds ==
    ASSUME TypeOK, PoolInv, NEW sub, Lands(sub) \/ LosesSight({sub}),
           pool' = pool, purged' = purged, sub.sequence \in Sequences,
           sub.sequence \notin purged => Unsent(sub.sequence) /\ Held(sub.sequence)
    PROVE  OutOK'
<1>1. Out' = Out \cup {sub} /\ IsABag(ledger)
  BY LandBag DEF Out, Lands, LosesSight, TypeOK
<1>2. \A x \in BagToSet(ledger) \ {sub} : ledger'[x] = ledger[x]
  BY <1>1, LandBag DEF Lands, LosesSight
<1>3. BagToSet(ledger') \subseteq BagToSet(ledger) \cup {sub}
      /\ limbo' \subseteq limbo \cup {sub}
  BY <1>1, LandBag DEF Lands, LosesSight
<1>4. ASSUME NEW x \in Out'
      PROVE  /\ x.sequence \in Sequences'
             /\ x.sequence \notin purged' => Once(x)'
  <2>1. x.sequence \in Sequences'
    BY <1>1 DEF PoolInv, OutOK, Sequences
  <2>2. ASSUME x.sequence \notin purged'
        PROVE  Once(x)'
    <3>1. CASE x.sequence = sub.sequence
      <4>1. Unsent(sub.sequence) /\ Held(sub.sequence)
        BY <2>2, <3>1
      <4>2. sub \notin Out /\ \A y \in Out : y.sequence # sub.sequence
        BY <4>1 DEF Unsent
      <4>3. x = sub /\ \A y \in Out' : y.sequence = x.sequence => y = x
        BY <1>1, <3>1, <4>2
      <4>4. sub \in BagToSet(ledger') => sub \notin limbo' /\ ledger'[sub] = 1
        BY <1>1, <4>2, LandBag DEF Lands, LosesSight, Out
      <4>5. Held(sub.sequence)'
        BY <4>1 DEF Held
      <4>6. QED
        BY <4>3, <4>4, <4>5 DEF Once
    <3>2. CASE x.sequence # sub.sequence
      <4>1. x \in Out /\ x # sub
        BY <1>1, <3>2
      <4>2. Once(x)
        BY <2>2, <4>1 DEF PoolInv, OutOK
      <4>3. Held(x.sequence)'
        BY <4>2 DEF Held, Once
      <4>4. \A y \in Out' : y.sequence = x.sequence => y = x
        BY <1>1, <3>2, <4>2 DEF Once
      <4>5. x \in BagToSet(ledger') => x \notin limbo' /\ ledger'[x] = 1
        BY <1>2, <1>3, <4>1, <4>2 DEF Once
      <4>6. QED
        BY <4>3, <4>4, <4>5 DEF Once
    <3>3. QED
      BY <3>1, <3>2
  <2>3. QED
    BY <2>1, <2>2
<1>5. QED
  BY <1>4 DEF OutOK

LEMMA OutLate ==
    ASSUME TypeOK, PoolInv, NEW sub \in limbo, LandsLate(sub), pool' = pool, purged' = purged
    PROVE  OutOK' /\ Out' = Out
<1>1. /\ IsABag(ledger') /\ BagToSet(ledger') = BagToSet(ledger) \cup {sub}
      /\ \A x \in BagToSet(ledger) \ {sub} : ledger'[x] = ledger[x]
      /\ sub \notin BagToSet(ledger) => ledger'[sub] = 1
      /\ limbo' = limbo \ {sub}
  BY LandBag DEF LandsLate, TypeOK
<1>2. Out' = Out
  BY <1>1 DEF Out
<1>3. ASSUME NEW x \in Out
      PROVE  /\ x.sequence \in Sequences'
             /\ x.sequence \notin purged' => Once(x)'
  <2>1. x.sequence \in Sequences'
    BY DEF PoolInv, OutOK, Sequences
  <2>2. ASSUME x.sequence \notin purged'
        PROVE  Once(x)'
    <3>1. Once(x)
      BY <2>2 DEF PoolInv, OutOK
    <3>2. Held(x.sequence)' /\ \A y \in Out' : y.sequence = x.sequence => y = x
      BY <1>2, <3>1 DEF Held, Once
    <3>3. x \in BagToSet(ledger') => x \notin limbo' /\ ledger'[x] = 1
      BY <1>1, <3>1 DEF Once
    <3>4. QED
      BY <3>2, <3>3 DEF Once
  <2>3. QED
    BY <2>1, <2>2
<1>4. QED
  BY <1>2, <1>3 DEF OutOK

\* An invocation that submits has what its submission needs.
LEMMA SubmitsOwn ==
    ASSUME PoolInv, NEW w \in Workers, pc[w] = "submit"
    PROVE  LET seq == SubmissionOf(w).sequence
           IN  /\ seq \in Sequences
               /\ seq \notin purged => Unsent(seq) /\ Held(seq)
<1>1. ClaimOK(w) /\ HasRow(w) /\ Unused(w)
  BY DEF PoolInv, HasRow, Unused
<1>2. job[w].row \in DOMAIN pool /\ pool[job[w].row].sequence = job[w].sequence
  BY <1>1 DEF ClaimOK
<1>3. job[w].sequence \in Sequences
  BY <1>2 DEF Sequences
<1>4. SubmissionOf(w).sequence = job[w].sequence
  BY DEF SubmissionOf
<1>5. job[w].sequence \notin purged => Unsent(job[w].sequence) /\ Held(job[w].sequence)
  BY <1>1 DEF ClaimOK
<1>6. QED
  BY <1>3, <1>4, <1>5

\* The submission of the one process that dies.
LEMMA CrashOut ==
    ASSUME OneProcess, Inv, NEW s \in Servers, Crash(s)
    PROVE  \/ limbo' = limbo /\ ledger' = ledger
           \/ \E w \in Workers : /\ ServerOf[w] = s /\ pc[w] = "submit"
                                 /\ LosesSight({SubmissionOf(w)})
<1>1. PICK S : /\ LosesSight(S)
               /\ \A sub \in S : \E w \in Workers :
                     ServerOf[w] = s /\ pc[w] = "submit" /\ sub = SubmissionOf(w)
  BY CrashLoses
<1>2. CASE S = {}
  BY <1>1, <1>2 DEF LosesSight
<1>3. CASE S # {}
  <2>1. PICK sub \in S : TRUE
    BY <1>3
  <2>2. PICK w \in Workers : ServerOf[w] = s /\ pc[w] = "submit" /\ sub = SubmissionOf(w)
    BY <1>1, <2>1
  <2>3. \A v \in Workers : ServerOf[v] = s /\ pc[v] = "submit" => v = w
    BY <2>2 DEF Inv, Exclusive, Busy
  <2>4. S = {SubmissionOf(w)}
    BY <1>1, <2>1, <2>2, <2>3
  <2>5. QED
    BY <1>1, <2>2, <2>4
<1>4. QED
  BY <1>2, <1>3

LEMMA OutKept ==
    ASSUME OneProcess, Inv, TypeOK, PoolInv, [Next]_vars
    PROVE  OutOK'
<1>1. ASSUME NEW w \in Workers, Land(w), Lands(SubmissionOf(w)) PROVE OutOK'
  BY <1>1, SubmitsOwn, OutAdds DEF Land, dbVars
<1>2. ASSUME NEW w \in Workers, LoseTrack(w), LosesSight({SubmissionOf(w)}) PROVE OutOK'
  BY <1>2, SubmitsOwn, OutAdds DEF LoseTrack, dbVars
<1>3. ASSUME NEW sub \in limbo, LandLate, LandsLate(sub) PROVE OutOK'
  BY <1>3, OutLate DEF LandLate, dbVars
<1>4. ASSUME NEW s \in Servers, Crash(s), NEW w \in Workers, pc[w] = "submit",
             LosesSight({SubmissionOf(w)})
      PROVE  OutOK'
  BY <1>4, SubmitsOwn, OutAdds DEF Crash, dbVars
<1>5. QED
  BY <1>1, <1>2, <1>3, <1>4, NetSteps, CrashOut, OutStays
-----------------------------------------------------------------------------
(* The invocations *)

LEMMA PlainClaim ==
    ASSUME NEW w \in Workers, pc'[w] \notin {"reserve", "submit"}, ~job'[w].badSeq
    PROVE  ClaimOK(w)'
BY DEF ClaimOK, HasRow, Unused

\* An invocation that does nothing while nothing is sent.
LEMMA ClaimStays ==
    ASSUME OneProcess, Inv, TypeOK, PoolInv, [Next]_vars, NEW w \in Workers,
           job'[w] = job[w], pc'[w] = pc[w], Out' = Out
    PROVE  ClaimOK(w)'
<1>1. RowsStay /\ ClaimOK(w)
  BY RowsKept DEF PoolInv
<1>2. HasRow(w)' => HasRow(w)
  BY DEF HasRow
<1>3. HasRow(w) => /\ job[w].row \in DOMAIN pool'
                   /\ pool'[job[w].row].sequence = job[w].sequence
  BY <1>1 DEF ClaimOK, RowsStay
<1>4. ASSUME job[w].sequence \notin purged', pc[w] = "submit"
      PROVE  Held(job[w].sequence)'
  <2>1. Held(job[w].sequence) /\ job[w].sequence \in Sequences
    BY <1>1, <1>4 DEF ClaimOK, HasRow, RowsStay, Sequences
  <2>2. \A v \in Workers : ~Settle(v)
    BY <1>4 DEF Settle, OneProcess, Inv, Exclusive, Busy
  <2>3. QED
    BY <1>4, <2>1, <2>2, HeldStays
<1>5. job[w].sequence \notin purged' => (Unused(w) => Unsent(job[w].sequence))
  BY <1>1 DEF ClaimOK, RowsStay
<1>6. Unused(w)' <=> Unused(w)
  BY Zenon DEF Unused
<1>7. Unsent(job[w].sequence)' <=> Unsent(job[w].sequence)
  BY DEF Unsent
<1>8. job'[w].badSeq => pc'[w] \in {"settle", "requeue"}
  BY <1>1, Zenon DEF ClaimOK
<1>9. pc'[w] = "submit" /\ job'[w].sequence \notin purged' => Held(job[w].sequence)'
  BY <1>4, Zenon
<1>10. QED
  BY <1>2, <1>3, <1>5, <1>6, <1>7, <1>8, <1>9, Zenon DEF ClaimOK

LEMMA FailedJob ==
    ASSUME TypeOK, NEW w \in Workers, NEW x \in BOOLEAN, Fail(w, x)
    PROVE  /\ pc'[w] = "settle" /\ job'[w].badSeq = x
           /\ job'[w].row = job[w].row /\ job'[w].sequence = job[w].sequence
<1>1. pc'[w] = "settle"
  BY DEF Fail, Goto, Thrown, TypeOK
<1>2. job[w] \in Job /\ job'[w] = [job[w] EXCEPT !.badSeq = x]
  BY DEF Fail, TypeOK
<1>3. QED
  BY <1>1, <1>2 DEF Job

LEMMA FinishedJob ==
    ASSUME TypeOK, NEW w \in Workers, Finish(w)
    PROVE  pc'[w] = "idle" /\ ~job'[w].badSeq
BY DEF Finish, Goto, TypeOK, NoJob

\* The steps that leave an invocation without a sequence it may still use.
LEMMA PlainStep ==
    ASSUME TypeOK, PoolInv, NEW w \in Workers,
           \/ ClaimNothing(w) \/ Confirm(w) \/ MarkSequenceUsed(w) \/ Requeue(w)
           \/ AwaitRefill(w) \/ FetchFails(w) \/ Land(w) \/ LoseTrack(w) \/ WorkerFault(w)
    PROVE  ClaimOK(w)'
<1>1. CASE Fail(w, FALSE)
  BY <1>1, FailedJob, PlainClaim
<1>2. CASE Finish(w)
  BY <1>2, FinishedJob, PlainClaim
<1>3. pc[w] \notin {"settle", "requeue"} => ~job[w].badSeq
  BY Zenon DEF PoolInv, ClaimOK
<1>4. ASSUME NEW x \in {"fetch", "claim", "confirm", "mark", "refilling"}, Goto(w, x),
             job' = job \/ job' = [job EXCEPT ![w].try = @ + 1],
             pc[w] \notin {"settle", "requeue"}
      PROVE  ClaimOK(w)'
  <2>1. pc'[w] = x
    BY <1>4 DEF Goto, TypeOK
  <2>2. job[w] \in Job
    BY DEF TypeOK
  <2>3. job'[w] = job[w] \/ job'[w] = [job[w] EXCEPT !.try = job[w].try + 1]
    BY <1>4 DEF TypeOK
  <2>4. job'[w].badSeq = job[w].badSeq
    BY <2>2, <2>3 DEF Job
  <2>5. ~job'[w].badSeq
    BY <1>3, <1>4, <2>4, Zenon
  <2>6. pc'[w] \notin {"reserve", "submit"}
    BY <2>1
  <2>7. QED
    BY <2>5, <2>6, PlainClaim
<1>5. \/ Fail(w, FALSE) \/ Finish(w)
      \/ \E x \in {"fetch", "claim", "confirm", "mark", "refilling"} :
            /\ Goto(w, x)
            /\ job' = job \/ job' = [job EXCEPT ![w].try = @ + 1]
            /\ pc[w] \notin {"settle", "requeue"}
  <2>1. CASE ClaimNothing(w)
    BY <2>1, Zenon DEF ClaimNothing
  <2>2. CASE Confirm(w)
    BY <2>2, Zenon DEF Confirm
  <2>3. CASE AwaitRefill(w)
    BY <2>3, Zenon DEF AwaitRefill
  <2>4. CASE Land(w)
    BY <2>4, Zenon DEF Land
  <2>5. CASE MarkSequenceUsed(w) \/ Requeue(w) \/ FetchFails(w) \/ LoseTrack(w) \/ WorkerFault(w)
    BY <2>5, Zenon DEF MarkSequenceUsed, Requeue, FetchFails, LoseTrack, WorkerFault,
       ConfirmFails, MarkFails, SettleFails, RequeueFails
  <2>6. QED
    BY <2>1, <2>2, <2>3, <2>4, <2>5
<1>6. QED
  BY <1>1, <1>2, <1>4, <1>5

LEMMA RejectClaim ==
    ASSUME TypeOK, PoolInv, NEW w \in Workers, Reject(w)
    PROVE  ClaimOK(w)'
<1>1. PICK x \in BOOLEAN : Fail(w, x)
  BY DEF Reject
<1>2. /\ pc'[w] = "settle" /\ job'[w].badSeq = x
      /\ job'[w].row = job[w].row /\ job'[w].sequence = job[w].sequence
  BY <1>1, FailedJob
<1>3. ClaimOK(w) /\ HasRow(w) /\ Unused(w) /\ pool' = pool /\ purged' = purged /\ Out' = Out
  BY DEF Reject, PoolInv, HasRow, Unused, dbVars, netVars, Out
<1>4. /\ job'[w].row \in DOMAIN pool' /\ pool'[job'[w].row].sequence = job'[w].sequence
      /\ job'[w].sequence \notin purged' => Unsent(job[w].sequence)'
  BY <1>2, <1>3 DEF ClaimOK, Unsent
<1>5. QED
  BY <1>2, <1>4, Zenon DEF ClaimOK

LEMMA SettleClaim ==
    ASSUME TypeOK, PoolInv, [Next]_vars, NEW w \in Workers, Settle(w)
    PROVE  ClaimOK(w)'
<1>1. pc'[w] = "requeue" /\ job' = job /\ pc[w] = "settle"
  BY DEF Settle, Goto, TypeOK
<1>2. RowsStay /\ ClaimOK(w)
  BY RowsKept DEF PoolInv
<1>3. HasRow(w)' => /\ job'[w].row \in DOMAIN pool'
                    /\ pool'[job'[w].row].sequence = job'[w].sequence
  BY <1>1, <1>2 DEF ClaimOK, HasRow, RowsStay
<1>4. ~Unused(w)'
  BY <1>1 DEF Unused
<1>5. QED
  BY <1>1, <1>3, <1>4, Zenon DEF ClaimOK

LEMMA SelectClaim ==
    ASSUME TypeOK, PoolInv, NEW w \in Workers, ClaimSelect(w)
    PROVE  ClaimOK(w)'
<1>1. PICK r \in Claimable :
         job' = [job EXCEPT ![w].row = r, ![w].sequence = pool[r].sequence]
  BY DEF ClaimSelect
<1>2. PICK q : q = pool[r].sequence
  OBVIOUS
<1>3. job[w] \in Job /\ job' = [job EXCEPT ![w] = [job[w] EXCEPT !.row = r, !.sequence = q]]
  BY <1>1, <1>2 DEF TypeOK
<1>4. job'[w].row = r /\ job'[w].sequence = q /\ job'[w].badSeq = job[w].badSeq
  <2>1. PICK k : k = [job[w] EXCEPT !.row = r]
    OBVIOUS
  <2>2. job'[w] = [k EXCEPT !.sequence = q]
    BY <1>3, <2>1 DEF TypeOK
  <2>3. k.row = r /\ k.badSeq = job[w].badSeq /\
        DOMAIN k = {"entry", "attempts", "row", "sequence", "try", "badSeq"}
    BY <1>3, <2>1 DEF Job
  <2>4. QED
    BY <2>2, <2>3
<1>5. /\ pc'[w] = "reserve" /\ pc[w] \notin {"settle", "requeue"}
      /\ pool' = pool /\ purged' = purged /\ Out' = Out
  BY DEF ClaimSelect, Goto, TypeOK, dbVars, netVars, Out
<1>6. ~job[w].badSeq
  BY <1>5, Zenon DEF PoolInv, ClaimOK
<1>7. r \in DOMAIN pool /\ pool[r].reserved = "no"
  BY DEF Claimable, Available
<1>8. ASSUME q \notin purged, NEW sub \in Out, sub.sequence = q
      PROVE  FALSE
  <2>1. Held(q)
    BY <1>8 DEF PoolInv, OutOK, Once
  <2>2. QED
    BY <1>2, <1>7, <2>1 DEF Held
<1>9. q \notin purged => Unsent(q)
  BY <1>8 DEF Unsent
<1>10. job'[w].sequence \notin purged' => Unsent(job[w].sequence)'
  BY <1>4, <1>5, <1>9 DEF Unsent
<1>11. job'[w].row \in DOMAIN pool' /\ pool'[job'[w].row].sequence = job'[w].sequence
  BY <1>2, <1>4, <1>5, <1>7
<1>12. ~job'[w].badSeq /\ pc'[w] # "submit"
  BY <1>4, <1>5, <1>6, Zenon
<1>13. QED
  BY <1>10, <1>11, <1>12, Zenon DEF ClaimOK

LEMMA ReserveClaim ==
    ASSUME TypeOK, PoolInv, [Next]_vars, NEW w \in Workers, ClaimReserve(w)
    PROVE  ClaimOK(w)'
<1>1. /\ pc'[w] = "submit" /\ pc[w] = "reserve" /\ job' = job
      /\ purged' = purged /\ Out' = Out
  BY DEF ClaimReserve, Goto, TypeOK, netVars, Out
<1>2. RowsStay /\ ClaimOK(w) /\ HasRow(w) /\ Unused(w)
  BY <1>1, RowsKept DEF PoolInv, HasRow, Unused
<1>3. /\ job[w].row \in DOMAIN pool /\ pool[job[w].row].sequence = job[w].sequence
      /\ job[w].sequence \notin purged => Unsent(job[w].sequence)
      /\ ~job[w].badSeq
  BY <1>1, <1>2, Zenon DEF ClaimOK
<1>4. /\ Loosens({})
      /\ \A r \in DOMAIN pool : r = job[w].row => pool'[r].reserved = "fresh"
  BY ReservedRow DEF ClaimReserve, TypeOK
<1>5. Held(job[w].sequence)'
  <2> SUFFICES ASSUME NEW r \in DOMAIN pool', pool'[r].sequence = job[w].sequence
               PROVE  pool'[r].reserved # "no"
    BY <1>1 DEF Held
  <2>1. r \in DOMAIN pool /\ pool[r].sequence = job[w].sequence
    BY <1>4 DEF Loosens
  <2>2. r = job[w].row
    BY <1>3, <2>1 DEF PoolInv, Unique
  <2>3. QED
    BY <1>4, <2>1, <2>2
<1>6. /\ job'[w].row \in DOMAIN pool' /\ pool'[job'[w].row].sequence = job'[w].sequence
      /\ job'[w].sequence \notin purged' => Unsent(job[w].sequence)'
      /\ Held(job[w].sequence)'
  BY <1>1, <1>2, <1>3, <1>5 DEF Unsent, RowsStay, Held
<1>7. ~job'[w].badSeq
  BY <1>1, <1>3, Zenon
<1>8. QED
  BY <1>6, <1>7, Zenon DEF ClaimOK

\* The jobs of the invocations that do not act.
LEMMA OtherJobs ==
    ASSUME TypeOK, NEW w \in Workers,
           DrainAccount(w) \/ Advance(w) \/ Answer(w) \/ WorkerFault(w)
    PROVE  \A v \in Workers \ {w} : pc'[v] = pc[v] /\ job'[v] = job[v]
<1>1. \A v \in Workers \ {w} : pc'[v] = pc[v]
  BY DEF DrainAccount, Advance, Answer, WorkerFault, ClaimSelect, ClaimNothing, ClaimReserve,
         Confirm, MarkSequenceUsed, Settle, Requeue, AwaitRefill, FetchFails, Land, Reject,
         LoseTrack, ConfirmFails, MarkFails, SettleFails, RequeueFails, Fail, Finish, Goto,
         TypeOK
<1>2. \A v \in Workers \ {w} : job'[v] = job[v]
  BY DEF DrainAccount, Advance, Answer, WorkerFault, ClaimSelect, ClaimNothing, ClaimReserve,
         Confirm, MarkSequenceUsed, Settle, Requeue, AwaitRefill, FetchFails, Land, Reject,
         LoseTrack, ConfirmFails, MarkFails, SettleFails, RequeueFails, Fail, Finish,
         TypeOK
<1>3. QED
  BY <1>1, <1>2

LEMMA WorkerClaims ==
    ASSUME OneProcess, Inv, TypeOK, PoolInv, [Next]_vars, NEW w \in Workers,
           DrainAccount(w) \/ Advance(w) \/ Answer(w) \/ WorkerFault(w)
    PROVE  \A v \in Workers : ClaimOK(v)'
<1>1. ClaimOK(w)'
  <2>1. CASE DrainAccount(w)
    <3>1. pc'[w] = "claim" /\ job'[w] = NewJob(OldestPending, queue[OldestPending].attempts)
      BY <2>1 DEF DrainAccount, Goto, TypeOK, NewJob
    <3>2. NewJob(OldestPending, queue[OldestPending].attempts).badSeq = FALSE
      BY DEF NewJob, NoJob
    <3>3. QED
      BY <3>1, <3>2, PlainClaim
  <2>2. CASE Advance(w)
    BY <2>2, PlainStep, SelectClaim, ReserveClaim, SettleClaim DEF Advance
  <2>3. CASE Answer(w)
    BY <2>3, PlainStep, RejectClaim DEF Answer
  <2>4. CASE WorkerFault(w)
    BY <2>4, PlainStep
  <2>5. QED
    BY <2>1, <2>2, <2>3, <2>4
<1>2. ASSUME NEW v \in Workers, v # w
      PROVE  ClaimOK(v)'
  <2>1. pc[v] = "idle"
    <3>1. CASE DrainAccount(w)
      <4>1. ServerOf[w] \in Servers /\ ~inFlight[ServerOf[w]]
        BY <3>1, DrainerAssumption DEF DrainAccount, MayDrain
      <4>2. ~Busy(v)
        BY <4>1, Zenon DEF OneProcess, Inv, Flagged
      <4>3. QED
        BY <4>2 DEF Busy
    <3>2. CASE Advance(w) \/ Answer(w) \/ WorkerFault(w)
      <4>1. Busy(w)
        BY <3>2
        DEF Advance, Answer, WorkerFault, ClaimSelect, ClaimNothing, ClaimReserve, Confirm,
            MarkSequenceUsed, Settle, Requeue, AwaitRefill, FetchFails, Land, Reject, LoseTrack,
            ConfirmFails, MarkFails, SettleFails, RequeueFails, Busy
      <4>2. QED
        BY <1>2, <4>1 DEF OneProcess, Inv, Exclusive, Busy
    <3>3. QED
      BY <3>1, <3>2
  <2>2. ~job[v].badSeq
    BY <2>1, Zenon DEF PoolInv, ClaimOK
  <2>3. pc'[v] = "idle" /\ ~job'[v].badSeq
    BY <1>2, <2>1, <2>2, OtherJobs, Zenon
  <2>4. QED
    BY <2>3, PlainClaim
<1>3. QED
  BY <1>1, <1>2

LEMMA CrashClaims ==
    ASSUME OneProcess, Inv, TypeOK, PoolInv, [Next]_vars, NEW s \in Servers, Crash(s),
           NEW w \in Workers
    PROVE  ClaimOK(w)'
<1>1. /\ pc' = [v \in Workers |-> IF ServerOf[v] = s THEN "idle" ELSE pc[v]]
      /\ job' = [v \in Workers |-> IF ServerOf[v] = s THEN NoJob ELSE job[v]]
  BY DEF Crash
<1>2. CASE ServerOf[w] = s
  <2>1. pc'[w] = "idle" /\ job'[w] = NoJob
    BY <1>1, <1>2
  <2>2. NoJob.badSeq = FALSE
    BY DEF NoJob
  <2>3. QED
    BY <2>1, <2>2, PlainClaim
<1>3. CASE ServerOf[w] # s
  <2>1. pc'[w] = pc[w] /\ job'[w] = job[w]
    BY <1>1, <1>3
  <2>2. \A v \in Workers : ServerOf[v] # s
    BY <1>3 DEF OneProcess
  <2>3. limbo' = limbo /\ ledger' = ledger
    BY <2>2, CrashOut
  <2>4. Out' = Out
    BY <2>3 DEF Out
  <2>5. QED
    BY <2>1, <2>4, ClaimStays
<1>4. QED
  BY <1>2, <1>3

LEMMA RefillClaims ==
    ASSUME OneProcess, Inv, TypeOK, PoolInv, [Next]_vars, NEW s \in Servers,
           CompleteRefill(s) \/ RefillFails(s), NEW w \in Workers
    PROVE  ClaimOK(w)'
<1>1. UNCHANGED <<job, limbo, ledger>>
  BY DEF CompleteRefill, RefillFails, netVars
<1>2. PICK x \in {"reclaim", "settle"} :
         pc' = [v \in Workers |-> IF v \in WaitingFor(s) THEN x ELSE pc[v]]
  BY DEF CompleteRefill, RefillFails
<1>3. CASE w \in WaitingFor(s)
  <2>1. pc[w] = "refilling" /\ pc'[w] = x
    BY <1>2, <1>3 DEF WaitingFor
  <2>2. ~job'[w].badSeq
    BY <1>1, <2>1, Zenon DEF PoolInv, ClaimOK
  <2>3. QED
    BY <2>1, <2>2, PlainClaim
<1>4. CASE w \notin WaitingFor(s)
  <2>1. pc'[w] = pc[w] /\ job'[w] = job[w] /\ Out' = Out
    BY <1>1, <1>2, <1>4 DEF Out
  <2>2. QED
    BY <2>1, ClaimStays
<1>5. QED
  BY <1>3, <1>4

LEMMA ClaimsKept ==
    ASSUME OneProcess, Inv, TypeOK, PoolInv, [Next]_vars
    PROVE  \A w \in Workers : ClaimOK(w)'
<1>1. CASE \E w \in Workers : DrainAccount(w) \/ Advance(w) \/ Answer(w) \/ WorkerFault(w)
  BY <1>1, WorkerClaims
<1>2. CASE \E s \in Servers : CompleteRefill(s) \/ RefillFails(s) \/ Crash(s)
  BY <1>2, RefillClaims, CrashClaims
<1>3. CASE LandLate
  <2>1. UNCHANGED <<pc, job>> /\ Out' = Out
    <3>1. PICK sub \in limbo : LandsLate(sub)
      BY <1>3 DEF LandLate, LandsLate
    <3>2. UNCHANGED <<pc, job, pool, purged>>
      BY <1>3 DEF LandLate, workerVars, dbVars
    <3>3. QED
      BY <3>1, <3>2, OutLate
  <2>2. QED
    BY <2>1, ClaimStays
<1>4. CASE \/ EnqueueTransaction \/ ReservationsAge \/ PurgeStaleReservations \/ UNCHANGED vars
           \/ \E s \in Servers : CountPool(s) \/ BackgroundRefill(s)
  <2>1. UNCHANGED <<pc, job, limbo, ledger>>
    BY <1>4 DEF EnqueueTransaction, ReservationsAge, PurgeStaleReservations, CountPool,
                BackgroundRefill, vars, workerVars, netVars
  <2>2. Out' = Out
    BY <2>1 DEF Out
  <2>3. QED
    BY <2>1, <2>2, ClaimStays
<1>5. QED
  BY <1>1, <1>2, <1>3, <1>4 DEF Next

LEMMA NextPool ==
    ASSUME OneProcess, Inv, TypeOK, PoolInv, [Next]_vars
    PROVE  PoolInv'
BY RowsKept, AheadStays, OutKept, ClaimsKept DEF PoolInv

\* Executed submissions share a sequence only if the purge put it back: a claim
\* takes a row nobody holds, a refill goes on after the highest sequence, and a
\* sequence is released only for a transaction the network refused.
THEOREM CollisionsCorrect ==
    ASSUME OneProcess
    PROVE  Spec => []CollisionNeedsPurge
<1>1. ASSUME PoolInv, NEW sub \in BagToSet(ledger), sub.sequence \notin purged
      PROVE  ~Collided(sub.sequence)
  <2>1. /\ \A other \in Out : other.sequence = sub.sequence => other = sub
        /\ ledger[sub] = 1 /\ sub \in Out
    BY <1>1 DEF PoolInv, OutOK, Once, Out
  <2>2. {x \in BagToSet(ledger) : x.sequence = sub.sequence} = {sub}
    BY <2>1 DEF Out
  <2>3. Cardinality({sub}) = 1
    BY FS_Singleton
  <2>4. QED
    BY <2>1, <2>2, <2>3 DEF Collided
<1>2. PoolInv => CollisionNeedsPurge
  BY <1>1 DEF CollisionNeedsPurge
<1>3. PoolInv /\ TypeOK /\ Inv /\ [Next]_vars => PoolInv'
  BY NextPool
<1>4. QED
  BY <1>2, <1>3, InitPool, TypeCorrect, Invariant, PTL DEF Spec
=============================================================================
