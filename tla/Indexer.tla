------------------------------- MODULE Indexer -------------------------------
(***************************************************************************)
(* The event indexer (backend/services/indexer/src/main.rs): one loop that    *)
(* polls the Soroban RPC node for contract events and mirrors them in         *)
(* PostgreSQL, with a cursor that survives restarts and a roll-back when a    *)
(* stored ledger hash is no longer the node's.                               *)
(*                                                                         *)
(* Every database statement is a step of its own: none of them share a        *)
(* transaction, so the chain may change, a statement fail or the process die  *)
(* between any two.                                                         *)
(***************************************************************************)
EXTENDS Integers, Sequences, FiniteSets, FiniteSetsExt, SequencesExt

CONSTANTS
    Entities,      \* bounties, applications, freelancers and escrows by chain id
    KindOf,        \* the kind of an entity
    Page,          \* ledger_chunk: the events one poll may return
    Depth,         \* REORG_DEPTH
    MaxLedger,     \* bound on the chain
    MaxEvents,     \* bound on the events of the chain
    MaxInLedger,   \* bound on the events of one ledger
    MaxForks,      \* bound on reorganisations
    MaxFaults      \* bound on failed statements and crashes

Kinds == {"bounty", "application", "freelancer", "escrow"}

ASSUME IndexerAssumption ==
    /\ KindOf \in [Entities -> Kinds]
    /\ Page \in Nat \ {0}
    /\ {Depth, MaxLedger, MaxEvents, MaxInLedger, MaxForks, MaxFaults} \subseteq Nat

VARIABLES
    chain,      \* the ledgers the node knows: [hash, events]
    cursor,     \* the loop's cursor
    saved,      \* the cursor in indexer_cursors
    hashes,     \* indexer_ledger_hashes
    raw,        \* chain_events
    rows,       \* the row of an entity in the table of its kind: [status, ledger]
    pc,         \* the await the loop is at
    from,       \* the ledger being rolled back to, or 0
    stage,      \* the statement of rollback that comes next
    batch,      \* fetched events not handled yet
    next,       \* where the cursor goes after this batch
    missed,     \* history: events of this batch that were not stored
    lost,       \* history: missed events the cursor has passed
    dirty,      \* history: ledgers indexed from another fork, or half rolled back
    orphaned,   \* history: entities with an event that left the chain
    forks,      \* reorganisations so far
    faults      \* failures so far

nodeVars  == <<chain, forks, orphaned>>
dbVars    == <<saved, hashes, raw, rows>>
batchVars == <<batch, next, missed>>
undoVars  == <<from, stage>>
vars == <<nodeVars, dbVars, batchVars, undoVars, cursor, pc, lost, dirty, faults>>

-----------------------------------------------------------------------------
(* Events and rows.                                                           *)

\* The status a row starts with, and those later events set; a freelancer's
\* verified flag is written as a status.
First == [bounty |-> "OPEN", application |-> "PENDING",
          freelancer |-> "UNVERIFIED", escrow |-> "ACTIVE"]
Later == [bounty |-> {"IN_PROGRESS", "COMPLETED", "CANCELLED"},
          application |-> {}, freelancer |-> {"VERIFIED"},
          escrow |-> {"RELEASED", "REFUNDED"}]

Status(k) == {First[k]} \cup Later[k]
Statuses == UNION {Status(k) : k \in Kinds}
NoHash == 0
NoRow == [status |-> "none", ledger |-> 0]

\* What a contract publishes.
Change == {c \in [entity : Entities, status : Statuses] :
              c.status \in Status(KindOf[c.entity])}

\* The events the node returns: event_id is <<ledger, index>>, and the hash
\* tells apart what the two sides of a fork put under one id.
EventsOf(l) == [i \in DOMAIN chain[l].events |->
                  [ledger |-> l, index |-> i, hash |-> chain[l].hash,
                   entity |-> chain[l].events[i].entity,
                   status |-> chain[l].events[i].status]]
EventsFrom(l) ==
    LET upTo[n \in 0 .. Len(chain)] ==
            IF n = 0 THEN <<>>
            ELSE IF n < l THEN upTo[n - 1] ELSE upTo[n - 1] \o EventsOf(n)
    IN  upTo[Len(chain)]
History == EventsFrom(1)

\* The order of the chain, and of the events of a poll.
Before(e, f) == e.ledger < f.ledger \/ (e.ledger = f.ledger /\ e.index < f.index)

Init ==
    /\ chain = <<>> /\ forks = 0 /\ orphaned = {}
    /\ cursor = 0 /\ saved = 0
    /\ hashes = [l \in 1 .. MaxLedger |-> NoHash]
    /\ raw = {} /\ rows = [en \in Entities |-> NoRow]
    /\ pc = "idle" /\ from = 0 /\ stage = 0
    /\ batch = <<>> /\ next = 0 /\ missed = {}
    /\ lost = {} /\ dirty = {} /\ faults = 0

-----------------------------------------------------------------------------
(* The node.                                                                  *)

\* The contracts create an entity once, then publish changes of its status.
Published(en, changes) == {c.status : c \in {d \in Range(changes) : d.entity = en}}
Legal(changes) ==
    \A i \in DOMAIN changes :
        LET c == changes[i]
            before == Published(c.entity, SubSeq(changes, 1, i - 1)) \cup
                      UNION {Published(c.entity, chain[l].events) : l \in DOMAIN chain}
        IN  IF before = {} THEN c.status = First[KindOf[c.entity]]
                           ELSE c.status \notin before

CloseLedger(changes) ==
    /\ Len(chain) < MaxLedger
    /\ Len(History) + Len(changes) <= MaxEvents
    /\ Legal(changes)
    /\ chain' = Append(chain, [hash |-> forks + 1, events |-> changes])
    /\ UNCHANGED <<forks, orphaned, dbVars, batchVars, undoVars, cursor, pc, lost, dirty, faults>>

\* Ledger l was, or is about to be, indexed as the chain now has it.
Touched(l) == l < cursor \/ l < saved \/ l < next \/ \E e \in raw : e.ledger = l

\* The node drops l and what follows; the other fork grows in its place.
Reorg(l) ==
    /\ forks < MaxForks
    /\ forks' = forks + 1
    /\ chain' = SubSeq(chain, 1, l - 1)
    /\ orphaned' = orphaned \cup {e.entity : e \in Range(EventsFrom(l))}
    /\ dirty' = dirty \cup {k \in l .. MaxLedger : Touched(k)}
    /\ UNCHANGED <<dbVars, batchVars, undoVars, cursor, pc, lost, faults>>

-----------------------------------------------------------------------------
(* Reorganisations.                                                           *)

\* Ledgers of the window whose stored hash is not the node's any more.
Mismatched == {l \in (cursor - Depth) .. (cursor - 1) :
                 /\ l \in DOMAIN hashes
                 /\ hashes[l] # NoHash
                 /\ l \in DOMAIN chain => chain[l].hash # hashes[l]}

\* detect_reorg: the lowest mismatch among the ledgers it could verify; one
\* whose hash the node does not return is skipped.
DetectReorg ==
    /\ pc = "idle"
    /\ \E seen \in SUBSET Mismatched :
          /\ seen # {}
          /\ from' = Min(seen)
    /\ pc' = "rollback" /\ stage' = 1
    /\ dirty' = dirty \cup {k \in from' .. MaxLedger : Touched(k)}
    /\ UNCHANGED <<nodeVars, dbVars, batchVars, cursor, lost, faults>>

\* The DELETE statements, in order: chain_events, then a table per kind, then
\* the hashes.
Undone == <<"events", "bounty", "application", "freelancer", "escrow", "hashes">>

Delete ==
    /\ pc = "rollback" /\ stage \in DOMAIN Undone
    /\ stage' = stage + 1
    /\ raw' = IF Undone[stage] = "events" THEN {e \in raw : e.ledger < from} ELSE raw
    /\ rows' = [en \in Entities |->
                  IF KindOf[en] = Undone[stage] /\ rows[en].ledger >= from
                  THEN NoRow ELSE rows[en]]
    /\ hashes' = IF Undone[stage] = "hashes"
                 THEN [l \in DOMAIN hashes |-> IF l >= from THEN NoHash ELSE hashes[l]]
                 ELSE hashes
    /\ UNCHANGED <<nodeVars, saved, batchVars, from, cursor, pc, lost, dirty, faults>>

\* Where the loop resumes; the mutation takes the ledger for one already done.
ReindexAfter(l) == l + 1
ReindexFrom(l)  == l

ResetCursor ==
    /\ pc = "rollback" /\ stage = Len(Undone) + 1
    /\ saved' = ReindexFrom(from) /\ cursor' = ReindexFrom(from)
    /\ pc' = "idle" /\ from' = 0 /\ stage' = 0
    /\ dirty' = {l \in dirty : l < from}
    /\ lost' = {e \in lost : e.ledger < from}
    /\ UNCHANGED <<nodeVars, hashes, raw, rows, batchVars, faults>>

-----------------------------------------------------------------------------
(* Polling.                                                                   *)

\* Where the cursor goes: past the last event's ledger, or to the latest ledger.
\* The mutations ignore what the page held, or stay on the last event's ledger.
LatestCursor(events, latest) == latest + 1
SameCursor(events, latest) ==
    IF events # <<>> THEN Last(events).ledger ELSE latest
NextCursor(events, latest) ==
    IF events # <<>> THEN Last(events).ledger + 1 ELSE latest

\* One poll that found no reorganisation: a page of the events from the cursor
\* on.  Events of the page's last ledger beyond the page are missed.  The node
\* refuses a start beyond its latest ledger.
Poll ==
    /\ pc = "idle"
    /\ cursor <= Len(chain)
    /\ LET all    == EventsFrom(cursor)
           events == SubSeq(all, 1, Min({Page, Len(all)}))
           goal   == NextCursor(events, Len(chain))
       IN  /\ events # <<>> \/ goal > cursor
           /\ batch' = events
           /\ next' = goal
           /\ missed' = {e \in Range(all) \ Range(events) :
                            events # <<>> /\ e.ledger = Last(events).ledger}
           /\ pc' = IF events # <<>> THEN "handle" ELSE "hash"
    /\ UNCHANGED <<nodeVars, dbVars, undoVars, cursor, lost, dirty, faults>>

\* handle_*_event: a creation inserts its row unless the id has one; a later
\* event updates the status of the row, if there is one, and nothing else.
Applied(e) ==
    IF e.status = First[KindOf[e.entity]]
    THEN IF rows[e.entity] = NoRow
         THEN [rows EXCEPT ![e.entity] = [status |-> e.status, ledger |-> e.ledger]]
         ELSE rows
    ELSE IF rows[e.entity] = NoRow
         THEN rows
         ELSE [rows EXCEPT ![e.entity].status = e.status]

\* upsert_raw_event: nothing when event_id is taken.
Recorded(e) ==
    IF \E r \in raw : r.ledger = e.ledger /\ r.index = e.index
    THEN raw ELSE raw \cup {e}

\* After the last event the loop moves the cursor, if there is anywhere to go.
AfterEvent == IF Len(batch) > 1 THEN "handle"
              ELSE IF next > cursor THEN "hash" ELSE "idle"

\* process_event: the row, then the raw event.  An error in either is logged
\* and the loop goes on to the next event.
Handle(rowDone, rawDone) ==
    /\ pc = "handle"
    /\ rawDone => rowDone
    /\ rows' = IF rowDone THEN Applied(Head(batch)) ELSE rows
    /\ raw' = IF rawDone THEN Recorded(Head(batch)) ELSE raw
    /\ missed' = IF rawDone THEN missed ELSE missed \cup {Head(batch)}
    /\ batch' = Tail(batch)
    /\ pc' = AfterEvent
    /\ UNCHANGED <<nodeVars, saved, hashes, next, undoVars, cursor, lost, dirty>>

HandleEvent == Handle(TRUE, TRUE) /\ UNCHANGED faults

\* The hash of the ledger before the new cursor, as the node has it by now.
SaveHash ==
    /\ pc = "hash"
    /\ hashes' = IF next - 1 \in DOMAIN chain
                 THEN [hashes EXCEPT ![next - 1] = chain[next - 1].hash]
                 ELSE hashes
    /\ pc' = "cursor"
    /\ UNCHANGED <<nodeVars, saved, raw, rows, batchVars, undoVars, cursor, lost, dirty, faults>>

SaveCursor ==
    /\ pc = "cursor"
    /\ saved' = next /\ cursor' = next
    /\ lost' = lost \cup missed
    /\ pc' = "idle" /\ next' = 0 /\ missed' = {}
    /\ UNCHANGED <<nodeVars, hashes, raw, rows, batch, undoVars, dirty, faults>>

\* A new process starts from the saved cursor.
Restart ==
    /\ pc = "down"
    /\ cursor' = saved
    /\ pc' = "idle"
    /\ UNCHANGED <<nodeVars, dbVars, batchVars, undoVars, lost, dirty, faults>>

-----------------------------------------------------------------------------
(* Failures.                                                                  *)

Fault == faults < MaxFaults /\ faults' = faults + 1

\* One event cannot be handled, before or after its row was written.
EventFails(rowDone) == Handle(rowDone, FALSE) /\ Fault

\* The hash cannot be read or stored: a warning, and the cursor moves on.
HashFails ==
    /\ Fault
    /\ pc = "hash" /\ pc' = "cursor"
    /\ UNCHANGED <<nodeVars, dbVars, batchVars, undoVars, cursor, lost, dirty>>

\* A statement of rollback fails: an error is logged, the cursor stays.
RollbackFails ==
    /\ Fault
    /\ pc = "rollback" /\ pc' = "idle" /\ from' = 0 /\ stage' = 0
    /\ UNCHANGED <<nodeVars, dbVars, batchVars, cursor, lost, dirty>>

\* The process dies, or save_cursor fails, which ends it.
Crash ==
    /\ Fault
    /\ pc # "down" /\ pc' = "down"
    /\ cursor' = 0 /\ batch' = <<>> /\ next' = 0 /\ missed' = {}
    /\ from' = 0 /\ stage' = 0
    /\ UNCHANGED <<nodeVars, dbVars, lost, dirty>>

-----------------------------------------------------------------------------
Node == \/ /\ Len(chain) < MaxLedger
           /\ \E changes \in BoundedSeq(Change, MaxInLedger) : CloseLedger(changes)
        \/ \E l \in DOMAIN chain : Reorg(l)
Loop == \/ DetectReorg \/ Delete \/ ResetCursor
        \/ Poll \/ HandleEvent \/ SaveHash \/ SaveCursor \/ Restart
Failure == \/ \E rowDone \in BOOLEAN : EventFails(rowDone)
           \/ HashFails \/ RollbackFails \/ Crash

Next == Node \/ Loop \/ Failure
Spec == Init /\ [][Next]_vars

\* The loop keeps running and the node answers in the end; failures are at
\* most MaxFaults.
FairSpec == Spec /\ WF_vars(Loop)

-----------------------------------------------------------------------------
(* Properties.                                                                *)

\* Between polls, every ledger behind the cursor is indexed exactly: its raw
\* events are the chain's, none missing and none left of another fork.  The
\* exceptions are the events whose handling failed or that a full page cut
\* off, and the ledgers that were reorganised or half rolled back and that no
\* completed roll-back has reached.  Crashes, restarts, failed hashes and
\* repeated indexing make no exception.
IndexExact ==
    pc = "idle" =>
        \A l \in DOMAIN chain :
            (l < cursor /\ l \notin dirty) =>
                LET stored == {e \in raw : e.ledger = l}
                    actual == Range(EventsOf(l))
                IN  stored \subseteq actual /\ actual \subseteq stored \cup lost

\* An entity none of whose events is ahead of the cursor, lost, in a dirty
\* ledger or on an abandoned fork has the status its last event set, whatever
\* was replayed after a crash.
RowsFollow ==
    pc = "idle" =>
        \A en \in Entities \ orphaned :
            LET events  == {e \in Range(History) : e.entity = en}
                settled == \A e \in events :
                              e.ledger < cursor /\ e.ledger \notin dirty /\ e \notin lost
            IN  settled =>
                    \A first \in events, last \in events :
                        (\A e \in events : ~Before(e, first) /\ ~Before(last, e)) =>
                            rows[en] = [status |-> last.status, ledger |-> first.ledger]

\* The indexer catches up: the cursor passes or reaches every ledger that
\* stays on the chain, through reorganisations, failures and restarts.
CatchesUp ==
    \A l \in 1 .. MaxLedger : (Len(chain) >= l) ~> (cursor >= l \/ Len(chain) < l)

=============================================================================
