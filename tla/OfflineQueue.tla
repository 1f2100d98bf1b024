----------------------------- MODULE OfflineQueue -----------------------------
(***************************************************************************)
(* The mobile app's offline queue (mobile/src/offline/OfflineQueue.ts) and    *)
(* the flush that replays it (NetworkProvider.tsx).                          *)
(*                                                                         *)
(* The queue and the dead-letter queue are two AsyncStorage keys.  Every       *)
(* operation on them reads a key, computes and writes it back, and every       *)
(* read and write is an await: other handlers of the app run in between.       *)
(***************************************************************************)
EXTENDS Integers, Sequences, FiniteSets, SequencesExt

CONSTANTS
    Ops,          \* queued operations, by their id
    Tasks,        \* handlers that may be running at one time
    MaxRetries,   \* MAX_RETRIES
    MaxTaps,      \* bound on what the user taps in the queue's screen
    MaxFaults     \* bound on failed storage calls, lost answers and restarts

ASSUME OfflineQueueAssumption ==
    /\ MaxRetries \in Nat \ {0}
    /\ {MaxTaps, MaxFaults} \subseteq Nat

VARIABLES
    queue,      \* the stored queue, of [op, retries]
    dead,       \* the stored dead-letter queue
    flushing,   \* isFlushing
    task,       \* what a handler is at
    accepted,   \* history: operations enqueue has answered true for
    discarded,  \* history: operations the user threw away
    effects,    \* history: how often the server carried an operation out
    unanswered, \* history: carried out, and the flush did not get to know or note it
    stale,      \* history: a handler acted on an outdated copy of its entry
    cut,        \* history: a move between the two keys was cut off
    taps, faults

stored  == <<queue, dead>>
history == <<accepted, discarded, effects, unanswered, stale, cut>>
bounds  == <<taps, faults>>
vars == <<stored, flushing, task, history, bounds>>

-----------------------------------------------------------------------------
(* Entries and handlers.                                                      *)

NamesIn(entries) == {entries[i].op : i \in DOMAIN entries}
\* The entries at the positions in I, in their order (filter).
Filtered(entries, I) ==
    LET first[n \in 0..Len(entries)] ==
            IF n = 0 THEN <<>>
            ELSE IF n \in I THEN Append(first[n - 1], entries[n]) ELSE first[n - 1]
    IN  first[Len(entries)]
Without(entries, o) == Filtered(entries, {i \in DOMAIN entries : entries[i].op # o})
EntriesOf(entries, o) == Filtered(entries, {i \in DOMAIN entries : entries[i].op = o})
FirstOf(entries, o) == EntriesOf(entries, o)[1]
Fresh(o) == [op |-> o, retries |-> 0]
\* The mutation does not count the attempt.
Uncounted(e) == e
Retried(e) == [e EXCEPT !.retries = @ + 1]

\* The storage calls each operation awaits, in order.  markRetry decides
\* after its first read whether it is "retry" or "bury"; the mutation removes
\* from the queue first.
BuryFirst(fn) ==
    CASE fn \in {"enqueue", "dequeue", "retry"} -> <<"readQueue", "writeQueue">>
      [] fn = "bury"    -> <<"readQueue", "writeQueue", "readDead", "writeDead">>
      [] fn = "requeue" -> <<"readDead", "writeDead", "readQueue", "writeQueue">>
      [] fn = "none"    -> <<>>
StepsOf(fn) ==
    CASE fn \in {"enqueue", "dequeue", "retry"} -> <<"readQueue", "writeQueue">>
      [] fn = "bury"    -> <<"readQueue", "readDead", "writeDead", "writeQueue">>
      [] fn = "requeue" -> <<"readDead", "writeDead", "readQueue", "writeQueue">>
      [] fn = "none"    -> <<>>

Functions == {"none", "enqueue", "dequeue", "retry", "bury", "requeue"}

\* left is the part of the snapshot a flush has not finished, its head the
\* operation at hand, and empty in other handlers; q and d are the copies read.
Idle == [fn |-> "none", op |-> CHOOSE o \in Ops : TRUE, at |-> 0,
         fetching |-> FALSE, left |-> <<>>, q |-> <<>>, d |-> <<>>]
IsIdle(t) == task[t] = Idle
Calling(o, fn, left) == [Idle EXCEPT !.fn = fn, !.op = o, !.at = 1, !.left = left]
Replaying(left) == [Idle EXCEPT !.op = left[1], !.fetching = TRUE, !.left = left]
AtStep(t, step) == task[t].fn # "none" /\ StepsOf(task[t].fn)[task[t].at] = step

\* What the queue becomes when fn is applied to a copy q of it.
Updated(fn, o, q) ==
    CASE fn \in {"enqueue", "requeue"} -> Append(q, Fresh(o))
      [] fn \in {"dequeue", "bury"}    -> Without(q, o)
      [] fn = "retry" -> [i \in DOMAIN q |-> IF q[i].op = o THEN Retried(q[i]) ELSE q[i]]

\* Operations a write of t is about to treat wrongly: those whose entry changed
\* since t read it, and its own one if another handler has it at hand.
Outdated(copy, current) == {o \in Ops : EntriesOf(copy, o) # EntriesOf(current, o)}
Shared(t) == {o \in {task[t].op} : \E u \in Tasks \ {t} :
                 ~IsIdle(u) /\ (o = task[u].op \/ o \in ToSet(task[u].left))}

Init ==
    /\ queue = <<>> /\ dead = <<>>
    /\ flushing = FALSE
    /\ task = [t \in Tasks |-> Idle]
    /\ accepted = {} /\ discarded = {} /\ unanswered = {} /\ stale = {} /\ cut = {}
    /\ effects = [o \in Ops |-> 0]
    /\ taps = 0 /\ faults = 0

-----------------------------------------------------------------------------
(* What starts a handler.                                                     *)

\* enqueue
Enqueue(t, o) ==
    /\ IsIdle(t)
    /\ o \notin accepted /\ \A u \in Tasks : task[u].op = o => task[u].fn # "enqueue"
    /\ task' = [task EXCEPT ![t] = Calling(o, "enqueue", <<>>)]
    /\ UNCHANGED <<stored, flushing, history, bounds>>

\* The buttons of OfflineQueueVisualizer, pressed on an entry of a list that
\* may be outdated: retry is markRetry, discard is dequeue.
Tap(t, o, fn) ==
    /\ IsIdle(t) /\ taps < MaxTaps
    /\ o \in accepted
    /\ taps' = taps + 1
    /\ task' = [task EXCEPT ![t] = Calling(o, fn, <<>>)]
    /\ discarded' = IF fn = "dequeue" THEN discarded \cup {o} ELSE discarded
    /\ UNCHANGED <<stored, flushing, accepted, effects, unanswered, stale, cut, faults>>

\* clearDeadLetter: the button that discards one dead operation, too, removes
\* the whole key.
ClearDead ==
    /\ dead # <<>> /\ taps < MaxTaps
    /\ taps' = taps + 1
    /\ dead' = <<>>
    /\ discarded' = discarded \cup NamesIn(dead)
    /\ UNCHANGED <<queue, flushing, task, accepted, effects, unanswered,
                   stale, cut, faults>>

\* A flush that finds isFlushing set returns; the mutation drops the test.
AlwaysFlush == TRUE
MayFlush == ~flushing

\* flushQueue takes a snapshot of the operations whose back-off has elapsed;
\* an operation that never failed has none.  Without any it returns at once.
Flush(t, waiting) ==
    LET ready == Filtered(queue, {i \in DOMAIN queue : queue[i].op \notin waiting
                                                       \/ queue[i].retries = 0})
    IN  /\ IsIdle(t) /\ MayFlush
        /\ ready # <<>>
        /\ flushing' = TRUE
        /\ task' = [task EXCEPT ![t] = Replaying([i \in DOMAIN ready |-> ready[i].op])]
        /\ UNCHANGED <<stored, history, bounds>>

-----------------------------------------------------------------------------
(* Replaying one operation of the snapshot.                                   *)

\* replayOperation returns: dequeue comes next.
Succeeded(t) ==
    LET o == task[t].op
    IN  /\ task[t].fetching
        /\ effects' = [effects EXCEPT ![o] = @ + 1]
        /\ task' = [task EXCEPT ![t] = Calling(o, "dequeue", @.left)]
        /\ UNCHANGED <<stored, flushing, accepted, discarded, unanswered,
                       stale, cut, bounds>>

\* It throws: the server refused, or (within MaxFaults) carried the operation
\* out and the answer was lost.  markRetry comes next.  A 409 is followed by a
\* second request with the resolved payload inside the same call, which
\* changes nothing here: the first request had no effect.
Failed(t, applied) ==
    LET o == task[t].op
    IN  /\ task[t].fetching
        /\ applied => faults < MaxFaults
        /\ faults' = IF applied THEN faults + 1 ELSE faults
        /\ effects' = IF applied THEN [effects EXCEPT ![o] = @ + 1] ELSE effects
        /\ unanswered' = IF applied THEN unanswered \cup {o} ELSE unanswered
        /\ task' = [task EXCEPT ![t] = Calling(o, "retry", @.left)]
        /\ UNCHANGED <<stored, flushing, accepted, discarded, stale, cut, taps>>

\* The handler after its storage calls: a flush goes on with its snapshot or
\* is over, any other handler returns.
After(t) == IF Len(task[t].left) > 1 THEN Replaying(Tail(task[t].left)) ELSE Idle
StillFlushing(t) == flushing /\ Len(task[t].left) # 1
Aborted(t) == flushing /\ task[t].left = <<>>

-----------------------------------------------------------------------------
(* The storage calls.                                                         *)

\* readQueue answers an empty queue when the storage fails.
ReadQueue(t, fails) ==
    LET c == task[t]
        read == IF fails THEN <<>> ELSE queue
        buries == c.fn = "retry" /\ c.op \in NamesIn(read)
                     /\ FirstOf(read, c.op).retries + 1 >= MaxRetries
        absent == c.fn \in {"retry", "bury"} /\ c.op \notin NamesIn(read)
    IN  /\ AtStep(t, "readQueue")
        /\ fails => faults < MaxFaults
        /\ faults' = IF fails THEN faults + 1 ELSE faults
        /\ task' = [task EXCEPT ![t] =
                      IF absent THEN After(t)
                      ELSE [c EXCEPT !.q = read, !.at = @ + 1,
                                     !.fn = IF buries THEN "bury" ELSE @]]
        /\ flushing' = IF absent THEN StillFlushing(t) ELSE flushing
        /\ UNCHANGED <<stored, history, taps>>

ReadDead(t, fails) ==
    LET c == task[t]
        read == IF fails THEN <<>> ELSE dead
        absent == c.fn = "requeue" /\ c.op \notin NamesIn(read)
    IN  /\ AtStep(t, "readDead")
        /\ fails => faults < MaxFaults
        /\ faults' = IF fails THEN faults + 1 ELSE faults
        /\ task' = [task EXCEPT ![t] = IF absent THEN Idle
                                       ELSE [c EXCEPT !.d = read, !.at = @ + 1]]
        /\ UNCHANGED <<stored, flushing, history, taps>>

WriteDead(t) ==
    LET c == task[t]
    IN  /\ AtStep(t, "writeDead")
        /\ dead' = IF c.fn = "requeue" THEN Without(c.d, c.op)
                   ELSE Append(c.d, Retried(FirstOf(c.q, c.op)))
        /\ stale' = stale \cup Shared(t) \cup Outdated(c.d, dead)
                      \cup (IF c.fn = "bury" THEN Outdated(c.q, queue) ELSE {})
        /\ task' = [task EXCEPT ![t].at = @ + 1]
        /\ UNCHANGED <<queue, flushing, accepted, discarded, effects,
                       unanswered, cut, bounds>>

WriteQueue(t) ==
    LET c == task[t]
    IN  /\ AtStep(t, "writeQueue")
        /\ queue' = Updated(c.fn, c.op, c.q)
        /\ stale' = stale \cup Shared(t) \cup Outdated(c.q, queue)
        /\ accepted' = IF c.fn = "enqueue" THEN accepted \cup {c.op} ELSE accepted
        /\ task' = [task EXCEPT ![t] = After(t)]
        /\ flushing' = StillFlushing(t)
        /\ UNCHANGED <<dead, discarded, effects, unanswered, cut, bounds>>

-----------------------------------------------------------------------------
(* Failures.                                                                  *)

Midway(t) == /\ task[t].fn \in {"bury", "requeue"}
             /\ "writeDead" \in ToSet(SubSeq(StepsOf(task[t].fn), 1, task[t].at - 1))
             /\ task[t].at <= 4
CutOff(S) == {<<task[t].fn, task[t].op>> : t \in {u \in S : Midway(u)}}
\* Replays the server carried out and the flush has not noted.
Unnoted(S) == {task[t].op : t \in {u \in S : task[u].fn = "dequeue" /\ task[u].left # <<>>}}

\* A write throws.  A flush treats a failed dequeue as a failed replay, and a
\* failed markRetry ends it (finally); any other handler ends.
WriteFails(t) ==
    LET c == task[t]
        removing == c.fn = "dequeue" /\ c.left # <<>>
    IN  /\ AtStep(t, "writeDead") \/ AtStep(t, "writeQueue")
        /\ faults < MaxFaults
        /\ faults' = faults + 1
        /\ cut' = cut \cup CutOff({t})
        /\ unanswered' = unanswered \cup Unnoted({t})
        /\ task' = [task EXCEPT ![t] = IF removing THEN Calling(c.op, "retry", c.left)
                                       ELSE Idle]
        /\ flushing' = IF removing THEN flushing ELSE Aborted(t)
        /\ UNCHANGED <<stored, accepted, discarded, effects, stale, taps>>

\* The app is killed and started again: only the storage is left.  A request
\* under way may have been carried out.
Restart(applied) ==
    /\ faults < MaxFaults
    /\ applied \subseteq {task[t].op : t \in {u \in Tasks : task[u].fetching}}
    /\ faults' = faults + 1
    /\ effects' = [o \in Ops |-> IF o \in applied THEN effects[o] + 1 ELSE effects[o]]
    /\ unanswered' = unanswered \cup applied \cup Unnoted(Tasks)
    /\ cut' = cut \cup CutOff(Tasks)
    /\ flushing' = FALSE
    /\ task' = [t \in Tasks |-> Idle]
    /\ UNCHANGED <<stored, accepted, discarded, stale, taps>>

-----------------------------------------------------------------------------
Step(t) ==
    \/ \E fails \in BOOLEAN : ReadQueue(t, fails) \/ ReadDead(t, fails)
    \/ WriteDead(t) \/ WriteQueue(t)
    \/ Succeeded(t)
    \/ \E applied \in BOOLEAN : Failed(t, applied)

Next ==
    \/ \E t \in Tasks :
         \/ Step(t)
         \/ WriteFails(t)
         \/ \E waiting \in SUBSET Ops : Flush(t, waiting)
         \/ \E o \in Ops : Enqueue(t, o)
         \/ \E o \in Ops, fn \in {"retry", "dequeue", "requeue"} : Tap(t, o, fn)
    \/ ClearDead
    \/ \E applied \in SUBSET Ops : Restart(applied)

Spec == Init /\ [][Next]_vars

\* The event loop runs every handler, and requests end.  That flushes go on
\* starting is what NetInfo is trusted for: nothing else starts them, no timer
\* waits for the end of a back-off.
FairSpec ==
    /\ Spec
    /\ \A t \in Tasks : WF_vars(Step(t))
    /\ WF_vars(\E t \in Tasks, waiting \in SUBSET Ops : Flush(t, waiting))

-----------------------------------------------------------------------------
(* Properties.                                                                *)

\* An operation that enqueue accepted is in one of the two queues, on its way
\* back from the dead letters, carried out or thrown away by the user - unless
\* a handler wrote an outdated copy over it or a requeue was cut off.  markRetry
\* may be cut off anywhere: it writes the dead letters first.
NothingLost ==
    \A o \in accepted \ (discarded \cup stale) :
        \/ o \in NamesIn(queue) \cup NamesIn(dead)
        \/ effects[o] > 0
        \/ <<"requeue", o>> \in cut
        \/ \E t \in Tasks : task[t].fn = "requeue" /\ task[t].op = o /\ Midway(t)

\* The server carries an operation out once - unless its answer or its removal from
\* the queue was lost, a handler acted on an outdated entry or a move was cut off.  Flushes that are
\* started while one runs must not replay its snapshot again.
AppliedOnce ==
    \A o \in Ops : effects[o] > 1 =>
        o \in unanswered \cup stale \/ \E fn \in {"bury", "requeue"} : <<fn, o>> \in cut

\* Once the user leaves it alone, and as long as flushes go on starting, the
\* queue runs empty: every operation is carried out or gives up.
QueueDrains == <>[](queue = <<>>)

=============================================================================
