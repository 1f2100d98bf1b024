-------------------------------- MODULE Socket --------------------------------
(***************************************************************************)
(* The web socket service of the mobile application                          *)
(* (mobile/src/services/WebSocketService.ts): one socket at a time, a queue    *)
(* for what is sent meanwhile, a heartbeat and reconnection.                  *)
(*                                                                         *)
(* A socket that was closed tells so later, by an event of its own, and its    *)
(* handler does not ask whether it is still the socket of the service.  A      *)
(* callback is a step, but for onopen, which is several: it runs the state      *)
(* handlers of the application, which may send, before it empties the queue     *)
(* message by message.  Handlers do nothing else to the service here; pings are *)
(* left out.  The sockets themselves, whose events these are, are external.     *)
(***************************************************************************)
EXTENDS Integers, Sequences, SequencesExt

CONSTANTS
    Sockets,        \* sockets that may be around at one time
    QueueSize,      \* messageQueueSize
    MaxReconnects,  \* maxReconnectAttempts
    MaxMessages,    \* bound on the messages sent
    MaxSwitches,    \* bound on the calls of connect, disconnect and destroy
    MaxBreaks       \* bound on the connections that end or go dead by themselves

ASSUME SocketAssumption ==
    /\ "none" \notin Sockets
    /\ QueueSize \in Nat \ {0}
    /\ {MaxReconnects, MaxMessages, MaxSwitches, MaxBreaks} \subseteq Nat

VARIABLES
    socket,        \* readyState of a socket, as far as it matters
    ws,            \* the socket of the service, or none
    state,         \* connectionState
    attempts,      \* reconnectAttempts
    reconnecting,  \* reconnectTimer is set
    strays,        \* reconnection timers that are set and no more known
    beating,       \* heartbeatTimer is set
    silent,        \* no message for two heartbeat intervals
    task,          \* what of onopen is going on: state handlers, or the queue
    outbox,        \* messageQueue
    sent,          \* messages the application has sent
    handed,        \* history: those handed to a socket, in that order
    dropped,       \* history: those pushed out of a full queue, or destroyed with it
    hurried,       \* history: those sent by state handlers ahead of the queue
    putBack,       \* history: those put back at the end when sending them threw
    wanted,        \* history: the application wants to be connected
    dismissed,     \* history: a normal closure left it without socket and timer
    stranded,      \* history: a replaced socket told it was closed to one that is open
    switches, breaks

timers == <<reconnecting, strays, beating>>
queue == <<outbox, sent, handed, dropped, hurried, putBack>>
socketVars == <<socket, ws, state, attempts, timers, silent, task, queue, wanted,
                dismissed, stranded, switches, breaks>>

-----------------------------------------------------------------------------
\* A dead socket is open and its peer is gone; a closing one was closed by the
\* service and will say so, a lost one never with code 1000.
SocketStates == {"free", "connecting", "open", "dead", "closing", "lost"}
Live == {"connecting", "open", "dead"}
IsOpen(s) == s # "none" /\ socket[s] \in {"open", "dead"}
IsConnected == state = "connected" /\ IsOpen(ws)

\* One callback runs at a time.
Idle == task = "none"

SocketInit ==
    /\ socket = [s \in Sockets |-> "free"]
    /\ ws = "none" /\ state = "disconnected" /\ attempts = 0
    /\ reconnecting = FALSE /\ strays = 0 /\ beating = FALSE /\ silent = FALSE
    /\ task = "none"
    /\ outbox = <<>> /\ sent = 0 /\ handed = <<>>
    /\ dropped = {} /\ hurried = {} /\ putBack = {}
    /\ wanted = FALSE /\ dismissed = FALSE /\ stranded = FALSE
    /\ switches = 0 /\ breaks = 0

\* With held the timer that is set and others those that are not known, after so
\* many tries: a timer that is set already is forgotten, not cleared.  The mutation
\* sets none.
NoTimer(held, others, tries) ==
    state' = "reconnecting" /\ reconnecting' = held /\ strays' = others /\ attempts' = tries
ScheduleReconnect(held, others, tries) ==
    IF tries >= MaxReconnects
    THEN state' = "error" /\ reconnecting' = held /\ strays' = others /\ attempts' = tries
    ELSE /\ state' = "reconnecting" /\ attempts' = tries + 1
         /\ reconnecting' = TRUE /\ strays' = others + (IF held THEN 1 ELSE 0)

\* connect, when the sockets are as in now and the service's is cur: it does
\* nothing while that is connecting or open.  The mutation connects anyway.
Anyway(now, cur) == FALSE
InUse(now, cur) == cur # "none" /\ now[cur] \in Live
Connected(now, cur, other) ==
    IF InUse(now, cur)
    THEN socket' = now /\ ws' = cur /\ state' = other
    ELSE \E s \in Sockets :
            /\ now[s] = "free"
            /\ socket' = [now EXCEPT ![s] = "connecting"]
            /\ ws' = s /\ state' = "connecting"

\* Or the constructor of the socket throws.
Connects(now, cur, other, held, others, tries) ==
    \/ /\ Connected(now, cur, other)
       /\ reconnecting' = held /\ strays' = others /\ attempts' = tries
    \/ /\ ~InUse(now, cur)
       /\ socket' = now /\ ws' = cur
       /\ ScheduleReconnect(held, others, tries)

\* ws.close: the peer of a dead or connecting socket does not answer.
Closed(s) == IF s = "none" THEN socket
             ELSE [socket EXCEPT ![s] = CASE @ = "open" -> "closing"
                                          [] @ \in {"connecting", "dead"} -> "lost"
                                          [] OTHER -> @]

-----------------------------------------------------------------------------
(* The application.                                                           *)

Connect ==
    /\ Idle /\ switches < MaxSwitches
    /\ switches' = switches + 1
    /\ wanted' = TRUE /\ dismissed' = FALSE
    /\ Connects(socket, ws, state, reconnecting, strays, attempts)
    /\ UNCHANGED <<beating, silent, task, queue, stranded, breaks>>

\* disconnect, or destroy, which also clears the queue.
Disconnect(destroy) ==
    /\ Idle /\ switches < MaxSwitches
    /\ switches' = switches + 1
    /\ wanted' = FALSE /\ stranded' = FALSE
    /\ reconnecting' = FALSE /\ beating' = FALSE
    /\ socket' = Closed(ws) /\ ws' = "none"
    /\ state' = "disconnected" /\ attempts' = 0
    /\ IF destroy THEN outbox' = <<>> /\ dropped' = dropped \cup ToSet(outbox)
                  ELSE UNCHANGED <<outbox, dropped>>
    /\ UNCHANGED <<strays, silent, task, sent, handed, hurried, putBack, dismissed, breaks>>

\* queueMessage: a full queue loses its oldest message; the mutation lets it grow.
Unbounded(q, m) == Append(q, m)
Queued(q, m) == Append(IF Len(q) >= QueueSize THEN Tail(q) ELSE q, m)
PushedOut(q) == IF Len(q) >= QueueSize THEN {Head(q)} ELSE {}

\* send, also from a handler of the new state: what is not connected or throws
\* goes to the end of the queue.
SendMessage(throws) ==
    /\ task \in {"none", "notify"}
    /\ sent < MaxMessages
    /\ throws => IsConnected
    /\ sent' = sent + 1
    /\ IF IsConnected /\ ~throws
       THEN handed' = Append(handed, sent') /\ UNCHANGED <<outbox, dropped>>
       ELSE /\ outbox' = Queued(outbox, sent') /\ dropped' = dropped \cup PushedOut(outbox)
            /\ UNCHANGED handed
    /\ hurried' = IF Idle THEN hurried ELSE hurried \cup {sent'}
    /\ putBack' = IF throws THEN putBack \cup {sent'} ELSE putBack
    /\ UNCHANGED <<socket, ws, state, attempts, timers, silent, task, wanted, dismissed,
                   stranded, switches, breaks>>

-----------------------------------------------------------------------------
(* The events of the sockets.                                                 *)

\* onopen; the time of the last message stays what it was.
Opens(s) ==
    /\ Idle /\ socket[s] = "connecting"
    /\ socket' = [socket EXCEPT ![s] = "open"]
    /\ state' = "connected" /\ attempts' = 0
    /\ beating' = TRUE
    /\ task' = "notify" /\ stranded' = FALSE
    /\ UNCHANGED <<ws, reconnecting, strays, silent, queue, wanted, dismissed, switches,
                   breaks>>

\* flushMessageQueue, a message at a time: one whose sending throws goes to the
\* end, and the mutation forgets it.
Forgotten(q) == Tail(q)
Requeued(q) == Append(Tail(q), Head(q))
Flush(throws) ==
    /\ ~Idle /\ IsConnected /\ outbox # <<>>
    /\ task' = "flush"
    /\ IF throws
       THEN /\ outbox' = Requeued(outbox) /\ putBack' = putBack \cup {Head(outbox)}
            /\ UNCHANGED handed
       ELSE /\ outbox' = Tail(outbox) /\ handed' = Append(handed, Head(outbox))
            /\ UNCHANGED putBack
    /\ UNCHANGED <<socket, ws, state, attempts, timers, silent, sent, dropped, hurried,
                   wanted, dismissed, stranded, switches, breaks>>

FlushEnds ==
    /\ ~Idle /\ (~IsConnected \/ outbox = <<>>)
    /\ task' = "none"
    /\ UNCHANGED <<socket, ws, state, attempts, timers, silent, queue, wanted, dismissed,
                   stranded, switches, breaks>>

\* onclose: whichever socket it is of, the timers are cleared and the state is
\* set; only after an abnormal closure a connection is due again.
Closes(s, normal) ==
    /\ Idle
    /\ socket' = [socket EXCEPT ![s] = "free"]
    /\ beating' = FALSE
    /\ IF normal THEN state' = "disconnected" /\ reconnecting' = FALSE /\ UNCHANGED <<strays, attempts>>
                 ELSE ScheduleReconnect(FALSE, strays, attempts)
    /\ dismissed' = (dismissed \/ (normal /\ (s = ws \/ ~InUse(socket, ws))))
    /\ stranded' = (s # ws /\ (stranded \/ IsOpen(ws)))
    /\ UNCHANGED <<ws, silent, task, queue, wanted, switches>>

\* The service closed it before.
TellsClosed(s, normal) ==
    /\ socket[s] = "closing" \/ (socket[s] = "lost" /\ ~normal)
    /\ Closes(s, normal)
    /\ UNCHANGED breaks

\* The connection breaks, the attempt fails, or the peer closes with code 1000.
Breaks(s, normal) ==
    /\ socket[s] \in Live /\ (normal => socket[s] = "open")
    /\ breaks < MaxBreaks
    /\ breaks' = breaks + 1
    /\ Closes(s, normal)

\* The peer is gone and nobody says so.
Dies(s) ==
    /\ Idle /\ socket[s] = "open"
    /\ breaks < MaxBreaks
    /\ breaks' = breaks + 1
    /\ socket' = [socket EXCEPT ![s] = "dead"]
    /\ UNCHANGED <<ws, state, attempts, timers, silent, task, queue, wanted, dismissed,
                   stranded, switches>>

\* onmessage, of which only the time matters.
Hears(s) ==
    /\ Idle /\ socket[s] = "open"
    /\ silent' = FALSE
    /\ UNCHANGED <<socket, ws, state, attempts, timers, task, queue, wanted, dismissed,
                   stranded, switches, breaks>>

\* Time passes in which nothing is heard, whether or not the peer is there.
GrowsSilent ==
    /\ Idle
    /\ silent' = TRUE
    /\ UNCHANGED <<socket, ws, state, attempts, timers, task, queue, wanted, dismissed,
                   stranded, switches, breaks>>

-----------------------------------------------------------------------------
(* The timers.                                                                *)

ReconnectTimer ==
    /\ Idle /\ reconnecting
    /\ Connects(socket, ws, state, FALSE, strays, attempts)
    /\ UNCHANGED <<beating, silent, task, queue, wanted, dismissed, stranded, switches,
                   breaks>>

\* One that was forgotten, and that disconnect does not clear.
StrayTimer ==
    /\ Idle /\ strays > 0
    /\ Connects(socket, ws, state, reconnecting, strays - 1, attempts)
    /\ UNCHANGED <<beating, silent, task, queue, wanted, dismissed, stranded, switches,
                   breaks>>

\* A heartbeat that finds the connection silent replaces it: disconnect, connect.
Heartbeat ==
    /\ Idle /\ beating /\ IsConnected /\ silent
    /\ beating' = FALSE
    /\ Connects(Closed(ws), "none", "disconnected", FALSE, strays, 0)
    /\ UNCHANGED <<silent, task, queue, wanted, dismissed, stranded, switches, breaks>>

-----------------------------------------------------------------------------
SocketEvent(s) == Opens(s) \/ \E normal \in BOOLEAN : TellsClosed(s, normal)
SocketStep ==
    \/ ReconnectTimer \/ StrayTimer \/ Heartbeat \/ GrowsSilent \/ FlushEnds
    \/ \E throws \in BOOLEAN : Flush(throws)
    \/ \E s \in Sockets : SocketEvent(s)

SocketNext ==
    \/ Connect
    \/ \E destroy \in BOOLEAN : Disconnect(destroy)
    \/ \E throws \in BOOLEAN : SendMessage(throws)
    \/ SocketStep
    \/ \E s \in Sockets : Dies(s) \/ Hears(s) \/ \E normal \in BOOLEAN : Breaks(s, normal)

SocketSpec == SocketInit /\ [][SocketNext]_socketVars

-----------------------------------------------------------------------------
(* Properties.                                                                *)

SocketTypeOK ==
    /\ socket \in [Sockets -> SocketStates]
    /\ ws \in Sockets \cup {"none"}
    /\ state \in {"connecting", "connected", "disconnected", "reconnecting", "error"}
    /\ task \in {"none", "notify", "flush"}
    /\ attempts \in 0 .. MaxReconnects /\ strays \in Nat
    /\ {reconnecting, beating, silent, wanted, dismissed, stranded} \subseteq BOOLEAN
    /\ outbox \in Seq(1 .. MaxMessages) /\ Len(outbox) <= QueueSize
    /\ handed \in Seq(1 .. MaxMessages)
    /\ {dropped, hurried, putBack} \subseteq SUBSET (1 .. MaxMessages)
    /\ sent \in 0 .. MaxMessages
    /\ switches \in 0 .. MaxSwitches /\ breaks \in 0 .. MaxBreaks

\* The service has no more than one live socket, and it is the one it knows:
\* timers, calls and late events together never open a second.
OneSocket ==
    \A s \in Sockets : socket[s] \in Live => s = ws

\* Each message sent is handed to a socket once, or waits once, or was pushed out of
\* the queue, across any number of reconnections and of sends that throw.  And no
\* message is overtaken by a later one, but for two cases the code leaves: a state
\* handler of the new connection sends before the queue is emptied, and a message
\* whose sending threw goes to its end.
InOrder ==
    LET all == handed \o outbox
    IN  /\ ToSet(all) \cup dropped = 1 .. sent
        /\ \A i, j \in DOMAIN all : i < j =>
              \/ all[i] < all[j]
              \/ all[i] > all[j] /\ (all[i] \in hurried \/ all[j] \in putBack)

\* When connections no more break, a service that is wanted has a connection again
\* whose peer is there, also when nobody told that the last one went dead - unless
\* it has given up, or the code has left it alone: a closure with code 1000, by the
\* peer or told late of a replaced socket, came when it had no other socket
\* (dismissed), or a replaced socket told that it is closed when the present one was
\* open, whose state and heartbeat are gone since (stranded).
Alive == state = "connected" /\ ws # "none" /\ socket[ws] = "open"
ComesBack == wanted ~> (Alive \/ ~wanted \/ state = "error" \/ dismissed \/ stranded)

=============================================================================
