------------------------------- MODULE Signaling -------------------------------
(***************************************************************************)
(* The signaling server of video calls (server/realtime/signaling.ts) and its  *)
(* client (mobile/src/services/SignalingClient.ts), for the sockets of one     *)
(* call.                                                                     *)
(*                                                                         *)
(* A client that reconnects opens a socket over the one it has; the server     *)
(* keeps a place in the room for each socket until it sees it closed or silent. *)
(* Offers, answers and tips are relayed and leave no state; call tokens are     *)
(* taken to be valid and the server to be below its limit of connections.  The  *)
(* network between the ends of a socket is external.                           *)
(***************************************************************************)
EXTENDS Integers, Sequences, SequencesExt, FiniteSetsExt

CONSTANTS
    Peers,           \* the peers of the call
    MaxSockets,      \* bound on the sockets opened
    RoomSize,        \* MAX_PEERS_PER_ROOM
    MaxAttempts,     \* maxReconnectAttempts
    MaxBreakdowns    \* bound on restarts of the server and cuts of the network

ASSUME SignalingAssumption ==
    {MaxSockets, RoomSize, MaxAttempts, MaxBreakdowns} \subseteq Nat

Links == 1..MaxSockets

VARIABLES
    owner,     \* the peer that opened a socket
    near,      \* the socket at its client
    retried,   \* it was opened by the timer, whose catch schedules another
    far,       \* the socket at the server: known is an entry of peers
    cut,       \* nothing passes any more
    upward,    \* messages on their way to the server
    room,      \* the sockets in the room of the call
    awaiting,  \* awaitingPong, and its timer
    missed,    \* history: pings a dead socket was sent
    told,      \* how many others the server has told a socket of
    retold,    \* history: sockets told of a member that joined a second time
    current,   \* ws of a client, 0 for none
    tries,     \* reconnectAttempts
    pending,    \* reconnect timers that will fire
    polling,   \* pollTimer is set
    disposed,
    breakdowns

linkVars == <<owner, near, retried, cut, upward>>
serverVars == <<far, room, awaiting, told, retold, missed, breakdowns>>
clientVars == <<current, tries, pending, polling, disposed>>
signalingVars == <<linkVars, serverVars, clientVars>>

SignalingInit ==
    /\ owner = [c \in Links |-> "none"]
    /\ near = [c \in Links |-> "unused"]
    /\ retried = [c \in Links |-> FALSE]
    /\ far = [c \in Links |-> "none"]
    /\ cut = [c \in Links |-> FALSE]
    /\ upward = [c \in Links |-> <<>>]
    /\ room = {} /\ retold = {}
    /\ awaiting = [c \in Links |-> FALSE]
    /\ told = [c \in Links |-> 0]
    /\ missed = [c \in Links |-> 0]
    /\ current = [p \in Peers |-> 0]
    /\ tries = [p \in Peers |-> 0]
    /\ pending = [p \in Peers |-> 0]
    /\ polling = [p \in Peers |-> FALSE]
    /\ disposed = [p \in Peers |-> FALSE]
    /\ breakdowns = 0

Known == {c \in Links : far[c] = "known"}
\* Nobody answers any more at the client's end.
Dead(c) == cut[c] \/ near[c] \in {"aborted", "closed"}
Unused == {c \in Links : near[c] = "unused"}

-----------------------------------------------------------------------------
(* The client.                                                               *)

\* connect: the socket takes the place of the one in ws, which stays open.
Dial(p, byTimer) ==
    /\ Unused # {}
    /\ LET c == Min(Unused) IN
        /\ owner' = [owner EXCEPT ![c] = p]
        /\ near' = [near EXCEPT ![c] = "connecting"]
        /\ retried' = [retried EXCEPT ![c] = byTimer]
        /\ current' = [current EXCEPT ![p] = c]
    /\ UNCHANGED <<cut, upward, serverVars>>

\* start, and the attemptReconnect of a peer connection that failed.
StartsOrReconnects(p) ==
    /\ ~disposed[p]
    /\ Dial(p, FALSE)
    /\ UNCHANGED <<tries, pending, polling, disposed>>

\* scheduleReconnect, n times in a row.
Scheduled(p, n) ==
    LET more == Min({n, MaxAttempts - tries[p]}) IN
    /\ tries' = [tries EXCEPT ![p] = @ + more]
    /\ pending' = [pending EXCEPT ![p] = @ + more]
    /\ polling' = [polling EXCEPT ![p] = @ \/ n > more]

TimerFires(p) ==
    /\ pending[p] > 0
    /\ pending' = [pending EXCEPT ![p] = @ - 1]
    /\ IF disposed[p] THEN UNCHANGED <<linkVars, serverVars, current>> ELSE Dial(p, TRUE)
    /\ UNCHANGED <<tries, polling, disposed>>

\* onopen of any socket sends the join over ws.
Opened(c) ==
    /\ near[c] = "connecting" /\ far[c] # "none" /\ ~cut[c]
    /\ near' = [near EXCEPT ![c] = "open"]
    /\ tries' = [tries EXCEPT ![owner[c]] = 0]
    /\ LET ws == current[owner[c]] IN
       upward' = IF ws # 0 /\ (ws = c \/ near[ws] = "open")
                 THEN [upward EXCEPT ![ws] = Append(@, "join")] ELSE upward
    /\ UNCHANGED <<owner, retried, cut, serverVars, current, pending, polling, disposed>>

\* onerror and onclose of a socket that did not open: the catch of the timer's
\* connect schedules one attempt, onclose another.
Failed(c) ==
    /\ near[c] \in {"connecting", "aborted"}
    /\ near[c] = "connecting" => far[c] = "none" \/ cut[c]
    /\ near' = [near EXCEPT ![c] = "closed"]
    /\ Scheduled(owner[c], (IF retried[c] THEN 1 ELSE 0) + (IF disposed[owner[c]] THEN 0 ELSE 1))
    /\ UNCHANGED <<owner, retried, cut, upward, serverVars, current, disposed>>

\* onclose of an open socket that the server closed or whose network is cut.
Dropped(c) ==
    /\ near[c] = "open" /\ (cut[c] \/ far[c] = "gone")
    /\ near' = [near EXCEPT ![c] = "closed"]
    /\ upward' = [upward EXCEPT ![c] = <<>>]
    /\ Scheduled(owner[c], IF disposed[owner[c]] THEN 0 ELSE 1)
    /\ UNCHANGED <<owner, retried, cut, serverVars, current, disposed>>

\* disconnect: of the timers it clears the one set last, which would fire last;
\* of the sockets it closes ws.
DisconnectClient(p) ==
    /\ ~disposed[p] /\ current[p] # 0
    /\ disposed' = [disposed EXCEPT ![p] = TRUE]
    /\ pending' = [pending EXCEPT ![p] = Max({0, @ - 1})]
    /\ polling' = [polling EXCEPT ![p] = FALSE]
    /\ current' = [current EXCEPT ![p] = 0]
    /\ LET ws == current[p] IN
        /\ near' = [near EXCEPT ![ws] = CASE @ = "open" -> "closed"
                                          [] @ = "connecting" -> "aborted"
                                          [] OTHER -> @]
        /\ upward' = IF near[ws] = "open" THEN [upward EXCEPT ![ws] = Append(@, "leave")]
                     ELSE upward
    /\ UNCHANGED <<owner, retried, cut, serverVars, tries>>

-----------------------------------------------------------------------------
(* The server.                                                               *)

\* terminatePeer: those left in the room are told of each that leaves; the mutation
\* does not tell them.
Unnoticed(S) == told
Parted(S) == [c \in Links |-> IF c \in room \ S THEN told[c] - Cardinality(room \cap S) ELSE 0]
Terminated(c) ==
    /\ far' = [far EXCEPT ![c] = "gone"]
    /\ room' = room \ {c}
    /\ told' = Parted({c}) /\ retold' = retold \ {c}
    /\ awaiting' = [awaiting EXCEPT ![c] = FALSE]
    /\ missed' = [missed EXCEPT ![c] = 0]

\* The connection event.
Accepts(c) ==
    /\ near[c] = "connecting" /\ far[c] = "none" /\ ~cut[c]
    /\ far' = [far EXCEPT ![c] = "known"]
    /\ UNCHANGED <<linkVars, clientVars, room, awaiting, told, retold, missed, breakdowns>>

\* handleJoin, when the room has a place; the mutation takes one more.  A socket
\* may send two joins, and the others are told of it again.
Crowded == Cardinality(room) > RoomSize
Full == Cardinality(room) >= RoomSize
HandleJoin(c) ==
    IF Full THEN UNCHANGED serverVars
    ELSE /\ room' = room \cup {c}
         /\ told' = [d \in Links |-> IF d = c THEN Cardinality(room \ {c})
                                     ELSE IF d \in room THEN told[d] + 1 ELSE told[d]]
         /\ retold' = (IF c \in room THEN retold \cup room ELSE retold) \ {c}
         /\ UNCHANGED <<far, awaiting, missed, breakdowns>>

\* handleMessage of the next message of a socket that peers has.
Receives(c) ==
    /\ upward[c] # <<>> /\ ~cut[c] /\ far[c] = "known"
    /\ upward' = [upward EXCEPT ![c] = Tail(@)]
    /\ IF Head(upward[c]) = "join" THEN HandleJoin(c)
       ELSE Terminated(c) /\ UNCHANGED breakdowns
    /\ UNCHANGED <<owner, near, retried, cut, clientVars>>

\* The close and error events: the client closed the socket, or it was reset.
SeesClose(c) ==
    /\ far[c] = "known"
    /\ cut[c] \/ (near[c] \in {"closed", "aborted"} /\ upward[c] = <<>>)
    /\ Terminated(c)
    /\ UNCHANGED <<linkVars, clientVars, breakdowns>>

\* The heartbeat: a socket that has not answered the last ping is terminated, the
\* others are pinged.  The mutation pings them all.
Patient == {}
Zombies == {c \in Known : awaiting[c]}
HeartbeatLoop ==
    LET zombies == Zombies
        pinged == Known \ zombies
    IN  /\ Known # {}
        /\ far' = [c \in Links |-> IF c \in zombies THEN "gone" ELSE far[c]]
        /\ room' = room \ zombies
        /\ told' = Parted(zombies) /\ retold' = retold \ zombies
        /\ awaiting' = [c \in Links |-> c \in pinged]
        /\ missed' = [c \in Links |-> IF c \in pinged /\ Dead(c) THEN missed[c] + 1 ELSE 0]
        /\ UNCHANGED <<linkVars, clientVars, breakdowns>>

Pong(c) ==
    /\ far[c] = "known" /\ awaiting[c] /\ near[c] = "open" /\ ~cut[c]
    /\ awaiting' = [awaiting EXCEPT ![c] = FALSE]
    /\ UNCHANGED <<linkVars, clientVars, far, room, told, retold, missed, breakdowns>>

\* The pong deadline, which a slow client misses too.
PongDeadline(c) ==
    /\ far[c] = "known" /\ awaiting[c]
    /\ Terminated(c)
    /\ UNCHANGED <<linkVars, clientVars, breakdowns>>

\* shutdown, and the next start.
Restart ==
    /\ breakdowns < MaxBreakdowns
    /\ breakdowns' = breakdowns + 1
    /\ far' = [c \in Links |-> IF far[c] = "known" THEN "gone" ELSE far[c]]
    /\ room' = {} /\ retold' = {} /\ awaiting' = [c \in Links |-> FALSE]
    /\ told' = [c \in Links |-> 0] /\ missed' = [c \in Links |-> 0]
    /\ UNCHANGED <<linkVars, clientVars>>

Cut(c) ==
    /\ near[c] \in {"connecting", "open"} /\ ~cut[c]
    /\ breakdowns < MaxBreakdowns
    /\ breakdowns' = breakdowns + 1
    /\ cut' = [cut EXCEPT ![c] = TRUE]
    /\ UNCHANGED <<owner, near, retried, upward, far, room, awaiting, told, retold, missed,
                   clientVars>>

-----------------------------------------------------------------------------
SignalingNext ==
    \/ \E p \in Peers : StartsOrReconnects(p) \/ TimerFires(p) \/ DisconnectClient(p)
    \/ \E c \in Links :
        \/ Opened(c) \/ Failed(c) \/ Dropped(c)
        \/ Accepts(c) \/ Receives(c) \/ SeesClose(c) \/ Pong(c) \/ PongDeadline(c)
        \/ Cut(c)
    \/ HeartbeatLoop \/ Restart

-----------------------------------------------------------------------------
(* Properties.                                                               *)

SignalingTypeOK ==
    /\ owner \in [Links -> Peers \cup {"none"}]
    /\ near \in [Links -> {"unused", "connecting", "open", "aborted", "closed"}]
    /\ far \in [Links -> {"none", "known", "gone"}]
    /\ retried \in [Links -> BOOLEAN] /\ cut \in [Links -> BOOLEAN]
    /\ awaiting \in [Links -> BOOLEAN]
    /\ upward \in [Links -> Seq({"join", "leave"})]
    /\ room \subseteq Links /\ Cardinality(room) <= RoomSize /\ retold \subseteq room
    /\ told \in [Links -> Int] /\ missed \in [Links -> Nat]
    /\ current \in [Peers -> Links \cup {0}]
    /\ tries \in [Peers -> 0..MaxAttempts] /\ pending \in [Peers -> Nat]
    /\ polling \in [Peers -> BOOLEAN] /\ disposed \in [Peers -> BOOLEAN]
    /\ breakdowns \in 0..MaxBreakdowns

\* A socket has a place in the room only while the server keeps a state for it, and
\* what it was told of the others, by the answer to its join and by every arrival
\* and departure since, agrees with the room, whatever order sockets join, die, are
\* replaced and are collected in - until a member joins again, which a room of two
\* refuses when the other is there.
ViewsAgree ==
    /\ \A c \in room : far[c] = "known"
    /\ \A c \in room \ retold : told[c] = Cardinality(room \ {c})
    /\ RoomSize <= 2 => retold = {}

\* The heartbeat collects zombies: a socket whose network is cut or whose client is
\* gone is sent one more ping, and has left the room and the server by the next
\* heartbeat, if no event told the server of it before.
ZombiesCollected == \A c \in Known : missed[c] <= 1
=============================================================================
