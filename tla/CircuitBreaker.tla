---------------------------- MODULE CircuitBreaker ----------------------------
(***************************************************************************)
(* The circuit breaker around the Stellar RPC                                *)
(* (server/services/stellar-circuit-breaker.ts).  Calls overlap at the await   *)
(* of the operation, so one may end in another state of the circuit than the   *)
(* one it was admitted in.                                                   *)
(*                                                                         *)
(* Names are distinct from those of the modules it is checked with in one      *)
(* instance, MCProgress.                                                     *)
(***************************************************************************)
EXTENDS Integers

CONSTANTS
    Callers,      \* calls of execute that may be running at one time
    Threshold,    \* FAILURE_THRESHOLD
    MaxRpcErrors  \* bound on operations that fail

ASSUME BreakerAssumption == Threshold \in Nat \ {0} /\ MaxRpcErrors \in Nat

VARIABLES
    circuit,        \* state
    failuresInRow,  \* consecutiveFailures
    elapsed,        \* RECOVERY_TIMEOUT_MS have passed since openedAt
    probing,        \* halfOpenProbeInFlight
    admitted,       \* calls that run; a probe is one of the present half-open period
    rpcErrors

breakerVars == <<circuit, failuresInRow, elapsed, probing, admitted, rpcErrors>>

-----------------------------------------------------------------------------
BreakerInit ==
    /\ circuit = "CLOSED" /\ failuresInRow = 0
    /\ elapsed = FALSE /\ probing = FALSE
    /\ admitted = [c \in Callers |-> "no"]
    /\ rpcErrors = 0

\* Time passes while the circuit is open.
RecoveryElapses ==
    /\ circuit = "OPEN" /\ ~elapsed
    /\ elapsed' = TRUE
    /\ UNCHANGED <<circuit, failuresInRow, probing, admitted, rpcErrors>>

\* checkStateTransition
Refreshed == IF circuit = "OPEN" /\ elapsed THEN "HALF_OPEN" ELSE circuit

\* getState, which the health route calls
GetState ==
    /\ circuit' = Refreshed
    /\ UNCHANGED <<failuresInRow, elapsed, probing, admitted, rpcErrors>>

\* execute up to its await.  A rejected call changes nothing but what
\* checkStateTransition does.
Execute(c) ==
    /\ admitted[c] = "no"
    /\ circuit' = Refreshed
    /\ \/ /\ circuit' = "CLOSED"
          /\ admitted' = [admitted EXCEPT ![c] = "normal"]
          /\ UNCHANGED probing
       \/ /\ circuit' = "HALF_OPEN" /\ ~probing
          /\ probing' = TRUE
          /\ admitted' = [admitted EXCEPT ![c] = "probe"]
       \/ /\ circuit' = "OPEN" \/ (circuit' = "HALF_OPEN" /\ probing)
          /\ UNCHANGED <<admitted, probing>>
    /\ UNCHANGED <<failuresInRow, elapsed, rpcErrors>>

-----------------------------------------------------------------------------
\* transitionTo: every probe that is still running is an old call from now on.
TransitionTo(state) ==
    /\ circuit' = state
    /\ failuresInRow' = 0
    /\ elapsed' = FALSE
Left(c) == [d \in Callers |-> CASE d = c -> "no"
                                [] d # c /\ admitted[d] = "probe" -> "normal"
                                [] OTHER -> admitted[d]]
Ended(c) == [admitted EXCEPT ![c] = "no"]

\* Whichever call ends in HALF_OPEN is taken for the probe: it decides, and
\* clears the flag.  The mutation clears it on success only.
KeepOnFailure(succeeded) == IF succeeded THEN FALSE ELSE probing
ProbingAfter(succeeded) == FALSE

EndsHalfOpen(c, succeeded) ==
    /\ circuit = "HALF_OPEN"
    /\ probing' = ProbingAfter(succeeded)
    /\ TransitionTo(IF succeeded THEN "CLOSED" ELSE "OPEN")
    /\ admitted' = Left(c)

\* onSuccess
Succeed(c) ==
    /\ admitted[c] # "no"
    /\ \/ EndsHalfOpen(c, TRUE)
       \/ /\ circuit # "HALF_OPEN"
          /\ failuresInRow' = 0
          /\ admitted' = Ended(c)
          /\ UNCHANGED <<circuit, elapsed, probing>>
    /\ UNCHANGED rpcErrors

\* onFailure: a call that fails while the circuit is open counts, and changes
\* nothing else.
Fail(c) ==
    /\ admitted[c] # "no"
    /\ rpcErrors < MaxRpcErrors
    /\ rpcErrors' = rpcErrors + 1
    /\ \/ EndsHalfOpen(c, FALSE)
       \/ /\ circuit = "CLOSED" /\ failuresInRow + 1 >= Threshold
          /\ TransitionTo("OPEN")
          /\ admitted' = Ended(c)
          /\ UNCHANGED probing
       \/ /\ circuit = "OPEN" \/ (circuit = "CLOSED" /\ failuresInRow + 1 < Threshold)
          /\ failuresInRow' = failuresInRow + 1
          /\ admitted' = Ended(c)
          /\ UNCHANGED <<circuit, elapsed, probing>>

BreakerNext ==
    \/ RecoveryElapses \/ GetState
    \/ \E c \in Callers : Execute(c) \/ Succeed(c) \/ Fail(c)

BreakerSpec == BreakerInit /\ [][BreakerNext]_breakerVars

-----------------------------------------------------------------------------
(* Properties.                                                                *)

BreakerTypeOK ==
    /\ circuit \in {"CLOSED", "OPEN", "HALF_OPEN"}
    /\ failuresInRow \in Nat
    /\ elapsed \in BOOLEAN /\ probing \in BOOLEAN
    /\ admitted \in [Callers -> {"no", "normal", "probe"}]
    /\ rpcErrors \in 0 .. MaxRpcErrors

\* "HALF_OPEN -> allows exactly one probe": one call of a half-open period
\* runs at a time, whatever older calls do, and the flag says whether one does:
\* it is never left set, which would reject every call from then on.
ProbeAlone ==
    /\ probing <=> \E c \in Callers : admitted[c] = "probe"
    /\ \A c, d \in Callers : admitted[c] = "probe" /\ admitted[d] = "probe" => c = d
    /\ probing => circuit = "HALF_OPEN"

\* Once operations fail no more and calls go on being made, the circuit closes
\* for good.
Recovers == <>[](circuit = "CLOSED")
=============================================================================
