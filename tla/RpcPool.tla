-------------------------------- MODULE RpcPool --------------------------------
(***************************************************************************)
(* The pool of RPC endpoints of one network (lib/config/rpc-fallback.ts):     *)
(* rpcCall tries one endpoint after the other, rotating an index that all      *)
(* calls share, and a probe now and then swaps the best endpoint to the front. *)
(* A call's only await is its request, so everything between two answers is    *)
(* one step.                                                                *)
(***************************************************************************)
EXTENDS Integers, FiniteSets

CONSTANTS
    Endpoints,    \* the URLs of the network
    Primaries,    \* PRIMARY_COUNT
    CircuitOpen,  \* consecutive failures after which healthScore is Infinity: 3
    RpcCalls,     \* calls of rpcCall
    MaxOutages,   \* bound on endpoints that stop or start to answer
    MaxSwaps      \* bound on probes that change the order

ASSUME RpcPoolAssumption ==
    /\ IsFiniteSet(Endpoints) /\ "none" \notin Endpoints
    /\ Primaries \in 1 .. Cardinality(Endpoints) - 1
    /\ CircuitOpen \in Nat \ {0}
    /\ {MaxOutages, MaxSwaps} \subseteq Nat

VARIABLES
    urls,       \* the order of the endpoints; the first ones are the primaries
    index,      \* the position calls begin at
    fails,      \* consecutiveFails by position, up to the limit that matters
    up,         \* endpoints that answer
    rpcCall,    \* a call: how it ended, or the endpoint it waits for
    outages, swaps

rpcPoolVars == <<urls, index, fails, up, rpcCall, outages, swaps>>

-----------------------------------------------------------------------------
N == Cardinality(Endpoints)
Positions == 0 .. N - 1

\* met is history: whether another call rotated the index or a probe swapped
\* endpoints under the call, or an endpoint that is up answered it with an error.
RpcCall == [at : {"new", "waits", "answered", "threw"}, attempt : 0 .. N + 1,
            idx : Positions, tried : SUBSET Positions, url : Endpoints \cup {"none"},
            met : SUBSET {"rotation", "swap", "error"}]
NewCall == [at |-> "new", attempt |-> 0, idx |-> 0, tried |-> {}, url |-> "none",
            met |-> {}]
Waits(c) == rpcCall[c].at = "waits"
OverCall(r, how) == [NewCall EXCEPT !.at = how, !.met = r.met]

RpcPoolInit ==
    /\ urls = CHOOSE f \in [Positions -> Endpoints] :
                  \A i, j \in Positions : i # j => f[i] # f[j]
    /\ index = 0
    /\ fails = [i \in Positions |-> 0]
    /\ up = Endpoints
    /\ rpcCall = [c \in RpcCalls |-> NewCall]
    /\ outages = 0 /\ swaps = 0

\* The loop from one attempt on with the index at i: positions tried before are
\* passed over, an attempt each; then the next one is asked, or the call throws.
OneLess == N - 1
Tries == N
Passed(tried, i) == CHOOSE k \in 0 .. N : /\ k = N \/ (i + k) % N \notin tried
                                          /\ \A j \in 0 .. k - 1 : (i + j) % N \in tried
LoopFrom(r, attempt, i) ==
    LET k == Passed(r.tried, i)
        idx == (i + k) % N
    IN  IF attempt + k > Tries
        THEN [call |-> OverCall(r, "threw"), index |-> (i + Tries + 1 - attempt) % N]
        ELSE [call |-> [at |-> "waits", attempt |-> attempt + k, idx |-> idx,
                        tried |-> r.tried \cup {idx}, url |-> urls[idx],
                        met |-> r.met],
              index |-> idx]

\* What happens to one call, and what it is to the others that wait.
Becomes(c, r, met) ==
    rpcCall' = [d \in RpcCalls |->
                  IF d = c THEN r
                  ELSE IF Waits(d) THEN [rpcCall[d] EXCEPT !.met = @ \cup met] ELSE rpcCall[d]]

-----------------------------------------------------------------------------
StartRpcCall(c) ==
    LET next == LoopFrom(NewCall, 1, index)
    IN  /\ rpcCall[c] = NewCall
        /\ index' = next.index
        /\ Becomes(c, next.call, {})
        /\ UNCHANGED <<urls, fails, up, outages, swaps>>

\* recordSuccess
RpcAnswers(c) ==
    /\ Waits(c) /\ rpcCall[c].url \in up
    /\ fails' = [fails EXCEPT ![rpcCall[c].idx] = 0]
    /\ Becomes(c, OverCall(rpcCall[c], "answered"), {})
    /\ UNCHANGED <<urls, index, up, outages, swaps>>

\* recordFailure and rotate, wherever the index has gone meanwhile.
OneMore(i) == IF i + 1 < CircuitOpen THEN i + 1 ELSE CircuitOpen
Rotates(i) == (i + 1) % N

\* The endpoint is down, or answers with an HTTP status or a JSON-RPC error, be it
\* the request that is wrong: the next one is tried all the same.
RpcFails(c) ==
    LET own  == IF rpcCall[c].url \in up THEN {"error"} ELSE {}
        call == [rpcCall[c] EXCEPT !.met = @ \cup own]
        next == LoopFrom(call, call.attempt + 1, Rotates(index))
    IN  /\ Waits(c)
        /\ fails' = [fails EXCEPT ![rpcCall[c].idx] = OneMore(@)]
        /\ index' = next.index
        /\ Becomes(c, next.call, {"rotation"})
        /\ UNCHANGED <<urls, up, outages, swaps>>

-----------------------------------------------------------------------------
\* healthScore orders the endpoints by latency and error rate, which are left
\* open here; one whose circuit is open comes last.
Fit(f) == {i \in Positions : f[i] < CircuitOpen}
FitPrimaries(f) == Fit(f) \cap 0 .. Primaries - 1
Best(f) == IF FitPrimaries(f) # {} THEN FitPrimaries(f)
           ELSE IF Fit(f) # {} THEN Fit(f) ELSE {Primaries}

Swapped(f, best) == [f EXCEPT ![0] = f[best], ![best] = f[0]]

\* runProbe asks every endpoint and records the answers; reorder brings the
\* best to the front and the index with it, if it was not there already.
Probed == [i \in Positions |-> IF urls[i] \in up THEN 0 ELSE OneMore(fails[i])]
RunProbe(best) ==
    /\ best \in Best(Probed)
    /\ best # 0 => swaps < MaxSwaps
    /\ swaps' = IF best = 0 THEN swaps ELSE swaps + 1
    /\ fails' = IF best = 0 THEN Probed ELSE Swapped(Probed, best)
    /\ urls' = IF best = 0 THEN urls ELSE Swapped(urls, best)
    /\ index' = IF best = 0 THEN index ELSE 0
    /\ rpcCall' = [d \in RpcCalls |->
                     IF best # 0 /\ Waits(d) THEN [rpcCall[d] EXCEPT !.met = @ \cup {"swap"}]
                     ELSE rpcCall[d]]
    /\ UNCHANGED <<up, outages>>

\* Providers go down and come back.
Outage(e) ==
    /\ outages < MaxOutages
    /\ outages' = outages + 1
    /\ up' = IF e \in up THEN up \ {e} ELSE up \cup {e}
    /\ UNCHANGED <<urls, index, fails, rpcCall, swaps>>

RpcCallStep(c) == RpcAnswers(c) \/ RpcFails(c)

RpcPoolNext ==
    \/ \E c \in RpcCalls : StartRpcCall(c) \/ RpcCallStep(c)
    \/ \E best \in Positions : RunProbe(best)
    \/ \E e \in Endpoints : Outage(e)

-----------------------------------------------------------------------------
(* Properties.                                                                *)

\* The endpoints are always in some order, none lost or doubled by a swap.
RpcPoolTypeOK ==
    /\ urls \in [Positions -> Endpoints]
    /\ \A i, j \in Positions : i # j => urls[i] # urls[j]
    /\ index \in Positions
    /\ fails \in [Positions -> 0 .. CircuitOpen]
    /\ up \subseteq Endpoints
    /\ rpcCall \in [RpcCalls -> RpcCall]
    /\ outages \in 0 .. MaxOutages /\ swaps \in 0 .. MaxSwaps

\* While no more than one endpoint has failed, a call that throws is one under
\* which a probe swapped endpoints or which an endpoint that is up answered with an
\* error: calls that rotate the index under each other, for whatever failure of their
\* own, all find one that answers.  A pool of two would not do, where the attempt
\* spent on passing over the endpoint already tried is the last one.
OneFailureIsHidden ==
    N > 2 /\ outages <= 1 =>
        \A c \in RpcCalls :
            rpcCall[c].at = "threw" => rpcCall[c].met \cap {"swap", "error"} # {}

=============================================================================
