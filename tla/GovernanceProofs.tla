--------------------------- MODULE GovernanceProofs ---------------------------
(***************************************************************************)
(* The governance contract, proved for any accounts, proposals, parameters,   *)
(* periods and delays.                                                        *)
(*                                                                          *)
(* Decisions: the proofs need to know which fields a proposal has, never that *)
(* its tallies are numbers, so what a deposit weighs plays no part.           *)
(*                                                                          *)
(* Voting power: the bisection of a list of checkpoints in the order of their *)
(* ledgers finds the last one not after the ledger asked for, so get_past_    *)
(* votes answers for a closed ledger as the account stood at its end.  The    *)
(* deposits of a closed ledger lie within the tokens in existence, and with   *)
(* them the weights cast on a proposal, each the deposit of another account   *)
(* at the proposal's snapshot.                                                *)
(***************************************************************************)
EXTENDS Governance, SumTheorems, TLAPS

-----------------------------------------------------------------------------
(* The invariant *)

\* The proposals are a sequence of records with the fields of Proposal.
WellFormed(q) ==
    /\ q = [status |-> q.status, yes |-> q.yes, no |-> q.no, deadline |-> q.deadline,
            snapshot |-> q.snapshot, param |-> q.param]
    /\ q.status \in Statuses

Listed ==
    /\ Len(proposals) \in 0 .. MaxProposals
    /\ DOMAIN proposals = 1 .. Len(proposals)
    /\ \E S : proposals \in Seq(S)
    /\ \A p \in DOMAIN proposals : WellFormed(proposals[p])
    /\ DOMAIN timelock = 1 .. MaxProposals

Inv == Listed /\ QueuedIsApproved /\ OutcomeMatchesTally

\* What a step may do to the decision of a proposal.
Decision(before, after) ==
    /\ before.status \in {"rejected", "executed", "vetoed"} => after = before
    /\ before.status = "approved" =>
          \E status \in {"approved", "executed", "vetoed"} :
              after = [before EXCEPT !.status = status]

Final == \A p \in DOMAIN proposals : Decision(proposals[p], proposals'[p])

LEMMA InitInv == Init => Inv
<1> SUFFICES ASSUME Init PROVE Inv
  OBVIOUS
<1>1. proposals = <<>> /\ timelock = [p \in 1 .. MaxProposals |-> None]
  BY DEF Init
<1>2. Listed
  <2>1. proposals \in Seq({})
    BY <1>1
  <2>2. QED
    BY <1>1, <2>1, GovernanceAssumption DEF Listed
<1>3. QED
  BY <1>1, <1>2 DEF Inv, QueuedIsApproved, OutcomeMatchesTally

-----------------------------------------------------------------------------
(* Records *)

LEMMA KeepsStatus ==
    ASSUME NEW q, WellFormed(q)
    PROVE  q = [q EXCEPT !.status = q.status]
BY DEF WellFormed

LEMMA NewStatus ==
    ASSUME NEW q, NEW s \in Statuses, WellFormed(q)
    PROVE  LET r == [q EXCEPT !.status = s]
           IN  WellFormed(r) /\ r.status = s /\ r.yes = q.yes /\ r.no = q.no
BY DEF WellFormed

LEMMA NewTally ==
    ASSUME NEW q, NEW n, WellFormed(q)
    PROVE  /\ WellFormed([q EXCEPT !.yes = n]) /\ WellFormed([q EXCEPT !.no = n])
           /\ [q EXCEPT !.yes = n].status = q.status
           /\ [q EXCEPT !.no = n].status = q.status
BY DEF WellFormed

\* A proposal that does not change keeps its decision.
LEMMA SameDecision ==
    ASSUME NEW q, WellFormed(q)
    PROVE  Decision(q, q)
BY KeepsStatus, Zenon DEF Decision

-----------------------------------------------------------------------------
(* The shapes of a step *)

\* No proposal changes, and no timelock but that of an approved one.
LEMMA OtherStep ==
    ASSUME Inv, UNCHANGED <<proposals, timelock>>
    PROVE  Inv' /\ Final
<1>1. Inv'
  BY DEF Inv, Listed, QueuedIsApproved, OutcomeMatchesTally
<1>2. Final
  BY SameDecision DEF Final, Inv, Listed
<1>3. QED
  BY <1>1, <1>2

LEMMA CreateStep ==
    ASSUME Inv, NEW period \in VotingPeriods, NEW param \in Params \cup {None},
           CreateProposal(period, param)
    PROVE  Inv' /\ Final
<1> DEFINE new == [status |-> "pending", yes |-> 0, no |-> 0, deadline |-> ledger + period,
                   snapshot |-> SnapshotLedger, param |-> param]
           n == Len(proposals) + 1
<1>1. /\ proposals' = Append(proposals, new) /\ timelock' = timelock
      /\ Len(proposals) < MaxProposals /\ Len(proposals) \in Nat
  BY DEF CreateProposal, Inv, Listed
<1>2. WellFormed(new) /\ new.status = "pending"
  BY DEF WellFormed, Statuses
<1> HIDE DEF new
<1>3. PICK S : proposals \in Seq(S)
  BY DEF Inv, Listed
<1>4. proposals \in Seq(S \cup {new}) /\ new \in S \cup {new}
  BY <1>3
<1>5. /\ proposals' \in Seq(S \cup {new}) /\ Len(proposals') = n
      /\ DOMAIN proposals' = 1 .. n /\ proposals'[n] = new
      /\ \A p \in DOMAIN proposals : proposals'[p] = proposals[p]
  BY <1>1, <1>4
<1>6. \A p \in DOMAIN proposals' : p \in DOMAIN proposals \/ p = n
  BY <1>1, <1>5 DEF Inv, Listed
<1>7. Listed'
  <2>1. \A p \in DOMAIN proposals' : WellFormed(proposals'[p])
    BY <1>2, <1>5, <1>6 DEF Inv, Listed
  <2>2. Len(proposals') \in 0 .. MaxProposals
    BY <1>1, <1>5, GovernanceAssumption
  <2>3. QED
    BY <1>1, <1>5, <2>1, <2>2 DEF Inv, Listed
<1>8. QueuedIsApproved'
  BY <1>1, <1>5 DEF Inv, Listed, QueuedIsApproved
<1>9. OutcomeMatchesTally'
  BY <1>2, <1>5, <1>6 DEF Inv, OutcomeMatchesTally
<1>10. Final
  BY <1>5, SameDecision DEF Final, Inv, Listed
<1>11. QED
  BY <1>7, <1>8, <1>9, <1>10 DEF Inv

\* One proposal changes, and its timelock perhaps.
Replaces(p, r) ==
    /\ proposals' = [proposals EXCEPT ![p] = r]
    /\ \/ timelock' = timelock
       \/ \E t : timelock' = [timelock EXCEPT ![p] = t]

LEMMA ReplacesEffect ==
    ASSUME Listed, NEW p \in DOMAIN proposals, NEW r, WellFormed(r), Replaces(p, r)
    PROVE  /\ Listed' /\ proposals'[p] = r
           /\ DOMAIN proposals' = DOMAIN proposals
           /\ \A q \in DOMAIN proposals \ {p} : proposals'[q] = proposals[q]
           /\ \A q \in 1 .. MaxProposals : q # p => timelock'[q] = timelock[q]
<1>1. /\ DOMAIN proposals' = DOMAIN proposals /\ proposals'[p] = r
      /\ \A q \in DOMAIN proposals \ {p} : proposals'[q] = proposals[q]
  BY DEF Replaces
<1>2. PICK S : proposals \in Seq(S)
  BY DEF Listed
<1>3. proposals \in Seq(S \cup {r}) /\ r \in S \cup {r}
  BY <1>2
<1>4. proposals' \in Seq(S \cup {r}) /\ Len(proposals') = Len(proposals)
  BY <1>3 DEF Replaces
<1>5. /\ DOMAIN timelock' = 1 .. MaxProposals
      /\ \A q \in 1 .. MaxProposals : q # p => timelock'[q] = timelock[q]
  BY DEF Replaces, Listed
<1>6. \A q \in DOMAIN proposals' : WellFormed(proposals'[q])
  BY <1>1 DEF Listed
<1>7. Listed'
  BY <1>1, <1>4, <1>5, <1>6 DEF Listed
<1>8. QED
  BY <1>1, <1>5, <1>7

\* A pending proposal is counted or decided.
LEMMA PendingStep ==
    ASSUME Inv, NEW p \in DOMAIN proposals, NEW r, WellFormed(r), Replaces(p, r),
           proposals[p].status = "pending", timelock' = timelock,
           r.status \in {"approved", "executed", "vetoed"} => r.yes > r.no,
           r.status = "rejected" => ~(r.yes > r.no)
    PROVE  Inv' /\ Final
<1>1. /\ Listed' /\ proposals'[p] = r
      /\ DOMAIN proposals' = DOMAIN proposals
      /\ \A q \in DOMAIN proposals \ {p} : proposals'[q] = proposals[q]
  BY ReplacesEffect DEF Inv
<1>2. QueuedIsApproved'
  <2> SUFFICES ASSUME NEW q \in 1 .. MaxProposals, timelock[q] # None
               PROVE  q \in DOMAIN proposals' /\ proposals'[q].status = "approved"
    BY DEF QueuedIsApproved
  <2>1. q \in DOMAIN proposals /\ proposals[q].status = "approved"
    BY DEF Inv, QueuedIsApproved
  <2>2. QED
    BY <1>1, <2>1
<1>3. OutcomeMatchesTally'
  BY <1>1 DEF Inv, OutcomeMatchesTally
<1>4. Final
  <2>1. Decision(proposals[p], proposals'[p])
    BY DEF Decision
  <2>2. \A q \in DOMAIN proposals \ {p} : Decision(proposals[q], proposals'[q])
    BY <1>1, SameDecision DEF Inv, Listed
  <2>3. QED
    BY <2>1, <2>2 DEF Final
<1>5. QED
  BY <1>1, <1>2, <1>3, <1>4 DEF Inv

\* An approved proposal is executed or vetoed, and its timelock cleared.
LEMMA ClosingStep ==
    ASSUME Inv, NEW p \in DOMAIN proposals, NEW s \in {"executed", "vetoed"},
           proposals[p].status = "approved",
           proposals' = [proposals EXCEPT ![p].status = s],
           timelock' = ClearsTimelock(p)
    PROVE  Inv' /\ Final
<1> DEFINE r == [proposals[p] EXCEPT !.status = s]
<1>1. /\ WellFormed(r) /\ r.status = s
      /\ r.yes = proposals[p].yes /\ r.no = proposals[p].no
  <2>1. s \in Statuses /\ WellFormed(proposals[p])
    BY DEF Inv, Listed, Statuses
  <2>2. QED
    BY <2>1, NewStatus
<1>2. proposals' = [proposals EXCEPT ![p] = r] /\ Replaces(p, r)
  BY DEF Replaces, ClearsTimelock
<1>3. Decision(proposals[p], r)
  BY DEF Decision
<1> HIDE DEF r
<1>4. /\ Listed' /\ proposals'[p] = r
      /\ DOMAIN proposals' = DOMAIN proposals
      /\ \A q \in DOMAIN proposals \ {p} : proposals'[q] = proposals[q]
      /\ \A q \in 1 .. MaxProposals : q # p => timelock'[q] = timelock[q]
  BY <1>1, <1>2, ReplacesEffect DEF Inv
<1>5. QueuedIsApproved'
  <2> SUFFICES ASSUME NEW q \in 1 .. MaxProposals, timelock'[q] # None
               PROVE  q \in DOMAIN proposals' /\ proposals'[q].status = "approved"
    BY DEF QueuedIsApproved
  <2>1. q # p
    BY DEF ClearsTimelock, Inv, Listed
  <2>2. q \in DOMAIN proposals /\ proposals[q].status = "approved"
    BY <1>4, <2>1 DEF Inv, QueuedIsApproved
  <2>3. QED
    BY <1>4, <2>1, <2>2
<1>6. OutcomeMatchesTally'
  BY <1>1, <1>4 DEF Inv, OutcomeMatchesTally
<1>7. Final
  <2>1. \A q \in DOMAIN proposals \ {p} : Decision(proposals[q], proposals'[q])
    BY <1>4, SameDecision DEF Inv, Listed
  <2>2. QED
    BY <1>3, <1>4, <2>1 DEF Final
<1>8. QED
  BY <1>4, <1>5, <1>6, <1>7 DEF Inv

-----------------------------------------------------------------------------
(* The steps *)

LEMMA CountStep ==
    ASSUME Inv, NEW p \in DOMAIN proposals, NEW yes \in BOOLEAN, NEW weight,
           VotingOpen(p), Count(p, yes, weight), timelock' = timelock
    PROVE  Inv' /\ Final
<1> DEFINE q == proposals[p]
           more == [q EXCEPT !.yes = q.yes + weight]
           against == [q EXCEPT !.no = q.no + weight]
<1>1. WellFormed(q) /\ q.status = "pending"
  BY DEF Inv, Listed, VotingOpen
<1>2. CASE yes
  <2>1. proposals' = [proposals EXCEPT ![p] = more]
    BY <1>2 DEF Count
  <2>2. WellFormed(more) /\ more.status = "pending"
    BY <1>1, NewTally
  <2> HIDE DEF more
  <2>3. QED
    BY <1>1, <2>1, <2>2, PendingStep DEF Replaces
<1>3. CASE ~yes
  <2>1. proposals' = [proposals EXCEPT ![p] = against]
    BY <1>3 DEF Count
  <2>2. WellFormed(against) /\ against.status = "pending"
    BY <1>1, NewTally
  <2> HIDE DEF against
  <2>3. QED
    BY <1>1, <2>1, <2>2, PendingStep DEF Replaces
<1>4. QED
  BY <1>2, <1>3

LEMMA DecideStep ==
    ASSUME Inv, NEW p \in DOMAIN proposals, Decide(p)
    PROVE  Inv' /\ Final
<1> DEFINE q == proposals[p]
           r == [q EXCEPT !.status = Outcome(p)]
<1>1. WellFormed(q) /\ q.status = "pending"
  BY DEF Inv, Listed, Decide, Decidable
<1>2. /\ Outcome(p) \in Statuses
      /\ Outcome(p) \in {"approved", "executed", "vetoed"} => q.yes > q.no
      /\ Outcome(p) = "rejected" => ~(q.yes > q.no)
  BY DEF Outcome, Statuses
<1>3. proposals' = [proposals EXCEPT ![p] = r] /\ timelock' = timelock
  BY DEF Decide
<1>4. WellFormed(r) /\ r.status = Outcome(p) /\ r.yes = q.yes /\ r.no = q.no
  BY <1>1, <1>2, NewStatus
<1> HIDE DEF r
<1>5. QED
  BY <1>1, <1>2, <1>3, <1>4, PendingStep DEF Replaces

LEMMA QueueStep ==
    ASSUME Inv, NEW p \in DOMAIN proposals, NEW delay, QueueExecution(p, delay)
    PROVE  Inv' /\ Final
<1>1. /\ proposals' = proposals /\ proposals[p].status = "approved"
      /\ timelock' = [timelock EXCEPT ![p] = ledger + delay]
  BY DEF QueueExecution
<1>2. /\ DOMAIN timelock' = 1 .. MaxProposals
      /\ \A q \in 1 .. MaxProposals : q # p => timelock'[q] = timelock[q]
  BY <1>1 DEF Inv, Listed
<1>3. Inv'
  BY <1>1, <1>2 DEF Inv, Listed, QueuedIsApproved, OutcomeMatchesTally
<1>4. Final
  BY <1>1, SameDecision DEF Final, Inv, Listed
<1>5. QED
  BY <1>3, <1>4

LEMMA ExecutionsStep ==
    ASSUME Inv, Executions
    PROVE  Inv' /\ Final
<1>1. PICK p \in DOMAIN proposals :
        \/ ExecuteProposal(p)
        \/ FinalizeProposal(p)
        \/ \E delay \in Delays : QueueExecution(p, delay)
        \/ QueueExecutionDefault(p)
        \/ ExecuteTimelocked(p)
        \/ \E guardian \in Guardians : VetoProposal(guardian, p)
  BY Zenon DEF Executions
<1>2. CASE ExecuteProposal(p) \/ FinalizeProposal(p)
  BY <1>2, DecideStep DEF ExecuteProposal, FinalizeProposal
<1>3. CASE (\E delay \in Delays : QueueExecution(p, delay)) \/ QueueExecutionDefault(p)
  BY <1>3, QueueStep DEF QueueExecutionDefault
<1>4. CASE ExecuteTimelocked(p)
  BY <1>4, ClosingStep DEF ExecuteTimelocked
<1>5. CASE \E guardian \in Guardians : VetoProposal(guardian, p)
  BY <1>5, ClosingStep DEF VetoProposal
<1>6. QED
  BY <1>1, <1>2, <1>3, <1>4, <1>5

LEMMA NextInv == ASSUME Inv, [Next]_vars PROVE Inv' /\ Final
<1>1. CASE UNCHANGED vars
  BY <1>1, OtherStep DEF vars, proposalVars
<1>2. CASE CloseLedger \/ Deposits
  BY <1>2, OtherStep
     DEF CloseLedger, Deposits, DepositVotes, WithdrawVotes, Transfer, proposalVars
<1>3. CASE \E period \in VotingPeriods, param \in Params \cup {None} :
              CreateProposal(period, param)
  BY <1>3, CreateStep
<1>4. CASE Ballots
  BY <1>4, CountStep DEF Ballots, CastVote, VoteWeighted
<1>5. CASE Executions
  BY <1>5, ExecutionsStep
<1>6. CASE AdminCall
  BY <1>6, OtherStep
     DEF AdminCall, SetVotingToken, SetPlatformFee, SetBountyLimits, SetQuorumPercent,
         SetTotalVotingPower, SetTimelockDuration, AddGuardian, RemoveGuardian,
         proposalVars
<1>7. QED
  BY <1>1, <1>2, <1>3, <1>4, <1>5, <1>6 DEF Next

\* A decided proposal stands for the majority of its final tally, whatever votes,
\* decisions, queueings and vetoes come after.
THEOREM OutcomeCorrect == Spec => []OutcomeMatchesTally
<1>1. Inv => OutcomeMatchesTally
  BY DEF Inv
<1>2. QED
  BY InitInv, NextInv, <1>1, PTL DEF Spec

\* Only an approved proposal has a timelock, so none is executed twice or after
\* a veto.
THEOREM QueueCorrect == Spec => []QueuedIsApproved
<1>1. Inv => QueuedIsApproved
  BY DEF Inv
<1>2. QED
  BY InitInv, NextInv, <1>1, PTL DEF Spec

\* A decision is never taken back, and its tally never changes.
THEOREM DecisionsFinal == Spec => DecidedIsFinal
<1>1. ASSUME Inv, [Next]_vars
      PROVE  [\A p \in DOMAIN proposals :
                LET before == proposals[p]
                    after  == proposals'[p]
                IN  /\ before.status \in {"rejected", "executed", "vetoed"} => after = before
                    /\ before.status = "approved" =>
                          \E status \in {"approved", "executed", "vetoed"} :
                              after = [before EXCEPT !.status = status]]_vars
  BY <1>1, NextInv DEF Final, Decision
<1>2. QED
  BY InitInv, NextInv, <1>1, PTL DEF Spec, DecidedIsFinal

-----------------------------------------------------------------------------
(* The bisection *)

Mid(lo, hi) == lo + ((hi - lo) + 1) \div 2

\* One step of the search, the function that Bisect is computed by.
Narrow(cps, l, f, lo, hi) ==
    IF lo >= hi THEN lo
    ELSE IF cps[Mid(lo, hi)].ledger <= l THEN f[<<Mid(lo, hi), hi>>]
                                         ELSE f[<<lo, Mid(lo, hi) - 1>>]
Search(cps, l, f) ==
    [r \in Ranges(DOMAIN cps) |-> Narrow(cps, l, f, r[1], r[2])]

LEMMA BisectIs ==
    \A cps, l : Bisect(cps, l) = (CHOOSE f : f = Search(cps, l, f))[<<1, Len(cps)>>]
BY DEF Bisect, Search, Mid, Narrow

LEMMA PairIn ==
    ASSUME NEW D, NEW a \in D, NEW b \in D
    PROVE  <<a, b>> \in Ranges(D)
BY DEF Ranges

LEMMA PairParts ==
    /\ \A a, b : <<a, b>>[1] = a /\ <<a, b>>[2] = b
    /\ \A D : \A r \in Ranges(D) : r[1] \in D /\ r[2] \in D
BY DEF Ranges

LEMMA SearchAt ==
    ASSUME NEW cps, NEW l, NEW f, NEW lo \in DOMAIN cps, NEW hi \in DOMAIN cps
    PROVE  Search(cps, l, f)[<<lo, hi>>] = Narrow(cps, l, f, lo, hi)
<1>1. PICK r : r = <<lo, hi>>
  OBVIOUS
<1>2. r \in Ranges(DOMAIN cps) /\ r[1] = lo /\ r[2] = hi
  BY <1>1, PairIn, PairParts, Zenon
<1>3. Search(cps, l, f)[r] = Narrow(cps, l, f, r[1], r[2])
  BY <1>2, Zenon DEF Search
<1>4. QED
  BY <1>1, <1>2, <1>3, Zenon

LEMMA MidWithin ==
    ASSUME NEW n \in Nat, NEW lo \in 1..n, NEW hi \in 1..n, lo < hi
    PROVE  Mid(lo, hi) \in (lo + 1) .. hi
BY DEF Mid

LEMMA SearchMeets ==
    ASSUME NEW cps, NEW l, NEW n \in Nat, DOMAIN cps = 1..n
    PROVE  \E f : f = Search(cps, l, f)
<1> DEFINE Good == {k \in Nat : \E f : \A lo, hi \in 1..n :
                       hi - lo <= k => f[<<lo, hi>>] = Narrow(cps, l, f, lo, hi)}
<1>1. 0 \in Good
  <2> DEFINE f == [r \in Ranges(1..n) |-> r[1]]
  <2>1. ASSUME NEW lo \in 1..n, NEW hi \in 1..n, hi - lo <= 0
        PROVE  f[<<lo, hi>>] = Narrow(cps, l, f, lo, hi)
    <3>1. PICK r : r = <<lo, hi>>
      OBVIOUS
    <3>2. r \in Ranges(1..n) /\ r[1] = lo
      BY <3>1, PairIn, PairParts, Zenon
    <3>3. f[<<lo, hi>>] = lo
      BY <3>1, <3>2, Zenon
    <3> HIDE DEF f
    <3>4. QED
      BY <2>1, <3>3 DEF Narrow
  <2> HIDE DEF f
  <2>2. QED
    BY <2>1
<1>2. ASSUME NEW k \in Nat, k \in Good PROVE k + 1 \in Good
  <2>1. PICK f : \A lo, hi \in 1..n :
                   hi - lo <= k => f[<<lo, hi>>] = Narrow(cps, l, f, lo, hi)
    BY <1>2
  <2>2. PICK g : g = Search(cps, l, f)
    OBVIOUS
  <2>3. \A lo, hi \in 1..n : g[<<lo, hi>>] = Narrow(cps, l, f, lo, hi)
    BY <2>2, SearchAt
  <2>4. ASSUME NEW lo \in 1..n, NEW hi \in 1..n, hi - lo <= k + 1
        PROVE  g[<<lo, hi>>] = Narrow(cps, l, g, lo, hi)
    <3>1. CASE lo >= hi
      BY <2>3, <3>1 DEF Narrow
    <3>2. CASE lo < hi
      <4>1. PICK m : m = Mid(lo, hi)
        OBVIOUS
      <4>2. m \in (lo + 1) .. hi /\ m \in 1..n /\ m - 1 \in 1..n
        <5>1. m \in (lo + 1) .. hi
          BY <3>2, <4>1, MidWithin
        <5>2. QED
          BY <5>1
      <4>3. hi - m <= k /\ (m - 1) - lo <= k
        BY <2>4, <4>2
      <4>4. g[<<m, hi>>] = f[<<m, hi>>] /\ g[<<lo, m - 1>>] = f[<<lo, m - 1>>]
        BY <2>1, <2>3, <4>2, <4>3
      <4>5. Narrow(cps, l, f, lo, hi) = Narrow(cps, l, g, lo, hi)
        BY <4>1, <4>4 DEF Narrow
      <4>6. QED
        BY <2>3, <4>5
    <3>3. QED
      BY <3>1, <3>2
  <2>5. QED
    BY <2>4
<1>3. \A k \in Nat : k \in Good
  <2> HIDE DEF Good
  <2>1. QED
    BY <1>1, <1>2, Induction
<1>4. PICK f : \A lo, hi \in 1..n : f[<<lo, hi>>] = Narrow(cps, l, f, lo, hi)
  <2>1. n \in Good
    BY <1>3
  <2>2. QED
    BY <2>1
<1>5. PICK g : g = Search(cps, l, f)
  OBVIOUS
<1>6. \A lo, hi \in 1..n : g[<<lo, hi>>] = f[<<lo, hi>>]
  <2>1. \A lo, hi \in 1..n : g[<<lo, hi>>] = Narrow(cps, l, f, lo, hi)
    BY <1>5, SearchAt
  <2>2. QED
    BY <1>4, <2>1
<1>7. \A lo, hi \in 1..n : Narrow(cps, l, f, lo, hi) = Narrow(cps, l, g, lo, hi)
  <2> SUFFICES ASSUME NEW lo \in 1..n, NEW hi \in 1..n
               PROVE  Narrow(cps, l, f, lo, hi) = Narrow(cps, l, g, lo, hi)
    OBVIOUS
  <2>1. CASE lo >= hi
    BY <2>1 DEF Narrow
  <2>2. CASE lo < hi
    <3>1. PICK m : m = Mid(lo, hi)
      OBVIOUS
    <3>2. m \in 1..n /\ m - 1 \in 1..n
      BY <2>2, <3>1, MidWithin
    <3>3. g[<<m, hi>>] = f[<<m, hi>>] /\ g[<<lo, m - 1>>] = f[<<lo, m - 1>>]
      BY <1>6, <3>2
    <3>4. QED
      BY <3>1, <3>3 DEF Narrow
  <2>3. QED
    BY <2>1, <2>2
<1>8. Search(cps, l, f) = Search(cps, l, g)
  <2>1. \A r \in Ranges(DOMAIN cps) :
            Narrow(cps, l, f, r[1], r[2]) = Narrow(cps, l, g, r[1], r[2])
    <3> SUFFICES ASSUME NEW r \in Ranges(1..n)
                 PROVE  Narrow(cps, l, f, r[1], r[2]) = Narrow(cps, l, g, r[1], r[2])
      OBVIOUS
    <3>1. r[1] \in 1..n /\ r[2] \in 1..n
      BY PairParts, Zenon
    <3>2. QED
      BY <1>7, <3>1
  <2>2. QED
    BY <2>1, Zenon DEF Search
<1>9. QED
  BY <1>5, <1>8

\* The ledgers of the checkpoints.
Increasing(cps) ==
    \A i, j \in DOMAIN cps : i < j => cps[i].ledger < cps[j].ledger

\* Position p is that of the last checkpoint of lo..hi that is not after ledger l,
\* or the first of them; at gives the ledger of each checkpoint.
IsLast(at, l, p, lo, hi) ==
    p \in lo .. hi /\ \A i \in lo .. hi : i > lo => (at[i] <= l <=> i <= p)

\* The search finds it.
LEMMA SearchFinds ==
    ASSUME NEW cps, NEW l \in Int, NEW n \in Nat, DOMAIN cps = 1..n,
           NEW at \in [1..n -> Int], \A i \in 1..n : cps[i].ledger = at[i],
           \A i, j \in 1..n : i < j => at[i] < at[j],
           NEW f, f = Search(cps, l, f)
    PROVE  \A lo, hi \in 1..n : lo <= hi => IsLast(at, l, f[<<lo, hi>>], lo, hi)
<1> DEFINE Good == {k \in Nat : \A lo, hi \in 1..n :
                      lo <= hi /\ hi - lo <= k => IsLast(at, l, f[<<lo, hi>>], lo, hi)}
<1>1. \A lo, hi \in 1..n : f[<<lo, hi>>] = Narrow(cps, l, f, lo, hi)
  <2>1. \A lo, hi \in 1..n : Search(cps, l, f)[<<lo, hi>>] = Narrow(cps, l, f, lo, hi)
    <3> SUFFICES ASSUME NEW lo \in DOMAIN cps, NEW hi \in DOMAIN cps
                 PROVE  Search(cps, l, f)[<<lo, hi>>] = Narrow(cps, l, f, lo, hi)
      OBVIOUS
    <3>1. QED
      BY SearchAt, Zenon
  <2>2. QED
    BY <2>1
<1>2. ASSUME NEW lo \in 1..n PROVE IsLast(at, l, f[<<lo, lo>>], lo, lo)
  <2>1. f[<<lo, lo>>] = Narrow(cps, l, f, lo, lo)
    BY <1>1
  <2>2. Narrow(cps, l, f, lo, lo) = lo
    BY DEF Narrow
  <2>3. QED
    BY <2>1, <2>2 DEF IsLast
<1>3. 0 \in Good
  <2>1. ASSUME NEW lo \in 1..n, NEW hi \in 1..n, lo <= hi, hi - lo <= 0
        PROVE  IsLast(at, l, f[<<lo, hi>>], lo, hi)
    <3>1. lo = hi
      BY <2>1
    <3>2. QED
      BY <1>2, <3>1
  <2>2. QED
    BY <2>1
<1>4. ASSUME NEW k \in Nat, k \in Good PROVE k + 1 \in Good
  <2>1. ASSUME NEW lo \in 1..n, NEW hi \in 1..n, lo <= hi, hi - lo <= k + 1
        PROVE  IsLast(at, l, f[<<lo, hi>>], lo, hi)
    <3>1. CASE lo = hi
      BY <1>2, <3>1
    <3>2. CASE lo < hi
      <4>1. PICK m : m = Mid(lo, hi)
        OBVIOUS
      <4>2. m \in (lo + 1) .. hi /\ m \in 1..n /\ m - 1 \in 1..n
        <5>1. m \in (lo + 1) .. hi
          BY <3>2, <4>1, MidWithin
        <5>2. QED
          BY <5>1
      <4>3. hi - m <= k /\ (m - 1) - lo <= k /\ m <= hi /\ lo <= m - 1
        BY <2>1, <4>2
      <4>4. CASE at[m] <= l
        <5>1. f[<<lo, hi>>] = f[<<m, hi>>]
          <6>1. f[<<lo, hi>>] = Narrow(cps, l, f, lo, hi)
            BY <1>1
          <6>2. cps[m].ledger = at[m] /\ ~(lo >= hi)
            BY <3>2, <4>2
          <6>3. QED
            BY <4>1, <4>4, <6>1, <6>2 DEF Narrow
        <5>2. IsLast(at, l, f[<<m, hi>>], m, hi)
          BY <1>4, <4>2, <4>3
        <5>3. PICK p \in m .. hi : p = f[<<m, hi>>]
          BY <5>2 DEF IsLast
        <5>4. \A i \in lo .. hi : i <= m => at[i] <= l
          BY <4>2, <4>4
        <5>5. \A i \in m .. hi : i > m => (at[i] <= l <=> i <= p)
          BY <5>2, <5>3 DEF IsLast
        <5>6. IsLast(at, l, p, lo, hi)
          BY <4>2, <5>4, <5>5 DEF IsLast
        <5>7. QED
          BY <5>1, <5>3, <5>6
      <4>5. CASE ~(at[m] <= l)
        <5>1. f[<<lo, hi>>] = f[<<lo, m - 1>>]
          <6>1. f[<<lo, hi>>] = Narrow(cps, l, f, lo, hi)
            BY <1>1
          <6>2. cps[m].ledger = at[m] /\ ~(lo >= hi)
            BY <3>2, <4>2
          <6>3. QED
            BY <4>1, <4>5, <6>1, <6>2 DEF Narrow
        <5>2. IsLast(at, l, f[<<lo, m - 1>>], lo, m - 1)
          BY <1>4, <4>2, <4>3
        <5>3. PICK p \in lo .. (m - 1) : p = f[<<lo, m - 1>>]
          BY <5>2 DEF IsLast
        <5>4. \A i \in lo .. hi : i >= m => ~(at[i] <= l)
          BY <4>2, <4>5
        <5>5. \A i \in lo .. (m - 1) : i > lo => (at[i] <= l <=> i <= p)
          BY <5>2, <5>3 DEF IsLast
        <5>6. IsLast(at, l, p, lo, hi)
          BY <4>2, <5>4, <5>5 DEF IsLast
        <5>7. QED
          BY <5>1, <5>3, <5>6
      <4>6. QED
        BY <4>4, <4>5
    <3>3. QED
      BY <2>1, <3>1, <3>2
  <2>2. QED
    BY <2>1
<1>5. \A k \in Nat : k \in Good
  <2> HIDE DEF Good
  <2>1. QED
    BY <1>3, <1>4, Induction
<1>6. QED
  <2> SUFFICES ASSUME NEW lo \in 1..n, NEW hi \in 1..n, lo <= hi
               PROVE  IsLast(at, l, f[<<lo, hi>>], lo, hi)
    OBVIOUS
  <2>1. hi - lo \in Good
    <3>1. hi - lo \in Nat
      OBVIOUS
    <3> HIDE DEF Good
    <3>2. QED
      BY <1>5, <3>1
  <2>2. QED
    BY <2>1

LEMMA BisectFinds ==
    ASSUME NEW cps, NEW l \in Int, NEW n \in Nat \ {0}, DOMAIN cps = 1..n, Len(cps) = n,
           NEW at \in [1..n -> Int], \A i \in 1..n : cps[i].ledger = at[i],
           \A i, j \in 1..n : i < j => at[i] < at[j]
    PROVE  IsLast(at, l, Bisect(cps, l), 1, n)
<1>1. PICK f : f = Search(cps, l, f) /\ Bisect(cps, l) = f[<<1, n>>]
  <2>1. \E f : f = Search(cps, l, f)
    BY SearchMeets
  <2>2. PICK f : f = CHOOSE g : g = Search(cps, l, g)
    OBVIOUS
  <2>3. f = Search(cps, l, f)
    BY <2>1, <2>2, Zenon
  <2>4. Bisect(cps, l) = f[<<1, Len(cps)>>]
    BY <2>2, BisectIs, Zenon
  <2>5. QED
    BY <2>3, <2>4
<1>2. QED
  BY <1>1, SearchFinds

-----------------------------------------------------------------------------
(* What a list of checkpoints answers for a ledger *)

Checkpoint == [ledger : Nat \ {0}, votes : Nat]

\* Checkpoints of the ledgers up to now, oldest first and one for a ledger.
History(cps, now) ==
    /\ cps \in Seq(Checkpoint)
    /\ \A i \in DOMAIN cps : cps[i].ledger <= now
    /\ \A i, j \in DOMAIN cps : i < j => cps[i].ledger < cps[j].ledger

\* VotesAt, of the checkpoints themselves.
VotesIn(cps, l) ==
    LET n == Len(cps)
    IN  CASE n = 0              -> 0
          [] n > 0 /\ cps[n].ledger <= l -> cps[n].votes
          [] n > 0 /\ cps[n].ledger > l /\ cps[1].ledger > l -> 0
          [] OTHER              -> cps[Bisect(cps, l)].votes

LEMMA VotesAtIs == \A a, l : VotesAt(a, l) = VotesIn(checkpoints[a], l)
BY DEF VotesAt, VotesIn

\* The answer for a ledger: the votes of the last checkpoint that is not after it.
Answers(cps, l, v) ==
    \/ (\A i \in DOMAIN cps : cps[i].ledger > l) /\ v = 0
    \/ \E i \in DOMAIN cps : /\ cps[i].ledger <= l /\ v = cps[i].votes
                             /\ \A j \in DOMAIN cps : j > i => cps[j].ledger > l

\* There are n checkpoints, and at gives their ledgers.
Fields(cps, n, at) ==
    /\ n \in Nat /\ at \in [1..n -> Int] /\ Len(cps) = n /\ DOMAIN cps = 1..n
    /\ \A i \in 1..n : cps[i].ledger = at[i] /\ at[i] > 0 /\ cps[i].votes \in Nat
    /\ \A i, j \in 1..n : i < j => at[i] < at[j]

LEMMA HistoryFields ==
    ASSUME NEW cps, NEW now, History(cps, now)
    PROVE  \E n, at : Fields(cps, n, at)
<1>1. PICK n \in Nat : Len(cps) = n /\ DOMAIN cps = 1..n /\ cps \in [1..n -> Checkpoint]
  BY DEF History
<1>2. PICK at : at = [i \in 1..n |-> cps[i].ledger]
  OBVIOUS
<1>3. \A i \in 1..n : /\ cps[i].ledger \in Nat \ {0} /\ cps[i].votes \in Nat
                      /\ at[i] = cps[i].ledger
  BY <1>1, <1>2 DEF Checkpoint
<1>4. at \in [1..n -> Int]
  BY <1>2, <1>3
<1>5. \A i, j \in 1..n : i < j => at[i] < at[j]
  <2>1. \A i, j \in 1..n : i < j => cps[i].ledger < cps[j].ledger
    BY <1>1 DEF History
  <2>2. QED
    BY <1>3, <2>1
<1>6. \A i \in 1..n : cps[i].ledger = at[i] /\ at[i] > 0 /\ cps[i].votes \in Nat
  BY <1>3
<1>7. QED
  BY <1>1, <1>4, <1>5, <1>6 DEF Fields

LEMMA VotesAnswer ==
    ASSUME NEW cps, NEW now, History(cps, now), NEW l \in Int
    PROVE  Answers(cps, l, VotesIn(cps, l)) /\ VotesIn(cps, l) \in Nat
<1>0. PICK n, at : Fields(cps, n, at)
  BY HistoryFields
<1>1. /\ n \in Nat /\ at \in [1..n -> Int] /\ Len(cps) = n /\ DOMAIN cps = 1..n
      /\ \A i \in 1..n : cps[i].ledger = at[i] /\ at[i] > 0 /\ cps[i].votes \in Nat
      /\ \A i, j \in 1..n : i < j => at[i] < at[j]
  BY <1>0 DEF Fields
<1>2. CASE n = 0
  <2>1. VotesIn(cps, l) = 0
    BY <1>1, <1>2 DEF VotesIn
  <2>2. QED
    BY <1>1, <1>2, <2>1 DEF Answers
<1>3. CASE n > 0 /\ at[n] <= l
  <2>1. VotesIn(cps, l) = cps[n].votes
    BY <1>1, <1>3 DEF VotesIn
  <2>2. QED
    BY <1>1, <1>3, <2>1 DEF Answers
<1>4. CASE n > 0 /\ at[n] > l /\ at[1] > l
  <2>1. VotesIn(cps, l) = 0
    BY <1>1, <1>4 DEF VotesIn
  <2>2. \A i \in 1..n : i = 1 \/ 1 < i
    OBVIOUS
  <2>3. \A i \in 1..n : at[i] > l
    BY <1>1, <1>4, <2>2
  <2>4. QED
    BY <1>1, <2>1, <2>3 DEF Answers
<1>5. CASE n > 0 /\ at[n] > l /\ ~(at[1] > l)
  <2>1. VotesIn(cps, l) = cps[Bisect(cps, l)].votes
    BY <1>1, <1>5 DEF VotesIn
  <2>2. PICK p : p = Bisect(cps, l) /\ IsLast(at, l, p, 1, n)
    BY <1>1, <1>5, BisectFinds
  <2>3. p \in 1..n /\ \A i \in 1..n : i > 1 => (at[i] <= l <=> i <= p)
    BY <2>2 DEF IsLast
  <2>4. at[p] <= l /\ \A j \in 1..n : j > p => at[j] > l
    <3>1. CASE p = 1
      BY <1>1, <1>5, <2>3, <3>1
    <3>2. CASE p > 1
      <4>1. at[p] <= l
        BY <2>3, <3>2
      <4>2. ASSUME NEW j \in 1..n, j > p PROVE at[j] > l
        <5>1. j > 1 /\ ~(j <= p)
          BY <2>3, <4>2
        <5>2. ~(at[j] <= l)
          BY <2>3, <5>1
        <5>3. QED
          BY <1>1, <5>2
      <4>3. QED
        BY <4>1, <4>2
    <3>3. QED
      BY <2>3, <3>1, <3>2
  <2>5. QED
    BY <1>1, <2>1, <2>2, <2>3, <2>4 DEF Answers
<1>6. n = 0 \/ (n > 0 /\ at[n] \in Int /\ at[1] \in Int)
  BY <1>1
<1>7. QED
  BY <1>2, <1>3, <1>4, <1>5, <1>6

LEMMA OneAnswer ==
    ASSUME NEW cps, NEW now, History(cps, now), NEW l \in Int, NEW v, NEW w,
           Answers(cps, l, v), Answers(cps, l, w)
    PROVE  v = w
<1>0. PICK n, at : Fields(cps, n, at)
  BY HistoryFields
<1>1. /\ n \in Nat /\ at \in [1..n -> Int] /\ Len(cps) = n /\ DOMAIN cps = 1..n
      /\ \A i \in 1..n : cps[i].ledger = at[i] /\ at[i] > 0 /\ cps[i].votes \in Nat
      /\ \A i, j \in 1..n : i < j => at[i] < at[j]
  BY <1>0 DEF Fields
<1>2. \/ (\A i \in 1..n : at[i] > l) /\ v = 0
      \/ \E i \in 1..n : at[i] <= l /\ v = cps[i].votes /\ \A j \in 1..n : j > i => at[j] > l
  BY <1>1 DEF Answers
<1>3. \/ (\A i \in 1..n : at[i] > l) /\ w = 0
      \/ \E i \in 1..n : at[i] <= l /\ w = cps[i].votes /\ \A j \in 1..n : j > i => at[j] > l
  BY <1>1 DEF Answers
<1>4. CASE \A i \in 1..n : at[i] > l
  BY <1>1, <1>2, <1>3, <1>4
<1>5. CASE ~ \A i \in 1..n : at[i] > l
  <2>1. PICK i \in 1..n : at[i] <= l /\ v = cps[i].votes /\ \A k \in 1..n : k > i => at[k] > l
    BY <1>2, <1>5
  <2>2. PICK j \in 1..n : at[j] <= l /\ w = cps[j].votes /\ \A k \in 1..n : k > j => at[k] > l
    BY <1>3, <1>5
  <2>3. i = j
    BY <1>1, <2>1, <2>2
  <2>4. QED
    BY <2>1, <2>2, <2>3
<1>6. QED
  BY <1>4, <1>5

\* Before the first ledger nobody has votes; at the present one, the last checkpoint
\* tells.
LEMMA VotesBefore ==
    ASSUME NEW cps, NEW now, History(cps, now)
    PROVE  VotesIn(cps, 0) = 0
<1>0. PICK n, at : Fields(cps, n, at)
  BY HistoryFields
<1>1. /\ n \in Nat /\ at \in [1..n -> Int] /\ Len(cps) = n /\ DOMAIN cps = 1..n
      /\ \A i \in 1..n : cps[i].ledger = at[i] /\ at[i] > 0 /\ cps[i].votes \in Nat
      /\ \A i, j \in 1..n : i < j => at[i] < at[j]
  BY <1>0 DEF Fields
<1>2. Answers(cps, 0, 0)
  BY <1>1 DEF Answers
<1>3. QED
  BY <1>2, VotesAnswer, OneAnswer

LEMMA VotesLater ==
    ASSUME NEW cps, NEW now \in Nat, History(cps, now)
    PROVE  VotesIn(cps, now + 1) = VotesIn(cps, now) /\ History(cps, now + 1)
<1>0. PICK n, at : Fields(cps, n, at)
  BY HistoryFields
<1>1. /\ n \in Nat /\ at \in [1..n -> Int] /\ Len(cps) = n /\ DOMAIN cps = 1..n
      /\ \A i \in 1..n : cps[i].ledger = at[i] /\ at[i] > 0 /\ cps[i].votes \in Nat
      /\ \A i, j \in 1..n : i < j => at[i] < at[j]
  BY <1>0 DEF Fields
<1>2. \A i \in 1..n : at[i] <= now /\ at[i] <= now + 1
  BY <1>1 DEF History
<1>3. History(cps, now + 1)
  BY <1>1, <1>2 DEF History
<1>4. VotesIn(cps, now + 1) = VotesIn(cps, now)
  <2>1. CASE n = 0
    BY <1>1, <2>1 DEF VotesIn
  <2>2. CASE n > 0
    <3>1. cps[n].ledger <= now /\ cps[n].ledger <= now + 1
      BY <1>1, <1>2, <2>2
    <3>2. QED
      BY <1>1, <2>2, <3>1 DEF VotesIn
  <2>3. QED
    BY <1>1, <2>1, <2>2
<1>5. QED
  BY <1>3, <1>4

\* A change of the balance at a ledger tells for it, and for no ledger before it.
Written(cps, now, votes) ==
    IF cps # <<>> /\ Last(cps).ledger = now
    THEN [cps EXCEPT ![Len(cps)] = [ledger |-> now, votes |-> votes]]
    ELSE Append(cps, [ledger |-> now, votes |-> votes])

LEMMA WrittenFields ==
    ASSUME NEW cps, NEW now \in Nat \ {0}, History(cps, now), NEW votes \in Nat,
           NEW new, new = Written(cps, now, votes)
    PROVE  /\ new \in Seq(Checkpoint) /\ new # <<>>
           /\ new[Len(new)] = [ledger |-> now, votes |-> votes]
           /\ \A i \in 1..(Len(new) - 1) :
                 i \in DOMAIN cps /\ new[i] = cps[i] /\ cps[i].ledger < now
           /\ \A i \in DOMAIN cps : cps[i].ledger < now => i \in 1..(Len(new) - 1)
<1>1. PICK n \in Nat : Len(cps) = n /\ DOMAIN cps = 1..n /\ cps \in [1..n -> Checkpoint]
  BY DEF History
<1>2. /\ cps \in Seq(Checkpoint)
      /\ \A i \in 1..n : cps[i].ledger \in Nat /\ cps[i].ledger <= now
      /\ \A i, j \in 1..n : i < j => cps[i].ledger < cps[j].ledger
  BY <1>1 DEF History, Checkpoint
<1>3. PICK cp \in Checkpoint : cp = [ledger |-> now, votes |-> votes]
  BY DEF Checkpoint
<1>4. CASE cps # <<>> /\ Last(cps).ledger = now
  <2>1. n > 0 /\ cps[n].ledger = now /\ new = [cps EXCEPT ![n] = cp]
    BY <1>1, <1>3, <1>4 DEF Written, Last
  <2>2. new \in Seq(Checkpoint) /\ Len(new) = n /\ new # <<>> /\ new[n] = cp
    BY <1>1, <1>2, <2>1
  <2>3. \A i \in 1..(n - 1) : i \in 1..n /\ new[i] = cps[i] /\ cps[i].ledger < now
    BY <1>1, <1>2, <2>1
  <2>4. \A i \in 1..n : cps[i].ledger < now => i \in 1..(n - 1)
    BY <2>1
  <2>5. QED
    BY <1>1, <1>3, <2>2, <2>3, <2>4
<1>5. CASE ~(cps # <<>> /\ Last(cps).ledger = now)
  <2>1. new = Append(cps, cp)
    BY <1>3, <1>5 DEF Written
  <2>2. /\ new \in Seq(Checkpoint) /\ Len(new) = n + 1 /\ new # <<>> /\ new[n + 1] = cp
        /\ \A i \in 1..n : new[i] = cps[i]
    BY <1>1, <1>2, <2>1
  <2>3. \A i \in 1..n : cps[i].ledger < now
    <3>1. CASE n = 0
      BY <3>1
    <3>2. CASE n > 0
      <4>1. cps[n].ledger # now /\ cps[n].ledger < now
        BY <1>1, <1>2, <1>5, <3>2 DEF Last
      <4>2. QED
        BY <1>2, <3>2, <4>1
    <3>3. QED
      BY <3>1, <3>2
  <2>4. QED
    BY <1>1, <1>3, <2>2, <2>3
<1>6. QED
  BY <1>4, <1>5

LEMMA WrittenAnswers ==
    ASSUME NEW cps, NEW now \in Nat \ {0}, History(cps, now), NEW votes \in Nat,
           NEW new, new = Written(cps, now, votes)
    PROVE  /\ History(new, now) /\ VotesIn(new, now) = votes
           /\ \A l \in 0..(now - 1) : VotesIn(new, l) = VotesIn(cps, l)
<1>1. /\ new \in Seq(Checkpoint) /\ new # <<>>
      /\ new[Len(new)] = [ledger |-> now, votes |-> votes]
      /\ \A i \in 1..(Len(new) - 1) :
            i \in DOMAIN cps /\ new[i] = cps[i] /\ cps[i].ledger < now
      /\ \A i \in DOMAIN cps : cps[i].ledger < now => i \in 1..(Len(new) - 1)
  BY WrittenFields
<1>2. PICK n \in Nat \ {0} : n = Len(new) /\ DOMAIN new = 1..n
  BY <1>1
<1>3. new[n].ledger = now /\ new[n].votes = votes
  BY <1>1, <1>2
<1>4. /\ \A i \in 1..(n - 1) : i \in DOMAIN cps /\ new[i] = cps[i] /\ cps[i].ledger < now
      /\ \A i \in DOMAIN cps : cps[i].ledger < now => i \in 1..(n - 1)
      /\ \A i \in 1..n : i = n \/ i \in 1..(n - 1)
  BY <1>1, <1>2
<1>5. \A i \in 1..n : new[i].ledger \in Nat
  <2>1. \A i \in 1..n : new[i] \in Checkpoint
    BY <1>1, <1>2
  <2>2. QED
    BY <2>1 DEF Checkpoint
<1>6. History(new, now)
  <2>1. \A i \in 1..n : new[i].ledger <= now
    BY <1>3, <1>4, <1>5
  <2>2. \A i, j \in 1..n : i < j => new[i].ledger < new[j].ledger
    <3> SUFFICES ASSUME NEW i \in 1..n, NEW j \in 1..n, i < j
                 PROVE  new[i].ledger < new[j].ledger
      OBVIOUS
    <3>1. i \in 1..(n - 1)
      OBVIOUS
    <3>2. CASE j = n
      BY <1>3, <1>4, <3>1, <3>2
    <3>3. CASE j # n
      <4>1. j \in 1..(n - 1)
        BY <3>3
      <4>2. new[i] = cps[i] /\ new[j] = cps[j] /\ i \in DOMAIN cps /\ j \in DOMAIN cps
        BY <1>4, <3>1, <4>1
      <4>3. QED
        BY <4>2 DEF History
    <3>4. QED
      BY <3>2, <3>3
  <2>3. QED
    BY <1>1, <1>2, <2>1, <2>2 DEF History
<1>7. VotesIn(new, now) = votes
  BY <1>2, <1>3 DEF VotesIn
<1>8. ASSUME NEW l \in 0..(now - 1) PROVE VotesIn(new, l) = VotesIn(cps, l)
  <2>1. PICK v : v = VotesIn(cps, l) /\ Answers(cps, l, v)
    BY VotesAnswer
  <2>2. new[n].ledger > l
    BY <1>3
  <2>3. CASE (\A i \in DOMAIN cps : cps[i].ledger > l) /\ v = 0
    <3>1. \A i \in 1..n : new[i].ledger > l
      BY <1>4, <2>2, <2>3
    <3>2. Answers(new, l, v)
      BY <1>2, <2>3, <3>1 DEF Answers
    <3>3. QED
      BY <1>6, <2>1, <3>2, VotesAnswer, OneAnswer
  <2>4. CASE \E i \in DOMAIN cps : /\ cps[i].ledger <= l /\ v = cps[i].votes
                                   /\ \A j \in DOMAIN cps : j > i => cps[j].ledger > l
    <3>1. PICK i \in DOMAIN cps : /\ cps[i].ledger <= l /\ v = cps[i].votes
                                  /\ \A j \in DOMAIN cps : j > i => cps[j].ledger > l
      BY <2>4
    <3>2. cps[i].ledger \in Nat
      <4>1. cps[i] \in Checkpoint
        BY DEF History
      <4>2. QED
        BY <4>1 DEF Checkpoint
    <3>3. cps[i].ledger < now
      BY <3>1, <3>2
    <3>4. i \in 1..(n - 1) /\ new[i] = cps[i]
      BY <1>4, <3>3
    <3>5. ASSUME NEW j \in 1..n, j > i PROVE new[j].ledger > l
      <4>1. CASE j = n
        BY <2>2, <4>1
      <4>2. CASE j \in 1..(n - 1)
        BY <1>4, <3>1, <3>5, <4>2
      <4>3. QED
        BY <1>4, <4>1, <4>2
    <3>6. Answers(new, l, v)
      BY <1>2, <3>1, <3>4, <3>5 DEF Answers
    <3>7. QED
      BY <1>6, <2>1, <3>6, VotesAnswer, OneAnswer
  <2>5. QED
    BY <2>1, <2>3, <2>4 DEF Answers
<1>9. QED
  BY <1>6, <1>7, <1>8

-----------------------------------------------------------------------------
(* The invariant of the tokens *)

\* All the tokens there are.
Supply == Tokens * Cardinality(Accounts)

Ledgers == 1 .. (ledger - 1)

\* What an account has, in its wallet and deposited.
Holdings == [a \in Accounts |-> wallet[a] + VotesIn(checkpoints[a], ledger)]

\* The deposits at the end of a past ledger.
Closing(l) == [a \in Accounts |-> closing[a][l]]

TokenTypes ==
    /\ ledger \in Nat \ {0}
    /\ wallet \in [Accounts -> Nat]
    /\ checkpoints \in [Accounts -> Seq(Checkpoint)]
    /\ \A a \in Accounts : History(checkpoints[a], ledger)
    /\ closing \in [Accounts -> Seq(Nat)]
    /\ \A a \in Accounts : Len(closing[a]) = ledger - 1

\* Tokens are moved, never made, and the checkpoints tell of every past ledger what
\* its end was.
TokenInv ==
    /\ TokenTypes
    /\ \A a \in Accounts : \A l \in Ledgers : VotesIn(checkpoints[a], l) = closing[a][l]
    /\ Total(Holdings) = Supply
    /\ \A l \in Ledgers : Total(Closing(l)) <= Supply

LEMMA ToldTypes ==
    ASSUME TokenTypes
    PROVE  /\ \A a \in Accounts : VotesIn(checkpoints[a], ledger) \in Nat
           /\ Holdings \in [Accounts -> Nat]
<1>1. ASSUME NEW a \in Accounts PROVE VotesIn(checkpoints[a], ledger) \in Nat
  <2>1. History(checkpoints[a], ledger) /\ ledger \in Int
    BY DEF TokenTypes
  <2>2. QED
    BY <2>1, VotesAnswer
<1>2. ASSUME NEW a \in Accounts
      PROVE  wallet[a] + VotesIn(checkpoints[a], ledger) \in Nat
  BY <1>1 DEF TokenTypes
<1>3. QED
  BY <1>1, <1>2 DEF Holdings

LEMMA ClosingType ==
    ASSUME TokenTypes, NEW l \in Ledgers
    PROVE  Closing(l) \in [Accounts -> Nat]
<1>1. ASSUME NEW a \in Accounts PROVE closing[a][l] \in Nat
  BY DEF TokenTypes, Ledgers
<1>2. QED
  BY <1>1 DEF Closing

LEMMA InitTokens == Init => TokenInv
<1> SUFFICES ASSUME Init PROVE TokenInv
  OBVIOUS
<1>1. /\ ledger = 1 /\ wallet = [a \in Accounts |-> Tokens]
      /\ checkpoints = [a \in Accounts |-> <<>>] /\ closing = [a \in Accounts |-> <<>>]
      /\ Ledgers = {}
  BY DEF Init, Ledgers
<1>2. TokenTypes
  <2>1. History(<<>>, 1)
    BY DEF History
  <2>2. QED
    BY <1>1, <2>1, GovernanceAssumption DEF TokenTypes
<1>3. Total(Holdings) = Supply
  <2>1. \A a \in Accounts : VotesIn(checkpoints[a], ledger) = 0
    BY <1>1 DEF VotesIn
  <2>2. \A a \in Accounts : Holdings[a] = Tokens
    BY <1>1, <2>1, GovernanceAssumption DEF Holdings
  <2>3. Holdings \in [Accounts -> Int] /\ Tokens \in Int
    BY <2>2, GovernanceAssumption DEF Holdings
  <2>4. QED
    BY <2>2, <2>3, GovernanceAssumption, TotalSame DEF Supply
<1>4. QED
  BY <1>1, <1>2, <1>3 DEF TokenInv

\* A step that touches neither tokens nor the clock.
LEMMA SameTokens ==
    ASSUME TokenInv, UNCHANGED <<ledger, wallet, checkpoints, closing>>
    PROVE  TokenInv'
BY DEF TokenInv, TokenTypes, Ledgers, Holdings, Closing

LEMMA TransferTokens ==
    ASSUME TokenInv, NEW from \in Accounts, NEW to \in Accounts, NEW amount \in Amounts,
           Transfer(from, to, amount)
    PROVE  TokenInv'
<1>1. /\ from # to /\ wallet[from] >= amount /\ amount \in Nat
      /\ wallet' = [wallet EXCEPT ![from] = @ - amount, ![to] = @ + amount]
      /\ UNCHANGED <<ledger, checkpoints, closing>>
  BY GovernanceAssumption DEF Transfer
<1>2. /\ wallet \in [Accounts -> Nat]
      /\ \A a \in Accounts : VotesIn(checkpoints[a], ledger) \in Nat
  BY ToldTypes DEF TokenInv, TokenTypes
<1>3. PICK w : w = [wallet EXCEPT ![from] = wallet[from] - amount]
  OBVIOUS
<1>4. w \in [Accounts -> Nat] /\ wallet' = [w EXCEPT ![to] = w[to] + amount]
  <2>1. wallet[from] - amount \in Nat
    BY <1>1, <1>2
  <2>2. w \in [Accounts -> Nat]
    BY <1>2, <1>3, <2>1
  <2>3. wallet' = [w EXCEPT ![to] = w[to] + amount]
    BY <1>1, <1>3
  <2>4. QED
    BY <2>2, <2>3
<1>5. wallet' \in [Accounts -> Nat]
  BY <1>1, <1>4
<1>6. /\ wallet'[from] = wallet[from] - amount /\ wallet'[to] = wallet[to] + amount
      /\ \A a \in Accounts \ {from, to} : wallet'[a] = wallet[a]
      /\ w[from] = wallet[from] - amount
      /\ \A a \in Accounts \ {from} : w[a] = wallet[a]
  BY <1>1, <1>2, <1>3, <1>4
<1>7. PICK before \in [Accounts -> Int] : before = Holdings
  BY ToldTypes DEF TokenInv
<1>8. PICK mid : mid = [a \in Accounts |-> w[a] + VotesIn(checkpoints[a], ledger)]
  OBVIOUS
<1>9. mid \in [Accounts -> Int]
  BY <1>2, <1>4, <1>8
<1>10. PICK after : after = [a \in Accounts |-> wallet'[a] + VotesIn(checkpoints[a], ledger)]
  OBVIOUS
<1>11. after \in [Accounts -> Int]
  BY <1>2, <1>5, <1>10
<1>12. Total(mid) = Total(before) + (mid[from] - before[from])
  <2>1. \A a \in Accounts \ {from} : mid[a] = before[a]
    BY <1>6, <1>7, <1>8 DEF Holdings
  <2>2. QED
    BY <1>9, <2>1, GovernanceAssumption, TotalChange
<1>13. Total(after) = Total(mid) + (after[to] - mid[to])
  <2>1. \A a \in Accounts \ {to} : after[a] = mid[a]
    BY <1>6, <1>8, <1>10
  <2>2. QED
    BY <1>9, <1>11, <2>1, GovernanceAssumption, TotalChange
<1>14. mid[from] - before[from] = -amount /\ after[to] - mid[to] = amount
  <2>1. /\ mid[from] = w[from] + VotesIn(checkpoints[from], ledger)
        /\ before[from] = wallet[from] + VotesIn(checkpoints[from], ledger)
        /\ mid[to] = w[to] + VotesIn(checkpoints[to], ledger)
        /\ after[to] = wallet'[to] + VotesIn(checkpoints[to], ledger)
    BY <1>7, <1>8, <1>10 DEF Holdings
  <2>2. /\ VotesIn(checkpoints[from], ledger) \in Nat
        /\ VotesIn(checkpoints[to], ledger) \in Nat
        /\ wallet[from] \in Nat /\ wallet[to] \in Nat
    BY <1>2
  <2>3. w[to] = wallet[to]
    BY <1>1, <1>6
  <2>4. QED
    BY <1>1, <1>6, <2>1, <2>2, <2>3
<1>15. Total(before) \in Int
  BY GovernanceAssumption, TotalInt
<1>16. Total(after) = Total(before)
  BY <1>1, <1>12, <1>13, <1>14, <1>15
<1>17. Holdings' = after
  BY <1>1, <1>10 DEF Holdings
<1>18. QED
  BY <1>1, <1>5, <1>7, <1>16, <1>17 DEF TokenInv, TokenTypes, Ledgers, Closing

\* A deposit or a withdrawal moves tokens between the wallet and the contract.
LEMMA MovesTokens ==
    ASSUME TokenInv, NEW a \in Accounts, NEW held \in Nat, NEW votes \in Nat,
           held + votes = wallet[a] + VotesIn(checkpoints[a], ledger),
           wallet' = [wallet EXCEPT ![a] = held],
           WriteCheckpoint(a, votes), UNCHANGED <<ledger, closing>>
    PROVE  TokenInv'
<1>1. /\ wallet \in [Accounts -> Nat] /\ ledger \in Nat \ {0}
      /\ checkpoints \in [Accounts -> Seq(Checkpoint)]
      /\ \A b \in Accounts : History(checkpoints[b], ledger)
  BY DEF TokenInv, TokenTypes
<1>2. PICK new : new = Written(checkpoints[a], ledger, votes)
  OBVIOUS
<1>3. checkpoints' = [checkpoints EXCEPT ![a] = new]
  BY <1>2 DEF WriteCheckpoint, ReplacesLast, Written
<1>4. /\ History(new, ledger) /\ VotesIn(new, ledger) = votes
      /\ \A l \in 0..(ledger - 1) : VotesIn(new, l) = VotesIn(checkpoints[a], l)
  BY <1>1, <1>2, WrittenAnswers
<1>5. /\ checkpoints'[a] = new
      /\ \A b \in Accounts \ {a} : checkpoints'[b] = checkpoints[b]
      /\ checkpoints' \in [Accounts -> Seq(Checkpoint)]
  BY <1>1, <1>3, <1>4 DEF History
<1>6. /\ wallet'[a] = held /\ wallet' \in [Accounts -> Nat]
      /\ \A b \in Accounts \ {a} : wallet'[b] = wallet[b]
  BY <1>1
<1>7. TokenTypes'
  <2>1. \A b \in Accounts : History(checkpoints'[b], ledger)
    BY <1>1, <1>4, <1>5
  <2>2. QED
    BY <1>1, <1>5, <1>6, <2>1 DEF TokenInv, TokenTypes
<1>8. \A b \in Accounts : \A l \in Ledgers : VotesIn(checkpoints'[b], l) = closing[b][l]
  <2>1. \A l \in Ledgers : l \in 0..(ledger - 1)
    BY <1>1 DEF Ledgers
  <2>2. QED
    BY <1>4, <1>5, <2>1 DEF TokenInv
<1>9. Holdings' = Holdings
  <2>1. \A b \in Accounts : wallet'[b] + VotesIn(checkpoints'[b], ledger)
                              = wallet[b] + VotesIn(checkpoints[b], ledger)
    BY <1>4, <1>5, <1>6
  <2>2. QED
    BY <2>1 DEF Holdings
<1>10. QED
  BY <1>7, <1>8, <1>9 DEF TokenInv, Ledgers, Closing

LEMMA DepositsTokens == ASSUME TokenInv, Deposits PROVE TokenInv'
<1>1. PICK a \in Accounts, amount \in Amounts :
        \/ DepositVotes(a, amount)
        \/ WithdrawVotes(a, amount)
        \/ \E b \in Accounts : Transfer(a, b, amount)
  BY DEF Deposits
<1>2. PICK votes \in Nat : votes = VotesIn(checkpoints[a], ledger)
  BY ToldTypes DEF TokenInv
<1>3. amount \in Nat /\ wallet[a] \in Nat
  BY GovernanceAssumption DEF TokenInv, TokenTypes
<1>4. VotesAt(a, ledger) = votes
  BY <1>2, VotesAtIs
<1>5. CASE DepositVotes(a, amount)
  <2>1. /\ wallet[a] >= amount /\ wallet' = [wallet EXCEPT ![a] = wallet[a] - amount]
        /\ WriteCheckpoint(a, votes + amount) /\ UNCHANGED <<ledger, closing>>
    BY <1>4, <1>5 DEF DepositVotes, Increased
  <2>2. /\ wallet[a] - amount \in Nat /\ votes + amount \in Nat
        /\ (wallet[a] - amount) + (votes + amount) = wallet[a] + votes
    BY <1>3, <2>1
  <2>3. QED
    BY <1>2, <2>1, <2>2, MovesTokens
<1>6. CASE WithdrawVotes(a, amount)
  <2>1. /\ votes >= amount /\ wallet' = [wallet EXCEPT ![a] = wallet[a] + amount]
        /\ WriteCheckpoint(a, votes - amount) /\ UNCHANGED <<ledger, closing>>
    BY <1>4, <1>6 DEF WithdrawVotes, Covers
  <2>2. /\ wallet[a] + amount \in Nat /\ votes - amount \in Nat
        /\ (wallet[a] + amount) + (votes - amount) = wallet[a] + votes
    BY <1>3, <2>1
  <2>3. QED
    BY <1>2, <2>1, <2>2, MovesTokens
<1>7. CASE \E b \in Accounts : Transfer(a, b, amount)
  BY <1>7, TransferTokens
<1>8. QED
  BY <1>1, <1>5, <1>6, <1>7

\* A ledger closes: the deposits of its end are within what all accounts hold.
LEMMA CloseTokens == ASSUME TokenInv, CloseLedger PROVE TokenInv'
<1>1. /\ ledger' = ledger + 1 /\ ledger \in Nat \ {0}
      /\ closing' = [a \in Accounts |-> Append(closing[a], VotesAt(a, ledger))]
      /\ UNCHANGED <<wallet, checkpoints>>
  BY DEF CloseLedger, tokenVars, TokenInv, TokenTypes
<1>2. PICK told \in [Accounts -> Nat] : told = [a \in Accounts |-> VotesIn(checkpoints[a], ledger)]
  BY ToldTypes DEF TokenInv
<1>3. closing' = [a \in Accounts |-> Append(closing[a], told[a])]
  BY <1>1, <1>2, VotesAtIs
<1>4. ASSUME NEW a \in Accounts
      PROVE  /\ closing'[a] \in Seq(Nat) /\ Len(closing'[a]) = ledger
             /\ closing'[a][ledger] = told[a]
             /\ \A l \in Ledgers : closing'[a][l] = closing[a][l]
  <2>1. closing[a] \in Seq(Nat) /\ Len(closing[a]) = ledger - 1 /\ told[a] \in Nat
    BY DEF TokenInv, TokenTypes
  <2>2. closing'[a] = Append(closing[a], told[a])
    BY <1>3
  <2>3. QED
    BY <1>1, <2>1, <2>2 DEF Ledgers
<1>5. Ledgers' = Ledgers \cup {ledger}
  BY <1>1 DEF Ledgers
<1>6. \A a \in Accounts : /\ VotesIn(checkpoints[a], ledger + 1) = VotesIn(checkpoints[a], ledger)
                          /\ History(checkpoints[a], ledger + 1)
  BY <1>1, VotesLater DEF TokenInv, TokenTypes
<1>7. TokenTypes'
  <2>1. closing' \in [Accounts -> Seq(Nat)]
    BY <1>3, <1>4
  <2>2. QED
    BY <1>1, <1>4, <1>6, <2>1 DEF TokenInv, TokenTypes
<1>8. \A a \in Accounts : \A l \in Ledgers' : VotesIn(checkpoints'[a], l) = closing'[a][l]
  BY <1>1, <1>2, <1>4, <1>5 DEF TokenInv
<1>9. Holdings' = Holdings
  BY <1>1, <1>6 DEF Holdings
<1>10. \A l \in Ledgers : Closing(l)' = Closing(l)
  BY <1>4 DEF Closing
<1>11. ASSUME NEW l, l = ledger PROVE Total(Closing(l)') <= Supply
  <2>1. Closing(l)' = told
    BY <1>2, <1>4, <1>11 DEF Closing
  <2>2. PICK all \in [Accounts -> Nat] : all = Holdings /\ Total(all) = Supply
    BY ToldTypes DEF TokenInv
  <2>3. PICK same \in [Accounts -> Accounts] : \A a \in Accounts : same[a] = a
    <3> DEFINE id == [a \in Accounts |-> a]
    <3>1. id \in [Accounts -> Accounts] /\ \A a \in Accounts : id[a] = a
      OBVIOUS
    <3>2. QED
      BY <3>1
  <2>4. \A a \in Accounts : told[a] <= all[same[a]]
    BY <1>2, <2>2, <2>3 DEF Holdings, TokenInv, TokenTypes
  <2>5. Total(told) <= Total(all)
    BY <2>3, <2>4, GovernanceAssumption, TotalInto
  <2>6. QED
    BY <2>1, <2>2, <2>5
<1>12. \A l \in Ledgers' : Total(Closing(l)') <= Supply
  BY <1>5, <1>10, <1>11 DEF TokenInv
<1>13. QED
  BY <1>7, <1>8, <1>9, <1>12 DEF TokenInv

LEMMA TokenStep == ASSUME TokenInv, [Next]_vars PROVE TokenInv'
<1>1. CASE UNCHANGED vars
  BY <1>1, SameTokens DEF vars, tokenVars
<1>2. CASE CloseLedger
  BY <1>2, CloseTokens
<1>3. CASE Deposits
  BY <1>3, DepositsTokens
<1>4. CASE \E period \in VotingPeriods, param \in Params \cup {None} :
              CreateProposal(period, param)
  BY <1>4, SameTokens DEF CreateProposal, tokenVars
<1>5. CASE Ballots
  BY <1>5, SameTokens DEF Ballots, CastVote, VoteWeighted, tokenVars
<1>6. CASE Executions
  BY <1>6, SameTokens
     DEF Executions, ExecuteProposal, FinalizeProposal, Decide, QueueExecution,
         QueueExecutionDefault, ExecuteTimelocked, VetoProposal, tokenVars
<1>7. CASE AdminCall
  BY <1>7, SameTokens
     DEF AdminCall, SetVotingToken, SetPlatformFee, SetBountyLimits, SetQuorumPercent,
         SetTotalVotingPower, SetTimelockDuration, AddGuardian, RemoveGuardian, tokenVars
<1>8. QED
  BY <1>1, <1>2, <1>3, <1>4, <1>5, <1>6, <1>7 DEF Next

\* The bisection answers for every closed ledger with the votes of its end, however
\* many checkpoints came after.
THEOREM PastVotesCorrect == Spec => []PastVotesExact
<1>1. TokenInv => PastVotesExact
  <2> SUFFICES ASSUME TokenInv, NEW a \in Accounts, NEW l \in DOMAIN closing[a]
               PROVE  VotesAt(a, l) = closing[a][l]
    BY DEF PastVotesExact
  <2>1. l \in Ledgers
    BY DEF TokenInv, TokenTypes, Ledgers
  <2>2. QED
    BY <2>1, VotesAtIs DEF TokenInv
<1>2. QED
  BY InitTokens, TokenStep, <1>1, PTL DEF Spec

-----------------------------------------------------------------------------
(* The weights cast on a proposal *)

Snapshot(p) == proposals[p].snapshot

\* A proposal looks at a ledger closed before it; every weighted vote on it has the
\* votes its account had at the end of that ledger, and an account has one.
BallotInv ==
    /\ \A p \in DOMAIN proposals : Snapshot(p) \in 0 .. (ledger - 1)
    /\ IsFiniteSet(weighted)
    /\ \A v \in weighted :
          /\ v.proposal \in DOMAIN proposals /\ v.voter \in Accounts
          /\ Snapshot(v.proposal) \in Ledgers
          /\ v.weight = closing[v.voter][Snapshot(v.proposal)]
    /\ \A v, w \in weighted : v.proposal = w.proposal /\ v.voter = w.voter => v = w

LEMMA InitBallots == Init => BallotInv
BY FS_EmptySet DEF Init, BallotInv

\* What a step leaves of the proposals there were and of the closed ledgers.
LEMMA SnapshotsKept ==
    ASSUME Inv, TokenInv, [Next]_vars
    PROVE  /\ DOMAIN proposals \subseteq DOMAIN proposals'
           /\ \A p \in DOMAIN proposals : Snapshot(p)' = Snapshot(p)
           /\ \A p \in DOMAIN proposals' :
                 p \in DOMAIN proposals \/ Snapshot(p)' = ledger - 1
           /\ ledger \in Nat \ {0} /\ ledger' \in {ledger, ledger + 1}
           /\ Ledgers \subseteq Ledgers'
           /\ \A a \in Accounts : \A l \in Ledgers : closing'[a][l] = closing[a][l]
<1>1. \A p \in DOMAIN proposals : WellFormed(proposals[p])
  BY DEF Inv, Listed
<1>2. /\ ledger \in Nat \ {0} /\ ledger' \in {ledger, ledger + 1}
      /\ \A a \in Accounts : \A l \in Ledgers : closing'[a][l] = closing[a][l]
  <2>1. ledger \in Nat \ {0}
    BY DEF TokenInv, TokenTypes
  <2>2. CASE CloseLedger
    <3>1. ASSUME NEW a \in Accounts, NEW l \in Ledgers PROVE closing'[a][l] = closing[a][l]
      <4>1. PICK v : v = VotesAt(a, ledger)
        OBVIOUS
      <4>2. closing'[a] = Append(closing[a], v)
        BY <2>2, <4>1 DEF CloseLedger
      <4>3. closing[a] \in Seq(Nat) /\ Len(closing[a]) = ledger - 1
        BY DEF TokenInv, TokenTypes
      <4>4. QED
        BY <2>1, <4>2, <4>3 DEF Ledgers
    <3>2. QED
      BY <2>1, <2>2, <3>1 DEF CloseLedger
  <2>3. CASE UNCHANGED <<ledger, closing>>
    BY <2>1, <2>3
  <2>4. CloseLedger \/ UNCHANGED <<ledger, closing>>
    BY DEF Next, vars, Deposits, DepositVotes, WithdrawVotes, Transfer, CreateProposal,
           Ballots, CastVote, VoteWeighted, Executions, ExecuteProposal,
           FinalizeProposal, Decide, QueueExecution, QueueExecutionDefault,
           ExecuteTimelocked, VetoProposal, AdminCall, SetVotingToken, SetPlatformFee,
           SetBountyLimits, SetQuorumPercent, SetTotalVotingPower,
           SetTimelockDuration, AddGuardian, RemoveGuardian
  <2>5. QED
    BY <2>2, <2>3, <2>4
<1>3. Ledgers \subseteq Ledgers'
  <2>1. PICK x \in Nat \ {0} : x = ledger
    BY <1>2
  <2>2. PICK y \in {x, x + 1} : y = ledger'
    BY <1>2, <2>1
  <2>3. Ledgers = 1 .. (x - 1) /\ Ledgers' = 1 .. (y - 1)
    BY <2>1, <2>2 DEF Ledgers
  <2>4. 1 .. (x - 1) \subseteq 1 .. (y - 1)
    OBVIOUS
  <2>5. QED
    BY <2>3, <2>4
<1>4. /\ DOMAIN proposals \subseteq DOMAIN proposals'
      /\ \A p \in DOMAIN proposals : Snapshot(p)' = Snapshot(p)
      /\ \A p \in DOMAIN proposals' :
            p \in DOMAIN proposals \/ Snapshot(p)' = ledger - 1
  <2>1. CASE proposals' = proposals
    BY <2>1 DEF Snapshot
  <2>2. CASE \E p \in DOMAIN proposals : \E s : proposals' = [proposals EXCEPT ![p].status = s]
    <3>0. PICK p \in DOMAIN proposals : \E s : proposals' = [proposals EXCEPT ![p].status = s]
      BY <2>2
    <3>1. PICK s : proposals' = [proposals EXCEPT ![p].status = s]
      BY <3>0
    <3>2. [proposals[p] EXCEPT !.status = s].snapshot = proposals[p].snapshot
      BY <1>1 DEF WellFormed
    <3>3. proposals' = [proposals EXCEPT ![p] = [proposals[p] EXCEPT !.status = s]]
      BY <3>1
    <3>4. QED
      BY <3>2, <3>3 DEF Snapshot
  <2>3. CASE \E p \in DOMAIN proposals : \E yes, weight : Count(p, yes, weight)
    <3>0. PICK p \in DOMAIN proposals : \E yes, weight : Count(p, yes, weight)
      BY <2>3
    <3>1. PICK yes, weight : Count(p, yes, weight)
      BY <3>0
    <3>2. PICK y, n : /\ y = [proposals[p] EXCEPT !.yes = proposals[p].yes + weight]
                      /\ n = [proposals[p] EXCEPT !.no = proposals[p].no + weight]
      OBVIOUS
    <3>3. y.snapshot = proposals[p].snapshot /\ n.snapshot = proposals[p].snapshot
      BY <1>1, <3>2 DEF WellFormed
    <3>4. proposals' = [proposals EXCEPT ![p] = y] \/ proposals' = [proposals EXCEPT ![p] = n]
      BY <3>1, <3>2 DEF Count
    <3>5. QED
      BY <3>3, <3>4 DEF Snapshot
  <2>4. CASE \E period \in VotingPeriods, param \in Params \cup {None} :
                CreateProposal(period, param)
    <3>1. PICK new : proposals' = Append(proposals, new) /\ new.snapshot = SnapshotLedger
      BY <2>4 DEF CreateProposal
    <3>2. SnapshotLedger = ledger - 1
      BY <1>2 DEF SnapshotLedger
    <3>3. PICK S : proposals \in Seq(S)
      BY DEF Inv, Listed
    <3>4. PICK T : proposals \in Seq(T) /\ new \in T
      <4>1. proposals \in Seq(S \cup {new}) /\ new \in S \cup {new}
        BY <3>3
      <4>2. QED
        BY <4>1
    <3>5. /\ DOMAIN proposals' = 1 .. (Len(proposals) + 1)
          /\ DOMAIN proposals = 1 .. Len(proposals) /\ Len(proposals) \in Nat
          /\ proposals'[Len(proposals) + 1] = new
          /\ \A p \in DOMAIN proposals : proposals'[p] = proposals[p]
      BY <3>1, <3>4
    <3>6. \A p \in DOMAIN proposals' : p \in DOMAIN proposals \/ p = Len(proposals) + 1
      BY <3>5
    <3>7. QED
      BY <3>1, <3>2, <3>5, <3>6 DEF Snapshot
  <2>5. CASE UNCHANGED vars \/ CloseLedger \/ Deposits \/ AdminCall
    <3>1. proposals' = proposals
      BY <2>5
      DEF vars, proposalVars, CloseLedger, Deposits, DepositVotes, WithdrawVotes, Transfer,
          AdminCall, SetVotingToken, SetPlatformFee, SetBountyLimits, SetQuorumPercent,
          SetTotalVotingPower, SetTimelockDuration, AddGuardian, RemoveGuardian
    <3>2. QED
      BY <2>1, <3>1
  <2>6. CASE Ballots
    <3>1. \E p \in DOMAIN proposals : \E yes, weight : Count(p, yes, weight)
      BY <2>6 DEF Ballots, CastVote, VoteWeighted
    <3>2. QED
      BY <2>3, <3>1
  <2>7. CASE Executions
    <3>1. \/ proposals' = proposals
          \/ \E p \in DOMAIN proposals : \E s : proposals' = [proposals EXCEPT ![p].status = s]
      BY <2>7
      DEF Executions, ExecuteProposal, FinalizeProposal, Decide, QueueExecution,
          QueueExecutionDefault, ExecuteTimelocked, VetoProposal
    <3>2. QED
      BY <2>1, <2>2, <3>1
  <2>8. QED
    BY <2>4, <2>5, <2>6, <2>7 DEF Next
<1>5. QED
  BY <1>2, <1>3, <1>4

\* The votes there are stay what they are.
LEMMA KeptBallots ==
    ASSUME Inv, TokenInv, BallotInv, [Next]_vars
    PROVE  /\ \A p \in DOMAIN proposals' : Snapshot(p)' \in 0 .. (ledger' - 1)
           /\ \A v \in weighted :
                 /\ v.proposal \in DOMAIN proposals' /\ v.voter \in Accounts
                 /\ Snapshot(v.proposal)' \in Ledgers'
                 /\ v.weight = closing'[v.voter][Snapshot(v.proposal)']
<1>1. /\ DOMAIN proposals \subseteq DOMAIN proposals'
      /\ \A p \in DOMAIN proposals : Snapshot(p)' = Snapshot(p)
      /\ \A p \in DOMAIN proposals' :
            p \in DOMAIN proposals \/ Snapshot(p)' = ledger - 1
      /\ Ledgers \subseteq Ledgers'
      /\ \A a \in Accounts : \A l \in Ledgers : closing'[a][l] = closing[a][l]
  BY SnapshotsKept
<1>2. PICK x \in Nat \ {0} : x = ledger
  BY SnapshotsKept
<1>3. PICK y \in {x, x + 1} : y = ledger'
  BY <1>2, SnapshotsKept
<1>4. \A p \in DOMAIN proposals' : Snapshot(p)' \in 0 .. (ledger' - 1)
  <2> SUFFICES ASSUME NEW p \in DOMAIN proposals'
               PROVE  Snapshot(p)' \in 0 .. (y - 1)
    BY <1>3
  <2>1. CASE p \in DOMAIN proposals
    <3>1. PICK s \in 0 .. (x - 1) : Snapshot(p)' = s
      BY <1>1, <1>2, <2>1 DEF BallotInv
    <3>2. s \in 0 .. (y - 1)
      OBVIOUS
    <3>3. QED
      BY <3>1, <3>2
  <2>2. CASE Snapshot(p)' = ledger - 1
    <3>1. x - 1 \in 0 .. (y - 1)
      OBVIOUS
    <3>2. QED
      BY <1>2, <2>2, <3>1
  <2>3. QED
    BY <1>1, <2>1, <2>2
<1>5. ASSUME NEW v \in weighted
      PROVE  /\ v.proposal \in DOMAIN proposals' /\ v.voter \in Accounts
             /\ Snapshot(v.proposal)' \in Ledgers'
             /\ v.weight = closing'[v.voter][Snapshot(v.proposal)']
  <2>1. /\ v.proposal \in DOMAIN proposals /\ v.voter \in Accounts
        /\ Snapshot(v.proposal) \in Ledgers
        /\ v.weight = closing[v.voter][Snapshot(v.proposal)]
    BY DEF BallotInv
  <2>2. Snapshot(v.proposal)' = Snapshot(v.proposal)
    BY <1>1, <2>1
  <2>3. QED
    BY <1>1, <2>1, <2>2
<1>6. QED
  BY <1>4, <1>5

LEMMA BallotStep ==
    ASSUME Inv, TokenInv, BallotInv, [Next]_vars
    PROVE  BallotInv'
<1>1. /\ \A p \in DOMAIN proposals' : Snapshot(p)' \in 0 .. (ledger' - 1)
      /\ \A v \in weighted :
            /\ v.proposal \in DOMAIN proposals' /\ v.voter \in Accounts
            /\ Snapshot(v.proposal)' \in Ledgers'
            /\ v.weight = closing'[v.voter][Snapshot(v.proposal)']
  BY KeptBallots
<1>2. CASE weighted' = weighted
  BY <1>1, <1>2 DEF BallotInv
<1>3. CASE \E p \in DOMAIN proposals, voter \in Accounts, yes \in BOOLEAN :
              VoteWeighted(voter, p, yes)
  <2>1. PICK p \in DOMAIN proposals, voter \in Accounts, yes \in BOOLEAN :
            VoteWeighted(voter, p, yes)
    BY <1>3
  <2>2. PICK power : power = VotesAt(voter, Snapshot(p))
    OBVIOUS
  <2>3. PICK new : new = [proposal |-> p, voter |-> voter, weight |-> power, yes |-> yes]
    OBVIOUS
  <2>4. /\ weighted' = weighted \cup {new} /\ power > 0
        /\ ~\E v \in weighted : v.proposal = p /\ v.voter = voter
        /\ UNCHANGED <<ledger, closing>>
    BY <2>1, <2>2, <2>3 DEF VoteWeighted, WeightedCast, Snapshot
  <2>5. new.proposal = p /\ new.voter = voter /\ new.weight = power
    BY <2>3
  <2>6. Snapshot(p) \in Ledgers
    <3>1. Snapshot(p) \in 0 .. (ledger - 1) /\ ledger \in Nat \ {0}
      BY DEF BallotInv, TokenInv, TokenTypes
    <3>2. Snapshot(p) # 0
      <4>1. History(checkpoints[voter], ledger)
        BY DEF TokenInv, TokenTypes
      <4>2. VotesIn(checkpoints[voter], 0) = 0
        BY <4>1, VotesBefore
      <4>3. QED
        BY <2>2, <2>4, <4>2, VotesAtIs
    <3>3. QED
      BY <3>1, <3>2 DEF Ledgers
  <2>7. power = closing[voter][Snapshot(p)]
    BY <2>2, <2>6, VotesAtIs DEF TokenInv
  <2>8. /\ p \in DOMAIN proposals' /\ Snapshot(p)' = Snapshot(p) /\ Snapshot(p) \in Ledgers'
    BY <2>6, SnapshotsKept
  <2>9. /\ new.proposal \in DOMAIN proposals' /\ new.voter \in Accounts
        /\ Snapshot(new.proposal)' \in Ledgers'
        /\ new.weight = closing'[new.voter][Snapshot(new.proposal)']
    BY <2>4, <2>5, <2>7, <2>8
  <2>10. \A v \in weighted' : v \in weighted \/ v = new
    BY <2>4
  <2>11. \A v \in weighted' :
            /\ v.proposal \in DOMAIN proposals' /\ v.voter \in Accounts
            /\ Snapshot(v.proposal)' \in Ledgers'
            /\ v.weight = closing'[v.voter][Snapshot(v.proposal)']
    BY <1>1, <2>9, <2>10
  <2>12. \A v, w \in weighted' : v.proposal = w.proposal /\ v.voter = w.voter => v = w
    BY <2>4, <2>5, <2>10 DEF BallotInv
  <2>13. IsFiniteSet(weighted')
    <3>1. IsFiniteSet(weighted)
      BY DEF BallotInv
    <3>2. QED
      BY <2>4, <3>1, FS_AddElement
  <2>14. QED
    BY <1>1, <2>11, <2>12, <2>13 DEF BallotInv
<1>4. \/ weighted' = weighted
      \/ \E p \in DOMAIN proposals, voter \in Accounts, yes \in BOOLEAN :
            VoteWeighted(voter, p, yes)
  BY DEF Next, vars, proposalVars, CloseLedger, Deposits, DepositVotes, WithdrawVotes,
         Transfer, CreateProposal, Ballots, CastVote, Executions, ExecuteProposal,
         FinalizeProposal, Decide, QueueExecution, QueueExecutionDefault,
         ExecuteTimelocked, VetoProposal, AdminCall, SetVotingToken, SetPlatformFee,
         SetBountyLimits, SetQuorumPercent, SetTotalVotingPower, SetTimelockDuration,
         AddGuardian, RemoveGuardian
<1>5. QED
  BY <1>2, <1>3, <1>4

\* The votes on a proposal are one for an account, each within its deposit at the
\* snapshot, and the deposits of a ledger are within all the tokens.
LEMMA WeightBounded ==
    ASSUME TokenInv, BallotInv
    PROVE  NoDoublePower
<1> SUFFICES ASSUME NEW p \in DOMAIN proposals
             PROVE  Weight({v \in weighted : v.proposal = p}) <= Supply
  BY DEF NoDoublePower, Supply
<1>1. PICK cast : cast = {v \in weighted : v.proposal = p}
  OBVIOUS
<1>2. IsFiniteSet(cast)
  BY <1>1, FS_Subset DEF BallotInv
<1>3. PICK weigh : weigh = [v \in cast |-> v.weight]
  OBVIOUS
<1>4. Weight(cast) = Total(weigh)
  BY <1>3, Zenon DEF Weight, Total
<1>5. CASE cast = {}
  <2>1. Total(weigh) = 0
    BY <1>3, <1>5, TotalEmpty
  <2>2. Total(Holdings) \in Nat /\ Total(Holdings) = Supply
    BY ToldTypes, GovernanceAssumption, TotalPart DEF TokenInv
  <2>3. QED
    BY <1>1, <1>4, <2>1, <2>2
<1>6. CASE cast # {}
  <2>1. PICK l : l = Snapshot(p) /\ l \in Ledgers
    BY <1>1, <1>6 DEF BallotInv
  <2>2. PICK closed \in [Accounts -> Nat] : closed = Closing(l) /\ Total(closed) <= Supply
    BY <2>1, ClosingType DEF TokenInv
  <2>3. \A v \in cast : v.voter \in Accounts /\ v.weight = closed[v.voter]
    BY <1>1, <2>1, <2>2 DEF BallotInv, Closing
  <2>4. weigh \in [cast -> Nat] /\ \A v \in cast : weigh[v] = closed[v.voter]
    BY <1>3, <2>2, <2>3
  <2>5. PICK of : of = [v \in cast |-> v.voter]
    OBVIOUS
  <2>6. of \in [cast -> Accounts] /\ \A v \in cast : of[v] = v.voter
    BY <2>3, <2>5
  <2>7. \A v, w \in cast : of[v] = of[w] => v = w
    BY <1>1, <2>6 DEF BallotInv
  <2>8. \A v \in cast : weigh[v] <= closed[of[v]]
    BY <2>2, <2>4, <2>6
  <2>9. Total(weigh) <= Total(closed)
    BY <1>2, <2>4, <2>6, <2>7, <2>8, GovernanceAssumption, TotalInto
  <2>10. Total(weigh) \in Nat /\ Total(closed) \in Nat
    BY <1>2, <2>4, GovernanceAssumption, TotalPart
  <2>11. Supply \in Int
    BY ToldTypes, GovernanceAssumption, TotalPart DEF TokenInv
  <2>12. QED
    BY <1>1, <1>4, <2>2, <2>9, <2>10, <2>11
<1>7. QED
  BY <1>5, <1>6

\* However tokens are deposited, withdrawn and handed on between the votes, those
\* cast on a proposal weigh no more than the tokens in existence.
THEOREM NoDoublePowerCorrect == Spec => []NoDoublePower
BY InitInv, NextInv, InitTokens, TokenStep, InitBallots, BallotStep, WeightBounded, PTL
   DEF Spec
=============================================================================
