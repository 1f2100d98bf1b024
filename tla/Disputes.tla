------------------------------- MODULE Disputes -------------------------------
(***************************************************************************)
(* The two routes that resolve a dispute: the administrator's                *)
(* (app/api/admin/disputes/[id]/resolve) and the deadline job's                *)
(* (app/api/admin/cron/dispute-deadlines).  Both read the dispute, ask the     *)
(* escrow API for the resolution on chain and then write the row and an        *)
(* entry of the audit log, every one of these an await and none of them in a   *)
(* transaction.                                                             *)
(***************************************************************************)
EXTENDS Integers, Sequences, FiniteSets, SequencesExt

CONSTANTS
    DisputeIds,   \* Dispute rows
    Requests,     \* requests of the two routes that may be running at one time
    MaxRequests,  \* bound on requests that find work
    MaxFailures   \* bound on on-chain calls and statements that fail

\* The rows of a table are finitely many.
ASSUME DisputesAssumption ==
    /\ IsFiniteSet(DisputeIds)
    /\ {MaxRequests, MaxFailures} \subseteq Nat

VARIABLES
    dispute,    \* the row: its status, its reason, whether its deadline has passed
    chain,      \* how the escrow contract resolved the escrow of a dispute
    request,    \* what a request is at
    audited,    \* resolutions in the audit log, by dispute
    contested,  \* history: disputes that two requests had taken at one time
    unreached,  \* history: disputes with a request the contract never got
    torn,       \* history: resolutions on chain whose request ended before the row
    unlogged,   \* history: resolutions in the row whose entry could not be written
    requests, failures

histories == <<contested, unreached, torn, unlogged>>
disputesVars == <<dispute, chain, request, audited, histories, requests, failures>>

-----------------------------------------------------------------------------
Resolutions == {"release_to_freelancer", "refund_to_creator", "split_50_50"}
NoResolution == "none"

Dispute == [state : {"none", "open", "resolved"}, due : BOOLEAN,
            reason : Resolutions \cup {NoResolution}]
Unopened == [state |-> "none", due |-> FALSE, reason |-> NoResolution]

\* todo holds the disputes a request still has to resolve, its head the one at
\* hand; nobody says that the job was called with its secret, by no user.
Request == [todo : Seq(DisputeIds), resolution : Resolutions \cup {NoResolution},
            nobody : BOOLEAN, at : {"idle", "ask", "write", "audit"}]
NoRequest == [todo |-> <<>>, resolution |-> NoResolution, nobody |-> FALSE, at |-> "idle"]
AtHand(r) == Head(request[r].todo)
Noted(table, d, x) == [table EXCEPT ![d] = @ \cup {x}]

DisputesInit ==
    /\ dispute = [d \in DisputeIds |-> Unopened]
    /\ chain = [d \in DisputeIds |-> NoResolution]
    /\ request = [r \in Requests |-> NoRequest]
    /\ audited = [d \in DisputeIds |-> {}]
    /\ contested = {} /\ unreached = {}
    /\ torn = [d \in DisputeIds |-> {}] /\ unlogged = [d \in DisputeIds |-> {}]
    /\ requests = 0 /\ failures = 0

\* disputeEscrow sets no deadline, and no other code of the repository does:
\* whether the job will find the dispute due is up to who does.
Open(d, due) ==
    /\ dispute[d] = Unopened
    /\ dispute' = [dispute EXCEPT ![d] = [Unopened EXCEPT !.state = "open", !.due = due]]
    /\ UNCHANGED <<chain, request, audited, histories, requests, failures>>

-----------------------------------------------------------------------------
Takes(r, todo, resolution, nobody) ==
    LET others == UNION {ToSet(request[q].todo) : q \in Requests}
    IN  /\ request[r] = NoRequest
        /\ requests < MaxRequests
        /\ requests' = requests + 1
        /\ request' = [request EXCEPT ![r] = [todo |-> todo, resolution |-> resolution,
                                              nobody |-> nobody, at |-> "ask"]]
        /\ contested' = contested \cup (ToSet(todo) \cap others)
        /\ UNCHANGED <<dispute, chain, audited, unreached, torn, unlogged, failures>>

\* The administrator's route refuses a dispute that is not open; the mutation
\* only one that does not exist.
Exists(d) == dispute[d].state # "none"
MayResolve(d) == dispute[d].state = "open"
AdminResolves(r, d, resolution) ==
    /\ MayResolve(d)
    /\ Takes(r, <<d>>, resolution, FALSE)

\* The job takes every open dispute whose deadline has passed, and splits; the reason
\* of its own that it writes stands for that.
DeadlineJob(r, nobody) ==
    LET due == {d \in DisputeIds : dispute[d].state = "open" /\ dispute[d].due}
    IN  /\ due # {}
        /\ \E todo \in SetToSeqs(due) : Takes(r, todo, "split_50_50", nobody)

\* The on-chain call.  That it fails is not an error; the contract resolves an
\* escrow once.
Ask(r, reached) ==
    LET d == AtHand(r)
    IN  /\ request[r].at = "ask"
        /\ ~reached => failures < MaxFailures
        /\ failures' = IF reached THEN failures ELSE failures + 1
        /\ chain' = IF reached /\ chain[d] = NoResolution
                    THEN [chain EXCEPT ![d] = request[r].resolution] ELSE chain
        /\ unreached' = IF reached THEN unreached ELSE unreached \cup {d}
        /\ request' = [request EXCEPT ![r].at = "write"]
        /\ UNCHANGED <<dispute, audited, contested, torn, unlogged, requests>>

\* dispute.update by id, whatever the row has become.
WriteDispute(r) ==
    LET d == AtHand(r)
    IN  /\ request[r].at = "write"
        /\ dispute' = [dispute EXCEPT ![d].state = "resolved",
                                      ![d].reason = request[r].resolution]
        /\ request' = [request EXCEPT ![r].at = "audit"]
        /\ UNCHANGED <<chain, audited, histories, requests, failures>>

\* auditLog.create refers to the user who acted: without one the insert breaks
\* its foreign key, which ends the job.
Rest(r) == IF Len(request[r].todo) > 1
           THEN [request[r] EXCEPT !.todo = Tail(@), !.at = "ask"] ELSE NoRequest
Audit(r) ==
    LET d == AtHand(r)
        x == request[r].resolution
    IN  /\ request[r].at = "audit"
        /\ IF request[r].nobody
           THEN /\ unlogged' = Noted(unlogged, d, x) /\ UNCHANGED audited
                /\ request' = [request EXCEPT ![r] = NoRequest]
           ELSE /\ audited' = Noted(audited, d, x) /\ UNCHANGED unlogged
                /\ request' = [request EXCEPT ![r] = Rest(r)]
        /\ UNCHANGED <<dispute, chain, contested, unreached, torn, requests, failures>>

\* A statement fails or the server stops: the request is over, and what the
\* contract did for it stays without a row, or the row without an entry.
RequestFails(r) ==
    LET d == AtHand(r)
        x == request[r].resolution
    IN  /\ request[r].at # "idle"
        /\ failures < MaxFailures
        /\ failures' = failures + 1
        /\ torn' = IF request[r].at = "write" /\ chain[d] = x THEN Noted(torn, d, x) ELSE torn
        /\ unlogged' = IF request[r].at = "audit" THEN Noted(unlogged, d, x) ELSE unlogged
        /\ request' = [request EXCEPT ![r] = NoRequest]
        /\ UNCHANGED <<dispute, chain, audited, contested, unreached, requests>>

-----------------------------------------------------------------------------
RequestStep(r) == (\E reached \in BOOLEAN : Ask(r, reached)) \/ WriteDispute(r) \/ Audit(r)

DisputesNext ==
    \/ \E d \in DisputeIds, due \in BOOLEAN : Open(d, due)
    \/ \E r \in Requests :
         \/ RequestStep(r)
         \/ RequestFails(r)
         \/ \E d \in DisputeIds, x \in Resolutions : AdminResolves(r, d, x)
         \/ \E nobody \in BOOLEAN : DeadlineJob(r, nobody)

-----------------------------------------------------------------------------
(* Properties.                                                                *)

DisputesTypeOK ==
    /\ dispute \in [DisputeIds -> Dispute]
    /\ chain \in [DisputeIds -> Resolutions \cup {NoResolution}]
    /\ request \in [Requests -> Request]
    /\ {audited, torn, unlogged} \subseteq [DisputeIds -> SUBSET Resolutions]
    /\ {contested, unreached} \subseteq SUBSET DisputeIds
    /\ requests \in 0 .. MaxRequests /\ failures \in 0 .. MaxFailures

\* A resolution in the row or on chain is in the audit log, or will be by the request
\* that brought it about - unless its entry could not be written, or the contract
\* acted and the request ended before it wrote the row.
Underway(d, steps) ==
    {request[r].resolution : r \in {r \in Requests : request[r].at \in steps /\ AtHand(r) = d}}
Logged(d) ==
    LET known == {NoResolution} \cup audited[d] \cup unlogged[d]
    IN  /\ dispute[d].reason \in known \cup Underway(d, {"audit"})
        /\ chain[d] \in known \cup torn[d] \cup Underway(d, {"write", "audit"})

\* A resolved dispute is recorded as what the contract did - unless no request
\* reached the contract, two requests were at it at one time, or the contract acted
\* for an earlier request that ended before it wrote the row.
Matches(d) ==
    dispute[d].state = "resolved" =>
        /\ chain[d] = NoResolution => d \in unreached
        /\ d \in contested \/ chain[d] \in {NoResolution, dispute[d].reason} \cup torn[d]

\* So row, chain and audit log agree whatever fails, with these exceptions of the
\* code; and what overlapping requests left is in the log, each of them.
ResolutionAgrees == \A d \in DisputeIds : Logged(d) /\ Matches(d)
=============================================================================
