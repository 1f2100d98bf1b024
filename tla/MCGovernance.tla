---------------------------- MODULE MCGovernance ----------------------------
(* An instance of the governance contract small enough for TLC, in two parts:    *)
(* two holders with their deposits and one plain proposal, and one voter with     *)
(* two proposals, the timelock and the calls of the admin and a guardian.          *)
EXTENDS Governance

VARIABLE part

MCVars == <<vars, part>>

\* Parameters out of the limits that the admin sets.
RaisesMin == {[fee |-> None, min |-> 200, max |-> None]}
NewLimits == {<<100, 200>>}

OneHolder == CHOOSE a \in Accounts : TRUE

MCInit == Init /\ part \in {"deposits", "executions"}

DepositsNext ==
    /\ part = "deposits"
    /\ \/ ledger < 3 /\ CloseLedger
       \/ SetVotingToken \/ Deposits \/ Ballots
       \/ \E period \in {1, 2} : proposals = <<>> /\ CreateProposal(period, None)
       \/ \E p \in DOMAIN proposals : \/ ExecuteProposal(p) \/ QueueExecutionDefault(p)
                                      \/ ExecuteTimelocked(p)

ExecutionsNext ==
    /\ part = "executions"
    /\ \/ CloseLedger \/ Executions \/ AdminCall
       \/ \E param \in Params \cup {None} : CreateProposal(1, param)
       \/ \E p \in DOMAIN proposals, yes \in BOOLEAN :
             CastVote(OneHolder, p, yes)

MCNext == (DepositsNext \/ ExecutionsNext) /\ UNCHANGED part

MCSpec == MCInit /\ [][MCNext]_MCVars
=============================================================================
