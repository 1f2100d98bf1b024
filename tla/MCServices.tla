------------------------------ MODULE MCServices ------------------------------
(* Small instances of four parts of the application that are checked for safety   *)
(* only.  They share no state: a behaviour is one of one of them.                  *)
EXTENDS Disputes, CardEscrow, Signaling, RpcPool

VARIABLE part

Vars == <<part, disputesVars, cardVars, signalingVars, rpcPoolVars>>

Init ==
    /\ part \in {"disputes", "card", "signaling", "rpc"}
    /\ DisputesInit /\ CardInit /\ SignalingInit /\ RpcPoolInit

Next ==
    /\ UNCHANGED part
    /\ \/ part = "disputes" /\ DisputesNext /\ UNCHANGED <<cardVars, signalingVars, rpcPoolVars>>
       \/ part = "card" /\ CardNext /\ UNCHANGED <<disputesVars, signalingVars, rpcPoolVars>>
       \/ part = "signaling" /\ SignalingNext /\ UNCHANGED <<disputesVars, cardVars, rpcPoolVars>>
       \/ part = "rpc" /\ RpcPoolNext /\ UNCHANGED <<disputesVars, cardVars, signalingVars>>

Spec == Init /\ [][Next]_Vars

TypeOK == DisputesTypeOK /\ CardTypeOK /\ SignalingTypeOK /\ RpcPoolTypeOK
=============================================================================
