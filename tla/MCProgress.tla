------------------------------ MODULE MCProgress ------------------------------
(* Small instances of three parts of the application in which something must     *)
(* come about.  They share no state: a behaviour is one of one of them.            *)
EXTENDS Settlement, CircuitBreaker, Socket

VARIABLE part

Vars == <<part, settlementVars, breakerVars, socketVars>>

Init ==
    /\ part \in {"settlement", "breaker", "socket"}
    /\ SettlementInit /\ BreakerInit /\ SocketInit

Settles(step) == part = "settlement" /\ step /\ UNCHANGED <<part, breakerVars, socketVars>>
Guards(step) == part = "breaker" /\ step /\ UNCHANGED <<part, settlementVars, socketVars>>
Talks(step) == part = "socket" /\ step /\ UNCHANGED <<part, settlementVars, breakerVars>>

Next == Settles(SettlementNext) \/ Guards(BreakerNext) \/ Talks(SocketNext)

\* The awaits of a call return and its wait for a connection ends; calls keep
\* coming to the breaker, its time passes, and a server that is up answers; the
\* timers of the socket fire, what it opens and closes tells so, a connection that
\* hears nothing grows silent, and sending does not throw for ever.
Fairness ==
    /\ \A c \in Calls : WF_Vars(Settles(CallStep(c)))
    /\ WF_Vars(Guards(RecoveryElapses))
    /\ WF_Vars(Guards(\E c \in Callers : Execute(c)))
    /\ \A c \in Callers : WF_Vars(Guards(Succeed(c)))
    /\ WF_Vars(Talks(ReconnectTimer))
    /\ WF_Vars(Talks(Heartbeat))
    /\ WF_Vars(Talks(GrowsSilent /\ \A s \in Sockets : socket[s] # "open"))
    /\ WF_Vars(Talks(Flush(FALSE))) /\ WF_Vars(Talks(FlushEnds))
    /\ \A s \in Sockets : WF_Vars(Talks(SocketEvent(s)))

Spec == Init /\ [][Next]_Vars /\ Fairness

TypeOK == SettlementTypeOK /\ BreakerTypeOK /\ SocketTypeOK
=============================================================================
