------------------------------ MODULE MCServices -------------------------------
(***************************************************************************)
(* The services around the query graph, checked side by side: a behaviour  *)
(* belongs to the web client with its sessions table, to a dialogue with a *)
(* user who is asked back, to the registry of contexts, to the other       *)
(* tables of the API, to a circuit breaker or to the gateway of the        *)
(* language models; in the models these share nothing.                     *)
(***************************************************************************)
EXTENDS WebSessions, ClarifyDialogue, CtxRegistry, ApiTables, Breaker, Gateway

VARIABLE part

servicesVars ==
    <<webVars, vars, contextVars, tablesVars, breakerVars, gatewayVars, part>>

ServicesInit ==
    /\ part \in {"web", "dialogue", "registry", "tables", "breaker", "gateway"}
    /\ WebInit /\ Init /\ ContextInit /\ TablesInit /\ BreakerInit /\ GatewayInit
    /\ part = "registry" \/ home = CHOOSE h \in [Ctxs -> Instances] : TRUE

InWeb ==
    /\ part = "web"
    /\ UNCHANGED <<vars, contextVars, tablesVars, breakerVars, gatewayVars, part>>

InDialogue ==
    /\ part = "dialogue"
    /\ UNCHANGED <<webVars, contextVars, tablesVars, breakerVars, gatewayVars, part>>

InRegistry ==
    /\ part = "registry"
    /\ UNCHANGED <<webVars, vars, tablesVars, breakerVars, gatewayVars, part>>

InTables ==
    /\ part = "tables"
    /\ UNCHANGED <<webVars, vars, contextVars, breakerVars, gatewayVars, part>>

InBreaker ==
    /\ part = "breaker"
    /\ UNCHANGED <<webVars, vars, contextVars, tablesVars, gatewayVars, part>>

InGateway ==
    /\ part = "gateway"
    /\ UNCHANGED <<webVars, vars, contextVars, tablesVars, breakerVars, part>>

ServicesNext ==
    \/ WebNext /\ InWeb
    \/ Next /\ InDialogue
    \/ ContextNext /\ InRegistry
    \/ TablesNext /\ InTables
    \/ BreakerNext /\ InBreaker
    \/ GatewayNext /\ InGateway

(* The fairness of each part, where the part runs.                         *)
ServicesFairness ==
    /\ WF_servicesVars(Response /\ InWeb)
    /\ \A c \in Ctxs : WF_servicesVars(QueryStep(c) /\ InRegistry)
    /\ \A i \in Instances, c \in Ctxs : WF_servicesVars(LookupStep(i, c) /\ InRegistry)
    /\ \A t \in Threads : WF_servicesVars(ThreadStep(t) /\ InBreaker)
    /\ WF_servicesVars(TimePasses /\ InBreaker)

ServicesSpec == ServicesInit /\ [][ServicesNext]_servicesVars /\ ServicesFairness
==============================================================================
