CONSTANTS
    eliza = eliza
    chatui = chatui
    backend = backend
    Stray = Stray
    Free = Free
    Runners <- MCRunners
    Routed <- MCRouted
    Faults <- FaultPoints

SPECIFICATION Spec
INVARIANTS
    GlobalsRestored
    OwnGlobals
    EndpointUnderWorkers
    StoppedHoldsNothing
PROPERTY ContractKept
\* Every runner may have been used.
CHECK_DEADLOCK FALSE
