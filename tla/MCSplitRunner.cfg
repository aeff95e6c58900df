CONSTANTS
    Unset = Unset
    Stacks <- MCStacks
    Attached <- MCAttached
    Services <- MCServices
    Modules <- MCModules
    EnvVars <- MCEnvVars
    Values <- MCValues
    Shells <- MCShells
    ServerEnvironment <- Plain
    ClientEnvironment <- Plain
    Faults <- LeaseFaults

SPECIFICATION Spec
INVARIANTS
    NoStackAbandoned
    EnvironRestored
    OwnEnvironment
PROPERTIES
    LeaseKept
    ContractKept
\* The runner is used once; when it is done the process has nothing to do.
CHECK_DEADLOCK FALSE
