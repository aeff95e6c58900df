CONSTANTS
    NTenants = 2
    Unset = Unset
    Stacks <- MCStacks
    Attached <- MCAttached
    Services <- MCServices
    Modules <- MCModules
    EnvVars <- MCEnvVars
    Values <- MCValues
    Shells <- MCShells
    TenantId <- MCTenantId
    ServerEnvironment <- MCServerEnvironment
    TenantEnvironment <- MCTenantEnvironment
    Faults <- CleanFaults

SPECIFICATION FairSpec
INVARIANTS
    TypeOK
    NothingLeftBehind
    UpMeansUp
PROPERTIES
    LeaseKept
    BrokerComesDown
\* The runner is used once; when it is done the process has nothing to do.
CHECK_DEADLOCK FALSE
