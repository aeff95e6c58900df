CONSTANTS
    NTenants = 2
    Unset = Unset
    Stacks <- MCStacks
    Attached <- MCAttached
    Services <- MCServices
    Modules <- MCModules
    EnvVars <- MCEnvVars
    Values <- MCValues
    Shells <- MCShells
    TenantId <- MCTenantId
    ServerEnvironment <- MCServerEnvironment
    TenantEnvironment <- MCTenantEnvironment
    Faults <- AllFaults

SPECIFICATION Spec
INVARIANTS
    EnvironRestored
    OwnTenant
    PortsCurrent
PROPERTY ContractKept
\* The runner is used once; when it is done the process has nothing to do.
CHECK_DEADLOCK FALSE
