CONSTANTS
    NTenants = 2
    Topics <- MCTopics
    ReadyTopics <- MCTopics
    Modules <- MCModules
    Faults = {"before", "poll", "snapshot", "timeout"}

SPECIFICATION FairSpec
INVARIANTS
    TypeOK
    ReadyUnlessMasked
    EveryTenantHeard
    SnapshotNoProbe
PROPERTY ReadinessReached
\* A test may stop asking once everything is bound.
CHECK_DEADLOCK FALSE
