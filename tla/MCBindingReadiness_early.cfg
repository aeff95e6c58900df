CONSTANTS
    NTenants = 2
    Topics <- MCTopics
    ReadyTopics <- MCTopics
    Modules <- MCModules
    Faults = {"before"}

SPECIFICATION Spec
INVARIANT ReadyMeansBound
\* A test may stop asking once everything is bound.
CHECK_DEADLOCK FALSE
