CONSTANTS
    Systems <- MCSystems
    Faults = {"unbound", "overwrite"}
SPECIFICATION FairSpec
INVARIANTS
    TypeOK
    OwnTenantOnly
    RelayedToItself
    AnsweredOnce
PROPERTY ConversationsComplete
\* The tests are over.
CHECK_DEADLOCK FALSE
