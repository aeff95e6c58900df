CONSTANTS
    Events <- MCEvents
    Matches <- MCMatches

SPECIFICATION FairSpec
INVARIANT NoLostWakeup
PROPERTIES
    ActsAtomically
    AwaitEnds
