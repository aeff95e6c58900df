CONSTANTS
    Systems <- MCTextPipeline
    Faults = {}
SPECIFICATION Spec
INVARIANT RepliesNotGreeting
\* The tests are over.
CHECK_DEADLOCK FALSE
