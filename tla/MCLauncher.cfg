CONSTANTS
    Devices <- AllDevices
    Demos <- AllDemos
    Needs <- DeviceNeeds
    MaxSignals = 3

SPECIFICATION FairSpec
INVARIANTS
    DevicesOutliveModules
    EndsStopped
    DialsAnswered
PROPERTIES
    SignalsOnlyStop
    SignalEnds
\* main() returns.
CHECK_DEADLOCK FALSE
