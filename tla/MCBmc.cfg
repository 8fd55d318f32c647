CONSTANTS
    Called = {"GetPowerState", "PowerOn", "HardOff"}
SPECIFICATION FairSpec
INVARIANT TypeOK
PROPERTIES
    ImplementsAdapter
    CallReturns
