\* One enrollment, every fault, with and without the unit: does it always get back up?
SPECIFICATION FairSpec
CONSTANTS
    MaxGen = 1
    MaxRot = 1
    MaxCrash = 1
    Faults <- AllFaults
    Installs <- UnitOrTerminal
    SystemctlMayFail = FALSE
    ReuseTolerated = TRUE
    None = None
    Refused = Refused
INVARIANTS ParkedNeedsAHuman
PROPERTIES HealsByItself RevocationParks EnrollRevives
CHECK_DEADLOCK FALSE
