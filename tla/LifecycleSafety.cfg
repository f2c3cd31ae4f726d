\* Enrolled, revoked, re-enrolled and rotated under the unit, every interleaving.
SPECIFICATION Spec
CONSTANTS
    MaxGen = 2
    MaxRot = 2
    MaxCrash = 1
    Faults <- NoFault
    Installs <- UnitOnly
    SystemctlMayFail = FALSE
    ReuseTolerated = FALSE
    None = None
    Refused = Refused
INVARIANTS TypeOK ParkedNeedsAHuman OldTokenNotPresented
PROPERTIES CredentialNotLost
CHECK_DEADLOCK FALSE
