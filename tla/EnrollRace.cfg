\* A daemon started from a terminal, no unit: enroll does not stop it.
SPECIFICATION Spec
CONSTANTS
    MaxGen = 2
    MaxRot = 1
    MaxCrash = 0
    Faults <- NoFault
    Installs <- TerminalOnly
    SystemctlMayFail = FALSE
    ReuseTolerated = FALSE
    None = None
    Refused = Refused
PROPERTIES CredentialNotLost
CHECK_DEADLOCK FALSE
