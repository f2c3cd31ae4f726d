\* Liveness: three agents' calls contend for the helper, one incarnation at a time, a timeout of one tick.
SPECIFICATION FairSpec
CONSTANTS
    Agents = {a1, a2, a3}
    Probe = probe
    MaxInc = 1
    Timeout = 1
    MaxBackoff = 1
    None = None
    Garbage = Garbage
PROPERTIES CallsConcluded DeadHelperWithdrawn NoOrphanHelper
