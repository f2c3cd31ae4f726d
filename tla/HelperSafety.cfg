\* Two agents' calls, two incarnations that may coexist, a timeout of two ticks.
SPECIFICATION Spec
CONSTANTS
    Agents = {a1, a2}
    Probe = probe
    MaxInc = 2
    Timeout = 2
    MaxBackoff = 3
    None = None
    Garbage = Garbage
INVARIANTS TypeOK AnnouncedIsCurrent
