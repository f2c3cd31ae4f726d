\* The time a call waits in the channel counts against the helper.
SPECIFICATION Spec
CONSTANTS
    Agents = {a1, a2}
    Probe = probe
    MaxInc = 1
    Timeout = 2
    MaxBackoff = 1
    None = None
    Garbage = Garbage
PROPERTIES KilledOnlyWhenUnresponsive
