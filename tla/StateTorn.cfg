\* Two tasks inside state::write at once.
SPECIFICATION Spec
CONSTANTS
    MaxCrash = 0
    None = None
    Empty = Empty
    Torn = Torn
INVARIANTS NeverHalfWritten
