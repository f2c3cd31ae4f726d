\* The three tasks write whenever they like: crashes, drops and desktop changes.
SPECIFICATION FairSpec
CONSTANTS
    MaxCrash = 1
    None = None
    Empty = Empty
    Torn = Torn
INVARIANTS TypeOK WholeUnlessMet
PROPERTIES AtomicWrites DropStaysShown ChangeStaysShown
