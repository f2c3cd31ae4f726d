\* A connection that comes and goes between two ticks of the refresher.
SPECIFICATION FairSpec
CONSTANTS
    MaxCrash = 0
    None = None
    Empty = Empty
    Torn = Torn
PROPERTIES UnseenDropShown
