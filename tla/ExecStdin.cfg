\* More stdin than the pipe holds, sent to a program that does not read it all.
SPECIFICATION FairSpec
CONSTANTS
    StdinSize = 2
    PipeSize = 1
    OutputCap = 1
    MaxOut = 1
PROPERTIES CallReturns
CHECK_DEADLOCK FALSE
