\* What is sent to stdin fits the pipe; the output passes the cap and fills the pipes.
SPECIFICATION MCSpec
CONSTANTS
    StdinSize = 2
    PipeSize = 2
    OutputCap = 2
    MaxOut = 5
INVARIANTS TypeOK TreeGoneAfterTimeout OutputExact
PROPERTIES CallReturns EndsWithoutTimeout
CHECK_DEADLOCK FALSE
