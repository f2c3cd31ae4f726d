-------------------------------- MODULE Frames --------------------------------
(***************************************************************************)
(* The framing between the daemon and its desktop helper, one direction:   *)
(* write_frame on one side of a pipe, read_frame on the other, a writer    *)
(* that may die within a frame.  A cell of the pipe is a byte; of a body   *)
(* it matters only which frame it is of.                                   *)
(***************************************************************************)
EXTENDS Naturals, Sequences

CONSTANTS
    JsonMax, BlobMax,   \* JSON_MAX, BLOB_MAX
    MaxFrames           \* bound: frames written

ASSUME FramesAssumption == JsonMax \in Nat \ {0} /\ BlobMax \in Nat /\ MaxFrames \in Nat

VARIABLES
    wire,       \* the cells in the pipe
    closed,     \* the writer's end is closed
    whole,      \* the frames that were written whole, in order
    got,        \* the frames that were read, in order
    reader      \* "reads", "eof" (UnexpectedEof), "invalid" (InvalidData)

framesVars == <<wire, closed, whole, got, reader>>

\* Lengths below, at and above the limits; an envelope is never empty.
Bodies == [json : 1..(JsonMax + 1), blob : 0..(BlobMax + 1)]

FramesInit == wire = <<>> /\ closed = FALSE /\ whole = <<>> /\ got = <<>> /\ reader = "reads"

-----------------------------------------------------------------------------
(* write_frame.                                                            *)

Cells(n, cell) == [i \in 1..n |-> cell]
LengthCells(n) == Cells(4, [len |-> n])
BodyCells(n, id) == Cells(n, [of |-> id])

Encoded(id, f) ==
    LengthCells(f.json) \o BodyCells(f.json, id) \o LengthCells(f.blob) \o BodyCells(f.blob, id)

\* What write_frame is given and read_frame returns.
Frame(id, f) == [json |-> BodyCells(f.json, id), blob |-> BodyCells(f.blob, id)]

WithinLimits(f) == f.json <= JsonMax /\ f.blob <= BlobMax

WriteFrame(f) ==
    /\ ~closed /\ Len(whole) < MaxFrames
    /\ IF WithinLimits(f)
       THEN /\ wire' = wire \o Encoded(Len(whole) + 1, f)
            /\ whole' = Append(whole, Frame(Len(whole) + 1, f)) /\ UNCHANGED closed
       ELSE closed' = TRUE /\ UNCHANGED <<wire, whole>>   \* nothing is written; the side ends
    /\ UNCHANGED <<got, reader>>

\* The writer ends between two frames or within one.
WriterDies(f) ==
    /\ ~closed /\ closed' = TRUE /\ WithinLimits(f)
    /\ LET cells == Encoded(Len(whole) + 1, f)
       IN \E n \in 0..(Len(cells) - 1) : wire' = wire \o SubSeq(cells, 1, n)
    /\ UNCHANGED <<whole, got, reader>>

-----------------------------------------------------------------------------
(* read_frame, on the cells that are there.                                *)

\* read_exact: blocks until all cells are there, or fails if they cannot come any more.
HasCells(at, n) == Len(wire) >= at + n

\* variant: a frame as large as the limit is refused
TooLongAtLimit(n, max) == n >= max
\* read_len.
TooLong(n, max) == n > max

JsonLen == wire[1].len
BlobAt == 4 + JsonLen
BlobLen == wire[BlobAt + 1].len
FrameCells == BlobAt + 4 + BlobLen

\* The reads of one frame, up to and with the two lengths.
JsonLenIsBad == HasCells(0, 4) /\ TooLong(JsonLen, JsonMax)
ReadsJson == HasCells(0, 4) /\ ~TooLong(JsonLen, JsonMax) /\ HasCells(4, JsonLen)
BlobLenIsBad == ReadsJson /\ HasCells(BlobAt, 4) /\ TooLong(BlobLen, BlobMax)
ReadsBlob ==
    /\ ReadsJson /\ HasCells(BlobAt, 4) /\ ~TooLong(BlobLen, BlobMax)
    /\ HasCells(BlobAt + 4, BlobLen)

ReadFrame ==
    /\ reader = "reads" /\ ReadsBlob
    /\ got' = Append(got, [json |-> SubSeq(wire, 5, BlobAt),
                           blob |-> SubSeq(wire, BlobAt + 5, FrameCells)])
    /\ wire' = SubSeq(wire, FrameCells + 1, Len(wire))
    /\ UNCHANGED <<closed, whole, reader>>

ReadRefuses ==
    /\ reader = "reads" /\ (JsonLenIsBad \/ BlobLenIsBad)
    /\ reader' = "invalid"
    /\ UNCHANGED <<wire, closed, whole, got>>

ReadEof ==
    /\ reader = "reads" /\ closed
    /\ ~JsonLenIsBad /\ ~BlobLenIsBad /\ ~ReadsBlob
    /\ reader' = "eof"
    /\ UNCHANGED <<wire, closed, whole, got>>

FramesNext ==
    \/ \E f \in Bodies : WriteFrame(f) \/ WriterDies(f)
    \/ ReadFrame \/ ReadRefuses \/ ReadEof

FramesSpec == FramesInit /\ [][FramesNext]_framesVars

\* The reader gets the frames as they were written, cell by cell and in order; it ends only with the
\* writer, after the last whole one, wherever in a frame the writer died; and no length
\* that one side lets through is too long for the other (lib.rs:100, 114, 120-121).
FramesArriveWhole ==
    /\ got = SubSeq(whole, 1, Len(got))
    /\ reader # "reads" => closed /\ got = whole /\ reader = "eof"
=============================================================================
