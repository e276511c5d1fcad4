----------------------------- MODULE WriteLoop -----------------------------
(***************************************************************************)
(* src/io/bigfile: a file of totalSize bytes is written in blocks.  A      *)
(* write() may be short or fail: when the disk is full (another process    *)
(* may make room again) or, in a build without large files, at the largest *)
(* offset.  A failed write() counts as -1 bytes; comparing with lseek()    *)
(* then shows the difference for good, and only EFBIG ends the loop.       *)
(***************************************************************************)
EXTENDS Integers

CONSTANTS TotalSize, BufferSize,
          Limits,         \* largest file sizes of the builds
          MaxFull         \* bound: writes that find the disk full

ASSUME SizeAssumption ==
    TotalSize \in Nat \ {0} /\ BufferSize \in Nat \ {0} /\ Limits \subseteq Nat /\ MaxFull \in Nat

VARIABLES limit,
          hadWritten, offset,   \* hadWrittenSize, and the file's own offset
          hadError, errno,
          full,                 \* failures for want of space
          writing               \* the loop is running

writeVars == <<limit, hadWritten, offset, hadError, errno, full, writing>>

WriteInit == /\ limit \in Limits /\ hadWritten = 0 /\ offset = 0 /\ full = 0
             /\ hadError = FALSE /\ errno = 0 /\ writing = TRUE

Least(x, y) == IF x < y THEN x ELSE y
EFBIG == 27
ENOSPC == 28

\* Mutant: every block is written whole.
WholeBlock == BufferSize
NeedsWriteSize == Least(TotalSize - hadWritten, BufferSize)
-----------------------------------------------------------------------------
(* The rest of the loop's body, after a write() that returned n.            *)
Account(n) ==
    /\ hadWritten' = hadWritten + n
    /\ hadError' = IF offset' # hadWritten' THEN TRUE ELSE hadError
    /\ writing' = IF (hadError' /\ errno' = EFBIG) \/ hadWritten' >= TotalSize THEN FALSE ELSE TRUE
    /\ UNCHANGED limit

Wrote == \E n \in 1..NeedsWriteSize :
            /\ writing /\ offset + n <= limit
            /\ offset' = offset + n /\ UNCHANGED <<errno, full>>
            /\ Account(n)

TooBig == /\ writing /\ offset = limit
          /\ errno' = EFBIG /\ UNCHANGED <<offset, full>>
          /\ Account(-1)

NoSpace == /\ writing /\ full < MaxFull
           /\ full' = full + 1 /\ errno' = ENOSPC /\ UNCHANGED offset
           /\ Account(-1)

WriteNext == Wrote \/ TooBig \/ NoSpace
WriteSpec == WriteInit /\ [][WriteNext]_writeVars
-----------------------------------------------------------------------------
(* What the program prints last, "hadError?" (main.c:83), is right however   *)
(* short writes and failures are mixed: no error means a file of exactly     *)
(* totalSize bytes, an error one that ends at the largest offset (EFBIG) or  *)
(* is too long by one byte for each write() that found the disk full.        *)
SizeReported ==
    ~writing => \/ ~hadError /\ full = 0 /\ offset = TotalSize
                \/ hadError /\ full > 0 /\ offset = TotalSize + full
                \/ hadError /\ errno = EFBIG /\ offset = limit
=============================================================================
