---------------------------- MODULE HeaderSearch ----------------------------
(***************************************************************************)
(* mistral_lseek (mistral/mistral.c) and multiboot2_lseek                  *)
(* (mistral/multiboot2.c): read the beginning of a file into a fresh       *)
(* buffer, then look for a header at every aligned offset.  The two differ *)
(* by the fields they test and are one module here.                        *)
(*                                                                         *)
(* Files, buffer and offsets are counted in cells of 8 bytes, the          *)
(* alignment of both headers.  A cell is Magic when its first word is the  *)
(* magic number, a positive length when it completes a header of that many *)
(* cells after a Magic (a valid checksum, or null fields), else 0.         *)
(***************************************************************************)
EXTENDS Integers, Sequences

CONSTANTS Word,          \* number of values of a size_t
          Search,        \* cells that are searched
          HeaderCells,   \* cells of the header's structure
          Files,         \* the files to search, as sequences of cells
          Garbage,       \* what malloc's memory may hold
          ShortReads     \* whether a read may return less than there is

ASSUME SearchAssumption ==
    /\ Word \in Nat /\ Search \in Nat /\ HeaderCells \in Nat
    /\ 2 <= HeaderCells /\ HeaderCells <= Search /\ Search < Word
    /\ ShortReads \in BOOLEAN
    /\ Garbage \subseteq [0 .. Search - 1 -> Int]
    /\ \A f \in Files : f \in Seq(Int)

Magic == -1

VARIABLES file,       \* the file behind the descriptor
          pc,         \* the loop that runs
          buffer,     \* the buffer, not initialized by malloc
          off, rem,   \* the locals of mistral_lseek
          i,          \* the local of mistral_search
          ret         \* what mistral_lseek returns

vars == <<file, pc, buffer, off, rem, i, ret>>

Init ==
    /\ file \in Files
    /\ pc = "read"
    /\ buffer \in Garbage
    /\ off = 0
    /\ rem = Search
    /\ i = 0
    /\ ret = -1

Smallest(m, n) == IF m < n THEN m ELSE n

\* What pread may transfer at an offset.
Transfers(at, count) ==
    LET most == Smallest(count, Len(file) - at)
    IN  IF most <= 0 THEN {0} ELSE IF ShortReads THEN 1 .. most ELSE {most}

\* Every read lands at the start of the buffer, whatever its offset.
Pread ==
    \E rd \in Transfers(off, rem) :
        /\ pc = "read" /\ rem > 0 /\ rd > 0
        /\ buffer' = [k \in DOMAIN buffer |->
                         IF k < rd THEN file[off + k + 1] ELSE buffer[k]]
        /\ off' = off + rd
        /\ rem' = rem - rd
        /\ UNCHANGED <<file, pc, i, ret>>

\* malloc or a read fails: -1, as if there were no header.
GiveUp ==
    /\ pc = "read"
    /\ pc' = "failed"
    /\ UNCHANGED <<file, buffer, off, rem, i, ret>>

\* Mistaken: takes the end of the file for a short read.
EndReadAtWindow ==
    /\ pc = "read"
    /\ rem = 0
    /\ pc' = "search"
    /\ UNCHANGED <<file, buffer, off, rem, i, ret>>

\* The end of the file, or of the window.
EndRead ==
    /\ pc = "read"
    /\ rem = 0 \/ 0 \in Transfers(off, rem)
    /\ pc' = "search"
    /\ UNCHANGED <<file, buffer, off, rem, i, ret>>

-----------------------------------------------------------------------------
Length == Search - rem

\* Mistaken: a header at the end of the window is not tried.
LastOffsetShort == (Length - HeaderCells - 1) % Word

\* The last offset tried: len - sizeof (*header), on a size_t.
LastOffset == (Length - HeaderCells) % Word

\* What the tests at an offset may say.  Nothing is known of what lies behind
\* the part of the buffer that has been read, and there may be no memory behind
\* the buffer.
Verdicts(k) ==
    IF k + HeaderCells > Search THEN {"match", "mismatch", "crash"}
    ELSE IF k + HeaderCells > Length THEN {"match", "mismatch"}
    ELSE IF buffer[k] = Magic /\ buffer[k + 1] > 0 /\ k + buffer[k + 1] <= Length
    THEN {"match"} ELSE {"mismatch"}

\* i is a size_t too, and wraps around.
SearchStep ==
    /\ pc = "search" /\ i <= LastOffset
    /\ \E verdict \in Verdicts(i) :
          /\ pc' = [match |-> "done", mismatch |-> "search", crash |-> "crash"][verdict]
          /\ ret' = IF verdict = "match" THEN i ELSE ret
          /\ i' = IF verdict = "mismatch" THEN (i + 1) % Word ELSE i
    /\ UNCHANGED <<file, buffer, off, rem>>

EndSearch ==
    /\ pc = "search" /\ i > LastOffset
    /\ pc' = "done"
    /\ UNCHANGED <<file, buffer, off, rem, i, ret>>

Step == Pread \/ EndRead \/ SearchStep \/ EndSearch

Next == Step \/ GiveUp

\* A sequential program: it goes on, but no system call has to fail.
Spec == Init /\ [][Next]_vars /\ WF_vars(Step)

-----------------------------------------------------------------------------
\* The offsets in the window of the file at which there is a header.
HeadersOf(f) ==
    {k \in 0 .. Smallest(Search, Len(f)) - HeaderCells :
        f[k + 1] = Magic /\ f[k + 2] > 0
            /\ k + f[k + 2] <= Smallest(Search, Len(f))}

\* Whatever malloc's memory holds, the search returns the first header of the
\* window, -1 when there is none: the end of the file, a header cut by the end
\* and a Magic without a header are all told apart.  (In a file that is shorter
\* than a header the search runs on behind what has been read.)
FirstFound ==
    pc \in {"done", "crash"} /\ Len(file) >= HeaderCells
    => /\ pc = "done"
       /\ IF HeadersOf(file) = {}
          THEN ret = -1
          ELSE ret \in HeadersOf(file) /\ \A k \in HeadersOf(file) : ret <= k

\* The two loops end, also with a bound that has wrapped around, unless that is
\* the last offset of all, which i never passes: so it is for a file that is up
\* to a cell shorter than a header, and there only a match or a crash behind the
\* buffer ends the search.
SearchEnds ==
    <>(\/ pc \in {"done", "failed", "crash"}
       \/ pc = "search" /\ Length = HeaderCells - 1)

-----------------------------------------------------------------------------
(***************************************************************************)
(* What include/mistral/mistral.h says of mistral_lseek, and the code does *)
(* not do when a read is short.                                            *)
(***************************************************************************)

\* "If not -1, reading from the returned offset can be interpreted as a struct
\* mistral_header": the offset is one of a header in the file.
FoundIsHeader == pc = "done" /\ ret # -1 => ret \in HeadersOf(file)
=============================================================================
