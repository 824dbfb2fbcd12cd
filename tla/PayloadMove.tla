---------------------------- MODULE PayloadMove ----------------------------
(***************************************************************************)
(* The jumper's relocation of the payload (jumper_relocate_payload in      *)
(* loader/jumper.c), a byte at a time: memmove from behind the loader to   *)
(* the load address, then memset of the bss, as include/loader/string.h    *)
(* writes them.  The two ranges of the move may overlap in any way, and    *)
(* the bss may cover the source.                                           *)
(***************************************************************************)
EXTENDS Integers

CONSTANTS MemSize,    \* number of bytes of memory
          Starts,     \* what memory may hold before the move
          Headers     \* the mistral headers, see HeaderAssumption

ASSUME MemoryAssumption ==
    /\ MemSize \in Nat
    /\ Starts \subseteq [0 .. MemSize - 1 -> Nat]

\* The image builder takes the addresses of the target from the payload's
\* address tag: they are in order, and source and target are in memory.
ASSUME HeaderAssumption ==
    \A h \in Headers :
        /\ h.payload_addr \in Nat /\ h.load_addr \in Nat
        /\ h.load_end_addr \in Nat /\ h.bss_end_addr \in Nat
        /\ h.load_addr <= h.load_end_addr
        /\ h.load_end_addr <= h.bss_end_addr
        /\ h.bss_end_addr <= MemSize
        /\ h.payload_addr + (h.load_end_addr - h.load_addr) <= MemSize

VARIABLES mem,        \* memory
          start,      \* memory before the move
          header,     \* the jumper's copy of the mistral header
          pc,         \* the loop that runs
          ptrd, ptrs  \* its pointers; ptrd is endd, ptrs is ends going back

vars == <<mem, start, header, pc, ptrd, ptrs>>

Dest == header.load_addr
Src  == header.payload_addr
End  == header.load_end_addr
Size == header.load_end_addr - header.load_addr

Init ==
    /\ start \in Starts
    /\ mem = start
    /\ header \in Headers
    /\ pc = "memmove"
    /\ ptrd = 0
    /\ ptrs = 0

\* The three ways of memmove.
MoveNothing ==
    /\ pc = "memmove"
    /\ Dest = Src
    /\ pc' = "memset"
    /\ ptrd' = End
    /\ UNCHANGED <<mem, start, header, ptrs>>

MoveDown ==
    /\ pc = "memmove"
    /\ Dest < Src
    /\ pc' = "forward"
    /\ ptrd' = Dest
    /\ ptrs' = Src
    /\ UNCHANGED <<mem, start, header>>

\* Mistaken: goes forward, over bytes that are still to be copied.
MoveUpForward ==
    /\ pc = "memmove"
    /\ Dest > Src
    /\ pc' = "forward"
    /\ ptrd' = Dest
    /\ ptrs' = Src
    /\ UNCHANGED <<mem, start, header>>

MoveUp ==
    /\ pc = "memmove"
    /\ Dest > Src
    /\ pc' = "backward"
    /\ ptrd' = Dest + Size
    /\ ptrs' = Src + Size
    /\ UNCHANGED <<mem, start, header>>

\* *ptrd++ = *ptrs++, while ptrd < end
CopyForward ==
    /\ pc = "forward"
    /\ ptrd < End
    /\ mem' = [mem EXCEPT ![ptrd] = mem[ptrs]]
    /\ ptrd' = ptrd + 1
    /\ ptrs' = ptrs + 1
    /\ UNCHANGED <<start, header, pc>>

\* *--endd = *--ends, while ptrd < endd
CopyBackward ==
    /\ pc = "backward"
    /\ Dest < ptrd
    /\ mem' = [mem EXCEPT ![ptrd - 1] = mem[ptrs - 1]]
    /\ ptrd' = ptrd - 1
    /\ ptrs' = ptrs - 1
    /\ UNCHANGED <<start, header, pc>>

\* The move is over: memset begins at the end of the payload.
EndMove ==
    /\ \/ pc = "forward" /\ ptrd = End
       \/ pc = "backward" /\ ptrd = Dest
    /\ pc' = "memset"
    /\ ptrd' = End
    /\ UNCHANGED <<mem, start, header, ptrs>>

\* Mistaken: one byte past the bss.
ClearByteTooFar ==
    /\ pc = "memset"
    /\ ptrd <= header.bss_end_addr
    /\ mem' = [mem EXCEPT ![ptrd] = 0]
    /\ ptrd' = ptrd + 1
    /\ UNCHANGED <<start, header, pc, ptrs>>

ClearByte ==
    /\ pc = "memset"
    /\ ptrd < header.bss_end_addr
    /\ mem' = [mem EXCEPT ![ptrd] = 0]
    /\ ptrd' = ptrd + 1
    /\ UNCHANGED <<start, header, pc, ptrs>>

EndClear ==
    /\ pc = "memset"
    /\ ptrd = header.bss_end_addr
    /\ pc' = "done"
    /\ UNCHANGED <<mem, start, header, ptrd, ptrs>>

Next ==
    \/ MoveNothing \/ MoveDown \/ MoveUp
    \/ CopyForward \/ CopyBackward \/ EndMove
    \/ ClearByte \/ EndClear

Spec == Init /\ [][Next]_vars

-----------------------------------------------------------------------------
Cells(from, to) == from .. to - 1

\* Type invariant.
TypeOK ==
    /\ mem \in [0 .. MemSize - 1 -> Nat]
    /\ start \in Starts
    /\ header \in Headers
    /\ pc \in {"memmove", "forward", "backward", "memset", "done"}
    /\ ptrd \in 0 .. MemSize
    /\ ptrs \in 0 .. MemSize

\* At the end the payload is at its load address byte for byte, as it was
\* behind the loader before anything moved, and its bss is null: whatever the
\* overlap, no byte is overwritten before it has been copied.
Moved ==
    pc = "done"
    => /\ \A k \in Cells(0, Size) : mem[Dest + k] = start[Src + k]
       /\ \A a \in Cells(End, header.bss_end_addr) : mem[a] = 0

\* At no time has the jumper written outside the memory that malloc_initialize
\* reserved for the payload: the jumper itself, its stack, the page table and
\* the multiboot2 information are safe.
TargetOnly ==
    \A a \in 0 .. MemSize - 1 :
        a \notin Cells(Dest, header.bss_end_addr) => mem[a] = start[a]

-----------------------------------------------------------------------------
(***************************************************************************)
(* The inductive invariant: which bytes have moved.                        *)
(***************************************************************************)

\* What a byte of the payload's target is to become.
Arrived(a) == start[a - Dest + Src]

Pointers ==
    /\ pc = "forward" =>
          /\ Dest < Src
          /\ Dest <= ptrd /\ ptrd <= End
          /\ ptrs = ptrd - Dest + Src
    /\ pc = "backward" =>
          /\ Src < Dest
          /\ Dest <= ptrd /\ ptrd <= End
          /\ ptrs = ptrd - Dest + Src
    /\ pc = "memset" => End <= ptrd /\ ptrd <= header.bss_end_addr
    /\ pc = "done" => ptrd = header.bss_end_addr

Progress ==
    \A a \in 0 .. MemSize - 1 :
        /\ pc = "memmove" => mem[a] = start[a]
        /\ pc = "forward" =>
              mem[a] = IF a \in Cells(Dest, ptrd) THEN Arrived(a) ELSE start[a]
        /\ pc = "backward" =>
              mem[a] = IF a \in Cells(ptrd, End) THEN Arrived(a) ELSE start[a]
        /\ pc \in {"memset", "done"} =>
              mem[a] = IF a \in Cells(Dest, End) THEN Arrived(a)
                       ELSE IF a \in Cells(End, ptrd) THEN 0
                       ELSE start[a]

MoveInv == TypeOK /\ Pointers /\ Progress
=============================================================================
