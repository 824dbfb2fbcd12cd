---------------------------- MODULE ImageBuilder ----------------------------
(***************************************************************************)
(* write_basic (mistral/basic.c): the image is written by a sequence of    *)
(* seeks, copies and overwrites, each a system call that may transfer less *)
(* than asked, be interrupted or fail.  Mistral is the program around it.  *)
(*                                                                         *)
(* A byte is [of, n]: byte n of the loader's file, of the payload's file,  *)
(* or of one of the structures that are written over the copies.  failed   *)
(* and faults are history variables.                                       *)
(***************************************************************************)
EXTENDS ImageLayout, Sequences

CONSTANTS IoBuffer,      \* IO_BUFFER_SIZE
          MistralSize,   \* sizes of the structures written by write
          HkaddrSize,
          HentrySize,
          SizeWord,      \* number of values of a size_t
          MaxFaults      \* bound on short transfers, interruptions and errors

ASSUME BuilderAssumption ==
    /\ {PageSize, IoBuffer, MistralSize, HkaddrSize, HentrySize,
       SizeWord} \subseteq Nat \ {0}
    /\ MaxFaults \in Nat

VARIABLES pair,      \* payload and loader schemes, lengths of their files, and
                     \* which of these files is the output at the same time
          step,      \* the next step of write_basic, 1 .. 6
          pos,       \* positions of the three descriptors
          out,       \* the image
          copy,      \* the locals of fdcpy, and whether it reads or writes
          failed,    \* whether a call has failed, without any notice
          faults     \* number of faults of the system calls

builder == <<pair, step, pos, out, copy, failed, faults>>

Byte(object, n) == [of |-> object, n |-> n]

Junk == Byte("junk", 0)

payload == pair.payload
loader  == pair.loader
basic   == InitializeFileLayout(payload, loader)

\* The steps of write_basic: where in the image, what, and how much.  Steps 1, 2
\* and 4 are copies between files, the others single calls of write.
Plan == <<
    [at |-> 0, of |-> "loader", from |-> loader.load_offset,
     len |-> basic.payload_offset],
    [at |-> basic.payload_offset, of |-> "payload", from |-> payload.load_offset,
     len |-> basic.payload_length],
    [at |-> basic.mistral_offset, of |-> "mistral", from |-> 0,
     len |-> MistralSize],
    [at |-> basic.header_offset, of |-> "payload", from |-> payload.header_offset,
     len |-> basic.header_length],
    [at |-> basic.hkaddr_offset, of |-> "hkaddr", from |-> 0, len |-> HkaddrSize],
    [at |-> basic.hentry_offset, of |-> "hentry", from |-> 0, len |-> HentrySize]>>

Files == {"loader", "payload"}

Idle == [state |-> "idle", len |-> 0, l |-> 0, off |-> 0,
         buffer |-> [k \in 0 .. IoBuffer - 1 |-> Junk]]

BuilderInit ==
    /\ step = 1
    /\ pos = [loader |-> 0, payload |-> 0, image |-> 0]
    /\ copy = Idle
    /\ failed = FALSE
    /\ faults = 0

Smallest(m, n) == IF m < n THEN m ELSE n

\* The image once bytes are written at a position; a gap reads as zero.
Written(bytes, at) ==
    [k \in 1 .. IF Len(out) > at + Len(bytes) THEN Len(out) ELSE at + Len(bytes) |->
        IF at < k /\ k <= at + Len(bytes) THEN bytes[k - at]
        ELSE IF k <= Len(out) THEN out[k] ELSE Byte("zero", 0)]

MayFault == faults < MaxFaults /\ faults' = faults + 1

\* open fails: the image stays empty.
OpenFails ==
    /\ step = 1 /\ copy.state = "idle"
    /\ step' = 7
    /\ failed' = TRUE
    /\ UNCHANGED <<pair, pos, out, copy, faults>>

\* lseek refuses an offset in front of the file, and the position stays.
Seek(at, position) == IF at < 0 THEN position ELSE at

\* The seeks before a copy, the results of which are ignored, and the call of
\* fdcpy, which takes the length for a size_t.  The first two copies follow each
\* other in the image, without a seek.
BeginCopy ==
    LET s == Plan[step]
    IN  /\ step \in {1, 2, 4} /\ copy.state = "idle"
        /\ pos' = [pos EXCEPT ![s.of] = Seek(s.from, @),
                              !.image = IF step = 4 THEN Seek(s.at, @) ELSE @]
        /\ failed' = (failed \/ s.from < 0 \/ (step = 4 /\ s.at < 0))
        /\ copy' = [Idle EXCEPT !.state = "chunk", !.len = s.len % SizeWord]
        /\ UNCHANGED <<pair, step, out, faults>>

NextChunk ==
    /\ copy.state = "chunk" /\ copy.len > 0
    /\ copy' = [copy EXCEPT !.state = "read", !.off = 0,
                            !.l = Smallest(IoBuffer, copy.len)]
    /\ UNCHANGED <<pair, step, pos, out, failed, faults>>

\* The transfers of a call for count bytes: all of them, or fewer by a fault.
Transfer(count, done) ==
    /\ done \in 1 .. count
    /\ IF done = count THEN UNCHANGED faults ELSE MayFault

\* What a file has left to read, and its next bytes.  A file that is the output
\* at the same time holds what has been written since it was truncated.
Left(of) == (IF of \in pair.alias THEN Len(out) ELSE pair.length[of]) - pos[of]

Ahead(of, n) ==
    IF of \in pair.alias THEN out[pos[of] + n + 1] ELSE Byte(of, pos[of] + n)

Read(done) ==
    LET of == Plan[step].of
    IN  /\ copy.state = "read" /\ copy.off < copy.l
        /\ Transfer(Smallest(copy.l - copy.off, Left(of)), done)
        /\ copy' = [copy EXCEPT !.off = @ + done,
                        !.buffer = [k \in DOMAIN @ |->
                            IF copy.off <= k /\ k < copy.off + done
                            THEN Ahead(of, k - copy.off) ELSE @[k]]]
        /\ pos' = [pos EXCEPT ![of] = @ + done]
        /\ UNCHANGED <<pair, step, out, failed>>

\* Mistaken: the end of the file is taken for a transfer of no bytes.
ReadEndIgnored ==
    /\ copy.state = "read" /\ copy.off < copy.l
    /\ Left(Plan[step].of) <= 0
    /\ UNCHANGED builder

\* The end of the file: the rest of the buffer is written as it is.
ReadEnd ==
    /\ copy.state = "read" /\ copy.off < copy.l
    /\ Left(Plan[step].of) <= 0
    /\ copy' = [copy EXCEPT !.state = "write", !.off = 0]
    /\ UNCHANGED <<pair, step, pos, out, failed, faults>>

\* Mistaken: a short read is taken for the whole chunk.
FullAfterOneRead ==
    /\ copy.state = "read" /\ copy.off > 0
    /\ copy' = [copy EXCEPT !.state = "write", !.off = 0]
    /\ UNCHANGED <<pair, step, pos, out, failed, faults>>

BufferFull ==
    /\ copy.state = "read" /\ copy.off = copy.l
    /\ copy' = [copy EXCEPT !.state = "write", !.off = 0]
    /\ UNCHANGED <<pair, step, pos, out, failed, faults>>

Write(done) ==
    /\ copy.state = "write" /\ copy.off < copy.l
    /\ Transfer(copy.l - copy.off, done)
    /\ out' = Written([k \in 1 .. done |-> copy.buffer[copy.off + k - 1]], pos.image)
    /\ pos' = [pos EXCEPT !.image = @ + done]
    /\ copy' = [copy EXCEPT !.off = @ + done]
    /\ UNCHANGED <<pair, step, failed>>

\* A call that is interrupted is tried again.  (A write that returns 0 with a
\* stale EINTR would be too; files do not do that.)
Interrupted ==
    /\ copy.state \in {"read", "write"} /\ copy.off < copy.l
    /\ MayFault
    /\ UNCHANGED <<pair, step, pos, out, copy, failed>>

\* fdcpy returns -1, which write_basic does not look at.
CopyFails ==
    /\ copy.state \in {"read", "write"} /\ copy.off < copy.l
    /\ MayFault
    /\ failed' = TRUE
    /\ copy' = Idle
    /\ step' = step + 1
    /\ UNCHANGED <<pair, pos, out>>

ChunkWritten ==
    /\ copy.state = "write" /\ copy.off = copy.l
    /\ copy' = [copy EXCEPT !.state = "chunk", !.len = @ - copy.l]
    /\ UNCHANGED <<pair, step, pos, out, failed, faults>>

EndCopy ==
    /\ copy.state = "chunk" /\ copy.len = 0
    /\ copy' = Idle
    /\ step' = step + 1
    /\ UNCHANGED <<pair, pos, out, failed, faults>>

\* A structure is written by a single call, the result of which is ignored.
WriteStructure(done) ==
    LET s  == Plan[step]
        at == Seek(s.at, pos.image)
    IN  /\ step \in {3, 5, 6}
        /\ done \in 0 .. s.len
        /\ IF done = s.len THEN UNCHANGED faults ELSE MayFault
        /\ failed' = (failed \/ s.at < 0 \/ done < s.len)
        /\ out' = Written([k \in 1 .. done |-> Byte(s.of, k - 1)], at)
        /\ pos' = [pos EXCEPT !.image = at + done]
        /\ step' = step + 1
        /\ UNCHANGED <<pair, copy>>

BuildStep ==
    \/ BeginCopy \/ NextChunk \/ ReadEnd \/ BufferFull
    \/ \E done \in 1 .. IoBuffer : Read(done) \/ Write(done)
    \/ Interrupted \/ CopyFails
    \/ ChunkWritten \/ EndCopy
    \/ \E done \in 0 .. MistralSize + HkaddrSize + HentrySize : WriteStructure(done)

-----------------------------------------------------------------------------
Finished == step = 7

Span(s) == s.at .. s.at + s.len - 1

\* The schemes describe the files: these hold all that is copied, and the
\* structures lie inside of the image, the length of the first two copies.
Coherent ==
    /\ \A n \in DOMAIN Plan : {Plan[n].at, Plan[n].from, Plan[n].len} \subseteq Nat
    /\ \A of \in Files : pair.length[of] \in 0 .. SizeWord - 1
    /\ \A n \in {1, 2, 4} : Plan[n].from + Plan[n].len <= pair.length[Plan[n].of]
    /\ \A n \in 3 .. 6 : Plan[n].at + Plan[n].len <= Plan[1].len + Plan[2].len

\* Nothing has gone wrong that write_basic would have to notice: no call has
\* failed, the files hold what their headers say, and are not the output.
Sound == Finished /\ ~ failed /\ pair.alias = {} /\ Coherent

\* However the system calls cut or interrupt the copies, the image holds at
\* every offset the byte of the last step that covers it, and has no other
\* byte: nothing is skipped, repeated, or left over from the buffer.
ImageExact ==
    Sound =>
    /\ Len(out) = basic.payload_offset + basic.payload_length
    /\ \A p \in 0 .. Len(out) - 1 :
          LET last == CHOOSE n \in DOMAIN Plan :
                         /\ p \in Span(Plan[n])
                         /\ \A m \in DOMAIN Plan : p \in Span(Plan[m]) => m <= n
          IN  out[p + 1] = Byte(Plan[last].of, Plan[last].from + p - Plan[last].at)

\* What a multiboot2 bootloader puts in memory: the byte of the image for an
\* address, by the address tag and the place of the header.
Loaded(addr) ==
    out[1 + basic.header_offset + addr - loader.hkaddr.header_addr]

\* What is written over the loader stays in it, and the loader, the payload and
\* the stack have place in memory.
Fitting ==
    /\ \A n \in 3 .. 6 : Plan[n].at + Plan[n].len <= basic.payload_offset
    /\ loader.hkaddr.load_end_addr + PayloadSizeOf(payload) + 2 * PageSize <= Word

\* The payload can be found where the mistral header says, the stack has a page
\* of its own behind it, and both lie within what the new address tag makes the
\* bootloader load and clear.
PayloadFound ==
    LET layout == InitializeMemoryLayout(payload, loader)
        header == MistralHeader(payload, loader, pair.vaddr)
        size   == PayloadSizeOf(payload)
    IN  Sound /\ Fitting
        => /\ \A k \in 0 .. size - 1 :
                 Loaded(header.payload_addr + k)
                     = Byte("payload", payload.load_offset + k)
           /\ header.payload_addr + size <= header.stack_addr - PageSize
           /\ header.stack_addr <= layout.hkaddr.bss_end_addr
           /\ header.stack_addr % PageSize = 0
=============================================================================
