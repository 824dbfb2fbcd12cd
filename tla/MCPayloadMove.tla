--------------------------- MODULE MCPayloadMove ---------------------------
(***************************************************************************)
(* Every placement of a source and a target, with or without bss, in ten   *)
(* bytes that all differ and are not null.                                 *)
(***************************************************************************)
EXTENDS PayloadMove

MCStarts == {[a \in 0 .. MemSize - 1 |-> a + 1]}

MCHeaders ==
    {h \in [payload_addr : 0 .. MemSize, load_addr : 0 .. MemSize,
            load_end_addr : 0 .. MemSize, bss_end_addr : 0 .. MemSize] :
        /\ h.load_addr <= h.load_end_addr
        /\ h.load_end_addr <= h.bss_end_addr
        /\ h.payload_addr + (h.load_end_addr - h.load_addr) <= MemSize}
=============================================================================
