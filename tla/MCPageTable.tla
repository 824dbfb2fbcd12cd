---------------------------- MODULE MCPageTable ----------------------------
(***************************************************************************)
(* Three levels of two entries: eight virtual pages of two bytes.  The     *)
(* arguments include unaligned ones, null and odd sizes, runs that wrap    *)
(* around the virtual address space and an address above it (18, as the    *)
(* canonical addresses of the upper half are); the memories hold between   *)
(* three tables and more than a full tree.                                 *)
(***************************************************************************)
EXTENDS PageTableClient

MCVaddrs == {0, 2, 4, 5, 12, 18}
MCPaddrs == {0, 3, 6}
MCSizes == {0, 1, 2, 7}
MCMemories == {<<15, 22>>, <<15, 27>>, <<14, 40>>}
=============================================================================
