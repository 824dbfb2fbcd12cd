---------------------------- MODULE ImageLayout ----------------------------
(***************************************************************************)
(* Where the image builder puts the loader, the payload and the headers    *)
(* (mistral/basic.c), computed from the two schemes that parse_loader and  *)
(* parse_payload fill.  A scheme is a record                               *)
(*                                                                         *)
(*   mistral_offset, header_offset, header_length, load_offset,            *)
(*   hkaddr_offset, hentry_offset   : offsets in the file                  *)
(*   hkaddr                         : the address tag of its header        *)
(*   hentry                         : the entry tag of its header          *)
(*                                                                         *)
(* Addresses are 32 bits wide, and wrap around; offsets do not.            *)
(***************************************************************************)
EXTENDS AllocatorOps

CONSTANTS PageSize     \* LOADER_STACK_SIZE and LOADER_STACK_ALIGN

LoaderStackAlign(addr) ==
    IF addr % PageSize = 0 THEN addr
    ELSE Wrap(AlignDown(addr, PageSize) + PageSize)

PayloadSizeOf(payload) ==
    Wrap(payload.hkaddr.load_end_addr - payload.hkaddr.load_addr)

\* Mistaken: the stack may begin inside the payload.
LayoutStackUnaligned(payload, loader) ==
    LET end   == Wrap(loader.hkaddr.load_end_addr + PayloadSizeOf(payload))
        stack == AlignDown(Wrap(end + PageSize), PageSize)
    IN  [hkaddr       |-> [loader.hkaddr EXCEPT !.load_end_addr = end,
                                                !.bss_end_addr = stack],
         hentry       |-> loader.hentry,
         payload_addr |-> loader.hkaddr.load_end_addr,
         stack_addr   |-> stack]

\* initialize_memory_layout: the payload after the loader, then the stack.
InitializeMemoryLayout(payload, loader) ==
    LET end   == Wrap(loader.hkaddr.load_end_addr + PayloadSizeOf(payload))
        stack == LoaderStackAlign(Wrap(end + PageSize))
    IN  [hkaddr       |-> [loader.hkaddr EXCEPT !.load_end_addr = end,
                                                !.bss_end_addr = stack],
         hentry       |-> loader.hentry,
         payload_addr |-> loader.hkaddr.load_end_addr,
         stack_addr   |-> stack]

\* initialize_file_layout: offset 0 of the image is the byte loaded at the
\* loader's load address.
InitializeFileLayout(payload, loader) ==
    LET header == loader.header_offset - loader.load_offset
        InHeader(offset) == header + offset - payload.header_offset
    IN  [mistral_offset |-> loader.mistral_offset - loader.load_offset,
         header_offset  |-> header,
         header_length  |-> payload.header_length,
         payload_offset |-> loader.hkaddr.load_end_addr - loader.hkaddr.load_addr,
         payload_length |-> PayloadSizeOf(payload),
         hkaddr_offset  |-> InHeader(payload.hkaddr_offset),
         hentry_offset  |-> InHeader(payload.hentry_offset)]

\* initialize_mistral_header, completed by initialize_memory_layout and by main:
\* vaddr is what parse_options found of option -a.
MistralHeader(payload, loader, vaddr) ==
    LET layout == InitializeMemoryLayout(payload, loader)
    IN  [payload_addr       |-> layout.payload_addr,
         load_addr          |-> payload.hkaddr.load_addr,
         load_end_addr      |-> payload.hkaddr.load_end_addr,
         bss_end_addr       |-> payload.hkaddr.bss_end_addr,
         payload_entry_addr |-> payload.hentry.entry_addr,
         payload_vaddr      |-> IF vaddr.set THEN vaddr.addr
                                ELSE payload.hkaddr.load_addr,
         stack_addr         |-> layout.stack_addr]
=============================================================================
