------------------------------ MODULE MCLoader ------------------------------
(***************************************************************************)
(* Boots on a machine with 64 addresses and pages of two bytes.  The       *)
(* loader occupies [8, 13) with its jumper section in [9, 11); the payload *)
(* follows at 13, then the stack, as the image builder lays them out.      *)
(***************************************************************************)
EXTENDS Loader

CONSTANTS LoadAddrs,      \* where the payload wants to be loaded
          PayloadSizes,   \* sizes of its image
          BssSizes,       \* sizes of its bss
          HighVaddrs,     \* virtual addresses asked for with option -a
          Mb2Addrs,       \* where the bootloader puts its information
          Mb2Sizes,
          Maps            \* memory maps

Region(base, end, available) ==
    [base_addr |-> base, length |-> end - base, available |-> available]

\* Low memory, a hole, the memory the loader is in.
SmallMap == <<Region(0, 6, TRUE), Region(8, 40, TRUE)>>
TightMap == <<Region(0, 6, TRUE), Region(8, 30, TRUE)>>

\* The same below the firmware's last page, with an entry that ends inside of
\* that page (rounded up, its end wraps around), and with memory above 4G.
FirmwareMap == <<Region(0, 6, TRUE), Region(8, 44, TRUE), Region(62, 64, FALSE)>>
LastPageMap == <<Region(0, 6, TRUE), Region(8, 44, TRUE), Region(60, 63, FALSE)>>
LargeMap    == <<Region(0, 6, TRUE), Region(8, 44, TRUE), Region(64, 72, TRUE)>>

\* No entry for the loader; no memory map at all; entries out of order.
HoleMap     == <<Region(0, 6, TRUE), Region(44, 60, TRUE)>>
NoMap       == <<>>
ReversedMap == <<Region(8, 40, TRUE), Region(0, 6, TRUE)>>

\* The header that the image builder writes for a payload, loaded at a virtual
\* address of its own if vaddr is not 0.
Layout == INSTANCE ImageLayout

Header(load, size, bss, vaddr) ==
    Layout!MistralHeader(
        [hkaddr |-> [load_addr |-> load, load_end_addr |-> load + size,
                     bss_end_addr |-> load + size + bss],
         hentry |-> [entry_addr |-> load + size - 1]],
        [hkaddr |-> [load_addr |-> TextStart, load_end_addr |-> BssEnd,
                     bss_end_addr |-> BssEnd],
         hentry |-> [entry_addr |-> TextStart]],
        [set |-> vaddr # 0, addr |-> vaddr])

Boot(head, addr, size, map, magic, vendor) ==
    [header |-> head, mb2 |-> [addr |-> addr, size |-> size], mmap |-> map,
     magic |-> magic, vendor |-> vendor]

\* The bootloader puts its information outside the image that it loads, and
\* the payload's memory is where the map has memory.
Plausible(b) ==
    /\ Apart(b.mb2.addr, b.mb2.addr + b.mb2.size,
             TextStart, b.header.stack_addr)
    /\ Len(b.mmap) > 1 =>
          \A i \in Candidates(b) : b.header.bss_end_addr <= EntryEnd(b.mmap[i])

MCBoots ==
    {b \in {Boot(Header(load, size, bss, vaddr),
                 addr, info, map, flags[1], flags[2]) :
                load \in LoadAddrs, size \in PayloadSizes, bss \in BssSizes,
                vaddr \in HighVaddrs, addr \in Mb2Addrs, info \in Mb2Sizes,
                map \in Maps,
                flags \in {<<TRUE, TRUE>>}}
          \union
           {Boot(Header(8, 2, 0, 0), 24, 2, SmallMap, flags[1], flags[2]) :
                flags \in {<<FALSE, TRUE>>, <<TRUE, FALSE>>}} : Plausible(b)}

MCMaps == {SmallMap, TightMap, FirmwareMap, LastPageMap, HoleMap, NoMap, ReversedMap}

MCLargeMaps == {LargeMap}
=============================================================================
