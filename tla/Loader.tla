------------------------------- MODULE Loader -------------------------------
(***************************************************************************)
(* The 32-bit loader, from the bootloader's jump to the payload's first    *)
(* instruction: loader/entry.S, loader/main.c, loader/jumper.c and         *)
(* loader/jumpasm.S over the allocator and the page table.                 *)
(*                                                                         *)
(* What the loader moves around in physical memory is the whole point: ram *)
(* says which byte of which object every address holds.  The bytes of the  *)
(* loader image, of the payload carried behind it, of the loader's stack   *)
(* and of the multiboot2 information are told apart by object and offset.  *)
(***************************************************************************)
EXTENDS PageTable, Sequences, FiniteSetsExt

CONSTANTS TextStart,     \* __kernel_text_start
          JumperStart,   \* __kernel_jumper_start
          TextEnd,       \* __kernel_text_end, the end of the jumper section
          BssEnd,        \* __kernel_bss_end, where the payload image begins
          Boots          \* the machines and images to boot, see BootType

\* header : the mistral header that the image builder filled
\* mb2    : address and size of the multiboot2 information
\* mmap   : its memory map, empty when the tag is missing
\* magic, vendor : whether EAX holds the multiboot2 magic, whether the
\*          processor is one check_longmode knows
BootType ==
    [header : [payload_addr : Nat, load_addr : Nat, load_end_addr : Nat,
               bss_end_addr : Nat, payload_entry_addr : Nat,
               payload_vaddr : Nat, stack_addr : Nat],
     mb2 : [addr : Nat, size : Nat],
     mmap : Seq([base_addr : Nat, length : Nat, available : BOOLEAN]),
     magic : BOOLEAN,
     vendor : BOOLEAN]

\* The linker script (loader/loader.ld): the jumper is a part of the code.
ASSUME LinkAssumption ==
    /\ {TextStart, JumperStart, TextEnd, BssEnd} \subseteq Nat
    /\ TextStart <= JumperStart /\ JumperStart < TextEnd /\ TextEnd <= BssEnd

\* Pages divide the 32-bit addresses, which are all virtual addresses as well.
ASSUME AddressAssumption ==
    Word % PageSize = 0 /\ Word <= PageSize * VPages

VARIABLES boot,      \* the boot in progress, never changed
          pc,        \* the next operation of main, of the jumper, or the end
          ram,       \* what every byte of physical memory holds
          stack,     \* bottom of the page esp points into, this.stack_addr
          this,      \* multiboot2_addr and jumper_addr of the environment
          saved,     \* the data of the relocated jumper
          cpu        \* the registers the jumper touches

vars == <<alloc, tables, cr3, call, boot, pc, ram, stack, this, saved, cpu>>

header == boot.header

\* LOADER_STACK_SIZE
StackSize == PageSize

Cells(from, to) == from .. to - 1

Byte(object, n) == [of |-> object, n |-> n]

Anything == Byte("nothing", 0)
Zero     == Byte("zero", 0)
Table    == Byte("table", 0)

PayloadSize == header.load_end_addr - header.load_addr
JumperSize  == TextEnd - JumperStart     \* jumper_size

-----------------------------------------------------------------------------
(***************************************************************************)
(* Copies.  memcpy goes forward a byte at a time, so that a source that    *)
(* overlaps a higher destination is repeated; memmove is exact.            *)
(***************************************************************************)
Overlay(from, size, byte(_)) ==
    [a \in DOMAIN ram |->
        IF a \in Cells(from, from + size) THEN byte(a - from) ELSE ram[a]]

Memcpy(dest, src, size) ==
    LET period == IF src < dest /\ dest < src + size THEN dest - src ELSE size
    IN  Overlay(dest, size, LAMBDA k : ram[src + (k % period)])

Memmove(dest, src, size) == Overlay(dest, size, LAMBDA k : ram[src + k])

\* Whether an object of the given size is whole at an address.
Holds(addr, object, first, size) ==
    \A k \in 0 .. size - 1 : ram[addr + k] = Byte(object, first + k)

LoaderIntact == Holds(TextStart, "loader", 0, BssEnd - TextStart)
StackIntact  == Holds(stack, "stack", 0, StackSize)
SourceIntact == Holds(header.payload_addr, "payload", 0, PayloadSize)
Mb2Intact    == Holds(this.multiboot2_addr, "mb2", 0, boot.mb2.size)
JumperIntact == Holds(this.jumper_addr, "loader", JumperStart - TextStart,
                      JumperSize)

\* Memory as the bootloader leaves it.
BootRam(b) ==
    LET bottom == b.header.stack_addr - StackSize
        source == b.header.payload_addr
        size   == b.header.load_end_addr - b.header.load_addr
        mb2    == b.mb2.addr
    IN  [a \in 0 .. Word - 1 |->
            CASE a \in Cells(TextStart, BssEnd) -> Byte("loader", a - TextStart)
              [] a \in Cells(source, source + size) -> Byte("payload", a - source)
              [] a \in Cells(bottom, bottom + StackSize) -> Byte("stack", a - bottom)
              [] a \in Cells(mb2, mb2 + b.mb2.size) -> Byte("mb2", a - mb2)
              [] OTHER -> Anything]

Init ==
    /\ boot \in Boots
    /\ pc = "entry"
    /\ ram = BootRam(boot)
    /\ stack = header.stack_addr - StackSize
    /\ this = [multiboot2_addr |-> 0, jumper_addr |-> 0]
    /\ saved = [mb2 |-> 0, mems |-> 0, meme |-> 0]
    /\ cpu = [pae |-> FALSE, lme |-> FALSE, pg |-> FALSE, star |-> 0,
              cs |-> "code32", rip |-> 0,
              rax |-> "any", rbx |-> 0, rcx |-> 0, rdx |-> 0]
    /\ alloc = AllocatorInitialize(0, 0)
    /\ PageInit

-----------------------------------------------------------------------------
(***************************************************************************)
(* main and what it calls.  failure and die are the same: the processor    *)
(* halts for ever.                                                         *)
(***************************************************************************)
paging == <<tables, cr3, call>>

\* entry.S and main_multiboot2
EnterLoader ==
    /\ pc = "entry"
    /\ pc' = IF boot.magic THEN "malloc" ELSE "dead"
    /\ this' = [this EXCEPT !.multiboot2_addr =
                                IF boot.magic THEN boot.mb2.addr ELSE @]
    /\ UNCHANGED <<boot, ram, stack, saved, cpu, alloc, paging>>

\* The memory map entries that malloc_initialize accepts: whatever their type,
\* and with an end that is cut to the width of a size_t.
EntryEnd(e) == Wrap(e.base_addr + e.length)

Candidates(b) ==
    {i \in DOMAIN b.mmap :
        /\ b.mmap[i].base_addr <= b.header.load_addr
        /\ b.header.load_addr < EntryEnd(b.mmap[i])}

\* Mistaken: the multiboot2 information is not reserved.
BootAllocatorForgets(b) ==
    LET i    == CHOOSE j \in Candidates(b) : \A k \in Candidates(b) : j <= k
        all  == AllocatorInitialize(b.mmap[i].base_addr, EntryEnd(b.mmap[i]))
        code == ReserveZone(all, TextStart, BssEnd)
    IN  ReserveZone(code, b.header.load_addr, b.header.bss_end_addr)

\* The allocator that malloc_initialize builds from the first of them.
BootAllocator(b) ==
    LET i    == CHOOSE j \in Candidates(b) : \A k \in Candidates(b) : j <= k
        all  == AllocatorInitialize(b.mmap[i].base_addr, EntryEnd(b.mmap[i]))
        code == ReserveZone(all, TextStart, BssEnd)
        info == ReserveZone(code, b.mb2.addr, b.mb2.addr + b.mb2.size)
    IN  ReserveZone(info, b.header.load_addr, b.header.bss_end_addr)

\* The image builder puts the payload behind the loader, and the stack behind
\* the payload; the bootloader keeps its information out of the image.  The
\* payload leaves a page of the address space (see ClientAssumption of
\* PageTableClient).
LaidOut(b) ==
    LET h == b.header
    IN  /\ h.load_addr <= h.load_end_addr /\ h.load_end_addr <= h.bss_end_addr
        /\ h.load_addr < h.bss_end_addr /\ h.bss_end_addr < Word
        /\ h.bss_end_addr - h.load_addr + PageSize <= Word
        /\ BssEnd <= h.payload_addr
        /\ h.payload_addr + h.load_end_addr - h.load_addr <= h.stack_addr - StackSize
        /\ h.stack_addr < Word
        /\ 0 < b.mb2.size /\ b.mb2.addr + b.mb2.size < Word
        /\ b.mb2.addr + b.mb2.size <= TextStart \/ h.stack_addr <= b.mb2.addr

\* Nor does the loader look for wrap-around (see GuardAssumption of Allocator):
\* the memory it lives on begins above the size of a relocation and ends two
\* pages below the last address.
Guarded(b) ==
    LET a == BootAllocator(b)
    IN  /\ \A size \in {b.mb2.size, StackSize, JumperSize} :
              size <= a.free /\ size <= a.to
        /\ a.free + 2 * PageSize < Word /\ a.to + 2 * PageSize < Word

ASSUME BootAssumption ==
    \A b \in Boots : /\ b \in BootType /\ LaidOut(b)
                     /\ Candidates(b) # {} => Guarded(b)

MallocInitialize ==
    /\ pc = "malloc"
    /\ IF Candidates(boot) = {}
       THEN pc' = "dead" /\ UNCHANGED alloc
       ELSE pc' = "check" /\ alloc' = BootAllocator(boot)
    /\ UNCHANGED <<boot, ram, stack, this, saved, cpu, paging>>

\* Mistaken: the test of the vendor is inverted.
CheckInverted ==
    /\ pc = "check"
    /\ pc' = IF ~ boot.vendor /\ ~ cpu.pg THEN "mb2" ELSE "dead"
    /\ UNCHANGED <<boot, ram, stack, this, saved, cpu, alloc, paging>>

CheckLongmode ==
    /\ pc = "check"
    /\ pc' = IF boot.vendor /\ ~ cpu.pg THEN "mb2" ELSE "dead"
    /\ UNCHANGED <<boot, ram, stack, this, saved, cpu, alloc, paging>>

ConflictPayload(addr, size) ==
    /\ addr < header.bss_end_addr
    /\ header.load_addr < Wrap(addr + size)

\* The block that a relocation asks for.
Relocation(size) == AllocateTransient(alloc, size, PageSize)

RelocateMultiboot2 ==
    LET reloc == Relocation(boot.mb2.size)
    IN  /\ pc = "mb2"
        /\ IF ~ ConflictPayload(this.multiboot2_addr, boot.mb2.size)
           THEN pc' = "stack" /\ UNCHANGED <<ram, this, alloc>>
           ELSE /\ alloc' = reloc.self
                /\ IF reloc.addr = 0
                   THEN pc' = "dead" /\ UNCHANGED <<ram, this>>
                   ELSE /\ pc' = "stack"
                        /\ ram' = Memcpy(reloc.addr, this.multiboot2_addr,
                                         boot.mb2.size)
                        /\ this' = [this EXCEPT !.multiboot2_addr = reloc.addr]
        /\ UNCHANGED <<boot, stack, saved, cpu, paging>>

RelocateStack ==
    LET reloc == Relocation(StackSize)
    IN  /\ pc = "stack"
        /\ IF ~ ConflictPayload(stack, StackSize)
           THEN pc' = "jumper" /\ UNCHANGED <<ram, stack, alloc>>
           ELSE /\ alloc' = reloc.self
                /\ IF reloc.addr = 0
                   THEN pc' = "dead" /\ UNCHANGED <<ram, stack>>
                   ELSE /\ pc' = "jumper"
                        /\ ram' = Memcpy(reloc.addr, stack, StackSize)
                        /\ stack' = reloc.addr
        /\ UNCHANGED <<boot, this, saved, cpu, paging>>

\* setup_jumper and relocate_jumper
SetupJumper ==
    LET reloc == Relocation(JumperSize)
    IN  /\ pc = "jumper"
        /\ alloc' = reloc.self
        /\ this' = [this EXCEPT !.jumper_addr = reloc.addr]
        /\ IF reloc.addr = 0
           THEN pc' = "dead" /\ UNCHANGED ram
           ELSE /\ pc' = "install"
                /\ ram' = Memcpy(reloc.addr, JumperStart, JumperSize)
        /\ UNCHANGED <<boot, stack, saved, cpu, paging>>

-----------------------------------------------------------------------------
(***************************************************************************)
(* setup_paging: the steps of the page table, each of which may clear a    *)
(* new table in memory.                                                    *)
(***************************************************************************)
ClearTables ==
    LET new == DOMAIN tables' \ DOMAIN tables
    IN  ram' = [a \in DOMAIN ram |->
                   IF \E t \in new : a \in Cells(t, t + PageSize)
                   THEN Table ELSE ram[a]]

PagingOnly == UNCHANGED <<boot, stack, this, saved, cpu>>

InstallTable ==
    /\ pc = "install"
    /\ PagetableInstall
    /\ ClearTables
    /\ pc' = IF cr3' = 0 THEN "dead" ELSE "identity"
    /\ PagingOnly

\* The size of the identity mapping: up to the end of the last entry of the
\* memory map, or all but the last page as soon as an entry passes 4G.
IdentitySize(b) ==
    LET upper(i) == b.mmap[i].base_addr + b.mmap[i].length
    IN  IF \E i \in DOMAIN b.mmap : upper(i) > Word - 1
        THEN Word - PageSize
        ELSE PageAlign(upper(Len(b.mmap)))

MapIdentity ==
    /\ pc = "identity"
    /\ PagetableMap(0, 0, IdentitySize(boot))
    /\ pc' = IF call'.pc = "idle" THEN "dead" ELSE "identity run"
    /\ UNCHANGED ram
    /\ PagingOnly

MapPayload ==
    /\ pc = "payload map"
    /\ PagetableMap(header.payload_vaddr, header.load_addr,
                    header.bss_end_addr - header.load_addr)
    /\ pc' = IF call'.pc = "idle" THEN "dead" ELSE "payload run"
    /\ UNCHANGED ram
    /\ PagingOnly

\* pagetable_map at work, and the test of what it returns.
RunMapping(here, there) ==
    /\ pc = here
    /\ MapStep
    /\ ClearTables
    /\ pc' = IF call'.pc # "idle" THEN here
             ELSE IF call'.ret THEN there ELSE "dead"
    /\ PagingOnly

SetupPaging ==
    \/ InstallTable
    \/ MapIdentity
    \/ RunMapping("identity run", "payload map")
    \/ MapPayload
    \/ RunMapping("payload run", "jump")

-----------------------------------------------------------------------------
(***************************************************************************)
(* jump_to_payload and the jumper.                                         *)
(***************************************************************************)
memory == <<boot, stack, this, alloc, paging>>

\* Mistaken: the address is passed for the shift.
JumpUnshifted ==
    /\ pc = "jump"
    /\ cpu' = [cpu EXCEPT !.star = this.jumper_addr]
    /\ saved' = [mb2  |-> this.multiboot2_addr,
                 mems |-> alloc.from,
                 meme |-> alloc.free]
    /\ pc' = "move"
    /\ UNCHANGED <<ram, memory>>

\* The relocation shift goes through the STAR register to the jumper.
JumpToPayload ==
    /\ pc = "jump"
    /\ cpu' = [cpu EXCEPT !.star = Wrap(this.jumper_addr - JumperStart)]
    /\ saved' = [mb2  |-> this.multiboot2_addr,
                 mems |-> alloc.from,
                 meme |-> alloc.free]
    /\ pc' = "move"
    /\ UNCHANGED <<ram, memory>>

\* Mistaken: memcpy for memmove, although the payload may move onto itself.
RelocateForward ==
    LET copied == Memcpy(header.load_addr, header.payload_addr, PayloadSize)
    IN  /\ pc = "move"
        /\ ram' = [a \in DOMAIN ram |->
                      IF a \in Cells(header.load_end_addr, header.bss_end_addr)
                      THEN Zero ELSE copied[a]]
        /\ pc' = "pae"
        /\ UNCHANGED <<saved, cpu, memory>>

\* jumper_relocate_payload
RelocatePayload ==
    LET moved == Memmove(header.load_addr, header.payload_addr, PayloadSize)
    IN  /\ pc = "move"
        /\ ram' = [a \in DOMAIN ram |->
                      IF a \in Cells(header.load_end_addr, header.bss_end_addr)
                      THEN Zero ELSE moved[a]]
        /\ pc' = "pae"
        /\ UNCHANGED <<saved, cpu, memory>>

EnablePae ==
    /\ pc = "pae"
    /\ cpu' = [cpu EXCEPT !.pae = TRUE]
    /\ pc' = "lme"
    /\ UNCHANGED <<ram, saved, memory>>

EnableLme ==
    /\ pc = "lme"
    /\ cpu' = [cpu EXCEPT !.lme = TRUE]
    /\ pc' = "pg"
    /\ UNCHANGED <<ram, saved, memory>>

\* Whether every page of [from, to) is mapped on itself.
Identity(from, to) ==
    \A a \in Cells(from, to) :
        PageOffset(a) = 0 \/ a = from
        => Translate(a) = Entry(AlignDown(a, PageSize))

\* The processor refuses to enable paging in long mode without PAE, and from
\* then on the jumper and its stack are reached through the page table.
EnablePaging ==
    /\ pc = "pg"
    /\ cpu' = [cpu EXCEPT !.pg = TRUE]
    /\ pc' = IF /\ cpu.pae /\ cpu.lme
                /\ Identity(this.jumper_addr, this.jumper_addr + JumperSize)
                /\ Identity(stack, stack + StackSize)
             THEN "ljmp" ELSE "fault"
    /\ UNCHANGED <<ram, saved, memory>>

\* The far jump to long_mode, at an address the jumper patched in its own code
\* with the shift it found in STAR.
JumpToLongmode ==
    /\ pc = "ljmp"
    /\ cpu' = [cpu EXCEPT !.cs = "code64"]
    /\ pc' = IF Wrap(JumperStart + cpu.star) = this.jumper_addr
             THEN "long mode" ELSE "fault"
    /\ UNCHANGED <<ram, saved, memory>>

\* payload_ventry of jumper_main, in 64 bits but for the difference of two words.
PayloadVentry ==
    Wrap(header.payload_entry_addr - header.load_addr) + header.payload_vaddr

\* Mistaken: the entry point is not moved with the virtual address.
EnterAtPhysical ==
    /\ pc = "long mode"
    /\ cpu' = [cpu EXCEPT !.star = 0, !.rip = header.payload_entry_addr,
                          !.rax = "magic", !.rbx = saved.mb2,
                          !.rdx = saved.mems, !.rcx = saved.meme]
    /\ pc' = "payload"
    /\ UNCHANGED <<ram, saved, memory>>

\* jumper_main calls jump_to_longmode with what it finds in the saved data, and
\* long_mode takes it from the stack; RAX is the magic of a multiboot2 loader.
EnterPayload ==
    /\ pc = "long mode"
    /\ cpu' = [cpu EXCEPT !.star = 0, !.rip = PayloadVentry,
                          !.rax = "magic", !.rbx = saved.mb2,
                          !.rdx = saved.mems, !.rcx = saved.meme]
    /\ pc' = "payload"
    /\ UNCHANGED <<ram, saved, memory>>

Jumper ==
    \/ JumpToPayload \/ RelocatePayload
    \/ EnablePae \/ EnableLme \/ EnablePaging
    \/ JumpToLongmode \/ EnterPayload

-----------------------------------------------------------------------------
Stopped == pc \in {"payload", "dead", "fault"}

InJumper == pc \in {"move", "pae", "lme", "pg", "ljmp", "long mode"}

\* The code that runs, and its stack, are where the processor expects them.
Alive == StackIntact /\ IF InJumper THEN JumperIntact ELSE LoaderIntact

\* Nothing is known of a program that has overwritten itself.
Collapse ==
    /\ ~ Stopped
    /\ ~ Alive
    /\ pc' = "fault"
    /\ UNCHANGED <<boot, ram, stack, this, saved, cpu, alloc, paging>>

Next ==
    \/ Collapse
    \/ /\ Alive
       /\ \/ EnterLoader \/ MallocInitialize \/ CheckLongmode
          \/ RelocateMultiboot2 \/ RelocateStack \/ SetupJumper
          \/ SetupPaging
          \/ Jumper

\* The loader is alone on the processor, with interrupts disabled.
Spec == Init /\ [][Next]_vars /\ WF_vars(Next)

-----------------------------------------------------------------------------
(***************************************************************************)
(* Conditions on a boot that the properties speak of.                      *)
(***************************************************************************)
Apart(from1, to1, from2, to2) == Cells(from1, to1) \cap Cells(from2, to2) = {}

\* The memory that is left free after malloc_initialize holds neither the
\* payload's image nor the loader's stack, which no zone protects.
Protected(b) ==
    LET free == BootAllocator(b).free
        to   == BootAllocator(b).to
        size == b.header.load_end_addr - b.header.load_addr
    IN  /\ Apart(free, to, b.header.payload_addr, b.header.payload_addr + size)
        /\ Apart(free, to, b.header.stack_addr - StackSize, b.header.stack_addr)

\* The payload is mapped on itself or above the identity mapping, and not onto
\* the jumper or the stack.  A virtual address has as many bits as the tables
\* translate: the others are not looked at.
VaddrApart(b) ==
    LET vaddr == b.header.payload_vaddr % (PageSize * VPages)
        size  == b.header.bss_end_addr - b.header.load_addr
    IN  \/ b.header.payload_vaddr = b.header.load_addr
        \/ IdentitySize(b) <= vaddr /\ vaddr + size <= PageSize * VPages

\* The entry the loader lives on ends inside the identity mapping, and so does
\* the image with its stack.
IdentityReaches(b) ==
    /\ \E i \in Candidates(b) :
          /\ \A k \in Candidates(b) : i <= k
          /\ EntryEnd(b.mmap[i]) <= IdentitySize(b)
    /\ b.header.stack_addr <= IdentitySize(b)

GoodBoot(b) ==
    /\ b.magic /\ b.vendor
    /\ IdentityReaches(b)
    /\ Protected(b)
    /\ VaddrApart(b)
    /\ PageOffset(b.header.load_addr) = 0
    /\ PageOffset(b.header.payload_vaddr) = 0

\* The pages that setup_paging maps, and the tables this takes.
PagesOf(from, size) == {p \in from .. from + size - 1 : PageOffset(p) = 0}

TablesNeeded(b) ==
    LET bss    == b.header.bss_end_addr - b.header.load_addr
        pages  == PagesOf(0, IdentitySize(b))
                    \union PagesOf(b.header.payload_vaddr, bss)
        Spanned(lvl) == {p \div (PageSize * Span[lvl + 1]) : p \in pages}
    IN  1 + MapThenSumSet(LAMBDA lvl : Cardinality(Spanned(lvl)),
                          1 .. PageLevel - 1)

\* Room for every block that a boot may ask for, each rounded to a page.
MemoryEnough(b) ==
    LET Rounded(size) == size + PageSize - 1
        a == BootAllocator(b)
    IN  a.free + PageSize - 1 + PageSize * TablesNeeded(b)
            + Rounded(b.mb2.size) + Rounded(StackSize) + Rounded(JumperSize)
            <= a.to

-----------------------------------------------------------------------------
\* Where the payload goes, and its image and bss once they are there.
Target == Cells(header.load_addr, header.bss_end_addr)

ImageMoved ==
    \A a \in Target :
        ram[a] = IF a < header.load_end_addr
                 THEN Byte("payload", a - header.load_addr) ELSE Zero

\* When the free memory does not contain the image, no relocation, no copy of
\* the jumper and no new table ever touches what is still needed: the loader
\* and the payload's source until the payload has moved, the stack and the
\* multiboot2 information until the end.
NothingLost ==
    Candidates(boot) # {} /\ Protected(boot)
    => /\ StackIntact
       /\ pc \notin {"entry", "dead"} => Mb2Intact
       /\ ~ InJumper /\ pc \notin {"payload", "fault"}
          => LoaderIntact /\ SourceIntact
       /\ pc = "move" => SourceIntact
       /\ InJumper => JumperIntact

\* What the payload finds in memory at its entry point: its whole image and
\* cleared bss where it wants to be loaded, even when they overlap the loader,
\* their own source, the stack or the multiboot2 information; that information
\* whole at the address in RBX; every table whole inside the block delimited by
\* RDX and RCX; STAR cleared.
PayloadPresent ==
    pc = "payload" /\ Protected(boot)
    => /\ ImageMoved
       /\ Holds(cpu.rbx, "mb2", 0, boot.mb2.size)
       /\ \A t \in DOMAIN tables :
             /\ Cells(t, t + PageSize) \subseteq Cells(cpu.rdx, cpu.rcx)
             /\ \A a \in Cells(t, t + PageSize) : ram[a] = Table
       /\ cpu.star = 0

\* What it finds through the page table: itself at its virtual address, to the
\* end of its bss, RIP there and at its entry byte if its entry point is in its
\* image, and a root among the tables.
PayloadMapped ==
    pc = "payload" /\ Protected(boot)
    => LET At(vaddr) == Translate(vaddr).addr + PageOffset(vaddr)
           In(addr)  == header.payload_vaddr + addr - header.load_addr
       IN  /\ header.payload_entry_addr \in Cells(header.load_addr, header.load_end_addr)
              => /\ cpu.rip \in Cells(header.payload_vaddr, In(header.load_end_addr))
                 /\ ram[At(cpu.rip)] =
                       Byte("payload", header.payload_entry_addr - header.load_addr)
           /\ \A a \in Target : Translate(In(a)).flags = Flags /\ At(In(a)) = a
           /\ cr3 \in DOMAIN tables

\* A boot that respects the conditions above never takes the processor to a
\* page that is not mapped on itself, or to code that has been overwritten.
NoFault == GoodBoot(boot) => pc # "fault"

\* The payload's entry point is reached with all of the available memory
\* mapped on itself, as the usage text of mistral/main.c promises, except where
\* the payload's own mapping replaces the identity mapping.
AvailableMapped ==
    pc = "payload"
    => \A i \in DOMAIN boot.mmap :
          boot.mmap[i].available =>
          \A p \in PagesOf(boot.mmap[i].base_addr, boot.mmap[i].length) :
             \/ Translate(p) = Entry(p)
             \/ p \in PagesOf(header.payload_vaddr,
                              header.bss_end_addr - header.load_addr)

\* Every boot reaches the payload, a failure or a fault.
BootEnds == <>Stopped

\* A good boot with memory enough reaches the payload: no relocation and no
\* table is refused while there is room.
GoodBootEnters ==
    GoodBoot(boot) /\ MemoryEnough(boot) ~> pc = "payload"

-----------------------------------------------------------------------------
(***************************************************************************)
(* The strengthening that makes NothingLost and PayloadPresent inductive:  *)
(* nothing that is still needed lies in the free memory, from which every  *)
(* block and table is taken, nor, once the loader has moved it out of the  *)
(* way, where the payload will be.                                         *)
(***************************************************************************)
Free == Cells(alloc.free, alloc.to)

Paged       == {"install", "identity", "identity run", "payload map",
                "payload run", "jump"}
StackPlaced == {"jumper"} \union Paged
Mb2Placed   == {"stack"} \union StackPlaced
Working     == {"check", "mb2"} \union Mb2Placed

Regular == Candidates(boot) # {} /\ Protected(boot)

\* Where the stack and the information are, before and after they are moved.
InRam(addr, size) == addr \in Nat /\ addr + size < Word

Registers == {"pae", "lme", "pg", "star", "cs", "rip", "rax", "rbx", "rcx", "rdx"}

Places ==
    /\ boot \in Boots
    /\ DOMAIN this = {"multiboot2_addr", "jumper_addr"} /\ DOMAIN cpu = Registers
    /\ DOMAIN ram = 0 .. Word - 1
    /\ pc \in {"entry", "malloc"} \union Working \/ InJumper \/ Stopped
    /\ pc \in Working \/ InJumper \/ pc = "payload" => Candidates(boot) # {}
    /\ pc \in {"entry", "malloc"} => stack = header.stack_addr - StackSize
    /\ pc = "malloc" => this.multiboot2_addr = boot.mb2.addr
    /\ InJumper => saved = [mb2  |-> this.multiboot2_addr,
                            mems |-> alloc.from, meme |-> alloc.free]
    /\ pc = "payload" => /\ cpu.rbx = this.multiboot2_addr
                         /\ cpu.rdx = alloc.from /\ cpu.rcx = alloc.free
                         /\ cpu.star = 0

\* What the allocator may still hand out, and that no request wraps around.
Room ==
    /\ alloc \in [from : Nat, free : Nat, to : Nat]
    /\ alloc.from <= alloc.free
    /\ \A size \in {boot.mb2.size, StackSize, JumperSize} :
          size <= alloc.free /\ size <= alloc.to
    /\ alloc.free + 2 * PageSize < Word /\ alloc.to + 2 * PageSize < Word

TableCells == {a \in DOMAIN ram : \E t \in DOMAIN tables : a \in Cells(t, t + PageSize)}

\* The tables are whole, in the block that ends where the free memory begins.
TablesHeld ==
    /\ alloc.from \in Nat /\ alloc.free \in Nat
    /\ \A t \in DOMAIN tables :
          /\ t \in Nat /\ t + PageSize < Word
          /\ alloc.from <= t /\ t + PageSize <= alloc.free
    /\ \A a \in TableCells : ram[a] = Table /\ a \notin Target

Needed(addr, size) == Cells(addr, addr + size) \cap Free = {}
Aside(addr, size)  == Cells(addr, addr + size) \cap Target = {}

BeforeMalloc ==
    pc \in {"entry", "malloc"} =>
    /\ LoaderIntact /\ SourceIntact /\ StackIntact
    /\ Holds(boot.mb2.addr, "mb2", 0, boot.mb2.size)
    /\ DOMAIN tables = {}

Intact ==
    /\ Room /\ TablesHeld /\ Target \cap Free = {}
    /\ LoaderIntact /\ Needed(TextStart, BssEnd - TextStart)
    /\ SourceIntact /\ Needed(header.payload_addr, PayloadSize)
    /\ StackIntact /\ Needed(stack, StackSize) /\ InRam(stack, StackSize)
    /\ Mb2Intact /\ Needed(this.multiboot2_addr, boot.mb2.size)
    /\ InRam(this.multiboot2_addr, boot.mb2.size)

AtWork == pc \in Working => Intact

OutOfTheWay ==
    /\ pc \in Mb2Placed => Aside(this.multiboot2_addr, boot.mb2.size)
    /\ pc \in StackPlaced => Aside(stack, StackSize)
    /\ pc \in Paged => /\ JumperIntact
                       /\ InRam(this.jumper_addr, JumperSize)
                       /\ Needed(this.jumper_addr, JumperSize)
                       /\ Aside(this.jumper_addr, JumperSize)

InTheJumper ==
    InJumper =>
    /\ StackIntact /\ Mb2Intact /\ JumperIntact /\ TablesHeld
    /\ pc # "move" => ImageMoved
    /\ pc = "move" =>
          /\ SourceIntact
          /\ InRam(this.multiboot2_addr, boot.mb2.size)
          /\ InRam(stack, StackSize) /\ InRam(this.jumper_addr, JumperSize)
          /\ Aside(this.multiboot2_addr, boot.mb2.size)
          /\ Aside(stack, StackSize) /\ Aside(this.jumper_addr, JumperSize)

AtTheEnd ==
    /\ pc = "dead" => LoaderIntact /\ SourceIntact /\ StackIntact
    /\ pc \in {"fault", "payload"} => StackIntact /\ Mb2Intact
    /\ pc = "payload" => TablesHeld /\ ImageMoved

\* The inductive invariant.
LoaderInv ==
    /\ Places
    /\ Regular => BeforeMalloc /\ AtWork /\ OutOfTheWay /\ InTheJumper /\ AtTheEnd

-----------------------------------------------------------------------------
(***************************************************************************)
(* The strengthening that makes PayloadMapped and NoFault inductive: which *)
(* pages show what, while the mappings are built and after, and that what  *)
(* the jumper needs is inside the identity mapping.                        *)
(***************************************************************************)
\* The pages of size bytes at vaddr are mapped on those at paddr.
Shown(vaddr, paddr, size) ==
    \A k \in Cells(0, size) :
        PageOffset(k) = 0 => Translate(vaddr + k) = Entry(Wrap(paddr + k))

ImageSize == header.bss_end_addr - header.load_addr

IdentityShown == Shown(0, 0, IdentitySize(boot))
PayloadShown  == Shown(header.payload_vaddr, header.load_addr, ImageSize)

\* pagetable_map at work on a mapping, whose first pages are there.
Running(vaddr, paddr, size) ==
    /\ call.pc # "idle"
    /\ call.vaddr = vaddr /\ call.paddr = paddr /\ call.asked = size
    /\ Shown(vaddr, paddr, call.i)

Mappings ==
    /\ pc \in {"identity", "payload map", "jump"} => call.pc = "idle"
    /\ pc = "identity run" => Running(0, 0, IdentitySize(boot))
    /\ pc = "payload map" => IdentityShown
    /\ pc = "payload run" =>
          Running(header.payload_vaddr, header.load_addr, ImageSize)
    /\ pc \in {"payload run", "jump"} \/ InJumper =>
          (VaddrApart(boot) => IdentityShown)
    /\ pc = "jump" \/ InJumper \/ pc = "payload" =>
          /\ cr3 # 0 /\ PayloadShown
          /\ PageOffset(header.payload_vaddr) = 0
          /\ PageOffset(header.load_addr) = 0

WithinIdentity ==
    IdentityReaches(boot) =>
    /\ pc \in Working => alloc.to <= IdentitySize(boot)
    /\ pc \in Working \/ InJumper => stack + StackSize <= IdentitySize(boot)
    /\ pc \in Paged \/ InJumper =>
          this.jumper_addr + JumperSize <= IdentitySize(boot)

\* What the jumper has done so far, where it can be, and where it leads.
JumperReady ==
    /\ InJumper =>
          /\ InRam(stack, StackSize) /\ InRam(this.jumper_addr, JumperSize)
          /\ cpu.star = Wrap(this.jumper_addr - JumperStart)
          /\ pc \notin {"move", "pae"} => cpu.pae
          /\ pc \notin {"move", "pae", "lme"} => cpu.lme
    /\ pc = "payload" => cpu.rip = PayloadVentry

MappingInv ==
    /\ Regular => Mappings /\ WithinIdentity /\ JumperReady
    /\ NoFault
=============================================================================
