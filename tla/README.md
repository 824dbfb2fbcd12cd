# A verification of the buneary loader

`buneary` (called *mistral* in its own files) boots a 64-bit kernel with a
32-bit multiboot2 bootloader.  It has two halves:

* a **userland tool** (`mistral/`) that concatenates a prebuilt loader and the
  user's kernel, the *payload*, into one bootable image;
* the **loader** (`loader/`) in that image, which builds a page table, moves the
  payload to its place, switches the processor to long mode and jumps.

Nothing runs concurrently.  What is hard is memory: the loader shuffles itself,
its stack, the bootloader's information and the payload around in one flat
physical memory, by hand, without an operating system, without a debugger, in
32-bit arithmetic, and partly while it overwrites itself.  What is hard in the
tool is partial I/O, and tables of offsets.

The modules here are TLA+ specifications of these parts, checked by TLC on small
instances; every safety property that a run finds to hold is also proved with
TLAPS, for every instance.

## 1. Inventory

### The loader

| component | state it keeps | operations | what makes it correct |
|---|---|---|---|
| allocator (`loader/allocator.c`) | three addresses `from`, `free`, `to` in the global `this` | `allocator_initialize`, `reserve_zone`, `allocate_transient`, `allocate_permanent` | blocks are disjoint, lie in RAM and avoid what was reserved; `[from, free)` holds all permanent blocks and nothing else |
| page table (`loader/pagetable.c`) | the tables in memory, `cr3` | `pagetable_install`, `pagetable_map` | the tree implements a map of pages, even when memory runs out in the middle |
| boot sequence (`loader/main.c`, `entry.S`, `loader.ld`) | the environment `this`, the mistral header, the stack pointer | reserve zones, check the processor, move the multiboot2 information, the stack and the jumper, set up paging | no move destroys what a later step reads |
| jumper (`loader/jumper.c`, `jumpasm.S`, `include/loader/string.h`) | a relocated copy of its code and saved data; `STAR`, `CR4`, `EFER`, `CR0` | save data, move the payload, enter long mode | the payload arrives whole; the processor finds code and stack mapped when paging starts |
| multiboot2 information (`loader/multiboot2.c`) | none | search of a tag by type | finds the first tag, anywhere in memory |
| screen (`loader/vga.c`) | buffer and cursor | `vga_putc` and what it calls | text never leaves the buffer, and scrolling loses no line |
| formatted output (`loader/printk.c`) | position in the format, arguments taken, characters printed, a flag to stop | `printk`, `snprintk`: `vhprintk` over a handler | the handler gets every character once and in order, and a number reads back |
| processor primitives (`include/loader/control.h` and others) | control registers | wrappers of one instruction | the bits the jumper sets; modelled in part |

The boot sequence calls the allocator through `malloc_transient` and
`malloc_persistant`, and so does the page table; the jumper reads the
allocator's `from` and `free` and tells the payload to preserve that block.  All
of them share physical memory.  `printk` hands its characters to `vga_putc`; the
boot sequence prints its messages with it.

### The userland tool

| component | state it keeps | operations | what makes it correct |
|---|---|---|---|
| header search (`mistral/mistral.c`, `mistral/multiboot2.c`) | a file descriptor, a buffer | `mistral_lseek`, `multiboot2_lseek` | returns the offset of the first header of the window |
| scheme parsers (`mistral/loader.c`, `mistral/payload.c`) | the scheme being filled | `parse_loader`, `parse_payload`, `find_loader` | accept exactly the complete headers and describe the right tags |
| image builder (`mistral/basic.c`) | three descriptors, the copy buffer, the image | `initialize_basic`, `write_basic`, `fdcpy` | the image holds every byte where the headers say |
| main (`mistral/main.c`) | the options read so far, the exit status | options, search of the loader, both parsers, output | the exit status says what has been done, and a failure leaves the output alone |
| user page table (`mistral/pagetable.c`) | list of mappings, buffer of tables | `initialize_`, `update_`, `materialize_pagetable` | the table maps what the list says |
| terminal printing, sample payload, build files | | | not modelled |

The tool is a pipeline that `main` drives: options, header search, parsers,
layout, writing.  The mistral
header it fills is all that the loader knows of the payload.

### Behaviours that are hard to test

`PROJECT.json` lists the hazards line by line.  The main families are: blocks
and zones meeting in the allocator; relocations onto live memory; overlap of the
payload with its source, with the loader, with the stack; the processor reaching
an unmapped page at the moment paging starts; page table allocation failing in
the middle; wrap-around at both ends of a 32-bit address space; short,
interrupted and failing system calls, most of whose results are ignored; headers
and lists of tags cut by the end of a file or held up by a tag of size 0; formats
that end inside a directive.

## 2. Modules

| module | models | builds on |
|---|---|---|
| `AllocatorOps` | the allocator as pure operators | |
| `MemoryPool` | abstract: what the allocator promises | |
| `Allocator`, `MCAllocator` | the allocator in use, with its history | `AllocatorOps`, refines `MemoryPool` |
| `AllocatorProofs` | theorems | `Allocator` |
| `Numbers` | lemmas about quotients, sums and powers, and recursive functions | |
| `AddressMap` | abstract: what the page table promises | |
| `PageTable` | `loader/pagetable.c` | `AllocatorOps`, refines `AddressMap` |
| `PageTableClient`, `MCPageTable` | arbitrary calls of the page table | `PageTable` |
| `Loader`, `MCLoader` | entry.S, main.c, jumper.c, jumpasm.S over physical memory | `PageTable`, `ImageLayout` |
| `LoaderProofs` | theorems about the page table and about the boot | `Loader`, `PageTableClient`, `Numbers` |
| `PayloadMove`, `MCPayloadMove` | `jumper_relocate_payload` byte by byte | |
| `PayloadMoveProofs` | theorems | `PayloadMove` |
| `TagList` | the layout of multiboot2 tags | |
| `Multiboot2Info`, `MCMultiboot2Info` | `loader/multiboot2.c` | `TagList` |
| `Multiboot2InfoProofs` | theorems | `Multiboot2Info`, `Numbers` |
| `EndlessPage` | abstract: what the screen promises | |
| `Vga` | `loader/vga.c` | refines `EndlessPage` |
| `Printk`, `MCPrintk` | `loader/printk.c` over the screen | `Vga` |
| `ConsoleProofs` | theorems about the screen and its use by `Printk` | `Printk`, `Numbers` |
| `HeaderSearch`, `MCHeaderSearch` | both `_lseek` functions | |
| `SchemeParser`, `MCSchemeParser` | both parsers, from the opening of a file on | `TagList` |
| `ImageLayout` | the layout operators of `mistral/basic.c` | `AllocatorOps` |
| `ImageBuilder` | `write_basic`, `fdcpy` | `ImageLayout` |
| `Mistral`, `MCMistral` | `main`, with options, search, parsers and output | `ImageBuilder`, `SchemeParser` |
| `MistralProofs` | theorems about the parsers, `main` and the image | `Mistral`, `Numbers` |
| `UserPageTable`, `MCUserPageTable` | `mistral/pagetable.c` | |
| `LibraryProofs` | theorems about the header search and the user page table | `HeaderSearch`, `UserPageTable`, `Numbers` |

Some modules define, next to an operation, forms of it marked *Mistaken*.  They
are the operation with one plausible bug; replacing the operation by its
mistaken form makes TLC report the property it is paired with in `PROJECT.json`,
which shows that the property depends on what the code does.

### How state and actions correspond to the code

**Allocator.**  `self` is `struct allocator`.  One action per function; the
functions themselves are the operators of `AllocatorOps`, which the page table
and the boot sequence reuse unchanged.  Every sum and difference is taken modulo
`Word`, as `paddr_t` and `size_t` are unsigned 32-bit integers.  `zones` and
`blocks` are history.  At this commit `allocator.c` defines a structure with two
more fields (`type`, `alignment`) and an initializer with two more parameters
than `include/loader/allocator.h` and `main.c` know; nothing ever reads these
fields, and the model follows the three that all sources share.

**PageTable.**  `tables` are the pages that hold tables; `call` holds the locals
of `pagetable_map` and `setup_vpage`, so that a call is a sequence of steps: a
turn of the outer loop (`NextPage`), a turn of the walk that finds a table
(`WalkPresent`) or has to allocate one (`WalkAbsent`), the leaf (`WriteLeaf`).
`cr3` is 0 before `pagetable_install`.

**Loader.**  `pc` names the next step of `main`, of the jumper, or the end:
`payload`, `dead` (the code halts with a message) or `fault` (the processor
would fault, or executes something that is not the code).  `ram` says for every
address which byte of which object it holds; relocations are copies in `ram`,
with the repetition that an overlapping `memcpy` produces.  `Collapse` is the
undefined behaviour of a program whose code or stack has been overwritten.  The
page table steps are those of `PageTable`; every new table clears its page in
`ram`.  `saved` is what `jump_to_payload` stores in the relocated jumper, and the
shift between the linked and the relocated jumper goes through `cpu.star`, as it
does through the `STAR` register.  The boots are all combinations of where the
bootloader and the payload want things, with the header computed by
`ImageLayout` from the same operators that the image builder uses.  `cpu` also
holds the registers the payload starts with: `rip` and `rax` to `rdx`.  Its entry
address lies in the mapping of the payload, which option `-a` may put anywhere
(`PayloadVentry`).  What the payload finds when it is entered is two properties:
`PayloadPresent` (memory and registers) and `PayloadMapped` (the page table).

**PayloadMove** is the step `RelocatePayload` of `Loader` in detail: the three
ways of `memmove`, with its two pointers, and `memset`.

**Multiboot2Info, SchemeParser** work on lists of tags with sizes; offsets and
pointers are numbers, computed as the code computes them.  In `SchemeParser`,
`Refuse` is a header that is not there, `Fail` a file that cannot be opened or
read, or memory that is not there.  A header whose `header_length` does not reach
the end of that field is not copied far enough to have one: the parser works with
a length that nobody has written (`LengthUnset`), and nothing is said of it any
more.

**HeaderSearch** counts in cells of eight bytes, the alignment of both headers.
What lies past the end of the buffer may match, not match or crash.

**ImageBuilder.**  `step` is the position in `write_basic`, `copy` the locals of
`fdcpy`, its buffer included: at the end of a source the rest of the chunk is
written with what the buffer holds.  A read or write transfers what was asked, or
fewer bytes, or is interrupted, or fails; every one of these costs one of
`MaxFaults`.  A seek in front of a file fails too, and leaves the position as it is
(`Seek`); a negative length is a large one for `fdcpy` (`SizeWord`).  `failed`
records that a call failed, which the code ignores.

**Mistral.**  `phase` is the part of `main` that runs, `args` is `struct args`.
A `machine` is a command line with the files it names.  The parsers are the
actions of `SchemeParser` itself, called first for the loader and then for the
payload; what they record becomes the `pair` of schemes from which
`ImageBuilder` works.  `OpenOutput` truncates the output, which may be one of
the inputs: `alias` says which.  `denied` records that a file could not be opened
or read.

**UserPageTable.**  Actions are the library's three functions.  `mapsRoom` is
the real size of the array of mappings, none if `malloc` fails; `intact` becomes FALSE when something is
written past the end of it or of the buffer, and the properties then promise
nothing.  `tables` is the buffer by the offset of a table in it; `Concrete` builds
it as the code does: mapping by mapping (`FillConcreteBuffer`), page by page
(`FillConcretePage`), level by level (`Down`).  The list may have two mappings of a
page, as `update_pagetable` accepts one that contains an older one, and addresses
beyond those that the tables look at; `ConcreteMap` says of each place of the
virtual memory that the page written there last is the one found.

**Vga.**  One action per kind of character; `past` is the history of lines that
have scrolled away, so that `past \o buffer` is the endless page.

**Printk.**  A call is a format, its arguments, and where the output goes.
`Percent`, `Literal` and `Directive` are the turns of the loop of `vhprintk`.
`Directive` reads flags, size and type and puts the characters it prints in
`queue`; `PrintOne` hands them to the handler one by one.  A number that does not
fit is replaced by a text that goes to the screen whatever the handler is
(`"screen itself"`), as the code does.  `text` and `field` are history.  The texts
`(null)` and the one for such a number are shortened.  `Fits` is what the C
language asks of a caller: every argument has the type its directive names.
`NumberLength` and `Radical` count and write the figures as the code does, from
the last one; `ValueOf` reads them from the first one, as `FieldReadsBack` asks.

## 3. Runs

| run | states | question and answer |
|---|---|---|
| `allocator` | 45 356 | Do reservations and requests in any order give disjoint, aligned blocks of RAM outside of all zones, refused only when there is none?  Yes, and the allocator implements `MemoryPool`. |
| `page_table` | 94 562 | Does the tree implement `AddressMap` for runs that share tables, overlap, wrap around, are unaligned, or run out of memory?  Yes; tables form a tree inside `[from, free)`, and calls return. |
| `loader_boot` | 100 041 | Does the payload find itself, its bss, its mapping, its registers, the information and the preserved block whole, and does a boot with room reach it?  Yes, under the conditions named below. |
| `loader_large_memory` | violated | Is all available memory mapped on itself, as the usage text says?  No, see 6. |
| `payload_move` | 19 877 | Is the payload moved right whatever the overlap, without a write outside of its target?  Yes. |
| `user_page_table` | 8 266 | Does the materialized table map what the list says, in a buffer without gaps?  Yes, while `intact`. |
| `header_search` | 7 188 | Is the first header found, whatever malloc's memory holds, when reads are not short and the file is as long as a header?  Yes, and the loops end for every file but those that are short of a header by up to a cell: there the bound of the search has wrapped to the last offset of all. |
| `header_short_reads` | violated | Is what is found always a header?  No, see 6. |
| `scheme_parser` | 34 907 | Are exactly the complete headers accepted, and described rightly?  Yes, and only a tag of size 0, or a length that is not read, keeps a parser from returning. |
| `mistral` | 32 636 | Does the exit status say what has been done, does a failure leave the output as it was, does the program end, and is an image written without a failed call exact, and its payload found by loader and bootloader?  Yes; it ends unless a tag of size 0 or a length that is not read holds a parser up (`Stranded`), and the image is exact if the files hold what their headers say (`Coherent`) and neither is the output. |
| `multiboot2_info` | 32 854 | Is the first tag of a type found at any address, including the top of memory?  Yes, and only a tag of size 0 keeps the search from returning. |
| `console` | 348 282 | Does what a format says reach the screen or the buffer whole and in order, do numbers read back, does every call return unless its format ends inside a directive, and is the screen the end of an endless page?  Yes. |

### Conditions in `Loader`

They are part of the properties, and the boots that break them are part of the
run.

* `Protected`: the interval of free memory contains neither the payload's image
  behind the loader nor the loader's stack.  `malloc_initialize` reserves
  neither; it works because the larger piece usually lies above the payload's
  target.  Boots outside this condition do end with a damaged payload.
* `VaddrApart`: the payload is mapped on itself, or option `-a` maps it above the
  identity mapping and below the end of the virtual memory, of whose addresses
  the tables look at the low bits only.
* `IdentityReaches`: the memory map entry the loader lives in and the image with
  its stack end inside the identity mapping, whose size comes from the *last*
  entry.
* `MemoryEnough`: used for the liveness property only.

### Bounds, and why they are enough

* `allocator`: 24 addresses, two regions, seven zones that lie below, inside,
  across and around the regions, sizes 1 and 2, alignments 0, 1, 4; up to three
  zones and four blocks, which is enough for both ends of the interval to meet
  and for a zone to be reserved after each of the three ways of `reserve_zone`.
* `page_table`: three levels of two entries, pages of two bytes.  Three levels
  are the least with a middle level; runs cross a table at every level; memories
  hold three tables, fewer than, and as many as a full tree.  Three calls let
  two share tables with a third.
* `loader_boot`: 64 addresses, pages of two bytes, tables of eight entries and
  two levels.  Load addresses inside, below and above the loader; payloads of one
  and four bytes, with and without bss, so that target and source overlap in both
  directions and the bss covers the loader, its jumper or the stack; information
  below the loader, where the payload goes, and above it; six memory maps.
* `payload_move`: all headers in ten bytes.
* `user_page_table`: three levels of two entries, an array of two mappings (it
  must grow), five calls; mappings that cross a table at every level, contain one
  another, or lie beyond the eight pages and so on pages of another one.
* `header_search`: windows of five cells, headers of two or three cells, all
  files of up to six cells, so that a header can end with the file or with the
  window, and a file can be shorter than a header; three contents of malloc's
  memory, two of them the remains of headers.
* `scheme_parser`, `multiboot2_info`: up to three tags, sizes with and without
  padding, lists cut inside the last tag or its padding, and for the parser one
  that cuts its own length.  A tag of size 0 comes
  last: nothing behind it is ever reached.
* `mistral`: a loader of twelve bytes and ten payloads (tags in either order,
  repeated, missing, of size 0; a header longer than the loader's, or shorter than
  its length; a file that ends early, or begins behind its load address), and a
  loader that ends in front of its load address; a buffer of five bytes against
  copies of up to twelve and one of a negative length, two faults; twelve
  command lines with every option used rightly, twice and wrongly; outputs that
  are one of the inputs.
* `console`: three lines of four characters and tabs of two, registers of five
  values for a cursor of twelve, formats of up to six characters with every type
  of directive, buffers of none to seven characters; three calls, which scroll
  the screen more than once.

### Fairness

The program is sequential and runs with interrupts disabled, or as a process
whose system calls return.  `Loader`, `PageTableClient`, `Multiboot2Info`,
`HeaderSearch`, `SchemeParser`, `Mistral` and `Printk` assume weak fairness of
their own steps: the code goes on while it can.  No call of the environment (a
failing system call, the next call of a client) is fair, and interruptions are
bounded by `MaxFaults`.  `Allocator`, `PayloadMove`, `UserPageTable` and `Vga`
alone state safety only.

Deadlock is not checked where a run really ends: all these programs stop.

## 4. Proofs

A theorem holds for every value of the constants that satisfies the named
assumptions.  Each of them is evaluated by TLC on the instance of a run, so none
is empty, and says what the code takes for granted without a test.

| module | theorems |
|---|---|
| `AllocatorProofs` | `AllocatorInvariant`, `TypeCorrect`, `BlocksAreDisjoint`, `BlocksAreInRegion`, `BlocksStayOutOfZones`, `ReclaimableBlockExact`, `NoFailureIsSpurious`, `ReservationKeepsLargest`, `AllocatorImplementsPool` |
| `LoaderProofs` | page table: `PageTypes`, `TablesArePreserved`, `TablesFormATree`, `MapIsImplemented`; boot: `LoaderInvariant`, `NothingIsLost`, `PayloadIsPresent`, `BootInvariant`, `PayloadIsMapped`, `NoFaultEver` |
| `PayloadMoveProofs` | `MoveInvariant`, `PayloadIsMoved`, `MoveWritesTargetOnly` |
| `Multiboot2InfoProofs` | `FirstOfTypeFound` |
| `ConsoleProofs` | `CursorInScreen`, `DisplayFollows`, `ScreenIsPage`, `OutputUsesScreen`, `OutputIsWhole`, `FieldsReadBack` |
| `LibraryProofs` | header search: `FirstHeaderFound`; user page table: `PagetableInvariant`, `TableIsTheMap`, `TableIsDense` |
| `MistralProofs` | `SchemeIsRight`, `ExitIsRight`, `OutputKeptOnFailure`, `ImageIsExact`, `PayloadIsFound` |

### Allocator

*Assumed* (`GuardAssumption`): no request is larger than the start of a region or
zone, and no rounded request passes the last address.  The code does not test for
wrap-around; without the assumption the first request below its size would be
granted at the top of memory.  Low memory and the last page below 4G are not
given to the loader by a PC's firmware, which is what makes it true.

*Argument.*  The safety invariants are not inductive: nothing in them says where
the words of the allocator lie relative to past blocks.  `AllocatorInv` adds
this: `Bounded` (the words stay in the region), `Ordered` (before the first
request `from = free`, and afterwards `free <= to`; while zones are reserved
`free` may exceed `to`), `ZonesOutside` (every zone lies below `from` or above
`to`), `BlocksOutside` (permanent blocks lie in `[from, free)`, transient ones
above `to`).  A reservation preserves it because it moves one bound past the
zone; a request because the new block lies between the old and the new bound.

### Page table

*Assumed* (`ClientAssumption`): the memory of the allocator ends two pages below
the last address, so that the address of a table does not wrap around; no size
lies in the last page.  The second is what `PAGE_ALIGN` needs, which otherwise
rounds to 0; the largest size that `setup_paging` asks for is the one at which
that page begins.

*Argument.*  `MapInv` has three parts.  `PageInv` (types, and `from <= free <=
to`) gives `TablesArePreserved`: a new table is an aligned page between the old
and the new `free`, and no step moves `from`.  `TreeInv` says that there are
levels for the tables that make them a `Tree`: the root is at the highest
(`Rooted`), an entry of a table leads to a table one level below (`Linked`), no
two entries lead to the same one (`Unshared`), every table but the root is led to
(`Reached`); and that a walk in progress stands at the table of its page at its
level (`WalkOK`).  `CallOK` says that a call maps whole pages, as many as were
asked for.

Nothing in the code says at which level a table is, and the definition of
`TreeShaped` goes down from the root; `TreeIsShaped` shows that the levels of the
invariant are the ones it finds, and that gives `TablesFormATree`.  What a tree
does to translations is stated over any tables: the tables that two pages use
meet as long as their indexes agree (`PathsMeet`), and from then on not again; so
writing a leaf changes the translation of the pages with the same indexes and of
no other (`LeafWritten`), and hanging an empty table on an empty entry that of
none (`GrownTree`).  `SamePage` is the arithmetic behind it: two pages have the
same indexes at every level exactly if they are equal modulo the size of the
virtual memory, that is, if they are the same page of `AddressMap`.  With it each
step of a call is a step of `AddressMap` or a stutter (`MapIsImplemented`): the
entry of `pagetable_map` begins a request, a leaf assigns the next page of it, a
failed allocation ends it early, and the turns of the walk show nothing.

### Boot

*Assumed* (`LinkAssumption`): the order of the sections in `loader.ld`.
(`BootAssumption`): `LaidOut`, the layout that `basic.c` gives an image, proved in
part below as `PayloadIsFound`, and a bootloader that keeps its information out of
the image; `Guarded`, the counterpart of `GuardAssumption`.

*Argument.*  The loader moves what it needs out of the payload's way, one object
after the other, into memory that it takes from the free interval.
`LoaderInv` says, for `Regular` boots (there is a memory map entry for the
loader, and it is `Protected`):

* `Places`: the program counter and the registers that carry addresses over to
  the jumper and to the payload agree with where things are.
* `BeforeMalloc`: until there is an allocator, memory is as the bootloader left it.
* `AtWork`, by `Intact`: the loader, the payload's source, the stack, the
  information and the tables are whole, and none of them meets the free
  interval, from which everything is taken; nor does the payload's target.
* `OutOfTheWay`: what has been moved does not meet the target: the information,
  then the stack, then the jumper.  This is what the order of the calls in
  `main` is for.
* `InTheJumper`: once the loader may be overwritten, only the stack, the
  information, the jumper and the tables are needed, and after the move the
  payload.
* `AtTheEnd`: how a boot can end.

The allocator's part is taken from `AllocatorProofs`, by an instance.  A step
takes memory (`RelocationBlock`, `TablePageResult`) or writes only memory that was
free (`Quiet`) or that belongs to the target (`ImageOnly`), and the lemmas named
`...Still` say what that leaves as it was.  `PayloadMoves` is the interesting
step: the target may cover the loader, the source, or both.  `NothingIsLost`
and `PayloadIsPresent` follow, and say which boots they are about.  The second also
says that every table lies in the block that the payload's registers name.

### Boot with its page table

*Assumed*, besides: (`AddressAssumption`) pages divide the physical addresses, and
the virtual memory is no smaller than the physical one.

*Argument.*  `BootInv` adds to `LoaderInv`:

* `TreeKept`: no table before `pagetable_install`, `MapInv` of the page table from
  then on.  The calls of `setup_paging` are calls of `PageTable` on memory that it
  shares with everything else; that nothing else writes a table comes from
  `LoaderInv`.
* `Mappings`: which pages show what (`Shown`).  A call of `pagetable_map` in
  progress shows the pages it has done (`Running`), and by `MapInv` touches no
  page but those; so the second call leaves the identity mapping as it was exactly
  if the payload's pages are apart from it, which is `VaddrApart`.
* `WithinIdentity`: free memory, and then the stack and the jumper taken from it,
  end inside the identity mapping.
* `JumperReady`: the registers of the jumper hold what its next step needs.

`PayloadIsMapped` speaks of `Protected` boots: they map the payload, whatever
`-a` says, as the second call of `pagetable_map` comes last.  `NoFaultEver` is about
`GoodBoot`: paging starts under the jumper's feet, which stand on the identity
mapping, and the payload is entered through its own.

### Payload move

`MoveInv` says at every step which bytes have arrived and which are still as at
the start; going down the source pointer is always ahead of the destination
pointer, going up behind it, so the byte about to be read is one that has not
been written.  *Assumed* (`HeaderAssumption`): the addresses of a header are in
order, and in memory.

### Information

*Assumed* (`InfoAssumption`): the information is aligned, and its list ends with a
tag that has a size, as the specification of multiboot2 wants of its end tag.
Tags of size 0 in the middle are allowed.

*Argument.*  `InfoInv`: the search stands at the beginning of a tag, in front of
which none has the type; as all offsets are multiples of the alignment and the
size counts into the last tag or its padding, the pointer behind a tag is inside
the information exactly if there is another tag.  At the top of memory the
pointer behind the last tag is 0, which is also the answer for a type that is not
there: the code is right there without a test.

### Console

`ScreenInv` says that whole lines have scrolled away, so that lines and tab stops
of screen and page coincide; every kind of character ends in `Finish`, about which
the lemma `Finished` says that it is a `MoveTo` on the page.  *Assumed*
(`ScreenAssumption`): a line is a whole number of tab stops and longer than one,
and the two registers can hold every place.  The formatted output is a client of
that screen (`OutputUsesScreen`), for any calls, so that the theorems hold of all
that the loader prints.

`FormatInv` is about a call.  `OutputInv` says that the handler has got what it was
offered (`Accepted`), that nothing is left over between two calls, and that the
flag to stop is never set: the handler of `snprintk` refuses, but resets it.
`FieldInv` says that the directive at hand has a minimum size and an argument of its
type.  *Assumed* (`CallAssumption`): a call goes to the screen or to a buffer, and
its format is a sequence; the arguments fit because `Directive` asks for it (`Fits`).

`FieldsReadBack` is arithmetic.  The divisors of a number are the powers of the
base, `NumberLength` finds the first that is larger than it (`FiguresNeeded`), the
figures that `Radical` takes one by one from the end are its quotients
(`Quotients`), and reading them gives it back from any of its figures on
(`FiguresRead`); blanks, signs and the prefix of the base have no value in front
of it, and zeros have value 0 (`NumberField`).

### Header search

`FirstHeaderFound` is about searches without short reads, which `FoundIsHeader`
shows to be needed.  `SearchInv` relates the buffer to the window of the file and
says that no offset tried so far has a header.

### User page table

*Assumed* (`SizeAssumption`): a page is as many entries as a table has; mappings
and addresses are numbers.  The aligned ones among them are those that the code
lets through.

*Argument.*  `PagetableInv` says that what `materialize_pagetable` has returned is
`Concrete` of the list; the rest is about that function.  The tables of a buffer
show a map of pages (`Shows`) if they can be labelled: each with a level and with
the number that its pages begin with (`Labelled`).  A label belongs to one table, an
entry leads to the table whose label goes with it, every table but the first is
led to, and the entries of the lowest level are the map.  Taking a table from the
end of the buffer and linking it keeps the map (`TableAdded`), a leaf changes it at
one page (`LeafWritten`); so each turn of the walk stands at the table of its page
(`DownStep`), a whole walk adds the page (`PageFilled`), and a list of mappings adds
its pages one after the other, each `Later` than all before it (`PageDrawn`,
`MappingDrawn`, `ConcreteDrawn`).  From the labels follow both theorems: the
processor takes the same way down (`TranslateShown`), for a page that is not mapped
until it is missing a table, and no two entries lead to one table (`OneLink`).
Offsets in the buffer, not addresses, are labelled, which is why it does not
matter where the table is dumped.

That the functions which `Concrete` is made of exist, for any number of levels,
pages and mappings, is proved first (`WalkTaken`, `FillTurns`, `ConcreteTurns`).

### Parsers, `main` and the image

*Assumed* (`InputAssumption`): a file's list of tags is given up to the end of its
header, or to a tag of size 0, behind which nobody looks.  (`MachineAssumption`):
what a command line names is on the disk (a file that is missing is one that
cannot be opened), option `-o` comes with its argument, as `argp` guarantees, and
the fields of a tag are words.

*Arguments.*

* `ParserInv`: the walk stands at some tag (`Passed`) and has recorded the last
  tag of either type in front of it (`Noted`), unless a tag of size 0 holds it up
  (`Stuck`).  At the end of the header the last tag in front of it is the last
  one that header_length counts, which is what `SchemeRight` asks.
* `MainInv`: which options have been read, that none of them asked for
  information, and what `args` holds of them; while a parser runs `ParserInv`
  holds of it; by the time the output is opened the command line has all that an
  image takes (`Works`).
* `BuildInv`: while nothing has failed (`Undisturbed`), what a copy has put into
  the image (`Put`) and has read (`Fetched`) goes with the positions of the
  descriptors (`Copying`), and every byte of the image is that of the last step
  of write_basic that has covered it (`ImageSoFar`).  The part of the buffer that
  is going to be written is what has been read from the source, whatever the rest
  holds; that is what short reads and writes could break.
* `LoadInv`: the scheme of the loader says truly which byte of its file is loaded
  at its load address.  With `ImageExact` it gives `PayloadIsFound`: the byte at
  the address in the mistral header comes from the payload.
* No part of `main` that exits with failure comes after the call of `open`
  (`OutputKeptOnFailure`).

`ImageExact` speaks of files that hold what their headers say (`Coherent`), and
`PayloadFound` of images whose parts fit (`Fitting`): the headers written do not
reach behind the loader's part, and the sums of `initialize_basic` do not wrap
around.  The code tests neither.

### Numbers

Arithmetic of quotients by a number that is not fixed, which the solvers do not
find alone (`TwoQuotients` divides by a product), and functions defined by
recursion over a range of numbers.  That such
a function exists must be proved before its equation can be used:
`UpwardFunction` and `DownwardFunction` do it for the levels of the tree,
`RunningSum` for the offsets of tags, `ScaleSteps` for the powers of a number: the
entries that a table at a level stands for, and the divisors of figures.  All
follow from `SetInduction`.

### Only model-checked

* All liveness (`CallsReturn`, `BootEnds`, `GoodBootEnters`, `SearchEnds`,
  `ParseReturns`, `SearchReturns`, `MainEnds`, `PrintReturns`): fairness is stated
  with `ENABLED`, out of the prover's reach.
* `Loader.AvailableMapped`, which the code violates, and
  `HeaderSearch.FoundIsHeader`, likewise.
* That the buffer of the user page table and its array of mappings are large enough,
  which they are not always (see 6): the theorems about it begin with `intact`.

## 5. Not modelled

* The printing of option `-s` (`display_payload`, `mistral/print.c`): output
  without state.
* `finalize_pagetable` of the userland page table, which frees and is called by
  nothing.
* The wrappers of `cpuid.h`, `segment.h` and `asm.h`, and the descriptor tables:
  the processor checks are Booleans of a boot, and the segments are the code
  segment's kind.
* Colours on the screen, and the attribute byte of a character.
* The sample payload and the build files.  The layout that `loader.ld` gives the
  loader is a set of constants of `Loader`.
* In `mistral`, the exhaustion of memory is one of the ways in which a parser
  fails (`Fail`).

## 6. Where the code departs from what is written

Two runs show a departure:

* `loader_large_memory`: `mistral/main.c:52-54` promises an identity mapping of
  all available physical memory; `loader/main.c:191` maps nothing above 4G.
* `header_short_reads`: `include/mistral/mistral.h:15` promises that the offset
  found can be read as a header; `mistral/mistral.c:50` (and
  `mistral/multiboot2.c:51`) read every part of a file to the start of the
  buffer.

Others were met while modelling, are reproduced by the model, and have no run of
their own:

* `mistral/mistral.c:14`: a file shorter than a header makes the search run past
  its buffer (`Verdicts`); for one that is short by up to eight bytes the bound is
  the last offset that `i` can have and never ends the loop (`SearchEnds`).
* `mistral/multiboot2.c:63`: a header shorter than the structure is copied in part,
  and `loader.c:131` reads a length that has not been written (`LengthUnset`).
* `mistral/pagetable.c:11`: the array of mappings is used without a test whether
  `malloc` has given it (`InitializePagetable`).
* `mistral/loader.c:97`: a tag of size 0 makes the parsers loop for ever
  (`WalkTag`).
* `mistral/basic.c:168`: a payload header longer than the loader's overwrites
  the loader's code behind it; a TODO of `include/mistral/basic.h:24` plans for
  it.
* `mistral/basic.c:143`, `mistral/main.c:275`: failures of `write_basic` are not
  reported: `main` exits with success (`Exit`).
* `loader/printk.c:129`: when the buffer of `snprintk` is full the handler's
  refusal sets the flag that should stop the output to `FALSE` (`Store`).
* `loader/printk.c:221`: a format that ends inside a directive has its NUL
  consumed, and the loop goes on behind it (`Wild`).
* `loader/printk.c:239`: the text for a number that does not fit goes to the
  screen also in `snprintk` (`Directive`).
* `mistral/main.c:72`: the usage text names bits 4 and 6 of `EFER` for the two bits
  of long mode that `include/loader/control.h` has at 8 and 10.
* `mistral/pagetable.c:67-70`: `include/mistral/pagetable.h:49-50` says of
  `update_pagetable` "Return 0 if the new mapping does not overlap with any previous
  mapping, -1 in case of failure or if it overlaps", but a mapping that contains an
  older one is accepted, and one that only touches it is refused (`Touches`).
* `mistral/pagetable.c:175`: `include/mistral/pagetable.h:21` calls `capacity` the
  "size of the maps array", but `materialize_pagetable` stores the size of the buffer
  in it, instead of in `bufcap`: later mappings are written past the end of the array
  (`intact`).
* `mistral/pagetable.c:92`: `include/mistral/pagetable.h:58` says of
  `materialize_pagetable` "Return a pointer to an internal buffer containing the
  concrete page table", but `compute_concrete_size` may give less than the table takes,
  as for a mapping across the end of a table (`intact`).
* `loader/main.c:234`: neither the payload's image nor the stack is reserved
  (`Protected`).
* `loader/vga.c:75`: a tab from the last column before a stop skips that stop
  (`EndlessPage!Tab` allows one of the next two).

## 7. Plan

Done: all components but those of section 5, and the theorems of section 4. What is
left are links between modules that now agree because they are written from the same
operators: that `PayloadMove` implements the step `RelocatePayload` of `Loader`
(`Moved` and `TargetOnly` together say of its memory what that step says of `ram`,
as the comparison of the two definitions shows), and that the image `Mistral` writes
is one that `Loader` boots.
