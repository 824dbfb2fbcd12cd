----------------------------- MODULE PageTable -----------------------------
(***************************************************************************)
(* The loader's page table (loader/pagetable.c): the tree of tables that   *)
(* pagetable_install starts and pagetable_map extends, one level of one    *)
(* page at a time, with tables taken from the permanent memory of the      *)
(* allocator.                                                              *)
(*                                                                         *)
(* A table is a function from indexes to entries; an entry is the address  *)
(* and the flags that the code ORs together.                               *)
(***************************************************************************)
EXTENDS AllocatorOps

CONSTANTS PageSize,    \* bytes of a page, and of a table
          PgdSize,     \* entries of a table
          PageLevel    \* levels of the tree, 4 in the program

ASSUME PageAssumption ==
    /\ PageSize \in Nat \ {0}
    /\ PgdSize \in Nat \ {0}
    /\ PageLevel \in Nat \ {0}

VARIABLES alloc,       \* this.allocator
          tables,      \* the tables in memory, by address
          cr3,         \* the root of the tree, 0 before pagetable_install
          call         \* the locals of pagetable_map and setup_vpage, and the
                       \* size asked for, which the code rounds in place

pageVars == <<alloc, tables, cr3, call>>

Flags == {"PWT", "W", "P"}

NoEntry == [addr |-> 0, flags |-> {}]

Entry(addr) == [addr |-> addr, flags |-> Flags]

EmptyTable == [index \in 0 .. PgdSize - 1 |-> NoEntry]

\* The number of pages below an entry of a table.
Span[lvl \in 1 .. PageLevel] == IF lvl = 1 THEN 1 ELSE PgdSize * Span[lvl - 1]

\* pte_index_at_level
PteIndexAtLevel(vaddr, lvl) == ((vaddr \div PageSize) \div Span[lvl]) % PgdSize

PageOffset(addr) == addr % PageSize

\* PAGE_ALIGN, on a size_t
PageAlign(size) ==
    IF PageOffset(size) = 0 THEN size
    ELSE Wrap(AlignDown(size, PageSize) + PageSize)

Idle(ret) == [call EXCEPT !.pc = "idle", !.ret = ret]

PageInit ==
    /\ tables = <<>>
    /\ cr3 = 0
    /\ call = [pc |-> "idle", vaddr |-> 0, paddr |-> 0, asked |-> 0, size |-> 0,
               i |-> 0, lvl |-> PageLevel, pgd |-> 0, ret |-> TRUE]

\* Mistaken: the new table is not linked.
GrowUnlinked(p, pgd, index) ==
    [t \in DOMAIN tables \union {p} |-> IF t = p THEN EmptyTable ELSE tables[t]]

\* A cleared table at address p, linked from the entry at index of pgd.
Grow(p, pgd, index) ==
    [t \in DOMAIN tables \union {p} |->
        IF t = p THEN EmptyTable
        ELSE IF t = pgd THEN [tables[t] EXCEPT ![index] = Entry(p)]
        ELSE tables[t]]

-----------------------------------------------------------------------------
\* Returns FALSE when it leaves cr3 at 0.
PagetableInstall ==
    LET pgd == AllocatePermanent(alloc, PageSize, PageSize)
    IN  /\ call.pc = "idle"
        /\ cr3 = 0
        /\ alloc' = pgd.self
        /\ IF pgd.addr = 0
           THEN UNCHANGED <<tables, cr3>>
           ELSE /\ tables' = [t \in {pgd.addr} |-> EmptyTable]
                /\ cr3' = pgd.addr
        /\ UNCHANGED call

MayMap(vaddr, paddr, size) ==
    /\ cr3 # 0
    /\ \A addr \in {cr3, vaddr, paddr} : PageOffset(addr) = 0
    /\ size # 0

\* The entry of pagetable_map, up to its loop.
PagetableMap(vaddr, paddr, size) ==
    /\ call.pc = "idle"
    /\ call' = IF MayMap(vaddr, paddr, size)
               THEN [call EXCEPT !.pc = "loop", !.vaddr = vaddr,
                                 !.paddr = paddr, !.asked = size,
                                 !.size = PageAlign(size), !.i = 0]
               ELSE Idle(FALSE)
    /\ UNCHANGED <<alloc, tables, cr3>>

\* Mistaken: one page too many.
NextPageInclusive ==
    /\ call.pc = "loop"
    /\ call' = IF call.i <= call.size
               THEN [call EXCEPT !.pc = "walk", !.lvl = PageLevel, !.pgd = cr3]
               ELSE Idle(TRUE)
    /\ UNCHANGED <<alloc, tables, cr3>>

\* The loop of pagetable_map calls setup_vpage for the next page, or is over.
NextPage ==
    /\ call.pc = "loop"
    /\ call' = IF call.i < call.size
               THEN [call EXCEPT !.pc = "walk", !.lvl = PageLevel, !.pgd = cr3]
               ELSE Idle(TRUE)
    /\ UNCHANGED <<alloc, tables, cr3>>

VirtualAddr  == call.vaddr + call.i
PhysicalAddr == Wrap(call.paddr + call.i)
Index        == PteIndexAtLevel(VirtualAddr, call.lvl)

Descend(pgd) == call' = [call EXCEPT !.pgd = pgd, !.lvl = @ - 1]

\* Mistaken: takes a leaf for a table.
WalkPresentTooFar ==
    /\ call.pc = "walk" /\ call.lvl >= 1
    /\ tables[call.pgd][Index] # NoEntry
    /\ Descend(tables[call.pgd][Index].addr)
    /\ UNCHANGED <<alloc, tables, cr3>>

\* Mistaken: the table is taken from the transient memory.
WalkAbsentTransient ==
    LET p == AllocateTransient(alloc, PageSize, PageSize)
    IN  /\ call.pc = "walk" /\ call.lvl > 1
        /\ tables[call.pgd][Index] = NoEntry
        /\ alloc' = p.self
        /\ IF p.addr = 0
           THEN call' = Idle(FALSE) /\ UNCHANGED tables
           ELSE tables' = Grow(p.addr, call.pgd, Index) /\ Descend(p.addr)
        /\ UNCHANGED cr3

\* Mistaken: the loop does not advance.
WriteLeafStays ==
    /\ call.pc = "walk" /\ call.lvl = 1
    /\ tables' = [tables EXCEPT ![call.pgd][Index] = Entry(PhysicalAddr)]
    /\ call' = [call EXCEPT !.pc = "loop"]
    /\ UNCHANGED <<alloc, cr3>>

\* One turn of the loop of setup_vpage that finds the next table.
WalkPresent ==
    /\ call.pc = "walk" /\ call.lvl > 1
    /\ tables[call.pgd][Index] # NoEntry
    /\ Descend(tables[call.pgd][Index].addr)
    /\ UNCHANGED <<alloc, tables, cr3>>

\* One turn that has to allocate it, and may fail: setup_vpage then returns
\* FALSE, the loop of pagetable_map stops and the tables built so far remain.
WalkAbsent ==
    LET p == AllocatePermanent(alloc, PageSize, PageSize)
    IN  /\ call.pc = "walk" /\ call.lvl > 1
        /\ tables[call.pgd][Index] = NoEntry
        /\ alloc' = p.self
        /\ IF p.addr = 0
           THEN call' = Idle(FALSE) /\ UNCHANGED tables
           ELSE tables' = Grow(p.addr, call.pgd, Index) /\ Descend(p.addr)
        /\ UNCHANGED cr3

\* setup_vpage writes the leaf, whatever it held, and the loop goes on.
WriteLeaf ==
    /\ call.pc = "walk" /\ call.lvl = 1
    /\ tables' = [tables EXCEPT ![call.pgd][Index] = Entry(PhysicalAddr)]
    /\ call' = [call EXCEPT !.pc = "loop", !.i = Wrap(@ + PageSize)]
    /\ UNCHANGED <<alloc, cr3>>

MapStep == NextPage \/ WalkPresent \/ WalkAbsent \/ WriteLeaf

-----------------------------------------------------------------------------
VPages == PgdSize * Span[PageLevel]

\* The tables of a level, the root alone at the highest.
TablesAt[lvl \in 1 .. PageLevel] ==
    IF lvl = PageLevel
    THEN {cr3} \ {0}
    ELSE {e.addr : e \in (UNION {{tables[t][x] : x \in DOMAIN tables[t]} :
                                    t \in TablesAt[lvl + 1]}) \ {NoEntry}}

\* The tables that the processor reads for a virtual address, 0 if it lacks one.
TablesFor(vaddr) ==
    LET table[lvl \in 1 .. PageLevel] ==
            IF lvl = PageLevel
            THEN cr3
            ELSE LET up == table[lvl + 1]
                 IN  IF up = 0
                     THEN 0
                     ELSE tables[up][PteIndexAtLevel(vaddr, lvl + 1)].addr
    IN  table

\* The leaf entry that it finds.
Translate(vaddr) ==
    LET table == TablesFor(vaddr)[1]
    IN  IF table = 0 THEN NoEntry ELSE tables[table][PteIndexAtLevel(vaddr, 1)]

-----------------------------------------------------------------------------
\* The tables that pagetable_map links form a tree: no table is shared by two
\* entries or found at two levels, so a leaf written for one page never shows
\* through another.
TreeShaped ==
    LET Links(lvl) == {link \in TablesAt[lvl] \X (0 .. PgdSize - 1) :
                          tables[link[1]][link[2]] # NoEntry}
        Linked(link) == tables[link[1]][link[2]].addr
    IN  /\ \A l, m \in 1 .. PageLevel :
              l # m => TablesAt[l] \cap TablesAt[m] = {}
        /\ \A l \in 2 .. PageLevel : \A a, b \in Links(l) :
              Linked(a) = Linked(b) => a = b
        /\ DOMAIN tables = UNION {TablesAt[l] : l \in 1 .. PageLevel}

\* Every table is an aligned page inside [from, free), the block of memory
\* that the payload is told to preserve until it has a page table of its own.
TablesReclaimable ==
    \A t \in DOMAIN tables :
        /\ PageOffset(t) = 0
        /\ alloc.from <= t /\ t + PageSize <= alloc.free

\* The tree of tables implements the map of AddressMap: what a call changes is
\* the translation of the pages it asks for, and of no other page.
Map == INSTANCE AddressMap WITH
           Unmapped <- NoEntry,
           Mapped   <- LAMBDA ppage : Entry(Wrap(ppage * PageSize)),
           map      <- [v \in 0 .. VPages - 1 |-> Translate(v * PageSize)],
           request  <- [vpage |-> call.vaddr \div PageSize,
                        ppage |-> call.paddr \div PageSize,
                        count |-> (call.asked + PageSize - 1) \div PageSize],
           done     <- call.i \div PageSize,
           busy     <- call.pc # "idle",
           success  <- call.ret

MapSpec == Map!Spec

\* The loops of pagetable_map and setup_vpage end.
CallsReturn == call.pc # "idle" ~> call.pc = "idle"
=============================================================================
