---------------------------- MODULE UserPageTable ----------------------------
(***************************************************************************)
(* The page table builder of the userland library (mistral/pagetable.c): a *)
(* list of mappings that materialize_pagetable turns into the tables as    *)
(* they are to be dumped at a physical address.                            *)
(*                                                                         *)
(* mapsRoom is what malloc and realloc really gave for the array of        *)
(* mappings.  capacity does not always say it, and the buffer is not       *)
(* always large enough: intact is a history variable, FALSE once something *)
(* has been written past the end of either, after which nothing is known.  *)
(***************************************************************************)
EXTENDS Integers, Sequences, SequencesExt

CONSTANTS PageSize, PgdSize, PteSize, PageLevel,
          InitialCapacity,     \* PAGETABLE_MAPS_INITIAL_CAPACITY
          Mappings,            \* arguments of update_pagetable, which end below
                               \*  the last of the 64-bit addresses
          Ats,                 \* addresses to materialize the table for
          MaxCalls             \* bound on the number of calls

ASSUME SizeAssumption ==
    /\ {PageSize, PgdSize, PteSize, PageLevel, InitialCapacity} \subseteq Nat \ {0}
    /\ PageSize = PgdSize * PteSize
    /\ Mappings \subseteq [vaddr : Nat, paddr : Nat, size : Nat]
    /\ Ats \subseteq Nat

VARIABLES self,        \* struct pagetable, without the two pointers
          tables,      \* what is in its buffer, by offset
          at,          \* the address it was last materialized for
          mapsRoom,    \* mappings that fit in the memory of maps
          intact,      \* whether every write was inside its array
          last,        \* the last call and what it returned
          calls        \* number of calls

pagetableVars == <<self, tables, at, mapsRoom, intact, last, calls>>

NoCall == [call |-> "none", ret |-> TRUE]

\* The array of mappings is not looked at when it is allocated.
InitializePagetable ==
    /\ self = [maps |-> <<>>, capacity |-> InitialCapacity,
               bufcap |-> 0, bufsize |-> 0]
    /\ tables = <<>>
    /\ at = 0
    /\ mapsRoom \in {0, InitialCapacity}
    /\ intact = TRUE
    /\ last = NoCall
    /\ calls = 0

Aligned(n) == n % PageSize = 0

AlignUp(n) == ((n + PageSize - 1) \div PageSize) * PageSize

End(map) == map.vaddr + map.size

\* The test of update_pagetable against one of the previous mappings: the new
\* one begins, or ends, inside the old one or right at its bounds.
Touches(old, new) ==
    \/ old.vaddr <= new.vaddr /\ End(old) >= new.vaddr
    \/ End(old) >= End(new) /\ old.vaddr <= End(new)

Accepts(map) ==
    /\ Aligned(map.vaddr) /\ Aligned(map.paddr) /\ Aligned(map.size)
    /\ map.size # 0
    /\ \A i \in DOMAIN self.maps : ~ Touches(self.maps[i], map)

Return(call, ret) ==
    /\ last' = [call |-> call, ret |-> ret]
    /\ calls < MaxCalls
    /\ calls' = calls + 1

\* append_mapping, the array of mappings growing when size reaches capacity.
Full == Len(self.maps) = self.capacity

UpdatePagetable(map) ==
    /\ Accepts(map)
    /\ self' = [self EXCEPT !.maps = Append(@, map),
                            !.capacity = IF Full THEN 2 * @ ELSE @]
    /\ mapsRoom' = IF Full THEN 2 * self.capacity ELSE mapsRoom
    /\ intact' = (intact /\ Len(self.maps) < mapsRoom')
    /\ Return("update", TRUE)
    /\ UNCHANGED <<tables, at>>

\* The mapping is refused, or realloc fails.
RefuseUpdate(map) ==
    /\ ~ Accepts(map) \/ Full
    /\ Return("update", FALSE)
    /\ UNCHANGED <<self, tables, at, mapsRoom, intact>>

-----------------------------------------------------------------------------
\* The bytes of tables that one mapping takes, level by level.
MappingSize(map) ==
    LET level[j \in 0 .. PageLevel - 1] ==
            IF j = 0 THEN AlignUp((map.size * PteSize) \div PageSize)
            ELSE AlignUp(level[j - 1] \div PgdSize)
    IN  FoldLeft(LAMBDA sum, j : sum + level[j - 1], 0, [j \in 1 .. PageLevel |-> j])

\* compute_concrete_size
ComputeConcreteSize ==
    FoldLeft(LAMBDA sum, map : sum + MappingSize(map), 0, self.maps)

\* Pages per entry of a table at a level, and in the virtual memory.
Span[lvl \in 1 .. PageLevel] == IF lvl = 1 THEN 1 ELSE PgdSize * Span[lvl - 1]

VPages == PgdSize * Span[PageLevel]

PteIndexAtLevel(vaddr, lvl) == ((vaddr \div PageSize) \div Span[lvl]) % PgdSize

NoEntry == [addr |-> 0, flags |-> {}]

\* The entry for a table at an address, and for a page at one.
TableEntry(paddr) == [addr |-> paddr, flags |-> {"W", "PWT", "P"}]

Leaf(paddr) == [addr |-> paddr, flags |-> {"W", "P"}]

EmptyTable == [index \in 0 .. PgdSize - 1 |-> NoEntry]

\* Mistaken: leaves a gap behind the new table.
LinkGap(buf, pgd, index, base) ==
    LET entry == TableEntry(base + buf.size)
    IN  [tables |-> [t \in DOMAIN buf.tables \union {buf.size} |->
                        IF t = buf.size THEN EmptyTable
                        ELSE IF t = pgd
                             THEN [buf.tables[t] EXCEPT ![index] = entry]
                             ELSE buf.tables[t]],
         size   |-> buf.size + 2 * PageSize]

\* The tables of buf with one more, linked from an entry of pgd.
Link(buf, pgd, index, base) ==
    LET entry == TableEntry(base + buf.size)
    IN  [tables |-> [t \in DOMAIN buf.tables \union {buf.size} |->
                        IF t = buf.size THEN EmptyTable
                        ELSE IF t = pgd
                             THEN [buf.tables[t] EXCEPT ![index] = entry]
                             ELSE buf.tables[t]],
         size   |-> buf.size + PageSize]

\* A turn of the walk of fill_concrete_page: a missing table is taken from the end
\* of the buffer.
Down(walk, lvl, base, vaddr) ==
    LET index == PteIndexAtLevel(vaddr, lvl)
        next  == IF walk.buf.tables[walk.pgd][index] = NoEntry
                 THEN Link(walk.buf, walk.pgd, index, base) ELSE walk.buf
    IN  [buf |-> next,
         pgd |-> next.tables[walk.pgd][index].addr - base]

\* fill_concrete_page: the walk from the highest level to the second, and the leaf.
FillConcretePage(buf, base, vaddr, paddr) ==
    LET walk[lvl \in 1 .. PageLevel] ==
            IF lvl = PageLevel THEN [buf |-> buf, pgd |-> 0]
            ELSE Down(walk[lvl + 1], lvl + 1, base, vaddr)
        found == walk[1]
    IN  [found.buf EXCEPT
            !.tables[found.pgd][PteIndexAtLevel(vaddr, 1)] = Leaf(paddr)]

\* Mistaken: every page on the first physical page.
FillSamePage(buf, base, map) ==
    LET fill[n \in 0 .. map.size \div PageSize] ==
            IF n = 0 THEN buf
            ELSE FillConcretePage(fill[n - 1], base,
                                  map.vaddr + (n - 1) * PageSize, map.paddr)
    IN  fill[map.size \div PageSize]

\* fill_concrete_buffer
FillConcreteBuffer(buf, base, map) ==
    LET fill[n \in 0 .. map.size \div PageSize] ==
            IF n = 0 THEN buf
            ELSE FillConcretePage(fill[n - 1], base,
                                  map.vaddr + (n - 1) * PageSize,
                                  map.paddr + (n - 1) * PageSize)
    IN  fill[map.size \div PageSize]

\* The loop of materialize_pagetable, from an empty table of the highest level.
Concrete(maps, base) ==
    LET concrete[n \in 0 .. Len(maps)] ==
            IF n = 0 THEN [tables |-> [t \in {0} |-> EmptyTable], size |-> PageSize]
            ELSE FillConcreteBuffer(concrete[n - 1], base, maps[n])
    IN  concrete[Len(maps)]

\* The buffer is always reallocated since nothing ever sets bufcap; what it is
\* given goes to capacity.
MaterializePagetable(base) ==
    LET upper == ComputeConcreteSize
        table == Concrete(self.maps, base)
    IN  /\ Aligned(base)
        /\ upper > self.bufcap
        /\ self' = [self EXCEPT !.capacity = upper, !.bufsize = table.size]
        /\ tables' = table.tables
        /\ at' = base
        /\ intact' = (intact /\ table.size <= upper)
        /\ Return("materialize", TRUE)
        /\ UNCHANGED mapsRoom

\* The address is not aligned, or realloc fails.
RefuseMaterialize(base) ==
    /\ ~ Aligned(base) \/ ComputeConcreteSize > self.bufcap
    /\ Return("materialize", FALSE)
    /\ UNCHANGED <<self, tables, at, mapsRoom, intact>>

\* Without any mapping there is no buffer, and the pointer returned is NULL.
MaterializeNothing(base) ==
    /\ Aligned(base)
    /\ ComputeConcreteSize <= self.bufcap
    /\ self' = [self EXCEPT !.bufsize = PageSize]
    /\ Return("materialize", FALSE)
    /\ UNCHANGED <<tables, at, mapsRoom, intact>>

PagetableNext ==
    \/ \E map \in Mappings : UpdatePagetable(map) \/ RefuseUpdate(map)
    \/ \E base \in Ats : \/ MaterializePagetable(base)
                         \/ RefuseMaterialize(base)
                         \/ MaterializeNothing(base)

PagetableSpec == InitializePagetable /\ [][PagetableNext]_pagetableVars

-----------------------------------------------------------------------------
\* What the processor finds in the materialized table for a virtual address.
Translate(vaddr) ==
    LET table[lvl \in 1 .. PageLevel] ==
            IF lvl = PageLevel THEN 0
            ELSE LET up == table[lvl + 1]
                 IN  IF up = -1 THEN -1
                     ELSE LET e == tables[up][PteIndexAtLevel(vaddr, lvl + 1)]
                          IN  IF e = NoEntry THEN -1 ELSE e.addr - at
    IN  IF table[1] = -1 THEN NoEntry
        ELSE tables[table[1]][PteIndexAtLevel(vaddr, 1)]

Materialized == last.call = "materialize" /\ last.ret /\ intact

\* The pages of a list of mappings, each with the place of its mapping, in the
\* order in which they are written.
PagesOf(maps) ==
    UNION {{n} \X (0 .. maps[n].size \div PageSize - 1) : n \in DOMAIN maps}

Later(q, p) == q[1] > p[1] \/ (q[1] = p[1] /\ q[2] > p[2])

\* Where a page is in the virtual memory: the tables do not look at the high bits
\* of an address.
Place(maps, p) == (maps[p[1]].vaddr \div PageSize + p[2]) % VPages

\* The table that materialize_pagetable returns maps every page on what the last
\* page of the list with its place is mapped on, and no other page, wherever it
\* is dumped.
ConcreteMap ==
    Materialized
    => LET maps == self.maps
       IN  \A v \in 0 .. VPages - 1 :
              LET Here == {p \in PagesOf(maps) : Place(maps, p) = v}
              IN  \/ Here = {} /\ Translate(v * PageSize) = NoEntry
                  \/ \E p \in Here :
                        /\ \A q \in Here : ~ Later(q, p)
                        /\ Translate(v * PageSize) =
                              Leaf(maps[p[1]].paddr + p[2] * PageSize)

\* The tables fill the first bufsize bytes of the buffer without a gap, each
\* but the first linked from exactly one entry: the length given to the caller
\* is the length to dump.
ConcreteDense ==
    Materialized
    => /\ DOMAIN tables = {t \in 0 .. self.bufsize - 1 : Aligned(t)}
       /\ \A t \in DOMAIN tables \ {0} :
             \E p \in DOMAIN tables, x \in 0 .. PgdSize - 1 :
                /\ tables[p][x] = TableEntry(at + t)
                /\ \A q \in DOMAIN tables, y \in 0 .. PgdSize - 1 :
                      tables[q][y] = tables[p][x] => q = p /\ y = x
=============================================================================
