---------------------------- MODULE LoaderProofs ----------------------------
(***************************************************************************)
(* Proofs about the boot, for memories, images, memory maps and pages of   *)
(* every size that satisfy the assumptions of Loader: whatever is still    *)
(* needed is neither overwritten nor given away, and the payload finds     *)
(* what it was promised in memory.                                         *)
(***************************************************************************)
EXTENDS Loader, PageTableClient, Numbers, TLAPS

-----------------------------------------------------------------------------
(***************************************************************************)
(* The page table: under any calls, for pages, tables and trees of every   *)
(* size and any memory that ends below the last two pages of the address   *)
(* space.                                                                  *)
(***************************************************************************)
Addrs == 0 .. Word
Entries == [addr : Addrs, flags : {{}, Flags}]
Locals == {"pc", "vaddr", "paddr", "asked", "size", "i", "lvl", "pgd", "ret"}

\* The permanent memory grows within what the allocator was given.
MemoryOK ==
    /\ alloc \in [from : Nat, free : Nat, to : Nat]
    /\ alloc.from <= alloc.free /\ alloc.free <= alloc.to
    /\ alloc.to + 2 * PageSize <= Word

LocalsOK ==
    /\ DOMAIN call = Locals
    /\ call.pc \in {"idle", "loop", "walk"}
    /\ call.lvl \in 1 .. PageLevel
    /\ call.paddr \in Nat /\ call.i \in Nat

TablesOK ==
    \A t \in DOMAIN tables :
        t \in Addrs /\ tables[t] \in [0 .. PgdSize - 1 -> Entries]

PageInv ==
    /\ MemoryOK /\ LocalsOK /\ TablesOK /\ TablesReclaimable
    /\ cr3 \in Addrs

ClientInv == PageInv /\ calls \in 0 .. MaxCalls

-----------------------------------------------------------------------------
\* A page of permanent memory is aligned, behind all that has been handed out
\* and before what is handed out next.
LEMMA PermanentPage ==
    ASSUME MemoryOK
    PROVE  LET p == AllocatePermanent(alloc, PageSize, PageSize)
           IN  \/ p.addr = 0 /\ p.self = alloc
               \/ /\ p.addr \in Nat /\ PageOffset(p.addr) = 0
                  /\ alloc.free <= p.addr /\ p.addr + PageSize <= Word
                  /\ p.self.free = p.addr + PageSize
                  /\ p.self.from = alloc.from /\ p.self.to = alloc.to
                  /\ p.self \in [from : Nat, free : Nat, to : Nat]
                  /\ p.self.free <= alloc.to
  <1> DEFINE up  == AlignDown(alloc.free, PageSize) + PageSize
             ret == IF alloc.free % PageSize # 0 THEN up ELSE alloc.free
  <1>1. /\ alloc.from \in Nat /\ alloc.free \in Nat /\ alloc.to \in Nat
        /\ alloc.free <= alloc.to /\ alloc.to + 2 * PageSize <= Word
        /\ PageSize \in Nat \ {0} /\ Word \in Nat \ {0}
    BY PageAssumption, WordAssumption DEF MemoryOK
  <1>2. /\ up \in Nat /\ up % PageSize = 0
        /\ alloc.free < up /\ up <= alloc.free + PageSize
        /\ alloc.free % PageSize # 0 => up < alloc.free + PageSize
    <2> DEFINE free == alloc.free
    <2>1. free \in Nat
      BY <1>1
    <2> HIDE DEF free
    <2>2. /\ free % PageSize \in 0 .. PageSize - 1
          /\ free - (free % PageSize) \in Nat
          /\ (free - (free % PageSize) + PageSize) % PageSize = 0
      BY <1>1, <2>1, Rounded
    <2> QED
      BY <1>1, <2>1, <2>2 DEF AlignDown, free
  <1>3. \A n \in 0 .. Word - 1 : Wrap(n) = n
    BY <1>1, Small DEF Wrap
  <1>4. /\ ret \in Nat /\ ret % PageSize = 0 /\ alloc.free <= ret
        /\ ret < alloc.free + PageSize
    BY <1>1, <1>2
  <1>5. Wrap(up) = up /\ Wrap(ret + PageSize) = ret + PageSize
    <2> HIDE DEF up, ret
    <2>1. up \in 0 .. Word - 1 /\ ret + PageSize \in 0 .. Word - 1
      BY <1>1, <1>2, <1>4
    <2> QED
      BY <1>3, <2>1
  <1>6. AllocatePermanent(alloc, PageSize, PageSize)
            = IF ret + PageSize > alloc.to
              THEN [addr |-> 0, self |-> alloc]
              ELSE [addr |-> ret, self |-> [alloc EXCEPT !.free = ret + PageSize]]
    BY <1>1, <1>5 DEF AllocatePermanent
  <1> HIDE DEF up, ret
  <1>7. CASE ret + PageSize > alloc.to
    BY <1>6, <1>7
  <1>8. CASE ~ ret + PageSize > alloc.to
    <2> DEFINE self == [alloc EXCEPT !.free = ret + PageSize]
    <2>1. self \in [from : Nat, free : Nat, to : Nat] /\ self.free = ret + PageSize
          /\ self.from = alloc.from /\ self.to = alloc.to
      BY <1>1, <1>4 DEF MemoryOK
    <2> HIDE DEF self
    <2>2. AllocatePermanent(alloc, PageSize, PageSize) = [addr |-> ret, self |-> self]
      BY <1>6, <1>8 DEF self
    <2> QED
      BY <1>1, <1>4, <1>8, <2>1, <2>2 DEF PageOffset
  <1> QED
    BY <1>7, <1>8

\* A table in such a page keeps the invariants of memory and tables.
LEMMA NewTable ==
    ASSUME MemoryOK, TablesOK, TablesReclaimable,
           alloc' = AllocatePermanent(alloc, PageSize, PageSize).self
    PROVE  LET p == AllocatePermanent(alloc, PageSize, PageSize)
           IN  /\ MemoryOK'
               /\ \A t \in DOMAIN tables :
                     /\ PageOffset(t) = 0
                     /\ alloc'.from <= t /\ t + PageSize <= alloc'.free
               /\ p.addr # 0 =>
                     /\ p.addr \in Addrs /\ PageOffset(p.addr) = 0
                     /\ alloc'.from <= p.addr /\ p.addr + PageSize <= alloc'.free
  <1> DEFINE p == AllocatePermanent(alloc, PageSize, PageSize)
  <1>1. /\ alloc.from \in Nat /\ alloc.free \in Nat /\ alloc.to \in Nat
        /\ alloc.from <= alloc.free /\ alloc.free <= alloc.to
        /\ alloc.to + 2 * PageSize <= Word
        /\ PageSize \in Nat \ {0} /\ Word \in Nat \ {0}
    BY PageAssumption, WordAssumption DEF MemoryOK
  <1>2. alloc' = p.self
    OBVIOUS
  <1>3. \/ p.addr = 0 /\ p.self = alloc
        \/ /\ p.addr \in Nat /\ PageOffset(p.addr) = 0
           /\ alloc.free <= p.addr /\ p.addr + PageSize <= Word
           /\ p.self.free = p.addr + PageSize
           /\ p.self.from = alloc.from /\ p.self.to = alloc.to
           /\ p.self \in [from : Nat, free : Nat, to : Nat]
           /\ p.self.free <= alloc.to
    BY PermanentPage
  <1> HIDE DEF p
  <1>4. CASE p.addr = 0 /\ p.self = alloc
    BY <1>2, <1>4 DEF MemoryOK, TablesReclaimable, p
  <1>5. CASE ~ (p.addr = 0 /\ p.self = alloc)
    <2>1. MemoryOK'
      BY <1>1, <1>2, <1>3, <1>5 DEF MemoryOK
    <2>2. ASSUME NEW t \in DOMAIN tables
          PROVE  /\ PageOffset(t) = 0
                 /\ alloc'.from <= t /\ t + PageSize <= alloc'.free
      <3>1. /\ t \in Nat /\ PageOffset(t) = 0
            /\ alloc.from <= t /\ t + PageSize <= alloc.free
        BY DEF TablesReclaimable, TablesOK, Addrs
      <3> QED
        BY <1>1, <1>2, <1>3, <1>5, <3>1
    <2>3. /\ p.addr \in Addrs /\ PageOffset(p.addr) = 0
          /\ alloc'.from <= p.addr /\ p.addr + PageSize <= alloc'.free
      BY <1>1, <1>2, <1>3, <1>5 DEF Addrs
    <2> QED
      BY <2>1, <2>2, <2>3 DEF p
  <1> QED
    BY <1>4, <1>5

-----------------------------------------------------------------------------
\* An empty table and an entry have their types.
LEMMA TableTypes ==
    /\ EmptyTable \in [0 .. PgdSize - 1 -> Entries]
    /\ \A addr \in Addrs : Entry(addr) \in Entries
  <1>1. NoEntry \in Entries
    BY WordAssumption DEF Entries, NoEntry, Addrs
  <1>2. ASSUME NEW addr \in Addrs PROVE Entry(addr) \in Entries
    BY DEF Entries, Entry
  <1> QED
    BY <1>1, <1>2 DEF EmptyTable

\* A table whose entry has changed is a table.
LEMMA EntryChanged ==
    ASSUME NEW table \in [0 .. PgdSize - 1 -> Entries], NEW x, NEW e \in Entries
    PROVE  [table EXCEPT ![x] = e] \in [0 .. PgdSize - 1 -> Entries]
OBVIOUS

\* The locals after a call that ends.
LEMMA IdleStep ==
    ASSUME LocalsOK, NEW ret, call' = Idle(ret)
    PROVE  LocalsOK'
BY DEF LocalsOK, Idle, Locals

\* pagetable_install keeps the invariant.
LEMMA InstallStep ==
    ASSUME PageInv, PagetableInstall
    PROVE  PageInv'
  <1> DEFINE pgd == AllocatePermanent(alloc, PageSize, PageSize)
  <1>1. /\ alloc' = pgd.self /\ call' = call
        /\ IF pgd.addr = 0
           THEN tables' = tables /\ cr3' = cr3
           ELSE /\ tables' = [t \in {pgd.addr} |-> EmptyTable]
                /\ cr3' = pgd.addr
    BY DEF PagetableInstall
  <1>2. /\ MemoryOK'
        /\ \A t \in DOMAIN tables :
              /\ PageOffset(t) = 0
              /\ alloc'.from <= t /\ t + PageSize <= alloc'.free
        /\ pgd.addr # 0 =>
              /\ pgd.addr \in Addrs /\ PageOffset(pgd.addr) = 0
              /\ alloc'.from <= pgd.addr /\ pgd.addr + PageSize <= alloc'.free
    BY <1>1, NewTable DEF PageInv
  <1> HIDE DEF pgd
  <1>3. LocalsOK'
    BY <1>1 DEF PageInv, LocalsOK
  <1>4. CASE pgd.addr = 0
    BY <1>1, <1>2, <1>3, <1>4
    DEF PageInv, TablesOK, TablesReclaimable, PageOffset
  <1>5. CASE pgd.addr # 0
    <2>1. tables' = [t \in {pgd.addr} |-> EmptyTable] /\ cr3' = pgd.addr
      BY <1>1, <1>5
    <2>2. TablesOK'
      BY <1>2, <1>5, <2>1, TableTypes DEF TablesOK
    <2>3. TablesReclaimable'
      BY <1>2, <1>5, <2>1 DEF TablesReclaimable, PageOffset
    <2> QED
      BY <1>1, <1>2, <1>3, <1>5, <2>1, <2>2, <2>3 DEF PageInv
  <1> QED
    BY <1>4, <1>5

\* The entry of pagetable_map keeps the invariant.
LEMMA CallStep ==
    ASSUME PageInv, NEW vaddr \in Nat, NEW paddr \in Nat, NEW size \in Nat,
           PagetableMap(vaddr, paddr, size)
    PROVE  PageInv'
  <1>1. UNCHANGED <<alloc, tables, cr3>>
    BY DEF PagetableMap
  <1>2. LocalsOK'
    <2>1. CASE call' = Idle(FALSE)
      BY <2>1, IdleStep DEF PageInv
    <2>2. CASE call' = [call EXCEPT !.pc = "loop", !.vaddr = vaddr,
                                 !.paddr = paddr, !.asked = size,
                                 !.size = PageAlign(size), !.i = 0]
      BY <2>2 DEF PageInv, LocalsOK, Locals
    <2> QED
      BY <2>1, <2>2 DEF PagetableMap
  <1> QED
    BY <1>1, <1>2
    DEF PageInv, MemoryOK, TablesOK, TablesReclaimable, PageOffset

\* The head of the loop of pagetable_map keeps the invariant.
LEMMA NextPageStep ==
    ASSUME PageInv, NextPage
    PROVE  PageInv'
  <1>1. LocalsOK'
    <2>1. CASE call' = Idle(TRUE)
      BY <2>1, IdleStep DEF PageInv
    <2>2. CASE call' = [call EXCEPT !.pc = "walk", !.lvl = PageLevel, !.pgd = cr3]
      BY <2>2, PageAssumption DEF PageInv, LocalsOK, Locals
    <2> QED
      BY <2>1, <2>2 DEF NextPage
  <1> QED
    BY <1>1
    DEF NextPage, PageInv, MemoryOK, TablesOK, TablesReclaimable, PageOffset

\* The locals after a turn of setup_vpage that goes down a level.
LEMMA DescendStep ==
    ASSUME LocalsOK, call.lvl > 1, NEW pgd, Descend(pgd)
    PROVE  LocalsOK'
BY PageAssumption DEF LocalsOK, Locals, Descend

\* A turn of setup_vpage that follows an entry keeps the invariant.
LEMMA WalkPresentStep ==
    ASSUME PageInv, WalkPresent
    PROVE  PageInv'
  <1>1. LocalsOK'
    BY DescendStep DEF WalkPresent, PageInv
  <1> QED
    BY <1>1
    DEF WalkPresent, PageInv, MemoryOK, TablesOK, TablesReclaimable, PageOffset

\* A turn that allocates a table, or fails to, keeps the invariant.
LEMMA WalkAbsentStep ==
    ASSUME PageInv, WalkAbsent
    PROVE  PageInv'
  <1> DEFINE p == AllocatePermanent(alloc, PageSize, PageSize)
  <1>1. /\ alloc' = p.self /\ cr3' = cr3 /\ call.lvl > 1
        /\ IF p.addr = 0
           THEN call' = Idle(FALSE) /\ tables' = tables
           ELSE tables' = Grow(p.addr, call.pgd, Index) /\ Descend(p.addr)
    BY DEF WalkAbsent
  <1>2. /\ MemoryOK'
        /\ \A t \in DOMAIN tables :
              /\ PageOffset(t) = 0
              /\ alloc'.from <= t /\ t + PageSize <= alloc'.free
        /\ p.addr # 0 =>
              /\ p.addr \in Addrs /\ PageOffset(p.addr) = 0
              /\ alloc'.from <= p.addr /\ p.addr + PageSize <= alloc'.free
    BY <1>1, NewTable DEF PageInv
  <1> HIDE DEF p
  <1>3. CASE p.addr = 0
    <2>1. LocalsOK'
      BY <1>1, <1>3, IdleStep DEF PageInv
    <2> QED
      BY <1>1, <1>2, <1>3, <2>1 DEF PageInv, TablesOK, TablesReclaimable, PageOffset
  <1>4. CASE p.addr # 0
    <2>1. LocalsOK'
      BY <1>1, <1>4, DescendStep DEF PageInv
    <2>2. /\ DOMAIN tables' = DOMAIN tables \union {p.addr}
          /\ \A t \in DOMAIN tables' :
                tables'[t] = IF t = p.addr THEN EmptyTable
                             ELSE IF t = call.pgd
                             THEN [tables[t] EXCEPT ![Index] = Entry(p.addr)]
                             ELSE tables[t]
      BY <1>1, <1>4 DEF Grow
    <2>3. TablesOK'
      <3> SUFFICES ASSUME NEW t \in DOMAIN tables'
                   PROVE  t \in Addrs /\ tables'[t] \in [0 .. PgdSize - 1 -> Entries]
        BY DEF TablesOK, Addrs, Entries, Flags
      <3>1. CASE t = p.addr
        BY <1>2, <1>4, <2>2, <3>1, TableTypes
      <3>2. CASE t # p.addr
        <4>1. t \in Addrs /\ tables[t] \in [0 .. PgdSize - 1 -> Entries]
          BY <2>2, <3>2 DEF PageInv, TablesOK
        <4>2. [tables[t] EXCEPT ![Index] = Entry(p.addr)] \in [0 .. PgdSize - 1 -> Entries]
          BY <1>2, <1>4, <4>1, TableTypes, EntryChanged
        <4> QED
          BY <2>2, <3>2, <4>1, <4>2
      <3> QED
        BY <3>1, <3>2
    <2>4. TablesReclaimable'
      BY <1>2, <1>4, <2>2 DEF TablesReclaimable, PageOffset
    <2> QED
      BY <1>1, <1>2, <2>1, <2>3, <2>4 DEF PageInv
  <1> QED
    BY <1>3, <1>4

\* The write of the leaf keeps the invariant: it changes an entry of a table.
LEMMA WriteLeafStep ==
    ASSUME PageInv, WriteLeaf
    PROVE  PageInv'
  <1>1. /\ tables' = [tables EXCEPT ![call.pgd][Index] = Entry(PhysicalAddr)]
        /\ call' = [call EXCEPT !.pc = "loop", !.i = Wrap(@ + PageSize)]
        /\ UNCHANGED <<alloc, cr3>>
    BY DEF WriteLeaf
  <1>2. \A n \in Nat : Wrap(n) \in 0 .. Word - 1
    BY WordAssumption, Rounded DEF Wrap
  <1>3. /\ call.paddr \in Nat /\ call.i \in Nat /\ PageSize \in Nat /\ Word \in Nat
    BY PageAssumption, WordAssumption DEF PageInv, LocalsOK
  <1>4. PhysicalAddr \in Addrs /\ Wrap(call.i + PageSize) \in Nat
    BY <1>2, <1>3 DEF PhysicalAddr, Addrs
  <1>5. LocalsOK'
    BY <1>1, <1>4 DEF PageInv, LocalsOK, Locals
  <1>6. /\ DOMAIN tables' = DOMAIN tables
        /\ \A t \in DOMAIN tables :
              tables'[t] = IF t = call.pgd
                           THEN [tables[t] EXCEPT ![Index] = Entry(PhysicalAddr)]
                           ELSE tables[t]
    BY <1>1
  <1>7. TablesOK'
    <2> SUFFICES ASSUME NEW t \in DOMAIN tables
                 PROVE  t \in Addrs /\ tables'[t] \in [0 .. PgdSize - 1 -> Entries]
      BY <1>6 DEF TablesOK, Addrs, Entries, Flags
    <2>1. t \in Addrs /\ tables[t] \in [0 .. PgdSize - 1 -> Entries]
      BY DEF PageInv, TablesOK
    <2>2. [tables[t] EXCEPT ![Index] = Entry(PhysicalAddr)] \in [0 .. PgdSize - 1 -> Entries]
      BY <1>4, <2>1, TableTypes, EntryChanged
    <2> QED
      BY <1>6, <2>1, <2>2
  <1> QED
    BY <1>1, <1>5, <1>6, <1>7 DEF PageInv, MemoryOK, TablesReclaimable, PageOffset

\* Every step of setup_vpage and of the loop around it keeps the invariant.
LEMMA MapStepKeeps ==
    ASSUME PageInv, MapStep
    PROVE  PageInv'
BY NextPageStep, WalkPresentStep, WalkAbsentStep, WriteLeafStep DEF MapStep

\* Every step keeps the invariant.
LEMMA ClientInvStep ==
    ASSUME ClientInv, [ClientNext]_clientVars
    PROVE  ClientInv'
  <1>1. PageInv /\ calls \in 0 .. MaxCalls
    BY DEF ClientInv
  <1>2. CASE Install
    BY <1>1, <1>2, InstallStep DEF ClientInv, Install
  <1>3. CASE \E vaddr \in Vaddrs, paddr \in Paddrs, size \in Sizes :
                Call(vaddr, paddr, size)
    <2>1. PICK vaddr \in Vaddrs, paddr \in Paddrs, size \in Sizes :
                Call(vaddr, paddr, size)
      BY <1>3
    <2>2. vaddr \in Nat /\ paddr \in Nat /\ size \in Nat
      BY ClientAssumption
    <2>3. PagetableMap(vaddr, paddr, size) /\ calls' = calls + 1 /\ calls < MaxCalls
      BY <2>1 DEF Call
    <2>4. PageInv'
      BY <1>1, <2>2, <2>3, CallStep
    <2> QED
      BY <1>1, <2>3, <2>4, ClientAssumption DEF ClientInv
  <1>4. CASE Step
    BY <1>1, <1>4, MapStepKeeps DEF ClientInv, Step
  <1>5. CASE UNCHANGED clientVars
    BY <1>1, <1>5 DEF clientVars, ClientInv, PageInv, MemoryOK, LocalsOK, TablesOK,
                TablesReclaimable, PageOffset
  <1> QED
    BY <1>2, <1>3, <1>4, <1>5 DEF ClientNext

\* ClientInit establishes the invariant.
LEMMA ClientInvInit == ClientInit => ClientInv
  <1> SUFFICES ASSUME ClientInit PROVE ClientInv
    OBVIOUS
  <1>1. PICK m \in Memories : alloc = [from |-> m[1], free |-> m[1], to |-> m[2]]
    BY DEF ClientInit, AllocatorInitialize
  <1>2. MemoryOK
    BY <1>1, ClientAssumption DEF MemoryOK
  <1>3. LocalsOK
    BY PageAssumption DEF ClientInit, PageInit, LocalsOK, Locals
  <1>4. DOMAIN tables = {} /\ cr3 = 0 /\ calls = 0
    BY DEF ClientInit, PageInit
  <1>5. cr3 \in Addrs /\ calls \in 0 .. MaxCalls
    BY <1>4, WordAssumption, ClientAssumption DEF Addrs
  <1> QED
    BY <1>2, <1>3, <1>4, <1>5 DEF ClientInv, PageInv, TablesOK, TablesReclaimable

-----------------------------------------------------------------------------
\* Whatever is mapped, and wherever pagetable_map or pagetable_install fails for
\* want of memory, the allocator's words, the entries of every table and the
\* level of the walk stay in their ranges.
THEOREM PageTypes == ClientSpec => []TypeOK
  <1>1. ClientInv => TypeOK
    <2> SUFFICES ASSUME ClientInv PROVE TypeOK
      OBVIOUS
    <2>1. PageInv /\ calls \in 0 .. MaxCalls
      BY DEF ClientInv
    <2>2. alloc \in [from : 0 .. Word, free : 0 .. Word, to : 0 .. Word]
      <3>1. /\ alloc = [from |-> alloc.from, free |-> alloc.free, to |-> alloc.to]
            /\ alloc.from \in Nat /\ alloc.free \in Nat /\ alloc.to \in Nat
            /\ alloc.from <= alloc.free /\ alloc.free <= alloc.to
            /\ alloc.to + 2 * PageSize <= Word
            /\ PageSize \in Nat /\ Word \in Nat
        BY <2>1, PageAssumption, WordAssumption DEF PageInv, MemoryOK
      <3>2. /\ alloc.from \in 0 .. Word /\ alloc.free \in 0 .. Word
            /\ alloc.to \in 0 .. Word
        BY <3>1
      <3> QED
        BY <3>1, <3>2
    <2> QED
      BY <2>1, <2>2 DEF PageInv, TypeOK, TablesOK, LocalsOK, Addrs, Entries
  <1> QED
    BY <1>1, ClientInvInit, ClientInvStep, PTL DEF ClientSpec

\* Every table of the tree lies, as an aligned page, in the block of memory that
\* the payload is told to preserve: setup_vpage takes no other memory.
THEOREM TablesArePreserved == ClientSpec => []TablesReclaimable
  <1>1. ClientInv => TablesReclaimable
    BY DEF ClientInv, PageInv
  <1> QED
    BY <1>1, ClientInvInit, ClientInvStep, PTL DEF ClientSpec

-----------------------------------------------------------------------------
(***************************************************************************)
(* The levels of the tree and the digits of a page.                        *)
(***************************************************************************)
Indexes == 0 .. PgdSize - 1

\* The digit of a page's number that selects the entry of a level.
Digit(page, lvl) == (page \div Span[lvl]) % PgdSize

\* The spans of the levels are the powers of the size of a table.
LEMMA Spans ==
    /\ Span[1] = 1
    /\ \A l \in 1 .. PageLevel : Span[l] \in Nat \ {0}
    /\ \A l \in 1 .. PageLevel : l # PageLevel => Span[l + 1] = Span[l] * PgdSize
  <1>1. Span = Scale(PgdSize, PageLevel)
    BY DEF Span, Scale
  <1>2. PgdSize \in Nat \ {0} /\ PageLevel \in Nat \ {0}
    BY PageAssumption
  <1>3. /\ Span[1] = 1
        /\ \A l \in 1 .. PageLevel : Span[l] \in Nat \ {0}
        /\ \A l \in 1 .. PageLevel : l # PageLevel => Span[l + 1] = PgdSize * Span[l]
    BY <1>1, <1>2, ScaleSteps
  <1> QED
    BY <1>2, <1>3

\* A digit is an index of a table.
LEMMA DigitIndex ==
    ASSUME NEW page \in Nat, NEW l \in 1 .. PageLevel
    PROVE  Digit(page, l) \in Indexes
  <1>1. Span[l] \in Nat \ {0} /\ PgdSize \in Nat \ {0}
    BY Spans, PageAssumption
  <1>2. page \div Span[l] \in Nat
    BY <1>1, Divided
  <1> QED
    BY <1>1, <1>2, Divided DEF Digit, Indexes

\* Pages with the same digits are the same page of the address space.
LEMMA SamePage ==
    ASSUME NEW a \in Nat, NEW b \in Nat
    PROVE  a % VPages = b % VPages
              <=> \A l \in 1 .. PageLevel : Digit(a, l) = Digit(b, l)
  <1> DEFINE Same(m) == a % (Span[m] * PgdSize) = b % (Span[m] * PgdSize)
             Alike(m) == \A l \in 1 .. m : Digit(a, l) = Digit(b, l)
             Claim(m) == Same(m) <=> Alike(m)
             S == {m \in 1 .. PageLevel : Claim(m)}
  <1>1. PageLevel \in Nat \ {0} /\ PgdSize \in Nat \ {0}
        /\ 1 \in 1 .. PageLevel /\ PageLevel \in 1 .. PageLevel
    BY PageAssumption
  <1>2. ASSUME NEW m \in 1 .. PageLevel
        PROVE  Same(m) <=> a % Span[m] = b % Span[m] /\ Digit(a, m) = Digit(b, m)
    <2>1. Span[m] \in Nat \ {0}
      BY Spans
    <2>2. \A n, p \in Nat \ {0} : a % (n * p) = b % (n * p)
             <=> a % n = b % n /\ (a \div n) % p = (b \div n) % p
      BY SameDigits, Zenon
    <2> QED
      BY <1>1, <2>1, <2>2, Zenon DEF Digit
  <1>3. Claim(1)
    <2>1. Span[1] = 1 /\ a % 1 = b % 1
      <3>1. a % 1 \in 0 .. 1 - 1 /\ b % 1 \in 0 .. 1 - 1
        BY Divided
      <3> QED
        BY <3>1, Spans
    <2>2. Alike(1) <=> Digit(a, 1) = Digit(b, 1)
      OBVIOUS
    <2>3. Same(1) <=> a % Span[1] = b % Span[1] /\ Digit(a, 1) = Digit(b, 1)
      BY <1>1, <1>2
    <2> HIDE DEF Same, Alike
    <2> QED
      BY <2>1, <2>2, <2>3
  <1>4. ASSUME NEW m \in 1 .. PageLevel, m # PageLevel, Claim(m) PROVE Claim(m + 1)
    <2>1. m + 1 \in 1 .. PageLevel /\ Span[m + 1] = Span[m] * PgdSize
      BY <1>1, <1>4, Spans
    <2>2. Same(m + 1) <=> a % Span[m + 1] = b % Span[m + 1]
                             /\ Digit(a, m + 1) = Digit(b, m + 1)
      BY <1>2, <2>1
    <2>3. Same(m) <=> a % Span[m + 1] = b % Span[m + 1]
      BY <2>1
    <2>4. Alike(m + 1) <=> Alike(m) /\ Digit(a, m + 1) = Digit(b, m + 1)
      <3>1. \A l \in 1 .. m + 1 : l \in 1 .. m \/ l = m + 1
        OBVIOUS
      <3>2. \A l \in 1 .. m : l \in 1 .. m + 1
        OBVIOUS
      <3>3. m + 1 \in 1 .. m + 1
        OBVIOUS
      <3> QED
        BY <3>1, <3>2, <3>3, Zenon
    <2> HIDE DEF Same, Alike
    <2> QED
      BY <1>4, <2>2, <2>3, <2>4
  <1>5. Claim(PageLevel)
    <2> HIDE DEF Claim
    <2>1. 1 \in S
      BY <1>1, <1>3
    <2>2. \A m \in 1 .. PageLevel : m # PageLevel /\ m \in S => m + 1 \in S
      BY <1>1, <1>4
    <2> HIDE DEF S
    <2>3. 1 .. PageLevel \subseteq S
      BY <1>1, <2>1, <2>2, LevelsUp
    <2>4. PageLevel \in S
      BY <1>1, <2>3
    <2> QED
      BY <2>4 DEF S
  <1>6. VPages = Span[PageLevel] * PgdSize
    BY <1>1, Spans DEF VPages
  <1> QED
    BY <1>5, <1>6

-----------------------------------------------------------------------------
(***************************************************************************)
(* Trees: what the tables form, and the path of a page through them.       *)
(* The lemmas are about any tables, so that they apply to the tables of a  *)
(* state and to those of the next.                                         *)
(***************************************************************************)
\* The tables of a page, and its leaf, among any tables.
PathOf(tbl, root, page) ==
    CHOOSE path : path = [lvl \in 1 .. PageLevel |->
        IF lvl = PageLevel
        THEN root
        ELSE LET up == path[lvl + 1]
             IN  IF up = 0 THEN 0 ELSE tbl[up][Digit(page, lvl + 1)].addr]

LeafOf(tbl, root, page) ==
    LET table == PathOf(tbl, root, page)[1]
    IN  IF table = 0 THEN NoEntry ELSE tbl[table][Digit(page, 1)]

\* The entry links a table: it is an entry of a table above the leaves.
Links(tbl, level, t, x) == level[t] # 1 /\ tbl[t][x] # NoEntry

\* Tables are where tables can be, the root alone at the highest level.
Rooted(tbl, root, level) ==
    /\ level \in [DOMAIN tbl -> 1 .. PageLevel]
    /\ \A t \in DOMAIN tbl : t # 0 /\ tbl[t] \in [Indexes -> Entries]
    /\ IF root = 0 THEN DOMAIN tbl = {} ELSE root \in DOMAIN tbl
    /\ \A t \in DOMAIN tbl : level[t] = PageLevel <=> t = root

\* A link leads one level down.
Linked(tbl, level) ==
    \A t \in DOMAIN tbl, x \in Indexes :
        Links(tbl, level, t, x) =>
            /\ tbl[t][x].addr \in DOMAIN tbl
            /\ level[t] = level[tbl[t][x].addr] + 1

\* No two links lead to the same table.
Unshared(tbl, level) ==
    \A t, u \in DOMAIN tbl, x, y \in Indexes :
        /\ Links(tbl, level, t, x) /\ Links(tbl, level, u, y)
        /\ tbl[t][x].addr = tbl[u][y].addr
        => t = u /\ x = y

\* A link leads to every table but the root.
Reached(tbl, root, level) ==
    \A t \in DOMAIN tbl \ {root} : \E u \in DOMAIN tbl, x \in Indexes :
        Links(tbl, level, u, x) /\ tbl[u][x].addr = t

\* The tables form a tree.
Tree(tbl, root, level) ==
    /\ Rooted(tbl, root, level) /\ Linked(tbl, level)
    /\ Unshared(tbl, level) /\ Reached(tbl, root, level)

\* The path goes down one level at a time, until there is no table.
PathDown(tbl, root, level, page, path) ==
    /\ path[PageLevel] = root
    /\ \A l \in 1 .. PageLevel : l # PageLevel =>
          path[l] = IF path[l + 1] = 0 THEN 0
                    ELSE tbl[path[l + 1]][Digit(page, l + 1)].addr
    /\ \A l \in 1 .. PageLevel : path[l] # 0 =>
          path[l] \in DOMAIN tbl /\ level[path[l]] = l

\* The tables of a page are what their definition says.
LEMMA PathExists ==
    ASSUME NEW tbl, NEW root, NEW level, Tree(tbl, root, level), NEW page \in Nat
    PROVE  PathDown(tbl, root, level, page, PathOf(tbl, root, page))
  <1> DEFINE X == DOMAIN tbl \union {0}
             Good(l, up) == up \in DOMAIN tbl /\ level[up] = l + 1
             Below(l, up) == IF Good(l, up) THEN tbl[up][Digit(page, l + 1)].addr ELSE 0
             step == [l \in 1 .. PageLevel |->
                         [up \in X |-> IF l = PageLevel THEN 0 ELSE Below(l, up)]]
             Body(f) == [lvl \in 1 .. PageLevel |->
                            IF lvl = PageLevel
                            THEN root
                            ELSE LET up == f[lvl + 1]
                                 IN  IF up = 0 THEN 0
                                     ELSE tbl[up][Digit(page, lvl + 1)].addr]
  <1>1. PageLevel \in Nat \ {0} /\ PageLevel \in 1 .. PageLevel
    BY PageAssumption
  <1>2. ASSUME NEW l \in 1 .. PageLevel, l # PageLevel, NEW up, Good(l, up)
        PROVE  /\ up # 0
               /\ Below(l, up) # 0 => /\ Below(l, up) \in DOMAIN tbl
                                      /\ level[Below(l, up)] = l
    <2>1. l + 1 \in 1 .. PageLevel /\ l + 1 # 1
      BY <1>1, <1>2
    <2>2. Digit(page, l + 1) \in Indexes
      BY <2>1, DigitIndex
    <2>3. CASE tbl[up][Digit(page, l + 1)] = NoEntry
      BY <1>2, <2>3 DEF NoEntry, Tree, Rooted
    <2>4. CASE tbl[up][Digit(page, l + 1)] # NoEntry
      <3> DEFINE down == tbl[up][Digit(page, l + 1)].addr
      <3>1. Links(tbl, level, up, Digit(page, l + 1))
        BY <1>2, <2>1, <2>4 DEF Links
      <3>2. down \in DOMAIN tbl /\ level[up] = level[down] + 1
        BY <1>2, <2>2, <3>1 DEF Tree, Rooted, Linked
      <3>3. level[down] \in 1 .. PageLevel /\ level[up] = l + 1
        BY <1>2, <3>2 DEF Tree, Rooted, Linked
      <3>4. level[down] = l /\ up # 0 /\ down # 0
        <4> HIDE DEF down
        <4>1. level[down] = l
          BY <3>2, <3>3
        <4> QED
          BY <1>2, <3>2, <4>1 DEF Tree, Rooted, Linked
      <3> QED
        BY <1>2, <3>2, <3>4
    <2> QED
      BY <2>3, <2>4
  <1>3. step \in [1 .. PageLevel -> [X -> X]]
    <2>1. ASSUME NEW l \in 1 .. PageLevel, NEW up \in X
          PROVE  (IF l = PageLevel THEN 0 ELSE Below(l, up)) \in X
      <3>1. CASE l # PageLevel /\ Good(l, up)
        BY <1>2, <3>1
      <3>2. CASE ~ (l # PageLevel /\ Good(l, up))
        BY <3>2
      <3> QED
        BY <3>1, <3>2
    <2> HIDE DEF X, Below
    <2> QED
      BY <2>1
  <1>4. /\ \A l \in 1 .. PageLevel : \A up \in X : l # PageLevel => step[l][up] = Below(l, up)
        /\ root \in X
    <2>1. root \in X
      BY DEF Tree, Rooted, Linked
    <2> HIDE DEF X, Below
    <2> QED
      BY <2>1
  <1> HIDE DEF step
  <1>5. PICK f \in [1 .. PageLevel -> X] : Falls(f, PageLevel, root, step)
    <2> HIDE DEF X
    <2> QED
      BY <1>1, <1>3, <1>4, DownwardFunction
  <1>6. /\ f[PageLevel] = root
        /\ \A l \in 1 .. PageLevel : l # PageLevel =>
              f[l + 1] \in X /\ f[l] = Below(l, f[l + 1])
    <2>1. ASSUME NEW l \in 1 .. PageLevel, l # PageLevel
          PROVE  f[l + 1] \in X /\ f[l] = Below(l, f[l + 1])
      <3> HIDE DEF X, Below
      <3>1. l + 1 \in 1 .. PageLevel
        BY <1>1, <2>1
      <3> QED
        BY <1>4, <1>5, <2>1, <3>1 DEF Falls
    <2> HIDE DEF X, Below
    <2> QED
      BY <1>5, <2>1 DEF Falls
  <1> DEFINE At(l) == f[l] # 0 => f[l] \in DOMAIN tbl /\ level[f[l]] = l
             S == {l \in 1 .. PageLevel : At(l)}
  <1>7. \A l \in 1 .. PageLevel : At(l)
    <2>1. At(PageLevel)
      BY <1>6 DEF Tree, Rooted, Linked
    <2>2. ASSUME NEW l \in 1 .. PageLevel, l # PageLevel PROVE At(l)
      <3>1. CASE Good(l, f[l + 1])
        <4> HIDE DEF Good, Below
        <4> QED
          BY <1>2, <1>6, <2>2, <3>1
      <3>2. CASE ~ Good(l, f[l + 1])
        <4> HIDE DEF Good
        <4> QED
          BY <1>6, <2>2, <3>2
      <3> QED
        BY <3>1, <3>2
    <2> HIDE DEF At
    <2> QED
      BY <2>1, <2>2
  <1>8. f = Body(f)
    <2>1. ASSUME NEW l \in 1 .. PageLevel PROVE f[l] = Body(f)[l]
      <3>1. CASE l = PageLevel
        BY <1>6, <3>1
      <3>2. CASE l # PageLevel
        <4>1. l + 1 \in 1 .. PageLevel
          BY <1>1, <3>2
        <4>2. f[l + 1] # 0 <=> Good(l, f[l + 1])
          BY <1>7, <4>1 DEF Tree, Rooted, Linked
        <4>3. f[l] = Below(l, f[l + 1])
          BY <1>6, <3>2
        <4> QED
          BY <3>2, <4>2, <4>3
      <3> QED
        BY <3>1, <3>2
    <2> HIDE DEF X
    <2> QED
      BY <1>5, <2>1
  <1> DEFINE path == PathOf(tbl, root, page)
  <1>9. path = Body(path)
    BY <1>8 DEF PathOf
  <1> HIDE DEF path
  <1>10. /\ path[PageLevel] = root
         /\ \A l \in 1 .. PageLevel : l # PageLevel =>
               path[l] = IF path[l + 1] = 0 THEN 0
                         ELSE tbl[path[l + 1]][Digit(page, l + 1)].addr
    BY <1>1, <1>9
  <1> DEFINE Eq(l) == path[l] = f[l]
             U == {l \in 1 .. PageLevel : Eq(l)}
  <1>11. \A l \in 1 .. PageLevel : Eq(l)
    <2>1. Eq(PageLevel)
      BY <1>6, <1>10
    <2>2. ASSUME NEW l \in 1 .. PageLevel, l # PageLevel, Eq(l + 1) PROVE Eq(l)
      <3>1. path[l] = IF f[l + 1] = 0 THEN 0
                         ELSE tbl[f[l + 1]][Digit(page, l + 1)].addr
        BY <1>10, <2>2
      <3>2. f[l] = IF f[l + 1] = 0 THEN 0
                         ELSE tbl[f[l + 1]][Digit(page, l + 1)].addr
        <4>1. f[l] = Body(f)[l]
          BY <1>8
        <4> QED
          BY <2>2, <4>1
      <3> QED
        BY <3>1, <3>2
    <2> HIDE DEF Eq
    <2>3. 1 .. PageLevel \subseteq U
      <3>1. PageLevel \in U /\ \A l \in 1 .. PageLevel : l # PageLevel /\ l + 1 \in U => l \in U
        BY <1>1, <2>1, <2>2
      <3> HIDE DEF U
      <3> QED
        BY <1>1, <3>1, LevelsDown
    <2> QED
      BY <2>3
  <1> QED
    BY <1>7, <1>10, <1>11 DEF path, PathDown

\* Two pages with a last table in common have all their tables in common.
LEMMA PathsMeet ==
    ASSUME NEW tbl, NEW root, NEW level, Tree(tbl, root, level),
           NEW a \in Nat, NEW b \in Nat,
           PathOf(tbl, root, a)[1] # 0,
           PathOf(tbl, root, a)[1] = PathOf(tbl, root, b)[1]
    PROVE  \A l \in 1 .. PageLevel : l # 1 => Digit(a, l) = Digit(b, l)
  <1> DEFINE p == PathOf(tbl, root, a)
             q == PathOf(tbl, root, b)
             Meet(l) == p[l] # 0 /\ p[l] = q[l]
             S == {l \in 1 .. PageLevel : Meet(l)}
  <1>1. PageLevel \in Nat \ {0} /\ 1 \in 1 .. PageLevel
    BY PageAssumption
  <1>2. PathDown(tbl, root, level, a, p) /\ PathDown(tbl, root, level, b, q)
    BY PathExists
  <1>3. Meet(1)
    OBVIOUS
  <1> HIDE DEF p, q
  <1>4. ASSUME NEW l \in 1 .. PageLevel, l # PageLevel, Meet(l)
        PROVE  Meet(l + 1) /\ Digit(a, l + 1) = Digit(b, l + 1)
    <2>1. l + 1 \in 1 .. PageLevel /\ l + 1 # 1
      BY <1>1, <1>4
    <2> DEFINE t == p[l + 1]
               u == q[l + 1]
               x == Digit(a, l + 1)
               y == Digit(b, l + 1)
    <2>2. x \in Indexes /\ y \in Indexes
      BY <2>1, DigitIndex
    <2>3. /\ t # 0 /\ p[l] = tbl[t][x].addr
          /\ u # 0 /\ q[l] = tbl[u][y].addr
      BY <1>2, <1>4 DEF PathDown
    <2>4. /\ t \in DOMAIN tbl /\ level[t] = l + 1
          /\ u \in DOMAIN tbl /\ level[u] = l + 1
      BY <1>2, <2>1, <2>3 DEF PathDown
    <2> HIDE DEF t, u, x, y
    <2>5. tbl[t][x] # NoEntry /\ tbl[u][y] # NoEntry
      <3>1. NoEntry.addr = 0
        BY DEF NoEntry
      <3>2. tbl[t][x].addr # 0 /\ tbl[u][y].addr # 0
        BY <1>4, <2>3
      <3> QED
        BY <3>1, <3>2
    <2>6. Links(tbl, level, t, x) /\ Links(tbl, level, u, y)
      BY <2>1, <2>4, <2>5 DEF Links
    <2>7. t = u /\ x = y
      <3>1. tbl[t][x].addr = tbl[u][y].addr
        BY <1>4, <2>3
      <3> HIDE DEF Meet
      <3> QED
        BY <2>2, <2>4, <2>6, <3>1 DEF Tree, Unshared
    <2> QED
      BY <2>3, <2>7 DEF t, u, x, y
  <1>5. \A l \in 1 .. PageLevel : Meet(l)
    <2> HIDE DEF Meet
    <2>1. 1 \in S /\ \A l \in 1 .. PageLevel : l # PageLevel /\ l \in S => l + 1 \in S
      BY <1>1, <1>3, <1>4
    <2>2. 1 .. PageLevel \subseteq S
      <3> HIDE DEF S
      <3> QED
        BY <1>1, <2>1, LevelsUp
    <2> QED
      BY <2>2
  <1>6. ASSUME NEW l \in 1 .. PageLevel, l # 1 PROVE Digit(a, l) = Digit(b, l)
    <2>1. l - 1 \in 1 .. PageLevel /\ l - 1 # PageLevel /\ (l - 1) + 1 = l
      BY <1>1, <1>6
    <2> HIDE DEF Meet
    <2>2. Digit(a, (l - 1) + 1) = Digit(b, (l - 1) + 1)
      BY <1>4, <1>5, <2>1
    <2> QED
      BY <2>1, <2>2
  <1> QED
    BY <1>6

\* Pages with the same digits above the last have the same last table.
LEMMA PathsAgree ==
    ASSUME NEW tbl, NEW root, NEW level, Tree(tbl, root, level),
           NEW a \in Nat, NEW b \in Nat,
           \A l \in 1 .. PageLevel : l # 1 => Digit(a, l) = Digit(b, l)
    PROVE  PathOf(tbl, root, a)[1] = PathOf(tbl, root, b)[1]
  <1> DEFINE p == PathOf(tbl, root, a)
             q == PathOf(tbl, root, b)
             Agree(l) == p[l] = q[l]
             S == {l \in 1 .. PageLevel : Agree(l)}
  <1>1. PageLevel \in Nat \ {0} /\ 1 \in 1 .. PageLevel /\ PageLevel \in 1 .. PageLevel
    BY PageAssumption
  <1>2. PathDown(tbl, root, level, a, p) /\ PathDown(tbl, root, level, b, q)
    BY PathExists
  <1> HIDE DEF p, q
  <1>3. Agree(PageLevel)
    BY <1>2 DEF PathDown
  <1>4. ASSUME NEW l \in 1 .. PageLevel, l # PageLevel, Agree(l + 1) PROVE Agree(l)
    <2>1. l + 1 \in 1 .. PageLevel /\ l + 1 # 1
      BY <1>1, <1>4
    <2>2. Digit(a, l + 1) = Digit(b, l + 1)
      BY <2>1
    <2> QED
      BY <1>2, <1>4, <2>2 DEF PathDown
  <1> HIDE DEF Agree
  <1>5. PageLevel \in S /\ \A l \in 1 .. PageLevel : l # PageLevel /\ l + 1 \in S => l \in S
    BY <1>1, <1>3, <1>4
  <1>6. 1 .. PageLevel \subseteq S
    <2> HIDE DEF S
    <2> QED
      BY <1>1, <1>5, LevelsDown
  <1>7. Agree(1)
    BY <1>1, <1>6
  <1> QED
    BY <1>7 DEF Agree, p, q

-----------------------------------------------------------------------------
\* The pages keep their tables.
SamePaths(tbl, tbl2, root) ==
    \A page \in Nat : \A l \in 1 .. PageLevel :
        PathOf(tbl2, root, page)[l] = PathOf(tbl, root, page)[l]

\* A table of leaves may change: the tree keeps its form and its paths.
LEMMA LeafKeepsTree ==
    ASSUME NEW tbl, NEW root, NEW level, Tree(tbl, root, level),
           NEW tbl2, DOMAIN tbl2 = DOMAIN tbl,
           \A t \in DOMAIN tbl :
               IF level[t] = 1 THEN tbl2[t] \in [Indexes -> Entries] ELSE tbl2[t] = tbl[t]
    PROVE  Tree(tbl2, root, level) /\ SamePaths(tbl, tbl2, root)
  <1>1. DOMAIN tbl2 = DOMAIN tbl
    OBVIOUS
  <1>2. \A u \in DOMAIN tbl : level[u] # 1 => tbl2[u] = tbl[u]
    OBVIOUS
  <1>3. \A u \in DOMAIN tbl, x \in Indexes :
           /\ Links(tbl2, level, u, x) <=> Links(tbl, level, u, x)
           /\ Links(tbl, level, u, x) => tbl2[u][x] = tbl[u][x]
    BY <1>2 DEF Links
  <1>4. Tree(tbl2, root, level)
    <2>1. Rooted(tbl2, root, level)
      BY <1>1 DEF Tree, Rooted
    <2>2. Linked(tbl2, level)
      <3> SUFFICES ASSUME NEW u \in DOMAIN tbl, NEW x \in Indexes,
                          Links(tbl2, level, u, x)
                   PROVE  /\ tbl2[u][x].addr \in DOMAIN tbl
                          /\ level[u] = level[tbl2[u][x].addr] + 1
        BY <1>1 DEF Linked
      <3>1. Links(tbl, level, u, x) /\ tbl2[u][x] = tbl[u][x]
        BY <1>3
      <3> QED
        BY <3>1 DEF Tree, Linked
    <2>3. Unshared(tbl2, level)
      <3> SUFFICES ASSUME NEW u \in DOMAIN tbl, NEW w \in DOMAIN tbl,
                          NEW x \in Indexes, NEW y \in Indexes,
                          Links(tbl2, level, u, x), Links(tbl2, level, w, y),
                          tbl2[u][x].addr = tbl2[w][y].addr
                   PROVE  u = w /\ x = y
        BY <1>1 DEF Unshared
      <3>1. /\ Links(tbl, level, u, x) /\ Links(tbl, level, w, y)
            /\ tbl[u][x].addr = tbl[w][y].addr
        BY <1>3
      <3> QED
        BY <3>1 DEF Tree, Unshared
    <2>4. Reached(tbl2, root, level)
      <3> SUFFICES ASSUME NEW w \in DOMAIN tbl \ {root}
                   PROVE  \E u \in DOMAIN tbl, x \in Indexes :
                             Links(tbl2, level, u, x) /\ tbl2[u][x].addr = w
        BY <1>1 DEF Reached
      <3>1. PICK u \in DOMAIN tbl, x \in Indexes :
                    Links(tbl, level, u, x) /\ tbl[u][x].addr = w
        BY DEF Tree, Reached
      <3>2. Links(tbl2, level, u, x) /\ tbl2[u][x].addr = w
        BY <1>3, <3>1
      <3> QED
        BY <3>2
    <2> QED
      BY <2>1, <2>2, <2>3, <2>4 DEF Tree
  <1>5. ASSUME NEW page \in Nat, NEW m \in 1 .. PageLevel
        PROVE  PathOf(tbl2, root, page)[m] = PathOf(tbl, root, page)[m]
    <2> DEFINE p == PathOf(tbl, root, page)
               q == PathOf(tbl2, root, page)
               Agree(l) == q[l] = p[l]
               S == {l \in 1 .. PageLevel : Agree(l)}
    <2>1. PageLevel \in Nat \ {0} /\ PageLevel \in 1 .. PageLevel
      BY PageAssumption
    <2>2. PathDown(tbl, root, level, page, p) /\ PathDown(tbl2, root, level, page, q)
      BY <1>4, PathExists
    <2> HIDE DEF p, q
    <2>3. Agree(PageLevel)
      BY <2>2 DEF PathDown
    <2>4. ASSUME NEW l \in 1 .. PageLevel, l # PageLevel, Agree(l + 1) PROVE Agree(l)
      <3>1. l + 1 \in 1 .. PageLevel /\ l + 1 # 1
        BY <2>1, <2>4
      <3>2. p[l + 1] # 0 => tbl2[p[l + 1]] = tbl[p[l + 1]]
        BY <1>2, <2>2, <3>1 DEF PathDown
      <3> QED
        BY <2>2, <2>4, <3>2 DEF PathDown
    <2> HIDE DEF Agree
    <2>5. PageLevel \in S /\ \A l \in 1 .. PageLevel : l # PageLevel /\ l + 1 \in S => l \in S
      BY <2>1, <2>3, <2>4
    <2>6. 1 .. PageLevel \subseteq S
      <3> HIDE DEF S
      <3> QED
        BY <2>1, <2>5, LevelsDown
    <2>7. Agree(m)
      BY <2>6
    <2> QED
      BY <2>7 DEF Agree, p, q
  <1> QED
    BY <1>4, <1>5 DEF SamePaths

\* What writing a leaf changes: the leaf of one page of the address space.
LEMMA LeafWritten ==
    ASSUME NEW tbl, NEW root, NEW level, Tree(tbl, root, level),
           NEW at \in Nat, NEW e \in Entries,
           NEW t, t = PathOf(tbl, root, at)[1], t # 0,
           NEW tbl2, DOMAIN tbl2 = DOMAIN tbl,
           \A u \in DOMAIN tbl : u # t => tbl2[u] = tbl[u],
           tbl2[t] = [tbl[t] EXCEPT ![Digit(at, 1)] = e]
    PROVE  /\ Tree(tbl2, root, level)
           /\ \A page \in Nat :
                 LeafOf(tbl2, root, page) =
                     IF page % VPages = at % VPages THEN e ELSE LeafOf(tbl, root, page)
  <1>1. 1 \in 1 .. PageLevel
    BY PageAssumption
  <1>2. t # 0 /\ t \in DOMAIN tbl /\ level[t] = 1
    <2>1. PathDown(tbl, root, level, at, PathOf(tbl, root, at))
      BY PathExists
    <2> QED
      BY <1>1, <2>1 DEF PathDown
  <1>3. /\ tbl2[t] \in [Indexes -> Entries]
        /\ \A x \in Indexes : tbl2[t][x] = IF x = Digit(at, 1) THEN e ELSE tbl[t][x]
    <2>1. tbl[t] \in [Indexes -> Entries]
      BY <1>2 DEF Tree, Rooted
    <2> QED
      BY <2>1
  <1>4. Tree(tbl2, root, level) /\ SamePaths(tbl, tbl2, root)
    <2>1. \A u \in DOMAIN tbl :
              IF level[u] = 1 THEN tbl2[u] \in [Indexes -> Entries] ELSE tbl2[u] = tbl[u]
      BY <1>2, <1>3 DEF Tree, Rooted
    <2> QED
      BY <2>1, LeafKeepsTree
  <1>5. \A u \in DOMAIN tbl : u # t => tbl2[u] = tbl[u]
    OBVIOUS
  <1>6. ASSUME NEW page \in Nat
        PROVE  LeafOf(tbl2, root, page) =
                   IF page % VPages = at % VPages THEN e ELSE LeafOf(tbl, root, page)
    <2> DEFINE u == PathOf(tbl, root, page)[1]
    <2>1. PathOf(tbl2, root, page)[1] = u
      BY <1>1, <1>4 DEF SamePaths
    <2>2. u # 0 => u \in DOMAIN tbl
      <3>1. PathDown(tbl, root, level, page, PathOf(tbl, root, page))
        BY PathExists
      <3> QED
        BY <1>1, <3>1 DEF PathDown
    <2>3. Digit(page, 1) \in Indexes
      BY <1>1, DigitIndex
    <2>4. page % VPages = at % VPages <=> u = t /\ Digit(page, 1) = Digit(at, 1)
      <3>1. ASSUME page % VPages = at % VPages
            PROVE  u = t /\ Digit(page, 1) = Digit(at, 1)
        <4>1. \A l \in 1 .. PageLevel : Digit(page, l) = Digit(at, l)
          BY <3>1, SamePage
        <4>2. u = t
          BY <4>1, PathsAgree
        <4> QED
          BY <1>1, <4>1, <4>2
      <3>2. ASSUME u = t, Digit(page, 1) = Digit(at, 1)
            PROVE  page % VPages = at % VPages
        <4>1. \A l \in 1 .. PageLevel : l # 1 => Digit(page, l) = Digit(at, l)
          BY <1>2, <3>2, PathsMeet
        <4>2. \A l \in 1 .. PageLevel : Digit(page, l) = Digit(at, l)
          BY <3>2, <4>1
        <4> QED
          BY <4>2, SamePage
      <3> QED
        BY <3>1, <3>2
    <2>5. LeafOf(tbl, root, page) = IF u = 0 THEN NoEntry ELSE tbl[u][Digit(page, 1)]
      BY DEF LeafOf
    <2>6. LeafOf(tbl2, root, page) = IF u = 0 THEN NoEntry ELSE tbl2[u][Digit(page, 1)]
      BY <2>1 DEF LeafOf
    <2> HIDE DEF u
    <2>7. CASE u = t /\ Digit(page, 1) = Digit(at, 1)
      BY <1>2, <1>3, <1>5, <2>3, <2>4, <2>6, <2>7
    <2>8. CASE ~ (u = t /\ Digit(page, 1) = Digit(at, 1))
      <3>1. u # 0 => tbl2[u][Digit(page, 1)] = tbl[u][Digit(page, 1)]
        BY <1>3, <1>5, <2>2, <2>3, <2>8
      <3> QED
        BY <2>4, <2>5, <2>6, <2>8, <3>1
    <2> QED
      BY <2>7, <2>8
  <1> QED
    BY <1>4, <1>6

\* The tree with a new table p, linked from the entry x of pgd.
Grown(tbl, p, pgd, x) ==
    [t \in DOMAIN tbl \union {p} |->
        IF t = p THEN EmptyTable
        ELSE IF t = pgd THEN [tbl[t] EXCEPT ![x] = Entry(p)]
        ELSE tbl[t]]

\* Pages keep their leaves, and the tables they have.
SameLeaves(tbl, tbl2, root) ==
    \A page \in Nat :
        /\ LeafOf(tbl2, root, page) = LeafOf(tbl, root, page)
        /\ \A l \in 1 .. PageLevel :
              PathOf(tbl, root, page)[l] # 0 =>
                  PathOf(tbl2, root, page)[l] = PathOf(tbl, root, page)[l]

\* A new table below an empty entry keeps the tree, and every leaf in it.
LEMMA GrownTree ==
    ASSUME NEW tbl, NEW root, NEW level, Tree(tbl, root, level),
           NEW pgd \in DOMAIN tbl, level[pgd] # 1,
           NEW x \in Indexes, tbl[pgd][x] = NoEntry,
           NEW p \in Addrs, p # 0, p \notin DOMAIN tbl
    PROVE  /\ \E level2 : Tree(Grown(tbl, p, pgd, x), root, level2)
           /\ SameLeaves(tbl, Grown(tbl, p, pgd, x), root)
  <1> DEFINE tbl2   == Grown(tbl, p, pgd, x)
             level2 == [t \in DOMAIN tbl \union {p} |->
                           IF t = p THEN level[pgd] - 1 ELSE level[t]]
  <1>1. /\ DOMAIN tbl2 = DOMAIN tbl \union {p}
        /\ tbl2[p] = EmptyTable
        /\ \A t \in DOMAIN tbl : t # pgd => tbl2[t] = tbl[t]
        /\ tbl2[pgd] = [tbl[pgd] EXCEPT ![x] = Entry(p)]
    BY DEF Grown
  <1> HIDE DEF tbl2
  <1>2. /\ DOMAIN level2 = DOMAIN tbl \union {p}
        /\ level2[p] = level[pgd] - 1
        /\ \A t \in DOMAIN tbl : level2[t] = level[t]
    OBVIOUS
  <1> HIDE DEF level2
  <1>3. /\ PageLevel \in Nat \ {0} /\ 1 \in 1 .. PageLevel /\ PageLevel \in 1 .. PageLevel
        /\ level[pgd] \in 1 .. PageLevel /\ level[pgd] - 1 \in 1 .. PageLevel
        /\ level[pgd] - 1 # PageLevel
    <2>1. level[pgd] \in 1 .. PageLevel
      BY DEF Tree, Rooted
    <2> QED
      BY <2>1, PageAssumption
  <1>4. root # 0 /\ root \in DOMAIN tbl /\ p # root
    BY DEF Tree, Rooted
  <1>5. NoEntry.addr = 0 /\ Entry(p).addr = p /\ Entry(p) # NoEntry
        /\ \A y \in Indexes : EmptyTable[y] = NoEntry
    <2>1. NoEntry.addr = 0 /\ Entry(p).addr = p
      BY DEF NoEntry, Entry
    <2> QED
      BY <2>1 DEF EmptyTable, Indexes
  <1>6. /\ tbl[pgd] \in [Indexes -> Entries]
        /\ tbl2[pgd] \in [Indexes -> Entries]
        /\ \A y \in Indexes : tbl2[pgd][y] = IF y = x THEN Entry(p) ELSE tbl[pgd][y]
    <2>1. tbl[pgd] \in [Indexes -> Entries]
      BY DEF Tree, Rooted
    <2>2. Entry(p) \in Entries
      BY TableTypes
    <2> QED
      BY <1>1, <2>1, <2>2
  <1>7. ASSUME NEW t \in DOMAIN tbl2, NEW y \in Indexes, Links(tbl2, level2, t, y)
        PROVE  /\ t \in DOMAIN tbl
               /\ \/ t = pgd /\ y = x /\ tbl2[t][y].addr = p
                  \/ Links(tbl, level, t, y) /\ tbl2[t][y] = tbl[t][y]
    <2>1. CASE t = p
      BY <1>1, <1>5, <1>7, <2>1 DEF Links
    <2>2. CASE t = pgd
      BY <1>2, <1>5, <1>6, <1>7, <2>2 DEF Links
    <2>3. CASE t # p /\ t # pgd
      BY <1>1, <1>2, <1>7, <2>3 DEF Links
    <2> QED
      BY <2>1, <2>2, <2>3
  <1>8. ASSUME NEW t \in DOMAIN tbl, NEW y \in Indexes, Links(tbl, level, t, y)
        PROVE  /\ Links(tbl2, level2, t, y) /\ tbl2[t][y] = tbl[t][y]
               /\ tbl[t][y].addr # p
    <2>1. tbl[t][y].addr # p
      BY <1>8 DEF Tree, Linked
    <2>2. CASE t = pgd
      BY <1>2, <1>6, <1>8, <2>1, <2>2 DEF Links
    <2>3. CASE t # pgd
      BY <1>1, <1>2, <1>8, <2>1, <2>3 DEF Links
    <2> QED
      BY <2>2, <2>3
  <1>9. Links(tbl2, level2, pgd, x) /\ tbl2[pgd][x].addr = p
    BY <1>2, <1>5, <1>6 DEF Links
  <1>10. Rooted(tbl2, root, level2)
    <2>1. level2 \in [DOMAIN tbl2 -> 1 .. PageLevel]
      <3>1. \A t \in DOMAIN tbl : level[t] \in 1 .. PageLevel
        BY DEF Tree, Rooted
      <3>2. \A t \in DOMAIN tbl \union {p} : level2[t] \in 1 .. PageLevel
        BY <1>2, <1>3, <3>1
      <3>3. level2 = [t \in DOMAIN tbl \union {p} |-> level2[t]]
        BY DEF level2
      <3> QED
        BY <1>1, <3>2, <3>3
    <2>2. ASSUME NEW t \in DOMAIN tbl2
          PROVE  /\ t # 0 /\ tbl2[t] \in [Indexes -> Entries]
                 /\ level2[t] = PageLevel <=> t = root
      <3>1. CASE t = p
        BY <1>1, <1>2, <1>3, <1>4, <3>1, TableTypes DEF Indexes
      <3>2. CASE t \in DOMAIN tbl
        <4>1. /\ t # 0 /\ tbl[t] \in [Indexes -> Entries]
              /\ level[t] = PageLevel <=> t = root
          BY <3>2 DEF Tree, Rooted
        <4> QED
          BY <1>1, <1>2, <1>6, <3>2, <4>1
      <3> QED
        BY <1>1, <3>1, <3>2
    <2> QED
      BY <1>1, <1>4, <2>1, <2>2 DEF Rooted
  <1>11. Linked(tbl2, level2)
    <2> SUFFICES ASSUME NEW t \in DOMAIN tbl2, NEW y \in Indexes,
                        Links(tbl2, level2, t, y)
                 PROVE  /\ tbl2[t][y].addr \in DOMAIN tbl2
                        /\ level2[t] = level2[tbl2[t][y].addr] + 1
      BY DEF Linked
    <2>1. CASE t = pgd /\ y = x /\ tbl2[t][y].addr = p
      BY <1>1, <1>2, <1>3, <2>1
    <2>2. CASE Links(tbl, level, t, y) /\ tbl2[t][y] = tbl[t][y] /\ t \in DOMAIN tbl
      <3>1. tbl[t][y].addr \in DOMAIN tbl /\ level[t] = level[tbl[t][y].addr] + 1
        BY <2>2 DEF Tree, Linked
      <3> QED
        BY <1>1, <1>2, <2>2, <3>1
    <2> QED
      BY <1>7, <2>1, <2>2
  <1>12. Unshared(tbl2, level2)
    <2> SUFFICES ASSUME NEW t \in DOMAIN tbl2, NEW u \in DOMAIN tbl2,
                        NEW y \in Indexes, NEW z \in Indexes,
                        Links(tbl2, level2, t, y), Links(tbl2, level2, u, z),
                        tbl2[t][y].addr = tbl2[u][z].addr
                 PROVE  t = u /\ y = z
      BY DEF Unshared
    <2>1. CASE t = pgd /\ y = x
      <3>1. tbl2[u][z].addr = p
        BY <1>9, <2>1
      <3>2. u = pgd /\ z = x
        BY <1>7, <1>8, <3>1
      <3> QED
        BY <2>1, <3>2
    <2>2. CASE u = pgd /\ z = x
      <3>1. tbl2[t][y].addr = p
        BY <1>9, <2>2
      <3>2. t = pgd /\ y = x
        BY <1>7, <1>8, <3>1
      <3> QED
        BY <2>2, <3>2
    <2>3. CASE ~ (t = pgd /\ y = x) /\ ~ (u = pgd /\ z = x)
      <3>1. /\ t \in DOMAIN tbl /\ Links(tbl, level, t, y) /\ tbl2[t][y] = tbl[t][y]
            /\ u \in DOMAIN tbl /\ Links(tbl, level, u, z) /\ tbl2[u][z] = tbl[u][z]
        BY <1>7, <2>3
      <3>2. tbl[t][y].addr = tbl[u][z].addr
        BY <3>1
      <3> QED
        BY <3>1, <3>2 DEF Tree, Unshared
    <2> QED
      BY <2>1, <2>2, <2>3
  <1>13. Reached(tbl2, root, level2)
    <2> SUFFICES ASSUME NEW t \in DOMAIN tbl2 \ {root}
                 PROVE  \E u \in DOMAIN tbl2, y \in Indexes :
                           Links(tbl2, level2, u, y) /\ tbl2[u][y].addr = t
      BY DEF Reached
    <2>1. CASE t = p
      BY <1>1, <1>9, <2>1
    <2>2. CASE t # p
      <3>1. PICK u \in DOMAIN tbl, y \in Indexes :
                    Links(tbl, level, u, y) /\ tbl[u][y].addr = t
        BY <1>1, <2>2 DEF Tree, Reached
      <3>2. Links(tbl2, level2, u, y) /\ tbl2[u][y].addr = t /\ u \in DOMAIN tbl2
        BY <1>1, <1>8, <3>1
      <3> QED
        BY <3>2
    <2> QED
      BY <2>1, <2>2
  <1>14. Tree(tbl2, root, level2)
    BY <1>10, <1>11, <1>12, <1>13 DEF Tree
  <1>15. SameLeaves(tbl, tbl2, root)
    <2> SUFFICES ASSUME NEW page \in Nat
                 PROVE  /\ LeafOf(tbl2, root, page) = LeafOf(tbl, root, page)
                        /\ \A l \in 1 .. PageLevel :
                              PathOf(tbl, root, page)[l] # 0 =>
                                  PathOf(tbl2, root, page)[l] = PathOf(tbl, root, page)[l]
      BY DEF SameLeaves
    <2> DEFINE a == PathOf(tbl, root, page)
               b == PathOf(tbl2, root, page)
               Follows(l) == b[l] = a[l] \/ (a[l] = 0 /\ b[l] = p)
               S == {l \in 1 .. PageLevel : Follows(l)}
    <2>1. PathDown(tbl, root, level, page, a) /\ PathDown(tbl2, root, level2, page, b)
      BY <1>14, PathExists
    <2>2. /\ LeafOf(tbl, root, page) = IF a[1] = 0 THEN NoEntry ELSE tbl[a[1]][Digit(page, 1)]
          /\ LeafOf(tbl2, root, page) = IF b[1] = 0 THEN NoEntry ELSE tbl2[b[1]][Digit(page, 1)]
      BY DEF LeafOf
    <2> HIDE DEF a, b
    <2>3. Follows(PageLevel)
      <3>1. b[PageLevel] = a[PageLevel]
        BY <2>1 DEF PathDown
      <3> QED
        BY <3>1, Zenon
    <2>4. ASSUME NEW l \in 1 .. PageLevel, l # PageLevel, Follows(l + 1) PROVE Follows(l)
      <3>1. l + 1 \in 1 .. PageLevel /\ l + 1 # 1
        BY <1>3, <2>4
      <3> DEFINE y == Digit(page, l + 1)
                 t == a[l + 1]
      <3>2. y \in Indexes
        BY <3>1, DigitIndex
      <3>3. /\ a[l] = IF t = 0 THEN 0 ELSE tbl[t][y].addr
            /\ b[l] = IF b[l + 1] = 0 THEN 0 ELSE tbl2[b[l + 1]][y].addr
        BY <2>1, <2>4 DEF PathDown
      <3>4. t # 0 => t \in DOMAIN tbl /\ t # p
        BY <2>1, <3>1 DEF PathDown
      <3> HIDE DEF y
      <3>5. CASE b[l + 1] = t /\ t = 0
        <4>1. b[l] = a[l]
          BY <3>3, <3>5
        <4> QED
          BY <4>1, Zenon
      <3>6. CASE b[l + 1] = t /\ t # 0 /\ t = pgd /\ y = x
        <4>1. a[l] = 0 /\ b[l] = p
          BY <1>5, <1>9, <3>3, <3>6
        <4> QED
          BY <4>1, Zenon
      <3>7. CASE b[l + 1] = t /\ t # 0 /\ ~ (t = pgd /\ y = x)
        <4>1. tbl2[t][y] = tbl[t][y]
          BY <1>1, <1>6, <3>2, <3>4, <3>7
        <4>2. b[l] = a[l]
          BY <3>3, <3>7, <4>1
        <4> QED
          BY <4>2, Zenon
      <3>8. CASE t = 0 /\ b[l + 1] = p
        <4>1. b[l] = a[l]
          BY <1>1, <1>5, <3>2, <3>3, <3>8
        <4> QED
          BY <4>1, Zenon
      <3>9. b[l + 1] = t \/ (t = 0 /\ b[l + 1] = p)
        BY <2>4, Zenon
      <3> HIDE DEF Follows
      <3> QED
        BY <3>5, <3>6, <3>7, <3>8, <3>9
    <2>5. \A l \in 1 .. PageLevel : Follows(l)
      <3> HIDE DEF Follows
      <3>1. PageLevel \in S
            /\ \A l \in 1 .. PageLevel : l # PageLevel /\ l + 1 \in S => l \in S
        BY <1>3, <2>3, <2>4
      <3>2. 1 .. PageLevel \subseteq S
        <4> HIDE DEF S
        <4> QED
          BY <1>3, <3>1, LevelsDown
      <3> QED
        BY <3>2
    <2>6. LeafOf(tbl2, root, page) = LeafOf(tbl, root, page)
      <3>1. Digit(page, 1) \in Indexes
        BY <1>3, DigitIndex
      <3>2. a[1] # 0 => a[1] \in DOMAIN tbl /\ level[a[1]] = 1
        BY <1>3, <2>1 DEF PathDown
      <3>3. b[1] = a[1] \/ (a[1] = 0 /\ b[1] = p)
        BY <1>3, <2>5
      <3>4. CASE b[1] = a[1]
        <4>1. a[1] # 0 => tbl2[a[1]] = tbl[a[1]]
          BY <1>1, <3>2
        <4> QED
          BY <2>2, <3>4, <4>1
      <3>5. CASE a[1] = 0 /\ b[1] = p
        BY <1>1, <1>5, <2>2, <3>1, <3>5
      <3> QED
        BY <3>3, <3>4, <3>5
    <2> QED
      BY <2>5, <2>6 DEF a, b
  <1> QED
    BY <1>14, <1>15 DEF tbl2

\* A root alone is a tree in which no page has a leaf, as no tables are.
LEMMA RootTree ==
    ASSUME NEW tbl, NEW root,
           \/ DOMAIN tbl = {} /\ root = 0
           \/ root # 0 /\ tbl = [t \in {root} |-> EmptyTable]
    PROVE  /\ \E level : Tree(tbl, root, level)
           /\ \A page \in Nat : LeafOf(tbl, root, page) = NoEntry
  <1> DEFINE level == [t \in DOMAIN tbl |-> PageLevel]
  <1>1. PageLevel \in Nat \ {0} /\ 1 \in 1 .. PageLevel /\ PageLevel \in 1 .. PageLevel
    BY PageAssumption
  <1>2. \A t \in DOMAIN tbl : level[t] = PageLevel /\ t = root /\ t # 0 /\ tbl[t] = EmptyTable
    OBVIOUS
  <1>3. /\ EmptyTable \in [Indexes -> Entries]
        /\ \A y \in Indexes : EmptyTable[y] = NoEntry
    BY TableTypes DEF EmptyTable, Indexes
  <1>4. Rooted(tbl, root, level)
    BY <1>1, <1>2, <1>3 DEF Rooted
  <1> HIDE DEF level
  <1>5. \A t \in DOMAIN tbl, x \in Indexes : ~ Links(tbl, level, t, x)
    BY <1>2, <1>3 DEF Links
  <1>6. Linked(tbl, level) /\ Unshared(tbl, level) /\ Reached(tbl, root, level)
    BY <1>2, <1>5 DEF Linked, Unshared, Reached
  <1>7. Tree(tbl, root, level)
    BY <1>4, <1>6 DEF Tree
  <1>8. ASSUME NEW page \in Nat PROVE LeafOf(tbl, root, page) = NoEntry
    <2>1. PathDown(tbl, root, level, page, PathOf(tbl, root, page))
      BY <1>7, PathExists
    <2>2. Digit(page, 1) \in Indexes
      BY <1>1, DigitIndex
    <2> DEFINE t == PathOf(tbl, root, page)[1]
    <2>3. t # 0 => t \in DOMAIN tbl
      BY <1>1, <2>1 DEF PathDown
    <2>4. LeafOf(tbl, root, page) = IF t = 0 THEN NoEntry ELSE tbl[t][Digit(page, 1)]
      BY DEF LeafOf
    <2> HIDE DEF t
    <2> QED
      BY <1>2, <1>3, <2>2, <2>3, <2>4
  <1> QED
    BY <1>7, <1>8

-----------------------------------------------------------------------------
(***************************************************************************)
(* Every step keeps the tree, and what it does to the leaves.              *)
(***************************************************************************)
\* The page that setup_vpage maps.
Page == VirtualAddr \div PageSize

Pages == (call.asked + PageSize - 1) \div PageSize

\* setup_vpage is at the table of its page at its level.
WalkOK ==
    call.pc = "walk" =>
        call.pgd # 0 /\ call.pgd = PathOf(tables, cr3, Page)[call.lvl]

TreeInv == (\E level : Tree(tables, cr3, level)) /\ WalkOK

\* A call maps whole pages, and no more than it was asked for.
CallOK ==
    /\ call.vaddr \in Nat /\ call.asked \in Nat
    /\ call.pc # "idle" =>
          /\ cr3 # 0
          /\ call.vaddr % PageSize = 0 /\ call.paddr % PageSize = 0
          /\ call.i % PageSize = 0 /\ call.i <= call.size
          /\ call.asked # 0
          /\ call.size = Pages * PageSize /\ call.size < Word
    /\ call.pc = "walk" => call.i < call.size

MapInv == PageInv /\ TreeInv /\ CallOK

\* The map that AddressMap sees.
Leaves == [v \in 0 .. VPages - 1 |-> LeafOf(tables, cr3, v)]

SameMap == \A page \in Nat : LeafOf(tables', cr3', page) = LeafOf(tables, cr3, page)

\* The address of a page is a multiple, of its number.
LEMMA PageNumbers ==
    ASSUME NEW v \in Nat
    PROVE  (v * PageSize) \div PageSize = v /\ (v * PageSize) % PageSize = 0
  <1>1. PageSize \in Nat \ {0} /\ 0 \in 0 .. PageSize - 1
    BY PageAssumption
  <1>2. (PageSize * v + 0) \div PageSize = v /\ (PageSize * v + 0) % PageSize = 0
    BY <1>1, DividedOnce
  <1>3. PageSize * v + 0 = v * PageSize
    BY <1>1
  <1> QED
    BY <1>2, <1>3

\* The page walk of the processor finds the leaves of the tree.
LEMMA Translated ==
    /\ [v \in 0 .. VPages - 1 |-> Translate(v * PageSize)] = Leaves
    /\ [v \in 0 .. VPages - 1 |-> Translate(v * PageSize)]' = Leaves'
  <1>1. \A addr : TablesFor(addr) = PathOf(tables, cr3, addr \div PageSize)
    BY DEF TablesFor, PathOf, PteIndexAtLevel, Digit
  <1>2. \A addr : TablesFor(addr)' = PathOf(tables', cr3', addr \div PageSize)
    BY DEF TablesFor, PathOf, PteIndexAtLevel, Digit
  <1>3. \A addr : Translate(addr) = LeafOf(tables, cr3, addr \div PageSize)
    BY <1>1 DEF Translate, LeafOf, PteIndexAtLevel, Digit
  <1>4. \A addr : Translate(addr)' = LeafOf(tables', cr3', addr \div PageSize)
    BY <1>2 DEF Translate, LeafOf, PteIndexAtLevel, Digit
  <1>5. \A v \in 0 .. VPages - 1 : v \in Nat
    OBVIOUS
  <1>6. \A v \in 0 .. VPages - 1 : Translate(v * PageSize) = LeafOf(tables, cr3, v)
    BY <1>3, <1>5, PageNumbers
  <1>7. \A v \in 0 .. VPages - 1 : Translate(v * PageSize)' = LeafOf(tables', cr3', v)
    BY <1>4, <1>5, PageNumbers
  <1> QED
    BY <1>6, <1>7 DEF Leaves

\* PAGE_ALIGN counts pages, below the last page of the sizes.
LEMMA PageAligned ==
    ASSUME NEW asked \in Nat, asked + PageSize <= Word
    PROVE  LET n == (asked + PageSize - 1) \div PageSize
           IN  /\ n \in Nat /\ PageAlign(asked) = n * PageSize
               /\ n * PageSize < Word
               /\ asked # 0 => n > 0
  <1> DEFINE q == asked \div PageSize
             r == asked % PageSize
             n == (asked + PageSize - 1) \div PageSize
  <1>1. PageSize \in Nat \ {0} /\ Word \in Nat \ {0}
    BY PageAssumption, WordAssumption
  <1>2. q \in Nat /\ r \in 0 .. PageSize - 1 /\ asked = PageSize * q + r
    BY <1>1, Divided
  <1> HIDE DEF q, r
  <1>3. PageAlign(asked) = IF r = 0 THEN asked ELSE Wrap(asked - r + PageSize)
    BY DEF PageAlign, PageOffset, AlignDown, r
  <1>4. PageSize * q \in Nat /\ PageSize * q = q * PageSize
        /\ PageSize * (q + 1) = PageSize * q + PageSize
        /\ (q + 1) * PageSize = PageSize * q + PageSize
    BY <1>1, <1>2
  <1>5. CASE r = 0
    <2>1. asked + PageSize - 1 = PageSize * q + (PageSize - 1)
      BY <1>1, <1>2, <1>4, <1>5
    <2>2. n = q
      <3>1. PageSize - 1 \in 0 .. PageSize - 1
        BY <1>1
      <3> QED
        BY <1>1, <1>2, <2>1, <3>1, DividedOnce
    <2> HIDE DEF n
    <2>3. asked = n * PageSize
      BY <1>2, <1>4, <1>5, <2>2
    <2>4. asked # 0 => n > 0
      <3>1. n = 0 => n * PageSize = 0
        BY <1>1
      <3> QED
        BY <1>2, <2>2, <2>3, <3>1
    <2> QED
      BY <1>1, <1>2, <1>3, <1>5, <2>2, <2>3, <2>4 DEF n
  <1>6. CASE r # 0
    <2>1. asked + PageSize - 1 = PageSize * (q + 1) + (r - 1)
      BY <1>1, <1>2, <1>4, <1>6
    <2>2. n = q + 1
      <3>1. r - 1 \in 0 .. PageSize - 1 /\ q + 1 \in Nat
        BY <1>1, <1>2, <1>6
      <3> QED
        BY <1>1, <2>1, <3>1, DividedOnce
    <2> HIDE DEF n
    <2>3. n * PageSize = asked - r + PageSize /\ n * PageSize \in 0 .. Word - 1
      BY <1>1, <1>2, <1>4, <1>6, <2>2
    <2>4. Wrap(n * PageSize) = n * PageSize
      BY <1>1, <2>3, Small DEF Wrap
    <2> QED
      BY <1>1, <1>2, <1>3, <1>6, <2>2, <2>3, <2>4 DEF n
  <1> QED
    BY <1>5, <1>6

\* pagetable_install changes the translation of no page.
LEMMA InstallTree ==
    ASSUME MapInv, PagetableInstall
    PROVE  TreeInv' /\ CallOK' /\ SameMap /\ call' = call
  <1> DEFINE pgd == AllocatePermanent(alloc, PageSize, PageSize)
  <1>1. /\ call' = call /\ call.pc = "idle" /\ cr3 = 0
        /\ IF pgd.addr = 0
           THEN tables' = tables /\ cr3' = cr3
           ELSE /\ tables' = [t \in {pgd.addr} |-> EmptyTable]
                /\ cr3' = pgd.addr
    BY DEF PagetableInstall
  <1> HIDE DEF pgd
  <1>2. CallOK' /\ WalkOK'
    BY <1>1 DEF MapInv, CallOK, WalkOK
  <1>3. CASE pgd.addr = 0
    BY <1>1, <1>2, <1>3 DEF MapInv, TreeInv, SameMap
  <1>4. CASE pgd.addr # 0
    <2>1. DOMAIN tables = {}
      BY <1>1 DEF MapInv, TreeInv, Tree, Rooted
    <2>2. \A page \in Nat : LeafOf(tables, cr3, page) = NoEntry
      BY <1>1, <2>1, RootTree
    <2>3. /\ \E level : Tree(tables', cr3', level)
          /\ \A page \in Nat : LeafOf(tables', cr3', page) = NoEntry
      BY <1>1, <1>4, RootTree
    <2> QED
      BY <1>1, <1>2, <2>2, <2>3 DEF TreeInv, SameMap
  <1> QED
    BY <1>3, <1>4

\* The entry of pagetable_map: a call is refused, or it begins.
LEMMA CallTree ==
    ASSUME MapInv, NEW vaddr \in Nat, NEW paddr \in Nat, NEW size \in Nat,
           size + PageSize <= Word, PagetableMap(vaddr, paddr, size)
    PROVE  /\ TreeInv' /\ CallOK' /\ SameMap
           /\ call.pc = "idle"
           /\ \/ call' = Idle(FALSE)
              \/ /\ call'.pc = "loop" /\ call'.i = 0 /\ call'.asked \in Nat
                 /\ call'.ret = call.ret /\ Pages' > 0
  <1>1. /\ call.pc = "idle" /\ tables' = tables /\ cr3' = cr3
        /\ call' = IF MayMap(vaddr, paddr, size)
                   THEN [call EXCEPT !.pc = "loop", !.vaddr = vaddr,
                                 !.paddr = paddr, !.asked = size,
                                 !.size = PageAlign(size), !.i = 0]
                   ELSE Idle(FALSE)
    BY DEF PagetableMap
  <1>2. DOMAIN call = Locals
    BY DEF MapInv, PageInv, LocalsOK
  <1>3. SameMap
    BY <1>1 DEF SameMap
  <1>4. CASE ~ MayMap(vaddr, paddr, size)
    <2>1. call' = Idle(FALSE)
      BY <1>1, <1>4
    <2>2. call'.pc = "idle" /\ call'.vaddr = call.vaddr /\ call'.asked = call.asked
      BY <1>2, <2>1 DEF Idle, Locals
    <2> QED
      BY <1>1, <1>3, <2>1, <2>2 DEF MapInv, TreeInv, WalkOK, CallOK
  <1>5. CASE MayMap(vaddr, paddr, size)
    <2>1. /\ call'.pc = "loop" /\ call'.vaddr = vaddr /\ call'.paddr = paddr
          /\ call'.asked = size /\ call'.size = PageAlign(size) /\ call'.i = 0
          /\ call'.ret = call.ret
      BY <1>1, <1>2, <1>5 DEF Locals
    <2>2. /\ vaddr \in Nat /\ size \in Nat /\ size # 0 /\ cr3 # 0
          /\ vaddr % PageSize = 0 /\ paddr % PageSize = 0
          /\ size + PageSize <= Word
      BY <1>5 DEF MayMap, PageOffset
    <2>3. /\ Pages' \in Nat /\ PageAlign(size) = Pages' * PageSize
          /\ Pages' * PageSize < Word /\ Pages' > 0
      BY <2>1, <2>2, PageAligned DEF Pages
    <2>4. 0 % PageSize = 0 /\ 0 <= PageAlign(size)
      <3>1. 0 \in 0 .. PageSize - 1 /\ PageSize \in Nat \ {0}
        BY PageAssumption
      <3>2. Pages' * PageSize \in Nat
        <4>1. \A n \in Nat : n * PageSize \in Nat
          BY <3>1
        <4> QED
          BY <2>3, <4>1
      <3>3. 0 % PageSize = 0
        BY <3>1, Small
      <3> QED
        BY <2>3, <3>2, <3>3
    <2>5. CallOK'
      BY <1>1, <2>1, <2>2, <2>3, <2>4 DEF CallOK
    <2>6. TreeInv'
      BY <1>1, <2>1 DEF MapInv, TreeInv, WalkOK
    <2> QED
      BY <1>1, <1>3, <2>1, <2>2, <2>3, <2>5, <2>6
  <1> QED
    BY <1>4, <1>5

\* The loop of pagetable_map: the call ends behind its last page, or setup_vpage
\* starts at the root.
LEMMA NextPageTree ==
    ASSUME MapInv, NextPage
    PROVE  /\ TreeInv' /\ CallOK' /\ SameMap
           /\ call.pc = "loop"
           /\ \/ call' = Idle(TRUE) /\ call.i = call.size
              \/ call' = [call EXCEPT !.pc = "walk", !.lvl = PageLevel, !.pgd = cr3]
  <1>1. /\ call.pc = "loop" /\ tables' = tables /\ cr3' = cr3
        /\ call' = IF call.i < call.size
                   THEN [call EXCEPT !.pc = "walk", !.lvl = PageLevel, !.pgd = cr3]
                   ELSE Idle(TRUE)
    BY DEF NextPage
  <1>2. DOMAIN call = Locals /\ call.i \in Nat
    BY DEF MapInv, PageInv, LocalsOK
  <1>3. SameMap
    BY <1>1 DEF SameMap
  <1>4. /\ cr3 # 0 /\ call.i <= call.size /\ call.size = Pages * PageSize
        /\ call.size < Word
    BY <1>1 DEF MapInv, CallOK
  <1>5. CASE call.i < call.size
    <2>1. /\ call'.pc = "walk" /\ call'.lvl = PageLevel /\ call'.pgd = cr3
          /\ call'.vaddr = call.vaddr /\ call'.paddr = call.paddr
          /\ call'.asked = call.asked /\ call'.size = call.size /\ call'.i = call.i
      BY <1>1, <1>2, <1>5 DEF Locals
    <2>2. CallOK'
      BY <1>1, <1>5, <2>1 DEF MapInv, CallOK, Pages
    <2>3. WalkOK'
      <3>1. PICK level : Tree(tables, cr3, level)
        BY DEF MapInv, TreeInv
      <3>2. Page \in Nat /\ Page' = Page
        <4>1. VirtualAddr \in Nat /\ VirtualAddr' = VirtualAddr
          BY <1>2, <2>1 DEF VirtualAddr, MapInv, CallOK
        <4> QED
          BY <4>1, PageAssumption, Divided DEF Page
      <3>3. PathOf(tables, cr3, Page)[PageLevel] = cr3
        BY <3>1, <3>2, PathExists DEF PathDown
      <3> QED
        BY <1>1, <1>4, <2>1, <3>2, <3>3 DEF WalkOK
    <2>4. TreeInv'
      BY <1>1, <2>3 DEF MapInv, TreeInv
    <2> QED
      BY <1>1, <1>3, <1>5, <2>2, <2>4
  <1>6. CASE ~ call.i < call.size
    <2>1. call' = Idle(TRUE)
      BY <1>1, <1>6
    <2>2. call'.pc = "idle" /\ call'.vaddr = call.vaddr /\ call'.asked = call.asked
      BY <1>2, <2>1 DEF Idle, Locals
    <2>3. call.i = call.size
      <3>1. Pages * PageSize \in Nat
        <4>1. Pages \in Nat
          <5>1. call.asked + PageSize - 1 \in Nat /\ PageSize \in Nat \ {0}
            BY PageAssumption DEF MapInv, CallOK
          <5> QED
            BY <5>1, Divided DEF Pages
        <4>2. \A n \in Nat : n * PageSize \in Nat
          BY PageAssumption
        <4> QED
          BY <4>1, <4>2
      <3> QED
        BY <1>2, <1>4, <1>6, <3>1
    <2>4. TreeInv' /\ CallOK'
      BY <1>1, <2>2 DEF MapInv, TreeInv, WalkOK, CallOK
    <2> QED
      BY <1>1, <1>3, <2>1, <2>3, <2>4
  <1> QED
    BY <1>5, <1>6

\* Where setup_vpage is.
LEMMA AtTable ==
    ASSUME MapInv, call.pc = "walk"
    PROVE  /\ Page \in Nat /\ Index \in Indexes
           /\ Index = Digit(Page, call.lvl)
           /\ call.lvl \in 1 .. PageLevel
           /\ call.pgd \in DOMAIN tables /\ call.pgd # 0
           /\ call.pgd = PathOf(tables, cr3, Page)[call.lvl]
           /\ \A level : Tree(tables, cr3, level) => level[call.pgd] = call.lvl
  <1>1. PICK level : Tree(tables, cr3, level)
    BY DEF MapInv, TreeInv
  <1>2. Page \in Nat
    <2>1. VirtualAddr \in Nat
      BY DEF VirtualAddr, MapInv, CallOK, PageInv, LocalsOK
    <2> QED
      BY <2>1, PageAssumption, Divided DEF Page
  <1>3. call.lvl \in 1 .. PageLevel
    BY DEF MapInv, PageInv, LocalsOK
  <1>4. call.pgd # 0 /\ call.pgd = PathOf(tables, cr3, Page)[call.lvl]
    BY DEF MapInv, TreeInv, WalkOK
  <1>5. ASSUME NEW lev, Tree(tables, cr3, lev)
        PROVE  call.pgd \in DOMAIN tables /\ lev[call.pgd] = call.lvl
    <2>1. PathDown(tables, cr3, lev, Page, PathOf(tables, cr3, Page))
      BY <1>2, <1>5, PathExists
    <2> QED
      BY <1>3, <1>4, <2>1 DEF PathDown
  <1>6. Index = Digit(Page, call.lvl)
    BY DEF Index, PteIndexAtLevel, Digit, Page
  <1> QED
    BY <1>1, <1>2, <1>3, <1>4, <1>5, <1>6, DigitIndex

\* setup_vpage goes down a level, to the next table of its page.
LEMMA DescendTree ==
    ASSUME MapInv, call.pc = "walk", call.lvl > 1, NEW down, down # 0, Descend(down),
           cr3' = cr3, \E level : Tree(tables', cr3', level),
           PathOf(tables', cr3', Page)[call.lvl] = call.pgd,
           tables'[call.pgd][Index].addr = down
    PROVE  TreeInv' /\ CallOK'
  <1>1. DOMAIN call = Locals /\ PageLevel \in Nat \ {0}
    BY PageAssumption DEF MapInv, PageInv, LocalsOK
  <1>2. /\ call'.pc = "walk" /\ call'.lvl = call.lvl - 1 /\ call'.pgd = down
        /\ call'.vaddr = call.vaddr /\ call'.paddr = call.paddr
        /\ call'.asked = call.asked /\ call'.size = call.size /\ call'.i = call.i
    BY <1>1 DEF Descend, Locals
  <1>3. CallOK'
    BY <1>2 DEF MapInv, CallOK, Pages
  <1>4. /\ Page \in Nat /\ Index = Digit(Page, call.lvl)
        /\ call.lvl \in 1 .. PageLevel /\ call.pgd # 0
    BY AtTable
  <1>5. Page' = Page
    BY <1>2 DEF Page, VirtualAddr
  <1>6. PICK level : Tree(tables', cr3', level)
    OBVIOUS
  <1> DEFINE path == PathOf(tables', cr3', Page)
             l    == call.lvl - 1
  <1>7. PathDown(tables', cr3', level, Page, path)
    BY <1>4, <1>6, PathExists
  <1>8. l \in 1 .. PageLevel /\ l # PageLevel /\ l + 1 = call.lvl
    BY <1>1, <1>4
  <1> HIDE DEF path, l
  <1>9. path[l] = tables'[call.pgd][Index].addr
    BY <1>4, <1>7, <1>8 DEF PathDown, path
  <1>10. WalkOK'
    BY <1>2, <1>5, <1>9 DEF WalkOK, path, l
  <1> QED
    BY <1>3, <1>6, <1>10 DEF TreeInv

\* A turn of setup_vpage that finds the table keeps the tree.
LEMMA WalkPresentTree ==
    ASSUME MapInv, WalkPresent
    PROVE  TreeInv' /\ CallOK' /\ SameMap
  <1> DEFINE down == tables[call.pgd][Index].addr
  <1>1. /\ call.pc = "walk" /\ call.lvl > 1 /\ tables[call.pgd][Index] # NoEntry
        /\ Descend(down) /\ tables' = tables /\ cr3' = cr3
    BY DEF WalkPresent
  <1>2. PICK level : Tree(tables, cr3, level)
    BY DEF MapInv, TreeInv
  <1>3. /\ Index \in Indexes /\ call.pgd \in DOMAIN tables /\ level[call.pgd] = call.lvl
        /\ PathOf(tables, cr3, Page)[call.lvl] = call.pgd
    BY <1>1, <1>2, AtTable
  <1>4. Links(tables, level, call.pgd, Index)
    <2>1. level[call.pgd] # 1
      <3>1. call.lvl \in 1 .. PageLevel
        BY <1>1, AtTable
      <3> QED
        BY <1>1, <1>3, <3>1
    <2> QED
      BY <1>1, <2>1 DEF Links
  <1>5. down # 0
    BY <1>2, <1>3, <1>4 DEF Tree, Linked, Rooted
  <1>6. TreeInv' /\ CallOK'
    BY <1>1, <1>2, <1>3, <1>5, DescendTree
  <1> QED
    BY <1>1, <1>6 DEF SameMap

\* So does one that allocates it, or fails to.
LEMMA WalkAbsentTree ==
    ASSUME MapInv, WalkAbsent
    PROVE  /\ TreeInv' /\ CallOK' /\ SameMap
           /\ \/ call' = Idle(FALSE)
              \/ \E down : Descend(down)
  <1> DEFINE p == AllocatePermanent(alloc, PageSize, PageSize)
             t == p.addr
  <1>1. /\ call.pc = "walk" /\ call.lvl > 1 /\ tables[call.pgd][Index] = NoEntry
        /\ cr3' = cr3
        /\ IF t = 0
           THEN call' = Idle(FALSE) /\ tables' = tables
           ELSE tables' = Grow(t, call.pgd, Index) /\ Descend(t)
    BY DEF WalkAbsent
  <1>2. DOMAIN call = Locals /\ MemoryOK /\ TablesOK /\ TablesReclaimable
    BY DEF MapInv, PageInv, LocalsOK
  <1>3. t # 0 => t \in Addrs /\ t \notin DOMAIN tables
    <2>1. t # 0 => t \in Nat /\ alloc.free <= t /\ t + PageSize <= Word
      BY <1>2, PermanentPage
    <2> HIDE DEF t
    <2>2. /\ PageSize \in Nat \ {0} /\ Word \in Nat /\ alloc.free \in Nat
          /\ \A u \in DOMAIN tables : u \in Nat /\ u + PageSize <= alloc.free
      BY <1>2, PageAssumption, WordAssumption
      DEF MemoryOK, TablesOK, TablesReclaimable, Addrs
    <2> QED
      BY <2>1, <2>2 DEF Addrs
  <1> HIDE DEF t
  <1>4. CASE t = 0
    <2>1. call' = Idle(FALSE) /\ tables' = tables
      BY <1>1, <1>4
    <2>2. call'.pc = "idle" /\ call'.vaddr = call.vaddr /\ call'.asked = call.asked
      BY <1>2, <2>1 DEF Idle, Locals
    <2>3. TreeInv' /\ CallOK'
      BY <1>1, <2>1, <2>2 DEF MapInv, TreeInv, WalkOK, CallOK
    <2> QED
      BY <1>1, <2>1, <2>3 DEF SameMap
  <1>5. CASE t # 0
    <2>1. tables' = Grown(tables, t, call.pgd, Index) /\ Descend(t)
      BY <1>1, <1>5 DEF Grow, Grown
    <2>2. PICK level : Tree(tables, cr3, level)
      BY DEF MapInv, TreeInv
    <2>3. /\ Index \in Indexes /\ call.pgd \in DOMAIN tables /\ level[call.pgd] = call.lvl
          /\ PathOf(tables, cr3, Page)[call.lvl] = call.pgd /\ call.pgd # 0
          /\ Page \in Nat /\ call.lvl \in 1 .. PageLevel
      BY <1>1, <2>2, AtTable
    <2>4. level[call.pgd] # 1
      BY <1>1, <2>3
    <2>5. /\ \E level2 : Tree(tables', cr3', level2)
          /\ SameLeaves(tables, tables', cr3)
      BY <1>1, <1>3, <1>5, <2>1, <2>2, <2>3, <2>4, GrownTree
    <2>6. SameMap
      BY <1>1, <2>5 DEF SameLeaves, SameMap
    <2>7. PathOf(tables', cr3', Page)[call.lvl] = call.pgd
      BY <1>1, <2>3, <2>5 DEF SameLeaves
    <2>8. tables'[call.pgd][Index].addr = t
      <3>1. tables[call.pgd] \in [Indexes -> Entries]
        BY <2>2, <2>3 DEF Tree, Rooted
      <3>2. tables'[call.pgd] = [tables[call.pgd] EXCEPT ![Index] = Entry(t)]
        BY <1>3, <1>5, <2>1, <2>3 DEF Grown
      <3>3. tables'[call.pgd][Index] = Entry(t)
        BY <2>3, <3>1, <3>2
      <3> QED
        BY <3>3 DEF Entry
    <2>9. TreeInv' /\ CallOK'
      BY <1>1, <1>5, <2>1, <2>5, <2>7, <2>8, DescendTree
    <2> QED
      BY <2>1, <2>6, <2>9
  <1> QED
    BY <1>4, <1>5

\* The leaf of the page changes, and of no other.
LEMMA WriteLeafTree ==
    ASSUME MapInv, WriteLeaf
    PROVE  /\ TreeInv' /\ CallOK'
           /\ call.i < call.size /\ call'.i = call.i + PageSize
           /\ \A page \in Nat :
                 LeafOf(tables', cr3', page) =
                     IF page % VPages = Page % VPages THEN Entry(PhysicalAddr)
                     ELSE LeafOf(tables, cr3, page)
  <1>1. /\ call.pc = "walk" /\ call.lvl = 1 /\ cr3' = cr3
        /\ tables' = [tables EXCEPT ![call.pgd] =
                         [tables[call.pgd] EXCEPT ![Index] = Entry(PhysicalAddr)]]
        /\ call' = [call EXCEPT !.pc = "loop", !.i = Wrap(call.i + PageSize)]
    BY DEF WriteLeaf
  <1>2. DOMAIN call = Locals /\ call.i \in Nat /\ call.paddr \in Nat
    BY DEF MapInv, PageInv, LocalsOK
  <1>3. PageSize \in Nat \ {0} /\ Word \in Nat \ {0}
    BY PageAssumption, WordAssumption
  <1>4. /\ call.i < call.size /\ call.size = Pages * PageSize /\ call.size < Word
        /\ call.i % PageSize = 0 /\ Pages \in Nat
    <2>1. call.asked + PageSize - 1 \in Nat
      BY <1>3 DEF MapInv, CallOK
    <2>2. Pages \in Nat
      BY <1>3, <2>1, Divided DEF Pages
    <2> QED
      BY <1>1, <2>2 DEF MapInv, CallOK
  <1>5. /\ call.i + PageSize <= call.size
        /\ Wrap(call.i + PageSize) = call.i + PageSize
        /\ (call.i + PageSize) % PageSize = 0
    <2> DEFINE i == call.i
               n == call.size
    <2>1. n \in Nat /\ n % PageSize = 0
      <3>1. \A m \in Nat : m * PageSize \in Nat
        BY <1>3
      <3> QED
        BY <1>4, <3>1, PageNumbers
    <2>2. PageSize % PageSize = 0
      <3>1. (1 * PageSize) % PageSize = 0
        BY PageNumbers
      <3> QED
        BY <1>3, <3>1
    <2>3. i \in Nat /\ i % PageSize = 0 /\ i < n /\ n < Word
      BY <1>2, <1>4
    <2> HIDE DEF i, n
    <2>4. (i + PageSize) % PageSize = 0 /\ i + PageSize \in Nat
      BY <1>3, <2>2, <2>3, MultiplesAdd
    <2>5. i + PageSize <= n
      <3>1. i + PageSize < n + PageSize
        BY <1>3, <2>1, <2>3
      <3> QED
        BY <1>3, <2>1, <2>4, <3>1, MultiplesApart
    <2>6. Wrap(i + PageSize) = i + PageSize
      <3>1. i + PageSize \in 0 .. Word - 1
        BY <1>3, <2>1, <2>3, <2>4, <2>5
      <3> QED
        BY <1>3, <3>1, Small DEF Wrap
    <2> QED
      BY <2>4, <2>5, <2>6 DEF i, n
  <1>6. /\ call'.pc = "loop" /\ call'.i = call.i + PageSize
        /\ call'.vaddr = call.vaddr /\ call'.paddr = call.paddr
        /\ call'.asked = call.asked /\ call'.size = call.size
    BY <1>1, <1>2, <1>5 DEF Locals
  <1>7. CallOK'
    BY <1>1, <1>5, <1>6 DEF MapInv, CallOK, Pages
  <1>8. PICK level : Tree(tables, cr3, level)
    BY DEF MapInv, TreeInv
  <1>9. /\ call.pgd = PathOf(tables, cr3, Page)[1] /\ call.pgd # 0
        /\ Page \in Nat /\ Index = Digit(Page, 1)
    BY <1>1, AtTable
  <1>10. Entry(PhysicalAddr) \in Entries
    <2>1. PhysicalAddr \in Addrs
      <3>1. call.paddr + call.i \in Nat
        BY <1>2
      <3>2. Wrap(call.paddr + call.i) \in 0 .. Word - 1
        BY <1>3, <3>1, Divided DEF Wrap
      <3> QED
        BY <1>3, <3>2 DEF PhysicalAddr, Addrs
    <2> QED
      BY <2>1, TableTypes
  <1>11. /\ Tree(tables', cr3', level)
         /\ \A page \in Nat :
               LeafOf(tables', cr3', page) =
                   IF page % VPages = Page % VPages THEN Entry(PhysicalAddr)
                   ELSE LeafOf(tables, cr3, page)
    <2>1. call.pgd \in DOMAIN tables
      BY <1>1, AtTable
    <2>2. /\ DOMAIN tables' = DOMAIN tables
          /\ \A u \in DOMAIN tables : u # call.pgd => tables'[u] = tables[u]
          /\ tables'[call.pgd] =
                [tables[call.pgd] EXCEPT ![Digit(Page, 1)] = Entry(PhysicalAddr)]
      BY <1>1, <1>9, <2>1
    <2>3. /\ Tree(tables', cr3, level)
          /\ \A page \in Nat :
                LeafOf(tables', cr3, page) =
                    IF page % VPages = Page % VPages THEN Entry(PhysicalAddr)
                    ELSE LeafOf(tables, cr3, page)
      BY <1>8, <1>9, <1>10, <2>2, LeafWritten
    <2> QED
      BY <1>1, <2>3
  <1> QED
    BY <1>4, <1>6, <1>7, <1>11 DEF TreeInv, WalkOK

-----------------------------------------------------------------------------
(***************************************************************************)
(* Every step is a step of AddressMap, or none.                            *)
(***************************************************************************)
\* The map, as the instance of AddressMap writes it.
MapNow == [v \in 0 .. VPages - 1 |-> Translate(v * PageSize)]

\* What AddressMap sees of a step that maps nothing.
LEMMA MapStays ==
    ASSUME SameMap
    PROVE  MapNow' = MapNow
  <1>1. \A v \in 0 .. VPages - 1 : v \in Nat
    OBVIOUS
  <1>2. Leaves' = Leaves
    BY <1>1 DEF Leaves, SameMap
  <1> QED
    BY <1>2, Translated DEF MapNow

\* A step that keeps the map and the call is none for AddressMap.
LEMMA Stutter ==
    ASSUME SameMap, call'.vaddr = call.vaddr, call'.paddr = call.paddr,
           call'.asked = call.asked, call'.i = call.i, call'.ret = call.ret,
           call'.pc = "idle" <=> call.pc = "idle"
    PROVE  UNCHANGED Map!mapVars
  <1>1. MapNow' = MapNow
    BY MapStays
  <1> QED
    BY <1>1 DEF Map!mapVars, MapNow

\* What the end of a call leaves alone.
LEMMA Ends ==
    ASSUME LocalsOK, NEW ret, call' = Idle(ret)
    PROVE  /\ call'.pc = "idle" /\ call'.ret = ret
           /\ call'.vaddr = call.vaddr /\ call'.paddr = call.paddr
           /\ call'.asked = call.asked /\ call'.i = call.i
BY DEF LocalsOK, Idle, Locals

\* A call that is refused, and one that begins.
LEMMA CallMaps ==
    ASSUME MapInv, NEW vaddr \in Nat, NEW paddr \in Nat, NEW size \in Nat,
           size + PageSize <= Word, PagetableMap(vaddr, paddr, size)
    PROVE  Map!Next
  <1>1. /\ SameMap /\ call.pc = "idle"
        /\ \/ call' = Idle(FALSE)
           \/ /\ call'.pc = "loop" /\ call'.i = 0 /\ call'.asked \in Nat
              /\ call'.ret = call.ret /\ Pages' > 0
    BY CallTree
  <1>2. MapNow' = MapNow
    BY <1>1, MapStays
  <1>3. CASE call' = Idle(FALSE)
    <2>1. /\ call'.pc = "idle" /\ call'.ret = FALSE
          /\ call'.vaddr = call.vaddr /\ call'.paddr = call.paddr
          /\ call'.asked = call.asked /\ call'.i = call.i
      BY <1>3, Ends DEF MapInv, PageInv
    <2>2. Map!Refuse
      BY <1>1, <1>2, <2>1 DEF Map!Refuse, MapNow
    <2> QED
      BY <2>2 DEF Map!Next
  <1>4. CASE call' # Idle(FALSE)
    <2>1. call'.pc = "loop" /\ call'.i = 0 /\ call'.ret = call.ret /\ Pages' > 0
      BY <1>1, <1>4
    <2>2. call'.i \div PageSize = 0
      <3>1. (0 * PageSize) \div PageSize = 0
        BY PageNumbers
      <3> QED
        BY <2>1, <3>1, PageAssumption
    <2>3. Map!Begin
      BY <1>1, <1>2, <2>1, <2>2 DEF Map!Begin, MapNow, Pages
    <2> QED
      BY <2>3 DEF Map!Next
  <1> QED
    BY <1>3, <1>4

\* The end of a call.
LEMMA NextPageMaps ==
    ASSUME MapInv, NextPage
    PROVE  [Map!Next]_(Map!mapVars)
  <1>1. /\ SameMap /\ call.pc = "loop"
        /\ \/ call' = Idle(TRUE) /\ call.i = call.size
           \/ call' = [call EXCEPT !.pc = "walk", !.lvl = PageLevel, !.pgd = cr3]
    BY NextPageTree
  <1>2. MapNow' = MapNow
    BY <1>1, MapStays
  <1>3. CASE call' = Idle(TRUE) /\ call.i = call.size
    <2>1. /\ call'.pc = "idle"
          /\ call'.vaddr = call.vaddr /\ call'.paddr = call.paddr
          /\ call'.asked = call.asked /\ call'.i = call.i
      BY <1>3, Ends DEF MapInv, PageInv
    <2>2. call.i \div PageSize = Pages
      <3>1. Pages \in Nat
        <4>1. call.asked + PageSize - 1 \in Nat /\ PageSize \in Nat \ {0}
          BY PageAssumption DEF MapInv, CallOK
        <4> QED
          BY <4>1, Divided DEF Pages
      <3>2. call.i = Pages * PageSize
        BY <1>1, <1>3 DEF MapInv, CallOK
      <3> QED
        BY <3>1, <3>2, PageNumbers
    <2>3. Map!Finish
      BY <1>1, <1>2, <2>1, <2>2 DEF Map!Finish, MapNow, Pages
    <2> QED
      BY <2>3 DEF Map!Next
  <1>4. CASE call' = [call EXCEPT !.pc = "walk", !.lvl = PageLevel, !.pgd = cr3]
    <2>1. /\ call'.pc = "walk" /\ call'.vaddr = call.vaddr /\ call'.paddr = call.paddr
          /\ call'.asked = call.asked /\ call'.i = call.i /\ call'.ret = call.ret
      BY <1>4 DEF MapInv, PageInv, LocalsOK, Locals
    <2>2. UNCHANGED Map!mapVars
      BY <1>1, <2>1, Stutter
    <2> QED
      BY <2>2
  <1> QED
    BY <1>1, <1>3, <1>4

\* Going down a level is no step of the map.
LEMMA DescendMaps ==
    ASSUME LocalsOK, SameMap, call.pc = "walk", NEW down, Descend(down)
    PROVE  UNCHANGED Map!mapVars
  <1>1. /\ call'.pc = call.pc /\ call'.vaddr = call.vaddr /\ call'.paddr = call.paddr
        /\ call'.asked = call.asked /\ call'.i = call.i /\ call'.ret = call.ret
    BY DEF Descend, LocalsOK, Locals
  <1> QED
    BY <1>1, Stutter

\* Nor is finding a table.
LEMMA WalkPresentMaps ==
    ASSUME MapInv, WalkPresent
    PROVE  UNCHANGED Map!mapVars
  <1>1. SameMap
    BY WalkPresentTree
  <1> QED
    BY <1>1, DescendMaps DEF WalkPresent, MapInv, PageInv

\* A call that fails is over.
LEMMA WalkAbsentMaps ==
    ASSUME MapInv, WalkAbsent
    PROVE  [Map!Next]_(Map!mapVars)
  <1>1. /\ SameMap /\ call.pc = "walk"
        /\ \/ call' = Idle(FALSE)
           \/ \E down : Descend(down)
    BY WalkAbsentTree DEF WalkAbsent
  <1>2. MapNow' = MapNow
    BY <1>1, MapStays
  <1>3. CASE call' = Idle(FALSE)
    <2>1. /\ call'.pc = "idle" /\ call'.ret = FALSE
          /\ call'.vaddr = call.vaddr /\ call'.paddr = call.paddr
          /\ call'.asked = call.asked /\ call'.i = call.i
      BY <1>3, Ends DEF MapInv, PageInv
    <2>2. Map!Finish
      BY <1>1, <1>2, <2>1 DEF Map!Finish, MapNow
    <2> QED
      BY <2>2 DEF Map!Next
  <1>4. CASE \E down : Descend(down)
    BY <1>1, <1>4, DescendMaps DEF MapInv, PageInv
  <1> QED
    BY <1>1, <1>3, <1>4

\* The write of the leaf maps the next page of the run.
LEMMA WriteLeafMaps ==
    ASSUME MapInv, WriteLeaf
    PROVE  Map!Next
  <1> DEFINE done  == call.i \div PageSize
             vpage == call.vaddr \div PageSize
             ppage == call.paddr \div PageSize
  <1>1. PageSize \in Nat \ {0} /\ VPages \in Nat \ {0}
    <2>1. PageLevel \in 1 .. PageLevel
      BY PageAssumption
    <2>2. Span[PageLevel] \in Nat \ {0} /\ PgdSize \in Nat \ {0} /\ PageSize \in Nat \ {0}
      BY <2>1, Spans, PageAssumption
    <2>3. \A n, m \in Nat \ {0} : n * m \in Nat \ {0}
      OBVIOUS
    <2> QED
      BY <2>2, <2>3 DEF VPages
  <1>2. /\ call.pc = "walk" /\ call'.pc = "loop"
        /\ call'.vaddr = call.vaddr /\ call'.paddr = call.paddr
        /\ call'.asked = call.asked /\ call'.ret = call.ret
    BY DEF WriteLeaf, MapInv, PageInv, LocalsOK, Locals
  <1>3. /\ call.i < call.size /\ call'.i = call.i + PageSize
        /\ \A page \in Nat :
              LeafOf(tables', cr3', page) =
                  IF page % VPages = Page % VPages THEN Entry(PhysicalAddr)
                  ELSE LeafOf(tables, cr3, page)
    BY WriteLeafTree
  <1>4. /\ call.i \in Nat /\ call.paddr \in Nat /\ call.vaddr \in Nat
        /\ call.asked \in Nat /\ call.size = Pages * PageSize
        /\ call.vaddr % PageSize = 0 /\ call.paddr % PageSize = 0
        /\ call.i % PageSize = 0
    BY <1>2 DEF MapInv, PageInv, LocalsOK, CallOK
  <1>5. /\ done \in Nat /\ call.i = done * PageSize
        /\ vpage \in Nat /\ call.vaddr = vpage * PageSize
        /\ ppage \in Nat /\ call.paddr = ppage * PageSize
    <2>1. \A a \in Nat : a % PageSize = 0 =>
             a \div PageSize \in Nat /\ a = (a \div PageSize) * PageSize
      <3> SUFFICES ASSUME NEW a \in Nat, a % PageSize = 0
                   PROVE  a \div PageSize \in Nat /\ a = (a \div PageSize) * PageSize
        OBVIOUS
      <3>1. a \div PageSize \in Nat /\ a = PageSize * (a \div PageSize) + (a % PageSize)
        BY <1>1, Divided
      <3> DEFINE q == a \div PageSize
      <3> HIDE DEF q
      <3>2. q \in Nat /\ a = PageSize * q + 0
        BY <3>1 DEF q
      <3>3. PageSize * q = q * PageSize /\ PageSize * q \in Nat
        BY <1>1, <3>2
      <3> QED
        BY <3>2, <3>3 DEF q
    <2> QED
      BY <1>4, <2>1
  <1> HIDE DEF done, vpage, ppage
  <1>6. \A m, n \in Nat : /\ m * PageSize \in Nat
                          /\ (m + n) * PageSize = m * PageSize + n * PageSize
                          /\ (m + 1) * PageSize = m * PageSize + PageSize
                          /\ m * PageSize < n * PageSize => m < n
    <2>1. \A m, n \in Nat : /\ m * PageSize \in Nat
                            /\ (m + n) * PageSize = m * PageSize + n * PageSize
                            /\ (m + 1) * PageSize = m * PageSize + PageSize
      BY <1>1
    <2>2. ASSUME NEW m \in Nat, NEW n \in Nat, m * PageSize < n * PageSize
          PROVE  m < n
      <3>1. SUFFICES ASSUME n <= m PROVE FALSE
        OBVIOUS
      <3>2. PICK d \in Nat : m = n + d
        BY <3>1, m - n \in Nat
      <3>3. /\ m * PageSize = n * PageSize + d * PageSize
            /\ d * PageSize \in Nat /\ n * PageSize \in Nat
        BY <2>1, <3>2
      <3> QED
        BY <2>2, <3>3
    <2>3. \A m, n \in Nat : m * PageSize < n * PageSize => m < n
      BY <2>2
    <2> QED
      BY <2>1, <2>3, Zenon
  <1>7. call'.i \div PageSize = done + 1
    <2>1. call'.i = (done + 1) * PageSize /\ done + 1 \in Nat
      BY <1>3, <1>5, <1>6
    <2> QED
      BY <2>1, PageNumbers
  <1>8. Page = vpage + done /\ PhysicalAddr = Wrap((ppage + done) * PageSize)
    <2>1. call.vaddr + call.i = (vpage + done) * PageSize /\ vpage + done \in Nat
      BY <1>5, <1>6
    <2>2. call.paddr + call.i = (ppage + done) * PageSize
      BY <1>5, <1>6
    <2> QED
      BY <2>1, <2>2, PageNumbers DEF Page, VirtualAddr, PhysicalAddr
  <1>9. done < Pages
    <2>1. Pages \in Nat
      <3>1. call.asked + PageSize - 1 \in Nat
        BY <1>1, <1>4
      <3> QED
        BY <1>1, <3>1, Divided DEF Pages
    <2> QED
      BY <1>3, <1>4, <1>5, <1>6, <2>1
  <1> DEFINE at == (vpage + done) % VPages
             e  == Entry(Wrap((ppage + done) * PageSize))
  <1>10. MapNow' = [MapNow EXCEPT ![at] = e]
    <2>1. MapNow = Leaves /\ MapNow' = Leaves'
      BY Translated DEF MapNow
    <2>2. vpage + done \in Nat /\ at \in 0 .. VPages - 1
      <3>1. vpage + done \in Nat
        BY <1>5
      <3> QED
        BY <1>1, <3>1, Divided
    <2> HIDE DEF at, e
    <2>3. ASSUME NEW v \in 0 .. VPages - 1
          PROVE  Leaves'[v] = IF v = at THEN e ELSE Leaves[v]
      <3>1. v \in Nat /\ v % VPages = v
        BY <1>1, Small
      <3>2. LeafOf(tables', cr3', v) = IF v = at THEN e ELSE LeafOf(tables, cr3, v)
        BY <1>3, <1>8, <3>1 DEF at, e
      <3> QED
        BY <3>2 DEF Leaves
    <2>4. Leaves' = [Leaves EXCEPT ![at] = e]
      <3>1. DOMAIN Leaves = 0 .. VPages - 1
            /\ Leaves' = [v \in 0 .. VPages - 1 |-> Leaves'[v]]
        BY DEF Leaves
      <3>2. Leaves = [v \in 0 .. VPages - 1 |-> Leaves[v]]
        BY DEF Leaves
      <3> HIDE DEF Leaves
      <3> QED
        BY <2>2, <2>3, <3>1, <3>2
    <2> QED
      BY <2>1, <2>4
  <1>11. Map!Assign
    BY <1>2, <1>7, <1>9, <1>10 DEF Map!Assign, MapNow, Pages, done, vpage, ppage, at, e
  <1> QED
    BY <1>11 DEF Map!Next

\* ClientInit establishes the invariant, on the empty map.
LEMMA MapInvInit == ClientInit => MapInv /\ Map!Init
  <1> SUFFICES ASSUME ClientInit PROVE MapInv /\ Map!Init
    OBVIOUS
  <1>1. /\ DOMAIN tables = {} /\ cr3 = 0 /\ call.pc = "idle"
        /\ call.vaddr = 0 /\ call.asked = 0
    BY DEF ClientInit, PageInit
  <1>2. /\ \E level : Tree(tables, cr3, level)
        /\ \A page \in Nat : LeafOf(tables, cr3, page) = NoEntry
    BY <1>1, RootTree
  <1>3. MapInv
    BY <1>1, <1>2, ClientInvInit DEF ClientInv, MapInv, TreeInv, WalkOK, CallOK
  <1>4. MapNow = [v \in 0 .. VPages - 1 |-> NoEntry]
    <2>1. \A v \in 0 .. VPages - 1 : v \in Nat
      OBVIOUS
    <2>2. Leaves = [v \in 0 .. VPages - 1 |-> NoEntry]
      BY <1>2, <2>1 DEF Leaves
    <2> QED
      BY <2>2, Translated DEF MapNow
  <1>5. Map!Init
    BY <1>1, <1>4 DEF Map!Init, MapNow
  <1> QED
    BY <1>3, <1>5

\* A step of the page table is a step of the map, or none.
LEMMA MapInvStep ==
    ASSUME MapInv, PageInv', [ClientNext]_clientVars
    PROVE  MapInv' /\ [Map!Next]_(Map!mapVars)
  <1>1. CASE Install
    <2>1. TreeInv' /\ CallOK' /\ SameMap /\ call' = call
      BY <1>1, InstallTree DEF Install
    <2> QED
      BY <2>1, Stutter DEF MapInv
  <1>2. CASE \E vaddr \in Vaddrs, paddr \in Paddrs, size \in Sizes :
                Call(vaddr, paddr, size)
    <2>1. PICK vaddr \in Vaddrs, paddr \in Paddrs, size \in Sizes :
                Call(vaddr, paddr, size)
      BY <1>2
    <2>2. /\ vaddr \in Nat /\ paddr \in Nat /\ size \in Nat /\ size + PageSize <= Word
          /\ PagetableMap(vaddr, paddr, size)
      BY <2>1, ClientAssumption DEF Call
    <2>3. TreeInv' /\ CallOK'
      BY <2>2, CallTree
    <2> QED
      BY <2>2, <2>3, CallMaps DEF MapInv
  <1>3. CASE NextPage
    BY <1>3, NextPageTree, NextPageMaps DEF MapInv
  <1>4. CASE WalkPresent
    BY <1>4, WalkPresentTree, WalkPresentMaps DEF MapInv
  <1>5. CASE WalkAbsent
    BY <1>5, WalkAbsentTree, WalkAbsentMaps DEF MapInv
  <1>6. CASE WriteLeaf
    BY <1>6, WriteLeafTree, WriteLeafMaps DEF MapInv
  <1>7. CASE UNCHANGED clientVars
    <2>1. tables' = tables /\ cr3' = cr3 /\ call' = call
      BY <1>7 DEF clientVars
    <2>2. SameMap
      BY <2>1 DEF SameMap
    <2>3. MapInv'
      BY <2>1 DEF MapInv, TreeInv, WalkOK, CallOK, Pages, Page, VirtualAddr
    <2> QED
      BY <2>1, <2>2, <2>3, Stutter
  <1> QED
    BY <1>1, <1>2, <1>3, <1>4, <1>5, <1>6, <1>7 DEF ClientNext, Step, MapStep

\* The tree of tables implements the map of AddressMap: under any calls, with
\* whatever is mapped already and wherever memory runs out, a call maps the
\* pages it asks for, in order, and changes the translation of no other page;
\* it returns TRUE only when all of them are mapped.
THEOREM MapIsImplemented == ClientSpec => MapSpec
  <1>1. ClientInit => ClientInv /\ MapInv /\ Map!Init
    BY MapInvInit, ClientInvInit
  <1>2. ClientInv /\ MapInv /\ [ClientNext]_clientVars
           => ClientInv' /\ MapInv' /\ [Map!Next]_(Map!mapVars)
    BY ClientInvStep, MapInvStep DEF ClientInv
  <1> QED
    BY <1>1, <1>2, PTL DEF ClientSpec, MapSpec, Map!Spec

-----------------------------------------------------------------------------
\* The tables of a level are those that the tree has there.
LEMMA LevelsFound ==
    ASSUME NEW level, Tree(tables, cr3, level)
    PROVE  \A l \in 1 .. PageLevel : TablesAt[l] = {t \in DOMAIN tables : level[t] = l}
  <1> DEFINE Row(t) == {tables[t][x] : x \in DOMAIN tables[t]}
             All(up) == UNION {Row(t) : t \in up}
             Targets(es) == {e.addr : e \in es \ {NoEntry}}
             Below(up) == Targets(All(up))
             Body(f) == [lvl \in 1 .. PageLevel |->
                            IF lvl = PageLevel THEN {cr3} \ {0} ELSE Below(f[lvl + 1])]
             At(l) == {t \in DOMAIN tables : level[t] = l}
             f == [l \in 1 .. PageLevel |-> At(l)]
  <1>1. PageLevel \in Nat \ {0} /\ PageLevel \in 1 .. PageLevel
    BY PageAssumption
  <1>2. At(PageLevel) = {cr3} \ {0}
    BY DEF Tree, Rooted
  <1>3. ASSUME NEW l \in 1 .. PageLevel, l # PageLevel
        PROVE  At(l) = Below(At(l + 1))
    <2>1. l + 1 \in 1 .. PageLevel /\ l + 1 # 1
      BY <1>1, <1>3
    <2> DEFINE all == All(At(l + 1))
    <2>2. \A t \in DOMAIN tables : DOMAIN tables[t] = Indexes
      BY DEF Tree, Rooted
    <2>3. ASSUME NEW d \in At(l) PROVE d \in Targets(all)
      <3>1. d \in DOMAIN tables \ {cr3} /\ level[d] = l
        BY <1>3 DEF Tree, Rooted
      <3>2. PICK u \in DOMAIN tables, x \in Indexes :
                    Links(tables, level, u, x) /\ tables[u][x].addr = d
        BY <3>1 DEF Tree, Reached
      <3>3. level[u] = l + 1 /\ tables[u][x] # NoEntry
        BY <3>1, <3>2 DEF Tree, Linked, Links
      <3>4. u \in At(l + 1) /\ x \in DOMAIN tables[u]
        BY <2>2, <3>2, <3>3
      <3>5. tables[u][x] \in Row(u)
        BY <3>4
      <3>6. tables[u][x] \in all \ {NoEntry}
        <4> HIDE DEF At, Row
        <4> QED
          BY <3>3, <3>4, <3>5
      <3> HIDE DEF all
      <3> QED
        BY <3>2, <3>6
    <2>4. ASSUME NEW d \in Targets(all) PROVE d \in At(l)
      <3>1. PICK e \in all \ {NoEntry} : e.addr = d
        <4> HIDE DEF all
        <4> QED
          BY <2>4
      <3>2. PICK t \in At(l + 1) : e \in Row(t)
        <4> HIDE DEF At, Row
        <4> QED
          BY <3>1
      <3>3. PICK x \in DOMAIN tables[t] : e = tables[t][x]
        BY <3>2
      <3>4. t \in DOMAIN tables /\ level[t] = l + 1 /\ x \in Indexes
        BY <2>2, <3>2, <3>3
      <3>5. Links(tables, level, t, x)
        BY <2>1, <3>1, <3>3, <3>4 DEF Links
      <3>6. d \in DOMAIN tables /\ level[t] = level[d] + 1
        BY <3>1, <3>3, <3>4, <3>5 DEF Tree, Linked
      <3>7. level[d] = l
        <4>1. level[d] \in Nat
          BY <3>6 DEF Tree, Rooted
        <4> QED
          BY <3>4, <3>6, <4>1
      <3> QED
        BY <3>6, <3>7
    <2> HIDE DEF At, All, Targets
    <2> QED
      BY <2>3, <2>4
  <1>4. f = Body(f)
    <2>1. ASSUME NEW l \in 1 .. PageLevel PROVE f[l] = Body(f)[l]
      <3>1. CASE l = PageLevel
        BY <1>2, <3>1
      <3>2. CASE l # PageLevel
        <4>1. l + 1 \in 1 .. PageLevel
          BY <1>1, <3>2
        <4> HIDE DEF At, Below
        <4> QED
          BY <1>3, <3>2, <4>1
      <3> QED
        BY <3>1, <3>2
    <2> HIDE DEF At, Below
    <2> QED
      BY <2>1
  <1>5. TablesAt = Body(TablesAt)
    <2> DEFINE h == CHOOSE h : h = Body(h)
    <2>1. TablesAt = h
      BY DEF TablesAt
    <2>2. h = Body(h)
      <3> HIDE DEF f, Body
      <3> QED
        BY <1>4
    <2> HIDE DEF h
    <2> QED
      BY <2>1, <2>2
  <1> DEFINE g == TablesAt
             Found(l) == g[l] = At(l)
             S == {l \in 1 .. PageLevel : Found(l)}
  <1> HIDE DEF g
  <1>6. /\ g[PageLevel] = {cr3} \ {0}
        /\ \A l \in 1 .. PageLevel : l # PageLevel => g[l] = Below(g[l + 1])
    <2>1. g = Body(g)
      BY <1>5 DEF g
    <2> HIDE DEF Below
    <2> QED
      BY <1>1, <2>1
  <1>7. Found(PageLevel)
    <2> HIDE DEF At
    <2> QED
      BY <1>2, <1>6
  <1>8. ASSUME NEW l \in 1 .. PageLevel, l # PageLevel, Found(l + 1) PROVE Found(l)
    <2> HIDE DEF At, Below
    <2> QED
      BY <1>3, <1>6, <1>8
  <1> HIDE DEF Found
  <1>9. PageLevel \in S /\ \A l \in 1 .. PageLevel : l # PageLevel /\ l + 1 \in S => l \in S
    BY <1>1, <1>7, <1>8
  <1>10. 1 .. PageLevel \subseteq S
    <2> HIDE DEF S
    <2> QED
      BY <1>1, <1>9, LevelsDown
  <1>11. \A l \in 1 .. PageLevel : Found(l)
    BY <1>10
  <1> QED
    BY <1>11 DEF Found, g

\* What the invariant says of the levels is TreeShaped.
LEMMA TreeIsShaped ==
    ASSUME NEW level, Tree(tables, cr3, level)
    PROVE  TreeShaped
  <1>1. \A l \in 1 .. PageLevel : TablesAt[l] = {t \in DOMAIN tables : level[t] = l}
    BY LevelsFound
  <1>2. \A l, m \in 1 .. PageLevel : l # m => TablesAt[l] \cap TablesAt[m] = {}
    BY <1>1
  <1>3. DOMAIN tables = UNION {TablesAt[l] : l \in 1 .. PageLevel}
    <2>1. \A t \in DOMAIN tables : level[t] \in 1 .. PageLevel
      BY DEF Tree, Rooted
    <2>2. \A t \in DOMAIN tables : t \in TablesAt[level[t]]
      BY <1>1, <2>1
    <2>3. \A l \in 1 .. PageLevel : TablesAt[l] \subseteq DOMAIN tables
      BY <1>1
    <2> QED
      BY <2>1, <2>2, <2>3
  <1>4. ASSUME NEW l \in 2 .. PageLevel,
               NEW a \in TablesAt[l] \X (0 .. PgdSize - 1), tables[a[1]][a[2]] # NoEntry,
               NEW b \in TablesAt[l] \X (0 .. PgdSize - 1), tables[b[1]][b[2]] # NoEntry,
               tables[a[1]][a[2]].addr = tables[b[1]][b[2]].addr
        PROVE  a = b
    <2>1. l \in 1 .. PageLevel /\ l # 1
      BY PageAssumption
    <2>2. /\ a[1] \in DOMAIN tables /\ level[a[1]] = l /\ a[2] \in Indexes
          /\ b[1] \in DOMAIN tables /\ level[b[1]] = l /\ b[2] \in Indexes
      BY <1>1, <2>1 DEF Indexes
    <2>3. Links(tables, level, a[1], a[2]) /\ Links(tables, level, b[1], b[2])
      BY <1>4, <2>1, <2>2 DEF Links
    <2>4. a[1] = b[1] /\ a[2] = b[2]
      BY <1>4, <2>2, <2>3 DEF Tree, Unshared
    <2> QED
      BY <2>4
  <1> QED
    BY <1>2, <1>3, <1>4 DEF TreeShaped

\* Whatever is mapped, no table that pagetable_map links is shared by two
\* entries or found at two levels, and every table that it took is linked.
THEOREM TablesFormATree == ClientSpec => []TreeShaped
  <1>1. ClientInit => ClientInv /\ MapInv
    BY MapInvInit, ClientInvInit
  <1>2. ClientInv /\ MapInv /\ [ClientNext]_clientVars => ClientInv' /\ MapInv'
    BY ClientInvStep, MapInvStep DEF ClientInv
  <1>3. MapInv => TreeShaped
    BY TreeIsShaped DEF MapInv, TreeInv
  <1> QED
    BY <1>1, <1>2, <1>3, PTL DEF ClientSpec

-----------------------------------------------------------------------------
(***************************************************************************)
(* The boot.                                                               *)
(***************************************************************************)
\* What is proved of one call of the allocator, here for the loader's own.
Allocations == INSTANCE AllocatorProofs WITH
                   self <- alloc, region <- <<0, 0>>, zones <- {}, blocks <- <<>>,
                   Regions <- {}, Zones <- {}, Sizes <- {}, Aligns <- {},
                   MaxZones <- 0, MaxBlocks <- 0

Words == [from : Nat, free : Nat, to : Nat]

\* Its operators are the loader's.
LEMMA SameAllocator ==
    /\ Words = Allocations!Words
    /\ \A a, from, to : Allocations!ReserveZone(a, from, to) = ReserveZone(a, from, to)
    /\ \A a, size, align :
          /\ Allocations!AllocateTransient(a, size, align)
                = AllocateTransient(a, size, align)
          /\ Allocations!AllocatePermanent(a, size, align)
                = AllocatePermanent(a, size, align)
  <1>1. Words = Allocations!Words
    BY DEF Words, Allocations!Words
  <1>2. \A a, from, to : Allocations!ReserveZone(a, from, to) = ReserveZone(a, from, to)
    BY DEF ReserveZone, Allocations!ReserveZone
  <1>3. \A a, size, align : Allocations!AllocateTransient(a, size, align)
                                = AllocateTransient(a, size, align)
    BY DEF AllocateTransient, Allocations!AllocateTransient, Wrap, Allocations!Wrap,
           AlignDown, Allocations!AlignDown
  <1>4. \A a, size, align : Allocations!AllocatePermanent(a, size, align)
                                = AllocatePermanent(a, size, align)
    BY DEF AllocatePermanent, Allocations!AllocatePermanent, Wrap, Allocations!Wrap,
           AlignDown, Allocations!AlignDown
  <1> QED
    BY <1>1, <1>2, <1>3, <1>4

-----------------------------------------------------------------------------
(***************************************************************************)
(* Constants.                                                              *)
(***************************************************************************)
LEMMA Constant ==
    /\ PageSize \in Nat \ {0} /\ StackSize = PageSize /\ Word \in Nat \ {0}
    /\ TextStart \in Nat /\ JumperStart \in Nat /\ TextEnd \in Nat /\ BssEnd \in Nat
    /\ TextStart <= JumperStart /\ JumperStart < TextEnd /\ TextEnd <= BssEnd
    /\ JumperSize \in Nat \ {0}
BY PageAssumption, WordAssumption, LinkAssumption DEF StackSize, JumperSize

LEMMA BootTypes ==
    ASSUME NEW b \in Boots
    PROVE  LET h == b.header
           IN  /\ h.payload_addr \in Nat /\ h.load_addr \in Nat
               /\ h.load_end_addr \in Nat /\ h.bss_end_addr \in Nat
               /\ h.payload_entry_addr \in Nat /\ h.payload_vaddr \in Nat
               /\ h.stack_addr \in Nat
               /\ b.mb2.addr \in Nat /\ b.mb2.size \in Nat
               /\ b.mmap \in Seq([base_addr : Nat, length : Nat, available : BOOLEAN])
               /\ LaidOut(b)
BY BootAssumption DEF BootType

\* The sizes of what moves, and where the image is.
LEMMA Layout ==
    ASSUME Places
    PROVE  /\ header.load_addr \in Nat /\ header.load_end_addr \in Nat
           /\ header.bss_end_addr \in Nat /\ header.payload_addr \in Nat
           /\ header.stack_addr \in Nat
           /\ header.load_addr <= header.load_end_addr
           /\ header.load_end_addr <= header.bss_end_addr
           /\ header.load_addr < header.bss_end_addr
           /\ header.bss_end_addr < Word
           /\ PayloadSize \in Nat /\ BssEnd <= header.payload_addr
           /\ header.payload_addr + PayloadSize <= header.stack_addr - StackSize
           /\ header.stack_addr < Word
           /\ boot.mb2.addr \in Nat /\ boot.mb2.size \in Nat \ {0}
           /\ boot.mb2.addr + boot.mb2.size < Word
           /\ \/ boot.mb2.addr + boot.mb2.size <= TextStart
              \/ header.stack_addr <= boot.mb2.addr
  <1>1. boot \in Boots /\ header = boot.header
    BY DEF Places, header
  <1>2. /\ header.load_addr \in Nat /\ header.load_end_addr \in Nat
        /\ header.bss_end_addr \in Nat /\ header.payload_addr \in Nat
        /\ header.stack_addr \in Nat
        /\ boot.mb2.addr \in Nat /\ boot.mb2.size \in Nat /\ LaidOut(boot)
    BY <1>1, BootTypes
  <1>3. /\ header.load_addr <= header.load_end_addr
        /\ header.load_end_addr <= header.bss_end_addr
        /\ header.load_addr < header.bss_end_addr
        /\ header.bss_end_addr < Word /\ BssEnd <= header.payload_addr
        /\ header.payload_addr + header.load_end_addr - header.load_addr
              <= header.stack_addr - StackSize
        /\ header.stack_addr < Word
        /\ 0 < boot.mb2.size /\ boot.mb2.addr + boot.mb2.size < Word
        /\ \/ boot.mb2.addr + boot.mb2.size <= TextStart
           \/ header.stack_addr <= boot.mb2.addr
    BY <1>1, <1>2 DEF LaidOut
  <1> HIDE DEF header
  <1> QED
    BY <1>2, <1>3, Constant DEF PayloadSize

-----------------------------------------------------------------------------
(***************************************************************************)
(* Objects in memory, and steps that leave them alone.                     *)
(***************************************************************************)

\* An object that is clear of the cells a step writes stays whole.
LEMMA HeldStill ==
    ASSUME NEW S, \A a \in 0 .. Word - 1 : a \notin S => ram'[a] = ram[a],
           NEW addr \in Nat, NEW size \in Nat, addr + size <= Word,
           Cells(addr, addr + size) \cap S = {},
           NEW object, NEW first, Holds(addr, object, first, size)
    PROVE  \A k \in 0 .. size - 1 : ram'[addr + k] = Byte(object, first + k)
  <1> SUFFICES ASSUME NEW k \in 0 .. size - 1
               PROVE  ram'[addr + k] = Byte(object, first + k)
    OBVIOUS
  <1>1. addr + k \in Cells(addr, addr + size) /\ addr + k \in 0 .. Word - 1
    BY Constant DEF Cells
  <1>2. ram'[addr + k] = ram[addr + k]
    BY <1>1
  <1> QED
    BY <1>2 DEF Holds

\* The allocator has given some of the free memory, or nothing.
Shrinks ==
    /\ alloc' \in Words /\ alloc'.from = alloc.from
    /\ alloc.free <= alloc'.free /\ alloc'.to <= alloc.to

\* Nothing is written outside of the free memory.
Quiet == \A a \in 0 .. Word - 1 : a \notin Free => ram'[a] = ram[a]

LEMMA HeldQuiet ==
    ASSUME Quiet, NEW addr \in Nat, NEW size \in Nat, addr + size <= Word,
           Needed(addr, size), NEW object, NEW first, Holds(addr, object, first, size)
    PROVE  \A k \in 0 .. size - 1 : ram'[addr + k] = Byte(object, first + k)
  <1> DEFINE S == Free
  <1>1. (\A a \in 0 .. Word - 1 : a \notin S => ram'[a] = ram[a])
        /\ Cells(addr, addr + size) \cap S = {}
    BY DEF Quiet, Needed
  <1> HIDE DEF S
  <1> QED
    BY <1>1, HeldStill

LEMMA NeededStill ==
    ASSUME alloc \in Words, Shrinks,
           NEW addr \in Nat, NEW size \in Nat, Needed(addr, size)
    PROVE  Cells(addr, addr + size) \cap Cells(alloc'.free, alloc'.to) = {}
  <1>1. ASSUME NEW a \in Cells(alloc'.free, alloc'.to) PROVE a \in Free
    BY DEF Cells, Free, Shrinks, Words
  <1> QED
    BY <1>1 DEF Needed

\* What the loader still needs when it has taken a block: itself and the
\* payload's image, the stack, the multiboot2 information.
LEMMA ImageStill ==
    ASSUME Places, Intact, Shrinks, Quiet, UNCHANGED boot
    PROVE  /\ (Target \cap Free = {})'
           /\ (LoaderIntact /\ Needed(TextStart, BssEnd - TextStart))'
           /\ (SourceIntact /\ Needed(header.payload_addr, PayloadSize))'
  <1>1. alloc \in Words
    BY DEF Intact, Room, Words
  <1>2. (Target \cap Free = {})'
    <2>1. Target' = Target
      BY DEF Target, header
    <2>2. \A a \in Cells(alloc'.free, alloc'.to) : a \in Free
      BY <1>1 DEF Cells, Free, Shrinks, Words
    <2> QED
      BY <2>1, <2>2 DEF Intact, Free
  <1>3. (LoaderIntact /\ Needed(TextStart, BssEnd - TextStart))'
    <2>1. BssEnd - TextStart \in Nat /\ TextStart + (BssEnd - TextStart) <= Word
      BY Constant, Layout
    <2>2. Holds(TextStart, "loader", 0, BssEnd - TextStart) /\ Needed(TextStart, BssEnd - TextStart)
      BY DEF Intact, LoaderIntact
    <2>3. \A k \in 0 .. BssEnd - TextStart - 1 : ram'[TextStart + k] = Byte("loader", 0 + k)
      BY <2>1, <2>2, HeldQuiet, Constant
    <2>4. Cells(TextStart, TextStart + (BssEnd - TextStart)) \cap Cells(alloc'.free, alloc'.to) = {}
      BY <1>1, <2>1, <2>2, NeededStill, Constant
    <2> QED
      BY <2>3, <2>4 DEF LoaderIntact, Holds, Needed, Free
  <1>4. (SourceIntact /\ Needed(header.payload_addr, PayloadSize))'
    <2> DEFINE at == header.payload_addr
               size == PayloadSize
    <2>1. at \in Nat /\ size \in Nat /\ at + size <= Word
      BY Constant, Layout
    <2>2. Holds(at, "payload", 0, size) /\ Needed(at, size)
      BY DEF Intact, SourceIntact
    <2>3. header' = header /\ PayloadSize' = size
      BY DEF header, PayloadSize
    <2> HIDE DEF at, size
    <2>4. \A k \in 0 .. size - 1 : ram'[at + k] = Byte("payload", 0 + k)
      BY <2>1, <2>2, HeldQuiet
    <2>5. Cells(at, at + size) \cap Cells(alloc'.free, alloc'.to) = {}
      BY <1>1, <2>1, <2>2, NeededStill
    <2> QED
      BY <2>3, <2>4, <2>5 DEF at, size, SourceIntact, Holds, Needed, Free
  <1> QED
    BY <1>2, <1>3, <1>4

LEMMA StackStill ==
    ASSUME Places, Intact, Shrinks, Quiet, UNCHANGED stack
    PROVE  (StackIntact /\ Needed(stack, StackSize) /\ InRam(stack, StackSize))'
  <1>0. alloc \in Words
    BY DEF Intact, Room, Words
  <1> DEFINE at == stack
             size == StackSize
  <1>1. at \in Nat /\ size \in Nat /\ at + size <= Word
    BY Constant DEF Intact, InRam
  <1>2. Holds(at, "stack", 0, size) /\ Needed(at, size)
    BY DEF Intact, StackIntact
  <1> HIDE DEF at, size
  <1>3. \A k \in 0 .. size - 1 : ram'[at + k] = Byte("stack", 0 + k)
    BY <1>1, <1>2, HeldQuiet
  <1>4. Cells(at, at + size) \cap Cells(alloc'.free, alloc'.to) = {}
    BY <1>0, <1>1, <1>2, NeededStill
  <1> QED
    BY <1>3, <1>4 DEF at, size, StackIntact, Holds, Needed, Free, Intact, InRam

LEMMA Mb2Still ==
    ASSUME Places, Intact, Shrinks, Quiet, UNCHANGED boot,
           UNCHANGED this.multiboot2_addr
    PROVE  (/\ Mb2Intact /\ Needed(this.multiboot2_addr, boot.mb2.size)
            /\ InRam(this.multiboot2_addr, boot.mb2.size))'
  <1>0. alloc \in Words
    BY DEF Intact, Room, Words
  <1> DEFINE at == this.multiboot2_addr
             size == boot.mb2.size
  <1>1. at \in Nat /\ size \in Nat /\ at + size <= Word
    BY Constant, Layout DEF Intact, InRam
  <1>2. Holds(at, "mb2", 0, size) /\ Needed(at, size)
    BY DEF Intact, Mb2Intact
  <1> HIDE DEF at, size
  <1>3. \A k \in 0 .. size - 1 : ram'[at + k] = Byte("mb2", 0 + k)
    BY <1>1, <1>2, HeldQuiet
  <1>4. Cells(at, at + size) \cap Cells(alloc'.free, alloc'.to) = {}
    BY <1>0, <1>1, <1>2, NeededStill
  <1> QED
    BY <1>3, <1>4 DEF at, size, Mb2Intact, Holds, Needed, Free, Intact, InRam

LEMMA IntactStill ==
    ASSUME Places, Intact, Shrinks, Quiet, Room', TablesHeld',
           UNCHANGED <<boot, stack>>, UNCHANGED this.multiboot2_addr
    PROVE  Intact'
BY ImageStill, StackStill, Mb2Still DEF Intact

-----------------------------------------------------------------------------
(***************************************************************************)
(* The allocator that malloc_initialize builds, and the blocks it gives.   *)
(***************************************************************************)

\* reserve_zone leaves a zone outside of the memory that remains.
LEMMA ReserveClear ==
    ASSUME NEW a \in Words, a.from = a.free,
           NEW from \in Nat, NEW to \in Nat, from < to
    PROVE  LET r == ReserveZone(a, from, to)
           IN  /\ r \in Words /\ r.from = r.free
               /\ a.from <= r.from /\ r.to <= a.to
               /\ to <= r.from \/ r.to <= from
  <1> DEFINE r == ReserveZone(a, from, to)
  <1>1. \/ r = a /\ (a.to <= from \/ to <= a.from)
        \/ /\ r = [from |-> a.from, free |-> a.free, to |-> from]
           /\ from < a.to
        \/ /\ r = [from |-> to, free |-> to, to |-> a.to]
           /\ a.from < to /\ to < a.to
    BY Allocations!ReserveResult, SameAllocator, WordAssumption
  <1>2. a.from \in Nat /\ a.free \in Nat /\ a.to \in Nat
    BY DEF Words
  <1> HIDE DEF r
  <1> QED
    BY <1>1, <1>2 DEF Words, r

LEMMA BootMemory ==
    ASSUME NEW b \in Boots, Candidates(b) # {}
    PROVE  LET a == BootAllocator(b)
               Clear(from, to) == to <= a.from \/ a.to <= from
           IN  /\ a \in Words /\ a.from = a.free
               /\ Clear(TextStart, BssEnd)
               /\ Clear(b.mb2.addr, b.mb2.addr + b.mb2.size)
               /\ Clear(b.header.load_addr, b.header.bss_end_addr)
  <1> DEFINE i    == CHOOSE j \in Candidates(b) : \A k \in Candidates(b) : j <= k
             all  == AllocatorInitialize(b.mmap[i].base_addr, EntryEnd(b.mmap[i]))
             code == ReserveZone(all, TextStart, BssEnd)
             info == ReserveZone(code, b.mb2.addr, b.mb2.addr + b.mb2.size)
             load == ReserveZone(info, b.header.load_addr, b.header.bss_end_addr)
  <1>1. i \in Candidates(b)
    <2>1. Candidates(b) \in SUBSET Nat
      BY BootTypes DEF Candidates
    <2>2. \E j \in Candidates(b) : \A k \in Candidates(b) : j <= k
      BY <2>1, LeastElement
    <2> QED
      BY <2>2
  <1> HIDE DEF i
  <1>2. all \in Words /\ all.from = all.free
    <2>1. b.mmap[i].base_addr \in Nat /\ b.mmap[i].length \in Nat
      <3> DEFINE map == b.mmap
                 E   == [base_addr : Nat, length : Nat, available : BOOLEAN]
      <3>1. map \in Seq(E) /\ i \in DOMAIN map
        BY <1>1, BootTypes DEF Candidates
      <3> HIDE DEF map, E
      <3>2. map[i] \in E
        BY <3>1
      <3> QED
        BY <3>2 DEF map, E
    <2>2. EntryEnd(b.mmap[i]) \in Nat
      BY <2>1, WordAssumption DEF EntryEnd, Wrap
    <2> QED
      BY <2>1, <2>2 DEF AllocatorInitialize, Words
  <1> HIDE DEF all
  <1>3. /\ code \in Words /\ code.from = code.free
        /\ BssEnd <= code.from \/ code.to <= TextStart
    BY <1>2, ReserveClear, Constant
  <1> HIDE DEF code
  <1>4. /\ b.mb2.addr \in Nat /\ b.mb2.addr + b.mb2.size \in Nat
        /\ b.mb2.addr < b.mb2.addr + b.mb2.size
        /\ b.header.load_addr \in Nat /\ b.header.bss_end_addr \in Nat
        /\ b.header.load_addr < b.header.bss_end_addr
    BY BootTypes DEF LaidOut
  <1>5. /\ info \in Words /\ info.from = info.free
        /\ code.from <= info.from /\ info.to <= code.to
        /\ b.mb2.addr + b.mb2.size <= info.from \/ info.to <= b.mb2.addr
    BY <1>3, <1>4, ReserveClear
  <1> HIDE DEF info
  <1>6. /\ load \in Words /\ load.from = load.free
        /\ info.from <= load.from /\ load.to <= info.to
        /\ \/ b.header.bss_end_addr <= load.from
           \/ load.to <= b.header.load_addr
    BY <1>4, <1>5, ReserveClear
  <1>7. BootAllocator(b) = load
    BY DEF BootAllocator, load, info, code, all, i
  <1> HIDE DEF load
  <1> QED
    BY <1>3, <1>4, <1>5, <1>6, <1>7, Constant DEF Words

\* The block of a relocation is the end of the free memory, or there is none.
LEMMA RelocationBlock ==
    ASSUME Room, NEW size \in {boot.mb2.size, StackSize, JumperSize},
           size \in Nat \ {0},
           NEW r, r = Relocation(size)
    PROVE  \/ r.addr = 0 /\ r.self = alloc
           \/ /\ r.addr \in Nat /\ alloc.free <= r.addr
              /\ r.addr + size <= alloc.to
              /\ r.self = [alloc EXCEPT !.to = r.addr]
  <1>1. alloc \in Words /\ size <= alloc.to /\ alloc.to < Word
    BY Constant DEF Room, Words
  <1>2. r = AllocateTransient(alloc, size, PageSize) /\ PageSize \in Nat
    BY Constant DEF Relocation
  <1> QED
    BY <1>1, <1>2, Allocations!TransientResult, SameAllocator, WordAssumption

\* A block given for a relocation, and what is copied there.
LEMMA Relocated ==
    ASSUME Places, Intact, UNCHANGED boot,
           NEW size \in {boot.mb2.size, StackSize, JumperSize},
           NEW r, r = Relocation(size), r.addr # 0, alloc' = r.self,
           NEW src \in Nat, src + size < Word, Needed(src, size),
           NEW object, NEW first, Holds(src, object, first, size),
           ram' = Memcpy(r.addr, src, size)
    PROVE  /\ r.addr \in Nat /\ r.addr + size < Word
           /\ Cells(r.addr, r.addr + size) \subseteq Free
           /\ Cells(r.addr, r.addr + size) \cap Cells(alloc'.free, alloc'.to) = {}
           /\ \A k \in 0 .. size - 1 : ram'[r.addr + k] = Byte(object, first + k)
           /\ Shrinks /\ Quiet /\ Room' /\ DOMAIN ram' = 0 .. Word - 1
  <1>1. size \in Nat \ {0}
    BY Constant, Layout
  <1>2. Room /\ alloc \in Words /\ alloc.from <= alloc.free
    BY DEF Intact, Room, Words
  <1>3. /\ r.addr \in Nat /\ alloc.free <= r.addr /\ r.addr + size <= alloc.to
        /\ r.self = [alloc EXCEPT !.to = r.addr]
    <2>1. \/ r.addr = 0 /\ r.self = alloc
          \/ /\ r.addr \in Nat /\ alloc.free <= r.addr
             /\ r.addr + size <= alloc.to
             /\ r.self = [alloc EXCEPT !.to = r.addr]
      BY <1>1, <1>2, RelocationBlock
    <2> QED
      BY <2>1
  <1>4. /\ alloc'.from = alloc.from /\ alloc'.free = alloc.free
        /\ alloc'.to = r.addr /\ alloc' \in Words
    BY <1>2, <1>3 DEF Words
  <1>5. alloc.to + 2 * PageSize < Word /\ alloc.to \in Nat /\ alloc.free \in Nat
    BY <1>2 DEF Room, Words
  <1>6. r.addr + size < Word
    BY <1>1, <1>3, <1>5, Constant
  <1>7. Cells(r.addr, r.addr + size) \subseteq Free
    BY <1>1, <1>3, <1>5 DEF Cells, Free
  <1>8. Cells(r.addr, r.addr + size) \cap Cells(alloc'.free, alloc'.to) = {}
    BY <1>1, <1>3, <1>4, <1>5 DEF Cells
  <1>9. Shrinks
    BY <1>1, <1>3, <1>4, <1>5 DEF Shrinks
  <1>10. Room'
    <2>1. /\ \A s \in {boot.mb2.size, StackSize, JumperSize} :
                s <= alloc.free /\ s <= alloc.to
          /\ alloc.free + 2 * PageSize < Word
      BY <1>2 DEF Room
    <2>2. \A s \in {boot.mb2.size, StackSize, JumperSize} :
             s \in Nat /\ s <= alloc'.free /\ s <= alloc'.to
      BY <1>3, <1>4, <1>5, <2>1, Constant, Layout
    <2>3. alloc'.from <= alloc'.free /\ alloc'.free + 2 * PageSize < Word
          /\ alloc'.to + 2 * PageSize < Word
      BY <1>1, <1>2, <1>3, <1>4, <1>5, <2>1, Constant
    <2> QED
      BY <1>4, <2>2, <2>3 DEF Room, Words
  <1>11. /\ DOMAIN ram' = 0 .. Word - 1
         /\ \A a \in 0 .. Word - 1 :
               ram'[a] = IF a \in Cells(r.addr, r.addr + size)
                         THEN ram[src + ((a - r.addr) % size)] ELSE ram[a]
    <2>1. ~ (src < r.addr /\ r.addr < src + size)
      <3> SUFFICES ASSUME src < r.addr, r.addr < src + size PROVE FALSE
        OBVIOUS
      <3>1. r.addr \in Cells(src, src + size) /\ r.addr \in Free
        BY <1>1, <1>3, <1>7 DEF Cells
      <3> QED
        BY <3>1 DEF Needed
    <2> QED
      BY <2>1 DEF Memcpy, Overlay, Places
  <1>12. Quiet
    BY <1>7, <1>11 DEF Quiet
  <1>13. ASSUME NEW k \in 0 .. size - 1
         PROVE  ram'[r.addr + k] = Byte(object, first + k)
    <2> DEFINE at      == r.addr
               from(a) == src + ((a - at) % size)
    <2>1. at \in Nat /\ at + size < Word
      BY <1>3, <1>6
    <2>2. \A a \in 0 .. Word - 1 :
             a \in Cells(at, at + size) => ram'[a] = ram[from(a)]
      BY <1>11
    <2> HIDE DEF at, from
    <2>3. /\ at + k \in 0 .. Word - 1 /\ at + k \in Cells(at, at + size)
          /\ at + k - at = k
      BY <1>1, <2>1, Constant DEF Cells
    <2>4. k % size = k
      BY <1>1, Small
    <2>5. ram'[at + k] = ram[src + k]
      <3>1. ram'[at + k] = ram[from(at + k)]
        BY <2>2, <2>3
      <3>2. from(at + k) = src + (k % size)
        BY <1>1, <2>1, <2>3 DEF from
      <3> QED
        BY <2>4, <3>1, <3>2
    <2> QED
      BY <2>5 DEF Holds, at
  <1> QED
    BY <1>3, <1>6, <1>7, <1>8, <1>9, <1>10, <1>11, <1>12, <1>13

\* The tables stay whole when nothing is written outside of the free memory.
LEMMA TablesStill ==
    ASSUME Places, Intact, Shrinks, Quiet, DOMAIN ram' = DOMAIN ram,
           UNCHANGED boot, DOMAIN tables' = DOMAIN tables
    PROVE  TablesHeld'
  <1>1. alloc \in Words /\ PageSize \in Nat \ {0} /\ DOMAIN ram = 0 .. Word - 1
    BY Constant DEF Intact, Room, Words, Places
  <1>2. ASSUME NEW t \in DOMAIN tables
        PROVE  /\ t \in Nat /\ t + PageSize < Word
               /\ alloc'.from <= t /\ t + PageSize <= alloc'.free
    BY <1>1 DEF Intact, TablesHeld, Shrinks, Words
  <1>3. ASSUME NEW a \in TableCells PROVE ram'[a] = Table /\ a \notin Target
    <2>1. PICK t \in DOMAIN tables : a \in Cells(t, t + PageSize)
      BY DEF TableCells
    <2>2. a \in 0 .. Word - 1 /\ a \notin Free
      BY <1>1, <2>1 DEF Intact, TablesHeld, TableCells, Cells, Free, Words
    <2> QED
      BY <2>2 DEF Quiet, Intact, TablesHeld
  <1>4. TableCells' = TableCells /\ Target' = Target
    BY DEF TableCells, Target, header
  <1>5. alloc'.from \in Nat /\ alloc'.free \in Nat
    BY DEF Shrinks, Words
  <1> QED
    BY <1>2, <1>3, <1>4, <1>5 DEF TablesHeld

-----------------------------------------------------------------------------
(***************************************************************************)
(* The first steps.                                                        *)
(***************************************************************************)

\* The image, the stack and the information are apart where a boot begins.
LEMMA BootRamWhole ==
    ASSUME Places, ram = BootRam(boot), stack = header.stack_addr - StackSize
    PROVE  /\ LoaderIntact /\ SourceIntact /\ StackIntact
           /\ Holds(boot.mb2.addr, "mb2", 0, boot.mb2.size)
  <1> DEFINE source == header.payload_addr
             size   == PayloadSize
             bottom == header.stack_addr - StackSize
             top    == header.stack_addr
             mb2    == boot.mb2.addr
             length == boot.mb2.size
  <1>1. /\ source \in Nat /\ size \in Nat /\ bottom \in Nat /\ top \in Nat
        /\ mb2 \in Nat /\ length \in Nat
        /\ TextStart \in Nat /\ BssEnd \in Nat /\ Word \in Nat /\ StackSize \in Nat
        /\ TextStart <= BssEnd /\ BssEnd <= source /\ source + size <= bottom
        /\ bottom + StackSize = top /\ top < Word
        /\ mb2 + length < Word
        /\ mb2 + length <= TextStart \/ top <= mb2
    BY Layout, Constant
  <1>2. ram = [a \in 0 .. Word - 1 |->
                 CASE a \in Cells(TextStart, BssEnd) -> Byte("loader", a - TextStart)
                   [] a \in Cells(source, source + size) -> Byte("payload", a - source)
                   [] a \in Cells(bottom, bottom + StackSize) -> Byte("stack", a - bottom)
                   [] a \in Cells(mb2, mb2 + length) -> Byte("mb2", a - mb2)
                   [] OTHER -> Anything]
    BY DEF BootRam, PayloadSize, header
  <1>3. stack = bottom
    OBVIOUS
  <1>4. /\ LoaderIntact <=> Holds(TextStart, "loader", 0, BssEnd - TextStart)
        /\ SourceIntact <=> Holds(source, "payload", 0, size)
        /\ StackIntact <=> Holds(bottom, "stack", 0, StackSize)
    BY <1>3 DEF LoaderIntact, SourceIntact, StackIntact
  <1> HIDE DEF source, size, bottom, top, mb2, length
  <1>5. ASSUME NEW a \in 0 .. Word - 1
        PROVE  /\ a \in Cells(TextStart, BssEnd) =>
                     ram[a] = Byte("loader", a - TextStart)
               /\ a \in Cells(source, source + size) =>
                     ram[a] = Byte("payload", a - source)
               /\ a \in Cells(bottom, bottom + StackSize) =>
                     ram[a] = Byte("stack", a - bottom)
               /\ a \in Cells(mb2, mb2 + length) => ram[a] = Byte("mb2", a - mb2)
    <2> DEFINE L == a \in Cells(TextStart, BssEnd)
               P == a \in Cells(source, source + size)
               S == a \in Cells(bottom, bottom + StackSize)
               M == a \in Cells(mb2, mb2 + length)
    <2>1. ~ (L /\ P) /\ ~ (L /\ S) /\ ~ (L /\ M) /\ ~ (P /\ S) /\ ~ (P /\ M) /\ ~ (S /\ M)
      BY <1>1 DEF Cells
    <2>2. ram[a] = CASE L -> Byte("loader", a - TextStart)
                     [] P -> Byte("payload", a - source)
                     [] S -> Byte("stack", a - bottom)
                     [] M -> Byte("mb2", a - mb2)
                     [] OTHER -> Anything
      BY <1>2
    <2> HIDE DEF L, P, S, M
    <2>3. /\ L => ram[a] = Byte("loader", a - TextStart)
          /\ P => ram[a] = Byte("payload", a - source)
          /\ S => ram[a] = Byte("stack", a - bottom)
          /\ M => ram[a] = Byte("mb2", a - mb2)
      BY <2>1, <2>2
    <2> QED
      BY <2>3 DEF L, P, S, M
  <1>6. ASSUME NEW k \in 0 .. BssEnd - TextStart - 1
        PROVE  ram[TextStart + k] = Byte("loader", 0 + k)
    <2>1. TextStart + k \in 0 .. Word - 1 /\ TextStart + k \in Cells(TextStart, BssEnd)
          /\ TextStart + k - TextStart = 0 + k
      BY <1>1 DEF Cells
    <2> QED
      BY <1>1, <1>5, <2>1
  <1>7. ASSUME NEW k \in 0 .. size - 1
        PROVE  ram[source + k] = Byte("payload", 0 + k)
    <2>1. source + k \in 0 .. Word - 1 /\ source + k \in Cells(source, source + size)
          /\ source + k - source = 0 + k
      BY <1>1 DEF Cells
    <2> QED
      BY <1>1, <1>5, <2>1
  <1>8. ASSUME NEW k \in 0 .. StackSize - 1
        PROVE  ram[bottom + k] = Byte("stack", 0 + k)
    <2>1. bottom + k \in 0 .. Word - 1 /\ bottom + k \in Cells(bottom, bottom + StackSize)
          /\ bottom + k - bottom = 0 + k
      BY <1>1 DEF Cells
    <2> QED
      BY <1>1, <1>5, <2>1
  <1>9. ASSUME NEW k \in 0 .. length - 1
        PROVE  ram[mb2 + k] = Byte("mb2", 0 + k)
    <2>1. mb2 + k \in 0 .. Word - 1 /\ mb2 + k \in Cells(mb2, mb2 + length)
          /\ mb2 + k - mb2 = 0 + k
      BY <1>1 DEF Cells
    <2> QED
      BY <1>1, <1>5, <2>1
  <1> QED
    BY <1>4, <1>6, <1>7, <1>8, <1>9 DEF Holds, mb2, length

LEMMA LoaderInvInit == Init => LoaderInv
  <1> SUFFICES ASSUME Init PROVE LoaderInv
    OBVIOUS
  <1>1. /\ boot \in Boots /\ pc = "entry" /\ ram = BootRam(boot)
        /\ stack = header.stack_addr - StackSize /\ DOMAIN tables = {}
    BY DEF Init, PageInit
  <1>2. Places
    <2>1. DOMAIN this = {"multiboot2_addr", "jumper_addr"} /\ DOMAIN cpu = Registers
      BY DEF Init, Registers
    <2> QED
      BY <1>1, <2>1
      DEF Places, BootRam, InJumper, Stopped, Working, Mb2Placed, StackPlaced, Paged
  <1>3. BeforeMalloc
    BY <1>1, <1>2, BootRamWhole DEF BeforeMalloc
  <1> QED
    BY <1>1, <1>2, <1>3
    DEF LoaderInv, AtWork, OutOfTheWay, InTheJumper, AtTheEnd, InJumper,
        Working, Mb2Placed, StackPlaced, Paged

\* The boot, and what is asked of it, never changes.
LEMMA SameBoot ==
    ASSUME UNCHANGED boot
    PROVE  /\ Regular' = Regular /\ header' = header /\ Target' = Target
           /\ PayloadSize' = PayloadSize
BY DEF Regular, header, Target, PayloadSize

\* The places, while the loader works or when it stops.
LEMMA PlacesStill ==
    ASSUME Places, UNCHANGED boot, pc' \in Working \union {"dead", "fault"},
           pc \in Working \/ (pc' \in Working => Candidates(boot) # {}),
           DOMAIN ram' = DOMAIN ram, DOMAIN this' = DOMAIN this,
           DOMAIN cpu' = DOMAIN cpu
    PROVE  Places'
BY DEF Places, InJumper, Stopped, Working, Mb2Placed, StackPlaced, Paged

\* What is whole stays whole when memory does not change.
LEMMA Unmoved ==
    ASSUME UNCHANGED <<boot, ram, stack>>
    PROVE  /\ LoaderIntact' = LoaderIntact /\ SourceIntact' = SourceIntact
           /\ StackIntact' = StackIntact /\ ImageMoved' = ImageMoved
           /\ UNCHANGED this.multiboot2_addr => Mb2Intact' = Mb2Intact
           /\ UNCHANGED this.jumper_addr => JumperIntact' = JumperIntact
           /\ UNCHANGED <<alloc, tables>> => TablesHeld' = TablesHeld
  <1>1. header' = header /\ PayloadSize' = PayloadSize /\ Target' = Target
    BY SameBoot
  <1>2. LoaderIntact' = LoaderIntact
    BY DEF LoaderIntact, Holds
  <1>3. SourceIntact' = SourceIntact
    BY <1>1 DEF SourceIntact, Holds
  <1>4. StackIntact' = StackIntact
    BY DEF StackIntact, Holds
  <1>5. ImageMoved' = ImageMoved
    BY <1>1 DEF ImageMoved
  <1>6. UNCHANGED this.multiboot2_addr => Mb2Intact' = Mb2Intact
    BY DEF Mb2Intact, Holds
  <1>7. UNCHANGED this.jumper_addr => JumperIntact' = JumperIntact
    BY DEF JumperIntact, Holds
  <1>8. UNCHANGED <<alloc, tables>> => TablesHeld' = TablesHeld
    BY <1>1 DEF TablesHeld, TableCells
  <1> QED
    BY <1>2, <1>3, <1>4, <1>5, <1>6, <1>7, <1>8

LEMMA IntactUnmoved ==
    ASSUME Intact, UNCHANGED <<boot, ram, stack, this, alloc, tables>>
    PROVE  Intact'
  <1>1. header' = header /\ PayloadSize' = PayloadSize /\ Target' = Target /\ Free' = Free
    BY SameBoot DEF Free
  <1>2. Room'
    BY DEF Intact, Room
  <1> QED
    BY <1>1, <1>2, Unmoved DEF Intact, Needed, InRam

LEMMA EnterLoaderStep ==
    ASSUME LoaderInv, EnterLoader
    PROVE  LoaderInv'
  <1>1. Places'
    BY DEF LoaderInv, Places, EnterLoader, header, InJumper, Stopped, Working,
           Mb2Placed, StackPlaced, Paged
  <1>2. ASSUME Regular
        PROVE  (BeforeMalloc /\ AtWork /\ OutOfTheWay /\ InTheJumper /\ AtTheEnd)'
    <2>1. /\ LoaderIntact' /\ SourceIntact' /\ StackIntact' /\ DOMAIN tables' = {}
          /\ Holds(boot.mb2.addr, "mb2", 0, boot.mb2.size)'
      <3>1. /\ pc = "entry" /\ UNCHANGED <<boot, ram, stack, tables>>
            /\ LoaderIntact /\ SourceIntact /\ StackIntact /\ DOMAIN tables = {}
            /\ Holds(boot.mb2.addr, "mb2", 0, boot.mb2.size)
        BY <1>2 DEF LoaderInv, BeforeMalloc, EnterLoader, paging
      <3>2. Holds(boot.mb2.addr, "mb2", 0, boot.mb2.size)'
        BY <3>1 DEF Holds
      <3> QED
        BY <3>1, <3>2, Unmoved
    <2>2. pc' \in {"malloc", "dead"}
      BY DEF EnterLoader
    <2> QED
      BY <2>1, <2>2
      DEF BeforeMalloc, AtWork, OutOfTheWay, InTheJumper, AtTheEnd, InJumper,
          Working, Mb2Placed, StackPlaced, Paged
  <1> QED
    BY <1>1, <1>2, SameBoot DEF LoaderInv, EnterLoader

\* malloc_initialize leaves nothing that is needed in the free memory.
LEMMA MallocStep ==
    ASSUME LoaderInv, MallocInitialize
    PROVE  LoaderInv'
  <1>1. Places /\ UNCHANGED <<boot, ram, stack, this, tables>>
    BY DEF LoaderInv, MallocInitialize, paging
  <1>2. Places'
    <2>1. pc' \in Working \union {"dead", "fault"} /\ UNCHANGED <<boot, ram, this, cpu>>
      BY DEF MallocInitialize, Working
    <2>2. pc' \in Working => Candidates(boot) # {}
      BY DEF MallocInitialize, Working, Mb2Placed, StackPlaced, Paged
    <2> QED
      BY <1>1, <2>1, <2>2, PlacesStill
  <1>3. ASSUME Regular
        PROVE  (BeforeMalloc /\ AtWork /\ OutOfTheWay /\ InTheJumper /\ AtTheEnd)'
    <2> DEFINE a == BootAllocator(boot)
    <2>1. pc = "malloc" /\ pc' = "check" /\ alloc' = a
      BY <1>3 DEF MallocInitialize, Regular
    <2>2. /\ boot \in Boots /\ Candidates(boot) # {} /\ Protected(boot)
          /\ Guarded(boot)
      BY <1>1, <1>3, BootAssumption DEF Regular, Places
    <2>3. /\ a \in Words /\ a.from = a.free
          /\ BssEnd <= a.from \/ a.to <= TextStart
          /\ boot.mb2.addr + boot.mb2.size <= a.from \/ a.to <= boot.mb2.addr
          /\ header.bss_end_addr <= a.from \/ a.to <= header.load_addr
      BY <2>2, BootMemory DEF header
    <2>4. /\ \A size \in {boot.mb2.size, StackSize, JumperSize} :
                size <= a.free /\ size <= a.to
          /\ a.free + 2 * PageSize < Word /\ a.to + 2 * PageSize < Word
      BY <2>2 DEF Guarded
    <2>5. /\ Apart(a.free, a.to, header.payload_addr, header.payload_addr + PayloadSize)
          /\ Apart(a.free, a.to, header.stack_addr - StackSize, header.stack_addr)
      BY <2>2 DEF Protected, PayloadSize, header
    <2> HIDE DEF a
    <2>6. /\ header' = header /\ PayloadSize' = PayloadSize /\ Target' = Target
          /\ Free' = Cells(a.free, a.to)
      BY <1>1, <2>1, SameBoot DEF Free
    <2>7. a.from \in Nat /\ a.free \in Nat /\ a.to \in Nat
      BY <2>3 DEF Words
    <2>8. stack = header.stack_addr - StackSize
          /\ this.multiboot2_addr = boot.mb2.addr
      BY <1>1, <2>1 DEF Places
    <2>9. Room'
      BY <1>1, <2>1, <2>3, <2>4, <2>7 DEF Room, Words
    <2>10. TablesHeld'
      BY <1>1, <1>3, <2>1, <2>7 DEF LoaderInv, BeforeMalloc, TablesHeld, TableCells
    <2>11. (Target \cap Free = {})'
      BY <1>1, <2>3, <2>6, <2>7, Layout DEF Target, Cells
    <2>12. Needed(TextStart, BssEnd - TextStart)'
      BY <1>1, <2>3, <2>6, <2>7, Constant DEF Needed, Cells
    <2>13. Needed(header.payload_addr, PayloadSize)'
      BY <2>5, <2>6 DEF Needed, Apart
    <2>14. Needed(stack, StackSize)'
      <3>1. stack + StackSize = header.stack_addr
        BY <1>1, <2>8, Layout, Constant
      <3> QED
        BY <1>1, <2>5, <2>6, <2>8, <3>1 DEF Needed, Apart
    <2>15. Needed(this.multiboot2_addr, boot.mb2.size)'
      BY <1>1, <2>3, <2>6, <2>7, <2>8, Layout DEF Needed, Cells
    <2>16. InRam(stack, StackSize)' /\ InRam(this.multiboot2_addr, boot.mb2.size)'
      BY <1>1, <2>8, Layout, Constant DEF InRam
    <2>17. LoaderIntact' /\ SourceIntact' /\ StackIntact' /\ Mb2Intact'
      <3>1. LoaderIntact /\ SourceIntact /\ StackIntact /\ Mb2Intact
        BY <1>3, <2>1, <2>8 DEF LoaderInv, BeforeMalloc, Mb2Intact
      <3> QED
        BY <1>1, <3>1, Unmoved
    <2>18. Intact'
      BY <2>9, <2>10, <2>11, <2>12, <2>13, <2>14, <2>15, <2>16, <2>17 DEF Intact
    <2> QED
      BY <2>1, <2>18
      DEF BeforeMalloc, AtWork, OutOfTheWay, InTheJumper, AtTheEnd, InJumper,
          Working, Mb2Placed, StackPlaced, Paged
  <1> QED
    BY <1>1, <1>2, <1>3, SameBoot DEF LoaderInv

LEMMA CheckStep ==
    ASSUME LoaderInv, CheckLongmode
    PROVE  LoaderInv'
  <1>1. /\ UNCHANGED <<boot, ram, stack, this, cpu, alloc, tables>>
        /\ pc = "check" /\ pc' \in {"mb2", "dead"}
    BY DEF CheckLongmode, paging
  <1>2. Places'
    BY <1>1, PlacesStill DEF LoaderInv, Working
  <1>3. ASSUME Regular
        PROVE  (BeforeMalloc /\ AtWork /\ OutOfTheWay /\ InTheJumper /\ AtTheEnd)'
    <2>1. Intact
      BY <1>1, <1>3 DEF LoaderInv, AtWork, Working
    <2>2. Intact'
      BY <1>1, <2>1, IntactUnmoved
    <2> QED
      BY <1>1, <2>2
      DEF BeforeMalloc, AtWork, OutOfTheWay, InTheJumper, AtTheEnd, InJumper,
          Working, Mb2Placed, StackPlaced, Paged, Intact
  <1> QED
    BY <1>1, <1>2, <1>3, SameBoot DEF LoaderInv

-----------------------------------------------------------------------------
(***************************************************************************)
(* The relocations.                                                        *)
(***************************************************************************)

\* What does not conflict with the payload is out of its way.
LEMMA NoConflict ==
    ASSUME Places, NEW addr \in Nat, NEW size \in Nat, addr + size < Word,
           ~ ConflictPayload(addr, size)
    PROVE  Aside(addr, size)
  <1>1. Wrap(addr + size) = addr + size
    BY Constant, Small DEF Wrap
  <1>2. header.bss_end_addr <= addr \/ addr + size <= header.load_addr
    BY <1>1, Layout DEF ConflictPayload
  <1> QED
    BY <1>2, Layout DEF Aside, Target, Cells

\* The loader fails with everything in place.
LEMMA DeadStep ==
    ASSUME Places, Regular => Intact, pc' = "dead",
           UNCHANGED <<boot, ram, stack, cpu>>, DOMAIN this' = DOMAIN this
    PROVE  LoaderInv'
  <1>1. Places'
    BY PlacesStill DEF Working, Mb2Placed, StackPlaced, Paged
  <1>2. ASSUME Regular PROVE AtTheEnd'
    BY <1>2, Unmoved DEF AtTheEnd, Intact
  <1> QED
    BY <1>1, <1>2, SameBoot
    DEF LoaderInv, BeforeMalloc, AtWork, OutOfTheWay, InTheJumper, InJumper,
        Working, Mb2Placed, StackPlaced, Paged

LEMMA RelocateMultiboot2Step ==
    ASSUME LoaderInv, RelocateMultiboot2
    PROVE  LoaderInv'
  <1> DEFINE r    == Relocation(boot.mb2.size)
             size == boot.mb2.size
             src  == this.multiboot2_addr
  <1>1. /\ pc = "mb2" /\ UNCHANGED <<boot, stack, cpu, tables>> /\ Places
        /\ Regular => Intact
    BY DEF LoaderInv, RelocateMultiboot2, paging, AtWork, Working
  <1>2. CASE ~ ConflictPayload(src, size)
    <2>1. pc' = "stack" /\ UNCHANGED <<ram, this, alloc>>
      BY <1>2 DEF RelocateMultiboot2
    <2>2. Places'
      BY <1>1, <2>1, PlacesStill DEF Working, Mb2Placed
    <2>3. ASSUME Regular PROVE Intact' /\ Aside(this.multiboot2_addr, boot.mb2.size)'
      <3>1. Intact'
        BY <1>1, <2>1, <2>3, IntactUnmoved
      <3>2. Aside(src, size)
        BY <1>1, <1>2, <2>3, NoConflict, Layout DEF Intact, InRam
      <3> QED
        BY <1>1, <2>1, <3>1, <3>2, SameBoot DEF Aside
    <2> QED
      BY <1>1, <2>1, <2>2, <2>3, SameBoot
      DEF LoaderInv, BeforeMalloc, AtWork, OutOfTheWay, InTheJumper, AtTheEnd,
          InJumper, Working, Mb2Placed, StackPlaced, Paged
  <1>3. CASE ConflictPayload(src, size) /\ r.addr = 0
    BY <1>1, <1>3, DeadStep DEF RelocateMultiboot2
  <1>4. CASE ConflictPayload(src, size) /\ r.addr # 0
    <2>1. /\ pc' = "stack" /\ alloc' = r.self /\ ram' = Memcpy(r.addr, src, size)
          /\ this' = [this EXCEPT !.multiboot2_addr = r.addr]
      BY <1>4 DEF RelocateMultiboot2
    <2>2. Places'
      BY <1>1, <2>1, PlacesStill DEF Working, Mb2Placed, Memcpy, Overlay
    <2>3. ASSUME Regular PROVE Intact' /\ Aside(this.multiboot2_addr, boot.mb2.size)'
      <3>1. Intact /\ this'.multiboot2_addr = r.addr
        BY <1>1, <2>1, <2>3 DEF Places
      <3>2. src \in Nat /\ src + size < Word /\ Needed(src, size)
            /\ Holds(src, "mb2", 0, size)
        BY <3>1 DEF Intact, InRam, Mb2Intact
      <3> DEFINE at == r.addr
      <3>3. /\ at \in Nat /\ at + size < Word
            /\ Cells(at, at + size) \subseteq Free
            /\ Cells(at, at + size) \cap Cells(alloc'.free, alloc'.to) = {}
            /\ \A k \in 0 .. size - 1 : ram'[at + k] = Byte("mb2", 0 + k)
            /\ Shrinks /\ Quiet /\ Room' /\ DOMAIN ram' = 0 .. Word - 1
        <4>1. size \in {boot.mb2.size, StackSize, JumperSize}
          OBVIOUS
        <4> HIDE DEF r, src, size
        <4> QED
          BY <1>1, <1>4, <2>1, <3>1, <3>2, <4>1, Relocated DEF r, size
      <3> HIDE DEF r, src
      <3>4. TablesHeld'
        BY <1>1, <3>1, <3>3, TablesStill DEF Places
      <3>5. (/\ Mb2Intact /\ Needed(this.multiboot2_addr, boot.mb2.size)
             /\ InRam(this.multiboot2_addr, boot.mb2.size))'
        BY <1>1, <3>1, <3>3 DEF Mb2Intact, Holds, Needed, Free, InRam
      <3>6. Aside(this.multiboot2_addr, boot.mb2.size)'
        BY <1>1, <3>1, <3>3, SameBoot DEF Aside, Intact
      <3> QED
        BY <1>1, <3>1, <3>3, <3>4, <3>5, <3>6, ImageStill, StackStill DEF Intact
    <2> QED
      BY <1>1, <2>1, <2>2, <2>3, SameBoot
      DEF LoaderInv, BeforeMalloc, AtWork, OutOfTheWay, InTheJumper, AtTheEnd,
          InJumper, Working, Mb2Placed, StackPlaced, Paged
  <1> QED
    BY <1>2, <1>3, <1>4

LEMMA RelocateStackStep ==
    ASSUME LoaderInv, RelocateStack
    PROVE  LoaderInv'
  <1> DEFINE r == Relocation(StackSize)
  <1>1. /\ pc = "stack" /\ UNCHANGED <<boot, this, cpu, tables>> /\ Places
        /\ Regular => Intact /\ Aside(this.multiboot2_addr, boot.mb2.size)
    BY DEF LoaderInv, RelocateStack, paging, AtWork, OutOfTheWay, Working, Mb2Placed
  <1>2. Aside(this.multiboot2_addr, boot.mb2.size)'
           <=> Aside(this.multiboot2_addr, boot.mb2.size)
    BY <1>1, SameBoot DEF Aside
  <1>3. CASE ~ ConflictPayload(stack, StackSize)
    <2>1. pc' = "jumper" /\ UNCHANGED <<ram, stack, alloc>>
      BY <1>3 DEF RelocateStack
    <2>2. Places'
      BY <1>1, <2>1, PlacesStill DEF Working, Mb2Placed, StackPlaced
    <2>3. ASSUME Regular PROVE Intact' /\ Aside(stack, StackSize)'
      <3>1. Intact'
        BY <1>1, <2>1, <2>3, IntactUnmoved
      <3>2. Aside(stack, StackSize)
        BY <1>1, <1>3, <2>3, NoConflict, Constant DEF Intact, InRam
      <3> QED
        BY <1>1, <2>1, <3>1, <3>2, SameBoot DEF Aside
    <2> QED
      BY <1>1, <1>2, <2>1, <2>2, <2>3, SameBoot
      DEF LoaderInv, BeforeMalloc, AtWork, OutOfTheWay, InTheJumper, AtTheEnd,
          InJumper, Working, Mb2Placed, StackPlaced, Paged
  <1>4. CASE ConflictPayload(stack, StackSize) /\ r.addr = 0
    BY <1>1, <1>4, DeadStep DEF RelocateStack
  <1>5. CASE ConflictPayload(stack, StackSize) /\ r.addr # 0
    <2>1. /\ pc' = "jumper" /\ alloc' = r.self /\ stack' = r.addr
          /\ ram' = Memcpy(r.addr, stack, StackSize)
      BY <1>5 DEF RelocateStack
    <2>2. Places'
      BY <1>1, <2>1, PlacesStill
      DEF Working, Mb2Placed, StackPlaced, Memcpy, Overlay
    <2>3. ASSUME Regular PROVE Intact' /\ Aside(stack, StackSize)'
      <3> DEFINE at   == r.addr
                 size == StackSize
                 src  == stack
      <3>1. Intact /\ Aside(this.multiboot2_addr, boot.mb2.size)
        BY <1>1, <2>3
      <3>2. /\ src \in Nat /\ src + size < Word /\ Needed(src, size)
            /\ Holds(src, "stack", 0, size)
        BY <3>1 DEF Intact, InRam, StackIntact
      <3>3. /\ at \in Nat /\ at + size < Word
            /\ Cells(at, at + size) \subseteq Free
            /\ Cells(at, at + size) \cap Cells(alloc'.free, alloc'.to) = {}
            /\ \A k \in 0 .. size - 1 : ram'[at + k] = Byte("stack", 0 + k)
            /\ Shrinks /\ Quiet /\ Room' /\ DOMAIN ram' = 0 .. Word - 1
        <4>1. size \in {boot.mb2.size, StackSize, JumperSize}
          OBVIOUS
        <4> HIDE DEF r, src, size
        <4> QED
          BY <1>1, <1>5, <2>1, <3>1, <3>2, <4>1, Relocated DEF r, src, size
      <3> HIDE DEF r, src
      <3>4. TablesHeld'
        BY <1>1, <3>1, <3>3, TablesStill DEF Places
      <3>5. (StackIntact /\ Needed(stack, StackSize) /\ InRam(stack, StackSize))'
        BY <2>1, <3>3 DEF StackIntact, Holds, Needed, Free, InRam
      <3>6. Aside(stack, StackSize)'
        BY <1>1, <2>1, <3>1, <3>3, SameBoot DEF Aside, Intact
      <3> QED
        BY <1>1, <3>1, <3>3, <3>4, <3>5, <3>6, ImageStill, Mb2Still DEF Intact
    <2> QED
      BY <1>1, <1>2, <2>1, <2>2, <2>3, SameBoot
      DEF LoaderInv, BeforeMalloc, AtWork, OutOfTheWay, InTheJumper, AtTheEnd,
          InJumper, Working, Mb2Placed, StackPlaced, Paged
  <1> QED
    BY <1>3, <1>4, <1>5

\* What is behind the loader's copy of the jumper.
JumperPlaced ==
    /\ JumperIntact /\ InRam(this.jumper_addr, JumperSize)
    /\ Needed(this.jumper_addr, JumperSize) /\ Aside(this.jumper_addr, JumperSize)

LEMMA SetupJumperStep ==
    ASSUME LoaderInv, SetupJumper
    PROVE  LoaderInv'
  <1> DEFINE r == Relocation(JumperSize)
  <1>1. /\ pc = "jumper" /\ UNCHANGED <<boot, stack, cpu, tables>> /\ Places
        /\ alloc' = r.self /\ this' = [this EXCEPT !.jumper_addr = r.addr]
        /\ Regular => /\ Intact /\ Aside(this.multiboot2_addr, boot.mb2.size)
                      /\ Aside(stack, StackSize)
    BY DEF LoaderInv, SetupJumper, paging, AtWork, OutOfTheWay, Working, Mb2Placed,
           StackPlaced
  <1>2. this'.multiboot2_addr = this.multiboot2_addr /\ this'.jumper_addr = r.addr
        /\ DOMAIN this' = DOMAIN this
    BY <1>1 DEF Places
  <1>3. /\ Aside(this.multiboot2_addr, boot.mb2.size)'
              <=> Aside(this.multiboot2_addr, boot.mb2.size)
        /\ Aside(stack, StackSize)' <=> Aside(stack, StackSize)
    BY <1>1, <1>2, SameBoot DEF Aside
  <1>4. CASE r.addr = 0
    BY <1>1, <1>2, <1>4, DeadStep DEF SetupJumper
  <1>5. CASE r.addr # 0
    <2>1. pc' = "install" /\ ram' = Memcpy(r.addr, JumperStart, JumperSize)
      BY <1>5 DEF SetupJumper
    <2>2. Places'
      BY <1>1, <1>2, <2>1, PlacesStill
      DEF Working, Mb2Placed, StackPlaced, Paged, Memcpy, Overlay
    <2>3. ASSUME Regular PROVE Intact' /\ JumperPlaced'
      <3> DEFINE at    == r.addr
                 size  == JumperSize
                 first == JumperStart - TextStart
      <3>1. Intact
        BY <1>1, <2>3
      <3>2. /\ JumperStart \in Nat /\ JumperStart + size < Word
            /\ Needed(JumperStart, size) /\ Holds(JumperStart, "loader", first, size)
        <4>1. /\ TextStart \in Nat /\ JumperStart \in Nat /\ size \in Nat /\ BssEnd \in Nat
              /\ TextStart <= JumperStart /\ JumperStart + size <= BssEnd
          BY Constant DEF JumperSize
        <4>2. Needed(JumperStart, size)
          <5>1. Cells(JumperStart, JumperStart + size)
                    \subseteq Cells(TextStart, TextStart + (BssEnd - TextStart))
            BY <4>1 DEF Cells
          <5> QED
            BY <3>1, <5>1 DEF Intact, Needed
        <4>3. ASSUME NEW k \in 0 .. size - 1
              PROVE  ram[JumperStart + k] = Byte("loader", first + k)
          <5> DEFINE j == first + k
          <5>1. j \in 0 .. BssEnd - TextStart - 1 /\ TextStart + j = JumperStart + k
                /\ 0 + j = j
            BY <4>1
          <5> HIDE DEF j
          <5>2. ram[TextStart + j] = Byte("loader", 0 + j)
            BY <3>1, <5>1 DEF Intact, LoaderIntact, Holds
          <5> QED
            BY <5>1, <5>2 DEF j
        <4>4. BssEnd < Word
          BY <1>1, Layout, Constant
        <4> QED
          BY <4>1, <4>2, <4>3, <4>4, Constant DEF Holds
      <3>3. /\ at \in Nat /\ at + size < Word
            /\ Cells(at, at + size) \subseteq Free
            /\ Cells(at, at + size) \cap Cells(alloc'.free, alloc'.to) = {}
            /\ \A k \in 0 .. size - 1 : ram'[at + k] = Byte("loader", first + k)
            /\ Shrinks /\ Quiet /\ Room' /\ DOMAIN ram' = 0 .. Word - 1
        <4>1. size \in {boot.mb2.size, StackSize, JumperSize}
          OBVIOUS
        <4> HIDE DEF r, first, size
        <4> QED
          BY <1>1, <1>5, <2>1, <3>1, <3>2, <4>1, Relocated DEF r, size
      <3> HIDE DEF r
      <3>4. TablesHeld'
        BY <1>1, <3>1, <3>3, TablesStill DEF Places
      <3>5. Intact'
        BY <1>1, <1>2, <3>1, <3>3, <3>4, IntactStill
      <3>6. (/\ JumperIntact /\ InRam(this.jumper_addr, JumperSize)
             /\ Needed(this.jumper_addr, JumperSize))'
        BY <1>2, <3>3 DEF JumperIntact, Holds, Needed, Free, InRam
      <3>7. Aside(this.jumper_addr, JumperSize)'
        BY <1>1, <1>2, <3>1, <3>3, SameBoot DEF Aside, Intact
      <3> QED
        BY <3>5, <3>6, <3>7 DEF JumperPlaced
    <2> QED
      BY <1>1, <1>3, <2>1, <2>2, <2>3, SameBoot
      DEF LoaderInv, BeforeMalloc, AtWork, OutOfTheWay, InTheJumper, AtTheEnd,
          InJumper, Working, Mb2Placed, StackPlaced, Paged, JumperPlaced
  <1> QED
    BY <1>4, <1>5

-----------------------------------------------------------------------------
(***************************************************************************)
(* setup_paging: every step writes one new table at most, in a page of the *)
(* free memory.                                                            *)
(***************************************************************************)
TablePage == AllocatePermanent(alloc, PageSize, PageSize)

\* What a step of the page table may do to the allocator and the tables.
TakesPage ==
    \/ alloc' = alloc /\ DOMAIN tables' = DOMAIN tables
    \/ TablePage.addr = 0 /\ alloc' = TablePage.self /\ DOMAIN tables' = DOMAIN tables
    \/ /\ TablePage.addr # 0 /\ alloc' = TablePage.self
       /\ TablePage.addr \in DOMAIN tables'
       /\ DOMAIN tables' \subseteq DOMAIN tables \union {TablePage.addr}

\* ClearTables, byte by byte.
Cleared ==
    /\ DOMAIN ram' = DOMAIN ram
    /\ \A a \in DOMAIN ram :
          ram'[a] = IF \E t \in DOMAIN tables' \ DOMAIN tables :
                          a \in Cells(t, t + PageSize)
                    THEN Table ELSE ram[a]

LEMMA TablePageResult ==
    ASSUME Room
    PROVE  \/ TablePage.addr = 0 /\ TablePage.self = alloc
           \/ /\ TablePage.addr \in Nat \ {0} /\ alloc.free <= TablePage.addr
              /\ TablePage.addr + PageSize <= alloc.to
              /\ TablePage.self = [alloc EXCEPT !.free = TablePage.addr + PageSize]
  <1>1. /\ alloc \in Words /\ PageSize \in Nat \ {0}
        /\ alloc.free + PageSize + PageSize < Word /\ alloc.free \in Nat \ {0}
    BY Constant DEF Room, Words
  <1> QED
    BY <1>1, Allocations!PermanentResult, SameAllocator, WordAssumption DEF TablePage

LEMMA TakesPageKeeps ==
    ASSUME Places, Intact, UNCHANGED boot, TakesPage, Cleared
    PROVE  Shrinks /\ Quiet /\ Room' /\ TablesHeld' /\ DOMAIN ram' = DOMAIN ram
  <1>1. /\ alloc \in Words /\ PageSize \in Nat \ {0} /\ Word \in Nat
        /\ DOMAIN ram = 0 .. Word - 1 /\ alloc.from <= alloc.free
        /\ alloc.from \in Nat /\ alloc.free \in Nat /\ alloc.to \in Nat
        /\ Room /\ TablesHeld
    BY Constant DEF Intact, Room, Words, Places
  <1>2. DOMAIN ram' = DOMAIN ram
    BY DEF Cleared
  <1>3. CASE DOMAIN tables' = DOMAIN tables /\ alloc' = alloc
    <2>1. \A a \in DOMAIN ram : ram'[a] = ram[a]
      BY <1>3 DEF Cleared
    <2>2. Quiet
      BY <1>1, <2>1 DEF Quiet
    <2>3. Shrinks
      BY <1>1, <1>3 DEF Shrinks
    <2>4. Room'
      BY <1>1, <1>3 DEF Room
    <2> QED
      BY <1>2, <1>3, <2>2, <2>3, <2>4, TablesStill
  <1>4. CASE /\ TablePage.addr # 0 /\ alloc' = TablePage.self
             /\ TablePage.addr \in DOMAIN tables'
             /\ DOMAIN tables' \subseteq DOMAIN tables \union {TablePage.addr}
    <2> DEFINE p == TablePage.addr
    <2>1. /\ p \in Nat /\ alloc.free <= p /\ p + PageSize <= alloc.to
          /\ alloc' = [alloc EXCEPT !.free = p + PageSize]
      BY <1>1, <1>4, TablePageResult
    <2>2. p \in DOMAIN tables' /\ DOMAIN tables' \subseteq DOMAIN tables \union {p}
      BY <1>4
    <2> HIDE DEF p
    <2>3. /\ alloc'.from = alloc.from /\ alloc'.to = alloc.to
          /\ alloc'.free = p + PageSize /\ alloc' \in Words
      BY <1>1, <2>1 DEF Words
    <2>4. p \notin DOMAIN tables
      <3>1. \A t \in DOMAIN tables : t \in Nat /\ t + PageSize <= alloc.free
        BY <1>1 DEF TablesHeld
      <3> QED
        BY <1>1, <2>1, <3>1
    <2>5. DOMAIN tables' \ DOMAIN tables = {p}
      BY <2>2, <2>4
    <2>6. \A a \in 0 .. Word - 1 :
             ram'[a] = IF a \in Cells(p, p + PageSize) THEN Table ELSE ram[a]
      BY <1>1, <2>5 DEF Cleared
    <2>7. Cells(p, p + PageSize) \subseteq Free
      BY <1>1, <2>1 DEF Cells, Free
    <2>8. Quiet
      BY <2>6, <2>7 DEF Quiet
    <2>9. Shrinks
      BY <1>1, <2>1, <2>3 DEF Shrinks
    <2>10. Room'
      <3>1. \A s \in {boot.mb2.size, StackSize, JumperSize} :
               s \in Nat /\ s <= alloc.free /\ s <= alloc.to
        BY <1>1, Constant, Layout DEF Room
      <3>2. /\ alloc'.from <= alloc'.free /\ alloc'.free + 2 * PageSize < Word
            /\ alloc'.to + 2 * PageSize < Word
        BY <1>1, <2>1, <2>3 DEF Room
      <3>3. \A s \in {boot.mb2.size, StackSize, JumperSize} :
               s <= alloc'.free /\ s <= alloc'.to
        BY <1>1, <2>1, <2>3, <3>1
      <3> QED
        BY <2>3, <3>2, <3>3 DEF Room, Words
    <2>11. TablesHeld'
      <3>1. ASSUME NEW t \in DOMAIN tables'
            PROVE  /\ t \in Nat /\ t + PageSize < Word
                   /\ alloc'.from <= t /\ t + PageSize <= alloc'.free
        <4>1. CASE t = p
          BY <1>1, <2>1, <2>3, <2>10, <4>1 DEF Room, Words
        <4>2. CASE t \in DOMAIN tables
          BY <1>1, <2>1, <2>3, <4>2 DEF TablesHeld
        <4> QED
          BY <2>2, <4>1, <4>2
      <3>2. ASSUME NEW a \in TableCells' PROVE ram'[a] = Table /\ a \notin Target
        <4>1. PICK t \in DOMAIN tables' : a \in Cells(t, t + PageSize)
          BY DEF TableCells
        <4>2. a \in 0 .. Word - 1
          BY <1>1, <1>2 DEF TableCells
        <4>3. CASE t = p
          <5>1. a \in Free /\ ram'[a] = Table
            BY <2>6, <2>7, <4>1, <4>2, <4>3
          <5> QED
            BY <5>1 DEF Intact
        <4>4. CASE t \in DOMAIN tables
          <5>1. a \in TableCells
            BY <1>1, <4>1, <4>2, <4>4 DEF TableCells
          <5>2. ram[a] = Table /\ a \notin Target
            BY <1>1, <5>1 DEF TablesHeld
          <5> QED
            BY <2>6, <4>2, <5>2
        <4> QED
          BY <2>2, <4>1, <4>3, <4>4
      <3>3. alloc'.from \in Nat /\ alloc'.free \in Nat
        BY <2>3 DEF Words
      <3> QED
        BY <3>1, <3>2, <3>3, SameBoot DEF TablesHeld
    <2> QED
      BY <1>2, <2>8, <2>9, <2>10, <2>11
  <1> QED
    BY <1>1, <1>3, <1>4, TablePageResult DEF TakesPage

\* A step of setup_paging keeps the invariant.
LEMMA PagedStep ==
    ASSUME LoaderInv, pc \in Paged, pc' \in Paged \union {"dead"},
           TakesPage, Cleared, PagingOnly
    PROVE  LoaderInv'
  <1>1. /\ Places /\ UNCHANGED <<boot, stack, this, cpu>>
        /\ Regular => /\ Intact /\ JumperPlaced
                      /\ Aside(this.multiboot2_addr, boot.mb2.size)
                      /\ Aside(stack, StackSize)
    BY DEF LoaderInv, PagingOnly, AtWork, OutOfTheWay, Working, Mb2Placed,
           StackPlaced, JumperPlaced
  <1>2. Places'
    BY <1>1, PlacesStill DEF Cleared, Working, Mb2Placed, StackPlaced
  <1>3. ASSUME Regular
        PROVE  /\ Intact' /\ JumperPlaced'
               /\ Aside(this.multiboot2_addr, boot.mb2.size)'
               /\ Aside(stack, StackSize)'
    <2>1. Intact /\ JumperPlaced
      BY <1>1, <1>3
    <2>2. Shrinks /\ Quiet /\ Room' /\ TablesHeld'
      BY <1>1, <2>1, TakesPageKeeps
    <2>3. Intact'
      BY <1>1, <2>1, <2>2, IntactStill
    <2>4. Aside(this.multiboot2_addr, boot.mb2.size)' /\ Aside(stack, StackSize)'
      BY <1>1, <1>3, SameBoot DEF Aside
    <2>5. JumperPlaced'
      <3> DEFINE at    == this.jumper_addr
                 size  == JumperSize
                 first == JumperStart - TextStart
      <3>1. alloc \in Words
        BY <2>1 DEF Intact, Room, Words
      <3>2. at \in Nat /\ size \in Nat /\ at + size <= Word
        BY <2>1, Constant DEF JumperPlaced, InRam
      <3>3. Holds(at, "loader", first, size) /\ Needed(at, size) /\ Aside(at, size)
        BY <2>1 DEF JumperPlaced, JumperIntact
      <3>4. at = this'.jumper_addr
        BY <1>1
      <3> HIDE DEF at, size, first
      <3>5. \A k \in 0 .. size - 1 : ram'[at + k] = Byte("loader", first + k)
        BY <2>2, <3>2, <3>3, HeldQuiet
      <3>6. Cells(at, at + size) \cap Cells(alloc'.free, alloc'.to) = {}
        BY <2>2, <3>1, <3>2, <3>3, NeededStill
      <3>7. Cells(at, at + size) \cap Target' = {}
        BY <1>1, <3>3, SameBoot DEF Aside
      <3>8. (JumperIntact /\ Needed(this.jumper_addr, JumperSize)
               /\ Aside(this.jumper_addr, JumperSize))'
        BY <3>4, <3>5, <3>6, <3>7
        DEF JumperIntact, Holds, Needed, Free, Aside, size, first
      <3>9. InRam(this.jumper_addr, JumperSize)'
        BY <1>1, <2>1 DEF JumperPlaced, InRam
      <3> QED
        BY <3>8, <3>9 DEF JumperPlaced
    <2> QED
      BY <2>3, <2>4, <2>5
  <1>4. ASSUME Regular
        PROVE  (BeforeMalloc /\ AtWork /\ OutOfTheWay /\ InTheJumper /\ AtTheEnd)'
    <2>1. /\ Intact' /\ JumperPlaced'
          /\ Aside(this.multiboot2_addr, boot.mb2.size)' /\ Aside(stack, StackSize)'
      BY <1>3, <1>4
    <2>2. LoaderIntact' /\ SourceIntact' /\ StackIntact'
      BY <2>1 DEF Intact
    <2>3. pc' \in Paged \union {"dead"}
      OBVIOUS
    <2>4. BeforeMalloc' /\ InTheJumper'
      BY <2>3 DEF BeforeMalloc, InTheJumper, InJumper, Paged
    <2>5. AtWork'
      BY <2>1 DEF AtWork
    <2>6. OutOfTheWay'
      BY <2>1 DEF OutOfTheWay, JumperPlaced
    <2>7. AtTheEnd'
      BY <2>2, <2>3 DEF AtTheEnd, Paged
    <2> QED
      BY <2>4, <2>5, <2>6, <2>7
  <1> QED
    BY <1>1, <1>2, <1>4, SameBoot DEF LoaderInv

LEMMA SetupPagingStep ==
    ASSUME LoaderInv, SetupPaging
    PROVE  LoaderInv'
  <1>1. CASE InstallTable
    <2>1. TakesPage
      BY <1>1 DEF InstallTable, PagetableInstall, TakesPage, TablePage
    <2>2. pc \in Paged /\ pc' \in Paged \union {"dead"} /\ Cleared /\ PagingOnly
      BY <1>1 DEF InstallTable, Paged, ClearTables, Cleared
    <2> QED
      BY <2>1, <2>2, PagedStep
  <1>2. CASE MapIdentity \/ MapPayload
    <2>1. UNCHANGED <<alloc, tables, ram>>
      BY <1>2 DEF MapIdentity, MapPayload, PagetableMap
    <2>2. TakesPage
      BY <2>1 DEF TakesPage
    <2>3. Cleared
      BY <2>1 DEF Cleared
    <2>4. pc \in Paged /\ pc' \in Paged \union {"dead"} /\ PagingOnly
      BY <1>2 DEF MapIdentity, MapPayload, Paged
    <2> QED
      BY <2>2, <2>3, <2>4, PagedStep
  <1>3. ASSUME NEW here \in Paged, NEW there \in Paged, RunMapping(here, there)
        PROVE  LoaderInv'
    <2>1. pc \in Paged /\ pc' \in Paged \union {"dead"} /\ Cleared /\ PagingOnly
      BY <1>3 DEF RunMapping, ClearTables, Cleared
    <2>2. TakesPage
      <3>1. MapStep
        BY <1>3 DEF RunMapping
      <3>2. CASE NextPage \/ WalkPresent
        BY <3>2 DEF NextPage, WalkPresent, TakesPage
      <3>3. CASE WalkAbsent
        BY <3>3 DEF WalkAbsent, TakesPage, TablePage, Grow
      <3>4. CASE WriteLeaf
        BY <3>4 DEF WriteLeaf, TakesPage
      <3> QED
        BY <3>1, <3>2, <3>3, <3>4 DEF MapStep
    <2> QED
      BY <2>1, <2>2, PagedStep
  <1> QED
    BY <1>1, <1>2, <1>3 DEF SetupPaging, Paged

-----------------------------------------------------------------------------
(***************************************************************************)
(* The jumper.                                                             *)
(***************************************************************************)
LEMMA JumpStep ==
    ASSUME LoaderInv, JumpToPayload
    PROVE  LoaderInv'
  <1>1. /\ pc = "jump" /\ pc' = "move" /\ Places
        /\ UNCHANGED <<boot, ram, stack, this, alloc, tables>>
        /\ DOMAIN cpu' = DOMAIN cpu
        /\ saved' = [mb2 |-> this.multiboot2_addr, mems |-> alloc.from,
                     meme |-> alloc.free]
    BY DEF LoaderInv, JumpToPayload, memory, paging
  <1>2. Places'
    BY <1>1 DEF Places, InJumper, Working, Mb2Placed, StackPlaced, Paged
  <1>3. ASSUME Regular PROVE InTheJumper'
    <2>1. /\ Intact /\ JumperIntact /\ InRam(this.jumper_addr, JumperSize)
          /\ Aside(this.multiboot2_addr, boot.mb2.size) /\ Aside(stack, StackSize)
          /\ Aside(this.jumper_addr, JumperSize)
      BY <1>1, <1>3 DEF LoaderInv, AtWork, OutOfTheWay, Working, Mb2Placed,
                        StackPlaced, Paged
    <2>2. StackIntact' /\ Mb2Intact' /\ JumperIntact' /\ TablesHeld' /\ SourceIntact'
      BY <1>1, <2>1, Unmoved DEF Intact
    <2>3. (/\ Aside(this.multiboot2_addr, boot.mb2.size)
           /\ Aside(stack, StackSize) /\ Aside(this.jumper_addr, JumperSize))'
      BY <1>1, <2>1, SameBoot DEF Aside
    <2>4. (/\ InRam(this.multiboot2_addr, boot.mb2.size)
           /\ InRam(stack, StackSize) /\ InRam(this.jumper_addr, JumperSize))'
      BY <1>1, <2>1 DEF InRam, Intact
    <2> QED
      BY <1>1, <2>2, <2>3, <2>4 DEF InTheJumper
  <1> QED
    BY <1>1, <1>2, <1>3, SameBoot
    DEF LoaderInv, BeforeMalloc, AtWork, OutOfTheWay, AtTheEnd,
        Working, Mb2Placed, StackPlaced, Paged

\* What the move of the payload leaves alone.
ImageOnly == \A a \in 0 .. Word - 1 : a \notin Target => ram'[a] = ram[a]

LEMMA HeldAside ==
    ASSUME ImageOnly,
           NEW addr \in Nat, NEW size \in Nat, addr + size <= Word,
           Aside(addr, size), NEW object, NEW first, Holds(addr, object, first, size)
    PROVE  \A k \in 0 .. size - 1 : ram'[addr + k] = Byte(object, first + k)
  <1> DEFINE S == Target
  <1>1. (\A a \in 0 .. Word - 1 : a \notin S => ram'[a] = ram[a])
        /\ Cells(addr, addr + size) \cap S = {}
    BY DEF ImageOnly, Aside
  <1> HIDE DEF S
  <1> QED
    BY <1>1, HeldStill

\* memmove and memset put the image in its place and change nothing else.
LEMMA PayloadMoves ==
    ASSUME Places, SourceIntact, RelocatePayload
    PROVE  ImageMoved' /\ DOMAIN ram' = 0 .. Word - 1 /\ ImageOnly
  <1> DEFINE load   == header.load_addr
             end    == header.load_end_addr
             bss    == header.bss_end_addr
             source == header.payload_addr
             size   == PayloadSize
  <1>1. /\ load \in Nat /\ end \in Nat /\ bss \in Nat /\ source \in Nat /\ Word \in Nat
        /\ size \in Nat /\ load + size = end /\ load <= end /\ end <= bss /\ bss < Word
    BY Layout, Constant DEF PayloadSize
  <1>2. Target = Cells(load, bss) /\ Holds(source, "payload", 0, size)
        /\ DOMAIN ram = 0 .. Word - 1 /\ Target' = Target /\ header' = header
    BY SameBoot DEF Target, SourceIntact, Places, RelocatePayload, memory
  <1>3. /\ DOMAIN ram' = 0 .. Word - 1
        /\ \A a \in 0 .. Word - 1 :
              ram'[a] = IF a \in Cells(end, bss) THEN Zero
                        ELSE IF a \in Cells(load, load + size)
                             THEN ram[source + (a - load)] ELSE ram[a]
    BY <1>2 DEF RelocatePayload, Memmove, Overlay
  <1>4. ImageMoved' <=>
          \A a \in Cells(load, bss) :
             ram'[a] = IF a < end THEN Byte("payload", a - load) ELSE Zero
    BY <1>2 DEF ImageMoved
  <1> HIDE DEF load, end, bss, source, size
  <1>5. \A k \in 0 .. size - 1 : ram[source + k] = Byte("payload", 0 + k)
    BY <1>2 DEF Holds
  <1>6. ASSUME NEW a \in Cells(load, bss)
        PROVE  ram'[a] = IF a < end THEN Byte("payload", a - load) ELSE Zero
    <2>1. a \in 0 .. Word - 1
      BY <1>1 DEF Cells
    <2>2. CASE a < end
      <3> DEFINE k == a - load
      <3>1. /\ k \in 0 .. size - 1 /\ 0 + k = k /\ a \notin Cells(end, bss)
            /\ a \in Cells(load, load + size)
        BY <1>1, <2>2 DEF Cells
      <3>2. ram'[a] = ram[source + k]
        BY <1>3, <2>1, <3>1
      <3> HIDE DEF k
      <3>3. ram[source + k] = Byte("payload", k)
        BY <1>5, <3>1
      <3> QED
        BY <2>2, <3>2, <3>3 DEF k
    <2>3. CASE ~ a < end
      <3>1. a \in Cells(end, bss)
        BY <1>1, <2>1, <2>3 DEF Cells
      <3> QED
        BY <1>3, <2>1, <2>3, <3>1
    <2> QED
      BY <2>2, <2>3
  <1>7. ASSUME NEW a \in 0 .. Word - 1, a \notin Cells(load, bss)
        PROVE  ram'[a] = ram[a]
    <2>1. a \notin Cells(end, bss) /\ a \notin Cells(load, load + size)
      BY <1>1, <1>7 DEF Cells
    <2> QED
      BY <1>3, <2>1
  <1> QED
    BY <1>2, <1>3, <1>4, <1>6, <1>7 DEF ImageOnly

LEMMA RelocatePayloadStep ==
    ASSUME LoaderInv, RelocatePayload
    PROVE  LoaderInv'
  <1>1. /\ pc = "move" /\ pc' = "pae" /\ Places
        /\ UNCHANGED <<boot, stack, this, alloc, tables, saved, cpu>>
    BY DEF LoaderInv, RelocatePayload, memory, paging
  <1>2. Places'
    <2>1. DOMAIN ram' = DOMAIN ram
      BY DEF RelocatePayload
    <2> QED
      BY <1>1, <2>1 DEF Places, InJumper, Working, Mb2Placed, StackPlaced, Paged
  <1>3. ASSUME Regular PROVE InTheJumper'
    <2>1. /\ StackIntact /\ Mb2Intact /\ JumperIntact /\ TablesHeld /\ SourceIntact
          /\ InRam(this.multiboot2_addr, boot.mb2.size) /\ InRam(stack, StackSize)
          /\ InRam(this.jumper_addr, JumperSize)
          /\ Aside(this.multiboot2_addr, boot.mb2.size) /\ Aside(stack, StackSize)
          /\ Aside(this.jumper_addr, JumperSize)
      BY <1>1, <1>3 DEF LoaderInv, InTheJumper, InJumper
    <2>2. ImageMoved' /\ DOMAIN ram' = 0 .. Word - 1 /\ ImageOnly
      BY <1>1, <2>1, PayloadMoves
    <2>3. StackIntact'
      <3> DEFINE at   == stack
                 size == StackSize
      <3>1. /\ at \in Nat /\ size \in Nat /\ at + size <= Word
            /\ Aside(at, size) /\ Holds(at, "stack", 0, size)
        BY <2>1, Constant DEF InRam, StackIntact
      <3> HIDE DEF at, size
      <3>2. \A k \in 0 .. size - 1 : ram'[at + k] = Byte("stack", 0 + k)
        BY <2>2, <3>1, HeldAside
      <3> QED
        BY <1>1, <3>2 DEF StackIntact, Holds, at, size
    <2>4. Mb2Intact'
      <3> DEFINE at   == this.multiboot2_addr
                 size == boot.mb2.size
      <3>1. /\ at \in Nat /\ size \in Nat /\ at + size <= Word
            /\ Aside(at, size) /\ Holds(at, "mb2", 0, size)
        BY <1>1, <2>1, Constant, Layout DEF InRam, Mb2Intact
      <3> HIDE DEF at, size
      <3>2. \A k \in 0 .. size - 1 : ram'[at + k] = Byte("mb2", 0 + k)
        BY <2>2, <3>1, HeldAside
      <3> QED
        BY <1>1, <3>2 DEF Mb2Intact, Holds, at, size
    <2>5. JumperIntact'
      <3> DEFINE at    == this.jumper_addr
                 size  == JumperSize
                 first == JumperStart - TextStart
      <3>1. /\ at \in Nat /\ size \in Nat /\ at + size <= Word
            /\ Aside(at, size) /\ Holds(at, "loader", first, size)
        BY <2>1, Constant DEF InRam, JumperIntact
      <3> HIDE DEF at, size, first
      <3>2. \A k \in 0 .. size - 1 : ram'[at + k] = Byte("loader", first + k)
        BY <2>2, <3>1, HeldAside
      <3> QED
        BY <1>1, <3>2 DEF JumperIntact, Holds, at, size, first
    <2>6. TablesHeld'
      <3>1. TableCells' = TableCells /\ Target' = Target
        BY <1>1, <2>2, SameBoot DEF TableCells, Places
      <3>2. \A a \in TableCells : a \in 0 .. Word - 1 /\ ram[a] = Table /\ a \notin Target
        BY <1>1, <2>1 DEF TablesHeld, TableCells, Places
      <3> QED
        BY <1>1, <2>1, <2>2, <3>1, <3>2 DEF ImageOnly, TablesHeld
    <2> QED
      BY <1>1, <2>2, <2>3, <2>4, <2>5, <2>6 DEF InTheJumper
  <1> QED
    BY <1>1, <1>2, <1>3, SameBoot
    DEF LoaderInv, BeforeMalloc, AtWork, OutOfTheWay, AtTheEnd,
        Working, Mb2Placed, StackPlaced, Paged

\* The rest of the jumper works on the processor alone.
LEMMA ProcessorStep ==
    ASSUME LoaderInv, pc \in {"pae", "lme", "pg", "ljmp", "long mode"},
           UNCHANGED <<ram, saved, memory>>, DOMAIN cpu' = DOMAIN cpu,
           \/ pc' \in {"lme", "pg", "ljmp", "long mode", "fault"}
           \/ /\ pc' = "payload" /\ cpu'.rbx = saved.mb2 /\ cpu'.rdx = saved.mems
              /\ cpu'.rcx = saved.meme /\ cpu'.star = 0
    PROVE  LoaderInv'
  <1>1. /\ Places /\ UNCHANGED <<boot, ram, saved, stack, this, alloc, tables>>
        /\ InJumper /\ pc # "move"
        /\ saved = [mb2 |-> this.multiboot2_addr, mems |-> alloc.from,
                    meme |-> alloc.free]
    BY DEF LoaderInv, memory, paging, InJumper, Places
  <1>2. Places'
    BY <1>1 DEF Places, InJumper, Stopped, Working, Mb2Placed, StackPlaced, Paged
  <1>3. ASSUME Regular PROVE InTheJumper' /\ AtTheEnd'
    <2>1. StackIntact /\ Mb2Intact /\ JumperIntact /\ TablesHeld /\ ImageMoved
      BY <1>1, <1>3 DEF LoaderInv, InTheJumper
    <2>2. (StackIntact /\ Mb2Intact /\ JumperIntact /\ TablesHeld /\ ImageMoved)'
      BY <1>1, <2>1, Unmoved
    <2>3. pc' # "move" /\ pc' # "dead"
      OBVIOUS
    <2> QED
      BY <2>2, <2>3 DEF InTheJumper, AtTheEnd
  <1>4. BeforeMalloc' /\ AtWork' /\ OutOfTheWay'
    <2>1. pc' \notin {"entry", "malloc"} /\ pc' \notin Working
      BY DEF Working, Mb2Placed, StackPlaced, Paged
    <2> QED
      BY <2>1 DEF BeforeMalloc, AtWork, OutOfTheWay, Working, Mb2Placed, StackPlaced
  <1>5. Regular' = Regular
    BY <1>1, SameBoot
  <1> QED
    BY <1>2, <1>3, <1>4, <1>5 DEF LoaderInv

LEMMA JumperStep ==
    ASSUME LoaderInv, Jumper
    PROVE  LoaderInv'
  <1>1. DOMAIN cpu = Registers
    BY DEF LoaderInv, Places
  <1>2. CASE EnablePae
    BY <1>2, ProcessorStep DEF EnablePae
  <1>3. CASE EnableLme
    BY <1>3, ProcessorStep DEF EnableLme
  <1>4. CASE EnablePaging
    BY <1>4, ProcessorStep DEF EnablePaging
  <1>5. CASE JumpToLongmode
    BY <1>5, ProcessorStep DEF JumpToLongmode
  <1>6. CASE EnterPayload
    <2>1. /\ cpu'.rbx = saved.mb2 /\ cpu'.rdx = saved.mems
          /\ cpu'.rcx = saved.meme /\ cpu'.star = 0 /\ DOMAIN cpu' = DOMAIN cpu
      BY <1>1, <1>6 DEF EnterPayload, Registers
    <2> QED
      BY <1>6, <2>1, ProcessorStep DEF EnterPayload
  <1> QED
    BY <1>2, <1>3, <1>4, <1>5, <1>6, JumpStep, RelocatePayloadStep DEF Jumper

-----------------------------------------------------------------------------
\* A boot that is regular is never overrun.
LEMMA NeverOverrun ==
    ASSUME LoaderInv, Collapse
    PROVE  ~ Regular
  <1> SUFFICES ASSUME Regular PROVE FALSE
    OBVIOUS
  <1>1. Places /\ ~ Stopped /\ ~ Alive
    BY DEF LoaderInv, Collapse
  <1>2. CASE InJumper
    BY <1>1, <1>2 DEF LoaderInv, InTheJumper, Alive
  <1>3. CASE pc \in {"entry", "malloc"}
    BY <1>1, <1>3 DEF LoaderInv, BeforeMalloc, Alive, InJumper
  <1>4. CASE pc \in Working
    BY <1>1, <1>4 DEF LoaderInv, AtWork, Intact, Alive, InJumper, Working,
                      Mb2Placed, StackPlaced, Paged
  <1> QED
    BY <1>1, <1>2, <1>3, <1>4 DEF Places

LEMMA CollapseStep ==
    ASSUME LoaderInv, Collapse
    PROVE  LoaderInv'
  <1>1. /\ Places /\ ~ Stopped /\ pc' = "fault"
        /\ UNCHANGED <<boot, ram, stack, this, cpu>>
    BY DEF LoaderInv, Collapse
  <1>2. Places'
    BY <1>1, PlacesStill DEF Working, Mb2Placed, StackPlaced, Paged
  <1> QED
    BY <1>1, <1>2, NeverOverrun, SameBoot DEF LoaderInv

LEMMA LoaderInvStep ==
    ASSUME LoaderInv, [Next]_vars
    PROVE  LoaderInv'
  <1>1. CASE UNCHANGED vars
    <2>1. UNCHANGED <<boot, pc, ram, stack, this, saved, cpu, alloc, tables>>
      BY <1>1 DEF vars
    <2>2. Places'
      BY <2>1 DEF LoaderInv, Places, header, InJumper, Stopped
    <2>3. ASSUME Regular
          PROVE  (BeforeMalloc /\ AtWork /\ OutOfTheWay /\ InTheJumper /\ AtTheEnd)'
      <3>1. BeforeMalloc /\ AtWork /\ OutOfTheWay /\ InTheJumper /\ AtTheEnd
        BY <2>3 DEF LoaderInv
      <3>2. /\ LoaderIntact' = LoaderIntact /\ SourceIntact' = SourceIntact
            /\ StackIntact' = StackIntact /\ ImageMoved' = ImageMoved
            /\ Mb2Intact' = Mb2Intact /\ JumperIntact' = JumperIntact
            /\ TablesHeld' = TablesHeld /\ Target' = Target /\ InJumper' = InJumper
        BY <2>1, Unmoved, SameBoot DEF InJumper
      <3>3. BeforeMalloc' /\ AtTheEnd'
        BY <2>1, <3>1, <3>2 DEF BeforeMalloc, AtTheEnd, Holds
      <3>4. AtWork'
        BY <2>1, <3>1, IntactUnmoved DEF AtWork
      <3>5. OutOfTheWay' /\ InTheJumper'
        BY <2>1, <3>1, <3>2 DEF OutOfTheWay, InTheJumper, Aside, Needed, Free, InRam
      <3> QED
        BY <3>3, <3>4, <3>5
    <2> QED
      BY <2>1, <2>2, <2>3, SameBoot DEF LoaderInv
  <1> QED
    BY <1>1, CollapseStep, EnterLoaderStep, MallocStep, CheckStep,
       RelocateMultiboot2Step, RelocateStackStep, SetupJumperStep,
       SetupPagingStep, JumperStep
    DEF Next

-----------------------------------------------------------------------------
\* Whatever the memory map, and wherever the image, the stack, the information
\* and the payload's target lie, nothing that is still needed is in the memory
\* that can still be given away.
THEOREM LoaderInvariant == Spec => []LoaderInv
  BY LoaderInvInit, LoaderInvStep, PTL DEF Spec

\* No relocation, no copy of the jumper and no new table overwrites what is
\* still needed, as long as the free memory holds neither the payload's image
\* nor the stack: malloc_initialize alone does not see to that.
THEOREM NothingIsLost == Spec => []NothingLost
  <1>1. LoaderInv => NothingLost
    <2> SUFFICES ASSUME LoaderInv, Regular
                 PROVE  /\ StackIntact
                        /\ pc \notin {"entry", "dead"} => Mb2Intact
                        /\ ~ InJumper /\ pc \notin {"payload", "fault"}
                              => LoaderIntact /\ SourceIntact
                        /\ pc = "move" => SourceIntact
                        /\ InJumper => JumperIntact
      BY DEF NothingLost, Regular
    <2>1. /\ Places /\ BeforeMalloc /\ AtWork /\ InTheJumper /\ AtTheEnd
      BY DEF LoaderInv
    <2>2. CASE pc \in {"entry", "malloc"}
      BY <2>1, <2>2 DEF BeforeMalloc, Places, Mb2Intact, InJumper
    <2>3. CASE pc \in Working
      <3>1. Intact
        BY <2>1, <2>3 DEF AtWork
      <3> QED
        BY <2>3, <3>1
        DEF Intact, InJumper, Working, Mb2Placed, StackPlaced, Paged
    <2>4. CASE InJumper
      BY <2>1, <2>4 DEF InTheJumper, InJumper
    <2>5. CASE Stopped
      BY <2>1, <2>5 DEF AtTheEnd, Stopped, InJumper
    <2> QED
      BY <2>1, <2>2, <2>3, <2>4, <2>5 DEF Places
  <1> QED
    BY <1>1, LoaderInvariant, PTL

\* The payload finds its image and its bss where it asked for them, whatever
\* they overlap, and the information and every table where its registers say.
THEOREM PayloadIsPresent == Spec => []PayloadPresent
  <1>1. LoaderInv => PayloadPresent
    <2> SUFFICES ASSUME LoaderInv, pc = "payload", Protected(boot)
                 PROVE  /\ ImageMoved
                        /\ Holds(cpu.rbx, "mb2", 0, boot.mb2.size)
                        /\ \A t \in DOMAIN tables :
                              /\ Cells(t, t + PageSize) \subseteq Cells(cpu.rdx, cpu.rcx)
                              /\ \A a \in Cells(t, t + PageSize) : ram[a] = Table
                        /\ cpu.star = 0
      BY DEF PayloadPresent
    <2>1. /\ Regular /\ cpu.rbx = this.multiboot2_addr /\ cpu.rdx = alloc.from
          /\ cpu.rcx = alloc.free /\ cpu.star = 0 /\ DOMAIN ram = 0 .. Word - 1
      BY DEF LoaderInv, Places, Regular
    <2>2. ImageMoved /\ Mb2Intact /\ TablesHeld
      BY <2>1 DEF LoaderInv, AtTheEnd
    <2>3. ASSUME NEW t \in DOMAIN tables
          PROVE  /\ Cells(t, t + PageSize) \subseteq Cells(cpu.rdx, cpu.rcx)
                 /\ \A a \in Cells(t, t + PageSize) : ram[a] = Table
      <3>1. /\ t \in Nat /\ t + PageSize < Word
            /\ cpu.rdx <= t /\ t + PageSize <= cpu.rcx
        BY <2>1, <2>2 DEF TablesHeld
      <3>2. cpu.rdx \in Int /\ cpu.rcx \in Int /\ PageSize \in Nat /\ Word \in Nat
        BY <2>1, <2>2, Constant DEF TablesHeld
      <3>3. Cells(t, t + PageSize) \subseteq Cells(cpu.rdx, cpu.rcx)
        BY <3>1, <3>2 DEF Cells
      <3>4. Cells(t, t + PageSize) \subseteq TableCells
        BY <2>1, <3>1, <3>2 DEF Cells, TableCells
      <3> QED
        BY <2>2, <3>3, <3>4 DEF TablesHeld
    <2> QED
      BY <2>1, <2>2, <2>3 DEF Mb2Intact
  <1> QED
    BY <1>1, LoaderInvariant, PTL

-----------------------------------------------------------------------------
(***************************************************************************)
(* The pages that the payload is found through, and those that the jumper  *)
(* needs until it gets there.                                              *)
(***************************************************************************)
\* What the tables translate of a virtual address.
Space == PageSize * VPages

LEMMA SpaceIs ==
    /\ PageSize \in Nat \ {0} /\ VPages \in Nat \ {0} /\ Space \in Nat \ {0}
    /\ Word \in Nat \ {0} /\ Word % PageSize = 0 /\ Word <= Space
    /\ PageSize <= Word
  <1>1. PageLevel \in 1 .. PageLevel
    BY PageAssumption
  <1>2. Span[PageLevel] \in Nat \ {0} /\ PgdSize \in Nat \ {0} /\ PageSize \in Nat \ {0}
    BY <1>1, Spans, PageAssumption
  <1>3. \A n, m \in Nat \ {0} : n * m \in Nat \ {0}
    OBVIOUS
  <1>4. VPages \in Nat \ {0}
    BY <1>2, <1>3 DEF VPages
  <1>5. Space \in Nat \ {0}
    BY <1>2, <1>3, <1>4 DEF Space
  <1>6. Word \in Nat \ {0} /\ Word % PageSize = 0 /\ Word <= Space
    BY WordAssumption, AddressAssumption DEF Space
  <1>7. PageSize <= Word
    <2>1. ~ Word < PageSize
      <3> SUFFICES ASSUME Word < PageSize PROVE FALSE
        OBVIOUS
      <3>1. Word \in 0 .. PageSize - 1
        BY <1>2, <1>6
      <3> QED
        BY <1>2, <1>6, <3>1, Small
    <2> QED
      BY <1>2, <1>6, <2>1
  <1> QED
    BY <1>2, <1>4, <1>5, <1>6, <1>7

\* Pages share a leaf when their addresses are the same for the tables.
LEMMA SameLeaf ==
    ASSUME NEW a \in Nat, NEW b \in Nat, a % PageSize = 0, b % PageSize = 0
    PROVE  (a \div PageSize) % VPages = (b \div PageSize) % VPages
              <=> a % Space = b % Space
  <1>1. \A s, p \in Nat \ {0} : a % (s * p) = b % (s * p)
              <=> a % s = b % s /\ (a \div s) % p = (b \div s) % p
    BY SameDigits, Zenon
  <1>2. PageSize \in Nat \ {0} /\ VPages \in Nat \ {0}
    BY SpaceIs
  <1>3. a % (PageSize * VPages) = b % (PageSize * VPages)
              <=> /\ a % PageSize = b % PageSize
                  /\ (a \div PageSize) % VPages = (b \div PageSize) % VPages
    BY <1>1, <1>2, Zenon
  <1> QED
    BY <1>3 DEF Space

\* The page walk of the processor, in any state.
LEMMA Walked ==
    /\ \A addr : Translate(addr) = LeafOf(tables, cr3, addr \div PageSize)
    /\ \A addr : Translate(addr)' = LeafOf(tables', cr3', addr \div PageSize)
  <1>1. \A addr : TablesFor(addr) = PathOf(tables, cr3, addr \div PageSize)
    BY DEF TablesFor, PathOf, PteIndexAtLevel, Digit
  <1>2. \A addr : TablesFor(addr)' = PathOf(tables', cr3', addr \div PageSize)
    BY DEF TablesFor, PathOf, PteIndexAtLevel, Digit
  <1>3. \A addr : Translate(addr) = LeafOf(tables, cr3, addr \div PageSize)
    BY <1>1 DEF Translate, LeafOf, PteIndexAtLevel, Digit
  <1>4. \A addr : Translate(addr)' = LeafOf(tables', cr3', addr \div PageSize)
    BY <1>2 DEF Translate, LeafOf, PteIndexAtLevel, Digit
  <1> QED
    BY <1>3, <1>4

\* Pages that are shown stay so when no leaf changes.
LEMMA ShownStill ==
    ASSUME SameMap, NEW v \in Nat, NEW p, NEW n, Shown(v, p, n),
           NEW k \in Cells(0, n), PageOffset(k) = 0
    PROVE  Translate(v + k)' = Entry(Wrap(p + k))
  <1>1. Translate(v + k) = Entry(Wrap(p + k))
    BY DEF Shown
  <1>2. (v + k) \div PageSize \in Nat
    <2>1. v + k \in Nat
      BY DEF Cells
    <2> QED
      BY <2>1, SpaceIs, Divided
  <1>3. Translate(v + k) = LeafOf(tables, cr3, (v + k) \div PageSize)
    BY Walked
  <1>4. Translate(v + k)' = LeafOf(tables', cr3', (v + k) \div PageSize)
    BY Walked
  <1> QED
    BY <1>1, <1>2, <1>3, <1>4 DEF SameMap

\* The page that setup_vpage maps is shown, behind those that are.
LEMMA ShownMore ==
    ASSUME MapInv, WriteLeaf, NEW v, v = call.vaddr, NEW p, p = call.paddr,
           NEW i, i = call.i, Shown(v, p, i),
           NEW k \in Cells(0, i + PageSize), PageOffset(k) = 0
    PROVE  Translate(v + k)' = Entry(Wrap(p + k))
  <1>1. /\ v \in Nat /\ i \in Nat /\ p \in Nat /\ v % PageSize = 0 /\ i % PageSize = 0
        /\ i < Word
    <2>1. /\ call.vaddr \in Nat /\ call.i \in Nat /\ call.paddr \in Nat
          /\ call.vaddr % PageSize = 0 /\ call.i % PageSize = 0
          /\ call.i < call.size /\ call.size < Word /\ call.size = Pages * PageSize
          /\ Pages \in Nat
      <3>1. call.asked + PageSize - 1 \in Nat
        BY SpaceIs DEF MapInv, CallOK
      <3> QED
        BY <3>1, SpaceIs, Divided DEF WriteLeaf, MapInv, CallOK, PageInv, LocalsOK, Pages
    <2>2. call.size \in Nat
      <3>1. \A m \in Nat : m * PageSize \in Nat
        BY SpaceIs
      <3> QED
        BY <2>1, <3>1
    <2> QED
      BY <2>1, <2>2, SpaceIs
  <1>2. \A page \in Nat :
           LeafOf(tables', cr3', page) =
               IF page % VPages = Page % VPages THEN Entry(PhysicalAddr)
               ELSE LeafOf(tables, cr3, page)
    BY WriteLeafTree
  <1>3. Page = (v + i) \div PageSize /\ PhysicalAddr = Wrap(p + i)
    BY DEF Page, VirtualAddr, PhysicalAddr
  <1>4. \A m \in Cells(0, i) : PageOffset(m) = 0 => Translate(v + m) = Entry(Wrap(p + m))
    BY DEF Shown
  <1>6. Translate(v + k)' = LeafOf(tables', cr3', (v + k) \div PageSize)
        /\ Translate(v + k) = LeafOf(tables, cr3, (v + k) \div PageSize)
    BY Walked
  <1>8. k \in Nat /\ k % PageSize = 0 /\ k <= i
    <2>1. k \in Nat /\ k % PageSize = 0 /\ k < i + PageSize
      BY <1>1, SpaceIs DEF Cells, PageOffset
    <2> QED
      BY <1>1, <2>1, SpaceIs, MultiplesApart
  <1>9. /\ v + k \in Nat /\ (v + k) % PageSize = 0 /\ (v + k) \div PageSize \in Nat
        /\ v + i \in Nat /\ (v + i) % PageSize = 0 /\ (v + i) \div PageSize \in Nat
    <2>1. /\ v + k \in Nat /\ (v + k) % PageSize = 0
          /\ v + i \in Nat /\ (v + i) % PageSize = 0
      BY <1>1, <1>8, SpaceIs, MultiplesAdd
    <2> QED
      BY <2>1, SpaceIs, Divided
  <1>10. CASE k = i
    BY <1>2, <1>3, <1>6, <1>9, <1>10
  <1>11. CASE k # i
    <2>1. k \in Cells(0, i)
      BY <1>1, <1>8, <1>11 DEF Cells
    <2>2. Translate(v + k) = Entry(Wrap(p + k))
      BY <1>4, <2>1
    <2>3. (v + k) % Space # (v + i) % Space
      <3> DEFINE a == v + k
                 b == v + i
      <3>1. a < b + Space /\ b < a + Space /\ a # b
        <4>1. i < Space /\ Space \in Nat
          BY <1>1, SpaceIs
        <4> QED
          BY <1>1, <1>8, <1>11, <4>1
      <3>2. a \in Nat /\ b \in Nat
        BY <1>9
      <3> HIDE DEF a, b
      <3>3. a % Space # b % Space
        BY <3>1, <3>2, SpaceIs, Congruent
      <3> QED
        BY <3>3 DEF a, b
    <2>4. ((v + k) \div PageSize) % VPages # Page % VPages
      BY <1>3, <1>9, <2>3, SameLeaf
    <2> QED
      BY <1>2, <1>6, <1>9, <2>2, <2>4
  <1> QED
    BY <1>10, <1>11

\* Pages mapped on themselves stay so under a mapping that is apart from them.
LEMMA ShownApart ==
    ASSUME MapInv, WriteLeaf, NEW n \in Nat, n <= Space, Shown(0, 0, n),
           \/ call.paddr = call.vaddr /\ call.vaddr + call.i < Word
           \/ /\ n <= call.vaddr % Space
              /\ (call.vaddr % Space) + call.i < Space,
           NEW k \in Cells(0, n), PageOffset(k) = 0
    PROVE  Translate(0 + k)' = Entry(Wrap(0 + k))
  <1> DEFINE v == call.vaddr
             i == call.i
             p == call.paddr
  <1>1. /\ v \in Nat /\ i \in Nat /\ p \in Nat /\ v % PageSize = 0 /\ i % PageSize = 0
    BY DEF WriteLeaf, MapInv, CallOK, PageInv, LocalsOK
  <1>2. \A page \in Nat :
           LeafOf(tables', cr3', page) =
               IF page % VPages = Page % VPages THEN Entry(PhysicalAddr)
               ELSE LeafOf(tables, cr3, page)
    BY WriteLeafTree
  <1>3. Page = (v + i) \div PageSize /\ PhysicalAddr = Wrap(p + i)
    BY DEF Page, VirtualAddr, PhysicalAddr
  <1>4. \/ p = v /\ v + i < Word
        \/ n <= v % Space /\ (v % Space) + i < Space
    OBVIOUS
  <1>5. Translate(0 + k)' = LeafOf(tables', cr3', (0 + k) \div PageSize)
        /\ Translate(0 + k) = LeafOf(tables, cr3, (0 + k) \div PageSize)
    BY Walked
  <1>6. Translate(0 + k) = Entry(Wrap(0 + k))
    BY DEF Shown
  <1> HIDE DEF v, i, p
  <1>7. k \in Nat /\ k % PageSize = 0 /\ 0 + k = k /\ k < n
    BY DEF Cells, PageOffset
  <1>8. /\ v + i \in Nat /\ (v + i) % PageSize = 0
        /\ k \div PageSize \in Nat
    BY <1>1, <1>7, SpaceIs, MultiplesAdd, Divided
  <1>9. CASE (k \div PageSize) % VPages # Page % VPages
    BY <1>2, <1>5, <1>6, <1>7, <1>8, <1>9
  <1>10. CASE (k \div PageSize) % VPages = Page % VPages
    <2>1. k % Space = (v + i) % Space
      BY <1>3, <1>7, <1>8, <1>10, SameLeaf
    <2>2. k % Space = k
      <3>1. k \in 0 .. Space - 1
        BY <1>7, SpaceIs
      <3> QED
        BY <3>1, SpaceIs, Small
    <2>3. CASE p = v /\ v + i < Word
      <3>1. (v + i) % Space = v + i
        <4>1. v + i \in 0 .. Space - 1
          BY <1>8, <2>3, SpaceIs
        <4> QED
          BY <4>1, SpaceIs, Small
      <3>2. p + i = k
        BY <2>1, <2>2, <2>3, <3>1
      <3>3. LeafOf(tables', cr3', k \div PageSize) = Entry(PhysicalAddr)
        BY <1>2, <1>8, <1>10
      <3> QED
        BY <1>3, <1>5, <1>7, <3>2, <3>3
    <2>4. CASE n <= v % Space /\ (v % Space) + i < Space
      <3> DEFINE q == v \div Space
                 r == v % Space
      <3>1. q \in Nat /\ r \in 0 .. Space - 1 /\ v = Space * q + r
        BY <1>1, SpaceIs, Divided
      <3>2. n <= r /\ r + i < Space
        BY <2>4
      <3> HIDE DEF q, r
      <3>3. v + i = Space * q + (r + i) /\ r + i \in 0 .. Space - 1
        <4>1. Space * q \in Nat
          BY <3>1, SpaceIs
        <4> QED
          BY <1>1, <3>1, <3>2, <4>1, SpaceIs
      <3>4. (v + i) % Space = r + i
        BY <3>1, <3>3, SpaceIs, DividedOnce
      <3> QED
        BY <1>1, <1>7, <2>1, <2>2, <3>1, <3>2, <3>4, SpaceIs
    <2> QED
      BY <1>4, <2>3, <2>4
  <1> QED
    BY <1>9, <1>10

\* The size of the identity mapping leaves a page, or is 0.
LEMMA IdentitySizes ==
    ASSUME NEW b \in Boots, Candidates(b) # {}
    PROVE  IdentitySize(b) \in Nat /\ IdentitySize(b) + PageSize <= Word
  <1> DEFINE map == b.mmap
             E   == [base_addr : Nat, length : Nat, available : BOOLEAN]
             u   == map[Len(map)].base_addr + map[Len(map)].length
  <1>1. map \in Seq(E) /\ DOMAIN map # {}
    BY BootTypes DEF Candidates
  <1>2. u \in Nat
    <2> HIDE DEF map, E
    <2>1. Len(map) \in DOMAIN map
      BY <1>1
    <2>2. map[Len(map)] \in E
      BY <1>1, <2>1
    <2> QED
      BY <2>2 DEF E
  <1>3. \/ IdentitySize(b) = Word - PageSize
        \/ ~ u > Word - 1 /\ IdentitySize(b) = PageAlign(u)
    <2>1. Len(map) \in DOMAIN map
      <3> HIDE DEF map, E
      <3> QED
        BY <1>1
    <2> QED
      BY <2>1 DEF IdentitySize
  <1> HIDE DEF map, u
  <1>4. /\ PageSize \in Nat \ {0} /\ Word \in Nat \ {0} /\ PageSize <= Word
        /\ Word % PageSize = 0
    BY SpaceIs
  <1>5. Word - PageSize \in Nat /\ (Word - PageSize) % PageSize = 0
    <2>1. PICK q \in Nat : Word = PageSize * q
      BY <1>4, Multiple
    <2>2. q # 0
      BY <1>4, <2>1
    <2>3. Word - PageSize = PageSize * (q - 1) + 0 /\ q - 1 \in Nat
      BY <1>4, <2>1, <2>2
    <2>4. (PageSize * (q - 1) + 0) % PageSize = 0
      <3>1. 0 \in 0 .. PageSize - 1
        BY <1>4
      <3> QED
        BY <1>4, <2>3, <3>1, DividedOnce
    <2> QED
      BY <1>4, <2>3, <2>4
  <1>6. ASSUME NEW m \in Nat, m % PageSize = 0, m < Word
        PROVE  m + PageSize <= Word
    <2>1. m < (Word - PageSize) + PageSize
      BY <1>4, <1>6
    <2>2. m <= Word - PageSize
      <3> DEFINE w == Word - PageSize
      <3>1. w \in Nat /\ w % PageSize = 0 /\ m < w + PageSize
        BY <1>5, <2>1
      <3> HIDE DEF w
      <3>2. m <= w
        BY <1>4, <1>6, <3>1, MultiplesApart
      <3> QED
        BY <3>2 DEF w
    <2> QED
      BY <1>4, <2>2
  <1>7. CASE IdentitySize(b) = Word - PageSize
    BY <1>4, <1>5, <1>7
  <1>8. CASE ~ u > Word - 1 /\ IdentitySize(b) = PageAlign(u)
    <2>1. u < Word
      BY <1>2, <1>4, <1>8
    <2>2. CASE u % PageSize = 0
      <3>1. IdentitySize(b) = u
        BY <1>8, <2>2 DEF PageAlign, PageOffset
      <3> QED
        BY <1>2, <1>6, <2>1, <2>2, <3>1
    <2>3. CASE u % PageSize # 0
      <3> DEFINE x == u - (u % PageSize) + PageSize
                 y == u - (u % PageSize)
      <3>1. /\ u % PageSize \in 0 .. PageSize - 1
            /\ y \in Nat /\ y % PageSize = 0 /\ x % PageSize = 0 /\ x = y + PageSize
        BY <1>2, <1>4, Rounded
      <3>2. IdentitySize(b) = Wrap(x)
        BY <1>8, <2>3 DEF PageAlign, PageOffset, AlignDown
      <3>3. y < Word
        BY <1>2, <1>4, <2>1, <3>1
      <3> HIDE DEF x, y
      <3>4. x <= Word /\ x \in Nat
        <4>1. y + PageSize <= Word
          BY <1>6, <3>1, <3>3
        <4> QED
          BY <1>4, <3>1, <4>1
      <3>5. CASE x = Word
        <4>1. (Word * 1 + 0) % Word = 0
          <5>1. 0 \in 0 .. Word - 1 /\ 1 \in Nat
            BY <1>4
          <5> QED
            BY <1>4, <5>1, DividedOnce
        <4>2. Word * 1 + 0 = Word
          BY <1>4
        <4>3. Wrap(x) = 0
          BY <3>5, <4>1, <4>2 DEF Wrap
        <4> QED
          BY <1>4, <3>2, <4>3
      <3>6. CASE x # Word
        <4>1. x \in 0 .. Word - 1
          BY <1>4, <3>4, <3>6
        <4>2. Wrap(x) = x
          BY <1>4, <4>1, Small DEF Wrap
        <4> QED
          BY <1>4, <1>6, <3>1, <3>2, <3>4, <4>1, <4>2
      <3> QED
        BY <3>5, <3>6
    <2> QED
      BY <2>2, <2>3
  <1> QED
    BY <1>3, <1>7, <1>8

-----------------------------------------------------------------------------
\* Nothing of the page table is there yet.
NoTables ==
    /\ DOMAIN tables = {} /\ cr3 = 0
    /\ LocalsOK /\ call.pc = "idle" /\ call.vaddr \in Nat /\ call.asked \in Nat

Unpaged == {"entry", "malloc", "check", "mb2", "stack", "jumper"}

TreeKept ==
    /\ pc \in Unpaged \union {"install"} => NoTables
    /\ pc \in Paged \/ InJumper \/ pc = "payload" => MapInv

\* The inductive invariant of a boot with its page table.
BootInv ==
    /\ LoaderInv /\ MappingInv
    /\ Regular => TreeKept

\* Before the first table the tree is empty.
LEMMA NoTree ==
    ASSUME (NoTables /\ MemoryOK)'
    PROVE  MapInv'
  <1>1. (DOMAIN tables = {} /\ cr3 = 0 /\ call.pc = "idle")'
    BY DEF NoTables
  <1>2. \E level : Tree(tables', cr3', level)
    BY <1>1, RootTree
  <1>3. PageInv'
    BY <1>1, WordAssumption DEF PageInv, NoTables, TablesOK, TablesReclaimable, Addrs
  <1> QED
    BY <1>1, <1>2, <1>3 DEF MapInv, TreeInv, WalkOK, CallOK, NoTables

\* Conditions on a boot stay what they are.
LEMMA SameConditions ==
    ASSUME UNCHANGED boot
    PROVE  /\ Regular' = Regular /\ header' = header /\ ImageSize' = ImageSize
           /\ IdentityReaches(boot)' = IdentityReaches(boot)
           /\ VaddrApart(boot)' = VaddrApart(boot)
           /\ GoodBoot(boot)' = GoodBoot(boot)
           /\ IdentitySize(boot)' = IdentitySize(boot)
BY DEF Regular, header, ImageSize

\* A loader that gives up asks for nothing any more.
LEMMA DeadKeeps ==
    ASSUME BootInv, UNCHANGED boot, pc' = "dead"
    PROVE  MappingInv' /\ (Regular => TreeKept)'
  <1>1. /\ ~ InJumper' /\ pc' \notin Working /\ pc' \notin Paged
        /\ pc' \notin Unpaged \union {"install"} /\ pc' # "payload" /\ pc' # "fault"
    BY DEF InJumper, Working, Mb2Placed, StackPlaced, Paged, Unpaged
  <1>2. TreeKept'
    BY <1>1 DEF TreeKept
  <1>3. Mappings' /\ WithinIdentity' /\ JumperReady'
    BY <1>1 DEF Mappings, WithinIdentity, JumperReady, Working, Mb2Placed, StackPlaced, Paged
  <1>4. NoFault'
    BY <1>1 DEF NoFault
  <1> QED
    BY <1>2, <1>3, <1>4 DEF MappingInv

\* The steps before setup_paging.
LEMMA EarlyKeeps ==
    ASSUME BootInv, UNCHANGED <<boot, paging>>, pc \in Unpaged, pc' \in Unpaged,
           Regular /\ IdentityReaches(boot) /\ pc' \in Working =>
               /\ alloc'.to <= IdentitySize(boot)
               /\ stack' + StackSize <= IdentitySize(boot)
    PROVE  MappingInv' /\ (Regular => TreeKept)'
  <1>1. /\ ~ InJumper' /\ pc' \notin Paged
        /\ pc' # "payload" /\ pc' # "fault" /\ pc' # "install"
    BY DEF InJumper, Paged, Unpaged
  <1>2. ASSUME Regular PROVE TreeKept'
    <2>1. NoTables
      BY <1>2 DEF BootInv, TreeKept
    <2>2. NoTables'
      BY <2>1 DEF NoTables, LocalsOK, paging
    <2> QED
      BY <1>1, <2>2 DEF TreeKept
  <1>3. ASSUME Regular PROVE Mappings' /\ WithinIdentity' /\ JumperReady'
    <2>1. Mappings' /\ JumperReady'
      BY <1>1 DEF Mappings, JumperReady, Paged
    <2>2. WithinIdentity'
      BY <1>1, <1>3, SameConditions, Constant DEF WithinIdentity
    <2> QED
      BY <2>1, <2>2
  <1>4. NoFault'
    BY <1>1 DEF NoFault
  <1> QED
    BY <1>2, <1>3, <1>4, SameConditions DEF MappingInv

LEMMA EnterLoaderKeeps ==
    ASSUME BootInv, EnterLoader
    PROVE  MappingInv' /\ (Regular => TreeKept)'
  <1>1. /\ pc = "entry" /\ pc' \in {"malloc", "dead"} /\ UNCHANGED <<boot, paging>>
    BY DEF EnterLoader, paging
  <1>2. pc' \notin Working \/ pc' = "dead"
    BY <1>1 DEF Working, Mb2Placed, StackPlaced, Paged
  <1> QED
    BY <1>1, <1>2, DeadKeeps, EarlyKeeps DEF Unpaged

\* The memory that remains ends where the entry of the memory map does.
LEMMA MemoryEnds ==
    ASSUME NEW b \in Boots, IdentityReaches(b)
    PROVE  BootAllocator(b).to <= IdentitySize(b)
  <1> DEFINE First(j) == j \in Candidates(b) /\ \A k \in Candidates(b) : j <= k
             i    == CHOOSE j \in Candidates(b) : \A k \in Candidates(b) : j <= k
             all  == AllocatorInitialize(b.mmap[i].base_addr, EntryEnd(b.mmap[i]))
             code == ReserveZone(all, TextStart, BssEnd)
             info == ReserveZone(code, b.mb2.addr, b.mb2.addr + b.mb2.size)
             load == ReserveZone(info, b.header.load_addr, b.header.bss_end_addr)
  <1>1. PICK j \in Candidates(b) : First(j) /\ EntryEnd(b.mmap[j]) <= IdentitySize(b)
    BY DEF IdentityReaches
  <1>2. First(i)
    BY <1>1
  <1>3. i = j
    <2>1. Candidates(b) \in SUBSET Nat
      BY BootTypes DEF Candidates
    <2> HIDE DEF i
    <2>2. i \in Nat /\ j \in Nat /\ i <= j /\ j <= i
      BY <1>1, <1>2, <2>1
    <2> QED
      BY <2>2
  <1>4. EntryEnd(b.mmap[i]) <= IdentitySize(b)
    BY <1>1, <1>3
  <1>5. Candidates(b) # {}
    BY <1>1
  <1> HIDE DEF i, First
  <1>6. /\ all \in Words /\ all.from = all.free /\ all.to = EntryEnd(b.mmap[i])
    <2>1. b.mmap[i].base_addr \in Nat /\ b.mmap[i].length \in Nat
      <3> DEFINE map == b.mmap
                 E   == [base_addr : Nat, length : Nat, available : BOOLEAN]
      <3>1. map \in Seq(E) /\ i \in DOMAIN map
        BY <1>1, <1>3, BootTypes DEF Candidates
      <3> HIDE DEF map, E
      <3>2. map[i] \in E
        BY <3>1
      <3> QED
        BY <3>2 DEF map, E
    <2>2. EntryEnd(b.mmap[i]) \in Nat
      BY <2>1, WordAssumption DEF EntryEnd, Wrap
    <2> QED
      BY <2>1, <2>2 DEF AllocatorInitialize, Words
  <1> HIDE DEF all
  <1>7. code \in Words /\ code.from = code.free /\ code.to <= all.to
    BY <1>6, ReserveClear, Constant
  <1> HIDE DEF code
  <1>8. /\ b.mb2.addr \in Nat /\ b.mb2.addr + b.mb2.size \in Nat
        /\ b.mb2.addr < b.mb2.addr + b.mb2.size
        /\ b.header.load_addr \in Nat /\ b.header.bss_end_addr \in Nat
        /\ b.header.load_addr < b.header.bss_end_addr
    BY BootTypes DEF LaidOut
  <1>9. info \in Words /\ info.from = info.free /\ info.to <= code.to
    BY <1>7, <1>8, ReserveClear
  <1> HIDE DEF info
  <1>10. load \in Words /\ load.to <= info.to
    BY <1>8, <1>9, ReserveClear
  <1>11. BootAllocator(b) = load
    BY DEF BootAllocator, load, info, code, all, i
  <1> HIDE DEF load
  <1>12. IdentitySize(b) \in Nat
    BY <1>5, IdentitySizes
  <1> QED
    BY <1>4, <1>6, <1>7, <1>9, <1>10, <1>11, <1>12 DEF Words

LEMMA MallocKeeps ==
    ASSUME BootInv, MallocInitialize
    PROVE  MappingInv' /\ (Regular => TreeKept)'
  <1>1. /\ pc = "malloc" /\ UNCHANGED <<boot, stack, paging>> /\ Places
        /\ \/ pc' = "dead"
           \/ pc' = "check" /\ alloc' = BootAllocator(boot)
    BY DEF MallocInitialize, paging, BootInv, LoaderInv
  <1>2. CASE pc' = "check" /\ alloc' = BootAllocator(boot)
    <2>1. ASSUME Regular, IdentityReaches(boot)
          PROVE  alloc'.to <= IdentitySize(boot) /\ stack' + StackSize <= IdentitySize(boot)
      <3>1. stack = header.stack_addr - StackSize /\ boot \in Boots
        BY <1>1 DEF Places
      <3>2. header.stack_addr <= IdentitySize(boot)
        BY <2>1 DEF IdentityReaches, header
      <3>3. stack' + StackSize = header.stack_addr
        BY <1>1, <3>1, Layout, Constant
      <3> QED
        BY <1>2, <2>1, <3>1, <3>2, <3>3, MemoryEnds
    <2> QED
      BY <1>1, <1>2, <2>1, EarlyKeeps DEF Unpaged
  <1> QED
    BY <1>1, <1>2, DeadKeeps

LEMMA CheckKeeps ==
    ASSUME BootInv, CheckLongmode
    PROVE  MappingInv' /\ (Regular => TreeKept)'
  <1>1. /\ pc = "check" /\ pc' \in {"mb2", "dead"}
        /\ UNCHANGED <<boot, alloc, stack, paging>>
    BY DEF CheckLongmode, paging
  <1>2. Regular /\ IdentityReaches(boot) =>
            /\ alloc.to <= IdentitySize(boot)
            /\ stack + StackSize <= IdentitySize(boot)
    BY <1>1 DEF BootInv, MappingInv, WithinIdentity, Working
  <1> QED
    BY <1>1, <1>2, DeadKeeps, EarlyKeeps DEF Unpaged

\* A block that is given for a relocation lies inside of the identity mapping
\* when the free memory does.
LEMMA BlockWithin ==
    ASSUME BootInv, Regular, pc \in Working,
           NEW size \in {boot.mb2.size, StackSize, JumperSize},
           NEW r, r = Relocation(size), r.addr # 0
    PROVE  /\ r.addr \in Nat /\ size \in Nat \ {0} /\ alloc \in Words
           /\ r.self = [alloc EXCEPT !.to = r.addr]
           /\ alloc.from <= alloc.free /\ alloc.free <= r.addr
           /\ r.addr + size <= alloc.to /\ alloc.to + 2 * PageSize < Word
  <1>1. Room /\ Places
    BY DEF BootInv, LoaderInv, AtWork, Intact
  <1>2. size \in Nat \ {0}
    BY <1>1, Constant, Layout
  <1>3. /\ r.addr \in Nat /\ alloc.free <= r.addr /\ r.addr + size <= alloc.to
        /\ r.self = [alloc EXCEPT !.to = r.addr]
    <2>1. \/ r.addr = 0 /\ r.self = alloc
          \/ /\ r.addr \in Nat /\ alloc.free <= r.addr
             /\ r.addr + size <= alloc.to
             /\ r.self = [alloc EXCEPT !.to = r.addr]
      BY <1>1, <1>2, RelocationBlock
    <2> QED
      BY <2>1
  <1> QED
    BY <1>1, <1>2, <1>3 DEF Room, Words

\* Where the free memory and the stack end, while the loader works.
LEMMA Ended ==
    ASSUME BootInv, Regular, IdentityReaches(boot), pc \in Working
    PROVE  /\ alloc \in Words /\ stack \in Nat /\ IdentitySize(boot) \in Nat
           /\ alloc.to <= IdentitySize(boot)
           /\ stack + StackSize <= IdentitySize(boot)
           /\ boot \in Boots
  <1>1. boot \in Boots /\ Candidates(boot) # {}
    BY DEF BootInv, LoaderInv, Places, Regular
  <1>2. alloc \in Words /\ stack \in Nat
    BY DEF BootInv, LoaderInv, AtWork, Intact, Room, InRam, Words
  <1>3. alloc.to <= IdentitySize(boot) /\ stack + StackSize <= IdentitySize(boot)
    BY DEF BootInv, MappingInv, WithinIdentity
  <1> QED
    BY <1>1, <1>2, <1>3, IdentitySizes

LEMMA Mb2Keeps ==
    ASSUME BootInv, RelocateMultiboot2
    PROVE  MappingInv' /\ (Regular => TreeKept)'
  <1> DEFINE r == Relocation(boot.mb2.size)
  <1>1. /\ pc = "mb2" /\ UNCHANGED <<boot, stack, paging>>
        /\ \/ pc' = "dead"
           \/ pc' = "stack" /\ alloc' = alloc
           \/ pc' = "stack" /\ alloc' = r.self /\ r.addr # 0
    BY DEF RelocateMultiboot2, paging
  <1> HIDE DEF r
  <1>2. pc \in Working /\ pc \in Unpaged /\ "stack" \in Unpaged
    BY <1>1 DEF Working, Unpaged
  <1>3. CASE pc' = "dead"
    BY <1>1, <1>3, DeadKeeps
  <1>4. CASE pc' = "stack"
    <2>1. ASSUME Regular, IdentityReaches(boot)
          PROVE  alloc'.to <= IdentitySize(boot) /\ stack' + StackSize <= IdentitySize(boot)
      <3>1. CASE alloc' = alloc
        BY <1>1, <1>2, <2>1, <3>1, Ended
      <3>2. CASE alloc' = r.self /\ r.addr # 0
        <4>1. /\ r.addr \in Nat /\ boot.mb2.size \in Nat
              /\ r.self = [alloc EXCEPT !.to = r.addr]
              /\ r.addr + boot.mb2.size <= alloc.to
          BY <1>2, <2>1, <3>2, BlockWithin DEF r
        <4>2. alloc'.to = r.addr /\ alloc.to \in Nat
          BY <1>2, <2>1, <3>2, <4>1, Ended DEF Words
        <4> QED
          BY <1>1, <1>2, <2>1, <4>1, <4>2, Ended
      <3> QED
        BY <1>1, <1>4, <3>1, <3>2
    <2> QED
      BY <1>1, <1>2, <1>4, <2>1, EarlyKeeps
  <1> QED
    BY <1>1, <1>3, <1>4

LEMMA StackKeeps ==
    ASSUME BootInv, RelocateStack
    PROVE  MappingInv' /\ (Regular => TreeKept)'
  <1> DEFINE r == Relocation(StackSize)
  <1>1. /\ pc = "stack" /\ UNCHANGED <<boot, paging>>
        /\ \/ pc' = "dead"
           \/ pc' = "jumper" /\ alloc' = alloc /\ stack' = stack
           \/ pc' = "jumper" /\ alloc' = r.self /\ r.addr # 0 /\ stack' = r.addr
    BY DEF RelocateStack, paging
  <1> HIDE DEF r
  <1>2. pc \in Working /\ pc \in Unpaged /\ "jumper" \in Unpaged
    BY <1>1 DEF Working, Mb2Placed, Unpaged
  <1>3. CASE pc' = "dead"
    BY <1>1, <1>3, DeadKeeps
  <1>4. CASE pc' = "jumper"
    <2>1. ASSUME Regular, IdentityReaches(boot)
          PROVE  alloc'.to <= IdentitySize(boot) /\ stack' + StackSize <= IdentitySize(boot)
      <3>1. CASE alloc' = alloc /\ stack' = stack
        BY <1>1, <1>2, <2>1, <3>1, Ended
      <3>2. CASE alloc' = r.self /\ r.addr # 0 /\ stack' = r.addr
        <4>1. /\ r.addr \in Nat /\ StackSize \in Nat
              /\ r.self = [alloc EXCEPT !.to = r.addr]
              /\ r.addr + StackSize <= alloc.to
          BY <1>2, <2>1, <3>2, BlockWithin DEF r
        <4>2. alloc'.to = r.addr /\ alloc.to \in Nat
          BY <1>2, <2>1, <3>2, <4>1, Ended DEF Words
        <4> QED
          BY <1>1, <1>2, <2>1, <3>2, <4>1, <4>2, Ended
      <3> QED
        BY <1>1, <1>4, <3>1, <3>2
    <2> QED
      BY <1>1, <1>2, <1>4, <2>1, EarlyKeeps
  <1> QED
    BY <1>1, <1>3, <1>4

LEMMA SetupJumperKeeps ==
    ASSUME BootInv, SetupJumper
    PROVE  MappingInv' /\ (Regular => TreeKept)'
  <1> DEFINE r == Relocation(JumperSize)
  <1>1. /\ pc = "jumper" /\ UNCHANGED <<boot, stack, paging>>
        /\ alloc' = r.self /\ this' = [this EXCEPT !.jumper_addr = r.addr]
        /\ \/ pc' = "dead"
           \/ pc' = "install" /\ r.addr # 0
    BY DEF SetupJumper, paging
  <1> HIDE DEF r
  <1>2. pc \in Working /\ pc \in Unpaged
    BY <1>1 DEF Working, Mb2Placed, StackPlaced, Unpaged
  <1>3. this'.jumper_addr = r.addr
    BY <1>1 DEF BootInv, LoaderInv, Places
  <1>4. CASE pc' = "dead"
    BY <1>1, <1>4, DeadKeeps
  <1>5. CASE pc' = "install" /\ r.addr # 0
    <2>1. /\ ~ InJumper' /\ pc' \in Working /\ pc' \in Paged
          /\ pc' \notin {"payload", "jump", "fault"}
      BY <1>5 DEF InJumper, Working, Mb2Placed, StackPlaced, Paged
    <2>2. ASSUME Regular
          PROVE  /\ r.addr \in Nat /\ JumperSize \in Nat \ {0} /\ alloc \in Words
                 /\ r.self = [alloc EXCEPT !.to = r.addr]
                 /\ alloc.from <= alloc.free /\ alloc.free <= r.addr
                 /\ r.addr + JumperSize <= alloc.to /\ alloc.to + 2 * PageSize < Word
      BY <1>2, <1>5, <2>2, BlockWithin DEF r
    <2>3. Mappings' /\ JumperReady'
      BY <1>5, <2>1 DEF Mappings, JumperReady
    <2>4. ASSUME Regular PROVE WithinIdentity'
      <3>1. ASSUME IdentityReaches(boot)
            PROVE  /\ alloc'.to <= IdentitySize(boot)
                   /\ stack' + StackSize <= IdentitySize(boot)
                   /\ this'.jumper_addr + JumperSize <= IdentitySize(boot)
        <4>1. /\ alloc.to <= IdentitySize(boot) /\ IdentitySize(boot) \in Nat
              /\ stack + StackSize <= IdentitySize(boot) /\ alloc.to \in Nat
          BY <1>2, <2>4, <3>1, Ended DEF Words
        <4>2. alloc'.to = r.addr
          BY <1>1, <2>2, <2>4 DEF Words
        <4> QED
          BY <1>1, <1>3, <2>2, <2>4, <4>1, <4>2
      <3> QED
        BY <1>1, <3>1, SameConditions, Constant DEF WithinIdentity
    <2>5. ASSUME Regular PROVE TreeKept'
      <3>1. NoTables'
        <4>1. NoTables
          BY <1>2, <2>5 DEF BootInv, TreeKept
        <4> QED
          BY <1>1, <4>1 DEF NoTables, LocalsOK, paging
      <3>2. MemoryOK'
        <4>1. alloc' = [from |-> alloc.from, free |-> alloc.free, to |-> r.addr]
          BY <1>1, <2>2, <2>5 DEF Words
        <4>2. r.addr + 2 * PageSize <= Word
          <5>1. alloc.to \in Nat
            BY <2>2, <2>5 DEF Words
          <5> QED
            BY <2>2, <2>5, <5>1, Constant
        <4> QED
          BY <2>2, <2>5, <4>1, <4>2 DEF MemoryOK, Words
      <3> QED
        BY <1>5, <3>1, <3>2, NoTree DEF TreeKept
    <2> QED
      BY <1>1, <2>1, <2>3, <2>4, <2>5, SameConditions DEF MappingInv, NoFault
  <1> QED
    BY <1>1, <1>4, <1>5

\* A call ends behind all that was asked for, and never begins a page behind it.
LEMMA Rounding ==
    ASSUME MapInv, call.pc # "idle"
    PROVE  /\ call.asked \in Nat /\ call.i \in Nat /\ call.size \in Nat
           /\ call.asked <= call.size
           /\ call.i < call.size => call.i < call.asked
  <1> DEFINE a == call.asked
             i == call.i
             s == call.size
             q == (a + PageSize - 1) \div PageSize
             r == (a + PageSize - 1) % PageSize
  <1>1. /\ a \in Nat /\ i \in Nat /\ i % PageSize = 0 /\ s = q * PageSize
        /\ PageSize \in Nat \ {0}
    BY SpaceIs DEF MapInv, CallOK, PageInv, LocalsOK, Pages
  <1>2. /\ q \in Nat /\ r \in 0 .. PageSize - 1
        /\ a + PageSize - 1 = PageSize * q + r
    <2>1. a + PageSize - 1 \in Nat
      BY <1>1
    <2> QED
      BY <1>1, <2>1, Divided
  <1> HIDE DEF a, i, s, q, r
  <1>3. s \in Nat /\ s % PageSize = 0 /\ s = PageSize * q
    <2>1. (q * PageSize) % PageSize = 0
      BY <1>2, PageNumbers
    <2>2. q * PageSize \in Nat /\ q * PageSize = PageSize * q
      BY <1>1, <1>2
    <2> QED
      BY <1>1, <2>1, <2>2
  <1>4. a <= s /\ s < a + PageSize
    BY <1>1, <1>2, <1>3
  <1>5. i < s => i < a
    <2> SUFFICES ASSUME i >= a PROVE s <= i
      BY <1>1, <1>3
    <2>1. s < i + PageSize
      BY <1>1, <1>3, <1>4
    <2> QED
      BY <1>1, <1>3, <2>1, MultiplesApart
  <1> QED
    BY <1>1, <1>3, <1>4, <1>5 DEF a, i, s

\* The permanent memory of a table comes from below.
LEMMA SameEnd ==
    ASSUME MemoryOK, alloc' = AllocatePermanent(alloc, PageSize, PageSize).self
    PROVE  alloc'.to = alloc.to
  <1> DEFINE p == AllocatePermanent(alloc, PageSize, PageSize)
  <1>1. \/ p.self = alloc
        \/ p.self.to = alloc.to
    BY PermanentPage
  <1> QED
    BY <1>1

\* pagetable_map at work: it gives up, or it is done, or it is a page or a
\* table further.
LEMMA RunStep ==
    ASSUME MapInv, MapStep, NEW v, NEW p, NEW n, Running(v, p, n)
    PROVE  /\ MapInv' /\ alloc'.to = alloc.to
           /\ cr3' # 0 /\ v % PageSize = 0 /\ p % PageSize = 0
           /\ \/ call'.pc = "idle" /\ ~ call'.ret
              \/ call'.pc = "idle" /\ Shown(v, p, n)'
              \/ call'.pc # "idle" /\ Running(v, p, n)'
  <1>1. /\ PageInv /\ MemoryOK /\ DOMAIN call = Locals /\ PageInv'
        /\ call.vaddr = v /\ call.paddr = p /\ call.asked = n /\ call.pc # "idle"
        /\ v \in Nat /\ Shown(v, p, call.i)
        /\ cr3 # 0 /\ v % PageSize = 0 /\ p % PageSize = 0
    BY MapStepKeeps DEF MapInv, PageInv, LocalsOK, CallOK, Running
  <1>2. cr3' = cr3
    BY DEF MapStep, NextPage, WalkPresent, WalkAbsent, WriteLeaf
  <1>3. alloc'.to = alloc.to
    BY <1>1, SameEnd DEF MapStep, NextPage, WalkPresent, WalkAbsent, WriteLeaf
  <1>4. ASSUME SameMap, NEW m, Shown(v, p, m) PROVE Shown(v, p, m)'
    <2>1. \A k \in Cells(0, m) : PageOffset(k) = 0 => Translate(v + k)' = Entry(Wrap(p + k))
      BY <1>1, <1>4, ShownStill
    <2> QED
      BY <2>1 DEF Shown
  <1>5. ASSUME SameMap, call' = [call EXCEPT !.pc = "walk", !.lvl = PageLevel, !.pgd = cr3]
                        \/ \E down : Descend(down)
        PROVE  call'.pc # "idle" /\ Running(v, p, n)'
    <2>1. /\ call'.vaddr = v /\ call'.paddr = p /\ call'.asked = n
          /\ call'.i = call.i /\ call'.pc # "idle"
      BY <1>1, <1>5 DEF Locals, Descend
    <2>2. PICK m : m = call.i
      OBVIOUS
    <2>3. Shown(v, p, m)'
      BY <1>1, <1>4, <1>5, <2>2
    <2> QED
      BY <2>1, <2>2, <2>3 DEF Running, Shown
  <1>6. CASE NextPage
    <2>1. /\ TreeInv' /\ CallOK' /\ SameMap
          /\ \/ call' = Idle(TRUE) /\ call.i = call.size
             \/ call' = [call EXCEPT !.pc = "walk", !.lvl = PageLevel, !.pgd = cr3]
      BY <1>6, NextPageTree
    <2>2. CASE call' = Idle(TRUE) /\ call.i = call.size
      <3>1. PICK m : m = call.i
        OBVIOUS
      <3>2. m \in Nat /\ n \in Nat /\ n <= m
        BY <1>1, <2>2, <3>1, Rounding
      <3>3. Shown(v, p, m)'
        BY <1>1, <1>4, <2>1, <3>1
      <3>4. Cells(0, n) \subseteq Cells(0, m)
        BY <3>2 DEF Cells
      <3>5. Shown(v, p, n)'
        BY <3>3, <3>4 DEF Shown
      <3>6. call'.pc = "idle"
        BY <1>1, <2>2 DEF Idle, Locals
      <3> QED
        BY <1>1, <1>2, <1>3, <2>1, <3>5, <3>6 DEF MapInv
    <2> QED
      BY <1>1, <1>2, <1>3, <1>5, <2>1, <2>2 DEF MapInv
  <1>7. CASE WalkPresent
    <2>1. TreeInv' /\ CallOK' /\ SameMap
      BY <1>7, WalkPresentTree
    <2>2. \E down : Descend(down)
      BY <1>7 DEF WalkPresent
    <2> QED
      BY <1>1, <1>2, <1>3, <1>5, <2>1, <2>2 DEF MapInv
  <1>8. CASE WalkAbsent
    <2>1. /\ TreeInv' /\ CallOK' /\ SameMap
          /\ \/ call' = Idle(FALSE)
             \/ \E down : Descend(down)
      BY <1>8, WalkAbsentTree
    <2>2. CASE call' = Idle(FALSE)
      <3>1. call'.pc = "idle" /\ ~ call'.ret
        BY <1>1, <2>2 DEF Idle, Locals
      <3> QED
        BY <1>1, <1>2, <1>3, <2>1, <3>1 DEF MapInv
    <2> QED
      BY <1>1, <1>2, <1>3, <1>5, <2>1, <2>2 DEF MapInv
  <1>9. CASE WriteLeaf
    <2>1. TreeInv' /\ CallOK' /\ call'.i = call.i + PageSize
      BY <1>9, WriteLeafTree
    <2>2. PICK i : i = call.i
      OBVIOUS
    <2>3. \A k \in Cells(0, i + PageSize) :
             PageOffset(k) = 0 => Translate(v + k)' = Entry(Wrap(p + k))
      BY <1>1, <1>9, <2>2, ShownMore
    <2>4. /\ call'.vaddr = v /\ call'.paddr = p /\ call'.asked = n /\ call'.pc # "idle"
      BY <1>1, <1>9 DEF WriteLeaf, Locals
    <2>5. Running(v, p, n)'
      BY <2>1, <2>2, <2>3, <2>4 DEF Running, Shown
    <2> QED
      BY <1>1, <1>2, <1>3, <2>1, <2>4, <2>5 DEF MapInv
  <1> QED
    BY <1>6, <1>7, <1>8, <1>9 DEF MapStep

\* The identity mapping survives the mapping of a payload that is apart from it.
LEMMA RunApart ==
    ASSUME MapInv, MapStep, NEW v, NEW p, NEW size, Running(v, p, size),
           NEW n \in Nat, n <= Space, Shown(0, 0, n),
           \/ p = v /\ v + size < Word
           \/ n <= v % Space /\ (v % Space) + size <= Space
    PROVE  Shown(0, 0, n)'
  <1>1. ASSUME SameMap PROVE Shown(0, 0, n)'
    <2>1. \A k \in Cells(0, n) : PageOffset(k) = 0 => Translate(0 + k)' = Entry(Wrap(0 + k))
      BY <1>1, ShownStill
    <2> QED
      BY <2>1 DEF Shown
  <1>2. CASE WriteLeaf
    <2>1. /\ call.vaddr = v /\ call.paddr = p /\ call.asked = size /\ call.pc # "idle"
          /\ v \in Nat
      BY DEF Running, MapInv, CallOK
    <2>2. size \in Nat /\ call.i \in Nat /\ call.i < size
      BY <1>2, <2>1, Rounding, WriteLeafTree
    <2>3. v % Space \in Nat /\ Space \in Nat /\ Word \in Nat
      BY <2>1, SpaceIs, Rounded
    <2>4. \/ call.paddr = call.vaddr /\ call.vaddr + call.i < Word
          \/ n <= call.vaddr % Space /\ (call.vaddr % Space) + call.i < Space
      <3>1. CASE p = v /\ v + size < Word
        BY <2>1, <2>2, <2>3, <3>1
      <3>2. CASE n <= v % Space /\ (v % Space) + size <= Space
        BY <2>1, <2>2, <2>3, <3>2
      <3> QED
        BY <3>1, <3>2
    <2>5. \A k \in Cells(0, n) : PageOffset(k) = 0 => Translate(0 + k)' = Entry(Wrap(0 + k))
      BY <1>2, <2>4, ShownApart
    <2> QED
      BY <2>5 DEF Shown
  <1> QED
    BY <1>1, <1>2, NextPageTree, WalkPresentTree, WalkAbsentTree DEF MapStep

-----------------------------------------------------------------------------
\* A step of setup_paging that goes on.
LEMMA PagedKeeps ==
    ASSUME BootInv, pc \in Paged, pc' \in Paged, pc' # "install", PagingOnly,
           Regular => MapInv' /\ Mappings' /\ alloc'.to = alloc.to
    PROVE  MappingInv' /\ (Regular => TreeKept)'
  <1>1. /\ ~ InJumper' /\ pc' \in Working /\ pc' \notin {"payload", "fault"}
        /\ pc' \notin Unpaged \union {"install"} /\ pc \in Working
        /\ UNCHANGED <<boot, stack, this>>
    BY DEF InJumper, Working, Mb2Placed, StackPlaced, Paged, Unpaged, PagingOnly
  <1>2. ASSUME Regular PROVE TreeKept'
    BY <1>1, <1>2 DEF TreeKept
  <1>3. ASSUME Regular PROVE WithinIdentity'
    <2>1. IdentityReaches(boot) =>
             /\ alloc'.to <= IdentitySize(boot)
             /\ stack' + StackSize <= IdentitySize(boot)
             /\ this'.jumper_addr + JumperSize <= IdentitySize(boot)
      BY <1>1, <1>3 DEF BootInv, MappingInv, WithinIdentity
    <2> QED
      BY <1>1, <2>1, SameConditions, Constant DEF WithinIdentity
  <1>4. JumperReady' /\ NoFault'
    BY <1>1 DEF JumperReady, NoFault
  <1> QED
    BY <1>1, <1>2, <1>3, <1>4, SameConditions DEF MappingInv

LEMMA InstallKeeps ==
    ASSUME BootInv, InstallTable
    PROVE  MappingInv' /\ (Regular => TreeKept)'
  <1>1. /\ pc = "install" /\ PagetableInstall /\ PagingOnly
        /\ pc' \in {"dead", "identity"} /\ UNCHANGED boot
        /\ alloc' = AllocatePermanent(alloc, PageSize, PageSize).self
        /\ call.pc = "idle"
    BY DEF InstallTable, PagetableInstall, PagingOnly
  <1>2. CASE pc' = "identity"
    <2>1. ASSUME Regular PROVE MapInv' /\ Mappings' /\ alloc'.to = alloc.to
      <3>1. MapInv /\ MemoryOK /\ PageInv
        BY <1>1, <2>1 DEF BootInv, TreeKept, MapInv, PageInv, Paged
      <3>2. MapInv' /\ call' = call
        BY <1>1, <3>1, InstallStep, InstallTree DEF MapInv
      <3>3. ~ InJumper'
        BY <1>2 DEF InJumper
      <3>4. Mappings'
        BY <1>1, <1>2, <3>2, <3>3 DEF Mappings
      <3> QED
        BY <1>1, <3>1, <3>2, <3>4, SameEnd
    <2> QED
      BY <1>1, <1>2, <2>1, PagedKeeps DEF Paged
  <1> QED
    BY <1>1, <1>2, DeadKeeps

\* What the sizes of a boot say of the calls of setup_paging.
LEMMA CallSizes ==
    ASSUME Places, Regular
    PROVE  /\ IdentitySize(boot) \in Nat /\ IdentitySize(boot) + PageSize <= Word
           /\ IdentitySize(boot) <= Space
           /\ ImageSize \in Nat \ {0} /\ ImageSize + PageSize <= Word
           /\ header.payload_vaddr \in Nat /\ header.load_addr \in Nat
           /\ header.load_addr + ImageSize < Word
           /\ UNCHANGED boot =>
                 /\ Regular' = Regular /\ IdentitySize(boot)' = IdentitySize(boot)
                 /\ ImageSize' = ImageSize
                 /\ header'.payload_vaddr = header.payload_vaddr
                 /\ header'.load_addr = header.load_addr
                 /\ VaddrApart(boot)' = VaddrApart(boot)
  <1>1. boot \in Boots /\ Candidates(boot) # {}
    BY DEF Places, Regular
  <1>2. IdentitySize(boot) \in Nat /\ IdentitySize(boot) + PageSize <= Word
    BY <1>1, IdentitySizes
  <1>3. /\ header.payload_vaddr \in Nat /\ header.load_addr \in Nat
        /\ header.bss_end_addr \in Nat /\ header.load_addr < header.bss_end_addr
        /\ header.bss_end_addr < Word
        /\ header.bss_end_addr - header.load_addr + PageSize <= Word
    BY <1>1, BootTypes DEF header, LaidOut
  <1>4. /\ ImageSize \in Nat \ {0} /\ ImageSize + PageSize <= Word
        /\ header.load_addr + ImageSize < Word
    BY <1>3, SpaceIs DEF ImageSize
  <1>5. IdentitySize(boot) <= Space
    BY <1>2, SpaceIs
  <1> QED
    BY <1>2, <1>3, <1>4, <1>5, SameConditions

LEMMA MapIdentityKeeps ==
    ASSUME BootInv, MapIdentity
    PROVE  MappingInv' /\ (Regular => TreeKept)'
  <1>1. /\ pc = "identity" /\ PagetableMap(0, 0, IdentitySize(boot)) /\ PagingOnly
        /\ pc' = IF call'.pc = "idle" THEN "dead" ELSE "identity run"
        /\ UNCHANGED boot /\ Places
    BY DEF MapIdentity, PagingOnly, BootInv, LoaderInv
  <1>2. CASE pc' = "identity run"
    <2>1. ASSUME Regular PROVE MapInv' /\ Mappings' /\ alloc'.to = alloc.to
      <3>1. MapInv /\ PageInv
        BY <1>1, <2>1 DEF BootInv, TreeKept, MapInv, Paged
      <3>2. PICK size \in Nat : size = IdentitySize(boot) /\ size + PageSize <= Word
        BY <1>1, <2>1, CallSizes
      <3>3. PagetableMap(0, 0, size) /\ IdentitySize(boot)' = size
        BY <1>1, <2>1, <3>2, CallSizes
      <3>4. MapInv'
        <4>1. 0 \in Nat
          OBVIOUS
        <4> QED
          BY <3>1, <3>2, <3>3, <4>1, CallStep, CallTree DEF MapInv
      <3>5. alloc' = alloc /\ call'.pc # "idle"
        BY <1>1, <1>2, <3>3 DEF PagetableMap
      <3>6. /\ call'.vaddr = 0 /\ call'.paddr = 0 /\ call'.asked = size /\ call'.i = 0
        <4>1. DOMAIN call = Locals
          BY <3>1 DEF PageInv, LocalsOK
        <4>2. Idle(FALSE).pc = "idle"
          BY <4>1 DEF Idle, Locals
        <4>3. call' = [call EXCEPT !.pc = "loop", !.vaddr = 0,
                                 !.paddr = 0, !.asked = size,
                                 !.size = PageAlign(size), !.i = 0]
          BY <3>3, <3>5, <4>2 DEF PagetableMap
        <4> QED
          BY <4>1, <4>3 DEF Locals
      <3>7. Cells(0, 0) = {}
        BY DEF Cells
      <3>8. Running(0, 0, IdentitySize(boot))'
        BY <3>3, <3>5, <3>6, <3>7 DEF Running, Shown
      <3>9. ~ InJumper'
        BY <1>2 DEF InJumper
      <3> QED
        BY <1>2, <3>4, <3>5, <3>8, <3>9 DEF Mappings
    <2> QED
      BY <1>1, <1>2, <2>1, PagedKeeps DEF Paged
  <1> QED
    BY <1>1, <1>2, DeadKeeps

\* What is shown stays so when nothing but locals change.
LEMMA ShownUntouched ==
    ASSUME UNCHANGED <<tables, cr3>>, NEW v, NEW p, NEW n, Shown(v, p, n)
    PROVE  Shown(v, p, n)'
  <1>1. \A addr : Translate(addr)' = Translate(addr)
    BY Walked
  <1> QED
    BY <1>1 DEF Shown

LEMMA MapPayloadKeeps ==
    ASSUME BootInv, MapPayload
    PROVE  MappingInv' /\ (Regular => TreeKept)'
  <1>1. /\ pc = "payload map" /\ PagingOnly
        /\ PagetableMap(header.payload_vaddr, header.load_addr, ImageSize)
        /\ pc' = IF call'.pc = "idle" THEN "dead" ELSE "payload run"
        /\ UNCHANGED boot /\ Places
    BY DEF MapPayload, PagingOnly, BootInv, LoaderInv, ImageSize
  <1>2. CASE pc' = "payload run"
    <2>1. ASSUME Regular PROVE MapInv' /\ Mappings' /\ alloc'.to = alloc.to
      <3>1. MapInv /\ PageInv /\ IdentityShown
        BY <1>1, <2>1 DEF BootInv, TreeKept, MapInv, Paged, MappingInv, Mappings
      <3>2. PICK size \in Nat, v \in Nat, p \in Nat :
                /\ size = ImageSize /\ size + PageSize <= Word
                /\ v = header.payload_vaddr /\ p = header.load_addr
        BY <1>1, <2>1, CallSizes
      <3>3. /\ PagetableMap(v, p, size)
            /\ ImageSize' = size /\ header'.payload_vaddr = v /\ header'.load_addr = p
        BY <1>1, <2>1, <3>2, CallSizes
      <3>4. MapInv'
        BY <3>1, <3>2, <3>3, CallStep, CallTree DEF MapInv
      <3>5. UNCHANGED <<alloc, tables, cr3>> /\ call'.pc # "idle"
        BY <1>1, <1>2, <3>3 DEF PagetableMap
      <3>6. /\ call'.vaddr = v /\ call'.paddr = p /\ call'.asked = size /\ call'.i = 0
        <4>1. DOMAIN call = Locals
          BY <3>1 DEF PageInv, LocalsOK
        <4>2. Idle(FALSE).pc = "idle"
          BY <4>1 DEF Idle, Locals
        <4>3. call' = [call EXCEPT !.pc = "loop", !.vaddr = v,
                                 !.paddr = p, !.asked = size,
                                 !.size = PageAlign(size), !.i = 0]
          BY <3>3, <3>5, <4>2 DEF PagetableMap
        <4> QED
          BY <4>1, <4>3 DEF Locals
      <3>7. Cells(0, 0) = {}
        BY DEF Cells
      <3>8. Running(header.payload_vaddr, header.load_addr, ImageSize)'
        BY <3>3, <3>5, <3>6, <3>7 DEF Running, Shown
      <3>9. IdentityShown'
        <4>1. PICK n : n = IdentitySize(boot)
          OBVIOUS
        <4>2. n = IdentitySize(boot)'
          BY <1>1, <2>1, <4>1, CallSizes
        <4>3. Shown(0, 0, n)'
          BY <3>1, <3>5, <4>1, ShownUntouched DEF IdentityShown
        <4> QED
          BY <4>2, <4>3 DEF IdentityShown, Shown
      <3>10. ~ InJumper'
        BY <1>2 DEF InJumper
      <3> QED
        BY <1>2, <3>4, <3>5, <3>8, <3>9, <3>10 DEF Mappings
    <2> QED
      BY <1>1, <1>2, <2>1, PagedKeeps DEF Paged
  <1> QED
    BY <1>1, <1>2, DeadKeeps

LEMMA RunIdentityKeeps ==
    ASSUME BootInv, RunMapping("identity run", "payload map")
    PROVE  MappingInv' /\ (Regular => TreeKept)'
  <1>1. /\ pc = "identity run" /\ MapStep /\ PagingOnly
        /\ pc' = IF call'.pc # "idle" THEN "identity run"
                 ELSE IF call'.ret THEN "payload map" ELSE "dead"
        /\ UNCHANGED boot /\ Places
    BY DEF RunMapping, PagingOnly, BootInv, LoaderInv
  <1>2. CASE pc' # "dead"
    <2>1. pc' \in {"identity run", "payload map"}
      BY <1>1, <1>2
    <2>2. ASSUME Regular PROVE MapInv' /\ Mappings' /\ alloc'.to = alloc.to
      <3>1. PICK n : n = IdentitySize(boot)
        OBVIOUS
      <3>2. n = IdentitySize(boot)'
        BY <1>1, <2>2, <3>1, CallSizes
      <3>3. MapInv /\ Running(0, 0, n)
        BY <1>1, <2>2, <3>1 DEF BootInv, TreeKept, Paged, MappingInv, Mappings
      <3>4. /\ MapInv' /\ alloc'.to = alloc.to
            /\ \/ call'.pc = "idle" /\ ~ call'.ret
               \/ call'.pc = "idle" /\ Shown(0, 0, n)'
               \/ call'.pc # "idle" /\ Running(0, 0, n)'
        BY <1>1, <3>3, RunStep
      <3>5. ~ InJumper'
        BY <2>1 DEF InJumper
      <3>6. CASE call'.pc = "idle" /\ Shown(0, 0, n)'
        <4>1. IdentityShown' /\ pc' \in {"payload map", "dead"}
          BY <1>1, <3>2, <3>6 DEF IdentityShown, Shown
        <4> QED
          BY <1>2, <3>4, <3>5, <3>6, <4>1 DEF Mappings
      <3>7. CASE call'.pc # "idle" /\ Running(0, 0, n)'
        <4>1. Running(0, 0, IdentitySize(boot))' /\ pc' = "identity run"
          BY <1>1, <3>2, <3>7 DEF Running
        <4> QED
          BY <3>4, <3>5, <4>1 DEF Mappings
      <3> QED
        BY <1>1, <1>2, <3>4, <3>6, <3>7
    <2> QED
      BY <1>1, <2>1, <2>2, PagedKeeps DEF Paged
  <1> QED
    BY <1>1, <1>2, DeadKeeps

LEMMA RunPayloadKeeps ==
    ASSUME BootInv, RunMapping("payload run", "jump")
    PROVE  MappingInv' /\ (Regular => TreeKept)'
  <1>1. /\ pc = "payload run" /\ MapStep /\ PagingOnly
        /\ pc' = IF call'.pc # "idle" THEN "payload run"
                 ELSE IF call'.ret THEN "jump" ELSE "dead"
        /\ UNCHANGED boot /\ Places
    BY DEF RunMapping, PagingOnly, BootInv, LoaderInv
  <1>2. CASE pc' # "dead"
    <2>1. pc' \in {"payload run", "jump"}
      BY <1>1, <1>2
    <2>2. ASSUME Regular PROVE MapInv' /\ Mappings' /\ alloc'.to = alloc.to
      <3>1. PICK n, size, v, p :
               /\ n = IdentitySize(boot) /\ size = ImageSize
               /\ v = header.payload_vaddr /\ p = header.load_addr
        OBVIOUS
      <3>2. /\ n = IdentitySize(boot)' /\ size = ImageSize'
            /\ v = header'.payload_vaddr /\ p = header'.load_addr
            /\ VaddrApart(boot)' = VaddrApart(boot)
        BY <1>1, <2>2, <3>1, CallSizes
      <3>3. MapInv /\ Running(v, p, size) /\ (VaddrApart(boot) => Shown(0, 0, n))
        BY <1>1, <2>2, <3>1
        DEF BootInv, TreeKept, Paged, MappingInv, Mappings, IdentityShown
      <3>4. /\ MapInv' /\ alloc'.to = alloc.to
            /\ cr3' # 0 /\ v % PageSize = 0 /\ p % PageSize = 0
            /\ \/ call'.pc = "idle" /\ ~ call'.ret
               \/ call'.pc = "idle" /\ Shown(v, p, size)'
               \/ call'.pc # "idle" /\ Running(v, p, size)'
        BY <1>1, <3>3, RunStep
      <3>5. VaddrApart(boot)' => IdentityShown'
        <4> SUFFICES ASSUME VaddrApart(boot) PROVE IdentityShown'
          BY <3>2
        <4>1. \/ p = v /\ v + size < Word
              \/ n <= v % Space /\ (v % Space) + size <= Space
          BY <1>1, <2>2, <3>1, CallSizes DEF VaddrApart, Space, ImageSize, header
        <4>2. n \in Nat /\ n <= Space
          BY <1>1, <2>2, <3>1, CallSizes
        <4>3. Shown(0, 0, n)'
          BY <1>1, <3>3, <4>1, <4>2, RunApart
        <4> QED
          BY <3>2, <4>3 DEF IdentityShown, Shown
      <3>6. ~ InJumper'
        BY <2>1 DEF InJumper
      <3>7. CASE call'.pc = "idle" /\ Shown(v, p, size)'
        <4>1. /\ PayloadShown' /\ pc' \in {"jump", "dead"}
              /\ PageOffset(header.payload_vaddr)' = 0
              /\ PageOffset(header.load_addr)' = 0
          BY <1>1, <3>2, <3>4, <3>7 DEF PayloadShown, Shown, PageOffset
        <4> QED
          BY <1>2, <3>4, <3>5, <3>6, <3>7, <4>1 DEF Mappings
      <3>8. CASE call'.pc # "idle" /\ Running(v, p, size)'
        <4>1. /\ Running(header.payload_vaddr, header.load_addr, ImageSize)'
              /\ pc' = "payload run"
          BY <1>1, <3>2, <3>8 DEF Running, Shown
        <4> QED
          BY <3>4, <3>5, <3>6, <4>1 DEF Mappings
      <3> QED
        BY <1>1, <1>2, <3>4, <3>7, <3>8
    <2> QED
      BY <1>1, <2>1, <2>2, PagedKeeps DEF Paged
  <1> QED
    BY <1>1, <1>2, DeadKeeps

\* A shift by a negative number, cut to the width of the register, is undone
\* by adding it.
LEMMA ShiftBack ==
    ASSUME NEW j \in 0 .. Word - 1, NEW s \in 0 .. Word - 1
    PROVE  Wrap(s + Wrap(j - s)) = j
  <1>1. Word \in Nat \ {0} /\ j \in Nat /\ s \in Nat
    BY SpaceIs
  <1>2. j % Word = j
    BY <1>1, Small
  <1>3. CASE s <= j
    <2> DEFINE d == j - s
    <2>1. d \in 0 .. Word - 1 /\ s + d = j
      BY <1>1, <1>3
    <2> HIDE DEF d
    <2>2. Wrap(d) = d
      BY <1>1, <2>1, Small DEF Wrap
    <2>3. Wrap(s + Wrap(d)) = j
      BY <1>2, <2>1, <2>2 DEF Wrap
    <2> QED
      BY <2>3 DEF d
  <1>4. CASE j < s
    <2> DEFINE a == s - j
               d == j - s
    <2>1. a \in 1 .. Word - 1 /\ d = 0 - a /\ s + (Word - a) = Word * 1 + j
      BY <1>1, <1>4
    <2> HIDE DEF a, d
    <2>2. Wrap(d) = Word - a
      <3>1. (0 - a) % Word = Word - a
        BY <1>1, <2>1, Wrapped
      <3> QED
        BY <2>1, <3>1 DEF Wrap
    <2>3. (Word * 1 + j) % Word = j
      BY <1>1, DividedOnce
    <2>4. Wrap(s + Wrap(d)) = j
      BY <2>1, <2>2, <2>3 DEF Wrap
    <2> QED
      BY <2>4 DEF d
  <1> QED
    BY <1>1, <1>3, <1>4

\* Every page of what lies inside the identity mapping is mapped on itself.
LEMMA IdentityHolds ==
    ASSUME NEW n \in Nat, n < Word, Shown(0, 0, n),
           NEW from \in Nat, NEW to \in Nat, to <= n
    PROVE  Identity(from, to)
  <1> SUFFICES ASSUME NEW a \in Cells(from, to)
               PROVE  Translate(a) = Entry(AlignDown(a, PageSize))
    BY DEF Identity
  <1> DEFINE q == a \div PageSize
             r == a % PageSize
             k == a - r
  <1>1. a \in Nat /\ a < n /\ PageSize \in Nat \ {0} /\ Word \in Nat \ {0}
    BY SpaceIs DEF Cells
  <1>2. q \in Nat /\ r \in 0 .. PageSize - 1 /\ a = PageSize * q + r
    BY <1>1, Divided
  <1>3. k \in Nat /\ k % PageSize = 0 /\ k <= a /\ k = PageSize * q + 0
    <2>1. k \in Nat /\ k % PageSize = 0
      BY <1>1, Rounded
    <2> HIDE DEF q, r
    <2>2. PageSize * q \in Nat
      BY <1>1, <1>2
    <2> QED
      BY <1>1, <1>2, <2>1, <2>2
  <1>4. AlignDown(a, PageSize) = k
    BY DEF AlignDown
  <1>5. a \div PageSize = q
    OBVIOUS
  <1> HIDE DEF q, r, k
  <1>6. k \div PageSize = q
    <2>1. 0 \in 0 .. PageSize - 1
      BY <1>1
    <2> QED
      BY <1>1, <1>2, <1>3, <2>1, DividedOnce
  <1>7. k \in Cells(0, n) /\ PageOffset(k) = 0 /\ 0 + k = k
    BY <1>1, <1>3 DEF Cells, PageOffset
  <1>8. Translate(k) = Entry(Wrap(k))
    BY <1>7 DEF Shown
  <1>9. Wrap(k) = k
    <2>1. k \in 0 .. Word - 1
      BY <1>1, <1>3
    <2> QED
      BY <1>1, <2>1, Small DEF Wrap
  <1>10. Translate(a) = Translate(k)
    BY <1>5, <1>6, Walked
  <1> QED
    BY <1>4, <1>8, <1>9, <1>10

-----------------------------------------------------------------------------
\* The page table stays a tree while nothing changes in it.
LEMMA MapInvStill ==
    ASSUME MapInv, UNCHANGED <<alloc, tables, cr3, call>>
    PROVE  MapInv'
BY DEF MapInv, PageInv, MemoryOK, LocalsOK, TablesOK, TablesReclaimable, TreeInv,
       WalkOK, CallOK, Page, VirtualAddr, Pages, PageOffset

\* The pages that the payload and the jumper need stay where they are.
LEMMA MappingsStill ==
    ASSUME Places, Regular, UNCHANGED <<boot, tables, cr3>>
    PROVE  /\ IdentityShown => IdentityShown'
           /\ PayloadShown => PayloadShown'
           /\ PageOffset(header.payload_vaddr)' = PageOffset(header.payload_vaddr)
           /\ PageOffset(header.load_addr)' = PageOffset(header.load_addr)
  <1>1. PICK n, size, v, p :
           /\ n = IdentitySize(boot) /\ size = ImageSize
           /\ v = header.payload_vaddr /\ p = header.load_addr
    OBVIOUS
  <1>2. /\ n = IdentitySize(boot)' /\ size = ImageSize'
        /\ v = header'.payload_vaddr /\ p = header'.load_addr
    BY <1>1, CallSizes
  <1>3. IdentityShown => IdentityShown'
    <2> SUFFICES ASSUME IdentityShown PROVE IdentityShown'
      OBVIOUS
    <2>1. Shown(0, 0, n)'
      BY <1>1, ShownUntouched DEF IdentityShown
    <2> QED
      BY <1>2, <2>1 DEF IdentityShown, Shown
  <1>4. PayloadShown => PayloadShown'
    <2> SUFFICES ASSUME PayloadShown PROVE PayloadShown'
      OBVIOUS
    <2>1. Shown(v, p, size)
      BY <1>1 DEF PayloadShown
    <2>2. Shown(v, p, size)'
      BY <2>1, ShownUntouched
    <2> QED
      BY <1>2, <2>2 DEF PayloadShown, Shown
  <1> QED
    BY <1>1, <1>2, <1>3, <1>4 DEF PageOffset

\* A good boot is regular.
LEMMA GoodRegular ==
    GoodBoot(boot) => Regular /\ IdentityReaches(boot) /\ VaddrApart(boot)
BY DEF GoodBoot, Regular, IdentityReaches

\* The jumper, as long as it changes nothing but memory and the processor.
LEMMA JumperKeeps ==
    ASSUME BootInv, pc = "jump" \/ InJumper, UNCHANGED memory,
           InJumper' \/ pc' \in {"payload", "fault"},
           GoodBoot(boot) => pc' # "fault",
           Regular => JumperReady'
    PROVE  MappingInv' /\ (Regular => TreeKept)'
  <1>1. /\ Places /\ UNCHANGED <<boot, stack, this, alloc, tables, cr3, call>>
    BY DEF BootInv, LoaderInv, memory, paging
  <1>2. /\ pc' \notin Working /\ pc' \notin Paged
        /\ pc' \notin Unpaged \union {"install"} /\ pc' # "jump"
    BY DEF InJumper, Working, Mb2Placed, StackPlaced, Paged, Unpaged
  <1>3. NoFault'
    BY <1>1, SameConditions DEF NoFault
  <1>4. ASSUME Regular PROVE TreeKept'
    <2>1. MapInv
      BY <1>4 DEF BootInv, TreeKept, Paged
    <2> QED
      BY <1>1, <1>2, <2>1, MapInvStill DEF TreeKept
  <1>5. ASSUME Regular PROVE Mappings'
    <2>1. /\ VaddrApart(boot) => IdentityShown
          /\ cr3 # 0 /\ PayloadShown
          /\ PageOffset(header.payload_vaddr) = 0
          /\ PageOffset(header.load_addr) = 0
      BY <1>5 DEF BootInv, MappingInv, Mappings
    <2>2. /\ VaddrApart(boot)' => IdentityShown'
          /\ cr3' # 0 /\ PayloadShown'
          /\ PageOffset(header.payload_vaddr)' = 0
          /\ PageOffset(header.load_addr)' = 0
      BY <1>1, <1>5, <2>1, MappingsStill, SameConditions
    <2>3. pc' \notin {"identity", "identity run", "payload map", "payload run", "jump"}
      BY <1>2 DEF Paged
    <2> QED
      BY <2>2, <2>3 DEF Mappings
  <1>6. ASSUME Regular PROVE WithinIdentity'
    <2>1. IdentityReaches(boot) =>
             /\ stack + StackSize <= IdentitySize(boot)
             /\ this.jumper_addr + JumperSize <= IdentitySize(boot)
      BY <1>6 DEF BootInv, MappingInv, WithinIdentity, Working, Mb2Placed,
                  StackPlaced, Paged
    <2> QED
      BY <1>1, <1>2, <2>1, SameConditions, Constant DEF WithinIdentity
  <1> QED
    BY <1>1, <1>3, <1>4, <1>5, <1>6, SameConditions DEF MappingInv

LEMMA JumpKeeps ==
    ASSUME BootInv, JumpToPayload
    PROVE  MappingInv' /\ (Regular => TreeKept)'
  <1>1. /\ pc = "jump" /\ pc' = "move" /\ UNCHANGED memory /\ Places
        /\ cpu' = [cpu EXCEPT !.star = Wrap(this.jumper_addr - JumperStart)]
    BY DEF JumpToPayload, BootInv, LoaderInv
  <1>2. InJumper'
    BY <1>1 DEF InJumper
  <1>3. ASSUME Regular PROVE JumperReady'
    <2>1. InRam(stack, StackSize) /\ InRam(this.jumper_addr, JumperSize)
      BY <1>1, <1>3 DEF BootInv, LoaderInv, AtWork, Intact, OutOfTheWay, Working,
                        Mb2Placed, StackPlaced, Paged
    <2>2. cpu'.star = Wrap(this.jumper_addr - JumperStart)
      BY <1>1 DEF Places, Registers
    <2>3. UNCHANGED <<stack, this>>
      BY <1>1 DEF memory
    <2> QED
      BY <1>1, <2>1, <2>2, <2>3 DEF JumperReady, InRam
  <1> QED
    BY <1>1, <1>2, <1>3, JumperKeeps

\* What the steps of the jumper on the processor leave of its state.
LEMMA ReadyStill ==
    ASSUME BootInv, Regular, InJumper, UNCHANGED <<stack, this>>,
           cpu'.star = cpu.star, pc' # "payload",
           pc' \notin {"move", "pae"} => cpu'.pae,
           pc' \notin {"move", "pae", "lme"} => cpu'.lme
    PROVE  JumperReady'
BY DEF BootInv, MappingInv, JumperReady, InRam

LEMMA RelocatePayloadKeeps ==
    ASSUME BootInv, RelocatePayload
    PROVE  MappingInv' /\ (Regular => TreeKept)'
  <1>1. /\ pc = "move" /\ pc' = "pae" /\ UNCHANGED memory /\ UNCHANGED cpu
        /\ InJumper /\ InJumper'
    BY DEF RelocatePayload, InJumper
  <1>2. ASSUME Regular PROVE JumperReady'
    BY <1>1, <1>2, ReadyStill DEF memory
  <1> QED
    BY <1>1, <1>2, JumperKeeps

LEMMA EnableKeeps ==
    ASSUME BootInv, EnablePae \/ EnableLme
    PROVE  MappingInv' /\ (Regular => TreeKept)'
  <1>1. /\ UNCHANGED memory /\ InJumper /\ InJumper' /\ Places
        /\ \/ pc' = "lme" /\ cpu' = [cpu EXCEPT !.pae = TRUE]
           \/ pc = "lme" /\ pc' = "pg" /\ cpu' = [cpu EXCEPT !.lme = TRUE]
    BY DEF EnablePae, EnableLme, InJumper, BootInv, LoaderInv
  <1>2. DOMAIN cpu = Registers
    BY <1>1 DEF Places
  <1>3. ASSUME Regular PROVE JumperReady'
    <2>1. CASE pc' = "lme" /\ cpu' = [cpu EXCEPT !.pae = TRUE]
      <3>1. cpu'.star = cpu.star /\ cpu'.pae
        BY <1>2, <2>1 DEF Registers
      <3> QED
        BY <1>1, <1>3, <2>1, <3>1, ReadyStill DEF memory
    <2>2. CASE pc = "lme" /\ pc' = "pg" /\ cpu' = [cpu EXCEPT !.lme = TRUE]
      <3>1. cpu'.star = cpu.star /\ cpu'.pae = cpu.pae /\ cpu'.lme
        BY <1>2, <2>2 DEF Registers
      <3>2. cpu.pae
        BY <1>1, <1>3, <2>2 DEF BootInv, MappingInv, JumperReady
      <3> QED
        BY <1>1, <1>3, <3>1, <3>2, ReadyStill DEF memory
    <2> QED
      BY <1>1, <2>1, <2>2
  <1> QED
    BY <1>1, <1>3, JumperKeeps

\* Long mode finds PAE and the identity mapping of the jumper and its stack.
LEMMA EnablePagingKeeps ==
    ASSUME BootInv, EnablePaging
    PROVE  MappingInv' /\ (Regular => TreeKept)'
  <1>1. /\ pc = "pg" /\ UNCHANGED memory /\ InJumper /\ Places
        /\ cpu' = [cpu EXCEPT !.pg = TRUE]
        /\ pc' = IF /\ cpu.pae /\ cpu.lme
                    /\ Identity(this.jumper_addr, this.jumper_addr + JumperSize)
                    /\ Identity(stack, stack + StackSize)
                 THEN "ljmp" ELSE "fault"
    BY DEF EnablePaging, InJumper, BootInv, LoaderInv
  <1>2. InJumper' \/ pc' = "fault"
    BY <1>1 DEF InJumper
  <1>3. cpu'.star = cpu.star /\ cpu'.pae = cpu.pae /\ cpu'.lme = cpu.lme
    BY <1>1 DEF Places, Registers
  <1>4. ASSUME Regular
        PROVE  /\ cpu.pae /\ cpu.lme /\ JumperReady'
               /\ InRam(stack, StackSize) /\ InRam(this.jumper_addr, JumperSize)
    <2>1. /\ cpu.pae /\ cpu.lme
          /\ InRam(stack, StackSize) /\ InRam(this.jumper_addr, JumperSize)
      BY <1>1, <1>4 DEF BootInv, MappingInv, JumperReady
    <2> QED
      BY <1>1, <1>3, <1>4, <2>1, ReadyStill DEF memory
  <1>5. ASSUME GoodBoot(boot) PROVE pc' # "fault"
    <2>1. Regular /\ IdentityReaches(boot) /\ VaddrApart(boot)
      BY <1>5, GoodRegular
    <2>2. PICK n \in Nat : n = IdentitySize(boot) /\ n < Word
      BY <1>1, <2>1, CallSizes, SpaceIs
    <2>3. /\ Shown(0, 0, n)
          /\ stack + StackSize <= n /\ this.jumper_addr + JumperSize <= n
      BY <1>1, <2>1, <2>2
      DEF BootInv, MappingInv, Mappings, WithinIdentity, IdentityShown
    <2>4. stack \in Nat /\ this.jumper_addr \in Nat /\ StackSize \in Nat /\ JumperSize \in Nat
      BY <1>4, <2>1, Constant DEF InRam
    <2>5. /\ Identity(this.jumper_addr, this.jumper_addr + JumperSize)
          /\ Identity(stack, stack + StackSize)
      <3>1. this.jumper_addr + JumperSize \in Nat /\ stack + StackSize \in Nat
        BY <2>4
      <3> QED
        BY <2>2, <2>3, <2>4, <3>1, IdentityHolds
    <2> QED
      BY <1>1, <1>4, <2>1, <2>5
  <1> QED
    BY <1>1, <1>2, <1>4, <1>5, JumperKeeps

\* The shift of the jumper leads back to it.
LEMMA LongmodeKeeps ==
    ASSUME BootInv, JumpToLongmode
    PROVE  MappingInv' /\ (Regular => TreeKept)'
  <1>1. /\ pc = "ljmp" /\ UNCHANGED memory /\ InJumper /\ Places
        /\ cpu' = [cpu EXCEPT !.cs = "code64"]
        /\ pc' = IF Wrap(JumperStart + cpu.star) = this.jumper_addr
                 THEN "long mode" ELSE "fault"
    BY DEF JumpToLongmode, InJumper, BootInv, LoaderInv
  <1>2. InJumper' \/ pc' = "fault"
    BY <1>1 DEF InJumper
  <1>3. cpu'.star = cpu.star /\ cpu'.pae = cpu.pae /\ cpu'.lme = cpu.lme
    BY <1>1 DEF Places, Registers
  <1>4. ASSUME Regular PROVE JumperReady' /\ pc' # "fault"
    <2>1. /\ cpu.pae /\ cpu.lme /\ InRam(this.jumper_addr, JumperSize)
          /\ cpu.star = Wrap(this.jumper_addr - JumperStart)
      BY <1>1, <1>4 DEF BootInv, MappingInv, JumperReady
    <2>2. JumperReady'
      BY <1>1, <1>3, <1>4, <2>1, ReadyStill DEF memory
    <2>3. this.jumper_addr \in 0 .. Word - 1
      BY <2>1, Constant DEF InRam
    <2>4. JumperStart \in 0 .. Word - 1
      <3>1. /\ BssEnd <= header.payload_addr /\ header.payload_addr \in Nat
            /\ header.payload_addr + PayloadSize <= header.stack_addr - StackSize
            /\ header.stack_addr < Word /\ header.stack_addr \in Nat /\ PayloadSize \in Nat
        BY <1>1, Layout
      <3> QED
        BY <3>1, Constant
    <2> QED
      BY <1>1, <2>1, <2>2, <2>3, <2>4, ShiftBack
  <1> QED
    BY <1>1, <1>2, <1>4, GoodRegular, JumperKeeps

LEMMA EnterPayloadKeeps ==
    ASSUME BootInv, EnterPayload
    PROVE  MappingInv' /\ (Regular => TreeKept)'
  <1>1. /\ pc = "long mode" /\ pc' = "payload" /\ UNCHANGED memory /\ InJumper
        /\ ~ InJumper' /\ Places /\ cpu'.rip = PayloadVentry
    BY DEF EnterPayload, InJumper, BootInv, LoaderInv, Places, Registers
  <1>2. JumperReady'
    <2>1. PayloadVentry' = PayloadVentry
      BY <1>1 DEF memory, PayloadVentry, header
    <2> QED
      BY <1>1, <2>1 DEF JumperReady
  <1> QED
    BY <1>1, <1>2, JumperKeeps

LEMMA BootInvInit == Init => BootInv
  <1> SUFFICES ASSUME Init PROVE MappingInv /\ TreeKept
    BY LoaderInvInit DEF BootInv
  <1>1. /\ pc = "entry" /\ tables = <<>> /\ cr3 = 0
        /\ call = [pc |-> "idle", vaddr |-> 0, paddr |-> 0, asked |-> 0, size |-> 0,
                   i |-> 0, lvl |-> PageLevel, pgd |-> 0, ret |-> TRUE]
    BY DEF Init, PageInit
  <1>2. NoTables
    <2>1. DOMAIN tables = {}
      BY <1>1
    <2>2. PageLevel \in 1 .. PageLevel
      BY PageAssumption
    <2> QED
      BY <1>1, <2>1, <2>2 DEF NoTables, LocalsOK, Locals
  <1>3. ~ InJumper /\ pc \notin Working /\ pc \notin Paged
    BY <1>1 DEF InJumper, Working, Mb2Placed, StackPlaced, Paged
  <1> QED
    BY <1>1, <1>2, <1>3
    DEF MappingInv, Mappings, WithinIdentity, JumperReady, NoFault, TreeKept

\* Nor does a good boot end that way.
LEMMA CollapseKeeps ==
    ASSUME BootInv, Collapse
    PROVE  MappingInv' /\ (Regular => TreeKept)'
  <1>1. ~ Regular /\ UNCHANGED boot
    BY NeverOverrun DEF BootInv, Collapse
  <1> QED
    BY <1>1, GoodRegular, SameConditions DEF MappingInv, NoFault

LEMMA SetupPagingKeeps ==
    ASSUME BootInv, SetupPaging
    PROVE  MappingInv' /\ (Regular => TreeKept)'
BY InstallKeeps, MapIdentityKeeps, RunIdentityKeeps, MapPayloadKeeps,
   RunPayloadKeeps DEF SetupPaging

LEMMA JumperStepKeeps ==
    ASSUME BootInv, Jumper
    PROVE  MappingInv' /\ (Regular => TreeKept)'
BY JumpKeeps, RelocatePayloadKeeps, EnableKeeps, EnablePagingKeeps, LongmodeKeeps,
   EnterPayloadKeeps DEF Jumper

LEMMA UnchangedKeeps ==
    ASSUME BootInv, UNCHANGED vars
    PROVE  MappingInv' /\ (Regular => TreeKept)'
  <1>1. /\ UNCHANGED <<boot, pc, ram, stack, this, saved, cpu, alloc, tables, cr3, call>>
        /\ Places
    BY DEF vars, BootInv, LoaderInv
  <1>2. InJumper' = InJumper /\ PayloadVentry' = PayloadVentry
    BY <1>1 DEF InJumper, PayloadVentry, header
  <1>3. ASSUME Regular PROVE TreeKept'
    <2>1. TreeKept
      BY <1>3 DEF BootInv
    <2>2. NoTables => NoTables'
      BY <1>1 DEF NoTables, LocalsOK
    <2> QED
      BY <1>1, <1>2, <2>1, <2>2, MapInvStill DEF TreeKept
  <1>4. ASSUME Regular PROVE Mappings'
    <2>1. Mappings
      BY <1>4 DEF BootInv, MappingInv
    <2>2. \A v, p, n : Running(v, p, n) => Running(v, p, n)'
      <3>1. \A addr : Translate(addr)' = Translate(addr)
        BY <1>1, Walked
      <3> QED
        BY <1>1, <3>1 DEF Running, Shown
    <2>3. PICK n, size, v, p :
             /\ n = IdentitySize(boot) /\ size = ImageSize
             /\ v = header.payload_vaddr /\ p = header.load_addr
      OBVIOUS
    <2>4. /\ n = IdentitySize(boot)' /\ size = ImageSize'
          /\ v = header'.payload_vaddr /\ p = header'.load_addr
      BY <1>1, <1>4, <2>3, CallSizes
    <2>5. /\ Running(0, 0, IdentitySize(boot)) => Running(0, 0, IdentitySize(boot))'
          /\ Running(header.payload_vaddr, header.load_addr, ImageSize)
                => Running(header.payload_vaddr, header.load_addr, ImageSize)'
      <3>1. Running(0, 0, n) => Running(0, 0, n)'
        BY <2>2
      <3>2. Running(v, p, size) => Running(v, p, size)'
        BY <2>2
      <3> QED
        BY <2>3, <2>4, <3>1, <3>2 DEF Running, Shown
    <2>6. /\ IdentityShown => IdentityShown'
          /\ PayloadShown => PayloadShown'
          /\ PageOffset(header.payload_vaddr)' = PageOffset(header.payload_vaddr)
          /\ PageOffset(header.load_addr)' = PageOffset(header.load_addr)
          /\ VaddrApart(boot)' = VaddrApart(boot)
      BY <1>1, <1>4, MappingsStill, SameConditions
    <2>7. pc' = pc /\ call'.pc = call.pc /\ cr3' = cr3
      BY <1>1
    <2>8. /\ pc \in {"identity", "payload map", "jump"} => call.pc = "idle"
          /\ pc = "identity run" => Running(0, 0, IdentitySize(boot))'
          /\ pc = "payload map" => IdentityShown'
          /\ pc = "payload run" =>
                Running(header.payload_vaddr, header.load_addr, ImageSize)'
          /\ pc \in {"payload run", "jump"} \/ InJumper =>
                (VaddrApart(boot) => IdentityShown')
          /\ pc = "jump" \/ InJumper \/ pc = "payload" =>
                /\ cr3 # 0 /\ PayloadShown'
                /\ PageOffset(header.payload_vaddr) = 0
                /\ PageOffset(header.load_addr) = 0
      BY <2>1, <2>5, <2>6 DEF Mappings
    <2> QED
      BY <1>2, <2>6, <2>7, <2>8 DEF Mappings
  <1>5. ASSUME Regular PROVE WithinIdentity' /\ JumperReady'
    <2>1. WithinIdentity /\ JumperReady
      BY <1>5 DEF BootInv, MappingInv
    <2>2. WithinIdentity'
      BY <1>1, <1>2, <2>1, SameConditions, Constant DEF WithinIdentity
    <2>3. JumperReady'
      BY <1>1, <1>2, <2>1 DEF JumperReady, InRam
    <2> QED
      BY <2>2, <2>3
  <1>6. NoFault'
    BY <1>1, SameConditions DEF BootInv, MappingInv, NoFault
  <1> QED
    BY <1>1, <1>3, <1>4, <1>5, <1>6, SameConditions DEF MappingInv

LEMMA BootInvStep ==
    ASSUME BootInv, [Next]_vars
    PROVE  BootInv'
  <1>1. LoaderInv'
    BY LoaderInvStep DEF BootInv
  <1>2. MappingInv' /\ (Regular => TreeKept)'
    <2>1. CASE UNCHANGED vars
      BY <2>1, UnchangedKeeps
    <2>2. CASE Next
      BY <2>2, CollapseKeeps, EnterLoaderKeeps, MallocKeeps, CheckKeeps, Mb2Keeps,
         StackKeeps, SetupJumperKeeps, SetupPagingKeeps, JumperStepKeeps
      DEF Next
    <2> QED
      BY <2>1, <2>2
  <1> QED
    BY <1>1, <1>2 DEF BootInv

-----------------------------------------------------------------------------
\* While the tables are built, and from then on, they translate every page
\* they were asked for so far, and the jumper keeps what it needs of them.
THEOREM BootInvariant == Spec => []BootInv
  BY BootInvInit, BootInvStep, PTL DEF Spec

\* Whatever the memory map and the image, a boot that respects the conditions
\* of GoodBoot enables paging over mapped code and a mapped stack, and jumps
\* where the jumper is.
THEOREM NoFaultEver == Spec => []NoFault
  <1>1. BootInv => NoFault
    BY DEF BootInv, MappingInv
  <1> QED
    BY <1>1, BootInvariant, PTL

\* An address in a page that is shown.
LEMMA ShownByte ==
    ASSUME NEW v \in Nat, NEW p \in Nat, NEW n \in Nat, Shown(v, p, n),
           v % PageSize = 0, p % PageSize = 0, p + n < Word,
           NEW k \in 0 .. n - 1
    PROVE  /\ Translate(v + k).flags = Flags
           /\ Translate(v + k).addr + PageOffset(v + k) = p + k
  <1> DEFINE r == k % PageSize
             j == k - r
  <1>1. k \in Nat /\ PageSize \in Nat \ {0} /\ Word \in Nat \ {0}
    BY SpaceIs
  <1>2. r \in 0 .. PageSize - 1 /\ j \in Nat /\ j % PageSize = 0 /\ j <= k /\ j + r = k
    <2>1. r \in 0 .. PageSize - 1 /\ j \in Nat /\ j % PageSize = 0
      BY <1>1, Rounded
    <2> HIDE DEF r
    <2> QED
      BY <1>1, <2>1
  <1> HIDE DEF r, j
  <1>3. j \in Cells(0, n) /\ PageOffset(j) = 0
    BY <1>1, <1>2 DEF Cells, PageOffset
  <1>4. Translate(v + j) = Entry(Wrap(p + j))
    BY <1>3 DEF Shown
  <1>5. Wrap(p + j) = p + j
    <2>1. p + j \in 0 .. Word - 1
      BY <1>1, <1>2
    <2> QED
      BY <1>1, <2>1, Small DEF Wrap
  <1>6. (v + k) \div PageSize = (v + j) \div PageSize /\ (v + k) % PageSize = r
    <2>1. v + j \in Nat /\ (v + j) % PageSize = 0
      BY <1>1, <1>2, MultiplesAdd
    <2>2. PICK q \in Nat : v + j = PageSize * q
      BY <1>1, <2>1, Multiple
    <2>3. v + j = PageSize * q + 0 /\ v + k = PageSize * q + r /\ 0 \in 0 .. PageSize - 1
      <3>1. PageSize * q \in Nat
        BY <1>1, <2>2
      <3> QED
        BY <1>1, <1>2, <2>2, <3>1
    <2>4. (PageSize * q + 0) \div PageSize = q
      BY <1>1, <2>3, DividedOnce
    <2>5. (PageSize * q + r) \div PageSize = q /\ (PageSize * q + r) % PageSize = r
      BY <1>1, <1>2, DividedOnce
    <2> QED
      BY <2>3, <2>4, <2>5
  <1>7. Translate(v + k) = Translate(v + j)
    BY <1>6, Walked
  <1>8. Translate(v + k) = Entry(p + j) /\ PageOffset(v + k) = r
    BY <1>4, <1>5, <1>6, <1>7 DEF PageOffset
  <1>9. Entry(p + j).flags = Flags /\ Entry(p + j).addr = p + j
    BY DEF Entry
  <1>10. (p + j) + r = p + k
    BY <1>1, <1>2
  <1> QED
    BY <1>8, <1>9, <1>10

\* The payload finds itself at its virtual address, every byte of its image and
\* of its bss, and its first instruction where the jumper leaves it, whatever
\* the memory map and the sizes are.
THEOREM PayloadIsMapped == Spec => []PayloadMapped
  <1>1. BootInv => PayloadMapped
    <2> DEFINE At(vaddr) == Translate(vaddr).addr + PageOffset(vaddr)
               In(addr)  == header.payload_vaddr + addr - header.load_addr
               entry == header.payload_entry_addr
    <2> SUFFICES ASSUME BootInv, pc = "payload", Protected(boot)
                 PROVE  /\ entry \in Cells(header.load_addr, header.load_end_addr)
                           => /\ cpu.rip \in Cells(header.payload_vaddr,
                                                    In(header.load_end_addr))
                              /\ ram[At(cpu.rip)] = Byte("payload", entry - header.load_addr)
                        /\ \A a \in Target :
                              Translate(In(a)).flags = Flags /\ At(In(a)) = a
                        /\ cr3 \in DOMAIN tables
      BY DEF PayloadMapped
    <2>1. Places /\ Regular
      BY DEF BootInv, LoaderInv, Places, Regular
    <2>2. /\ ImageMoved /\ MapInv /\ cr3 # 0 /\ PayloadShown
          /\ PageOffset(header.payload_vaddr) = 0 /\ PageOffset(header.load_addr) = 0
          /\ cpu.rip = PayloadVentry
      BY <2>1 DEF BootInv, LoaderInv, AtTheEnd, TreeKept, MappingInv, Mappings, JumperReady
    <2>3. cr3 \in DOMAIN tables
      BY <2>2 DEF MapInv, TreeInv, Tree, Rooted
    <2>4. PICK v \in Nat, p \in Nat, n \in Nat :
             /\ v = header.payload_vaddr /\ p = header.load_addr /\ n = ImageSize
             /\ p + n < Word
      BY <2>1, CallSizes
    <2>5. Shown(v, p, n) /\ v % PageSize = 0 /\ p % PageSize = 0
      BY <2>2, <2>4 DEF PayloadShown, PageOffset
    <2>6. ASSUME NEW a \in Target
          PROVE  /\ a \in Nat /\ In(a) = v + (a - p)
                 /\ Translate(In(a)).flags = Flags /\ At(In(a)) = a
      <3>1. a \in Nat /\ a - p \in 0 .. n - 1 /\ v + a - p = v + (a - p) /\ p + (a - p) = a
        BY <2>1, <2>4, Layout DEF Target, Cells, ImageSize
      <3>2. In(a) = v + (a - p)
        BY <2>4, <3>1
      <3>3. PICK k \in 0 .. n - 1 : k = a - p
        BY <3>1
      <3>4. /\ Translate(v + k).flags = Flags
            /\ Translate(v + k).addr + PageOffset(v + k) = p + k
        BY <2>4, <2>5, ShownByte
      <3> QED
        BY <3>1, <3>2, <3>3, <3>4
    <2>7. ASSUME entry \in Cells(header.load_addr, header.load_end_addr)
          PROVE  /\ cpu.rip \in Cells(header.payload_vaddr, In(header.load_end_addr))
                 /\ ram[At(cpu.rip)] = Byte("payload", entry - header.load_addr)
      <3>1. /\ entry \in Target /\ entry < header.load_end_addr
            /\ entry \in Nat /\ entry - p + v = v + (entry - p)
        BY <2>1, <2>4, <2>7, Layout DEF Target, Cells
      <3>2. cpu.rip = In(entry)
        <4>1. cpu.rip = entry - p + v
          <5>1. entry - p \in 0 .. Word - 1
            <6>1. entry - p \in 0 .. n - 1
              BY <2>1, <2>4, <3>1, Layout DEF Target, Cells, ImageSize
            <6> QED
              BY <2>4, <6>1, WordAssumption
          <5>2. \A k \in 0 .. Word - 1 : k % Word = k
            BY WordAssumption
          <5>3. Wrap(entry - p) = entry - p
            BY <5>1, <5>2 DEF Wrap
          <5> QED
            BY <2>2, <2>4, <5>3 DEF PayloadVentry
        <4> QED
          BY <2>6, <3>1, <4>1
      <3>3. At(cpu.rip) = entry
        BY <2>6, <3>1, <3>2
      <3>4. cpu.rip \in Cells(header.payload_vaddr, In(header.load_end_addr))
        <4>1. /\ header.load_end_addr \in Nat /\ p <= entry
              /\ In(entry) = v + (entry - p)
              /\ In(header.load_end_addr) = v + header.load_end_addr - p
          BY <2>1, <2>4, <2>6, <2>7, <3>1, Layout DEF Cells
        <4> QED
          BY <2>4, <3>1, <3>2, <4>1 DEF Cells
      <3> QED
        BY <2>2, <3>1, <3>3, <3>4 DEF ImageMoved
    <2> QED
      BY <2>3, <2>6, <2>7
  <1> QED
    BY <1>1, BootInvariant, PTL
=============================================================================
