---------------------------- MODULE LibraryProofs ----------------------------
(***************************************************************************)
(* Proofs about two parts of the userland library, for instances of any    *)
(* size: the search of a header, as long as reads are not short, and the   *)
(* tables that the page table builder makes of a list of mappings.         *)
(***************************************************************************)
EXTENDS HeaderSearch, UserPageTable, Numbers, SequenceTheorems, TLAPS

-----------------------------------------------------------------------------
(***************************************************************************)
(* The search of a header.                                                 *)
(***************************************************************************)

\* How much of the file the window shows.
Window == Smallest(Search, Len(file))

\* A header of the file at an offset of the window.
HeaderAt(k) == file[k + 1] = Magic /\ file[k + 2] > 0 /\ k + file[k + 2] <= Window

\* The first read takes the window, the search has seen no header so far.
SearchInv ==
    /\ file \in Files
    /\ buffer \in [0 .. Search - 1 -> Int]
    /\ \/ pc = "read" /\ off = 0 /\ rem = Search /\ i = 0 /\ ret = -1
       \/ pc = "failed"
       \/ /\ pc \in {"read", "search", "done"}
          /\ off = Window /\ rem = Search - Window
          /\ \A k \in 0 .. Window - 1 : buffer[k] = file[k + 1]
          /\ pc = "read" => i = 0
          /\ i \in 0 .. Window - HeaderCells + 1
          /\ \A k \in 0 .. i - 1 : ~ HeaderAt(k)
          /\ \/ ret = -1
             \/ pc = "done" /\ ret = i /\ i <= Window - HeaderCells /\ HeaderAt(i)
          /\ pc = "done" /\ ret = -1 => i = Window - HeaderCells + 1

\* A file as long as a header, read without short reads, as FirstFound has it.
Searched == Len(file) >= HeaderCells => SearchInv

\* The numbers of the window.
LEMMA WindowFacts ==
    ASSUME file \in Files, Len(file) >= HeaderCells
    PROVE  /\ Search \in Nat /\ HeaderCells \in Nat /\ Word \in Nat
           /\ 2 <= HeaderCells /\ HeaderCells <= Search /\ Search < Word
           /\ Len(file) \in Nat /\ file \in Seq(Int)
           /\ Window \in Nat /\ HeaderCells <= Window /\ Window <= Search
           /\ Window <= Len(file)
           /\ \A k \in 1 .. Window : file[k] \in Int
  <1>1. file \in Seq(Int)
    BY SearchAssumption
  <1>2. Len(file) \in Nat /\ \A k \in 1 .. Len(file) : file[k] \in Int
    BY <1>1
  <1> QED
    BY <1>1, <1>2, SearchAssumption DEF Window, Smallest

\* Without short reads a read transfers all that there is.
LEMMA TransferAll ==
    ASSUME ~ ShortReads, file \in Files, NEW start \in Nat, NEW count \in Nat
    PROVE  Transfers(start, count)
               = {IF start < Len(file) THEN Smallest(count, Len(file) - start) ELSE 0}
  <1>1. Len(file) \in Nat
    BY SearchAssumption
  <1> QED
    BY <1>1 DEF Transfers, Smallest

\* The search keeps its invariant.
LEMMA SearchInvStep ==
    ASSUME ~ ShortReads, Len(file) >= HeaderCells, SearchInv, [Next]_vars
    PROVE  SearchInv'
  <1>1. file \in Files /\ buffer \in [0 .. Search - 1 -> Int]
    BY DEF SearchInv
  <1>2. /\ Search \in Nat /\ HeaderCells \in Nat /\ Word \in Nat
        /\ 2 <= HeaderCells /\ HeaderCells <= Search /\ Search < Word
        /\ Len(file) \in Nat /\ file \in Seq(Int)
        /\ Window \in Nat /\ HeaderCells <= Window /\ Window <= Search
        /\ Window <= Len(file)
        /\ \A k \in 1 .. Window : file[k] \in Int
    BY <1>1, WindowFacts
  <1>3. file' = file => Window' = Window /\ \A k : HeaderAt(k)' <=> HeaderAt(k)
    BY DEF Window, Smallest, HeaderAt
  <1>4. CASE Pread
    <2>1. PICK rd \in Transfers(off, rem) :
             /\ pc = "read" /\ rem > 0 /\ rd > 0
             /\ buffer' = [k \in DOMAIN buffer |->
                              IF k < rd THEN file[off + k + 1] ELSE buffer[k]]
             /\ off' = off + rd /\ rem' = rem - rd
             /\ UNCHANGED <<file, pc, i, ret>>
      BY <1>4 DEF Pread
    <2>2. \/ off = 0 /\ rem = Search /\ i = 0 /\ ret = -1
          \/ off = Window /\ rem = Search - Window
      <3> HIDE DEF Window, HeaderAt
      <3>1. pc = "read"
        BY <2>1
      <3> QED
        BY <3>1, Zenon DEF SearchInv
    <2>3. rd = Smallest(rem, Len(file) - off) /\ off < Len(file)
      <3>1. off \in Nat /\ rem \in Nat
        BY <1>2, <2>2
      <3> QED
        BY <1>1, <1>2, <2>1, <3>1, TransferAll
    <2>4. CASE off = 0 /\ rem = Search /\ i = 0 /\ ret = -1
      <3>1. rd = Window
        BY <1>2, <2>3, <2>4 DEF Window
      <3>2. off' = Window /\ rem' = Search - Window
        BY <1>2, <2>1, <2>4, <3>1
      <3>3. buffer' \in [0 .. Search - 1 -> Int]
        BY <1>1, <1>2, <2>1, <2>4, <3>1
      <3>4. \A k \in 0 .. Window - 1 : buffer'[k] = file[k + 1]
        BY <1>1, <1>2, <2>1, <2>4, <3>1
      <3> QED
        <4>1. /\ file' = file /\ Window' = Window
              /\ pc' = "read" /\ i' = 0 /\ ret' = -1
          BY <1>3, <2>1, <2>4
        <4>2. 0 \in 0 .. Window - HeaderCells + 1 /\ 0 .. 0 - 1 = {}
          BY <1>2
        <4> QED
          BY <1>1, <3>2, <3>3, <3>4, <4>1, <4>2 DEF SearchInv
    <2>5. CASE off = Window /\ rem = Search - Window
      BY <1>2, <2>1, <2>3, <2>5 DEF Window, Smallest
    <2> QED
      BY <2>2, <2>4, <2>5
  <1>5. CASE EndRead
    <2>1. /\ pc = "read" /\ (rem = 0 \/ 0 \in Transfers(off, rem))
          /\ pc' = "search" /\ UNCHANGED <<file, buffer, off, rem, i, ret>>
      BY <1>5 DEF EndRead
    <2>2. ~ (off = 0 /\ rem = Search)
      <3> SUFFICES ASSUME off = 0, rem = Search PROVE FALSE
        OBVIOUS
      <3>1. Transfers(off, rem) = {Smallest(Search, Len(file))}
        BY <1>1, <1>2, TransferAll
      <3> QED
        BY <1>2, <2>1, <3>1 DEF Smallest
    <2> QED
      BY <1>1, <1>2, <1>3, <2>1, <2>2 DEF SearchInv
  <1>6. pc = "search" => LastOffset = Window - HeaderCells /\ Length = Window
    <2>1. pc = "search" => rem = Search - Window
      <3> HIDE DEF Window, HeaderAt
      <3> QED
        BY Zenon DEF SearchInv
    <2>2. Window - HeaderCells \in 0 .. Word - 1
      BY <1>2
    <2>3. \A n \in 0 .. Word - 1 : n % Word = n
      BY <1>2
    <2>4. pc = "search" => Length = Window
      BY <1>2, <2>1 DEF Length
    <2> QED
      BY <2>2, <2>3, <2>4 DEF LastOffset
  <1>7. CASE SearchStep
    <2>1. /\ pc = "search" /\ i <= LastOffset
          /\ UNCHANGED <<file, buffer, off, rem>>
      BY <1>7 DEF SearchStep
    <2>2. PICK verdict \in Verdicts(i) :
             /\ pc' = [match |-> "done", mismatch |-> "search",
                       crash |-> "crash"][verdict]
             /\ ret' = IF verdict = "match" THEN i ELSE ret
             /\ i' = IF verdict = "mismatch" THEN (i + 1) % Word ELSE i
      BY <1>7 DEF SearchStep
    <2>3. /\ i \in 0 .. Window - HeaderCells /\ ret = -1
          /\ off = Window /\ rem = Search - Window
          /\ \A k \in 0 .. Window - 1 : buffer[k] = file[k + 1]
          /\ \A k \in 0 .. i - 1 : ~ HeaderAt(k)
      BY <1>2, <1>6, <2>1 DEF SearchInv
    <2>4. buffer[i] = file[i + 1] /\ buffer[i + 1] = file[i + 2]
      BY <1>2, <2>3
    <2>5. Verdicts(i) = IF HeaderAt(i) THEN {"match"} ELSE {"mismatch"}
      BY <1>2, <1>6, <2>1, <2>3, <2>4 DEF Verdicts, HeaderAt
    <2>6. CASE HeaderAt(i)
      <3>1. pc' = "done" /\ ret' = i /\ i' = i
        BY <2>2, <2>5, <2>6
      <3> QED
        BY <1>1, <1>2, <1>3, <2>1, <2>3, <2>6, <3>1 DEF SearchInv
    <2>7. CASE ~ HeaderAt(i)
      <3>1. pc' = "search" /\ ret' = ret /\ i' = i + 1
        <4>1. i + 1 \in 0 .. Word - 1
          BY <1>2, <2>3
        <4>2. \A n \in 0 .. Word - 1 : n % Word = n
          BY <1>2
        <4> QED
          BY <2>2, <2>5, <2>7, <4>1, <4>2
      <3>2. \A k \in 0 .. i' - 1 : ~ HeaderAt(k)
        BY <1>2, <2>3, <2>7, <3>1
      <3> QED
        BY <1>1, <1>2, <1>3, <2>1, <2>3, <3>1, <3>2 DEF SearchInv
    <2> QED
      BY <2>6, <2>7
  <1>8. CASE EndSearch
    <2>1. /\ pc = "search" /\ i > LastOffset /\ pc' = "done"
          /\ UNCHANGED <<file, buffer, off, rem, i, ret>>
      BY <1>8 DEF EndSearch
    <2> QED
      BY <1>1, <1>2, <1>3, <1>6, <2>1 DEF SearchInv
  <1>9. CASE GiveUp
    BY <1>1, <1>9 DEF GiveUp, SearchInv
  <1>10. CASE UNCHANGED vars
    BY <1>1, <1>3, <1>10 DEF vars, SearchInv
  <1> QED
    BY <1>4, <1>5, <1>7, <1>8, <1>9, <1>10 DEF Next, Step

\* Without short reads, and in a file that is not shorter than a header, the
\* search returns the first header of the window, and -1 when there is none.
THEOREM FirstHeaderFound == ~ ShortReads /\ Spec => []FirstFound
  <1> SUFFICES ASSUME ~ ShortReads PROVE Spec => []FirstFound
    OBVIOUS
  <1>1. Init => Searched
    BY SearchAssumption DEF Init, Searched, SearchInv
  <1>2. Searched /\ [Next]_vars => Searched'
    <2> SUFFICES ASSUME Searched, [Next]_vars, Len(file') >= HeaderCells
                 PROVE  SearchInv'
      BY DEF Searched
    <2>1. file' = file
      BY DEF Next, Step, Pread, EndRead, SearchStep, EndSearch, GiveUp, vars
    <2> QED
      BY <2>1, SearchInvStep DEF Searched
  <1>3. Searched => FirstFound
    <2> SUFFICES ASSUME SearchInv, Len(file) >= HeaderCells, pc \in {"done", "crash"}
                 PROVE  /\ pc = "done"
                        /\ IF HeadersOf(file) = {}
                           THEN ret = -1
                           ELSE ret \in HeadersOf(file)
                                   /\ \A k \in HeadersOf(file) : ret <= k
      BY DEF Searched, FirstFound
    <2>1. /\ HeaderCells \in Nat /\ Window \in Nat /\ HeaderCells <= Window
      BY WindowFacts DEF SearchInv
    <2>2. HeadersOf(file) = {k \in 0 .. Window - HeaderCells : HeaderAt(k)}
      BY DEF HeadersOf, HeaderAt, Window
    <2>3. /\ pc = "done"
          /\ i \in 0 .. Window - HeaderCells + 1
          /\ \A k \in 0 .. i - 1 : ~ HeaderAt(k)
          /\ \/ ret = -1 /\ i = Window - HeaderCells + 1
             \/ ret = i /\ i <= Window - HeaderCells /\ HeaderAt(i)
      BY DEF SearchInv
    <2> QED
      BY <2>1, <2>2, <2>3
  <1> QED
    BY <1>1, <1>2, <1>3, PTL DEF Spec

-----------------------------------------------------------------------------
(***************************************************************************)
(* The levels of the user page table and the digits of a page.             *)
(***************************************************************************)
Indexes == 0 .. PgdSize - 1

\* The digit of a page's number that selects the entry of a level, and the number
\* that the pages of a table of that level have in common.
Digit(page, lvl) == (page \div Span[lvl]) % PgdSize

Prefix(page, lvl) == (page \div Span[lvl]) \div PgdSize

\* The spans of the levels are the powers of the size of a table.
LEMMA Spans ==
    /\ Span[1] = 1
    /\ \A l \in 1 .. PageLevel : Span[l] \in Nat \ {0}
    /\ \A l \in 1 .. PageLevel : l # PageLevel => Span[l + 1] = Span[l] * PgdSize
  <1>1. Span = Scale(PgdSize, PageLevel)
    BY DEF Span, Scale
  <1>2. PgdSize \in Nat \ {0} /\ PageLevel \in Nat \ {0}
    BY SizeAssumption
  <1>3. /\ Span[1] = 1
        /\ \A l \in 1 .. PageLevel : Span[l] \in Nat \ {0}
        /\ \A l \in 1 .. PageLevel : l # PageLevel => Span[l + 1] = PgdSize * Span[l]
    BY <1>1, <1>2, ScaleSteps
  <1> QED
    BY <1>2, <1>3

\* How the digits make up a page, from the highest level down to the first.
LEMMA Digits ==
    ASSUME NEW page \in Nat
    PROVE  /\ \A l \in 1 .. PageLevel : Digit(page, l) \in Indexes /\ Prefix(page, l) \in Nat
           /\ \A l \in 1 .. PageLevel : l # PageLevel =>
                 Prefix(page, l) = PgdSize * Prefix(page, l + 1) + Digit(page, l + 1)
           /\ page = PgdSize * Prefix(page, 1) + Digit(page, 1)
           /\ page < VPages => Prefix(page, PageLevel) = 0
  <1>1. PgdSize \in Nat \ {0} /\ PageLevel \in Nat \ {0}
    BY SizeAssumption
  <1>2. ASSUME NEW l \in 1 .. PageLevel
        PROVE  /\ page \div Span[l] \in Nat
               /\ Digit(page, l) \in Indexes /\ Prefix(page, l) \in Nat
               /\ page \div Span[l] = PgdSize * Prefix(page, l) + Digit(page, l)
    <2>1. page \div Span[l] \in Nat
      BY Spans, Divided
    <2> DEFINE q == page \div Span[l]
    <2>2. q \in Nat
      BY <2>1
    <2> HIDE DEF q
    <2>3. q \div PgdSize \in Nat /\ q % PgdSize \in 0 .. PgdSize - 1
          /\ q = PgdSize * (q \div PgdSize) + (q % PgdSize)
      BY <1>1, <2>2, Divided
    <2> QED
      BY <2>1, <2>3 DEF q, Digit, Prefix, Indexes
  <1>3. ASSUME NEW l \in 1 .. PageLevel, l # PageLevel
        PROVE  Prefix(page, l) = page \div Span[l + 1]
    <2>1. Span[l] \in Nat \ {0} /\ Span[l + 1] = Span[l] * PgdSize
      BY <1>3, Spans
    <2>2. (page \div Span[l]) \div PgdSize = page \div (Span[l] * PgdSize)
      BY <1>1, <2>1, TwoQuotients
    <2> QED
      BY <2>1, <2>2 DEF Prefix
  <1>4. ASSUME NEW l \in 1 .. PageLevel, l # PageLevel
        PROVE  Prefix(page, l) = PgdSize * Prefix(page, l + 1) + Digit(page, l + 1)
    <2>1. l + 1 \in 1 .. PageLevel
      BY <1>1, <1>4
    <2> QED
      BY <1>2, <1>3, <1>4, <2>1
  <1>5. page = PgdSize * Prefix(page, 1) + Digit(page, 1)
    <2>1. 1 \in 1 .. PageLevel /\ Span[1] = 1
      BY <1>1, Spans
    <2>2. page \div 1 = page
      <3>1. 1 * page + 0 = page /\ 0 \in 0 .. 1 - 1 /\ 1 \in Nat \ {0}
        OBVIOUS
      <3>2. (1 * page + 0) \div 1 = page
        BY <3>1, DividedOnce
      <3> QED
        BY <3>1, <3>2
    <2> QED
      BY <1>2, <2>1, <2>2
  <1>6. ASSUME page < VPages PROVE Prefix(page, PageLevel) = 0
    <2>1. /\ PageLevel \in 1 .. PageLevel
          /\ Span[PageLevel] \in Nat \ {0}
          /\ Span[PageLevel] * PgdSize \in Nat \ {0}
          /\ page < Span[PageLevel] * PgdSize
      BY <1>1, <1>6, Spans DEF VPages
    <2> DEFINE b == Span[PageLevel] * PgdSize
    <2>2. Prefix(page, PageLevel) = page \div b
      BY <1>1, <2>1, TwoQuotients DEF Prefix
    <2> HIDE DEF b
    <2>3. b * 0 + page = page /\ page \in 0 .. b - 1 /\ b \in Nat \ {0}
      BY <2>1 DEF b
    <2>4. (b * 0 + page) \div b = 0
      BY <2>3, DividedOnce
    <2> QED
      BY <2>2, <2>3, <2>4
  <1> QED
    BY <1>2, <1>4, <1>5, <1>6

\* Only the place of a page in the virtual memory counts.
LEMMA PlaceDigits ==
    ASSUME NEW page \in Nat
    PROVE  /\ page % VPages \in 0 .. VPages - 1
           /\ \A l \in 1 .. PageLevel : Digit(page, l) = Digit(page % VPages, l)
  <1> DEFINE v == page % VPages
             Same(l) == page % (Span[l] * PgdSize) = v % (Span[l] * PgdSize)
             S == {l \in 1 .. PageLevel : Same(l)}
  <1>1. /\ PgdSize \in Nat \ {0} /\ PageLevel \in Nat \ {0}
        /\ PageLevel \in 1 .. PageLevel
        /\ VPages = Span[PageLevel] * PgdSize /\ VPages \in Nat \ {0}
    BY SizeAssumption, Spans DEF VPages
  <1>2. v \in 0 .. VPages - 1 /\ v \in Nat /\ v % VPages = v
    <2>1. v \in 0 .. VPages - 1
      BY <1>1, Divided
    <2> HIDE DEF v
    <2> QED
      BY <1>1, <2>1, Small
  <1> HIDE DEF v
  <1>3. ASSUME NEW l \in 1 .. PageLevel, Same(l)
        PROVE  page % Span[l] = v % Span[l] /\ Digit(page, l) = Digit(v, l)
    <2>1. Span[l] \in Nat \ {0}
      BY Spans
    <2>2. \A n, p \in Nat \ {0} : page % (n * p) = v % (n * p)
             <=> page % n = v % n /\ (page \div n) % p = (v \div n) % p
      BY <1>2, SameDigits, Zenon
    <2> QED
      BY <1>1, <1>3, <2>1, <2>2, Zenon DEF Digit
  <1>4. 1 .. PageLevel \subseteq S
    <2>1. PageLevel \in S
      BY <1>1, <1>2 DEF v
    <2>2. \A l \in 1 .. PageLevel : l # PageLevel /\ l + 1 \in S => l \in S
      <3> SUFFICES ASSUME NEW l \in 1 .. PageLevel, l # PageLevel, Same(l + 1)
                   PROVE  Same(l)
        OBVIOUS
      <3>1. l + 1 \in 1 .. PageLevel /\ Span[l + 1] = Span[l] * PgdSize
        BY <1>1, Spans
      <3>2. page % Span[l + 1] = v % Span[l + 1]
        <4> HIDE DEF Same
        <4> QED
          BY <1>3, <3>1
      <3> QED
        BY <3>1, <3>2
    <2> HIDE DEF S
    <2> QED
      BY <1>1, <2>1, <2>2, LevelsDown
  <1> QED
    BY <1>2, <1>3, <1>4 DEF v

\* The page of an address.
LEMMA PageOf ==
    ASSUME NEW vaddr \in Nat, NEW n \in Nat
    PROVE  /\ (vaddr + n * PageSize) \div PageSize = vaddr \div PageSize + n
           /\ vaddr \div PageSize \in Nat
  <1>1. PageSize \in Nat \ {0}
    BY SizeAssumption
  <1> DEFINE q == vaddr \div PageSize
             r == vaddr % PageSize
  <1>2. q \in Nat /\ r \in 0 .. PageSize - 1 /\ vaddr = PageSize * q + r
    BY <1>1, Divided
  <1> HIDE DEF q, r
  <1>3. vaddr + n * PageSize = PageSize * (q + n) + r /\ q + n \in Nat
    BY <1>1, <1>2
  <1>4. (PageSize * (q + n) + r) \div PageSize = q + n
    BY <1>1, <1>2, <1>3, DividedOnce
  <1> QED
    BY <1>2, <1>3, <1>4 DEF q

-----------------------------------------------------------------------------
(***************************************************************************)
(* Tables and the map of pages that they show.                             *)
(***************************************************************************)
Entries == [addr : Nat, flags : SUBSET {"W", "PWT", "P"}]

\* What pages may be mapped on, by page.
PageMaps == [Nat -> {NoEntry} \union {Leaf(paddr) : paddr \in Nat}]

\* Where the tables are in a buffer of a size.
Offsets(size) == {t \in 0 .. size - 1 : Aligned(t)}

\* The entry x of the table t is the one for the table u, whose pages are the
\* x-th of its parts.
Leads(tbl, base, level, prefix, t, x, u) ==
    /\ level[t] = level[u] + 1
    /\ prefix[u] = PgdSize * prefix[t] + x
    /\ tbl[t][x] = TableEntry(base + u)

\* Each table has a level and a prefix of its own, the first those of all pages;
\* its entries are empty, for the tables below or, at level 1, what the map has;
\* every table but the first has an entry for it; no mapped page lacks a table.
Labelled(tbl, size, base, level, prefix, map) ==
    /\ size \in Nat \ {0} /\ Aligned(size)
    /\ tbl \in [Offsets(size) -> [Indexes -> Entries]]
    /\ level \in [Offsets(size) -> 1 .. PageLevel]
    /\ prefix \in [Offsets(size) -> Nat]
    /\ level[0] = PageLevel /\ prefix[0] = 0
    /\ \A t, u \in Offsets(size) :
          level[t] = level[u] /\ prefix[t] = prefix[u] => t = u
    /\ \A t \in Offsets(size), x \in Indexes :
          IF level[t] = 1 THEN tbl[t][x] = map[PgdSize * prefix[t] + x]
          ELSE \/ tbl[t][x] = NoEntry
               \/ \E u \in Offsets(size) : Leads(tbl, base, level, prefix, t, x, u)
    /\ \A u \in Offsets(size) \ {0} :
          \E t \in Offsets(size), x \in Indexes :
             Leads(tbl, base, level, prefix, t, x, u)
    /\ \A page \in Nat : map[page] # NoEntry =>
          \E t \in Offsets(size), x \in Indexes :
             level[t] = 1 /\ page = PgdSize * prefix[t] + x

\* The kinds of entries differ.
LEMMA EntryKinds ==
    ASSUME NEW paddr \in Nat
    PROVE  /\ NoEntry \in Entries /\ TableEntry(paddr) \in Entries /\ Leaf(paddr) \in Entries
           /\ TableEntry(paddr) # NoEntry /\ Leaf(paddr) # NoEntry
           /\ TableEntry(paddr).addr = paddr /\ Leaf(paddr).addr = paddr
           /\ \A p \in Nat : Leaf(p) # TableEntry(paddr)
  <1>1. /\ NoEntry.flags = {} /\ TableEntry(paddr).flags = {"W", "PWT", "P"}
        /\ \A p \in Nat : Leaf(p).flags = {"W", "P"}
    BY DEF NoEntry, TableEntry, Leaf
  <1>2. {"W", "PWT", "P"} # {} /\ {"W", "P"} # {} /\ {"W", "P"} # {"W", "PWT", "P"}
    OBVIOUS
  <1> QED
    BY <1>1, <1>2 DEF NoEntry, TableEntry, Leaf, Entries

\* A prefix and an index make up one number only.
LEMMA OneEntry ==
    ASSUME NEW a \in Nat, NEW b \in Nat, NEW x \in Indexes, NEW y \in Indexes,
           PgdSize * a + x = PgdSize * b + y
    PROVE  a = b /\ x = y
  <1>1. PgdSize \in Nat \ {0}
    BY SizeAssumption
  <1>2. /\ (PgdSize * a + x) \div PgdSize = a /\ (PgdSize * a + x) % PgdSize = x
        /\ (PgdSize * b + y) \div PgdSize = b /\ (PgdSize * b + y) % PgdSize = y
    BY <1>1, DividedOnce DEF Indexes
  <1> QED
    BY <1>2

\* A table more at the end of the buffer.
LEMMA NextOffset ==
    ASSUME NEW size \in Nat \ {0}, Aligned(size)
    PROVE  /\ size + PageSize \in Nat \ {0} /\ Aligned(size + PageSize)
           /\ Offsets(size + PageSize) = Offsets(size) \union {size}
           /\ size \notin Offsets(size) /\ 0 \in Offsets(size)
  <1>1. PageSize \in Nat \ {0}
    BY SizeAssumption
  <1>2. 0 % PageSize = 0 /\ PageSize % PageSize = 0
    <2>1. /\ (PageSize * 0 + 0) % PageSize = 0 /\ (PageSize * 1 + 0) % PageSize = 0
          /\ PageSize * 0 + 0 = 0 /\ PageSize * 1 + 0 = PageSize
      BY <1>1, DividedOnce
    <2> QED
      BY <2>1
  <1>3. (size + PageSize) % PageSize = 0
    BY <1>1, <1>2, MultiplesAdd DEF Aligned
  <1>4. ASSUME NEW t \in 0 .. size + PageSize - 1, Aligned(t) PROVE t <= size
    <2>1. t \in Nat /\ t % PageSize = 0 /\ size % PageSize = 0 /\ t < size + PageSize
      BY <1>1, <1>4 DEF Aligned
    <2> QED
      BY <1>1, <2>1, MultiplesApart
  <1> QED
    BY <1>1, <1>2, <1>3, <1>4 DEF Offsets, Aligned

\* The tables with a new one at the end, entered in a table.
WithTable(tbl, size, base, t, x) ==
    [s \in DOMAIN tbl \union {size} |->
        IF s = size THEN EmptyTable
        ELSE IF s = t THEN [tbl[s] EXCEPT ![x] = TableEntry(base + size)]
             ELSE tbl[s]]

\* The walk takes a table for an empty entry: nothing that is mapped changes.
LEMMA TableAdded ==
    ASSUME NEW base \in Nat, NEW tbl, NEW size, NEW level, NEW prefix,
           NEW map \in PageMaps, Labelled(tbl, size, base, level, prefix, map),
           NEW t \in Offsets(size), NEW x \in Indexes,
           level[t] # 1, tbl[t][x] = NoEntry
    PROVE  \E level2, prefix2 :
              /\ Labelled(WithTable(tbl, size, base, t, x), size + PageSize, base,
                          level2, prefix2, map)
              /\ level2[size] = level[t] - 1
              /\ prefix2[size] = PgdSize * prefix[t] + x
  <1> DEFINE new == Offsets(size) \union {size}
             entry == TableEntry(base + size)
             tbl2 == [s \in new |-> IF s = size THEN EmptyTable
                                    ELSE IF s = t THEN [tbl[s] EXCEPT ![x] = entry]
                                         ELSE tbl[s]]
             level2 == [s \in new |-> IF s = size THEN level[t] - 1 ELSE level[s]]
             prefix2 == [s \in new |-> IF s = size THEN PgdSize * prefix[t] + x
                                       ELSE prefix[s]]
  <1>1. /\ size \in Nat \ {0} /\ Aligned(size)
        /\ tbl \in [Offsets(size) -> [Indexes -> Entries]]
        /\ level \in [Offsets(size) -> 1 .. PageLevel]
        /\ prefix \in [Offsets(size) -> Nat]
        /\ level[0] = PageLevel /\ prefix[0] = 0
    BY DEF Labelled
  <1>2. /\ size + PageSize \in Nat \ {0} /\ Aligned(size + PageSize)
        /\ Offsets(size + PageSize) = new
        /\ size \notin Offsets(size) /\ 0 \in Offsets(size)
    BY <1>1, NextOffset
  <1>3. /\ PgdSize \in Nat \ {0} /\ PageLevel \in Nat \ {0}
        /\ level[t] \in 2 .. PageLevel /\ prefix[t] \in Nat
        /\ PgdSize * prefix[t] + x \in Nat /\ x \in Nat
    BY <1>1, SizeAssumption DEF Indexes
  <1>4. entry \in Entries /\ entry # NoEntry /\ NoEntry \in Entries /\ base + size \in Nat
    BY <1>1, EntryKinds
  \* No table has the label of the new one.
  <1>5. ASSUME NEW u \in Offsets(size), level[u] = level[t] - 1,
               prefix[u] = PgdSize * prefix[t] + x
        PROVE  FALSE
    <2>1. u # 0
      BY <1>1, <1>3, <1>5
    <2>2. PICK p \in Offsets(size), y \in Indexes :
             Leads(tbl, base, level, prefix, p, y, u)
      BY <2>1 DEF Labelled
    <2>3. /\ level[p] = level[u] + 1 /\ prefix[u] = PgdSize * prefix[p] + y
          /\ tbl[p][y] = TableEntry(base + u)
      BY <2>2 DEF Leads
    <2>4. level[p] = level[t]
      BY <1>1, <1>3, <1>5, <2>3
    <2>5. prefix[p] = prefix[t] /\ y = x
      BY <1>1, <1>5, <2>3, OneEntry
    <2>6. p = t
      BY <2>4, <2>5 DEF Labelled
    <2>7. base + u \in Nat
      BY DEF Offsets
    <2> QED
      BY <2>3, <2>5, <2>6, <2>7, EntryKinds
  <1>6. /\ tbl2 \in [new -> [Indexes -> Entries]]
        /\ level2 \in [new -> 1 .. PageLevel] /\ prefix2 \in [new -> Nat]
        /\ level2[0] = PageLevel /\ prefix2[0] = 0
        /\ level2[size] = level[t] - 1 /\ prefix2[size] = PgdSize * prefix[t] + x
    <2>1. EmptyTable \in [Indexes -> Entries]
      BY <1>4 DEF EmptyTable, Indexes
    <2>2. \A s \in Offsets(size) : tbl[s] \in [Indexes -> Entries]
      BY <1>1
    <2>3. [tbl[t] EXCEPT ![x] = entry] \in [Indexes -> Entries]
      BY <1>4, <2>2
    <2> HIDE DEF entry
    <2>4. tbl2 \in [new -> [Indexes -> Entries]]
      BY <1>2, <2>1, <2>2, <2>3
    <2> QED
      BY <1>1, <1>2, <1>3, <2>4
  <1>7. \A s \in Offsets(size) : /\ level2[s] = level[s] /\ prefix2[s] = prefix[s]
                                 /\ s # t => tbl2[s] = tbl[s]
                                 /\ \A y \in Indexes :
                                       ~ (s = t /\ y = x) => tbl2[s][y] = tbl[s][y]
    BY <1>1, <1>2
  <1>8. /\ tbl2[t][x] = entry /\ \A y \in Indexes : tbl2[size][y] = NoEntry
        /\ t \in new
    BY <1>1, <1>2 DEF EmptyTable, Indexes
  <1> HIDE DEF tbl2, level2, prefix2, entry
  \* What led to a table still does.
  <1>9. ASSUME NEW p \in Offsets(size), NEW y \in Indexes, NEW u \in Offsets(size),
               Leads(tbl, base, level, prefix, p, y, u)
        PROVE  Leads(tbl2, base, level2, prefix2, p, y, u)
    <2>1. base + u \in Nat
      BY DEF Offsets
    <2>2. tbl[p][y] # NoEntry
      BY <1>9, <2>1, EntryKinds DEF Leads
    <2>3. tbl2[p][y] = tbl[p][y]
      BY <1>7, <2>2
    <2> QED
      BY <1>7, <1>9, <2>3 DEF Leads
  <1>10. Leads(tbl2, base, level2, prefix2, t, x, size)
    BY <1>3, <1>6, <1>7, <1>8 DEF Leads, entry
  <1>11. ASSUME NEW s \in new, NEW u \in new,
                level2[s] = level2[u], prefix2[s] = prefix2[u]
         PROVE  s = u
    <2>1. CASE s = size /\ u # size
      BY <1>5, <1>6, <1>7, <1>11, <2>1
    <2>2. CASE s # size /\ u = size
      BY <1>5, <1>6, <1>7, <1>11, <2>2
    <2>3. CASE s # size /\ u # size
      BY <1>7, <1>11, <2>3 DEF Labelled
    <2> QED
      BY <2>1, <2>2, <2>3
  <1>12. ASSUME NEW s \in new, NEW y \in Indexes
         PROVE  IF level2[s] = 1 THEN tbl2[s][y] = map[PgdSize * prefix2[s] + y]
                ELSE \/ tbl2[s][y] = NoEntry
                     \/ \E u \in new : Leads(tbl2, base, level2, prefix2, s, y, u)
    <2>1. CASE s = size
      <3>1. SUFFICES ASSUME level2[size] = 1, map[PgdSize * prefix2[size] + y] # NoEntry
                     PROVE  FALSE
        BY <1>8, <2>1
      <3>2. prefix2[size] \in Nat
        BY <1>2, <1>6
      <3>3. PgdSize * prefix2[size] + y \in Nat
        BY <1>3, <3>2 DEF Indexes
      <3>4. PICK u \in Offsets(size), z \in Indexes :
               level[u] = 1 /\ PgdSize * prefix2[size] + y = PgdSize * prefix[u] + z
        BY <3>1, <3>3 DEF Labelled
      <3>5. prefix[u] = prefix2[size]
        BY <1>1, <3>2, <3>4, OneEntry
      <3> QED
        BY <1>5, <1>6, <3>1, <3>4, <3>5
    <2>2. CASE s = t /\ y = x
      BY <1>1, <1>2, <1>7, <1>10, <2>2
    <2>3. CASE s # size /\ ~ (s = t /\ y = x)
      <3>1. s \in Offsets(size) /\ tbl2[s][y] = tbl[s][y]
            /\ level2[s] = level[s] /\ prefix2[s] = prefix[s]
        BY <1>7, <2>3
      <3>2. IF level[s] = 1 THEN tbl[s][y] = map[PgdSize * prefix[s] + y]
            ELSE \/ tbl[s][y] = NoEntry
                 \/ \E u \in Offsets(size) : Leads(tbl, base, level, prefix, s, y, u)
        BY <3>1 DEF Labelled
      <3> QED
        BY <1>9, <3>1, <3>2
    <2> QED
      BY <1>2, <2>1, <2>2, <2>3
  <1>13. ASSUME NEW u \in new \ {0}
         PROVE  \E s \in new, y \in Indexes :
                   Leads(tbl2, base, level2, prefix2, s, y, u)
    <2>1. CASE u = size
      BY <1>8, <1>10, <2>1
    <2>2. CASE u # size
      <3>1. PICK p \in Offsets(size), y \in Indexes :
               Leads(tbl, base, level, prefix, p, y, u)
        BY <2>2 DEF Labelled
      <3> QED
        BY <1>9, <2>2, <3>1
    <2> QED
      BY <2>1, <2>2
  <1>14. ASSUME NEW page \in Nat, map[page] # NoEntry
         PROVE  \E s \in new, y \in Indexes :
                   level2[s] = 1 /\ page = PgdSize * prefix2[s] + y
    <2>1. PICK s \in Offsets(size), y \in Indexes :
             level[s] = 1 /\ page = PgdSize * prefix[s] + y
      BY <1>14 DEF Labelled
    <2> QED
      BY <1>7, <2>1
  <1>15. Labelled(tbl2, size + PageSize, base, level2, prefix2, map)
    <2> HIDE DEF new
    <2> QED
      BY <1>2, <1>6, <1>11, <1>12, <1>13, <1>14 DEF Labelled
  <1>16. DOMAIN tbl \union {size} = new
    BY <1>1
  <1> QED
    BY <1>6, <1>15, <1>16 DEF tbl2, entry, WithTable

\* A leaf changes what one page is mapped on.
LEMMA LeafWritten ==
    ASSUME NEW base \in Nat, NEW tbl, NEW size, NEW level, NEW prefix,
           NEW map \in PageMaps, Labelled(tbl, size, base, level, prefix, map),
           NEW t \in Offsets(size), NEW x \in Indexes, level[t] = 1,
           NEW page, page = PgdSize * prefix[t] + x, NEW paddr \in Nat
    PROVE  /\ [map EXCEPT ![page] = Leaf(paddr)] \in PageMaps
           /\ Labelled([tbl EXCEPT ![t] = [tbl[t] EXCEPT ![x] = Leaf(paddr)]],
                       size, base, level, prefix, [map EXCEPT ![page] = Leaf(paddr)])
  <1> DEFINE leaf == Leaf(paddr)
             tbl2 == [tbl EXCEPT ![t] = [tbl[t] EXCEPT ![x] = leaf]]
             map2 == [map EXCEPT ![page] = leaf]
  <1>1. /\ size \in Nat \ {0} /\ Aligned(size)
        /\ tbl \in [Offsets(size) -> [Indexes -> Entries]]
        /\ level \in [Offsets(size) -> 1 .. PageLevel]
        /\ prefix \in [Offsets(size) -> Nat]
        /\ level[0] = PageLevel /\ prefix[0] = 0
    BY DEF Labelled
  <1>2. leaf \in Entries /\ leaf # NoEntry /\ leaf \in {Leaf(p) : p \in Nat}
    BY EntryKinds
  <1>3. page \in Nat /\ PgdSize \in Nat /\ \A y \in Indexes : y \in Nat
    BY <1>1, SizeAssumption DEF Indexes
  <1> HIDE DEF leaf
  <1>4. map2 \in PageMaps /\ map2[page] = leaf
        /\ \A p \in Nat : p # page => map2[p] = map[p]
    BY <1>2, <1>3 DEF PageMaps
  <1>5. /\ tbl2 \in [Offsets(size) -> [Indexes -> Entries]]
        /\ tbl2[t][x] = leaf
        /\ \A s \in Offsets(size), y \in Indexes :
              ~ (s = t /\ y = x) => tbl2[s][y] = tbl[s][y]
    <2>1. tbl[t] \in [Indexes -> Entries]
      BY <1>1
    <2>2. [tbl[t] EXCEPT ![x] = leaf] \in [Indexes -> Entries]
      BY <1>2, <2>1
    <2> QED
      BY <1>1, <2>1, <2>2
  <1> HIDE DEF tbl2, map2
  <1>6. \A s, u \in Offsets(size), y \in Indexes :
           Leads(tbl, base, level, prefix, s, y, u)
           => Leads(tbl2, base, level, prefix, s, y, u)
    <2> SUFFICES ASSUME NEW s \in Offsets(size), NEW u \in Offsets(size),
                        NEW y \in Indexes, Leads(tbl, base, level, prefix, s, y, u)
                 PROVE  Leads(tbl2, base, level, prefix, s, y, u)
      OBVIOUS
    <2>1. level[s] = level[u] + 1 /\ level[u] \in Nat \ {0}
      BY <1>1 DEF Leads
    <2>2. s # t
      BY <2>1
    <2> QED
      BY <1>5, <2>2 DEF Leads
  <1>7. ASSUME NEW s \in Offsets(size), NEW y \in Indexes
        PROVE  IF level[s] = 1 THEN tbl2[s][y] = map2[PgdSize * prefix[s] + y]
               ELSE \/ tbl2[s][y] = NoEntry
                    \/ \E u \in Offsets(size) :
                          Leads(tbl2, base, level, prefix, s, y, u)
    <2>1. CASE s = t /\ y = x
      BY <1>4, <1>5, <2>1
    <2>2. CASE ~ (s = t /\ y = x)
      <3>1. tbl2[s][y] = tbl[s][y]
        BY <1>5, <2>2
      <3>2. ASSUME level[s] = 1 PROVE tbl2[s][y] = map2[PgdSize * prefix[s] + y]
        <4>1. PgdSize * prefix[s] + y # page
          <5> SUFFICES ASSUME PgdSize * prefix[s] + y = PgdSize * prefix[t] + x
                       PROVE  FALSE
            OBVIOUS
          <5>1. prefix[s] = prefix[t] /\ y = x
            BY <1>1, OneEntry
          <5>2. s = t
            BY <3>2, <5>1 DEF Labelled
          <5> QED
            BY <2>2, <5>1, <5>2
        <4>2. PgdSize * prefix[s] + y \in Nat
          <5>1. prefix[s] \in Nat
            BY <1>1
          <5> QED
            BY <1>3, <5>1
        <4>3. tbl[s][y] = map[PgdSize * prefix[s] + y]
          BY <3>2 DEF Labelled
        <4> QED
          BY <1>4, <3>1, <4>1, <4>2, <4>3
      <3>3. ASSUME level[s] # 1
            PROVE  \/ tbl2[s][y] = NoEntry
                   \/ \E u \in Offsets(size) :
                         Leads(tbl2, base, level, prefix, s, y, u)
        <4>1. \/ tbl[s][y] = NoEntry
              \/ \E u \in Offsets(size) : Leads(tbl, base, level, prefix, s, y, u)
          BY <3>3 DEF Labelled
        <4> QED
          BY <1>6, <3>1, <4>1
      <3> QED
        BY <3>2, <3>3
    <2> QED
      BY <2>1, <2>2
  <1>8. ASSUME NEW u \in Offsets(size) \ {0}
        PROVE  \E s \in Offsets(size), y \in Indexes :
                  Leads(tbl2, base, level, prefix, s, y, u)
    <2>1. PICK s \in Offsets(size), y \in Indexes :
             Leads(tbl, base, level, prefix, s, y, u)
      BY DEF Labelled
    <2> QED
      BY <1>6, <2>1
  <1>9. ASSUME NEW p \in Nat, map2[p] # NoEntry
        PROVE  \E s \in Offsets(size), y \in Indexes :
                  level[s] = 1 /\ p = PgdSize * prefix[s] + y
    <2>1. CASE p = page
      BY <2>1
    <2>2. CASE p # page
      BY <1>4, <1>9, <2>2 DEF Labelled
    <2> QED
      BY <2>1, <2>2
  <1>10. \A s, u \in Offsets(size) :
            level[s] = level[u] /\ prefix[s] = prefix[u] => s = u
    BY DEF Labelled
  <1>11. Labelled(tbl2, size, base, level, prefix, map2)
    BY <1>1, <1>5, <1>7, <1>8, <1>9, <1>10 DEF Labelled
  <1> QED
    BY <1>4, <1>11 DEF tbl2, map2, leaf

-----------------------------------------------------------------------------
(***************************************************************************)
(* fill_concrete_page.                                                     *)
(***************************************************************************)
\* The tables of a buffer show a map of pages.
Shows(buf, base, map) ==
    /\ buf = [tables |-> buf.tables, size |-> buf.size]
    /\ \E level, prefix : Labelled(buf.tables, buf.size, base, level, prefix, map)

\* So do those of a walk, which stands at the table of a page at a level.
Stands(walk, base, map, page, lvl) ==
    /\ walk.buf = [tables |-> walk.buf.tables, size |-> walk.buf.size]
    /\ walk.pgd \in Offsets(walk.buf.size)
    /\ \E level, prefix :
          /\ Labelled(walk.buf.tables, walk.buf.size, base, level, prefix, map)
          /\ level[walk.pgd] = lvl /\ prefix[walk.pgd] = Prefix(page, lvl)

\* A turn of the walk goes down a level.
LEMMA DownStep ==
    ASSUME NEW base \in Nat, NEW map \in PageMaps, NEW page \in Nat,
           NEW lvl \in 1 .. PageLevel, lvl # PageLevel,
           NEW walk, Stands(walk, base, map, page, lvl + 1),
           NEW vaddr, PteIndexAtLevel(vaddr, lvl + 1) = Digit(page, lvl + 1)
    PROVE  Stands(Down(walk, lvl + 1, base, vaddr), base, map, page, lvl)
  <1> DEFINE tbl == walk.buf.tables
             size == walk.buf.size
             t == walk.pgd
             x == Digit(page, lvl + 1)
  <1>1. PICK level, prefix :
           /\ Labelled(tbl, size, base, level, prefix, map)
           /\ level[t] = lvl + 1 /\ prefix[t] = Prefix(page, lvl + 1)
    BY DEF Stands
  <1>2. t \in Offsets(size) /\ walk.buf = [tables |-> tbl, size |-> size]
    BY DEF Stands
  <1>3. /\ lvl \in Nat \ {0} /\ lvl + 1 \in 1 .. PageLevel
        /\ x \in Indexes /\ Prefix(page, lvl) = PgdSize * prefix[t] + x
    <2>1. lvl + 1 \in 1 .. PageLevel
      BY SizeAssumption
    <2>2. x \in Indexes
      BY <2>1, Digits
    <2>3. Prefix(page, lvl) = PgdSize * Prefix(page, lvl + 1) + x
      BY Digits
    <2> QED
      BY <1>1, <2>1, <2>2, <2>3
  <1>4. /\ size \in Nat \ {0} /\ Aligned(size)
        /\ tbl \in [Offsets(size) -> [Indexes -> Entries]]
    BY <1>1 DEF Labelled
  <1> HIDE DEF x
  <1> DEFINE next == IF tbl[t][x] = NoEntry THEN Link(walk.buf, t, x, base) ELSE walk.buf
             down == [buf |-> next, pgd |-> next.tables[t][x].addr - base]
  <1>5. Down(walk, lvl + 1, base, vaddr) = down
    BY DEF Down, x
  <1>6. CASE tbl[t][x] = NoEntry
    <2> DEFINE tbl2 == WithTable(tbl, size, base, t, x)
    <2>1. next = [tables |-> tbl2, size |-> size + PageSize]
      BY <1>6 DEF Link, WithTable
    <2> HIDE DEF tbl, size, t
    <2>2. level[t] # 1
      BY <1>1, <1>3
    <2>3. PICK level2, prefix2 :
             /\ Labelled(tbl2, size + PageSize, base, level2, prefix2, map)
             /\ level2[size] = level[t] - 1
             /\ prefix2[size] = PgdSize * prefix[t] + x
      BY <1>1, <1>2, <1>3, <1>6, <2>2, TableAdded
    <2>4. tbl2[t][x] = TableEntry(base + size)
      <3>1. t # size /\ t \in DOMAIN tbl
        BY <1>2, <1>4, NextOffset
      <3>2. tbl[t] \in [Indexes -> Entries]
        BY <1>2, <1>4
      <3> QED
        BY <1>3, <3>1, <3>2 DEF WithTable
    <2>5. TableEntry(base + size).addr - base = size
      BY <1>4, EntryKinds
    <2>6. size \in Offsets(size + PageSize)
      BY <1>4, NextOffset
    <2>7. level[t] - 1 = lvl
      BY <1>1, <1>3
    <2> HIDE DEF tbl2, next
    <2>8. down.buf = [tables |-> tbl2, size |-> size + PageSize] /\ down.pgd = size
      BY <2>1, <2>4, <2>5
    <2> HIDE DEF down
    <2>9. Stands(down, base, map, page, lvl)
      BY <1>3, <2>3, <2>6, <2>7, <2>8 DEF Stands
    <2> QED
      BY <1>5, <2>9
  <1>7. CASE tbl[t][x] # NoEntry
    <2>1. next = walk.buf
      BY <1>7
    <2>2. level[t] # 1
      BY <1>1, <1>3
    <2>3. PICK u \in Offsets(size) : Leads(tbl, base, level, prefix, t, x, u)
      BY <1>1, <1>2, <1>3, <1>7, <2>2 DEF Labelled
    <2>4. /\ level[t] = level[u] + 1 /\ prefix[u] = PgdSize * prefix[t] + x
          /\ tbl[t][x] = TableEntry(base + u) /\ u \in Nat /\ base + u \in Nat
      BY <2>3 DEF Leads, Offsets
    <2>5. TableEntry(base + u).addr - base = u
      BY <2>4, EntryKinds
    <2>6. level[u] = lvl /\ prefix[u] = Prefix(page, lvl)
      <3>1. level[u] \in Nat
        BY <1>1 DEF Labelled
      <3> QED
        BY <1>1, <1>3, <2>4, <3>1
    <2> HIDE DEF next
    <2>7. down.buf = walk.buf /\ down.pgd = u
      BY <2>1, <2>4, <2>5
    <2> HIDE DEF down
    <2>8. Stands(down, base, map, page, lvl)
      BY <1>1, <1>2, <2>3, <2>6, <2>7 DEF Stands
    <2> QED
      BY <1>5, <2>8
  <1> QED
    BY <1>6, <1>7

\* The walk of fill_concrete_page from the highest level down.
Walk(buf, base, vaddr) ==
    LET walk[lvl \in 1 .. PageLevel] ==
            IF lvl = PageLevel THEN [buf |-> buf, pgd |-> 0]
            ELSE Down(walk[lvl + 1], lvl + 1, base, vaddr)
    IN  walk

\* There is such a walk.
LEMMA WalkTaken ==
    ASSUME NEW buf, NEW base, NEW vaddr
    PROVE  /\ Walk(buf, base, vaddr)[PageLevel] = [buf |-> buf, pgd |-> 0]
           /\ \A lvl \in 1 .. PageLevel : lvl # PageLevel =>
                 Walk(buf, base, vaddr)[lvl] =
                    Down(Walk(buf, base, vaddr)[lvl + 1], lvl + 1, base, vaddr)
  <1> DEFINE start == [buf |-> buf, pgd |-> 0]
             Turn(walk, lvl) == Down(walk, lvl, base, vaddr)
             Body(g, m) == [lvl \in m .. PageLevel |->
                               IF lvl = PageLevel THEN start ELSE Turn(g[lvl + 1], lvl + 1)]
             Exists(m) == \E g : g = Body(g, m)
             S == {m \in 1 .. PageLevel : Exists(m)}
  <1>1. PageLevel \in Nat \ {0}
    BY SizeAssumption
  <1> HIDE DEF start, Turn
  <1>2. PageLevel \in S
    <2> DEFINE g == [lvl \in PageLevel .. PageLevel |-> start]
    <2>1. g = Body(g, PageLevel)
      BY <1>1
    <2>2. Exists(PageLevel)
      BY <2>1
    <2> HIDE DEF Exists
    <2> QED
      BY <1>1, <2>2
  <1>3. ASSUME NEW m \in 1 .. PageLevel, m # PageLevel, Exists(m + 1) PROVE Exists(m)
    <2>1. PICK g : g = Body(g, m + 1)
      BY <1>3
    <2> DEFINE h == [lvl \in m .. PageLevel |->
                        IF lvl = m THEN Turn(g[m + 1], m + 1) ELSE g[lvl]]
    <2>2. ASSUME NEW lvl \in m .. PageLevel PROVE h[lvl] = Body(h, m)[lvl]
      <3>1. CASE lvl = m
        <4>1. m + 1 \in m .. PageLevel /\ m + 1 # m /\ h[m + 1] = g[m + 1]
          <5>1. m + 1 \in m .. PageLevel /\ m + 1 # m
            BY <1>1, <1>3
          <5> QED
            BY <5>1
        <4> QED
          BY <1>3, <3>1, <4>1
      <3>2. CASE lvl # m
        <4>1. lvl \in m + 1 .. PageLevel /\ h[lvl] = g[lvl]
          BY <3>2
        <4>2. g[lvl] = IF lvl = PageLevel THEN start ELSE Turn(g[lvl + 1], lvl + 1)
          BY <2>1, <4>1
        <4>3. lvl # PageLevel => h[lvl + 1] = g[lvl + 1]
          <5>1. lvl # PageLevel => lvl + 1 \in m .. PageLevel /\ lvl + 1 # m
            BY <1>1, <4>1
          <5> QED
            BY <5>1
        <4> QED
          BY <4>1, <4>2, <4>3
      <3> QED
        BY <3>1, <3>2
    <2>3. h = Body(h, m)
      BY <2>2
    <2> QED
      BY <2>3
  <1>4. Exists(1)
    <2>1. 1 .. PageLevel \subseteq S
      <3> HIDE DEF Exists
      <3>1. \A m \in 1 .. PageLevel : m # PageLevel /\ m + 1 \in S => m \in S
        BY <1>3
      <3> HIDE DEF S
      <3> QED
        BY <1>1, <1>2, <3>1, LevelsDown
    <2> QED
      BY <1>1, <2>1
  <1> DEFINE walk == Walk(buf, base, vaddr)
  <1>5. walk = Body(walk, 1)
    BY <1>4 DEF Walk, Turn, start
  <1> HIDE DEF walk
  <1>6. PageLevel \in 1 .. PageLevel
    BY <1>1
  <1>7. walk[PageLevel] = start
    BY <1>5, <1>6
  <1>8. \A lvl \in 1 .. PageLevel : lvl # PageLevel =>
           walk[lvl] = Turn(walk[lvl + 1], lvl + 1)
    BY <1>5
  <1> QED
    BY <1>7, <1>8 DEF walk, start, Turn

\* fill_concrete_page maps a page, and no other.
LEMMA PageFilled ==
    ASSUME NEW base \in Nat, NEW map \in PageMaps, NEW buf, Shows(buf, base, map),
           NEW vaddr \in Nat, NEW paddr \in Nat,
           NEW page, page = (vaddr \div PageSize) % VPages
    PROVE  /\ [map EXCEPT ![page] = Leaf(paddr)] \in PageMaps
           /\ Shows(FillConcretePage(buf, base, vaddr, paddr), base,
                    [map EXCEPT ![page] = Leaf(paddr)])
  <1> DEFINE walk == Walk(buf, base, vaddr)
             found == walk[1]
             S == {lvl \in 1 .. PageLevel : Stands(walk[lvl], base, map, page, lvl)}
  <1>1. PageLevel \in Nat \ {0} /\ 1 \in 1 .. PageLevel /\ PageLevel \in 1 .. PageLevel
    BY SizeAssumption
  <1>2. /\ page \in Nat /\ page < VPages
        /\ \A l \in 1 .. PageLevel : PteIndexAtLevel(vaddr, l) = Digit(page, l)
    <2>1. vaddr \div PageSize \in Nat
      BY PageOf
    <2>2. VPages \in Nat
      BY <1>1, Spans, SizeAssumption DEF VPages
    <2>3. page \in 0 .. VPages - 1
          /\ \A l \in 1 .. PageLevel : Digit(vaddr \div PageSize, l) = Digit(page, l)
      BY <2>1, PlaceDigits
    <2> QED
      BY <2>2, <2>3 DEF PteIndexAtLevel, Digit
  <1>3. 1 .. PageLevel \subseteq S
    <2>1. PageLevel \in S
      <3>1. walk[PageLevel] = [buf |-> buf, pgd |-> 0]
        BY WalkTaken
      <3>2. PICK level, prefix :
               Labelled(buf.tables, buf.size, base, level, prefix, map)
        BY DEF Shows
      <3>3. /\ level[0] = PageLevel /\ prefix[0] = 0 /\ 0 \in Offsets(buf.size)
        BY <3>2, NextOffset DEF Labelled
      <3>4. Prefix(page, PageLevel) = 0
        BY <1>2, Digits
      <3> HIDE DEF walk
      <3>5. Stands(walk[PageLevel], base, map, page, PageLevel)
        BY <3>1, <3>2, <3>3, <3>4 DEF Stands, Shows
      <3> QED
        BY <1>1, <3>5
    <2>2. \A l \in 1 .. PageLevel : l # PageLevel /\ l + 1 \in S => l \in S
      <3> SUFFICES ASSUME NEW l \in 1 .. PageLevel, l # PageLevel,
                          Stands(walk[l + 1], base, map, page, l + 1)
                   PROVE  Stands(walk[l], base, map, page, l)
        OBVIOUS
      <3>1. walk[l] = Down(walk[l + 1], l + 1, base, vaddr)
        BY WalkTaken
      <3>2. PteIndexAtLevel(vaddr, l + 1) = Digit(page, l + 1)
        BY <1>1, <1>2
      <3> HIDE DEF walk
      <3>3. Stands(Down(walk[l + 1], l + 1, base, vaddr), base, map, page, l)
        BY <1>2, <3>2, DownStep
      <3> QED
        BY <3>1, <3>3
    <2> HIDE DEF S
    <2> QED
      BY <1>1, <2>1, <2>2, LevelsDown
  <1>4. Stands(found, base, map, page, 1)
    BY <1>1, <1>3
  <1> DEFINE tbl == found.buf.tables
             size == found.buf.size
             t == found.pgd
             x == Digit(page, 1)
             leaf == [tbl EXCEPT ![t] = [tbl[t] EXCEPT ![x] = Leaf(paddr)]]
  <1>5. FillConcretePage(buf, base, vaddr, paddr) = [tables |-> leaf, size |-> size]
    <2>1. FillConcretePage(buf, base, vaddr, paddr) =
             [found.buf EXCEPT !.tables[t][PteIndexAtLevel(vaddr, 1)] = Leaf(paddr)]
      BY DEF FillConcretePage, Walk
    <2>2. PteIndexAtLevel(vaddr, 1) = x
      BY <1>1, <1>2
    <2>3. found.buf = [tables |-> tbl, size |-> size]
      BY <1>4 DEF Stands
    <2> HIDE DEF x, found
    <2> QED
      BY <2>1, <2>2, <2>3
  <1>6. PICK level, prefix :
           /\ Labelled(tbl, size, base, level, prefix, map)
           /\ level[t] = 1 /\ prefix[t] = Prefix(page, 1)
    BY <1>4 DEF Stands
  <1>7. t \in Offsets(size)
    BY <1>4 DEF Stands
  <1>8. x \in Indexes /\ page = PgdSize * prefix[t] + x
    BY <1>1, <1>2, <1>6, Digits
  <1> HIDE DEF x, t, size, tbl
  <1>9. /\ [map EXCEPT ![page] = Leaf(paddr)] \in PageMaps
        /\ Labelled(leaf, size, base, level, prefix, [map EXCEPT ![page] = Leaf(paddr)])
    BY <1>6, <1>7, <1>8, LeafWritten
  <1> DEFINE map2 == [map EXCEPT ![page] = Leaf(paddr)]
             new == [tables |-> leaf, size |-> size]
  <1> HIDE DEF leaf, map2
  <1>10. new.tables = leaf /\ new.size = size
    OBVIOUS
  <1> HIDE DEF new
  <1>11. new = [tables |-> new.tables, size |-> new.size]
    BY <1>10 DEF new
  <1>12. Labelled(new.tables, new.size, base, level, prefix, map2)
    BY <1>9, <1>10 DEF map2
  <1>13. Shows(new, base, map2)
    BY <1>11, <1>12 DEF Shows
  <1> QED
    BY <1>5, <1>9, <1>13 DEF new, map2

-----------------------------------------------------------------------------
(***************************************************************************)
(* fill_concrete_buffer and the loop of materialize_pagetable.             *)
(***************************************************************************)
MappingType == [vaddr : Nat, paddr : Nat, size : Nat]

\* The turns of fill_concrete_buffer.
Fill(buf, base, map) ==
    LET fill[n \in 0 .. map.size \div PageSize] ==
            IF n = 0 THEN buf
            ELSE FillConcretePage(fill[n - 1], base,
                                  map.vaddr + (n - 1) * PageSize,
                                  map.paddr + (n - 1) * PageSize)
    IN  fill

LEMMA FillTurns ==
    ASSUME NEW buf, NEW base, NEW map \in MappingType
    PROVE  /\ map.size \div PageSize \in Nat
           /\ Fill(buf, base, map)[0] = buf
           /\ \A k \in 1 .. map.size \div PageSize :
                 Fill(buf, base, map)[k] =
                    FillConcretePage(Fill(buf, base, map)[k - 1], base,
                                     map.vaddr + (k - 1) * PageSize,
                                     map.paddr + (k - 1) * PageSize)
  <1> DEFINE start == buf
             Turn(f, k) == FillConcretePage(f, base, map.vaddr + (k - 1) * PageSize,
                                           map.paddr + (k - 1) * PageSize)
             n == map.size \div PageSize
             Body(g, m) == [k \in 0 .. m |-> IF k = 0 THEN start ELSE Turn(g[k - 1], k)]
             Exists(m) == m <= n => \E g : g = Body(g, m)
             S == {m \in Nat : Exists(m)}
  <1>1. n \in Nat
    BY SizeAssumption, Divided DEF MappingType
  <1> HIDE DEF start, Turn, n
  <1>2. 0 \in S
    <2> DEFINE g == [k \in 0 .. 0 |-> start]
    <2>1. g = Body(g, 0)
      OBVIOUS
    <2>2. Exists(0)
      BY <2>1
    <2> HIDE DEF Exists
    <2> QED
      BY <2>2
  <1>3. ASSUME NEW m \in Nat, Exists(m) PROVE Exists(m + 1)
    <2> SUFFICES ASSUME m + 1 <= n PROVE \E g : g = Body(g, m + 1)
      OBVIOUS
    <2>1. PICK g : g = Body(g, m)
      BY <1>1, <1>3
    <2> DEFINE h == [k \in 0 .. m + 1 |-> IF k = m + 1 THEN Turn(g[m], m + 1) ELSE g[k]]
    <2>2. ASSUME NEW k \in 0 .. m + 1 PROVE h[k] = Body(h, m + 1)[k]
      <3>1. CASE k = m + 1
        <4>1. m \in 0 .. m + 1 /\ m # m + 1 /\ k - 1 = m /\ k # 0
          BY <3>1
        <4>2. h[m] = g[m] /\ h[k] = Turn(g[m], k)
          BY <3>1, <4>1
        <4> QED
          BY <4>1, <4>2
      <3>2. CASE k # m + 1
        <4>1. k \in 0 .. m /\ h[k] = g[k]
          BY <3>2
        <4>2. g[k] = IF k = 0 THEN start ELSE Turn(g[k - 1], k)
          BY <2>1, <4>1
        <4>3. k # 0 => h[k - 1] = g[k - 1]
          <5>1. k # 0 => k - 1 \in 0 .. m + 1 /\ k - 1 # m + 1
            BY <4>1
          <5> QED
            BY <5>1
        <4> QED
          BY <4>1, <4>2, <4>3
      <3> QED
        BY <3>1, <3>2
    <2>3. h = Body(h, m + 1)
      BY <2>2
    <2> QED
      BY <2>3
  <1>4. \E g : g = Body(g, n)
    <2> HIDE DEF Body
    <2>1. S = Nat
      <3> HIDE DEF Exists
      <3>1. S \in SUBSET Nat /\ \A m \in S : m + 1 \in S
        BY <1>3
      <3> HIDE DEF S
      <3> QED
        BY <1>2, <3>1, SetInduction
    <2>2. n <= n
      BY <1>1
    <2> QED
      BY <1>1, <2>1, <2>2
  <1> DEFINE f == Fill(buf, base, map)
  <1>5. f = Body(f, n)
    BY <1>4 DEF Fill, Turn, start, n
  <1> HIDE DEF f
  <1>6. f[0] = start
    BY <1>1, <1>5
  <1>7. \A k \in 1 .. n : f[k] = Turn(f[k - 1], k)
    <2> SUFFICES ASSUME NEW k \in 1 .. n PROVE f[k] = Turn(f[k - 1], k)
      OBVIOUS
    <2>1. k \in 0 .. n /\ k # 0
      BY <1>1
    <2> QED
      BY <1>5, <2>1
  <1> QED
    BY <1>1, <1>6, <1>7 DEF f, start, Turn, n

\* The turns of materialize_pagetable.
Turns(maps, base) ==
    LET concrete[n \in 0 .. Len(maps)] ==
            IF n = 0 THEN [tables |-> [t \in {0} |-> EmptyTable], size |-> PageSize]
            ELSE FillConcreteBuffer(concrete[n - 1], base, maps[n])
    IN  concrete

LEMMA ConcreteTurns ==
    ASSUME NEW maps, Len(maps) \in Nat, NEW base
    PROVE  /\ Turns(maps, base)[0] = [tables |-> [t \in {0} |-> EmptyTable], size |-> PageSize]
           /\ \A k \in 1 .. Len(maps) :
                 Turns(maps, base)[k] =
                    FillConcreteBuffer(Turns(maps, base)[k - 1], base, maps[k])
  <1> DEFINE start == [tables |-> [t \in {0} |-> EmptyTable], size |-> PageSize]
             Turn(f, k) == FillConcreteBuffer(f, base, maps[k])
             n == Len(maps)
             Body(g, m) == [k \in 0 .. m |-> IF k = 0 THEN start ELSE Turn(g[k - 1], k)]
             Exists(m) == m <= n => \E g : g = Body(g, m)
             S == {m \in Nat : Exists(m)}
  <1>1. n \in Nat
    OBVIOUS
  <1> HIDE DEF start, Turn, n
  <1>2. 0 \in S
    <2> DEFINE g == [k \in 0 .. 0 |-> start]
    <2>1. g = Body(g, 0)
      OBVIOUS
    <2>2. Exists(0)
      BY <2>1
    <2> HIDE DEF Exists
    <2> QED
      BY <2>2
  <1>3. ASSUME NEW m \in Nat, Exists(m) PROVE Exists(m + 1)
    <2> SUFFICES ASSUME m + 1 <= n PROVE \E g : g = Body(g, m + 1)
      OBVIOUS
    <2>1. PICK g : g = Body(g, m)
      BY <1>1, <1>3
    <2> DEFINE h == [k \in 0 .. m + 1 |-> IF k = m + 1 THEN Turn(g[m], m + 1) ELSE g[k]]
    <2>2. ASSUME NEW k \in 0 .. m + 1 PROVE h[k] = Body(h, m + 1)[k]
      <3>1. CASE k = m + 1
        <4>1. m \in 0 .. m + 1 /\ m # m + 1 /\ k - 1 = m /\ k # 0
          BY <3>1
        <4>2. h[m] = g[m] /\ h[k] = Turn(g[m], k)
          BY <3>1, <4>1
        <4> QED
          BY <4>1, <4>2
      <3>2. CASE k # m + 1
        <4>1. k \in 0 .. m /\ h[k] = g[k]
          BY <3>2
        <4>2. g[k] = IF k = 0 THEN start ELSE Turn(g[k - 1], k)
          BY <2>1, <4>1
        <4>3. k # 0 => h[k - 1] = g[k - 1]
          <5>1. k # 0 => k - 1 \in 0 .. m + 1 /\ k - 1 # m + 1
            BY <4>1
          <5> QED
            BY <5>1
        <4> QED
          BY <4>1, <4>2, <4>3
      <3> QED
        BY <3>1, <3>2
    <2>3. h = Body(h, m + 1)
      BY <2>2
    <2> QED
      BY <2>3
  <1>4. \E g : g = Body(g, n)
    <2> HIDE DEF Body
    <2>1. S = Nat
      <3> HIDE DEF Exists
      <3>1. S \in SUBSET Nat /\ \A m \in S : m + 1 \in S
        BY <1>3
      <3> HIDE DEF S
      <3> QED
        BY <1>2, <3>1, SetInduction
    <2>2. n <= n
      BY <1>1
    <2> QED
      BY <1>1, <2>1, <2>2
  <1> DEFINE f == Turns(maps, base)
  <1>5. f = Body(f, n)
    BY <1>4 DEF Turns, Turn, start, n
  <1> HIDE DEF f
  <1>6. f[0] = start
    BY <1>1, <1>5
  <1>7. \A k \in 1 .. n : f[k] = Turn(f[k - 1], k)
    <2> SUFFICES ASSUME NEW k \in 1 .. n PROVE f[k] = Turn(f[k - 1], k)
      OBVIOUS
    <2>1. k \in 0 .. n /\ k # 0
      BY <1>1
    <2> QED
      BY <1>5, <2>1
  <1> QED
    BY <1>6, <1>7 DEF f, start, Turn, n

\* The pages of a list of mappings before one.
Before(maps, n) ==
    UNION {{m} \X (0 .. maps[m].size \div PageSize - 1) : m \in 1 .. n - 1}

\* The pages of one mapping before one.
Start(n, k) == {n} \X (0 .. k - 1)

\* A map has what the last of some pages at every place has.
Drawn(map, maps, done) ==
    \A v \in 0 .. VPages - 1 :
       LET Here == {p \in done : Place(maps, p) = v}
       IN  \/ Here = {} /\ map[v] = NoEntry
           \/ \E p \in Here :
                 /\ \A q \in Here : ~ Later(q, p)
                 /\ map[v] = Leaf(maps[p[1]].paddr + p[2] * PageSize)

\* The tables of a buffer show such a map.
Has(buf, base, maps, done) ==
    \E map \in PageMaps : Shows(buf, base, map) /\ Drawn(map, maps, done)

\* A page behind all others is written over what its place has had.
LEMMA PageDrawn ==
    ASSUME NEW base \in Nat, NEW buf, NEW maps, NEW done \in SUBSET (Nat \X Nat),
           Has(buf, base, maps, done),
           NEW n \in Nat, NEW k \in Nat, maps[n] \in MappingType,
           \A q \in done : Later(<<n, k>>, q)
    PROVE  Has(FillConcretePage(buf, base, maps[n].vaddr + k * PageSize,
                                maps[n].paddr + k * PageSize),
               base, maps, done \union {<<n, k>>})
  <1> DEFINE p == <<n, k>>
             vaddr == maps[n].vaddr + k * PageSize
             paddr == maps[n].paddr + k * PageSize
             page == (vaddr \div PageSize) % VPages
             all == done \union {p}
  <1>1. PICK map \in PageMaps : Shows(buf, base, map) /\ Drawn(map, maps, done)
    BY DEF Has
  <1>2. /\ maps[n].vaddr \in Nat /\ maps[n].paddr \in Nat
        /\ vaddr \in Nat /\ paddr \in Nat
    <2>1. maps[n].vaddr \in Nat /\ maps[n].paddr \in Nat
      BY DEF MappingType
    <2>2. k * PageSize \in Nat
      BY SizeAssumption
    <2> QED
      BY <2>1, <2>2
  <1>3. p[1] = n /\ p[2] = k
    OBVIOUS
  <1>4. page = Place(maps, p) /\ page \in 0 .. VPages - 1 /\ page \in Nat
    <2>1. vaddr \div PageSize = maps[n].vaddr \div PageSize + k
          /\ vaddr \div PageSize \in Nat
      BY <1>2, PageOf
    <2>2. page \in 0 .. VPages - 1
      BY <2>1, PlaceDigits
    <2> QED
      BY <1>3, <2>1, <2>2 DEF Place
  <1> DEFINE map2 == [map EXCEPT ![page] = Leaf(paddr)]
             new == FillConcretePage(buf, base, vaddr, paddr)
  <1>5. map2 \in PageMaps /\ Shows(new, base, map2)
    <2>1. vaddr \in Nat /\ paddr \in Nat /\ page = (vaddr \div PageSize) % VPages
      BY <1>2
    <2> HIDE DEF vaddr, paddr, page
    <2> QED
      BY <1>1, <2>1, PageFilled
  <1>6. map2[page] = Leaf(paddr) /\ \A v \in Nat : v # page => map2[v] = map[v]
    BY <1>1, <1>4 DEF PageMaps
  <1> HIDE DEF map2, page, new
  <1>7. \A q \in all : ~ Later(q, p)
    <2> SUFFICES ASSUME NEW q \in all PROVE ~ Later(q, p)
      OBVIOUS
    <2>1. CASE q = p
      BY <1>3, <2>1 DEF Later
    <2>2. CASE q \in done
      <3>1. Later(p, q) /\ q[1] \in Nat /\ q[2] \in Nat
        BY <2>2
      <3> QED
        BY <1>3, <3>1 DEF Later
    <2> QED
      BY <2>1, <2>2
  <1>8. ASSUME NEW v \in 0 .. VPages - 1
        PROVE  \/ {q \in all : Place(maps, q) = v} = {} /\ map2[v] = NoEntry
               \/ \E q \in {s \in all : Place(maps, s) = v} :
                     /\ \A r \in {s \in all : Place(maps, s) = v} : ~ Later(r, q)
                     /\ map2[v] = Leaf(maps[q[1]].paddr + q[2] * PageSize)
    <2>1. CASE v = page
      <3>1. p \in {q \in all : Place(maps, q) = v}
        BY <1>4, <2>1
      <3>2. map2[v] = Leaf(maps[p[1]].paddr + p[2] * PageSize)
        BY <1>3, <1>6, <2>1
      <3>3. \A r \in {q \in all : Place(maps, q) = v} : ~ Later(r, p)
        BY <1>7
      <3> HIDE DEF p, all
      <3> QED
        BY <3>1, <3>2, <3>3
    <2>2. CASE v # page
      <3>1. {q \in all : Place(maps, q) = v} = {q \in done : Place(maps, q) = v}
        BY <1>4, <2>2
      <3>2. map2[v] = map[v]
        BY <1>6, <2>2
      <3>3. \/ {q \in done : Place(maps, q) = v} = {} /\ map[v] = NoEntry
            \/ \E q \in {s \in done : Place(maps, s) = v} :
                  /\ \A r \in {s \in done : Place(maps, s) = v} : ~ Later(r, q)
                  /\ map[v] = Leaf(maps[q[1]].paddr + q[2] * PageSize)
        BY <1>1 DEF Drawn
      <3> QED
        BY <3>1, <3>2, <3>3
    <2> QED
      BY <2>1, <2>2
  <1>9. Drawn(map2, maps, all)
    BY <1>8, Zenon DEF Drawn
  <1> QED
    BY <1>5, <1>9 DEF Has, new

\* The pages of a mapping behind those of the mappings before it.
LEMMA MappingDrawn ==
    ASSUME NEW base \in Nat, NEW buf, NEW maps, NEW n \in Nat \ {0},
           \A m \in 1 .. n : maps[m] \in MappingType,
           Has(buf, base, maps, Before(maps, n))
    PROVE  Has(FillConcreteBuffer(buf, base, maps[n]), base, maps, Before(maps, n + 1))
  <1> DEFINE map == maps[n]
             fill == Fill(buf, base, map)
             pages == map.size \div PageSize
             done == Before(maps, n)
             S == {k \in Nat : k <= pages =>
                      Has(fill[k], base, maps, done \union Start(n, k))}
  <1>1. n \in 1 .. n /\ map \in MappingType
    OBVIOUS
  <1> HIDE DEF map
  <1>2. /\ pages \in Nat /\ fill[0] = buf
        /\ \A k \in 1 .. pages :
              fill[k] = FillConcretePage(fill[k - 1], base,
                                         map.vaddr + (k - 1) * PageSize,
                                         map.paddr + (k - 1) * PageSize)
    BY <1>1, FillTurns
  <1>3. FillConcreteBuffer(buf, base, map) = fill[pages]
    BY DEF FillConcreteBuffer, Fill
  <1> HIDE DEF pages, fill
  <1>4. \A q \in done : q \in Nat \X Nat /\ q[1] < n
    <2> SUFFICES ASSUME NEW q \in done PROVE q \in Nat \X Nat /\ q[1] < n
      OBVIOUS
    <2>1. PICK m \in 1 .. n - 1 : q \in {m} \X (0 .. maps[m].size \div PageSize - 1)
      BY DEF Before
    <2>2. m \in 1 .. n /\ maps[m].size \in Nat
      BY <2>1 DEF MappingType
    <2>3. maps[m].size \div PageSize \in Nat
      BY <2>2, SizeAssumption, Divided
    <2> QED
      BY <2>1, <2>3
  <1> HIDE DEF done
  <1>5. 0 \in S
    <2>1. Start(n, 0) = {}
      BY DEF Start
    <2>2. done \union Start(n, 0) = done
      BY <2>1
    <2> QED
      BY <1>2, <2>2 DEF done
  <1>6. \A k \in S : k + 1 \in S
    <2> SUFFICES ASSUME NEW k \in Nat, k + 1 <= pages,
                        Has(fill[k], base, maps, done \union Start(n, k))
                 PROVE  Has(fill[k + 1], base, maps, done \union Start(n, k + 1))
      BY <1>2
    <2> DEFINE so == done \union Start(n, k)
    <2>1. /\ so \in SUBSET (Nat \X Nat)
          /\ \A q \in so : Later(<<n, k>>, q)
      <3>1. ASSUME NEW q \in so PROVE q \in Nat \X Nat /\ Later(<<n, k>>, q)
        <4>1. CASE q \in done
          BY <1>4, <4>1 DEF Later
        <4>2. CASE q \in Start(n, k)
          BY <4>2 DEF Start, Later
        <4> QED
          BY <4>1, <4>2
      <3> QED
        BY <3>1
    <2>2. fill[k + 1] = FillConcretePage(fill[k], base, map.vaddr + k * PageSize,
                                         map.paddr + k * PageSize)
      <3>1. k + 1 \in 1 .. pages /\ (k + 1) - 1 = k
        BY <1>2
      <3> QED
        BY <1>2, <3>1
    <2>3. done \union Start(n, k + 1) = so \union {<<n, k>>}
      <3>1. 0 .. (k + 1) - 1 = (0 .. k - 1) \union {k}
        OBVIOUS
      <3> QED
        BY <3>1 DEF Start
    <2> HIDE DEF so
    <2>4. Has(fill[k], base, maps, so)
      BY DEF so
    <2>5. Has(FillConcretePage(fill[k], base, maps[n].vaddr + k * PageSize,
                               maps[n].paddr + k * PageSize),
              base, maps, so \union {<<n, k>>})
      BY <1>1, <2>1, <2>4, PageDrawn DEF map
    <2> QED
      BY <2>2, <2>3, <2>5 DEF map
  <1>7. pages \in S
    <2>1. S \in SUBSET Nat
      OBVIOUS
    <2> HIDE DEF S
    <2> QED
      BY <1>2, <1>5, <1>6, <2>1, SetInduction
  <1>8. Has(fill[pages], base, maps, done \union Start(n, pages))
    BY <1>2, <1>7
  <1>9. done \union Start(n, pages) = Before(maps, n + 1)
    <2>1. 1 .. (n + 1) - 1 = (1 .. n - 1) \union {n}
      OBVIOUS
    <2>2. Start(n, pages) = {n} \X (0 .. maps[n].size \div PageSize - 1)
      BY DEF Start, pages, map
    <2> QED
      BY <2>1, <2>2 DEF done, Before
  <1> QED
    BY <1>3, <1>8, <1>9 DEF map

\* The buffer at the start of materialize_pagetable maps nothing.
LEMMA NothingDrawn ==
    ASSUME NEW base \in Nat, NEW maps
    PROVE  Has([tables |-> [t \in {0} |-> EmptyTable], size |-> PageSize],
               base, maps, Before(maps, 1))
  <1> DEFINE tbl == [t \in {0} |-> EmptyTable]
             level == [t \in {0} |-> PageLevel]
             prefix == [t \in {0} |-> 0]
             map == [page \in Nat |-> NoEntry]
             buf == [tables |-> tbl, size |-> PageSize]
  <1>1. /\ PageSize \in Nat \ {0} /\ PageLevel \in Nat \ {0} /\ PgdSize \in Nat \ {0}
        /\ Aligned(PageSize)
    <2>1. PageSize \in Nat \ {0} /\ PageLevel \in Nat \ {0} /\ PgdSize \in Nat \ {0}
      BY SizeAssumption
    <2>2. /\ (PageSize * 1 + 0) % PageSize = 0 /\ PageSize * 1 + 0 = PageSize
      BY <2>1, DividedOnce
    <2> QED
      BY <2>1, <2>2 DEF Aligned
  <1>2. Offsets(PageSize) = {0}
    <2>1. 0 \in Offsets(PageSize)
      BY <1>1, NextOffset
    <2>2. ASSUME NEW t \in Offsets(PageSize) PROVE t = 0
      <3>1. t \in 0 .. PageSize - 1 /\ t % PageSize = 0
        BY DEF Offsets, Aligned
      <3>2. t % PageSize = t
        BY <1>1, <3>1, Small
      <3> QED
        BY <3>1, <3>2
    <2> QED
      BY <2>1, <2>2
  <1>3. map \in PageMaps /\ \A page \in Nat : map[page] = NoEntry
    BY DEF PageMaps
  <1>4. /\ tbl \in [Offsets(PageSize) -> [Indexes -> Entries]]
        /\ \A x \in Indexes : tbl[0][x] = NoEntry
    <2>1. NoEntry \in Entries
      BY EntryKinds, 0 \in Nat
    <2>2. EmptyTable \in [Indexes -> Entries] /\ \A x \in Indexes : EmptyTable[x] = NoEntry
      BY <2>1 DEF EmptyTable, Indexes
    <2> QED
      BY <1>2, <2>2
  <1>5. /\ level \in [Offsets(PageSize) -> 1 .. PageLevel]
        /\ prefix \in [Offsets(PageSize) -> Nat]
        /\ level[0] = PageLevel /\ prefix[0] = 0
    BY <1>1, <1>2
  <1>6. \A x \in Indexes : PgdSize * prefix[0] + x \in Nat
    BY <1>1 DEF Indexes
  <1> HIDE DEF tbl, level, prefix, map
  <1>7. Labelled(tbl, PageSize, base, level, prefix, map)
    <2>1. \A t \in Offsets(PageSize), x \in Indexes :
             IF level[t] = 1 THEN tbl[t][x] = map[PgdSize * prefix[t] + x]
             ELSE \/ tbl[t][x] = NoEntry
                  \/ \E u \in Offsets(PageSize) : Leads(tbl, base, level, prefix, t, x, u)
      BY <1>2, <1>3, <1>4, <1>6
    <2>2. \A t, u \in Offsets(PageSize) : t = u
      BY <1>2
    <2>3. Offsets(PageSize) \ {0} = {}
      BY <1>2
    <2> QED
      BY <1>1, <1>3, <1>4, <1>5, <2>1, <2>2, <2>3 DEF Labelled
  <1>8. buf.tables = tbl /\ buf.size = PageSize
    OBVIOUS
  <1>9. Shows(buf, base, map)
    <2>1. buf = [tables |-> buf.tables, size |-> buf.size]
      BY <1>8
    <2> HIDE DEF buf
    <2> QED
      BY <1>7, <1>8, <2>1 DEF Shows
  <1>10. Before(maps, 1) = {}
    <2>1. 1 .. 1 - 1 = {}
      OBVIOUS
    <2> QED
      BY <2>1 DEF Before
  <1>11. Drawn(map, maps, Before(maps, 1))
    <2>1. \A v \in 0 .. VPages - 1 : map[v] = NoEntry
      <3>1. VPages \in Int
        BY <1>1, Spans DEF VPages
      <3> QED
        BY <1>3, <3>1
    <2>2. \A v : {p \in Before(maps, 1) : Place(maps, p) = v} = {}
      BY <1>10
    <2> QED
      BY <2>1, <2>2, Zenon DEF Drawn
  <1> QED
    BY <1>3, <1>9, <1>11 DEF Has, tbl

\* The tables that materialize_pagetable makes map the pages of the list.
LEMMA ConcreteDrawn ==
    ASSUME NEW base \in Nat, NEW maps \in Seq(MappingType)
    PROVE  Has(Concrete(maps, base), base, maps, PagesOf(maps))
  <1> DEFINE n == Len(maps)
             turns == Turns(maps, base)
             S == {k \in Nat : k <= n => Has(turns[k], base, maps, Before(maps, k + 1))}
  <1>1. n \in Nat /\ \A m \in 1 .. n : maps[m] \in MappingType
    BY LenProperties, ElementOfSeq
  <1>2. /\ turns[0] = [tables |-> [t \in {0} |-> EmptyTable], size |-> PageSize]
        /\ \A k \in 1 .. n : turns[k] = FillConcreteBuffer(turns[k - 1], base, maps[k])
    BY <1>1, ConcreteTurns
  <1>3. Concrete(maps, base) = turns[n]
    BY DEF Concrete, Turns
  <1>4. PagesOf(maps) = Before(maps, n + 1)
    <2>1. DOMAIN maps = 1 .. (n + 1) - 1
      BY <1>1, LenProperties
    <2> HIDE DEF n
    <2> QED
      BY <2>1 DEF PagesOf, Before
  <1> HIDE DEF n, turns
  <1>5. 0 \in S
    <2>1. Has(turns[0], base, maps, Before(maps, 1))
      BY <1>2, NothingDrawn
    <2> QED
      BY <2>1
  <1>6. \A k \in S : k + 1 \in S
    <2> SUFFICES ASSUME NEW k \in Nat, k + 1 <= n,
                        Has(turns[k], base, maps, Before(maps, k + 1))
                 PROVE  Has(turns[k + 1], base, maps, Before(maps, (k + 1) + 1))
      BY <1>1
    <2>1. k + 1 \in 1 .. n /\ (k + 1) - 1 = k /\ k + 1 \in Nat \ {0}
          /\ \A m \in 1 .. k + 1 : m \in 1 .. n
      BY <1>1
    <2>2. turns[k + 1] = FillConcreteBuffer(turns[k], base, maps[k + 1])
      BY <1>2, <2>1
    <2>3. \A m \in 1 .. k + 1 : maps[m] \in MappingType
      BY <1>1, <2>1
    <2> QED
      BY <2>1, <2>2, <2>3, MappingDrawn
  <1>7. n \in S
    <2>1. S \in SUBSET Nat
      OBVIOUS
    <2> HIDE DEF S
    <2> QED
      BY <1>1, <1>5, <1>6, <2>1, SetInduction
  <1> QED
    BY <1>1, <1>3, <1>4, <1>7

-----------------------------------------------------------------------------
(***************************************************************************)
(* What the processor finds.                                               *)
(***************************************************************************)
\* The tables of a page by level, as Translate has them.
Found(vaddr) ==
    LET table[lvl \in 1 .. PageLevel] ==
            IF lvl = PageLevel THEN 0
            ELSE LET up == table[lvl + 1]
                 IN  IF up = -1 THEN -1
                     ELSE LET e == tables[up][PteIndexAtLevel(vaddr, lvl + 1)]
                          IN  IF e = NoEntry THEN -1 ELSE e.addr - at
    IN  table

\* There are such tables.
LEMMA TablesFound ==
    ASSUME NEW vaddr
    PROVE  /\ Found(vaddr)[PageLevel] = 0
           /\ \A lvl \in 1 .. PageLevel : lvl # PageLevel =>
                 LET up == Found(vaddr)[lvl + 1]
                     e  == tables[up][PteIndexAtLevel(vaddr, lvl + 1)]
                 IN  Found(vaddr)[lvl] = IF up = -1 THEN -1
                                         ELSE IF e = NoEntry THEN -1 ELSE e.addr - at
  <1> DEFINE start == 0
             Turn(up, lvl) == IF up = -1 THEN -1
                              ELSE IF tables[up][PteIndexAtLevel(vaddr, lvl)] = NoEntry
                                   THEN -1
                                   ELSE tables[up][PteIndexAtLevel(vaddr, lvl)].addr - at
             Body(g, m) == [lvl \in m .. PageLevel |->
                               IF lvl = PageLevel THEN start ELSE Turn(g[lvl + 1], lvl + 1)]
             Exists(m) == \E g : g = Body(g, m)
             S == {m \in 1 .. PageLevel : Exists(m)}
  <1>1. PageLevel \in Nat \ {0}
    BY SizeAssumption
  <1> HIDE DEF start, Turn
  <1>2. PageLevel \in S
    <2> DEFINE g == [lvl \in PageLevel .. PageLevel |-> start]
    <2>1. g = Body(g, PageLevel)
      BY <1>1
    <2>2. Exists(PageLevel)
      BY <2>1
    <2> HIDE DEF Exists
    <2> QED
      BY <1>1, <2>2
  <1>3. ASSUME NEW m \in 1 .. PageLevel, m # PageLevel, Exists(m + 1) PROVE Exists(m)
    <2>1. PICK g : g = Body(g, m + 1)
      BY <1>3
    <2> DEFINE h == [lvl \in m .. PageLevel |->
                        IF lvl = m THEN Turn(g[m + 1], m + 1) ELSE g[lvl]]
    <2>2. ASSUME NEW lvl \in m .. PageLevel PROVE h[lvl] = Body(h, m)[lvl]
      <3>1. CASE lvl = m
        <4>1. m + 1 \in m .. PageLevel /\ m + 1 # m /\ h[m + 1] = g[m + 1]
          <5>1. m + 1 \in m .. PageLevel /\ m + 1 # m
            BY <1>1, <1>3
          <5> QED
            BY <5>1
        <4> QED
          BY <1>3, <3>1, <4>1
      <3>2. CASE lvl # m
        <4>1. lvl \in m + 1 .. PageLevel /\ h[lvl] = g[lvl]
          BY <3>2
        <4>2. g[lvl] = IF lvl = PageLevel THEN start ELSE Turn(g[lvl + 1], lvl + 1)
          BY <2>1, <4>1
        <4>3. lvl # PageLevel => h[lvl + 1] = g[lvl + 1]
          <5>1. lvl # PageLevel => lvl + 1 \in m .. PageLevel /\ lvl + 1 # m
            BY <1>1, <4>1
          <5> QED
            BY <5>1
        <4> QED
          BY <4>1, <4>2, <4>3
      <3> QED
        BY <3>1, <3>2
    <2>3. h = Body(h, m)
      BY <2>2
    <2> QED
      BY <2>3
  <1>4. Exists(1)
    <2>1. 1 .. PageLevel \subseteq S
      <3> HIDE DEF Exists
      <3>1. \A m \in 1 .. PageLevel : m # PageLevel /\ m + 1 \in S => m \in S
        BY <1>3
      <3> HIDE DEF S
      <3> QED
        BY <1>1, <1>2, <3>1, LevelsDown
    <2> QED
      BY <1>1, <2>1
  <1> DEFINE walk == Found(vaddr)
  <1>5. walk = Body(walk, 1)
    BY <1>4 DEF Found, Turn, start
  <1> HIDE DEF walk
  <1>6. PageLevel \in 1 .. PageLevel
    BY <1>1
  <1>7. walk[PageLevel] = start
    BY <1>5, <1>6
  <1>8. \A lvl \in 1 .. PageLevel : lvl # PageLevel =>
           walk[lvl] = Turn(walk[lvl + 1], lvl + 1)
    BY <1>5
  <1> QED
    BY <1>7, <1>8 DEF walk, start, Turn

\* A mapped page has a table at every level.
LEMMA NoHole ==
    ASSUME NEW base \in Nat, NEW tbl, NEW size, NEW level, NEW prefix,
           NEW map \in PageMaps, Labelled(tbl, size, base, level, prefix, map),
           NEW page \in Nat, map[page] # NoEntry
    PROVE  \A l \in 1 .. PageLevel :
              \E u \in Offsets(size) : level[u] = l /\ prefix[u] = Prefix(page, l)
  <1> DEFINE S == {l \in 1 .. PageLevel : \E u \in Offsets(size) :
                      level[u] = l /\ prefix[u] = Prefix(page, l)}
  <1>1. PageLevel \in Nat \ {0} /\ 1 \in 1 .. PageLevel
    BY SizeAssumption
  <1>2. \A u \in Offsets(size) : level[u] \in 1 .. PageLevel /\ prefix[u] \in Nat
    BY DEF Labelled
  <1>3. 1 \in S
    <2>1. PICK t \in Offsets(size), x \in Indexes :
             level[t] = 1 /\ page = PgdSize * prefix[t] + x
      BY DEF Labelled
    <2>2. /\ page = PgdSize * Prefix(page, 1) + Digit(page, 1)
          /\ Prefix(page, 1) \in Nat /\ Digit(page, 1) \in Indexes
      BY <1>1, Digits
    <2>3. prefix[t] = Prefix(page, 1)
      BY <1>2, <2>1, <2>2, OneEntry
    <2> QED
      BY <1>1, <2>1, <2>3
  <1>4. \A l \in 1 .. PageLevel : l # PageLevel /\ l \in S => l + 1 \in S
    <2> SUFFICES ASSUME NEW l \in 1 .. PageLevel, l # PageLevel,
                        NEW u \in Offsets(size), level[u] = l, prefix[u] = Prefix(page, l)
                 PROVE  l + 1 \in S
      OBVIOUS
    <2>1. u # 0
      BY DEF Labelled
    <2>2. PICK t \in Offsets(size), x \in Indexes :
             Leads(tbl, base, level, prefix, t, x, u)
      BY <2>1 DEF Labelled
    <2>3. level[t] = l + 1 /\ prefix[u] = PgdSize * prefix[t] + x
      BY <2>2 DEF Leads
    <2>4. /\ l + 1 \in 1 .. PageLevel
          /\ prefix[u] = PgdSize * Prefix(page, l + 1) + Digit(page, l + 1)
          /\ Prefix(page, l + 1) \in Nat /\ Digit(page, l + 1) \in Indexes
      <3>1. l + 1 \in 1 .. PageLevel
        BY <1>1
      <3> QED
        BY <3>1, Digits
    <2>5. prefix[t] = Prefix(page, l + 1)
      BY <1>2, <2>3, <2>4, OneEntry
    <2> QED
      BY <2>3, <2>4, <2>5
  <1>5. 1 .. PageLevel \subseteq S
    <2> HIDE DEF S
    <2> QED
      BY <1>1, <1>3, <1>4, LevelsUp
  <1> QED
    BY <1>5

\* The processor finds what the tables show.
LEMMA TranslateShown ==
    ASSUME at \in Nat, NEW size, NEW level, NEW prefix, NEW map \in PageMaps,
           Labelled(tables, size, at, level, prefix, map), NEW v \in 0 .. VPages - 1
    PROVE  Translate(v * PageSize) = map[v]
  <1> DEFINE vaddr == v * PageSize
             table == Found(vaddr)
             Right(l) == \/ table[l] = -1 /\ map[v] = NoEntry
                         \/ /\ table[l] \in Offsets(size)
                            /\ level[table[l]] = l /\ prefix[table[l]] = Prefix(v, l)
             S == {l \in 1 .. PageLevel : Right(l)}
  <1>1. /\ PageLevel \in Nat \ {0} /\ 1 \in 1 .. PageLevel /\ PageLevel \in 1 .. PageLevel
        /\ PageSize \in Nat \ {0} /\ VPages \in Int
    BY SizeAssumption, Spans DEF VPages
  <1>2. v \in Nat /\ v < VPages
    BY <1>1
  <1>3. \A l \in 1 .. PageLevel : PteIndexAtLevel(vaddr, l) = Digit(v, l)
    <2>1. (PageSize * v + 0) \div PageSize = v /\ vaddr = PageSize * v + 0
      BY <1>1, <1>2, DividedOnce
    <2>2. vaddr \div PageSize = v
      BY <2>1
    <2> QED
      BY <2>2 DEF PteIndexAtLevel, Digit
  <1>4. \A u \in Offsets(size) : u \in Nat /\ level[u] \in 1 .. PageLevel
                                 /\ prefix[u] \in Nat /\ at + u \in Nat
    BY DEF Labelled, Offsets
  <1>5. /\ table[PageLevel] = 0
        /\ \A l \in 1 .. PageLevel : l # PageLevel =>
              table[l] = IF table[l + 1] = -1 THEN -1
                         ELSE IF tables[table[l + 1]][Digit(v, l + 1)] = NoEntry THEN -1
                              ELSE tables[table[l + 1]][Digit(v, l + 1)].addr - at
    <2>1. \A l \in 1 .. PageLevel : l # PageLevel => l + 1 \in 1 .. PageLevel
      BY <1>1
    <2> HIDE DEF vaddr
    <2> QED
      BY <1>3, <2>1, TablesFound
  <1>6. Translate(vaddr) = IF table[1] = -1 THEN NoEntry ELSE tables[table[1]][Digit(v, 1)]
    <2>1. PteIndexAtLevel(vaddr, 1) = Digit(v, 1)
      BY <1>1, <1>3
    <2>2. Translate(vaddr) = IF table[1] = -1 THEN NoEntry
                             ELSE tables[table[1]][PteIndexAtLevel(vaddr, 1)]
      BY DEF Translate, Found
    <2> QED
      BY <2>1, <2>2
  <1> HIDE DEF vaddr, table
  <1>7. PageLevel \in S
    <2>1. level[0] = PageLevel /\ prefix[0] = 0 /\ 0 \in Offsets(size)
      BY NextOffset DEF Labelled
    <2>2. Prefix(v, PageLevel) = 0
      BY <1>2, Digits
    <2> QED
      BY <1>1, <1>5, <2>1, <2>2
  <1>8. ASSUME NEW l \in 1 .. PageLevel, l # PageLevel, Right(l + 1) PROVE Right(l)
    <2> DEFINE up == table[l + 1]
               x == Digit(v, l + 1)
    <2>1. /\ l + 1 \in 1 .. PageLevel /\ x \in Indexes /\ l + 1 # 1
          /\ Prefix(v, l) = PgdSize * Prefix(v, l + 1) + x
          /\ Prefix(v, l + 1) \in Nat
      <3>1. l + 1 \in 1 .. PageLevel /\ l + 1 # 1
        BY <1>1, <1>8
      <3> QED
        BY <1>2, <1>8, <3>1, Digits
    <2>2. table[l] = IF up = -1 THEN -1
                     ELSE IF tables[up][x] = NoEntry THEN -1 ELSE tables[up][x].addr - at
      BY <1>5, <1>8
    <2>3. CASE up = -1
      <3>1. map[v] = NoEntry
        BY <1>4, <1>8, <2>3
      <3> QED
        BY <2>2, <2>3, <3>1
    <2>4. CASE up # -1
      <3>1. up \in Offsets(size) /\ level[up] = l + 1 /\ prefix[up] = Prefix(v, l + 1)
        BY <1>8, <2>4
      <3> HIDE DEF up, x
      <3>2. CASE tables[up][x] = NoEntry
        <4>1. ASSUME map[v] # NoEntry PROVE FALSE
          <5>1. PICK u \in Offsets(size) : level[u] = l /\ prefix[u] = Prefix(v, l)
            BY <1>2, <4>1, NoHole
          <5>2. u # 0
            BY <1>8, <5>1 DEF Labelled
          <5>3. PICK t \in Offsets(size), y \in Indexes :
                   Leads(tables, at, level, prefix, t, y, u)
            BY <5>2 DEF Labelled
          <5>4. /\ level[t] = l + 1 /\ prefix[u] = PgdSize * prefix[t] + y
                /\ tables[t][y] = TableEntry(at + u)
            BY <5>1, <5>3 DEF Leads
          <5>5. prefix[t] = Prefix(v, l + 1) /\ y = x
            BY <1>4, <2>1, <5>1, <5>4, OneEntry
          <5>6. t = up
            BY <3>1, <5>4, <5>5 DEF Labelled
          <5> QED
            BY <1>4, <3>2, <5>4, <5>5, <5>6, EntryKinds
        <4> QED
          BY <2>2, <2>4, <3>2, <4>1
      <3>3. CASE tables[up][x] # NoEntry
        <4>1. level[up] # 1
          BY <2>1, <3>1
        <4>2. PICK u \in Offsets(size) : Leads(tables, at, level, prefix, up, x, u)
          BY <2>1, <3>1, <3>3, <4>1 DEF Labelled
        <4>3. /\ level[up] = level[u] + 1 /\ prefix[u] = PgdSize * prefix[up] + x
              /\ tables[up][x] = TableEntry(at + u)
          BY <4>2 DEF Leads
        <4>4. tables[up][x].addr - at = u
          <5>1. TableEntry(at + u).addr = at + u
            BY <1>4, EntryKinds
          <5> QED
            BY <1>4, <4>3, <5>1
        <4>5. level[u] = l
          <5>1. level[u] \in Nat /\ l \in Nat
            BY <1>4
          <5>2. l + 1 = level[u] + 1
            BY <3>1, <4>3
          <5> QED
            BY <5>1, <5>2
        <4> QED
          BY <2>1, <2>2, <2>4, <3>1, <3>3, <4>3, <4>4, <4>5
      <3> QED
        BY <3>2, <3>3
    <2> QED
      BY <2>3, <2>4
  <1>9. Right(1)
    <2> HIDE DEF Right
    <2>1. \A l \in 1 .. PageLevel : l # PageLevel /\ l + 1 \in S => l \in S
      BY <1>8
    <2>2. 1 .. PageLevel \subseteq S
      <3> HIDE DEF S
      <3> QED
        BY <1>1, <1>7, <2>1, LevelsDown
    <2> QED
      BY <1>1, <2>2
  <1>10. CASE table[1] = -1
    BY <1>4, <1>6, <1>9, <1>10 DEF vaddr
  <1>11. CASE table[1] # -1
    <2>1. table[1] \in Offsets(size) /\ level[table[1]] = 1
          /\ prefix[table[1]] = Prefix(v, 1)
      BY <1>9, <1>11
    <2>2. Digit(v, 1) \in Indexes /\ v = PgdSize * Prefix(v, 1) + Digit(v, 1)
      BY <1>1, <1>2, Digits
    <2>3. tables[table[1]][Digit(v, 1)] = map[PgdSize * prefix[table[1]] + Digit(v, 1)]
      BY <2>1, <2>2 DEF Labelled
    <2> QED
      BY <1>6, <1>11, <2>1, <2>2, <2>3 DEF vaddr
  <1> QED
    BY <1>10, <1>11

\* Every table but the first has one entry, of one table.
LEMMA OneLink ==
    ASSUME NEW base \in Nat, NEW tbl, NEW size, NEW level, NEW prefix,
           NEW map \in PageMaps, Labelled(tbl, size, base, level, prefix, map),
           NEW t \in Offsets(size), t # 0
    PROVE  \E p \in Offsets(size), x \in Indexes :
              /\ tbl[p][x] = TableEntry(base + t)
              /\ \A q \in Offsets(size), y \in Indexes :
                    tbl[q][y] = tbl[p][x] => q = p /\ y = x
  <1>1. PICK p \in Offsets(size), x \in Indexes :
           Leads(tbl, base, level, prefix, p, x, t)
    BY DEF Labelled
  <1>2. /\ level[p] = level[t] + 1 /\ prefix[t] = PgdSize * prefix[p] + x
        /\ tbl[p][x] = TableEntry(base + t)
    BY <1>1 DEF Leads
  <1>3. \A u \in Offsets(size) : u \in Nat /\ prefix[u] \in Nat /\ base + u \in Nat
    BY DEF Labelled, Offsets
  <1>4. PgdSize \in Nat
    BY SizeAssumption
  <1>5. ASSUME NEW q \in Offsets(size), NEW y \in Indexes, tbl[q][y] = tbl[p][x]
        PROVE  q = p /\ y = x
    <2>1. tbl[q][y] = TableEntry(base + t) /\ tbl[q][y] # NoEntry
          /\ \A paddr \in Nat : tbl[q][y] # Leaf(paddr)
      BY <1>2, <1>3, <1>5, EntryKinds
    <2>2. level[q] # 1
      <3> SUFFICES ASSUME level[q] = 1 PROVE FALSE
        OBVIOUS
      <3>1. tbl[q][y] = map[PgdSize * prefix[q] + y]
        BY DEF Labelled
      <3>2. PgdSize * prefix[q] + y \in Nat
        BY <1>3, <1>4 DEF Indexes
      <3> QED
        BY <2>1, <3>1, <3>2 DEF PageMaps
    <2>3. PICK u \in Offsets(size) : Leads(tbl, base, level, prefix, q, y, u)
      BY <2>1, <2>2 DEF Labelled
    <2>4. /\ level[q] = level[u] + 1 /\ prefix[u] = PgdSize * prefix[q] + y
          /\ tbl[q][y] = TableEntry(base + u)
      BY <2>3 DEF Leads
    <2>5. u = t
      <3>1. TableEntry(base + u).addr = base + u /\ TableEntry(base + t).addr = base + t
        BY <1>3, EntryKinds
      <3> QED
        BY <1>3, <2>1, <2>4, <3>1
    <2>6. prefix[q] = prefix[p] /\ y = x
      BY <1>2, <1>3, <2>4, <2>5, OneEntry
    <2>7. level[q] = level[p]
      BY <1>2, <2>4, <2>5
    <2> QED
      BY <2>6, <2>7 DEF Labelled
  <1> QED
    BY <1>2, <1>5

-----------------------------------------------------------------------------
(***************************************************************************)
(* The page table builder.                                                 *)
(***************************************************************************)
\* The list holds mappings; after materialize_pagetable has returned a table,
\* and until the next call, the buffer and its length are those of the list.
PagetableInv ==
    /\ self = [maps |-> self.maps, capacity |-> self.capacity,
               bufcap |-> self.bufcap, bufsize |-> self.bufsize]
    /\ self.maps \in Seq(MappingType)
    /\ last = [call |-> last.call, ret |-> last.ret]
    /\ last.call = "materialize" /\ last.ret
       => /\ at \in Nat
          /\ tables = Concrete(self.maps, at).tables
          /\ self.bufsize = Concrete(self.maps, at).size

LEMMA PagetableInvStep ==
    ASSUME PagetableInv, [PagetableNext]_pagetableVars
    PROVE  PagetableInv'
  <1>1. CASE UNCHANGED pagetableVars
    BY <1>1 DEF PagetableInv, pagetableVars
  <1>2. ASSUME NEW map \in Mappings, UpdatePagetable(map) PROVE PagetableInv'
    <2>1. map \in MappingType
      BY SizeAssumption DEF MappingType
    <2>2. self'.maps = Append(self.maps, map)
          /\ self' = [maps |-> self'.maps, capacity |-> self'.capacity,
                      bufcap |-> self'.bufcap, bufsize |-> self'.bufsize]
      BY <1>2 DEF UpdatePagetable, PagetableInv
    <2>3. Append(self.maps, map) \in Seq(MappingType)
      BY <2>1, AppendProperties DEF PagetableInv
    <2>4. last' = [call |-> "update", ret |-> TRUE]
      BY <1>2 DEF UpdatePagetable, Return
    <2>5. last'.call = "update" /\ last'.ret = TRUE
      BY <2>4
    <2> QED
      BY <2>2, <2>3, <2>4, <2>5 DEF PagetableInv
  <1>3. ASSUME UNCHANGED self, NEW call, last' = [call |-> call, ret |-> FALSE]
        PROVE  PagetableInv'
    <2>1. last'.call = call /\ last'.ret = FALSE
      BY <1>3
    <2> QED
      BY <1>3, <2>1 DEF PagetableInv
  <1>4. ASSUME NEW map \in Mappings, RefuseUpdate(map) PROVE PagetableInv'
    BY <1>3, <1>4 DEF RefuseUpdate, Return
  <1>5. ASSUME NEW base \in Ats, MaterializePagetable(base) PROVE PagetableInv'
    <2>1. base \in Nat
      BY SizeAssumption
    <2>2. /\ self'.maps = self.maps
          /\ self'.bufsize = Concrete(self.maps, base).size
          /\ self' = [maps |-> self'.maps, capacity |-> self'.capacity,
                      bufcap |-> self'.bufcap, bufsize |-> self'.bufsize]
      BY <1>5 DEF MaterializePagetable, PagetableInv
    <2>3. /\ at' = base /\ tables' = Concrete(self.maps, base).tables
          /\ last' = [call |-> "materialize", ret |-> TRUE]
      BY <1>5 DEF MaterializePagetable, Return
    <2> QED
      BY <2>1, <2>2, <2>3 DEF PagetableInv
  <1>6. ASSUME NEW base \in Ats, RefuseMaterialize(base) PROVE PagetableInv'
    BY <1>3, <1>6 DEF RefuseMaterialize, Return
  <1>7. ASSUME NEW base \in Ats, MaterializeNothing(base) PROVE PagetableInv'
    <2>1. /\ self'.maps = self.maps
          /\ self' = [maps |-> self'.maps, capacity |-> self'.capacity,
                      bufcap |-> self'.bufcap, bufsize |-> self'.bufsize]
      BY <1>7 DEF MaterializeNothing, PagetableInv
    <2>2. last' = [call |-> "materialize", ret |-> FALSE]
      BY <1>7 DEF MaterializeNothing, Return
    <2> QED
      BY <2>1, <2>2 DEF PagetableInv
  <1> QED
    BY <1>1, <1>2, <1>4, <1>5, <1>6, <1>7 DEF PagetableNext

\* The calls of the library keep the list, the buffer and its length together
\* (update_pagetable and materialize_pagetable).
THEOREM PagetableInvariant == PagetableSpec => []PagetableInv
  <1>1. InitializePagetable => PagetableInv
    <2> SUFFICES ASSUME InitializePagetable PROVE PagetableInv
      OBVIOUS
    <2>1. last = [call |-> "none", ret |-> TRUE] /\ last.call = "none"
      BY DEF InitializePagetable, NoCall
    <2>2. self.maps = <<>> /\ <<>> \in Seq(MappingType)
      BY EmptySeq DEF InitializePagetable
    <2>3. self = [maps |-> self.maps, capacity |-> self.capacity,
                  bufcap |-> self.bufcap, bufsize |-> self.bufsize]
      BY DEF InitializePagetable
    <2> QED
      BY <2>1, <2>2, <2>3 DEF PagetableInv
  <1>2. PagetableInv /\ [PagetableNext]_pagetableVars => PagetableInv'
    BY PagetableInvStep
  <1> QED
    BY <1>1, <1>2, PTL DEF PagetableSpec

\* What materialize_pagetable returns has labels.
LEMMA MaterializedShown ==
    ASSUME PagetableInv, Materialized
    PROVE  /\ at \in Nat
           /\ \E map \in PageMaps :
                 /\ Drawn(map, self.maps, PagesOf(self.maps))
                 /\ \E level, prefix :
                       Labelled(tables, self.bufsize, at, level, prefix, map)
  <1>1. at \in Nat /\ Has(Concrete(self.maps, at), at, self.maps, PagesOf(self.maps))
    BY ConcreteDrawn DEF PagetableInv, Materialized
  <1> QED
    BY <1>1 DEF PagetableInv, Materialized, Has, Shows

\* The tables that materialize_pagetable returns map the pages of the list
\* of mappings, each on what the last mapping of its place says, and no other
\* page, for any number of levels and entries and any list.
THEOREM TableIsTheMap == PagetableSpec => []ConcreteMap
  <1>1. PagetableInv => ConcreteMap
    <2> SUFFICES ASSUME PagetableInv, Materialized PROVE ConcreteMap
      BY DEF ConcreteMap
    <2>1. PICK map \in PageMaps : /\ Drawn(map, self.maps, PagesOf(self.maps))
                                  /\ \E level, prefix :
                                        Labelled(tables, self.bufsize, at, level, prefix, map)
      BY MaterializedShown
    <2>2. at \in Nat
      BY MaterializedShown
    <2>3. \A v \in 0 .. VPages - 1 : Translate(v * PageSize) = map[v]
      BY <2>1, <2>2, TranslateShown
    <2> QED
      BY <2>1, <2>3 DEF ConcreteMap, Drawn
  <1> QED
    BY <1>1, PagetableInvariant, PTL

\* They fill the length it returns without a gap, each but the first linked
\* from exactly one entry.
THEOREM TableIsDense == PagetableSpec => []ConcreteDense
  <1>1. PagetableInv => ConcreteDense
    <2> SUFFICES ASSUME PagetableInv, Materialized PROVE ConcreteDense
      BY DEF ConcreteDense
    <2>1. PICK map \in PageMaps : \E level, prefix :
             Labelled(tables, self.bufsize, at, level, prefix, map)
      BY MaterializedShown
    <2>2. PICK level, prefix : Labelled(tables, self.bufsize, at, level, prefix, map)
      BY <2>1
    <2>3. at \in Nat
      BY MaterializedShown
    <2>4. DOMAIN tables = Offsets(self.bufsize)
      BY <2>2 DEF Labelled
    <2>5. \A t \in Offsets(self.bufsize) \ {0} :
             \E p \in Offsets(self.bufsize), x \in Indexes :
                /\ tables[p][x] = TableEntry(at + t)
                /\ \A q \in Offsets(self.bufsize), y \in Indexes :
                      tables[q][y] = tables[p][x] => q = p /\ y = x
      BY <2>2, <2>3, OneLink
    <2> QED
      BY <2>4, <2>5 DEF ConcreteDense, Offsets, Indexes
  <1> QED
    BY <1>1, PagetableInvariant, PTL
=============================================================================
