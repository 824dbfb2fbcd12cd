--------------------------- MODULE AllocatorProofs ---------------------------
(***************************************************************************)
(* Proofs about the loader's allocator, for every address width, region,   *)
(* zone and request that satisfy the assumptions of Allocator.             *)
(***************************************************************************)
EXTENDS Allocator, TLAPS

\* A sum or difference that stays below 2^32 is what the code computes.
LEMMA WrapIdentity ==
    ASSUME NEW n \in Nat, n < Word
    PROVE  Wrap(n) = n
BY WordAssumption DEF Wrap

\* Clearing the low bits of an address moves it down by less than align.
LEMMA AlignDownBounds ==
    ASSUME NEW addr \in Nat, NEW align \in Nat \ {0}
    PROVE  /\ AlignDown(addr, align) \in Nat
           /\ AlignDown(addr, align) <= addr
           /\ addr < AlignDown(addr, align) + align
BY DEF AlignDown

\* Rounding down skips no aligned address.
LEMMA AlignDownGreatest ==
    ASSUME NEW addr \in Nat, NEW align \in Nat \ {0},
           NEW x \in Nat, x % align = 0, x <= addr
    PROVE  x <= AlignDown(addr, align)
  <1> DEFINE low == AlignDown(addr, align)
             k   == addr \div align
             m   == x \div align
  <1>1. low \in Nat /\ addr < low + align
    BY AlignDownBounds
  <1>2. k \in Int /\ m \in Int /\ low = align * k /\ x = align * m
    BY DEF AlignDown
  <1> HIDE DEF k, m
  <1>3. align * m < align * k + align
    BY <1>1, <1>2
  <1>4. m < k + 1
    <2>1. CASE m >= k + 1
      <3>1. PICK d \in Nat : m = k + 1 + d
        BY <1>2, <2>1
      <3>2. align * m = align * k + align + align * d
        BY <1>2, <3>1
      <3>3. align * d \in Nat
        BY <3>1
      <3> QED
        BY <1>1, <1>2, <3>2, <3>3, <1>3
    <2> QED
      BY <1>2, <2>1
  <1>5. PICK e \in Nat : k = m + e
    BY <1>2, <1>4
  <1>6. align * k = align * m + align * e /\ align * e \in Nat
    BY <1>2, <1>5
  <1> QED
    BY <1>1, <1>2, <1>6

-----------------------------------------------------------------------------
(***************************************************************************)
(* What one call of the allocator does.                                    *)
(***************************************************************************)
Words == [from : Nat, free : Nat, to : Nat]

\* allocate_transient fails and changes nothing, or moves to down to a block
\* that ends at most at the old one.
LEMMA TransientResult ==
    ASSUME NEW a \in Words, NEW size \in Nat \ {0}, NEW align \in Nat,
           size <= a.to, a.to < Word,
           NEW r, r = AllocateTransient(a, size, align)
    PROVE  \/ r.addr = 0 /\ r.self = a
           \/ /\ r.addr \in Nat
              /\ a.free <= r.addr
              /\ r.addr + size <= a.to
              /\ r.self = [a EXCEPT !.to = r.addr]
  <1> DEFINE top == a.to - size
             ret == IF align # 0 THEN AlignDown(top, align) ELSE top
  <1>1. top \in Nat /\ top < Word /\ top + size <= a.to
    BY WordAssumption DEF Words
  <1>2. Wrap(top) = top
    BY <1>1, WrapIdentity
  <1>3. ret \in Nat /\ ret <= top
    <2> HIDE DEF top
    <2>1. CASE align # 0
      <3>1. align \in Nat \ {0}
        BY <2>1
      <3> QED
        BY <1>1, <2>1, <3>1, AlignDownBounds
    <2> QED
      BY <1>1, <2>1
  <1>4. r = IF ret < a.free
            THEN [addr |-> 0, self |-> a]
            ELSE [addr |-> ret, self |-> [a EXCEPT !.to = ret]]
    BY <1>2 DEF AllocateTransient
  <1> HIDE DEF ret, top
  <1>5. CASE ret < a.free
    BY <1>4, <1>5
  <1>6. CASE ~ (ret < a.free)
    <2>1. a.free <= ret /\ ret + size <= a.to
      BY <1>1, <1>3, <1>6 DEF Words
    <2> QED
      BY <1>3, <1>4, <1>6, <2>1
  <1> QED
    BY <1>5, <1>6

\* allocate_permanent fails and changes nothing, or moves free up past a block
\* that starts at least at the old one.
LEMMA PermanentResult ==
    ASSUME NEW a \in Words, NEW size \in Nat \ {0}, NEW align \in Nat,
           a.free + align + size < Word,
           NEW r, r = AllocatePermanent(a, size, align)
    PROVE  \/ r.addr = 0 /\ r.self = a
           \/ /\ r.addr \in Nat
              /\ a.free <= r.addr
              /\ r.addr + size <= a.to
              /\ r.self = [a EXCEPT !.free = r.addr + size]
  <1> DEFINE up  == AlignDown(a.free, align) + align
             ret == IF align # 0 /\ a.free % align # 0 THEN up ELSE a.free
  <1>1. a.free \in Nat /\ a.to \in Nat
    BY DEF Words
  <1>2. align # 0 => up \in Nat /\ a.free < up /\ up <= a.free + align
    <2> SUFFICES ASSUME align # 0
                 PROVE  up \in Nat /\ a.free < up /\ up <= a.free + align
      OBVIOUS
    <2>1. align \in Nat \ {0}
      OBVIOUS
    <2>2. /\ AlignDown(a.free, align) \in Nat
          /\ AlignDown(a.free, align) <= a.free
          /\ a.free < AlignDown(a.free, align) + align
      BY <1>1, <2>1, AlignDownBounds
    <2> QED
      BY <1>1, <2>1, <2>2
  <1>3. align # 0 => Wrap(up) = up
    <2> HIDE DEF up
    <2> HAVE align # 0
    <2>1. up \in Nat /\ up < Word
      BY <1>1, <1>2, WordAssumption
    <2> QED
      BY <2>1, WrapIdentity
  <1>4. ret \in Nat /\ a.free <= ret /\ ret + size < Word
    BY <1>1, <1>2, WordAssumption
  <1>5. Wrap(ret + size) = ret + size
    BY <1>4, WrapIdentity
  <1>6. r = IF ret + size > a.to
            THEN [addr |-> 0, self |-> a]
            ELSE [addr |-> ret, self |-> [a EXCEPT !.free = ret + size]]
    BY <1>3, <1>5 DEF AllocatePermanent
  <1> HIDE DEF ret, up
  <1>7. CASE ret + size > a.to
    BY <1>6, <1>7
  <1>8. CASE ~ (ret + size > a.to)
    <2>1. ret + size <= a.to
      BY <1>1, <1>4, <1>8
    <2> QED
      BY <1>4, <1>6, <1>8, <2>1
  <1> QED
    BY <1>7, <1>8

\* reserve_zone leaves a zone outside what remains, or does nothing because
\* the zone already is outside.
LEMMA ReserveResult ==
    ASSUME NEW a \in Words, NEW from \in Nat, NEW to \in Nat, from < to,
           a.from = a.free
    PROVE  LET r == ReserveZone(a, from, to)
           IN  \/ r = a /\ (a.to <= from \/ to <= a.from)
               \/ /\ r = [from |-> a.from, free |-> a.free, to |-> from]
                  /\ from < a.to
               \/ /\ r = [from |-> to, free |-> to, to |-> a.to]
                  /\ a.from < to /\ to < a.to
  <1> DEFINE r == ReserveZone(a, from, to)
  <1> DEFINE down == IF from > a.free THEN from - a.free ELSE 0
             up   == IF to < a.to THEN a.to - to ELSE 0
  <1>1. /\ a.from \in Nat /\ a.free \in Nat /\ a.to \in Nat
        /\ a = [from |-> a.from, free |-> a.free, to |-> a.to]
    BY DEF Words
  <1>2. CASE from >= a.to \/ to <= a.from
    BY <1>1, <1>2 DEF ReserveZone
  <1>3. CASE ~ (from >= a.to \/ to <= a.from) /\ down >= up
    BY <1>1, <1>3 DEF ReserveZone
  <1>4. CASE ~ (from >= a.to \/ to <= a.from) /\ ~ (down >= up)
    <2>1. to < a.to
      BY <1>1, <1>4
    <2>2. to > a.free
      BY <1>1, <1>4
    <2> QED
      BY <1>1, <1>4, <2>1, <2>2 DEF ReserveZone
  <1> QED
    BY <1>2, <1>3, <1>4

-----------------------------------------------------------------------------
(***************************************************************************)
(* The inductive invariant.                                                *)
(***************************************************************************)

\* Blocks as Take builds them.
BlockType == [kind : Kinds, from : Nat, to : Nat]

\* Handing out a block adds it, and only it, to the blocks handed out.
LEMMA AppendHanded ==
    ASSUME blocks \in Seq(BlockType), NEW b \in BlockType,
           blocks' = Append(blocks, b)
    PROVE  /\ blocks' \in Seq(BlockType)
           /\ blocks' # <<>>
           /\ Handed' = Handed \union {b}
           /\ DOMAIN blocks' = DOMAIN blocks \union {Len(blocks) + 1}
           /\ \A i \in DOMAIN blocks : blocks'[i] = blocks[i]
           /\ blocks'[Len(blocks) + 1] = b
           /\ Len(blocks) + 1 \notin DOMAIN blocks
  <1>1. /\ blocks' \in Seq(BlockType)
        /\ blocks' # <<>>
        /\ DOMAIN blocks' = DOMAIN blocks \union {Len(blocks) + 1}
        /\ \A i \in DOMAIN blocks : blocks'[i] = blocks[i]
        /\ blocks'[Len(blocks) + 1] = b
        /\ Len(blocks) + 1 \notin DOMAIN blocks
    OBVIOUS
  <1>2. Handed' = Handed \union {b}
    BY <1>1 DEF Handed
  <1> QED
    BY <1>1, <1>2

\* Init establishes the invariant.
LEMMA InitInvariant == Init => AllocatorInv
  <1> SUFFICES ASSUME Init PROVE AllocatorInv
    OBVIOUS
  <1>1. /\ region \in Regions
        /\ region[1] \in Nat /\ region[2] \in Nat
        /\ region[1] <= region[2] /\ region[2] <= Word
    BY RangeAssumption DEF Init
  <1>2. self = [from |-> region[1], free |-> region[1], to |-> region[2]]
    BY DEF Init, AllocatorInitialize
  <1>3. blocks = <<>> /\ zones = {} /\ Handed = {}
    BY DEF Init, Handed
  <1>4. TypeOK
    BY <1>1, <1>2, <1>3, WordAssumption DEF TypeOK
  <1>5. Bounded
    <2>1. \A s \in Sizes : s \in Nat /\ s <= region[1]
      BY <1>1, RangeAssumption, GuardAssumption
    <2> QED
      BY <1>1, <1>2, <2>1 DEF Bounded
  <1> QED
    BY <1>2, <1>3, <1>4, <1>5
       DEF AllocatorInv, Ordered, ZonesOutside, BlocksOutside, ZonesAvoided,
           BlocksApart

\* A reservation keeps it.
LEMMA ReserveInvariant ==
    ASSUME AllocatorInv, NEW z \in Zones, Reserve(z)
    PROVE  AllocatorInv'
  <1>1. z[1] \in Nat /\ z[2] \in Nat /\ z[1] < z[2]
    BY RangeAssumption
  <1>2. /\ region \in Regions /\ region[1] \in Nat /\ region[2] \in Nat
        /\ region[2] <= Word
    BY RangeAssumption DEF AllocatorInv, TypeOK
  <1>3. /\ self \in Words
        /\ self.from \in 0 .. Word /\ self.free \in 0 .. Word
        /\ self.to \in 0 .. Word
        /\ self = [from |-> self.from, free |-> self.free, to |-> self.to]
    BY WordAssumption DEF AllocatorInv, TypeOK, Words
  <1>4. /\ blocks = <<>> /\ blocks' = blocks /\ region' = region
        /\ zones' = zones \union {z}
        /\ self' = ReserveZone(self, z[1], z[2])
        /\ Handed = {} /\ Handed' = {}
    BY DEF Reserve, Handed
  <1>5. self.from = self.free
    BY <1>4 DEF AllocatorInv, Ordered
  <1>6. \/ self' = self /\ (self.to <= z[1] \/ z[2] <= self.from)
        \/ /\ self' = [from |-> self.from, free |-> self.free, to |-> z[1]]
           /\ z[1] < self.to
        \/ /\ self' = [from |-> z[2], free |-> z[2], to |-> self.to]
           /\ self.from < z[2] /\ z[2] < self.to
    BY <1>1, <1>3, <1>4, <1>5, ReserveResult
  <1>7. \A s \in Sizes : s \in Nat /\ s <= z[1]
    BY RangeAssumption, GuardAssumption
  <1>8. /\ self.from <= self'.from /\ self'.to <= self.to
        /\ self'.from = self'.free
        /\ self'.from \in 0 .. Word /\ self'.free \in 0 .. Word
        /\ self'.to \in 0 .. Word
        /\ z[2] <= self'.from \/ self'.to <= z[1]
        /\ \A s \in Sizes : s <= self'.to
        /\ self'.free <= region[2]
    <2>1. /\ self.free <= region[2] /\ self.to <= region[2]
          /\ \A s \in Sizes : s <= self.to
      BY DEF AllocatorInv, Bounded
    <2>2. CASE self' = self /\ (self.to <= z[1] \/ z[2] <= self.from)
      BY <1>2, <1>3, <1>5, <2>1, <2>2
    <2>3. CASE /\ self' = [from |-> self.from, free |-> self.free, to |-> z[1]]
               /\ z[1] < self.to
      <3>1. /\ self'.from = self.from /\ self'.free = self.free
            /\ self'.to = z[1] /\ z[1] < self.to
        BY <2>3
      <3> QED
        BY <1>1, <1>2, <1>3, <1>5, <1>7, <2>1, <3>1, WordAssumption
    <2>4. CASE /\ self' = [from |-> z[2], free |-> z[2], to |-> self.to]
               /\ self.from < z[2] /\ z[2] < self.to
      <3>1. /\ self'.from = z[2] /\ self'.free = z[2]
            /\ self'.to = self.to
            /\ self.from < z[2] /\ z[2] < self.to
        BY <2>4
      <3> QED
        BY <1>1, <1>2, <1>3, <1>5, <2>1, <3>1, WordAssumption
    <2> QED
      BY <1>6, <2>2, <2>3, <2>4
  <1>9. TypeOK'
    <2>1. self' \in [from : 0 .. Word, free : 0 .. Word, to : 0 .. Word]
      BY <1>3, <1>6, <1>8
    <2>2. zones' \subseteq Zones
      BY <1>4 DEF AllocatorInv, TypeOK
    <2> QED
      BY <1>2, <1>4, <2>1, <2>2 DEF AllocatorInv, TypeOK
  <1>10. Bounded'
    BY <1>2, <1>3, <1>4, <1>8 DEF AllocatorInv, Bounded
  <1>11. ZonesOutside'
    <2> SUFFICES ASSUME NEW y \in zones'
                 PROVE  y[2] <= self'.from \/ self'.to <= y[1]
      BY DEF ZonesOutside
    <2>1. CASE y = z
      BY <1>8, <2>1
    <2>2. CASE y \in zones
      <3>1. y[1] \in Nat /\ y[2] \in Nat
        BY <2>2, RangeAssumption DEF AllocatorInv, TypeOK
      <3>2. y[2] <= self.from \/ self.to <= y[1]
        BY <2>2 DEF AllocatorInv, ZonesOutside
      <3> QED
        BY <1>3, <1>8, <3>1, <3>2
    <2> QED
      BY <1>4, <2>1, <2>2
  <1> QED
    BY <1>4, <1>8, <1>9, <1>10, <1>11
       DEF AllocatorInv, Ordered, BlocksOutside, ZonesAvoided, BlocksApart

\* What a request finds: a typed allocator, and room enough below the top of
\* the address space for its sums.
LEMMA RequestContext ==
    ASSUME AllocatorInv, NEW size \in Sizes, NEW align \in Aligns
    PROVE  /\ size \in Nat \ {0} /\ align \in Nat
           /\ region \in Regions
           /\ region[1] \in Nat /\ region[2] \in Nat /\ region[2] < Word
           /\ self \in Words
           /\ self = [from |-> self.from, free |-> self.free, to |-> self.to]
           /\ self.from \in Nat /\ self.free \in Nat /\ self.to \in Nat
           /\ size <= region[1] /\ region[1] <= self.from
           /\ self.from <= self.free /\ self.free <= region[2]
           /\ size <= self.to /\ self.to <= region[2]
           /\ self.free + align + size < Word
  <1>1. size \in Nat \ {0} /\ align \in Nat
    BY RangeAssumption
  <1>2. /\ region \in Regions
        /\ region[1] \in Nat /\ region[2] \in Nat
    BY RangeAssumption DEF AllocatorInv, TypeOK
  <1>3. /\ self \in Words
        /\ self = [from |-> self.from, free |-> self.free, to |-> self.to]
        /\ self.from \in Nat /\ self.free \in Nat /\ self.to \in Nat
    BY WordAssumption DEF AllocatorInv, TypeOK, Words
  <1>4. size <= region[1] /\ region[2] + align + size < Word
    BY <1>2, GuardAssumption
  <1>5. /\ region[1] <= self.from
        /\ self.from <= self.free /\ self.free <= region[2]
        /\ size <= self.to /\ self.to <= region[2]
    BY DEF AllocatorInv, Bounded
  <1>6. region[2] < Word /\ self.free + align + size < Word
    BY <1>1, <1>2, <1>3, <1>4, <1>5, WordAssumption
  <1> QED
    BY <1>1, <1>2, <1>3, <1>4, <1>5, <1>6

\* A step that cuts a block from either end of [free, to).
Granted(kind, size, addr) ==
    /\ self.free <= addr
    /\ addr + size <= self.to
    /\ blocks' = Append(blocks, Block(kind, addr, size))
    /\ UNCHANGED <<region, zones>>
    /\ IF kind = "permanent"
       THEN self' = [self EXCEPT !.free = addr + size]
       ELSE self' = [self EXCEPT !.to = addr]

\* Such a step preserves the invariant.
LEMMA GrantInvariant ==
    ASSUME AllocatorInv, NEW size \in Sizes, NEW align \in Aligns,
           NEW kind \in Kinds, NEW addr \in Nat, Granted(kind, size, addr)
    PROVE  AllocatorInv'
  <1> DEFINE b == Block(kind, addr, size)
  <1>0. /\ self.free <= addr /\ addr + size <= self.to
        /\ blocks' = Append(blocks, Block(kind, addr, size))
        /\ region' = region /\ zones' = zones
        /\ IF kind = "permanent"
           THEN self' = [self EXCEPT !.free = addr + size]
           ELSE self' = [self EXCEPT !.to = addr]
    BY DEF Granted
  <1>1. /\ size \in Nat \ {0}
        /\ region \in Regions
        /\ region[1] \in Nat /\ region[2] \in Nat /\ region[2] < Word
        /\ self = [from |-> self.from, free |-> self.free, to |-> self.to]
        /\ self.from \in Nat /\ self.free \in Nat /\ self.to \in Nat
        /\ region[1] <= self.from
        /\ self.from <= self.free /\ self.to <= region[2]
    BY RequestContext
  <1>2. /\ b \in BlockType
        /\ b.kind = kind /\ b.from = addr /\ b.to = addr + size
    BY <1>1 DEF Block, BlockType
  <1> HIDE DEF b
  <1>3. blocks \in Seq(BlockType) /\ blocks' = Append(blocks, b)
    BY <1>0 DEF b, AllocatorInv, TypeOK, BlockType
  <1>4. /\ blocks' \in Seq(BlockType)
        /\ blocks' # <<>>
        /\ Handed' = Handed \union {b}
        /\ DOMAIN blocks' = DOMAIN blocks \union {Len(blocks) + 1}
        /\ \A i \in DOMAIN blocks : blocks'[i] = blocks[i]
        /\ blocks'[Len(blocks) + 1] = b
        /\ Len(blocks) + 1 \notin DOMAIN blocks
    BY <1>2, <1>3, AppendHanded
  <1>5. \A c \in Handed : c \in BlockType /\ c.from \in Nat /\ c.to \in Nat
    <2>1. \A i \in DOMAIN blocks : blocks[i] \in BlockType
      BY <1>3
    <2> QED
      BY <2>1 DEF Handed, BlockType
  <1>6. self'.from = self.from /\ self.free <= self'.free
        /\ self'.to <= self.to /\ self'.free <= self'.to
        /\ self'.from \in 0 .. Word /\ self'.free \in 0 .. Word
        /\ self'.to \in 0 .. Word
        /\ self' \in [from : 0 .. Word, free : 0 .. Word, to : 0 .. Word]
        /\ IF kind = "permanent" THEN self'.free = b.to ELSE self'.to = b.from
    <2>1. CASE kind = "permanent"
      <3>1. self' = [from |-> self.from, free |-> addr + size, to |-> self.to]
        BY <1>0, <1>1, <2>1
      <3>2. /\ self'.from = self.from /\ self'.free = addr + size
            /\ self'.to = self.to
        BY <3>1
      <3>3. /\ self.from \in 0 .. Word /\ addr + size \in 0 .. Word
            /\ self.to \in 0 .. Word
        BY <1>0, <1>1, WordAssumption
      <3> QED
        BY <1>0, <1>1, <1>2, <2>1, <3>1, <3>2, <3>3
    <2>2. CASE kind # "permanent"
      <3>1. self' = [from |-> self.from, free |-> self.free, to |-> addr]
        BY <1>0, <1>1, <2>2
      <3>2. /\ self'.from = self.from /\ self'.free = self.free
            /\ self'.to = addr
        BY <3>1
      <3>3. /\ self.from \in 0 .. Word /\ self.free \in 0 .. Word
            /\ addr \in 0 .. Word
        BY <1>0, <1>1, WordAssumption
      <3> QED
        BY <1>0, <1>1, <1>2, <2>2, <3>1, <3>2, <3>3
    <2> QED
      BY <2>1, <2>2
  <1>7. TypeOK'
    BY <1>0, <1>4, <1>6 DEF AllocatorInv, TypeOK, BlockType
  <1>8. Bounded'
    <2>1. \A s \in Sizes : s \in Nat /\ s <= region[1]
      BY <1>0, <1>1, RangeAssumption, GuardAssumption
    <2> QED
      BY <1>0, <1>1, <1>6, <2>1 DEF AllocatorInv, Bounded
  <1>9. Ordered'
    BY <1>4, <1>6 DEF Ordered
  <1>10. \A z \in zones : z[1] \in Nat /\ z[2] \in Nat
    BY RangeAssumption DEF AllocatorInv, TypeOK
  <1>11. ZonesOutside'
    BY <1>0, <1>1, <1>6, <1>10 DEF AllocatorInv, ZonesOutside
  <1>12. BlocksOutside'
    <2> SUFFICES ASSUME NEW c \in Handed'
                 PROVE  /\ c.from < c.to
                        /\ IF c.kind = "permanent"
                           THEN self'.from <= c.from /\ c.to <= self'.free
                           ELSE self'.to <= c.from /\ c.to <= region[2]
      BY <1>0 DEF BlocksOutside
    <2>1. CASE c = b
      BY <1>0, <1>1, <1>2, <1>6, <2>1
    <2>2. CASE c \in Handed
      <3>1. /\ c.from < c.to
            /\ IF c.kind = "permanent"
               THEN self.from <= c.from /\ c.to <= self.free
               ELSE self.to <= c.from /\ c.to <= region[2]
        BY <2>2 DEF AllocatorInv, BlocksOutside
      <3> QED
        BY <1>0, <1>1, <1>5, <1>6, <2>2, <3>1
    <2> QED
      BY <1>4, <2>1, <2>2
  <1>13. ZonesAvoided'
    <2> SUFFICES ASSUME NEW c \in Handed', NEW z \in zones
                 PROVE  c.to <= z[1] \/ z[2] <= c.from
      BY <1>0 DEF ZonesAvoided
    <2>1. CASE c = b
      <3>1. z[2] <= self.from \/ self.to <= z[1]
        BY DEF AllocatorInv, ZonesOutside
      <3> QED
        BY <1>0, <1>1, <1>2, <1>10, <2>1, <3>1
    <2>2. CASE c \in Handed
      BY <2>2 DEF AllocatorInv, ZonesAvoided
    <2> QED
      BY <1>4, <2>1, <2>2
  <1>14. \A c \in Handed : c.to <= b.from \/ b.to <= c.from
    <2> SUFFICES ASSUME NEW c \in Handed
                 PROVE  c.to <= b.from \/ b.to <= c.from
      OBVIOUS
    <2>1. c.to <= self.free \/ self.to <= c.from
      BY DEF AllocatorInv, BlocksOutside
    <2> QED
      BY <1>0, <1>1, <1>2, <1>5, <2>1
  <1>15. BlocksApart'
    <2> SUFFICES ASSUME NEW i \in DOMAIN blocks', NEW j \in DOMAIN blocks',
                        i # j
                 PROVE  \/ blocks'[i].to <= blocks'[j].from
                        \/ blocks'[j].to <= blocks'[i].from
      BY DEF BlocksApart
    <2>1. CASE i \in DOMAIN blocks /\ j \in DOMAIN blocks
      BY <1>4, <2>1 DEF AllocatorInv, BlocksApart
    <2>2. CASE i \in DOMAIN blocks /\ j = Len(blocks) + 1
      BY <1>4, <1>14, <2>2 DEF Handed
    <2>3. CASE i = Len(blocks) + 1 /\ j \in DOMAIN blocks
      BY <1>4, <1>14, <2>3 DEF Handed
    <2> QED
      BY <1>4, <2>1, <2>2, <2>3
  <1> QED
    BY <1>7, <1>8, <1>9, <1>11, <1>12, <1>13, <1>15 DEF AllocatorInv

\* A request that is refused changes nothing.
LEMMA StutterInvariant ==
    ASSUME AllocatorInv, UNCHANGED vars
    PROVE  AllocatorInv'
BY DEF AllocatorInv, vars, TypeOK, Bounded, Ordered, ZonesOutside,
       BlocksOutside, ZonesAvoided, BlocksApart, Handed

\* allocateTransient refuses the request or grants it.
LEMMA TransientStep ==
    ASSUME AllocatorInv, NEW size \in Sizes, NEW align \in Aligns,
           Transient(size, align)
    PROVE  \/ UNCHANGED vars
           \/ \E addr \in Nat : Granted("transient", size, addr)
  <1> DEFINE r == AllocateTransient(self, size, align)
  <1>1. /\ self' = r.self
        /\ blocks' = IF r.addr = 0
                     THEN blocks
                     ELSE Append(blocks, Block("transient", r.addr, size))
        /\ region' = region /\ zones' = zones
    BY DEF Transient, Take
  <1>2. \/ r.addr = 0 /\ r.self = self
        \/ /\ r.addr \in Nat
           /\ self.free <= r.addr
           /\ r.addr + size <= self.to
           /\ r.self = [self EXCEPT !.to = r.addr]
    <2>1. /\ self \in Words /\ size \in Nat \ {0} /\ align \in Nat
          /\ size <= self.to /\ self.to < Word
      BY RequestContext, WordAssumption
    <2> QED
      BY <2>1, TransientResult
  <1> HIDE DEF r
  <1>3. CASE r.addr = 0 /\ r.self = self
    BY <1>1, <1>3 DEF vars
  <1>4. CASE /\ r.addr \in Nat
             /\ self.free <= r.addr
             /\ r.addr + size <= self.to
             /\ r.self = [self EXCEPT !.to = r.addr]
    <2>1. r.addr # 0
      BY <1>4, RequestContext
    <2>2. Granted("transient", size, r.addr)
      BY <1>1, <1>4, <2>1 DEF Granted
    <2> QED
      BY <1>4, <2>2
  <1> QED
    BY <1>2, <1>3, <1>4

\* allocatePermanent refuses the request or grants it.
LEMMA PermanentStep ==
    ASSUME AllocatorInv, NEW size \in Sizes, NEW align \in Aligns,
           Permanent(size, align)
    PROVE  \/ UNCHANGED vars
           \/ \E addr \in Nat : Granted("permanent", size, addr)
  <1> DEFINE r == AllocatePermanent(self, size, align)
  <1>1. /\ self' = r.self
        /\ blocks' = IF r.addr = 0
                     THEN blocks
                     ELSE Append(blocks, Block("permanent", r.addr, size))
        /\ region' = region /\ zones' = zones
    BY DEF Permanent, Take
  <1>2. \/ r.addr = 0 /\ r.self = self
        \/ /\ r.addr \in Nat
           /\ self.free <= r.addr
           /\ r.addr + size <= self.to
           /\ r.self = [self EXCEPT !.free = r.addr + size]
    <2>1. /\ self \in Words /\ size \in Nat \ {0} /\ align \in Nat
          /\ self.free + align + size < Word
      BY RequestContext
    <2> QED
      BY <2>1, PermanentResult
  <1> HIDE DEF r
  <1>3. CASE r.addr = 0 /\ r.self = self
    BY <1>1, <1>3 DEF vars
  <1>4. CASE /\ r.addr \in Nat
             /\ self.free <= r.addr
             /\ r.addr + size <= self.to
             /\ r.self = [self EXCEPT !.free = r.addr + size]
    <2>1. r.addr # 0
      BY <1>4, RequestContext
    <2>2. Granted("permanent", size, r.addr)
      BY <1>1, <1>4, <2>1 DEF Granted
    <2> QED
      BY <1>4, <2>2
  <1> QED
    BY <1>2, <1>3, <1>4

\* The allocator keeps its inductive invariant, whatever the callers ask for
\* and in whatever order.
THEOREM AllocatorInvariant == Spec => []AllocatorInv
  <1>1. AllocatorInv /\ [Next]_vars => AllocatorInv'
    <2> SUFFICES ASSUME AllocatorInv, [Next]_vars
                 PROVE  AllocatorInv'
      OBVIOUS
    <2>1. ASSUME NEW z \in Zones, Reserve(z) PROVE AllocatorInv'
      BY <2>1, ReserveInvariant
    <2>2. ASSUME NEW size \in Sizes, NEW align \in Aligns,
                 Transient(size, align)
          PROVE  AllocatorInv'
      BY <2>2, TransientStep, StutterInvariant, GrantInvariant DEF Kinds
    <2>3. ASSUME NEW size \in Sizes, NEW align \in Aligns,
                 Permanent(size, align)
          PROVE  AllocatorInv'
      BY <2>3, PermanentStep, StutterInvariant, GrantInvariant DEF Kinds
    <2>4. CASE UNCHANGED vars
      BY <2>4, StutterInvariant
    <2> QED
      BY <2>1, <2>2, <2>3, <2>4 DEF Next
  <1> QED
    BY <1>1, InitInvariant, PTL DEF Spec

-----------------------------------------------------------------------------
(***************************************************************************)
(* The safety properties of Allocator.                                     *)
(***************************************************************************)

\* The types of what AllocatorInv speaks about.
LEMMA HandedTypes ==
    ASSUME AllocatorInv
    PROVE  /\ \A i \in DOMAIN blocks :
                 /\ blocks[i] \in Handed
                 /\ blocks[i].from \in Nat /\ blocks[i].to \in Nat
           /\ \A b \in Handed : b.from \in Nat /\ b.to \in Nat
           /\ \A z \in zones : z[1] \in Nat /\ z[2] \in Nat
           /\ self.from \in Nat /\ self.free \in Nat /\ self.to \in Nat
           /\ region[1] \in Nat /\ region[2] \in Nat
  <1>1. blocks \in Seq(BlockType)
    BY DEF AllocatorInv, TypeOK, BlockType
  <1>2. \A i \in DOMAIN blocks : blocks[i] \in BlockType
    BY <1>1
  <1>3. \A z \in zones : z[1] \in Nat /\ z[2] \in Nat
    BY RangeAssumption DEF AllocatorInv, TypeOK
  <1>4. self.from \in Nat /\ self.free \in Nat /\ self.to \in Nat
    BY WordAssumption DEF AllocatorInv, TypeOK
  <1>5. region[1] \in Nat /\ region[2] \in Nat
    BY RangeAssumption DEF AllocatorInv, TypeOK
  <1> QED
    BY <1>2, <1>3, <1>4, <1>5 DEF Handed, BlockType

\* The words of struct allocator and the history keep their types.
THEOREM TypeCorrect == Spec => []TypeOK
  <1>1. AllocatorInv => TypeOK
    BY DEF AllocatorInv
  <1> QED
    BY <1>1, AllocatorInvariant, PTL

\* No two blocks handed out share an address.
THEOREM BlocksAreDisjoint == Spec => []BlocksDisjoint
  <1>1. AllocatorInv => BlocksDisjoint
    <2> SUFFICES ASSUME AllocatorInv,
                        NEW i \in DOMAIN blocks, NEW j \in DOMAIN blocks,
                        i # j
                 PROVE  Cells(blocks[i].from, blocks[i].to)
                          \cap Cells(blocks[j].from, blocks[j].to) = {}
      BY DEF BlocksDisjoint
    <2>1. \/ blocks[i].to <= blocks[j].from
          \/ blocks[j].to <= blocks[i].from
      BY DEF AllocatorInv, BlocksApart
    <2> QED
      BY <2>1, HandedTypes DEF Cells
  <1> QED
    BY <1>1, AllocatorInvariant, PTL

\* Every block handed out lies in the region of the memory map.
THEOREM BlocksAreInRegion == Spec => []BlocksInRegion
  <1>1. AllocatorInv => BlocksInRegion
    <2> SUFFICES ASSUME AllocatorInv, NEW b \in Handed
                 PROVE  region[1] <= b.from /\ b.to <= region[2]
      BY DEF BlocksInRegion
    <2>1. blocks # <<>>
      BY DEF Handed
    <2>2. self.free <= self.to
      BY <2>1 DEF AllocatorInv, Ordered
    <2>3. /\ b.from < b.to
          /\ \/ self.from <= b.from /\ b.to <= self.free
             \/ self.to <= b.from /\ b.to <= region[2]
      BY DEF AllocatorInv, BlocksOutside
    <2>4. /\ region[1] <= self.from /\ self.from <= self.free
          /\ self.free <= region[2]
      BY DEF AllocatorInv, Bounded
    <2> QED
      BY <2>2, <2>3, <2>4, HandedTypes
  <1> QED
    BY <1>1, AllocatorInvariant, PTL

\* No block handed out meets a zone reserved before.
THEOREM BlocksStayOutOfZones == Spec => []BlocksAvoidZones
  <1>1. AllocatorInv => BlocksAvoidZones
    <2> SUFFICES ASSUME AllocatorInv, NEW b \in Handed, NEW z \in zones
                 PROVE  Cells(b.from, b.to) \cap Cells(z[1], z[2]) = {}
      BY DEF BlocksAvoidZones
    <2>1. b.to <= z[1] \/ z[2] <= b.from
      BY DEF AllocatorInv, ZonesAvoided
    <2> QED
      BY <2>1, HandedTypes DEF Cells
  <1> QED
    BY <1>1, AllocatorInvariant, PTL

\* The block of memory announced to the payload holds the permanent blocks and
\* nothing else that is in use.
THEOREM ReclaimableBlockExact == Spec => []ReclaimableBlock
  <1>1. AllocatorInv => ReclaimableBlock
    <2> SUFFICES ASSUME AllocatorInv PROVE ReclaimableBlock
      OBVIOUS
    <2>1. ASSUME NEW b \in Handed
          PROVE  IF b.kind = "permanent"
                 THEN Cells(b.from, b.to) \subseteq Cells(self.from, self.free)
                 ELSE Cells(b.from, b.to) \cap Cells(self.from, self.free) = {}
      <3>1. self.free <= self.to
        BY DEF AllocatorInv, Ordered, Handed
      <3>2. IF b.kind = "permanent"
            THEN self.from <= b.from /\ b.to <= self.free
            ELSE self.to <= b.from
        BY DEF AllocatorInv, BlocksOutside
      <3> QED
        BY <3>1, <3>2, HandedTypes DEF Cells
    <2>2. ASSUME NEW z \in zones
          PROVE  Cells(z[1], z[2]) \cap Cells(self.from, self.free) = {}
      <3>1. z[2] <= self.from \/ self.to <= z[1]
        BY DEF AllocatorInv, ZonesOutside
      <3>2. self.from = self.free \/ self.free <= self.to
        BY DEF AllocatorInv, Ordered
      <3> QED
        BY <3>1, <3>2, HandedTypes DEF Cells
    <2> QED
      BY <2>1, <2>2 DEF ReclaimableBlock
  <1> QED
    BY <1>1, AllocatorInvariant, PTL

-----------------------------------------------------------------------------
(***************************************************************************)
(* The allocator implements the pool of MemoryPool.                        *)
(***************************************************************************)

\* A reservation withdraws the zone from the pool.
LEMMA ReserveWithdraws ==
    ASSUME AllocatorInv, NEW z \in Zones, Reserve(z)
    PROVE  Pool!Withdraw(z) /\ z \in zones'
  <1>1. z[1] \in Nat /\ z[2] \in Nat /\ z[1] < z[2]
    BY RangeAssumption
  <1>2. /\ self \in Words
        /\ self.from \in Nat /\ self.free \in Nat /\ self.to \in Nat
    BY WordAssumption DEF AllocatorInv, TypeOK, Words
  <1>3. /\ blocks = <<>> /\ blocks' = blocks
        /\ zones' = zones \union {z}
        /\ self' = ReserveZone(self, z[1], z[2])
    BY DEF Reserve
  <1>4. self.from = self.free
    BY <1>3 DEF AllocatorInv, Ordered
  <1>5. \/ self' = self /\ (self.to <= z[1] \/ z[2] <= self.from)
        \/ /\ self' = [from |-> self.from, free |-> self.free, to |-> z[1]]
           /\ z[1] < self.to
        \/ /\ self' = [from |-> z[2], free |-> z[2], to |-> self.to]
           /\ self.from < z[2] /\ z[2] < self.to
    BY <1>1, <1>2, <1>3, <1>4, ReserveResult
  <1>6. \/ /\ self'.free = self.free /\ self'.to = self.to
           /\ self.to <= z[1] \/ z[2] <= self.free
        \/ /\ self'.free = self.free /\ self'.to = z[1]
           /\ z[1] < self.to
        \/ /\ self'.free = z[2] /\ self'.to = self.to
           /\ self.free < z[2]
    BY <1>4, <1>5
  <1>7. Cells(self'.free, self'.to)
            \subseteq Cells(self.free, self.to) \ Pool!Cells(z[1], z[2])
    BY <1>1, <1>2, <1>6 DEF Cells, Pool!Cells
  <1>8. Handed' = Handed
    BY <1>3 DEF Handed
  <1> QED
    BY <1>3, <1>7, <1>8 DEF Pool!Withdraw

\* A granted request hands out addresses of the pool and takes them from it.
LEMMA GrantHandsOut ==
    ASSUME AllocatorInv, NEW size \in Sizes, NEW align \in Aligns,
           NEW kind \in Kinds, NEW addr \in Nat, Granted(kind, size, addr)
    PROVE  \E b \in Handed' : Pool!HandOut(b)
  <1> DEFINE b == Block(kind, addr, size)
  <1>1. /\ size \in Nat \ {0}
        /\ self = [from |-> self.from, free |-> self.free, to |-> self.to]
        /\ self.from \in Nat /\ self.free \in Nat /\ self.to \in Nat
    BY RequestContext
  <1>2. b \in BlockType /\ b.from = addr /\ b.to = addr + size
    BY <1>1 DEF Block, BlockType
  <1>3. /\ self.free <= b.from /\ b.to <= self.to /\ b.from < b.to
        /\ blocks' = Append(blocks, b) /\ zones' = zones
    BY <1>1, <1>2 DEF Granted
  <1>4. \/ self'.free = b.to /\ self'.to = self.to
        \/ self'.free = self.free /\ self'.to = b.from
    <2>1. CASE kind = "permanent"
      <3>1. self' = [from |-> self.from, free |-> b.to, to |-> self.to]
        BY <1>1, <1>2, <2>1 DEF Granted
      <3> QED
        BY <3>1
    <2>2. CASE kind # "permanent"
      <3>1. self' = [from |-> self.from, free |-> self.free, to |-> b.from]
        BY <1>1, <1>2, <2>2 DEF Granted
      <3> QED
        BY <3>1
    <2> QED
      BY <2>1, <2>2
  <1> HIDE DEF b
  <1>5. Handed' = Handed \union {b}
    <2>1. blocks \in Seq(BlockType)
      BY DEF AllocatorInv, TypeOK, BlockType
    <2> QED
      BY <1>2, <1>3, <2>1, AppendHanded
  <1>6. b.from \in Nat /\ b.to \in Nat
    BY <1>1, <1>2
  <1>7. /\ Pool!Cells(b.from, b.to) \subseteq Cells(self.free, self.to)
        /\ Cells(self'.free, self'.to)
              \subseteq Cells(self.free, self.to) \ Pool!Cells(b.from, b.to)
    BY <1>1, <1>3, <1>4, <1>6 DEF Cells, Pool!Cells
  <1>8. Pool!HandOut(b) /\ b \in Handed'
    BY <1>3, <1>5, <1>7 DEF Pool!HandOut
  <1> QED
    BY <1>8

\* Every behaviour of the allocator is one of the pool: addresses only ever
\* leave the pool, and every block is made of addresses that were in it.
THEOREM AllocatorImplementsPool == Spec => PoolSpec
  <1>1. Init => Pool!Init
    <2> SUFFICES ASSUME Init PROVE Pool!Init
      OBVIOUS
    <2>1. /\ self.free = region[1] /\ self.to = region[2]
          /\ region \in Regions /\ zones = {} /\ Handed = {}
      BY DEF Init, AllocatorInitialize, Handed
    <2> QED
      BY <2>1 DEF Pool!Init
  <1>2. AllocatorInv /\ [Next]_vars => [Pool!Next]_(Pool!poolVars)
    <2> SUFFICES ASSUME AllocatorInv, [Next]_vars
                 PROVE  Pool!Next \/ UNCHANGED Pool!poolVars
      OBVIOUS
    <2>1. ASSUME NEW z \in Zones, Reserve(z)
          PROVE  Pool!Next
      BY <2>1, ReserveWithdraws DEF Pool!Next
    <2>2. UNCHANGED vars => UNCHANGED Pool!poolVars
      BY DEF vars, Pool!poolVars, Handed
    <2>3. ASSUME NEW kind \in Kinds,
                 NEW size \in Sizes, NEW align \in Aligns,
                 \E addr \in Nat : Granted(kind, size, addr)
          PROVE  Pool!Next
      BY <2>3, GrantHandsOut DEF Pool!Next
    <2>4. ASSUME NEW size \in Sizes, NEW align \in Aligns,
                 Transient(size, align)
          PROVE  Pool!Next \/ UNCHANGED Pool!poolVars
      BY <2>2, <2>3, <2>4, TransientStep DEF Kinds
    <2>5. ASSUME NEW size \in Sizes, NEW align \in Aligns,
                 Permanent(size, align)
          PROVE  Pool!Next \/ UNCHANGED Pool!poolVars
      BY <2>2, <2>3, <2>5, PermanentStep DEF Kinds
    <2> QED
      BY <2>1, <2>2, <2>4, <2>5 DEF Next
  <1> QED
    BY <1>1, <1>2, AllocatorInvariant, PTL DEF Spec, PoolSpec, Pool!Spec

-----------------------------------------------------------------------------
(***************************************************************************)
(* No request is refused and no memory is given up without need.           *)
(***************************************************************************)

\* If an aligned block fits, allocate_transient returns one.
LEMMA TransientFinds ==
    ASSUME NEW a \in Words, NEW size \in Nat \ {0}, NEW align \in Nat,
           a.to < Word, size <= a.free,
           NEW x \in Nat, a.free <= x, x + size <= a.to, Aligned(x, align)
    PROVE  AllocateTransient(a, size, align).addr # 0
  <1> DEFINE top == a.to - size
             ret == IF align # 0 THEN AlignDown(top, align) ELSE top
  <1>1. a.free \in Nat /\ a.to \in Nat
    BY DEF Words
  <1>2. top \in Nat /\ top < Word /\ x <= top
    BY <1>1, WordAssumption
  <1>3. Wrap(top) = top
    BY <1>2, WrapIdentity
  <1>4. ret \in Nat /\ x <= ret
    <2> HIDE DEF top
    <2>1. CASE align # 0
      <3>1. align \in Nat \ {0} /\ x % align = 0
        BY <2>1 DEF Aligned
      <3> QED
        BY <1>2, <2>1, <3>1, AlignDownBounds, AlignDownGreatest
    <2> QED
      BY <1>2, <2>1
  <1>5. AllocateTransient(a, size, align)
            = IF ret < a.free
              THEN [addr |-> 0, self |-> a]
              ELSE [addr |-> ret, self |-> [a EXCEPT !.to = ret]]
    BY <1>3 DEF AllocateTransient
  <1> HIDE DEF ret
  <1>6. ~ (ret < a.free) /\ ret # 0
    BY <1>1, <1>4
  <1> QED
    BY <1>5, <1>6

\* Rounding up skips no aligned address.
LEMMA AlignUpLeast ==
    ASSUME NEW addr \in Nat, NEW align \in Nat \ {0}, addr % align # 0,
           NEW x \in Nat, x % align = 0, addr <= x
    PROVE  AlignDown(addr, align) + align <= x
  <1> DEFINE low == AlignDown(addr, align)
             k   == addr \div align
             m   == x \div align
  <1>1. low \in Nat /\ low < addr
    BY DEF AlignDown
  <1>2. k \in Int /\ m \in Int /\ low = align * k /\ x = align * m
    BY DEF AlignDown
  <1> HIDE DEF k, m, low
  <1>3. align * k < align * m
    BY <1>1, <1>2
  <1>4. k + 1 <= m
    <2>1. CASE m <= k
      <3>1. PICK d \in Nat : k = m + d
        BY <1>2, <2>1
      <3>2. align * k = align * m + align * d /\ align * d \in Nat
        BY <1>2, <3>1
      <3> QED
        BY <1>1, <1>2, <1>3, <3>2
    <2> QED
      BY <1>2, <2>1
  <1>5. PICK e \in Nat : m = k + 1 + e
    BY <1>2, <1>4
  <1>6. align * m = align * k + align + align * e /\ align * e \in Nat
    BY <1>2, <1>5
  <1>7. low + align <= x
    BY <1>1, <1>2, <1>6
  <1> QED
    BY <1>7 DEF low

\* If an aligned block fits, allocate_permanent returns one.
LEMMA PermanentFinds ==
    ASSUME NEW a \in Words, NEW size \in Nat \ {0}, NEW align \in Nat,
           a.free + align + size < Word, size <= a.free,
           NEW x \in Nat, a.free <= x, x + size <= a.to, Aligned(x, align)
    PROVE  AllocatePermanent(a, size, align).addr # 0
  <1> DEFINE up  == AlignDown(a.free, align) + align
             ret == IF align # 0 /\ a.free % align # 0 THEN up ELSE a.free
  <1>1. a.free \in Nat /\ a.to \in Nat
    BY DEF Words
  <1>2. ASSUME align # 0, a.free % align # 0
        PROVE  /\ up \in Nat /\ a.free < up /\ up <= a.free + align
               /\ up <= x /\ Wrap(up) = up
    <2>1. align \in Nat \ {0} /\ x % align = 0
      BY <1>2 DEF Aligned
    <2>2. /\ AlignDown(a.free, align) \in Nat
          /\ AlignDown(a.free, align) <= a.free
          /\ a.free < AlignDown(a.free, align) + align
      BY <1>1, <2>1, AlignDownBounds
    <2>3. up <= x
      BY <1>1, <1>2, <2>1, AlignUpLeast
    <2>4. up \in Nat /\ up < Word
      BY <1>1, <2>1, <2>2, WordAssumption
    <2> HIDE DEF up
    <2>5. Wrap(up) = up
      BY <2>4, WrapIdentity
    <2> QED
      BY <1>1, <2>2, <2>3, <2>4, <2>5 DEF up
  <1> HIDE DEF up
  <1>3. ret \in Nat /\ a.free <= ret /\ ret <= a.free + align /\ ret <= x
    BY <1>1, <1>2
  <1>4. Wrap(ret + size) = ret + size
    <2>1. ret + size \in Nat /\ ret + size < Word
      BY <1>1, <1>3, WordAssumption
    <2> QED
      BY <2>1, WrapIdentity
  <1>5. AllocatePermanent(a, size, align)
            = IF ret + size > a.to
              THEN [addr |-> 0, self |-> a]
              ELSE [addr |-> ret, self |-> [a EXCEPT !.free = ret + size]]
    BY <1>2, <1>4 DEF AllocatePermanent, up
  <1> HIDE DEF ret
  <1>6. ~ (ret + size > a.to) /\ ret # 0
    BY <1>1, <1>3
  <1> QED
    BY <1>5, <1>6

\* The allocator refuses a request only when no aligned block is left.
THEOREM NoFailureIsSpurious == Spec => []NoSpuriousFailure
  <1>1. AllocatorInv => NoSpuriousFailure
    <2> SUFFICES ASSUME AllocatorInv, NEW size \in Sizes, NEW align \in Aligns,
                        NEW x \in Cells(self.free, self.to),
                        Aligned(x, align), x + size <= self.to
                 PROVE  /\ AllocateTransient(self, size, align).addr # 0
                        /\ AllocatePermanent(self, size, align).addr # 0
      BY DEF NoSpuriousFailure
    <2>1. /\ size \in Nat \ {0} /\ align \in Nat /\ self \in Words
          /\ self.free \in Nat /\ self.to \in Nat
          /\ self.to < Word /\ size <= self.free
          /\ self.free + align + size < Word
      BY RequestContext, WordAssumption
    <2>2. x \in Nat /\ self.free <= x
      BY <2>1 DEF Cells
    <2> QED
      BY <2>1, <2>2, TransientFinds, PermanentFinds
  <1> QED
    BY <1>1, AllocatorInvariant, PTL

\* reserve_zone keeps the larger piece of free memory around the zone.
THEOREM ReservationKeepsLargest == Spec => ReserveKeepsLargest
  <1> DEFINE Kept ==
                 \A z \in zones' \ zones :
                     \A from \in Cells(self.free, self.to) :
                     \A to \in from + 1 .. self.to :
                        Cells(from, to) \cap Cells(z[1], z[2]) = {}
                        => to - from <= self'.to - self'.free
  <1>1. ASSUME AllocatorInv, NEW y \in Zones, Reserve(y)
        PROVE  Kept
    <2> SUFFICES ASSUME NEW z \in zones' \ zones,
                        NEW from \in Cells(self.free, self.to),
                        NEW to \in from + 1 .. self.to,
                        Cells(from, to) \cap Cells(z[1], z[2]) = {}
                 PROVE  to - from <= self'.to - self'.free
      OBVIOUS
    <2>1. z = y /\ blocks = <<>> /\ self' = ReserveZone(self, z[1], z[2])
      BY <1>1 DEF Reserve
    <2>2. z[1] \in Nat /\ z[2] \in Nat /\ z[1] < z[2]
      BY <2>1, RangeAssumption
    <2>3. /\ self = [from |-> self.from, free |-> self.free, to |-> self.to]
          /\ self.from \in Nat /\ self.free \in Nat /\ self.to \in Nat
          /\ self.from = self.free
      BY <1>1, <2>1, WordAssumption DEF AllocatorInv, TypeOK, Ordered
    <2>4. /\ from \in Nat /\ to \in Nat /\ from < to
          /\ self.free <= from /\ to <= self.to
      BY <2>3 DEF Cells
    <2>5. to <= z[1] \/ z[2] <= from
      <3>1. CASE z[1] \in Cells(from, to)
        BY <2>2, <3>1 DEF Cells
      <3>2. CASE from \in Cells(z[1], z[2])
        BY <2>4, <3>2 DEF Cells
      <3> QED
        BY <2>2, <2>4, <3>1, <3>2 DEF Cells
    <2> DEFINE down == IF z[1] > self.free THEN z[1] - self.free ELSE 0
               up   == IF z[2] < self.to THEN self.to - z[2] ELSE 0
    <2>6. CASE z[1] >= self.to \/ z[2] <= self.from
      BY <2>1, <2>3, <2>4, <2>6 DEF ReserveZone
    <2>7. CASE ~ (z[1] >= self.to \/ z[2] <= self.from) /\ down >= up
      <3>1. self' = [from |-> self.from, free |-> self.free, to |-> z[1]]
        BY <2>1, <2>2, <2>3, <2>7 DEF ReserveZone
      <3>2. self'.to = z[1] /\ self'.free = self.free
        BY <3>1
      <3> QED
        BY <2>2, <2>3, <2>4, <2>5, <2>7, <3>2
    <2>8. CASE ~ (z[1] >= self.to \/ z[2] <= self.from) /\ ~ (down >= up)
      <3>1. z[2] < self.to /\ z[2] > self.free
        BY <2>2, <2>3, <2>8
      <3>2. self' = [from |-> z[2], free |-> z[2], to |-> self.to]
        BY <2>1, <2>2, <2>3, <2>8, <3>1 DEF ReserveZone
      <3>3. self'.to = self.to /\ self'.free = z[2]
        BY <3>2
      <3> QED
        BY <2>2, <2>3, <2>4, <2>5, <2>8, <3>3
    <2> QED
      BY <2>6, <2>7, <2>8
  <1>2. AllocatorInv /\ [Next]_vars => [Kept]_vars
    <2> SUFFICES ASSUME AllocatorInv, [Next]_vars
                 PROVE  Kept \/ UNCHANGED vars
      OBVIOUS
    <2>1. zones' = zones => Kept
      OBVIOUS
    <2> QED
      BY <1>1, <2>1 DEF Next, Transient, Permanent, Take
  <1> QED
    BY <1>2, AllocatorInvariant, PTL DEF Spec, ReserveKeepsLargest
=============================================================================
