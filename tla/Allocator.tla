----------------------------- MODULE Allocator -----------------------------
(***************************************************************************)
(* The loader's allocator in use.  malloc_initialize (loader/main.c) gives *)
(* it one region of the memory map and reserves zones in it; from then on  *)
(* relocation and paging ask for transient and permanent blocks, in an     *)
(* order that depends on the boot.  Blocks are never freed.                *)
(*                                                                         *)
(* zones and blocks are history variables: what the callers have withdrawn *)
(* and what they have been given.                                          *)
(***************************************************************************)
EXTENDS AllocatorOps, FiniteSets, Sequences

CONSTANTS Regions,    \* the <<from, to>> a memory map entry may describe
          Zones,      \* the <<from, to>> that may be reserved
          Sizes,      \* sizes of requests
          Aligns,     \* alignments of requests, 0 for none
          MaxZones,   \* bound on the number of reservations
          MaxBlocks   \* bound on the number of blocks

ASSUME RangeAssumption ==
    /\ Regions \subseteq Nat \X Nat
    /\ Zones \subseteq Nat \X Nat
    /\ Sizes \subseteq Nat \ {0}
    /\ Aligns \subseteq Nat
    /\ \A r \in Regions : r[1] <= r[2] /\ r[2] <= Word
    /\ \A z \in Zones : z[1] < z[2]

\* The allocator does not look for wrap-around: it is right only as long as no
\* region or zone starts below the size of a request (memory under 64K is left
\* to the firmware) and no region ends so high that a request overflows (the
\* last addresses below 4G are not RAM).
ASSUME GuardAssumption ==
    /\ \A s \in Sizes :
          /\ \A r \in Regions : s <= r[1]
          /\ \A z \in Zones : s <= z[1]
    /\ \A r \in Regions, s \in Sizes, a \in Aligns : r[2] + a + s < Word

VARIABLES self,       \* struct allocator
          region,     \* the region it was initialized with
          zones,      \* the zones reserved so far
          blocks      \* the blocks handed out so far, in order

vars == <<self, region, zones, blocks>>

Kinds == {"transient", "permanent"}

Block(kind, addr, size) == [kind |-> kind, from |-> addr, to |-> addr + size]

Init ==
    /\ region \in Regions
    /\ self = AllocatorInitialize(region[1], region[2])
    /\ zones = {}
    /\ blocks = <<>>

\* Reservations all precede the first request (malloc_initialize).
Reserve(z) ==
    /\ blocks = <<>>
    /\ Cardinality(zones) < MaxZones
    /\ self' = ReserveZone(self, z[1], z[2])
    /\ zones' = zones \union {z}
    /\ UNCHANGED <<region, blocks>>

\* The caller takes address 0 for a failure and holds no block.
Take(kind, size, result) ==
    /\ Len(blocks) < MaxBlocks
    /\ self' = result.self
    /\ blocks' = IF result.addr = 0
                 THEN blocks
                 ELSE Append(blocks, Block(kind, result.addr, size))
    /\ UNCHANGED <<region, zones>>

Transient(size, align) ==
    Take("transient", size, AllocateTransient(self, size, align))

Permanent(size, align) ==
    Take("permanent", size, AllocatePermanent(self, size, align))

Next ==
    \/ \E z \in Zones : Reserve(z)
    \/ \E size \in Sizes, align \in Aligns :
          Transient(size, align) \/ Permanent(size, align)

Spec == Init /\ [][Next]_vars

-----------------------------------------------------------------------------
Cells(from, to) == from .. to - 1

Handed == {blocks[i] : i \in DOMAIN blocks}

\* Type invariant: the three addresses of struct allocator stay in the range
\* of a paddr_t and blocks and zones are what the actions build.
TypeOK ==
    /\ self \in [from : 0 .. Word, free : 0 .. Word, to : 0 .. Word]
    /\ region \in Regions
    /\ zones \subseteq Zones
    /\ blocks \in Seq([kind : Kinds, from : Nat, to : Nat])

\* Two blocks handed out by allocate_transient and allocate_permanent, in
\* whatever order and alignment, never share an address.
BlocksDisjoint ==
    \A i, j \in DOMAIN blocks :
        i # j => Cells(blocks[i].from, blocks[i].to)
                    \cap Cells(blocks[j].from, blocks[j].to) = {}

\* Every block lies in the region of the memory map given to
\* allocator_initialize: the allocator never hands out memory that the map
\* does not describe, in spite of rounding up, rounding down and wrapping.
BlocksInRegion ==
    \A b \in Handed : region[1] <= b.from /\ b.to <= region[2]

\* No block meets a zone reserved by reserve_zone, although the allocator
\* forgets the zones and keeps a single interval.
BlocksAvoidZones ==
    \A b \in Handed, z \in zones :
        Cells(b.from, b.to) \cap Cells(z[1], z[2]) = {}

\* [from, free), which the jumper passes to the payload as the block of memory
\* to preserve or reclaim, holds every permanent block and meets neither a
\* transient block nor a reserved zone.
ReclaimableBlock ==
    /\ \A b \in Handed :
          IF b.kind = "permanent"
          THEN Cells(b.from, b.to) \subseteq Cells(self.from, self.free)
          ELSE Cells(b.from, b.to) \cap Cells(self.from, self.free) = {}
    /\ \A z \in zones :
          Cells(z[1], z[2]) \cap Cells(self.from, self.free) = {}

Aligned(addr, align) == align = 0 \/ addr % align = 0

\* A request is refused only when no aligned block of its size is left between
\* free and to: neither rounding nor wrapping makes the boot fail early.
NoSpuriousFailure ==
    \A size \in Sizes, align \in Aligns :
        (\E addr \in Cells(self.free, self.to) :
            Aligned(addr, align) /\ addr + size <= self.to)
        => /\ AllocateTransient(self, size, align).addr # 0
           /\ AllocatePermanent(self, size, align).addr # 0

\* A reservation keeps the larger of the pieces of free memory that the zone
\* leaves: reserve_zone never trades a large piece for a smaller one.
ReserveKeepsLargest ==
    [][\A z \in zones' \ zones :
         \A from \in Cells(self.free, self.to) :
         \A to \in from + 1 .. self.to :
            Cells(from, to) \cap Cells(z[1], z[2]) = {}
            => to - from <= self'.to - self'.free]_vars

\* The allocator implements the pool of MemoryPool: the available addresses
\* are those between free and to.
Pool == INSTANCE MemoryPool WITH
            avail <- Cells(self.free, self.to),
            blocks <- Handed,
            Spans <- {Cells(r[1], r[2]) : r \in Regions}

PoolSpec == Pool!Spec

-----------------------------------------------------------------------------
(***************************************************************************)
(* The strengthening that makes the invariants above inductive.            *)
(***************************************************************************)
Bounded ==
    /\ region[1] <= self.from
    /\ self.from <= self.free
    /\ self.free <= region[2]
    /\ self.to <= region[2]
    /\ \A s \in Sizes : s <= self.to

\* While zones are reserved there is no permanent data, and a zone may leave
\* the allocator without any free memory.
Ordered ==
    IF blocks = <<>> THEN self.from = self.free ELSE self.free <= self.to

ZonesOutside ==
    \A z \in zones : z[2] <= self.from \/ self.to <= z[1]

BlocksOutside ==
    \A b \in Handed :
        /\ b.from < b.to
        /\ IF b.kind = "permanent"
           THEN self.from <= b.from /\ b.to <= self.free
           ELSE self.to <= b.from /\ b.to <= region[2]

ZonesAvoided ==
    \A b \in Handed, z \in zones : b.to <= z[1] \/ z[2] <= b.from

BlocksApart ==
    \A i, j \in DOMAIN blocks :
        i # j => \/ blocks[i].to <= blocks[j].from
                 \/ blocks[j].to <= blocks[i].from

\* The inductive invariant: what the words of struct allocator mean for the
\* zones and blocks of the past.
AllocatorInv ==
    /\ TypeOK
    /\ Bounded
    /\ Ordered
    /\ ZonesOutside
    /\ BlocksOutside
    /\ ZonesAvoided
    /\ BlocksApart
=============================================================================
