---------------------------- MODULE AllocatorOps ----------------------------
(***************************************************************************)
(* The loader's memory allocator (loader/allocator.c) as pure operators.   *)
(* An allocator is a record of three physical addresses                    *)
(*                                                                         *)
(*     from <= free : [from, free) is permanent data, kept by the payload  *)
(*     free, to     : [free, to) is what can still be handed out           *)
(*                                                                         *)
(* Permanent blocks are cut from the bottom of [free, to), transient ones  *)
(* from its top.  paddr_t and size_t are unsigned and 32 bits wide, so     *)
(* every sum and difference of the code is taken modulo Word.              *)
(***************************************************************************)
EXTENDS Integers

CONSTANT Word    \* number of values of a paddr_t, 2^32 in the program

ASSUME WordAssumption == Word \in Nat \ {0}

Wrap(n) == n % Word

\* addr & ~(align - 1), for an alignment that is a power of two.
AlignDown(addr, align) == addr - (addr % align)

AllocatorInitialize(from, to) == [from |-> from, free |-> from, to |-> to]

-----------------------------------------------------------------------------
(***************************************************************************)
(* The operators below with one mistake each, which the properties of      *)
(* Allocator have to reveal.                                               *)
(***************************************************************************)
Grant(self, addr, field, bound) ==
    [addr |-> addr, self |-> [self EXCEPT ![field] = bound]]

Refusal(self) == [addr |-> 0, self |-> self]

AlignUp(addr, align) ==
    IF align # 0 /\ addr % align # 0 THEN AlignDown(addr, align) + align ELSE addr

\* Tests the wrong end of the permanent data.
TransientOverData(self, size, align) ==
    LET ret == AlignDown(self.to - size, IF align = 0 THEN 1 ELSE align)
    IN  IF ret < self.from THEN Refusal(self) ELSE Grant(self, ret, "to", ret)

\* Never refuses.
PermanentUnchecked(self, size, align) ==
    LET ret == AlignUp(self.free, align)
    IN  Grant(self, ret, "free", ret + size)

\* Refuses the last block that fits.
PermanentStrict(self, size, align) ==
    LET ret == AlignUp(self.free, align)
    IN  IF ret + size >= self.to
        THEN Refusal(self) ELSE Grant(self, ret, "free", ret + size)

\* Moves only from, or only free, above the zone.
ZoneKeepsFree(self, from, to) ==
    IF from >= self.to \/ to <= self.from THEN self
    ELSE IF from - self.free >= self.to - to
    THEN [self EXCEPT !.to = from] ELSE [self EXCEPT !.from = to]

ZoneKeepsFrom(self, from, to) ==
    IF from >= self.to \/ to <= self.from THEN self
    ELSE IF from - self.free >= self.to - to
    THEN [self EXCEPT !.to = from] ELSE [self EXCEPT !.free = to]

\* Keeps the smaller piece.
ZoneKeepsSmallest(self, from, to) ==
    IF from >= self.to \/ to <= self.from THEN self
    ELSE IF from - self.free < self.to - to
    THEN [self EXCEPT !.to = from]
    ELSE [self EXCEPT !.from = to, !.free = to]

-----------------------------------------------------------------------------
\* Both allocation functions return the address of the block and the updated
\* allocator; address 0 means that the request failed.

AllocateTransient(self, size, align) ==
    LET top == Wrap(self.to - size)
        ret == IF align # 0 THEN AlignDown(top, align) ELSE top
    IN  IF ret < self.free
        THEN [addr |-> 0, self |-> self]
        ELSE [addr |-> ret, self |-> [self EXCEPT !.to = ret]]

AllocatePermanent(self, size, align) ==
    LET ret == IF align # 0 /\ self.free % align # 0
               THEN Wrap(AlignDown(self.free, align) + align)
               ELSE self.free
        up  == Wrap(ret + size)
    IN  IF up > self.to
        THEN [addr |-> 0, self |-> self]
        ELSE [addr |-> ret, self |-> [self EXCEPT !.free = up]]

\* Give up the zone [from, to) and the smaller of the two pieces of free
\* memory around it.
ReserveZone(self, from, to) ==
    LET down == IF from > self.free THEN from - self.free ELSE 0
        up   == IF to < self.to THEN self.to - to ELSE 0
    IN  IF from >= self.to \/ to <= self.from
        THEN self
        ELSE IF down >= up
        THEN [self EXCEPT !.to = from]
        ELSE [self EXCEPT !.from = to,
                          !.free = IF to > self.free THEN to ELSE @]
=============================================================================
