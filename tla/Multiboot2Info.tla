--------------------------- MODULE Multiboot2Info ---------------------------
(***************************************************************************)
(* The search of a tag in the multiboot2 information (loader/multiboot2.c),*)
(* which main.c makes twice for the memory map, the second time in a copy  *)
(* of the information that may lie anywhere in memory.                     *)
(***************************************************************************)
EXTENDS TagList

CONSTANTS Word,         \* number of values of a paddr_t
          InfoSize,     \* sizeof (struct multiboot2_info), up to the tags
          Addrs,        \* addresses of the information
          Infos,        \* the lists of tags a bootloader may pass
          Cuts          \* bytes of padding not counted in total_size

\* What a bootloader passes: the information ends with a tag that has a size.
ASSUME InfoAssumption ==
    /\ {Word, InfoSize, Align} \subseteq Nat \ {0}
    /\ Word % Align = 0 /\ InfoSize % Align = 0
    /\ \A a \in Addrs : a \in 1 .. Word - 1 /\ a % Align = 0
    /\ Cuts \subseteq 0 .. Align - 1
    /\ \A list \in Infos :
          /\ list \in Seq({list[k] : k \in DOMAIN list})
          /\ \A k \in DOMAIN list : list[k].size \in Nat
          /\ Len(list) > 0 /\ list[Len(list)].size > 0

VARIABLES addr, tags, total,   \* the information, its tags and its total_size
          wanted,              \* the type searched for
          pc,                  \* the function that runs
          tag                  \* its pointer, the result at the end

vars == <<addr, tags, total, wanted, pc, tag>>

NULL == 0

Init ==
    /\ addr \in Addrs
    /\ tags \in Infos
    /\ \E cut \in Cuts : total = TagOffset(tags, InfoSize, Len(tags) + 1) - cut
    /\ addr + total <= Word
    /\ wanted \in {tags[k].type : k \in DOMAIN tags} \union {"absent"}
    /\ pc = "first"
    /\ tag = NULL

\* check_range: the difference of the pointers is unsigned.
CheckRange(ptr) == IF (ptr - addr) % Word >= total THEN NULL ELSE ptr

Here == TagNumber(tags, InfoSize, tag - addr)

\* Whether the search is over: no tag is left, or this one has the type.
Over == IF tag = NULL THEN TRUE ELSE tags[Here].type = wanted

\* Mistaken: goes on with the second tag.
FirstSkipped ==
    /\ pc = "first"
    /\ tag' = CheckRange((addr + InfoSize + Padded(tags[1].size)) % Word)
    /\ pc' = "test"
    /\ UNCHANGED <<addr, tags, total, wanted>>

\* multiboot2_first, and the test of multiboot2_first_type.
First ==
    /\ pc = "first"
    /\ tag' = CheckRange((addr + InfoSize) % Word)
    /\ pc' = "test"
    /\ UNCHANGED <<addr, tags, total, wanted>>

Return ==
    /\ pc = "test"
    /\ Over
    /\ pc' = "done"
    /\ UNCHANGED <<addr, tags, total, wanted, tag>>

\* Mistaken: every turn starts from the first tag.
NextOfFirst ==
    /\ pc = "test"
    /\ ~ Over
    /\ tag' = CheckRange(Padded((addr + InfoSize + tags[1].size) % Word) % Word)
    /\ UNCHANGED <<addr, tags, total, wanted, pc>>

\* A turn of the loop of multiboot2_next_type, with multiboot2_next.
NextTag ==
    /\ pc = "test"
    /\ ~ Over
    /\ tag' = CheckRange(Padded((tag + tags[Here].size) % Word) % Word)
    /\ UNCHANGED <<addr, tags, total, wanted, pc>>

Next == First \/ Return \/ NextTag

\* The loader runs alone, and a function that has been called goes on.
Spec == Init /\ [][Next]_vars /\ WF_vars(Next)

-----------------------------------------------------------------------------
\* The search returns the first tag of the type, NULL when there is none, even
\* in an information that ends with the address space or whose last padding is
\* not counted.
FirstOfType ==
    pc = "done" =>
    LET found == {k \in DOMAIN tags : tags[k].type = wanted}
    IN  IF found = {} THEN tag = NULL
        ELSE tag = addr + TagOffset(tags, InfoSize,
                                    CHOOSE k \in found : \A j \in found : k <= j)

\* The search returns, although its only end is a pointer that leaves the
\* information or wraps around: nothing but a tag of size 0 holds it up.
SearchReturns == <>(pc = "done" \/ (pc = "test" /\ ~ Over /\ tags[Here].size = 0))
=============================================================================
