------------------------------ MODULE TagList ------------------------------
(***************************************************************************)
(* How the multiboot2 format lays tags out, in the header of an image and  *)
(* in the information of the bootloader: one after the other, each at an   *)
(* aligned offset.  A tag is a record with at least its type and size.     *)
(***************************************************************************)
EXTENDS Integers, Sequences

CONSTANT Align          \* alignment of tags, 8 bytes

Padded(n) == ((n + Align - 1) \div Align) * Align

\* The offset of the k-th tag of a list that begins at start, and of its end.
TagOffset(tags, start, k) ==
    LET size == [j \in DOMAIN tags |-> Padded(tags[j].size)]
        at[j \in 1 .. Len(tags) + 1] ==
            IF j = 1 THEN start ELSE at[j - 1] + size[j - 1]
    IN  at[k]

\* The number of the tag found at an offset.
TagNumber(tags, start, offset) ==
    CHOOSE k \in DOMAIN tags :
        /\ TagOffset(tags, start, k) = offset
        /\ \A j \in DOMAIN tags : TagOffset(tags, start, j) = offset => k <= j
=============================================================================
