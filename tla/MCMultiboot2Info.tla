-------------------------- MODULE MCMultiboot2Info --------------------------
(***************************************************************************)
(* Lists of up to three tags and the end tag, in words of two bytes, at    *)
(* the bottom, in the middle and at the top of 64 addresses.  A tag of     *)
(* size 0, behind which nothing is reached, comes last before the end tag. *)
(***************************************************************************)
EXTENDS Multiboot2Info

Tag(type, size) == [type |-> type, size |-> size]

MCAddrs == {2, 20} \union {a \in 40 .. 62 : a % Align = 0}

MCInfos ==
    UNION {{Append([k \in 1 .. n |-> shape[k]], Tag("end", 2)) :
              shape \in {s \in [1 .. n -> {Tag("mmap", 6), Tag("mmap", 2), Tag("mmap", 0),
                                    Tag("cmdline", 3), Tag("module", 5), Tag("module", 0)}] :
                           \A k \in 1 .. n - 1 : s[k].size # 0}} :
              n \in 0 .. 3}
=============================================================================
