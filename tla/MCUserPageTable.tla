-------------------------- MODULE MCUserPageTable --------------------------
(***************************************************************************)
(* Three levels of two entries of two bytes: eight pages of four bytes.    *)
(* The mapping at 48 is on two pages of it as well.                        *)
(***************************************************************************)
EXTENDS UserPageTable

Mapping(v, p, s) == [vaddr |-> v, paddr |-> p, size |-> s]

MCMappings ==
    {Mapping(0, 8, 4), Mapping(4, 0, 8), Mapping(12, 40, 4), Mapping(8, 16, 16),
     Mapping(0, 20, 16), Mapping(24, 4, 8), Mapping(48, 32, 8),
     Mapping(2, 8, 4), Mapping(16, 6, 4), Mapping(16, 8, 0), Mapping(16, 8, 6)}

MCAts == {0, 12, 2}
=============================================================================
