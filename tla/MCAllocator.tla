---------------------------- MODULE MCAllocator ----------------------------
(***************************************************************************)
(* A small address space for the allocator: 24 addresses, two regions and  *)
(* every zone of an even grid that touches or crosses them.                *)
(***************************************************************************)
EXTENDS Allocator

MCRegions == {<<3, 15>>, <<5, 16>>}

MCZones == {<<2, 4>>, <<3, 7>>, <<6, 8>>, <<7, 11>>, <<10, 12>>, <<14, 18>>,
            <<2, 18>>}

MCSizes == {1, 2}

MCAligns == {0, 1, 4}
=============================================================================
