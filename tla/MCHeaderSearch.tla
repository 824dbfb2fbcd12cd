--------------------------- MODULE MCHeaderSearch ---------------------------
(***************************************************************************)
(* Windows of five cells, headers of two; every file of up to six cells,   *)
(* with headers cut by the end of the file or of the window.               *)
(***************************************************************************)
EXTENDS HeaderSearch

FilesOf(lengths) ==
    UNION {{f \in [1 .. n -> {Magic, 0, 2, 3}] :
              \A k \in 1 .. n : f[k] > 0 => k > 1 /\ f[k - 1] = Magic} : n \in lengths}

AllFiles  == FilesOf(0 .. 6)
LongFiles == FilesOf(2 .. 6)

\* Null memory, and the remains of headers.
MCGarbage ==
    {[k \in 0 .. Search - 1 |-> 0],
     [k \in 0 .. Search - 1 |-> IF k % 2 = 0 THEN Magic ELSE 2],
     [k \in 0 .. Search - 1 |-> IF k % 2 = 1 THEN Magic ELSE 2]}
=============================================================================
