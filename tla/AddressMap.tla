----------------------------- MODULE AddressMap -----------------------------
(***************************************************************************)
(* What the loader's page table promises to its callers: a map from        *)
(* virtual to physical pages.  A call asks for a run of pages; they are    *)
(* mapped one by one and in order, nothing else changes, and the call      *)
(* succeeds only when the whole run is mapped.  A call that fails leaves a *)
(* prefix of the run mapped.                                               *)
(***************************************************************************)
EXTENDS Integers

CONSTANTS VPages,     \* number of virtual pages
          Unmapped,   \* what a page without mapping is mapped to
          Mapped(_)   \* what a page mapped on a physical page is mapped to

VARIABLES map,        \* the map
          request,    \* the current or last call, as [vpage, ppage, count]
          done,       \* number of pages of it that are mapped
          busy,       \* whether the call is in progress
          success     \* what the last finished call returned

mapVars == <<map, request, done, busy, success>>

Init ==
    /\ map = [v \in 0 .. VPages - 1 |-> Unmapped]
    /\ ~ busy

\* A call that breaks a precondition is refused and maps nothing.
Refuse ==
    /\ ~ busy
    /\ success' = FALSE
    /\ UNCHANGED <<map, request, done, busy>>

Begin ==
    /\ ~ busy
    /\ busy'
    /\ request'.count > 0
    /\ done' = 0
    /\ UNCHANGED <<map, success>>

Assign ==
    /\ busy
    /\ done < request.count
    /\ map' = [map EXCEPT ![(request.vpage + done) % VPages] =
                              Mapped(request.ppage + done)]
    /\ done' = done + 1
    /\ UNCHANGED <<request, busy, success>>

Finish ==
    /\ busy
    /\ ~ busy'
    /\ success' => done = request.count
    /\ UNCHANGED <<map, request, done>>

Next == Refuse \/ Begin \/ Assign \/ Finish

Spec == Init /\ [][Next]_mapVars
=============================================================================
