-------------------------- MODULE PageTableClient --------------------------
(***************************************************************************)
(* The page table under arbitrary calls: pagetable_install once, and       *)
(* pagetable_map any number of times with any of the arguments given, on   *)
(* an allocator that may run out of memory.                                *)
(***************************************************************************)
EXTENDS PageTable

CONSTANTS Vaddrs, Paddrs, Sizes,   \* arguments of pagetable_map
          Memories,                \* the <<from, to>> the allocator starts with
          MaxCalls                 \* bound on the number of calls

\* The memory given to the allocator ends two pages below the last address, so
\* that no address of a table wraps around.  No size lies in the last page, the
\* largest that setup_paging asks for begins there.
ASSUME ClientAssumption ==
    /\ Paddrs \subseteq Nat /\ Vaddrs \subseteq Nat
    /\ \A size \in Sizes : size \in Nat /\ size + PageSize <= Word
    /\ \A m \in Memories : /\ m[1] \in Nat /\ m[2] \in Nat /\ m[1] <= m[2]
                           /\ m[2] + 2 * PageSize <= Word
    /\ MaxCalls \in Nat

VARIABLE calls                     \* number of calls so far

clientVars == <<alloc, tables, cr3, call, calls>>

ClientInit ==
    /\ PageInit
    /\ \E m \in Memories : alloc = AllocatorInitialize(m[1], m[2])
    /\ calls = 0

Install == PagetableInstall /\ UNCHANGED calls

Call(vaddr, paddr, size) ==
    /\ calls < MaxCalls
    /\ PagetableMap(vaddr, paddr, size)
    /\ calls' = calls + 1

Step == MapStep /\ UNCHANGED calls

ClientNext ==
    \/ Install
    \/ \E vaddr \in Vaddrs, paddr \in Paddrs, size \in Sizes :
          Call(vaddr, paddr, size)
    \/ Step

\* The loader runs alone on one processor: a call that has begun goes on.
ClientSpec == ClientInit /\ [][ClientNext]_clientVars /\ WF_clientVars(Step)

-----------------------------------------------------------------------------
\* Type invariant.
TypeOK ==
    /\ alloc \in [from : 0 .. Word, free : 0 .. Word, to : 0 .. Word]
    /\ \A t \in DOMAIN tables :
          tables[t] \in [0 .. PgdSize - 1 ->
                            [addr : 0 .. Word, flags : {{}, Flags}]]
    /\ cr3 \in 0 .. Word
    /\ call.pc \in {"idle", "loop", "walk"}
    /\ call.lvl \in 1 .. PageLevel
    /\ calls \in 0 .. MaxCalls
=============================================================================
