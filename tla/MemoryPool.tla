----------------------------- MODULE MemoryPool -----------------------------
(***************************************************************************)
(* What the loader's allocator promises: a shrinking pool of available     *)
(* addresses from which blocks are carved.  A block consists of addresses  *)
(* that were available, and an address that has been handed out or that    *)
(* belongs to a reserved zone never becomes available again.               *)
(***************************************************************************)
EXTENDS Integers

CONSTANT Spans       \* the sets of addresses the pool may start with

VARIABLES avail,     \* the addresses that may still be handed out
          zones,     \* the zones withdrawn from the pool, as <<from, to>>
          blocks     \* the blocks handed out, as [kind, from, to]

poolVars == <<avail, zones, blocks>>

\* The addresses of the half-open interval [from, to).
Cells(from, to) == from .. to - 1

Init ==
    /\ avail \in Spans
    /\ zones = {}
    /\ blocks = {}

\* The pool may lose more than what is asked for, never less.
Withdraw(z) ==
    /\ avail' \subseteq avail \ Cells(z[1], z[2])
    /\ zones' = zones \union {z}
    /\ UNCHANGED blocks

HandOut(b) ==
    /\ Cells(b.from, b.to) \subseteq avail
    /\ avail' \subseteq avail \ Cells(b.from, b.to)
    /\ blocks' = blocks \union {b}
    /\ UNCHANGED zones

Next ==
    \/ \E z \in zones' : Withdraw(z)
    \/ \E b \in blocks' : HandOut(b)

Spec == Init /\ [][Next]_poolVars
=============================================================================
