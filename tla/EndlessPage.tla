---------------------------- MODULE EndlessPage ----------------------------
(***************************************************************************)
(* What the loader's screen promises to printk: text goes to a page that   *)
(* has always room for another row, and what has been written stays there. *)
(***************************************************************************)
EXTENDS Integers, Sequences

CONSTANTS Columns,    \* characters of a row
          TabSize,    \* distance of the tab stops
          Glyphs,     \* characters that are shown
          Blank       \* an empty place

VARIABLES page,       \* the places of all rows so far, row after row
          place       \* where the next character goes, counted from 0

pageVars == <<page, place>>

Init ==
    /\ \A k \in DOMAIN page : page[k] = Blank
    /\ place = 0

\* Moving to a place may open one more row.
MoveTo(p, text) ==
    /\ place' = p
    /\ page' = IF p < Len(text) THEN text
               ELSE text \o [k \in 1 .. Columns |-> Blank]

Show(glyph) == MoveTo(place + 1, [page EXCEPT ![place + 1] = glyph])

NewLine == MoveTo((place \div Columns + 1) * Columns, page)

Return == MoveTo((place \div Columns) * Columns, page)

\* One of the next two tab stops.
Tab ==
    \E p \in place + 1 .. place + 2 * TabSize : p % TabSize = 0 /\ MoveTo(p, page)

Next == (\E glyph \in Glyphs : Show(glyph)) \/ NewLine \/ Return \/ Tab

Spec == Init /\ [][Next]_pageVars
=============================================================================
