--------------------------- MODULE MCSchemeParser ---------------------------
(***************************************************************************)
(* Headers of up to three tags, in words of four bytes: sizes that need    *)
(* padding, repeated tags, lists cut by header_length, one that cuts itself.        *)
(***************************************************************************)
EXTENDS SchemeParser

Tag(type, size) == [type |-> type, size |-> size, shift |-> -2]

Lists(sizes) ==
    UNION {{[k \in 1 .. n |-> Tag(shape[k][1], shape[k][2])] :
              shape \in [1 .. n -> {"address", "entry", "other"} \X sizes]} :
              n \in 0 .. 3}

\* A last tag may be shorter than the header it has to hold.
Total(tags) ==
    LET n == Len(tags)
    IN  IF n > 0 /\ tags[n].size = 0 THEN TagOffset(tags, HeaderSize, n) + TagSize
        ELSE TagOffset(tags, HeaderSize, n + 1)

InputsOf(lists, mistrals, headers) ==
    {[mistral |-> m, header |-> h, tags |-> tags, length |-> Total(tags) - cut] :
        m \in mistrals, h \in headers, tags \in lists, cut \in {0, 3}}

Full == <<Tag("address", 6), Tag("entry", 3), Tag("other", 2)>>

\* Tags of size 0 come last: nothing behind them is ever reached.
MCInputs ==
    InputsOf({tags \in Lists({0, 1, 2, 3}) :
                 \A k \in 1 .. Len(tags) - 1 : tags[k].size # 0}, {1}, {2})
        \union InputsOf({Full}, {-1, 1}, {-1, 2})
        \union {[mistral |-> 1, header |-> 2, tags |-> <<>>, length |-> 2]}
=============================================================================
