---------------------------- MODULE SchemeParser ----------------------------
(***************************************************************************)
(* parse_loader (mistral/loader.c) and parse_payload (mistral/payload.c):  *)
(* find the headers of a file, walk the tags of its multiboot2 header, and *)
(* fill a scheme.                                                          *)
(*                                                                         *)
(* The header of a file is a list of tags laid out one after the other at  *)
(* aligned offsets.  header_length may cut the list.                       *)
(***************************************************************************)
EXTENDS TagList

CONSTANTS HeaderSize,     \* sizeof (struct multiboot2_header)
          TagSize,        \* sizeof (struct multiboot2_tag)
          LengthEnd,      \* where the header_length field ends in the header
          Inputs          \* the files to parse, see InputAssumption

\* mistral, header : what mistral_lseek and multiboot2_lseek return for the file
\* length          : the header_length field
\* tags            : its tags, up to the end of the header or to one of size 0,
\*                   behind which the walk never looks; shift is
\*                   load_addr - header_addr in an address tag
File(file) ==
    LET last == Len(file.tags)
    IN  /\ file.mistral \in Nat \union {-1} /\ file.header \in Nat \union {-1}
        /\ file.length \in Nat
        /\ file.tags \in Seq({file.tags[k] : k \in DOMAIN file.tags})
        /\ \A k \in DOMAIN file.tags :
              /\ file.tags[k].type \in {"address", "entry", "other"}
              /\ file.tags[k].size \in Nat
              /\ file.tags[k].type = "address" => file.tags[k].shift \in Int
        /\ \/ file.length < TagOffset(file.tags, HeaderSize, last + 1) + TagSize
           \/ last > 0 /\ file.tags[last].size = 0

ASSUME InputAssumption ==
    /\ {Align, HeaderSize, TagSize} \subseteq Nat \ {0}
    /\ HeaderSize % Align = 0
    /\ LengthEnd \in 1 .. HeaderSize
    /\ \A input \in Inputs : File(input)

VARIABLES input,      \* the file
          who,        \* parse_loader or parse_payload
          pc,         \* the next call, or the result
          off,        \* the local of parse_multiboot2
          dest        \* the scheme; hkaddr and hentry are the numbers of the
                      \* tags they are copied from, 0 before

parser == <<input, who, pc, off, dest>>

Unset == -1

Unread == [mistral_offset |-> Unset, header_offset |-> Unset,
           hkaddr |-> 0, hentry |-> 0, load_offset |-> Unset,
           hkaddr_offset |-> Unset, hentry_offset |-> Unset]

ParserInit ==
    /\ input \in Inputs
    /\ who \in {"loader", "payload"}
    /\ pc = "open"
    /\ off = HeaderSize
    /\ dest = Unread

\* The number of the tag read at the current offset.
Here == TagNumber(input.tags, HeaderSize, off)

Go(next) == pc' = next /\ UNCHANGED <<input, who>>

\* A search does not find a header.
NoHeader ==
    \/ pc = "mistral" /\ input.mistral = -1
    \/ pc = "header" /\ input.header = -1

Refuse ==
    /\ NoHeader
    /\ Go("failed")
    /\ UNCHANGED <<off, dest>>

\* The file cannot be opened or read, or there is no memory for a header.
Fail ==
    /\ pc \in {"open", "mistral", "header"}
    /\ ~ NoHeader
    /\ Go("failed")
    /\ UNCHANGED <<off, dest>>

Open ==
    /\ pc = "open"
    /\ Go(IF who = "loader" THEN "mistral" ELSE "header")
    /\ UNCHANGED <<off, dest>>

MistralLseek ==
    /\ pc = "mistral" /\ input.mistral # -1
    /\ dest' = [dest EXCEPT !.mistral_offset = input.mistral]
    /\ Go("header")
    /\ UNCHANGED off

\* Both calls of multiboot2_lseek, for the length and for the whole header.  No
\* more is copied than header_length bytes.
Multiboot2Lseek ==
    /\ pc = "header" /\ input.header # -1
    /\ input.length >= LengthEnd
    /\ dest' = [dest EXCEPT !.header_offset = input.header]
    /\ Go("walk")
    /\ UNCHANGED off

\* header_length does not reach its own end, and is not copied: the parser goes on
\* with a length that nobody has written, and nothing is known of it any more.
LengthUnset ==
    /\ pc = "header" /\ input.header # -1
    /\ input.length < LengthEnd
    /\ Go("wild")
    /\ UNCHANGED <<off, dest>>

Inside == off + TagSize <= input.length /\ off + input.tags[Here].size <= input.length

Size == input.tags[Here].size

\* What one turn of parse_multiboot2 records of a tag.
Recorded ==
    LET at == IF who = "payload" THEN input.header + off ELSE Unset
    IN  CASE input.tags[Here].type = "address" ->
               [dest EXCEPT !.hkaddr = Here, !.hkaddr_offset = at]
          [] input.tags[Here].type = "entry" ->
               [dest EXCEPT !.hentry = Here, !.hentry_offset = at]
          [] OTHER -> dest

\* Mistaken: the first address wins.
WalkTagFirst ==
    /\ pc = "walk" /\ Inside
    /\ dest' = IF dest.hkaddr # 0 THEN dest ELSE Recorded
    /\ off' = Padded(off + Size)
    /\ Go("walk")

\* Mistaken: a tag of another type is not skipped.
WalkTagStays ==
    /\ pc = "walk" /\ Inside
    /\ dest' = Recorded
    /\ off' = IF dest' = dest THEN off ELSE Padded(off + Size)
    /\ Go("walk")

WalkTag ==
    /\ pc = "walk" /\ Inside
    /\ dest' = Recorded
    /\ off' = Padded(off + Size)
    /\ Go("walk")

\* The walk is over; the load offset is computed when both tags were found.
EndWalk ==
    /\ pc = "walk" /\ ~ Inside
    /\ IF dest.hkaddr # 0 /\ dest.hentry # 0
       THEN /\ Go("parsed")
            /\ dest' = [dest EXCEPT !.load_offset =
                           input.header + input.tags[dest.hkaddr].shift]
       ELSE Go("failed") /\ UNCHANGED dest
    /\ UNCHANGED off

ParserNext ==
    \/ Open \/ MistralLseek \/ Multiboot2Lseek \/ LengthUnset
    \/ WalkTag \/ EndWalk
    \/ Refuse \/ Fail

ParserSpec == ParserInit /\ [][ParserNext]_parser /\ WF_parser(ParserNext)

-----------------------------------------------------------------------------
\* The tags of a file that lie whole in the header, and the last of a type.
Whole(file) ==
    {k \in DOMAIN file.tags :
        \A j \in 1 .. k :
            LET at == TagOffset(file.tags, HeaderSize, j)
            IN  at + TagSize <= file.length /\ at + file.tags[j].size <= file.length}

OfType(file, type) == {k \in Whole(file) : file.tags[k].type = type}

LastOfType(file, type) == CHOOSE k \in OfType(file, type) : \A j \in OfType(file, type) : j <= k

\* A file from which all information can be had.
Complete(file, reader) ==
    /\ file.header # -1
    /\ reader = "loader" => file.mistral # -1
    /\ OfType(file, "address") # {} /\ OfType(file, "entry") # {}

\* "Return 0 if all information has been found, -1 otherwise": a file is
\* accepted exactly when both headers are there and the tags of the header that
\* are not cut hold an address and an entry; the scheme then describes the last
\* of each, wherever padding has put it.
SchemeRight ==
    LET address == LastOfType(input, "address")
        entry   == LastOfType(input, "entry")
        Offset(k) == TagOffset(input.tags, HeaderSize, k)
    IN  /\ pc = "parsed" =>
              /\ Complete(input, who)
              /\ dest.hkaddr = address
              /\ dest.hentry = entry
              /\ who = "payload" =>
                    /\ dest.hkaddr_offset = input.header + Offset(address)
                    /\ dest.hentry_offset = input.header + Offset(entry)
        /\ pc = "walk" /\ ~ Inside /\ Complete(input, who)
           => dest.hkaddr # 0 /\ dest.hentry # 0

\* The parser returns: padding, cuts and repetitions do not keep it from
\* advancing, and nothing but a tag of size 0 does, or a length that is not read.
ParseReturns ==
    <>(pc \in {"parsed", "failed", "wild"} \/ (pc = "walk" /\ Inside /\ Size = 0))
=============================================================================
