-------------------------------- MODULE Vga --------------------------------
(***************************************************************************)
(* The text screen of the loader (loader/vga.c), the only output of the    *)
(* boot: a buffer of lines * columns places, that scrolls by one line when *)
(* the cursor leaves it, and the cursor of the display.                    *)
(*                                                                         *)
(* past and shown are history variables: the lines that have scrolled      *)
(* away, and whether a character has been printed yet.                     *)
(***************************************************************************)
EXTENDS Integers, Sequences

CONSTANTS Lines, Columns,   \* VGA_DEFAULT_LINES, VGA_DEFAULT_COLUMNS
          TabSize,          \* 8 in the program
          ByteSize,         \* values of a register of the display, 256
          Glyphs            \* characters without a special meaning

\* A line is longer than the longest step of a tab.
ASSUME ScreenAssumption ==
    /\ {Lines, Columns, TabSize, ByteSize} \subseteq Nat \ {0}
    /\ Columns % TabSize = 0
    /\ TabSize < Columns
    /\ Lines * Columns <= ByteSize * ByteSize

VARIABLES buffer,    \* the places of the screen
          cursor,    \* its place, from 0
          crtc,      \* the two cursor registers of the display
          past,
          shown

screen == <<buffer, cursor, crtc, past, shown>>

Blank == "blank"

Total == Lines * Columns

Blanks(n) == [k \in 1 .. n |-> Blank]

\* vga_initialize and vga_clear, which leave the display's cursor where it is.
VgaInitialize ==
    /\ buffer = Blanks(Total)
    /\ cursor = 0
    /\ crtc \in [high : 0 .. ByteSize - 1, low : 0 .. ByteSize - 1]
    /\ past = <<>>
    /\ shown = FALSE

\* Mistaken: the low register holds the line.
UpdateLine(to) == crtc' = [high |-> to \div Columns, low |-> to % Columns]

\* vga_update
VgaUpdate(to) == crtc' = [high |-> (to \div ByteSize) % ByteSize, low |-> to % ByteSize]

\* Mistaken: the last line keeps its text.
ScrollKeepsLast(text) ==
    SubSeq(text, Columns + 1, Total) \o SubSeq(text, Total - Columns + 1, Total)

VgaScroll(text) == SubSeq(text, Columns + 1, Total) \o Blanks(Columns)

\* Mistaken: scrolls one character late.
FinishLate(to, text) ==
    /\ IF to > Total
       THEN buffer' = VgaScroll(text) /\ cursor' = to - Columns
            /\ past' = past \o SubSeq(text, 1, Columns)
       ELSE buffer' = text /\ cursor' = to /\ UNCHANGED past
    /\ VgaUpdate(cursor')
    /\ shown' = TRUE

\* The end of vga_putc, once the text and the cursor have changed.
Finish(to, text) ==
    /\ IF to >= Total
       THEN buffer' = VgaScroll(text) /\ cursor' = to - Columns
            /\ past' = past \o SubSeq(text, 1, Columns)
       ELSE buffer' = text /\ cursor' = to /\ UNCHANGED past
    /\ VgaUpdate(cursor')
    /\ shown' = TRUE

LineStart(p) == (p \div Columns) * Columns

PutGlyph(glyph) == Finish(cursor + 1, [buffer EXCEPT ![cursor + 1] = glyph])

\* The case of '\n' falls through to the one of '\r'.
PutNewLine == Finish(LineStart(cursor + Columns), buffer)

PutReturn == Finish(LineStart(cursor), buffer)

\* ((cursor + 1) & ~7) + 8
PutTab == Finish(((cursor + 1) \div TabSize) * TabSize + TabSize, buffer)

VgaPutc(c) ==
    \/ c \in Glyphs  /\ PutGlyph(c)
    \/ c = "newline" /\ PutNewLine
    \/ c = "return"  /\ PutReturn
    \/ c = "tab"     /\ PutTab

Characters == Glyphs \union {"newline", "return", "tab"}

\* Any text, as through vga_puts.
VgaSpec == VgaInitialize /\ [][\E c \in Characters : VgaPutc(c)]_screen

-----------------------------------------------------------------------------
\* Type invariant of the screen; the cursor never leaves the buffer, so that no
\* character is written behind the memory of the screen.
ScreenOK ==
    /\ buffer \in [1 .. Total -> Glyphs \union {Blank}]
    /\ cursor \in 0 .. Total - 1
    /\ crtc \in [high : 0 .. ByteSize - 1, low : 0 .. ByteSize - 1]
    /\ Len(past) % Columns = 0
    /\ shown \in BOOLEAN

\* The display shows its cursor where the next character will appear.
CursorShown == shown => ByteSize * crtc.high + crtc.low = cursor

\* The screen is the end of an endless page: scrolling neither loses, repeats
\* nor splits a line, wherever the cursor comes from.
Page == INSTANCE EndlessPage WITH page  <- past \o buffer,
                                  place <- Len(past) + cursor

PageSpec == Page!Spec
=============================================================================
