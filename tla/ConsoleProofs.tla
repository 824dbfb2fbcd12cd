---------------------------- MODULE ConsoleProofs ----------------------------
(***************************************************************************)
(* Proofs about the loader's console.  For screens, tab stops and          *)
(* registers of every size the cursor stays in the buffer, the display     *)
(* shows it there, and the screen implements the endless page.  The        *)
(* formatted output reaches the screen through vga_putc alone, so that all *)
(* of this holds of it, whatever the calls, their formats and arguments.   *)
(* What it prints is whole, and its numbers read back: the figures of a    *)
(* number are its digits in the base, found from the highest down.         *)
(***************************************************************************)
EXTENDS Printk, Numbers, SequenceTheorems, TLAPS

Places == Glyphs \union {Blank}

\* Whole lines have scrolled away, so that a line begins where the screen does.
ScreenInv ==
    /\ buffer \in Seq(Places) /\ Len(buffer) = Total
    /\ past \in Seq(Places) /\ Len(past) % Columns = 0
    /\ cursor \in 0 .. Total - 1
    /\ crtc \in [high : 0 .. ByteSize - 1, low : 0 .. ByteSize - 1]
    /\ shown \in BOOLEAN
    /\ CursorShown

-----------------------------------------------------------------------------
(***************************************************************************)
(* Lines and sizes.                                                        *)
(***************************************************************************)

\* Whole lines before a place do not change its line.
LEMMA LinesBefore ==
    ASSUME NEW b \in Nat \ {0}, NEW n \in Nat, n % b = 0, NEW c \in Nat
    PROVE  ((n + c) \div b) * b = n + (c \div b) * b
  <1> DEFINE p == n \div b
             q == c \div b
             r == c % b
  <1>1. p \in Nat /\ n = b * p
    BY Divided
  <1>2. q \in Nat /\ r \in 0 .. b - 1 /\ c = b * q + r
    BY Divided
  <1> HIDE DEF p, q, r
  <1>3. n + c = b * (p + q) + r /\ p + q \in Nat
    BY <1>1, <1>2
  <1>4. (n + c) \div b = p + q
    <2>1. (b * (p + q) + r) \div b = p + q
      BY <1>2, <1>3, DividedOnce
    <2> QED
      BY <1>3, <2>1
  <1>5. (p + q) * b = b * p + q * b
    BY <1>1, <1>2
  <1> QED
    BY <1>1, <1>4, <1>5 DEF q

-----------------------------------------------------------------------------
(***************************************************************************)
(* The end of a step of the screen.                                        *)
(***************************************************************************)

\* The sizes of the screen.
LEMMA Sizes ==
    /\ Columns \in Nat \ {0} /\ TabSize \in Nat \ {0} /\ ByteSize \in Nat \ {0}
    /\ Columns % TabSize = 0 /\ TabSize < Columns
    /\ Total \in Nat /\ Columns <= Total /\ Total <= ByteSize * ByteSize
  <1>1. /\ Lines \in Nat \ {0} /\ Columns \in Nat \ {0}
        /\ TabSize \in Nat \ {0} /\ ByteSize \in Nat \ {0}
    BY ScreenAssumption
  <1> DEFINE m == Lines - 1
  <1>2. m \in Nat /\ Lines = m + 1
    BY <1>1
  <1> HIDE DEF m
  <1>3. Lines * Columns = m * Columns + Columns /\ m * Columns \in Nat
    BY <1>1, <1>2
  <1> QED
    BY <1>1, <1>3, ScreenAssumption DEF Total

\* The registers of the display hold any place of the screen.
LEMMA Registers ==
    ASSUME NEW to \in 0 .. Total - 1, VgaUpdate(to)
    PROVE  /\ crtc' \in [high : 0 .. ByteSize - 1, low : 0 .. ByteSize - 1]
           /\ ByteSize * crtc'.high + crtc'.low = to
  <1> DEFINE q == to \div ByteSize
             r == to % ByteSize
  <1>1. /\ ByteSize \in Nat \ {0} /\ to \in Nat /\ to < ByteSize * ByteSize
    BY Sizes
  <1>2. q \in Nat /\ r \in 0 .. ByteSize - 1 /\ to = ByteSize * q + r
    BY <1>1, Divided
  <1>3. crtc' = [high |-> q % ByteSize, low |-> r]
    BY DEF VgaUpdate
  <1> HIDE DEF q, r
  <1>4. q < ByteSize
    <2> SUFFICES ASSUME q >= ByteSize PROVE FALSE
      BY <1>1, <1>2
    <2>1. PICK d \in Nat : q = ByteSize + d
      BY <1>1, <1>2, q - ByteSize \in Nat
    <2>2. /\ ByteSize * q = ByteSize * ByteSize + ByteSize * d
          /\ ByteSize * d \in Nat /\ ByteSize * ByteSize \in Nat
      BY <1>1, <2>1
    <2> QED
      BY <1>1, <1>2, <2>2
  <1>5. q % ByteSize = q
    <2>1. ByteSize * 0 + q = q /\ q \in 0 .. ByteSize - 1
      BY <1>1, <1>2, <1>4
    <2>2. (ByteSize * 0 + q) % ByteSize = q
      BY <1>1, <2>1, DividedOnce
    <2> QED
      BY <2>1, <2>2
  <1>6. q \in 0 .. ByteSize - 1
    BY <1>1, <1>2, <1>4
  <1>7. crtc' = [high |-> q, low |-> r]
    BY <1>3, <1>5
  <1> QED
    BY <1>2, <1>6, <1>7

\* Blanks are places.
LEMMA BlankPlaces ==
    ASSUME NEW n \in Nat
    PROVE  /\ Blanks(n) \in Seq(Places) /\ Len(Blanks(n)) = n
           /\ \A k \in 1 .. n : Blanks(n)[k] = Blank
  <1>1. Blanks(n) \in [1 .. n -> Places]
    BY DEF Blanks, Places
  <1> QED
    BY <1>1 DEF Blanks

\* Parts of a chars can be taken together.
LEMMA Regrouped ==
    ASSUME NEW a \in Seq(Places), NEW b \in Seq(Places),
           NEW c \in Seq(Places), NEW d \in Seq(Places)
    PROVE  (a \o b) \o (c \o d) = (a \o (b \o c)) \o d
  <1>1. a \o b \in Seq(Places) /\ b \o c \in Seq(Places)
    BY ConcatProperties
  <1>2. (a \o b) \o (c \o d) = ((a \o b) \o c) \o d
    BY <1>1, ConcatAssociative
  <1>3. (a \o b) \o c = a \o (b \o c)
    BY ConcatAssociative
  <1> QED
    BY <1>2, <1>3

\* Scrolling opens a line under the page and changes no other.
LEMMA Scrolled ==
    ASSUME NEW chars \in Seq(Places), Len(chars) = Total, NEW old \in Seq(Places)
    PROVE  LET first == SubSeq(chars, 1, Columns)
           IN  /\ VgaScroll(chars) \in Seq(Places) /\ Len(VgaScroll(chars)) = Total
               /\ old \o first \in Seq(Places)
               /\ Len(old \o first) = Len(old) + Columns
               /\ (old \o first) \o VgaScroll(chars)
                      = (old \o chars) \o Blanks(Columns)
  <1> DEFINE first == SubSeq(chars, 1, Columns)
             rest  == SubSeq(chars, Columns + 1, Total)
             empty == Blanks(Columns)
  <1>1. Columns \in Nat /\ Total \in Nat /\ Columns <= Total
    BY Sizes
  <1>2. \A k \in 1 .. Total : chars[k] \in Places
    BY ElementOfSeq
  <1>3. first \in Seq(Places) /\ Len(first) = Columns
    <2>1. \A k \in 1 .. Columns : chars[k] \in Places
      BY <1>1, <1>2
    <2> QED
      BY <1>1, <2>1, SubSeqProperties
  <1>4. rest \in Seq(Places) /\ Len(rest) = Total - Columns
    <2>1. \A k \in Columns + 1 .. Total : chars[k] \in Places
      BY <1>1, <1>2
    <2> QED
      BY <1>1, <2>1, SubSeqProperties
  <1>5. empty \in Seq(Places) /\ Len(empty) = Columns
    BY <1>1, BlankPlaces
  <1>6. first \o rest = chars
    <2>1. first \o rest = SubSeq(chars, 1, Total)
      BY <1>1, <1>2, ConcatAdjacentSubSeq
    <2> QED
      BY <2>1, SubSeqFull
  <1> HIDE DEF first, rest, empty
  <1>7. old \o first \in Seq(Places) /\ Len(old \o first) = Len(old) + Columns
    BY <1>3, ConcatProperties
  <1>8. rest \o empty \in Seq(Places) /\ Len(rest \o empty) = Total
    <2>1. /\ rest \o empty \in Seq(Places)
          /\ Len(rest \o empty) = Len(rest) + Len(empty)
      BY <1>4, <1>5, ConcatProperties
    <2> QED
      BY <1>1, <1>4, <1>5, <2>1
  <1>9. (old \o first) \o (rest \o empty) = (old \o chars) \o empty
    <2>1. PICK f \in Seq(Places), r \in Seq(Places), e \in Seq(Places) :
             f = first /\ r = rest /\ e = empty
      BY <1>3, <1>4, <1>5
    <2>2. (old \o f) \o (r \o e) = (old \o (f \o r)) \o e
      BY Regrouped, SMTT(60)
    <2> QED
      BY <1>6, <2>1, <2>2
  <1>10. VgaScroll(chars) = rest \o empty
    BY DEF VgaScroll, rest, empty
  <1> QED
    BY <1>7, <1>8, <1>9, <1>10 DEF first, empty

\* The step ends with the cursor on the screen, having moved on the page.
LEMMA Finished ==
    ASSUME ScreenInv, NEW chars \in Seq(Places), Len(chars) = Total,
           NEW to \in 0 .. Total + Columns - 1, Finish(to, chars)
    PROVE  ScreenInv' /\ Page!MoveTo(Len(past) + to, past \o chars)
  <1>1. /\ past \in Seq(Places) /\ Len(past) \in Nat /\ Len(past) % Columns = 0
        /\ Columns \in Nat \ {0} /\ Total \in Nat /\ Columns <= Total
        /\ ByteSize \in Nat /\ to \in Nat
    BY Sizes, LenProperties DEF ScreenInv
  <1>2. past \o chars \in Seq(Places) /\ Len(past \o chars) = Len(past) + Total
    BY <1>1, ConcatProperties
  <1>3. VgaUpdate(cursor') /\ shown' = TRUE
    BY DEF Finish
  <1>4. cursor' \in 0 .. Total - 1 => CursorShown' /\ crtc' \in
            [high : 0 .. ByteSize - 1, low : 0 .. ByteSize - 1]
    <2> SUFFICES ASSUME cursor' \in 0 .. Total - 1
                 PROVE  CursorShown' /\ crtc' \in
                           [high : 0 .. ByteSize - 1, low : 0 .. ByteSize - 1]
      OBVIOUS
    <2> DEFINE c == cursor'
    <2>1. c \in 0 .. Total - 1 /\ VgaUpdate(c)
      BY <1>3
    <2> HIDE DEF c
    <2>2. /\ crtc' \in [high : 0 .. ByteSize - 1, low : 0 .. ByteSize - 1]
          /\ ByteSize * crtc'.high + crtc'.low = c
      BY <2>1, Registers
    <2> QED
      BY <2>2 DEF c, CursorShown
  <1>5. CASE to >= Total
    <2> DEFINE first == SubSeq(chars, 1, Columns)
    <2>1. /\ buffer' = VgaScroll(chars) /\ cursor' = to - Columns
          /\ past' = past \o first
      BY <1>5 DEF Finish
    <2>2. /\ VgaScroll(chars) \in Seq(Places) /\ Len(VgaScroll(chars)) = Total
          /\ past \o first \in Seq(Places) /\ Len(past \o first) = Len(past) + Columns
          /\ (past \o first) \o VgaScroll(chars) = (past \o chars) \o Blanks(Columns)
      BY <1>1, Scrolled
    <2> HIDE DEF first
    <2>3. cursor' \in 0 .. Total - 1
      BY <1>1, <1>5, <2>1
    <2>4. (Len(past) + Columns) % Columns = 0
      <3>1. PICK q \in Nat : Len(past) = Columns * q
        BY <1>1, Multiple
      <3>2. Len(past) + Columns = Columns * (q + 1) + 0 /\ q + 1 \in Nat
        BY <1>1, <3>1
      <3>3. (Columns * (q + 1) + 0) % Columns = 0
        <4>1. Columns \in Nat \ {0} /\ 0 \in 0 .. Columns - 1 /\ q + 1 \in Nat
          BY <1>1, <3>2
        <4> QED
          BY <4>1, DividedOnce
      <3> QED
        BY <3>2, <3>3
    <2>5. ScreenInv'
      BY <1>3, <1>4, <2>1, <2>2, <2>3, <2>4 DEF ScreenInv
    <2>6. Len(past') + cursor' = Len(past) + to
      BY <1>1, <2>1, <2>2
    <2>7. past' \o buffer' = (past \o chars) \o [k \in 1 .. Columns |-> Blank]
      BY <2>1, <2>2 DEF Blanks
    <2>8. ~ Len(past) + to < Len(past \o chars)
      BY <1>1, <1>2, <1>5
    <2> QED
      BY <2>5, <2>6, <2>7, <2>8 DEF Page!MoveTo
  <1>6. CASE to < Total
    <2>1. buffer' = chars /\ cursor' = to /\ past' = past
      BY <1>1, <1>6 DEF Finish
    <2>2. cursor' \in 0 .. Total - 1
      BY <1>1, <1>6, <2>1
    <2>3. ScreenInv'
      BY <1>1, <1>3, <1>4, <2>1, <2>2 DEF ScreenInv
    <2>4. Len(past) + to < Len(past \o chars)
      BY <1>1, <1>2, <1>6
    <2> QED
      BY <2>1, <2>3, <2>4 DEF Page!MoveTo
  <1> QED
    BY <1>1, <1>5, <1>6

-----------------------------------------------------------------------------
(***************************************************************************)
(* The steps of vga_putc.                                                  *)
(***************************************************************************)

\* The start of a place's line is at most a line before it.
LEMMA LineStarts ==
    ASSUME NEW p \in Nat
    PROVE  LineStart(p) \in 0 .. p
  <1> DEFINE q == p \div Columns
  <1>1. q \in Nat /\ Columns * q <= p /\ Columns \in Nat
    BY Sizes, Divided
  <1> HIDE DEF q
  <1>2. q * Columns = Columns * q /\ q * Columns \in Nat
    BY <1>1
  <1> QED
    BY <1>1, <1>2 DEF LineStart, q

\* A character.
LEMMA GlyphStep ==
    ASSUME ScreenInv, NEW glyph \in Glyphs, PutGlyph(glyph)
    PROVE  ScreenInv' /\ Page!Show(glyph)
  <1> DEFINE chars == [buffer EXCEPT ![cursor + 1] = glyph]
             page == past \o buffer
             at   == Len(past) + cursor + 1
  <1>1. /\ buffer \in Seq(Places) /\ Len(buffer) = Total
        /\ past \in Seq(Places) /\ Len(past) \in Nat
        /\ cursor \in 0 .. Total - 1 /\ glyph \in Places
        /\ Columns \in Nat \ {0} /\ Total \in Nat
    BY Sizes, LenProperties DEF ScreenInv, Places
  <1>2. /\ chars \in Seq(Places) /\ Len(chars) = Total
        /\ \A j \in 1 .. Total : chars[j] = IF j = cursor + 1 THEN glyph ELSE buffer[j]
    BY <1>1, ExceptSeq
  <1>3. cursor + 1 \in 0 .. Total + Columns - 1
    BY <1>1
  <1>4. ScreenInv' /\ Page!MoveTo(Len(past) + (cursor + 1), past \o chars)
    BY <1>2, <1>3, Finished DEF PutGlyph
  <1>5. past \o chars = [page EXCEPT ![at] = glyph]
    <2>1. /\ page \in Seq(Places) /\ Len(page) = Len(past) + Total
          /\ \A k \in 1 .. Len(past) + Total :
                page[k] = IF k <= Len(past) THEN past[k] ELSE buffer[k - Len(past)]
      BY <1>1, ConcatProperties
    <2>2. /\ past \o chars \in Seq(Places) /\ Len(past \o chars) = Len(past) + Total
          /\ \A k \in 1 .. Len(past) + Total :
                (past \o chars)[k] = IF k <= Len(past) THEN past[k]
                                    ELSE chars[k - Len(past)]
      BY <1>1, <1>2, ConcatProperties
    <2> HIDE DEF chars, page
    <2>3. at \in 1 .. Len(page)
      BY <1>1, <2>1
    <2>4. /\ [page EXCEPT ![at] = glyph] \in Seq(Places)
          /\ Len([page EXCEPT ![at] = glyph]) = Len(page)
          /\ \A k \in 1 .. Len(page) :
                [page EXCEPT ![at] = glyph][k] = IF k = at THEN glyph ELSE page[k]
      BY <1>1, <2>1, <2>3, ExceptSeq
    <2>5. ASSUME NEW k \in 1 .. Len(past) + Total
          PROVE  (past \o chars)[k] = [page EXCEPT ![at] = glyph][k]
      <3>1. CASE k <= Len(past)
        BY <1>1, <2>1, <2>2, <2>4, <3>1
      <3>2. CASE k > Len(past)
        <4>1. k - Len(past) \in 1 .. Total
          BY <1>1, <3>2
        <4>2. (past \o chars)[k] = chars[k - Len(past)] /\ page[k] = buffer[k - Len(past)]
          BY <1>1, <2>1, <2>2, <3>2
        <4>3. k = at <=> k - Len(past) = cursor + 1
          BY <1>1
        <4>4. chars[k - Len(past)] = IF k = at THEN glyph ELSE buffer[k - Len(past)]
          BY <1>2, <4>1, <4>3
        <4>5. [page EXCEPT ![at] = glyph][k] = IF k = at THEN glyph ELSE page[k]
          BY <2>1, <2>4
        <4> QED
          BY <4>2, <4>4, <4>5
      <3>3. k <= Len(past) \/ k > Len(past)
        BY <1>1
      <3> QED
        BY <3>1, <3>2, <3>3
    <2> QED
      BY <2>1, <2>2, <2>4, <2>5, SeqEqual
  <1>6. Len(past) + (cursor + 1) = Len(past) + cursor + 1
    BY <1>1
  <1> QED
    BY <1>4, <1>5, <1>6 DEF Page!Show

\* A new line.
LEMMA NewLineStep ==
    ASSUME ScreenInv, PutNewLine
    PROVE  ScreenInv' /\ Page!NewLine
  <1>1. /\ buffer \in Seq(Places) /\ Len(buffer) = Total
        /\ Len(past) \in Nat /\ Len(past) % Columns = 0
        /\ cursor \in 0 .. Total - 1 /\ Columns \in Nat \ {0} /\ Total \in Nat
    BY Sizes, LenProperties DEF ScreenInv
  <1>2. LineStart(cursor + Columns) \in 0 .. Total + Columns - 1
    <2>1. cursor + Columns \in Nat
      BY <1>1
    <2>2. LineStart(cursor + Columns) \in 0 .. cursor + Columns
      BY <2>1, LineStarts
    <2> QED
      BY <1>1, <2>2
  <1>3. /\ ScreenInv'
        /\ Page!MoveTo(Len(past) + LineStart(cursor + Columns), past \o buffer)
    BY <1>1, <1>2, Finished DEF PutNewLine
  <1>4. Len(past) + LineStart(cursor + Columns)
            = ((Len(past) + cursor) \div Columns + 1) * Columns
    <2> DEFINE p == Len(past) + cursor
               q == p \div Columns
               r == p % Columns
    <2>0. p \in Nat
      BY <1>1
    <2>1. p \in Nat /\ q \in Nat /\ r \in 0 .. Columns - 1 /\ p = Columns * q + r
      <3> HIDE DEF p
      <3> QED
        BY <1>1, <2>0, Divided
    <2>2. ((Len(past) + (cursor + Columns)) \div Columns) * Columns
              = Len(past) + LineStart(cursor + Columns)
      BY <1>1, cursor + Columns \in Nat, LinesBefore DEF LineStart
    <2>3. Len(past) + (cursor + Columns) = p + Columns
      BY <1>1
    <2> HIDE DEF p, q, r
    <2>4. p + Columns = Columns * (q + 1) + r /\ q + 1 \in Nat
      BY <1>1, <2>1
    <2>5. (Columns * (q + 1) + r) \div Columns = q + 1
      BY <1>1, <2>1, <2>4, DividedOnce
    <2> QED
      BY <2>2, <2>3, <2>4, <2>5 DEF p, q
  <1> QED
    BY <1>3, <1>4 DEF Page!NewLine

\* A carriage return.
LEMMA ReturnStep ==
    ASSUME ScreenInv, PutReturn
    PROVE  ScreenInv' /\ Page!Return
  <1>1. /\ buffer \in Seq(Places) /\ Len(buffer) = Total
        /\ Len(past) \in Nat /\ Len(past) % Columns = 0
        /\ cursor \in 0 .. Total - 1 /\ Columns \in Nat \ {0} /\ Total \in Nat
    BY Sizes, LenProperties DEF ScreenInv
  <1>2. LineStart(cursor) \in 0 .. Total + Columns - 1
    <2>1. LineStart(cursor) \in 0 .. cursor
      BY <1>1, LineStarts
    <2> QED
      BY <1>1, <2>1
  <1>3. ScreenInv' /\ Page!MoveTo(Len(past) + LineStart(cursor), past \o buffer)
    BY <1>1, <1>2, Finished DEF PutReturn
  <1>4. Len(past) + LineStart(cursor) = ((Len(past) + cursor) \div Columns) * Columns
    <2> DEFINE n == Len(past)
    <2>1. n \in Nat /\ n % Columns = 0 /\ cursor \in Nat
      BY <1>1
    <2> HIDE DEF n
    <2>2. ((n + cursor) \div Columns) * Columns = n + (cursor \div Columns) * Columns
      BY <1>1, <2>1, LinesBefore
    <2> QED
      BY <2>2 DEF LineStart, n
  <1> QED
    BY <1>3, <1>4 DEF Page!Return

\* A tab: a whole number of tab stops lies before the line.
LEMMA TabStep ==
    ASSUME ScreenInv, PutTab
    PROVE  ScreenInv' /\ Page!Tab
  <1> DEFINE q  == (cursor + 1) \div TabSize
             r  == (cursor + 1) % TabSize
             to == q * TabSize + TabSize
  <1>1. /\ buffer \in Seq(Places) /\ Len(buffer) = Total
        /\ Len(past) \in Nat /\ Len(past) % Columns = 0
        /\ cursor \in 0 .. Total - 1 /\ Columns \in Nat \ {0} /\ Total \in Nat
        /\ TabSize \in Nat \ {0} /\ TabSize < Columns /\ Columns % TabSize = 0
    BY Sizes, LenProperties DEF ScreenInv
  <1>2. q \in Nat /\ r \in 0 .. TabSize - 1 /\ cursor + 1 = TabSize * q + r
    BY <1>1, cursor + 1 \in Nat, Divided
  <1>3. Finish(to, buffer)
    BY DEF PutTab
  <1> HIDE DEF q, r
  <1>4. q * TabSize = TabSize * q /\ q * TabSize \in Nat
    BY <1>1, <1>2
  <1>5. to \in cursor + 1 .. cursor + 2 * TabSize /\ to \in 0 .. Total + Columns - 1
    BY <1>1, <1>2, <1>4
  <1>6. ScreenInv' /\ Page!MoveTo(Len(past) + to, past \o buffer)
    BY <1>1, <1>3, <1>5, Finished
  <1>7. (Len(past) + to) % TabSize = 0
    <2>1. PICK l \in Nat : Len(past) = Columns * l
      BY <1>1, Multiple
    <2>2. PICK c \in Nat : Columns = TabSize * c
      BY <1>1, Multiple
    <2>3. Len(past) = TabSize * (c * l) /\ c * l \in Nat
      BY <1>1, <2>1, <2>2
    <2> DEFINE m == c * l
    <2> HIDE DEF m
    <2>4. m \in Nat /\ Len(past) = TabSize * m
      BY <2>3 DEF m
    <2>5. Len(past) + to = TabSize * (m + q + 1) + 0 /\ m + q + 1 \in Nat
      BY <1>1, <1>2, <1>4, <2>4
    <2>6. (TabSize * (m + q + 1) + 0) % TabSize = 0
      BY <1>1, <2>5, DividedOnce
    <2> QED
      BY <2>5, <2>6
  <1>8. Len(past) + to \in Len(past) + cursor + 1 .. Len(past) + cursor + 2 * TabSize
    BY <1>1, <1>5
  <1> QED
    BY <1>6, <1>7, <1>8 DEF Page!Tab

-----------------------------------------------------------------------------
(***************************************************************************)
(* The screen.                                                             *)
(***************************************************************************)

\* vga_initialize establishes the invariant.
LEMMA ScreenInitial == VgaInitialize => ScreenInv /\ Page!Init
  <1> SUFFICES ASSUME VgaInitialize PROVE ScreenInv /\ Page!Init
    OBVIOUS
  <1>1. Columns \in Nat \ {0} /\ Total \in Nat \ {0}
    BY Sizes
  <1>2. /\ Blanks(Total) \in Seq(Places) /\ Len(Blanks(Total)) = Total
        /\ \A k \in 1 .. Total : Blanks(Total)[k] = Blank
    BY <1>1, BlankPlaces
  <1>3. /\ buffer = Blanks(Total) /\ cursor = 0 /\ past = <<>> /\ shown = FALSE
        /\ crtc \in [high : 0 .. ByteSize - 1, low : 0 .. ByteSize - 1]
    BY DEF VgaInitialize
  <1>4. past \in Seq(Places) /\ Len(past) = 0 /\ Len(past) % Columns = 0
    <2>1. past \in Seq(Places) /\ Len(past) = 0
      BY <1>3
    <2>2. (Columns * 0 + 0) % Columns = 0 /\ Columns * 0 + 0 = 0
      <3>1. Columns \in Nat \ {0} /\ 0 \in 0 .. Columns - 1
        BY <1>1
      <3>2. (Columns * 0 + 0) % Columns = 0
        BY <3>1, DividedOnce
      <3> QED
        BY <3>1, <3>2
    <2> QED
      BY <2>1, <2>2
  <1>5. ScreenInv
    <2>1. 0 \in 0 .. Total - 1 /\ FALSE \in BOOLEAN
      BY <1>1
    <2> QED
      BY <2>1, <1>1, <1>2, <1>3, <1>4 DEF ScreenInv, CursorShown
  <1>6. past \o buffer = buffer
    BY <1>2, <1>3, ConcatEmptySeq
  <1>7. Page!Init
    <2>1. DOMAIN buffer = 1 .. Total
      BY <1>2, <1>3, LenProperties
    <2>2. \A k \in DOMAIN (past \o buffer) : (past \o buffer)[k] = Blank
      BY <1>2, <1>3, <1>6, <2>1
    <2>3. Len(past) + cursor = 0
      BY <1>3, <1>4
    <2> QED
      BY <2>2, <2>3 DEF Page!Init
  <1> QED
    BY <1>5, <1>7

\* vga_putc keeps it, and does to the page what the page promises.
LEMMA ScreenStep ==
    ASSUME ScreenInv, [\E c \in Characters : VgaPutc(c)]_screen
    PROVE  ScreenInv' /\ [Page!Next]_(Page!pageVars)
  <1>1. ASSUME NEW c \in Glyphs, PutGlyph(c)
        PROVE  ScreenInv' /\ Page!Next
    BY <1>1, GlyphStep DEF Page!Next
  <1>2. CASE PutNewLine
    BY <1>2, NewLineStep DEF Page!Next
  <1>3. CASE PutReturn
    BY <1>3, ReturnStep DEF Page!Next
  <1>4. CASE PutTab
    BY <1>4, TabStep DEF Page!Next
  <1>5. CASE UNCHANGED screen
    BY <1>5 DEF screen, ScreenInv, CursorShown, Page!pageVars
  <1> QED
    BY <1>1, <1>2, <1>3, <1>4, <1>5 DEF VgaPutc

\* Whatever is printed, the cursor of vga_putc stays in the buffer, so that no
\* character is written behind the memory of the screen.
THEOREM CursorInScreen == VgaSpec => []ScreenOK
  <1>1. ScreenInv => ScreenOK
    <2> SUFFICES ASSUME ScreenInv PROVE ScreenOK
      OBVIOUS
    <2>1. buffer \in [1 .. Total -> Places]
      BY LenProperties DEF ScreenInv
    <2> QED
      BY <2>1 DEF ScreenInv, ScreenOK, Places
  <1> QED
    BY <1>1, ScreenInitial, ScreenStep, PTL DEF VgaSpec

\* Whatever is printed, vga_update has put the display's cursor where the next
\* character will appear: its two registers hold every place of the screen.
THEOREM DisplayFollows == VgaSpec => []CursorShown
  <1>1. ScreenInv => CursorShown
    BY DEF ScreenInv
  <1> QED
    BY <1>1, ScreenInitial, ScreenStep, PTL DEF VgaSpec

\* The screen that scrolls implements the page that does not: vga_scroll
\* neither loses, repeats nor splits a line.
THEOREM ScreenIsPage == VgaSpec => PageSpec
  BY ScreenInitial, ScreenStep, PTL DEF VgaSpec, PageSpec, Page!Spec

-----------------------------------------------------------------------------
(***************************************************************************)
(* The formatted output.                                                   *)
(***************************************************************************)

\* A step of the output changes the screen as vga_putc does, or not at all.
LEMMA OutputStep ==
    ASSUME [Next]_vars
    PROVE  [\E c \in Characters : VgaPutc(c)]_screen
  <1>1. CASE Begin \/ Literal \/ Percent \/ Directive \/ Return
    BY <1>1 DEF Begin, Literal, Percent, Directive, Return
  <1>2. CASE PrintOne
    <2>1. UNCHANGED screen \/ VgaPutc(Head(queue).c)
      BY <1>2 DEF PrintOne
    <2>2. VgaPutc(Head(queue).c) => Head(queue).c \in Characters
      BY DEF VgaPutc, Characters
    <2> QED
      BY <2>1, <2>2
  <1>3. CASE UNCHANGED vars
    BY <1>3 DEF vars
  <1> QED
    BY <1>1, <1>2, <1>3 DEF Next, Step

\* The formatted output uses the screen as its specification says.
THEOREM OutputUsesScreen == Spec => VgaSpec
  <1>1. Init => VgaInitialize
    BY DEF Init
  <1> QED
    BY <1>1, OutputStep, PTL DEF Spec, VgaSpec

\* No call of printk writes behind the screen.
THEOREM PrintkCursorInScreen == Spec => []ScreenOK
  BY OutputUsesScreen, CursorInScreen

\* After every call of printk the display shows the cursor.
THEOREM PrintkDisplayFollows == Spec => []CursorShown
  BY OutputUsesScreen, DisplayFollows

\* What printk has printed is a page of which the screen is the end.
THEOREM PrintkIsPage == Spec => PageSpec
  BY OutputUsesScreen, ScreenIsPage
-----------------------------------------------------------------------------
(***************************************************************************)
(* The figures of a number.                                                *)
(***************************************************************************)

\* The divisors are the powers of the base, and at least as large as their place.
LEMMA Powers ==
    ASSUME NEW base \in Nat \ {0, 1}, NEW len \in Nat \ {0}
    PROVE  /\ Divisors(base, len)[1] = 1
           /\ \A k \in 1 .. len : /\ Divisors(base, len)[k] \in Nat \ {0}
                                  /\ k <= Divisors(base, len)[k]
           /\ \A k \in 1 .. len : k # len =>
                 Divisors(base, len)[k + 1] = base * Divisors(base, len)[k]
  <1> DEFINE s == Divisors(base, len)
  <1>1. s = Scale(base, len)
    BY DEF Divisors, Scale
  <1>2. /\ 1 \in 1 .. len /\ s[1] = 1
        /\ \A l \in 1 .. len : l # len => s[l + 1] = base * s[l]
    BY <1>1, ScaleSteps
  <1> HIDE DEF s
  <1> DEFINE S == {l \in 1 .. len : s[l] \in Nat \ {0} /\ l <= s[l]}
  <1>3. 1 .. len \subseteq S
    <2>1. 1 \in S
      BY <1>2
    <2>2. \A l \in 1 .. len : l # len /\ l \in S => l + 1 \in S
      <3> SUFFICES ASSUME NEW l \in 1 .. len, l # len, s[l] \in Nat \ {0}, l <= s[l]
                   PROVE  l + 1 \in S
        OBVIOUS
      <3>1. l + 1 \in 1 .. len /\ s[l + 1] = base * s[l]
        BY <1>2
      <3>2. PICK e \in Nat : base = 2 + e
        BY base - 2 \in Nat
      <3>3. base * s[l] = s[l] + s[l] + e * s[l] /\ e * s[l] \in Nat
        BY <3>2
      <3> QED
        BY <3>1, <3>3
    <2> QED
      <3> HIDE DEF S
      <3> QED
        BY <2>1, <2>2, LevelsUp
  <1> QED
    BY <1>2, <1>3 DEF s

\* A divisor does not depend on how many there are.
LEMMA SamePowers ==
    ASSUME NEW base \in Nat \ {0, 1}, NEW len \in Nat \ {0}, NEW more \in Nat \ {0},
           len <= more
    PROVE  Divisors(base, len)[len] = Divisors(base, more)[len]
  <1> DEFINE p == Divisors(base, len)
             q == Divisors(base, more)
             S == {k \in 1 .. len : p[k] = q[k]}
  <1>1. /\ p[1] = 1 /\ q[1] = 1
        /\ \A k \in 1 .. len : k # len => p[k + 1] = base * p[k]
        /\ \A k \in 1 .. more : k # more => q[k + 1] = base * q[k]
    BY Powers
  <1> HIDE DEF p, q
  <1>2. 1 \in S
    BY <1>1
  <1>3. \A k \in 1 .. len : k # len /\ k \in S => k + 1 \in S
    <2> SUFFICES ASSUME NEW k \in 1 .. len, k # len, p[k] = q[k] PROVE k + 1 \in S
      OBVIOUS
    <2>1. k \in 1 .. more /\ k # more /\ k + 1 \in 1 .. len
      OBVIOUS
    <2> QED
      BY <1>1, <2>1
  <1>4. 1 .. len \subseteq S
    <2> HIDE DEF S
    <2> QED
      BY <1>2, <1>3, LevelsUp
  <1> QED
    BY <1>4 DEF p, q

\* number_length: as many figures as the number needs.
LEMMA FiguresNeeded ==
    ASSUME NEW n \in Nat, NEW base \in Nat \ {0, 1}, NEW len, len = NumberLength(n, base)
    PROVE  /\ len \in Nat \ {0}
           /\ n < base * Divisors(base, len)[len]
  <1> DEFINE div == Divisors(base, n + 1)
             Enough == {l \in 1 .. n + 1 : n < base * div[l]}
             Needed(l) == n < base * div[l] /\ (l = 1 \/ div[l] <= n)
  <1>1. /\ \A k \in 1 .. n + 1 : div[k] \in Nat \ {0} /\ k <= div[k]
        /\ \A k \in 1 .. n + 1 : k # n + 1 => div[k + 1] = base * div[k]
    BY Powers, n + 1 \in Nat \ {0}
  <1>2. len = CHOOSE l \in 1 .. n + 1 : Needed(l)
    BY DEF NumberLength
  <1> HIDE DEF div
  <1>3. n + 1 \in Enough
    <2>1. div[n + 1] \in Nat /\ n + 1 <= div[n + 1] /\ n + 1 \in 1 .. n + 1
      BY <1>1
    <2>2. PICK e \in Nat : base = 1 + e
      BY base - 1 \in Nat
    <2>3. base * div[n + 1] = div[n + 1] + e * div[n + 1] /\ e * div[n + 1] \in Nat
      BY <2>1, <2>2
    <2> QED
      BY <2>1, <2>3
  <1>4. PICK l \in Enough : \A m \in Enough : l <= m
    <2>1. Enough \in SUBSET Nat /\ Enough # {}
      BY <1>3
    <2> HIDE DEF Enough
    <2> QED
      BY <2>1, LeastElement
  <1>5. Needed(l)
    <2> SUFFICES ASSUME l # 1 PROVE div[l] <= n
      BY <1>4
    <2>1. l - 1 \in 1 .. n + 1 /\ l - 1 # n + 1 /\ l = (l - 1) + 1 /\ l - 1 < l
      BY <1>4
    <2>2. div[l] = base * div[l - 1] /\ div[l] \in Nat
      BY <1>1, <2>1
    <2>3. ~ (n < base * div[l - 1])
      BY <1>4, <2>1
    <2> QED
      BY <2>2, <2>3
  <1>6. len \in 1 .. n + 1 /\ Needed(len)
    <2> HIDE DEF Needed
    <2> QED
      BY <1>2, <1>4, <1>5
  <1>7. Divisors(base, len)[len] = div[len]
    <2>1. len \in Nat \ {0} /\ n + 1 \in Nat \ {0} /\ len <= n + 1
      BY <1>6
    <2> QED
      BY <2>1, SamePowers DEF div
  <1> QED
    BY <1>6, <1>7

\* A quotient of a quotient.
LEMMA Quotients ==
    ASSUME NEW a \in Nat, NEW s \in Nat \ {0}, NEW p \in Nat \ {0}
    PROVE  (a \div s) \div p = a \div (s * p)
  <1> DEFINE q  == a \div s
             r  == a % s
             q2 == q \div p
             r2 == q % p
             b  == s * p
             d  == s * r2 + r
  <1>1. q \in Nat /\ r \in 0 .. s - 1 /\ a = s * q + r
    BY Divided
  <1>2. b \in Nat \ {0} /\ a % b = d
    BY TwoDigits, Zenon
  <1> HIDE DEF q, r
  <1>3. q2 \in Nat /\ r2 \in 0 .. p - 1 /\ q = p * q2 + r2
    BY <1>1, Divided
  <1>4. d \in 0 .. b - 1
    BY <1>2, Divided
  <1> HIDE DEF q2, r2
  <1>5. a = b * q2 + d
    <2>1. s * (p * q2 + r2) = s * (p * q2) + s * r2
      BY <1>3
    <2>2. s * (p * q2) = (s * p) * q2
      BY <1>3
    <2> QED
      BY <1>1, <1>3, <2>1, <2>2
  <1>6. a \div b = q2
    <2> HIDE DEF d, b
    <2> QED
      BY <1>2, <1>3, <1>4, <1>5, DividedOnce
  <1> QED
    BY <1>6 DEF q, q2

\* What has been read of the figures of a number, after some of them.
LEMMA FiguresRead ==
    ASSUME NEW n \in Nat, NEW base \in Nat \ {0, 1}, NEW len, len = NumberLength(n, base),
           NEW p, p = Divisors(base, len)
    PROVE  /\ \A k \in 1 .. len : n \div p[k] \in Nat
           /\ \A k \in 1 .. len : k # len =>
                 n \div p[k] = base * (n \div p[k + 1]) + ((n \div p[k]) % base)
           /\ n \div p[len] = (n \div p[len]) % base
           /\ n \div p[1] = n
           /\ \A k \in 1 .. len : (n \div p[k]) % base \in 0 .. base - 1
  <1>1. len \in Nat \ {0} /\ n < base * p[len]
    BY FiguresNeeded
  <1>2. /\ p[1] = 1
        /\ \A k \in 1 .. len : p[k] \in Nat \ {0}
        /\ \A k \in 1 .. len : k # len => p[k + 1] = base * p[k]
    BY <1>1, Powers
  <1>3. ASSUME NEW k \in 1 .. len
        PROVE  /\ n \div p[k] \in Nat
               /\ (n \div p[k]) % base \in 0 .. base - 1
               /\ n \div p[k] = base * ((n \div p[k]) \div base) + ((n \div p[k]) % base)
               /\ (n \div p[k]) \div base = n \div (p[k] * base)
    <2>1. p[k] \in Nat \ {0} /\ base \in Nat \ {0}
      BY <1>2
    <2>2. n \div p[k] \in Nat
      BY <2>1, Divided
    <2> QED
      BY <2>1, <2>2, Divided, Quotients
  <1>4. ASSUME NEW k \in 1 .. len, k # len
        PROVE  n \div p[k] = base * (n \div p[k + 1]) + ((n \div p[k]) % base)
    <2>1. p[k + 1] = p[k] * base
      BY <1>2, <1>4
    <2> QED
      BY <1>3, <2>1
  <1>5. n \div p[len] = (n \div p[len]) % base
    <2>1. len \in 1 .. len /\ p[len] \in Nat \ {0}
      BY <1>1, <1>2
    <2>2. n \div (p[len] * base) = 0
      <3>1. p[len] * base \in Nat \ {0} /\ n < p[len] * base
        BY <1>1, <2>1
      <3> QED
        BY <3>1, Small
    <2>3. (n \div p[len]) % base \in Nat
      BY <1>3, <2>1
    <2> QED
      BY <1>3, <2>1, <2>2, <2>3
  <1>6. n \div p[1] = n
    BY <1>2
  <1> QED
    BY <1>3, <1>4, <1>5, <1>6

-----------------------------------------------------------------------------
(***************************************************************************)
(* Reading figures.                                                        *)
(***************************************************************************)

\* The figures of both notations.
LEMMA LowerFigures ==
    /\ Lower[1] = "0" /\ Lower[2] = "1" /\ Lower[3] = "2" /\ Lower[4] = "3"
    /\ Lower[5] = "4" /\ Lower[6] = "5" /\ Lower[7] = "6" /\ Lower[8] = "7"
    /\ Lower[9] = "8" /\ Lower[10] = "9" /\ Lower[11] = "a" /\ Lower[12] = "b"
    /\ Lower[13] = "c" /\ Lower[14] = "d" /\ Lower[15] = "e" /\ Lower[16] = "f"
  BY DEF Lower, Figures

LEMMA UpperFigures ==
    /\ Upper[1] = "0" /\ Upper[2] = "1" /\ Upper[3] = "2" /\ Upper[4] = "3"
    /\ Upper[5] = "4" /\ Upper[6] = "5" /\ Upper[7] = "6" /\ Upper[8] = "7"
    /\ Upper[9] = "8" /\ Upper[10] = "9" /\ Upper[11] = "A" /\ Upper[12] = "B"
    /\ Upper[13] = "C" /\ Upper[14] = "D" /\ Upper[15] = "E" /\ Upper[16] = "F"
  BY DEF Upper, Figures

\* A figure is found at one place alone, in the notation that it is of.
LEMMA OnePlace ==
    ASSUME NEW d \in 1 .. 16, NEW e \in 1 .. 16,
           \/ Lower[d] \in {Lower[e], Upper[e]}
           \/ Upper[d] \in {Lower[e], Upper[e]}
    PROVE  d = e
  <1>1. \A k \in 1 .. 16 : \/ k = 1 \/ k = 2 \/ k = 3 \/ k = 4 \/ k = 5 \/ k = 6
                           \/ k = 7 \/ k = 8 \/ k = 9 \/ k = 10 \/ k = 11 \/ k = 12
                           \/ k = 13 \/ k = 14 \/ k = 15 \/ k = 16
    OBVIOUS
  <1>2. CASE d = 1
    BY <1>1, <1>2, LowerFigures, UpperFigures
  <1>3. CASE d = 2
    BY <1>1, <1>3, LowerFigures, UpperFigures
  <1>4. CASE d = 3
    BY <1>1, <1>4, LowerFigures, UpperFigures
  <1>5. CASE d = 4
    BY <1>1, <1>5, LowerFigures, UpperFigures
  <1>6. CASE d = 5
    BY <1>1, <1>6, LowerFigures, UpperFigures
  <1>7. CASE d = 6
    BY <1>1, <1>7, LowerFigures, UpperFigures
  <1>8. CASE d = 7
    BY <1>1, <1>8, LowerFigures, UpperFigures
  <1>9. CASE d = 8
    BY <1>1, <1>9, LowerFigures, UpperFigures
  <1>10. CASE d = 9
    BY <1>1, <1>10, LowerFigures, UpperFigures
  <1>11. CASE d = 10
    BY <1>1, <1>11, LowerFigures, UpperFigures
  <1>12. CASE d = 11
    BY <1>1, <1>12, LowerFigures, UpperFigures
  <1>13. CASE d = 12
    BY <1>1, <1>13, LowerFigures, UpperFigures
  <1>14. CASE d = 13
    BY <1>1, <1>14, LowerFigures, UpperFigures
  <1>15. CASE d = 14
    BY <1>1, <1>15, LowerFigures, UpperFigures
  <1>16. CASE d = 15
    BY <1>1, <1>16, LowerFigures, UpperFigures
  <1>17. CASE d = 16
    BY <1>1, <1>17, LowerFigures, UpperFigures
  <1> QED
    BY <1>1, <1>2, <1>3, <1>4, <1>5, <1>6, <1>7, <1>8, <1>9, <1>10, <1>11, <1>12, <1>13, <1>14, <1>15, <1>16, <1>17

\* What a figure is worth.
LEMMA FigureWorth ==
    ASSUME NEW base \in 2 .. 16, NEW d \in 0 .. base - 1, NEW figures \in {Lower, Upper}
    PROVE  /\ Figure(figures[1 + d], base)
           /\ Worth(figures[1 + d], base) = d
  <1> DEFINE c == figures[1 + d]
             Is(e) == c \in {Lower[e], Upper[e]}
  <1>1. 1 + d \in 1 .. base /\ 1 + d \in 1 .. 16 /\ 1 .. base \subseteq 1 .. 16
    OBVIOUS
  <1>2. Is(1 + d)
    OBVIOUS
  <1>3. \A e \in 1 .. base : Is(e) => 1 + d = e
    <2> SUFFICES ASSUME NEW e \in 1 .. base, Is(e) PROVE 1 + d = e
      OBVIOUS
    <2>1. PICK k \in 1 .. 16 : k = 1 + d
      BY <1>1
    <2>2. PICK j \in 1 .. 16 : j = e
      BY <1>1
    <2>3. Lower[k] \in {Lower[j], Upper[j]} \/ Upper[k] \in {Lower[j], Upper[j]}
      BY <2>1, <2>2
    <2>4. k = j
      BY <2>3, OnePlace
    <2> QED
      BY <2>1, <2>2, <2>4
  <1>4. \E e \in 1 .. base : Is(e)
    BY <1>1, <1>2
  <1>5. (CHOOSE e \in 1 .. base : Is(e)) = 1 + d
    <2> HIDE DEF Is
    <2> QED
      BY <1>3, <1>4
  <1>6. Figure(figures[1 + d], base)
    BY <1>4 DEF Figure
  <1>7. Worth(figures[1 + d], base) = (CHOOSE e \in 1 .. base : Is(e)) - 1
    BY Zenon DEF Worth
  <1>8. Worth(figures[1 + d], base) = d
    <2> DEFINE x == CHOOSE e \in 1 .. base : Is(e)
    <2>1. x = 1 + d /\ Worth(figures[1 + d], base) = x - 1
      BY <1>5, <1>7
    <2> HIDE DEF x
    <2> QED
      BY <2>1
  <1> QED
    BY <1>6, <1>8

\* What a field has besides figures, and the zero that pads it.
LEMMA NoFigure ==
    /\ \A base \in 2 .. 16 : \A c \in {"-", "+", " ", "x"} : ~ Figure(c, base)
    /\ ~ Figure("b", 2)
    /\ \A base \in 2 .. 16 : Figure("0", base) /\ Worth("0", base) = 0
  <1>1. \A k \in 1 .. 16 : \/ k = 1 \/ k = 2 \/ k = 3 \/ k = 4 \/ k = 5 \/ k = 6
                           \/ k = 7 \/ k = 8 \/ k = 9 \/ k = 10 \/ k = 11 \/ k = 12
                           \/ k = 13 \/ k = 14 \/ k = 15 \/ k = 16
    OBVIOUS
  <1>2. \A k \in 1 .. 16 : /\ Lower[k] \notin {"-", "+", " ", "x"}
                           /\ Upper[k] \notin {"-", "+", " ", "x"}
    <2> SUFFICES ASSUME NEW k \in 1 .. 16
                 PROVE  /\ Lower[k] \notin {"-", "+", " ", "x"}
                        /\ Upper[k] \notin {"-", "+", " ", "x"}
      OBVIOUS
    <2> QED
      BY <1>1, LowerFigures, UpperFigures
  <1>3. \A base \in 2 .. 16 : \A c \in {"-", "+", " ", "x"} : ~ Figure(c, base)
    <2>1. \A base \in 2 .. 16 : 1 .. base \subseteq 1 .. 16
      OBVIOUS
    <2> QED
      BY <1>2, <2>1 DEF Figure
  <1>4. ~ Figure("b", 2)
    <2>1. \A d \in 1 .. 2 : d = 1 \/ d = 2
      OBVIOUS
    <2> QED
      BY <2>1, LowerFigures, UpperFigures DEF Figure
  <1>5. ASSUME NEW base \in 2 .. 16
        PROVE  Figure("0", base) /\ Worth("0", base) = 0
    <2>1. 0 \in 0 .. base - 1 /\ Lower[1 + 0] = "0"
      BY LowerFigures
    <2>2. Figure(Lower[1 + 0], base) /\ Worth(Lower[1 + 0], base) = 0
      BY <2>1, FigureWorth
    <2> QED
      BY <2>1, <2>2
  <1> QED
    BY <1>3, <1>4, <1>5

\* The walk over some characters that adds up their figures.
Reads(chars, base, v) ==
    /\ v \in [0 .. Len(chars) -> Nat]
    /\ v[0] = 0
    /\ \A k \in 1 .. Len(chars) :
          v[k] = IF Figure(chars[k], base) THEN base * v[k - 1] + Worth(chars[k], base)
                 ELSE v[k - 1]

\* It is the only one, and the value is what it ends with.
LEMMA ReadAs ==
    ASSUME NEW chars, Len(chars) \in Nat, NEW base, NEW w, Reads(chars, base, w)
    PROVE  ValueOf(chars, base) = w[Len(chars)]
  <1> DEFINE n == Len(chars)
             More(k, r) == IF Figure(chars[k], base) THEN base * r + Worth(chars[k], base)
                           ELSE r
             Body(f) == [k \in 0 .. n |-> IF k = 0 THEN 0
                            ELSE IF Figure(chars[k], base)
                                 THEN base * f[k - 1] + Worth(chars[k], base)
                            ELSE f[k - 1]]
             v == CHOOSE f : f = Body(f)
  <1>1. n \in Nat
    OBVIOUS
  <1>2. w = Body(w)
    BY DEF Reads
  <1>3. v = Body(v)
    <2> HIDE DEF Body
    <2> QED
      BY <1>2
  <1>4. ValueOf(chars, base) = v[n]
    BY DEF ValueOf
  <1> HIDE DEF v
  <1>5. v[0] = 0 /\ \A k \in 1 .. n : v[k] = More(k, v[k - 1])
    <2>1. v[0] = 0
      BY <1>1, <1>3
    <2>2. ASSUME NEW k \in 1 .. n PROVE v[k] = More(k, v[k - 1])
      <3>1. k \in 0 .. n /\ k # 0
        BY <1>1
      <3> QED
        BY <1>3, <3>1
    <2> QED
      BY <2>1, <2>2
  <1>6. w[0] = 0 /\ \A k \in 1 .. n : w[k] = More(k, w[k - 1])
    BY DEF Reads
  <1> HIDE DEF More, n
  <1> DEFINE S == {k \in Nat : k <= n => v[k] = w[k]}
  <1>7. 0 \in S
    BY <1>5, <1>6
  <1>8. ASSUME NEW k \in S PROVE k + 1 \in S
    <2> SUFFICES ASSUME k + 1 <= n PROVE v[k + 1] = w[k + 1]
      OBVIOUS
    <2>1. k + 1 \in 1 .. n /\ (k + 1) - 1 = k /\ v[k] = w[k]
      BY <1>1, <1>8
    <2> QED
      BY <1>5, <1>6, <2>1
  <1>9. n \in S
    <2>1. S \in SUBSET Nat
      OBVIOUS
    <2> HIDE DEF S
    <2> QED
      BY <1>1, <1>7, <1>8, <2>1, SetInduction
  <1> QED
    BY <1>1, <1>4, <1>9 DEF n

\* Whatever the characters are, their value is a number.
LEMMA ValueIsNumber ==
    ASSUME NEW chars, Len(chars) \in Nat, NEW base \in Nat
    PROVE  ValueOf(chars, base) \in Nat
  <1> DEFINE n == Len(chars)
             More(k, r) == IF Figure(chars[k], base) THEN base * r + Worth(chars[k], base)
                           ELSE r
             step == [k \in 1 .. n + 1 |-> [r \in Nat |-> More(k, r)]]
  <1>1. \A c : Figure(c, base) => Worth(c, base) \in Nat
    BY DEF Figure, Worth
  <1>2. \A k, r : r \in Nat => More(k, r) \in Nat
    BY <1>1
  <1>3. /\ step \in [1 .. n + 1 -> [Nat -> Nat]]
        /\ \A k \in 1 .. n + 1 : \A r \in Nat : step[k][r] = More(k, r)
    <2> HIDE DEF More
    <2> QED
      BY <1>2
  <1> HIDE DEF step, More
  <1>4. PICK f \in [1 .. n + 1 -> Nat] : Climbs(f, n + 1, 0, step)
    BY <1>3, n + 1 \in Nat \ {0}, UpwardFunction
  <1> DEFINE w == [k \in 0 .. n |-> f[k + 1]]
  <1>5. w \in [0 .. n -> Nat] /\ w[0] = 0
    BY <1>4 DEF Climbs
  <1>6. ASSUME NEW k \in 1 .. n PROVE w[k] = More(k, w[k - 1])
    <2>1. /\ k \in 1 .. n + 1 /\ k # n + 1 /\ k \in 0 .. n /\ k - 1 \in 0 .. n
          /\ (k - 1) + 1 = k
      OBVIOUS
    <2>2. f[k + 1] = step[k][f[k]] /\ f[k] \in Nat
      BY <1>4, <2>1 DEF Climbs
    <2>3. w[k] = f[k + 1] /\ w[k - 1] = f[k]
      BY <2>1
    <2> QED
      BY <1>3, <2>1, <2>2, <2>3
  <1>7. Reads(chars, base, w)
    <2> HIDE DEF w
    <2> QED
      BY <1>5, <1>6 DEF Reads, More
  <1>8. ValueOf(chars, base) = w[n]
    <2> HIDE DEF w
    <2> QED
      BY <1>7, ReadAs
  <1> QED
    BY <1>5, <1>8

\* A character that does not count: no figure, or a zero.
Silent(c, base) == Figure(c, base) => Worth(c, base) = 0

\* The figures of a number behind a characters that do not count and before b that
\* are no figures.
Holds(chars, digits, len, base, a, b) ==
    /\ Len(chars) = a + len + b
    /\ \A k \in 1 .. a : Silent(chars[k], base)
    /\ \A j \in 1 .. len : chars[a + j] = digits[j]
    /\ \A k \in 1 .. b : ~ Figure(chars[a + len + k], base)

\* They are read back.
LEMMA FiguresReadBack ==
    ASSUME NEW n \in Nat, NEW base \in 2 .. 16, NEW figures \in {Lower, Upper},
           NEW a \in Nat, NEW b \in Nat, NEW chars,
           Holds(chars, Radical(n, base, figures), NumberLength(n, base), base, a, b)
    PROVE  ValueOf(chars, base) = n
  <1> DEFINE len == NumberLength(n, base)
             digits == Radical(n, base, figures)
             p == Divisors(base, len)
             size == a + len + b
             w == [k \in 0 .. size |-> IF k <= a THEN 0
                                       ELSE IF k <= a + len THEN n \div p[len + 1 - (k - a)]
                                       ELSE n]
  <1>1. base \in Nat \ {0, 1} /\ len \in Nat \ {0} /\ size \in Nat
    <2>1. base \in Nat \ {0, 1}
      OBVIOUS
    <2>2. len \in Nat \ {0}
      BY <2>1, FiguresNeeded
    <2> QED
      BY <2>1, <2>2
  <1>2. /\ \A k \in 1 .. len : n \div p[k] \in Nat
        /\ \A k \in 1 .. len : k # len =>
              n \div p[k] = base * (n \div p[k + 1]) + ((n \div p[k]) % base)
        /\ n \div p[len] = (n \div p[len]) % base
        /\ n \div p[1] = n
        /\ \A k \in 1 .. len : (n \div p[k]) % base \in 0 .. base - 1
    BY <1>1, FiguresRead
  <1>3. \A j \in 1 .. len : digits[j] = figures[1 + ((n \div p[len + 1 - j]) % base)]
    BY DEF Radical
  <1>0. /\ Len(chars) = a + len + b
        /\ \A k \in 1 .. a : Silent(chars[k], base)
        /\ \A j \in 1 .. len : chars[a + j] = digits[j]
        /\ \A k \in 1 .. b : ~ Figure(chars[a + len + k], base)
    BY Zenon DEF Holds
  <1> HIDE DEF digits, len
  <1>4. ASSUME NEW j \in 1 .. len
        PROVE  /\ Figure(chars[a + j], base)
               /\ Worth(chars[a + j], base) = (n \div p[len + 1 - j]) % base
    <2>1. len + 1 - j \in 1 .. len
      BY <1>1
    <2>2. PICK d \in 0 .. base - 1 : d = (n \div p[len + 1 - j]) % base
      BY <1>2, <2>1
    <2>3. chars[a + j] = figures[1 + d]
      BY <1>0, <1>3, <2>2
    <2>4. Figure(figures[1 + d], base) /\ Worth(figures[1 + d], base) = d
      BY FigureWorth
    <2> QED
      BY <2>2, <2>3, <2>4, Zenon
  <1>5. w \in [0 .. size -> Nat]
    <2> SUFFICES ASSUME NEW k \in 0 .. size PROVE w[k] \in Nat
      OBVIOUS
    <2>1. k > a /\ k <= a + len => len + 1 - (k - a) \in 1 .. len
      BY <1>1
    <2> QED
      BY <1>2, <2>1
  <1> HIDE DEF p
  <1>6. ASSUME NEW k \in 1 .. size
        PROVE  w[k] = IF Figure(chars[k], base)
                      THEN base * w[k - 1] + Worth(chars[k], base)
                      ELSE w[k - 1]
    <2>0. k \in 0 .. size /\ k - 1 \in 0 .. size
      BY <1>1
    <2>1. CASE k <= a
      <3>1. k \in 1 .. a /\ w[k] = 0 /\ w[k - 1] = 0
        BY <2>0, <2>1
      <3> HIDE DEF w
      <3> QED
        BY <1>0, <1>1, <3>1 DEF Silent
    <2>2. CASE k = a + 1
      <3>1. 1 \in 1 .. len /\ len + 1 - 1 = len /\ k - a = 1 /\ k <= a + len
        BY <1>1, <2>2
      <3>2. w[k - 1] = 0 /\ w[k] = n \div p[len]
        BY <2>0, <2>2, <3>1
      <3>3. /\ Figure(chars[k], base)
            /\ Worth(chars[k], base) = n \div p[len]
        BY <1>2, <1>4, <2>2, <3>1
      <3>4. len \in 1 .. len /\ n \div p[len] \in Nat
        BY <1>1, <1>2
      <3> HIDE DEF w
      <3> QED
        BY <1>1, <3>2, <3>3, <3>4
    <2>3. CASE k > a + 1 /\ k <= a + len
      <3> DEFINE q == len + 1 - (k - a)
      <3>1. /\ k - a \in 1 .. len /\ a + (k - a) = k /\ q \in 1 .. len /\ q # len
            /\ len + 1 - ((k - 1) - a) = q + 1
        BY <1>1, <2>3
      <3>2. w[k] = n \div p[q] /\ w[k - 1] = n \div p[q + 1]
        <4>1. ~ k <= a /\ k <= a + len /\ ~ k - 1 <= a /\ k - 1 <= a + len
          BY <1>1, <2>3
        <4>2. w[k] = n \div p[q]
          BY <2>0, <4>1
        <4>3. w[k - 1] = n \div p[len + 1 - ((k - 1) - a)]
          BY <2>0, <4>1
        <4> QED
          BY <3>1, <4>2, <4>3
      <3>3. /\ Figure(chars[k], base)
            /\ Worth(chars[k], base) = (n \div p[q]) % base
        BY <1>4, <3>1
      <3> HIDE DEF w, q
      <3> QED
        BY <1>2, <3>1, <3>2, <3>3
    <2>4. CASE k > a + len
      <3>1. k - (a + len) \in 1 .. b /\ a + len + (k - (a + len)) = k
        BY <1>1, <2>4
      <3>2. w[k] = n
        BY <1>1, <2>0, <2>4
      <3>3. w[k - 1] = n
        <4>1. CASE k - 1 = a + len
          <5>1. len + 1 - ((k - 1) - a) = 1 /\ ~ k - 1 <= a /\ k - 1 <= a + len
            BY <1>1, <4>1
          <5>2. w[k - 1] = n \div p[len + 1 - ((k - 1) - a)]
            BY <2>0, <5>1
          <5> QED
            BY <1>2, <5>1, <5>2
        <4>2. CASE k - 1 > a + len
          BY <1>1, <2>0, <4>2
        <4>3. k - 1 = a + len \/ k - 1 > a + len
          <5>1. k \in Int /\ len \in Int
            BY <1>1
          <5> QED
            BY <2>4, <5>1
        <4> QED
          BY <4>1, <4>2, <4>3
      <3>4. ~ Figure(chars[k], base)
        BY <1>0, <3>1
      <3> QED
        BY <3>2, <3>3, <3>4
    <2> QED
      BY <1>1, <2>1, <2>2, <2>3, <2>4
  <1>7. w[0] = 0 /\ w[size] = n
    <2>1. CASE b = 0
      <3>1. size = a + len /\ len + 1 - (size - a) = 1 /\ ~ size <= a /\ size \in 0 .. size
        BY <1>1, <2>1
      <3>2. w[size] = n
        BY <1>2, <3>1
      <3> QED
        BY <1>1, <3>2
    <2>2. CASE b # 0
      BY <1>1, <2>2
    <2> QED
      BY <2>1, <2>2
  <1>8. Len(chars) = size /\ Len(chars) \in Nat
    BY <1>0, <1>1
  <1> HIDE DEF w, size
  <1>9. Reads(chars, base, w)
    BY <1>5, <1>6, <1>7, <1>8 DEF Reads
  <1> QED
    BY <1>7, <1>8, <1>9, ReadAs

\* What a number is printed with.
Text == {Lower[k] : k \in 1 .. 16} \union {Upper[k] : k \in 1 .. 16}
           \union {"-", "+", " ", "0", "x", "b"}

\* No figure is the sign of a number.
LEMMA FigureText ==
    ASSUME NEW figures \in {Lower, Upper}, NEW k \in 1 .. 16
    PROVE  figures[k] \in Text /\ figures[k] # "-"
  <1>1. \A j \in 1 .. 16 : \/ j = 1 \/ j = 2 \/ j = 3 \/ j = 4 \/ j = 5 \/ j = 6
                           \/ j = 7 \/ j = 8 \/ j = 9 \/ j = 10 \/ j = 11 \/ j = 12
                           \/ j = 13 \/ j = 14 \/ j = 15 \/ j = 16
    OBVIOUS
  <1>2. Lower[k] # "-" /\ Upper[k] # "-"
    BY <1>1, LowerFigures, UpperFigures
  <1>3. Lower[k] \in Text /\ Upper[k] \in Text
    BY DEF Text
  <1> QED
    BY <1>2, <1>3

\* The figures of a number are text.
LEMMA RadicalText ==
    ASSUME NEW n \in Nat, NEW base \in 2 .. 16, NEW figures \in {Lower, Upper},
           NEW digits, digits = Radical(n, base, figures)
    PROVE  /\ digits \in Seq(Text) /\ Len(digits) = NumberLength(n, base)
           /\ \A j \in 1 .. Len(digits) : digits[j] # "-"
  <1> DEFINE len == NumberLength(n, base)
             p == Divisors(base, len)
             Place(j) == 1 + ((n \div p[len + 1 - j]) % base)
  <1>1. base \in Nat \ {0, 1}
    OBVIOUS
  <1>2. len \in Nat \ {0} /\ \A k \in 1 .. len : (n \div p[k]) % base \in 0 .. base - 1
    BY <1>1, FiguresNeeded, FiguresRead
  <1>3. digits = [j \in 1 .. len |-> figures[Place(j)]]
    BY Zenon DEF Radical
  <1> HIDE DEF p, len
  <1>4. ASSUME NEW j \in 1 .. len PROVE Place(j) \in 1 .. 16
    <2>1. len + 1 - j \in 1 .. len
      BY <1>2
    <2>2. (n \div p[len + 1 - j]) % base \in 0 .. base - 1
      BY <1>2, <2>1
    <2> QED
      BY <2>2
  <1> HIDE DEF Place
  <1>5. \A j \in 1 .. len : digits[j] \in Text /\ digits[j] # "-"
    BY <1>3, <1>4, FigureText
  <1>6. digits \in [1 .. len -> Text]
    BY <1>3, <1>5
  <1>7. digits \in Seq(Text) /\ Len(digits) = len
    BY <1>2, <1>6, IsASeq, LenProperties
  <1> QED
    BY <1>5, <1>7 DEF len

\* A text in three parts.
Joined(s, x, y, z) ==
    /\ Len(s) = Len(x) + Len(y) + Len(z)
    /\ \A k \in 1 .. Len(x) : s[k] = x[k]
    /\ \A k \in 1 .. Len(y) : s[Len(x) + k] = y[k]
    /\ \A k \in 1 .. Len(z) : s[Len(x) + Len(y) + k] = z[k]

LEMMA ThreeParts ==
    ASSUME NEW S, NEW x \in Seq(S), NEW y \in Seq(S), NEW z \in Seq(S),
           NEW s, s = (x \o y) \o z
    PROVE  s \in Seq(S) /\ Joined(s, x, y, z)
  <1> DEFINE t == x \o y
  <1>1. Len(x) \in Nat /\ Len(y) \in Nat /\ Len(z) \in Nat
    BY LenProperties
  <1>2. /\ t \in Seq(S) /\ Len(t) = Len(x) + Len(y)
        /\ \A k \in 1 .. Len(x) + Len(y) :
              t[k] = IF k <= Len(x) THEN x[k] ELSE y[k - Len(x)]
    BY ConcatProperties
  <1> HIDE DEF t
  <1>3. /\ s \in Seq(S) /\ Len(s) = Len(t) + Len(z)
        /\ \A k \in 1 .. Len(t) + Len(z) :
              s[k] = IF k <= Len(t) THEN t[k] ELSE z[k - Len(t)]
    BY <1>2, ConcatProperties DEF t
  <1> QED
    BY <1>1, <1>2, <1>3 DEF Joined

\* Padding before a number does not count, and padding behind it is blank.
Leads(pre, base) == \A k \in 1 .. Len(pre) : Silent(pre[k], base)

Trails(post) == \A k \in 1 .. Len(post) : post[k] = " "

\* A number between characters that do not count.
Framed(chars, n, base, pre, post) ==
    /\ Len(chars) = Len(pre) + NumberLength(n, base) + Len(post)
    /\ ValueOf(chars, base) = n
    /\ "-" \in ToSet(chars) <=> "-" \in ToSet(pre)

LEMMA FieldText ==
    ASSUME NEW n \in Nat, NEW base \in 2 .. 16, NEW figures \in {Lower, Upper},
           NEW pre \in Seq(Text), Leads(pre, base),
           NEW post \in Seq(Text), Trails(post),
           NEW chars \in Seq(Text), Joined(chars, pre, Radical(n, base, figures), post)
    PROVE  Framed(chars, n, base, pre, post)
  <1> DEFINE len == NumberLength(n, base)
             digits == Radical(n, base, figures)
  <1>1. /\ digits \in Seq(Text) /\ Len(digits) = len
        /\ \A j \in 1 .. len : digits[j] # "-"
    BY RadicalText
  <1> DEFINE a == Len(pre)
             b == Len(post)
  <1>2. a \in Nat /\ b \in Nat /\ len \in Nat
    BY <1>1, LenProperties
  <1>3. /\ Len(chars) = a + len + b
        /\ \A k \in 1 .. a : chars[k] = pre[k]
        /\ \A k \in 1 .. len : chars[a + k] = digits[k]
        /\ \A k \in 1 .. b : chars[a + len + k] = post[k]
    BY <1>1, Zenon DEF Joined
  <1>4. /\ \A k \in 1 .. a : Silent(pre[k], base)
        /\ \A k \in 1 .. b : post[k] = " "
        /\ DOMAIN chars = 1 .. a + len + b /\ DOMAIN pre = 1 .. a
    BY <1>3, LenProperties DEF Leads, Trails
  <1>0. digits = Radical(n, base, figures)
    OBVIOUS
  <1> HIDE DEF a, b, len, digits
  <1>5. ValueOf(chars, base) = n
    <2>1. \A k \in 1 .. a : Silent(chars[k], base)
      BY <1>3, <1>4
    <2>2. \A k \in 1 .. b : ~ Figure(chars[a + len + k], base)
      <3>1. ~ Figure(" ", base)
        BY NoFigure
      <3> QED
        BY <1>3, <1>4, <3>1
    <2>3. len = NumberLength(n, base)
      BY DEF len
    <2>4. \A j \in 1 .. len : chars[a + j] = digits[j]
      BY <1>3
    <2>5. Holds(chars, Radical(n, base, figures), NumberLength(n, base), base, a, b)
      BY <1>0, <1>3, <2>1, <2>2, <2>3, <2>4, Zenon DEF Holds
    <2> QED
      BY <1>2, <2>5, FiguresReadBack
  <1>6. "-" \in ToSet(chars) <=> "-" \in ToSet(pre)
    <2>1. ASSUME NEW k \in 1 .. a + len + b, ~ k \in 1 .. a PROVE chars[k] # "-"
      <3>1. \/ k - a \in 1 .. len /\ a + (k - a) = k
            \/ k - (a + len) \in 1 .. b /\ a + len + (k - (a + len)) = k
        BY <1>2, <2>1
      <3>2. CASE k - a \in 1 .. len /\ a + (k - a) = k
        BY <1>1, <1>3, <3>2 DEF len
      <3>3. CASE k - (a + len) \in 1 .. b /\ a + len + (k - (a + len)) = k
        <4>1. chars[k] = " "
          BY <1>3, <1>4, <3>3
        <4> QED
          BY <4>1
      <3> QED
        BY <3>1, <3>2, <3>3
    <2>2. \A k \in 1 .. a : k \in 1 .. a + len + b
      BY <1>2
    <2>3. "-" \in ToSet(chars) <=> \E k \in 1 .. a + len + b : chars[k] = "-"
      BY <1>4 DEF ToSet
    <2>4. "-" \in ToSet(pre) <=> \E k \in 1 .. a : pre[k] = "-"
      BY <1>4 DEF ToSet
    <2> QED
      BY <1>3, <2>1, <2>2, <2>3, <2>4
  <1> QED
    BY <1>3, <1>5, <1>6 DEF Framed, len, a, b

\* Padding.
LEMMA Repeated ==
    ASSUME NEW pad \in Nat, NEW c
    PROVE  /\ \A S : c \in S => Repeat(pad, c) \in Seq(S)
           /\ Len(Repeat(pad, c)) = pad
           /\ \A k \in 1 .. pad : Repeat(pad, c)[k] = c
  <1>1. \A S : c \in S => Repeat(pad, c) \in [1 .. pad -> S]
    BY DEF Repeat
  <1>2. \A S : c \in S => Repeat(pad, c) \in Seq(S)
    BY <1>1
  <1>3. Repeat(pad, c) \in Seq({c})
    BY <1>2
  <1>4. DOMAIN Repeat(pad, c) = 1 .. pad
    BY DEF Repeat
  <1>5. Len(Repeat(pad, c)) \in Nat /\ 1 .. Len(Repeat(pad, c)) = 1 .. pad
    BY <1>3, <1>4, LenProperties
  <1>6. \A k \in 1 .. pad : Repeat(pad, c)[k] = c
    BY DEF Repeat
  <1>7. Len(Repeat(pad, c)) = pad
    <2>1. PICK m \in Nat : m = Len(Repeat(pad, c))
      BY <1>5
    <2>2. 1 .. m = 1 .. pad
      BY <1>5, <2>1
    <2>3. m = pad
      <3>1. m # 0 => m \in 1 .. pad
        BY <2>2
      <3>2. pad # 0 => pad \in 1 .. m
        BY <2>2
      <3> QED
        BY <3>1, <3>2
    <2> QED
      BY <2>1, <2>3
  <1> QED
    BY <1>2, <1>6, <1>7

\* What a text has, its parts have.
LEMMA PartsOf ==
    ASSUME NEW x \in Seq(Text), NEW y \in Seq(Text), NEW base
    PROVE  /\ x \o y \in Seq(Text) /\ Len(x \o y) = Len(x) + Len(y)
           /\ Leads(x, base) /\ Leads(y, base) => Leads(x \o y, base)
           /\ "-" \in ToSet(x \o y) <=> ("-" \in ToSet(x) \/ "-" \in ToSet(y))
  <1> DEFINE s == x \o y
             a == Len(x)
             b == Len(y)
  <1>1. /\ s \in Seq(Text) /\ Len(s) = a + b
        /\ \A k \in 1 .. a + b : s[k] = IF k <= a THEN x[k] ELSE y[k - a]
    BY ConcatProperties
  <1>2. a \in Nat /\ b \in Nat /\ DOMAIN x = 1 .. a /\ DOMAIN y = 1 .. b
        /\ DOMAIN s = 1 .. a + b
    BY <1>1, LenProperties
  <1> HIDE DEF s
  <1>3. Leads(x, base) /\ Leads(y, base) => Leads(s, base)
    <2> SUFFICES ASSUME Leads(x, base), Leads(y, base), NEW k \in 1 .. a + b
                 PROVE  Silent(s[k], base)
      BY <1>1 DEF Leads
    <2>1. CASE k <= a
      BY <1>1, <1>2, <2>1 DEF Leads
    <2>2. CASE k > a
      <3>1. k - a \in 1 .. b
        BY <1>2, <2>2
      <3> QED
        BY <1>1, <1>2, <2>2, <3>1 DEF Leads
    <2> QED
      BY <1>2, <2>1, <2>2
  <1> HIDE DEF a, b
  <1>4. "-" \in ToSet(s) <=> \E k \in 1 .. a + b : s[k] = "-"
    BY <1>2 DEF ToSet
  <1>5. "-" \in ToSet(x) <=> \E k \in 1 .. a : x[k] = "-"
    BY <1>2 DEF ToSet
  <1>6. "-" \in ToSet(y) <=> \E k \in 1 .. b : y[k] = "-"
    BY <1>2 DEF ToSet
  <1>7. ASSUME NEW k \in 1 .. a + b, s[k] = "-"
        PROVE  (\E j \in 1 .. a : x[j] = "-") \/ (\E j \in 1 .. b : y[j] = "-")
    <2>1. CASE k <= a
      BY <1>1, <1>2, <1>7, <2>1
    <2>2. CASE k > a
      <3>1. k - a \in 1 .. b
        BY <1>2, <2>2
      <3> QED
        BY <1>1, <1>2, <1>7, <2>2, <3>1
    <2> QED
      BY <1>2, <2>1, <2>2
  <1>8. ASSUME NEW k \in 1 .. a, x[k] = "-" PROVE \E j \in 1 .. a + b : s[j] = "-"
    <2>1. k \in 1 .. a + b /\ k <= a
      BY <1>2
    <2> QED
      BY <1>1, <1>8, <2>1
  <1>9. ASSUME NEW k \in 1 .. b, y[k] = "-" PROVE \E j \in 1 .. a + b : s[j] = "-"
    <2>1. a + k \in 1 .. a + b /\ ~ a + k <= a /\ (a + k) - a = k
      BY <1>2
    <2> QED
      BY <1>1, <1>9, <2>1
  <1>10. "-" \in ToSet(s) <=> ("-" \in ToSet(x) \/ "-" \in ToSet(y))
    BY <1>4, <1>5, <1>6, <1>7, <1>8, <1>9
  <1> QED
    BY <1>1, <1>3, <1>10 DEF s, a, b

\* Blanks and zeros do not count, and are no sign.
LEMMA Padding ==
    ASSUME NEW pad \in Nat, NEW c \in {" ", "0"}, NEW base \in 2 .. 16
    PROVE  /\ Repeat(pad, c) \in Seq(Text) /\ Len(Repeat(pad, c)) = pad
           /\ Leads(Repeat(pad, c), base)
           /\ "-" \notin ToSet(Repeat(pad, c))
           /\ c = " " => Trails(Repeat(pad, c))
  <1> DEFINE s == Repeat(pad, c)
  <1>1. c \in Text /\ Silent(c, base) /\ c # "-"
    BY NoFigure DEF Text, Silent
  <1>2. s \in Seq(Text) /\ Len(s) = pad /\ \A k \in 1 .. pad : s[k] = c
    BY <1>1, Repeated
  <1>3. DOMAIN s = 1 .. pad
    BY DEF Repeat
  <1> HIDE DEF s
  <1>4. Leads(s, base)
    BY <1>1, <1>2 DEF Leads
  <1>5. "-" \notin ToSet(s)
    BY <1>1, <1>2, <1>3 DEF ToSet
  <1>6. c = " " => Trails(s)
    BY <1>2 DEF Trails
  <1> QED
    BY <1>2, <1>4, <1>5, <1>6 DEF s

\* vhprintk_print_number: what is printed reads back, has the sign of its prefix,
\* and is no shorter than the minimum size and no longer than it must be.
NumberShown(chars, n, base, prefix, size) ==
    /\ chars \in Seq(Text)
    /\ ValueOf(chars, base) = n
    /\ "-" \in ToSet(chars) <=> "-" \in ToSet(prefix)
    /\ Len(chars) >= size
    /\ Len(chars) > size => Len(chars) = Len(prefix) + NumberLength(n, base)

LEMMA NumberField ==
    ASSUME NEW n \in Nat, NEW base \in 2 .. 16, NEW figures \in {Lower, Upper},
           NEW d, d.minimum_size \in Nat, NEW prefix \in Seq(Text), Leads(prefix, base)
    PROVE  NumberShown(PrintNumber(d, prefix, Radical(n, base, figures)),
                       n, base, prefix, d.minimum_size)
  <1> DEFINE digits == Radical(n, base, figures)
             size == d.minimum_size
             pad == PadLength(d, Len(prefix) + Len(digits))
             chars == PrintNumber(d, prefix, digits)
             Shows(s) == NumberShown(s, n, base, prefix, size)
  <1>1. digits \in Seq(Text) /\ Len(digits) = NumberLength(n, base)
    BY RadicalText
  <1>2. Len(prefix) \in Nat /\ Len(digits) \in Nat /\ size \in Nat
    BY <1>1, LenProperties
  <1>3. /\ pad \in Nat
        /\ Len(prefix) + Len(digits) + pad >= size
        /\ Len(prefix) + Len(digits) + pad > size => pad = 0
    BY <1>2 DEF PadLength
  <1>4. \/ chars = (prefix \o digits) \o Repeat(pad, " ")
        \/ chars = (prefix \o Repeat(pad, "0")) \o digits
        \/ chars = (Repeat(pad, " ") \o prefix) \o digits
    BY Zenon DEF PrintNumber
  <1> SUFFICES Shows(chars)
    OBVIOUS
  <1> HIDE DEF pad, chars, size
  \* The cases in common.
  <1>5. ASSUME NEW pre \in Seq(Text), Leads(pre, base),
               NEW post \in Seq(Text), Trails(post),
               NEW s \in Seq(Text), Joined(s, pre, Radical(n, base, figures), post),
               "-" \in ToSet(pre) <=> "-" \in ToSet(prefix),
               Len(pre) + Len(post) = Len(prefix) + pad
        PROVE  Shows(s)
    <2>1. Framed(s, n, base, pre, post)
      BY <1>5, FieldText
    <2>2. /\ Len(s) = Len(pre) + NumberLength(n, base) + Len(post)
          /\ ValueOf(s, base) = n
          /\ "-" \in ToSet(s) <=> "-" \in ToSet(pre)
      BY <2>1 DEF Framed
    <2>3. Len(pre) \in Nat /\ Len(post) \in Nat
      BY <1>5, LenProperties
    <2>4. /\ Len(pre) + Len(post) = Len(prefix) + pad
          /\ "-" \in ToSet(pre) <=> "-" \in ToSet(prefix)
      BY <1>5
    <2> HIDE DEF digits
    <2>5. Len(s) = Len(prefix) + Len(digits) + pad
      <3>1. PICK a \in Nat, b \in Nat, c \in Nat, e \in Nat :
               a = Len(pre) /\ b = Len(post) /\ c = Len(digits) /\ e = Len(prefix)
        BY <1>2, <2>3
      <3>2. Len(s) = a + c + b
        BY <1>1, <2>2, <3>1
      <3>3. a + b = e + pad
        BY <2>4, <3>1
      <3>4. a + c + b = e + c + pad
        BY <1>3, <3>3
      <3> QED
        BY <3>1, <3>2, <3>4
    <2> QED
      BY <1>1, <1>2, <1>3, <2>1, <2>2, <2>4, <2>5 DEF NumberShown
  <1> HIDE DEF Shows
  <1>6. /\ Repeat(pad, " ") \in Seq(Text) /\ Len(Repeat(pad, " ")) = pad
        /\ Leads(Repeat(pad, " "), base) /\ "-" \notin ToSet(Repeat(pad, " "))
        /\ Trails(Repeat(pad, " "))
    BY <1>3, Padding
  <1>7. /\ Repeat(pad, "0") \in Seq(Text) /\ Len(Repeat(pad, "0")) = pad
        /\ Leads(Repeat(pad, "0"), base) /\ "-" \notin ToSet(Repeat(pad, "0"))
    BY <1>3, Padding
  <1>8. <<>> \in Seq(Text) /\ Len(<<>>) = 0 /\ Trails(<<>>)
    BY DEF Trails
  <1>9. \A pre \in Seq(Text) : pre \o digits = (pre \o digits) \o <<>>
    <2> TAKE pre \in Seq(Text)
    <2>1. pre \o digits \in Seq(Text)
      BY <1>1, ConcatProperties
    <2> QED
      BY <2>1, ConcatEmptySeq
  <1> HIDE DEF digits
  <1>10. CASE chars = (prefix \o digits) \o Repeat(pad, " ")
    <2>1. chars \in Seq(Text) /\ Joined(chars, prefix, digits, Repeat(pad, " "))
      BY <1>1, <1>6, <1>10, ThreeParts
    <2> QED
      BY <1>2, <1>3, <1>5, <1>6, <2>1 DEF digits
  <1>11. CASE chars = (prefix \o Repeat(pad, "0")) \o digits
    <2> DEFINE pre == prefix \o Repeat(pad, "0")
    <2>1. /\ pre \in Seq(Text) /\ Leads(pre, base) /\ Len(pre) = Len(prefix) + pad
          /\ "-" \in ToSet(pre) <=> "-" \in ToSet(prefix)
      BY <1>7, PartsOf
    <2>2. chars = (pre \o digits) \o <<>>
      BY <1>9, <1>11, <2>1
    <2> HIDE DEF pre
    <2>4. chars \in Seq(Text) /\ Joined(chars, pre, digits, <<>>)
      BY <1>1, <1>8, <2>1, <2>2, ThreeParts
    <2>3. Len(pre) + Len(<<>>) = Len(prefix) + pad
      BY <1>2, <1>3, <1>8, <2>1
    <2> QED
      BY <1>5, <1>8, <2>1, <2>3, <2>4 DEF digits
  <1>12. CASE chars = (Repeat(pad, " ") \o prefix) \o digits
    <2> DEFINE pre == Repeat(pad, " ") \o prefix
    <2>1. /\ pre \in Seq(Text) /\ Leads(pre, base) /\ Len(pre) = pad + Len(prefix)
          /\ "-" \in ToSet(pre) <=> "-" \in ToSet(prefix)
      BY <1>6, PartsOf
    <2>2. chars = (pre \o digits) \o <<>>
      BY <1>9, <1>12, <2>1
    <2> HIDE DEF pre
    <2>4. chars \in Seq(Text) /\ Joined(chars, pre, digits, <<>>)
      BY <1>1, <1>8, <2>1, <2>2, ThreeParts
    <2>3. Len(pre) + Len(<<>>) = Len(prefix) + pad
      BY <1>2, <1>3, <1>8, <2>1
    <2> QED
      BY <1>5, <1>8, <2>1, <2>3, <2>4 DEF digits
  <1>13. Shows(chars)
    BY <1>4, <1>10, <1>11, <1>12
  <1> QED
    BY <1>13 DEF Shows, chars, digits, size

\* A prefix of one character.
LEMMA OneCharacter ==
    ASSUME NEW c \in Text, NEW base, Silent(c, base)
    PROVE  /\ <<c>> \in Seq(Text) /\ Leads(<<c>>, base)
           /\ "-" \in ToSet(<<c>>) <=> c = "-"
           /\ <<c>> = <<"-">> <=> c = "-"
  <1>1. <<c>> \in Seq(Text) /\ Len(<<c>>) = 1 /\ <<c>>[1] = c /\ DOMAIN <<c>> = 1 .. 1
    OBVIOUS
  <1>2. Leads(<<c>>, base)
    BY <1>1 DEF Leads
  <1>3. "-" \in ToSet(<<c>>) <=> c = "-"
    BY <1>1 DEF ToSet
  <1>4. <<c>> = <<"-">> <=> c = "-"
    OBVIOUS
  <1> QED
    BY <1>1, <1>2, <1>3, <1>4

LEMMA TwoCharacters ==
    ASSUME NEW a, NEW b
    PROVE  <<a>> \o <<b>> = <<a, b>> /\ <<a>> \o <<>> = <<a>>
  <1> DEFINE S == {a, b}
             x == <<a>>
             y == <<b>>
             z == <<a, b>>
             s == x \o y
  <1>1. /\ x \in Seq(S) /\ Len(x) = 1 /\ x[1] = a
        /\ y \in Seq(S) /\ Len(y) = 1 /\ y[1] = b
        /\ z \in Seq(S) /\ Len(z) = 2 /\ z[1] = a /\ z[2] = b
    OBVIOUS
  <1> HIDE DEF x, y, z, S
  <1>2. /\ s \in Seq(S) /\ Len(s) = Len(x) + Len(y)
        /\ \A k \in 1 .. Len(x) + Len(y) :
              s[k] = IF k <= Len(x) THEN x[k] ELSE y[k - Len(x)]
    BY <1>1, ConcatProperties
  <1>3. x \o <<>> = x
    BY <1>1, ConcatEmptySeq
  <1> HIDE DEF s
  <1>4. Len(s) = 2 /\ s[1] = a /\ s[2] = b
    BY <1>1, <1>2
  <1>5. \A k \in 1 .. Len(s) : s[k] = z[k]
    BY <1>1, <1>4
  <1>6. s = z
    BY <1>1, <1>2, <1>4, <1>5, SeqEqual
  <1> QED
    BY <1>3, <1>6 DEF s, x, y, z

\* What is printed before a number: its sign, or the mark of its base.
LEMMA PrefixText ==
    ASSUME NEW d, d.type \in DOMAIN Base, NEW n \in Int, Fits(d, n)
    PROVE  /\ Base[d.type] \in 2 .. 16
           /\ Prefix(d, n) \in Seq(Text) /\ Leads(Prefix(d, n), Base[d.type])
           /\ "-" \in ToSet(Prefix(d, n)) <=> n < 0
  <1> DEFINE base == Base[d.type]
             t == d.type
             One(c) == <<c>>
             Two(c) == <<"0", c>>
             Good(p) == /\ p \in Seq(Text) /\ Leads(p, base)
                        /\ "-" \in ToSet(p) <=> p = One("-")
  <1>1. t \in {"d", "i", "u", "x", "X", "o", "b"}
    BY DEF Base
  <1>2. /\ t \in {"d", "i", "u"} => base = 10
        /\ t \in {"x", "X"} => base = 16
        /\ t = "o" => base = 8
        /\ t = "b" => base = 2
    BY DEF Base
  <1>3. base \in 2 .. 16
    BY <1>1, <1>2
  <1> HIDE DEF base, t
  <1>4. Good(<<>>)
    BY DEF Leads, ToSet
  <1>5. \A c \in {"-", "+", " ", "0"} : Good(One(c)) /\ (One(c) = One("-") <=> c = "-")
    <2>1. \A c \in {"-", "+", " ", "0"} : c \in Text /\ Silent(c, base)
      BY <1>3, NoFigure DEF Text, Silent
    <2> QED
      BY <2>1, OneCharacter
  <1>6. ASSUME NEW c \in {"x", "b"}, c = "b" => base = 2 PROVE Good(Two(c))
    <2>1. /\ c \in Text /\ Silent(c, base)
          /\ "0" \in Text /\ Silent("0", base)
      BY <1>3, <1>6, NoFigure DEF Text, Silent
    <2>2. Two(c) \in Seq(Text)
      BY <2>1
    <2>3. Leads(Two(c), base)
      BY <2>1 DEF Leads
    <2>4. "-" \notin ToSet(Two(c)) /\ Two(c) # One("-")
      BY DEF ToSet
    <2> QED
      BY <2>2, <2>3, <2>4
  <1>7. SignPrefix(d) \in {<<>>, One("+"), One(" ")}
    BY DEF SignPrefix
  <1>8. CASE t \in {"d", "i"}
    <2>1. Prefix(d, n) = IF n < 0 THEN One("-") ELSE SignPrefix(d)
      BY <1>8 DEF Prefix, t
    <2>2. Good(Prefix(d, n))
      BY <1>4, <1>5, <1>7, <2>1
    <2>3. Prefix(d, n) = One("-") <=> n < 0
      <3>1. SignPrefix(d) # One("-")
        <4>1. One("+") # One("-") /\ One(" ") # One("-")
          BY <1>5
        <4>2. <<>> # One("-")
          OBVIOUS
        <4> QED
          BY <1>7, <4>1, <4>2
      <3> QED
        BY <2>1, <3>1
    <2> QED
      BY <1>3, <2>2, <2>3 DEF base
  <1>9. CASE t = "u"
    <2>1. Prefix(d, n) = SignPrefix(d)
      BY <1>9 DEF Prefix, t
    <2>2. Good(Prefix(d, n)) /\ Prefix(d, n) # One("-")
      BY <1>4, <1>5, <1>7, <2>1
    <2>3. ~ n < 0
      BY <1>9 DEF Fits, Base, t
    <2> QED
      BY <1>3, <2>2, <2>3 DEF base
  <1>10. CASE t \in {"x", "X", "o", "b"}
    <2>1. \/ Prefix(d, n) = <<>>
          \/ t \in {"x", "X"} /\ Prefix(d, n) = Two("x")
          \/ t = "o" /\ Prefix(d, n) = One("0")
          \/ t = "b" /\ Prefix(d, n) = Two("b")
      <3> DEFINE Mark == IF t = "o" THEN <<>> ELSE IF t = "b" THEN <<"b">> ELSE <<"x">>
      <3>1. Prefix(d, n) = IF "#" \notin d.flags THEN <<>> ELSE <<"0">> \o Mark
        BY <1>10, Zenon DEF Prefix, t
      <3>2. /\ t = "o" => <<"0">> \o Mark = One("0")
            /\ t = "b" => <<"0">> \o Mark = Two("b")
            /\ t \in {"x", "X"} => <<"0">> \o Mark = Two("x")
        <4>1. /\ <<"0">> \o <<>> = <<"0">>
              /\ <<"0">> \o <<"b">> = <<"0", "b">>
              /\ <<"0">> \o <<"x">> = <<"0", "x">>
          BY TwoCharacters
        <4>2. /\ t = "o" => Mark = <<>>
              /\ t = "b" => Mark = <<"b">>
              /\ t \in {"x", "X"} => Mark = <<"x">>
          OBVIOUS
        <4> HIDE DEF Mark
        <4> QED
          BY <4>1, <4>2, Zenon
      <3> HIDE DEF Mark
      <3> QED
        BY <1>10, <3>1, <3>2
    <2>2. Good(Prefix(d, n)) /\ Prefix(d, n) # One("-")
      <3>1. CASE Prefix(d, n) = <<>>
        BY <1>4, <3>1
      <3>2. CASE t \in {"x", "X"} /\ Prefix(d, n) = Two("x")
        BY <1>6, <3>2
      <3>3. CASE t = "o" /\ Prefix(d, n) = One("0")
        BY <1>5, <3>3
      <3>4. CASE t = "b" /\ Prefix(d, n) = Two("b")
        BY <1>2, <1>6, <3>4
      <3> QED
        BY <2>1, <3>1, <3>2, <3>3, <3>4
    <2>3. ~ n < 0
      BY <1>10 DEF Fits, Base, t
    <2> QED
      BY <1>3, <2>2, <2>3 DEF base
  <1> QED
    BY <1>1, <1>8, <1>9, <1>10

\* A directive of a number and an argument that fits it.
LEMMA NumberPrinted ==
    ASSUME NEW d, d.type \in DOMAIN Base, d.minimum_size \in Nat,
           NEW value, Fits(d, value)
    PROVE  /\ value \in Int
           /\ NumberShown(Printed(d, value), Magnitude(value), Base[d.type],
                          Prefix(d, value), d.minimum_size)
           /\ "-" \in ToSet(Prefix(d, value)) <=> value < 0
  <1> DEFINE figures == IF d.type = "X" THEN Upper ELSE Lower
  <1>1. value \in Int
    BY DEF Fits, Base
  <1>2. /\ Base[d.type] \in 2 .. 16
        /\ Prefix(d, value) \in Seq(Text) /\ Leads(Prefix(d, value), Base[d.type])
        /\ "-" \in ToSet(Prefix(d, value)) <=> value < 0
    BY <1>1, PrefixText
  <1>3. Magnitude(value) \in Nat
    BY <1>1 DEF Magnitude
  <1>4. figures \in {Lower, Upper}
    OBVIOUS
  <1>5. Printed(d, value) = PrintNumber(d, Prefix(d, value),
                                        Radical(Magnitude(value), Base[d.type], figures))
    <2>1. d.type # "c" /\ d.type # "s"
      BY DEF Base
    <2> QED
      BY <2>1, Zenon DEF Printed
  <1> HIDE DEF figures
  <1>6. NumberShown(PrintNumber(d, Prefix(d, value),
                                Radical(Magnitude(value), Base[d.type], figures)),
                    Magnitude(value), Base[d.type], Prefix(d, value), d.minimum_size)
    BY <1>2, <1>3, <1>4, NumberField
  <1> QED
    BY <1>1, <1>2, <1>5, <1>6

-----------------------------------------------------------------------------
(***************************************************************************)
(* What the handler gets.                                                  *)
(***************************************************************************)
Sequence(s) == s \in Seq(ToSet(s))

LEMMA AnySequence ==
    ASSUME NEW S, NEW s \in Seq(S)
    PROVE  Sequence(s)
  <1>1. /\ Len(s) \in Nat /\ DOMAIN s = 1 .. Len(s)
        /\ \A k \in 1 .. Len(s) : s[k] \in ToSet(s)
    BY LenProperties DEF ToSet
  <1>2. s \in [1 .. Len(s) -> ToSet(s)]
    BY <1>1
  <1> QED
    BY <1>1, <1>2 DEF Sequence

LEMMA SequenceLen ==
    ASSUME NEW s, Sequence(s)
    PROVE  Len(s) \in Nat /\ DOMAIN s = 1 .. Len(s)
  BY LenProperties DEF Sequence

\* A character behind a sequence.
LEMMA Appended ==
    ASSUME NEW s, Sequence(s), NEW c
    PROVE  /\ Sequence(Append(s, c)) /\ Len(Append(s, c)) = Len(s) + 1
           /\ Append(s, c)[Len(s) + 1] = c
           /\ \A k \in 1 .. Len(s) : Append(s, c)[k] = s[k]
  <1> DEFINE S == ToSet(s) \union {c}
  <1>1. s \in Seq(S) /\ c \in S
    BY SeqMonotonic DEF Sequence
  <1> HIDE DEF S
  <1>2. /\ Append(s, c) \in Seq(S) /\ Len(Append(s, c)) = Len(s) + 1
        /\ \A k \in 1 .. Len(s) : Append(s, c)[k] = s[k]
        /\ Append(s, c)[Len(s) + 1] = c
    BY <1>1, AppendProperties
  <1> QED
    BY <1>2, AnySequence

\* The items of a text.
LEMMA TextItems ==
    ASSUME NEW chars, Sequence(chars), NEW to
    PROVE  /\ Sequence(Items(chars, to))
           /\ \A k \in 1 .. Len(Items(chars, to)) : Items(chars, to)[k].to = to
  <1> DEFINE s == Items(chars, to)
             S == {Item(chars[k], to) : k \in DOMAIN chars}
  <1>1. Len(chars) \in Nat /\ DOMAIN chars = 1 .. Len(chars)
    BY SequenceLen
  <1>2. s \in [1 .. Len(chars) -> S]
    BY <1>1 DEF Items
  <1>3. s \in Seq(S)
    BY <1>1, <1>2
  <1>4. \A k \in DOMAIN s : s[k].to = to
    BY DEF Items, Item
  <1> HIDE DEF s, S
  <1> QED
    BY <1>3, <1>4, AnySequence, LenProperties DEF s

\* A text between blanks.
LEMMA PaddedText ==
    ASSUME NEW d, d.minimum_size \in Nat, NEW chars, Sequence(chars)
    PROVE  Sequence(PadText(d, chars))
  <1> DEFINE len == IF chars = <<>> /\ " " \in d.flags /\ d.minimum_size = 0 THEN 1
                    ELSE PadLength(d, Len(chars))
             S == ToSet(chars) \union {" "}
             pad == Repeat(len, " ")
  <1>1. len \in Nat
    <2>1. Len(chars) \in Nat
      BY SequenceLen
    <2>2. PadLength(d, Len(chars)) \in Nat
      BY <2>1 DEF PadLength
    <2> QED
      BY <2>2
  <1>2. PadText(d, chars) = IF "-" \in d.flags THEN chars \o pad ELSE pad \o chars
    BY DEF PadText
  <1>3. chars \in Seq(S)
    BY SeqMonotonic DEF Sequence
  <1> HIDE DEF len
  <1>4. pad \in Seq(S)
    BY <1>1, Repeated
  <1> HIDE DEF pad, S
  <1>5. chars \o pad \in Seq(S) /\ pad \o chars \in Seq(S)
    BY <1>3, <1>4, ConcatProperties
  <1> QED
    BY <1>2, <1>5, AnySequence

\* Whatever is printed is a text.
LEMMA PrintedText ==
    ASSUME NEW d, d.minimum_size \in Nat, NEW value, Takes(d) => Fits(d, value)
    PROVE  Sequence(Printed(d, value))
  <1>1. CASE d.type = "c"
    <2>1. <<value>> \in Seq({value})
      OBVIOUS
    <2>2. Sequence(PadText(d, <<value>>))
      BY <2>1, AnySequence, PaddedText
    <2>3. "c" \notin DOMAIN Base /\ "c" # "s"
      BY DEF Base
    <2>4. Printed(d, value) = PadText(d, <<value>>)
      BY <1>1, <2>3, Zenon DEF Printed
    <2> QED
      BY <2>2, <2>4
  <1>2. CASE d.type = "s"
    <2> DEFINE chars == IF value = Null THEN <<"(", "n", ")">> ELSE value
    <2>1. Sequence(chars)
      <3>1. <<"(", "n", ")">> \in Seq({"(", "n", ")"})
        OBVIOUS
      <3>2. Sequence(<<"(", "n", ")">>)
        BY <3>1, AnySequence
      <3>3. Sequence(value)
        BY <1>2 DEF Takes, Fits, Sequence
      <3> QED
        BY <3>2, <3>3
    <2>2. Printed(d, value) = PadText(d, chars)
      <3>1. "s" \notin DOMAIN Base /\ "s" # "c"
        BY DEF Base
      <3> QED
        BY <1>2, <3>1, Zenon DEF Printed
    <2> HIDE DEF chars
    <2> QED
      BY <2>1, <2>2, PaddedText
  <1>3. CASE d.type \in DOMAIN Base
    <2>1. Fits(d, value)
      BY <1>3 DEF Takes
    <2>2. Printed(d, value) \in Seq(Text)
      BY <1>3, <2>1, NumberPrinted DEF NumberShown
    <2> QED
      BY <2>2, AnySequence
  <1>4. CASE d.type \notin {"c", "s"} \union DOMAIN Base
    <2>1. Printed(d, value) = <<>>
      BY <1>4 DEF Printed
    <2>2. <<>> \in Seq({})
      OBVIOUS
    <2> QED
      BY <2>1, <2>2, AnySequence
  <1> QED
    BY <1>1, <1>2, <1>3, <1>4

\* What the handler has got of what it was offered.
Accepted ==
    IF call.to = "screen" THEN done = Len(text) /\ out = <<>>
    ELSE /\ done = IF Len(text) < call.len THEN Len(text) ELSE call.len
         /\ Len(out) = done
         /\ \A k \in 1 .. done : out[k] = text[k]

\* The output never stops, and nothing is left over between two calls.
OutputInv ==
    /\ call = NoCall \/ call \in Calls
    /\ ~ stop
    /\ Sequence(queue) /\ Sequence(text) /\ Sequence(out)
    /\ \A k \in 1 .. Len(queue) : queue[k].to \in {call.to, "screen itself"}
    /\ call = NoCall => queue = <<>> /\ text = <<>> /\ out = <<>> /\ done = 0
    /\ call # NoCall => Accepted

\* The directive at hand has a size, and the argument that its type asks for.
FieldInv ==
    /\ input \in Nat \ {0}
    /\ field # <<>> => /\ field[1].minimum_size \in Nat
                       /\ Takes(field[1]) => Fits(field[1], field[2])

FormatInv == OutputInv /\ FieldInv

\* A call and where its output goes.
LEMMA CallText ==
    ASSUME call \in Calls
    PROVE  /\ call.to \in {"screen", "buffer"} /\ call.len \in Nat
           /\ Sequence(call.format) /\ call # NoCall
  <1>1. call.to \in {"screen", "buffer"} /\ call.len \in Nat /\ Sequence(call.format)
    BY CallAssumption DEF Sequence
  <1>2. NoCall.to = "none"
    BY DEF NoCall
  <1> QED
    BY <1>1, <1>2

LEMMA EmptyText == Sequence(<<>>) /\ Len(<<>>) = 0
  <1>1. <<>> \in Seq({})
    OBVIOUS
  <1> QED
    BY <1>1, AnySequence

\* The invariant says what is accepted place by place.
LEMMA AcceptedWhole ==
    ASSUME OutputInv
    PROVE  OutputWhole
  <1> SUFFICES ASSUME call # NoCall, call.to # "screen",
                      NEW room, room = IF Len(text) < call.len THEN Len(text) ELSE call.len
               PROVE  out = SubSeq(text, 1, room) /\ done = room
    <2>1. call # NoCall /\ call.to = "screen" => done = Len(text) /\ out = <<>>
      BY DEF OutputInv, Accepted
    <2> QED
      BY <2>1, Zenon DEF OutputWhole
  <1>1. call.len \in Nat
    BY CallText DEF OutputInv
  <1>2. Len(text) \in Nat
    BY SequenceLen DEF OutputInv
  <1>3. /\ done = room /\ Len(out) = room /\ \A k \in 1 .. room : out[k] = text[k]
    BY DEF OutputInv, Accepted
  <1>4. room \in Nat /\ room <= Len(text)
    BY <1>1, <1>2
  <1> DEFINE S == ToSet(text) \union ToSet(out)
             part == SubSeq(text, 1, room)
  <1>5. text \in Seq(S) /\ out \in Seq(S)
    BY SeqMonotonic DEF OutputInv, Sequence
  <1> HIDE DEF S
  <1>6. \A k \in 1 .. room : text[k] \in S
    <2>1. \A k \in 1 .. room : k \in 1 .. Len(text)
      BY <1>2, <1>4
    <2> QED
      BY <1>5, <2>1, ElementOfSeq
  <1>7. /\ part \in Seq(S)
        /\ Len(part) = room
        /\ \A k \in 1 .. room : part[k] = text[k]
    <2>1. /\ part \in Seq(S)
          /\ Len(part) = IF 1 <= room THEN room - 1 + 1 ELSE 0
          /\ \A k \in 1 .. room - 1 + 1 : part[k] = text[1 + k - 1]
      BY <1>4, <1>6, SubSeqProperties
    <2> HIDE DEF part
    <2>2. room - 1 + 1 = room /\ \A k \in 1 .. room : 1 + k - 1 = k
      BY <1>4
    <2> QED
      BY <1>4, <2>1, <2>2
  <1> HIDE DEF part
  <1>8. out = part
    BY <1>3, <1>5, <1>7, SeqEqual
  <1> QED
    BY <1>3, <1>8 DEF part

\* A directive of a number reads back.
LEMMA FieldWhole ==
    ASSUME FieldInv
    PROVE  FieldReadsBack
  <1> DEFINE d == field[1]
             value == field[2]
             base == Base[d.type]
             chars == Printed(d, value)
  <1> SUFFICES ASSUME field # <<>>, d.type \in DOMAIN Base
               PROVE  /\ ValueOf(chars, base) = Magnitude(value)
                      /\ ("-" \in ToSet(chars)) = (value < 0)
                      /\ Len(chars) >= d.minimum_size
                      /\ Len(chars) > d.minimum_size
                         => Len(chars) = Len(Prefix(d, value))
                                            + NumberLength(Magnitude(value), base)
    BY Zenon DEF FieldReadsBack
  <1>1. d.minimum_size \in Nat /\ Fits(d, value)
    BY DEF FieldInv, Takes
  <1> HIDE DEF d, value
  <1>2. /\ value \in Int
        /\ NumberShown(chars, Magnitude(value), base, Prefix(d, value), d.minimum_size)
        /\ "-" \in ToSet(Prefix(d, value)) <=> value < 0
    BY <1>1, NumberPrinted
  <1> HIDE DEF chars, base
  <1> QED
    BY <1>2 DEF NumberShown

\* A directive that is read has a size, and ends behind its beginning.
LEMMA DirectiveRead ==
    ASSUME FormatInv, call # NoCall, NEW d \in Directives
    PROVE  d.minimum_size \in Nat /\ d.input \in Nat \ {0}
  <1> DEFINE n == Len(call.format)
  <1>1. n \in Nat /\ input \in Nat \ {0}
    BY CallText, SequenceLen DEF FormatInv, OutputInv, FieldInv
  <1>2. PICK size \in input .. n + 1, type \in input .. n + 1 :
           d = ReadFormat(input, size, type)
    BY DEF Directives
  <1> DEFINE last == IF At(type) = "l" THEN type + 1 ELSE type
             figures == SubSeq(call.format, size, type - 1)
  <1>3. d.minimum_size = ValueOf(figures, 10) /\ d.input = last + 1
    BY <1>2 DEF ReadFormat
  <1>4. Len(figures) \in Nat
    <2> DEFINE S == {call.format[k] : k \in size .. type - 1}
    <2>1. \A k \in size .. type - 1 : call.format[k] \in S
      OBVIOUS
    <2>2. size \in Int /\ type - 1 \in Int
      BY <1>1
    <2> HIDE DEF S
    <2>3. figures \in Seq(S)
      BY <2>1, <2>2, SubSeqProperties
    <2> HIDE DEF figures
    <2> QED
      BY <2>3, LenProperties
  <1> HIDE DEF figures
  <1>5. ValueOf(figures, 10) \in Nat
    BY <1>4, ValueIsNumber
  <1>6. last + 1 \in Nat \ {0}
    BY <1>1
  <1> QED
    BY <1>3, <1>5, <1>6

\* One character more, of the handler's or of the screen itself.
LEMMA PrintOneStep ==
    ASSUME FormatInv, PrintOne
    PROVE  FormatInv'
  <1>1. call \in Calls /\ call # NoCall /\ queue # <<>> /\ ~ stop
    BY CallText DEF FormatInv, OutputInv, PrintOne
  <1>2. call.to \in {"screen", "buffer"} /\ call.len \in Nat
    BY <1>1, CallText
  <1> DEFINE item == Head(queue)
             c == item.c
  <1>3. /\ Sequence(queue) /\ Sequence(text) /\ Sequence(out)
        /\ \A k \in 1 .. Len(queue) : queue[k].to \in {call.to, "screen itself"}
        /\ Accepted
    BY <1>1 DEF FormatInv, OutputInv
  <1>4. /\ Sequence(queue') /\ item.to \in {call.to, "screen itself"}
        /\ \A k \in 1 .. Len(queue') : queue'[k].to \in {call.to, "screen itself"}
    <2> DEFINE S == ToSet(queue)
               rest == Tail(queue)
    <2>1. queue \in Seq(S) /\ queue # <<>> /\ Len(queue) \in Nat
      BY <1>1, <1>3, SequenceLen DEF Sequence
    <2> HIDE DEF S
    <2>2. /\ item = queue[1] /\ rest \in Seq(S) /\ Len(rest) = Len(queue) - 1
          /\ \A k \in 1 .. Len(rest) : rest[k] = queue[k + 1]
          /\ Len(queue) # 0
      BY <2>1, HeadTailProperties, EmptySeq
    <2>3. 1 \in 1 .. Len(queue) /\ \A k \in 1 .. Len(rest) : k + 1 \in 1 .. Len(queue)
      <3> HIDE DEF rest
      <3> QED
        BY <2>1, <2>2
    <2>4. queue' = rest
      BY DEF PrintOne
    <2> HIDE DEF rest, item
    <2> QED
      BY <1>3, <2>2, <2>3, <2>4, AnySequence
  <1> HIDE DEF item
  <1>5. /\ UNCHANGED <<call, input, fmt, arg, field, calls>>
        /\ text' = IF item.to = call.to THEN Append(text, c) ELSE text
        /\ \/ item.to = "screen" /\ done' = done + 1 /\ UNCHANGED <<stop, out>>
           \/ item.to = "buffer" /\ Store(c)
           \/ item.to = "screen itself" /\ UNCHANGED <<done, stop, out>>
    BY <1>1 DEF PrintOne, item
  <1> HIDE DEF c
  <1>6. /\ Sequence(Append(text, c)) /\ Len(Append(text, c)) = Len(text) + 1
        /\ Append(text, c)[Len(text) + 1] = c
        /\ \A k \in 1 .. Len(text) : Append(text, c)[k] = text[k]
    BY <1>3, Appended
  <1>7. /\ Sequence(Append(out, c)) /\ Len(Append(out, c)) = Len(out) + 1
        /\ Append(out, c)[Len(out) + 1] = c
        /\ \A k \in 1 .. Len(out) : Append(out, c)[k] = out[k]
    BY <1>3, Appended
  <1>8. Len(text) \in Nat /\ Len(out) \in Nat
    BY <1>3, SequenceLen
  <1>9. ~ stop' /\ Sequence(text') /\ Sequence(out') /\ Accepted'
    <2>1. CASE item.to = "screen"
      <3>1. call.to = "screen"
        BY <1>2, <1>4, <2>1
      <3>2. text' = Append(text, c) /\ done' = done + 1 /\ UNCHANGED <<stop, out>>
        BY <1>5, <2>1, <3>1
      <3>3. done = Len(text) /\ out = <<>>
        BY <1>3, <3>1 DEF Accepted
      <3>4. Len(text') = done' /\ out' = <<>> /\ call'.to = "screen"
        BY <1>5, <1>6, <3>1, <3>2, <3>3
      <3> QED
        BY <1>1, <1>3, <1>6, <3>2, <3>4 DEF Accepted
    <2>2. CASE item.to = "buffer"
      <3>1. call.to = "buffer"
        BY <1>2, <1>4, <2>2
      <3>2. text' = Append(text, c) /\ Store(c) /\ call' = call
        BY <1>5, <2>2, <3>1
      <3>3. /\ done = IF Len(text) < call.len THEN Len(text) ELSE call.len
            /\ Len(out) = done
            /\ \A k \in 1 .. done : out[k] = text[k]
        BY <1>3, <3>1 DEF Accepted
      <3>4. CASE Len(out) >= call.len
        <4>1. stop' = FALSE /\ out' = out /\ done' = done
          BY <3>2, <3>4 DEF Store
        <4>2. done = call.len /\ call.len <= Len(text)
          BY <1>2, <1>8, <3>3, <3>4
        <4>3. Len(text') = Len(text) + 1 /\ ~ Len(text') < call.len
          BY <1>2, <1>6, <1>8, <3>2, <4>2
        <4>4. \A k \in 1 .. done : text'[k] = text[k]
          <5>1. \A k \in 1 .. done : k \in 1 .. Len(text)
            BY <1>2, <1>8, <4>2
          <5> QED
            BY <1>6, <3>2, <5>1
        <4>5. /\ done' = IF Len(text') < call'.len THEN Len(text') ELSE call'.len
              /\ Len(out') = done'
              /\ \A k \in 1 .. done' : out'[k] = text'[k]
          BY <3>2, <3>3, <4>1, <4>2, <4>3, <4>4
        <4> QED
          BY <1>3, <1>6, <3>1, <3>2, <4>1, <4>5 DEF Accepted
      <3>5. CASE Len(out) < call.len
        <4>1. stop' = stop /\ out' = Append(out, c) /\ done' = done + 1
          BY <1>2, <1>8, <3>2, <3>5 DEF Store
        <4>2. done = Len(text) /\ Len(text) < call.len
          BY <1>2, <1>8, <3>3, <3>5
        <4>3. Len(text') = Len(text) + 1 /\ done' = Len(text') /\ Len(out') = done'
          BY <1>6, <1>7, <3>2, <3>3, <4>1, <4>2
        <4>4. ASSUME NEW k \in 1 .. done' PROVE out'[k] = text'[k]
          <5>1. k \in 1 .. Len(text) \/ k = Len(text) + 1
            BY <1>8, <4>1, <4>2
          <5> QED
            BY <1>6, <1>7, <3>2, <3>3, <4>1, <4>2, <5>1
        <4>5. done' = IF Len(text') < call'.len THEN Len(text') ELSE call'.len
          BY <1>2, <1>8, <3>2, <4>2, <4>3
        <4> QED
          BY <1>1, <1>6, <1>7, <3>1, <3>2, <4>1, <4>3, <4>4, <4>5 DEF Accepted
      <3> QED
        BY <1>2, <1>8, <3>4, <3>5
    <2>3. CASE item.to = "screen itself"
      <3>1. UNCHANGED <<text, done, stop, out, call>>
        BY <1>2, <1>5, <2>3
      <3> QED
        BY <1>1, <1>3, <3>1 DEF Accepted
    <2> QED
      BY <1>5, <2>1, <2>2, <2>3
  <1>10. OutputInv'
    BY <1>1, <1>4, <1>5, <1>9 DEF OutputInv
  <1>11. FieldInv'
    BY <1>5 DEF FormatInv, FieldInv
  <1> QED
    BY <1>10, <1>11 DEF FormatInv

\* Any other step of the output keeps what has been accepted.
LEMMA FormatStep ==
    ASSUME FormatInv, [Next]_vars
    PROVE  FormatInv'
  <1>1. CASE Begin
    <2>1. /\ call = NoCall /\ call' \in Calls
          /\ UNCHANGED <<input, fmt, arg, done, stop, queue, out, text, field>>
      BY <1>1 DEF Begin, locals
    <2>2. queue = <<>> /\ text = <<>> /\ out = <<>> /\ done = 0
      BY <2>1 DEF FormatInv, OutputInv
    <2>3. call'.to \in {"screen", "buffer"} /\ call'.len \in Nat /\ call' # NoCall
      <3>1. call'.to \in {"screen", "buffer"} /\ call'.len \in Nat
        BY <2>1, CallAssumption
      <3>2. NoCall.to = "none"
        BY DEF NoCall
      <3> QED
        BY <3>1, <3>2
    <2>4. Accepted'
      <3>1. Len(text') = 0 /\ Len(out') = 0 /\ done' = 0 /\ out' = <<>>
        BY <2>1, <2>2, EmptyText
      <3> QED
        BY <2>3, <3>1 DEF Accepted
    <2>5. \A k \in 1 .. Len(queue') : queue'[k].to \in {call'.to, "screen itself"}
      <3>1. Len(queue') = 0
        BY <2>1, <2>2, EmptyText
      <3>2. 1 .. 0 = {}
        OBVIOUS
      <3> QED
        BY <3>1, <3>2, Zenon
    <2> QED
      BY <2>1, <2>3, <2>4, <2>5 DEF FormatInv, OutputInv, FieldInv
  <1>2. CASE Literal
    <2>1. /\ queue' = <<Item(At(input), call.to)>> /\ input' = input + 1
          /\ UNCHANGED <<call, done, stop, out, text, field>>
          /\ call # NoCall
      BY <1>2 DEF Literal, Running
    <2>2. Sequence(queue') /\ \A k \in 1 .. Len(queue') : queue'[k].to = call.to
      <3> DEFINE item == Item(At(input), call.to)
      <3>1. item.to = call.to
        BY DEF Item
      <3> HIDE DEF item
      <3>2. <<item>> \in Seq({item}) /\ Len(<<item>>) = 1 /\ <<item>>[1] = item
        OBVIOUS
      <3>3. queue' = <<item>>
        BY <2>1 DEF item
      <3>4. Sequence(<<item>>)
        BY <3>2, AnySequence
      <3>5. \A k \in 1 .. Len(<<item>>) : <<item>>[k].to = call.to
        BY <3>1, <3>2
      <3> QED
        BY <3>3, <3>4, <3>5
    <2>3. Accepted'
      BY <2>1 DEF FormatInv, OutputInv, Accepted
    <2>4. OutputInv'
      BY <2>1, <2>2, <2>3 DEF FormatInv, OutputInv
    <2>5. FieldInv'
      BY <2>1 DEF FormatInv, FieldInv
    <2> QED
      BY <2>4, <2>5 DEF FormatInv
  <1>3. CASE Percent
    <2>1. /\ input' = input + 1
          /\ UNCHANGED <<call, done, stop, queue, out, text, field>>
      BY <1>3 DEF Percent
    <2>2. call # NoCall => Accepted'
      BY <2>1 DEF FormatInv, OutputInv, Accepted
    <2>3. OutputInv'
      BY <2>1, <2>2 DEF FormatInv, OutputInv
    <2>4. FieldInv'
      BY <2>1 DEF FormatInv, FieldInv
    <2> QED
      BY <2>3, <2>4 DEF FormatInv
  <1>4. CASE Directive
    <2> DEFINE Writes(d, value) ==
                 /\ Takes(d) => Fits(d, value)
                 /\ queue' = IF TooBig(d, value)
                             THEN Items(<<"<", ">">>, "screen itself")
                             ELSE Items(Printed(d, value), call.to)
                 /\ field' = <<d, value>>
                 /\ input' = d.input
    <2>0. PICK d \in Directives : \E value : Writes(d, value)
      BY <1>4 DEF Directive
    <2>1. PICK value : Writes(d, value)
      BY <2>0
    <2>2. call # NoCall /\ UNCHANGED <<call, done, stop, out, text>>
      BY <1>4 DEF Directive, Running
    <2>3. d.minimum_size \in Nat /\ d.input \in Nat \ {0}
      BY <2>2, DirectiveRead
    <2>4. Sequence(queue')
          /\ \A k \in 1 .. Len(queue') : queue'[k].to \in {call.to, "screen itself"}
      <3>1. Sequence(Printed(d, value))
        BY <2>1, <2>3, PrintedText
      <3>2. <<"<", ">">> \in Seq({"<", ">"})
        OBVIOUS
      <3>3. Sequence(<<"<", ">">>)
        BY <3>2, AnySequence
      <3>4. CASE TooBig(d, value)
        BY <2>1, <3>3, <3>4, TextItems
      <3>5. CASE ~ TooBig(d, value)
        BY <2>1, <3>1, <3>5, TextItems
      <3> QED
        BY <3>4, <3>5
    <2>5. Accepted'
      BY <2>2 DEF FormatInv, OutputInv, Accepted
    <2>6. OutputInv'
      BY <2>2, <2>4, <2>5 DEF FormatInv, OutputInv
    <2>7. FieldInv'
      <3>1. field'[1] = d /\ field'[2] = value
        BY <2>1
      <3> QED
        BY <2>1, <2>3, <3>1 DEF FieldInv
    <2> QED
      BY <2>6, <2>7 DEF FormatInv
  <1>5. CASE PrintOne
    BY <1>5, PrintOneStep
  <1>6. CASE Return
    <2>1. /\ call' = NoCall /\ input' = 1 /\ done' = 0 /\ stop' = FALSE
          /\ queue' = <<>> /\ out' = <<>> /\ text' = <<>> /\ field' = <<>>
      BY <1>6 DEF Return, Idle
    <2>2. \A k \in 1 .. Len(queue') : queue'[k].to \in {call'.to, "screen itself"}
      <3>1. 1 .. 0 = {}
        OBVIOUS
      <3> QED
        BY <2>1, <3>1, EmptyText, Zenon
    <2>3. OutputInv'
      BY <2>1, <2>2, EmptyText DEF OutputInv
    <2>4. FieldInv'
      BY <2>1 DEF FieldInv
    <2> QED
      BY <2>3, <2>4 DEF FormatInv
  <1>7. CASE UNCHANGED vars
    <2>1. UNCHANGED <<call, input, done, stop, queue, out, text, field>>
      BY <1>7 DEF vars, locals
    <2>2. call # NoCall => Accepted'
      BY <2>1 DEF FormatInv, OutputInv, Accepted
    <2>3. OutputInv'
      BY <2>1, <2>2 DEF FormatInv, OutputInv
    <2>4. FieldInv'
      BY <2>1 DEF FormatInv, FieldInv
    <2> QED
      BY <2>3, <2>4 DEF FormatInv
  <1> QED
    BY <1>1, <1>2, <1>3, <1>4, <1>5, <1>6, <1>7 DEF Next, Step

LEMMA FormatInitial ==
    ASSUME Init
    PROVE  FormatInv
  <1>1. /\ call = NoCall /\ input = 1 /\ done = 0 /\ stop = FALSE
        /\ queue = <<>> /\ out = <<>> /\ text = <<>> /\ field = <<>>
    BY DEF Init, Idle
  <1> QED
    BY <1>1, EmptyText DEF FormatInv, OutputInv, FieldInv

\* Whatever the calls are, the handler gets every character in order: the screen
\* all of them, the buffer of snprintk as many as it has room for, and the number
\* that the call returns is theirs, although no refusal ever sets the flag to stop.
THEOREM OutputIsWhole == Spec => []OutputWhole
  <1>1. FormatInv => OutputWhole
    BY AcceptedWhole DEF FormatInv
  <1> QED
    BY <1>1, FormatInitial, FormatStep, PTL DEF Spec

\* A number is printed so that its figures give it back, in every base, with every
\* flag and minimum size: number_length finds as many figures as it needs, and
\* vhprintk_print_radical its figures, for numbers of every size that fits.
THEOREM FieldsReadBack == Spec => []FieldReadsBack
  <1>1. FormatInv => FieldReadsBack
    BY FieldWhole DEF FormatInv
  <1> QED
    BY <1>1, FormatInitial, FormatStep, PTL DEF Spec
=============================================================================
