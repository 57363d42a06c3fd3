------------------------------- MODULE Layout -------------------------------
(***************************************************************************)
(* The arithmetic of internal/render/layout: how words become lines, cells *)
(* become columns and pictures get their size.  Build itself, which stacks *)
(* the results, is in Rendering.                                           *)
(*                                                                         *)
(* A line is what one text-bearing Block says: [runs, chars], where a run  *)
(* is [at, words], some words that start at rune "at", and chars counts    *)
(* the runes of the line with its padding.  Runs of spaces inside a        *)
(* paragraph are one space from the start.                                 *)
(***************************************************************************)
EXTENDS Receipts

CONSTANTS
  Advance,      \* Font.Measure(" "), and of every rune: the font has one advance
  LineHeight    \* Font.LineHeight()

\* A line has a row for its text and one for what goes through it.
ASSUME FontAssumption == Advance \in Nat \ {0} /\ LineHeight \in Nat \ {0, 1}

Least(a, b) == IF a <= b THEN a ELSE b
Greatest(a, b) == IF a >= b THEN a ELSE b

\* The floor for sizes and weights: 0 or omitted means 1.
ResolveSize(size) == IF size < 1 THEN 1 ELSE size

DividerThickness == 2
HeadingSize == 2

SumOf(s) ==
  LET sum[n \in 0..Len(s)] == IF n = 0 THEN 0 ELSE sum[n - 1] + s[n]
  IN  sum[Len(s)]

-----------------------------------------------------------------------------
(***************************************************************************)
(* Words to lines.                                                         *)
(***************************************************************************)

Chars(words) == IF words = <<>> THEN 0 ELSE SumOf(words) + Len(words) - 1

(* Mutant of WrapParagraph: the size of the text is not counted. *)
WrapUnscaled(words, width, size) ==
  LET Place(lines, w) ==
        IF lines # <<>> /\ Chars(Append(Last(lines), w)) * Advance <= width
        THEN Append(Front(lines), Append(Last(lines), w))
        ELSE Append(lines, <<w>>)
      wrapped[n \in 0..Len(words)] == IF n = 0 THEN <<>> ELSE Place(wrapped[n - 1], words[n])
  IN  IF words = <<>> THEN Blank ELSE wrapped[Len(words)]

\* Greedy: a word joins the last line if the two still fit, and no word is split.
WrapParagraph(words, width, size) ==
  LET Place(lines, w) ==
        IF lines # <<>> /\ Chars(Append(Last(lines), w)) * Advance * size <= width
        THEN Append(Front(lines), Append(Last(lines), w))
        ELSE Append(lines, <<w>>)
      wrapped[n \in 0..Len(words)] == IF n = 0 THEN <<>> ELSE Place(wrapped[n - 1], words[n])
  IN  IF words = <<>> THEN Blank ELSE wrapped[Len(words)]

\* Without a width a text keeps its paragraphs.
WrapText(content, width, size) ==
  IF width <= 0 THEN content
  ELSE FlattenSeq([i \in DOMAIN content |-> WrapParagraph(content[i], width, size)])

\* The spaces that fit in a number of dots.
Spaces(dots, size) == dots \div (Advance * size)

\* alignPad: the spaces put before content that takes chars runes.
AlignPad(chars, align, width, size) ==
  LET room == width - chars * Advance * size
  IN  IF align \notin {"center", "right"} \/ width <= 0 \/ room <= 0 THEN 0
      ELSE Spaces(IF align = "center" THEN room \div 2 ELSE room, size)

TextLine(words, pad) ==
  [runs |-> <<[at |-> pad, words |-> words]>>, chars |-> pad + Chars(words)]

TextLines(e, width) ==
  LET size  == ResolveSize(e.size)
      lines == WrapText(e.content, width, size)
  IN  [i \in DOMAIN lines |->
         TextLine(lines[i], AlignPad(Chars(lines[i]), e.align, width, size))]

HeadingLines(e, width) ==
  LET lines == WrapText(e.content, width, HeadingSize)
  IN  [i \in DOMAIN lines |-> TextLine(lines[i], 0)]

-----------------------------------------------------------------------------
(***************************************************************************)
(* Cells side by side: tables and columns.                                 *)
(***************************************************************************)

\* The dots n columns share, their one-space gaps taken off: one each at least.
Budget(n, width) == Greatest(n, width - (n - 1) * Advance)

TableWidths(n, width) ==
  LET share == Budget(n, width) \div n
  IN  [i \in 1..n |-> IF i = n THEN share + (Budget(n, width) % n) ELSE share]

ColumnWidths(cols, width) ==
  LET n       == Len(cols)
      weights == [i \in 1..n |-> ResolveSize(cols[i].weight)]
      share   == [i \in 1..n |-> (Budget(n, width) * weights[i]) \div SumOf(weights)]
  IN  IF width <= 0 THEN [i \in 1..n |-> 0]
      ELSE [share EXCEPT ![n] = @ + Budget(n, width) - SumOf(share)]

(* Mutant of PadToWidth: cells are only set apart. *)
NoPad(chars, width) == chars

\* The runes of a cell filled up with spaces to its column.
PadToWidth(chars, width) == Greatest(chars, Spaces(width, 1))

(* Mutant of ComposeCells: a row is as tall as its first cell. *)
ComposeFirst(cells, widths) ==
  LET n == Len(cells)
      Cell(i, j) == IF j <= Len(cells[i]) THEN cells[i][j] ELSE <<>>
      Add(line, i, j) ==
        [runs  |-> Append(line.runs, [at |-> line.chars, words |-> Cell(i, j)]),
         chars |-> line.chars +
                   IF i = n THEN Chars(Cell(i, j))
                   ELSE PadToWidth(Chars(Cell(i, j)), widths[i]) + 1]
      Line(j) ==
        LET line[i \in 0..n] == IF i = 0 THEN [runs |-> <<>>, chars |-> 0] ELSE Add(line[i - 1], i, j)
        IN  line[n]
  IN  [j \in 1..Len(cells[1]) |-> Line(j)]

\* Each cell has its lines; line j of the row takes line j of every cell, all
\* but the last padded to its column's width and followed by the gap.
ComposeCells(cells, widths) ==
  LET n      == Len(cells)
      height == Max({0} \cup {Len(cells[i]) : i \in 1..n})
      Cell(i, j) == IF j <= Len(cells[i]) THEN cells[i][j] ELSE <<>>
      Add(line, i, j) ==
        [runs  |-> Append(line.runs, [at |-> line.chars, words |-> Cell(i, j)]),
         chars |-> line.chars +
                   IF i = n THEN Chars(Cell(i, j))
                   ELSE PadToWidth(Chars(Cell(i, j)), widths[i]) + 1]
      Line(j) ==
        LET line[i \in 0..n] == IF i = 0 THEN [runs |-> <<>>, chars |-> 0] ELSE Add(line[i - 1], i, j)
        IN  line[n]
  IN  [j \in 1..height |-> Line(j)]

\* A row without a width is its cells joined by a space, not wrapped.
TableRow(row, width) ==
  IF width <= 0
  THEN ComposeCells([i \in DOMAIN row |-> <<FlattenSeq(row[i])>>], [i \in DOMAIN row |-> 0])
  ELSE LET widths == TableWidths(Len(row), width)
       IN  ComposeCells([i \in DOMAIN row |-> WrapText(row[i], widths[i], 1)], widths)

TableLines(e, width) ==
  LET rows == <<e.headers>> \o e.rows
  IN  FlattenSeq([i \in DOMAIN rows |-> TableRow(rows[i], width)])

\* Only text can be laid out inside a column.
ColumnsSupported(e) == \A inner \in Nested(e) : inner.type = "text"

ColumnsLines(e, width) ==
  LET widths == ColumnWidths(e.columns, width)
      Cell(i) == LET inner == e.columns[i].elements
                 IN  FlattenSeq([k \in DOMAIN inner |-> WrapText(inner[k].content, widths[i], 1)])
  IN  ComposeCells([i \in DOMAIN e.columns |-> Cell(i)], widths)

-----------------------------------------------------------------------------
(***************************************************************************)
(* Lists: a marker, then the content hung under itself.                    *)
(***************************************************************************)

ListIndentSpaces == 2

\* The runes of the marker, without the space that follows it: "-", "[x]" or
\* the number and a full stop (a list of 1000 items would need more digits).
MarkerChars(kind, number) ==
  CASE kind = "number"   -> IF number < 10 THEN 2 ELSE IF number < 100 THEN 3 ELSE 4
    [] kind = "checkbox" -> 3
    [] OTHER             -> 1

ItemLines(kind, number, item, width) ==
  LET marker == MarkerChars(kind, number)
      indent == item.indent * ListIndentSpaces
      hang   == indent + marker + 1
      lines  == WrapText(item.content,
                         IF width > 0 THEN Greatest(1, width - hang * Advance) ELSE 0, 1)
      Hung(words) == [at |-> hang, words |-> words]
  IN  [j \in DOMAIN lines |->
         [runs  |-> IF j = 1 THEN <<[at |-> indent, words |-> <<marker>>], Hung(lines[j])>>
                             ELSE <<Hung(lines[j])>>,
          chars |-> hang + Chars(lines[j])]]

ListLines(e, width) ==
  FlattenSeq([i \in DOMAIN e.items |-> ItemLines(e.kind, i, e.items[i], width)])

-----------------------------------------------------------------------------
(***************************************************************************)
(* Pictures: [w, h] in dots.                                               *)
(***************************************************************************)

\* Shrink to fit, in whole dots.
ScaledSize(w, h, width) ==
  IF width <= 0 \/ w <= width THEN [w |-> w, h |-> h]
  ELSE [w |-> width, h |-> (h * width) \div w]

\* A picture without a column of pixels is asked to have a width: targetImageSize
\* divides by its own, and panics.
Panics(w, asked) == w = 0 /\ asked > 0

\* A width asked for is honoured up to the page's, enlarging if need be.  Where
\* it panics nothing uses the size.
TargetSize(w, h, asked, width) ==
  IF asked <= 0 \/ Panics(w, asked) THEN ScaledSize(w, h, width)
  ELSE LET target == IF width > 0 THEN Least(asked, width) ELSE asked
       IN  [w |-> target, h |-> (h * target) \div w]

DefaultQRCodeSize == 200
DefaultBarcodeHeight == 80
BarcodeModuleWidth == 2

QRCodeSize(e, width) ==
  LET side == IF e.size <= 0 THEN DefaultQRCodeSize ELSE e.size
  IN  ScaledSize(side, side, width)

BarcodeSize(e, width) ==
  LET full == e.modules * BarcodeModuleWidth
  IN  [w |-> IF width > 0 THEN Least(full, width) ELSE full,
       h |-> IF e.height > 0 THEN e.height ELSE DefaultBarcodeHeight]

CaptionLine(e, width) ==
  LET chars == Chars(FlattenSeq(e.content))
  IN  TextLine(FlattenSeq(e.content), AlignPad(chars, "center", BarcodeSize(e, width).w, 1))

\* What Build believes of a picture: it reads headers only.
HeaderSize(e, width) ==
  CASE e.type = "image"        -> ScaledSize(e.data.w, e.data.h, width)
    [] e.type = "alignedAsset" -> TargetSize(e.data.w, e.data.h, e.width, width)
    [] e.type = "qrcode"       -> QRCodeSize(e, width)
    [] e.type = "barcode"      -> BarcodeSize(e, width)

\* What Paint gets: the decoded frame, and an aligned asset's padding.
BitmapSize(e, width) ==
  CASE e.type = "image"        -> TargetSize(e.data.fw, e.data.fh, 0, width)
    [] e.type = "alignedAsset" ->
         LET size == TargetSize(e.data.fw, e.data.fh, e.width, width)
         IN  IF e.align \in {"center", "right"} /\ width > size.w
             THEN [size EXCEPT !.w = width] ELSE size
    [] e.type = "qrcode"       -> QRCodeSize(e, width)
    [] e.type = "barcode"      -> BarcodeSize(e, width)

=============================================================================
