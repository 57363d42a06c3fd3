------------------------------ MODULE Rendering ------------------------------
(***************************************************************************)
(* One request through the pipeline Receipt -> Document -> Canvas ->       *)
(* ESC/POS or PNG: Validate, layout.Build, canvas.Paint (a pass that       *)
(* measures and a pass that paints) and escpos.Encode or EncodePNG.  Each  *)
(* loop of the code is a loop of actions over i, one action per case.      *)
(*                                                                         *)
(* The modes are the three callers: "print" is app.Service.Process behind  *)
(* Print, "preview" is app.Service.Preview, and "render" the offline       *)
(* command with the zero profile and an empty asset store.                 *)
(***************************************************************************)
EXTENDS Escpos, PrinterConfig

CONSTANTS
  Entries,      \* printer entries of the configuration
  Requests,     \* receipts, decodable or not
  AssetData     \* what the asset store may hold under a name

ASSUME RequestsAssumption ==
  \A r \in Requests :
    /\ r.elements \in Seq(ToSet(r.elements))
    /\ Decodes(r) /\ Validate(r) => \A e \in ToSet(r.elements) : Typed(e)

ASSUME AssetsAssumption == \A data \in AssetData : HeaderAccepted(data) => IsPicture(data)

ASSUME EntriesAssumption ==
  \A entry \in Entries : EntryAccepted(entry) /\ entry.profile # <<>> =>
    {entry.profile[1].tenths, entry.profile[1].dpi, entry.profile[1].max} \subseteq Int

VARIABLES
  stage,        \* where the request is; "off" until a printer is configured
  profile,      \* the configured printer's
  mode,
  receipt,
  i,            \* the loop index of the stage
  y, blocks,    \* layout.Build: the next offset, the Document
  width, height, ink, controls,   \* canvas.Paint
  pos, out,     \* escpos.Encode: rows sent, commands
  failure       \* the kind of the error, "none" without one

vars == <<stage, profile, mode, receipt, i, y, blocks, width, height, ink,
          controls, pos, out, failure>>

Modes == {"print", "preview", "render"}

Failures == {"none", "validation", "not_found", "permanent"}

EmptyReceipt == [copies |-> 0, elements |-> <<>>]

\* The profile the pipeline gets, and the width it constrains to.
Target == IF mode = "render" THEN ZeroProfile ELSE profile
PageWidth == Target.width

El == receipt.elements[i]

IsLine(b) == b.el.type = "line"
IsRaster(b) == b.el.type \in {"image", "alignedAsset", "qrcode", "barcode"}
IsControl(b) == b.el.type \in {"feed", "cut"}

-----------------------------------------------------------------------------

Init ==
  /\ stage = "off"
  /\ profile = ZeroProfile
  /\ mode = "render"
  /\ receipt = EmptyReceipt
  /\ i = 0
  /\ y = 0 /\ blocks = <<>>
  /\ width = 0 /\ height = 0 /\ ink = {} /\ controls = <<>>
  /\ pos = 0 /\ out = <<>>
  /\ failure = "none"

canvasVars == <<width, height, ink, controls>>
docVars == <<y, blocks>>
encoderVars == <<pos, out>>
requestVars == <<profile, mode, receipt>>

Fail(kind) ==
  /\ stage' = "failed"
  /\ failure' = kind
  /\ UNCHANGED <<requestVars, i, docVars, canvasVars, encoderVars>>

Enter(next) == stage' = next /\ i' = 1

\* The daemon starts with a configuration that decodes and validates, or not at all.
Configure(entry) ==
  /\ stage = "off"
  /\ EntryAccepted(entry)
  /\ stage' = "idle"
  /\ profile' = ProfileOf(entry)
  /\ UNCHANGED <<mode, receipt, i, docVars, canvasVars, encoderVars, failure>>

(* Mutant of Submit: the receipt is decoded but not validated. *)
SubmitUnchecked(m, r) ==
  /\ stage = "idle"
  /\ mode' = m
  /\ receipt' = r
  /\ IF Decodes(r)
     THEN Enter("building") /\ failure' = "none"
     ELSE stage' = "failed" /\ failure' = "validation" /\ UNCHANGED i
  /\ UNCHANGED <<profile, docVars, canvasVars, encoderVars>>

\* A request is decoded and validated before anything else happens to it.
Submit(m, r) ==
  /\ stage = "idle"
  /\ mode' = m
  /\ receipt' = r
  /\ IF Decodes(r) /\ Validate(r)
     THEN Enter("building") /\ failure' = "none"
     ELSE stage' = "failed" /\ failure' = "validation" /\ UNCHANGED i
  /\ UNCHANGED <<profile, docVars, canvasVars, encoderVars>>

-----------------------------------------------------------------------------
(***************************************************************************)
(* layout.Build: one element of the receipt per step.                      *)
(***************************************************************************)

Building(type) ==
  /\ stage = "building"
  /\ i <= Len(receipt.elements)
  /\ El.type = type

\* Blocks of their own at y, which moves on by extent.
Stack(new, extent) ==
  /\ blocks' = blocks \o new
  /\ y' = y + extent
  /\ i' = i + 1
  /\ UNCHANGED <<stage, requestVars, canvasVars, encoderVars, failure>>

Place(el, extent) == Stack(<<[y |-> y, el |-> el, size |-> 1]>>, extent)

LineBlock(line, deco, size, top) ==
  [y |-> top, el |-> [type |-> "line", line |-> line, deco |-> deco], size |-> size]

\* One block per line.
StackLines(lines, deco, size) ==
  Stack([k \in DOMAIN lines |-> LineBlock(lines[k], deco, size, y + (k - 1) * LineHeight * size)],
        Len(lines) * LineHeight * size)

BuildText ==
  Building("text") /\ StackLines(TextLines(El, PageWidth), El.deco, ResolveSize(El.size))

BuildHeading ==
  Building("heading") /\ StackLines(HeadingLines(El, PageWidth), {}, HeadingSize)

BuildTable ==
  Building("table") /\ StackLines(TableLines(El, PageWidth), {}, 1)

BuildList ==
  Building("list") /\ StackLines(ListLines(El, PageWidth), {}, 1)

BuildColumns ==
  /\ Building("columns")
  /\ IF ColumnsSupported(El) THEN StackLines(ColumnsLines(El, PageWidth), {}, 1)
     ELSE Fail("permanent")

BuildSpacer == Building("spacer") /\ Place(El, El.height)

(* Mutant of BuildDivider: the size is not resolved. *)
BuildDividerUnresolved == Building("divider") /\ Place(El, DividerThickness * El.size)

BuildDivider == Building("divider") /\ Place(El, DividerThickness * ResolveSize(El.size))

\* Feed and Cut take no height.
BuildControl == (Building("feed") \/ Building("cut")) /\ Place(El, 0)

BuildImage ==
  /\ Building("image")
  /\ IF HeaderAccepted(El.data) THEN Place(El, HeaderSize(El, PageWidth).h)
     ELSE Fail("permanent")

\* The store answers with the asset's bytes, which nothing has validated.  A
\* panic fails the request: the worker recovers it as a permanent failure
\* (queue/process.go), net/http closes the connection of a preview.
BuildAsset(data) ==
  /\ Building("asset")
  /\ mode # "render"
  /\ LET el == [type |-> "alignedAsset", data |-> data, width |-> El.width, align |-> El.align]
     IN  IF HeaderAccepted(data) /\ ~Panics(data.w, El.width)
         THEN Place(el, HeaderSize(el, PageWidth).h)
         ELSE Fail("permanent")

\* The store has no such asset or cannot read it; its error goes up unchanged.
AssetFails(kind) ==
  /\ Building("asset")
  /\ mode = "render" => kind = "not_found"
  /\ Fail(kind)

BuildQRCode ==
  /\ Building("qrcode")
  /\ IF El.encodes THEN Place(El, HeaderSize(El, PageWidth).h) ELSE Fail("permanent")

BuildBarcode ==
  /\ Building("barcode")
  /\ LET h == HeaderSize(El, PageWidth).h
         bars == [y |-> y, el |-> El, size |-> 1]
     IN  IF ~Encodable(El) THEN Fail("permanent")
         ELSE IF El.showText
         THEN Stack(<<bars, LineBlock(CaptionLine(El, PageWidth), {}, 1, y + h)>>, h + LineHeight)
         ELSE Stack(<<bars>>, h)

EndBuild ==
  /\ stage = "building"
  /\ i > Len(receipt.elements)
  /\ Enter("measuring")
  /\ width' = PageWidth
  /\ UNCHANGED <<requestVars, docVars, height, ink, controls, encoderVars, failure>>

-----------------------------------------------------------------------------
(***************************************************************************)
(* canvas.Paint.                                                           *)
(***************************************************************************)

\* The rows a block takes on the canvas: blockHeight, or its bitmap's.
Extent(b) ==
  CASE IsLine(b)              -> LineHeight * b.size
    [] IsRaster(b)            -> BitmapSize(b.el, PageWidth).h
    [] b.el.type = "spacer"   -> b.el.height
    [] b.el.type = "divider"  -> DividerThickness * ResolveSize(b.el.size)
    [] IsControl(b)           -> 0

ContentWidth(b) ==
  IF IsRaster(b) THEN BitmapSize(b.el, PageWidth).w
  ELSE IF IsLine(b) THEN b.el.line.chars * Advance * b.size
  ELSE 0

\* Only a picture can fail here: the pixels behind a good header do not decode,
\* or decode to a frame without a column.
BitmapFails(b) ==
  \/ b.el.type \in {"image", "alignedAsset"} /\ ~b.el.data.intact
  \/ b.el.type = "alignedAsset" /\ Panics(b.el.data.fw, b.el.width)

\* The first pass sizes the canvas, to its content if no page width is given.
MeasureBlock ==
  /\ stage = "measuring"
  /\ i <= Len(blocks)
  /\ IF BitmapFails(blocks[i]) THEN Fail("permanent")
     ELSE /\ height' = Greatest(height, blocks[i].y + Extent(blocks[i]))
          /\ width' = IF PageWidth <= 0 THEN Greatest(width, ContentWidth(blocks[i])) ELSE width
          /\ i' = i + 1
          /\ UNCHANGED <<stage, requestVars, docVars, ink, controls, encoderVars, failure>>

EndMeasure ==
  /\ stage = "measuring"
  /\ i > Len(blocks)
  /\ Enter("painting")
  /\ UNCHANGED <<requestVars, docVars, canvasVars, encoderVars, failure>>

\* The dots a block asks for, as rectangles [x0, x1) by [y0, y1).  What lies
\* beyond the canvas is dropped (paintGlyph, paintHLine).
Area(x0, x1, y0, rows) == [block |-> i, x0 |-> x0, x1 |-> x1, y0 |-> y0, y1 |-> y0 + rows]

(* Mutant of LineInk: the underline goes below the line. *)
LineInkLow(b) ==
  LET right == ContentWidth(b)
      rows  == LineHeight * b.size
  IN  {Area(0, right, b.y, rows)}
      \cup (IF "underline" \in b.el.deco
            THEN {Area(0, right, b.y + rows, b.size)} ELSE {})

LineInk(b) ==
  LET right == ContentWidth(b)
      rows  == LineHeight * b.size
  IN  {Area(0, right, b.y, rows)}
      \cup (IF "underline" \in b.el.deco
            THEN {Area(0, right, b.y + rows - b.size, b.size)} ELSE {})
      \cup (IF "strikethrough" \in b.el.deco
            THEN {Area(0, right, b.y + rows \div 2, b.size)} ELSE {})

DashDots == 16
DashGapDots == 8

DividerInk(b) ==
  LET rows  == DividerThickness * ResolveSize(b.el.size)
      dash  == DashDots + DashGapDots
  IN  IF b.el.style # "dashed" THEN {Area(0, width, b.y, rows)}
      ELSE {Area(k * dash, Least(k * dash + DashDots, width), b.y, rows)
              : k \in {k \in 0..(width \div dash) : k * dash < width}}

Ink(b) ==
  CASE IsLine(b)             -> LineInk(b)
    [] IsRaster(b)           -> {Area(0, ContentWidth(b), b.y, Extent(b))}
    [] b.el.type = "divider" -> DividerInk(b)
    [] b.el.type = "spacer"  -> {}

\* The second pass paints, and sets Feed and Cut aside.
PaintBlock ==
  /\ stage = "painting"
  /\ i <= Len(blocks)
  /\ LET b == blocks[i]
     IN  IF IsControl(b)
         THEN /\ controls' = Append(controls,
                                    [y |-> b.y, el |-> b.el, terminal |-> i = Len(blocks)])
              /\ UNCHANGED ink
         ELSE /\ ink' = ink \cup Ink(b)
              /\ UNCHANGED controls
  /\ i' = i + 1
  /\ UNCHANGED <<stage, requestVars, docVars, width, height, encoderVars, failure>>

-----------------------------------------------------------------------------
(***************************************************************************)
(* escpos.Encode and Canvas.EncodePNG.                                     *)
(***************************************************************************)

Painted == stage = "painting" /\ i > Len(blocks)

CanvasEmpty == width = 0 \/ height = 0

BeginEncode ==
  /\ Painted
  /\ mode = "print"
  /\ IF \/ CanvasEmpty
        \/ AutoCut(controls, profile) # <<>> /\ profile.defaultCut \notin CutModes
     THEN Fail("permanent")
     ELSE /\ Enter("encoding")
          /\ out' = <<InitSequence>>
          /\ UNCHANGED <<requestVars, docVars, canvasVars, pos, failure>>

EncodePNG ==
  /\ Painted
  /\ mode # "print"
  /\ IF CanvasEmpty THEN Fail("permanent")
     ELSE /\ stage' = "done"
          /\ UNCHANGED <<requestVars, i, docVars, canvasVars, encoderVars, failure>>

\* The row the bands go up to: the next control's, or the end.
BandsEnd == IF i <= Len(controls) THEN controls[i].y ELSE height

(* Mutant of EncodeBand: the last band is not cut at the control. *)
EncodeWholeBand ==
  /\ stage = "encoding"
  /\ pos < BandsEnd
  /\ LET rows == Least(BandHeight(height, profile.max), height - pos)
     IN  /\ out' = Append(out, RasterCommand(width, pos, rows))
         /\ pos' = pos + rows
  /\ UNCHANGED <<stage, requestVars, i, docVars, canvasVars, failure>>

EncodeBand ==
  /\ stage = "encoding"
  /\ pos < BandsEnd
  /\ LET rows == Least(BandHeight(height, profile.max), BandsEnd - pos)
     IN  /\ out' = Append(out, RasterCommand(width, pos, rows))
         /\ pos' = pos + rows
  /\ UNCHANGED <<stage, requestVars, i, docVars, canvasVars, failure>>

EncodeControl ==
  /\ stage = "encoding"
  /\ i <= Len(controls)
  /\ pos >= controls[i].y
  /\ IF ControlFails(controls[i].el, profile) THEN Fail("permanent")
     ELSE /\ out' = out \o ControlCommands(controls[i].el, profile)
          /\ pos' = controls[i].y
          /\ i' = i + 1
          /\ UNCHANGED <<stage, requestVars, docVars, canvasVars, failure>>

EndEncode ==
  /\ stage = "encoding"
  /\ i > Len(controls)
  /\ pos >= height
  /\ out' = out \o AutoCut(controls, profile)
  /\ stage' = "done"
  /\ UNCHANGED <<requestVars, i, docVars, canvasVars, pos, failure>>

\* The caller has the result; the next request starts from nothing.
Finish ==
  /\ stage \in {"done", "failed"}
  /\ stage' = "idle"
  /\ i' = 0
  /\ y' = 0 /\ blocks' = <<>>
  /\ width' = 0 /\ height' = 0 /\ ink' = {} /\ controls' = <<>>
  /\ pos' = 0 /\ out' = <<>>
  /\ receipt' = EmptyReceipt /\ mode' = "render" /\ failure' = "none"
  /\ UNCHANGED profile

-----------------------------------------------------------------------------

Build ==
  \/ BuildText \/ BuildHeading \/ BuildTable \/ BuildList \/ BuildColumns
  \/ BuildSpacer \/ BuildDivider \/ BuildControl
  \/ BuildImage \/ BuildQRCode \/ BuildBarcode
  \/ \E data \in AssetData : BuildAsset(data)
  \/ \E kind \in {"not_found", "permanent"} : AssetFails(kind)
  \/ EndBuild

Paint == MeasureBlock \/ EndMeasure \/ PaintBlock

Encode == BeginEncode \/ EncodePNG \/ EncodeBand \/ EncodeControl \/ EndEncode

Next ==
  \/ \E entry \in Entries : Configure(entry)
  \/ \E m \in Modes, r \in Requests : Submit(m, r)
  \/ Build \/ Paint \/ Encode \/ Finish

Spec == Init /\ [][Next]_vars

-----------------------------------------------------------------------------
(***************************************************************************)
(* Properties.                                                             *)
(***************************************************************************)

Stages == {"off", "idle", "building", "measuring", "painting", "encoding", "done", "failed"}

\* Every number the pipeline computes is a natural number (rows and dots are
\* added, never taken away), and the loop index stays in its loop.
TypeOK ==
  /\ stage \in Stages
  /\ mode \in Modes
  /\ failure \in Failures
  /\ y \in Nat /\ width \in Nat /\ height \in Nat /\ pos \in Nat /\ i \in Nat
  /\ \A b \in ToSet(blocks) : b.y \in Nat /\ b.size \in Nat \ {0}

\* For a picture whose first frame fills its header's size.  The first frame
\* of a GIF need not, see FirstFrameFits.
FrameFillsHeader(el) ==
  el.type \in {"image", "alignedAsset"} => el.data.w = el.data.fw /\ el.data.h = el.data.fh

\* Where the block after the n-th starts.
NextY(n) == IF n = Len(blocks) THEN y ELSE blocks[n + 1].y

\* The offsets Build hands out and the rows Paint takes agree: each block
\* starts where the one before ends.  Build and Paint compute a block's height
\* apart, from the element's fields, its lines or two readings of a picture.
BlocksMeet ==
  /\ blocks # <<>> => blocks[1].y = 0
  /\ \A n \in DOMAIN blocks :
       FrameFillsHeader(blocks[n].el) => NextY(n) = blocks[n].y + Extent(blocks[n])

\* image.go says that a GIF's header has its first frame's size, so that Build
\* advances by what Paint paints, whatever the picture.
FirstFrameFits ==
  \A n \in DOMAIN blocks : NextY(n) = blocks[n].y + Extent(blocks[n])

\* Nothing is painted over anything else, and the canvas is tall enough for all
\* of it: no block's dots share a row with a later block's, decorations and
\* dashes included, and no row is clipped.
InkApart ==
  \A a \in ink : FrameFillsHeader(blocks[a.block].el) =>
    /\ 0 <= a.y0 /\ a.y1 <= height
    /\ \A b \in ink : a.block < b.block => a.y1 <= b.y0

\* The lines and the element a step of Build has just stacked.
Stacked == stage = "building" /\ stage' = "building" /\ i' = i + 1

NewLines ==
  LET new == SubSeq(blocks', Len(blocks) + 1, Len(blocks'))
  IN  [k \in DOMAIN new |-> new[k].el.line]

\* The words of each column of cells, and of a text, in reading order.
ColumnText(e, k) ==
  IF e.type = "table"
  THEN FlattenSeq(e.headers[k]) \o FlattenSeq([r \in DOMAIN e.rows |-> FlattenSeq(e.rows[r][k])])
  ELSE FlattenSeq([n \in DOMAIN e.columns[k].elements |->
                     FlattenSeq(e.columns[k].elements[n].content)])

RunText(lines, k) == FlattenSeq([n \in DOMAIN lines |-> lines[n].runs[k].words])

\* Wrapping, padding and composing cells lose, repeat and reorder no word: the
\* lines of a text hold its words in order, those of a table or of columns the
\* words of each column in order in one run.
WordsKept ==
  [][Stacked =>
       /\ El.type \in {"text", "heading"} => RunText(NewLines, 1) = FlattenSeq(El.content)
       /\ El.type \in {"table", "columns"} =>
            \A k \in DOMAIN (IF El.type = "table" THEN El.headers ELSE El.columns) :
               RunText(NewLines, k) = ColumnText(El, k)
       /\ El.type = "list" =>
            FlattenSeq([n \in DOMAIN NewLines |-> Last(NewLines[n].runs).words])
              = FlattenSeq([n \in DOMAIN El.items |-> FlattenSeq(El.items[n].content)])]_vars

Dots(line, size) == line.chars * Advance * size

SizeOf(e) == CASE e.type = "text" -> ResolveSize(e.size) [] e.type = "heading" -> HeadingSize [] OTHER -> 1

\* The longest word of a table's or columns' cells.
Longest(e) ==
  LET cells == DOMAIN (IF e.type = "table" THEN e.headers ELSE e.columns)
  IN  Max({0} \cup UNION {ToSet(ColumnText(e, k)) : k \in cells})

\* Every word of the element fits the share of the page its column is due.
Roomy(e) ==
  LET n == IF e.type = "table" THEN Len(e.headers) ELSE Len(e.columns)
      weights == [k \in 1..n |-> IF e.type = "table" \/ e.columns[k].weight = 0 THEN 1
                                 ELSE e.columns[k].weight]
      left == PageWidth - (n - 1) * Advance
  IN  /\ left >= n
      /\ \A k \in 1..n : left * weights[k] >= Greatest(1, Longest(e) * Advance) * SumOf(weights)

\* No line is wider than the page because of how it was wrapped, padded or
\* composed: one that is holds at most one word of a text or of a list item, or
\* belongs to a table or columns with a word too wide for its column.
LinesFit ==
  [][Stacked /\ PageWidth > 0 =>
       /\ El.type \in {"text", "heading", "list"} =>
            \A n \in DOMAIN NewLines : \/ Dots(NewLines[n], SizeOf(El)) <= PageWidth
                                       \/ Len(Last(NewLines[n].runs).words) <= 1
       /\ El.type \in {"table", "columns"} /\ Roomy(El) =>
            \A n \in DOMAIN NewLines : Dots(NewLines[n], 1) <= PageWidth]_vars

\* The cells of a column start at one offset on every line, as the code says of
\* tables, given that each word fits its column.
CellsLineUp ==
  [][Stacked /\ PageWidth > 0 /\ El.type \in {"table", "columns"} /\ Roomy(El) =>
       \A n \in DOMAIN NewLines : \A k \in DOMAIN NewLines[n].runs :
          NewLines[n].runs[k].at = NewLines[1].runs[k].at]_vars

-----------------------------------------------------------------------------
(***************************************************************************)
(* What the printer reads.                                                 *)
(***************************************************************************)

Rasters == {n \in DOMAIN out : out[n].cmd = "raster"}

\* The row after the last of a raster command.
Below(n) == out[n].from + out[n].rows

\* Every row of the canvas is sent once and in order, however the bands and the
\* controls cut it up, and no band is taller than the printer takes.
RowsOnce ==
  /\ \A n \in Rasters :
       /\ out[n].rows > 0
       /\ profile.max > 0 => out[n].rows <= profile.max
       /\ \A m \in Rasters : m < n => Below(m) <= out[n].from
       /\ out[n].from = 0 \/ \E m \in Rasters : m < n /\ Below(m) = out[n].from
  /\ stage = "done" /\ mode = "print" =>
       \E n \in Rasters : Below(n) = height /\ \A m \in Rasters : m <= n

\* The two-byte fields say what follows them, unless a page of 65536 rows goes
\* to a printer without a (smaller) limit, or the page is that many bytes wide.
FieldsExact ==
  \A n \in Rasters :
    /\ height < FieldModulus \/ profile.max \in 1..(FieldModulus - 1) => out[n].rowsSent = out[n].rows
    /\ RowBytes(width) < FieldModulus => out[n].widthSent = RowBytes(width)

\* The rows that the first n commands carry.
RowsOf(commands, n) ==
  SumOf([k \in 1..n |-> IF commands[k].cmd = "raster" THEN commands[k].rows ELSE 0])

\* Controls on the wire, each with the rows sent before it.
Sent ==
  FlattenSeq([n \in DOMAIN out |->
                IF out[n].cmd \in {"feed", "cut"}
                THEN <<[above |-> RowsOf(out, n - 1), command |-> out[n]]>> ELSE <<>>])

\* What a Feed or a Cut below so many rows is to put on the wire: its own lines or
\* mode, and no cut on a printer without a cutter.
Wanted(el, above) ==
  IF el.type = "feed" THEN <<[above |-> above, command |-> [cmd |-> "feed", lines |-> el.lines]]>>
  ELSE IF el.type = "cut" /\ profile.supportsCut
  THEN <<[above   |-> above,
          command |-> [cmd |-> "cut", mode |-> IF el.mode = "" THEN profile.defaultCut ELSE el.mode]]>>
  ELSE <<>>

\* The rows of the blocks above the n-th.
RowsAbove(n) == SumOf([k \in 1..(n - 1) |-> Extent(blocks[k])])

\* What the document asks for: each Feed and Cut under the rows of the blocks above it.
Asked == FlattenSeq([n \in DOMAIN blocks |-> Wanted(blocks[n].el, RowsAbove(n))])

\* The feed and the cut at the end, unless the document ends with a Cut.
Closing ==
  IF ~profile.supportsCut \/ (blocks # <<>> /\ Last(blocks).el.type = "cut") THEN <<>>
  ELSE <<[above |-> height, command |-> [cmd |-> "feed", lines |-> 4]],
         [above |-> height, command |-> [cmd |-> "cut", mode |-> profile.defaultCut]]>>

\* Feeds and cuts come out in the order of the receipt, each below exactly the
\* rows of what stands above it, and a printer with a cutter cuts once at the
\* end.  Build's offsets, Paint's Terminal mark and Encode's bands all take part.
ControlsInPlace ==
  (\A b \in ToSet(blocks) : FrameFillsHeader(b.el)) =>
    /\ stage = "encoding" => IsPrefix(Sent, Asked)
    /\ stage = "done" /\ mode = "print" => Sent = Asked \o Closing

\* A picture among the receipt's elements, or the asset store, may fail it.
PictureFails(b) ==
  b.el.type \in {"image", "alignedAsset"} /\ (~b.el.data.intact \/ b.el.data.fw = 0)

\* A request that passed Validate fails for one of these reasons only: it asks
\* for an asset, for something other than text inside a column, for a picture
\* whose pixels do not decode or are none, or for a page without a dot.  A rejected one
\* leaves nothing behind.
FailsForCause ==
  stage = "failed" =>
    \/ failure = "validation" /\ blocks = <<>> /\ ~(Decodes(receipt) /\ Validate(receipt))
    \/ failure # "validation" /\ \E e \in ToSet(receipt.elements) : e.type = "asset"
    \/ /\ failure = "permanent"
       /\ \/ \E e \in ToSet(receipt.elements) : \E inner \in Nested(e) : inner.type # "text"
          \/ \E b \in ToSet(blocks) : PictureFails(b)
          \/ width = 0 \/ \A b \in ToSet(blocks) : Extent(b) = 0

Rank == [building |-> 4, measuring |-> 3, painting |-> 2, encoding |-> 1]

\* What a loop has left to do.
Left ==
  CASE stage = "building"                  -> Len(receipt.elements) + 1 - i
    [] stage \in {"measuring", "painting"} -> Len(blocks) + 1 - i
    [] stage = "encoding"                  -> Len(controls) + 1 - i + height - pos

\* Every request ends, as no loop of the pipeline goes round for ever: each step
\* ends the request, goes on to a later stage or leaves the loop less to do, and
\* never less than nothing.  A band of no rows or a control that takes the
\* encoder back up the page would break it.
RequestEnds ==
  [][{stage, stage'} \subseteq DOMAIN Rank =>
       \/ Rank[stage'] < Rank[stage]
       \/ stage' = stage /\ Left' \in 0..(Left - 1)]_vars

=============================================================================
