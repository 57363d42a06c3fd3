------------------------------ MODULE Receipts ------------------------------
(***************************************************************************)
(* The receipt of internal/receipt: what a client may ask for, what the    *)
(* decoder takes and what Validate accepts.                                *)
(*                                                                         *)
(* A receipt is [copies, elements]; an element is a record with a "type"   *)
(* and the fields of the Go struct that a later stage or a check reads.    *)
(* A text is a sequence of paragraphs (split at "\n"), a paragraph a       *)
(* sequence of words, a word its length in runes.  "" has no paragraph; a  *)
(* text of spaces only has one without a word, and so has an empty cell of *)
(* a table, which prints alike.  Bold, italic and the symbols themselves   *)
(* are left out.                                                           *)
(***************************************************************************)
EXTENDS Integers, Sequences, SequencesExt

MaxCopies == 100
MaxTextSize == 100
MaxDividerSize == 100
MaxSpacerHeight == 10000
MaxFeedLines == 255
MaxListIndent == 8
MaxBarcodeHeight == 10000
MaxImagePixels == 20000000
MaxElementDepth == 32

Alignments == {"", "left", "center", "right"}
CutModes == {"full", "partial"}
ImageFormats == {"png", "jpeg", "gif", "bmp", "webp"}
ErrorCorrections == {"low", "medium", "quartile", "high"}
Symbologies == {"code128", "ean13", "ean8", "upca", "code39", "itf"}

\* The types the registry knows.  "nil" is a nil Element, which only a caller
\* inside the process can make.
ElementTypes == {"text", "heading", "divider", "spacer", "feed", "cut", "list",
                 "table", "image", "asset", "qrcode", "barcode", "columns"}

\* "", and a text of spaces only.
NoText == <<>>
Blank == << <<>> >>

-----------------------------------------------------------------------------
(***************************************************************************)
(* What the libraries say of a picture or a code.                          *)
(***************************************************************************)

\* Image data as the image package sees it: the format and the size its header
\* names, the size of the (first) frame that image.Decode returns, and whether
\* the pixels decode at all.  For a GIF the header is that of the logical
\* screen, in which a frame may fill a part.
HeaderDecodes(data) == data.format # "none"

\* image.DecodeConfig, the format check and the pixel limit.
HeaderAccepted(data) ==
  /\ HeaderDecodes(data)
  /\ data.format \in ImageFormats
  /\ data.w * data.h <= MaxImagePixels

\* Barcode.Encode: the lengths that pin a symbology down, then the encoder,
\* which takes the content ("encodes") or not.
Encodable(b) ==
  /\ b.symbology \in Symbologies
  /\ b.symbology = "ean13" => b.len \in {12, 13}
  /\ b.symbology = "ean8"  => b.len \in {7, 8}
  /\ b.symbology = "upca"  => b.len \in {11, 12}
  /\ b.encodes

-----------------------------------------------------------------------------
(***************************************************************************)
(* Each element's own Validate.  Columns checks its weights here; what its *)
(* columns hold is reached by Level.                                       *)
(***************************************************************************)

\* Strings that are not UTF-8 cannot come out of the JSON decoder; they and
\* the asset names with a separator are the names outside AssetNames.
CONSTANT AssetNames

TextValid(e) ==
  /\ e.content # NoText
  /\ e.align \in Alignments
  /\ e.size \in 0..MaxTextSize

HeadingValid(e) == e.content # NoText

DividerValid(e) == e.style \in {"", "solid", "dashed"} /\ e.size \in 0..MaxDividerSize

SpacerValid(e) == e.height \in 0..MaxSpacerHeight

FeedValid(e) == e.lines \in 1..MaxFeedLines

CutValid(e) == e.mode \in CutModes \cup {""}

ListItemValid(kind, item) ==
  /\ item.content # NoText
  /\ item.indent \in 0..MaxListIndent
  /\ item.checked => kind = "checkbox"

ListValid(e) ==
  /\ e.kind \in {"", "bullet", "number", "checkbox"}
  /\ e.items # <<>>
  /\ \A i \in DOMAIN e.items : ListItemValid(e.kind, e.items[i])

TableValid(e) ==
  /\ e.headers # <<>>
  /\ e.rows # <<>>
  /\ \A i \in DOMAIN e.rows : Len(e.rows[i]) = Len(e.headers)

ImageValid(e) == HeaderAccepted(e.data)

AssetValid(e) == e.name \in AssetNames /\ e.align \in Alignments /\ e.width >= 0

QRCodeValid(e) ==
  /\ e.content # NoText
  /\ e.level \in ErrorCorrections \cup {""}
  /\ e.encodes

BarcodeValid(e) ==
  /\ e.content # NoText
  /\ e.height <= MaxBarcodeHeight
  /\ Encodable(e)

ColumnsValid(e) ==
  /\ e.columns # <<>>
  /\ \A i \in DOMAIN e.columns : e.columns[i].weight >= 0

LocallyValid(e) ==
  CASE e.type = "text"    -> TextValid(e)
    [] e.type = "heading" -> HeadingValid(e)
    [] e.type = "divider" -> DividerValid(e)
    [] e.type = "spacer"  -> SpacerValid(e)
    [] e.type = "feed"    -> FeedValid(e)
    [] e.type = "cut"     -> CutValid(e)
    [] e.type = "list"    -> ListValid(e)
    [] e.type = "table"   -> TableValid(e)
    [] e.type = "image"   -> ImageValid(e)
    [] e.type = "asset"   -> AssetValid(e)
    [] e.type = "qrcode"  -> QRCodeValid(e)
    [] e.type = "barcode" -> BarcodeValid(e)
    [] e.type = "columns" -> ColumnsValid(e)
    [] OTHER              -> FALSE

-----------------------------------------------------------------------------
(***************************************************************************)
(* Nesting.  Columns hold elements, which may be columns again.            *)
(***************************************************************************)

Nested(e) ==
  IF e.type = "columns"
  THEN UNION {ToSet(e.columns[i].elements) : i \in DOMAIN e.columns}
  ELSE {}

\* The elements of r that are depth columns deep.
Level(r, depth) ==
  LET level[d \in 0..depth] ==
        IF d = 0 THEN ToSet(r.elements) ELSE UNION {Nested(e) : e \in level[d - 1]}
  IN  level[depth]

\* decodeElement is called with the depth of each element it meets.
Decodes(r) ==
  /\ Level(r, MaxElementDepth + 1) = {}
  /\ \A d \in 0..MaxElementDepth : \A e \in Level(r, d) : e.type \in ElementTypes

\* Receipt.Validate: copies, then every element at every depth.
Validate(r) ==
  /\ r.copies \in 0..MaxCopies
  /\ \A d \in 0..MaxElementDepth : \A e \in Level(r, d) : LocallyValid(e)

-----------------------------------------------------------------------------
(***************************************************************************)
(* What the Go types of the fields say of an element that was decoded.     *)
(***************************************************************************)

\* A word has a rune: strings.Fields returns no empty ones.
Content == Seq(Seq(Nat \ {0}))

\* Sizes are natural numbers; a header or a frame of no column or row is one.
IsPicture(data) == {data.w, data.fw, data.h, data.fh} \subseteq Nat

Typed(e) ==
  /\ e.type \in {"text", "heading", "barcode"} => e.content \in Content
  /\ e.type = "text"  => e.deco \in SUBSET {"underline", "strikethrough"}
  /\ e.type = "table" => e.headers \in Seq(Content) /\ e.rows \in Seq(Seq(Content))
  /\ e.type = "list"  =>
       /\ e.items \in Seq(ToSet(e.items))
       /\ \A item \in ToSet(e.items) : item.content \in Content
  /\ e.type = "columns" =>
       /\ e.columns \in Seq(ToSet(e.columns))
       /\ \A col \in ToSet(e.columns) : col.weight \in Int /\ col.elements \in Seq(ToSet(col.elements))
       /\ \A inner \in Nested(e) : inner.type = "text" => inner.content \in Content
  /\ e.type = "image"   => IsPicture(e.data)
  /\ e.type = "asset"   => e.width \in Int
  /\ e.type = "qrcode"  => e.size \in Int
  /\ e.type = "barcode" => e.height \in Int /\ e.modules \in Nat

=============================================================================
