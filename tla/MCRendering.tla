---------------------------- MODULE MCRendering ----------------------------
(***************************************************************************)
(* Small inputs for Rendering: printers, elements that reach each case of  *)
(* the code and both sides of each bound, and the receipts made of them.   *)
(***************************************************************************)
EXTENDS Rendering

Own(tenths, cutter, cut, most) ==
  [tenths |-> tenths, dpi |-> 203, left |-> 0, right |-> 0, supportsCut |-> cutter,
   defaultCut |-> cut, max |-> most]

Printer(model, own) ==
  [name |-> "kitchen", transport |-> "network", model |-> model, profile |-> own]

\* A roll of 12.5 mm prints 100 dots, seven runes.
Narrow == Own(125, TRUE, "full", 1000)
Model == "epson-tm-m30ii"

MCEntries ==
  { Printer(Model, <<>>), Printer("", <<Narrow>>), Printer("", <<Own(480, FALSE, "partial", 40000)>>),
    \* refused: two sources, none, an unknown model, another transport
    Printer(Model, <<Narrow>>), Printer("", <<>>), Printer("tm-t20", <<>>),
    [Printer(Model, <<>>) EXCEPT !.transport = "usb"],
    \* refused: no default cut, no width, margins that leave nothing
    Printer("", <<Own(480, TRUE, "", 0)>>), Printer("", <<Own(0, TRUE, "full", 0)>>),
    Printer("", <<[Narrow EXCEPT !.left = 60, !.right = 40]>>) }

Picture(format, w, h, fw, fh, intact) ==
  [format |-> format, w |-> w, h |-> h, fw |-> fw, fh |-> fh, intact |-> intact]

Photo  == Picture("png", 1152, 60, 1152, 60, TRUE)
Flat   == Picture("png", 3000, 1, 3000, 1, TRUE)      \* no row left when scaled
Tall   == Picture("bmp", 300, 66000, 300, 66000, TRUE)    \* more rows than a field counts
Sprite == Picture("gif", 1152, 20, 40, 20, TRUE)      \* a frame in a corner of its screen
Slit   == Picture("gif", 0, 20, 0, 20, TRUE)        \* no column of pixels
Sliver == Picture("gif", 40, 20, 0, 20, TRUE)       \* in its first frame only
Torn   == Picture("jpeg", 40, 30, 40, 30, FALSE)
Huge   == Picture("png", 5000, 4001, 5000, 4001, TRUE)

MCAssetData == {Photo, Sprite, Slit, Sliver, Torn, Huge}

Text(content, align, size, deco) ==
  [type |-> "text", content |-> content, align |-> align, size |-> size, deco |-> deco]
Plain(content) == Text(content, "", 0, {})
Feed(n) == [type |-> "feed", lines |-> n]
Cut(m) == [type |-> "cut", mode |-> m]
Spacer(h) == [type |-> "spacer", height |-> h]
Divider(style, size) == [type |-> "divider", style |-> style, size |-> size]
Image(data) == [type |-> "image", data |-> data]
Asset(name, w, align) == [type |-> "asset", name |-> name, width |-> w, align |-> align]
QRCode(size, level, encodes) ==
  [type |-> "qrcode", content |-> <<<<9>>>>, size |-> size, level |-> level, encodes |-> encodes]
Barcode(symbology, len, h, caption) ==
  [type |-> "barcode", content |-> <<<<len>>>>, symbology |-> symbology, len |-> len,
   encodes |-> TRUE, modules |-> 95, height |-> h, showText |-> caption]
Table(headers, rows) == [type |-> "table", headers |-> headers, rows |-> rows]
Item(content, checked, indent) == [content |-> content, checked |-> checked, indent |-> indent]
List(kind, items) == [type |-> "list", kind |-> kind, items |-> items]
Column(weight, elements) == [weight |-> weight, elements |-> elements]
Columns(cols) == [type |-> "columns", columns |-> cols]

W(words) == <<words>>     \* a text of one paragraph
Newline == << <<>>, <<>> >>     \* not empty, and without a word

\* Elements that Validate accepts.
Texts ==
  { Text(W(<<2, 3, 1, 4>>), "center", 0, {"underline"}),
    Text(<< <<2>>, <<>>, <<12, 1>> >>, "right", 2, {"strikethrough"}), Plain(Newline) }
Cells ==
  { Table(<<W(<<2>>), W(<<1>>)>>, << <<W(<<1, 2, 1>>), W(<<3, 1>>)>>, <<Blank, W(<<9>>)>> >>),
    Columns(<<Column(2, <<Plain(W(<<1, 2, 1>>)), Plain(W(<<2>>))>>), Column(0, <<Plain(W(<<1, 1>>))>>)>>),
    Columns(<<Column(0, <<>>), Column(500, <<Plain(W(<<2, 3>>))>>)>>) }
Lists ==
  { List("number", [n \in 1..10 |-> Item(IF n = 5 THEN Newline ELSE W(<<1, n>>), FALSE, n % 2)]),
    List("checkbox", <<Item(<< <<2, 2>>, <<3>> >>, TRUE, 8)>>) }
Pictures ==
  { Image(Photo), Image(Flat), Image(Sprite), Image(Torn), Image(Slit), Asset("logo", 0, ""),
    Asset("logo", 700, "right"),
    QRCode(0, "", TRUE), Barcode("ean13", 13, 0, TRUE), Barcode("code128", 4, 50, FALSE) }
Others ==
  { [type |-> "heading", content |-> W(<<3, 2>>)], Divider("dashed", 3), Divider("", 0),
    Spacer(0), Spacer(2500), Columns(<<Column(1, <<>>)>>), Columns(<<Column(1, <<Spacer(1)>>)>>) }
Controls == { Feed(1), Feed(255), Cut(""), Cut("partial") }

Accepted == Texts \cup Cells \cup Lists \cup Pictures \cup Others \cup Controls

\* Elements it does not.
Rejected ==
  { Plain(NoText), Text(W(<<1>>), "top", 0, {}), Text(W(<<1>>), "", 101, {}),
    [type |-> "heading", content |-> NoText], Divider("wavy", 0), Divider("", -1), Spacer(-1), Spacer(10001),
    Feed(0), Feed(256), Cut("torn"), List("roman", <<Item(W(<<1>>), FALSE, 0)>>), List("", <<>>),
    List("", <<Item(W(<<1>>), TRUE, 0)>>), List("bullet", <<Item(W(<<1>>), FALSE, 9)>>),
    Table(<<>>, <<>>), Table(<<Blank>>, << <<Blank, Blank>> >>), Image(Huge),
    Image(Picture("none", 0, 0, 0, 0, FALSE)), Asset("", 0, ""), Asset("logo", -1, ""),
    QRCode(0, "best", TRUE), QRCode(0, "low", FALSE), Barcode("ean8", 9, 0, FALSE),
    Barcode("upca", 13, 0, FALSE), Barcode("qr", 4, 0, FALSE), Barcode("itf", 4, 10001, FALSE),
    Columns(<<>>), Columns(<<Column(-1, <<>>)>>), Columns(<<Column(1, <<Plain(NoText)>>)>>),
    [type |-> "nil"], [type |-> "video"] }

Receipt(copies, elements) == [copies |-> copies, elements |-> elements]

\* Columns in columns, n of them.
Nest(n) ==
  LET nest[k \in 0..n] == IF k = 0 THEN Spacer(1) ELSE Columns(<<Column(1, <<nest[k - 1]>>)>>)
  IN  nest[n]

\* A page ends, begins or is cut in the middle of something.
Sandwiches ==
  [1..3 -> Controls \cup {Spacer(2500), Image(Sprite), Divider("dashed", 3)}]
  \cup {<<a, b, c>> : a \in Controls, b \in Texts \cup Cells, c \in Controls}
  \cup {<<Image(Tall)>>, <<Image(Tall), Cut("")>>, <<Feed(3), Image(Tall)>>}

MCRequests ==
  {Receipt(1, els) : els \in BoundedSeq(Accepted, 2) \cup Sandwiches}
  \cup {Receipt(1, <<e>>) : e \in Rejected}
  \cup {Receipt(n, <<Spacer(10)>>) : n \in {-1, 0, 100, 101}}
  \cup {Receipt(1, <<Nest(n)>>) : n \in {32, 33}}

MCAssetNames == {"logo"}
=============================================================================
