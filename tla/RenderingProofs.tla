--------------------------- MODULE RenderingProofs ---------------------------
(***************************************************************************)
(* Proofs about Rendering, for any receipts, printers, pictures and font   *)
(* that satisfy its assumptions.                                           *)
(***************************************************************************)
EXTENDS Rendering, LayoutProofs

-----------------------------------------------------------------------------
(***************************************************************************)
(* The inductive invariant.                                                *)
(***************************************************************************)

IsBlock(b) ==
  /\ b.y \in Nat /\ b.size \in Nat \ {0}
  /\ \/ IsLine(b) /\ b.el.line \in Line
     \/ IsRaster(b) /\ IsDrawn(b.el)
     \/ b.el.type = "spacer" /\ b.el.height \in Nat
     \/ b.el.type = "divider" /\ b.el.size \in Int
     \/ b.el.type = "feed" /\ b.el.lines \in 1..MaxFeedLines
     \/ b.el.type = "cut" /\ b.el.mode \in CutModes \cup {""}

IsProfile(p) ==
  p.width \in Nat \ {0} /\ p.max \in Nat /\ p.defaultCut \in CutModes

\* The sequences are sequences of what they should hold.
Shapes ==
  /\ blocks \in Seq(ToSet(blocks)) /\ \A n \in DOMAIN blocks : IsBlock(blocks[n])
  /\ controls \in Seq(ToSet(controls))
  /\ out \in Seq(ToSet(out))

\* Who asks, for what, and how far the loop under way can be.
Stage ==
  /\ IF stage = "off" THEN profile = ZeroProfile /\ mode = "render" ELSE IsProfile(profile)
  /\ stage = "building" =>
       /\ receipt \in Requests /\ Decodes(receipt) /\ Validate(receipt)
       /\ i \in 1..(Len(receipt.elements) + 1)
  /\ stage \in {"measuring", "painting"} => i \in 1..(Len(blocks) + 1)
  /\ stage = "encoding" => i \in 1..(Len(controls) + 1)

\* What a stage has not begun is empty.
Empty ==
  /\ stage \in {"off", "idle"} => blocks = <<>> /\ y = 0
  /\ stage \in {"off", "idle", "building"} => height = 0
  /\ stage \in {"off", "idle", "building", "measuring"} => ink = {} /\ controls = <<>>
  /\ stage \in {"off", "idle", "building", "measuring", "painting"} => pos = 0 /\ out = <<>>

Grounded == TypeOK /\ Shapes /\ Stage /\ Empty

-----------------------------------------------------------------------------
(***************************************************************************)
(* Sequences.                                                              *)
(***************************************************************************)

\* A concatenation has the elements of its parts, in their order.
LEMMA Joined ==
  ASSUME NEW s, s \in Seq(ToSet(s)), NEW t, t \in Seq(ToSet(t))
  PROVE  /\ s \o t \in Seq(ToSet(s \o t))
         /\ Len(s) \in Nat /\ Len(t) \in Nat /\ Len(s \o t) = Len(s) + Len(t)
         /\ DOMAIN s = 1..Len(s) /\ DOMAIN t = 1..Len(t) /\ DOMAIN (s \o t) = 1..(Len(s) + Len(t))
         /\ \A n \in 1..Len(s) : (s \o t)[n] = s[n]
         /\ \A n \in 1..Len(t) : (s \o t)[Len(s) + n] = t[n]
<1>. DEFINE S == ToSet(s) \cup ToSet(t)
<1>1. s \in Seq(S) /\ t \in Seq(S)
  <2>1. S # {} => S = S
    OBVIOUS
  <2>2. ToSet(s) \subseteq S /\ ToSet(t) \subseteq S
    OBVIOUS
  <2>. HIDE DEF S
  <2>. QED BY <2>2, SeqMonotonic
<1>2. /\ s \o t \in Seq(S) /\ Len(s \o t) = Len(s) + Len(t)
      /\ Len(s) \in Nat /\ Len(t) \in Nat
      /\ DOMAIN s = 1..Len(s) /\ DOMAIN t = 1..Len(t) /\ DOMAIN (s \o t) = 1..(Len(s) + Len(t))
      /\ \A n \in 1..Len(s) : (s \o t)[n] = s[n]
      /\ \A n \in 1..Len(t) : (s \o t)[Len(s) + n] = t[n]
  <2>. HIDE DEF S
  <2>. QED BY <1>1
<1>3. s \o t = [n \in 1..(Len(s) + Len(t)) |-> (s \o t)[n]]
  <2>. HIDE DEF S
  <2>1. PICK u \in Seq(S) : u = s \o t
    BY <1>2
  <2>2. u = [n \in 1..Len(u) |-> u[n]]
    OBVIOUS
  <2>. QED BY <1>2, <2>1, <2>2
<1>4. \A n \in 1..(Len(s) + Len(t)) : (s \o t)[n] \in ToSet(s \o t)
  BY <1>2 DEF ToSet
<1>5. [n \in 1..(Len(s) + Len(t)) |-> (s \o t)[n]] \in Seq(ToSet(s \o t))
  BY <1>2, <1>4, IsASeq
<1>. QED BY <1>2, <1>3, <1>5

\* A sequence of one.
LEMMA Lone == \A x : /\ <<x>> \in Seq(ToSet(<<x>>)) /\ Len(<<x>>) = 1 /\ DOMAIN <<x>> = 1..1
                     /\ <<x>>[1] = x
  BY DEF ToSet

\* A sequence of none.
LEMMA None == /\ <<>> \in Seq(ToSet(<<>>)) /\ Len(<<>>) = 0 /\ DOMAIN <<>> = {} /\ ToSet(<<>>) = {}
<1>1. Len(<<>>) = 0 /\ DOMAIN <<>> = {}
  OBVIOUS
<1>. QED BY <1>1, EmptySeq DEF ToSet

\* Append keeps what is there.
LEMMA Appended ==
  ASSUME NEW s, s \in Seq(ToSet(s)), NEW x
  PROVE  /\ Append(s, x) \in Seq(ToSet(Append(s, x)))
         /\ Len(s) \in Nat /\ Len(Append(s, x)) = Len(s) + 1
         /\ DOMAIN s = 1..Len(s) /\ DOMAIN Append(s, x) = 1..(Len(s) + 1)
         /\ \A n \in 1..Len(s) : Append(s, x)[n] = s[n]
         /\ Append(s, x)[Len(s) + 1] = x
<1>. DEFINE S == ToSet(s) \cup {x}
<1>1. s \in Seq(S) /\ x \in S
  <2>1. ToSet(s) \subseteq S /\ x \in S
    OBVIOUS
  <2>. HIDE DEF S
  <2>. QED BY <2>1, SeqMonotonic
<1>2. /\ Append(s, x) \in Seq(S) /\ Len(s) \in Nat /\ Len(Append(s, x)) = Len(s) + 1
      /\ DOMAIN s = 1..Len(s) /\ DOMAIN Append(s, x) = 1..(Len(s) + 1)
      /\ \A n \in 1..Len(s) : Append(s, x)[n] = s[n]
      /\ Append(s, x)[Len(s) + 1] = x
  <2>. HIDE DEF S
  <2>. QED BY <1>1, AppendProperties
<1>3. Append(s, x) = [n \in 1..(Len(s) + 1) |-> Append(s, x)[n]]
  <2>. HIDE DEF S
  <2>1. PICK u \in Seq(S) : u = Append(s, x)
    BY <1>2
  <2>2. u = [n \in 1..Len(u) |-> u[n]]
    OBVIOUS
  <2>. QED BY <1>2, <2>1, <2>2
<1>4. \A n \in 1..(Len(s) + 1) : Append(s, x)[n] \in ToSet(Append(s, x))
  BY <1>2 DEF ToSet
<1>5. [n \in 1..(Len(s) + 1) |-> Append(s, x)[n]] \in Seq(ToSet(Append(s, x)))
  BY <1>2, <1>4, IsASeq
<1>. QED BY <1>2, <1>3, <1>5

-----------------------------------------------------------------------------
(***************************************************************************)
(* What a block takes of the canvas.                                       *)
(***************************************************************************)

\* A block takes a natural number of rows and of dots.
LEMMA BlockMeasured ==
  ASSUME NEW b, IsBlock(b), PageWidth \in Nat
  PROVE  Extent(b) \in Nat /\ ContentWidth(b) \in Nat
<1>. USE DEF IsLine, IsRaster, IsControl
<1>1. CASE IsLine(b) /\ b.el.line \in Line
  <2>1. b.el.line.chars \in Nat /\ b.size \in Nat \ {0} /\ Advance \in Nat /\ LineHeight \in Nat
    BY <1>1, FontAssumption DEF Line, IsBlock
  <2>2. LineHeight * b.size \in Nat /\ b.el.line.chars * Advance \in Nat
    BY <2>1
  <2>3. b.el.line.chars * Advance * b.size \in Nat
    BY <2>1, <2>2
  <2>. QED BY <1>1, <2>2, <2>3 DEF Extent, ContentWidth
<1>2. CASE IsRaster(b) /\ IsDrawn(b.el)
  <2>1. BitmapSize(b.el, PageWidth).w \in Nat /\ BitmapSize(b.el, PageWidth).h \in Nat
    BY <1>2, PicturesMeasured
  <2>. QED BY <1>2, <2>1 DEF Extent, ContentWidth
<1>3. CASE b.el.type = "spacer" /\ b.el.height \in Nat
  BY <1>3 DEF Extent, ContentWidth
<1>4. CASE b.el.type = "divider" /\ b.el.size \in Int
  BY <1>4 DEF Extent, ContentWidth, ResolveSize, DividerThickness
<1>5. CASE b.el.type \in {"feed", "cut"}
  BY <1>5 DEF Extent, ContentWidth
<1>. QED BY <1>1, <1>2, <1>3, <1>4, <1>5 DEF IsBlock

\* New blocks and what y moves on by.
Stackable(new, extent) ==
  /\ new \in Seq(ToSet(new))
  /\ extent \in Nat
  /\ \A k \in DOMAIN new : IsBlock(new[k]) /\ y <= new[k].y /\ new[k].y <= y + extent
  /\ \A j, k \in DOMAIN new : j <= k => new[j].y <= new[k].y
  /\ IF new = <<>> THEN extent = 0 ELSE new[1].y = y
  /\ \A k \in DOMAIN new : FrameFillsHeader(new[k].el) =>
       (IF k = Len(new) THEN y + extent ELSE new[k + 1].y) = new[k].y + Extent(new[k])

\* One block of the height Paint will find.
LEMMA OneStacks ==
  ASSUME y \in Nat, NEW b, b.y = y, IsBlock(b), NEW extent \in Nat,
         FrameFillsHeader(b.el) => Extent(b) = extent
  PROVE  Stackable(<<b>>, extent)
<1>1. /\ <<b>> \in Seq(ToSet(<<b>>)) /\ Len(<<b>>) = 1 /\ <<b>> # <<>> /\ <<b>>[1] = b
      /\ \A k \in DOMAIN <<b>> : k = 1
  BY Lone
<1>2. \A k \in DOMAIN <<b>> : <<b>>[k] = b
  BY <1>1
<1>. QED BY <1>1, <1>2 DEF Stackable

\* Multiplication keeps the order of natural numbers.
LEMMA TimesMono == \A a, b, c \in Nat : a <= b => a * c <= b * c
<1>1. ASSUME NEW a \in Nat, NEW b \in Nat, NEW c \in Nat, a <= b PROVE a * c <= b * c
  <2>1. PICK d \in Nat : b = a + d
    BY <1>1
  <2>2. b * c = a * c + d * c /\ d * c \in Nat /\ a * c \in Nat
    BY <2>1
  <2>. QED BY <2>2
<1>. QED BY <1>1

\* Lines of one size under each other.
LEMMA LinesStack ==
  ASSUME y \in Nat, NEW lines \in Seq(Line), NEW deco, NEW size \in Nat \ {0}
  PROVE  Stackable([k \in DOMAIN lines |-> LineBlock(lines[k], deco, size, y + (k - 1) * LineHeight * size)],
                   Len(lines) * LineHeight * size)
<1>. DEFINE top(k) == y + (k - 1) * LineHeight * size
            new == [k \in DOMAIN lines |-> LineBlock(lines[k], deco, size, top(k))]
<1>1. PICK H \in Nat \ {0} : H = LineHeight * size
  BY FontAssumption
<1>2. /\ Len(lines) \in Nat /\ DOMAIN lines = 1..Len(lines)
      /\ \A k \in 1..Len(lines) : lines[k] \in Line
  OBVIOUS
<1>3. /\ Len(lines) * LineHeight * size = Len(lines) * H
      /\ \A k \in 1..Len(lines) : top(k) = y + (k - 1) * H
  BY <1>1, <1>2, FontAssumption
<1>4. /\ Len(lines) * H \in Nat
      /\ \A k \in 1..Len(lines) : /\ (k - 1) * H \in Nat /\ (k - 1) * H <= Len(lines) * H
                                  /\ k * H = (k - 1) * H + H
  <2>1. Len(lines) * H \in Nat
    BY <1>2
  <2>2. ASSUME NEW k \in 1..Len(lines)
        PROVE  /\ (k - 1) * H \in Nat /\ (k - 1) * H <= Len(lines) * H /\ k * H = (k - 1) * H + H
    <3>1. PICK j \in Nat : j = k - 1
      OBVIOUS
    <3>2. j * H \in Nat /\ j * H <= Len(lines) * H /\ k * H = j * H + H
      BY <3>1, <1>2, TimesMono
    <3>. QED BY <3>1, <3>2
  <2>. QED BY <2>1, <2>2
<1>5. \A j, k \in 1..Len(lines) : j <= k => (j - 1) * H <= (k - 1) * H
  <2>1. ASSUME NEW j \in 1..Len(lines), NEW k \in 1..Len(lines), j <= k PROVE (j - 1) * H <= (k - 1) * H
    <3>1. j - 1 \in Nat /\ k - 1 \in Nat /\ j - 1 <= k - 1 /\ H \in Nat
      BY <2>1
    <3>. QED BY <3>1, TimesMono
  <2>. QED BY <2>1
<1>6. /\ DOMAIN new = 1..Len(lines) /\ Len(new) = Len(lines) /\ new \in Seq(ToSet(new))
      /\ \A k \in 1..Len(lines) : new[k] = LineBlock(lines[k], deco, size, top(k))
  <2>1. DOMAIN new = 1..Len(lines) /\ new = [k \in 1..Len(lines) |-> new[k]]
    BY <1>2
  <2>2. \A k \in 1..Len(lines) : new[k] \in ToSet(new)
    BY <1>2 DEF ToSet
  <2>3. [k \in 1..Len(lines) |-> new[k]] \in Seq(ToSet(new)) /\ Len([k \in 1..Len(lines) |-> new[k]]) = Len(lines)
    <3>. HIDE DEF new
    <3>. QED BY <1>2, <2>2, IsASeq
  <2>4. \A k \in 1..Len(lines) : new[k] = LineBlock(lines[k], deco, size, top(k))
    BY <1>2
  <2>. HIDE DEF new, top
  <2>. QED BY <2>1, <2>3, <2>4
<1>7. ASSUME NEW k \in 1..Len(lines)
      PROVE  /\ new[k].y = y + (k - 1) * H /\ IsBlock(new[k]) /\ Extent(new[k]) = H
  <2>1. /\ new[k].y = y + (k - 1) * H /\ new[k].size = size /\ new[k].el.type = "line"
        /\ new[k].el.line = lines[k]
    <3>. HIDE DEF new, top
    <3>. QED BY <1>3, <1>6 DEF LineBlock
  <2>4. y + (k - 1) * H \in Nat /\ lines[k] \in Line
    <3>1. PICK above \in Nat : above = (k - 1) * H
      BY <1>4
    <3>. QED BY <1>2, <3>1
  <2>5. IsLine(new[k])
    BY <2>1 DEF IsLine
  <2>2. IsBlock(new[k])
    <3>. HIDE DEF new
    <3>. QED BY <2>1, <2>4, <2>5 DEF IsBlock
  <2>3. Extent(new[k]) = H
    <3>. HIDE DEF new
    <3>1. Extent(new[k]) = LineHeight * new[k].size
      BY <2>1, <2>5 DEF Extent, IsLine, IsRaster, IsControl
    <3>. QED BY <1>1, <2>1, <3>1
  <2>. QED BY <2>1, <2>2, <2>3
<1>. HIDE DEF new
<1>8. \A k \in 1..Len(lines) :
        (IF k = Len(lines) THEN y + Len(lines) * H ELSE new[k + 1].y) = new[k].y + Extent(new[k])
  <2>1. ASSUME NEW k \in 1..Len(lines)
        PROVE  (IF k = Len(lines) THEN y + Len(lines) * H ELSE new[k + 1].y) = new[k].y + Extent(new[k])
    <3>0. ASSUME k # Len(lines) PROVE k + 1 \in 1..Len(lines) /\ (k + 1) - 1 = k
      <4>1. PICK n \in Nat : n = Len(lines)
        BY <1>2
      <4>. QED BY <3>0, <4>1
    <3>. DEFINE before == (k - 1) * H
                upTo   == k * H
    <3>1. new[k].y = y + before /\ Extent(new[k]) = H /\ upTo = before + H /\ before \in Nat
      BY <1>4, <1>7
    <3>2. k # Len(lines) => new[k + 1].y = y + upTo
      <4>1. k # Len(lines) => new[k + 1].y = y + ((k + 1) - 1) * H
        BY <1>7, <3>0
      <4>. QED BY <3>0, <4>1
    <3>3. k = Len(lines) => Len(lines) * H = upTo
      OBVIOUS
    <3>. HIDE DEF before, upTo
    <3>. QED BY <3>1, <3>2, <3>3
  <2>. QED BY <2>1
<1>9. IF new = <<>> THEN Len(lines) * H = 0 ELSE new[1].y = y
  <2>1. new = <<>> => Len(lines) = 0
    BY <1>6
  <2>2. new # <<>> => 1 \in 1..Len(lines)
    BY <1>2, <1>6, EmptySeq
  <2>3. 1 \in 1..Len(lines) => new[1].y = y
    BY <1>7
  <2>. QED BY <2>1, <2>2, <2>3
<1>10. Stackable(new, Len(lines) * H)
  <2>1. ASSUME NEW k \in DOMAIN new
        PROVE  IsBlock(new[k]) /\ y <= new[k].y /\ new[k].y <= y + Len(lines) * H
    <3>1. k \in 1..Len(lines)
      BY <1>6
    <3>2. PICK above \in Nat : above = (k - 1) * H
      BY <1>4, <3>1
    <3>3. PICK all \in Nat : all = Len(lines) * H
      BY <1>4
    <3>4. new[k].y = y + above /\ above <= all /\ IsBlock(new[k])
      BY <1>4, <1>7, <3>1, <3>2, <3>3
    <3>. QED BY <3>3, <3>4
  <2>2. ASSUME NEW j \in DOMAIN new, NEW k \in DOMAIN new, j <= k PROVE new[j].y <= new[k].y
    <3>1. j \in 1..Len(lines) /\ k \in 1..Len(lines)
      BY <1>6
    <3>2. PICK a \in Nat, c \in Nat : a = (j - 1) * H /\ c = (k - 1) * H
      BY <1>4, <3>1
    <3>3. new[j].y = y + a /\ new[k].y = y + c /\ a <= c
      BY <1>5, <1>7, <2>2, <3>1, <3>2
    <3>. QED BY <3>3
  <2>. QED BY <1>4, <1>6, <1>8, <1>9, <2>1, <2>2 DEF Stackable
<1>. QED BY <1>3, <1>10 DEF new

-----------------------------------------------------------------------------
(***************************************************************************)
(* Build.  Each of its steps gives up for a cause, goes on to Paint or     *)
(* adds blocks that start at y.                                            *)
(***************************************************************************)

\* The outermost level is the list of elements.
LEMMA LevelZero == \A r : Level(r, 0) = ToSet(r.elements)
<1>. SUFFICES ASSUME NEW r PROVE Level(r, 0) = ToSet(r.elements)
  OBVIOUS
<1>. DEFINE Levels(f) == f = [d \in 0..0 |-> IF d = 0 THEN ToSet(r.elements)
                                             ELSE UNION {Nested(e) : e \in f[d - 1]}]
            F == CHOOSE f : Levels(f)
<1>1. \E f : Levels(f)
  <2>. DEFINE g == [d \in 0..0 |-> ToSet(r.elements)]
  <2>1. g = [d \in 0..0 |-> IF d = 0 THEN ToSet(r.elements) ELSE UNION {Nested(e) : e \in g[d - 1]}]
    <3>1. \A d \in 0..0 : d = 0
      OBVIOUS
    <3>. QED BY <3>1
  <2>. QED BY <2>1
<1>2. Levels(F)
  <2>. HIDE DEF Levels
  <2>. QED BY <1>1, Zenon
<1>3. Level(r, 0) = F[0]
  BY DEF Level
<1>4. PICK f : f = F
  OBVIOUS
<1>5. f = [d \in 0..0 |-> IF d = 0 THEN ToSet(r.elements) ELSE UNION {Nested(e) : e \in f[d - 1]}]
  BY <1>2, <1>4
<1>6. f[0] = ToSet(r.elements)
  <2>. HIDE DEF F, Levels
  <2>1. 0 \in 0..0
    OBVIOUS
  <2>. QED BY <1>5, <2>1
<1>. HIDE DEF F
<1>. QED BY <1>3, <1>4, <1>6

\* The page has a natural width.
LEMMA PageTyped == ASSUME Grounded PROVE PageWidth \in Nat
BY DEF Grounded, Stage, IsProfile, PageWidth, Target, ZeroProfile

\* The element Build is at has passed Validate and has its Go type.
LEMMA ElementFacts ==
  ASSUME Grounded, stage = "building", i <= Len(receipt.elements)
  PROVE  /\ El \in ToSet(receipt.elements) /\ El.type \in ElementTypes
         /\ LocallyValid(El) /\ Typed(El)
<1>1. /\ receipt \in Requests /\ Decodes(receipt) /\ Validate(receipt)
      /\ i \in 1..(Len(receipt.elements) + 1)
  BY DEF Grounded, Stage
<1>2. /\ receipt.elements \in Seq(ToSet(receipt.elements))
      /\ \A e \in ToSet(receipt.elements) : Typed(e)
  BY <1>1, RequestsAssumption
<1>3. i \in DOMAIN receipt.elements
  <2>1. PICK n \in Nat : n = Len(receipt.elements) /\ DOMAIN receipt.elements = 1..n
    BY <1>2
  <2>. QED BY <1>1, <2>1
<1>4. El \in ToSet(receipt.elements)
  BY <1>3 DEF El, ToSet
<1>5. El \in Level(receipt, 0) /\ 0 \in 0..MaxElementDepth
  BY <1>4, LevelZero DEF MaxElementDepth
<1>. QED BY <1>1, <1>2, <1>4, <1>5 DEF Decodes, Validate

\* A step of Build that adds blocks.
Pile ==
  /\ stage = "building" /\ i <= Len(receipt.elements)
  /\ \E new, extent : Stackable(new, extent) /\ Stack(new, extent)

\* What a request that passed Validate may fail for.
Cause(kind) ==
  /\ kind \in {"not_found", "permanent"}
  /\ \/ \E e \in ToSet(receipt.elements) : e.type = "asset"
     \/ /\ kind = "permanent"
        /\ \/ \E e \in ToSet(receipt.elements) : \E inner \in Nested(e) : inner.type # "text"
           \/ \E b \in ToSet(blocks) : PictureFails(b)
           \/ width = 0 \/ \A b \in ToSet(blocks) : Extent(b) = 0

GiveUp == stage \notin {"off", "idle"} /\ \E kind : Cause(kind) /\ Fail(kind)

\* Stacking lines is a step of Pile.
LEMMA LinesPiled ==
  ASSUME Grounded, stage = "building", i <= Len(receipt.elements),
         NEW lines \in Seq(Line), NEW deco, NEW size \in Nat \ {0}, StackLines(lines, deco, size)
  PROVE  Pile
<1>1. y \in Nat
  BY DEF Grounded, TypeOK
<1>2. Stackable([k \in DOMAIN lines |-> LineBlock(lines[k], deco, size, y + (k - 1) * LineHeight * size)],
                Len(lines) * LineHeight * size)
  BY <1>1, LinesStack
<1>. QED BY <1>2, Zenon DEF Pile, StackLines

\* Placing one block whose height Paint will agree with is one too.
LEMMA OnePiled ==
  ASSUME Grounded, stage = "building", i <= Len(receipt.elements),
         NEW el, NEW extent \in Nat, Place(el, extent),
         LET b == [y |-> y, el |-> el, size |-> 1]
         IN  IsBlock(b) /\ (FrameFillsHeader(el) => Extent(b) = extent)
  PROVE  Pile
<1>1. PICK b : b = [y |-> y, el |-> el, size |-> 1]
  OBVIOUS
<1>2. y \in Nat /\ b.y = y /\ IsBlock(b) /\ (FrameFillsHeader(b.el) => Extent(b) = extent)
  BY <1>1 DEF Grounded, TypeOK
<1>3. Stackable(<<b>>, extent)
  BY <1>2, OneStacks
<1>4. Stack(<<b>>, extent)
  BY <1>1 DEF Place
<1>. QED BY <1>3, <1>4, Zenon DEF Pile

\* An interval of integers.
LEMMA Bounded == \A a, b \in Int : \A n \in a..b : n \in Int /\ (a >= 0 => n \in Nat)
  OBVIOUS

\* A text adds its lines.
LEMMA TextPiles == ASSUME Grounded, BuildText PROVE Pile
<1>1. stage = "building" /\ i <= Len(receipt.elements) /\ El.type = "text"
  BY DEF BuildText, Building
<1>2. El.content \in Content /\ El.size \in Int
  <2>1. LocallyValid(El) /\ Typed(El)
    BY <1>1, ElementFacts
  <2>2. TextValid(El)
    BY <1>1, <2>1 DEF LocallyValid
  <2>3. El.size \in 0..MaxTextSize
    BY <2>2 DEF TextValid
  <2>4. El.size \in Int
    BY <2>3, Bounded DEF MaxTextSize
  <2>. QED BY <1>1, <2>1, <2>4 DEF Typed
<1>3. TextLines(El, PageWidth) \in Seq(Line) /\ ResolveSize(El.size) \in Nat \ {0}
  <2>1. PageWidth \in Int
    BY PageTyped
  <2>2. ResolveSize(El.size) \in Nat \ {0}
    BY <1>2 DEF ResolveSize
  <2>. QED BY <1>2, <2>1, <2>2, TextLinesTyped
<1>. QED BY <1>1, <1>3, LinesPiled DEF BuildText

\* A heading adds its lines.
LEMMA HeadingPiles == ASSUME Grounded, BuildHeading PROVE Pile
<1>1. stage = "building" /\ i <= Len(receipt.elements) /\ El.type = "heading"
  BY DEF BuildHeading, Building
<1>2. El.content \in Content
  <2>1. Typed(El)
    BY <1>1, ElementFacts
  <2>. QED BY <1>1, <2>1 DEF Typed
<1>3. HeadingLines(El, PageWidth) \in Seq(Line) /\ HeadingSize \in Nat \ {0}
  <2>1. PageWidth \in Int
    BY PageTyped
  <2>2. HeadingSize \in Nat \ {0}
    BY DEF HeadingSize
  <2>. QED BY <1>2, <2>1, <2>2, HeadingLinesTyped
<1>. QED BY <1>1, <1>3, LinesPiled DEF BuildHeading

\* A table adds its lines.
LEMMA TablePiles == ASSUME Grounded, BuildTable PROVE Pile
<1>1. stage = "building" /\ i <= Len(receipt.elements) /\ El.type = "table"
  BY DEF BuildTable, Building
<1>2. El.headers \in Seq(Content) /\ El.rows \in Seq(Seq(Content))
  <2>1. Typed(El)
    BY <1>1, ElementFacts
  <2>. QED BY <1>1, <2>1 DEF Typed
<1>3. TableLines(El, PageWidth) \in Seq(Line)
  <2>1. PageWidth \in Int
    BY PageTyped
  <2>. QED BY <1>2, <2>1, TableLinesTyped
<1>. QED BY <1>1, <1>3, LinesPiled DEF BuildTable

\* A list adds its lines.
LEMMA ListPiles == ASSUME Grounded, BuildList PROVE Pile
<1>1. stage = "building" /\ i <= Len(receipt.elements) /\ El.type = "list"
  BY DEF BuildList, Building
<1>2. /\ El.items \in Seq(ToSet(El.items))
      /\ \A item \in ToSet(El.items) : item.content \in Content /\ item.indent \in Nat
  <2>1. LocallyValid(El) /\ Typed(El)
    BY <1>1, ElementFacts
  <2>2. ListValid(El)
    BY <1>1, <2>1 DEF LocallyValid
  <2>3. \A item \in ToSet(El.items) : item.indent \in Nat
    <3>1. \A n \in DOMAIN El.items : El.items[n].indent \in 0..MaxListIndent
      BY <2>2 DEF ListValid, ListItemValid
    <3>2. \A n \in DOMAIN El.items : El.items[n].indent \in Nat
      BY <3>1, Bounded DEF MaxListIndent
    <3>. QED BY <3>2 DEF ToSet
  <2>. QED BY <1>1, <2>1, <2>3 DEF Typed
<1>3. ListLines(El, PageWidth) \in Seq(Line)
  <2>1. PageWidth \in Int
    BY PageTyped
  <2>. QED BY <1>2, <2>1, ListLinesTyped
<1>. QED BY <1>1, <1>3, LinesPiled DEF BuildList

\* Columns add their lines or are refused for what they hold.
LEMMA ColumnsPile == ASSUME Grounded, BuildColumns PROVE Pile \/ GiveUp
<1>1. stage = "building" /\ i <= Len(receipt.elements) /\ El.type = "columns"
  BY DEF BuildColumns, Building
<1>2. El \in ToSet(receipt.elements) /\ LocallyValid(El) /\ Typed(El)
  BY <1>1, ElementFacts
<1>3. CASE ColumnsSupported(El)
  <2>1. El.columns # <<>>
    BY <1>1, <1>2 DEF LocallyValid, ColumnsValid
  <2>2. /\ El.columns \in Seq(ToSet(El.columns))
        /\ \A col \in ToSet(El.columns) : col.weight \in Int /\ col.elements \in Seq(ToSet(col.elements))
        /\ \A inner \in Nested(El) : inner.type = "text" => inner.content \in Content
    BY <1>1, <1>2 DEF Typed
  <2>3. ASSUME NEW col \in ToSet(El.columns), NEW inner \in ToSet(col.elements)
        PROVE  inner.content \in Content
    <3>1. inner \in Nested(El)
      BY <1>1, <2>3 DEF Nested, ToSet
    <3>. QED BY <1>3, <2>2, <3>1 DEF ColumnsSupported
  <2>4. ColumnsLines(El, PageWidth) \in Seq(Line)
    <3>1. PageWidth \in Int
      BY PageTyped
    <3>. QED BY <2>1, <2>2, <2>3, <3>1, ColumnsLinesTyped
  <2>. QED BY <1>1, <1>3, <2>4, LinesPiled DEF BuildColumns
<1>4. CASE ~ColumnsSupported(El)
  <2>1. Cause("permanent")
    BY <1>2, <1>4 DEF Cause, ColumnsSupported
  <2>2. Fail("permanent")
    BY <1>4 DEF BuildColumns
  <2>. QED BY <1>1, <2>1, <2>2 DEF GiveUp
<1>. QED BY <1>3, <1>4

\* Spacers, dividers and controls add themselves.
LEMMA PlainPiles == ASSUME Grounded, BuildSpacer \/ BuildDivider \/ BuildControl PROVE Pile
<1>. USE DEF IsLine, IsRaster, IsControl
<1>1. stage = "building" /\ i <= Len(receipt.elements)
  BY DEF BuildSpacer, BuildDivider, BuildControl, Building
<1>2. LocallyValid(El)
  BY <1>1, ElementFacts
<1>. DEFINE b == [y |-> y, el |-> El, size |-> 1]
<1>3. b.y \in Nat /\ b.size \in Nat \ {0} /\ b.el = El
  BY DEF Grounded, TypeOK
<1>. HIDE DEF b
<1>4. CASE BuildSpacer
  <2>1. El.type = "spacer" /\ Place(El, El.height)
    BY <1>4 DEF BuildSpacer, Building
  <2>2. El.height \in Nat
    <3>1. SpacerValid(El)
      BY <1>2, <2>1 DEF LocallyValid
    <3>2. El.height \in 0..MaxSpacerHeight
      BY <3>1 DEF SpacerValid
    <3>3. PICK most \in Nat : most = MaxSpacerHeight
      BY DEF MaxSpacerHeight
    <3>. QED BY <3>2, <3>3
  <2>3. IsBlock(b) /\ Extent(b) = El.height
    BY <1>3, <2>1, <2>2 DEF IsBlock, Extent
  <2>. QED BY <1>1, <2>1, <2>2, <2>3, OnePiled DEF b
<1>5. CASE BuildDivider
  <2>1. El.type = "divider" /\ Place(El, DividerThickness * ResolveSize(El.size))
    BY <1>5 DEF BuildDivider, Building
  <2>2. El.size \in Int
    <3>1. DividerValid(El)
      BY <1>2, <2>1 DEF LocallyValid
    <3>2. El.size \in 0..MaxDividerSize
      BY <3>1 DEF DividerValid
    <3>. QED BY <3>2, Bounded DEF MaxDividerSize
  <2>3. DividerThickness * ResolveSize(El.size) \in Nat
    BY <2>2 DEF ResolveSize, DividerThickness
  <2>4. IsBlock(b) /\ Extent(b) = DividerThickness * ResolveSize(El.size)
    BY <1>3, <2>1, <2>2 DEF IsBlock, Extent
  <2>. QED BY <1>1, <2>1, <2>3, <2>4, OnePiled DEF b
<1>6. CASE BuildControl
  <2>1. El.type \in {"feed", "cut"} /\ Place(El, 0)
    BY <1>6 DEF BuildControl, Building
  <2>2. /\ El.type = "cut" => El.mode \in CutModes \cup {""}
        /\ El.type = "feed" => El.lines \in 1..MaxFeedLines
    BY <1>2 DEF LocallyValid, CutValid, FeedValid
  <2>3. IsBlock(b) /\ Extent(b) = 0
    BY <1>3, <2>1, <2>2 DEF IsBlock, Extent
  <2>. QED BY <1>1, <2>1, <2>3, OnePiled DEF b
<1>. QED BY <1>4, <1>5, <1>6

\* A picture or a code at y, advanced by the height its header names.
LEMMA PictureMeasured ==
  ASSUME Grounded, NEW el, el.type \in {"image", "alignedAsset", "qrcode", "barcode"}, IsDrawn(el)
  PROVE  LET b == [y |-> y, el |-> el, size |-> 1]
         IN  /\ IsBlock(b) /\ HeaderSize(el, PageWidth).h \in Nat
             /\ FrameFillsHeader(el) => Extent(b) = HeaderSize(el, PageWidth).h
<1>. DEFINE b == [y |-> y, el |-> el, size |-> 1]
<1>1. y \in Nat /\ PageWidth \in Nat
  BY PageTyped DEF Grounded, TypeOK
<1>2. IsRaster(b) /\ b.el = el /\ b.y = y /\ b.size = 1
  BY DEF IsRaster
<1>. HIDE DEF b
<1>3. IsBlock(b)
  BY <1>1, <1>2 DEF IsBlock
<1>4. Extent(b) = BitmapSize(el, PageWidth).h
  BY <1>2 DEF Extent, IsLine, IsRaster, IsControl
<1>5. HeaderSize(el, PageWidth).h \in Nat /\ (Agrees(el) => BitmapSize(el, PageWidth).h = HeaderSize(el, PageWidth).h)
  BY <1>1, PicturesMeasured
<1>. QED BY <1>3, <1>4, <1>5 DEF b, Agrees, FrameFillsHeader

\* Placing a picture or a code by its header is a step of Pile.
LEMMA PicturePiles ==
  ASSUME Grounded, stage = "building", i <= Len(receipt.elements),
         NEW el, el.type \in {"image", "alignedAsset", "qrcode", "barcode"}, IsDrawn(el),
         Place(el, HeaderSize(el, PageWidth).h)
  PROVE  Pile
<1>. DEFINE b == [y |-> y, el |-> el, size |-> 1]
<1>1. /\ IsBlock(b) /\ HeaderSize(el, PageWidth).h \in Nat
      /\ FrameFillsHeader(el) => Extent(b) = HeaderSize(el, PageWidth).h
  BY PictureMeasured
<1>. HIDE DEF b
<1>. QED BY <1>1, OnePiled DEF b

\* An image or a QR code that passed Validate adds itself.
LEMMA ImagePiles == ASSUME Grounded, BuildImage \/ BuildQRCode PROVE Pile
<1>1. stage = "building" /\ i <= Len(receipt.elements)
  BY DEF BuildImage, BuildQRCode, Building
<1>2. LocallyValid(El) /\ Typed(El)
  BY <1>1, ElementFacts
<1>3. CASE BuildImage
  <2>1. El.type = "image"
    BY <1>3 DEF BuildImage, Building
  <2>2. HeaderAccepted(El.data)
    BY <1>2, <2>1 DEF LocallyValid, ImageValid
  <2>3. IsDrawn(El)
    BY <1>2, <2>1 DEF Typed, IsDrawn
  <2>4. Place(El, HeaderSize(El, PageWidth).h)
    BY <1>3, <2>2 DEF BuildImage
  <2>. QED BY <1>1, <2>1, <2>3, <2>4, PicturePiles
<1>4. CASE BuildQRCode
  <2>1. El.type = "qrcode"
    BY <1>4 DEF BuildQRCode, Building
  <2>2. QRCodeValid(El)
    BY <1>2, <2>1 DEF LocallyValid
  <2>3. IsDrawn(El)
    BY <1>2, <2>1 DEF Typed, IsDrawn
  <2>4. Place(El, HeaderSize(El, PageWidth).h)
    BY <1>4, <2>2 DEF BuildQRCode, QRCodeValid
  <2>. QED BY <1>1, <2>1, <2>3, <2>4, PicturePiles
<1>. QED BY <1>3, <1>4

\* An asset adds itself or is refused for its data.
LEMMA AssetPiles ==
  ASSUME Grounded, NEW data \in AssetData, BuildAsset(data)
  PROVE  Pile \/ GiveUp
<1>1. stage = "building" /\ i <= Len(receipt.elements) /\ El.type = "asset"
  BY DEF BuildAsset, Building
<1>2. El \in ToSet(receipt.elements) /\ Typed(El)
  BY <1>1, ElementFacts
<1>3. PICK el : el = [type |-> "alignedAsset", data |-> data, width |-> El.width, align |-> El.align]
  OBVIOUS
<1>4. IF HeaderAccepted(data) /\ ~Panics(data.w, El.width)
      THEN Place(el, HeaderSize(el, PageWidth).h) ELSE Fail("permanent")
  BY <1>3 DEF BuildAsset
<1>5. CASE HeaderAccepted(data) /\ ~Panics(data.w, El.width)
  <2>1. IsPicture(data)
    BY <1>5, AssetsAssumption
  <2>2. el.type = "alignedAsset" /\ el.data = data /\ el.width = El.width /\ El.width \in Int
    BY <1>1, <1>2, <1>3 DEF Typed
  <2>3. IsDrawn(el)
    BY <2>1, <2>2 DEF IsDrawn
  <2>. QED BY <1>1, <1>4, <1>5, <2>2, <2>3, PicturePiles
<1>6. CASE ~(HeaderAccepted(data) /\ ~Panics(data.w, El.width))
  <2>1. Cause("permanent")
    BY <1>1, <1>2 DEF Cause
  <2>. QED BY <1>1, <1>4, <1>6, <2>1 DEF GiveUp
<1>. QED BY <1>5, <1>6

\* A barcode adds itself, and its caption below.
LEMMA BarcodePiles == ASSUME Grounded, BuildBarcode PROVE Pile
<1>1. stage = "building" /\ i <= Len(receipt.elements) /\ El.type = "barcode"
  BY DEF BuildBarcode, Building
<1>2. LocallyValid(El) /\ Typed(El)
  BY <1>1, ElementFacts
<1>3. Encodable(El)
  BY <1>1, <1>2 DEF LocallyValid, BarcodeValid
<1>4. IsDrawn(El) /\ El.content \in Content
  BY <1>1, <1>2 DEF Typed, IsDrawn
<1>5. y \in Nat /\ PageWidth \in Nat /\ LineHeight \in Nat
  BY PageTyped, FontAssumption DEF Grounded, TypeOK
<1>6. PICK h : h = HeaderSize(El, PageWidth).h
  OBVIOUS
<1>7. PICK bars : bars = [y |-> y, el |-> El, size |-> 1]
  OBVIOUS
<1>8. PICK text : text = LineBlock(CaptionLine(El, PageWidth), {}, 1, y + h)
  OBVIOUS
<1>9. IF El.showText THEN Stack(<<bars, text>>, h + LineHeight) ELSE Stack(<<bars>>, h)
  BY <1>3, <1>6, <1>7, <1>8 DEF BuildBarcode
<1>10. /\ h \in Nat /\ bars.y = y /\ bars.el = El /\ IsBlock(bars)
       /\ FrameFillsHeader(bars.el) => Extent(bars) = h
  <2>1. bars.el = El /\ bars.y = y
    BY <1>7
  <2>. QED BY <1>1, <1>4, <1>6, <1>7, <2>1, PictureMeasured
<1>11. /\ text.y = y + h /\ IsBlock(text) /\ Extent(text) = LineHeight
  <2>1. CaptionLine(El, PageWidth) \in Line
    BY <1>1, <1>4, <1>5, CaptionTyped
  <2>2. /\ text.y = y + h /\ text.size = 1 /\ text.el.type = "line" /\ text.el.line \in Line
    BY <1>8, <2>1 DEF LineBlock
  <2>3. IsBlock(text)
    <3>1. text.y \in Nat /\ text.size \in Nat \ {0} /\ IsLine(text)
      BY <1>5, <1>10, <2>2 DEF IsLine
    <3>. QED BY <2>2, <3>1 DEF IsBlock
  <2>4. Extent(text) = LineHeight
    BY <1>5, <2>2 DEF Extent, IsLine, IsRaster, IsControl
  <2>. QED BY <2>2, <2>3, <2>4
<1>12. CASE El.showText
  <2>1. Stackable(<<bars, text>>, h + LineHeight)
    <3>1. PICK new : new = <<bars, text>>
      OBVIOUS
    <3>2. /\ Len(new) = 2 /\ DOMAIN new = 1..2 /\ new[1] = bars /\ new[2] = text /\ new # <<>>
          /\ new \in Seq(ToSet(new))
      <4>1. bars \in ToSet(<<bars, text>>) /\ text \in ToSet(<<bars, text>>)
        BY DEF ToSet
      <4>. QED BY <3>1, <4>1
    <3>3. \A k \in DOMAIN new : k = 1 \/ k = 2
      BY <3>2
    <3>. QED BY <1>5, <1>10, <1>11, <3>1, <3>2, <3>3 DEF Stackable
  <2>. QED BY <1>1, <1>9, <1>12, <2>1, Zenon DEF Pile
<1>13. CASE ~El.showText
  <2>1. Stackable(<<bars>>, h)
    BY <1>5, <1>10, OneStacks
  <2>. QED BY <1>1, <1>9, <1>13, <2>1, Zenon DEF Pile
<1>. QED BY <1>12, <1>13

\* Every step of Build.
LEMMA Builds == ASSUME Grounded, Build PROVE Pile \/ GiveUp \/ EndBuild
<1>1. ASSUME NEW kind \in {"not_found", "permanent"}, AssetFails(kind) PROVE GiveUp
  <2>1. stage = "building" /\ i <= Len(receipt.elements) /\ El.type = "asset" /\ Fail(kind)
    BY <1>1 DEF AssetFails, Building
  <2>2. El \in ToSet(receipt.elements)
    BY <2>1, ElementFacts
  <2>3. Cause(kind)
    BY <2>1, <2>2 DEF Cause
  <2>. QED BY <2>1, <2>3 DEF GiveUp
<1>. QED BY <1>1, TextPiles, HeadingPiles, TablePiles, ListPiles, ColumnsPile, PlainPiles,
            ImagePiles, AssetPiles, BarcodePiles DEF Build

-----------------------------------------------------------------------------
(***************************************************************************)
(* The rest of the inductive invariant.                                    *)
(***************************************************************************)

\* The document goes down the page without gaps.
Piled ==
  /\ \A m, n \in DOMAIN blocks : m <= n => blocks[m].y <= blocks[n].y
  /\ \A n \in DOMAIN blocks : blocks[n].y <= y
  /\ blocks = <<>> => y = 0
  /\ BlocksMeet

\* The canvas is tall enough for the blocks measured so far.
Measured ==
  /\ stage = "measuring" =>
       \A n \in DOMAIN blocks : n < i => blocks[n].y + Extent(blocks[n]) <= height
  /\ stage \in {"painting", "encoding"} =>
       \A n \in DOMAIN blocks : blocks[n].y + Extent(blocks[n]) <= height

\* A block's dots are on its own rows.
Inked ==
  \A a \in ink :
    /\ a.block \in DOMAIN blocks /\ a.y0 \in Nat /\ a.y1 \in Nat
    /\ blocks[a.block].y <= a.y0
    /\ a.y1 <= blocks[a.block].y + Extent(blocks[a.block])
    /\ a.y1 <= height

\* The controls set aside go down the page too, above the blocks still to paint.
Controlled ==
  /\ \A n \in DOMAIN controls :
       /\ controls[n].y \in Nat /\ controls[n].y <= height
       /\ \/ controls[n].el.type = "feed" /\ controls[n].el.lines \in 1..MaxFeedLines
          \/ controls[n].el.type = "cut" /\ controls[n].el.mode \in CutModes \cup {""}
  /\ \A m, n \in DOMAIN controls : m <= n => controls[m].y <= controls[n].y
  /\ stage = "painting" =>
       \A n \in DOMAIN controls : \A m \in DOMAIN blocks : i <= m => controls[n].y <= blocks[m].y

\* Raster command n is one the encoder made, above row pos.
Banded(n) ==
  \E from \in Nat, rows \in Nat \ {0} :
    /\ out[n] = RasterCommand(width, from, rows)
    /\ rows <= BandHeight(height, profile.max)
    /\ from + rows <= pos

\* The rows above pos are on the wire, each band where the one before ended.
Strip ==
  /\ \A n \in Rasters : Banded(n)
  /\ \A n \in Rasters : \A m \in Rasters : m < n => Below(m) <= out[n].from
  /\ \A n \in Rasters : out[n].from = 0 \/ \E m \in Rasters : m < n /\ Below(m) = out[n].from
  /\ pos = 0 \/ \E n \in Rasters : Below(n) = pos /\ \A m \in Rasters : m <= n

\* No control left to send is above pos.
Wired ==
  /\ Strip
  /\ pos <= height
  /\ stage = "encoding" =>
       height > 0 /\ \A n \in DOMAIN controls : i <= n => pos <= controls[n].y
  /\ stage = "done" /\ mode = "print" => pos = height /\ height > 0

\* What the first n of s, blocks or controls, ask for where they stand.
Asks(s, n) == FlattenSeq([k \in 1..n |-> Wanted(s[k].el, s[k].y)])

EndsInCut == blocks # <<>> /\ Last(blocks).el.type = "cut"

\* Each stage hands on what the document asks for, and whether it ends in a cut:
\* Paint to the controls, the encoder to the wire.
Handed ==
  /\ stage = "painting" =>
       /\ Asks(controls, Len(controls)) = Asks(blocks, i - 1)
       /\ EndsWithExplicitCut(controls) <=> i > Len(blocks) /\ EndsInCut
  /\ stage = "encoding" =>
       /\ Asks(controls, Len(controls)) = Asks(blocks, Len(blocks))
       /\ EndsWithExplicitCut(controls) <=> EndsInCut
       /\ Sent = Asks(controls, i - 1)
       /\ RowsOf(out, Len(out)) = pos
  /\ stage = "done" /\ mode = "print" => Sent = Asks(blocks, Len(blocks)) \o Closing

Inv == Grounded /\ Piled /\ Measured /\ Inked /\ Controlled /\ Wired /\ Handed

\* What a block takes depends on the page only.
LEMMA ExtentKept == ASSUME PageWidth' = PageWidth PROVE \A b : Extent(b)' = Extent(b)
BY DEF Extent

-----------------------------------------------------------------------------
(***************************************************************************)
(* The steps that give up, told apart from those that go on.               *)
(***************************************************************************)

Measures == MeasureBlock /\ stage' = stage
Encodes == BeginEncode /\ stage' = "encoding"
Draws == EncodePNG /\ stage' = "done"
Controls == EncodeControl /\ stage' = "encoding"

\* A canvas without a row is due to blocks without one.
LEMMA EmptyCause ==
  ASSUME Inv, Painted, CanvasEmpty
  PROVE  Cause("permanent")
<1>1. CASE width = 0
  BY <1>1 DEF Cause
<1>2. CASE height = 0
  <2>1. ASSUME NEW b \in ToSet(blocks) PROVE Extent(b) = 0
    <3>1. PICK n \in DOMAIN blocks : b = blocks[n]
      BY DEF ToSet
    <3>2. IsBlock(b) /\ b.y + Extent(b) <= 0 /\ b.y \in Nat
      BY <1>2, <3>1 DEF Inv, Grounded, Shapes, Measured, Painted, IsBlock
    <3>3. Extent(b) \in Nat
      BY <3>2, BlockMeasured, PageTyped DEF Inv
    <3>. QED BY <3>2, <3>3
  <2>. QED BY <2>1 DEF Cause
<1>. QED BY <1>1, <1>2 DEF CanvasEmpty

\* Every step gives up for a cause or is one of those that go on.
LEMMA Moves ==
  ASSUME Inv, Next
  PROVE  \/ \E entry \in Entries : Configure(entry)
         \/ \E m \in Modes, r \in Requests : Submit(m, r)
         \/ Pile \/ GiveUp \/ EndBuild
         \/ Measures \/ EndMeasure \/ PaintBlock
         \/ Encodes \/ Draws \/ EncodeBand \/ Controls \/ EndEncode
         \/ Finish
<1>1. ASSUME MeasureBlock PROVE Measures \/ GiveUp
  <2>1. CASE BitmapFails(blocks[i])
    <3>1. i \in DOMAIN blocks
      BY <1>1 DEF MeasureBlock, Inv, Grounded, Stage, Shapes
    <3>2. PictureFails(blocks[i]) /\ blocks[i] \in ToSet(blocks)
      BY <2>1, <3>1 DEF BitmapFails, PictureFails, Panics, ToSet
    <3>3. Cause("permanent")
      BY <3>2 DEF Cause
    <3>. QED BY <1>1, <2>1, <3>3 DEF MeasureBlock, GiveUp
  <2>2. CASE ~BitmapFails(blocks[i])
    BY <1>1, <2>2 DEF MeasureBlock, Measures
  <2>. QED BY <2>1, <2>2
<1>2. ASSUME BeginEncode PROVE Encodes \/ GiveUp
  <2>1. Painted /\ mode = "print"
    BY <1>2 DEF BeginEncode
  <2>2. profile.defaultCut \in CutModes
    BY <2>1 DEF Inv, Grounded, Stage, IsProfile, Painted
  <2>3. CASE CanvasEmpty
    <3>1. Cause("permanent")
      BY <2>1, <2>3, EmptyCause
    <3>. QED BY <1>2, <2>3, <3>1 DEF BeginEncode, GiveUp, Painted
  <2>4. CASE ~CanvasEmpty
    BY <1>2, <2>2, <2>4 DEF BeginEncode, Encodes, Enter
  <2>. QED BY <2>3, <2>4
<1>3. ASSUME EncodePNG PROVE Draws \/ GiveUp
  <2>1. Painted
    BY <1>3 DEF EncodePNG
  <2>2. CASE CanvasEmpty
    <3>1. Cause("permanent")
      BY <2>1, <2>2, EmptyCause
    <3>. QED BY <1>3, <2>2, <3>1 DEF EncodePNG, GiveUp, Painted
  <2>3. CASE ~CanvasEmpty
    BY <1>3, <2>3 DEF EncodePNG, Draws
  <2>. QED BY <2>2, <2>3
<1>4. ASSUME EncodeControl PROVE Controls
  <2>1. i \in DOMAIN controls /\ stage = "encoding"
    BY <1>4 DEF EncodeControl, Inv, Grounded, Stage, Shapes
  <2>2. profile.defaultCut \in CutModes
    BY <2>1 DEF Inv, Grounded, Stage, IsProfile
  <2>3. ~ControlFails(controls[i].el, profile)
    BY <2>1, <2>2 DEF Inv, Controlled, ControlFails, CutMode, CutModes
  <2>. QED BY <1>4, <2>1, <2>3 DEF EncodeControl, Controls
<1>. QED BY <1>1, <1>2, <1>3, <1>4, Builds DEF Next, Paint, Encode, Inv

-----------------------------------------------------------------------------
(***************************************************************************)
(* The parts of the invariant, one after the other.                        *)
(***************************************************************************)

\* A band has rows, no more than the printer takes, and stops at the control.
LEMMA BandFacts ==
  ASSUME Inv, EncodeBand
  PROVE  \E rows \in Nat \ {0} :
           /\ rows <= BandHeight(height, profile.max)
           /\ pos + rows <= BandsEnd /\ BandsEnd <= height
           /\ i \in DOMAIN controls => BandsEnd = controls[i].y
           /\ out' = Append(out, RasterCommand(width, pos, rows))
           /\ pos' = pos + rows
<1>1. /\ stage = "encoding" /\ pos < BandsEnd
      /\ pos \in Nat /\ height \in Nat /\ height > 0 /\ profile.max \in Nat
      /\ i \in 1..(Len(controls) + 1) /\ Len(controls) \in Nat /\ DOMAIN controls = 1..Len(controls)
  BY DEF EncodeBand, Inv, Grounded, TypeOK, Shapes, Stage, Wired, IsProfile
<1>2. /\ BandsEnd \in Nat /\ BandsEnd <= height
      /\ i \in DOMAIN controls => BandsEnd = controls[i].y
  <2>1. (i <= Len(controls)) = (i \in DOMAIN controls)
    BY <1>1
  <2>2. \A n \in DOMAIN controls : controls[n].y \in Nat /\ controls[n].y <= height
    BY DEF Inv, Controlled
  <2>. QED BY <1>1, <2>1, <2>2 DEF BandsEnd
<1>3. BandHeight(height, profile.max) \in Nat \ {0}
  BY <1>1 DEF BandHeight
<1>4. PICK rows : rows = Least(BandHeight(height, profile.max), BandsEnd - pos)
  OBVIOUS
<1>5. rows \in Nat \ {0} /\ rows <= BandHeight(height, profile.max) /\ pos + rows <= BandsEnd
  BY <1>1, <1>2, <1>3, <1>4 DEF Least
<1>6. out' = Append(out, RasterCommand(width, pos, rows)) /\ pos' = pos + rows
  BY <1>4 DEF EncodeBand
<1>. QED BY <1>2, <1>5, <1>6

\* What a control or the closing cut puts on the wire is no raster.
LEMMA ControlsWired ==
  /\ \A el, p : /\ ControlCommands(el, p) \in Seq(ToSet(ControlCommands(el, p)))
                /\ \A n \in DOMAIN ControlCommands(el, p) : ControlCommands(el, p)[n].cmd # "raster"
  /\ \A c, p : /\ AutoCut(c, p) \in Seq(ToSet(AutoCut(c, p)))
               /\ \A n \in DOMAIN AutoCut(c, p) : AutoCut(c, p)[n].cmd # "raster"
<1>1. ASSUME NEW x, x.cmd # "raster"
      PROVE  <<x>> \in Seq(ToSet(<<x>>)) /\ \A n \in DOMAIN <<x>> : <<x>>[n].cmd # "raster"
  <2>1. \A n \in DOMAIN <<x>> : <<x>>[n] = x
    OBVIOUS
  <2>. QED BY <1>1, <2>1, Lone
<1>2. ASSUME NEW x, NEW z, x.cmd # "raster", z.cmd # "raster"
      PROVE  <<x, z>> \in Seq(ToSet(<<x, z>>)) /\ \A n \in DOMAIN <<x, z>> : <<x, z>>[n].cmd # "raster"
  <2>1. x \in ToSet(<<x, z>>) /\ z \in ToSet(<<x, z>>)
    BY DEF ToSet
  <2>2. \A n \in DOMAIN <<x, z>> : <<x, z>>[n] = x \/ <<x, z>>[n] = z
    OBVIOUS
  <2>. QED BY <1>2, <2>1, <2>2
<1>3. <<>> \in Seq(ToSet(<<>>)) /\ DOMAIN <<>> = {}
  BY None
<1>4. /\ \A n : FeedCommand(n).cmd # "raster"
      /\ \A m : CutCommand(m).cmd # "raster"
  BY DEF FeedCommand, CutCommand
<1>5. ASSUME NEW el, NEW p
      PROVE  /\ ControlCommands(el, p) \in Seq(ToSet(ControlCommands(el, p)))
             /\ \A n \in DOMAIN ControlCommands(el, p) : ControlCommands(el, p)[n].cmd # "raster"
  BY <1>1, <1>3, <1>4 DEF ControlCommands
<1>6. ASSUME NEW c, NEW p
      PROVE  /\ AutoCut(c, p) \in Seq(ToSet(AutoCut(c, p)))
             /\ \A n \in DOMAIN AutoCut(c, p) : AutoCut(c, p)[n].cmd # "raster"
  BY <1>2, <1>3, <1>4 DEF AutoCut
<1>. QED BY <1>5, <1>6

\* A profile the daemon starts with.
LEMMA ProfileTyped ==
  ASSUME NEW entry \in Entries, EntryAccepted(entry)
  PROVE  IsProfile(ProfileOf(entry))
<1>1. ProfileValid(ProfileOf(entry)) /\ EntryDecodes(entry)
  BY DEF EntryAccepted
<1>2. ProfileOf(entry).width > 0 /\ ProfileOf(entry).max >= 0 /\ ProfileOf(entry).defaultCut \in CutModes
  BY <1>1 DEF ProfileValid, CutModes
<1>3. ProfileOf(entry).width \in Int /\ ProfileOf(entry).max \in Int
  <2>1. CASE entry.model # ""
    <3>1. entry.model = "epson-tm-m30ii"
      BY <1>1, <2>1 DEF EntryDecodes, ModelProfiles
    <3>2. PICK p : p = ModelProfiles["epson-tm-m30ii"]
      OBVIOUS
    <3>3. p.width = 576 /\ p.max = 0
      BY <3>2 DEF ModelProfiles
    <3>4. ProfileOf(entry) = p
      BY <2>1, <3>1, <3>2 DEF ProfileOf
    <3>. QED BY <3>3, <3>4
  <2>2. CASE entry.model = ""
    <3>1. entry.profile # <<>>
      BY <1>1, <2>2 DEF EntryDecodes
    <3>2. PICK raw : raw = entry.profile[1]
      OBVIOUS
    <3>3. raw.tenths \in Int /\ raw.dpi \in Int /\ raw.max \in Int
      BY <3>1, <3>2, EntriesAssumption
    <3>4. PICK dots \in Int : dots = 2 * raw.tenths * raw.dpi + 254
      BY <3>3
    <3>5. WidthDotsFromMM(raw.tenths, raw.dpi) \in Int
      BY <3>4 DEF WidthDotsFromMM
    <3>6. ProfileOf(entry) = GivenProfile(raw)
      BY <2>2, <3>2 DEF ProfileOf
    <3>. QED BY <3>3, <3>5, <3>6 DEF GivenProfile
  <2>. QED BY <2>1, <2>2
<1>. QED BY <1>2, <1>3 DEF IsProfile

\* Grounded holds at the start.
LEMMA GroundedInit == Init => Grounded
<1>1. ASSUME Init PROVE Shapes
  BY <1>1, None DEF Init, Shapes
<1>2. ASSUME Init PROVE TypeOK
  BY <1>2, None DEF Init, TypeOK, Stages, Modes, Failures
<1>. QED BY <1>1, <1>2 DEF Init, Grounded, Stage, Empty

\* What holds of both parts holds of blocks \o new.
LEMMA PileShapes ==
  ASSUME Inv, NEW new, NEW extent, Stackable(new, extent), Stack(new, extent)
  PROVE  /\ blocks' \in Seq(ToSet(blocks')) /\ Len(blocks) \in Nat /\ Len(new) \in Nat
         /\ DOMAIN blocks = 1..Len(blocks) /\ DOMAIN new = 1..Len(new)
         /\ DOMAIN blocks' = 1..(Len(blocks) + Len(new)) /\ Len(blocks') = Len(blocks) + Len(new)
         /\ \A n \in 1..Len(blocks) : blocks'[n] = blocks[n]
         /\ \A n \in 1..Len(new) : blocks'[Len(blocks) + n] = new[n]
         /\ \A n \in DOMAIN blocks' : n \in DOMAIN blocks \/ n - Len(blocks) \in DOMAIN new
         /\ \A n \in DOMAIN blocks' : n \notin DOMAIN blocks => blocks'[n] = new[n - Len(blocks)]
<1>1. /\ blocks \in Seq(ToSet(blocks)) /\ new \in Seq(ToSet(new)) /\ blocks' = blocks \o new
  BY DEF Inv, Grounded, Shapes, Stackable, Stack
<1>2. /\ blocks' \in Seq(ToSet(blocks')) /\ Len(blocks) \in Nat /\ Len(new) \in Nat
      /\ DOMAIN blocks = 1..Len(blocks) /\ DOMAIN new = 1..Len(new)
      /\ DOMAIN blocks' = 1..(Len(blocks) + Len(new)) /\ Len(blocks') = Len(blocks) + Len(new)
      /\ \A n \in 1..Len(blocks) : blocks'[n] = blocks[n]
      /\ \A n \in 1..Len(new) : blocks'[Len(blocks) + n] = new[n]
  <2>1. PICK b : b = blocks
    OBVIOUS
  <2>2. b \in Seq(ToSet(b)) /\ blocks' = b \o new
    BY <1>1, <2>1
  <2>. QED BY <1>1, <2>1, <2>2, Joined
<1>3. PICK L, N : L = Len(blocks) /\ N = Len(new)
  OBVIOUS
<1>4. ASSUME NEW n \in DOMAIN blocks', n \notin DOMAIN blocks
      PROVE  n - Len(blocks) \in DOMAIN new /\ blocks'[n] = new[n - Len(blocks)]
  <2>1. n \in Nat /\ L + (n - L) = n /\ n - L \in 1..N
    BY <1>2, <1>3, <1>4
  <2>. QED BY <1>2, <1>3, <2>1
<1>. QED BY <1>2, <1>4

\* Each step keeps the types and the stages.
LEMMA GroundedSteps == ASSUME Inv, Next PROVE Grounded'
<1>. USE DEF requestVars, docVars, canvasVars, encoderVars
<1>. DEFINE OthersKept == UNCHANGED <<profile, mode, receipt>>
<1>1. Grounded /\ TypeOK /\ Shapes /\ Stage /\ Empty
  BY DEF Inv, Grounded
<1>2. ASSUME NEW entry \in Entries, Configure(entry) PROVE Grounded'
  <2>1. IsProfile(ProfileOf(entry))
    BY <1>2, ProfileTyped DEF Configure
  <2>2. TypeOK'
    BY <1>1, <1>2 DEF Configure, TypeOK, Stages
  <2>3. Shapes'
    BY <1>1, <1>2 DEF Configure, Shapes
  <2>4. Stage' /\ Empty'
    BY <1>1, <1>2, <2>1 DEF Configure, Stage, Empty
  <2>. QED BY <2>2, <2>3, <2>4 DEF Grounded
<1>3. ASSUME NEW m \in Modes, NEW r \in Requests, Submit(m, r) PROVE Grounded'
  <2>1. TypeOK'
    BY <1>1, <1>3 DEF Submit, Enter, TypeOK, Stages, Failures
  <2>2. Shapes'
    BY <1>1, <1>3 DEF Submit, Shapes
  <2>3. stage' = "building" => 1 \in 1..(Len(r.elements) + 1)
    <3>1. Len(r.elements) \in Nat
      BY RequestsAssumption
    <3>. QED BY <3>1
  <2>4. Stage'
    BY <1>1, <1>3, <2>3 DEF Submit, Enter, Stage
  <2>5. Empty'
    BY <1>1, <1>3 DEF Submit, Enter, Empty
  <2>. QED BY <2>1, <2>2, <2>4, <2>5 DEF Grounded
<1>4. ASSUME Pile PROVE Grounded'
  <2>1. PICK new, extent : Stackable(new, extent) /\ Stack(new, extent)
    BY <1>4 DEF Pile
  <2>2. stage = "building" /\ i <= Len(receipt.elements)
    BY <1>4 DEF Pile
  <2>3. /\ y' = y + extent /\ i' = i + 1 /\ extent \in Nat
        /\ UNCHANGED <<stage, profile, mode, receipt, width, height, ink, controls, pos, out, failure>>
    BY <2>1 DEF Stack, Stackable
  <2>4. \A n \in DOMAIN blocks' : IsBlock(blocks'[n])
    <3>1. \A n \in DOMAIN new : IsBlock(new[n])
      BY <2>1 DEF Stackable
    <3>. QED BY <1>1, <2>1, <3>1, PileShapes DEF Shapes
  <2>5. Shapes'
    BY <1>1, <2>1, <2>3, <2>4, PileShapes DEF Shapes
  <2>6. TypeOK'
    <3>1. \A b \in ToSet(blocks)' : b.y \in Nat /\ b.size \in Nat \ {0}
      BY <2>4 DEF ToSet, IsBlock
    <3>. QED BY <1>1, <2>3, <3>1 DEF TypeOK
  <2>7. i' \in 1..(Len(receipt.elements) + 1)
    <3>1. Len(receipt.elements) \in Nat /\ i \in 1..(Len(receipt.elements) + 1)
      BY <1>1, <2>2, RequestsAssumption DEF Stage
    <3>. QED BY <2>2, <2>3, <3>1
  <2>8. Stage'
    BY <1>1, <2>2, <2>3, <2>7 DEF Stage
  <2>9. Empty'
    BY <1>1, <2>2, <2>3 DEF Empty
  <2>. QED BY <2>5, <2>6, <2>8, <2>9 DEF Grounded
<1>5. ASSUME GiveUp PROVE Grounded'
  <2>1. PICK kind : Cause(kind) /\ Fail(kind)
    BY <1>5 DEF GiveUp
  <2>2. stage \notin {"off", "idle"} /\ kind \in {"not_found", "permanent"}
    BY <1>5, <2>1 DEF GiveUp, Cause
  <2>3. stage' = "failed" /\ failure' = kind
        /\ UNCHANGED <<profile, mode, receipt, i, y, blocks, width, height, ink, controls, pos, out>>
    BY <2>1 DEF Fail
  <2>4. TypeOK'
    BY <1>1, <2>2, <2>3 DEF TypeOK, Stages, Failures
  <2>5. Shapes' /\ Stage' /\ Empty'
    BY <1>1, <2>2, <2>3 DEF Shapes, Stage, Empty
  <2>. QED BY <2>4, <2>5 DEF Grounded
<1>6. ASSUME EndBuild \/ EndMeasure PROVE Grounded'
  <2>1. /\ stage' = (IF stage = "building" THEN "measuring" ELSE "painting") /\ i' = 1
        /\ stage \in {"building", "measuring"}
        /\ width' \in Nat
        /\ UNCHANGED <<profile, mode, receipt, y, blocks, height, ink, controls, pos, out, failure>>
    BY <1>1, <1>6, PageTyped DEF EndBuild, EndMeasure, Enter, TypeOK
  <2>2. TypeOK'
    BY <1>1, <2>1 DEF TypeOK, Stages
  <2>3. Shapes'
    BY <1>1, <2>1 DEF Shapes
  <2>4. Stage' /\ Empty'
    <3>1. 1 \in 1..(Len(blocks) + 1)
      BY <1>1 DEF Shapes
    <3>. QED BY <1>1, <2>1, <3>1 DEF Stage, Empty
  <2>. QED BY <2>2, <2>3, <2>4 DEF Grounded
<1>7. ASSUME Measures PROVE Grounded'
  <2>1. /\ stage = "measuring" /\ i <= Len(blocks)
        /\ UNCHANGED <<stage, profile, mode, receipt, y, blocks, ink, controls, pos, out, failure>>
        /\ height' = Greatest(height, blocks[i].y + Extent(blocks[i]))
        /\ width' = (IF PageWidth <= 0 THEN Greatest(width, ContentWidth(blocks[i])) ELSE width)
        /\ i' = i + 1
    BY <1>7 DEF Measures, MeasureBlock, Fail
  <2>2. i \in DOMAIN blocks /\ i + 1 \in 1..(Len(blocks) + 1) /\ i + 1 \in Nat
    BY <1>1, <2>1 DEF Stage, Shapes
  <2>3. Extent(blocks[i]) \in Nat /\ ContentWidth(blocks[i]) \in Nat /\ blocks[i].y \in Nat
    BY <1>1, <2>2, BlockMeasured, PageTyped DEF Shapes, IsBlock
  <2>4. height' \in Nat /\ width' \in Nat
    BY <1>1, <2>1, <2>3 DEF TypeOK, Greatest
  <2>5. TypeOK'
    BY <1>1, <2>1, <2>2, <2>4 DEF TypeOK
  <2>6. Shapes' /\ Stage' /\ Empty'
    BY <1>1, <2>1, <2>2 DEF Shapes, Stage, Empty
  <2>. QED BY <2>5, <2>6 DEF Grounded
<1>8. ASSUME PaintBlock PROVE Grounded'
  <2>1. /\ stage = "painting" /\ i <= Len(blocks) /\ i' = i + 1
        /\ UNCHANGED <<stage, profile, mode, receipt, y, blocks, width, height, pos, out, failure>>
        /\ controls' = controls \/ \E x : controls' = Append(controls, x)
    BY <1>8 DEF PaintBlock
  <2>2. i + 1 \in 1..(Len(blocks) + 1) /\ i + 1 \in Nat
    BY <1>1, <2>1 DEF Stage, Shapes
  <2>3. controls' \in Seq(ToSet(controls'))
    <3>1. ASSUME NEW x, controls' = Append(controls, x) PROVE controls' \in Seq(ToSet(controls'))
      BY <1>1, <3>1, Appended DEF Shapes
    <3>. QED BY <1>1, <2>1, <3>1 DEF Shapes
  <2>4. TypeOK'
    BY <1>1, <2>1, <2>2 DEF TypeOK
  <2>5. Shapes' /\ Stage' /\ Empty'
    BY <1>1, <2>1, <2>2, <2>3 DEF Shapes, Stage, Empty
  <2>. QED BY <2>4, <2>5 DEF Grounded
<1>9. ASSUME Encodes PROVE Grounded'
  <2>1. /\ stage = "painting" /\ stage' = "encoding" /\ i' = 1 /\ out' = <<InitSequence>>
        /\ UNCHANGED <<profile, mode, receipt, y, blocks, width, height, ink, controls, pos, failure>>
    BY <1>9 DEF Encodes, BeginEncode, Painted, Fail, Enter
  <2>2. 1 \in 1..(Len(controls) + 1)
    BY <1>1 DEF Shapes
  <2>3. out' \in Seq(ToSet(out'))
    BY <2>1, Lone
  <2>4. TypeOK'
    BY <1>1, <2>1 DEF TypeOK, Stages
  <2>5. Shapes' /\ Stage' /\ Empty'
    BY <1>1, <2>1, <2>2, <2>3 DEF Shapes, Stage, Empty
  <2>. QED BY <2>4, <2>5 DEF Grounded
<1>10. ASSUME Draws PROVE Grounded'
  <2>1. /\ stage = "painting" /\ stage' = "done"
        /\ UNCHANGED <<i, profile, mode, receipt, y, blocks, width, height, ink, controls, pos, out, failure>>
    BY <1>10 DEF Draws, EncodePNG, Painted, Fail
  <2>2. TypeOK'
    BY <1>1, <2>1 DEF TypeOK, Stages
  <2>3. Shapes' /\ Stage' /\ Empty'
    BY <1>1, <2>1 DEF Shapes, Stage, Empty
  <2>. QED BY <2>2, <2>3 DEF Grounded
<1>11. ASSUME EncodeBand PROVE Grounded'
  <2>1. PICK rows \in Nat \ {0} : /\ out' = Append(out, RasterCommand(width, pos, rows))
                                  /\ pos' = pos + rows
    BY <1>11, BandFacts
  <2>2. /\ stage = "encoding"
        /\ UNCHANGED <<stage, i, profile, mode, receipt, y, blocks, width, height, ink, controls, failure>>
    BY <1>11 DEF EncodeBand
  <2>3. out' \in Seq(ToSet(out'))
    BY <1>1, <2>1, Appended DEF Shapes
  <2>4. TypeOK'
    BY <1>1, <2>1, <2>2 DEF TypeOK
  <2>5. Shapes' /\ Stage' /\ Empty'
    BY <1>1, <2>2, <2>3 DEF Shapes, Stage, Empty
  <2>. QED BY <2>4, <2>5 DEF Grounded
<1>12. ASSUME Controls PROVE Grounded'
  <2>1. /\ stage = "encoding" /\ i <= Len(controls)
        /\ out' = out \o ControlCommands(controls[i].el, profile)
        /\ pos' = controls[i].y /\ i' = i + 1
        /\ UNCHANGED <<stage, profile, mode, receipt, y, blocks, width, height, ink, controls, failure>>
    BY <1>12 DEF Controls, EncodeControl, Fail
  <2>2. i \in DOMAIN controls /\ i + 1 \in 1..(Len(controls) + 1) /\ i + 1 \in Nat
    BY <1>1, <2>1 DEF Stage, Shapes
  <2>3. pos' \in Nat
    BY <2>1, <2>2 DEF Inv, Controlled
  <2>4. out' \in Seq(ToSet(out'))
    <3>1. PICK t : t = ControlCommands(controls[i].el, profile)
      OBVIOUS
    <3>2. t \in Seq(ToSet(t)) /\ out' = out \o t
      BY <2>1, <3>1, ControlsWired
    <3>. QED BY <1>1, <3>2, Joined DEF Shapes
  <2>5. TypeOK'
    BY <1>1, <2>1, <2>2, <2>3 DEF TypeOK
  <2>6. Shapes' /\ Stage' /\ Empty'
    BY <1>1, <2>1, <2>2, <2>4 DEF Shapes, Stage, Empty
  <2>. QED BY <2>5, <2>6 DEF Grounded
<1>13. ASSUME EndEncode PROVE Grounded'
  <2>1. /\ stage = "encoding" /\ stage' = "done"
        /\ out' = out \o AutoCut(controls, profile)
        /\ UNCHANGED <<i, pos, profile, mode, receipt, y, blocks, width, height, ink, controls, failure>>
    BY <1>13 DEF EndEncode
  <2>2. out' \in Seq(ToSet(out'))
    <3>1. PICK t : t = AutoCut(controls, profile)
      OBVIOUS
    <3>2. t \in Seq(ToSet(t)) /\ out' = out \o t
      BY <2>1, <3>1, ControlsWired
    <3>. QED BY <1>1, <3>2, Joined DEF Shapes
  <2>3. TypeOK'
    BY <1>1, <2>1 DEF TypeOK, Stages
  <2>4. Shapes' /\ Stage' /\ Empty'
    BY <1>1, <2>1, <2>2 DEF Shapes, Stage, Empty
  <2>. QED BY <2>3, <2>4 DEF Grounded
<1>14. ASSUME Finish PROVE Grounded'
  <2>1. TypeOK'
    BY <1>14, None DEF Finish, TypeOK, Stages, Modes, Failures
  <2>2. Shapes'
    BY <1>14, None DEF Finish, Shapes
  <2>3. Stage' /\ Empty'
    BY <1>1, <1>14 DEF Finish, Stage, Empty
  <2>. QED BY <2>1, <2>2, <2>3 DEF Grounded
<1>. QED
  BY <1>2, <1>3, <1>4, <1>5, <1>6, <1>7, <1>8, <1>9, <1>10, <1>11, <1>12, <1>13, <1>14, Moves

\* The steps that do not build.
LEMMA DocumentKept ==
  ASSUME Inv, Next
  PROVE  \/ Pile
         \/ blocks' = <<>> /\ y' = 0
         \/ /\ UNCHANGED <<blocks, y>> /\ PageWidth' = PageWidth
<1>. USE DEF requestVars, docVars, canvasVars, encoderVars
<1>1. ASSUME NEW entry \in Entries, Configure(entry) PROVE blocks' = <<>> /\ y' = 0
  BY <1>1 DEF Configure, Inv, Grounded, Empty
<1>2. ASSUME NEW m \in Modes, NEW r \in Requests, Submit(m, r) PROVE blocks' = <<>> /\ y' = 0
  BY <1>2 DEF Submit, Inv, Grounded, Empty
<1>3. ASSUME Finish PROVE blocks' = <<>> /\ y' = 0
  BY <1>3 DEF Finish
<1>4. ASSUME GiveUp \/ EndBuild \/ Measures \/ EndMeasure \/ PaintBlock
             \/ Encodes \/ Draws \/ EncodeBand \/ Controls \/ EndEncode
      PROVE  UNCHANGED <<blocks, y, profile, mode>>
  BY <1>4 DEF GiveUp, Fail, EndBuild, Measures, MeasureBlock, EndMeasure, PaintBlock, Encodes,
              BeginEncode, Draws, EncodePNG, EncodeBand, Controls, EncodeControl, EndEncode
<1>5. UNCHANGED <<profile, mode>> => PageWidth' = PageWidth
  BY DEF PageWidth, Target
<1>. QED BY <1>1, <1>2, <1>3, <1>4, <1>5, Moves

\* The document stays without gaps.
LEMMA PiledSteps == ASSUME Inv, Next PROVE Piled'
<1>. USE DEF Piled
<1>1. Piled /\ Shapes
  BY DEF Inv, Grounded
<1>2. CASE blocks' = <<>> /\ y' = 0
  <2>1. DOMAIN blocks' = {}
    BY <1>2, None
  <2>. QED BY <1>2, <2>1 DEF BlocksMeet
<1>3. CASE UNCHANGED <<blocks, y>> /\ PageWidth' = PageWidth
  <2>1. BlocksMeet'
    BY <1>1, <1>3, ExtentKept DEF BlocksMeet, NextY
  <2>. QED BY <1>1, <1>3, <2>1
<1>4. CASE Pile
  <2>1. PICK new, extent : Stackable(new, extent) /\ Stack(new, extent)
    BY <1>4 DEF Pile
  <2>2. y' = y + extent /\ extent \in Nat /\ y \in Nat /\ PageWidth' = PageWidth
    BY <2>1 DEF Stack, Stackable, requestVars, PageWidth, Target, Inv, Grounded, TypeOK
  <2>3. PICK L \in Nat, N \in Nat : L = Len(blocks) /\ N = Len(new)
    BY <2>1, PileShapes
  <2>4. /\ DOMAIN blocks = 1..L /\ DOMAIN new = 1..N /\ DOMAIN blocks' = 1..(L + N)
        /\ Len(blocks') = L + N
        /\ \A n \in 1..L : blocks'[n] = blocks[n]
        /\ \A n \in 1..N : blocks'[L + n] = new[n]
    BY <2>1, <2>3, PileShapes
  <2>5. /\ \A n \in 1..L : blocks[n].y \in Nat /\ blocks[n].y <= y
        /\ \A n \in 1..N : new[n].y \in Nat /\ y <= new[n].y /\ new[n].y <= y + extent
        /\ \A j, k \in 1..N : j <= k => new[j].y <= new[k].y
        /\ \A j, k \in 1..L : j <= k => blocks[j].y <= blocks[k].y
    BY <1>1, <2>1, <2>4 DEF Shapes, IsBlock, Stackable
  <2>6. \A n \in 1..(L + N) : n \in 1..L \/ (n - L \in 1..N /\ blocks'[n] = new[n - L])
    <3>1. ASSUME NEW n \in 1..(L + N), n \notin 1..L PROVE n - L \in 1..N /\ blocks'[n] = new[n - L]
      <4>1. PICK k \in 1..N : k = n - L /\ L + k = n
        BY <3>1
      <4>. QED BY <2>4, <4>1
    <3>. QED BY <3>1
  <2>7. \A m, n \in DOMAIN blocks' : m <= n => blocks'[m].y <= blocks'[n].y
    <3>1. ASSUME NEW m \in 1..(L + N), NEW n \in 1..(L + N), m <= n PROVE blocks'[m].y <= blocks'[n].y
      <4>1. CASE m \in 1..L /\ n \in 1..L
        BY <2>4, <2>5, <3>1, <4>1
      <4>2. CASE m \in 1..L /\ n \notin 1..L
        BY <2>2, <2>4, <2>5, <2>6, <3>1, <4>2
      <4>3. CASE m \notin 1..L
        <5>1. n \notin 1..L
          BY <3>1, <4>3
        <5>2. m - L \in 1..N /\ n - L \in 1..N /\ m - L <= n - L
          BY <2>6, <3>1, <4>3, <5>1
        <5>. QED BY <2>5, <2>6, <4>3, <5>1, <5>2
      <4>. QED BY <4>1, <4>2, <4>3
    <3>. QED BY <2>4, <3>1
  <2>8. \A n \in DOMAIN blocks' : blocks'[n].y <= y'
    BY <2>2, <2>4, <2>5, <2>6
  <2>9. /\ (new = <<>>) = (N = 0) /\ (blocks = <<>>) = (L = 0) /\ (blocks' = <<>>) = (L + N = 0)
        /\ IF new = <<>> THEN extent = 0 ELSE new[1].y = y
    <3>1. /\ new \in Seq(ToSet(new)) /\ blocks \in Seq(ToSet(blocks)) /\ blocks' \in Seq(ToSet(blocks'))
      BY <1>1, <2>1, PileShapes DEF Shapes, Stackable
    <3>2. IF new = <<>> THEN extent = 0 ELSE new[1].y = y
      BY <2>1 DEF Stackable
    <3>. QED BY <2>3, <2>4, <3>1, <3>2, EmptySeq
  <2>10. blocks' = <<>> => y' = 0
    BY <1>1, <2>2, <2>9
  <2>11. blocks' # <<>> => blocks'[1].y = 0
    <3>1. CASE L > 0
      BY <1>1, <2>4, <2>9, <3>1 DEF BlocksMeet
    <3>2. CASE L = 0
      BY <1>1, <2>4, <2>9, <3>2
    <3>. QED BY <3>1, <3>2
  <2>12. ASSUME NEW n \in 1..(L + N), FrameFillsHeader(blocks'[n].el)
         PROVE  (IF n = L + N THEN y' ELSE blocks'[n + 1].y) = blocks'[n].y + Extent(blocks'[n])
    <3>1. CASE n < L
      <4>1. n \in 1..L /\ n + 1 \in 1..L /\ n # L + N /\ n # L
        BY <3>1
      <4>2. blocks[n + 1].y = blocks[n].y + Extent(blocks[n])
        BY <1>1, <2>3, <2>4, <2>12, <4>1 DEF BlocksMeet, NextY
      <4>. QED BY <2>4, <4>1, <4>2
    <3>2. CASE n = L
      <4>1. n \in 1..L /\ y = blocks[n].y + Extent(blocks[n]) /\ blocks'[n] = blocks[n]
        BY <1>1, <2>3, <2>4, <2>12, <3>2 DEF BlocksMeet, NextY
      <4>2. CASE N = 0
        BY <2>2, <2>9, <3>2, <4>1, <4>2
      <4>3. CASE N # 0
        <5>1. 1 \in 1..N /\ n # L + N /\ blocks'[n + 1] = new[1]
          BY <2>4, <3>2, <4>3
        <5>. QED BY <2>9, <4>1, <4>3, <5>1
      <4>. QED BY <4>2, <4>3
    <3>3. CASE n > L
      <4>1. PICK k \in 1..N : k = n - L /\ n = L + k
        BY <3>3
      <4>2. blocks'[n] = new[k]
        BY <2>4, <4>1
      <4>3. (IF k = N THEN y + extent ELSE new[k + 1].y) = new[k].y + Extent(new[k])
        BY <2>1, <2>3, <2>4, <2>12, <4>2 DEF Stackable
      <4>4. k # N => k + 1 \in 1..N /\ blocks'[n + 1] = new[k + 1]
        <5>1. k # N => k + 1 \in 1..N /\ L + (k + 1) = n + 1
          BY <4>1
        <5>. QED BY <2>4, <5>1
      <4>5. (n = L + N) = (k = N)
        BY <4>1
      <4>. QED BY <2>2, <4>2, <4>3, <4>4, <4>5
    <3>. QED BY <3>1, <3>2, <3>3
  <2>13. BlocksMeet'
    BY <2>2, <2>4, <2>11, <2>12, ExtentKept DEF BlocksMeet, NextY
  <2>. QED BY <2>7, <2>8, <2>10, <2>13
<1>. QED BY <1>2, <1>3, <1>4, DocumentKept

\* The canvas is never too short for what has been measured.
LEMMA MeasuredSteps == ASSUME Inv, Next PROVE Measured'
<1>. USE DEF requestVars, docVars, canvasVars, encoderVars
<1>1. Grounded /\ Shapes /\ Stage /\ Measured /\ TypeOK
  BY DEF Inv, Grounded
<1>2. ASSUME NEW n \in DOMAIN blocks
      PROVE  /\ blocks[n].y \in Nat /\ Extent(blocks[n]) \in Nat /\ n \in Nat
             /\ n \in 1..Len(blocks) /\ Len(blocks) \in Nat
  <2>1. IsBlock(blocks[n]) /\ n \in 1..Len(blocks) /\ Len(blocks) \in Nat
    BY <1>1, <1>2 DEF Shapes
  <2>2. Extent(blocks[n]) \in Nat
    BY <1>1, <2>1, BlockMeasured, PageTyped
  <2>3. blocks[n].y \in Nat
    BY <2>1 DEF IsBlock
  <2>4. n \in Nat
    BY <2>1
  <2>. QED BY <2>1, <2>2, <2>3, <2>4
<1>3. UNCHANGED <<profile, mode>> => PageWidth' = PageWidth
  BY DEF PageWidth, Target
<1>4. CASE EndBuild
  <2>1. stage' = "measuring" /\ i' = 1 /\ blocks' = blocks
    BY <1>4 DEF EndBuild, Enter
  <2>. QED BY <1>2, <2>1 DEF Measured
<1>5. CASE Measures
  <2>1. /\ stage = "measuring" /\ i <= Len(blocks)
        /\ UNCHANGED <<stage, profile, mode, blocks>>
        /\ height' = Greatest(height, blocks[i].y + Extent(blocks[i]))
        /\ i' = i + 1
    BY <1>5 DEF Measures, MeasureBlock, Fail
  <2>2. i \in DOMAIN blocks /\ i \in Nat
    BY <1>1, <2>1 DEF Stage, Shapes
  <2>3. height <= height' /\ blocks[i].y + Extent(blocks[i]) <= height' /\ height \in Nat /\ height' \in Nat
    BY <1>1, <1>2, <2>1, <2>2 DEF TypeOK, Greatest
  <2>4. ASSUME NEW n \in DOMAIN blocks, n < i + 1 PROVE blocks[n].y + Extent(blocks[n]) <= height'
    <3>1. CASE n = i
      BY <2>3, <3>1
    <3>2. CASE n < i
      <4>1. blocks[n].y + Extent(blocks[n]) <= height
        BY <1>1, <2>1, <3>2 DEF Measured
      <4>2. PICK s \in Nat : s = blocks[n].y + Extent(blocks[n])
        BY <1>2
      <4>. QED BY <2>3, <4>1, <4>2
    <3>. QED BY <1>2, <2>2, <2>4, <3>1, <3>2
  <2>. QED BY <1>3, <2>1, <2>4, ExtentKept DEF Measured
<1>6. CASE EndMeasure
  <2>1. /\ stage = "measuring" /\ stage' = "painting" /\ i > Len(blocks)
        /\ UNCHANGED <<profile, mode, blocks, height>>
    BY <1>6 DEF EndMeasure, Enter
  <2>2. \A n \in DOMAIN blocks : n < i
    BY <1>1, <1>2, <2>1 DEF TypeOK
  <2>. QED BY <1>1, <1>3, <2>1, <2>2, ExtentKept DEF Measured
<1>7. CASE PaintBlock \/ Encodes \/ EncodeBand \/ Controls
  <2>1. /\ stage \in {"painting", "encoding"} /\ stage' \in {"painting", "encoding"}
        /\ UNCHANGED <<profile, mode, blocks, height>>
    BY <1>7 DEF PaintBlock, Encodes, BeginEncode, Painted, Fail, EncodeBand, Controls, EncodeControl
  <2>. QED BY <1>1, <1>3, <2>1, ExtentKept DEF Measured
<1>8. CASE \/ \E entry \in Entries : Configure(entry)
           \/ \E m \in Modes, r \in Requests : Submit(m, r)
           \/ Pile \/ GiveUp \/ Draws \/ EndEncode \/ Finish
  <2>1. stage' \notin {"measuring", "painting", "encoding"}
    BY <1>8 DEF Configure, Submit, Enter, Pile, Stack, GiveUp, Fail, Draws, EndEncode, Finish
  <2>. QED BY <2>1 DEF Measured
<1>. QED BY <1>4, <1>5, <1>6, <1>7, <1>8, Moves

\* What PaintBlock paints of a block stays on the block's rows.
LEMMA InkRows ==
  ASSUME NEW b, IsBlock(b), ~IsControl(b), PageWidth \in Nat, NEW a \in Ink(b)
  PROVE  /\ a.block = i /\ a.y0 \in Nat /\ a.y1 \in Nat
         /\ b.y <= a.y0 /\ a.y1 <= b.y + Extent(b)
<1>1. b.y \in Nat /\ Extent(b) \in Nat
  BY BlockMeasured DEF IsBlock
<1>2. ASSUME NEW x0, NEW x1, NEW y0 \in Nat, NEW rows \in Nat,
             b.y <= y0, y0 + rows <= b.y + Extent(b), a = Area(x0, x1, y0, rows)
      PROVE  /\ a.block = i /\ a.y0 \in Nat /\ a.y1 \in Nat
             /\ b.y <= a.y0 /\ a.y1 <= b.y + Extent(b)
  BY <1>2 DEF Area
<1>3. CASE IsLine(b)
  <2>1. Extent(b) = LineHeight * b.size /\ b.size \in Nat \ {0}
    BY <1>3 DEF Extent, IsLine, IsRaster, IsControl, IsBlock
  <2>2. PICK rows \in Nat : rows = LineHeight * b.size
    BY <1>1, <2>1
  <2>3. rows >= 2 * b.size
    <3>1. PICK h \in Nat, s \in Nat : h = LineHeight /\ s = b.size /\ h >= 2
      BY <2>1, FontAssumption
    <3>2. 2 * s <= h * s
      BY <3>1, TimesMono
    <3>. QED BY <2>2, <3>1, <3>2
  <2>4. a \in LineInk(b)
    BY <1>3 DEF Ink, IsLine, IsRaster
  <2>5. \/ \E x1 : a = Area(0, x1, b.y, rows)
        \/ \E x1 : a = Area(0, x1, b.y + rows - b.size, b.size)
        \/ \E x1 : a = Area(0, x1, b.y + rows \div 2, b.size)
    BY <2>2, <2>4 DEF LineInk
  <2>6. /\ b.y + rows - b.size \in Nat /\ b.y <= b.y + rows - b.size
        /\ b.y + rows \div 2 \in Nat /\ b.y <= b.y + rows \div 2
        /\ b.y + rows - b.size + b.size <= b.y + rows
        /\ b.y + rows \div 2 + b.size <= b.y + rows
    BY <1>1, <2>1, <2>2, <2>3
  <2>. QED BY <1>1, <1>2, <2>1, <2>2, <2>5, <2>6
<1>4. CASE IsRaster(b)
  <2>1. a = Area(0, ContentWidth(b), b.y, Extent(b))
    BY <1>4 DEF Ink, IsLine, IsRaster
  <2>. QED BY <1>1, <1>2, <2>1
<1>5. CASE b.el.type = "divider"
  <2>1. Extent(b) = DividerThickness * ResolveSize(b.el.size)
    BY <1>5 DEF Extent, IsLine, IsRaster, IsControl
  <2>2. a \in DividerInk(b)
    BY <1>5 DEF Ink, IsLine, IsRaster
  <2>3. \E x0, x1 : a = Area(x0, x1, b.y, Extent(b))
    BY <2>1, <2>2 DEF DividerInk
  <2>. QED BY <1>1, <1>2, <2>3
<1>6. CASE b.el.type = "spacer"
  BY <1>6 DEF Ink, IsLine, IsRaster
<1>. QED BY <1>3, <1>4, <1>5, <1>6 DEF IsBlock, IsControl

\* Dots stay on their block's rows, on the canvas.
LEMMA InkedSteps == ASSUME Inv, Next PROVE Inked'
<1>. USE DEF requestVars, docVars, canvasVars, encoderVars
<1>1. Grounded /\ Shapes /\ Stage /\ Empty /\ Inked /\ Measured
  BY DEF Inv, Grounded
<1>2. UNCHANGED <<profile, mode>> => PageWidth' = PageWidth
  BY DEF PageWidth, Target
<1>3. CASE PaintBlock
  <2>1. /\ stage = "painting" /\ i <= Len(blocks)
        /\ UNCHANGED <<profile, mode, blocks, height>>
        /\ \/ ink' = ink
           \/ ink' = ink \cup Ink(blocks[i]) /\ ~IsControl(blocks[i])
    BY <1>3 DEF PaintBlock
  <2>2. i \in DOMAIN blocks
    BY <1>1, <2>1 DEF Stage, Shapes
  <2>3. IsBlock(blocks[i]) /\ PageWidth \in Nat
    BY <1>1, <2>2, PageTyped DEF Shapes
  <2>4. blocks[i].y + Extent(blocks[i]) <= height /\ height \in Nat
        /\ blocks[i].y + Extent(blocks[i]) \in Nat
    <3>1. Extent(blocks[i]) \in Nat /\ blocks[i].y \in Nat
      BY <2>3, BlockMeasured DEF IsBlock
    <3>2. blocks[i].y + Extent(blocks[i]) <= height /\ height \in Nat
      BY <1>1, <2>1, <2>2 DEF Measured, Grounded, TypeOK
    <3>. QED BY <3>1, <3>2
  <2>5. ASSUME NEW a \in Ink(blocks[i]), ~IsControl(blocks[i])
        PROVE  /\ a.block \in DOMAIN blocks /\ a.y0 \in Nat /\ a.y1 \in Nat
               /\ blocks[a.block].y <= a.y0
               /\ a.y1 <= blocks[a.block].y + Extent(blocks[a.block])
               /\ a.y1 <= height
    <3>1. /\ a.block = i /\ a.y0 \in Nat /\ a.y1 \in Nat
          /\ blocks[i].y <= a.y0 /\ a.y1 <= blocks[i].y + Extent(blocks[i])
      BY <2>3, <2>5, InkRows
    <3>. QED BY <2>2, <2>4, <3>1
  <2>. QED BY <1>1, <1>2, <2>1, <2>5, ExtentKept DEF Inked
<1>4. CASE \/ \E entry \in Entries : Configure(entry)
           \/ \E m \in Modes, r \in Requests : Submit(m, r)
           \/ Pile \/ EndBuild \/ Measures \/ EndMeasure \/ Finish
  <2>1. ink' = {}
    BY <1>1, <1>4 DEF Configure, Submit, Pile, Stack, EndBuild, Measures, MeasureBlock, Fail,
                      EndMeasure, Finish, Empty
  <2>. QED BY <2>1 DEF Inked
<1>5. CASE GiveUp \/ Encodes \/ Draws \/ EncodeBand \/ Controls \/ EndEncode
  <2>1. UNCHANGED <<profile, mode, blocks, ink, height>>
    BY <1>5 DEF GiveUp, Fail, Encodes, BeginEncode, Draws, EncodePNG, EncodeBand, Controls,
                EncodeControl, EndEncode
  <2>. QED BY <1>1, <1>2, <2>1, ExtentKept DEF Inked
<1>. QED BY <1>3, <1>4, <1>5, Moves

\* Controls are set aside from top to bottom.
LEMMA ControlledSteps == ASSUME Inv, Next PROVE Controlled'
<1>. USE DEF requestVars, docVars, canvasVars, encoderVars
<1>1. Grounded /\ Shapes /\ Stage /\ Empty /\ Piled /\ Measured /\ Controlled
  BY DEF Inv, Grounded
<1>2. CASE PaintBlock
  <2>1. /\ stage = "painting" /\ i <= Len(blocks) /\ i' = i + 1
        /\ UNCHANGED <<stage, blocks, height>>
        /\ \/ controls' = controls
           \/ /\ IsControl(blocks[i])
              /\ controls' = Append(controls, [y |-> blocks[i].y, el |-> blocks[i].el,
                                               terminal |-> i = Len(blocks)])
    BY <1>2 DEF PaintBlock
  <2>2. i \in DOMAIN blocks /\ i \in Nat /\ Len(blocks) \in Nat /\ DOMAIN blocks = 1..Len(blocks)
    BY <1>1, <2>1 DEF Stage, Shapes
  <2>3. CASE controls' = controls
    <3>1. \A m \in DOMAIN blocks : i + 1 <= m => i <= m
      BY <2>2
    <3>. QED BY <1>1, <2>1, <2>3, <3>1 DEF Controlled
  <2>4. CASE /\ IsControl(blocks[i])
             /\ controls' = Append(controls, [y |-> blocks[i].y, el |-> blocks[i].el,
                                              terminal |-> i = Len(blocks)])
    <3>1. PICK c : c = [y |-> blocks[i].y, el |-> blocks[i].el, terminal |-> i = Len(blocks)]
      OBVIOUS
    <3>2. controls' = Append(controls, c) /\ c.y = blocks[i].y /\ c.el = blocks[i].el
      BY <2>4, <3>1
    <3>3. PICK L \in Nat : L = Len(controls)
      BY <1>1, Appended DEF Shapes
    <3>4. /\ DOMAIN controls = 1..L /\ DOMAIN controls' = 1..(L + 1)
          /\ \A n \in 1..L : controls'[n] = controls[n]
          /\ controls'[L + 1] = c
      <4>1. PICK s : s = controls
        OBVIOUS
      <4>2. s \in Seq(ToSet(s))
        BY <1>1, <4>1 DEF Shapes
      <4>. QED BY <3>2, <3>3, <4>1, <4>2, Appended
    <3>5. /\ c.y \in Nat /\ c.y <= height
          /\ \/ c.el.type = "feed" /\ c.el.lines \in 1..MaxFeedLines
             \/ c.el.type = "cut" /\ c.el.mode \in CutModes \cup {""}
      <4>1. IsBlock(blocks[i]) /\ blocks[i].y + Extent(blocks[i]) <= height
        BY <1>1, <2>1, <2>2 DEF Shapes, Measured
      <4>2. Extent(blocks[i]) = 0
        BY <2>4 DEF Extent, IsControl, IsLine, IsRaster
      <4>3. blocks[i].y \in Nat /\ blocks[i].el.type \in {"feed", "cut"}
        BY <2>4, <4>1 DEF IsBlock, IsControl
      <4>4. /\ blocks[i].el.type = "cut" => blocks[i].el.mode \in CutModes \cup {""}
            /\ blocks[i].el.type = "feed" => blocks[i].el.lines \in 1..MaxFeedLines
        BY <4>1 DEF IsBlock, IsLine, IsRaster
      <4>5. blocks[i].y <= height
        BY <4>1, <4>2, <4>3
      <4>. QED BY <3>2, <4>3, <4>4, <4>5
    <3>6. /\ \A n \in 1..L : controls[n].y \in Nat /\ controls[n].y <= c.y
          /\ \A m \in DOMAIN blocks : i + 1 <= m => c.y <= blocks[m].y
      <4>1. \A n \in 1..L : controls[n].y \in Nat /\ controls[n].y <= c.y
        <5>1. i <= i
          BY <2>2
        <5>. QED BY <1>1, <2>1, <2>2, <3>2, <3>4, <5>1 DEF Controlled
      <4>2. \A m \in DOMAIN blocks : i + 1 <= m => i <= m
        BY <2>2
      <4>. QED BY <1>1, <2>2, <3>2, <4>1, <4>2 DEF Piled
    <3>7. \A n \in 1..(L + 1) : n \in 1..L \/ n = L + 1
      OBVIOUS
    <3>8. ASSUME NEW n \in DOMAIN controls'
          PROVE  /\ controls'[n].y \in Nat /\ controls'[n].y <= height
                 /\ \/ controls'[n].el.type = "feed" /\ controls'[n].el.lines \in 1..MaxFeedLines
                    \/ controls'[n].el.type = "cut" /\ controls'[n].el.mode \in CutModes \cup {""}
      BY <1>1, <3>4, <3>5, <3>7 DEF Controlled
    <3>9. ASSUME NEW m \in DOMAIN controls', NEW n \in DOMAIN controls', m <= n
          PROVE  controls'[m].y <= controls'[n].y
      <4>1. CASE n \in 1..L
        <5>1. m \in 1..L
          BY <3>4, <3>9, <4>1
        <5>. QED BY <1>1, <3>4, <3>9, <4>1, <5>1 DEF Controlled
      <4>2. CASE n = L + 1
        <5>1. CASE m \in 1..L
          BY <3>4, <3>6, <4>2, <5>1
        <5>2. CASE m = L + 1
          <6>1. controls'[m] = c /\ controls'[n] = c
            BY <3>4, <4>2, <5>2
          <6>2. c.y \in Nat
            BY <3>5
          <6>. QED BY <6>1, <6>2
        <5>. QED BY <3>4, <3>7, <5>1, <5>2
      <4>. QED BY <3>4, <3>7, <4>1, <4>2
    <3>10. ASSUME NEW n \in DOMAIN controls', NEW m \in DOMAIN blocks, i + 1 <= m
           PROVE  controls'[n].y <= blocks[m].y
      <4>1. CASE n \in 1..L
        <5>1. i <= m
          BY <2>2, <3>10
        <5>. QED BY <1>1, <2>1, <3>4, <4>1, <5>1 DEF Controlled
      <4>2. CASE n = L + 1
        BY <3>4, <3>6, <3>10, <4>2
      <4>. QED BY <3>4, <3>7, <4>1, <4>2
    <3>. QED BY <2>1, <3>8, <3>9, <3>10 DEF Controlled
  <2>. QED BY <2>1, <2>3, <2>4
<1>3. CASE \/ \E entry \in Entries : Configure(entry)
           \/ \E m \in Modes, r \in Requests : Submit(m, r)
           \/ Pile \/ EndBuild \/ Measures \/ EndMeasure \/ Finish
  <2>1. controls' = <<>>
    BY <1>1, <1>3 DEF Configure, Submit, Pile, Stack, EndBuild, Measures, MeasureBlock, Fail,
                      EndMeasure, Finish, Empty
  <2>2. DOMAIN controls' = {}
    BY <2>1, None
  <2>. QED BY <2>2 DEF Controlled
<1>4. CASE GiveUp \/ Encodes \/ Draws \/ EncodeBand \/ Controls \/ EndEncode
  <2>1. UNCHANGED <<controls, height>> /\ stage' # "painting"
    BY <1>4 DEF GiveUp, Fail, Encodes, BeginEncode, Draws, EncodePNG, EncodeBand, Controls,
                EncodeControl, EndEncode
  <2>. QED BY <1>1, <2>1 DEF Controlled
<1>. QED BY <1>2, <1>3, <1>4, Moves

\* Other commands after them do not change the bands.
LEMMA StripKept ==
  ASSUME Strip, NEW L \in Nat, NEW M \in Nat, L <= M,
         DOMAIN out = 1..L, DOMAIN out' = 1..M,
         \A n \in 1..L : out'[n] = out[n],
         \A n \in 1..M : n \notin 1..L => out'[n].cmd # "raster",
         UNCHANGED <<pos, width, height, profile>>
  PROVE  Strip'
<1>1. Rasters' = Rasters
  <2>1. \A n \in 1..L : n \in 1..M
    OBVIOUS
  <2>. QED BY <2>1 DEF Rasters
<1>2. \A n \in Rasters : out'[n] = out[n]
  BY DEF Rasters
<1>3. \A n \in Rasters : Banded(n)' /\ Below(n)' = Below(n)
  BY <1>2 DEF Strip, Banded, Below
<1>. QED BY <1>1, <1>2, <1>3 DEF Strip

\* Commands that are no rasters may follow the bands.
LEMMA StripExtended ==
  ASSUME Strip, out \in Seq(ToSet(out)), NEW t, t \in Seq(ToSet(t)), out' = out \o t,
         \A n \in DOMAIN t : t[n].cmd # "raster",
         UNCHANGED <<pos, width, height, profile>>
  PROVE  Strip'
<1>1. PICK L \in Nat, N \in Nat : L = Len(out) /\ N = Len(t)
  BY Joined
<1>2. /\ DOMAIN out = 1..L /\ DOMAIN t = 1..N /\ DOMAIN out' = 1..(L + N)
      /\ \A n \in 1..L : out'[n] = out[n]
      /\ \A n \in 1..N : out'[L + n] = t[n]
  <2>1. PICK s : s = out
    OBVIOUS
  <2>2. s \in Seq(ToSet(s)) /\ out' = s \o t
    BY <2>1
  <2>. QED BY <1>1, <2>1, <2>2, Joined
<1>3. ASSUME NEW n \in 1..(L + N), n \notin 1..L PROVE out'[n].cmd # "raster"
  <2>1. PICK k \in 1..N : n = L + k
    <3>1. n - L \in 1..N /\ n = L + (n - L)
      BY <1>3
    <3>. QED BY <3>1
  <2>. QED BY <1>2, <2>1
<1>4. L <= L + N /\ L + N \in Nat
  OBVIOUS
<1>. QED BY <1>2, <1>3, <1>4, StripKept

\* Before the first band the strip is empty.
LEMMA StripEmpty == ASSUME out' = <<>> \/ out' = <<InitSequence>>, pos' = 0 PROVE Strip'
<1>1. Rasters' = {}
  <2>1. DOMAIN <<>> = {} /\ \A n \in DOMAIN <<InitSequence>> : <<InitSequence>>[n] = InitSequence
    BY None
  <2>2. InitSequence.cmd # "raster"
    BY DEF InitSequence
  <2>. QED BY <2>1, <2>2 DEF Rasters
<1>. QED BY <1>1 DEF Strip

\* What Banded says of the fields of a command.
LEMMA BandFields ==
  ASSUME NEW n, Banded(n), pos \in Nat
  PROVE  out[n].from \in Nat /\ out[n].rows \in Nat \ {0} /\ Below(n) \in Nat /\ Below(n) <= pos
<1>1. PICK from \in Nat, rows \in Nat \ {0} : out[n] = RasterCommand(width, from, rows) /\ from + rows <= pos
  BY DEF Banded
<1>2. out[n].from = from /\ out[n].rows = rows
  BY <1>1 DEF RasterCommand
<1>. QED BY <1>1, <1>2 DEF Below

\* A band goes on where the last one ended.
LEMMA StripGrows == ASSUME Inv, EncodeBand PROVE Strip'
<1>1. PICK rows \in Nat \ {0} : /\ rows <= BandHeight(height, profile.max)
                                /\ out' = Append(out, RasterCommand(width, pos, rows))
                                /\ pos' = pos + rows
  BY BandFacts
<1>2. /\ pos \in Nat /\ Strip /\ out \in Seq(ToSet(out))
      /\ UNCHANGED <<width, height, profile>>
  BY DEF Inv, Grounded, TypeOK, Shapes, Wired, EncodeBand, requestVars, canvasVars
<1>3. PICK c : c = RasterCommand(width, pos, rows)
  OBVIOUS
<1>4. c.cmd = "raster" /\ c.from = pos /\ c.rows = rows
  BY <1>3 DEF RasterCommand
<1>0. PICK L \in Nat : L = Len(out)
  BY <1>2
<1>5. /\ DOMAIN out = 1..L /\ DOMAIN out' = 1..(L + 1)
      /\ \A n \in 1..L : out'[n] = out[n]
      /\ out'[L + 1] = c
  <2>1. PICK s : s = out
    OBVIOUS
  <2>2. s \in Seq(ToSet(s)) /\ out' = Append(s, c)
    BY <1>1, <1>2, <1>3, <2>1
  <2>. QED BY <1>0, <2>1, <2>2, Appended
<1>6. Rasters \subseteq 1..L /\ Rasters' = Rasters \cup {L + 1}
  <2>1. \A n \in 1..(L + 1) : n \in 1..L \/ n = L + 1
    OBVIOUS
  <2>2. 1..L \subseteq 1..(L + 1) /\ L + 1 \in 1..(L + 1)
    OBVIOUS
  <2>. QED BY <1>4, <1>5, <2>1, <2>2 DEF Rasters
<1>7. \A n \in Rasters : out'[n] = out[n] /\ n < L + 1 /\ n \in Nat
  BY <1>5, <1>6
<1>8. \A n \in Rasters : /\ out[n].from \in Nat /\ out[n].rows \in Nat
                         /\ Below(n) \in Nat /\ Below(n) <= pos /\ Below(n)' = Below(n)
  <2>1. \A n \in Rasters : Below(n)' = Below(n)
    BY <1>7 DEF Below
  <2>. QED BY <1>2, <2>1, BandFields DEF Strip
<1>9. Below(L + 1)' = pos' /\ out'[L + 1].from = pos
  BY <1>1, <1>4, <1>5 DEF Below
<1>10. \A n \in Rasters' : Banded(n)'
  <2>1. ASSUME NEW n \in Rasters PROVE Banded(n)'
    <3>1. PICK f \in Nat, r \in Nat \ {0} : /\ out[n] = RasterCommand(width, f, r)
                                            /\ r <= BandHeight(height, profile.max) /\ f + r <= pos
      BY <1>2 DEF Strip, Banded
    <3>2. f + r <= pos'
      BY <1>1, <1>2, <3>1
    <3>. QED BY <1>2, <1>7, <3>1, <3>2 DEF Banded
  <2>2. Banded(L + 1)'
    <3>1. pos \in Nat /\ pos + rows <= pos'
      BY <1>1, <1>2
    <3>. QED BY <1>1, <1>2, <1>3, <1>5, <3>1 DEF Banded
  <2>. QED BY <1>6, <2>1, <2>2
<1>11. \A n \in Rasters' : \A m \in Rasters' : m < n => Below(m)' <= out'[n].from
  <2>1. ASSUME NEW n \in Rasters', NEW m \in Rasters', m < n PROVE Below(m)' <= out'[n].from
    <3>1. m \in Rasters
      BY <1>6, <1>7, <2>1
    <3>2. CASE n \in Rasters
      BY <1>2, <1>7, <1>8, <2>1, <3>1, <3>2 DEF Strip
    <3>3. CASE n = L + 1
      BY <1>8, <1>9, <3>1, <3>3
    <3>. QED BY <1>6, <3>2, <3>3
  <2>. QED BY <2>1
<1>12. \A n \in Rasters' : out'[n].from = 0 \/ \E m \in Rasters' : m < n /\ Below(m)' = out'[n].from
  <2>1. ASSUME NEW n \in Rasters
        PROVE  out'[n].from = 0 \/ \E m \in Rasters' : m < n /\ Below(m)' = out'[n].from
    BY <1>2, <1>6, <1>7, <1>8 DEF Strip
  <2>2. pos = 0 \/ \E m \in Rasters' : m < L + 1 /\ Below(m)' = pos
    BY <1>2, <1>6, <1>7, <1>8 DEF Strip
  <2>. QED BY <1>6, <1>9, <2>1, <2>2
<1>13. \E n \in Rasters' : Below(n)' = pos' /\ \A m \in Rasters' : m <= n
  <2>1. \A m \in Rasters' : m <= L + 1
    BY <1>6, <1>7
  <2>. QED BY <1>6, <1>9, <2>1
<1>. QED BY <1>10, <1>11, <1>12, <1>13 DEF Strip

\* The encoder never gets ahead of a control or off the canvas.
LEMMA WiredSteps == ASSUME Inv, Next, TypeOK' PROVE Wired'
<1>. USE DEF requestVars, docVars, canvasVars, encoderVars
<1>1. /\ Grounded /\ Shapes /\ Stage /\ Empty /\ Controlled /\ Wired /\ Strip
      /\ pos \in Nat /\ height \in Nat /\ pos' \in Nat /\ height' \in Nat /\ i \in Nat
  BY DEF Inv, Grounded, Wired, TypeOK
<1>2. CASE \/ \E entry \in Entries : Configure(entry)
           \/ \E m \in Modes, r \in Requests : Submit(m, r)
           \/ Pile \/ EndBuild \/ Measures \/ EndMeasure \/ PaintBlock \/ Finish
  <2>1. out' = <<>> /\ pos' = 0 /\ stage' \notin {"encoding", "done"}
    BY <1>1, <1>2 DEF Configure, Submit, Enter, Pile, Stack, EndBuild, Measures, MeasureBlock, Fail,
                      EndMeasure, PaintBlock, Finish, Empty
  <2>2. Strip'
    BY <2>1, StripEmpty
  <2>. QED BY <1>1, <2>1, <2>2 DEF Wired
<1>3. CASE GiveUp
  <2>1. stage' = "failed" /\ UNCHANGED <<out, pos, width, height, profile>>
    BY <1>3 DEF GiveUp, Fail
  <2>2. Strip'
    BY <1>1, <2>1 DEF Strip, Rasters, Banded, Below
  <2>. QED BY <1>1, <2>1, <2>2 DEF Wired
<1>4. CASE Encodes
  <2>1. /\ stage' = "encoding" /\ out' = <<InitSequence>> /\ pos' = pos /\ pos = 0
        /\ UNCHANGED <<height, controls>> /\ height # 0
    BY <1>1, <1>4 DEF Encodes, BeginEncode, Painted, CanvasEmpty, Fail, Enter, Empty
  <2>2. Strip'
    BY <2>1, StripEmpty
  <2>3. height' > 0 /\ \A n \in DOMAIN controls : 0 <= controls[n].y
    <3>1. \A n \in DOMAIN controls : controls[n].y \in Nat
      BY <1>1 DEF Controlled
    <3>. QED BY <1>1, <2>1, <3>1
  <2>. QED BY <1>1, <2>1, <2>2, <2>3 DEF Wired
<1>5. CASE Draws
  <2>1. /\ stage' = "done" /\ mode' # "print" /\ out' = out /\ pos' = pos /\ pos = 0 /\ out = <<>>
    BY <1>1, <1>5 DEF Draws, EncodePNG, Painted, Fail, Empty
  <2>2. Strip'
    BY <2>1, StripEmpty
  <2>. QED BY <1>1, <2>1, <2>2 DEF Wired
<1>6. CASE EncodeBand
  <2>1. PICK rows \in Nat \ {0} : /\ pos + rows <= BandsEnd /\ BandsEnd <= height
                                  /\ i \in DOMAIN controls => BandsEnd = controls[i].y
                                  /\ pos' = pos + rows
    BY <1>6, BandFacts
  <2>2. stage' = "encoding" /\ stage = "encoding" /\ UNCHANGED <<i, height, controls>>
    BY <1>6 DEF EncodeBand
  <2>3. ASSUME NEW n \in DOMAIN controls, i <= n PROVE pos' <= controls[n].y
    <3>1. i \in DOMAIN controls
      BY <1>1, <2>2, <2>3 DEF Stage, Shapes
    <3>2. pos' <= controls[i].y /\ controls[i].y <= controls[n].y
          /\ controls[i].y \in Nat /\ controls[n].y \in Nat
      BY <1>1, <2>1, <2>3, <3>1 DEF Controlled
    <3>. QED BY <1>1, <3>2
  <2>4. pos' <= height
    <3>1. BandsEnd \in Int
      <4>1. i \in DOMAIN controls \/ BandsEnd = height
        BY <1>1, <2>2 DEF BandsEnd, Stage, Shapes
      <4>2. \A n \in DOMAIN controls : controls[n].y \in Nat
        BY <1>1 DEF Controlled
      <4>. QED BY <1>1, <2>1, <4>1, <4>2
    <3>. QED BY <1>1, <2>1, <3>1
  <2>5. Strip'
    BY <1>6, StripGrows
  <2>. QED BY <1>1, <2>2, <2>3, <2>4, <2>5 DEF Wired
<1>7. CASE Controls
  <2>1. /\ stage = "encoding" /\ stage' = "encoding" /\ i <= Len(controls)
        /\ out' = out \o ControlCommands(controls[i].el, profile)
        /\ pos >= controls[i].y /\ pos' = controls[i].y /\ i' = i + 1
        /\ UNCHANGED <<width, height, profile, controls>>
    BY <1>7 DEF Controls, EncodeControl, Fail
  <2>2. i \in DOMAIN controls
    BY <1>1, <2>1 DEF Stage, Shapes
  <2>3. pos' = pos
    <3>1. i <= i
      BY <1>1
    <3>2. pos <= controls[i].y /\ controls[i].y \in Nat
      BY <1>1, <2>1, <2>2, <3>1 DEF Wired, Controlled
    <3>. QED BY <1>1, <2>1, <3>2
  <2>4. Strip'
    <3>1. PICK t : t = ControlCommands(controls[i].el, profile)
      OBVIOUS
    <3>2. /\ out \in Seq(ToSet(out)) /\ t \in Seq(ToSet(t)) /\ out' = out \o t
          /\ \A n \in DOMAIN t : t[n].cmd # "raster"
      BY <1>1, <2>1, <3>1, ControlsWired DEF Shapes
    <3>. QED BY <1>1, <2>1, <2>3, <3>2, StripExtended
  <2>5. \A n \in DOMAIN controls : i + 1 <= n => i <= n
    BY <1>1 DEF Shapes
  <2>. QED BY <1>1, <2>1, <2>3, <2>4, <2>5 DEF Wired
<1>8. CASE EndEncode
  <2>1. /\ stage = "encoding" /\ stage' = "done" /\ pos >= height
        /\ out' = out \o AutoCut(controls, profile)
        /\ UNCHANGED <<pos, width, height, profile>>
    BY <1>8 DEF EndEncode
  <2>2. pos = height /\ height > 0
    BY <1>1, <2>1 DEF Wired
  <2>3. Strip'
    <3>1. PICK t : t = AutoCut(controls, profile)
      OBVIOUS
    <3>2. /\ out \in Seq(ToSet(out)) /\ t \in Seq(ToSet(t)) /\ out' = out \o t
          /\ \A n \in DOMAIN t : t[n].cmd # "raster"
      BY <1>1, <2>1, <3>1, ControlsWired DEF Shapes
    <3>. QED BY <1>1, <2>1, <3>2, StripExtended
  <2>. QED BY <1>1, <2>1, <2>2, <2>3 DEF Wired
<1>. QED BY <1>2, <1>3, <1>4, <1>5, <1>6, <1>7, <1>8, Moves

-----------------------------------------------------------------------------
(***************************************************************************)
(* Feeds and cuts, from the document to the wire.                          *)
(***************************************************************************)

\* The rows command c carries, and the control it is, above rows having gone before.
RowsIn(c) == IF c.cmd = "raster" THEN c.rows ELSE 0
MarkOf(c, above) ==
  IF c.cmd \in {"feed", "cut"} THEN <<[above |-> above, command |-> c]>> ELSE <<>>

\* Sent, of any commands.
Marks(o) == FlattenSeq([n \in DOMAIN o |-> MarkOf(o[n], RowsOf(o, n - 1))])

\* The controls of the bytes sent are their marks.
LEMMA SentMarks == Sent = Marks(out)
BY Zenon DEF Sent, Marks, MarkOf

LEMMA SentMarksNext == Sent' = Marks(out')
BY Zenon DEF Sent, Marks, MarkOf

\* One more command adds its own rows.
LEMMA RowsAppended ==
  ASSUME NEW L \in Nat, NEW o, \A n \in 1..(L + 1) : o[n].cmd = "raster" => o[n].rows \in Int
  PROVE  /\ RowsOf(o, L) \in Int
         /\ RowsOf(o, L + 1) = RowsOf(o, L) + RowsIn(o[L + 1])
<1>. DEFINE r == [n \in 1..(L + 1) |-> RowsIn(o[n])]
<1>1. PICK N \in Nat : N = L + 1
  OBVIOUS
<1>2. r \in [1..N -> Int]
  BY <1>1 DEF RowsIn
<1>3. PICK q \in [1..N -> Int] : q = r
  BY <1>2
<1>4. PICK f :
        /\ f[0] = 0
        /\ \A n \in 1..N : f[n] = f[n - 1] + q[n]
        /\ \A n \in 0..N : f[n] \in Int /\ SumOf([k \in 1..n |-> q[k]]) = f[n]
  BY SumPrefixes
<1>5. ASSUME NEW n \in {L, L + 1} PROVE SumOf([k \in 1..n |-> q[k]]) = RowsOf(o, n)
  <2>1. [k \in 1..n |-> q[k]] = [k \in 1..n |-> RowsIn(o[k])]
    BY <1>1, <1>3
  <2>2. RowsOf(o, n) = SumOf([k \in 1..n |-> RowsIn(o[k])])
    BY Zenon DEF RowsOf, RowsIn
  <2>. QED BY <2>1, <2>2, Zenon
<1>6. L \in 0..N /\ N \in 0..N /\ N \in 1..N /\ N - 1 = L
  BY <1>1
<1>7. f[L] = RowsOf(o, L) /\ f[N] = RowsOf(o, L + 1) /\ f[L] \in Int
  BY <1>1, <1>4, <1>5, <1>6, Zenon
<1>8. f[N] = f[L] + RowsIn(o[L + 1])
  <2>1. q[N] = RowsIn(o[L + 1])
    BY <1>1, <1>3
  <2>. QED BY <1>4, <1>6, <2>1
<1>. QED BY <1>7, <1>8

\* The rows and the controls of the first commands are those of a longer list.
LEMMA RowsKept ==
  ASSUME NEW n \in Nat, NEW o, NEW p, \A k \in 1..n : p[k] = o[k]
  PROVE  RowsOf(p, n) = RowsOf(o, n)
<1>1. [k \in 1..n |-> RowsIn(p[k])] = [k \in 1..n |-> RowsIn(o[k])]
  OBVIOUS
<1>2. \A q : RowsOf(q, n) = SumOf([k \in 1..n |-> RowsIn(q[k])])
  BY Zenon DEF RowsOf, RowsIn
<1>. QED BY <1>1, <1>2, Zenon

\* One command more adds its own mark, if it has one.
LEMMA MarksAppended ==
  ASSUME NEW o, o \in Seq(ToSet(o)), NEW c
  PROVE  LET mark == MarkOf(c, RowsOf(o, Len(o)))
         IN  /\ Marks(Append(o, c)) = Marks(o) \o mark
             /\ mark = <<>> => Marks(Append(o, c)) = Marks(o)
<1>1. PICK L \in Nat : L = Len(o)
  BY Appended
<1>2. PICK p : p = Append(o, c)
  OBVIOUS
<1>3. /\ DOMAIN o = 1..L /\ DOMAIN p = 1..(L + 1)
      /\ \A n \in 1..L : p[n] = o[n]
      /\ p[L + 1] = c
  BY <1>1, <1>2, Appended
<1>4. ASSUME NEW n \in 1..(L + 1) PROVE RowsOf(p, n - 1) = RowsOf(o, n - 1)
  <2>1. n - 1 \in Nat /\ \A k \in 1..(n - 1) : p[k] = o[k]
    BY <1>3
  <2>. QED BY <2>1, RowsKept
<1>. DEFINE s == [n \in 1..(L + 1) |-> MarkOf(p[n], RowsOf(p, n - 1))]
            mark == MarkOf(c, RowsOf(o, L))
<1>5. /\ s[L + 1] = mark
      /\ \A n \in 1..L : s[n] = MarkOf(o[n], RowsOf(o, n - 1))
  <2>1. L + 1 \in 1..(L + 1) /\ (L + 1) - 1 = L /\ \A n \in 1..L : n \in 1..(L + 1)
    OBVIOUS
  <2>2. s[L + 1] = MarkOf(p[L + 1], RowsOf(p, L))
    BY <2>1
  <2>3. RowsOf(p, L) = RowsOf(o, L)
    BY <1>4, <2>1, Zenon
  <2>4. ASSUME NEW n \in 1..L PROVE s[n] = MarkOf(o[n], RowsOf(o, n - 1))
    <3>1. s[n] = MarkOf(p[n], RowsOf(p, n - 1))
      BY <2>1
    <3>. QED BY <1>3, <1>4, <2>1, <3>1, Zenon
  <2>. QED BY <1>3, <2>2, <2>3, <2>4, Zenon
<1>6. Marks(p) = FlattenSeq([n \in 1..(L + 1) |-> s[n]])
  <2>1. [n \in DOMAIN p |-> MarkOf(p[n], RowsOf(p, n - 1))] = [n \in 1..(L + 1) |-> s[n]]
    <3>. HIDE DEF s
    <3>1. s = [n \in 1..(L + 1) |-> MarkOf(p[n], RowsOf(p, n - 1))]
      BY DEF s
    <3>. QED BY <1>3, <3>1
  <2>. QED BY <2>1, Zenon DEF Marks
<1>7. Marks(o) = FlattenSeq([n \in 1..L |-> s[n]])
  <2>1. [n \in DOMAIN o |-> MarkOf(o[n], RowsOf(o, n - 1))] = [n \in 1..L |-> s[n]]
    <3>. HIDE DEF s
    <3>. QED BY <1>3, <1>5
  <2>. QED BY <2>1, Zenon DEF Marks
<1>. HIDE DEF s
<1>8. \A n \in 1..(L + 1) : s[n] \in Seq(ToSet(s[n]))
  <2>1. \A n \in 1..(L + 1) : s[n] = MarkOf(p[n], RowsOf(p, n - 1))
    BY DEF s
  <2>2. \A d, above : MarkOf(d, above) \in Seq(ToSet(MarkOf(d, above)))
    BY Lone, None DEF MarkOf
  <2>. QED BY <2>1, <2>2, Zenon
<1>9. PICK N \in Nat \ {0} : N = L + 1 /\ N - 1 = L
  OBVIOUS
<1>10. Upto(s, N) = Upto(s, N - 1) \o s[N] /\ (s[N] = <<>> => Upto(s, N) = Upto(s, N - 1))
  BY <1>8, <1>9, UptoNext
<1>11. Upto(s, N) = Marks(p) /\ Upto(s, N - 1) = Marks(o) /\ s[N] = mark
  BY <1>5, <1>6, <1>7, <1>9, Zenon DEF Upto
<1>. QED BY <1>1, <1>2, <1>10, <1>11, Zenon

\* A block asks for one command or none.
LEMMA WantedShape == \A el, above : Wanted(el, above) \in Seq(ToSet(Wanted(el, above)))
BY Lone, None DEF Wanted

\* One more adds what it asks for.
LEMMA AsksNext ==
  ASSUME NEW n \in Nat \ {0}, NEW s
  PROVE  /\ Asks(s, n) = Asks(s, n - 1) \o Wanted(s[n].el, s[n].y)
         /\ Wanted(s[n].el, s[n].y) = <<>> => Asks(s, n) = Asks(s, n - 1)
<1>. DEFINE w == [k \in 1..n |-> Wanted(s[k].el, s[k].y)]
<1>1. n \in 1..n /\ \A k \in 1..n : w[k] = Wanted(s[k].el, s[k].y)
  OBVIOUS
<1>2. ASSUME NEW m \in {n - 1, n} PROVE Asks(s, m) = Upto(w, m)
  <2>1. [k \in 1..m |-> Wanted(s[k].el, s[k].y)] = [k \in 1..m |-> w[k]]
    OBVIOUS
  <2>. QED BY <2>1, Zenon DEF Asks, Upto
<1>. HIDE DEF w
<1>3. \A k \in 1..n : w[k] \in Seq(ToSet(w[k]))
  BY <1>1, WantedShape, Zenon
<1>4. Upto(w, n) = Upto(w, n - 1) \o w[n] /\ (w[n] = <<>> => Upto(w, n) = Upto(w, n - 1))
  <2>1. PICK v : v = w
    OBVIOUS
  <2>2. Upto(v, n) = Upto(v, n - 1) \o v[n] /\ (v[n] = <<>> => Upto(v, n) = Upto(v, n - 1))
    BY <1>3, <2>1, UptoNext
  <2>. QED BY <2>1, <2>2, Zenon
<1>. QED BY <1>1, <1>2, <1>4, Zenon

\* The first ask for a prefix of what all ask for.
LEMMA AsksStart ==
  ASSUME NEW N \in Nat, NEW s, NEW m \in 0..N
  PROVE  IsPrefix(Asks(s, m), Asks(s, N))
<1>. DEFINE w == [k \in 1..N |-> Wanted(s[k].el, s[k].y)]
<1>1. N \in 0..N /\ \A k \in 1..N : w[k] = Wanted(s[k].el, s[k].y)
  OBVIOUS
<1>2. ASSUME NEW n \in 0..N PROVE Asks(s, n) = Upto(w, n)
  <2>1. [k \in 1..n |-> Wanted(s[k].el, s[k].y)] = [k \in 1..n |-> w[k]]
    OBVIOUS
  <2>. QED BY <2>1, Zenon DEF Asks, Upto
<1>. HIDE DEF w
<1>3. \A k \in 1..N : w[k] \in Seq(ToSet(w[k]))
  BY <1>1, WantedShape, Zenon
<1>4. IsPrefix(Upto(w, m), Upto(w, N))
  <2>1. PICK v : v = w
    OBVIOUS
  <2>2. IsPrefix(Upto(v, m), Upto(v, N))
    BY <1>3, <2>1, UptoStart
  <2>. QED BY <2>1, <2>2, Zenon
<1>. QED BY <1>1, <1>2, <1>4, Zenon

\* Blocks that agree ask for the same.
LEMMA AsksSame ==
  ASSUME NEW n, NEW s, NEW t, \A k \in 1..n : t[k] = s[k]
  PROVE  Asks(t, n) = Asks(s, n)
<1>1. [k \in 1..n |-> Wanted(t[k].el, t[k].y)] = [k \in 1..n |-> Wanted(s[k].el, s[k].y)]
  OBVIOUS
<1>. QED BY <1>1, Zenon DEF Asks

\* No blocks, nothing asked for.
LEMMA AsksNone == \A s : Asks(s, 0) = <<>>
<1>1. \A s : [k \in 1..0 |-> Wanted(s[k].el, s[k].y)] = <<>>
  OBVIOUS
<1>. QED BY <1>1, FlattenNone, Zenon DEF Asks

\* What is asked for depends on the printer only.
LEMMA AsksKept ==
  ASSUME profile' = profile
  PROVE  /\ \A el, above : Wanted(el, above)' = Wanted(el, above)
         /\ \A s, n : Asks(s, n)' = Asks(s, n)
<1>1. \A el, above : Wanted(el, above)' = Wanted(el, above)
  BY DEF Wanted
<1>2. ASSUME NEW s, NEW n PROVE Asks(s, n)' = Asks(s, n)
  <2>1. [k \in 1..n |-> Wanted(s[k].el, s[k].y)]' = [k \in 1..n |-> Wanted(s[k].el, s[k].y)]
    BY <1>1
  <2>. QED BY <2>1, Zenon DEF Asks
<1>. QED BY <1>1, <1>2

\* The rows of the commands that carry any.
LEMMA RowsTyped == ASSUME Strip PROVE \A n \in DOMAIN out : out[n].cmd = "raster" => out[n].rows \in Nat \ {0}
BY DEF Strip, Banded, Rasters, RasterCommand

\* No command, or only the first one: no row and no control.
LEMMA NothingSent ==
  /\ \A o : RowsOf(o, 0) = 0
  /\ Marks(<<InitSequence>>) = <<>>
  /\ RowsOf(<<InitSequence>>, 1) = 0
<1>1. PICK o : o = <<InitSequence>>
  OBVIOUS
<1>2. \A p : RowsOf(p, 0) = 0
  <2>. SUFFICES ASSUME NEW p PROVE RowsOf(p, 0) = 0
    OBVIOUS
  <2>1. PICK N \in Nat : N = 0
    OBVIOUS
  <2>2. [k \in 1..N |-> 0] \in [1..N -> Int]
    OBVIOUS
  <2>3. PICK q \in [1..N -> Int] : q = [k \in 1..N |-> 0]
    BY <2>2
  <2>4. SumOf([k \in 1..0 |-> q[k]]) = 0
    <3>1. PICK f :
            /\ f[0] = 0
            /\ \A n \in 1..N : f[n] = f[n - 1] + q[n]
            /\ \A n \in 0..N : f[n] \in Int /\ SumOf([k \in 1..n |-> q[k]]) = f[n]
      BY SumPrefixes
    <3>2. 0 \in 0..N
      OBVIOUS
    <3>. QED BY <3>1, <3>2, Zenon
  <2>5. [k \in 1..0 |-> q[k]] = [k \in 1..0 |-> RowsIn(p[k])]
    OBVIOUS
  <2>6. RowsOf(p, 0) = SumOf([k \in 1..0 |-> RowsIn(p[k])])
    BY Zenon DEF RowsOf, RowsIn
  <2>. QED BY <2>4, <2>5, <2>6, Zenon
<1>3. DOMAIN o = 1..1 /\ o[1] = InitSequence /\ InitSequence.cmd = "init"
  BY <1>1 DEF InitSequence
<1>4. Marks(o) = <<>>
  <2>1. [n \in DOMAIN o |-> MarkOf(o[n], RowsOf(o, n - 1))] = <<<<>>>>
    <3>1. \A n \in DOMAIN o : MarkOf(o[n], RowsOf(o, n - 1)) = <<>>
      BY <1>3 DEF MarkOf
    <3>. QED BY <1>3, <3>1
  <2>2. FlattenSeq(<<<<>>>>) = <<>>
    <3>1. PICK s : s = <<<<>>>>
      OBVIOUS
    <3>2. s[1] = <<>> /\ s = [k \in 1..1 |-> s[k]] /\ 1 \in Nat \ {0} /\ 1 - 1 = 0
      BY <3>1
    <3>3. \A n \in 1..1 : s[n] \in Seq(ToSet(s[n]))
      <4>1. \A n \in 1..1 : s[n] = <<>>
        BY <3>2
      <4>. QED BY <4>1, None, Zenon
    <3>4. Upto(s, 1) = Upto(s, 1 - 1)
      BY <3>2, <3>3, UptoNext, Zenon
    <3>5. FlattenSeq(s) = Upto(s, 1)
      BY <3>2, Zenon DEF Upto
    <3>6. Upto(s, 0) = <<>>
      <4>1. [k \in 1..0 |-> s[k]] = <<>>
        OBVIOUS
      <4>. QED BY <4>1, FlattenNone, Zenon DEF Upto
    <3>. QED BY <3>1, <3>2, <3>4, <3>5, <3>6, Zenon
  <2>. QED BY <2>1, <2>2, Zenon DEF Marks
<1>5. RowsOf(o, 1) = 0
  <2>1. PICK L \in Nat : L = 0 /\ L + 1 = 1
    OBVIOUS
  <2>2. \A n \in 1..(L + 1) : o[n].cmd = "raster" => o[n].rows \in Int
    BY <1>3, <2>1
  <2>3. RowsOf(o, L + 1) = RowsOf(o, L) + RowsIn(o[L + 1])
    BY <2>2, RowsAppended
  <2>4. RowsIn(o[1]) = 0
    BY <1>3 DEF RowsIn
  <2>. QED BY <1>2, <2>1, <2>3, <2>4
<1>. QED BY <1>1, <1>2, <1>4, <1>5, Zenon

\* A command more: what it says, and what it carries.
LEMMA OneMore ==
  ASSUME NEW o, o \in Seq(ToSet(o)), NEW c,
         \A n \in DOMAIN o : o[n].cmd = "raster" => o[n].rows \in Int,
         c.cmd = "raster" => c.rows \in Int
  PROVE  LET p == Append(o, c)
             rows == RowsOf(o, Len(o))
         IN  /\ rows \in Int
             /\ Marks(p) = Marks(o) \o MarkOf(c, rows)
             /\ MarkOf(c, rows) = <<>> => Marks(p) = Marks(o)
             /\ RowsOf(p, Len(p)) = rows + RowsIn(c)
<1>1. PICK L \in Nat : L = Len(o)
  BY Appended
<1>2. PICK p : p = Append(o, c)
  OBVIOUS
<1>3. /\ DOMAIN o = 1..L /\ DOMAIN p = 1..(L + 1) /\ Len(p) = L + 1
      /\ \A n \in 1..L : p[n] = o[n]
      /\ p[L + 1] = c
  BY <1>1, <1>2, Appended
<1>4. \A n \in 1..(L + 1) : p[n].cmd = "raster" => p[n].rows \in Int
  <2>1. \A n \in 1..(L + 1) : n \in 1..L \/ n = L + 1
    OBVIOUS
  <2>. QED BY <1>3, <2>1
<1>5. RowsOf(p, L) \in Int /\ RowsOf(p, L + 1) = RowsOf(p, L) + RowsIn(c)
  BY <1>3, <1>4, RowsAppended
<1>6. RowsOf(p, L) = RowsOf(o, L)
  BY <1>3, RowsKept
<1>7. /\ Marks(p) = Marks(o) \o MarkOf(c, RowsOf(o, L))
      /\ MarkOf(c, RowsOf(o, L)) = <<>> => Marks(p) = Marks(o)
  BY <1>1, <1>2, MarksAppended
<1>. QED BY <1>1, <1>2, <1>3, <1>5, <1>6, <1>7

\* Painting a block hands on what it asks for.
LEMMA HandedPainting == ASSUME Inv, PaintBlock PROVE Handed'
<1>. USE DEF requestVars, docVars, canvasVars, encoderVars
<1>1. /\ stage = "painting" /\ i <= Len(blocks) /\ i' = i + 1
      /\ UNCHANGED <<stage, blocks, profile>>
      /\ IF IsControl(blocks[i])
         THEN controls' = Append(controls, [y |-> blocks[i].y, el |-> blocks[i].el,
                                            terminal |-> i = Len(blocks)])
         ELSE controls' = controls
  BY DEF PaintBlock
<1>2. PICK N \in Nat, L \in Nat, n \in Nat \ {0} :
        /\ N = Len(blocks) /\ DOMAIN blocks = 1..N
        /\ L = Len(controls) /\ DOMAIN controls = 1..L
        /\ n = i /\ n \in 1..N /\ n <= N
  BY <1>1 DEF Inv, Grounded, Shapes, Stage
<1>3. PICK bs, cs, ds : bs = blocks /\ cs = controls /\ ds = controls'
  OBVIOUS
<1>4. /\ Asks(cs, L) = Asks(bs, n - 1)
      /\ ~EndsWithExplicitCut(controls)
  BY <1>1, <1>2, <1>3 DEF Inv, Handed
<1>5. /\ Asks(bs, n) = Asks(bs, n - 1) \o Wanted(bs[n].el, bs[n].y)
      /\ Wanted(bs[n].el, bs[n].y) = <<>> => Asks(bs, n) = Asks(bs, n - 1)
  BY <1>2, AsksNext
<1>6. Last(blocks) = blocks[N] /\ (blocks # <<>>)
  BY <1>2 DEF Last
<1>7. SUFFICES /\ Asks(ds, Len(ds)) = Asks(bs, n)
               /\ EndsWithExplicitCut(ds) <=> n = N /\ blocks[N].el.type = "cut"
  <2>1. Asks(controls, Len(controls))' = Asks(blocks, i - 1)'
    <3>1. Asks(controls, Len(controls))' = Asks(ds, Len(ds))' /\ Asks(blocks, i - 1)' = Asks(bs, (n + 1) - 1)'
      BY <1>1, <1>2, <1>3
    <3>2. (n + 1) - 1 = n
      OBVIOUS
    <3>. QED BY <1>1, <1>7, <3>1, <3>2, AsksKept
  <2>2. EndsWithExplicitCut(controls)' <=> (i > Len(blocks) /\ EndsInCut)'
    <3>1. EndsWithExplicitCut(controls)' = EndsWithExplicitCut(ds)
      BY <1>3 DEF EndsWithExplicitCut
    <3>2. (i > Len(blocks))' = (n = N)
      BY <1>1, <1>2
    <3>3. EndsInCut' = (blocks[N].el.type = "cut")
      BY <1>1, <1>6 DEF EndsInCut, Last
    <3>. QED BY <1>7, <3>1, <3>2, <3>3
  <2>. QED BY <1>1, <2>1, <2>2 DEF Handed
<1>8. CASE IsControl(blocks[i])
  <2>1. PICK c : /\ c = [y |-> blocks[i].y, el |-> blocks[i].el, terminal |-> i = Len(blocks)]
                 /\ ds = Append(cs, c)
    BY <1>1, <1>3, <1>8
  <2>2. cs \in Seq(ToSet(cs))
    BY <1>3 DEF Inv, Grounded, Shapes
  <2>3. /\ Len(ds) = L + 1 /\ DOMAIN ds = 1..(L + 1)
        /\ \A k \in 1..L : ds[k] = cs[k]
        /\ ds[L + 1] = c
    BY <1>2, <1>3, <2>1, <2>2, Appended
  <2>4. Asks(ds, L + 1) = Asks(bs, n)
    <3>1. L + 1 \in Nat \ {0} /\ (L + 1) - 1 = L
      OBVIOUS
    <3>2. Asks(ds, L + 1) = Asks(ds, L) \o Wanted(ds[L + 1].el, ds[L + 1].y)
      BY <3>1, AsksNext
    <3>3. Asks(ds, L) = Asks(cs, L)
      BY <2>3, AsksSame
    <3>4. ds[L + 1].el = bs[n].el /\ ds[L + 1].y = bs[n].y
      BY <1>2, <1>3, <2>1, <2>3
    <3>. QED BY <1>4, <1>5, <3>2, <3>3, <3>4, Zenon
  <2>5. EndsWithExplicitCut(ds) <=> n = N /\ blocks[N].el.type = "cut"
    <3>1. ds # <<>> /\ Last(ds) = c
      BY <2>3 DEF Last
    <3>2. c.terminal = (n = N) /\ c.el = blocks[n].el
      BY <1>2, <2>1
    <3>. QED BY <3>1, <3>2 DEF EndsWithExplicitCut
  <2>. QED BY <2>3, <2>4, <2>5
<1>9. CASE ~IsControl(blocks[i])
  <2>1. ds = cs /\ blocks[n].el.type \notin {"feed", "cut"}
    BY <1>1, <1>2, <1>3, <1>9 DEF IsControl
  <2>2. Wanted(bs[n].el, bs[n].y) = <<>>
    BY <1>3, <2>1 DEF Wanted
  <2>. QED BY <1>2, <1>3, <1>4, <1>5, <2>1, <2>2
<1>. QED BY <1>8, <1>9

\* A band carries its rows and no control.
LEMMA HandedBand == ASSUME Inv, EncodeBand PROVE Handed'
<1>. USE DEF requestVars, docVars, canvasVars, encoderVars
<1>1. /\ stage = "encoding" /\ UNCHANGED <<stage, i, blocks, controls, profile>>
  BY DEF EncodeBand
<1>2. PICK rows \in Nat \ {0} : out' = Append(out, RasterCommand(width, pos, rows)) /\ pos' = pos + rows
  BY BandFacts
<1>3. PICK o, c, p : o = out /\ c = RasterCommand(width, pos, rows) /\ p = Append(o, c) /\ p = out'
  BY <1>2
<1>4. c.cmd = "raster" /\ c.rows = rows
  BY <1>3 DEF RasterCommand
<1>5. o \in Seq(ToSet(o)) /\ \A n \in DOMAIN o : o[n].cmd = "raster" => o[n].rows \in Int
  BY <1>3, RowsTyped DEF Inv, Wired, Grounded, Shapes
<1>6. MarkOf(c, RowsOf(o, Len(o))) = <<>> /\ RowsIn(c) = rows
  BY <1>4 DEF MarkOf, RowsIn
<1>7. Marks(p) = Marks(o) /\ RowsOf(p, Len(p)) = RowsOf(o, Len(o)) + rows
  <2>1. c.cmd = "raster" => c.rows \in Int
    BY <1>4
  <2>2. /\ MarkOf(c, RowsOf(o, Len(o))) = <<>> => Marks(Append(o, c)) = Marks(o)
        /\ RowsOf(Append(o, c), Len(Append(o, c))) = RowsOf(o, Len(o)) + RowsIn(c)
    BY <1>5, <2>1, OneMore, Zenon
  <2>. QED BY <1>3, <1>6, <2>2, Zenon
<1>8. /\ Asks(controls, Len(controls)) = Asks(blocks, Len(blocks))
      /\ EndsWithExplicitCut(controls) <=> EndsInCut
      /\ Marks(o) = Asks(controls, i - 1) /\ RowsOf(o, Len(o)) = pos
  BY <1>1, <1>3, SentMarks DEF Inv, Handed
<1>9. PICK bs, cs, k : bs = blocks /\ cs = controls /\ k = i - 1
  OBVIOUS
<1>10. /\ Asks(controls, Len(controls))' = Asks(cs, Len(cs)) /\ Asks(blocks, Len(blocks))' = Asks(bs, Len(bs))
       /\ Asks(controls, i - 1)' = Asks(cs, k)
  <2>1. /\ Asks(controls, Len(controls))' = Asks(cs, Len(cs))' /\ Asks(blocks, Len(blocks))' = Asks(bs, Len(bs))'
        /\ Asks(controls, i - 1)' = Asks(cs, k)'
    BY <1>1, <1>9
  <2>. QED BY <1>1, <2>1, AsksKept
<1>11. EndsWithExplicitCut(controls)' = EndsWithExplicitCut(controls) /\ EndsInCut' = EndsInCut
  BY <1>1 DEF EndsWithExplicitCut, EndsInCut
<1>12. Sent' = Marks(p)
  BY <1>3, SentMarksNext, Zenon
<1>13. RowsOf(out, Len(out))' = RowsOf(p, Len(p))
  BY <1>3
<1>. QED BY <1>1, <1>2, <1>7, <1>8, <1>9, <1>10, <1>11, <1>12, <1>13 DEF Handed

\* What is asked for is a sequence.
LEMMA AsksTyped == ASSUME NEW N \in Nat, NEW s PROVE \E S : Asks(s, N) \in Seq(S)
<1>. DEFINE w == [k \in 1..N |-> Wanted(s[k].el, s[k].y)]
<1>1. \A k \in 1..N : w[k] = Wanted(s[k].el, s[k].y)
  OBVIOUS
<1>2. Asks(s, N) = Upto(w, N)
  <2>1. [k \in 1..N |-> Wanted(s[k].el, s[k].y)] = [k \in 1..N |-> w[k]]
    OBVIOUS
  <2>. QED BY <2>1, Zenon DEF Asks, Upto
<1>. HIDE DEF w
<1>3. \A k \in 1..N : w[k] \in Seq(ToSet(w[k]))
  BY <1>1, WantedShape, Zenon
<1>4. \E S : Upto(w, N) \in Seq(S)
  <2>1. PICK v : v = w
    OBVIOUS
  <2>2. \E S : Upto(v, N) \in Seq(S)
    BY <1>3, <2>1, UptoTyped
  <2>. QED BY <2>1, <2>2, Zenon
<1>. QED BY <1>2, <1>4, Zenon

\* A control goes out below the rows it stands under, with its own lines or mode.
LEMMA HandedControl == ASSUME Inv, Controls PROVE Handed'
<1>. USE DEF requestVars, docVars, canvasVars, encoderVars
<1>1. /\ stage = "encoding" /\ UNCHANGED <<stage, blocks, controls, profile>>
      /\ out' = out \o ControlCommands(controls[i].el, profile)
      /\ i <= Len(controls) /\ i' = i + 1 /\ pos' = controls[i].y /\ pos >= controls[i].y
  BY DEF Controls, EncodeControl, Fail
<1>2. PICK n \in Nat \ {0} : n = i /\ n \in DOMAIN controls /\ i' - 1 = n
  BY <1>1 DEF Inv, Grounded, Shapes, Stage
<1>3. PICK o, p, bs, cs : o = out /\ p = out' /\ bs = blocks /\ cs = controls
  OBVIOUS
<1>4. PICK el, above : el = cs[n].el /\ above = cs[n].y
  OBVIOUS
<1>13. \/ el.type = "feed" /\ el.lines \in 1..MaxFeedLines
       \/ el.type = "cut" /\ el.mode \in CutModes \cup {""}
  <2>1. \/ controls[n].el.type = "feed" /\ controls[n].el.lines \in 1..MaxFeedLines
        \/ controls[n].el.type = "cut" /\ controls[n].el.mode \in CutModes \cup {""}
    BY <1>2 DEF Inv, Controlled
  <2>. QED BY <1>3, <1>4, <2>1
<1>5. above \in Nat /\ above = pos /\ pos' = pos
  <2>1. controls[n].y \in Nat
    BY <1>2 DEF Inv, Controlled
  <2>2. pos <= controls[n].y
    <3>1. i <= n /\ n \in DOMAIN controls
      BY <1>2
    <3>. QED BY <1>1, <3>1 DEF Inv, Wired
  <2>3. pos \in Nat
    BY DEF Inv, Grounded, TypeOK
  <2>. QED BY <1>1, <1>2, <1>3, <1>4, <2>1, <2>2, <2>3
<1>6. o \in Seq(ToSet(o)) /\ \A k \in DOMAIN o : o[k].cmd = "raster" => o[k].rows \in Int
  BY <1>3, RowsTyped DEF Inv, Wired, Grounded, Shapes
<1>7. /\ Asks(cs, Len(cs)) = Asks(bs, Len(bs))
      /\ EndsWithExplicitCut(controls) <=> EndsInCut
      /\ Marks(o) = Asks(cs, n - 1) /\ RowsOf(o, Len(o)) = above
  BY <1>1, <1>2, <1>3, <1>5, SentMarks DEF Inv, Handed
<1>8. /\ Asks(cs, n) = Asks(cs, n - 1) \o Wanted(el, above)
      /\ Wanted(el, above) = <<>> => Asks(cs, n) = Asks(cs, n - 1)
  BY <1>4, AsksNext
<1>9. Marks(p) = Asks(cs, n) /\ RowsOf(p, Len(p)) = above
  <2>1. CASE ControlCommands(el, profile) = <<>>
    <3>1. Wanted(el, above) = <<>>
      BY <1>13, <2>1 DEF ControlCommands, Wanted
    <3>2. p = o
      BY <1>1, <1>2, <1>3, <1>4, <1>6, <2>1, ConcatEmptySeq
    <3>. QED BY <1>7, <1>8, <3>1, <3>2
  <2>2. ASSUME NEW c, ControlCommands(el, profile) = <<c>>, Wanted(el, above) = <<[above |-> above, command |-> c]>>,
               c.cmd \in {"feed", "cut"}
        PROVE  Marks(p) = Asks(cs, n) /\ RowsOf(p, Len(p)) = above
    <3>1. p = Append(o, c)
      <4>1. p = o \o <<c>>
        BY <1>1, <1>2, <1>3, <1>4, <2>2
      <4>2. o \o <<c>> = Append(o, c)
        BY <1>6, AppendIsConcat
      <4>. QED BY <4>1, <4>2
    <3>2. MarkOf(c, above) = Wanted(el, above) /\ RowsIn(c) = 0 /\ (c.cmd = "raster" => c.rows \in Int)
      BY <2>2 DEF MarkOf, RowsIn
    <3>3. /\ Marks(Append(o, c)) = Marks(o) \o MarkOf(c, RowsOf(o, Len(o)))
          /\ RowsOf(Append(o, c), Len(Append(o, c))) = RowsOf(o, Len(o)) + RowsIn(c)
      BY <1>6, <3>2, OneMore, Zenon
    <3>4. Marks(p) = Asks(cs, n)
      BY <1>7, <1>8, <3>1, <3>2, <3>3, Zenon
    <3>5. RowsOf(p, Len(p)) = above + 0
      BY <1>7, <3>1, <3>2, <3>3, Zenon
    <3>6. above + 0 = above
      BY <1>5
    <3>. QED BY <3>4, <3>5, <3>6, Zenon
  <2>3. CASE el.type = "feed"
    <3>1. el.lines % 256 = el.lines
      BY <1>13, <2>3 DEF MaxFeedLines
    <3>2. PICK c : c = [cmd |-> "feed", lines |-> el.lines]
      OBVIOUS
    <3>3. ControlCommands(el, profile) = <<c>> /\ Wanted(el, above) = <<[above |-> above, command |-> c]>>
      BY <2>3, <3>1, <3>2 DEF ControlCommands, Wanted, FeedCommand, ByteModulus
    <3>. QED BY <2>2, <3>2, <3>3
  <2>4. CASE el.type = "cut" /\ profile.supportsCut
    <3>1. PICK c : c = [cmd |-> "cut", mode |-> IF el.mode = "" THEN profile.defaultCut ELSE el.mode]
      OBVIOUS
    <3>2. ControlCommands(el, profile) = <<c>> /\ Wanted(el, above) = <<[above |-> above, command |-> c]>>
      BY <2>4, <3>1 DEF ControlCommands, Wanted, CutCommand, CutMode
    <3>. QED BY <2>2, <3>1, <3>2
  <2>5. CASE el.type = "cut" /\ ~profile.supportsCut
    <3>1. ControlCommands(el, profile) = <<>>
      BY <2>5 DEF ControlCommands
    <3>. QED BY <2>1, <3>1
  <2>. QED BY <1>13, <2>3, <2>4, <2>5
<1>10. /\ Asks(controls, Len(controls))' = Asks(cs, Len(cs)) /\ Asks(blocks, Len(blocks))' = Asks(bs, Len(bs))
       /\ Asks(controls, i - 1)' = Asks(cs, n)
  <2>1. /\ Asks(controls, Len(controls))' = Asks(cs, Len(cs))' /\ Asks(blocks, Len(blocks))' = Asks(bs, Len(bs))'
        /\ Asks(controls, i - 1)' = Asks(cs, n)'
    BY <1>1, <1>2, <1>3
  <2>. QED BY <1>1, <2>1, AsksKept
<1>11. EndsWithExplicitCut(controls)' = EndsWithExplicitCut(controls) /\ EndsInCut' = EndsInCut
  BY <1>1 DEF EndsWithExplicitCut, EndsInCut
<1>12. Sent' = Marks(p) /\ RowsOf(out, Len(out))' = RowsOf(p, Len(p))
  <2>1. Sent' = Marks(p)
    BY <1>3, SentMarksNext, Zenon
  <2>. QED BY <1>3, <2>1
<1>. QED BY <1>1, <1>5, <1>7, <1>9, <1>10, <1>11, <1>12 DEF Handed

\* The end feeds and cuts below all of it, unless the document ends in a cut.
LEMMA HandedEnd == ASSUME Inv, EndEncode PROVE Handed'
<1>. USE DEF requestVars, docVars, canvasVars, encoderVars
<1>1. /\ stage = "encoding" /\ stage' = "done" /\ UNCHANGED <<blocks, height, profile>>
      /\ i > Len(controls) /\ pos >= height
      /\ out' = out \o AutoCut(controls, profile)
  BY DEF EndEncode
<1>2. PICK o, p, bs, cs : o = out /\ p = out' /\ bs = blocks /\ cs = controls
  OBVIOUS
<1>3. PICK N \in Nat : N = Len(bs)
  BY <1>2 DEF Inv, Grounded, Shapes
<1>4. o \in Seq(ToSet(o)) /\ \A k \in DOMAIN o : o[k].cmd = "raster" => o[k].rows \in Int
  BY <1>2, RowsTyped DEF Inv, Wired, Grounded, Shapes
<1>5. /\ EndsWithExplicitCut(controls) <=> EndsInCut
      /\ Marks(o) = Asks(bs, N) /\ RowsOf(o, Len(o)) = height
  <2>1. i - 1 = Len(controls) /\ pos = height
    <3>1. i \in 1..(Len(controls) + 1)
      BY <1>1 DEF Inv, Grounded, Stage
    <3>2. pos \in Nat /\ height \in Nat /\ pos <= height
      BY DEF Inv, Grounded, TypeOK, Wired
    <3>3. Len(controls) \in Nat
      BY DEF Inv, Grounded, Shapes
    <3>. QED BY <1>1, <3>1, <3>2, <3>3
  <2>. QED BY <1>1, <1>2, <1>3, <2>1, SentMarks DEF Inv, Handed
<1>6. PICK S : Asks(bs, N) \in Seq(S)
  BY <1>3, AsksTyped
<1>7. Marks(p) = Asks(bs, N) \o Closing
  <2>1. CASE ~profile.supportsCut \/ EndsInCut
    <3>1. AutoCut(controls, profile) = <<>> /\ Closing = <<>>
      BY <1>5, <2>1 DEF AutoCut, Closing, EndsInCut
    <3>2. p = o
      BY <1>1, <1>2, <1>4, <3>1, ConcatEmptySeq
    <3>3. Asks(bs, N) \o <<>> = Asks(bs, N)
      BY <1>6, ConcatEmptySeq
    <3>. QED BY <1>5, <3>1, <3>2, <3>3, Zenon
  <2>2. CASE profile.supportsCut /\ ~EndsInCut
    <3>. DEFINE mark(c) == [above |-> height, command |-> c]
    <3>1. PICK f, c : /\ f = [cmd |-> "feed", lines |-> 4]
                      /\ c = [cmd |-> "cut", mode |-> profile.defaultCut]
      OBVIOUS
    <3>2. AutoCut(controls, profile) = <<f, c>> /\ Closing = <<mark(f), mark(c)>>
      <4>1. 4 % 256 = 4
        OBVIOUS
      <4>2. FeedCommand(DefaultFeedLines) = f /\ CutCommand(profile.defaultCut) = c
        BY <3>1, <4>1 DEF FeedCommand, DefaultFeedLines, ByteModulus, CutCommand
      <4>3. AutoCut(controls, profile) = <<f, c>>
        BY <1>5, <2>2, <4>2 DEF AutoCut
      <4>4. Closing = <<mark(f), mark(c)>>
        BY <2>2, <3>1 DEF Closing, EndsInCut
      <4>. QED BY <4>3, <4>4
    <3>3. PICK q : q = Append(o, f)
      OBVIOUS
    <3>4. p = Append(q, c)
      <4>1. p = o \o <<f, c>>
        BY <1>1, <1>2, <3>2
      <4>2. o \o <<f, c>> = Append(Append(o, f), c)
        BY <1>4
      <4>. QED BY <3>3, <4>1, <4>2
    <3>5. /\ MarkOf(f, height) = <<mark(f)>> /\ MarkOf(c, height) = <<mark(c)>>
          /\ RowsIn(f) = 0 /\ f.cmd # "raster" /\ c.cmd # "raster"
      BY <3>1 DEF MarkOf, RowsIn
    <3>6. Marks(q) = Asks(bs, N) \o <<mark(f)>> /\ RowsOf(q, Len(q)) = height
      <4>1. /\ Marks(Append(o, f)) = Marks(o) \o MarkOf(f, RowsOf(o, Len(o)))
            /\ RowsOf(Append(o, f), Len(Append(o, f))) = RowsOf(o, Len(o)) + RowsIn(f)
        BY <1>4, <3>5, OneMore, Zenon
      <4>2. height + 0 = height
        BY DEF Inv, Grounded, TypeOK
      <4>3. Marks(q) = Asks(bs, N) \o <<mark(f)>>
        BY <1>5, <3>3, <3>5, <4>1, Zenon
      <4>4. RowsOf(q, Len(q)) = height + 0
        BY <1>5, <3>3, <3>5, <4>1, Zenon
      <4>. QED BY <4>2, <4>3, <4>4, Zenon
    <3>7. q \in Seq(ToSet(q)) /\ \A k \in DOMAIN q : q[k].cmd = "raster" => q[k].rows \in Int
      <4>1. PICK L \in Nat : L = Len(o) /\ DOMAIN o = 1..L /\ DOMAIN q = 1..(L + 1)
        BY <1>4, <3>3, Appended
      <4>2. q \in Seq(ToSet(q)) /\ (\A k \in 1..L : q[k] = o[k]) /\ q[L + 1] = f
        BY <1>4, <3>3, <4>1, Appended
      <4>3. \A k \in 1..(L + 1) : k \in 1..L \/ k = L + 1
        OBVIOUS
      <4>. QED BY <1>4, <3>5, <4>1, <4>2, <4>3
    <3>8. Marks(p) = (Asks(bs, N) \o <<mark(f)>>) \o <<mark(c)>>
      <4>1. Marks(Append(q, c)) = Marks(q) \o MarkOf(c, RowsOf(q, Len(q)))
        BY <3>5, <3>7, OneMore, Zenon
      <4>. QED BY <3>4, <3>5, <3>6, <4>1, Zenon
    <3>9. (Asks(bs, N) \o <<mark(f)>>) \o <<mark(c)>> = Asks(bs, N) \o <<mark(f), mark(c)>>
      <4>1. PICK x, a, b : x = Asks(bs, N) /\ a = mark(f) /\ b = mark(c)
        OBVIOUS
      <4>2. PICK T : T = S \cup {a, b}
        OBVIOUS
      <4>3. S \subseteq T /\ x \in Seq(S) /\ a \in T /\ b \in T
        BY <1>6, <4>1, <4>2
      <4>4. x \in Seq(T)
        BY <4>3, SeqMonotonic
      <4>. HIDE DEF mark
      <4>5. (x \o <<a>>) \o <<b>> = x \o <<a, b>>
        <5>1. x \o <<a, b>> = Append(Append(x, a), b)
          BY <4>3, <4>4
        <5>2. x \o <<a>> = Append(x, a) /\ Append(x, a) \in Seq(T)
          BY <4>3, <4>4, AppendIsConcat
        <5>3. Append(x, a) \o <<b>> = Append(Append(x, a), b)
          BY <4>3, <5>2, AppendIsConcat
        <5>. QED BY <5>1, <5>2, <5>3
      <4>. QED BY <4>1, <4>5, Zenon
    <3>. QED BY <3>2, <3>8, <3>9, Zenon
  <2>. QED BY <2>1, <2>2
<1>8. Asks(blocks, Len(blocks))' = Asks(bs, N) /\ Closing' = Closing
  <2>1. Asks(blocks, Len(blocks))' = Asks(bs, N)'
    BY <1>1, <1>2, <1>3
  <2>2. Closing' = Closing
    BY <1>1 DEF Closing
  <2>. QED BY <1>1, <2>1, <2>2, AsksKept
<1>9. Sent' = Marks(p)
  BY <1>2, SentMarksNext, Zenon
<1>. QED BY <1>1, <1>7, <1>8, <1>9 DEF Handed

\* Every step hands on what it should.
LEMMA HandedSteps == ASSUME Inv, Next PROVE Handed'
<1>. USE DEF requestVars, docVars, canvasVars, encoderVars
<1>1. CASE \/ \E entry \in Entries : Configure(entry)
           \/ \E m \in Modes, r \in Requests : Submit(m, r)
           \/ Pile \/ GiveUp \/ EndBuild \/ Measures \/ Finish \/ Draws
  <2>1. stage' \notin {"painting", "encoding"} /\ (stage' = "done" => mode' # "print")
    <3>1. stage = "building" => stage \notin {"painting", "encoding", "done"}
      OBVIOUS
    <3>. QED BY <1>1 DEF Configure, Submit, Enter, Pile, Stack, GiveUp, Fail, EndBuild, Measures, MeasureBlock,
                         Finish, Draws, EncodePNG
  <2>. QED BY <2>1 DEF Handed
<1>2. CASE EndMeasure
  <2>1. /\ stage' = "painting" /\ i' = 1 /\ UNCHANGED <<blocks, controls, profile>>
        /\ controls = <<>>
    BY <1>2 DEF EndMeasure, Enter, Inv, Grounded, Empty
  <2>2. PICK bs, cs : bs = blocks /\ cs = controls
    OBVIOUS
  <2>3. Asks(controls, Len(controls))' = Asks(blocks, i - 1)'
    <3>1. Asks(controls, Len(controls))' = Asks(cs, 0)' /\ Asks(blocks, i - 1)' = Asks(bs, 0)'
      <4>1. Len(controls)' = 0 /\ i' - 1 = 0
        BY <2>1, None
      <4>. QED BY <2>1, <2>2, <4>1
    <3>. QED BY <2>1, <3>1, AsksKept, AsksNone
  <2>4. EndsWithExplicitCut(controls)' <=> (i > Len(blocks) /\ EndsInCut)'
    <3>1. ~EndsWithExplicitCut(controls)'
      BY <2>1 DEF EndsWithExplicitCut
    <3>2. blocks # <<>> => Len(blocks) \in Nat \ {0}
      BY EmptySeq DEF Inv, Grounded, Shapes
    <3>3. ~(i > Len(blocks) /\ EndsInCut)'
      BY <2>1, <3>2 DEF EndsInCut
    <3>. QED BY <3>1, <3>3
  <2>. QED BY <2>1, <2>3, <2>4 DEF Handed
<1>3. CASE Encodes
  <2>1. /\ stage = "painting" /\ i > Len(blocks)
        /\ stage' = "encoding" /\ i' = 1 /\ out' = <<InitSequence>> /\ pos' = 0
        /\ UNCHANGED <<blocks, controls, profile>>
    BY <1>3 DEF Encodes, BeginEncode, Painted, Enter, Fail, Inv, Grounded, Empty
  <2>2. PICK bs, cs : bs = blocks /\ cs = controls
    OBVIOUS
  <2>3. i - 1 = Len(blocks)
    BY <2>1 DEF Inv, Grounded, Stage, Shapes
  <2>4. Asks(cs, Len(cs)) = Asks(bs, Len(bs)) /\ (EndsWithExplicitCut(controls) <=> EndsInCut)
    BY <2>1, <2>2, <2>3 DEF Inv, Handed
  <2>5. Asks(controls, Len(controls))' = Asks(blocks, Len(blocks))'
    <3>1. Asks(controls, Len(controls))' = Asks(cs, Len(cs))' /\ Asks(blocks, Len(blocks))' = Asks(bs, Len(bs))'
      BY <2>1, <2>2
    <3>. QED BY <2>1, <2>4, <3>1, AsksKept
  <2>6. (EndsWithExplicitCut(controls) <=> EndsInCut)'
    BY <2>1, <2>4 DEF EndsWithExplicitCut, EndsInCut
  <2>7. Sent' = <<>> /\ RowsOf(out, Len(out))' = 0
    <3>1. Sent' = <<>>
      BY <2>1, SentMarksNext, NothingSent, Zenon
    <3>2. Len(<<InitSequence>>) = 1
      OBVIOUS
    <3>3. RowsOf(out, Len(out))' = RowsOf(<<InitSequence>>, 1)
      BY <2>1, <3>2
    <3>. QED BY <3>1, <3>3, NothingSent, Zenon
  <2>8. Asks(controls, i - 1)' = <<>>
    <3>1. Asks(controls, i - 1)' = Asks(cs, 0)'
      <4>1. i' - 1 = 0
        BY <2>1
      <4>. QED BY <2>1, <2>2, <4>1
    <3>. QED BY <2>1, <3>1, AsksKept, AsksNone
  <2>. QED BY <2>1, <2>5, <2>6, <2>7, <2>8 DEF Handed
<1>. QED BY <1>1, <1>2, <1>3, HandedPainting, HandedBand, HandedControl, HandedEnd, Moves

-----------------------------------------------------------------------------
(***************************************************************************)
(* The invariant, and what it says.                                        *)
(***************************************************************************)

\* The invariant holds before the daemon starts.
LEMMA InvInit == Init => Inv
<1>. SUFFICES ASSUME Init PROVE Inv
  OBVIOUS
<1>1. blocks = <<>> /\ controls = <<>> /\ out = <<>> /\ DOMAIN <<>> = {}
  BY None DEF Init
<1>2. Rasters = {}
  BY <1>1 DEF Rasters
<1>3. Piled
  BY <1>1 DEF Init, Piled, BlocksMeet
<1>4. Measured /\ Inked /\ Controlled
  BY <1>1 DEF Init, Measured, Inked, Controlled
<1>5. Wired
  BY <1>1, <1>2 DEF Init, Wired, Strip
<1>6. Handed
  BY DEF Init, Handed
<1>. QED BY <1>3, <1>4, <1>5, <1>6, GroundedInit DEF Inv

\* Every step keeps it.
LEMMA InvSteps == Inv /\ [Next]_vars => Inv'
<1>1. ASSUME Inv, Next PROVE Inv'
  <2>1. Grounded' /\ TypeOK'
    BY <1>1, GroundedSteps DEF Grounded
  <2>. QED BY <1>1, <2>1, PiledSteps, MeasuredSteps, InkedSteps, ControlledSteps, WiredSteps,
               HandedSteps DEF Inv
<1>2. ASSUME Inv, UNCHANGED vars PROVE Inv'
  <2>. USE <1>2 DEF vars
  <2>1. PageWidth' = PageWidth
    BY DEF PageWidth, Target
  <2>2. Grounded'
    BY DEF Inv, Grounded, TypeOK, Shapes, Stage, Empty
  <2>3. Piled'
    BY <2>1, ExtentKept DEF Inv, Piled, BlocksMeet, NextY
  <2>4. Measured' /\ Inked'
    BY <2>1, ExtentKept DEF Inv, Measured, Inked
  <2>5. Controlled'
    BY DEF Inv, Controlled
  <2>6. Wired'
    BY DEF Inv, Wired, Strip, Rasters, Banded, Below
  <2>7. Handed'
    <3>1. PICK bs, cs, o : bs = blocks /\ cs = controls /\ o = out
      OBVIOUS
    <3>2. /\ Asks(blocks, Len(blocks))' = Asks(bs, Len(bs))' /\ Asks(blocks, i - 1)' = Asks(bs, i - 1)'
          /\ Asks(controls, Len(controls))' = Asks(cs, Len(cs))' /\ Asks(controls, i - 1)' = Asks(cs, i - 1)'
          /\ RowsOf(out, Len(out))' = RowsOf(o, Len(o))
      BY <3>1
    <3>3. Sent' = Marks(o) /\ Sent = Marks(o)
      BY <3>1, SentMarks, SentMarksNext, Zenon
    <3>4. /\ EndsInCut' = EndsInCut /\ EndsWithExplicitCut(controls)' = EndsWithExplicitCut(controls)
          /\ Closing' = Closing
      BY DEF EndsInCut, EndsWithExplicitCut, Closing
    <3>5. /\ Asks(blocks, Len(blocks))' = Asks(blocks, Len(blocks)) /\ Asks(blocks, i - 1)' = Asks(blocks, i - 1)
          /\ Asks(controls, Len(controls))' = Asks(controls, Len(controls))
          /\ Asks(controls, i - 1)' = Asks(controls, i - 1)
      <4>1. \A s, n : Asks(s, n)' = Asks(s, n)
        BY AsksKept
      <4>2. PICK k : k = i - 1
        OBVIOUS
      <4>. QED BY <3>1, <3>2, <4>1, <4>2
    <3>. QED BY <3>1, <3>2, <3>3, <3>4, <3>5 DEF Inv, Handed
  <2>. QED BY <2>2, <2>3, <2>4, <2>5, <2>6, <2>7 DEF Inv
<1>. QED BY <1>1, <1>2

\* The inductive invariant: the document, the canvas, the controls and the
\* commands agree at every stage, for all receipts, printers and pictures.
THEOREM InvHolds == Spec => []Inv
<1>. QED BY InvInit, InvSteps, PTL DEF Spec

\* Rows, dots and positions are natural numbers and every size is positive,
\* for any receipt, printer, picture and asset.
THEOREM TypesKept == Spec => []TypeOK
<1>1. Inv => TypeOK
  BY DEF Inv, Grounded
<1>. QED BY <1>1, InvHolds, PTL

\* The offsets Build hands out and the rows Paint takes agree, block by block,
\* whatever the receipt is made of.
THEOREM BlocksMeetAlways == Spec => []BlocksMeet
<1>1. Inv => BlocksMeet
  BY DEF Inv, Piled
<1>. QED BY <1>1, InvHolds, PTL

\* No block is painted over another or off the end of the canvas.
THEOREM InkStaysApart == Spec => []InkApart
<1>1. ASSUME Inv PROVE InkApart
  <2>1. ASSUME NEW a \in ink, FrameFillsHeader(blocks[a.block].el) PROVE 0 <= a.y0 /\ a.y1 <= height
    BY <1>1 DEF Inv, Inked
  <2>2. ASSUME NEW a \in ink, FrameFillsHeader(blocks[a.block].el), NEW b \in ink, a.block < b.block
        PROVE  a.y1 <= b.y0
    <3>1. PICK m, n : m = a.block /\ n = b.block
      OBVIOUS
    <3>2. PICK L \in Nat : L = Len(blocks) /\ DOMAIN blocks = 1..L
      BY <1>1 DEF Inv, Grounded, Shapes
    <3>3. /\ m \in 1..L /\ n \in 1..L /\ m < n
          /\ a.y1 \in Nat /\ b.y0 \in Nat
          /\ a.y1 <= blocks[m].y + Extent(blocks[m]) /\ blocks[n].y <= b.y0
      BY <1>1, <2>2, <3>1, <3>2 DEF Inv, Inked
    <3>4. m # L /\ m + 1 \in 1..L /\ m + 1 <= n
      BY <3>3
    <3>5. blocks[m + 1].y = blocks[m].y + Extent(blocks[m])
      BY <1>1, <2>2, <3>1, <3>2, <3>3, <3>4 DEF Inv, Piled, BlocksMeet, NextY
    <3>6. blocks[m + 1].y <= blocks[n].y
      BY <1>1, <3>2, <3>3, <3>4 DEF Inv, Piled
    <3>7. blocks[m + 1].y \in Nat /\ blocks[n].y \in Nat
      BY <1>1, <3>2, <3>3, <3>4 DEF Inv, Grounded, Shapes, IsBlock
    <3>. QED BY <3>3, <3>5, <3>6, <3>7
  <2>. QED BY <2>1, <2>2 DEF InkApart
<1>. QED BY <1>1, InvHolds, PTL

\* Where every frame fills its header, a block starts below the rows of those above it.
LEMMA OffsetsAdd ==
  ASSUME Inv, \A b \in ToSet(blocks) : FrameFillsHeader(b.el)
  PROVE  Asked = Asks(blocks, Len(blocks))
<1>1. PICK N \in Nat : N = Len(blocks) /\ DOMAIN blocks = 1..N
  BY DEF Inv, Grounded, Shapes
<1>2. \A n \in 1..N : Extent(blocks[n]) \in Int /\ blocks[n].y \in Int /\ FrameFillsHeader(blocks[n].el)
  <2>. SUFFICES ASSUME NEW n \in 1..N
                PROVE  Extent(blocks[n]) \in Int /\ blocks[n].y \in Int /\ FrameFillsHeader(blocks[n].el)
    OBVIOUS
  <2>1. IsBlock(blocks[n]) /\ blocks[n] \in ToSet(blocks)
    BY <1>1 DEF Inv, Grounded, Shapes, ToSet
  <2>2. Extent(blocks[n]) \in Nat
    BY <2>1, BlockMeasured, PageTyped DEF Inv
  <2>3. blocks[n].y \in Nat
    BY <2>1 DEF IsBlock
  <2>. QED BY <2>1, <2>2, <2>3
<1>. DEFINE e == [k \in 1..N |-> Extent(blocks[k])]
<1>3. e \in [1..N -> Int] /\ \A k \in 1..N : e[k] = Extent(blocks[k])
  BY <1>2
<1>4. \A n \in 1..N : [k \in 1..(n - 1) |-> Extent(blocks[k])] = [k \in 1..(n - 1) |-> e[k]]
  OBVIOUS
<1>. HIDE DEF e
<1>5. PICK q \in [1..N -> Int] : q = e
  BY <1>3
<1>6. PICK f :
        /\ f[0] = 0
        /\ \A n \in 1..N : f[n] = f[n - 1] + q[n]
        /\ \A n \in 0..N : f[n] \in Int /\ SumOf([k \in 1..n |-> q[k]]) = f[n]
  BY SumPrefixes
<1>7. ASSUME NEW n \in 1..N PROVE RowsAbove(n) = f[n - 1]
  <2>1. RowsAbove(n) = SumOf([k \in 1..(n - 1) |-> e[k]])
    BY <1>4, Zenon DEF RowsAbove
  <2>2. n - 1 \in 0..N
    OBVIOUS
  <2>. QED BY <1>5, <1>6, <2>1, <2>2, Zenon
<1>. DEFINE U == {n \in 0..N : n # 0 => blocks[n].y = f[n - 1]}
<1>8. ASSUME NEW n \in 1..N, n - 1 \in U PROVE n \in U
  <2>1. CASE n = 1
    <3>1. blocks # <<>>
      BY <1>1, None
    <3>2. blocks[1].y = 0
      BY <3>1 DEF Inv, Piled, BlocksMeet
    <3>. QED BY <1>6, <2>1, <3>2
  <2>2. CASE n # 1
    <3>1. n - 1 \in 1..N /\ n - 1 # N /\ (n - 1) + 1 = n /\ n \in 0..N
      BY <2>2
    <3>2. blocks[n - 1].y = f[(n - 1) - 1]
      BY <1>8, <2>2
    <3>3. blocks[n].y = blocks[n - 1].y + Extent(blocks[n - 1])
      <4>1. \A k \in DOMAIN blocks : FrameFillsHeader(blocks[k].el) => NextY(k) = blocks[k].y + Extent(blocks[k])
        BY DEF Inv, Piled, BlocksMeet
      <4>2. NextY(n - 1) = blocks[n].y
        BY <1>1, <3>1 DEF NextY
      <4>. QED BY <1>1, <1>2, <3>1, <4>1, <4>2
    <3>4. f[n - 1] = f[(n - 1) - 1] + Extent(blocks[n - 1])
      BY <1>3, <1>5, <1>6, <3>1
    <3>. QED BY <3>1, <3>2, <3>3, <3>4
  <2>. QED BY <2>1, <2>2
<1>9. 0..N \subseteq U
  <2>1. 0 \in U
    OBVIOUS
  <2>. HIDE DEF U
  <2>. QED BY <1>8, <2>1, BoundedInduction
<1>10. \A n \in 1..N : blocks[n].y = RowsAbove(n)
  <2>. SUFFICES ASSUME NEW n \in 1..N PROVE blocks[n].y = RowsAbove(n)
    OBVIOUS
  <2>1. n \in 0..N /\ n # 0
    OBVIOUS
  <2>2. blocks[n].y = f[n - 1]
    BY <1>9, <2>1
  <2>. QED BY <1>7, <2>2
<1>11. [n \in DOMAIN blocks |-> Wanted(blocks[n].el, RowsAbove(n))]
         = [k \in 1..Len(blocks) |-> Wanted(blocks[k].el, blocks[k].y)]
  BY <1>1, <1>10
<1>. QED BY <1>11, Zenon DEF Asked, Asks

\* Feeds and cuts come out in the order of the receipt, each below exactly the
\* rows of what stands above it, and a printer with a cutter cuts once at the end,
\* whatever the document, the printer and the bands.
THEOREM ControlsStayInPlace == Spec => []ControlsInPlace
<1>1. ASSUME Inv PROVE ControlsInPlace
  <2>. SUFFICES ASSUME \A b \in ToSet(blocks) : FrameFillsHeader(b.el)
                PROVE  /\ stage = "encoding" => IsPrefix(Sent, Asked)
                       /\ stage = "done" /\ mode = "print" => Sent = Asked \o Closing
    BY DEF ControlsInPlace
  <2>1. Asked = Asks(blocks, Len(blocks))
    BY <1>1, OffsetsAdd
  <2>2. ASSUME stage = "encoding" PROVE IsPrefix(Sent, Asked)
    <3>0. PICK cs, N : cs = controls /\ N = Len(controls) /\ N \in Nat
      BY <1>1 DEF Inv, Grounded, Shapes
    <3>1. PICK k \in 0..N : k = i - 1
      BY <1>1, <2>2, <3>0 DEF Inv, Grounded, Shapes, Stage
    <3>2. IsPrefix(Asks(cs, k), Asks(cs, N))
      BY <3>0, AsksStart
    <3>3. Sent = Asks(cs, k) /\ Asked = Asks(cs, N)
      BY <1>1, <2>1, <2>2, <3>0, <3>1 DEF Inv, Handed
    <3>. QED BY <3>2, <3>3
  <2>3. stage = "done" /\ mode = "print" => Sent = Asked \o Closing
    BY <1>1, <2>1 DEF Inv, Handed
  <2>. QED BY <2>2, <2>3
<1>. QED BY <1>1, InvHolds, PTL

\* A profile's limit is a natural number.
LEMMA LimitTyped == ASSUME Inv PROVE profile.max \in Nat
<1>1. IF stage = "off" THEN profile = ZeroProfile ELSE IsProfile(profile)
  BY DEF Inv, Grounded, Stage
<1>2. ZeroProfile.max = 0
  BY DEF ZeroProfile
<1>. QED BY <1>1, <1>2 DEF IsProfile

\* The printer gets every row of the canvas once and in order, in bands it can
\* take, wherever the feeds and cuts are.
THEOREM RowsSentOnce == Spec => []RowsOnce
<1>1. ASSUME Inv PROVE RowsOnce
  <2>1. pos \in Nat /\ height \in Nat /\ Strip
    BY <1>1 DEF Inv, Grounded, TypeOK, Wired
  <2>2. ASSUME NEW n \in Rasters
        PROVE  out[n].rows > 0 /\ (profile.max > 0 => out[n].rows <= profile.max)
    <3>1. PICK from \in Nat, rows \in Nat \ {0} : /\ out[n] = RasterCommand(width, from, rows)
                                                  /\ rows <= BandHeight(height, profile.max)
      BY <2>1 DEF Strip, Banded
    <3>2. out[n].rows = rows
      BY <3>1 DEF RasterCommand
    <3>3. profile.max \in Nat
      BY <1>1, LimitTyped
    <3>. QED BY <2>1, <3>1, <3>2, <3>3 DEF BandHeight
  <2>3. stage = "done" /\ mode = "print" =>
          \E n \in Rasters : Below(n) = height /\ \A m \in Rasters : m <= n
    BY <1>1 DEF Inv, Wired, Strip
  <2>. QED BY <2>1, <2>2, <2>3 DEF RowsOnce, Strip
<1>. QED BY <1>1, InvHolds, PTL

\* A number below the modulus survives a two-byte field.
LEMMA Field == \A n \in Nat : n < FieldModulus => n % FieldModulus = n
BY DEF FieldModulus

\* The two-byte fields of a raster command say what follows them, within the
\* bounds FieldsExact names.
THEOREM FieldsSayWhatFollows == Spec => []FieldsExact
<1>1. ASSUME Inv PROVE FieldsExact
  <2>1. /\ height \in Nat /\ width \in Nat /\ Strip /\ profile.max \in Nat
    BY <1>1, LimitTyped DEF Inv, Grounded, TypeOK, Wired
  <2>2. RowBytes(width) \in Nat
    BY <2>1, Quotients DEF RowBytes
  <2>3. ASSUME NEW n \in Rasters
        PROVE  /\ height < FieldModulus \/ profile.max \in 1..(FieldModulus - 1) => out[n].rowsSent = out[n].rows
               /\ RowBytes(width) < FieldModulus => out[n].widthSent = RowBytes(width)
    <3>1. PICK from \in Nat, rows \in Nat \ {0} : /\ out[n] = RasterCommand(width, from, rows)
                                                  /\ rows <= BandHeight(height, profile.max)
      BY <2>1 DEF Strip, Banded
    <3>2. /\ out[n].rows = rows /\ out[n].rowsSent = rows % FieldModulus
          /\ out[n].widthSent = RowBytes(width) % FieldModulus
      BY <3>1 DEF RasterCommand
    <3>3. ASSUME height < FieldModulus \/ profile.max \in 1..(FieldModulus - 1) PROVE rows < FieldModulus
      <4>1. PICK h \in Nat, m \in Nat : h = height /\ m = profile.max
        BY <2>1
      <4>2. rows <= (IF m <= 0 \/ m >= h THEN h ELSE m)
        BY <3>1, <4>1 DEF BandHeight
      <4>3. CASE h < FieldModulus
        BY <4>2, <4>3 DEF FieldModulus
      <4>4. CASE m \in 1..(FieldModulus - 1)
        <5>1. m > 0 /\ m < FieldModulus
          <6>1. PICK F \in Nat : F = FieldModulus
            BY DEF FieldModulus
          <6>. QED BY <4>4, <6>1
        <5>2. rows <= m
          BY <4>2, <5>1
        <5>. QED BY <5>1, <5>2 DEF FieldModulus
      <4>. QED BY <3>3, <4>1, <4>3, <4>4
    <3>. QED BY <2>2, <3>1, <3>2, <3>3, Field
  <2>. QED BY <2>3 DEF FieldsExact
<1>. QED BY <1>1, InvHolds, PTL

\* A request that passed Validate fails for a cause Validate cannot see.
THEOREM FailuresHaveCauses == Spec => []FailsForCause
<1>. USE DEF requestVars, docVars, canvasVars, encoderVars
<1>1. Init => FailsForCause
  BY DEF Init, FailsForCause
<1>2. ASSUME Inv, FailsForCause, Next PROVE FailsForCause'
  <2>1. ASSUME NEW m \in Modes, NEW r \in Requests, Submit(m, r) PROVE FailsForCause'
    BY <1>2, <2>1 DEF Submit, Enter, Inv, Grounded, Empty, FailsForCause
  <2>2. ASSUME GiveUp PROVE FailsForCause'
    <3>1. PICK kind : Cause(kind) /\ Fail(kind)
      BY <2>2 DEF GiveUp
    <3>2. failure' = kind /\ UNCHANGED <<profile, mode, receipt, blocks, width>>
      BY <3>1 DEF Fail
    <3>3. PageWidth' = PageWidth
      BY <3>2 DEF PageWidth, Target
    <3>. QED BY <3>1, <3>2, <3>3, ExtentKept DEF Cause, FailsForCause
  <2>3. ASSUME \/ \E entry \in Entries : Configure(entry)
               \/ Pile \/ EndBuild \/ Measures \/ EndMeasure \/ PaintBlock
               \/ Encodes \/ Draws \/ EncodeBand \/ Controls \/ EndEncode \/ Finish
        PROVE  FailsForCause'
    <3>1. stage' # "failed"
      BY <2>3 DEF Configure, Pile, Stack, EndBuild, Enter, Measures, MeasureBlock, EndMeasure,
                  PaintBlock, Painted, Encodes, Draws, EncodeBand, Controls, EndEncode, Finish
    <3>. QED BY <3>1 DEF FailsForCause
  <2>. QED BY <1>2, <2>1, <2>2, <2>3, Moves
<1>3. ASSUME FailsForCause, UNCHANGED vars PROVE FailsForCause'
  <2>1. PageWidth' = PageWidth
    BY <1>3 DEF vars, PageWidth, Target
  <2>. QED BY <1>3, <2>1, ExtentKept DEF vars, FailsForCause
<1>4. Inv /\ FailsForCause /\ [Next]_vars => FailsForCause'
  BY <1>2, <1>3
<1>. QED BY <1>1, <1>4, InvHolds, PTL DEF Spec

\* No loop of the pipeline goes round for ever.
THEOREM RequestsEnd == Spec => RequestEnds
<1>. USE DEF requestVars, docVars, canvasVars, encoderVars
<1>. DEFINE Forward == {stage, stage'} \subseteq DOMAIN Rank =>
                         \/ Rank[stage'] < Rank[stage]
                         \/ stage' = stage /\ Left' \in 0..(Left - 1)
<1>1. ASSUME Inv, Next PROVE Forward
  <2>1. /\ Grounded /\ Shapes /\ Stage
        /\ i \in Nat /\ pos \in Nat /\ height \in Nat /\ pos <= height
    BY <1>1 DEF Inv, Grounded, TypeOK, Wired
  <2>2. DOMAIN Rank = {"building", "measuring", "painting", "encoding"}
        /\ Rank["building"] = 4 /\ Rank["measuring"] = 3 /\ Rank["painting"] = 2 /\ Rank["encoding"] = 1
    BY DEF Rank
  <2>3. CASE Pile
    <3>1. /\ stage = "building" /\ stage' = "building" /\ i' = i + 1 /\ receipt' = receipt
          /\ i <= Len(receipt.elements)
      BY <2>3 DEF Pile, Stack
    <3>2. PICK N \in Nat : N = Len(receipt.elements)
      BY <2>1, <3>1, RequestsAssumption DEF Stage
    <3>3. Left = N + 1 - i /\ Left' = N + 1 - (i + 1)
      BY <3>1, <3>2 DEF Left
    <3>4. Left' \in 0..(Left - 1)
      <4>1. i <= N /\ i \in Nat
        BY <2>1, <3>1, <3>2
      <4>. QED BY <3>3, <4>1
    <3>. QED BY <3>1, <3>4
  <2>4. CASE Measures \/ PaintBlock
    <3>1. /\ stage \in {"measuring", "painting"} /\ stage' = stage /\ i' = i + 1 /\ blocks' = blocks
          /\ i <= Len(blocks)
      BY <2>4 DEF Measures, MeasureBlock, Fail, PaintBlock
    <3>2. PICK N \in Nat : N = Len(blocks)
      BY <2>1 DEF Shapes
    <3>3. Left = N + 1 - i /\ Left' = N + 1 - (i + 1)
      BY <3>1, <3>2 DEF Left
    <3>. QED BY <2>1, <3>1, <3>2, <3>3
  <2>5. CASE EncodeBand
    <3>1. PICK rows \in Nat \ {0} : pos + rows <= BandsEnd /\ BandsEnd <= height /\ pos' = pos + rows
      BY <1>1, <2>5, BandFacts
    <3>2. stage = "encoding" /\ stage' = "encoding" /\ UNCHANGED <<i, controls, height>>
      BY <2>5 DEF EncodeBand
    <3>3. PICK N \in Nat : N = Len(controls) /\ i <= N + 1
      BY <2>1, <3>2 DEF Shapes, Stage
    <3>4. pos' \in Nat /\ pos' <= height
      <4>1. TypeOK' /\ Wired'
        BY <1>1, GroundedSteps, WiredSteps DEF Grounded
      <4>. QED BY <3>2, <4>1 DEF TypeOK, Wired
    <3>5. Left = N + 1 - i + height - pos /\ Left' = N + 1 - i + height - (pos + rows)
      BY <3>1, <3>2, <3>3 DEF Left
    <3>. QED BY <2>1, <3>1, <3>2, <3>3, <3>4, <3>5
  <2>6. CASE Controls
    <3>1. /\ stage = "encoding" /\ stage' = "encoding" /\ i' = i + 1 /\ i <= Len(controls)
          /\ pos >= controls[i].y /\ pos' = controls[i].y
          /\ UNCHANGED <<controls, height>>
      BY <2>6 DEF Controls, EncodeControl, Fail
    <3>2. PICK N \in Nat : N = Len(controls) /\ i \in DOMAIN controls
      BY <2>1, <3>1 DEF Shapes, Stage
    <3>3. pos' = pos
      <4>1. i <= i
        BY <2>1
      <4>2. pos <= controls[i].y /\ controls[i].y \in Nat
        BY <1>1, <3>1, <3>2, <4>1 DEF Inv, Wired, Controlled
      <4>. QED BY <2>1, <3>1, <4>2
    <3>4. Left = N + 1 - i + height - pos /\ Left' = N + 1 - (i + 1) + height - pos
      BY <3>1, <3>2, <3>3 DEF Left
    <3>. QED BY <2>1, <3>1, <3>2, <3>4
  <2>7. CASE EndBuild \/ EndMeasure \/ Encodes
    <3>1. \/ stage = "building" /\ stage' = "measuring"
          \/ stage = "measuring" /\ stage' = "painting"
          \/ stage = "painting" /\ stage' = "encoding"
      BY <2>7 DEF EndBuild, EndMeasure, Encodes, BeginEncode, Painted, Enter
    <3>. QED BY <2>2, <3>1
  <2>8. CASE \/ \E entry \in Entries : Configure(entry)
             \/ \E m \in Modes, r \in Requests : Submit(m, r)
             \/ GiveUp \/ Draws \/ EndEncode \/ Finish
    <3>1. stage \in {"off", "idle", "done", "failed"} \/ stage' \in {"failed", "done"}
      BY <2>8 DEF Configure, Submit, GiveUp, Fail, Draws, EndEncode, Finish
    <3>. QED BY <2>2, <3>1
  <2>. QED BY <1>1, <2>3, <2>4, <2>5, <2>6, <2>7, <2>8, Moves
<1>2. Inv /\ [Next]_vars => [Forward]_vars
  BY <1>1
<1>. QED BY <1>2, InvHolds, PTL DEF Spec, RequestEnds

(***************************************************************************)
(* The lines of an element.                                                *)
(***************************************************************************)

\* A step of Build that stacks is the one of its element's type.
LEMMA StackedBy ==
  ASSUME Next, Stacked
  PROVE  /\ i <= Len(receipt.elements)
         /\ El.type = "text" => BuildText
         /\ El.type = "heading" => BuildHeading
         /\ El.type = "table" => BuildTable
         /\ El.type = "list" => BuildList
         /\ El.type = "columns" => ColumnsSupported(El) /\ StackLines(ColumnsLines(El, PageWidth), {}, 1)
<1>1. stage = "building" /\ stage' = "building" /\ i' = i + 1
  BY DEF Stacked
<1>2. Build
  <2>1. ~Paint /\ ~Encode /\ ~Finish
    BY <1>1 DEF Paint, MeasureBlock, EndMeasure, PaintBlock, Encode, BeginEncode, EncodePNG, Painted,
                EncodeBand, EncodeControl, EndEncode, Finish
  <2>2. \A entry \in Entries : ~Configure(entry)
    BY <1>1 DEF Configure
  <2>3. \A m \in Modes, r \in Requests : ~Submit(m, r)
    BY <1>1 DEF Submit
  <2>. QED BY <2>1, <2>2, <2>3 DEF Next
<1>3. ~EndBuild /\ \A kind : ~Fail(kind)
  BY <1>1 DEF EndBuild, Enter, Fail
<1>4. i <= Len(receipt.elements)
  BY <1>2, <1>3 DEF Build, BuildText, BuildHeading, BuildTable, BuildList, BuildColumns, BuildSpacer, BuildDivider,
                    BuildControl, BuildImage, BuildQRCode, BuildBarcode, BuildAsset, AssetFails, Building
<1>5. /\ \A t : Building(t) => El.type = t
      /\ BuildSpacer \/ BuildDivider \/ BuildControl \/ BuildImage \/ BuildQRCode \/ BuildBarcode
           \/ (\E data \in AssetData : BuildAsset(data)) \/ (\E kind \in {"not_found", "permanent"} : AssetFails(kind))
           => El.type \notin {"text", "heading", "table", "list", "columns"}
  <2>1. \A t : Building(t) => El.type = t
    BY DEF Building
  <2>. QED BY <2>1 DEF BuildSpacer, BuildDivider, BuildControl, BuildImage, BuildQRCode, BuildBarcode,
                       BuildAsset, AssetFails
<1>6. /\ BuildText => El.type = "text"
      /\ BuildHeading => El.type = "heading"
      /\ BuildTable => El.type = "table"
      /\ BuildList => El.type = "list"
      /\ BuildColumns => El.type = "columns"
  BY <1>5 DEF BuildText, BuildHeading, BuildTable, BuildList, BuildColumns
<1>7. BuildColumns => ColumnsSupported(El) /\ StackLines(ColumnsLines(El, PageWidth), {}, 1)
  BY <1>3 DEF BuildColumns
<1>. QED BY <1>2, <1>3, <1>4, <1>5, <1>6, <1>7 DEF Build

\* The lines stacked are the ones the blocks hold.
LEMMA LinesRead ==
  ASSUME Shapes, NEW lines \in Seq(Line), NEW deco, NEW size, StackLines(lines, deco, size)
  PROVE  NewLines = lines
<1>. DEFINE new == [k \in DOMAIN lines |-> LineBlock(lines[k], deco, size, y + (k - 1) * LineHeight * size)]
<1>1. blocks' = blocks \o new
  BY Zenon DEF StackLines, Stack
<1>2. PICK N \in Nat, M \in Nat : N = Len(blocks) /\ M = Len(lines) /\ DOMAIN lines = 1..M /\ lines = [k \in 1..M |-> lines[k]]
  <2>1. Len(blocks) \in Nat
    BY DEF Shapes
  <2>2. Len(lines) \in Nat /\ DOMAIN lines = 1..Len(lines) /\ lines = [k \in 1..Len(lines) |-> lines[k]]
    OBVIOUS
  <2>. QED BY <2>1, <2>2, Zenon
<1>3. \A k \in 1..M : new[k].el.line = lines[k]
  BY <1>2 DEF LineBlock
<1>4. new = [k \in 1..M |-> new[k]] /\ new \in Seq(ToSet(new)) /\ Len(new) = M
  <2>1. new = [k \in 1..M |-> new[k]] /\ \A k \in 1..M : new[k] \in ToSet(new)
    BY <1>2 DEF ToSet
  <2>. HIDE DEF new
  <2>2. [k \in 1..M |-> new[k]] \in Seq(ToSet(new)) /\ Len([k \in 1..M |-> new[k]]) = M
    BY <2>1, IsASeq
  <2>. QED BY <2>1, <2>2
<1>. HIDE DEF new
<1>5. PICK S : blocks \in Seq(S) /\ new \in Seq(S)
  <2>1. ToSet(blocks) \subseteq (ToSet(blocks) \cup ToSet(new)) /\ ToSet(new) \subseteq (ToSet(blocks) \cup ToSet(new))
    OBVIOUS
  <2>2. blocks \in Seq(ToSet(blocks))
    BY DEF Shapes
  <2>. QED BY <1>4, <2>1, <2>2, SeqMonotonic, Zenon
<1>6. Len(blocks') = N + M /\ \A k \in 1..M : blocks'[N + k] = new[k]
  <2>1. PICK a \in Seq(S), b \in Seq(S) : a = blocks /\ b = new
    BY <1>5
  <2>2. Len(a \o b) = N + M /\ \A k \in 1..M : (a \o b)[N + k] = b[k]
    BY <1>2, <1>4, <2>1
  <2>. QED BY <1>1, <2>1, <2>2, Zenon
<1>7. SubSeq(blocks', Len(blocks) + 1, Len(blocks')) = new
  <2>1. PICK all : all = blocks'
    OBVIOUS
  <2>2. SubSeq(all, N + 1, N + M) = [k \in 1..M |-> all[N + k]]
    <3>1. SubSeq(all, N + 1, N + M) = [k \in 1..((1 + (N + M)) - (N + 1)) |-> all[(k + (N + 1)) - 1]]
      OBVIOUS
    <3>2. (1 + (N + M)) - (N + 1) = M /\ \A k \in 1..M : (k + (N + 1)) - 1 = N + k
      OBVIOUS
    <3>. QED BY <3>1, <3>2
  <2>3. [k \in 1..M |-> all[N + k]] = [k \in 1..M |-> new[k]]
    BY <1>6, <2>1
  <2>. QED BY <1>2, <1>4, <1>6, <2>1, <2>2, <2>3
<1>8. [k \in DOMAIN new |-> new[k].el.line] = lines
  <2>1. DOMAIN new = 1..M
    BY <1>4
  <2>. QED BY <1>2, <1>3, <2>1
<1>. QED BY <1>7, <1>8, Zenon DEF NewLines

\* The element has the Go type its case of Build reads.
LEMMA Lined ==
  ASSUME Grounded, stage = "building", i <= Len(receipt.elements)
  PROVE  /\ PageWidth \in Int
         /\ El.type \in {"text", "heading"} => El.content \in Content
         /\ El.type = "text" => El.size \in Int
         /\ El.type = "table" =>
              /\ El.headers \in Seq(Content) /\ El.rows \in Seq(Seq(Content)) /\ El.headers # <<>>
              /\ \A r \in DOMAIN El.rows : Len(El.rows[r]) = Len(El.headers)
         /\ El.type = "list" =>
              /\ El.items \in Seq(ToSet(El.items))
              /\ \A item \in ToSet(El.items) : item.content \in Content /\ item.indent \in Nat
         /\ El.type = "columns" =>
              /\ El.columns \in Seq(ToSet(El.columns)) /\ El.columns # <<>>
              /\ \A col \in ToSet(El.columns) : col.weight \in Nat /\ col.elements \in Seq(ToSet(col.elements))
              /\ ColumnsSupported(El) =>
                   \A col \in ToSet(El.columns) : \A inner \in ToSet(col.elements) : inner.content \in Content
<1>1. LocallyValid(El) /\ Typed(El)
  BY ElementFacts
<1>2. PageWidth \in Int
  BY PageTyped
<1>3. El.type \in {"text", "heading"} => El.content \in Content
  BY <1>1 DEF Typed
<1>4. ASSUME El.type = "text" PROVE El.size \in Int
  <2>1. TextValid(El)
    BY <1>1, <1>4 DEF LocallyValid
  <2>2. El.size \in 0..MaxTextSize
    BY <2>1 DEF TextValid
  <2>3. \A n \in 0..MaxTextSize : n \in Int
    BY DEF MaxTextSize
  <2>. QED BY <2>2, <2>3, Zenon
<1>5. ASSUME El.type = "table"
      PROVE  /\ El.headers \in Seq(Content) /\ El.rows \in Seq(Seq(Content)) /\ El.headers # <<>>
             /\ \A r \in DOMAIN El.rows : Len(El.rows[r]) = Len(El.headers)
  <2>1. TableValid(El)
    BY <1>1, <1>5 DEF LocallyValid
  <2>. QED BY <1>1, <1>5, <2>1, Zenon DEF Typed, TableValid
<1>6. ASSUME El.type = "list"
      PROVE  /\ El.items \in Seq(ToSet(El.items))
             /\ \A item \in ToSet(El.items) : item.content \in Content /\ item.indent \in Nat
  <2>1. ListValid(El)
    BY <1>1, <1>6 DEF LocallyValid
  <2>2. \A n \in DOMAIN El.items : El.items[n].indent \in 0..MaxListIndent
    BY <2>1 DEF ListValid, ListItemValid
  <2>3. \A n \in DOMAIN El.items : El.items[n].indent \in Nat
    BY <2>2, Bounded DEF MaxListIndent
  <2>4. \A item \in ToSet(El.items) : item.indent \in Nat
    BY <2>3 DEF ToSet
  <2>. QED BY <1>1, <1>6, <2>4 DEF Typed
<1>7. ASSUME El.type = "columns"
      PROVE  /\ El.columns \in Seq(ToSet(El.columns)) /\ El.columns # <<>>
             /\ \A col \in ToSet(El.columns) : col.weight \in Nat /\ col.elements \in Seq(ToSet(col.elements))
             /\ ColumnsSupported(El) =>
                  \A col \in ToSet(El.columns) : \A inner \in ToSet(col.elements) : inner.content \in Content
  <2>1. ColumnsValid(El)
    BY <1>1, <1>7 DEF LocallyValid
  <2>2. /\ El.columns \in Seq(ToSet(El.columns))
        /\ \A col \in ToSet(El.columns) : col.weight \in Int /\ col.elements \in Seq(ToSet(col.elements))
        /\ \A inner \in Nested(El) : inner.type = "text" => inner.content \in Content
    BY <1>1, <1>7 DEF Typed
  <2>3. ASSUME ColumnsSupported(El), NEW col \in ToSet(El.columns), NEW inner \in ToSet(col.elements)
        PROVE  inner.content \in Content
    <3>1. inner \in Nested(El)
      BY <1>7, <2>3 DEF Nested, ToSet
    <3>. QED BY <2>2, <2>3, <3>1 DEF ColumnsSupported
  <2>4. \A col \in ToSet(El.columns) : col.weight >= 0
    BY <2>1 DEF ColumnsValid, ToSet
  <2>5. \A col \in ToSet(El.columns) : col.weight \in Nat
    BY <2>2, <2>4
  <2>6. El.columns # <<>>
    BY <2>1 DEF ColumnsValid
  <2>. QED BY <2>2, <2>3, <2>5, <2>6, Zenon
<1>. QED BY <1>2, <1>3, <1>4, <1>5, <1>6, <1>7, Zenon

\* What each kind of element is laid out as.
LEMMA Laid ==
  ASSUME Inv, Next, Stacked
  PROVE  /\ Grounded /\ stage = "building" /\ i <= Len(receipt.elements)
         /\ El.type = "text" => NewLines = TextLines(El, PageWidth)
         /\ El.type = "heading" => NewLines = HeadingLines(El, PageWidth)
         /\ El.type = "table" => NewLines = TableLines(El, PageWidth)
         /\ El.type = "list" => NewLines = ListLines(El, PageWidth)
         /\ El.type = "columns" => ColumnsSupported(El) /\ NewLines = ColumnsLines(El, PageWidth)
<1>1. Grounded /\ Shapes /\ stage = "building" /\ i <= Len(receipt.elements)
  BY StackedBy DEF Inv, Grounded, Stacked
<1>2. ASSUME El.type = "text" PROVE NewLines = TextLines(El, PageWidth)
  <2>1. TextLines(El, PageWidth) \in Seq(Line)
    BY <1>1, <1>2, Lined, TextLinesTyped
  <2>2. StackLines(TextLines(El, PageWidth), El.deco, ResolveSize(El.size))
    BY <1>2, StackedBy DEF BuildText
  <2>. QED BY <1>1, <2>1, <2>2, LinesRead
<1>3. ASSUME El.type = "heading" PROVE NewLines = HeadingLines(El, PageWidth)
  <2>1. HeadingLines(El, PageWidth) \in Seq(Line)
    BY <1>1, <1>3, Lined, HeadingLinesTyped
  <2>2. StackLines(HeadingLines(El, PageWidth), {}, HeadingSize)
    BY <1>3, StackedBy DEF BuildHeading
  <2>. QED BY <1>1, <2>1, <2>2, LinesRead
<1>4. ASSUME El.type = "table" PROVE NewLines = TableLines(El, PageWidth)
  <2>1. TableLines(El, PageWidth) \in Seq(Line)
    BY <1>1, <1>4, Lined, TableLinesTyped
  <2>2. StackLines(TableLines(El, PageWidth), {}, 1)
    BY <1>4, StackedBy DEF BuildTable
  <2>. QED BY <1>1, <2>1, <2>2, LinesRead
<1>5. ASSUME El.type = "list" PROVE NewLines = ListLines(El, PageWidth)
  <2>1. ListLines(El, PageWidth) \in Seq(Line)
    BY <1>1, <1>5, Lined, ListLinesTyped
  <2>2. StackLines(ListLines(El, PageWidth), {}, 1)
    BY <1>5, StackedBy DEF BuildList
  <2>. QED BY <1>1, <2>1, <2>2, LinesRead
<1>6. ASSUME El.type = "columns" PROVE ColumnsSupported(El) /\ NewLines = ColumnsLines(El, PageWidth)
  <2>2. ColumnsSupported(El) /\ StackLines(ColumnsLines(El, PageWidth), {}, 1)
    BY <1>6, StackedBy
  <2>3. /\ PageWidth \in Int /\ El.columns \in Seq(ToSet(El.columns)) /\ El.columns # <<>>
        /\ \A col \in ToSet(El.columns) : col.weight \in Nat /\ col.elements \in Seq(ToSet(col.elements))
        /\ \A col \in ToSet(El.columns) : \A inner \in ToSet(col.elements) : inner.content \in Content
    BY <1>1, <1>6, <2>2, Lined, Zenon
  <2>4. \A col \in ToSet(El.columns) : col.weight \in Int /\ col.elements \in Seq(ToSet(col.elements))
    BY <2>3
  <2>1. ColumnsLines(El, PageWidth) \in Seq(Line)
    BY <2>3, <2>4, ColumnsLinesTyped
  <2>. QED BY <1>1, <2>1, <2>2, LinesRead
<1>. QED BY <1>1, <1>2, <1>3, <1>4, <1>5, <1>6

\* Laying an element out loses, repeats and reorders none of its words.
THEOREM WordsAreKept == Spec => WordsKept
<1>. DEFINE Columns == IF El.type = "table" THEN El.headers ELSE El.columns
            Kept == Stacked =>
              /\ El.type \in {"text", "heading"} => RunText(NewLines, 1) = FlattenSeq(El.content)
              /\ El.type \in {"table", "columns"} =>
                   \A k \in DOMAIN (IF El.type = "table" THEN El.headers ELSE El.columns) :
                     RunText(NewLines, k) = ColumnText(El, k)
              /\ El.type = "list" =>
                   FlattenSeq([n \in DOMAIN NewLines |-> Last(NewLines[n].runs).words])
                     = FlattenSeq([n \in DOMAIN El.items |-> FlattenSeq(El.items[n].content)])
<1>1. ASSUME Inv, Next, Stacked PROVE Kept
  <2>1. Grounded /\ stage = "building" /\ i <= Len(receipt.elements) /\ PageWidth \in Int
    BY <1>1, Laid, Lined
  <2>2. ASSUME El.type = "text" PROVE RunText(NewLines, 1) = FlattenSeq(El.content)
    <3>1. RunText(TextLines(El, PageWidth), 1) = FlattenSeq(El.content)
      BY <2>1, <2>2, Lined, TextLinesKept DEF RunText
    <3>. QED BY <1>1, <2>2, <3>1, Laid
  <2>3. ASSUME El.type = "heading" PROVE RunText(NewLines, 1) = FlattenSeq(El.content)
    <3>1. RunText(HeadingLines(El, PageWidth), 1) = FlattenSeq(El.content)
      BY <2>1, <2>3, Lined, HeadingLinesKept DEF RunText
    <3>. QED BY <1>1, <2>3, <3>1, Laid
  <2>4. ASSUME El.type = "table", NEW k \in DOMAIN El.headers PROVE RunText(NewLines, k) = ColumnText(El, k)
    <3>1. /\ El.headers \in Seq(Content) /\ El.rows \in Seq(Seq(Content))
          /\ \A r \in DOMAIN El.rows : Len(El.rows[r]) = Len(El.headers)
      BY <2>1, <2>4, Lined, Zenon
    <3>2. RunText(TableLines(El, PageWidth), k) = ColumnText(El, k)
      BY <2>1, <2>4, <3>1, TableLinesKept DEF RunText, ColumnText
    <3>. QED BY <1>1, <2>4, <3>2, Laid
  <2>5. ASSUME El.type = "columns", NEW k \in DOMAIN El.columns PROVE RunText(NewLines, k) = ColumnText(El, k)
    <3>0. ColumnsSupported(El) /\ NewLines = ColumnsLines(El, PageWidth)
      BY <1>1, <2>5, Laid
    <3>1. /\ El.columns \in Seq(ToSet(El.columns)) /\ El.columns # <<>>
          /\ \A col \in ToSet(El.columns) : col.weight \in Nat /\ col.elements \in Seq(ToSet(col.elements))
          /\ \A col \in ToSet(El.columns) : \A inner \in ToSet(col.elements) : inner.content \in Content
      BY <2>1, <2>5, <3>0, Lined, Zenon
    <3>2. \A col \in ToSet(El.columns) : col.weight \in Int /\ col.elements \in Seq(ToSet(col.elements))
      BY <3>1
    <3>3. RunText(ColumnsLines(El, PageWidth), k) = ColumnText(El, k)
      BY <2>1, <2>5, <3>1, <3>2, ColumnsLinesKept DEF RunText, ColumnText
    <3>. QED BY <3>0, <3>3, Zenon
  <2>6. ASSUME El.type = "list"
        PROVE  FlattenSeq([n \in DOMAIN NewLines |-> Last(NewLines[n].runs).words])
                 = FlattenSeq([n \in DOMAIN El.items |-> FlattenSeq(El.items[n].content)])
    <3>1. PICK lines : lines = ListLines(El, PageWidth) /\ NewLines = lines
      BY <1>1, <2>6, Laid
    <3>2. FlattenSeq([n \in DOMAIN lines |-> Last(lines[n].runs).words])
            = FlattenSeq([n \in DOMAIN El.items |-> FlattenSeq(El.items[n].content)])
      BY <2>1, <2>6, <3>1, Lined, ListLinesKept
    <3>. QED BY <3>1, <3>2, Zenon
  <2>7. ASSUME El.type \in {"table", "columns"}, NEW k \in DOMAIN Columns
        PROVE  RunText(NewLines, k) = ColumnText(El, k)
    BY <2>4, <2>5, <2>7
  <2>. QED BY <2>2, <2>3, <2>6, <2>7
<1>2. Inv /\ [Next]_vars => [Kept]_vars
  BY <1>1
<1>. QED BY <1>2, InvHolds, PTL DEF Spec, WordsKept

\* Tables and columns whose words have room stand in columns and on the page.
LEMMA RoomyTable ==
  ASSUME NEW e, e.type = "table", e.headers \in Seq(Content), e.rows \in Seq(Seq(Content)), e.headers # <<>>,
         \A r \in DOMAIN e.rows : Len(e.rows[r]) = Len(e.headers),
         PageWidth \in Int, PageWidth > 0, Roomy(e)
  PROVE  \E n \in Nat \ {0} : \E widths : TableLines(e, PageWidth) \in Seq(Standing(n, widths, PageWidth))
<1>1. PICK n \in Nat \ {0} : n = Len(e.headers) /\ DOMAIN e.headers = 1..n
  <2>1. Len(e.headers) # 0 /\ Len(e.headers) \in Nat /\ DOMAIN e.headers = 1..Len(e.headers)
    BY EmptySeq, SeqIndex
  <2>. QED BY <2>1
<1>2. PICK page \in Int : page = PageWidth /\ page > 0
  OBVIOUS
<1>. DEFINE text(k) == FlattenSeq(e.headers[k]) \o FlattenSeq([r \in DOMAIN e.rows |-> FlattenSeq(e.rows[r][k])])
<1>3. PICK t : t = [k \in 1..n |-> text(k)]
  OBVIOUS
<1>4. \A k \in 1..n : text(k) \in Seq(Nat)
  BY <1>1, TableText
<1>5. t \in [1..n -> Seq(Nat)] /\ \A k \in 1..n : t[k] = text(k)
  <2>. HIDE DEF text
  <2>. QED BY <1>3, <1>4
<1>6. PICK longest \in Nat : /\ longest = Longest(e)
                             /\ \A k \in 1..n : \A w \in ToSet(t[k]) : w <= longest
  <2>1. \A k \in 1..n : ColumnText(e, k) = t[k]
    BY <1>5, Zenon DEF ColumnText
  <2>2. {ToSet(ColumnText(e, k)) : k \in 1..n} = {ToSet(t[k]) : k \in 1..n}
    BY <2>1
  <2>3. Longest(e) = Max({0} \cup UNION {ToSet(t[k]) : k \in 1..n})
    BY <1>1, <2>2, Zenon DEF Longest
  <2>4. n \in Nat
    OBVIOUS
  <2>. QED BY <1>5, <2>3, <2>4, LongestBounds, Zenon
<1>7. Need(longest) * n <= page - (n - 1) * Advance
  <2>1. PICK left \in Int : left = page - (n - 1) * Advance
    BY FontAssumption
  <2>. DEFINE weights == [k \in 1..n |-> IF e.type = "table" \/ e.columns[k].weight = 0 THEN 1 ELSE e.columns[k].weight]
  <2>2. \A k \in 1..n : left * weights[k] >= Need(longest) * SumOf(weights)
    BY <1>1, <1>2, <1>6, <2>1, Zenon DEF Roomy, Need
  <2>3. weights = [k \in 1..n |-> 1]
    BY Zenon
  <2>4. SumOf(weights) = n /\ 1 \in 1..n /\ weights[1] = 1
    BY <2>3, Ones
  <2>5. left * 1 >= Need(longest) * n
    BY <2>2, <2>4, Zenon
  <2>. QED BY <2>1, <2>5, Needed
<1>8. \A k \in 1..n : \A w \in ToSet(text(k)) : w <= longest
  BY <1>5, <1>6, Zenon
<1>9. TableLines(e, page) \in Seq(Standing(n, TableWidths(n, page), page))
  BY <1>1, <1>2, <1>7, <1>8, TableStands
<1>. QED BY <1>2, <1>9, Zenon

\* The lines of columns with room stand at their columns.
LEMMA RoomyColumns ==
  ASSUME NEW e, e.type = "columns", e.columns \in Seq(ToSet(e.columns)), e.columns # <<>>,
         \A col \in ToSet(e.columns) : col.weight \in Nat /\ col.elements \in Seq(ToSet(col.elements)),
         \A col \in ToSet(e.columns) : \A inner \in ToSet(col.elements) : inner.content \in Content,
         PageWidth \in Int, PageWidth > 0, Roomy(e)
  PROVE  \E n \in Nat \ {0} : \E widths : ColumnsLines(e, PageWidth) \in Seq(Standing(n, widths, PageWidth))
<1>1. PICK n \in Nat \ {0} : n = Len(e.columns) /\ DOMAIN e.columns = 1..n
  <2>1. Len(e.columns) # 0 /\ Len(e.columns) \in Nat /\ DOMAIN e.columns = 1..Len(e.columns)
    BY EmptySeq, SeqIndex
  <2>. QED BY <2>1
<1>2. PICK page \in Int : page = PageWidth /\ page > 0
  OBVIOUS
<1>3. \A k \in 1..n : /\ e.columns[k].weight \in Nat
                      /\ e.columns[k].elements \in Seq(ToSet(e.columns[k].elements))
                      /\ \A inner \in ToSet(e.columns[k].elements) : inner.content \in Content
  <2>1. \A k \in 1..n : e.columns[k] \in ToSet(e.columns)
    BY <1>1, Zenon DEF ToSet
  <2>. QED BY <2>1, Zenon
<1>. DEFINE text(k) == FlattenSeq([m \in DOMAIN e.columns[k].elements |-> FlattenSeq(e.columns[k].elements[m].content)])
<1>4. \A k \in 1..n : text(k) \in Seq(Nat)
  BY <1>3, ColumnsText, Zenon
<1>5. PICK t : t \in [1..n -> Seq(Nat)] /\ \A k \in 1..n : t[k] = text(k)
  <2>1. PICK t : t = [k \in 1..n |-> text(k)]
    OBVIOUS
  <2>. HIDE DEF text
  <2>2. t \in [1..n -> Seq(Nat)] /\ \A k \in 1..n : t[k] = text(k)
    BY <1>4, <2>1
  <2>. QED BY <2>2
<1>6. PICK longest \in Nat : /\ longest = Longest(e)
                             /\ \A k \in 1..n : \A w \in ToSet(t[k]) : w <= longest
  <2>0. e.type # "table"
    OBVIOUS
  <2>1. \A k \in 1..n : ColumnText(e, k) = t[k]
    BY <1>5, <2>0, Zenon DEF ColumnText
  <2>2. {ToSet(ColumnText(e, k)) : k \in 1..n} = {ToSet(t[k]) : k \in 1..n}
    BY <2>1
  <2>3. Longest(e) = Max({0} \cup UNION {ToSet(t[k]) : k \in 1..n})
    BY <1>1, <2>0, <2>2, Zenon DEF Longest
  <2>4. n \in Nat
    OBVIOUS
  <2>. QED BY <1>5, <2>3, <2>4, LongestBounds, Zenon
<1>. DEFINE weights == [k \in 1..n |-> ResolveSize(e.columns[k].weight)]
<1>7. Need(longest) \in Nat \ {0} /\ Need(longest) \in Int
  BY Needed
<1>8. /\ n <= page - (n - 1) * Advance
      /\ \A k \in 1..n : Need(longest) * SumOf(weights) <= (page - (n - 1) * Advance) * ResolveSize(e.columns[k].weight)
  <2>1. PICK left \in Int : left = page - (n - 1) * Advance
    BY FontAssumption
  <2>. DEFINE given == [k \in 1..n |-> IF e.type = "table" \/ e.columns[k].weight = 0 THEN 1 ELSE e.columns[k].weight]
  <2>0. e.type # "table"
    OBVIOUS
  <2>2. left >= n /\ \A k \in 1..n : left * given[k] >= Need(longest) * SumOf(given)
    BY <1>1, <1>2, <1>6, <2>0, <2>1, Zenon DEF Roomy, Need
  <2>3. \A k \in 1..n : (IF e.type = "table" \/ e.columns[k].weight = 0 THEN 1 ELSE e.columns[k].weight)
                          = ResolveSize(e.columns[k].weight)
    <3>1. \A w \in Nat : (IF w = 0 THEN 1 ELSE w) = ResolveSize(w)
      BY DEF ResolveSize
    <3>. QED BY <1>3, <2>0, <3>1, Zenon
  <2>4. given = weights
    BY <2>3
  <2>5. \A k \in 1..n : weights[k] = ResolveSize(e.columns[k].weight) /\ weights[k] \in Nat \ {0}
    BY <1>3 DEF ResolveSize
  <2>6. SumOf(weights) \in Int
    <3>1. weights = [k \in 1..n |-> weights[k]] /\ n \in Nat
      OBVIOUS
    <3>2. \A k \in 1..n : weights[k] \in Int
      BY <2>5
    <3>. HIDE DEF weights
    <3>3. weights \in Seq(Int)
      BY <3>1, <3>2, Listed, Zenon
    <3>. QED BY <3>3, SumTyped
  <2>. HIDE DEF weights, given
  <2>7. ASSUME NEW k \in 1..n PROVE Need(longest) * SumOf(weights) <= left * ResolveSize(e.columns[k].weight)
    <3>1. PICK a \in Int, b \in Int : a = left * weights[k] /\ b = Need(longest) * SumOf(weights)
      <4>1. PICK p \in Int, q \in Int, s \in Int : p = weights[k] /\ q = Need(longest) /\ s = SumOf(weights)
        BY <1>7, <2>5, <2>6
      <4>2. left * p \in Int /\ q * s \in Int
        OBVIOUS
      <4>. QED BY <4>1, <4>2, Zenon
    <3>2. a >= b
      BY <2>2, <2>4, <3>1, Zenon
    <3>3. b <= a
      BY <3>2
    <3>. QED BY <2>5, <3>1, <3>3, Zenon
  <2>8. n <= left
    BY <2>2
  <2>. QED BY <2>1, <2>7, <2>8, Zenon
<1>9. \A k \in 1..n : e.columns[k].weight \in Int
  BY <1>3
<1>10. /\ ColumnWidths(e.columns, page) \in [1..n -> Nat]
       /\ \A k \in 1..n : Need(longest) <= ColumnWidths(e.columns, page)[k]
       /\ SumOf(ColumnWidths(e.columns, page)) + (n - 1) * Advance = page
  BY <1>1, <1>2, <1>8, <1>9, <1>7, ColumnWidthsFit
<1>11. \A k \in 1..n : \A w \in ToSet(text(k)) : w <= longest
  BY <1>5, <1>6, Zenon
<1>12. ColumnsLines(e, page) \in Seq(Standing(n, ColumnWidths(e.columns, page), page))
  <2>1. \A col \in ToSet(e.columns) : col.elements \in Seq(ToSet(col.elements))
    OBVIOUS
  <2>. QED BY <1>1, <1>2, <1>10, <1>11, <2>1, ColumnsStand
<1>. QED BY <1>2, <1>12, Zenon

\* Build lays a table or columns with room out on lines that do.
LEMMA RoomyStands ==
  ASSUME Inv, Next, Stacked, PageWidth > 0, El.type \in {"table", "columns"}, Roomy(El)
  PROVE  \E n \in Nat \ {0} : \E widths : NewLines \in Seq(Standing(n, widths, PageWidth))
<1>1. Grounded /\ stage = "building" /\ i <= Len(receipt.elements) /\ PageWidth \in Int
  BY Laid, Lined
<1>2. PICK e : e = El
  OBVIOUS
<1>3. CASE El.type = "table"
  <2>1. /\ e.type = "table" /\ e.headers \in Seq(Content) /\ e.rows \in Seq(Seq(Content)) /\ e.headers # <<>>
        /\ \A r \in DOMAIN e.rows : Len(e.rows[r]) = Len(e.headers)
    BY <1>1, <1>2, <1>3, Lined, Zenon
  <2>2. \E n \in Nat \ {0} : \E widths : TableLines(e, PageWidth) \in Seq(Standing(n, widths, PageWidth))
    BY <1>1, <1>2, <2>1, RoomyTable
  <2>. QED BY <1>2, <1>3, <2>2, Laid, Zenon
<1>4. CASE El.type = "columns"
  <2>0. ColumnsSupported(El) /\ NewLines = ColumnsLines(El, PageWidth)
    BY <1>4, Laid
  <2>1. /\ e.type = "columns" /\ e.columns \in Seq(ToSet(e.columns)) /\ e.columns # <<>>
        /\ \A col \in ToSet(e.columns) : col.weight \in Nat /\ col.elements \in Seq(ToSet(col.elements))
        /\ \A col \in ToSet(e.columns) : \A inner \in ToSet(col.elements) : inner.content \in Content
    BY <1>1, <1>2, <1>4, <2>0, Lined, Zenon
  <2>2. \E n \in Nat \ {0} : \E widths : ColumnsLines(e, PageWidth) \in Seq(Standing(n, widths, PageWidth))
    BY <1>1, <1>2, <2>1, RoomyColumns
  <2>. QED BY <1>2, <2>0, <2>2, Zenon
<1>. QED BY <1>3, <1>4

\* Where a line that stands has its cells and its end.
LEMMA LineStands ==
  ASSUME NEW n \in Nat \ {0}, NEW widths, NEW page \in Int, NEW line \in Standing(n, widths, page)
  PROVE  /\ Dots(line, 1) <= page
         /\ \A k \in DOMAIN line.runs : k \in 1..n /\ line.runs[k].at = Before(widths, k - 1)
<1>1. line \in Line /\ Len(line.runs) = n /\ line.chars * Advance <= page
      /\ \A k \in 1..n : line.runs[k].at = Before(widths, k - 1)
  BY DEF Standing, Across
<1>2. line.chars \in Nat /\ \E R : line.runs \in Seq(R)
  BY <1>1 DEF Line
<1>3. Dots(line, 1) <= page
  <2>1. line.chars * Advance * 1 = line.chars * Advance
    BY <1>2, FontAssumption
  <2>. QED BY <1>1, <2>1 DEF Dots
<1>4. DOMAIN line.runs = 1..n
  BY <1>1, <1>2, SeqIndex, Zenon
<1>. QED BY <1>1, <1>3, <1>4, Zenon

\* On every line of a table or of columns with room the cells start at their columns.
THEOREM CellsStandInLine == Spec => CellsLineUp
<1>. DEFINE InLine ==
              Stacked /\ PageWidth > 0 /\ El.type \in {"table", "columns"} /\ Roomy(El) =>
                \A n \in DOMAIN NewLines : \A k \in DOMAIN NewLines[n].runs :
                  NewLines[n].runs[k].at = NewLines[1].runs[k].at
<1>1. ASSUME Inv, Next, Stacked, PageWidth > 0, El.type \in {"table", "columns"}, Roomy(El)
      PROVE  \A n \in DOMAIN NewLines : \A k \in DOMAIN NewLines[n].runs :
               NewLines[n].runs[k].at = NewLines[1].runs[k].at
  <2>1. PICK lines : lines = NewLines
    OBVIOUS
  <2>2. PICK page \in Int : page = PageWidth
    BY <1>1, Laid, Lined
  <2>3. PICK n \in Nat \ {0} : \E widths : lines \in Seq(Standing(n, widths, page))
    BY <1>1, <2>1, <2>2, RoomyStands, Zenon
  <2>4. PICK widths : lines \in Seq(Standing(n, widths, page))
    BY <2>3, Zenon
  <2>5. \A j \in DOMAIN lines : \A k \in DOMAIN lines[j].runs :
          k \in 1..n /\ lines[j].runs[k].at = Before(widths, k - 1)
    <3>1. \A j \in DOMAIN lines : lines[j] \in Standing(n, widths, page)
      BY <2>4
    <3>. QED BY <3>1, LineStands
  <2>6. ASSUME NEW j \in DOMAIN lines, NEW k \in DOMAIN lines[j].runs PROVE lines[j].runs[k].at = lines[1].runs[k].at
    <3>1. 1 \in DOMAIN lines
      BY <2>4
    <3>2. lines[1] \in Standing(n, widths, page)
      BY <2>4, <3>1
    <3>3. k \in 1..n
      BY <2>5
    <3>4. lines[1].runs[k].at = Before(widths, k - 1)
      BY <3>2, <3>3, Zenon DEF Standing
    <3>. QED BY <2>5, <3>4, Zenon
  <2>. QED BY <2>1, <2>6, Zenon
<1>2. Inv /\ [Next]_vars => [InLine]_vars
  BY <1>1
<1>. QED BY <1>2, InvHolds, PTL DEF Spec, CellsLineUp

\* No line is wider than the page because of how it was made.
THEOREM LinesStayOnPage == Spec => LinesFit
<1>. DEFINE OnPage ==
              Stacked /\ PageWidth > 0 =>
                /\ El.type \in {"text", "heading", "list"} =>
                     \A n \in DOMAIN NewLines : \/ Dots(NewLines[n], SizeOf(El)) <= PageWidth
                                                \/ Len(Last(NewLines[n].runs).words) <= 1
                /\ El.type \in {"table", "columns"} /\ Roomy(El) =>
                     \A n \in DOMAIN NewLines : Dots(NewLines[n], 1) <= PageWidth
<1>1. ASSUME Inv, Next, Stacked, PageWidth > 0 PROVE OnPage
  <2>1. Grounded /\ stage = "building" /\ i <= Len(receipt.elements) /\ PageWidth \in Int
    BY <1>1, Laid, Lined
  <2>2. PICK lines : lines = NewLines
    OBVIOUS
  <2>3. ASSUME El.type = "text" PROVE \A n \in DOMAIN lines : Within(lines[n], SizeOf(El), PageWidth)
    <3>1. lines = TextLines(El, PageWidth) /\ SizeOf(El) = ResolveSize(El.size)
      BY <1>1, <2>2, <2>3, Laid DEF SizeOf
    <3>2. \A n \in DOMAIN TextLines(El, PageWidth) : Within(TextLines(El, PageWidth)[n], ResolveSize(El.size), PageWidth)
      BY <1>1, <2>1, <2>3, Lined, TextLinesFit
    <3>. QED BY <3>1, <3>2, Zenon
  <2>4. ASSUME El.type = "heading" PROVE \A n \in DOMAIN lines : Within(lines[n], SizeOf(El), PageWidth)
    <3>1. lines = HeadingLines(El, PageWidth) /\ SizeOf(El) = HeadingSize
      BY <1>1, <2>2, <2>4, Laid DEF SizeOf
    <3>2. \A n \in DOMAIN HeadingLines(El, PageWidth) : Within(HeadingLines(El, PageWidth)[n], HeadingSize, PageWidth)
      BY <1>1, <2>1, <2>4, Lined, HeadingLinesFit
    <3>. QED BY <3>1, <3>2, Zenon
  <2>5. ASSUME El.type = "list" PROVE \A n \in DOMAIN lines : Within(lines[n], SizeOf(El), PageWidth)
    <3>1. lines = ListLines(El, PageWidth) /\ SizeOf(El) = 1
      BY <1>1, <2>2, <2>5, Laid DEF SizeOf
    <3>2. \A n \in DOMAIN ListLines(El, PageWidth) : Within(ListLines(El, PageWidth)[n], 1, PageWidth)
      BY <1>1, <2>1, <2>5, Lined, ListLinesFit
    <3>. QED BY <3>1, <3>2, Zenon
  <2>6. ASSUME El.type \in {"text", "heading", "list"}, NEW n \in DOMAIN NewLines
        PROVE  Dots(NewLines[n], SizeOf(El)) <= PageWidth \/ Len(Last(NewLines[n].runs).words) <= 1
    <3>1. Within(NewLines[n], SizeOf(El), PageWidth)
      BY <2>2, <2>3, <2>4, <2>5, <2>6
    <3>. QED BY <3>1 DEF Within, Dots
  <2>7. ASSUME El.type \in {"table", "columns"}, Roomy(El), NEW n \in DOMAIN NewLines
        PROVE  Dots(NewLines[n], 1) <= PageWidth
    <3>1. PICK page \in Int : page = PageWidth
      BY <2>1
    <3>2. PICK m \in Nat \ {0} : \E widths : lines \in Seq(Standing(m, widths, page))
      BY <1>1, <2>2, <2>7, <3>1, RoomyStands, Zenon
    <3>3. PICK widths : lines \in Seq(Standing(m, widths, page))
      BY <3>2, Zenon
    <3>4. \A j \in DOMAIN lines : lines[j] \in Standing(m, widths, page)
      BY <3>3
    <3>5. \A j \in DOMAIN lines : Dots(lines[j], 1) <= page
      BY <3>4, LineStands
    <3>. QED BY <2>2, <3>1, <3>5, Zenon
  <2>. QED BY <2>6, <2>7
<1>2. Inv /\ [Next]_vars => [OnPage]_vars
  BY <1>1
<1>. QED BY <1>2, InvHolds, PTL DEF Spec, LinesFit

=============================================================================
