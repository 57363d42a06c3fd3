------------------------------- MODULE Escpos -------------------------------
(***************************************************************************)
(* The commands of internal/render/escpos.  A command is a record with a   *)
(* "cmd"; a raster command keeps, beside the two 16-bit fields that go out *)
(* on the wire, the rows whose bytes follow them.                          *)
(***************************************************************************)
EXTENDS Layout

ByteModulus == 256
FieldModulus == 65536

InitSequence == [cmd |-> "init"]

DefaultFeedLines == 4

FeedCommand(lines) == [cmd |-> "feed", lines |-> lines % ByteModulus]

CutCommand(mode) == [cmd |-> "cut", mode |-> mode]

RowBytes(width) == (width + 7) \div 8

\* loHi keeps the low 16 bits of each field.
RasterCommand(width, from, rows) ==
  [cmd       |-> "raster", from |-> from, rows |-> rows,
   widthSent |-> RowBytes(width) % FieldModulus,
   rowsSent  |-> rows % FieldModulus]

(* Mutant of BandHeight: the page is never cut up. *)
OneBand(height, max) == height

(* Mutant of BandHeight: 0 does not mean no limit. *)
BandOfLimit(height, max) == Least(height, max)

\* How many rows a raster command carries at most; no limit of the printer is 0.
BandHeight(height, max) == IF max <= 0 \/ max >= height THEN height ELSE max

(* Mutant of CutMode: an empty mode is not filled in. *)
CutModeAsGiven(mode, profile) == mode

\* The mode a Cut element is sent with.
CutMode(mode, profile) == IF mode = "" THEN profile.defaultCut ELSE mode

\* What a control puts on the wire: nothing for a Cut the printer cannot make.
ControlCommands(el, profile) ==
  IF el.type = "feed" THEN <<FeedCommand(el.lines)>>
  ELSE IF profile.supportsCut THEN <<CutCommand(CutMode(el.mode, profile))>>
  ELSE <<>>

\* The only error of controlCommand: a mode that is neither full nor partial.
ControlFails(el, profile) ==
  el.type = "cut" /\ profile.supportsCut /\ CutMode(el.mode, profile) \notin CutModes

(* Mutant of EndsWithExplicitCut: a Cut with something after it counts. *)
EndsWithAnyCut(controls) == controls # <<>> /\ Last(controls).el.type = "cut"

EndsWithExplicitCut(controls) ==
  /\ controls # <<>>
  /\ Last(controls).terminal
  /\ Last(controls).el.type = "cut"

AutoCut(controls, profile) ==
  IF profile.supportsCut /\ ~EndsWithExplicitCut(controls)
  THEN <<FeedCommand(DefaultFeedLines), CutCommand(profile.defaultCut)>>
  ELSE <<>>

=============================================================================
