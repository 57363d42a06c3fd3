---------------------------- MODULE PrinterConfig ----------------------------
(***************************************************************************)
(* The configuration (internal/config) and the Profile a printer's entry   *)
(* in it turns into (internal/printer).  An entry has a name and a         *)
(* transport, and names a model of the catalogue or gives a profile of its *)
(* own, with "" and <<>> for what it does not say.  Widths are in tenths   *)
(* of a millimetre.  A configuration also has the listener's address, the  *)
(* queue's store, its number of attempts and its backoff in seconds.       *)
(*                                                                         *)
(* No decision of the Go code reads supports_partial_cut: it is left out.  *)
(***************************************************************************)
EXTENDS Integers, Sequences

\* The catalogue has one model.
ModelProfiles ==
  [m \in {"epson-tm-m30ii"} |->
     [width |-> 576, dpi |-> 203, left |-> 0, right |-> 0, supportsCut |-> TRUE,
      defaultCut |-> "partial", max |-> 0]]

\* round(mm / 25.4 * dpi) for a width that is not negative.
WidthDotsFromMM(tenths, dpi) == (2 * tenths * dpi + 254) \div 508

GivenProfile(raw) ==
  [width |-> WidthDotsFromMM(raw.tenths, raw.dpi), dpi |-> raw.dpi,
   left |-> raw.left, right |-> raw.right, supportsCut |-> raw.supportsCut,
   defaultCut |-> raw.defaultCut, max |-> raw.max]

\* Exactly one source, and a model the catalogue knows.
EntryDecodes(entry) ==
  \/ entry.model # "" /\ entry.profile = <<>> /\ entry.model \in DOMAIN ModelProfiles
  \/ entry.model = "" /\ entry.profile # <<>>

ProfileOf(entry) ==
  IF entry.model # "" THEN ModelProfiles[entry.model] ELSE GivenProfile(entry.profile[1])

ProfileValid(p) ==
  /\ p.dpi > 0
  /\ p.width > 0
  /\ p.left >= 0 /\ p.right >= 0
  /\ p.left + p.right < p.width
  /\ p.max >= 0
  /\ p.defaultCut \in {"full", "partial"}

EntryAccepted(entry) ==
  /\ EntryDecodes(entry)
  /\ entry.name # ""
  /\ entry.transport = "network"
  /\ ProfileValid(ProfileOf(entry))

(* Mutant of NamesDistinct: only neighbours are compared. *)
NeighboursDistinct(entries) ==
  \A n \in DOMAIN entries : n > 1 => entries[n].name # entries[n - 1].name

NamesDistinct(entries) ==
  \A m, n \in DOMAIN entries : entries[m].name = entries[n].name => m = n

\* Load, for a file that can be read: all of it is accepted or none.
ConfigAccepted(config) ==
  /\ config.address # ""
  /\ config.store \in {"memory", "bbolt"}
  /\ config.attempts > 0
  /\ config.backoff > 0
  /\ \A n \in DOMAIN config.printers : EntryAccepted(config.printers[n])
  /\ NamesDistinct(config.printers)

\* The zero value, which the offline `receipt render` uses.
ZeroProfile ==
  [width |-> 0, dpi |-> 0, left |-> 0, right |-> 0, supportsCut |-> FALSE,
   defaultCut |-> "", max |-> 0]

=============================================================================
