------------------------------ MODULE Printers ------------------------------
(***************************************************************************)
(* The printers of a running daemon: networkPrinter.Send, called by each   *)
(* printer's worker, and Service.ListPrinters, whose goroutines call       *)
(* networkPrinter.Status.                                                  *)
(*                                                                         *)
(* A printer answers when it likes: its steps have no fairness, so that it *)
(* may also never answer.  Time is counted in ticks while everything that  *)
(* could run waits for a printer; a timer that is due fires before the     *)
(* next tick, unless the printer answers in the same instant.              *)
(***************************************************************************)
EXTENDS PrinterConfig, FiniteSets, SequencesExt

CONSTANTS
  Configs,          \* configuration files
  Name,             \* printer names, in a sequence: their order as strings
  Busy,             \* the printers whose workers have Jobs to send
  Size,             \* the bytes of a receipt
  NetworkTimeout,   \* ticks a dial may take, and a write loop
  StatusTimeout     \* ticks a Status may take

ASSUME PrintersAssumption ==
  /\ Size \in Nat \ {0}
  /\ NetworkTimeout \in Nat \ {0} /\ StatusTimeout \in Nat \ {0}
  /\ Name \in Seq(STRING) /\ IsInjective(Name)
  /\ Busy \subseteq ToSet(Name)
  /\ \A config \in Configs :
       ConfigAccepted(config) =>
         /\ config.printers \in Seq(ToSet(config.printers))
         /\ \A n \in DOMAIN config.printers : config.printers[n].name \in ToSet(Name)

VARIABLES
  phase,        \* "off" until a configuration is accepted
  printers, profiles, connections,   \* the maps of Service
  cancelled,    \* the workers' context
  spc,          \* where each Send is
  data,         \* what it has left to write
  arrived,      \* what has reached the printer in this call
  open,         \* the connection is open
  returned,     \* what the last Send returned
  waited,       \* ticks since the timer of the dial or of the write began
  spent,        \* ticks since Send was called
  list,         \* where ListPrinters is
  entries, summaries, ppc,   \* its slots: names, results, goroutines
  pwaited,      \* ticks each slot's Status has waited
  listed,       \* ticks since ListPrinters was called
  left,         \* the request's client is gone
  answered      \* the printers that took this listing's connection

mapVars == <<phase, printers, profiles, connections>>
sendVars == <<spc, data, arrived, open, returned, waited, spent>>
listVars == <<list, entries, summaries, ppc, pwaited, listed, left, answered>>
vars == <<mapVars, cancelled, sendVars, listVars>>

Names == ToSet(Name)

\* The order of names as strings.
Position(name) == CHOOSE n \in DOMAIN Name : Name[n] = name

\* The bytes of a receipt, by their places.
Receipt == [n \in 1..Size |-> n]

Least(a, b) == IF a <= b THEN a ELSE b

Init ==
  /\ phase = "off"
  /\ printers = {} /\ profiles = <<>> /\ connections = <<>>
  /\ cancelled = FALSE
  /\ spc = [p \in Names |-> "idle"]
  /\ data = [p \in Names |-> <<>>]
  /\ arrived = [p \in Names |-> <<>>]
  /\ open = [p \in Names |-> FALSE]
  /\ returned = [p \in Names |-> "nothing"]
  /\ waited = [p \in Names |-> 0]
  /\ spent = [p \in Names |-> 0]
  /\ list = "none"
  /\ entries = <<>> /\ summaries = <<>> /\ ppc = <<>> /\ pwaited = <<>>
  /\ listed = 0 /\ left = FALSE /\ answered = {}

\* buildPrinters: one loop fills the maps; a later entry takes a name over.
Start(config) ==
  LET named == {config.printers[n].name : n \in DOMAIN config.printers}
      Entry(name) ==
        config.printers[SelectLastInSeq(config.printers, LAMBDA e : e.name = name)]
  IN  /\ phase = "off"
      /\ ConfigAccepted(config)
      /\ phase' = "serving"
      /\ printers' = named
      /\ profiles' = [name \in named |-> ProfileOf(Entry(name))]
      /\ connections' = [name \in named |-> Entry(name).transport]
      /\ UNCHANGED <<cancelled, sendVars, listVars>>

-----------------------------------------------------------------------------
(***************************************************************************)
(* Send.                                                                   *)
(***************************************************************************)

SendGoes(p, to) == spc' = [spc EXCEPT ![p] = to]

Restart(clock, p) == [clock EXCEPT ![p] = 0]

\* The call is over: the deferred Close has run and the worker has the error.
Return(p, err) ==
  /\ SendGoes(p, "idle")
  /\ open' = [open EXCEPT ![p] = FALSE]
  /\ returned' = [returned EXCEPT ![p] = err]

Send(p) ==
  /\ phase = "serving"
  /\ p \in printers \cap Busy
  /\ spc[p] = "idle"
  /\ SendGoes(p, "dialing")
  /\ data' = [data EXCEPT ![p] = Receipt]
  /\ arrived' = [arrived EXCEPT ![p] = <<>>]
  /\ returned' = [returned EXCEPT ![p] = "nothing"]
  /\ waited' = Restart(waited, p)
  /\ spent' = Restart(spent, p)
  /\ UNCHANGED <<mapVars, cancelled, open, listVars>>

\* The printer takes the connection, before the context is cancelled.
DialAnswered(p) ==
  /\ spc[p] = "dialing"
  /\ ~cancelled
  /\ SendGoes(p, "connected")
  /\ open' = [open EXCEPT ![p] = TRUE]
  /\ UNCHANGED <<mapVars, cancelled, data, arrived, returned, waited, spent, listVars>>

\* Refused, or no route to it.
DialRefused(p) ==
  /\ spc[p] = "dialing"
  /\ Return(p, "transient")
  /\ UNCHANGED <<mapVars, cancelled, data, arrived, waited, spent, listVars>>

\* The dialer gives up: its timer, or the workers' context.
DialGivesUp(p) ==
  /\ spc[p] = "dialing"
  /\ cancelled \/ waited[p] = NetworkTimeout
  /\ Return(p, "transient")
  /\ UNCHANGED <<mapVars, cancelled, data, arrived, waited, spent, listVars>>

(* Mutant of SetWriteDeadline: the connection is closed at the end only. *)
SetWriteDeadlineOrLeave(p) ==
  /\ spc[p] = "connected"
  /\ \/ SendGoes(p, "writing") /\ waited' = Restart(waited, p) /\ UNCHANGED returned
     \/ SendGoes(p, "idle") /\ returned' = [returned EXCEPT ![p] = "transient"] /\ UNCHANGED waited
  /\ UNCHANGED <<mapVars, cancelled, data, arrived, open, spent, listVars>>

(* Mutant of SetWriteDeadline: there is none. *)
NoWriteDeadline(p) ==
  /\ spc[p] = "connected"
  /\ SendGoes(p, "writing")
  /\ waited' = [waited EXCEPT ![p] = NetworkTimeout + 1]
  /\ UNCHANGED <<mapVars, cancelled, data, arrived, open, returned, spent, listVars>>

\* One deadline for the whole write loop; setting it may fail.
SetWriteDeadline(p) ==
  /\ spc[p] = "connected"
  /\ \/ SendGoes(p, "writing") /\ waited' = Restart(waited, p) /\ UNCHANGED <<open, returned>>
     \/ Return(p, "transient") /\ UNCHANGED waited
  /\ UNCHANGED <<mapVars, cancelled, data, arrived, spent, listVars>>

\* n bytes of what is left get to the printer.
Deliver(p, n) == arrived' = [arrived EXCEPT ![p] = @ \o SubSeq(data[p], 1, n)]

(* Mutant of Write: the next write starts with the same bytes. *)
WriteAgain(p, n) ==
  /\ spc[p] = "writing"
  /\ data[p] # <<>>
  /\ Deliver(p, n)
  /\ IF n = 0 THEN Return(p, "transient") /\ UNCHANGED data
     ELSE data' = [data EXCEPT ![p] = SubSeq(@, 1, Len(@) - n)] /\ UNCHANGED <<spc, open, returned>>
  /\ UNCHANGED <<mapVars, cancelled, waited, spent, listVars>>

(* Mutant of Write: every write has a deadline of its own. *)
WriteWithDeadline(p, n) ==
  /\ spc[p] = "writing"
  /\ data[p] # <<>>
  /\ Deliver(p, n)
  /\ IF n = 0 THEN Return(p, "transient") /\ UNCHANGED data
     ELSE data' = [data EXCEPT ![p] = SubSeq(@, n + 1, Len(@))] /\ UNCHANGED <<spc, open, returned>>
  /\ waited' = Restart(waited, p)
  /\ UNCHANGED <<mapVars, cancelled, spent, listVars>>

\* A Write that returns n and no error; none of the bytes is io.ErrShortWrite.
Write(p, n) ==
  /\ spc[p] = "writing"
  /\ data[p] # <<>>
  /\ Deliver(p, n)
  /\ IF n = 0 THEN Return(p, "transient") /\ UNCHANGED data
     ELSE data' = [data EXCEPT ![p] = SubSeq(@, n + 1, Len(@))] /\ UNCHANGED <<spc, open, returned>>
  /\ UNCHANGED <<mapVars, cancelled, waited, spent, listVars>>

\* A Write that returns an error, some of the bytes, or all, having gone out.
WriteFails(p, n) ==
  /\ spc[p] = "writing"
  /\ data[p] # <<>>
  /\ Deliver(p, n)
  /\ Return(p, "transient")
  /\ UNCHANGED <<mapVars, cancelled, data, waited, spent, listVars>>

\* The printer has stopped reading.
WriteTimesOut(p) ==
  /\ spc[p] = "writing"
  /\ data[p] # <<>>
  /\ waited[p] = NetworkTimeout
  /\ Return(p, "transient")
  /\ UNCHANGED <<mapVars, cancelled, data, arrived, waited, spent, listVars>>

SendReturns(p) ==
  /\ spc[p] = "writing"
  /\ data[p] = <<>>
  /\ Return(p, "ok")
  /\ UNCHANGED <<mapVars, cancelled, data, arrived, waited, spent, listVars>>

\* The shutdown cancels the context of all workers.
Cancel ==
  /\ phase = "serving" /\ ~cancelled
  /\ cancelled' = TRUE
  /\ UNCHANGED <<mapVars, sendVars, listVars>>

-----------------------------------------------------------------------------
(***************************************************************************)
(* ListPrinters.                                                           *)
(***************************************************************************)

Slots == DOMAIN entries

EmptySlot == [name |-> "", transport |-> "", profile |-> ZeroProfile, online |-> FALSE]

\* The map is ranged over in any order; a name without a profile or a
\* connection ends the call before a printer is asked.
ListPrinters(order) ==
  /\ phase = "serving"
  /\ list \in {"none", "returned", "failed"}
  /\ IF printers \subseteq DOMAIN profiles \cap DOMAIN connections
     THEN list' = "probing" /\ entries' = order
     ELSE list' = "failed" /\ entries' = <<>>
  /\ summaries' = [k \in DOMAIN entries' |-> EmptySlot]
  /\ ppc' = [k \in DOMAIN entries' |-> "start"]
  /\ pwaited' = [k \in DOMAIN entries' |-> 0]
  /\ listed' = 0 /\ left' = FALSE /\ answered' = {}
  /\ UNCHANGED <<mapVars, cancelled, sendVars>>

\* A goroutine per slot, all started together, each with a timer of its own.
ProbeStarts(k) ==
  /\ list = "probing"
  /\ ppc[k] = "start"
  /\ ppc' = [ppc EXCEPT ![k] = "dialing"]
  /\ UNCHANGED <<mapVars, cancelled, sendVars, list, entries, summaries, pwaited, listed, left, answered>>

(* Mutant of Summarise: the goroutines share the loop's variables. *)
SummariseLast(k, online) ==
  /\ ppc' = [ppc EXCEPT ![k] = "done"]
  /\ summaries' = [summaries EXCEPT ![k] =
       [name |-> Last(entries), transport |-> connections[Last(entries)],
        profile |-> profiles[Last(entries)], online |-> online]]

\* printerSummaryWithStatus fills its slot.
Summarise(k, online) ==
  /\ ppc' = [ppc EXCEPT ![k] = "done"]
  /\ summaries' = [summaries EXCEPT ![k] =
       [name |-> entries[k], transport |-> connections[entries[k]],
        profile |-> profiles[entries[k]], online |-> online]]

\* Status: connected, and closed again.
ProbeAnswered(k) ==
  /\ list = "probing"
  /\ ppc[k] = "dialing"
  /\ ~left
  /\ answered' = answered \cup {entries[k]}
  /\ Summarise(k, TRUE)
  /\ UNCHANGED <<mapVars, cancelled, sendVars, list, entries, pwaited, listed, left>>

ProbeRefused(k) ==
  /\ list = "probing"
  /\ ppc[k] = "dialing"
  /\ Summarise(k, FALSE)
  /\ UNCHANGED <<mapVars, cancelled, sendVars, list, entries, pwaited, listed, left, answered>>

\* The earlier of the two timers, or the request's context.
ProbeLimit == Least(StatusTimeout, NetworkTimeout)

(* Mutant of ProbeGivesUp: only the request's context ends a Status. *)
ProbeWaitsForClient(k) ==
  /\ list = "probing"
  /\ ppc[k] = "dialing"
  /\ left
  /\ Summarise(k, FALSE)
  /\ UNCHANGED <<mapVars, cancelled, sendVars, list, entries, pwaited, listed, left, answered>>

ProbeGivesUp(k) ==
  /\ list = "probing"
  /\ ppc[k] = "dialing"
  /\ left \/ pwaited[k] = ProbeLimit
  /\ Summarise(k, FALSE)
  /\ UNCHANGED <<mapVars, cancelled, sendVars, list, entries, pwaited, listed, left, answered>>

ClientLeaves ==
  /\ list = "probing" /\ ~left
  /\ left' = TRUE
  /\ UNCHANGED <<mapVars, cancelled, sendVars, list, entries, summaries, ppc, pwaited, listed, answered>>

Before(a, b) == Position(a.name) < Position(b.name)

\* wg.Wait, then sort.Slice: the slots in an order in which none comes before an earlier one.
ListReturns ==
  /\ list = "probing"
  /\ \A k \in Slots : ppc[k] = "done"
  /\ list' = "returned"
  /\ \E p \in [Slots -> Slots] :
       /\ IsInjective(p)
       /\ summaries' = [k \in Slots |-> summaries[p[k]]]
       /\ \A j, k \in Slots : j < k => ~Before(summaries'[k], summaries'[j])
  /\ UNCHANGED <<mapVars, cancelled, sendVars, entries, ppc, pwaited, listed, left, answered>>

-----------------------------------------------------------------------------
(***************************************************************************)
(* Time.                                                                   *)
(***************************************************************************)

\* Something can run, or has to, before time passes.
Runnable ==
  \/ \E p \in Names :
       \/ spc[p] = "connected"
       \/ spc[p] = "dialing" /\ (cancelled \/ waited[p] = NetworkTimeout)
       \/ spc[p] = "writing" /\ (data[p] = <<>> \/ waited[p] = NetworkTimeout)
  \/ /\ list = "probing"
     /\ \/ \E k \in Slots : ppc[k] = "start"
        \/ \E k \in Slots : ppc[k] = "dialing" /\ (left \/ pwaited[k] = ProbeLimit)
        \/ \A k \in Slots : ppc[k] = "done"

Waiting == {p \in Names : spc[p] # "idle"}
Probing == IF list = "probing" THEN {k \in Slots : ppc[k] = "dialing"} ELSE {}

Tick ==
  /\ ~Runnable
  /\ Waiting # {} \/ Probing # {}
  /\ waited' = [p \in Names |-> waited[p] + IF p \in Waiting THEN 1 ELSE 0]
  /\ spent' = [p \in Names |-> spent[p] + IF p \in Waiting THEN 1 ELSE 0]
  /\ pwaited' = [k \in Slots |-> pwaited[k] + IF k \in Probing THEN 1 ELSE 0]
  /\ listed' = listed + IF list = "probing" THEN 1 ELSE 0
  /\ UNCHANGED <<mapVars, cancelled, spc, data, arrived, open, returned,
                 list, entries, summaries, ppc, left, answered>>

-----------------------------------------------------------------------------

Orders == {order \in [1..Cardinality(printers) -> printers] : IsInjective(order)}

\* What the daemon's goroutines do by themselves.
SendCode(p) == DialGivesUp(p) \/ SetWriteDeadline(p) \/ WriteTimesOut(p) \/ SendReturns(p)
ListCode == ListReturns \/ \E k \in Slots : ProbeStarts(k) \/ ProbeGivesUp(k)

\* What a printer does, when it likes.
PrinterStep(p) ==
  \/ DialAnswered(p) \/ DialRefused(p)
  \/ \E n \in 0..Len(data[p]) : Write(p, n) \/ WriteFails(p, n)
ProbeStep(k) == ProbeAnswered(k) \/ ProbeRefused(k)

Next ==
  \/ \E config \in Configs : Start(config)
  \/ \E p \in Names : Send(p) \/ SendCode(p) \/ PrinterStep(p)
  \/ \E order \in Orders : ListPrinters(order)
  \/ ListCode \/ (\E k \in Slots : ProbeStep(k)) \/ ClientLeaves
  \/ Cancel \/ Tick

Spec == Init /\ [][Next]_vars

\* The runtime runs every goroutine that can run, and time passes, however often
\* workers call Send in between.
FairSpec ==
  /\ Spec
  /\ \A p \in Names : WF_vars(SendCode(p))
  /\ WF_vars(ListCode)
  /\ SF_vars(Tick)

-----------------------------------------------------------------------------
(***************************************************************************)
(* Properties.                                                             *)
(***************************************************************************)

\* The maps have one domain, and every call's state is one of the code's.
TypeOK ==
  /\ phase \in {"off", "serving"}
  /\ printers \subseteq Names /\ DOMAIN profiles = printers /\ DOMAIN connections = printers
  /\ cancelled \in BOOLEAN /\ left \in BOOLEAN
  /\ spc \in [Names -> {"idle", "dialing", "connected", "writing"}]
  /\ returned \in [Names -> {"nothing", "ok", "transient"}]
  /\ open \in [Names -> BOOLEAN]
  /\ list \in {"none", "probing", "returned", "failed"}
  /\ waited \in [Names -> 0..NetworkTimeout]
  /\ \A k \in Slots : ppc[k] \in {"start", "dialing", "done"} /\ pwaited[k] \in 0..StatusTimeout

\* Whatever pieces the writes go out in, the printer gets the receipt's bytes
\* in order, none twice and none left out, and all of them if Send returns no
\* error.  A failed Send may have got any part there, the whole receipt too.
SentWhole ==
  \A p \in Names :
    /\ IsPrefix(arrived[p], Receipt)
    /\ returned[p] = "ok" => arrived[p] = Receipt
    /\ spc[p] = "writing" => arrived[p] \o data[p] = Receipt

\* Send leaves no connection behind, on any of the ways it returns.  A printer
\* that takes one connection at a time would be lost for every later Job.
NothingLeftOpen == \A p \in Names : open[p] => spc[p] \in {"connected", "writing"}

\* However slowly a printer reads, a Send takes at most one dial and one write
\* timeout, and a listing one Status timeout, not one for each printer.
InTime ==
  /\ \A p \in Names : spent[p] <= 2 * NetworkTimeout
  /\ listed <= StatusTimeout

\* A listing never fails for a missing map entry, and holds every printer of the
\* accepted configuration once, by name, with its own profile, and as online
\* only if that printer itself took the connection, whatever the others did.
ListingTrue ==
  /\ list # "failed"
  /\ list = "returned" =>
       /\ \E config \in Configs :
            /\ ConfigAccepted(config)
            /\ ToSet(summaries) = {[name |-> e.name, transport |-> e.transport,
                                    profile |-> ProfileOf(e), online |-> e.name \in answered]
                                     : e \in ToSet(config.printers)}
            /\ Len(summaries) = Len(config.printers)
       /\ \A k \in 2..Len(summaries) :
            Position(summaries[k - 1].name) < Position(summaries[k].name)

\* Every Send and every listing returns, even if no printer ever answers.
CallsEnd ==
  /\ \A p \in Names : spc[p] # "idle" ~> spc[p] = "idle"
  /\ list = "probing" ~> list # "probing"

\* Send keeps the contract that the queue's attempts are built on.
Paper(p) == IF arrived[p] = <<>> THEN "nothing" ELSE IF arrived[p] = Receipt THEN "all" ELSE "part"

Call(p) == CASE spc[p] = "idle" -> "none" [] spc[p] = "dialing" -> "dialing" [] OTHER -> "writing"

Contract == INSTANCE SendContract WITH
  Name <- Names,
  call <- [p \in Names |-> Call(p)],
  paper <- [p \in Names |-> Paper(p)]

KeepsContract == Contract!Spec

=============================================================================
