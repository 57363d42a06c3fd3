--------------------------- MODULE PrintersProofs ---------------------------
(***************************************************************************)
(* What holds of Send and ListPrinters for any printers, configurations,   *)
(* receipt sizes and timeouts.                                             *)
(***************************************************************************)
EXTENDS Printers, FiniteSetTheorems, SequenceTheorems, TLAPS

SendStates == {"idle", "dialing", "connected", "writing"}

\* The types of what a Send keeps.
SendTypes ==
  /\ spc \in [Names -> SendStates]
  /\ returned \in [Names -> {"nothing", "ok", "transient"}]
  /\ waited \in [Names -> 0..NetworkTimeout]
  /\ spent \in [Names -> Nat]

OpenType == open \in [Names -> BOOLEAN]

\* How far the clock of a call is ahead of the timer in force: a dial has taken
\* all of its time, a write loop up to one dial more.
SendClock(p) ==
  /\ spc[p] = "dialing"   => spent[p] = waited[p]
  /\ spc[p] = "connected" => spent[p] <= NetworkTimeout
  /\ spc[p] = "writing"   => spent[p] <= NetworkTimeout + waited[p]
  /\ spc[p] = "idle"      => spent[p] <= 2 * NetworkTimeout

SendClocks == \A p \in Names : SendClock(p)

\* The types of what a listing keeps.
ListTypes ==
  /\ list \in {"none", "probing", "returned", "failed"}
  /\ ppc \in [Slots -> {"start", "dialing", "done"}]
  /\ pwaited \in [Slots -> 0..ProbeLimit]
  /\ listed \in 0..ProbeLimit

\* The timers of all goroutines under way began with the listing.
ListClocks ==
  list = "probing" => \A k \in Slots : ppc[k] # "done" => pwaited[k] = listed

\* The maps have one domain.
Maps ==
  /\ phase \in {"off", "serving"}
  /\ printers \subseteq Names
  /\ DOMAIN profiles = printers /\ DOMAIN connections = printers
  /\ cancelled \in BOOLEAN /\ left \in BOOLEAN

SendInv == SendTypes /\ SendClocks /\ OpenType /\ NothingLeftOpen
ListInv == ListTypes /\ ListClocks

IInv == SendInv /\ ListInv /\ Maps

-----------------------------------------------------------------------------

LEMMA Limit ==
  /\ NetworkTimeout \in Nat \ {0} /\ StatusTimeout \in Nat \ {0}
  /\ ProbeLimit \in Nat /\ ProbeLimit <= StatusTimeout
BY PrintersAssumption DEF ProbeLimit, Least

LEMMA InitialInv == Init => IInv
<1>. SUFFICES ASSUME Init PROVE IInv
  OBVIOUS
<1>1. SendTypes /\ SendClocks
  BY Limit DEF Init, SendTypes, SendStates, SendClocks, SendClock
<1>2. OpenType /\ NothingLeftOpen
  BY Zenon DEF Init, OpenType, NothingLeftOpen
<1>3. ListInv
  BY Limit DEF Init, ListInv, ListTypes, ListClocks, Slots
<1>4. Maps
  <2>1. cancelled \in BOOLEAN /\ left \in BOOLEAN
    BY Zenon DEF Init
  <2>2. DOMAIN profiles = printers /\ DOMAIN connections = printers
    BY DEF Init
  <2>3. phase \in {"off", "serving"} /\ printers \subseteq Names
    BY DEF Init
  <2>. QED BY <2>1, <2>2, <2>3 DEF Maps
<1>. QED BY <1>1, <1>2, <1>3, <1>4 DEF IInv, SendInv

-----------------------------------------------------------------------------
(***************************************************************************)
(* The invariant is kept.                                                  *)
(***************************************************************************)

LEMMA SendKept ==
  ASSUME UNCHANGED sendVars, SendInv
  PROVE  SendInv'
BY Zenon DEF sendVars, SendInv, SendTypes, SendStates, SendClocks, SendClock, OpenType,
             NothingLeftOpen

LEMMA ListKept ==
  ASSUME UNCHANGED listVars, ListInv
  PROVE  ListInv'
BY Zenon DEF listVars, ListInv, ListTypes, ListClocks, Slots

LEMMA MapsKept ==
  ASSUME UNCHANGED mapVars, UNCHANGED <<cancelled, left>>, Maps
  PROVE  Maps'
BY Zenon DEF mapVars, Maps

LEMMA Opened ==
  ASSUME OpenType, NEW p \in Names, NEW b \in BOOLEAN, open' = [open EXCEPT ![p] = b]
  PROVE  OpenType' /\ open'[p] = b /\ \A q \in Names \ {p} : open'[q] = open[q]
BY Zenon DEF OpenType

\* What returns an error or nil closes the connection, whatever the clock says.
LEMMA Returns ==
  ASSUME SendInv, NEW p \in Names, spc[p] # "idle",
         NEW err \in {"ok", "transient"}, Return(p, err), UNCHANGED <<waited, spent>>
  PROVE  SendInv'
<1>1. open' = [open EXCEPT ![p] = FALSE]
  BY Zenon DEF Return
<1>2. OpenType' /\ open'[p] = FALSE /\ \A q \in Names \ {p} : open'[q] = open[q]
  BY <1>1, Opened, Zenon DEF SendInv
<1>3. SendTypes' /\ SendClocks' /\ \A q \in Names \ {p} : spc'[q] = spc[q]
  BY Limit DEF Return, SendGoes, SendInv, SendTypes, SendStates, SendClocks, SendClock
<1>4. NothingLeftOpen'
  BY <1>2, <1>3, Zenon DEF SendInv, NothingLeftOpen
<1>. QED BY <1>2, <1>3, <1>4 DEF SendInv

\* A worker's Send: every way out of it closes the connection.
LEMMA SendStep ==
  ASSUME SendInv, NEW p \in Names, Send(p) \/ SendCode(p) \/ PrinterStep(p)
  PROVE  SendInv'
<1>1. CASE Send(p)
  <2>1. SendTypes' /\ SendClocks' /\ \A q \in Names \ {p} : spc'[q] = spc[q]
    BY <1>1, Limit DEF Send, SendGoes, Restart, SendInv, SendTypes, SendStates, SendClocks, SendClock
  <2>2. UNCHANGED open /\ ~open[p]
    BY <1>1 DEF Send, SendInv, NothingLeftOpen
  <2>. QED BY <2>1, <2>2, Zenon DEF SendInv, OpenType, NothingLeftOpen
<1>2. CASE DialAnswered(p)
  <2>1. SendTypes' /\ SendClocks' /\ spc'[p] = "connected" /\ \A q \in Names \ {p} : spc'[q] = spc[q]
    BY <1>2, Limit DEF DialAnswered, SendGoes, SendInv, SendTypes, SendStates, SendClocks, SendClock
  <2>2. OpenType' /\ \A q \in Names \ {p} : open'[q] = open[q]
    BY <1>2, Opened, Zenon DEF DialAnswered, SendInv
  <2>. QED BY <2>1, <2>2, Zenon DEF SendInv, NothingLeftOpen
<1>3. CASE DialRefused(p) \/ DialGivesUp(p)
  BY <1>3, Returns DEF DialRefused, DialGivesUp
<1>4. CASE SetWriteDeadline(p)
  <2>1. CASE Return(p, "transient") /\ UNCHANGED waited
    BY <1>4, <2>1, Returns DEF SetWriteDeadline
  <2>2. CASE SendGoes(p, "writing") /\ waited' = Restart(waited, p) /\ UNCHANGED <<open, returned>>
    <3>1. SendTypes' /\ SendClocks' /\ spc'[p] = "writing" /\ \A q \in Names \ {p} : spc'[q] = spc[q]
      BY <1>4, <2>2, Limit DEF SetWriteDeadline, SendGoes, Restart, SendInv, SendTypes, SendStates,
                               SendClocks, SendClock
    <3>. QED BY <3>1, <2>2, Zenon DEF SendInv, OpenType, NothingLeftOpen
  <2>. QED BY <1>4, <2>1, <2>2 DEF SetWriteDeadline
<1>5. CASE WriteTimesOut(p) \/ SendReturns(p)
  BY <1>5, Returns DEF WriteTimesOut, SendReturns
<1>6. ASSUME NEW n \in 0..Len(data[p]), Write(p, n) \/ WriteFails(p, n)
      PROVE  SendInv'
  <2>1. CASE Return(p, "transient")
    BY <1>6, <2>1, Returns DEF Write, WriteFails
  <2>2. CASE UNCHANGED <<spc, open, returned, waited, spent>>
    BY <2>2, Zenon DEF SendInv, SendTypes, SendStates, SendClocks, SendClock, OpenType, NothingLeftOpen
  <2>. QED BY <1>6, <2>1, <2>2 DEF Write, WriteFails
<1>. QED
  BY <1>1, <1>2, <1>3, <1>4, <1>5, <1>6 DEF SendCode, PrinterStep

\* A listing's own steps: a slot that is done has no timer any more.
LEMMA ListingStep ==
  ASSUME ListInv,
         \/ \E order \in Orders : ListPrinters(order)
         \/ ListCode
         \/ \E k \in Slots : ProbeStep(k)
         \/ ClientLeaves
  PROVE  ListInv'
<1>1. ASSUME NEW order \in Orders, ListPrinters(order)
      PROVE  ListInv'
  BY <1>1, Limit DEF ListPrinters, ListInv, ListTypes, ListClocks, Slots
<1>2. ASSUME NEW k \in Slots, NEW to \in {"dialing", "done"},
             list = "probing", ppc' = [ppc EXCEPT ![k] = to],
             ppc[k] # "done", UNCHANGED <<list, entries, pwaited, listed>>
      PROVE  ListInv'
  BY <1>2 DEF ListInv, ListTypes, ListClocks, Slots
<1>3. ASSUME NEW k \in Slots, ProbeStarts(k) \/ ProbeGivesUp(k) \/ ProbeStep(k)
      PROVE  ListInv'
  <2>1. list = "probing" /\ ppc[k] # "done" /\ UNCHANGED <<list, entries, pwaited, listed>>
    BY <1>3 DEF ProbeStarts, ProbeGivesUp, ProbeStep, ProbeAnswered, ProbeRefused
  <2>2. \E to \in {"dialing", "done"} : ppc' = [ppc EXCEPT ![k] = to]
    BY <1>3 DEF ProbeStarts, ProbeGivesUp, ProbeStep, ProbeAnswered, ProbeRefused, Summarise
  <2>. QED BY <1>2, <2>1, <2>2
<1>4. CASE ListReturns
  BY <1>4 DEF ListReturns, ListInv, ListTypes, ListClocks, Slots
<1>5. CASE ClientLeaves
  BY <1>5 DEF ClientLeaves, ListInv, ListTypes, ListClocks, Slots
<1>. QED
  BY <1>1, <1>3, <1>4, <1>5 DEF ListCode

\* A tick: no timer in force was due, or something could have run.
LEMMA TickStep ==
  ASSUME IInv, Tick
  PROVE  SendInv' /\ ListInv'
<1>1. ASSUME NEW p \in Waiting
      PROVE  /\ p \in Names
             /\ spc[p] \in {"dialing", "writing"}
             /\ waited[p] # NetworkTimeout
  BY DEF IInv, SendInv, SendTypes, SendStates, Tick, Runnable, Waiting
<1>2. SendTypes' /\ SendClocks'
  <2>1. \A p \in Names :
          IF p \in Waiting
          THEN waited'[p] = waited[p] + 1 /\ spent'[p] = spent[p] + 1
          ELSE waited'[p] = waited[p] /\ spent'[p] = spent[p]
    BY DEF Tick, IInv, SendInv, SendTypes
  <2>2. SendTypes'
    BY <1>1, <2>1, Limit DEF Tick, IInv, SendInv, SendTypes
  <2>3. SendClocks'
    <3>. SUFFICES ASSUME NEW p \in Names PROVE SendClock(p)'
      BY DEF SendClocks
    <3>. QED
      BY <1>1, <2>1, Limit DEF Tick, IInv, SendInv, SendTypes, SendClocks, SendClock, Waiting
  <2>. QED BY <2>2, <2>3
<1>3. OpenType' /\ NothingLeftOpen'
  BY Zenon DEF Tick, IInv, SendInv, OpenType, NothingLeftOpen
<1>4. CASE list # "probing"
  <2>1. UNCHANGED <<list, entries, ppc, listed>> /\ pwaited' = pwaited
    BY <1>4 DEF Tick, Probing, IInv, ListInv, ListTypes
  <2>2. ListInv'
    BY <2>1 DEF IInv, ListInv, ListTypes, ListClocks, Slots
  <2>. QED BY <1>2, <1>3, <2>2 DEF SendInv
<1>5. CASE list = "probing"
  <2>1. PICK k \in Slots : ppc[k] # "done"
    BY <1>5 DEF Tick, Runnable
  <2>2. \A q \in Slots : ppc[q] # "done" => ppc[q] = "dialing" /\ pwaited[q] # ProbeLimit
    BY <1>5 DEF Tick, Runnable, IInv, ListInv, ListTypes
  <2>3. listed < ProbeLimit
    BY <1>5, <2>1, <2>2, Limit DEF IInv, ListInv, ListTypes, ListClocks
  <2>4. \A q \in Slots :
          pwaited'[q] = pwaited[q] + (IF ppc[q] = "dialing" THEN 1 ELSE 0)
    BY <1>5 DEF Tick, Probing
  <2>5. ListInv'
    BY <1>5, <2>2, <2>3, <2>4, Limit DEF Tick, IInv, ListInv, ListTypes, ListClocks, Slots
  <2>. QED BY <1>2, <1>3, <2>5 DEF SendInv
<1>. QED BY <1>4, <1>5

\* buildPrinters gives its maps one domain, of names that are in Name.
LEMMA StartStep ==
  ASSUME Maps, NEW config \in Configs, Start(config)
  PROVE  Maps'
<1>. DEFINE named == {config.printers[n].name : n \in DOMAIN config.printers}
<1>1. named \subseteq Names
  BY PrintersAssumption DEF Start, Names
<1>2. /\ phase' = "serving" /\ printers' = named
      /\ DOMAIN profiles' = named /\ DOMAIN connections' = named
  BY DEF Start
<1>3. UNCHANGED <<cancelled, left>>
  BY DEF Start, listVars
<1>. HIDE DEF named
<1>4. (cancelled \in BOOLEAN /\ left \in BOOLEAN)'
  BY <1>3, Zenon DEF Maps
<1>. QED BY <1>1, <1>2, <1>4 DEF Maps

\* Only the client and the shutdown change a flag; no call changes a map.
LEMMA MapsStep ==
  ASSUME Maps, [Next]_vars
  PROVE  Maps'
<1>1. ASSUME NEW config \in Configs, Start(config) PROVE Maps'
  BY <1>1, StartStep
<1>2. ASSUME UNCHANGED mapVars,
             UNCHANGED cancelled \/ cancelled' = TRUE,
             UNCHANGED left \/ left' = TRUE \/ left' = FALSE
      PROVE  Maps'
  BY <1>2, Zenon DEF Maps, mapVars
<1>3. ASSUME NEW p \in Names, Send(p) \/ SendCode(p) \/ PrinterStep(p)
      PROVE  UNCHANGED <<mapVars, cancelled, left>>
  BY <1>3 DEF Send, SendCode, PrinterStep, DialGivesUp, SetWriteDeadline, WriteTimesOut,
              SendReturns, DialAnswered, DialRefused, Write, WriteFails, listVars
<1>4. ASSUME NEW order \in Orders, ListPrinters(order)
      PROVE  UNCHANGED <<mapVars, cancelled>> /\ left' = FALSE
  BY <1>4 DEF ListPrinters
<1>5. ASSUME NEW k \in Slots, ProbeStarts(k) \/ ProbeGivesUp(k) \/ ProbeStep(k)
      PROVE  UNCHANGED <<mapVars, cancelled, left>>
  BY <1>5 DEF ProbeStarts, ProbeGivesUp, ProbeStep, ProbeAnswered, ProbeRefused
<1>6. ASSUME ListReturns \/ ClientLeaves \/ Cancel \/ Tick \/ UNCHANGED vars
      PROVE  /\ UNCHANGED mapVars
             /\ UNCHANGED cancelled \/ cancelled' = TRUE
             /\ UNCHANGED left \/ left' = TRUE
  BY <1>6 DEF ListReturns, ClientLeaves, Cancel, Tick, vars, listVars
<1>. QED
  BY <1>1, <1>2, <1>3, <1>4, <1>5, <1>6 DEF Next, ListCode

LEMMA NextInv == IInv /\ [Next]_vars => IInv'
<1>. SUFFICES ASSUME IInv, [Next]_vars PROVE IInv'
  OBVIOUS
<1>1. Maps'
  BY MapsStep DEF IInv
<1>2. CASE UNCHANGED <<sendVars, listVars>>
  BY <1>1, <1>2, SendKept, ListKept DEF IInv
<1>3. ASSUME NEW p \in Names, Send(p) \/ SendCode(p) \/ PrinterStep(p)
      PROVE  SendInv' /\ ListInv'
  <2>1. UNCHANGED listVars
    BY <1>3 DEF Send, SendCode, PrinterStep, DialGivesUp, SetWriteDeadline, WriteTimesOut,
                SendReturns, DialAnswered, DialRefused, Write, WriteFails
  <2>. QED BY <1>3, <2>1, SendStep, ListKept DEF IInv
<1>4. ASSUME \/ \E order \in Orders : ListPrinters(order)
             \/ ListCode
             \/ \E k \in Slots : ProbeStep(k)
             \/ ClientLeaves
      PROVE  SendInv' /\ ListInv'
  <2>1. UNCHANGED sendVars
    BY <1>4 DEF ListPrinters, ListCode, ProbeStep, ClientLeaves, ListReturns, ProbeStarts,
                ProbeGivesUp, ProbeAnswered, ProbeRefused
  <2>. QED BY <1>4, <2>1, SendKept, ListingStep DEF IInv
<1>5. CASE Tick
  BY <1>1, <1>5, TickStep DEF IInv
<1>6. ASSUME (\E config \in Configs : Start(config)) \/ Cancel \/ UNCHANGED vars
      PROVE  UNCHANGED <<sendVars, listVars>>
  BY <1>6 DEF Start, Cancel, vars
<1>. QED
  BY <1>1, <1>2, <1>3, <1>4, <1>5, <1>6 DEF Next, IInv

LEMMA AlwaysIInv == Spec => []IInv
BY InitialInv, NextInv, PTL DEF Spec

-----------------------------------------------------------------------------
(***************************************************************************)
(* What the runs check.                                                    *)
(***************************************************************************)

\* The maps keep one domain, and no timer of the code runs over, in any run of
\* the daemon (buildPrinters, Send, ListPrinters).
THEOREM TypeKept == Spec => []TypeOK
<1>1. IInv => TypeOK
  <2>. SUFFICES ASSUME IInv PROVE TypeOK
    OBVIOUS
  <2>1. /\ phase \in {"off", "serving"} /\ printers \subseteq Names
        /\ DOMAIN profiles = printers /\ DOMAIN connections = printers
        /\ cancelled \in BOOLEAN /\ left \in BOOLEAN
    BY Zenon DEF IInv, Maps
  <2>2. /\ spc \in [Names -> {"idle", "dialing", "connected", "writing"}]
        /\ returned \in [Names -> {"nothing", "ok", "transient"}]
        /\ open \in [Names -> BOOLEAN]
        /\ waited \in [Names -> 0..NetworkTimeout]
    BY Zenon DEF IInv, SendInv, SendTypes, SendStates, OpenType
  <2>3. /\ list \in {"none", "probing", "returned", "failed"}
        /\ \A k \in Slots : ppc[k] \in {"start", "dialing", "done"} /\ pwaited[k] \in 0..StatusTimeout
    BY Limit DEF IInv, ListInv, ListTypes
  <2>. QED BY <2>1, <2>2, <2>3, Zenon DEF TypeOK
<1>. QED BY <1>1, AlwaysIInv, PTL

\* Send closes its connection on every way it returns (the deferred Close).
THEOREM NothingLeftOpenKept == Spec => []NothingLeftOpen
<1>1. IInv => NothingLeftOpen
  BY Zenon DEF IInv, SendInv
<1>. QED BY <1>1, AlwaysIInv, PTL

\* Send returns within a dial and a write timeout, whatever the printer does, and
\* ListPrinters within one Status timeout, however many printers there are.
THEOREM InTimeKept == Spec => []InTime
<1>1. IInv => InTime
  <2>. SUFFICES ASSUME IInv PROVE InTime
    OBVIOUS
  <2>1. \A p \in Names : spent[p] <= 2 * NetworkTimeout
    BY Limit DEF IInv, SendInv, SendTypes, SendStates, SendClocks, SendClock
  <2>2. listed <= StatusTimeout
    BY Limit DEF IInv, ListInv, ListTypes
  <2>. QED BY <2>1, <2>2 DEF InTime
<1>. QED BY <1>1, AlwaysIInv, PTL

-----------------------------------------------------------------------------
(***************************************************************************)
(* What has reached the printer.                                           *)
(***************************************************************************)

Bytes == 1..Size

\* Before the first write nothing is out; while writing, what is out and what is
\* left make the receipt.
SendData(p) ==
  /\ spc[p] \in {"dialing", "connected"} => arrived[p] = <<>> /\ data[p] = Receipt
  /\ spc[p] = "writing" => arrived[p] \o data[p] = Receipt
  /\ IsPrefix(arrived[p], Receipt)
  /\ returned[p] = "ok" => spc[p] = "idle" /\ arrived[p] = Receipt

DataTypes == data \in [Names -> Seq(Bytes)] /\ arrived \in [Names -> Seq(Bytes)]

DataInv == DataTypes /\ \A p \in Names : SendData(p)

LEMMA ReceiptSeq ==
  Receipt \in Seq(Bytes) /\ Len(Receipt) = Size /\ Receipt # <<>>
BY PrintersAssumption DEF Receipt, Bytes

\* What the writes have left is a prefix of the receipt.
LEMMA Prefix ==
  ASSUME NEW a \in Seq(Bytes), NEW d \in Seq(Bytes), a \o d = Receipt
  PROVE  IsPrefix(a, Receipt)
<1>1. /\ Len(a \o d) = Len(a) + Len(d)
      /\ \A n \in 1..Len(a) : (a \o d)[n] = a[n]
  BY ConcatProperties
<1>2. Len(a) <= Len(Receipt) /\ \A n \in 1..Len(a) : Receipt[n] = a[n]
  BY <1>1
<1>. QED BY <1>2, ReceiptSeq DEF IsPrefix

\* The n bytes of a write move from what is left to what has arrived.
CutAt(a, d, n) ==
  /\ a \o SubSeq(d, 1, n) \in Seq(Bytes) /\ SubSeq(d, n + 1, Len(d)) \in Seq(Bytes)
  /\ (a \o SubSeq(d, 1, n)) \o SubSeq(d, n + 1, Len(d)) = a \o d
  /\ n = 0 => a \o SubSeq(d, 1, n) = a
  /\ n # 0 => a \o SubSeq(d, 1, n) # <<>>

LEMMA Moved == ASSUME NEW a \in Seq(Bytes), NEW d \in Seq(Bytes), NEW n \in 0..Len(d) PROVE CutAt(a, d, n)
<1>. DEFINE head == SubSeq(d, 1, n)
            tail == SubSeq(d, n + 1, Len(d))
<1>1. head \in Seq(Bytes) /\ tail \in Seq(Bytes) /\ Len(head) = n
  OBVIOUS
<1>2. head \o tail = d
  <2>1. 1 \in 1..(Len(d) + 1) /\ n \in (1 - 1)..Len(d) /\ Len(d) \in n..Len(d)
    OBVIOUS
  <2>2. head \o tail = SubSeq(d, 1, Len(d))
    BY <2>1, ConcatAdjacentSubSeq
  <2>3. SubSeq(d, 1, Len(d)) = d
    OBVIOUS
  <2>. QED BY <2>2, <2>3
<1>. HIDE DEF head, tail
<1>3. (a \o head) \o tail = a \o d
  <2>1. (a \o head) \o tail = a \o (head \o tail)
    BY <1>1, SMT
  <2>. QED BY <1>2, <2>1, Zenon
<1>4. a \o head \in Seq(Bytes) /\ Len(a \o head) = Len(a) + n
  BY <1>1, ConcatProperties
<1>5. n = 0 => a \o head = a
  <2>. SUFFICES ASSUME n = 0 PROVE a \o head = a
    OBVIOUS
  <2>1. head = <<>>
    BY <1>1
  <2>2. a \o <<>> = a
    BY ConcatEmptySeq, Zenon
  <2>. QED BY <2>1, <2>2
<1>6. n # 0 => a \o head # <<>>
  BY <1>4
<1>. QED BY <1>1, <1>3, <1>4, <1>5, <1>6 DEF head, tail, CutAt

LEMMA InitialData == Init => DataInv
<1>. SUFFICES ASSUME Init PROVE DataInv
  OBVIOUS
<1>1. IsPrefix(<<>>, Receipt)
  BY ReceiptSeq DEF IsPrefix
<1>. QED BY <1>1 DEF Init, DataInv, DataTypes, SendData

\* Returning an error leaves on the paper what is there.
LEMMA ReturnsData ==
  ASSUME IInv, DataInv, NEW p \in Names, Return(p, "transient"), UNCHANGED <<data, arrived>>
  PROVE  DataInv'
BY DEF Return, SendGoes, IInv, SendInv, SendTypes, DataInv, DataTypes, SendData

\* What a write does to the bytes.
LEMMA DeliverData ==
  ASSUME DataInv, NEW p \in Names, NEW n \in 0..Len(data[p]), Deliver(p, n), spc[p] = "writing"
  PROVE  /\ arrived' \in [Names -> Seq(Bytes)]
         /\ SubSeq(data[p], n + 1, Len(data[p])) \in Seq(Bytes)
         /\ arrived'[p] \o SubSeq(data[p], n + 1, Len(data[p])) = Receipt
         /\ IsPrefix(arrived'[p], Receipt)
         /\ n = 0 => arrived'[p] = arrived[p]
         /\ n # 0 => arrived'[p] # <<>>
         /\ \A q \in Names \ {p} : arrived'[q] = arrived[q]
<1>. DEFINE a == arrived[p]
            d == data[p]
<1>1. a \in Seq(Bytes) /\ d \in Seq(Bytes) /\ a \o d = Receipt
  BY DEF DataInv, DataTypes, SendData
<1>2. /\ a \o SubSeq(d, 1, n) \in Seq(Bytes) /\ SubSeq(d, n + 1, Len(d)) \in Seq(Bytes)
      /\ (a \o SubSeq(d, 1, n)) \o SubSeq(d, n + 1, Len(d)) = a \o d
      /\ n = 0 => a \o SubSeq(d, 1, n) = a
      /\ n # 0 => a \o SubSeq(d, 1, n) # <<>>
  <2>1. PICK x \in Seq(Bytes), y \in Seq(Bytes) : x = a /\ y = d
    BY <1>1, Zenon
  <2>2. n \in 0..Len(y)
    BY <2>1
  <2>3. CutAt(x, y, n)
    BY <2>2, Moved, Zenon
  <2>. QED BY <2>1, <2>3, Zenon DEF CutAt
<1>3. arrived' = [arrived EXCEPT ![p] = a \o SubSeq(d, 1, n)]
  BY DEF Deliver
<1>4. arrived'[p] = a \o SubSeq(d, 1, n) /\ arrived' \in [Names -> Seq(Bytes)]
      /\ \A q \in Names \ {p} : arrived'[q] = arrived[q]
  BY <1>2, <1>3 DEF DataInv, DataTypes
<1>5. IsPrefix(a \o SubSeq(d, 1, n), Receipt)
  BY <1>1, <1>2, Prefix
<1>. QED BY <1>1, <1>2, <1>4, <1>5

LEMMA DataStep ==
  ASSUME IInv, DataInv, NEW p \in Names, Send(p) \/ SendCode(p) \/ PrinterStep(p)
  PROVE  DataInv'
<1>0. IsPrefix(<<>>, Receipt)
  BY ReceiptSeq DEF IsPrefix
<1>1. CASE Send(p)
  BY <1>0, <1>1, ReceiptSeq DEF Send, SendGoes, IInv, SendInv, SendTypes, DataInv, DataTypes, SendData
<1>2. CASE DialAnswered(p)
  BY <1>2 DEF DialAnswered, SendGoes, IInv, SendInv, SendTypes, DataInv, DataTypes, SendData
<1>3. CASE DialRefused(p) \/ DialGivesUp(p) \/ WriteTimesOut(p)
  BY <1>3, ReturnsData DEF DialRefused, DialGivesUp, WriteTimesOut
<1>4. CASE SetWriteDeadline(p)
  <2>1. CASE Return(p, "transient")
    BY <1>4, <2>1, ReturnsData DEF SetWriteDeadline
  <2>2. CASE SendGoes(p, "writing") /\ UNCHANGED returned
    <3>1. <<>> \o Receipt = Receipt
      BY ReceiptSeq, ConcatEmptySeq
    <3>. QED BY <1>4, <2>2, <3>1 DEF SetWriteDeadline, SendGoes, IInv, SendInv, SendTypes, DataInv,
                                     DataTypes, SendData
  <2>. QED BY <1>4, <2>1, <2>2 DEF SetWriteDeadline
<1>5. CASE SendReturns(p)
  <2>1. arrived[p] \o <<>> = arrived[p]
    BY ConcatEmptySeq DEF DataInv, DataTypes
  <2>2. arrived[p] = Receipt
    BY <1>5, <2>1 DEF SendReturns, DataInv, SendData
  <2>. QED BY <1>5, <2>2 DEF SendReturns, Return, SendGoes, IInv, SendInv, SendTypes, DataInv,
                             DataTypes, SendData
<1>6. ASSUME NEW n \in 0..Len(data[p]), Write(p, n) \/ WriteFails(p, n)
      PROVE  DataInv'
  <2>1. spc[p] = "writing" /\ Deliver(p, n)
    BY <1>6 DEF Write, WriteFails
  <2>2. /\ arrived' \in [Names -> Seq(Bytes)] /\ IsPrefix(arrived'[p], Receipt)
        /\ SubSeq(data[p], n + 1, Len(data[p])) \in Seq(Bytes)
        /\ arrived'[p] \o SubSeq(data[p], n + 1, Len(data[p])) = Receipt
        /\ \A q \in Names \ {p} : arrived'[q] = arrived[q]
    BY <2>1, DeliverData
  <2>3. CASE Return(p, "transient") /\ UNCHANGED data
    BY <2>2, <2>3 DEF Return, SendGoes, IInv, SendInv, SendTypes, DataInv, DataTypes, SendData
  <2>4. CASE /\ data' = [data EXCEPT ![p] = SubSeq(@, n + 1, Len(@))]
             /\ UNCHANGED <<spc, open, returned>>
    <3>1. data'[p] = SubSeq(data[p], n + 1, Len(data[p])) /\ data' \in [Names -> Seq(Bytes)]
          /\ \A q \in Names \ {p} : data'[q] = data[q]
      BY <2>2, <2>4 DEF DataInv, DataTypes
    <3>. QED BY <2>1, <2>2, <2>4, <3>1 DEF DataInv, DataTypes, SendData
  <2>. QED BY <1>6, <2>3, <2>4 DEF Write, WriteFails
<1>. QED
  BY <1>1, <1>2, <1>3, <1>4, <1>5, <1>6 DEF SendCode, PrinterStep

LEMMA NextData == IInv /\ DataInv /\ [Next]_vars => DataInv'
<1>. SUFFICES ASSUME IInv, DataInv, [Next]_vars PROVE DataInv'
  OBVIOUS
<1>1. ASSUME UNCHANGED sendVars PROVE DataInv'
  BY <1>1 DEF sendVars, DataInv, DataTypes, SendData
<1>2. ASSUME \/ \E config \in Configs : Start(config)
             \/ \E order \in Orders : ListPrinters(order)
             \/ ListCode \/ (\E k \in Slots : ProbeStep(k)) \/ ClientLeaves
             \/ Cancel \/ UNCHANGED vars
      PROVE  UNCHANGED sendVars
  BY <1>2 DEF Start, ListPrinters, ListCode, ProbeStep, ClientLeaves, ListReturns, ProbeStarts,
              ProbeGivesUp, ProbeAnswered, ProbeRefused, Cancel, vars
<1>3. CASE Tick
  BY <1>3 DEF Tick, DataInv, DataTypes, SendData
<1>4. ASSUME NEW p \in Names, Send(p) \/ SendCode(p) \/ PrinterStep(p) PROVE DataInv'
  BY <1>4, DataStep
<1>. QED BY <1>1, <1>2, <1>3, <1>4 DEF Next

LEMMA AlwaysDataInv == Spec => [](IInv /\ DataInv)
<1>1. Init => IInv /\ DataInv
  BY InitialInv, InitialData
<1>2. IInv /\ DataInv /\ [Next]_vars => (IInv /\ DataInv)'
  BY NextInv, NextData
<1>. QED BY <1>1, <1>2, PTL DEF Spec

\* In whatever pieces the writes go out and however they fail, the printer gets
\* the receipt's bytes in order, and all of them when Send returns nil.
THEOREM SentWholeKept == Spec => []SentWhole
<1>1. DataInv => SentWhole
  BY DEF DataInv, SendData, SentWhole
<1>. QED BY <1>1, AlwaysDataInv, PTL

-----------------------------------------------------------------------------
(***************************************************************************)
(* What a listing tells.                                                   *)
(***************************************************************************)

\* What the listing says of a name: its own entry in each of the maps.
Summary(n) ==
  [name |-> n, transport |-> connections[n], profile |-> profiles[n], online |-> n \in answered]

\* The maps hold what an accepted configuration says of each of its printers.
Serves(config) ==
  /\ ConfigAccepted(config)
  /\ printers = {e.name : e \in ToSet(config.printers)}
  /\ \A e \in ToSet(config.printers) :
       profiles[e.name] = ProfileOf(e) /\ connections[e.name] = e.transport

Served == IF phase = "serving" THEN \E config \in Configs : Serves(config) ELSE list = "none"

\* A slot that is done tells of its own printer; no other slot asks that one.
Slotted ==
  list = "probing" =>
    /\ entries \in Orders
    /\ DOMAIN summaries = Slots
    /\ \A k \in Slots : IF ppc[k] = "done" THEN summaries[k] = Summary(entries[k])
                        ELSE entries[k] \notin answered

\* A listing that has returned tells of every printer once, in order.
Told ==
  list = "returned" =>
    /\ summaries \in [1..Cardinality(printers) -> {Summary(n) : n \in printers}]
    /\ ToSet(summaries) = {Summary(n) : n \in printers}
    /\ \A k \in 2..Cardinality(printers) :
         Position(summaries[k - 1].name) < Position(summaries[k].name)

ListingInv == list # "failed" /\ Served /\ Slotted /\ Told

LEMMA Places ==
  /\ DOMAIN Name \subseteq Int
  /\ \A n \in Names : Position(n) \in DOMAIN Name /\ Name[Position(n)] = n
<1>1. DOMAIN Name \subseteq Int
  BY PrintersAssumption
<1>2. ASSUME NEW n \in Names PROVE Position(n) \in DOMAIN Name /\ Name[Position(n)] = n
  <2>1. \E i \in DOMAIN Name : Name[i] = n
    BY DEF Names, ToSet
  <2>. QED BY <2>1, Zenon DEF Position
<1>. QED BY <1>1, <1>2

\* An accepted configuration names as many printers as it has entries.
LEMMA EntriesCounted ==
  ASSUME NEW config \in Configs, Serves(config)
  PROVE  /\ IsFiniteSet(printers) /\ Cardinality(printers) = Len(config.printers)
         /\ Len(config.printers) \in Nat
<1>. DEFINE es == config.printers
            f == [k \in 1..Len(es) |-> es[k].name]
<1>1. es \in Seq(ToSet(es)) /\ DOMAIN es = 1..Len(es) /\ Len(es) \in Nat
  BY PrintersAssumption DEF Serves
<1>2. \A j, k \in DOMAIN es : es[j].name = es[k].name => j = k
  BY DEF Serves, ConfigAccepted, NamesDistinct
<1>3. printers = {es[k].name : k \in 1..Len(es)}
  BY <1>1 DEF Serves, ToSet
<1>4. f \in Bijection(1..Len(es), printers)
  <2>1. f \in [1..Len(es) -> printers] /\ \A n \in printers : \E k \in 1..Len(es) : f[k] = n
    BY <1>3
  <2>2. IsInjective(f)
    BY <1>1, <1>2 DEF IsInjective
  <2>. HIDE DEF f
  <2>. QED BY <2>1, <2>2 DEF Bijection, Injection, Surjection
<1>5. ExistsBijection(1..Len(es), printers)
  BY <1>4, Zenon DEF ExistsBijection
<1>6. IsFiniteSet(1..Len(es))
  BY <1>1, FS_Interval
<1>7. IsFiniteSet(printers)
  BY <1>5, <1>6, FS_Bijection, Zenon
<1>8. Cardinality(printers) = Len(es)
  BY <1>1, <1>5, FS_CountingElements, Zenon
<1>. QED BY <1>1, <1>7, <1>8

\* The slots of a listing are those of all printers.
LEMMA SlotsCover ==
  ASSUME IsFiniteSet(printers), entries \in Orders
  PROVE  /\ Cardinality(printers) \in Nat /\ Slots = 1..Cardinality(printers) /\ IsFiniteSet(Slots)
         /\ \A k \in Slots : entries[k] \in printers
         /\ \A j, k \in Slots : entries[j] = entries[k] => j = k
         /\ \A n \in printers : \E k \in Slots : entries[k] = n
<1>. DEFINE N == Cardinality(printers)
<1>1. N \in Nat
  BY FS_CardinalityType
<1>2. entries \in [1..N -> printers] /\ IsInjective(entries) /\ Slots = 1..N
  BY DEF Orders, Slots
<1>3. IsFiniteSet(1..N) /\ Cardinality(1..N) = N
  BY <1>1, FS_Interval
<1>4. entries \in Injection(1..N, printers)
  BY <1>2 DEF Injection
<1>5. entries \in Surjection(1..N, printers)
  BY <1>3, <1>4, FS_Injection
<1>. QED BY <1>1, <1>2, <1>3, <1>5 DEF IsInjective, Surjection

\* A sort loses no slot.
LEMMA SortKeeps ==
  ASSUME NEW S, IsFiniteSet(S), NEW p \in [S -> S], IsInjective(p)
  PROVE  \A k \in S : \E j \in S : p[j] = k
<1>1. p \in Injection(S, S)
  BY DEF Injection
<1>2. p \in Surjection(S, S)
  BY <1>1, FS_Injection
<1>. QED BY <1>2 DEF Surjection

\* buildPrinters: with distinct names, the last entry of a name is the one.
LEMMA StartServes ==
  ASSUME NEW config \in Configs, Start(config)
  PROVE  Serves(config)'
<1>. DEFINE es == config.printers
            named == {es[k].name : k \in DOMAIN es}
            EntryAt(n) == SelectLastInSeq(es, LAMBDA e : e.name = n)
<1>1. ConfigAccepted(config) /\ es \in Seq(ToSet(es)) /\ DOMAIN es = 1..Len(es) /\ Len(es) \in Nat
  BY PrintersAssumption DEF Start
<1>2. /\ printers' = named
      /\ profiles' = [n \in named |-> ProfileOf(es[EntryAt(n)])]
      /\ connections' = [n \in named |-> es[EntryAt(n)].transport]
  BY DEF Start
<1>3. ASSUME NEW k \in DOMAIN es PROVE EntryAt(es[k].name) = k
  <2>. DEFINE I == {j \in 1..Len(es) : es[j].name = es[k].name}
  <2>1. I = {k}
    BY <1>1, <1>3 DEF ConfigAccepted, NamesDistinct
  <2>2. EntryAt(es[k].name) = IF I # {} THEN Max(I) ELSE 0
    BY Zenon DEF SelectLastInSeq
  <2>3. Max({k}) = k
    <3>1. k \in Int
      BY <1>1
    <3>. QED BY <3>1 DEF Max
  <2>. QED BY <2>1, <2>2, <2>3
<1>. HIDE DEF EntryAt
<1>4. ToSet(es) = {es[k] : k \in DOMAIN es}
  BY DEF ToSet
<1>5. ASSUME NEW e \in ToSet(es)
      PROVE  profiles'[e.name] = ProfileOf(e) /\ connections'[e.name] = e.transport
  <2>1. PICK k \in DOMAIN es : es[k] = e
    BY <1>4
  <2>. QED BY <1>2, <1>3, <2>1
<1>6. printers' = {e.name : e \in ToSet(es)}
  BY <1>2, <1>4
<1>. QED BY <1>1, <1>5, <1>6 DEF Serves

LEMMA ServedKept ==
  ASSUME Served, UNCHANGED mapVars, phase = "serving" \/ UNCHANGED list
  PROVE  Served'
BY DEF Served, Serves, mapVars

\* What no step but a listing's disturbs.
LEMMA ListingKept ==
  ASSUME ListingInv, UNCHANGED <<mapVars, list, entries, summaries, ppc, answered>>
  PROVE  ListingInv'
<1>1. Served'
  BY ServedKept DEF ListingInv
<1>2. \A n : Summary(n)' = Summary(n)
  BY DEF Summary, mapVars
<1>3. Slotted'
  BY <1>2 DEF ListingInv, Slotted, Slots, Orders, mapVars
<1>4. Told'
  BY <1>2 DEF ListingInv, Told, mapVars
<1>. QED BY <1>1, <1>3, <1>4 DEF ListingInv

\* The maps have an entry for each name: a listing never fails.
LEMMA ListBegins ==
  ASSUME Maps, ListingInv, NEW order \in Orders, ListPrinters(order)
  PROVE  ListingInv'
<1>1. printers \subseteq DOMAIN profiles \cap DOMAIN connections
  BY DEF Maps
<1>2. list' = "probing" /\ entries' = order /\ phase = "serving" /\ UNCHANGED mapVars
  BY <1>1 DEF ListPrinters
<1>3. /\ summaries' = [k \in DOMAIN entries' |-> EmptySlot]
      /\ ppc' = [k \in DOMAIN entries' |-> "start"] /\ answered' = {}
  BY DEF ListPrinters
<1>4. Served'
  BY <1>2, ServedKept DEF ListingInv
<1>5. Slotted'
  BY <1>2, <1>3 DEF Slotted, Slots, Orders, mapVars
<1>. QED BY <1>2, <1>4, <1>5 DEF ListingInv, Told

\* Each goroutine fills its own slot, and asks its own printer only.
LEMMA ProbeTells ==
  ASSUME ListTypes, ListingInv, NEW k \in Slots, ProbeStarts(k) \/ ProbeGivesUp(k) \/ ProbeStep(k)
  PROVE  ListingInv'
<1>1. list = "probing" /\ ppc[k] # "done" /\ UNCHANGED <<mapVars, list, entries>>
  BY DEF ProbeStarts, ProbeGivesUp, ProbeStep, ProbeAnswered, ProbeRefused
<1>2. Served' /\ phase = "serving"
  BY <1>1, ServedKept DEF ListingInv, Served
<1>3. PICK config \in Configs : Serves(config)
  BY <1>2 DEF ListingInv, Served
<1>4. entries \in Orders /\ DOMAIN summaries = Slots /\ entries[k] \notin answered
      /\ \A j \in Slots \ {k} : entries[j] # entries[k]
  BY <1>1, <1>3, EntriesCounted, SlotsCover DEF ListingInv, Slotted
<1>5. CASE UNCHANGED <<summaries, answered>> /\ ppc' = [ppc EXCEPT ![k] = "dialing"]
  <2>1. \A n : Summary(n)' = Summary(n)
    BY <1>1, <1>5 DEF Summary, mapVars
  <2>2. \A j \in Slots : ppc'[j] = "done" => ppc[j] = "done"
    BY <1>5
  <2>3. Slotted'
    <3>1. entries' \in Orders' /\ DOMAIN summaries' = Slots' /\ Slots' = Slots
      BY <1>1, <1>4, <1>5 DEF Slots, Orders, mapVars
    <3>2. ASSUME NEW j \in Slots
          PROVE  IF ppc'[j] = "done" THEN summaries'[j] = Summary(entries[j])'
                 ELSE entries'[j] \notin answered'
      <4>1. Summary(entries[j])' = Summary(entries[j]) /\ j # k => ppc'[j] = ppc[j]
        BY <1>1, <1>5, <2>1
      <4>. QED BY <1>1, <1>4, <1>5, <2>1, <2>2, <4>1 DEF ListingInv, Slotted, Summary, mapVars
    <3>. QED BY <3>1, <3>2 DEF Slotted
  <2>. QED BY <1>1, <1>2, <2>3 DEF ListingInv, Told
<1>6. ASSUME NEW online \in BOOLEAN, Summarise(k, online),
             answered' = IF online THEN answered \cup {entries[k]} ELSE answered
      PROVE  ListingInv'
  <2>1. online <=> entries[k] \in answered'
    BY <1>4, <1>6
  <2>2. /\ DOMAIN summaries' = Slots
        /\ summaries'[k] = Summary(entries[k])'
        /\ \A j \in Slots \ {k} : summaries'[j] = summaries[j]
    BY <1>1, <1>4, <1>6, <2>1 DEF Summarise, Summary, mapVars
  <2>3. \A j \in Slots \ {k} : Summary(entries[j])' = Summary(entries[j])
    BY <1>1, <1>4, <1>6 DEF Summary, mapVars
  <2>4. \A j \in Slots \ {k} : ppc'[j] = ppc[j] /\ (entries[j] \in answered' <=> entries[j] \in answered)
    BY <1>4, <1>6 DEF Summarise
  <2>5. Slotted'
    <3>1. entries' \in Orders' /\ Slots' = Slots /\ entries' = entries
      BY <1>1, <1>4 DEF Slots, Orders, mapVars
    <3>2. ASSUME NEW j \in Slots, j # k
          PROVE  IF ppc'[j] = "done" THEN summaries'[j] = Summary(entries[j])'
                 ELSE entries[j] \notin answered'
      BY <1>1, <2>2, <2>3, <2>4, <3>2 DEF ListingInv, Slotted
    <3>3. ppc'[k] = "done"
      BY <1>6 DEF Summarise, ListTypes
    <3>. QED BY <2>2, <3>1, <3>2, <3>3 DEF Slotted
  <2>. QED BY <1>1, <1>2, <2>5 DEF ListingInv, Told
<1>7. CASE ProbeStarts(k)
  BY <1>5, <1>7 DEF ProbeStarts
<1>8. CASE ProbeAnswered(k)
  BY <1>6, <1>8 DEF ProbeAnswered
<1>9. CASE ProbeRefused(k) \/ ProbeGivesUp(k)
  BY <1>6, <1>9 DEF ProbeRefused, ProbeGivesUp
<1>. QED BY <1>7, <1>8, <1>9 DEF ProbeStep

\* The sort keeps every slot, and two names are never level.
LEMMA ListEnds ==
  ASSUME Maps, ListingInv, ListReturns
  PROVE  ListingInv'
<1>. DEFINE N == Cardinality(printers)
<1>1. list = "probing" /\ list' = "returned" /\ UNCHANGED <<mapVars, entries, answered>>
      /\ \A k \in Slots : ppc[k] = "done"
  BY DEF ListReturns
<1>2. Served' /\ phase = "serving"
  BY <1>1, ServedKept DEF ListingInv, Served
<1>3. PICK config \in Configs : Serves(config)
  BY <1>2 DEF ListingInv, Served
<1>4. /\ N \in Nat /\ Slots = 1..N /\ IsFiniteSet(Slots)
      /\ \A k \in Slots : entries[k] \in printers
      /\ \A j, k \in Slots : entries[j] = entries[k] => j = k
      /\ \A n \in printers : \E k \in Slots : entries[k] = n
  BY <1>1, <1>3, EntriesCounted, SlotsCover DEF ListingInv, Slotted
<1>5. \A k \in Slots : summaries[k] = Summary(entries[k])
  BY <1>1 DEF ListingInv, Slotted
<1>6. PICK p \in [Slots -> Slots] :
        /\ IsInjective(p) /\ summaries' = [k \in Slots |-> summaries[p[k]]]
        /\ \A j, k \in Slots : j < k => ~Before(summaries'[k], summaries'[j])
  BY DEF ListReturns
<1>7. /\ \A n : Summary(n)' = Summary(n) /\ Summary(n).name = n
      /\ printers' = printers
  BY <1>1 DEF Summary, mapVars
<1>8. \A k \in Slots : summaries'[k] = Summary(entries[p[k]])
  BY <1>5, <1>6
<1>9. summaries' \in [1..N -> {Summary(n) : n \in printers}]
  BY <1>4, <1>6, <1>8
<1>10. \A n \in printers : \E k \in Slots : summaries'[k] = Summary(n)
  <2>1. \A j \in Slots : \E k \in Slots : p[k] = j
    <3>1. IsFiniteSet(Slots) /\ IsInjective(p)
      BY <1>4, <1>6
    <3>. QED BY <3>1, SortKeeps, Zenon
  <2>2. ASSUME NEW n \in printers PROVE \E k \in Slots : entries[p[k]] = n
    <3>1. PICK j \in Slots : entries[j] = n
      BY <1>4
    <3>2. PICK k \in Slots : p[k] = j
      BY <2>1
    <3>. QED BY <3>1, <3>2
  <2>. QED BY <1>8, <2>2
<1>11. ToSet(summaries') = {Summary(n) : n \in printers}
  BY <1>4, <1>9, <1>10 DEF ToSet
<1>12. ASSUME NEW k \in 2..N
       PROVE  Position(summaries'[k - 1].name) < Position(summaries'[k].name)
  <2>1. k - 1 \in Slots /\ k \in Slots /\ k - 1 < k
    BY <1>4
  <2>. DEFINE m == entries[p[k - 1]]
              n == entries[p[k]]
  <2>2. p[k - 1] # p[k] /\ p[k - 1] \in Slots /\ p[k] \in Slots
    BY <1>6, <2>1 DEF IsInjective
  <2>3. m # n /\ m \in Names /\ n \in Names
    BY <1>4, <2>2 DEF Maps
  <2>4. summaries'[k - 1].name = m /\ summaries'[k].name = n
    BY <1>7, <1>8, <2>1
  <2>5. ~(Position(n) < Position(m))
    BY <1>6, <2>1, <2>4 DEF Before
  <2>6. Position(m) # Position(n) /\ Position(m) \in Int /\ Position(n) \in Int
    BY <2>3, Places
  <2>. HIDE DEF m, n
  <2>7. Position(m) < Position(n)
    BY <2>5, <2>6
  <2>. QED BY <2>4, <2>7
<1>13. Told'
  BY <1>7, <1>9, <1>11, <1>12 DEF Told
<1>. QED BY <1>1, <1>2, <1>13 DEF ListingInv, Slotted

LEMMA NextListing == IInv /\ ListingInv /\ [Next]_vars => ListingInv'
<1>. SUFFICES ASSUME IInv, ListingInv, [Next]_vars PROVE ListingInv'
  OBVIOUS
<1>0. Maps /\ ListTypes
  BY DEF IInv, ListInv
<1>1. ASSUME NEW config \in Configs, Start(config) PROVE ListingInv'
  <2>1. Serves(config)' /\ phase' = "serving" /\ phase = "off" /\ UNCHANGED listVars
    BY <1>1, StartServes DEF Start
  <2>2. list = "none" /\ list' = "none"
    BY <2>1 DEF ListingInv, Served, listVars
  <2>. QED BY <2>1, <2>2 DEF ListingInv, Served, Slotted, Told
<1>2. ASSUME NEW p \in Names, Send(p) \/ SendCode(p) \/ PrinterStep(p) PROVE ListingInv'
  <2>1. UNCHANGED <<mapVars, listVars>>
    BY <1>2 DEF Send, SendCode, PrinterStep, DialGivesUp, SetWriteDeadline, WriteTimesOut,
                SendReturns, DialAnswered, DialRefused, Write, WriteFails
  <2>. QED BY <2>1, ListingKept DEF listVars
<1>3. ASSUME NEW order \in Orders, ListPrinters(order) PROVE ListingInv'
  BY <1>0, <1>3, ListBegins
<1>4. ASSUME NEW k \in Slots, ProbeStarts(k) \/ ProbeGivesUp(k) \/ ProbeStep(k) PROVE ListingInv'
  BY <1>0, <1>4, ProbeTells
<1>5. CASE ListReturns
  BY <1>0, <1>5, ListEnds
<1>6. CASE ClientLeaves \/ Cancel \/ Tick \/ UNCHANGED vars
  BY <1>6, ListingKept DEF ClientLeaves, Cancel, Tick, vars, listVars
<1>. QED BY <1>1, <1>2, <1>3, <1>4, <1>5, <1>6 DEF Next, ListCode

LEMMA AlwaysListing == Spec => [](IInv /\ ListingInv)
<1>1. Init => IInv /\ ListingInv
  BY InitialInv DEF Init, ListingInv, Served, Slotted, Told
<1>2. IInv /\ ListingInv /\ [Next]_vars => (IInv /\ ListingInv)'
  BY NextInv, NextListing
<1>. QED BY <1>1, <1>2, PTL DEF Spec

\* A listing never fails for a missing map entry; it tells of every printer of
\* the accepted configuration once, in the order of the names, with its own
\* transport and profile, and as online if that printer itself was reached,
\* whatever order the map is ranged over in and the goroutines end in.
THEOREM ListingTrueKept == Spec => []ListingTrue
<1>1. IInv /\ ListingInv => ListingTrue
  <2>. SUFFICES ASSUME IInv, ListingInv PROVE ListingTrue
    OBVIOUS
  <2>1. ASSUME list = "returned"
        PROVE  /\ \E config \in Configs :
                    /\ ConfigAccepted(config)
                    /\ ToSet(summaries) = {[name |-> e.name, transport |-> e.transport,
                                            profile |-> ProfileOf(e), online |-> e.name \in answered]
                                             : e \in ToSet(config.printers)}
                    /\ Len(summaries) = Len(config.printers)
               /\ \A k \in 2..Len(summaries) :
                    Position(summaries[k - 1].name) < Position(summaries[k].name)
    <3>1. PICK config \in Configs : Serves(config)
      BY <2>1 DEF ListingInv, Served
    <3>2. Cardinality(printers) = Len(config.printers) /\ Len(config.printers) \in Nat
      BY <3>1, EntriesCounted
    <3>3. Len(summaries) = Len(config.printers)
      BY <2>1, <3>2 DEF ListingInv, Told
    <3>4. \A e \in ToSet(config.printers) :
            Summary(e.name) = [name |-> e.name, transport |-> e.transport,
                               profile |-> ProfileOf(e), online |-> e.name \in answered]
      BY <3>1, Zenon DEF Serves, Summary
    <3>5. {Summary(n) : n \in printers}
            = {[name |-> e.name, transport |-> e.transport, profile |-> ProfileOf(e),
                online |-> e.name \in answered] : e \in ToSet(config.printers)}
      <4>1. {Summary(n) : n \in printers} = {Summary(e.name) : e \in ToSet(config.printers)}
        BY <3>1 DEF Serves
      <4>. QED BY <3>4, <4>1
    <3>6. ToSet(summaries) = {Summary(n) : n \in printers} /\ ConfigAccepted(config)
      BY <2>1, <3>1 DEF ListingInv, Told, Serves
    <3>7. \A k \in 2..Len(summaries) :
            Position(summaries[k - 1].name) < Position(summaries[k].name)
      BY <2>1, <3>2, <3>3 DEF ListingInv, Told
    <3>. QED BY <3>3, <3>5, <3>6, <3>7
  <2>. QED BY <2>1, Zenon DEF ListingTrue, ListingInv
<1>. QED BY <1>1, AlwaysListing, PTL

-----------------------------------------------------------------------------
(***************************************************************************)
(* Send implements SendContract.                                           *)
(***************************************************************************)

\* The refinement mapping, as functions of the printers.
Calls == [p \in Names |-> Call(p)]
Papers == [p \in Names |-> Paper(p)]

CallOf(state) == CASE state = "idle" -> "none" [] state = "dialing" -> "dialing" [] OTHER -> "writing"

LEMMA CallsMove ==
  ASSUME SendTypes, NEW p \in Names, NEW to \in SendStates, SendGoes(p, to)
  PROVE  Calls' = [Calls EXCEPT ![p] = CallOf(to)]
<1>1. \A q \in Names : spc'[q] = IF q = p THEN to ELSE spc[q]
  BY DEF SendTypes, SendGoes
<1>2. \A q \in Names : Call(q)' = IF q = p THEN CallOf(to) ELSE Call(q)
  BY <1>1 DEF Call, CallOf
<1>. QED BY <1>2 DEF Calls

LEMMA CallsKept ==
  ASSUME UNCHANGED spc
  PROVE  UNCHANGED Calls
BY DEF Calls, Call

LEMMA PapersMove ==
  ASSUME NEW p \in Names, \A q \in Names \ {p} : arrived'[q] = arrived[q]
  PROVE  Papers' = [Papers EXCEPT ![p] = Papers'[p]]
<1>1. \A q \in Names \ {p} : Paper(q)' = Paper(q)
  BY DEF Paper
<1>. QED BY <1>1 DEF Papers

LEMMA PapersKept ==
  ASSUME UNCHANGED arrived
  PROVE  UNCHANGED Papers
BY DEF Papers, Paper

\* The two mappings at one printer.
LEMMA At ==
  ASSUME NEW p \in Names
  PROVE  /\ Calls[p] = CallOf(spc[p])
         /\ Papers[p] \in {"nothing", "part", "all"}
         /\ Papers[p] = "nothing" <=> arrived[p] = <<>>
         /\ Papers[p] = "all" <=> arrived[p] = Receipt
         /\ Papers'[p] \in {"nothing", "part", "all"}
         /\ Papers'[p] = "nothing" <=> arrived'[p] = <<>>
BY ReceiptSeq DEF Calls, Call, CallOf, Papers, Paper

\* A return with an error is the contract's Fail, with what is on the paper now.
LEMMA FailSimulates ==
  ASSUME SendTypes, NEW p \in Names, spc[p] # "idle", Return(p, "transient"), UNCHANGED cancelled,
         \A q \in Names \ {p} : arrived'[q] = arrived[q],
         \/ arrived'[p] = arrived[p]
         \/ spc[p] = "writing" /\ arrived[p] # Receipt /\ arrived'[p] # <<>>
  PROVE  Contract!Next
<1>1. Calls' = [Calls EXCEPT ![p] = "none"]
  BY CallsMove DEF Return, CallOf, SendStates
<1>2. Papers' = [Papers EXCEPT ![p] = Papers'[p]]
  BY PapersMove
<1>3. Calls[p] # "none" /\ (spc[p] = "writing" => Calls[p] = "writing")
  BY At DEF CallOf, SendTypes, SendStates
<1>4. Papers'[p] # Papers[p] =>
        spc[p] = "writing" /\ Papers[p] # "all" /\ Papers'[p] # "nothing"
  BY At DEF Papers, Paper
<1>5. returned' = [returned EXCEPT ![p] = "transient"]
  BY DEF Return
<1>6. Contract!Fail(p, Papers'[p])
  BY <1>1, <1>2, <1>3, <1>4, <1>5 DEF Contract!Fail, Calls, Papers
<1>. QED BY <1>6, At DEF Contract!Next

LEMMA SendSimulates ==
  ASSUME IInv, DataInv, NEW p \in Names, Send(p) \/ SendCode(p) \/ PrinterStep(p)
  PROVE  Contract!Next \/ UNCHANGED <<Calls, Papers, returned, cancelled>>
<1>0. SendTypes /\ DataTypes
  BY DEF IInv, SendInv, DataInv
<1>1. CASE Send(p)
  <2>1. Calls' = [Calls EXCEPT ![p] = "dialing"] /\ Calls[p] = "none"
    BY <1>0, <1>1, CallsMove, At DEF Send, CallOf, SendStates
  <2>2. Papers' = [Papers EXCEPT ![p] = "nothing"]
    <3>1. arrived'[p] = <<>> /\ \A q \in Names \ {p} : arrived'[q] = arrived[q]
      BY <1>0, <1>1 DEF Send, DataTypes
    <3>2. Papers'[p] = "nothing"
      BY <3>1, At
    <3>. QED BY <3>1, <3>2, PapersMove
  <2>3. Contract!Begin(p)
    BY <1>1, <2>1, <2>2 DEF Send, Contract!Begin, Calls, Papers
  <2>. QED BY <2>3 DEF Contract!Next
<1>2. CASE DialAnswered(p)
  <2>1. Calls' = [Calls EXCEPT ![p] = "writing"] /\ Calls[p] = "dialing"
    BY <1>0, <1>2, CallsMove, At DEF DialAnswered, CallOf, SendStates
  <2>2. UNCHANGED Papers
    BY <1>2, PapersKept DEF DialAnswered
  <2>3. Contract!Connect(p)
    BY <1>2, <2>1, <2>2 DEF DialAnswered, Contract!Connect, Calls, Papers
  <2>. QED BY <2>3 DEF Contract!Next
<1>3. CASE DialRefused(p) \/ DialGivesUp(p) \/ WriteTimesOut(p)
  BY <1>0, <1>3, FailSimulates DEF DialRefused, DialGivesUp, WriteTimesOut
<1>4. CASE SetWriteDeadline(p)
  <2>1. CASE Return(p, "transient")
    BY <1>0, <1>4, <2>1, FailSimulates DEF SetWriteDeadline
  <2>2. CASE SendGoes(p, "writing") /\ UNCHANGED <<open, returned>>
    <3>1. Calls' = [Calls EXCEPT ![p] = "writing"] /\ Calls[p] = "writing"
      BY <1>0, <1>4, <2>2, CallsMove, At DEF SetWriteDeadline, CallOf, SendStates
    <3>2. UNCHANGED Calls
      BY <3>1 DEF Calls
    <3>. QED BY <1>4, <2>2, <3>2, PapersKept DEF SetWriteDeadline
  <2>. QED BY <1>4, <2>1, <2>2 DEF SetWriteDeadline
<1>5. CASE SendReturns(p)
  <2>1. Calls' = [Calls EXCEPT ![p] = "none"] /\ Calls[p] = "writing"
    BY <1>0, <1>5, CallsMove, At DEF SendReturns, Return, CallOf, SendStates
  <2>2. arrived[p] \o <<>> = arrived[p]
    BY <1>0, ConcatEmptySeq DEF DataTypes
  <2>3. Papers[p] = "all"
    BY <1>5, <2>2, At DEF SendReturns, DataInv, SendData
  <2>4. UNCHANGED Papers
    BY <1>5, PapersKept DEF SendReturns
  <2>5. Contract!Succeed(p)
    BY <1>5, <2>1, <2>3, <2>4 DEF SendReturns, Return, Contract!Succeed, Calls, Papers
  <2>. QED BY <2>5 DEF Contract!Next
<1>6. ASSUME NEW n \in 0..Len(data[p]), Write(p, n) \/ WriteFails(p, n)
      PROVE  Contract!Next \/ UNCHANGED <<Calls, Papers, returned, cancelled>>
  <2>1. spc[p] = "writing" /\ data[p] # <<>> /\ Deliver(p, n) /\ UNCHANGED cancelled
    BY <1>6 DEF Write, WriteFails
  <2>2. /\ n = 0 => arrived'[p] = arrived[p]
        /\ n # 0 => arrived'[p] # <<>>
        /\ \A q \in Names \ {p} : arrived'[q] = arrived[q]
    BY <2>1, DeliverData
  <2>3. arrived[p] # Receipt
    BY <2>1, ReceiptSeq, ConcatEqualIffEmpty DEF DataInv, DataTypes, SendData
  <2>4. CASE Return(p, "transient")
    BY <1>0, <2>1, <2>2, <2>3, <2>4, FailSimulates
  <2>5. CASE n # 0 /\ UNCHANGED <<spc, open, returned>>
    <3>1. UNCHANGED Calls /\ Calls[p] = "writing"
      BY <2>1, <2>5, CallsKept, At DEF CallOf
    <3>2. Papers' = [Papers EXCEPT ![p] = Papers'[p]] /\ Papers'[p] # "nothing" /\ Papers[p] # "all"
      BY <2>2, <2>3, <2>5, PapersMove, At
    <3>3. Contract!Put(p, Papers'[p])
      BY <2>1, <2>5, <3>1, <3>2 DEF Contract!Put, Calls, Papers
    <3>. QED BY <3>3, At DEF Contract!Next
  <2>. QED BY <1>6, <2>4, <2>5 DEF Write, WriteFails
<1>. QED
  BY <1>1, <1>2, <1>3, <1>4, <1>5, <1>6 DEF SendCode, PrinterStep

LEMMA ContractStep ==
  IInv /\ DataInv /\ [Next]_vars => [Contract!Next]_(Contract!vars)
<1>. SUFFICES ASSUME IInv, DataInv, [Next]_vars
              PROVE  Contract!Next \/ UNCHANGED <<Calls, Papers, returned, cancelled>>
  BY DEF Contract!vars, Calls, Papers
<1>1. ASSUME NEW p \in Names, Send(p) \/ SendCode(p) \/ PrinterStep(p)
      PROVE  Contract!Next \/ UNCHANGED <<Calls, Papers, returned, cancelled>>
  BY <1>1, SendSimulates
<1>2. CASE Cancel
  BY <1>2, CallsKept, PapersKept
  DEF Cancel, sendVars, Contract!Next, Contract!Cancel, Calls, Papers
<1>3. ASSUME \/ \E config \in Configs : Start(config)
             \/ \E order \in Orders : ListPrinters(order)
             \/ ListCode \/ (\E k \in Slots : ProbeStep(k)) \/ ClientLeaves
             \/ Tick \/ UNCHANGED vars
      PROVE  UNCHANGED <<spc, arrived, returned, cancelled>>
  BY <1>3 DEF Start, ListPrinters, ListCode, ProbeStep, ClientLeaves, ListReturns, ProbeStarts,
              ProbeGivesUp, ProbeAnswered, ProbeRefused, Tick, vars, sendVars
<1>4. ASSUME UNCHANGED <<spc, arrived, returned, cancelled>>
      PROVE  UNCHANGED <<Calls, Papers, returned, cancelled>>
  BY <1>4, CallsKept, PapersKept
<1>. QED BY <1>1, <1>2, <1>3, <1>4 DEF Next

\* Every run of Send's workers is one that printer.Printer's contract allows: what
\* JobQueue assumes of a call is what the network printer does.
THEOREM KeepsContractHolds == Spec => KeepsContract
<1>1. Init => Contract!Init
  <2>. SUFFICES ASSUME Init PROVE Contract!Init
    OBVIOUS
  <2>1. \A p \in Names : Call(p) = "none" /\ Paper(p) = "nothing"
    BY DEF Init, Call, Paper
  <2>. QED BY <2>1 DEF Init, Contract!Init
<1>. QED BY <1>1, ContractStep, AlwaysDataInv, PTL DEF Spec, KeepsContract, Contract!Spec

=============================================================================
