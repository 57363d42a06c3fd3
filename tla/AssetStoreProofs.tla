-------------------------- MODULE AssetStoreProofs --------------------------
(***************************************************************************)
(* What holds of the asset store for any names, clients and contents.      *)
(***************************************************************************)
EXTENDS AssetStore, DataInduction, FiniteSetTheorems, SequenceTheorems, TLAPS

Byte == 0..255

Operation ==
  [do : {"none", "get", "put", "delete", "list"}, name : STRING \cup {""}, data : Seq(Byte),
   pc : {"start", "open", "write", "read", "info", "done"}, inode : Inode \cup {0}, at : Nat,
   got : Seq(Byte), todo : SUBSET Names, infos : Seq(Names), result : Results,
   was : SUBSET {"alone", "absent", "faulted"}, expect : Seq(Seq(Byte)),
   seen : SUBSET Names, gone : SUBSET Names]

Types ==
  /\ kind \in {"filesystem", "memory"} /\ root \in BOOLEAN
  /\ dir \in [Names -> Inode \cup {0}]
  /\ file \in [Inode -> Seq(Byte)]
  /\ whole \in [Inode -> Seq(Seq(Byte))]
  /\ op \in [Client -> Operation]

\* What the place an operation is at tells of the rest of its record.
Sane(o, k) ==
  /\ o.inode # 0 <=> o.pc \in {"write", "read"}
  /\ o.do = "none" => o.pc = "start"
  /\ o.pc \in {"start", "open"} => o.at = 0 /\ o.got = <<>> /\ o.infos = <<>>
  /\ o.pc \in {"open", "write"} => o.do = "put" /\ k = "filesystem"
  /\ o.pc = "read" => o.do = "get" /\ k = "filesystem"
  /\ o.pc = "info" => o.do = "list"
  /\ o.do \in {"get", "put", "delete"} /\ o.pc # "done" => o.name \in Names
  /\ "alone" \in o.was => o.pc = "write"

Control == \A c \in Client : Sane(op[c], kind)

\* Every name leads to an inode of its own, in a directory that was made.
Links ==
  /\ \A m, n \in Names : dir[m] = dir[n] /\ dir[m] # 0 => m = n
  /\ kind = "filesystem" /\ (\E n \in Names : dir[n] # 0) => root

\* A Put that was alone left its data, which stay until the next one opens the
\* file; in memory each of them was.
Wholeness ==
  /\ \A i \in Inode : whole[i] # <<>> => whole[i] = <<file[i]>> /\ Writers(i) = {}
  /\ kind = "memory" => \A n \in Names : dir[n] # 0 => whole[dir[n]] = <<file[dir[n]]>>

\* A Put that is past MkdirAll has a directory.
Rooted(c) == op[c].pc \in {"open", "write"} => root

\* A Put that is alone has written what it has got to, and nothing else is there.
Filling(c) ==
  "alone" \in op[c].was =>
    /\ Writers(op[c].inode) = {c}
    /\ op[c].at <= Len(op[c].data)
    /\ file[op[c].inode] = SubSeq(op[c].data, 1, op[c].at)

\* A Get that has yet to look finds the name, or it was free at some time.
Looking(c) == At(c, "get", "start") /\ dir[op[c].name] = 0 => "absent" \in op[c].was

\* A Get nobody has disturbed has read what it has got to of what it expects.
Reading(c) ==
  At(c, "get", "read") /\ op[c].expect # <<>> =>
    /\ op[c].expect = <<file[op[c].inode]>> /\ Writers(op[c].inode) = {}
    /\ op[c].at <= Len(file[op[c].inode])
    /\ op[c].got = SubSeq(file[op[c].inode], 1, op[c].at)

\* A listing under way has gone through its names in order.
Listing(c) ==
  At(c, "list", "info") =>
    /\ InOrder(op[c].infos)
    /\ \A k \in DOMAIN op[c].infos, n \in op[c].todo : Before(op[c].infos[k], n)
    /\ ToSet(op[c].infos) \cup op[c].todo \subseteq op[c].seen
    /\ op[c].seen \ op[c].gone \subseteq ToSet(op[c].infos) \cup op[c].todo
    /\ \A n \in op[c].seen \ op[c].gone : dir[n] # 0

\* The properties, operation by operation.
GotSound(c) ==
  Finished(c, "get", "ok") =>
    \/ <<op[c].got>> = op[c].expect
    \/ kind = "filesystem" /\ op[c].expect = <<>>

Found(c) == Finished(c, "get", "not_found") => "absent" \in op[c].was

Listed(c) ==
  op[c].do = "list" /\ op[c].pc = "done" =>
    IF op[c].result = "ok"
    THEN /\ InOrder(op[c].infos)
         /\ op[c].seen \ op[c].gone \subseteq ToSet(op[c].infos)
         /\ ToSet(op[c].infos) \subseteq op[c].seen
    ELSE "faulted" \in op[c].was

Good(c) ==
  /\ Rooted(c) /\ Filling(c) /\ Looking(c) /\ Reading(c) /\ Listing(c)
  /\ GotSound(c) /\ Found(c) /\ Listed(c)

IInv == Types /\ Control /\ Links /\ Wholeness /\ \A c \in Client : Good(c)

-----------------------------------------------------------------------------
(* The sizes of the sets, and an inode to spare.                           *)

LEMMA NamesFinite ==
  /\ Names \subseteq STRING /\ IsFiniteSet(Names) /\ IsFiniteSet(Client)
  /\ Cardinality(Names) \in Nat /\ Cardinality(Client) \in Nat
  /\ Inode \subseteq Nat \ {0}
<1>1. Name \in [DOMAIN Name -> Names] /\ Names \subseteq STRING
  BY StoreAssumption DEF Names, ToSet
<1>2. Name \in Surjection(DOMAIN Name, Names)
  BY <1>1 DEF Surjection, Names, ToSet
<1>3. IsFiniteSet(DOMAIN Name)
  <2>1. DOMAIN Name = 1..Len(Name) /\ Len(Name) \in Nat
    BY StoreAssumption
  <2>. QED BY <2>1, FS_Interval
<1>4. IsFiniteSet(Names)
  BY <1>2, <1>3, FS_Surjection
<1>. QED BY <1>1, <1>4, StoreAssumption, FS_CardinalityType DEF Inode

\* The names and the other clients have fewer inodes than there are.
LEMMA FreeInodeFree ==
  ASSUME Types, NEW c \in Client, op[c].inode = 0
  PROVE  FreeInode \in Inode /\ FreeInode \notin InUse(dir, op)
<1>. DEFINE Named == {dir[n] : n \in Names}
            Others == Client \ {c}
            Held == {op[d].inode : d \in Others}
<1>1. IsFiniteSet(Named) /\ Cardinality(Named) <= Cardinality(Names)
  <2>1. dir \in Surjection(Names, Named)
    BY DEF Types, Surjection
  <2>. QED BY <2>1, NamesFinite, FS_Surjection
<1>2. IsFiniteSet(Held) /\ Cardinality(Held) <= Cardinality(Client) - 1
  <2>1. IsFiniteSet(Others) /\ Cardinality(Others) = Cardinality(Client) - 1
    BY NamesFinite, FS_RemoveElement
  <2>. DEFINE f == [d \in Others |-> op[d].inode]
  <2>2. f \in Surjection(Others, Held)
    BY DEF Surjection
  <2>3. IsFiniteSet(Held) /\ Cardinality(Held) <= Cardinality(Others)
    <3>. HIDE DEF f, Held, Others
    <3>. QED BY <2>1, <2>2, FS_Surjection
  <2>. HIDE DEF Held, Others
  <2>. QED BY <2>1, <2>3
<1>3. /\ IsFiniteSet(Named \cup Held)
      /\ Cardinality(Named \cup Held) < Cardinality(Inode)
  <2>1. Cardinality(Inode) = Cardinality(Names) + Cardinality(Client)
    BY NamesFinite, FS_Interval DEF Inode
  <2>2. /\ IsFiniteSet(Named \cup Held) /\ IsFiniteSet(Named \cap Held)
        /\ Cardinality(Named \cup Held)
             = Cardinality(Named) + Cardinality(Held) - Cardinality(Named \cap Held)
    BY <1>1, <1>2, FS_Union, FS_Intersection
  <2>3. Cardinality(Named) \in Nat /\ Cardinality(Held) \in Nat /\ Cardinality(Named \cap Held) \in Nat
    BY <1>1, <1>2, <2>2, FS_CardinalityType
  <2>. HIDE DEF Named, Held
  <2>. QED BY <1>1, <1>2, <2>1, <2>2, <2>3, NamesFinite
<1>4. \E i \in Inode : i \notin Named \cup Held
  <2>1. IsFiniteSet(Inode)
    BY NamesFinite, FS_Interval DEF Inode
  <2>2. Inode \subseteq Named \cup Held => Cardinality(Inode) <= Cardinality(Named \cup Held)
    BY <1>3, FS_Subset
  <2>3. Cardinality(Inode) \in Nat /\ Cardinality(Named \cup Held) \in Nat
    BY <1>3, <2>1, FS_CardinalityType
  <2>. HIDE DEF Named, Held
  <2>. QED BY <1>3, <2>2, <2>3
<1>5. InUse(dir, op) \subseteq Named \cup Held \cup {0}
  BY DEF InUse
<1>6. \E i \in Inode : i \notin InUse(dir, op)
  BY <1>4, <1>5, NamesFinite
<1>. QED BY <1>6, Zenon DEF FreeInode

-----------------------------------------------------------------------------
(* The order of the names.                                                 *)

LEMMA FirstComesFirst ==
  ASSUME NEW S \in SUBSET Names, S # {}
  PROVE  First(S) \in S /\ \A m \in S \ {First(S)} : Before(First(S), m)
<1>. DEFINE Places == {i \in DOMAIN Name : Name[i] \in S}
<1>1. Places \in SUBSET Nat /\ Places # {}
  BY StoreAssumption DEF Names, ToSet
<1>2. PICK i \in Places : \A j \in Places : i <= j
  BY <1>1, LeastElement
<1>3. \A m \in S \ {Name[i]} : Before(Name[i], m)
  <2>1. ASSUME NEW m \in S, m # Name[i]
        PROVE  Before(Name[i], m)
    <3>1. PICK j \in DOMAIN Name : Name[j] = m
      BY DEF Names, ToSet
    <3>2. j \in Places /\ i <= j /\ i # j
      BY <1>2, <2>1, <3>1
    <3>3. i < j
      BY <1>1, <3>2
    <3>. QED BY <3>1, <3>3 DEF Before
  <2>. QED BY <2>1
<1>. QED BY <1>2, <1>3, Zenon DEF First

-----------------------------------------------------------------------------
(* Types.                                                                  *)

LEMMA DoneFields ==
  ASSUME NEW o \in Operation, NEW r \in Results
  PROVE  /\ Done(o, r) \in Operation
         /\ Done(o, r).do = o.do /\ Done(o, r).pc = "done" /\ Done(o, r).result = r
         /\ Done(o, r).inode = 0 /\ Done(o, r).was = o.was \ {"alone"}
         /\ Done(o, r).got = o.got /\ Done(o, r).expect = o.expect
         /\ Done(o, r).infos = o.infos /\ Done(o, r).seen = o.seen /\ Done(o, r).gone = o.gone
<1>1. o.was \ {"alone"} \in SUBSET {"alone", "absent", "faulted"}
  BY DEF Operation
<1>2. <<>> \in Seq(Byte)
  OBVIOUS
<1>. QED BY <1>1, <1>2 DEF Done, Operation

LEMMA DoneSane ==
  ASSUME NEW o \in Operation, NEW r \in Results, o.do # "none", NEW k
  PROVE  Sane(Done(o, r), k)
BY DoneFields DEF Sane

LEMMA BegunFields ==
  ASSUME NEW do \in {"none", "get", "put", "delete", "list"}, NEW name \in STRING \cup {""}, NEW data \in Seq(Byte)
  PROVE  Begun(do, name, data) \in Operation
<1>1. \A S : <<>> \in Seq(S)
  BY EmptySeq
<1>2. \A S : {} \in SUBSET S
  OBVIOUS
<1>3. "none" \in Results /\ 0 \in Inode \cup {0}
  BY DEF Results
<1>. QED BY <1>1, <1>2, <1>3 DEF Begun, Operation

LEMMA OverlayType ==
  ASSUME NEW old \in Seq(Byte), NEW offset \in Nat, NEW data \in Seq(Byte)
  PROVE  /\ Overlay(old, offset, data) \in Seq(Byte)
         /\ Len(Overlay(old, offset, data)) =
              IF Len(old) > offset + Len(data) THEN Len(old) ELSE offset + Len(data)
         /\ \A k \in 1..Len(Overlay(old, offset, data)) :
              Overlay(old, offset, data)[k] =
                IF k \in (offset + 1)..(offset + Len(data)) THEN data[k - offset]
                ELSE IF k <= Len(old) THEN old[k] ELSE 0
<1>. DEFINE N == IF Len(old) > offset + Len(data) THEN Len(old) ELSE offset + Len(data)
            On(k) == IF k \in (offset + 1)..(offset + Len(data)) THEN data[k - offset]
                     ELSE IF k <= Len(old) THEN old[k] ELSE 0
<1>1. N \in Nat
  OBVIOUS
<1>2. ASSUME NEW k \in 1..N PROVE On(k) \in Byte
  <2>1. k \in Int /\ 1 <= k /\ 0 \in Byte
    BY <1>1 DEF Byte
  <2>2. CASE k \in (offset + 1)..(offset + Len(data))
    <3>1. k - offset \in 1..Len(data)
      BY <2>1, <2>2
    <3>. QED BY <2>2, <3>1
  <2>3. CASE k <= Len(old)
    BY <2>1, <2>2, <2>3
  <2>. QED BY <2>1, <2>2, <2>3
<1>3. Overlay(old, offset, data) = [k \in 1..N |-> On(k)]
  BY DEF Overlay
<1>. HIDE DEF N, On
<1>4. [k \in 1..N |-> On(k)] \in Seq(Byte)
  BY <1>1, <1>2
<1>. QED BY <1>1, <1>3, <1>4 DEF N, On

Calls == {"get", "put", "delete", "list"}

\* The kinds of step there are.
LEMMA StepKinds ==
  ASSUME [Next]_vars
  PROVE  \/ \E c \in Client :
              \/ \E do \in Calls, name \in STRING \cup {""}, data \in Seq(Byte) : Call(c, do, name, data)
              \/ Step(c) \/ Fault(c) \/ Return(c)
         \/ Crash
         \/ UNCHANGED vars
<1>1. Names \cup {BadName} \subseteq STRING /\ \A n \in Names : Content[n] \subseteq Seq(Byte)
  BY NamesFinite, StoreAssumption DEF Names, Byte
<1>2. <<>> \in Seq(Byte)
  BY EmptySeq
<1>. QED BY <1>1, <1>2, Zenon DEF Next, Calls

\* What a step of c does to the records, when it leaves the others alone.
LEMMA OneRecord ==
  ASSUME Types, Control, NEW c \in Client, NEW r \in Operation, Sane(r, kind),
         op' = [op EXCEPT ![c] = r], kind' = kind
  PROVE  op' \in [Client -> Operation] /\ Control'
<1>1. \A d \in Client : op'[d] = IF d = c THEN r ELSE op[d]
  BY DEF Types
<1>2. ASSUME NEW d \in Client, d # c PROVE Sane(op'[d], kind)
  BY <1>1, <1>2 DEF Control, Sane
<1>3. Control'
  BY <1>1, <1>2 DEF Control
<1>. QED BY <1>1, <1>3 DEF Types

LEMMA EndsTypes ==
  ASSUME Types, Control, NEW c \in Client, NEW r \in Results, op[c].do # "none",
         Ends(c, r), kind' = kind
  PROVE  op' \in [Client -> Operation] /\ Control'
<1>1. op[c] \in Operation
  BY DEF Types
<1>2. Done(op[c], r) \in Operation /\ Sane(Done(op[c], r), kind)
  BY <1>1, DoneFields, DoneSane
<1>3. op' = [op EXCEPT ![c] = Done(op[c], r)]
  BY DEF Ends
<1>. QED BY <1>2, <1>3, OneRecord

LEMMA CallTypes ==
  ASSUME Types, Control, NEW c \in Client, NEW do \in Calls, NEW name \in STRING \cup {""},
         NEW data \in Seq(Byte), Call(c, do, name, data)
  PROVE  Types' /\ Control'
<1>. DEFINE b == Begun(do, name, data)
            w == IF do = "get" /\ dir[name] = 0 THEN {"absent"} ELSE {}
            r == IF do # "list" /\ name \notin Names THEN Done(b, "validation") ELSE [b EXCEPT !.was = w]
<1>1. b \in Operation /\ do \in {"none", "get", "put", "delete", "list"} /\ b.do # "none"
  BY BegunFields DEF Calls, Begun
<1>2. [b EXCEPT !.was = w] \in Operation
  <2>1. w \in SUBSET {"alone", "absent", "faulted"}
    OBVIOUS
  <2>. QED BY <1>1, <2>1 DEF Operation
<1>3. Done(b, "validation") \in Operation /\ Sane(Done(b, "validation"), kind)
  <2>. HIDE DEF b
  <2>. QED BY <1>1, DoneFields, DoneSane DEF Results
<1>4. do = "list" \/ name \in Names => Sane([b EXCEPT !.was = w], kind)
  <2>1. "alone" \notin w
    OBVIOUS
  <2>. HIDE DEF w
  <2>. QED BY <1>1, <2>1 DEF Sane, Begun, Calls
<1>5. r \in Operation /\ Sane(r, kind)
  <2>. HIDE DEF b, w
  <2>. QED BY <1>2, <1>3, <1>4
<1>6. op' = [op EXCEPT ![c] = r] /\ UNCHANGED <<kind, root, dir, file, whole>>
  BY DEF Call
<1>. HIDE DEF r
<1>. QED BY <1>5, <1>6, OneRecord DEF Types

\* A prefix and what comes next.
LEMMA PrefixGrows ==
  ASSUME NEW S, NEW s \in Seq(S), NEW a \in Nat, NEW b \in Nat, a <= b, b <= Len(s)
  PROVE  SubSeq(s, 1, a) \o SubSeq(s, a + 1, b) = SubSeq(s, 1, b)
<1>1. 1 \in 1..(Len(s) + 1) /\ a \in (1 - 1)..Len(s) /\ b \in a..Len(s)
  OBVIOUS
<1>. QED BY <1>1, ConcatAdjacentSubSeq

\* Files that keep their type lose nothing by being reclaimed.
LEMMA ReclaimTypes ==
  ASSUME NEW f \in [Inode -> Seq(Byte)], NEW w \in [Inode -> Seq(Seq(Byte))], Reclaim(f, w)
  PROVE  file' \in [Inode -> Seq(Byte)] /\ whole' \in [Inode -> Seq(Seq(Byte))]
<1>1. <<>> \in Seq(Byte) /\ <<>> \in Seq(Seq(Byte))
  BY EmptySeq
<1>. QED BY <1>1 DEF Reclaim

\* The inode an opening for writing leads to.
Target(n) == IF dir[n] # 0 THEN dir[n] ELSE FreeInode

LEMMA TargetFits ==
  ASSUME Types, Links, NEW c \in Client, op[c].inode = 0, NEW n \in Names
  PROVE  /\ Target(n) \in Inode
         /\ \A m \in Names : dir[m] = Target(n) => m = n
         /\ dir[n] = 0 => \A d \in Client : op[d].inode # Target(n)
<1>1. FreeInode \in Inode /\ FreeInode \notin InUse(dir, op)
  BY FreeInodeFree
<1>. QED BY <1>1, NamesFinite DEF Target, InUse, Types, Links

LEMMA FaultTypes ==
  ASSUME Types, Control, NEW c \in Client, Fault(c)
  PROVE  Types' /\ Control'
<1>. DEFINE d == Done(op[c], "permanent")
            r == [d EXCEPT !.was = {"faulted"}, !.got = <<>>, !.infos = <<>>,
                           !.expect = <<>>, !.seen = {}, !.gone = {}]
<1>1. op[c] \in Operation /\ op[c].do # "none"
  BY DEF Types, Fault
<1>2. d \in Operation /\ Sane(d, kind) /\ d.pc = "done" /\ d.do # "none"
  BY <1>1, DoneFields, DoneSane DEF Results
<1>3. r \in Operation
  <2>1. <<>> \in Seq(Byte) /\ <<>> \in Seq(Names) /\ <<>> \in Seq(Seq(Byte))
    BY EmptySeq
  <2>2. {"faulted"} \in SUBSET {"alone", "absent", "faulted"}
    OBVIOUS
  <2>. HIDE DEF d
  <2>. QED BY <1>2, <2>1, <2>2 DEF Operation
<1>4. Sane(r, kind)
  <2>1. r.pc = "done" /\ r.do = d.do /\ r.inode = d.inode /\ r.was = {"faulted"}
    <3>. HIDE DEF d
    <3>. QED BY <1>2 DEF Operation
  <2>. HIDE DEF d, r
  <2>. QED BY <1>2, <2>1 DEF Sane
<1>5. op' = [op EXCEPT ![c] = r] /\ UNCHANGED <<kind, root, dir>> /\ Reclaim(file, whole)
  BY DEF Fault
<1>. HIDE DEF r
<1>6. op' \in [Client -> Operation] /\ Control'
  BY <1>3, <1>4, <1>5, OneRecord
<1>7. file' \in [Inode -> Seq(Byte)] /\ whole' \in [Inode -> Seq(Seq(Byte))]
  BY <1>5, ReclaimTypes DEF Types
<1>. QED BY <1>5, <1>6, <1>7 DEF Types

LEMMA ReturnTypes ==
  ASSUME Types, Control, NEW c \in Client, Return(c)
  PROVE  Types' /\ Control'
<1>1. Idle \in Operation /\ Sane(Idle, kind)
  <2>1. <<>> \in Seq(Byte)
    BY EmptySeq
  <2>. QED BY <2>1, BegunFields DEF Idle, Begun, Sane
<1>. QED BY <1>1, OneRecord DEF Return, Types

LEMMA MkdirTypes ==
  ASSUME Types, Control, NEW c \in Client, Mkdir(c)
  PROVE  Types' /\ Control'
<1>. DEFINE r == [op[c] EXCEPT !.pc = "open"]
<1>1. op[c] \in Operation /\ Sane(op[c], kind) /\ At(c, "put", "start") /\ kind = "filesystem"
  BY DEF Types, Mkdir, Control
<1>2. r \in Operation /\ Sane(r, kind)
  BY <1>1 DEF Operation, Sane, At
<1>3. op' = [op EXCEPT ![c] = r] /\ UNCHANGED <<kind, dir, file, whole>> /\ root' = TRUE
  BY DEF Mkdir
<1>. HIDE DEF r
<1>. QED BY <1>2, <1>3, OneRecord DEF Types

LEMMA WritingRecord ==
  ASSUME NEW o \in Operation, NEW i \in Inode, NEW w \in SUBSET {"alone", "absent", "faulted"}
  PROVE  [o EXCEPT !.pc = "write", !.inode = i, !.was = w] \in Operation
BY DEF Operation

LEMMA OpenTypes ==
  ASSUME Types, Control, Links, NEW c \in Client, Open(c)
  PROVE  Types' /\ Control'
<1>. DEFINE n == op[c].name
            i == Target(n)
<1>1. op[c] \in Operation /\ Sane(op[c], kind) /\ At(c, "put", "open")
  BY DEF Types, Control, Open
<1>2. n \in Names /\ op[c].inode = 0 /\ kind = "filesystem"
  BY <1>1 DEF Sane, At
<1>3. i \in Inode
  BY <1>2, TargetFits
<1>4. /\ dir' = [dir EXCEPT ![n] = i] /\ file' = [file EXCEPT ![i] = <<>>]
      /\ whole' = [whole EXCEPT ![i] = <<>>] /\ op' = Disturb(i, c) /\ UNCHANGED <<kind, root>>
  BY DEF Open, Target
<1>. HIDE DEF i
<1>5. ASSUME NEW d \in Client
      PROVE  op'[d] \in Operation /\ Sane(op'[d], kind)
  <2>1. op[d] \in Operation /\ Sane(op[d], kind)
    BY DEF Types, Control
  <2>2. CASE d = c
    <3>. DEFINE w == IF Writers(i) = {} THEN {"alone"} ELSE {}
    <3>1. op'[d] = [op[c] EXCEPT !.pc = "write", !.inode = i, !.was = w]
      BY <1>4, <2>2 DEF Disturb
    <3>2. w \in SUBSET {"alone", "absent", "faulted"}
      OBVIOUS
    <3>. HIDE DEF w
    <3>3. op'[d] \in Operation
      <4>1. [op[c] EXCEPT !.pc = "write", !.inode = i, !.was = w] \in Operation
        BY <1>1, <1>3, <3>2, WritingRecord, Zenon
      <4>. QED BY <3>1, <4>1, Zenon
    <3>4. /\ op'[d].pc = "write" /\ op'[d].inode = i /\ op'[d].do = "put" /\ op'[d].name = n
          /\ i # 0
      BY <1>1, <1>3, <3>1, NamesFinite DEF Operation, At
    <3>. QED BY <1>2, <3>3, <3>4 DEF Sane
  <2>3. CASE d # c /\ op[d].inode = i
    <3>. DEFINE w == op[d].was \ {"alone"}
    <3>1. op'[d] = [op[d] EXCEPT !.was = w, !.expect = <<>>]
      BY <1>4, <2>3 DEF Disturb
    <3>2. w \in SUBSET {"alone", "absent", "faulted"} /\ "alone" \notin w /\ <<>> \in Seq(Seq(Byte))
      BY <2>1, EmptySeq DEF Operation
    <3>. HIDE DEF w
    <3>3. op'[d] \in Operation
      BY <2>1, <3>1, <3>2 DEF Operation
    <3>4. /\ op'[d].pc = op[d].pc /\ op'[d].inode = op[d].inode /\ op'[d].do = op[d].do
          /\ op'[d].name = op[d].name /\ op'[d].at = op[d].at /\ op'[d].got = op[d].got
          /\ op'[d].infos = op[d].infos /\ op'[d].was = w
      BY <2>1, <3>1 DEF Operation
    <3>. QED BY <2>1, <3>2, <3>3, <3>4 DEF Sane
  <2>4. CASE d # c /\ op[d].inode # i
    BY <1>4, <2>1, <2>4 DEF Disturb
  <2>. QED BY <2>2, <2>3, <2>4
<1>6. op' \in [Client -> Operation] /\ Control'
  BY <1>4, <1>5 DEF Control, Disturb
<1>7. <<>> \in Seq(Byte) /\ <<>> \in Seq(Seq(Byte))
  BY EmptySeq
<1>. QED BY <1>3, <1>4, <1>6, <1>7 DEF Types

LEMMA WriteTypes ==
  ASSUME Types, Control, NEW c \in Client, Write(c)
  PROVE  Types' /\ Control'
<1>. DEFINE o == op[c]
<1>1. o \in Operation /\ Sane(o, kind) /\ At(c, "put", "write")
  BY DEF Types, Control, Write
<1>2. PICK n \in 1..(Len(o.data) - o.at) :
        /\ file' = [file EXCEPT ![o.inode] = Overlay(@, o.at, SubSeq(o.data, o.at + 1, o.at + n))]
        /\ op' = [op EXCEPT ![c].at = @ + n]
  BY DEF Write
<1>3. o.inode \in Inode /\ o.data \in Seq(Byte) /\ o.at \in Nat /\ o.at + n \in Nat
  <2>1. o.inode \in Inode /\ o.data \in Seq(Byte) /\ o.at \in Nat
    BY <1>1 DEF Operation, Sane, At
  <2>. QED BY <2>1
<1>4. SubSeq(o.data, o.at + 1, o.at + n) \in Seq(Byte)
  BY <1>3
<1>5. file' \in [Inode -> Seq(Byte)]
  BY <1>2, <1>3, <1>4, OverlayType DEF Types
<1>. DEFINE r == [o EXCEPT !.at = @ + n]
<1>6. r \in Operation /\ Sane(r, kind)
  BY <1>1, <1>3 DEF Operation, Sane, At
<1>7. op' = [op EXCEPT ![c] = r] /\ UNCHANGED <<kind, root, dir, whole>>
  BY <1>2 DEF Write
<1>. HIDE DEF r
<1>. QED BY <1>5, <1>6, <1>7, OneRecord DEF Types

LEMMA CloseTypes ==
  ASSUME Types, Control, NEW c \in Client, Close(c)
  PROVE  Types' /\ Control'
<1>1. /\ op[c] \in Operation /\ Sane(op[c], kind) /\ At(c, "put", "write")
      /\ UNCHANGED <<kind, root, dir>> /\ Ends(c, "ok") /\ op[c].do # "none"
  BY DEF Types, Control, Close, At
<1>. DEFINE w == IF "alone" \in op[c].was THEN [whole EXCEPT ![op[c].inode] = <<op[c].data>>] ELSE whole
<1>2. w \in [Inode -> Seq(Seq(Byte))] /\ Reclaim(file, w)
  <2>1. op[c].data \in Seq(Byte)
    BY <1>1 DEF Operation
  <2>2. <<op[c].data>> \in Seq(Seq(Byte))
    BY <2>1
  <2>. QED BY <2>2 DEF Types, Close
<1>3. op' \in [Client -> Operation] /\ Control'
  BY <1>1, EndsTypes DEF Results
<1>4. file' \in [Inode -> Seq(Byte)] /\ whole' \in [Inode -> Seq(Seq(Byte))]
  BY <1>2, ReclaimTypes DEF Types
<1>. QED BY <1>1, <1>3, <1>4 DEF Types

LEMMA ReadTypes ==
  ASSUME Types, Control, NEW c \in Client, OpenToRead(c) \/ Read(c) \/ EndOfFile(c)
  PROVE  Types' /\ Control'
<1>1. op[c] \in Operation /\ Sane(op[c], kind)
  BY DEF Types, Control
<1>2. CASE OpenToRead(c)
  <2>. DEFINE i == dir[op[c].name]
              r == [op[c] EXCEPT !.pc = "read", !.inode = i, !.expect = whole[i]]
  <2>1. op[c].name \in Names /\ At(c, "get", "start") /\ op[c].do # "none"
    BY <1>1, <1>2 DEF OpenToRead, At, Sane
  <2>2. UNCHANGED <<kind, root, dir, file, whole>> /\ kind = "filesystem"
    BY <1>2 DEF OpenToRead
  <2>3. CASE i = 0
    <3>1. Ends(c, "not_found")
      BY <1>2, <2>3 DEF OpenToRead
    <3>. QED BY <2>1, <2>2, <3>1, EndsTypes DEF Results, Types
  <2>4. CASE i # 0
    <3>1. op' = [op EXCEPT ![c] = r]
      BY <1>2, <2>4 DEF OpenToRead
    <3>2. i \in Inode /\ whole[i] \in Seq(Seq(Byte))
      BY <2>1, <2>4 DEF Types
    <3>. HIDE DEF i
    <3>3. r \in Operation
      BY <1>1, <3>2 DEF Operation
    <3>4. Sane(r, kind)
      BY <1>1, <2>1, <2>2, <2>4, <3>2 DEF Operation, Sane, At
    <3>. HIDE DEF r
    <3>. QED BY <2>2, <3>1, <3>3, <3>4, OneRecord DEF Types
  <2>. QED BY <2>3, <2>4
<1>3. CASE Read(c)
  <2>. DEFINE o == op[c]
  <2>1. PICK n \in 1..(Len(file[o.inode]) - o.at) :
          op' = [op EXCEPT ![c].at = @ + n,
                           ![c].got = @ \o SubSeq(file[o.inode], o.at + 1, o.at + n)]
    BY <1>3 DEF Read
  <2>2. At(c, "get", "read") /\ o.inode \in Inode /\ o.at \in Nat /\ file[o.inode] \in Seq(Byte)
        /\ o.got \in Seq(Byte)
    BY <1>1, <1>3 DEF Read, At, Sane, Operation, Types
  <2>. DEFINE g == o.got \o SubSeq(file[o.inode], o.at + 1, o.at + n)
              r == [o EXCEPT !.at = @ + n, !.got = g]
  <2>3. g \in Seq(Byte) /\ o.at + n \in Nat
    <3>1. n \in Nat /\ o.at + 1 \in Nat \ {0} /\ o.at + n \in Nat /\ o.at + n <= Len(file[o.inode])
      BY <2>2
    <3>2. SubSeq(file[o.inode], o.at + 1, o.at + n) \in Seq(Byte)
      BY <2>2, <3>1, SubSeqProperties
    <3>. QED BY <2>2, <3>1, <3>2, ConcatProperties
  <2>4. op' = [op EXCEPT ![c] = r] /\ UNCHANGED <<kind, root, dir, file, whole>>
    BY <1>3, <2>1 DEF Read
  <2>. HIDE DEF g
  <2>5. r \in Operation /\ Sane(r, kind)
    BY <1>1, <2>2, <2>3 DEF Operation, Sane, At
  <2>. HIDE DEF r
  <2>. QED BY <2>4, <2>5, OneRecord DEF Types
<1>4. CASE EndOfFile(c)
  <2>1. /\ op[c].do # "none" /\ Ends(c, "ok") /\ Reclaim(file, whole)
        /\ UNCHANGED <<kind, root, dir>>
    BY <1>4 DEF EndOfFile, At
  <2>2. op' \in [Client -> Operation] /\ Control'
    BY <2>1, EndsTypes DEF Results
  <2>. QED BY <2>1, <2>2, ReclaimTypes DEF Types
<1>. QED BY <1>2, <1>3, <1>4

LEMMA UnlinkTypes ==
  ASSUME Types, Control, NEW c \in Client, Unlink(c)
  PROVE  Types' /\ Control'
<1>. DEFINE n == op[c].name
<1>1. /\ op[c] \in Operation /\ Sane(op[c], kind) /\ At(c, "delete", "start") /\ n \in Names
      /\ op[c].do # "none" /\ UNCHANGED <<kind, root>> /\ Reclaim(file, whole)
  BY DEF Types, Control, Unlink, At, Sane
<1>2. CASE dir[n] = 0
  <2>1. Ends(c, "not_found") /\ UNCHANGED dir
    BY <1>2 DEF Unlink
  <2>2. op' \in [Client -> Operation] /\ Control'
    BY <1>1, <2>1, EndsTypes DEF Results
  <2>. QED BY <1>1, <2>1, <2>2, ReclaimTypes DEF Types
<1>3. CASE dir[n] # 0
  <2>1. dir' = [dir EXCEPT ![n] = 0] /\ op' = [Note(n) EXCEPT ![c] = Done(op[c], "ok")]
    <3>1. ~At(c, "list", "info") /\ ~At(c, "get", "start") /\ Note(n)[c] = op[c]
      BY <1>1 DEF At, Note
    <3>2. dir' = [dir EXCEPT ![n] = 0] /\ op' = [Note(n) EXCEPT ![c] = Done(@, "ok")]
      BY <1>3 DEF Unlink
    <3>. QED BY <3>1, <3>2 DEF Note
  <2>2. Done(op[c], "ok") \in Operation /\ Sane(Done(op[c], "ok"), kind)
    BY <1>1, DoneFields, DoneSane DEF Results
  <2>3. ASSUME NEW d \in Client PROVE op'[d] \in Operation /\ Sane(op'[d], kind)
    <3>1. op[d] \in Operation /\ Sane(op[d], kind)
      BY DEF Types, Control
    <3>2. CASE d = c
      BY <2>1, <2>2, <3>2 DEF Note
    <3>3. CASE d # c /\ At(d, "list", "info")
      <4>. DEFINE g == op[d].gone \cup ({n} \cap op[d].seen)
      <4>1. op'[d] = [op[d] EXCEPT !.gone = g]
        BY <2>1, <3>3 DEF Note
      <4>2. g \in SUBSET Names
        BY <3>1 DEF Operation
      <4>. HIDE DEF g
      <4>3. op'[d] \in Operation
        BY <3>1, <4>1, <4>2 DEF Operation
      <4>. QED BY <3>1, <4>1, <4>3 DEF Operation, Sane
    <3>4. CASE d # c /\ ~At(d, "list", "info") /\ At(d, "get", "start") /\ op[d].name = n
      <4>. DEFINE w == op[d].was \cup {"absent"}
      <4>1. op'[d] = [op[d] EXCEPT !.was = w]
        BY <2>1, <3>4 DEF Note
      <4>2. w \in SUBSET {"alone", "absent", "faulted"} /\ ("alone" \in w => "alone" \in op[d].was)
        BY <3>1 DEF Operation
      <4>. HIDE DEF w
      <4>3. op'[d] \in Operation
        BY <3>1, <4>1, <4>2 DEF Operation
      <4>. QED BY <3>1, <4>1, <4>2, <4>3 DEF Operation, Sane
    <3>5. CASE d # c /\ ~At(d, "list", "info") /\ ~(At(d, "get", "start") /\ op[d].name = n)
      BY <2>1, <3>1, <3>5 DEF Note
    <3>. QED BY <3>2, <3>3, <3>4, <3>5
  <2>4. op' \in [Client -> Operation] /\ Control'
    BY <1>1, <2>1, <2>3 DEF Control, Note
  <2>. QED BY <1>1, <2>1, <2>4, ReclaimTypes DEF Types
<1>. QED BY <1>2, <1>3

LEMMA ListTypes ==
  ASSUME Types, Control, NEW c \in Client, ReadDir(c) \/ Info(c) \/ ListEnds(c)
  PROVE  Types' /\ Control'
<1>1. op[c] \in Operation /\ Sane(op[c], kind) /\ UNCHANGED <<kind, root, dir, file, whole>>
  BY DEF Types, Control, ReadDir, Info, ListEnds
<1>2. CASE ReadDir(c)
  <2>. DEFINE r == [op[c] EXCEPT !.pc = "info", !.todo = Stored, !.seen = Stored]
  <2>1. op' = [op EXCEPT ![c] = r] /\ At(c, "list", "start")
    BY <1>2 DEF ReadDir
  <2>2. Stored \in SUBSET Names
    BY DEF Stored
  <2>3. r \in Operation /\ Sane(r, kind)
    BY <1>1, <2>1, <2>2 DEF Operation, Sane, At
  <2>. HIDE DEF r
  <2>. QED BY <1>1, <2>1, <2>3, OneRecord DEF Types
<1>3. CASE Info(c)
  <2>. DEFINE n == First(op[c].todo)
              t == op[c].todo \ {n}
              l == IF dir[n] = 0 THEN op[c].infos ELSE Append(op[c].infos, n)
              r == [op[c] EXCEPT !.todo = t, !.infos = l]
  <2>1. op' = [op EXCEPT ![c] = r] /\ At(c, "list", "info") /\ op[c].todo # {}
    BY <1>3 DEF Info
  <2>2. t \in SUBSET Names /\ l \in Seq(Names)
    <3>1. op[c].todo \in SUBSET Names /\ op[c].infos \in Seq(Names)
      BY <1>1 DEF Operation
    <3>2. n \in Names
      BY <2>1, <3>1, FirstComesFirst
    <3>. HIDE DEF n
    <3>. QED BY <3>1, <3>2
  <2>. HIDE DEF t, l
  <2>3. r \in Operation /\ Sane(r, kind)
    BY <1>1, <2>1, <2>2 DEF Operation, Sane, At
  <2>. HIDE DEF r
  <2>. QED BY <1>1, <2>1, <2>3, OneRecord DEF Types
<1>4. CASE ListEnds(c)
  <2>1. op[c].do # "none" /\ Ends(c, "ok")
    BY <1>4 DEF ListEnds, At
  <2>. QED BY <1>1, <2>1, EndsTypes DEF Results, Types
<1>. QED BY <1>2, <1>3, <1>4

LEMMA MemoryTypes ==
  ASSUME Types, Control, Links, NEW c \in Client, PutInMemory(c) \/ GetFromMemory(c) \/ ListMemory(c)
  PROVE  Types' /\ Control'
<1>1. op[c] \in Operation /\ Sane(op[c], kind) /\ UNCHANGED <<kind, root>>
      /\ op[c].do # "none"
  BY DEF Types, Control, PutInMemory, GetFromMemory, ListMemory, At
<1>2. CASE PutInMemory(c)
  <2>. DEFINE n == op[c].name
              i == Target(n)
  <2>1. n \in Names /\ op[c].inode = 0
    BY <1>1, <1>2 DEF PutInMemory, Sane, At
  <2>2. i \in Inode
    BY <2>1, TargetFits
  <2>3. /\ dir' = [dir EXCEPT ![n] = i] /\ file' = [file EXCEPT ![i] = op[c].data]
        /\ whole' = [whole EXCEPT ![i] = <<op[c].data>>] /\ Ends(c, "ok")
    BY <1>2 DEF PutInMemory, Target
  <2>4. op[c].data \in Seq(Byte) /\ <<op[c].data>> \in Seq(Seq(Byte))
    <3>1. op[c].data \in Seq(Byte)
      BY <1>1 DEF Operation
    <3>. QED BY <3>1
  <2>5. op' \in [Client -> Operation] /\ Control'
    BY <1>1, <2>3, EndsTypes DEF Results
  <2>. HIDE DEF i
  <2>. QED BY <1>1, <2>2, <2>3, <2>4, <2>5 DEF Types
<1>3. CASE GetFromMemory(c)
  <2>. DEFINE i == dir[op[c].name]
              d == Done(op[c], "ok")
              r == [d EXCEPT !.got = file[i], !.expect = whole[i]]
  <2>1. op[c].name \in Names /\ UNCHANGED <<dir, file, whole>>
    BY <1>1, <1>3 DEF GetFromMemory, Sane, At
  <2>2. CASE i = 0
    <3>1. Ends(c, "not_found")
      BY <1>3, <2>2 DEF GetFromMemory
    <3>. QED BY <1>1, <2>1, <3>1, EndsTypes DEF Results, Types
  <2>3. CASE i # 0
    <3>1. op' = [op EXCEPT ![c] = r]
      BY <1>3, <2>3 DEF GetFromMemory
    <3>2. file[i] \in Seq(Byte) /\ whole[i] \in Seq(Seq(Byte))
      BY <2>1, <2>3 DEF Types
    <3>3. d \in Operation /\ Sane(d, kind) /\ d.pc = "done"
      BY <1>1, DoneFields, DoneSane DEF Results
    <3>. HIDE DEF d, i
    <3>4. r \in Operation /\ Sane(r, kind)
      BY <3>2, <3>3 DEF Operation, Sane
    <3>. HIDE DEF r
    <3>. QED BY <1>1, <2>1, <3>1, <3>4, OneRecord DEF Types
  <2>. QED BY <2>2, <2>3
<1>4. CASE ListMemory(c)
  <2>1. PICK names \in [1..Cardinality(Stored) -> Stored] :
          op' = [op EXCEPT ![c] = [Done(@, "ok") EXCEPT !.infos = names, !.seen = Stored]]
    BY <1>4 DEF ListMemory
  <2>. DEFINE d == Done(op[c], "ok")
              r == [d EXCEPT !.infos = names, !.seen = Stored]
  <2>2. Stored \in SUBSET Names /\ names \in Seq(Names)
    <3>1. Stored \in SUBSET Names
      BY DEF Stored
    <3>2. IsFiniteSet(Stored) /\ Cardinality(Stored) \in Nat
      BY <3>1, NamesFinite, FS_Subset, FS_CardinalityType
    <3>. QED BY <3>1, <3>2
  <2>3. d \in Operation /\ Sane(d, kind) /\ d.pc = "done"
    BY <1>1, DoneFields, DoneSane DEF Results
  <2>4. op' = [op EXCEPT ![c] = r] /\ UNCHANGED <<dir, file, whole>>
    BY <1>4, <2>1 DEF ListMemory
  <2>. HIDE DEF d
  <2>5. r \in Operation /\ Sane(r, kind)
    BY <2>2, <2>3 DEF Operation, Sane
  <2>. HIDE DEF r
  <2>. QED BY <1>1, <2>4, <2>5, OneRecord DEF Types
<1>. QED BY <1>2, <1>3, <1>4

LEMMA CrashTypes ==
  ASSUME Types, Control, Crash
  PROVE  Types' /\ Control'
<1>1. Idle \in Operation /\ Sane(Idle, kind)
  <2>1. <<>> \in Seq(Byte)
    BY EmptySeq
  <2>. QED BY <2>1, BegunFields DEF Idle, Begun, Sane
<1>2. op' = [c \in Client |-> Idle] /\ UNCHANGED <<kind, root>> /\ Reclaim(file, whole)
  BY DEF Crash
<1>3. dir' \in [Names -> Inode \cup {0}]
  BY DEF Crash, Types
<1>4. op' \in [Client -> Operation] /\ Control'
  BY <1>1, <1>2 DEF Control
<1>. QED BY <1>2, <1>3, <1>4, ReclaimTypes DEF Types

LEMMA StepTypes ==
  ASSUME Types, Control, Links, [Next]_vars
  PROVE  Types' /\ Control'
<1>1. CASE UNCHANGED vars
  BY <1>1 DEF vars, Types, Control, Sane
<1>. QED
  BY <1>1, StepKinds, CallTypes, FaultTypes, ReturnTypes, MkdirTypes, OpenTypes, WriteTypes,
     CloseTypes, ReadTypes, UnlinkTypes, ListTypes, MemoryTypes, CrashTypes
  DEF Step

-----------------------------------------------------------------------------
(* The other clients: what a step must leave alone for an operation it     *)
(* does not touch to stay good.                                            *)

\* A Put that is alone, or a Get nobody has disturbed.
Quiet(c) == "alone" \in op[c].was \/ (At(c, "get", "read") /\ op[c].expect # <<>>)

LEMMA Untouched ==
  ASSUME Types, Control, NEW d \in Client, Good(d), op'[d] = op[d], kind' = kind, root => root',
         At(d, "get", "start") /\ dir'[op[d].name] = 0 => dir[op[d].name] = 0,
         At(d, "list", "info") => \A n \in op[d].seen \ op[d].gone : dir'[n] # 0,
         Quiet(d) => /\ file'[op[d].inode] = file[op[d].inode]
                     /\ Writers(op[d].inode)' = Writers(op[d].inode)
  PROVE  Good(d)'
<1>. USE DEF Good
<1>1. Rooted(d)'
  BY DEF Rooted
<1>2. Filling(d)'
  BY DEF Filling, Quiet, Writers
<1>3. Looking(d)'
  BY DEF Looking, At
<1>4. Reading(d)'
  BY DEF Reading, Quiet, At, Writers
<1>5. Listing(d)'
  BY DEF Listing, At
<1>6. GotSound(d)' /\ Found(d)' /\ Listed(d)'
  BY DEF GotSound, Found, Listed, Finished
<1>. QED BY <1>1, <1>2, <1>3, <1>4, <1>5, <1>6

\* A step that changes no file, and of the operations only one that writes
\* neither before it nor after it.
LEMMA QuietStep ==
  ASSUME IInv, NEW c \in Client, NEW r, op' = [op EXCEPT ![c] = r], r.pc # "write", op[c].pc # "write",
         UNCHANGED <<kind, dir, file, whole>>, root => root', Good(c)'
  PROVE  Links' /\ Wholeness' /\ \A d \in Client : Good(d)'
<1>1. \A d \in Client : op'[d] = IF d = c THEN r ELSE op[d]
  BY DEF IInv, Types
<1>2. \A i : Writers(i)' = Writers(i)
  BY <1>1 DEF Writers
<1>3. Links' /\ Wholeness'
  BY <1>2 DEF IInv, Links, Wholeness
<1>4. ASSUME NEW d \in Client, d # c PROVE Good(d)'
  <2>1. \A n \in op[d].seen \ op[d].gone : At(d, "list", "info") => dir'[n] # 0
    BY DEF IInv, Good, Listing
  <2>. QED BY <1>1, <1>2, <1>4, <2>1, Untouched DEF IInv
<1>. QED BY <1>3, <1>4

-----------------------------------------------------------------------------
(* The step of each action.                                                *)

Safe == Links /\ Wholeness /\ \A c \in Client : Good(c)

LEMMA CallKeeps ==
  ASSUME IInv, Control', NEW c \in Client, NEW do \in Calls, NEW name \in STRING \cup {""},
         NEW data \in Seq(Byte), Call(c, do, name, data)
  PROVE  Safe'
<1>. DEFINE b == Begun(do, name, data)
            w == IF do = "get" /\ dir[name] = 0 THEN {"absent"} ELSE {}
            r == IF do # "list" /\ name \notin Names THEN Done(b, "validation") ELSE [b EXCEPT !.was = w]
<1>1. /\ op' = [op EXCEPT ![c] = r] /\ UNCHANGED <<kind, root, dir, file, whole>> /\ op[c].do = "none"
      /\ op[c].pc = "start" /\ op'[c] = r
  BY DEF Call, IInv, Types, Control, Sane
<1>2. b \in Operation /\ b.do = do /\ b.name = name /\ b.pc = "start"
  BY BegunFields DEF Calls, Begun
<1>3. CASE do # "list" /\ name \notin Names
  <2>1. r.pc = "done" /\ r.do = do /\ r.result = "validation"
    <3>. HIDE DEF b
    <3>. QED BY <1>2, <1>3, DoneFields DEF Results
  <2>. HIDE DEF r
  <2>2. Good(c)'
    BY <1>1, <1>3, <2>1
    DEF Good, Rooted, Filling, Looking, Reading, Listing, GotSound, Found, Listed, Finished, At, Control, Sane
  <2>. QED BY <1>1, <2>1, <2>2, QuietStep DEF Safe
<1>4. CASE ~(do # "list" /\ name \notin Names)
  <2>1. r.pc = "start" /\ r.do = do /\ r.name = name /\ r.was = w
    <3>. HIDE DEF w
    <3>. QED BY <1>2, <1>4 DEF Begun
  <2>. HIDE DEF r
  <2>2. Good(c)'
    BY <1>1, <2>1
    DEF Good, Rooted, Filling, Looking, Reading, Listing, GotSound, Found, Listed, Finished, At, Control, Sane
  <2>. QED BY <1>1, <2>1, <2>2, QuietStep DEF Safe
<1>. QED BY <1>3, <1>4

LEMMA ReturnKeeps ==
  ASSUME IInv, Control', NEW c \in Client, Return(c)
  PROVE  Safe'
<1>1. /\ op' = [op EXCEPT ![c] = Idle] /\ UNCHANGED <<kind, root, dir, file, whole>>
      /\ op[c].pc = "done" /\ op'[c] = Idle
  BY DEF Return, IInv, Types
<1>2. Idle.pc = "start" /\ Idle.do = "none"
  BY DEF Idle, Begun
<1>3. Good(c)'
  BY <1>1, <1>2
  DEF Good, Rooted, Filling, Looking, Reading, Listing, GotSound, Found, Listed, Finished, At, Control, Sane
<1>. QED BY <1>1, <1>2, <1>3, QuietStep DEF Safe

LEMMA MkdirKeeps ==
  ASSUME IInv, Control', NEW c \in Client, Mkdir(c)
  PROVE  Safe'
<1>. DEFINE r == [op[c] EXCEPT !.pc = "open"]
<1>1. /\ op' = [op EXCEPT ![c] = r] /\ UNCHANGED <<kind, dir, file, whole>> /\ root' = TRUE
      /\ op[c].pc = "start" /\ op[c].do = "put" /\ op'[c] = r
  BY DEF Mkdir, At, IInv, Types
<1>2. r.pc = "open" /\ r.do = "put"
  BY <1>1 DEF IInv, Types, Operation
<1>. HIDE DEF r
<1>3. Good(c)'
  BY <1>1, <1>2
  DEF Good, Rooted, Filling, Looking, Reading, Listing, GotSound, Found, Listed, Finished, At, Control, Sane
<1>. QED BY <1>1, <1>2, <1>3, QuietStep DEF Safe

LEMMA OpenToReadKeeps ==
  ASSUME IInv, Control', NEW c \in Client, OpenToRead(c)
  PROVE  Safe'
<1>. DEFINE i == dir[op[c].name]
            r == [op[c] EXCEPT !.pc = "read", !.inode = i, !.expect = whole[i]]
<1>1. /\ UNCHANGED <<kind, root, dir, file, whole>> /\ op[c].pc = "start" /\ op[c].do = "get"
      /\ op[c] \in Operation /\ op[c].name \in Names /\ Good(c) /\ op[c].at = 0 /\ op[c].got = <<>>
  BY DEF OpenToRead, At, IInv, Types, Control, Sane
<1>2. CASE i = 0
  <2>. DEFINE d == Done(op[c], "not_found")
  <2>1. op' = [op EXCEPT ![c] = d] /\ op'[c] = d
    BY <1>2 DEF OpenToRead, Ends, IInv, Types
  <2>2. d.pc = "done" /\ d.do = "get" /\ d.result = "not_found" /\ "absent" \in d.was
    BY <1>1, <1>2, DoneFields DEF Good, Looking, At, Results
  <2>. HIDE DEF d
  <2>3. Good(c)'
    BY <2>1, <2>2
    DEF Good, Rooted, Filling, Looking, Reading, Listing, GotSound, Found, Listed, Finished, At, Control, Sane
  <2>. QED BY <1>1, <2>1, <2>2, <2>3, QuietStep DEF Safe
<1>3. CASE i # 0
  <2>1. op' = [op EXCEPT ![c] = r] /\ op'[c] = r
    BY <1>3 DEF OpenToRead, IInv, Types
  <2>2. i \in Inode
    BY <1>1, <1>3 DEF IInv, Types
  <2>3. r.pc = "read" /\ r.do = "get" /\ r.inode = i /\ r.expect = whole[i] /\ r.at = 0 /\ r.got = <<>>
    <3>. HIDE DEF i
    <3>. QED BY <1>1 DEF Operation
  <2>4. whole[i] # <<>> => whole[i] = <<file[i]>> /\ Writers(i) = {}
    BY <2>2 DEF IInv, Wholeness
  <2>5. file[i] \in Seq(Byte)
    BY <2>2 DEF IInv, Types
  <2>. HIDE DEF i, r
  <2>6. \A j : Writers(j)' = Writers(j)
    <3>1. \A d \in Client : op'[d] = IF d = c THEN r ELSE op[d]
      BY <2>1 DEF IInv, Types
    <3>. QED BY <1>1, <2>3, <3>1 DEF Writers
  <2>7. Reading(c)'
    <3>1. 0 <= Len(file[i]) /\ <<>> = SubSeq(file[i], 1, 0)
      BY <2>5
    <3>. QED BY <1>1, <2>1, <2>3, <2>4, <2>6, <3>1 DEF Reading
  <2>8. Good(c)'
    BY <2>1, <2>3, <2>7
    DEF Good, Rooted, Filling, Looking, Listing, GotSound, Found, Listed, Finished, At, Control, Sane
  <2>. QED BY <1>1, <2>1, <2>3, <2>8, QuietStep DEF Safe
<1>. QED BY <1>2, <1>3

LEMMA ReadKeeps ==
  ASSUME IInv, Control', NEW c \in Client, Read(c)
  PROVE  Safe'
<1>. DEFINE o == op[c]
            f == file[o.inode]
<1>1. /\ UNCHANGED <<kind, root, dir, file, whole>> /\ o.pc = "read" /\ o.do = "get"
      /\ o \in Operation /\ Good(c) /\ o.inode \in Inode
  BY DEF Read, At, IInv, Types, Control, Sane, Operation
<1>2. f \in Seq(Byte) /\ o.at \in Nat /\ o.got \in Seq(Byte)
  BY <1>1 DEF IInv, Types, Operation
<1>3. PICK n \in 1..(Len(f) - o.at) :
        op' = [op EXCEPT ![c].at = @ + n, ![c].got = @ \o SubSeq(f, o.at + 1, o.at + n)]
  BY DEF Read
<1>. DEFINE g == o.got \o SubSeq(f, o.at + 1, o.at + n)
            r == [o EXCEPT !.at = @ + n, !.got = g]
<1>4. op' = [op EXCEPT ![c] = r] /\ op'[c] = r
  BY <1>3 DEF IInv, Types
<1>. HIDE DEF g
<1>5. /\ r.pc = "read" /\ r.do = "get" /\ r.inode = o.inode /\ r.expect = o.expect
      /\ r.at = o.at + n /\ r.got = g
  BY <1>1 DEF Operation
<1>6. Writers(o.inode)' = Writers(o.inode)
  <2>. HIDE DEF r
  <2>1. \A d \in Client : op'[d] = IF d = c THEN r ELSE op[d]
    BY <1>4 DEF IInv, Types
  <2>. QED BY <1>1, <1>5, <2>1 DEF Writers
<1>7. o.got = SubSeq(f, 1, o.at) => g = SubSeq(f, 1, o.at + n)
  <2>1. n \in Nat /\ o.at + n <= Len(f)
    BY <1>2
  <2>. DEFINE a == o.at
              b == o.at + n
  <2>2. a \in Nat /\ b \in Nat /\ a <= b /\ b <= Len(f)
    BY <1>2, <2>1
  <2>. HIDE DEF a, b, f
  <2>3. SubSeq(f, 1, a) \o SubSeq(f, a + 1, b) = SubSeq(f, 1, b)
    BY <1>2, <2>2, PrefixGrows
  <2>. QED BY <2>3 DEF g, a, b
<1>8. o.at + n <= Len(f)
  BY <1>2
<1>. HIDE DEF r
<1>9. Reading(c)'
  BY <1>1, <1>4, <1>5, <1>6, <1>7, <1>8 DEF Good, Reading, At
<1>10. Good(c)'
  BY <1>4, <1>5, <1>9
  DEF Good, Rooted, Filling, Looking, Listing, GotSound, Found, Listed, Finished, At, Control, Sane
<1>. QED BY <1>1, <1>4, <1>5, <1>10, QuietStep DEF Safe

LEMMA GetFromMemoryKeeps ==
  ASSUME IInv, Control', NEW c \in Client, GetFromMemory(c)
  PROVE  Safe'
<1>. DEFINE i == dir[op[c].name]
<1>1. /\ UNCHANGED <<kind, root, dir, file, whole>> /\ op[c].pc = "start" /\ op[c].do = "get"
      /\ op[c] \in Operation /\ op[c].name \in Names /\ Good(c) /\ kind = "memory"
  BY DEF GetFromMemory, At, IInv, Types, Control, Sane
<1>2. CASE i = 0
  <2>. DEFINE d == Done(op[c], "not_found")
  <2>1. op' = [op EXCEPT ![c] = d] /\ op'[c] = d
    BY <1>2 DEF GetFromMemory, Ends, IInv, Types
  <2>2. d.pc = "done" /\ d.do = "get" /\ d.result = "not_found" /\ "absent" \in d.was
    BY <1>1, <1>2, DoneFields DEF Good, Looking, At, Results
  <2>. HIDE DEF d
  <2>3. Good(c)'
    BY <2>1, <2>2
    DEF Good, Rooted, Filling, Looking, Reading, Listing, GotSound, Found, Listed, Finished, At, Control, Sane
  <2>. QED BY <1>1, <2>1, <2>2, <2>3, QuietStep DEF Safe
<1>3. CASE i # 0
  <2>. DEFINE d == Done(op[c], "ok")
              r == [d EXCEPT !.got = file[i], !.expect = whole[i]]
  <2>1. op' = [op EXCEPT ![c] = r] /\ op'[c] = r
    BY <1>3 DEF GetFromMemory, IInv, Types
  <2>2. d \in Operation /\ d.pc = "done" /\ d.do = "get" /\ d.result = "ok"
    BY <1>1, DoneFields DEF Results
  <2>3. whole[i] = <<file[i]>>
    BY <1>1, <1>3 DEF IInv, Wholeness
  <2>. HIDE DEF d, i
  <2>4. r.pc = "done" /\ r.do = "get" /\ r.result = "ok" /\ <<r.got>> = r.expect
    BY <2>2, <2>3 DEF Operation
  <2>. HIDE DEF r
  <2>5. Good(c)'
    BY <2>1, <2>4
    DEF Good, Rooted, Filling, Looking, Reading, Listing, GotSound, Found, Listed, Finished, At, Control, Sane
  <2>. QED BY <1>1, <2>1, <2>4, <2>5, QuietStep DEF Safe
<1>. QED BY <1>2, <1>3

LEMMA ReadDirKeeps ==
  ASSUME IInv, Control', NEW c \in Client, ReadDir(c)
  PROVE  Safe'
<1>. DEFINE r == [op[c] EXCEPT !.pc = "info", !.todo = Stored, !.seen = Stored]
<1>1. /\ op' = [op EXCEPT ![c] = r] /\ op'[c] = r /\ UNCHANGED <<kind, root, dir, file, whole>>
      /\ op[c].pc = "start" /\ op[c].do = "list" /\ op[c] \in Operation /\ op[c].infos = <<>>
  BY DEF ReadDir, At, IInv, Types, Control, Sane
<1>2. r.pc = "info" /\ r.do = "list" /\ r.todo = Stored /\ r.seen = Stored /\ r.infos = <<>>
  BY <1>1 DEF Operation
<1>3. \A n \in Stored : dir[n] # 0
  BY DEF Stored
<1>. HIDE DEF r
<1>4. Listing(c)'
  <2>1. DOMAIN <<>> = {}
    OBVIOUS
  <2>. QED BY <1>1, <1>2, <1>3, <2>1 DEF Listing, InOrder, ToSet
<1>5. Good(c)'
  BY <1>1, <1>2, <1>4
  DEF Good, Rooted, Filling, Looking, Reading, GotSound, Found, Listed, Finished, At, Control, Sane
<1>. QED BY <1>1, <1>2, <1>5, QuietStep DEF Safe

LEMMA InfoKeeps ==
  ASSUME IInv, Control', NEW c \in Client, Info(c)
  PROVE  Safe'
<1>. DEFINE n == First(op[c].todo)
            t == op[c].todo \ {n}
            s == op[c].infos
            l == IF dir[n] = 0 THEN s ELSE Append(s, n)
            r == [op[c] EXCEPT !.todo = t, !.infos = l]
<1>1. /\ op' = [op EXCEPT ![c] = r] /\ op'[c] = r /\ UNCHANGED <<kind, root, dir, file, whole>>
      /\ op[c].pc = "info" /\ op[c].do = "list" /\ op[c] \in Operation /\ Good(c)
      /\ op[c].todo \in SUBSET Names /\ op[c].todo # {} /\ s \in Seq(Names)
  BY DEF Info, At, IInv, Types, Operation
<1>2. /\ r.pc = "info" /\ r.do = "list" /\ r.todo = t /\ r.infos = l
      /\ r.seen = op[c].seen /\ r.gone = op[c].gone
  <2>. HIDE DEF t, l
  <2>. QED BY <1>1 DEF Operation
<1>3. n \in op[c].todo /\ \A m \in t : Before(n, m)
  BY <1>1, FirstComesFirst
<1>4. /\ InOrder(s)
      /\ \A k \in DOMAIN s, m \in op[c].todo : Before(s[k], m)
      /\ ToSet(s) \cup op[c].todo \subseteq op[c].seen
      /\ op[c].seen \ op[c].gone \subseteq ToSet(s) \cup op[c].todo
      /\ \A m \in op[c].seen \ op[c].gone : dir[m] # 0
  BY <1>1 DEF Good, Listing, At
<1>. HIDE DEF n, r
<1>5. /\ InOrder(l)
      /\ \A k \in DOMAIN l, m \in t : Before(l[k], m)
      /\ ToSet(l) \cup t \subseteq op[c].seen
      /\ op[c].seen \ op[c].gone \subseteq ToSet(l) \cup t
  <2>1. CASE dir[n] = 0
    BY <1>3, <1>4, <2>1
  <2>2. CASE dir[n] # 0
    <3>1. /\ l = Append(s, n) /\ DOMAIN l = DOMAIN s \cup {Len(s) + 1} /\ l[Len(s) + 1] = n
          /\ \A k \in DOMAIN s : l[k] = s[k] /\ k < Len(s) + 1
      BY <1>1, <2>2
    <3>2. ToSet(l) = ToSet(s) \cup {n}
      BY <3>1 DEF ToSet
    <3>3. DOMAIN s = 1..Len(s) /\ Len(s) \in Nat
      BY <1>1
    <3>. HIDE DEF l, s
    <3>4. ASSUME NEW i \in DOMAIN l, NEW j \in DOMAIN l, i < j
          PROVE  Before(l[i], l[j])
      <4>1. i \in DOMAIN s
        BY <3>1, <3>3, <3>4
      <4>2. CASE j \in DOMAIN s
        BY <1>4, <3>1, <3>4, <4>1, <4>2 DEF InOrder
      <4>3. CASE j = Len(s) + 1
        BY <1>3, <1>4, <3>1, <4>1, <4>3
      <4>. QED BY <3>1, <4>2, <4>3
    <3>5. InOrder(l)
      BY <3>4 DEF InOrder
    <3>6. \A k \in DOMAIN l, m \in t : Before(l[k], m)
      BY <1>3, <1>4, <3>1
    <3>. QED BY <1>3, <1>4, <3>2, <3>5, <3>6
  <2>. QED BY <2>1, <2>2
<1>. HIDE DEF l, t
<1>6. Listing(c)'
  BY <1>1, <1>2, <1>4, <1>5 DEF Listing
<1>7. Good(c)'
  BY <1>1, <1>2, <1>6
  DEF Good, Rooted, Filling, Looking, Reading, GotSound, Found, Listed, Finished, At, Control, Sane
<1>. QED BY <1>1, <1>2, <1>7, QuietStep DEF Safe

LEMMA ListEndsKeeps ==
  ASSUME IInv, Control', NEW c \in Client, ListEnds(c)
  PROVE  Safe'
<1>. DEFINE d == Done(op[c], "ok")
<1>1. /\ op' = [op EXCEPT ![c] = d] /\ op'[c] = d /\ UNCHANGED <<kind, root, dir, file, whole>>
      /\ op[c].pc = "info" /\ op[c].do = "list" /\ op[c] \in Operation /\ Good(c) /\ op[c].todo = {}
  BY DEF ListEnds, Ends, At, IInv, Types
<1>2. /\ d.pc = "done" /\ d.do = "list" /\ d.result = "ok" /\ d.infos = op[c].infos
      /\ d.seen = op[c].seen /\ d.gone = op[c].gone
  BY <1>1, DoneFields DEF Results
<1>. HIDE DEF d
<1>3. Listed(c)'
  BY <1>1, <1>2 DEF Listed, Good, Listing, At
<1>4. Good(c)'
  BY <1>1, <1>2, <1>3
  DEF Good, Rooted, Filling, Looking, Reading, Listing, GotSound, Found, Finished, At, Control, Sane
<1>. QED BY <1>1, <1>2, <1>4, QuietStep DEF Safe

LEMMA ListMemoryKeeps ==
  ASSUME IInv, Control', NEW c \in Client, ListMemory(c)
  PROVE  Safe'
<1>1. PICK names \in [1..Cardinality(Stored) -> Stored] :
        /\ InOrder(names) /\ ToSet(names) = Stored
        /\ op' = [op EXCEPT ![c] = [Done(@, "ok") EXCEPT !.infos = names, !.seen = Stored]]
  BY DEF ListMemory
<1>. DEFINE d == Done(op[c], "ok")
            r == [d EXCEPT !.infos = names, !.seen = Stored]
<1>2. /\ op' = [op EXCEPT ![c] = r] /\ op'[c] = r /\ UNCHANGED <<kind, root, dir, file, whole>>
      /\ op[c].pc = "start" /\ op[c].do = "list" /\ op[c] \in Operation
  BY <1>1 DEF ListMemory, At, IInv, Types
<1>3. d \in Operation /\ d.pc = "done" /\ d.do = "list" /\ d.result = "ok"
  BY <1>2, DoneFields DEF Results
<1>. HIDE DEF d
<1>4. r.pc = "done" /\ r.do = "list" /\ r.result = "ok" /\ r.infos = names /\ r.seen = Stored
  BY <1>3 DEF Operation
<1>. HIDE DEF r
<1>5. Listed(c)'
  BY <1>1, <1>2, <1>4 DEF Listed
<1>6. Good(c)'
  BY <1>2, <1>4, <1>5
  DEF Good, Rooted, Filling, Looking, Reading, Listing, GotSound, Found, Finished, At, Control, Sane
<1>. QED BY <1>2, <1>4, <1>6, QuietStep DEF Safe

-----------------------------------------------------------------------------
(* The steps that close a file, and those that change one.                 *)

LEMMA Reclaimed ==
  ASSUME NEW f, NEW w, Reclaim(f, w), NEW i \in Inode
  PROVE  /\ i \in InUse(dir', op') => file'[i] = f[i] /\ whole'[i] = w[i]
         /\ whole'[i] # <<>> => i \in InUse(dir', op')
BY DEF Reclaim

\* An operation ends: what it leaves in the file is what is recorded of it.
LEMMA DropStep ==
  ASSUME IInv, Control', NEW c \in Client, NEW r, op' = [op EXCEPT ![c] = r], r.pc = "done",
         UNCHANGED <<kind, root, dir>>,
         NEW w, Reclaim(file, w), kind = "memory" => w = whole,
         \A i \in Inode : w[i] # <<>> => w[i] = <<file[i]>> /\ Writers(i) \subseteq {c},
         Good(c)'
  PROVE  Safe'
<1>1. \A d \in Client : op'[d] = IF d = c THEN r ELSE op[d]
  BY DEF IInv, Types
<1>2. \A i : Writers(i)' = Writers(i) \ {c}
  BY <1>1 DEF Writers
<1>3. Links'
  BY DEF IInv, Links
<1>4. Wholeness'
  <2>1. ASSUME NEW i \in Inode, whole'[i] # <<>>
        PROVE  whole'[i] = <<file'[i]>> /\ Writers(i)' = {}
    <3>1. file'[i] = file[i] /\ whole'[i] = w[i]
      BY <2>1, Reclaimed
    <3>. QED BY <1>2, <2>1, <3>1
  <2>2. ASSUME kind = "memory", NEW n \in Names, dir[n] # 0
        PROVE  whole'[dir[n]] = <<file'[dir[n]]>>
    <3>1. dir[n] \in Inode /\ dir[n] \in InUse(dir', op')
      BY <2>2 DEF IInv, Types, InUse
    <3>2. \A i \in Inode : i \in InUse(dir', op') => file'[i] = file[i] /\ whole'[i] = w[i]
      BY Reclaimed
    <3>. QED BY <2>2, <3>1, <3>2 DEF IInv, Wholeness
  <2>. QED BY <2>1, <2>2 DEF Wholeness
<1>5. ASSUME NEW d \in Client, d # c PROVE Good(d)'
  <2>1. op'[d] = op[d] /\ Good(d)
    BY <1>1, <1>5 DEF IInv
  <2>2. \A n \in op[d].seen \ op[d].gone : At(d, "list", "info") => dir'[n] # 0
    BY <2>1 DEF Good, Listing
  <2>3. ASSUME Quiet(d)
        PROVE  /\ file'[op[d].inode] = file[op[d].inode]
               /\ Writers(op[d].inode)' = Writers(op[d].inode)
    <3>1. op[d].inode \in Inode
      BY <2>3 DEF Quiet, At, IInv, Types, Control, Sane, Operation
    <3>2. op[d].inode \in InUse(dir', op')
      BY <2>1 DEF InUse
    <3>3. c \notin Writers(op[d].inode)
      BY <1>5, <2>1, <2>3 DEF Quiet, Good, Filling, Reading
    <3>4. \A i \in Inode : i \in InUse(dir', op') => file'[i] = file[i]
      BY Reclaimed
    <3>5. file'[op[d].inode] = file[op[d].inode]
      BY <3>1, <3>2, <3>4
    <3>. QED BY <1>2, <2>1, <3>3, <3>5
  <2>. QED BY <2>1, <2>2, <2>3, Untouched DEF IInv
<1>. QED BY <1>3, <1>4, <1>5 DEF Safe

LEMMA FaultKeeps ==
  ASSUME IInv, Control', NEW c \in Client, Fault(c)
  PROVE  Safe'
<1>. DEFINE d == Done(op[c], "permanent")
            r == [d EXCEPT !.was = {"faulted"}, !.got = <<>>, !.infos = <<>>,
                           !.expect = <<>>, !.seen = {}, !.gone = {}]
<1>1. /\ op' = [op EXCEPT ![c] = r] /\ op'[c] = r /\ UNCHANGED <<kind, root, dir>> /\ Reclaim(file, whole)
      /\ op[c] \in Operation /\ kind = "filesystem"
  BY DEF Fault, IInv, Types
<1>2. d \in Operation /\ d.pc = "done" /\ d.result = "permanent"
  BY <1>1, DoneFields DEF Results
<1>. HIDE DEF d
<1>3. r.pc = "done" /\ r.result = "permanent" /\ r.was = {"faulted"}
  BY <1>2 DEF Operation
<1>. HIDE DEF r
<1>4. Good(c)'
  BY <1>1, <1>3
  DEF Good, Rooted, Filling, Looking, Reading, Listing, GotSound, Found, Listed, Finished, At, Control, Sane
<1>5. \A i \in Inode : whole[i] # <<>> => whole[i] = <<file[i]>> /\ Writers(i) \subseteq {c}
  BY DEF IInv, Wholeness
<1>. QED BY <1>1, <1>3, <1>4, <1>5, DropStep

LEMMA EndOfFileKeeps ==
  ASSUME IInv, Control', NEW c \in Client, EndOfFile(c)
  PROVE  Safe'
<1>. DEFINE d == Done(op[c], "ok")
            f == file[op[c].inode]
<1>1. /\ op' = [op EXCEPT ![c] = d] /\ op'[c] = d /\ UNCHANGED <<kind, root, dir>> /\ Reclaim(file, whole)
      /\ op[c] \in Operation /\ At(c, "get", "read") /\ op[c].at >= Len(f) /\ Good(c)
      /\ op[c].inode \in Inode /\ kind = "filesystem"
  BY DEF EndOfFile, Ends, At, IInv, Types, Control, Sane, Operation
<1>2. d.pc = "done" /\ d.do = "get" /\ d.result = "ok" /\ d.got = op[c].got /\ d.expect = op[c].expect
  BY <1>1, DoneFields DEF Results, At
<1>3. op[c].expect # <<>> => <<op[c].got>> = op[c].expect
  <2>1. f \in Seq(Byte) /\ op[c].at \in Nat
    BY <1>1 DEF IInv, Types, Operation
  <2>2. SubSeq(f, 1, Len(f)) = f
    BY <2>1, SubSeqFull
  <2>3. op[c].expect # <<>> => op[c].at = Len(f)
    BY <1>1, <2>1 DEF Good, Reading
  <2>. QED BY <1>1, <2>2, <2>3 DEF Good, Reading
<1>. HIDE DEF d
<1>4. Good(c)'
  BY <1>1, <1>2, <1>3
  DEF Good, Rooted, Filling, Looking, Reading, Listing, GotSound, Found, Listed, Finished, At, Control, Sane
<1>5. \A i \in Inode : whole[i] # <<>> => whole[i] = <<file[i]>> /\ Writers(i) \subseteq {c}
  BY DEF IInv, Wholeness
<1>. QED BY <1>1, <1>2, <1>4, <1>5, DropStep

LEMMA CloseKeeps ==
  ASSUME IInv, Control', NEW c \in Client, Close(c)
  PROVE  Safe'
<1>. DEFINE d == Done(op[c], "ok")
            i == op[c].inode
            w == IF "alone" \in op[c].was THEN [whole EXCEPT ![i] = <<op[c].data>>] ELSE whole
<1>1. /\ op' = [op EXCEPT ![c] = d] /\ op'[c] = d /\ UNCHANGED <<kind, root, dir>> /\ Reclaim(file, w)
      /\ op[c] \in Operation /\ At(c, "put", "write") /\ op[c].at = Len(op[c].data) /\ Good(c)
      /\ i \in Inode /\ kind = "filesystem"
  BY DEF Close, Ends, At, IInv, Types, Control, Sane, Operation
<1>2. d.pc = "done" /\ d.do = "put"
  BY <1>1, DoneFields DEF Results, At
<1>3. ASSUME NEW j \in Inode, w[j] # <<>>
      PROVE  w[j] = <<file[j]>> /\ Writers(j) \subseteq {c}
  <2>1. CASE "alone" \in op[c].was /\ j = i
    <3>1. w[j] = <<op[c].data>>
      BY <1>1, <2>1 DEF IInv, Types
    <3>2. file[i] = op[c].data /\ Writers(i) = {c}
      <4>1. op[c].data \in Seq(Byte)
        BY <1>1 DEF Operation
      <4>2. SubSeq(op[c].data, 1, Len(op[c].data)) = op[c].data
        BY <4>1, SubSeqFull
      <4>. QED BY <1>1, <2>1, <4>2 DEF Good, Filling
    <3>. QED BY <2>1, <3>1, <3>2
  <2>2. CASE ~("alone" \in op[c].was /\ j = i)
    <3>1. w[j] = whole[j]
      BY <2>2 DEF IInv, Types
    <3>. QED BY <1>3, <3>1 DEF IInv, Wholeness
  <2>. QED BY <2>1, <2>2
<1>. HIDE DEF d, w
<1>4. Good(c)'
  BY <1>1, <1>2
  DEF Good, Rooted, Filling, Looking, Reading, Listing, GotSound, Found, Listed, Finished, At, Control, Sane
<1>. QED BY <1>1, <1>2, <1>3, <1>4, DropStep

LEMMA UnlinkKeeps ==
  ASSUME IInv, Control', NEW c \in Client, Unlink(c)
  PROVE  Safe'
<1>. DEFINE n == op[c].name
<1>1. /\ UNCHANGED <<kind, root>> /\ Reclaim(file, whole) /\ At(c, "delete", "start")
      /\ op[c] \in Operation /\ n \in Names
  BY DEF Unlink, At, IInv, Types, Control, Sane
<1>2. CASE dir[n] = 0
  <2>. DEFINE d == Done(op[c], "not_found")
  <2>1. op' = [op EXCEPT ![c] = d] /\ op'[c] = d /\ UNCHANGED dir
    BY <1>2 DEF Unlink, Ends, IInv, Types
  <2>2. d.pc = "done" /\ d.do = "delete"
    BY <1>1, DoneFields DEF Results, At
  <2>. HIDE DEF d
  <2>3. Good(c)'
    BY <2>1, <2>2
    DEF Good, Rooted, Filling, Looking, Reading, Listing, GotSound, Found, Listed, Finished, At, Control, Sane
  <2>4. \A i \in Inode : whole[i] # <<>> => whole[i] = <<file[i]>> /\ Writers(i) \subseteq {c}
    BY DEF IInv, Wholeness
  <2>. QED BY <1>1, <2>1, <2>2, <2>3, <2>4, DropStep
<1>3. CASE dir[n] # 0
  <2>. DEFINE e == Done(op[c], "ok")
  <2>1. e.pc = "done" /\ e.do = "delete"
    BY <1>1, DoneFields DEF Results, At
  <2>2. dir' = [dir EXCEPT ![n] = 0] /\ \A d \in Client : op'[d] = IF d = c THEN e ELSE Note(n)[d]
    <3>1. Note(n)[c] = op[c]
      BY <1>1 DEF At, Note
    <3>2. dir' = [dir EXCEPT ![n] = 0] /\ op' = [Note(n) EXCEPT ![c] = Done(@, "ok")]
      BY <1>3 DEF Unlink
    <3>. QED BY <3>1, <3>2 DEF Note
  <2>. HIDE DEF e
  <2>3. Good(c)'
    BY <2>1, <2>2
    DEF Good, Rooted, Filling, Looking, Reading, Listing, GotSound, Found, Listed, Finished, At, Control, Sane
  <2>4. ASSUME NEW d \in Client, d # c
        PROVE  /\ op[d] \in Operation /\ Good(d)
               /\ op'[d].do = op[d].do /\ op'[d].pc = op[d].pc /\ op'[d].inode = op[d].inode
    <3>1. op[d] \in Operation /\ Good(d) /\ op'[d] = Note(n)[d]
      BY <2>2, <2>4 DEF IInv, Types
    <3>2. \/ Note(n)[d] = [op[d] EXCEPT !.gone = @ \cup ({n} \cap op[d].seen)]
          \/ Note(n)[d] = [op[d] EXCEPT !.was = @ \cup {"absent"}]
          \/ Note(n)[d] = op[d]
      BY DEF Note
    <3>. DEFINE N == Note(n)[d]
    <3>3. N.do = op[d].do /\ N.pc = op[d].pc /\ N.inode = op[d].inode
      <4>. DEFINE g == op[d].gone \cup ({n} \cap op[d].seen)
                  v == op[d].was \cup {"absent"}
      <4>1. CASE N = [op[d] EXCEPT !.gone = g]
        <5>. HIDE DEF g, N
        <5>. QED BY <3>1, <4>1 DEF Operation
      <4>2. CASE N = [op[d] EXCEPT !.was = v]
        <5>. HIDE DEF v, N
        <5>. QED BY <3>1, <4>2 DEF Operation
      <4>. QED BY <3>2, <4>1, <4>2
    <3>. HIDE DEF N
    <3>. QED BY <3>1, <3>3 DEF N
  <2>5. \A i : Writers(i)' = Writers(i)
    BY <1>1, <2>1, <2>2, <2>4 DEF Writers, At
  <2>6. \A m \in Names : dir'[m] = IF m = n THEN 0 ELSE dir[m]
    BY <2>2 DEF IInv, Types
  <2>7. Links'
    BY <1>1, <2>6 DEF IInv, Links
  <2>8. Wholeness'
    <3>1. ASSUME NEW i \in Inode, whole'[i] # <<>>
          PROVE  whole'[i] = <<file'[i]>> /\ Writers(i)' = {}
      <4>1. file'[i] = file[i] /\ whole'[i] = whole[i]
        BY <1>1, <3>1, Reclaimed
      <4>. QED BY <2>5, <3>1, <4>1 DEF IInv, Wholeness
    <3>2. ASSUME kind = "memory", NEW m \in Names, dir'[m] # 0
          PROVE  whole'[dir'[m]] = <<file'[dir'[m]]>>
      <4>1. dir'[m] = dir[m] /\ dir[m] \in Inode /\ dir'[m] \in InUse(dir', op')
        BY <2>6, <3>2 DEF IInv, Types, InUse
      <4>2. \A i \in Inode : i \in InUse(dir', op') => file'[i] = file[i] /\ whole'[i] = whole[i]
        BY <1>1, Reclaimed
      <4>. QED BY <3>2, <4>1, <4>2 DEF IInv, Wholeness
    <3>. QED BY <1>1, <3>1, <3>2 DEF Wholeness
  <2>9. ASSUME NEW d \in Client, d # c PROVE Good(d)'
    <3>1. /\ op[d] \in Operation /\ Good(d)
          /\ op'[d].do = op[d].do /\ op'[d].pc = op[d].pc /\ op'[d].inode = op[d].inode
      BY <2>4, <2>9
    <3>2. CASE At(d, "list", "info")
      <4>. DEFINE g == op[d].gone \cup ({n} \cap op[d].seen)
      <4>1. op'[d] = [op[d] EXCEPT !.gone = g]
        BY <2>2, <2>9, <3>2 DEF Note
      <4>. HIDE DEF g
      <4>2. op'[d].gone = g /\ op'[d].seen = op[d].seen /\ op'[d].todo = op[d].todo /\ op'[d].infos = op[d].infos
        BY <3>1, <4>1 DEF Operation
      <4>3. op[d].seen \ g = (op[d].seen \ op[d].gone) \ {n} /\ op[d].seen \subseteq Names
        BY <3>1 DEF g, Operation
      <4>4. Listing(d)'
        BY <2>6, <3>1, <3>2, <4>2, <4>3 DEF Good, Listing, At
      <4>. QED BY <3>1, <3>2, <4>4
           DEF Good, Rooted, Filling, Looking, Reading, GotSound, Found, Listed, Finished, At, Control, Sane
    <3>3. CASE At(d, "get", "start") /\ op[d].name = n
      <4>. DEFINE w == op[d].was \cup {"absent"}
      <4>1. op'[d] = [op[d] EXCEPT !.was = w] /\ "absent" \in w
        BY <2>2, <2>9, <3>3 DEF Note, At
      <4>. HIDE DEF w
      <4>2. op'[d].was = w
        BY <3>1, <4>1 DEF Operation
      <4>. QED BY <3>1, <3>3, <4>1, <4>2
           DEF Good, Rooted, Filling, Looking, Reading, Listing, GotSound, Found, Listed, Finished, At, Control, Sane
    <3>4. CASE ~At(d, "list", "info") /\ ~(At(d, "get", "start") /\ op[d].name = n)
      <4>1. op'[d] = op[d]
        BY <2>2, <2>9, <3>4 DEF Note
      <4>2. At(d, "get", "start") => op[d].name \in Names /\ op[d].name # n
        BY <3>4 DEF At, IInv, Control, Sane
      <4>3. ASSUME Quiet(d)
            PROVE  /\ file'[op[d].inode] = file[op[d].inode]
                   /\ Writers(op[d].inode)' = Writers(op[d].inode)
        <5>1. op[d].inode \in Inode
          BY <4>3 DEF Quiet, At, IInv, Types, Control, Sane, Operation
        <5>2. op[d].inode \in InUse(dir', op')
          BY <4>1 DEF InUse
        <5>3. file'[op[d].inode] = file[op[d].inode]
          BY <1>1, <5>1, <5>2, Reclaimed
        <5>. QED BY <2>5, <4>1, <5>3
      <4>. QED BY <1>1, <2>6, <3>1, <3>4, <4>1, <4>2, <4>3, Untouched DEF IInv
    <3>. QED BY <3>2, <3>3, <3>4
  <2>. QED BY <2>3, <2>7, <2>8, <2>9 DEF Safe
<1>. QED BY <1>2, <1>3

LEMMA CrashKeeps ==
  ASSUME IInv, Control', Crash
  PROVE  Safe'
<1>1. op' = [c \in Client |-> Idle] /\ UNCHANGED <<kind, root>> /\ Reclaim(file, whole)
  BY DEF Crash
<1>2. Idle.pc = "start" /\ Idle.do = "none" /\ Idle.inode = 0
  BY DEF Idle, Begun
<1>3. \A n \in Names : dir'[n] \in {dir[n], 0} /\ (kind = "memory" => dir'[n] = 0)
  BY DEF Crash, IInv, Types
<1>4. Links'
  BY <1>1, <1>3 DEF IInv, Links
<1>5. \A i : Writers(i)' = {}
  BY <1>1, <1>2 DEF Writers
<1>6. ASSUME NEW i \in Inode, whole'[i] # <<>>
      PROVE  whole'[i] = <<file'[i]>>
  <2>1. file'[i] = file[i] /\ whole'[i] = whole[i]
    BY <1>1, <1>6, Reclaimed
  <2>. QED BY <1>6, <2>1 DEF IInv, Wholeness
<1>7. Wholeness'
  BY <1>1, <1>3, <1>5, <1>6 DEF Wholeness
<1>8. ASSUME NEW d \in Client PROVE Good(d)'
  <2>1. op'[d] = Idle
    BY <1>1
  <2>. QED BY <1>2, <2>1
       DEF Good, Rooted, Filling, Looking, Reading, Listing, GotSound, Found, Listed, Finished, At, Control, Sane
<1>. QED BY <1>4, <1>7, <1>8 DEF Safe

\* Writing on where a prefix ends makes a longer prefix.
LEMMA OverlayOnPrefix ==
  ASSUME NEW data \in Seq(Byte), NEW a \in Nat, NEW n \in Nat, a + n <= Len(data)
  PROVE  Overlay(SubSeq(data, 1, a), a, SubSeq(data, a + 1, a + n)) = SubSeq(data, 1, a + n)
<1>. DEFINE old == SubSeq(data, 1, a)
            new == SubSeq(data, a + 1, a + n)
            all == SubSeq(data, 1, a + n)
<1>1. /\ old \in Seq(Byte) /\ Len(old) = a /\ new \in Seq(Byte) /\ Len(new) = n
      /\ \A k \in 1..a : old[k] = data[k]
      /\ \A k \in 1..n : new[k] = data[a + k]
  OBVIOUS
<1>2. all \in Seq(Byte) /\ Len(all) = a + n /\ \A k \in 1..(a + n) : all[k] = data[k]
  OBVIOUS
<1>. HIDE DEF old, new, all
<1>. DEFINE v == Overlay(old, a, new)
<1>3. /\ v \in Seq(Byte) /\ Len(v) = a + n
      /\ \A k \in 1..(a + n) :
           v[k] = IF k \in (a + 1)..(a + n) THEN new[k - a] ELSE IF k <= a THEN old[k] ELSE 0
  BY <1>1, OverlayType
<1>4. ASSUME NEW k \in 1..(a + n) PROVE v[k] = data[k]
  <2>1. CASE k \in (a + 1)..(a + n)
    <3>1. k - a \in 1..n /\ a + (k - a) = k
      BY <2>1
    <3>. QED BY <1>1, <1>3, <2>1, <3>1
  <2>2. CASE k \notin (a + 1)..(a + n)
    BY <1>1, <1>3, <2>2
  <2>. QED BY <2>1, <2>2
<1>. HIDE DEF v
<1>5. v = all
  BY <1>2, <1>3, <1>4, SeqEqual
<1>. QED BY <1>5 DEF v, all, old, new

LEMMA WriteKeeps ==
  ASSUME IInv, Control', NEW c \in Client, Write(c)
  PROVE  Safe'
<1>. DEFINE o == op[c]
            i == o.inode
<1>1. /\ UNCHANGED <<kind, root, dir, whole>> /\ At(c, "put", "write") /\ o \in Operation /\ Good(c)
      /\ i \in Inode /\ o.data \in Seq(Byte) /\ o.at \in Nat /\ kind = "filesystem"
  BY DEF Write, At, IInv, Types, Control, Sane, Operation
<1>2. PICK n \in 1..(Len(o.data) - o.at) :
        /\ file' = [file EXCEPT ![i] = Overlay(@, o.at, SubSeq(o.data, o.at + 1, o.at + n))]
        /\ op' = [op EXCEPT ![c].at = @ + n]
  BY DEF Write
<1>3. n \in Nat /\ o.at + n \in Nat /\ o.at + n <= Len(o.data)
  BY <1>1
<1>. DEFINE r == [o EXCEPT !.at = @ + n]
<1>4. \A d \in Client : op'[d] = IF d = c THEN r ELSE op[d]
  BY <1>2 DEF IInv, Types
<1>5. /\ r.do = "put" /\ r.pc = "write" /\ r.inode = i /\ r.data = o.data /\ r.was = o.was
      /\ r.at = o.at + n
  BY <1>1 DEF Operation, At
<1>6. \A j : Writers(j)' = Writers(j)
  <2>. HIDE DEF r
  <2>. QED BY <1>1, <1>4, <1>5 DEF Writers, At
<1>7. c \in Writers(i)
  BY <1>1 DEF Writers, At
<1>8. \A j \in Inode : file'[j] = IF j = i THEN Overlay(file[i], o.at, SubSeq(o.data, o.at + 1, o.at + n))
                                   ELSE file[j]
  BY <1>1, <1>2 DEF IInv, Types
<1>9. Links'
  BY <1>1 DEF IInv, Links
<1>10. Wholeness'
  <2>1. \A j \in Inode : whole'[j] # <<>> => whole'[j] = <<file'[j]>> /\ Writers(j)' = {}
    <3>. HIDE DEF i
    <3>. QED BY <1>1, <1>6, <1>7, <1>8 DEF IInv, Wholeness
  <2>. QED BY <1>1, <2>1 DEF Wholeness
<1>11. Good(c)'
  <2>1. "alone" \in o.was => file'[i] = SubSeq(o.data, 1, o.at + n) /\ Writers(i) = {c}
    <3>1. "alone" \in o.was => file[i] = SubSeq(o.data, 1, o.at) /\ Writers(i) = {c}
      BY <1>1 DEF Good, Filling
    <3>2. Overlay(SubSeq(o.data, 1, o.at), o.at, SubSeq(o.data, o.at + 1, o.at + n)) = SubSeq(o.data, 1, o.at + n)
      BY <1>1, <1>3, OverlayOnPrefix
    <3>. QED BY <1>1, <1>8, <3>1, <3>2
  <2>. HIDE DEF r
  <2>2. Filling(c)'
    BY <1>3, <1>4, <1>5, <1>6, <2>1 DEF Filling
  <2>3. Rooted(c)'
    BY <1>1 DEF Good, Rooted, At
  <2>. QED BY <1>4, <1>5, <2>2, <2>3
       DEF Good, Looking, Reading, Listing, GotSound, Found, Listed, Finished, At
<1>12. ASSUME NEW d \in Client, d # c PROVE Good(d)'
  <2>1. op'[d] = op[d] /\ Good(d)
    BY <1>4, <1>12 DEF IInv
  <2>2. \A m \in op[d].seen \ op[d].gone : At(d, "list", "info") => dir'[m] # 0
    BY <1>1, <2>1 DEF Good, Listing
  <2>3. ASSUME Quiet(d)
        PROVE  /\ file'[op[d].inode] = file[op[d].inode]
               /\ Writers(op[d].inode)' = Writers(op[d].inode)
    <3>1. op[d].inode \in Inode
      BY <2>3 DEF Quiet, At, IInv, Types, Control, Sane, Operation
    <3>2. c \notin Writers(op[d].inode)
      BY <1>12, <2>1, <2>3 DEF Quiet, Good, Filling, Reading
    <3>3. op[d].inode # i
      BY <1>7, <3>2
    <3>4. file'[op[d].inode] = file[op[d].inode]
      <4>. HIDE DEF i
      <4>. QED BY <1>8, <3>1, <3>3
    <3>. QED BY <1>6, <2>1, <3>4
  <2>. QED BY <1>1, <2>1, <2>2, <2>3, Untouched DEF IInv
<1>. QED BY <1>9, <1>10, <1>11, <1>12 DEF Safe

LEMMA OpenKeeps ==
  ASSUME IInv, Control', NEW c \in Client, Open(c)
  PROVE  Safe'
<1>. DEFINE n == op[c].name
            t == Target(n)
<1>1. /\ UNCHANGED <<kind, root>> /\ At(c, "put", "open") /\ op[c] \in Operation /\ Good(c)
      /\ n \in Names /\ op[c].inode = 0 /\ op[c].at = 0 /\ kind = "filesystem" /\ op[c].data \in Seq(Byte)
  BY DEF Open, At, IInv, Types, Control, Sane, Operation
<1>2. /\ t \in Inode /\ \A m \in Names : dir[m] = t => m = n
  BY <1>1, TargetFits DEF IInv
<1>3. /\ dir' = [dir EXCEPT ![n] = t] /\ file' = [file EXCEPT ![t] = <<>>]
      /\ whole' = [whole EXCEPT ![t] = <<>>] /\ op' = Disturb(t, c)
  BY DEF Open, Target
<1>4. PICK i \in Inode : i = t
  BY <1>2
<1>. HIDE DEF t
<1>. DEFINE w == IF Writers(i) = {} THEN {"alone"} ELSE {}
            r == [op[c] EXCEPT !.pc = "write", !.inode = i, !.was = w]
<1>5. /\ \A m \in Names : dir'[m] = IF m = n THEN i ELSE dir[m]
      /\ \A j \in Inode : file'[j] = IF j = i THEN <<>> ELSE file[j]
      /\ \A j \in Inode : whole'[j] = IF j = i THEN <<>> ELSE whole[j]
  BY <1>1, <1>3, <1>4 DEF IInv, Types
<1>6. /\ op'[c] = r
      /\ \A d \in Client \ {c} :
           op'[d] = IF op[d].inode = i THEN [op[d] EXCEPT !.was = @ \ {"alone"}, !.expect = <<>>] ELSE op[d]
  BY <1>3, <1>4 DEF Disturb
<1>7. r.pc = "write" /\ r.do = "put" /\ r.inode = i /\ r.was = w /\ r.at = 0 /\ r.data = op[c].data
  <2>. HIDE DEF w
  <2>. QED BY <1>1 DEF Operation, At
<1>. HIDE DEF r
<1>8. ASSUME NEW d \in Client, d # c
      PROVE  /\ op[d] \in Operation /\ Good(d) /\ Sane(op[d], kind)
             /\ op'[d].do = op[d].do /\ op'[d].pc = op[d].pc /\ op'[d].inode = op[d].inode
  <2>1. op[d] \in Operation /\ Good(d) /\ Sane(op[d], kind)
    BY DEF IInv, Types, Control
  <2>. QED BY <1>6, <1>8, <2>1 DEF Operation
<1>9. \A j \in Inode : Writers(j)' = IF j = i THEN Writers(i) \cup {c} ELSE Writers(j)
  <2>1. op'[c].do = "put" /\ op'[c].pc = "write" /\ op'[c].inode = i
    BY <1>6, <1>7
  <2>2. c \notin Writers(i) /\ \A j \in Inode : c \notin Writers(j)
    BY <1>1 DEF Writers, At
  <2>3. Writers(i)' = Writers(i) \cup {c}
    BY <1>8, <2>1 DEF Writers
  <2>4. ASSUME NEW j \in Inode, j # i PROVE Writers(j)' = Writers(j)
    BY <1>8, <2>1, <2>2, <2>4 DEF Writers
  <2>. QED BY <2>3, <2>4
<1>10. Links'
  <2>1. root
    BY <1>1 DEF Good, Rooted, At
  <2>2. \A m, k \in Names : dir'[m] = dir'[k] /\ dir'[m] # 0 => m = k
    BY <1>2, <1>4, <1>5 DEF IInv, Links
  <2>. QED BY <1>1, <2>1, <2>2 DEF Links
<1>11. Wholeness'
  <2>1. \A j \in Inode : whole'[j] # <<>> => whole'[j] = <<file'[j]>> /\ Writers(j)' = {}
    BY <1>5, <1>9 DEF IInv, Wholeness
  <2>. QED BY <1>1, <2>1 DEF Wholeness
<1>12. Good(c)'
  <2>1. "alone" \in w => Writers(i)' = {c}
    BY <1>9
  <2>2. SubSeq(op[c].data, 1, 0) = <<>> /\ 0 <= Len(op[c].data)
    BY <1>1
  <2>3. Filling(c)'
    BY <1>5, <1>6, <1>7, <2>1, <2>2 DEF Filling
  <2>4. Rooted(c)'
    BY <1>1 DEF Good, Rooted, At
  <2>. HIDE DEF w
  <2>. QED BY <1>6, <1>7, <2>3, <2>4
       DEF Good, Looking, Reading, Listing, GotSound, Found, Listed, Finished, At
<1>13. ASSUME NEW d \in Client, d # c PROVE Good(d)'
  <2>1. /\ op[d] \in Operation /\ Good(d) /\ Sane(op[d], kind)
        /\ op'[d].do = op[d].do /\ op'[d].pc = op[d].pc /\ op'[d].inode = op[d].inode
    BY <1>8, <1>13
  <2>2. CASE op[d].inode = i
    <3>1. op'[d] = [op[d] EXCEPT !.was = @ \ {"alone"}, !.expect = <<>>]
      BY <1>6, <1>13, <2>2
    <3>. DEFINE v == op[d].was \ {"alone"}
    <3>2. op'[d] = [op[d] EXCEPT !.was = v, !.expect = <<>>] /\ "alone" \notin v
      BY <3>1
    <3>. HIDE DEF v
    <3>3. op'[d].was = v /\ op'[d].expect = <<>>
      BY <2>1, <3>2 DEF Operation
    <3>4. op[d].pc \in {"write", "read"}
      BY <1>4, <2>1, <2>2, NamesFinite DEF Sane
    <3>. QED BY <1>1, <2>1, <3>2, <3>3, <3>4
         DEF Good, Rooted, Filling, Looking, Reading, Listing, GotSound, Found, Listed, Finished, At
  <2>3. CASE op[d].inode # i
    <3>1. op'[d] = op[d]
      BY <1>6, <1>13, <2>3
    <3>2. i # 0
      BY NamesFinite
    <3>3. At(d, "get", "start") => op[d].name \in Names
      BY <2>1 DEF At, Sane
    <3>4. op[d].seen \subseteq Names
      BY <2>1 DEF Operation
    <3>5. \A m \in op[d].seen \ op[d].gone : At(d, "list", "info") => dir'[m] # 0
      BY <1>5, <2>1, <3>2, <3>4 DEF Good, Listing
    <3>6. At(d, "get", "start") /\ dir'[op[d].name] = 0 => dir[op[d].name] = 0
      BY <1>5, <3>2, <3>3
    <3>7. ASSUME Quiet(d)
          PROVE  /\ file'[op[d].inode] = file[op[d].inode]
                 /\ Writers(op[d].inode)' = Writers(op[d].inode)
      <4>1. op[d].inode \in Inode
        BY <3>7, <2>1 DEF Quiet, At, Sane, Operation
      <4>. QED BY <1>5, <1>9, <2>3, <3>1, <4>1
    <3>. QED BY <1>1, <2>1, <3>1, <3>5, <3>6, <3>7, Untouched DEF IInv
  <2>. QED BY <2>2, <2>3
<1>. QED BY <1>10, <1>11, <1>12, <1>13 DEF Safe

LEMMA PutInMemoryKeeps ==
  ASSUME IInv, Control', NEW c \in Client, PutInMemory(c)
  PROVE  Safe'
<1>. DEFINE n == op[c].name
            t == Target(n)
            e == Done(op[c], "ok")
<1>1. /\ UNCHANGED <<kind, root>> /\ At(c, "put", "start") /\ op[c] \in Operation
      /\ n \in Names /\ op[c].inode = 0 /\ kind = "memory"
  BY DEF PutInMemory, At, IInv, Types, Control, Sane
<1>2. t \in Inode /\ \A m \in Names : dir[m] = t => m = n
  BY <1>1, TargetFits DEF IInv
<1>3. /\ dir' = [dir EXCEPT ![n] = t] /\ file' = [file EXCEPT ![t] = op[c].data]
      /\ whole' = [whole EXCEPT ![t] = <<op[c].data>>] /\ op' = [op EXCEPT ![c] = e]
  BY DEF PutInMemory, Target, Ends
<1>4. PICK i \in Inode : i = t
  BY <1>2
<1>5. e.pc = "done" /\ e.do = "put"
  BY <1>1, DoneFields DEF Results, At
<1>. HIDE DEF t, e
<1>6. /\ \A m \in Names : dir'[m] = IF m = n THEN i ELSE dir[m]
      /\ \A j \in Inode : file'[j] = IF j = i THEN op[c].data ELSE file[j]
      /\ \A j \in Inode : whole'[j] = IF j = i THEN <<op[c].data>> ELSE whole[j]
      /\ \A d \in Client : op'[d] = IF d = c THEN e ELSE op[d]
  BY <1>1, <1>3, <1>4 DEF IInv, Types
<1>7. \A d \in Client : op[d].pc \notin {"write", "read"} /\ op'[d].pc # "write"
  BY <1>1, <1>5, <1>6 DEF IInv, Control, Sane
<1>8. \A j : Writers(j)' = {}
  BY <1>7 DEF Writers
<1>9. Links'
  BY <1>1, <1>2, <1>4, <1>6 DEF IInv, Links
<1>10. Wholeness'
  <2>1. \A j \in Inode : whole'[j] # <<>> => whole'[j] = <<file'[j]>>
    BY <1>6 DEF IInv, Wholeness
  <2>2. ASSUME NEW m \in Names, dir'[m] # 0
        PROVE  whole'[dir'[m]] = <<file'[dir'[m]]>>
    <3>1. CASE dir'[m] = i
      BY <1>6, <3>1
    <3>2. CASE dir'[m] # i
      <4>1. dir'[m] = dir[m] /\ dir[m] \in Inode /\ dir[m] # i
        BY <1>6, <2>2, <3>2 DEF IInv, Types
      <4>. QED BY <1>1, <1>6, <2>2, <4>1 DEF IInv, Wholeness
    <3>. QED BY <3>1, <3>2
  <2>. QED BY <1>8, <2>1, <2>2 DEF Wholeness
<1>11. op'[c] = e
  BY <1>6
<1>12. Good(c)'
  BY <1>5, <1>11
  DEF Good, Rooted, Filling, Looking, Reading, Listing, GotSound, Found, Listed, Finished, At, Control, Sane
<1>13. ASSUME NEW d \in Client, d # c PROVE Good(d)'
  <2>1. op'[d] = op[d] /\ Good(d) /\ op[d] \in Operation /\ Sane(op[d], kind)
    BY <1>6, <1>13 DEF IInv, Types, Control
  <2>2. ~Quiet(d)
    BY <1>7, <2>1 DEF Quiet, At, Sane
  <2>3. i # 0 /\ op[d].seen \subseteq Names
    BY <2>1, NamesFinite DEF Operation
  <2>4. \A m \in op[d].seen \ op[d].gone : At(d, "list", "info") => dir'[m] # 0
    BY <1>6, <2>1, <2>3 DEF Good, Listing
  <2>5. At(d, "get", "start") /\ dir'[op[d].name] = 0 => dir[op[d].name] = 0
    BY <1>6, <2>1, <2>3 DEF At, Sane
  <2>. QED BY <1>1, <2>1, <2>2, <2>4, <2>5, Untouched DEF IInv
<1>. QED BY <1>9, <1>10, <1>12, <1>13 DEF Safe

-----------------------------------------------------------------------------
(* The theorems.                                                           *)

LEMMA InitialInv == Init => IInv
<1>. SUFFICES ASSUME Init PROVE IInv
  OBVIOUS
<1>1. Idle \in Operation
  <2>1. <<>> \in Seq(Byte)
    BY EmptySeq
  <2>. QED BY <2>1, BegunFields DEF Idle
<1>2. Idle.pc = "start" /\ Idle.do = "none" /\ Sane(Idle, kind) /\ Idle.was = {}
  BY DEF Idle, Begun, Sane
<1>3. Types /\ Control
  <2>1. <<>> \in Seq(Byte) /\ <<>> \in Seq(Seq(Byte))
    BY EmptySeq
  <2>. QED BY <1>1, <1>2, <2>1 DEF Init, Types, Control
<1>4. Links /\ Wholeness
  BY DEF Init, Links, Wholeness
<1>5. ASSUME NEW c \in Client PROVE Good(c)
  <2>1. op[c] = Idle
    BY DEF Init
  <2>. QED BY <1>2, <2>1
       DEF Good, Rooted, Filling, Looking, Reading, Listing, GotSound, Found, Listed, Finished, At
<1>. QED BY <1>3, <1>4, <1>5 DEF IInv

LEMMA UnchangedKeeps ==
  ASSUME IInv, UNCHANGED vars
  PROVE  Safe'
<1>1. \A i : Writers(i)' = Writers(i)
  BY DEF vars, Writers
<1>2. Links' /\ Wholeness'
  BY <1>1 DEF vars, IInv, Links, Wholeness
<1>3. ASSUME NEW d \in Client PROVE Good(d)'
  <2>1. \A n \in op[d].seen \ op[d].gone : At(d, "list", "info") => dir'[n] # 0
    BY DEF vars, IInv, Good, Listing
  <2>. QED BY <1>1, <2>1, Untouched DEF vars, IInv
<1>. QED BY <1>2, <1>3 DEF Safe

(* Names, files and operations agree in every state, for any names, clients *)
(* and contents: the invariant the properties below rest on.                *)
THEOREM StoreInvariant == Spec => []IInv
<1>1. IInv /\ [Next]_vars => IInv'
  <2>. SUFFICES ASSUME IInv, [Next]_vars PROVE IInv'
    OBVIOUS
  <2>1. Types' /\ Control'
    BY StepTypes DEF IInv
  <2>2. Safe'
    BY <2>1, StepKinds, CallKeeps, ReturnKeeps, MkdirKeeps, OpenKeeps, WriteKeeps, CloseKeeps,
       OpenToReadKeeps, ReadKeeps, EndOfFileKeeps, UnlinkKeeps, ReadDirKeeps, InfoKeeps, ListEndsKeeps,
       PutInMemoryKeeps, GetFromMemoryKeeps, ListMemoryKeeps, FaultKeeps, CrashKeeps, UnchangedKeeps
    DEF Step
  <2>. QED BY <2>1, <2>2 DEF IInv, Safe
<1>. QED BY <1>1, InitialInv, PTL DEF Spec

(* Two names never share a file, and no file is stored outside a directory. *)
THEOREM TypeKept == Spec => []TypeOK
<1>1. IInv => TypeOK
  BY DEF IInv, Types, Control, Sane, Links, TypeOK, Operation
<1>. QED BY <1>1, StoreInvariant, PTL

(* A Get returns the bytes of one Put whole, unless on files a Put of the   *)
(* name was under way, was cut short or overlapped with another.            *)
THEOREM GetsSound == Spec => []GetSound
<1>1. IInv => GetSound
  BY DEF IInv, Good, GotSound, GetSound
<1>. QED BY <1>1, StoreInvariant, PTL

(* An asset that is replaced again and again is never "not found".          *)
THEOREM GetsFind == Spec => []GetFinds
<1>1. IInv => GetFinds
  BY DEF IInv, Good, Found, GetFinds
<1>. QED BY <1>1, StoreInvariant, PTL

(* A listing holds, in order, what was there at its start and still is, and *)
(* fails only for a fault of the system.                                    *)
THEOREM ListsSound == Spec => []ListSound
<1>1. IInv => ListSound
  BY DEF IInv, Good, Listed, ListSound
<1>. QED BY <1>1, StoreInvariant, PTL
=============================================================================
