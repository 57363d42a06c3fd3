----------------------------- MODULE AssetStore -----------------------------
(***************************************************************************)
(* The asset store of internal/assets under concurrent HTTP handlers and   *)
(* rendering: the one on files, whose Put, Get and List take several       *)
(* system calls each, and the one in memory, whose operations hold a lock. *)
(*                                                                         *)
(* A file is an inode; a directory entry leads to one, and a Put or Get    *)
(* under way keeps the one it opened.  The process may be killed between   *)
(* any two calls.  Below "history" in an operation's record are the facts  *)
(* the properties need of its past; no step of the code depends on them.   *)
(***************************************************************************)
EXTENDS Integers, Sequences, FiniteSets, SequencesExt

CONSTANTS
  Name,       \* names validateName accepts, in a sequence: their order
  BadName,    \* one that it does not
  Client,     \* the goroutines that use the store
  Content     \* for each name, what is put under it: sequences of bytes

ASSUME StoreAssumption ==
  /\ Name \in Seq(STRING) /\ IsInjective(Name)
  /\ BadName \in STRING /\ BadName \notin ToSet(Name)
  /\ IsFiniteSet(Client)
  /\ Content \in [ToSet(Name) -> SUBSET Seq(0..255)]

VARIABLES
  kind,     \* "filesystem" or "memory"
  root,     \* the directory exists
  dir,      \* the inode under each name, 0 without one
  file,     \* what is in each inode
  whole,    \* history: <<d>> if the last Put of the inode was alone and done, <<>> if not
  op        \* what each client is doing

vars == <<kind, root, dir, file, whole, op>>

Names == ToSet(Name)
Inode == 1..(Cardinality(Names) + Cardinality(Client))

Begun(do, name, data) ==
  [do |-> do, name |-> name, data |-> data, pc |-> "start", inode |-> 0, at |-> 0,
   got |-> <<>>, todo |-> {}, infos |-> <<>>, result |-> "none",
   \* history: was is some of "alone", "absent" and "faulted"
   was |-> {}, expect |-> <<>>, seen |-> {}, gone |-> {}]

Idle == Begun("none", "", <<>>)

Init ==
  /\ kind \in {"filesystem", "memory"}
  /\ root = FALSE
  /\ dir = [n \in Names |-> 0]
  /\ file = [i \in Inode |-> <<>>]
  /\ whole = [i \in Inode |-> <<>>]
  /\ op = [c \in Client |-> Idle]

At(c, do, pc) == op[c].do = do /\ op[c].pc = pc

\* The caller keeps the result; what the operation had open is closed.
Done(o, result) ==
  [o EXCEPT !.pc = "done", !.result = result, !.name = "", !.data = <<>>, !.inode = 0, !.at = 0,
            !.todo = {}, !.was = @ \ {"alone"}]

Ends(c, result) == op' = [op EXCEPT ![c] = Done(@, result)]

InUse(d, o) == {d[n] : n \in Names} \cup {o[c].inode : c \in Client}

\* The system forgets a file with neither a name nor anybody who has it open.
Reclaim(contents, history) ==
  /\ file' = [i \in Inode |-> IF i \in InUse(dir', op') THEN contents[i] ELSE <<>>]
  /\ whole' = [i \in Inode |-> IF i \in InUse(dir', op') THEN history[i] ELSE <<>>]

\* validateName comes first in Get, Put and Delete.
Call(c, do, name, data) ==
  /\ op[c].do = "none"
  /\ op' = [op EXCEPT ![c] =
       IF do # "list" /\ name \notin Names
       THEN Done(Begun(do, name, data), "validation")
       ELSE [Begun(do, name, data) EXCEPT
                !.was = IF do = "get" /\ dir[name] = 0 THEN {"absent"} ELSE {}]]
  /\ UNCHANGED <<kind, root, dir, file, whole>>

Return(c) ==
  /\ op[c].do # "none"
  /\ op[c].pc = "done"
  /\ op' = [op EXCEPT ![c] = Idle]
  /\ UNCHANGED <<kind, root, dir, file, whole>>

\* A system call of the operation fails, for another reason than a missing file.
Fault(c) ==
  /\ kind = "filesystem"
  /\ op[c].do # "none"
  /\ op[c].pc # "done"
  /\ op' = [op EXCEPT ![c] = [Done(@, "permanent") EXCEPT !.was = {"faulted"}, !.got = <<>>, !.infos = <<>>,
                                               !.expect = <<>>, !.seen = {}, !.gone = {}]]
  /\ UNCHANGED <<kind, root, dir>>
  /\ Reclaim(file, whole)

-----------------------------------------------------------------------------
(***************************************************************************)
(* Put on files: MkdirAll, then WriteFile: open, write, close.             *)
(***************************************************************************)

FreeInode == CHOOSE i \in Inode : i \notin InUse(dir, op)

(* Mutant of Mkdir: a Put clears the way first. *)
MkdirAndRemove(c) ==
  /\ kind = "filesystem"
  /\ At(c, "put", "start")
  /\ root' = TRUE
  /\ dir' = [dir EXCEPT ![op[c].name] = 0]
  /\ op' = [op EXCEPT ![c].pc = "open"]
  /\ UNCHANGED <<kind, file, whole>>

(* Mutant of Mkdir: the directory is taken to be there. *)
NoMkdir(c) ==
  /\ kind = "filesystem"
  /\ At(c, "put", "start")
  /\ op' = [op EXCEPT ![c].pc = "open"]
  /\ UNCHANGED <<kind, root, dir, file, whole>>

Mkdir(c) ==
  /\ kind = "filesystem"
  /\ At(c, "put", "start")
  /\ root' = TRUE
  /\ op' = [op EXCEPT ![c].pc = "open"]
  /\ UNCHANGED <<kind, dir, file, whole>>

Writers(i) == {c \in Client : op[c].do = "put" /\ op[c].pc = "write" /\ op[c].inode = i}

\* What an opening for writing does to the history of those who have the file open.
Disturb(i, c) ==
  [d \in Client |->
     IF d = c
     THEN [op[c] EXCEPT !.pc = "write", !.inode = i, !.was = IF Writers(i) = {} THEN {"alone"} ELSE {}]
     ELSE IF op[d].inode = i
     THEN [op[d] EXCEPT !.was = @ \ {"alone"}, !.expect = <<>>]
     ELSE op[d]]

(* Mutant of Open: the old contents are kept. *)
OpenInPlace(c) ==
  /\ At(c, "put", "open")
  /\ LET n == op[c].name
         i == IF dir[n] # 0 THEN dir[n] ELSE FreeInode
     IN  /\ dir' = [dir EXCEPT ![n] = i]
         /\ file' = [file EXCEPT ![i] = IF dir[n] # 0 THEN @ ELSE <<>>]
         /\ whole' = [whole EXCEPT ![i] = <<>>]
         /\ op' = Disturb(i, c)
  /\ UNCHANGED <<kind, root>>

\* O_CREATE and O_TRUNC.
Open(c) ==
  /\ At(c, "put", "open")
  /\ LET n == op[c].name
         i == IF dir[n] # 0 THEN dir[n] ELSE FreeInode
     IN  /\ dir' = [dir EXCEPT ![n] = i]
         /\ file' = [file EXCEPT ![i] = <<>>]
         /\ whole' = [whole EXCEPT ![i] = <<>>]
         /\ op' = Disturb(i, c)
  /\ UNCHANGED <<kind, root>>

\* The file with data over it from an offset on; a gap is filled with zeros.
Overlay(old, offset, data) ==
  [k \in 1..(IF Len(old) > offset + Len(data) THEN Len(old) ELSE offset + Len(data)) |->
     IF k \in (offset + 1)..(offset + Len(data)) THEN data[k - offset]
     ELSE IF k <= Len(old) THEN old[k] ELSE 0]

\* One write, of some bytes.  WriteFile goes on until all are written.
Write(c) ==
  /\ At(c, "put", "write")
  /\ LET o == op[c]
     IN  \E n \in 1..(Len(o.data) - o.at) :
           /\ file' = [file EXCEPT ![o.inode] = Overlay(@, o.at, SubSeq(o.data, o.at + 1, o.at + n))]
           /\ op' = [op EXCEPT ![c].at = @ + n]
  /\ UNCHANGED <<kind, root, dir, whole>>

Close(c) ==
  /\ At(c, "put", "write")
  /\ op[c].at = Len(op[c].data)
  /\ Ends(c, "ok")
  /\ UNCHANGED <<kind, root, dir>>
  /\ Reclaim(file, IF "alone" \in op[c].was THEN [whole EXCEPT ![op[c].inode] = <<op[c].data>>] ELSE whole)

-----------------------------------------------------------------------------
(***************************************************************************)
(* Get on files: ReadFile: open, read to the end.                          *)
(***************************************************************************)

OpenToRead(c) ==
  /\ kind = "filesystem"
  /\ At(c, "get", "start")
  /\ LET i == dir[op[c].name]
     IN  IF i = 0 THEN Ends(c, "not_found")
         ELSE op' = [op EXCEPT ![c].pc = "read", ![c].inode = i,
                               ![c].expect = whole[i]]
  /\ UNCHANGED <<kind, root, dir, file, whole>>

Read(c) ==
  /\ At(c, "get", "read")
  /\ LET o == op[c]
     IN  \E n \in 1..(Len(file[o.inode]) - o.at) :
           op' = [op EXCEPT ![c].at = @ + n,
                            ![c].got = @ \o SubSeq(file[o.inode], o.at + 1, o.at + n)]
  /\ UNCHANGED <<kind, root, dir, file, whole>>

EndOfFile(c) ==
  /\ At(c, "get", "read")
  /\ op[c].at >= Len(file[op[c].inode])
  /\ Ends(c, "ok")
  /\ UNCHANGED <<kind, root, dir>>
  /\ Reclaim(file, whole)

-----------------------------------------------------------------------------
(***************************************************************************)
(* Delete, and List on files: ReadDir, then Info entry by entry.           *)
(***************************************************************************)

\* The listings and the readers under way learn, for the history, of a name that went.
Note(n) ==
  [d \in Client |->
     IF At(d, "list", "info") THEN [op[d] EXCEPT !.gone = @ \cup ({n} \cap op[d].seen)]
     ELSE IF At(d, "get", "start") /\ op[d].name = n THEN [op[d] EXCEPT !.was = @ \cup {"absent"}]
     ELSE op[d]]

Unlink(c) ==
  /\ At(c, "delete", "start")
  /\ LET n == op[c].name
     IN  IF dir[n] = 0
         THEN Ends(c, "not_found") /\ UNCHANGED dir
         ELSE /\ dir' = [dir EXCEPT ![n] = 0]
              /\ op' = [Note(n) EXCEPT ![c] = Done(@, "ok")]
  /\ UNCHANGED <<kind, root>>
  /\ Reclaim(file, whole)

Stored == {n \in Names : dir[n] # 0}

Before(m, n) == \E i, j \in DOMAIN Name : i < j /\ Name[i] = m /\ Name[j] = n
First(S) == CHOOSE n \in S : \A m \in S \ {n} : Before(n, m)
InOrder(s) == \A i, j \in DOMAIN s : i < j => Before(s[i], s[j])

\* The whole directory at once, by name; a missing one is empty.
ReadDir(c) ==
  /\ kind = "filesystem"
  /\ At(c, "list", "start")
  /\ op' = [op EXCEPT ![c].pc = "info", ![c].todo = Stored, ![c].seen = Stored]
  /\ UNCHANGED <<kind, root, dir, file, whole>>

(* Mutant of Info: a file that is gone fails the listing. *)
InfoOrFail(c) ==
  /\ At(c, "list", "info")
  /\ op[c].todo # {}
  /\ LET n == First(op[c].todo)
     IN  IF dir[n] = 0 THEN Ends(c, "permanent")
         ELSE op' = [op EXCEPT ![c].todo = @ \ {n}, ![c].infos = Append(@, n)]
  /\ UNCHANGED <<kind, root, dir, file, whole>>

\* A file deleted since ReadDir is passed over.  Sizes and times are left out.
Info(c) ==
  /\ At(c, "list", "info")
  /\ op[c].todo # {}
  /\ LET n == First(op[c].todo)
     IN  op' = [op EXCEPT ![c].todo = @ \ {n},
                          ![c].infos = IF dir[n] = 0 THEN @ ELSE Append(@, n)]
  /\ UNCHANGED <<kind, root, dir, file, whole>>

ListEnds(c) ==
  /\ At(c, "list", "info")
  /\ op[c].todo = {}
  /\ Ends(c, "ok")
  /\ UNCHANGED <<kind, root, dir, file, whole>>

-----------------------------------------------------------------------------
(***************************************************************************)
(* The store in memory: each operation under its lock, the data copied.    *)
(***************************************************************************)

PutInMemory(c) ==
  /\ kind = "memory"
  /\ At(c, "put", "start")
  /\ LET n == op[c].name
         i == IF dir[n] # 0 THEN dir[n] ELSE FreeInode
     IN  /\ dir' = [dir EXCEPT ![n] = i]
         /\ file' = [file EXCEPT ![i] = op[c].data]
         /\ whole' = [whole EXCEPT ![i] = <<op[c].data>>]
  /\ Ends(c, "ok")
  /\ UNCHANGED <<kind, root>>

GetFromMemory(c) ==
  /\ kind = "memory"
  /\ At(c, "get", "start")
  /\ LET i == dir[op[c].name]
     IN  IF i = 0 THEN Ends(c, "not_found")
         ELSE op' = [op EXCEPT ![c] = [Done(@, "ok") EXCEPT !.got = file[i], !.expect = whole[i]]]
  /\ UNCHANGED <<kind, root, dir, file, whole>>

ListMemory(c) ==
  /\ kind = "memory"
  /\ At(c, "list", "start")
  /\ \E names \in [1..Cardinality(Stored) -> Stored] :
       /\ InOrder(names)
       /\ ToSet(names) = Stored
       /\ op' = [op EXCEPT ![c] = [Done(@, "ok") EXCEPT !.infos = names, !.seen = Stored]]
  /\ UNCHANGED <<kind, root, dir, file, whole>>

-----------------------------------------------------------------------------

\* The process ends where it is: the files stay as they are, memory is lost.
Crash ==
  /\ \E c \in Client : op[c].do # "none"
  /\ op' = [c \in Client |-> Idle]
  /\ IF kind = "memory" THEN dir' = [n \in Names |-> 0] ELSE UNCHANGED dir
  /\ UNCHANGED <<kind, root>>
  /\ Reclaim(file, whole)

Step(c) ==
  \/ Mkdir(c) \/ Open(c) \/ Write(c) \/ Close(c)
  \/ OpenToRead(c) \/ Read(c) \/ EndOfFile(c)
  \/ Unlink(c) \/ ReadDir(c) \/ Info(c) \/ ListEnds(c)
  \/ PutInMemory(c) \/ GetFromMemory(c) \/ ListMemory(c)

Next ==
  \/ \E c \in Client :
       \/ \E do \in {"get", "delete"}, n \in Names \cup {BadName} : Call(c, do, n, <<>>)
       \/ \E n \in Names : \E data \in Content[n] : Call(c, "put", n, data)
       \/ Call(c, "put", BadName, <<>>)
       \/ Call(c, "list", "", <<>>)
       \/ Step(c) \/ Fault(c) \/ Return(c)
  \/ Crash

Spec == Init /\ [][Next]_vars

-----------------------------------------------------------------------------
(***************************************************************************)
(* Properties.                                                             *)
(***************************************************************************)

Results == {"none", "ok", "validation", "not_found", "permanent"}

\* Every name leads to an inode of its own, and a file there is in a directory
\* that has been made.
TypeOK ==
  /\ kind \in {"filesystem", "memory"} /\ root \in BOOLEAN
  /\ dir \in [Names -> Inode \cup {0}]
  /\ \A m, n \in Names : dir[m] = dir[n] /\ dir[m] # 0 => m = n
  /\ \A c \in Client : op[c].do # "none" =>
       op[c].do \in {"get", "put", "delete", "list"} /\ op[c].result \in Results
  /\ kind = "filesystem" /\ (\E n \in Names : dir[n] # 0) => root

Finished(c, do, result) ==
  op[c].do = do /\ op[c].pc = "done" /\ op[c].result = result

\* A Get returns exactly the bytes of the Put before it, whatever was stored
\* under the name earlier, longer or cut short by a crash, and whatever is
\* deleted meanwhile; unless, on files, a Put of the name was under way during
\* the Get, or the file's last Put was cut short or overlapped with another.
\* Then a print may get part of a picture, or a mixture of two.
GetSound ==
  \A c \in Client : Finished(c, "get", "ok") =>
    \/ <<op[c].got>> = op[c].expect
    \/ kind = "filesystem" /\ op[c].expect = <<>>

\* Get and a print find an asset that is replaced all along: "not found" is the
\* answer only if there was a moment of the call at which the name was free.
GetFinds == \A c \in Client : Finished(c, "get", "not_found") => "absent" \in op[c].was

\* A listing goes on past files deleted under it, and holds in order every name
\* that was there at its start and still is, and none that was not there.
ListSound ==
  \A c \in Client : op[c].do = "list" /\ op[c].pc = "done" =>
    IF op[c].result = "ok"
    THEN LET names == op[c].infos
         IN  /\ InOrder(names)
             /\ op[c].seen \ op[c].gone \subseteq ToSet(names)
             /\ ToSet(names) \subseteq op[c].seen
    ELSE "faulted" \in op[c].was

=============================================================================
