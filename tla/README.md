# A TLA+ verification of receiptd

receiptd takes print requests over HTTP, stores them as Jobs, renders each one
to ESC/POS bytes and sends them to a network receipt printer.  What it has to
get right is the life of a Job: accepted once, printed once where the hardware
allows it, never lost and never tried for ever, through retries, concurrent
clients, several printers, shutdowns and crashes; and the life of a receipt: what
was accepted comes out of the printer whole, in order and where it was put.  This
directory models both, with the printers and the asset store they depend on,
checks them with TLC on small instances, and proves with TLAPS, for every
instance, what matters most about the queue, the shutdown, the printers, the asset
store and the rendering of a receipt.

Paths below are relative to the repository's root.

## Files

| File | What it is |
|---|---|
| `JobLifecycle.tla` | the abstract promise: what may become of one Job |
| `JobQueue.tla` | the queue in detail: Store, requests, workers, cancellers, daemon |
| `Shutdown.tla` | startup, signals, drain, deadline and exit codes of the daemon |
| `Receipts.tla` | what a client may ask for: decoding, nesting, Validate |
| `Layout.tla` | the arithmetic of layout: wrapping, columns, tables, lists, sizes of pictures |
| `Escpos.tla` | the printer's commands and what Encode decides of them |
| `PrinterConfig.tla` | what Load accepts, and the Profile an entry turns into |
| `Rendering.tla` | one request through validation, Build, Paint and Encode, over the four above |
| `SendContract.tla` | the abstract promise of `Printer.Send` |
| `Printers.tla` | Send and ListPrinters against printers that answer when they like |
| `AssetStore.tla` | both asset stores under concurrent callers |
| `MC*.tla` | instances for TLC, and documented statements the code does not keep |
| `JobQueueProofs.tla` | the inductive invariant of `JobQueue` and the theorems that follow |
| `JobQueueRefinement.tla` | `JobQueue` implements `JobLifecycle`, proved |
| `ShutdownProofs.tla` | the inductive invariant of `Shutdown` and its theorems |
| `PrintersProofs.tla` | the inductive invariants of `Printers`, its theorems, and that Send keeps `SendContract` |
| `DataInduction.tla` | induction on the naturals over sets, and what it says of recursive functions |
| `AssetStoreProofs.tla` | the inductive invariant of `AssetStore` and its theorems |
| `LayoutProofs.tla` | lemmas on the operators of `Layout`, for any text, font and width: what lines they return, which words are on them, how wide they are |
| `RenderingProofs.tla` | the inductive invariant of `Rendering` and its theorems |
| `*.cfg` | one per run, named as the run |
| `PROJECT.json` | components, runs, mutants, map to the source, findings, hazards, theorems |

`Rendering` extends `Escpos` (and so `Layout` and `Receipts`) and
`PrinterConfig`; `Printers` extends `PrinterConfig` and instantiates
`SendContract`; `JobQueue` instantiates `JobLifecycle`.

To run a check: `tlc -config queue_crash.cfg MCJobQueue`, and so on; to check the
proofs: `tlapm JobQueueProofs.tla`.

## Inventory

### Components

| Component | State | Operations | Model |
|---|---|---|---|
| Job store (`internal/queue/store*.go`, `job.go`) | bbolt bucket, or a map under a mutex | Save, Get, List, NextPending, ClaimNextPending, EnqueueIdempotent | `JobQueue`: `jobs` |
| Queue (`internal/queue`) | none of its own; a worker's copy of its Job | Enqueue, EnqueueIdempotent, ProcessNextForPrinter, Reconcile, Cancel, Get, List | `JobQueue` |
| Print service (`internal/app`) | none | Print, Process, Preview, JobStatus, ListPrinters, assets, summary | Print and the control of Process in `JobQueue`, render and Preview in `Rendering`, ListPrinters in `Printers` |
| Network printer (`internal/printer`) | one TCP connection per Send | Send, Status, Profile | `Printers`, `SendContract`; as a Job sees it in `JobQueue` |
| Daemon (`cmd/receiptd`) | goroutines, channels, the workers' context | build, run, shutdownOnSignal, shutdown, runWorker | `Shutdown`; as the Store sees it in `JobQueue` |
| Receipt model (`internal/receipt`) | none | decoding, Validate, EffectiveCopies | `Receipts` |
| Layout (`internal/render/layout`) | none | Build: wrapping, columns, tables, lists, images, codes | `Layout`, and Build itself in `Rendering` |
| Canvas (`internal/render/canvas`) | a bitmap and its controls | Paint, EncodePNG | `Rendering` |
| ESC/POS (`internal/render/escpos`) | none | Encode: raster bands, feeds, cuts | `Escpos`, and the loop in `Rendering` |
| Assets (`internal/assets`) | files in a directory, or a map | Put, Get, Delete, List | `AssetStore` |
| HTTP API, Web UI, authentication (`internal/api`, `internal/webui`, `internal/auth`, `internal/apperr`) | a CSRF key per process | handlers | callers of Print; one documented statement of the job status endpoint; the rest left out |
| Configuration (`internal/config`) | read once | Load, Validate | `PrinterConfig` |
| Client (`cmd/receipt`), browser scripts (`web/static`) | none / the page | requests | one more caller of Print |

### How they interact

An HTTP handler calls `Service.Print`, which validates the receipt and calls
`Queue.Enqueue` or, under a client's idempotency key, `Queue.EnqueueIdempotent`;
it answers with a Job ID and does not wait.  One goroutine per configured
printer loops over `Queue.ProcessNextForPrinter`: claim the lowest pending Job
of that printer, then up to `queue.max_attempts` times call `Service.Process`
(render, encode, one `Send` per copy) and save the outcome, with a growing
backoff between attempts.  At startup `Queue.Reconcile` resolves the Jobs a dead
process left running, before any worker starts.  A signal cancels the workers'
shared context and shuts the server down; a deadline, or a second signal, ends
the process whatever is still under way.  All state that survives is in the
Store; every Store operation is one bbolt transaction, or one section under
`memoryStore.mu`.  Everything between two Store operations interleaves.

Rendering is sequential and shares nothing but the asset store: `layout.Build`
turns a receipt into blocks with offsets, `canvas.Paint` measures and paints
them, `escpos.Encode` cuts the bitmap into bands between its controls.  The three
stages each compute heights of their own and must agree.  Handlers and workers
use the asset store at the same time; on files, its operations are several
system calls.  The printers page starts one goroutine per printer, beside the
workers that send to the same printers.

### What is hard

* Requests read the clock before their transaction, so they may decide with an
  instant older than Jobs already stored.
* Two retries of one request race under one key; a Failed Job is reset in place.
* A worker works on its own copy of a Job and saves it over the Store's later.
* The process may die, or a Save fail, between any two of these steps; the
  attempt that was under way is then known to nobody.
* `Reconcile` itself may fail or be killed halfway.
* The shutdown reaches a Job between check and claim, between copies, in a
  backoff wait, and while a request is still being handled.
* Signals, the drain, its deadline and a failing listener race for the exit code.
* One printer may hang for as long as a dial and a write may take; the others
  must not notice.

* A printer takes bytes in pieces, late, or not at all, and a Send that fails may
  have printed everything.
* `os.WriteFile` truncates first: a reader, another writer, a deletion or a crash
  may come between any two system calls.
* Build reads a picture's header and Paint decodes its pixels; widths are divided
  in whole dots; the wire format has 16 bits for heights and widths.

`hazards` in `PROJECT.json` lists each of these at the line where it bites.

### What makes each component correct

* Store and queue: one worker per Job; the retry budget over all restarts; no
  Job left running by nobody; one Job per key and TTL; a reply that stands.
* Print service: done means that the call which ended the Job sent every copy
  itself.
* Daemon: reconciliation before work; a signal always ends the process; exit
  codes tell the truth; a hung printer delays no other.
* Network printer: a Send reports success only when every byte was taken, in
  order, within its time limits, and leaves no connection behind; a listing holds
  every printer once and takes one timeout, however many hang.
* Assets: a reader gets the bytes of the last Put, except while one is under way
  or after one was cut short.
* Rendering: no word is lost; blocks follow each other without overlap; what is
  sent is the canvas, every row once, and feeds and cuts stand where the receipt
  has them; lines stay within the page where their words allow it.
* Receipts: what Validate accepts is printed or fails for a known cause; nesting
  is bounded.

## Plan

1. `JobLifecycle`, `JobQueue`: the queue and its proofs.  *Done.*
2. `Shutdown`: the daemon's goroutines.  *Done*, with proofs.
3. `SendContract`, `Printers`: Send, Status and the concurrent probes.  *Done.*
4. `AssetStore`.  *Done.*
5. `Receipts`, `Layout`, `Escpos`, `PrinterConfig`, `Rendering`.  *Done.*
6. `PrintersProofs`: the safety of Send, its contract, and the listing.  *Done.*
7. `DataInduction`, `AssetStoreProofs`: the asset store.  *Done.*
8. `LayoutProofs`, `RenderingProofs`: the document, the canvas, the bands and the
   end of every request.  *Done.*
9. In the same modules, what the sequences hold and not only of what kind it is:
   the controls sent, the words of every line, its width, and where its cells
   start.  *Done.*

Every safety and action property that a passing run checks has a theorem.

## The model of the queue

### State

| Variable of `JobQueue` | In the code |
|---|---|
| `jobs[j]` | the record under key `j` of the bbolt bucket, or of `memoryStore.jobs` |
| `daemon` | where `run` is: `reconciling`, `serving`, `draining` (after the first signal), `down` |
| `wpc[p]`, `next[p]` | the program counter of printer `p`'s `runWorker` goroutine, and its local `next *Job` |
| `outcome[p]`, `sent[p]` | locals of the `Process` call: its error so far, and the copies sent |
| `call[c]`, `reply[c]` | the arguments of a `Service.Print` under way, with the instant `time.Now()` gave it, and its answer |
| `cancelling[x]` | the Job between Get and Save of a `Queue.Cancel` |
| `now` | the clock |
| `calls`, `delivered`, `abandoned` | history, read by properties only: calls of Process since a client last asked for the Job; copies its latest call put out; Jobs whose Save failed |
| `requests`, `restarts` | counters that bound the runs |

### Actions

Each is a critical section of the code, with everything the handler changes in
it: `RequestArrive` (the clock is read), `Enqueue`, `EnqueueIdempotent` (the
whole transaction: find by key and TTL, compare, create, reset a Failed Job, or
reject), `RequestFails`; for a worker `WorkerCheck` (the context), `WorkerClaim`
(the claiming transaction), `WorkerIdle`, `BeginAttempt` (attempts counted on
the copy; render and encode), `Dial`, `Write` (per copy), `SaveOutcome`,
`SaveFails`, `Backoff`; `CancelGet`, `CancelSave`; for the daemon
`ReconcileJob` (one Job, one Save), `StartWorkers`, `Signal`, `Drained`,
`Deadline`, `Crash`, `ReconcileFails`, `Restart`; and `Tick`.

The two stores differ in two places: which of several matches a key finds (the
lowest ID in bbolt's cursor, any in the map), and what a restart finds (the
constant `Store`).

### Abstractions

* A receipt is a model value with its number of copies.  Storing one goes
  through JSON; for receipts that passed `Validate` encoding and decoding give
  back an equal receipt (each element's discriminated encoding is read by the
  decoder registered under the same name, omitted fields are zero, slices that
  are empty do not pass validation), so a stored receipt is the receipt.
* Error texts are reduced to the kind the retry loop branches on.  `canceled`
  is the transient error of a dial whose context was cancelled; only
  `doc_shutdown_spares_process` and `LastError` tell it from `transient`.
* `UpdatedAt` is left out: nothing reads it.  `ProcessNext`, which selects and
  saves in two transactions, has no caller outside tests.  `Get` and `List`
  change nothing.
* A failed write counts as no copy.  `Printers` has the bytes, and
  `SendContract` is what the two modules share: `JobQueue`'s `Dial` and `Write`
  are its `Connect`, `Succeed` and `Fail`.
* IDs are random: `Create` takes any unused one.  `Queue.Cancel` has no caller
  outside tests either; it is modelled since it is part of the Store's contract,
  and the properties that need its absence say so.
* The clock never goes back.  It need not: a stored `CreatedAt` has lost its
  monotonic part, so a wall clock set back looks like a request that read the
  clock early, and those are modelled (`call.at` may lie before Jobs that exist).

## The model of the shutdown

`Shutdown` has a variable per goroutine (`run`, `stop` for `d.shutdown`, `closer`
for the call of `srv.Shutdown`, `worker[p]`), per channel (`sigCh`, a buffer of
two), for the two contexts (`cancelled`, `ctx`), for the listener (`server`) and
for the connections.  The `done` and `drained` channels carry nothing a state
does not already hold: `stop` and `Drained`.  A select takes any case that is
ready.  `http.Server` is external, modelled by how it is used: Shutdown closes
the listener, then waits until no connection is in use or the context is done;
a connection accepted earlier may still turn into a request.

It spells out the steps `JobQueue` takes for granted.  `JobQueue`'s `Signal` is
`RunSelect` with `ShutdownBegins`; `Drained` there is `DrainSelect` after
`Drained` here; `Deadline` and `Crash` there are the exits with 1 and `killed`.
The correspondence is by name and argument only; it is not checked.

## The model of rendering

`Rendering` is one request at a time.  `stage` is where it is; `profile`, `mode`
(`print`, `preview`, or `render` for the offline command with its zero profile)
and `receipt` are the request; `y` and `blocks` are Build's, `width`, `height`,
`ink` and `controls` Paint's, `pos` and `out` Encode's; `i` is the index of the
loop under way.

| Action | Code |
|---|---|
| `Configure` | `config.Load` accepts the file with the printer's entry, or the daemon does not start |
| `Submit` | `Receipt.UnmarshalJSON` and `Receipt.Validate`, before anything else |
| `BuildText` ... `BuildControl` | one case each of Build's type switch: lines or a picture stacked at `y` |
| `BuildAsset`, `AssetFails` | `assets.Store.Get`, whatever it answers |
| `MeasureBlock` | one turn of Paint's first loop: a picture decodes or not, the canvas grows |
| `PaintBlock` | one turn of the second: the rectangles a block asks for, or a control |
| `BeginEncode`, `EncodeBand`, `EncodeControl`, `EndEncode` | Encode's guards, one raster command, one control, the automatic cut |
| `EncodePNG` | the other end of a preview and of `receipt render` |
| `Finish` | the caller has the result |

The loops are actions, so that an error leaves what the earlier turns made, and
so that `RequestEnds` can say that each turn leaves less to do.

Text is paragraphs of words, a word its length, a rune at least: the font has one
advance for every rune, so no decision of layout sees more.  The empty string,
which Validate refuses, has no paragraph (`NoText`); a text of spaces, which it
accepts, has one without words, and so has the empty cell of a table.  A run of spaces inside a
paragraph is one space; `strings.Fields` makes it so, and where it does not run
(no page width) the texts modelled are those with single spaces.  A line keeps which words
it holds and at which rune each run of them starts, so that properties can say
that words are kept and cells line up.  A picture is the size in its header, the
size of its first frame, its format and whether its pixels decode: what the image
package answers, and all that sizes depend on.  A code is its number of modules
and whether the encoder takes its content.  Ink is the rectangles a block may set
dots in; which dots, and what `style.go` does to a glyph, no control depends on.
A raster command keeps the rows whose bytes follow it beside the two fields on
the wire.

What the constants are assumed to be:

* `RequestsAssumption`: a receipt that was decoded has what the Go types of its
  fields give it (`Typed`: paragraphs of words that are not empty, as
  `strings.Fields` returns them, rows of cells, weights that are integers).  Nothing is assumed of its length, nesting or contents.
* `AssetsAssumption`: the sizes of a stored picture are natural numbers.  Zero is
  one of them: Go's PNG and JPEG decoders accept no picture without a column, its
  GIF decoder does, and `targetImageSize` divides by the width.  `Panics` says
  when; the request then fails for good, as the queue's worker and `net/http`
  recover.
* `EntriesAssumption`: the numbers of an accepted profile are integers.
* `FontAssumption`: a rune is a dot wide at least, a line two rows high, one for
  its text and one for what is drawn through or under it.  The one font of the
  code has 14 and 26.

## The model of the printers

`Printers` has, for each printer's worker, where its Send is (`spc`), what it has
left to write (`data`), what has `arrived`, whether the connection is `open`, and
two clocks: `waited` since the timer in force began and `spent` since the call;
and one listing with its slots, goroutines (`ppc`) and clocks.  The printer's own
moves (`DialAnswered`, `DialRefused`, `Write`, `WriteFails`, `ProbeAnswered`,
`ProbeRefused`) come whenever they like or never.  `Write` takes any part of the
bytes; none and no error is `io.ErrShortWrite`.  `DialGivesUp` is the dialer's
timer or the workers' context, `WriteTimesOut` the one deadline for the loop.
`Tick` is a unit of time, and only passes when nothing of the daemon can run: a
timer that is due fires first, or the printer answers in the same instant.  The
code's own steps take no time.

`Start` is `Load` and `buildPrinters`: a file with a name twice is refused, which
`ListingTrue` needs.  `sort.Slice` is a permutation of the slots in which none
comes before an earlier one: any such order, as the sort is not stable.  What a listing calls online is a printer that took a
connection during it.

## The model of the asset store

An operation is a record in `op` with its program counter and its locals.  On
files `dir` maps names to inodes and an open file keeps its inode, as POSIX has
it; `os.WriteFile` is `Open` (create and truncate), `Write`s at the writer's own
offset, `Close`; `os.ReadFile` is `OpenToRead`, `Read`s, `EndOfFile`; `os.ReadDir`
is one step, and `Info` one per entry, which `todo` holds and `First` takes in the
directory's order.  An entry of a listing is its name; sizes and times are left
out.  `Fault` lets any of them fail, `Crash`
ends the process between any two.  In memory every operation is one step under
the mutex; the map is ranged over in any order and sorted, so that a listing is
the stored names `InOrder`.  Names that `validateName` refuses are one value,
`BadName`.

The properties read history in the operation's record: `expect` is what a Get
that began now has to return, empty once a Put of that file is under way or was
cut short.

## Runs

| Run | Question | Properties |
|---|---|---|
| `queue_crash` | does anything go wrong when the process or a Save may fail anywhere? | `TypeOK`, `RetryBudget`, `AttemptsDurable`, `NoLimbo`, `DoneMeansDelivered`, `ReplyStands`, `ImplementsLifecycle` |
| `queue_keys` | do racing requests with stale clocks keep idempotency? | `KeySpacing`, `ReplyStands` |
| `queue_workers` | do workers, cancellers and an unknown printer's Jobs stay apart, with the in-memory store? | `OneWorkerPerJob`, `NoLimbo`, `Inv` |
| `queue_liveness` | does every Job of a healthy printer end while another one hangs? | `HealthyJobsEnd` |
| `shutdown` | do exit codes tell the truth, and does a signal end the process? | `TypeOK`, `CleanExit`, `ForcedForCause`, `Inv`, `SignalEnds` |
| `rendering` | is what was accepted printed whole, in order and in its place? | `TypeOK`, `BlocksMeet`, `InkApart`, `RowsOnce`, `FieldsExact`, `ControlsInPlace`, `FailsForCause`, `WordsKept`, `LinesFit`, `CellsLineUp`, `RequestEnds` |
| `printers` | does a call keep its promise against a printer that answers as it likes? | `TypeOK`, `SentWhole`, `NothingLeftOpen`, `InTime`, `ListingTrue`, `CallsEnd`, `KeepsContract` |
| `assets` | what does a reader get beside writers, deletions and crashes? | `TypeOK`, `GetSound`, `GetFinds`, `ListSound` |
| `doc_failed_never_printed` | ADR-0020: a Failed Job never printed anything | violated |
| `doc_shutdown_spares_process` | ADR-0018: a Process call under way is not cancelled | violated |
| `doc_done_reports_no_error` | `job_status.go`: only a failed Job reports an error | violated |
| `doc_first_frame_fits` | `image.go`: a GIF's header has its first frame's dimensions | violated |

`NoLimbo` appears in two runs because the two differ in the store, the number of
printers and the presence of cancellers (`Inv` has what `RetryBudget` rests on);
`ReplyStands`, because `queue_keys` has the races and the clock, and
`queue_crash` the shutdowns and crashes after a reply.

What the new properties say of the code, in its own terms:

* `BlocksMeet`, `InkApart`: Build's advance and Paint's height of a block are the
  same number, computed twice, for every element and every picture whose header
  and frame agree; so nothing is painted over anything else or clipped below.
* `WordsKept`, `LinesFit`, `CellsLineUp`: wrapping and composing lose, repeat and
  reorder no word; a line is too wide only because of one word that is; cells
  stand under each other as long as their words fit their columns.
* `RowsOnce`, `ControlsInPlace`, `FieldsExact`: the bands between the controls
  are the canvas, every row once and in order; feeds and cuts come out as the
  receipt has them, and a printer with a cutter cuts once at the end; the
  two-byte fields count what follows them, with the exceptions below.
* `FailsForCause`: after Validate, a request fails only for an asset, for
  something other than text in a column, for pixels that do not decode or are
  none, or for a page without a dot.
* `RequestEnds`: no loop of the pipeline goes round for ever.  It is an action
  property with a variant and needs no fairness.
* `SentWhole`, `KeepsContract`: nil from Send means the receipt's bytes, all and
  in order; an error means any part of them, the whole included, so that a retry
  may print twice (the code promises at least once).
* `InTime`, `CallsEnd`: one dial and one write timeout bound a Send, one Status
  timeout a listing.
* `GetSound`, `GetFinds`, `ListSound`: as above, and an asset that is replaced
  all the time is never "not found".

Deadlock is checked in the other runs.  It is not in `shutdown`, where the
process stops for good when it has exited.

### Bounds

* Two Jobs (three in `queue_keys`): enough for a Job that waits behind another,
  two workers with a Job each, and a third Job under a key after the first
  expired.  There must be as many IDs as requests: the code never runs out.
* Two clients where requests race: any violation of `KeySpacing` or
  `ReplyStands` is between two requests.
* Two attempts (one in `queue_keys`): an attempt that leaves budget, and one that
  does not.
* One receipt of one copy and one of two: a copy run that fails in the middle
  (both of one in `queue_keys`, as no key depends on copies).
* Two restarts in `queue_crash` and `queue_liveness`: a crash of a process that
  reconciled after a crash, the case in which attempts add up over restarts.
* `TTL` 1 and a clock up to 2: before, at and after the end of a key's life.
  The other runs stop the clock, as nothing but a key's life depends on it.
* Two printers, two connections and three signals for the shutdown: a third
  signal is one more than any code path consumes.

* Rendering: four profiles are accepted (the catalogue's model without a band
  limit, a narrow one of seven runes with a limit of 1000 rows, one without a
  cutter and a limit of 40000) and seven refused; every element type with its
  cases, alone and in pairs, three in a row where controls are involved, and one
  rejected element for each check of each Validate.  The lengths are chosen
  around the widths: words that fit a column, fill it and exceed it, more columns
  than dots, a picture that scales to no row, one of more than 65535 rows, a
  frame smaller than its screen, a screen and a frame without a column.  Nesting is checked at its limit and above it.
* Printers: two printers, three bytes (a first, a middle and a last piece), two
  ticks of `networkTimeout` and one of `printerStatusTimeout`, their order in
  the code.  One worker sends beside the listing; workers share nothing.
* Assets: two clients and two names; under one a content of two bytes or of one,
  under the other an empty one.  Races on a file are between two operations; two
  bytes are enough for a write or a read to be interrupted, one byte over two for
  a tail to be left.  The second name is there for listings and deletions, which
  do not read contents.  The proofs lift every one of these bounds.

### Fairness

`queue_liveness` assumes, of the scheduling and nothing else: the worker of p1
takes steps (goroutines run; a dial and a write end, as both are bounded by
`networkTimeout`; the backoff timer fires), requests under way are handled, and
the daemon goes on (reconciliation, the drain or its deadline, and a supervisor
that restarts it: ADR-0017 and ADR-0018 take systemd or Docker for granted).  It does not assume that
a dial or write succeeds, that p2's worker ever moves, or that requests, signals
or crashes come.  Requests are bounded: under an endless stream of lower random
IDs a Job may be overtaken for ever, and nothing in the code prevents it.

`shutdown` assumes that `run` and `d.shutdown` run and that the deadline fires;
nothing of workers, connections or the goroutine that calls `srv.Shutdown`.

`printers` assumes that every goroutine that can run does (weak fairness of each
worker's own steps and of the listing's), and that time passes (strong fairness
of `Tick`, as it is disabled whenever a worker has a step to take).  It assumes
nothing of the printers.  `rendering` and `assets` have no liveness property:
rendering is sequential, and `RequestEnds` shows that it ends; an operation of the
store is a bounded number of system calls.

## Proofs

All of them hold for any printers, clients, cancellers, Jobs, keys, copies,
attempts, TTL and bounds that satisfy the assumptions in the modules: IDs are
numbers, copies and attempts are positive, a Store is one of two.

**The queue** (`JobQueueProofs`).  None of the properties is inductive alone: a
worker saves its copy over the Store's record, so any statement about the record
needs one about the copies.

* `Grounded` is `TypeOK /\ Phases /\ CopiesAgree`: nobody works while no process
  serves, a worker has a copy exactly while it works, and copies differ from
  the stored record in state, attempts and error only.  A worker's Job is
  stored `running`, or `cancelled` by a late `CancelSave`.  It is proved
  inductive first (`CopiesCorrect`), and the rest assumes it.
* `OneWorkerPerJob` follows with it: a claim needs a pending record, and a
  worker's is not.
* `RetryBudget` rests on `AttemptsDurable`: the attempts in the Store lag the
  calls made by at most one, the one under way, and `Reconcile` charges it.
  Wherever a call may follow there is budget left.  This is where a failed Save,
  a crash before it and a shutdown in a backoff wait have to agree
  (`BudgetInvariant`, then `BudgetKept`).
* `NoLimbo`: reconciliation leaves no running Job, a claim makes one with its
  worker, and `SaveOutcome` and `SaveFails` are the ways out.
* `KeySpacing`: a Job is created only if every Job of its key is older than the
  instant the request read by more than the TTL; a stale clock makes that
  stricter.
* `ReplyStands`: the Store never changes what a Job was asked for.
* `DoneMeansDelivered` rests on `SentIsDelivered`: the copies a call counts are
  the ones it put on paper itself, none of an earlier call's; it goes on only
  while one is left and returns nil only when none is.  The two are `Delivery`,
  which is inductive on top of `Grounded` (`DeliveryInvariant`).
* `Inv`, which the run `queue_workers` checks, is the conjunction of these parts
  (`InvHolds`), and `AttemptsDurable` is one of them (`AttemptsSurvive`).

**Refinement** (`JobQueueRefinement`).  With the durable store and nobody
cancelling, `Spec => ImplementsLifecycle`.  The mapping takes a Job's status from
the Store and its tries from `calls`.  It needs one more invariant, `Lived`: an
ID that was never stored has no tries, a Job between its first attempt's start
and its Save has one, and no Job is cancelled.  Without the assumption on cancellers the theorem is false, as
a late `CancelSave` over a claimed Job shows.

**The shutdown** (`ShutdownProofs`).  `Stages` says how far each goroutine can
be given the others, `Seen` what each has seen before it went on; their
conjunction `Inv` is inductive with `TypeOK` (`SafeAlways`, and `TypeCorrect` and
`StagesKept` from it), and `CleanExit` and `ForcedForCause` follow.

**The printers** (`PrintersProofs`), for any names, configurations, sizes of a
receipt and timeouts that are positive, if the names of every accepted
configuration are ones `Name` orders.

* `IInv` is about calls and clocks.  `InTime` is not inductive: `SendClocks` adds
  how far the clock of a call may be ahead of the timer in force, which is not at
  all while it dials and by one dial while it writes, and `ListClocks` that all
  goroutines of a listing that still wait have waited as long as the listing.  A
  tick then needs that no timer in force is due.  `TypeKept`, `NothingLeftOpenKept`
  and `InTimeKept` follow.
* `DataInv` says that what has arrived and what is left make the receipt while
  Send writes; it rests on `Moved`, about cutting a sequence in two, and gives
  `SentWholeKept`.
* `ListingInv` is about the listing: the accepted configuration is what the maps
  hold (`Serves`), `entries` are the printers' names once each (`Slotted`), and a
  slot whose goroutine is done has its own printer's line, while a printer whose
  goroutine is not done has not answered.  At the return the slots are permuted: an injection of a finite
  set into itself is onto (`SortKeeps`), so no line is lost, and names that differ
  have different places, so that the order is strict.  `ListingTrueKept` follows.
* With `IInv` and `DataInv`, every step of `Printers` is one of `SendContract` or
  a stutter (`KeepsContractHolds`): a Write that takes bytes is `Put`, one that
  takes none or returns an error is `Fail`, setting a deadline is not seen.

**The asset store** (`AssetStoreProofs`), for any names, any contents, any finite
number of callers, and both stores.  `IInv` (`StoreInvariant`) has a global part
and one for each operation under way:

* `Types` and `Control` say what the place an operation has got to means for the
  rest of its record: it has an inode open exactly while it reads or writes.
  They are proved first.
* `Links`: no two names have one inode.  A new file needs an inode that nobody
  uses; `FreeInodeFree` counts that there is one, as the caller itself has none.
* `Wholeness`: an inode whose last Put was alone holds that Put's bytes and has no
  writer.  In `Filling`, such a Put has written exactly what it has got to; a
  second one that opens the file takes `alone` from both, which is why the two
  can be interrupted anywhere.
* `Reading`: a Get that nobody has disturbed has read what it has got to of what it
  expects.  Whoever opens the file to write clears the expectation, whoever
  deletes it does not, as the reader keeps its inode.
* `Looking` and `Listing`: a Get that is about to look finds the name or it was free
  at some time; a listing has gone through its names in order, and holds or has
  still to ask for each one that was there and was not deleted.

`GetSound`, `GetFinds`, `ListSound` and `TypeOK` follow.  For each action there is
a lemma that its own operation keeps its part, and `Untouched` serves all others.

**Rendering** (`LayoutProofs`, `RenderingProofs`), for any receipts of any length,
any profiles, pictures and fonts that satisfy the assumptions above.

* `DataInduction` gives induction over a set of naturals from the fact that `<` is
  well-founded.  With it a recursive function has the type its steps keep
  (`RecursionTyped`).  Sums and concatenations unfold by it one element at a time
  (`SumUnfolds`, `FlattenUnfolds`, `FlattenAppend`, `FlattenConcat`), and so do
  wrapped paragraphs (`ParagraphUnfolds`) and composed rows (`CellsUnfold`).
* `LayoutProofs` says that each operator of `Layout` returns lines, or a picture of
  natural size, for every input of its type, and that Build's height of a picture
  is Paint's if the frame has its header's size (`PicturesMeasured`).
* `Builds` sums up the cases of Build: each either piles blocks from `y` down, each
  where the one before ends, or gives up for a cause that `FailsForCause` names.
  `Moves` does so for the whole of `Next`, and the proofs of the parts below split
  on its cases only.
* `Inv` (`InvHolds`) is `Grounded`, what each variable holds at each stage; `Piled`,
  the offsets go down the page and meet; `Measured`, the canvas reaches below each
  block that was measured; `Inked`, a block's dots are on its own rows;
  `Controlled`, the controls go down the page too, above the blocks still to
  paint; `Wired`, what was sent is a strip of bands without gap or overlap down
  to `pos`, and no control left to send is above `pos`.  The last is what makes
  `RowsOnce` inductive: a control above `pos` would move `pos` back.  `Handed`
  says that each stage hands on what the one before gave it: the controls are what
  the blocks painted so far ask for, and the feeds and cuts on the wire, each below
  its number of rows, are what the controls encoded so far ask for.
* `TypeOK`, `BlocksMeet`, `InkApart`, `RowsOnce` and `FieldsExact` follow from it.
  `FailsForCause` is inductive beside it.  `RequestEnds` follows as each turn of a
  loop either moves `i` on or, in `EncodeBand`, `pos`, by a row at least: a band
  limit of 0 means none, never bands of no row.
* `ControlsInPlace` (`ControlsStayInPlace`) is read off `Handed` at the end of
  Encode.  A band adds rows and no mark, a control one mark below all the rows
  sent (`MarksAppended`), and `Wired` has those rows reach just to the control.
* `WordsKept` (`WordsAreKept`): a word placed on a line, or on a new one, is the
  next the lines say, hence a paragraph says its words, a text its paragraphs, and
  a column of composed rows, cell by cell, its cells, with blank cells below
  one that ran out of lines.  The lemmas read a list of lines through a function
  from a line to its words (`Gathered`), so that one lemma serves texts, lists,
  tables and columns.
* `LinesFit` (`LinesStayOnPage`): a word is only added to a line that stays within
  the width (`PlacedFits`).  In a table or columns each width is the column's
  share rounded down, and the last takes the remainder, so that widths and gaps
  sum to the page exactly (`ColumnWidthsFit`) and no width is below what the
  longest word needs; the lines of a cell then fit its column (`Snug`), and a
  padded row is no wider than the page (`RowStands`).
* `CellsLineUp` (`CellsStandInLine`): as no cell is wider than its column, padding
  alone decides where the next one starts, at `Before`, which does not depend on
  the row.

**Only model-checked**: the liveness properties `HealthyJobsEnd`, `SignalEnds`
and `CallsEnd`.  They need fairness and ENABLED, which are out of tlapm's reach.
All other properties of the passing runs are proved.

## Findings

Four places where a document or comment and the code disagree; each is the
counterexample of a run and is quoted in `PROJECT.json`.

1. A Failed Job may have printed: with two copies, the first comes out and the
   second fails.  ADR-0020 justifies reprinting a Failed Job under its key with
   the opposite.
2. A shutdown does reach a Process call under way: between two copies, the next
   dial sees the cancelled context, and the attempt fails.  ADR-0018 says that
   such a call is not cancelled.
3. A Job interrupted once and then printed is done but keeps its LastError, and
   the job status endpoint then reports a failure for it.
4. A GIF whose first frame is smaller than its logical screen is measured by its
   screen and painted by its frame: a comment of `image.go` says the two are one.
   The next block is painted over the picture (a wide screen is scaled down, its
   small frame is not) or leaves a gap under it.

Three more that the models show as exceptions in a property instead of runs of
their own:

* `shutdown.go` (lines 69-70 and 105-107) says that exit code 0 is a clean drain.
  `d.shutdown` drops the error of `srv.Shutdown`: when the deadline cuts a request
  off and the workers are done, both of its channels are ready, and it may take
  the drained one.  `CleanExit` excepts connections once the deadline has passed.
* `table.go` (lines 55-57) says that a composed row never exceeds the printable
  width.  A word wider than its cell moves the cells after it, and the row may
  leave the page.  `LinesFit` and `CellsLineUp` ask for cells whose words fit.
* `columns.go` (lines 74-76) says that a narrow profile "still constrains".  Where
  the gaps take the whole page, `columnWidths` gives a column of little weight 0
  dots, and `wrapText` takes 0 for "no width": that column is not wrapped at all.
  `LinesFit` asks for a dot per column at least (`Roomy`).

Other differences that the reading turned up, some accepted by a document, some
in code that nothing calls:

* An interrupted backoff wait is charged as an attempt although none was made;
  ADR-0017 accepts that.
* `Queue.Cancel` reads and writes in two transactions, so a Job claimed or even
  printed in between becomes cancelled, against its comment that pending to
  cancelled is the only cancellation.  Nothing calls Cancel yet.
* A receipt of feeds, cuts or empty spacers only, a picture scaled to no row, and
  anything but text in a column pass Validate and then always fail when printed.
* The catalogue's only model has no band limit, so a page of 65536 rows or more
  goes out in one raster command whose height field has lost its high bits.
* `supports_partial_cut` decides nothing.
* A Get on files beside a Put of the same name returns part of a picture or a
  mixture, and a crash leaves a truncated file that later Gets return.

## Not modelled

* Which dots a glyph, a style, a scaled picture or a code sets, and PNG bytes:
  nothing decides on them.
* JSON and YAML syntax, and the JSON the server writes: a conversion between a
  text and the records the models start from.
* Page templates, forms and the builder's and dashboard's scripts (presentation);
  the handlers behind them are calls of Print, Preview and the asset store, which
  are modelled.  Authentication and CSRF are stateless comparisons in front of
  them.
* The command line client: one more sequential caller.  Its offline `render` is a
  mode of `Rendering`.
* Configuration: the sections that only carry values.  `max_attempts` is taken to
  be the same at every start.
* Preview for a printer name that is not configured, which fails before
  rendering; an `assets.Store` that is nil, which no caller passes.
* Logging.
