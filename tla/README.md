# A TLA+ model of imgFS

imgFS is an image store in one file, with a library (`do_create`, `do_open`,
`do_insert`, `do_read`, `do_delete`, `do_list`), a command line and a
multi-threaded HTTP server. This directory holds specifications of its parts,
TLC configurations that check them on small instances, and theorems about them
that TLAPS checks for every value of the constants. Paths below are relative to
`src/done/` unless they say otherwise. `src/grading/` and `src/provided/` hold
earlier copies of the same program, the handouts and test data.

## 1. The system

| Part | State | Operations | Interacts with |
| --- | --- | --- | --- |
| imgFS store: `imgfs_tools.c`, `imgfs_insert.c`, `imgfs_delete.c`, `imgfs_read.c`, `image_content.c`, `image_dedup.c`, `imgfs_list.c` | `struct imgfs_file`: a `FILE*`, a copy of the header (version, nb_files, max_files), a copy of the metadata table; the file | open, close, insert, delete, read (which may resize), list | stdio; vips; SHA-256 |
| creation: `imgfs_create.c` | the file | create | stdio |
| HTTP connection: `http_net.c`, `http_prot.c` | receive buffer, bytes in it, content length, extended or not | receive, parse, call back, reset | sockets; the service, by callback |
| server process: `imgfs_server.c`, `imgfs_server_service.c` | `fs_file`, the mutex `mut`, detached threads, signal handlers | start-up, accept, the four calls, shutdown | the store under `mut`; the connection |
| request variables and dispatch: `http_get_var`, `http_match_*`, `handle_http_message` | none | string functions | the service |
| command line: `imgfscmd.c`, `imgfscmd_functions.c` | one `imgfs_file` per command | create, list, insert, read, delete, help | the store |
| socket layer: `socket_layer.c` | a socket | init, accept, read, send | kernel |
| utilities: `util.c`, `error.c` | none | conversions of digits, messages | all |

What is hard here:

* **Three copies of the store.** Memory, the stdio buffer and the kernel's file
  change at different moments. A call writes the header and one entry in two
  flushes, the last of which is only forced by the *next* call; a crash, or a
  flush that fails, falls between them.
* **Slots are reused and names compared in slots that are not valid.** A lookup
  stops at the first entry with the name, valid or not, so which entries a
  sequence of deletions and refused insertions leaves behind matters.
* **De-duplication** shares offsets between entries that are deleted, refilled
  and resized independently.
* **The counters are not derived from the entries**, yet decide what is refused.
* **The stream of a connection** arrives in any pieces, and one message's end
  decides where the next begins.
* **Threads and signals.** Detached workers share one `imgfs_file` under one
  mutex, and the handler that closes it runs on top of `main()`, or of a thread
  that has not blocked the signals yet, with no wait for the workers and no mask
  for the other signal.
* **Results nobody looks at**: the `fseek` calls of `do_delete`, `fclose`, `calloc`,
  `pthread_mutex_lock`; and numbers taken as they come, a `Content-Length` below 0
  among them.

What makes each part correct:

* store: a crash at any point leaves a file that is a database of images which
  lacks at most the last change; no two valid entries share a name; an entry
  never points at contents that are not there; equal images are stored once;
  counters stay in range and drift by at most one per crash and two per failed flush;
* connection: the buffer is overrun by no length but one below 0, a message is handed
  over when all but five bytes of it are there, requests are answered, and a connection
  is closed only for a reason;
* server: the store is called one call at a time, every client gets its own
  answer, the store is closed between calls, a signal ends the process;
* requests: a call of the store does what the URI asks for, an answer is true of
  the store, and no request ends the server but those that are known to;
* commands: an exit status of 0 means it was done, a failure leaves the files alone,
  nothing is removed that nobody asked to remove;
* several processes: an entry points inside the file, and as long as nobody changes
  the file from a stale copy it is what one process would leave.

`PROJECT.json` lists the hazards, each at its line, with the properties meant
to catch it.

## 2. Modules

    ImageDatabase   what the store promises (abstract)
      implemented by  Imgfs          proofs: ImgfsProofs, ImgfsCountsProofs,
                                             ImgfsDatabaseProofs
      used by         ImgfsServer    proofs: ImgfsServerProofs
                      HttpRequest    proofs: HttpRequestProofs
                      ImgfsCmd       proofs: ImgfsCmdProofs
    Imgfs           the store, flush by flush
      used by         ImgfsShared    one instance for each process;
                                     proofs: ImgfsSharedProofs
                      ImgfsTests     the repository's unit tests
    HttpConnection  the receive loop proofs: HttpConnectionProofs

    MCImgfs, MCImgfsShared, MCImgfsServer, MCHttpConnection, MCHttpRequest and
    MCImgfsCmd give the constants their values for TLC.

The server, the requests and the commands are not composed with the store step by
step: `Imgfs` is proved to implement `ImageDatabase` as long as it is called one call
at a time and no write fails, `ImgfsServer` is shown to call it so (`CallsOneAtATime`), and
`HttpRequest` and `ImgfsCmd` rely on `ImageDatabase`. Together they say what a client
or a user may rely on, at a cost TLC can pay.

### ImageDatabase

A set `db` of pairs (identifier, image), the set `durable` that a crash would
leave, and the call in progress. `Insert` and `Delete` change `db` in one step
and make the change before them durable; `Crash` sets `db` back to `durable` (or
finds the buffer was just being written). A call may be refused more often than
one would like, because the code does refuse them (section 6), but an answer is
always true of `db`.

### Imgfs

One variable for each copy of the store: `header` and `metadata` (memory),
`stream` (the file as the `FILE` shows it) and `disk` (the file as the kernel has
it). `call`, `slot` and `pc` are the frame of the running C function: its
arguments and result, its loop variable and where it is. An action goes from one
flush to the next, because a crash cannot tell apart states between two flushes.

| Code | Actions |
| --- | --- |
| `do_open`, `do_close` | `Open`, `Close` |
| `do_insert` to its first flush: mode, room, free slot, `get_resolution`, de-duplication | `InsertRefused`, `InsertRejected`, `InsertCopy`, `InsertNew` |
| `do_insert`: `fseek(0, SEEK_SET)` and the header; `fseek` to the entry and the entry, or `decr_header` | `InsertHeader`, `InsertEntry` |
| `do_delete`: search, header; entry | `DeleteRefused`, `DeleteHeader`; `DeleteEntry` |
| `do_read`: search, fetch | `ReadRefused`, `ReadStored`, `ReadFetch` |
| `lazily_resize` called from `do_read`: contents; header and first entry | `ReadResize`, `ResizeHeader` |
| `do_list` | `List` |
| the caller takes the result; the process dies | `Return`; `Crash` |
| `do_create` | `Init`, and `Create` in the place of a damaged file |

A flush that fails keeps the file as it was, or with a prefix of what was buffered:
the header without the entry, or a torn blob (`DropBuffer`). A blob may also fail to be
written after its `fseek` succeeded, because a large `fwrite` goes to the file at once
(`AppendFails`). `Crash` may lose the buffer, write a prefix of it, or write all of it,
which is what `exit()` does.

`do_delete` does not look at its two `fseek`: when the flush in one fails, it writes the
header or the entry where the `FILE` happens to be, and goes on. Where that is depends on
the C library, so the model says only that the file is no longer `intact` (`Misplace`):
memory goes on as before, reads of such a file may get anything, and nothing is claimed of
what it holds; it is not opened again until `Create` has replaced it. A write that by
luck hits its own place counts as misplaced as well.

Abstractions: an image is its own digest (SHA-256 has no collisions); an offset
is the index of a blob; sizes are left out, as `size[r]` is 0 exactly when
`offset[r]` is; an entry is never torn (it is shorter than a block); vips decodes
`Images` and refuses `NonImages`; `max_files` is at least 1 (a store of no slots, which
`create` may leave, is in `ImgfsCmd`).

### HttpConnection

`handle_connection` and `http_parse_message` over lengths: the bytes on the
`wire`, the bytes in `rcvbuf` (`r_total`), `content_length`, `extended`, and the
`stale` bytes an earlier message left to be read before this one. `Receive` is one
`recv` of any length with the parse and the decisions that follow, `Callback` the
callback and the reset. The length a head announces is what `atoi` makes of it: that of
the body, or any number below 0. `Window` is the `size_t` difference `recv` is given
(`Size` wraps it), so a length below 0 may let it write past `rcvbuf`: `Overrun`, after
which nothing more is said. What the stale bytes hold (`staleHas`) is chosen when they
are left behind, because it decides how `strstr` and the tokens of the start line
take them. `Send` and `HangUp` are the client, which waits for each answer before
it sends the next request.

### ImgfsServer

`Accept` and `AcceptFails` are `main()` in `http_receive()`; `Mask` is the
`pthread_sigmask` a new thread begins with, `Request` to `Reply` a
worker's way through `handle_X_call()`, with the mutex taken and released and the
call of the store in between; `Signal` and the `Handler...` actions are
`signal_handler()` and `server_shutdown()`, on the stack of the thread that takes the
signal: `main()`, or a worker before `Mask` (`TakesSignals`). A stack, because the
handler of one signal can be interrupted by the other; and two threads can be in
handlers at once. `UseAfterClose` is a call of the store
after `do_close()`, `Abort` what malloc may do about a buffer freed twice
(`imgfs_read.c:43`, `:48` and `imgfs_server_service.c:200`). Messages that are
refused before a call of the store change nothing and are left out.

### HttpRequest

One request. The client's text is a sequence of tokens, the delimiters the parser
looks for and the words between them, followed by the bytes of the body; `Receive`
gives the parser any longer prefix of it. `Complete` has the `Slack` of five bytes of
`http_prot.c:130`: a message may be handed over before the end of its body, which is
then padded with zeros, and so is what `do_insert` is given (`Padded`). `Token` and
`ParseHeaders` are `get_next_token` and `http_parse_headers`, which return 0 where the
code goes on at a NULL; `ContentLength` takes the first header whose key
`Content-Length` begins with, as `strncmp` with the key's length does. `Lookup` is
`http_get_var` on the shapes of a query it tells apart: which keys end in the name
(`Places`), and whether the value is empty, fits or is as long as the buffer; its own
short allocations succeed. `HandleMessage` and `HandleList` to `HandleInsert` are the
dispatch and the handlers up to their call: the URI is matched by prefix (`MatchUri`,
with one longer path for each target), except `/`, which must be all of it; there may
be no memory for the copy of the image (`Insertions`). `CallStore` is the call, by
`ImageDatabase`; `Reply` is what follows it, or `FreeAgain` when `do_read` has freed
its buffer already. More headers than `MaxHeaders`, which is `MAX_HEADERS`, end the
server, as every write outside of an object does here. Where the code reads characters
that were never written (the fifth of `smal`, what follows a name of 31 characters)
the result is any of the outcomes.

### ImgfsCmd

One command after another on a directory. A file is absent, empty, a store whose table
is too short (`broken`), a store or an image. `Type` is the shell, `Copy` another
program. `Main` looks up the command and checks its arguments (`ArgsError`, and for
`create` the loop over the options, `Options`), `Create` is `do_create`, `OpenStore`
`do_open`, `LoadImage` `read_disk_image`, `CallStore` the library, `Close` `do_close`
and `Extract` the file `read` writes. Each has its failures, and those that close what
was never opened, or was freed, or free the buffer of a failed read again, may end in
an abort. A `-max_files` that is 0, too large or no number gives a store of no slots.
`UINT32_MAX` is scaled to 69999, which is above `UINT16_MAX` as it is; no option's
value is itself an option; an image that was written in a smaller resolution is not
inserted again.

### ImgfsShared

Every process has the variables of `Imgfs` and decides by its definitions
(`Proc(p)`), but writes through a buffer of its own (`pending`) into one file
(`disk`). `OpenHeader` and `OpenTable` are the two `fread` of `do_open`, between which
another process may write, so that the table is read half before and half after,
even within an entry. `InsertRejected` leaves its entry in the table in memory, from
where `lazily_resize` may write it. `stale`, `torn`, `spoiled` and `inserted` are
history. All blobs have the same size, flushes do not fail, and the other refusals and
lists, which touch neither the file nor the tables, are left out. `VersionModulus` is
1: the version plays no part.

### ImgfsTests

The unit tests of the store (`unit/unit-test-imgfs*.c`) as sequences of steps,
from the files of `tests/data` they open: open, close, change an entry in memory,
call and compare the result, compare the header, an entry or the length of the
file. `NextTest` runs them with the actions of `Imgfs`. A deadlock would be a step the
model cannot take, so deadlock is checked. Left out: NULL and out-of-range
arguments, vips' sizes, tests that are commented out. The tests of `lazily_resize`
only resize the entry in slot 0, which is why they pass on the code in spite of
the finding `resize`.

## 3. Runs

| Run | Instance | Properties |
| --- | --- | --- |
| `crash` | 2 slots, 2 names, 2 images, `thumb`, 3 blobs, 2 crashes | `TypeOK`, `UniqueIds`, `ContentsMatch`, `CountDrift`, `IsImageDatabase` |
| `slots` | 3 slots, 3 names, 2 images, `thumb`, 2 blobs, 1 crash | `StoredOnce`, `FileFollowsMemory`, `CountersTellTruth`, `OnlyFirstSlotShadows` |
| `faults` | 2 slots, 2 names, 1 image, `thumb`, 2 blobs, 3 failures, 1 crash | `TypeOK`, `CountDrift` |
| `shared` | 2 processes, 2 slots, 2 names, 2 images, `thumb`, 3 blobs, 3 changes, 1 crash | `TypeOK`, `OffsetsInFile`, `StoreIsSound`, `StaleReadsAreTrue`, `OnlyDeletesRemove` |
| `stream` | 7 kinds of requests, 2 with a length below 0, buffer of 6, `size_t` of 6 bits | `TypeOK`, `BufferBound`, `StaleBound`, `ClosedForAReason`, `Answered` |
| `service` | all queries of up to 2 parameters, heads of up to 3 headers (2 are allowed), bodies of up to 7 bytes, 3 stores | `ParsedIsSent`, `CallIsAsked`, `AskedIsServed`, `DiesOfARequest`, `ReplyTellsTruth` |
| `safety` | 2 connections, 2 names, 2 signals | `TypeOK`, `AnswersOwnRequest`, `ClosedIsDurable`, `CallsOneAtATime`, `CloseWaits` |
| `liveness` | 2 connections, 1 name, 1 signal | `SomeCallEnds`, `SignalStops` |
| `commands` | 4 files, some 300 command lines, any number of commands | `ExitTellsTruth`, `FailureKeepsFiles`, `ConfigInBounds`, `OnlyAskedForIsRemoved` |
| `tests` | 24 unit tests | `TestsPass` |
| `resize`, `signals` | small | one property each, violated (section 6) |

What the runs show. `shared`: with no lock at all, an entry still never points
past the end of the file, and the only way to a store that is not sound, or to an
image lost, is a process that changes the file from a copy that is out of date;
readers get contents that were stored under the name they ask for, unless
the table changed while they read it. `service`: a request whose headers and
parameters have the plain shape (`PlainHeaders`, `PlainParams`) is parsed into what
was sent, but for the last five bytes of its body, reaches the store as the call it asks
for, and is answered truly; of an insertion handed over early only the name is as asked.
`DiesOfARequest` names what ends the server: a header without a space behind its colon,
one header too many, a parameter with an empty value, a read that failed in the file,
and no memory for an image. `commands`: a command that exits with 0 has done what it
says unless a write was lost that nobody looks at, with one exception that
`ExitTellsTruth` spells out (`-max_files`, section 6), and a command that fails has
changed no file but the one it was creating or writing. `faults`: whatever fails, the
counters in memory keep to the entries in memory, and those of the file to its entries
as long as `do_delete` has not written at the wrong place.

Why these bounds. Two slots are needed for an entry to hide another, for two entries
to share contents and for a resize of an entry other than the first; three slots and
three names let a copy outlive the entry it was made from while a third takes its
slot, and an entry other than the first hide another. In `faults` two slots let a
flush fail in a call that follows another whose entry was still buffered, which puts
the count two off; with three failures that can happen again after `do_delete` has met
one, or before. Two crashes let the second fall on a file that the first left
inconsistent. `MaxContents` bounds the blobs in the file, hence the successful
insertions of new contents; deleted and refilled slots are reached within it because
copies append nothing. `VersionModulus` 2 makes the version wrap. Two processes are
enough for one copy to be stale, and three changes for a stale writer to follow, or to
be followed by, another's. In `stream` the lengths lie on both sides of every
comparison: bodies below, at and above the slack, heads that fit exactly and that do
not, a request whose body is longer than the buffer, and lengths below 0 that make the
window 0 and that make it wrap. In `service` two parameters decide which of two equal
or overlapping keys is taken, two headers decide which gives the length, a third is
one too many, and bodies of 3, 6 and 7 bytes lie on both sides of the slack. In
`commands` two options let a later one override an earlier one, numbers lie on both
sides of every bound and of 2^16, and the store, the image and the output file
coincide. Names and images are interchangeable, so the store's runs use symmetry; the
runs with liveness do not. Deadlock is checked for the store, the tests and the
commands; the server stops when its process ends, a connection when it is closed, a
request when it is answered, and processes sharing a file when the bound on changes is
reached, so their runs do not check it.

Fairness. `HttpConnection`: `recv` returns when there is something to return, and the
callback returns. `ImgfsServer`: every thread is scheduled (weak fairness of each
worker and of the handlers of each thread). The mutex is not fair: nothing says who
gets it, so no worker is promised the lock, only that *some* call ends
(`SomeCallEnds`), and the end of the process is promised once clients are silent
(`SignalStops`). The other specifications have no fairness; their properties are
safety.

## 4. Theorems

`ImgfsProofs`, for any slots, names, images, resolutions, failures and crashes:

* `TypeCorrect`: `Spec => []TypeOK`. That `nb_files` stays in 0..`max_files` needs
  more than the guards: between the header and the entry of an insertion, and
  when `decr_header` takes a count back, the count must be positive. `KindInv`
  adds what is known of the slot and the counters at each `pc`. Failures include those of
  `do_delete`: in memory the counters then are as if nothing had happened, and of the file
  the theorem speaks as long as it is intact. That it is so until the first failure
  (`IntactInv`) is what the theorems below need.

A flush that fails leaves memory ahead of the file for good: the refused insertion stays
in memory, where it is found, copied and counted. From then on `UniqueIds`,
`ContentsMatch`, `StoredOnce`, `FileFollowsMemory`, `OnlyFirstSlotShadows` and the
refinement are false, so their theorems say `NothingFailed => ...`: they hold until the
first flush that fails, for any `MaxFaults`, and after any number of crashes
(`FaultsStay`: a failure is never forgotten). The counters are bounded with no such
hypothesis. Together the theorems state every property of the runs `crash`, `slots`
and `faults`.

Also in `ImgfsProofs`:

* `UniqueIdsCorrect`: no two valid entries share an identifier, in memory, in the
  buffered file or on disk.
* `FileFollowsMemoryCorrect`: between calls the file says what memory says.

The invariant behind both, `NamesInv`, says how the buffered file lags behind
memory: every entry of `stream` is the one in memory, except in the slot an insertion
or a deletion is about, and the header is, except before it is written. `disk`
is a `stream` of before, since a crash or a flush never leaves part of an entry.
`UniqueIds` alone is not inductive, because the duplicate test of `do_insert` looks at
memory only: what keeps the *file* free of duplicates is that, when a call begins,
it holds no valid entry that memory does not hold.

`ImgfsCountsProofs`:

* `OnlyFirstSlotShadowsCorrect`, from `NamesInv`. `VisibleInv` adds what a call knows of
  the other slots until its entry is written: an insertion that none before its own is
  free, a deletion that no valid entry has the name it frees.
* `CountDriftCorrect`, `CountersTellTruthCorrect`: for any number of crashes *and*
  failures, those of `do_delete` included: after one the bound holds in memory, and in
  the next file, but nothing is said of the damaged one. The drift of the file alone
  is not inductive: a flush that fails may drop an entry whose header is written, or
  keep it, and later calls write back some slots of memory and not others. `CountsInv`
  therefore bounds the drift of every mixture: for every set T of slots (`Tracks`),
  the header's count against the entries of memory in T with those of the file outside
  T (`Mix`) is off by at most crashes plus twice the failures. With T empty that is
  the file's count, with all slots memory's. The factor two came out of the proof: one
  failed flush can lose the entry that the previous call left buffered *and* leave the
  insertion it refuses valid and counted in memory; the run `faults` is sized to show
  it.

`ImgfsDatabaseProofs`, from `NamesInv`:

* `ContentsMatchCorrect`: an entry points at its own contents, in memory, in the
  buffered file and in every file a crash leaves. It is inductive: blobs are only
  appended, a blob is flushed before the entry that points to it, de-duplication copies
  the offsets of an entry that is right, and what `lazily_resize` decodes is the image
  of its entry.
* `StoredOnceCorrect`: equal contents are stored once. It rests on `ContentsMatch`,
  because `do_insert` takes offset 0 to mean that there is no copy.
* `IsImageDatabaseCorrect`: `Imgfs` implements `ImageDatabase`. The refinement mapping
  takes the valid entries of `stream` for the database and those of `disk` for what is
  durable, so a call takes effect when it writes its entry. `CallInv` is what the frame
  of a call in progress says of its slot; each lemma then maps one action to one
  step of `ImageDatabase`, or to a stutter for `do_open`. It holds as long as no flush
  fails.
* `CrashTakesBackOne`: what a crash would leave differs from what the FILE holds by one
  image at most, and between calls that is what memory holds. It is an invariant of
  `ImageDatabase` (`BehindStep`), which the refinement carries over to the store.

`ImgfsSharedProofs`, for any number of processes, slots, names, images, crashes and
changes. The constants are assumed to be what one `Imgfs` needs (`SharedAssumption`).

* `TypeCorrect`, `OffsetsInFileCorrect`: for all interleavings, those from stale copies
  too. What is buffered for an entry points into the *file*, not only into what the
  process's own buffer will add to it: a blob is flushed before its entry is buffered
  (`OffsetsInv`).
* `StoreIsSoundCorrect`, `StaleReadsAreTrueCorrect`, `OnlyDeletesRemoveCorrect`: as long as
  nobody has changed the file from a stale copy (`~spoiled`). `SharedInv` needs to know
  that at most one process then has something to write (`OneChanges`), that a copy that
  is not stale is the file with what its process has buffered, but for the slot it is
  changing (`Follows`), and that a stale one
  remembers only what was once inserted (`Remembers`), entry by entry when the table
  was torn. The buffer of a process holds two writes at most, so the fold `Written`
  is proved equal to what one or two writes do.
* `OneWriterSuffices`, `OneWriterLosesNothing`: a discipline under which nobody ever
  changes the file from a stale copy. If at most one process at a time has it open with
  `rb+`, whoever reads it meanwhile and wherever a process dies, the store is sound, reads
  are true, and only deletes remove. The hypothesis is about `mode` alone; `WriterInv` adds
  that only a writer is ever changing the file, and that its copy is never stale.

`HttpConnectionProofs`, for all lengths of heads, bodies and buffer, and all
`Content-Length`, those below 0 included. It assumes that a length that is not below 0 is
that of the body (`RequestsAssumption`).

* `BufferBoundCorrect`: `recv()` is asked for no more than `rcvbuf` has room for, and
  writes past it only for a `Content-Length` below 0.
* `StaleBoundCorrect`: at most five bytes of a message are left unread when it is
  answered.
* `TypeCorrect`, and `ClosedForAReasonCorrect`: while the client stays, the connection
  is closed only for a head that does not fit, after a message whose last bytes
  were left unread, or for a length below 0.

The invariant is that bytes are conserved (`Conserved`), and that a length above 0 is
known exactly when the buffer has been extended (`Known`). The last theorem also needs
that `recv` is called again only for a message that is not whole yet (`Waiting`).

`ImgfsServerProofs`, for any number of connections and any set of signals:

* `TypeCorrect`, `EveryAnswerIsOwn`, `ShutdownIsDurable`: the invariants of `safety`.
* `ShutdownWaits`: no handler, on whichever thread, closes the store during a call.
* `ServerRefinesStore`: every step of the server is a step of `ImageDatabase` or
  leaves the store alone, which is what allows `HttpRequest` and a reader to think
  of the server as a sequence of calls.

All five follow from one inductive invariant, `IInv`, about who holds the mutex
(`MutexHeld`: exactly the worker inside its critical section, or the frame of the
handler that has locked it, of whichever thread), that the call in progress is that
worker's (`CallHeld`), that frames of the handlers stack up as they were entered
(`HandlersHold`) on threads that are outside of any call (`HandlersOutside`), and that
a worker past `recv` has a request and before the reply the answer to it
(`HasRequest`, `HasAnswer`).

`HttpRequestProofs`, for any requests and stores, and all ways to cut a message. It
assumes that the words of a request hold none of the delimiters, and that the value
of a header called `Content-Length` is a length (`RequestsAssumption`); a store is any
set of images under their names (`StoresAssumption`); there is some bound on the headers
(`MaxHeadersAssumption`), and a body padded with zeros is some contents
(`PaddedAssumption`).

* `ParsedIsSentCorrect`: a message is handed over when it is whole, or when at most five
  bytes of its body are missing, with the parts of the head that were sent.
* `CallIsAskedCorrect`, `AskedIsServedCorrect`: the store is called for what was asked.
* `DiesOfARequestCorrect`: only what `DiesOfARequest` lists ends the server.
* `ReplyTellsTruthCorrect`: what an answer says is so in the store; after a 302 the image
  in it is the one sent if all of it had arrived, some contents under that name if not.

The lemmas say where each token of a message stands (`TextIs`), hence what `strstr`
finds from where (`FindIs`, `TokenIs`), that the loop over the headers ends and cuts
what was sent into as many lines (`LoopExists`, `CutsHeaders`), that no blank line
comes before the end of the head (`HoldsTheHead`), and what `http_get_var` finds of a
plain parameter (`LookupIs`). The invariant `ReqInv` says that what was received is a
prefix of the message, with all of the head and all but five bytes of the body when it
is dispatched if its headers are plain (`Received`), and that a call in progress is
one its path asks for, with a result that is true of the store (`Called`); the
properties of the run follow from it.

`ImgfsCmdProofs`, for any files, images and command lines. It assumes that the texts of
numbers are numbers and no option's name is one (`NumbersAssumption`), that vips does
not both decode and refuse the same contents (`ImagesAssumption`), and that the files a
command line names, or would write, are among `Names` (`CommandLinesAssumption`).

* `ConfigInBoundsCorrect`, `FailureKeepsFilesCorrect`.
* `OnlyAskedForIsRemovedCorrect`: an action property; a step of another program (`Copy`,
  when no command runs) is not the command's.
* `ExitTellsTruthCorrect`: under the hypothesis that on every command line of `create` no
  name of an option stands where the value of `-max_files` is read
  (`NoOptionIsAValue`). `do_create_cmd` takes such a name for a number that is none, and
  `AskedConfig`, which says what was asked for, would take it for the option. All
  command lines of the run are of that kind. `AskedConfig` reads the numbers themselves
  and not what `atouint32` makes of them; where the handout forbids the number it says
  what is got instead, no slots (`MaxFilesAllowed`; `MaxFilesIs` is the lemma that ties
  the two).

The invariant `CmdInv` follows one command: which arguments were accepted
(`Accepted`), that the file is a store (`Opened`) and memory holds what is in it until
the call changes it (`Same`), that the call is what the arguments ask for (`Asked`),
and what its result made of the store (`Served`). That the
loop over the options ends with the configuration that was asked for last is an
induction on the options read.

Only model-checked:

* `TestsPass`: each unit test is one fixed behaviour, with nothing to generalise;
* `Answered`, `SomeCallEnds` and `SignalStops`: liveness under fairness, which TLAPS does
  not reach. The two findings are behaviours TLC exhibits.

## 5. Not modelled

* `server_startup`, and `tcp_server_init`: straight lines before any thread exists.
* The text of lists, of answers and of what commands print; the size of the JSON
  buffer (`imgfs_list.c:57`).
* A client that pipelines its requests: `handle_connection` drops what follows a
  message in its buffer. A client that goes away before it is answered.
* A malformed `Content-Length`, or one above 0 that is not the length of the body; a
  head without the tokens it should have: the parser's behaviour on them is not defined
  by the code. What follows once `recv` has written past `rcvbuf`.
* The contents of a store in which `do_delete` wrote at the wrong place: they depend on
  where the C library leaves a `FILE` whose `fseek` failed.
* The locks inside the C library that a signal handler may find held.
* Death of the server by a signal other than the two it handles: for the store it
  is `Crash` in `Imgfs`.
* Two processes of which one meets a write that fails; files of a store that differ
  in the size of their images.
* `tcp-test-client.c`, `tcp-test-server.c`, `http-test-server.c`, and `strnstr` of `util.c`,
  which the program does not use.
* `src/grading/projectFinal/done`, which repeats `src/done`; `src/grading/project01/done`,
  an earlier state of part of it; `src/provided`, the skeleton it started from.

## 6. Where code and documents disagree

Two of these are runs that TLC finds violated.

* `resize` (`ResizeIsStored`): `lazily_resize` writes `metadata[0]` whichever entry
  was resized (`image_content.c:165`).
* `signals` (`SignalStops` with both signals): the handler of one signal, interrupted
  by the other, waits for itself.

Read off the code and modelled, so that the passing properties are stated
around them:

* An insertion that is refused leaves its identifier in a free slot in memory
  (`imgfs_insert.c:42`), and the image of that name in a later slot can no longer be
  read or deleted until the store is reopened. `OnlyFirstSlotShadows` says how far
  this reaches into the file: slot 0 only, through `lazily_resize`.
* After an insertion that failed at a flush, an insertion of the same contents
  succeeds with nothing written (`imgfs_insert.c:90`).
* One failed flush can put `nb_files` two off (`imgfs_insert.c:88`), as `CountDrift` allows.
* `do_delete` looks at neither of its `fseek` (`imgfs_delete.c:36`, `:41`): when a flush
  fails in one it overwrites some other part of the file and returns `ERR_NONE`
  (`Misplace`).
* A message counts as whole up to five bytes early (`http_prot.c:130`): `StaleBound`. What
  is stored under a 302 may then end in zeros (`BodyInHand`).
* A `Content-Length` below 0 (`atoi`, `http_prot.c:121`) is never reached and extends no
  buffer, but it takes part in the length `recv` is given (`http_net.c:62`), a `size_t`
  that wraps: `Overrun`.
* Headers are written to `headers[]` without a look at `MAX_HEADERS`
  (`http_prot.c:166`); a parameter with an empty value makes `http_get_var` use what
  `strtok` did not find (`http_prot.c:63`); the memory for the copy of an image is not
  checked (`imgfs_server_service.c:243`); what `do_read` freed is freed again
  (`imgfs_read.c:43`, `:48` and `imgfs_server_service.c:200`, in `do_read_cmd`
  `imgfscmd_functions.c:235`): `DiesOfARequest`.
* URIs are matched by prefix, as `http_prot.h:40` says, so `/imgfs/listing` is `list`; but
  `/` is compared with the whole URI, so `/?name=a` is `ERR_INVALID_COMMAND`.
* `create` takes a `-max_files` that is 0, too large or no number for 0, exits with 0 and
  leaves a store into which nothing can be inserted (`imgfscmd_functions.c:124`);
  `src/provided/handouts/02.createdelete.md:78` asks for `ERR_MAX_FILES`. `ExitTellsTruth`
  states it as its exception.
* A new thread can take a signal before it blocks them (`http_net.c:41`), so that two
  handlers run on two threads at once: `TakesSignals`.
* A worker that waits for the mutex during shutdown calls a store that is closed
  (`imgfs_server_service.c:76`): `UseAfterClose`.
* `handle_read_call` takes whatever begins with a resolution's name for it, where
  `src/provided/handouts/07.webservice.md:167` asks for `resolution_atoi()`.

Also: `do_delete` writes the header before the entry (`imgfs_delete.c:37`), where
`src/provided/handouts/02.createdelete.md:98` asks for the entry first; after a write
that fails, `nb_files` is no longer the number of images (`01.main.md:65`).

## 7. What could follow

1. A weaker `ImageDatabase` for a store whose flushes fail, and the refinement for it.
2. The length of the JSON list, with names at their limits and counters that have
   drifted.
3. A client that pipelines its requests, once the parser's behaviour on a message
   that starts anywhere is pinned down.
