# Verification of the AESD character driver and socket server

The repository holds the course work of an embedded Linux course: a character
driver that remembers the last ten commands written to it
(`aesd-char-driver/`), a threaded socket server that stores lines in the driver
and sends its content back (`server/`), and small exercise programs. This
directory specifies the driver, the server in both of its builds and one of the
exercises in TLA+, model-checks them with TLC and proves their safety
properties, all but one, for every value of the constants with TLAPS.

## 1. Inventory

| Part | State | Operations | Interacts with |
|---|---|---|---|
| circular buffer (`aesd-circular-buffer.c/.h`) | array of N entries (pointer, size), `in_offs`, `out_offs`, `full` | init, add_entry, find_entry_offset_for_fpos, FOREACH | called by the driver under its mutex |
| character driver (`main.c`, `aesdchar.h`) | `aesd_device`: buffer, partial command `entry`, `lock`; per open file `f_pos`; kernel heap | open, release, read, write, module load and unload | any number of processes; kernel allocator; user memory |
| socket server, device build (`aesdsocket.c`) | thread list, `should_terminate`, `server_sock`, `file_mutex`; per thread: line buffer, `operation_failed`, `thread_complete` | accept loop, reaping, cleanup, connection thread, signal handler | clients over TCP; the driver through `/dev/aesdchar` |
| socket server, file build (same file, without `USE_AESD_CHAR_DEVICE`) | one shared descriptor with its offset, its mutex, a timer thread | the same, plus a timestamp every 10 s, removal of the file and cancellation of the timer at the end | a file instead of the driver |
| `read_line.c` | count of bytes stored | read bytes up to a newline | called by connection threads |
| LIST macros of `queue.h` | forward link and address of the previous link | insert at head, remove, two walks | the server's main thread |
| `examples/systemcalls` | descriptor, child, stdio buffer of the caller and its copy in the child | do_system, do_exec, do_exec_redirect | fork, dup2, exec, wait |
| `examples/threading` | argument block, a mutex of the caller | start a thread that waits, locks, waits, unlocks | |
| `finder-app/writer.c` and scripts | none | create directories, append a line | |
| load, start-stop, test, build scripts | none | invoke the programs | |

What is hard here: the server's threads and the driver's callers interleave;
each call of the driver sleeps in three places while it holds the mutex; every
allocation and copy may fail half way through; memory changes owner (caller,
partial command, buffer, nobody); one reply of the server is many calls of the
driver; signals arrive anywhere; clients vanish. `PROJECT.json` lists these
hazards line by line.

What makes each part correct:

- buffer: a read at position f returns byte f of the stored commands laid end
  to end; the last N commands are kept, in order;
- driver: writes are atomic and each takes effect once; failed ones leave no
  trace; no block is freed twice, used after free or lost; every call returns;
- server: what a reply has of the device is its content at one moment, with the
  client's own line in it; items are freed
  once, after their thread is over; closed connections are cleaned up; a
  signal ends the process;
- server, file build: a reply is the whole file, although all threads share its
  offset; nothing in it is overwritten; the timer can be stopped wherever it is;
- `read_line`: successive calls return the lines of the stream, cut to the
  buffer, and never write beyond it;
- thread list: links are consistent in both directions, without cycles, and
  lead to live items only;
- `systemcalls`: nothing is printed twice or into the wrong file; a failing
  `open`, `fork` or `waitpid` is reported, and with it a child that is left
  behind; no descriptor is left over.

## 2. Modules

| Module | Role |
|---|---|
| `CircularBuffer` | the buffer's functions as operators on a record |
| `AesdChar` | the driver: EXTENDS `CircularBuffer`, refines `CommandLog` |
| `CommandLog` | abstract specification: an atomic log of the last N commands plus a partial one |
| `Commands` | what one write does to the content of the device (`Kept`, `Push`); used by `CommandLog` and `AesdSocket` |
| `AesdSocket` | the server in its device build, on a device whose write is one step |
| `ThreadList` | the LIST macros of `queue.h` on explicit links, instantiated by `AesdSocket` |
| `ReadLine` | the byte loop of `read_line` |
| `FileStore` | what the file build has instead of the device: shared descriptor, timer, removal |
| `SystemCalls` | the three functions of the systemcalls example and the child process |
| `MC...` | constants, symmetry and one property for TLC, one module per component |
| `AesdCharProofs`, `AesdCharLogProofs` | the driver: memory and shape of the buffer; sizes, leaks, refinement of `CommandLog` |
| `AesdSocketProofs`, `AesdSocketStoreProofs` | the server: thread list and replies; types, own commands |
| `FileStoreProofs`, `ReadLineProofs`, `SystemCallsProofs` | theorems about those modules |
| `BasicLemmas` | least and greatest elements, iterated functions, prefixes of sequences: what several of the proofs use |

`CommandLog` is the seam. The driver is shown to implement it, and that is what
allows `AesdSocket` to take a write of the device as one step (`aesd_write`,
with the operators of `Commands`). It is an assumption there and no result:
nothing about the atomicity of writes is claimed of the server.

### The driver

An operation of `main.c` is cut at the points where it can sleep or where
another process can see a change: `CallWrite`/`CallRead` (entry), `Lock` or
`Interrupted` (`mutex_lock_interruptible`), `Kmalloc`, `CopyFromUser`,
`Krealloc`, `Store` (copy, size, `add_entry`, reset: no sleep in between),
`ExitFree`, `Exit`; `Find`, `CopyToUser`, `Exit` for reads. `pc[p]` names the
next step; the labels `exit_free` and `exit` are the C labels. All four error
exits of `aesd_write` and both of `aesd_read` are disjuncts of these actions.

The heap maps addresses to byte sequences or `FREE`, so ownership is explicit:
`kbuf[p]` for a call under way, `entry.buffptr` for the partial command,
`buffer.entry[i].buffptr` for the stored ones. An uninitialised byte reads as
`Junk`. `krealloc` may extend a block in place or move it. Loading and
unloading are actions; the kernel refuses to unload while a file is open
because `aesd_fops.owner` is `THIS_MODULE`, which is the guard of
`aesd_cleanup_module`. The `uint8_t` offsets are below N = 10 and cannot
overflow, which `TypeOK` states and the proofs establish for every N.

The search of `find_entry_offset_for_fpos` is stated by its result (`Hits`: an
entry and an offset inside it that together make up the position) with the
running sum as a recursive function.

### The server

A connection `c` stands for its client, its thread and its list item.
`pc[c]` runs through `handle_connection`: `ReadLine` (the loop condition,
which reads first and only then looks at `should_terminate` and
`operation_failed`), `WriteLock`, `Write`, `WriteUnlock` (`filestore_write`),
`ReadLock`, `ReadOpen`, `ReadSend` (one command per turn), `ReadUnlock`
(`filestore_read_to_dest`), `Closing` (close, set `thread_complete`, return).
`mpc` runs through `main`: `Setup`, `LoopTest`, `Accept`/`AcceptFails`, `Reap`,
`Cleanup`, `Exit`. `signal_handler` may come between any two steps.

Lines are sequences of tokens: one token naming the sender and the number of
the line, then `NL`, or the token alone when the client breaks off in mid-line.
`Faults` names the system calls that may fail in a run: those of the set-up,
`malloc`, `pthread_create`, `accept` on a listening socket, `write` (or the
`open` before it), `open` for reading, and `read`.

The thread list is a record of links (`lh_first`, `le_next`, `le_prev`), and
`LIST_INSERT_HEAD` and `LIST_REMOVE` assign them as the macros do; `data` is
the pointer of the walk under way. `Reap` takes the next item before it can
free this one (`LIST_FOREACH_SAFE`), `Cleanup` afterwards (`LIST_FOREACH`).

Undefined behaviour is a choice of outcomes: the cleanup walk reads the link of
a freed item and either finds the old value or a wild pointer (`crashed`). A
failed `read` makes the loop send memory from `file_buffer` on, which is
recorded in `junk`, with `ret` as it was, or fails in that `send`. `reply` has
what was sent of the device. Sending to a client that is gone fails or raises
`SIGPIPE` (`killed`).
`should_terminate` and `thread_complete` are plain `bool`s shared between
threads; library calls separate their accesses, so a stale value is a step that
comes a little later, which the interleaving already contains.

### read_line

One step per byte. `Streams` are what a client may send before it closes;
`returned` collects what the calls have returned, and the history variable
`ends` where in the stream each of them stopped. `EINTR` repeats the read and
changes nothing. The reference (`Returned`, `UnderWay`) speaks of the stream
alone: the stretch between two such places is one line of it, from a line's
first byte to its newline or to the end of the stream, and what was returned is
that line cut to the buffer (`Cut`).

### The file build

`FileStore` models what `#ifndef USE_AESD_CHAR_DEVICE` selects; the accept
loop, the list and `SIGPIPE` are the same code in both builds and stay in
`AesdSocket`, so connections are there from the start and `Shutdown` goes from
"accept" to the removal of the file in one step. The timer is a thread like the
connections, without a reply. `pthread_cancel` sets a flag that acts at the
timer's cancellation points, `sleep` and `write`, and not in
`pthread_mutex_lock`; in `write` the timer ends with `file_mutex` locked. The
file starts empty or with an entry that an earlier run has left, because it is
opened without `O_TRUNC`; `name` says whether it is there, and "kept" that
`remove` has failed, which the code only logs. A timer that could not be
created leaves `timer_thread_id` uninitialised, with a crash or nothing as
outcome of `pthread_cancel` and `pthread_join`.

The loop of `filestore_read_to_dest` is `ReadSend` (a read and its send, or the
end of the file), `ReadFails` (the -1 passes `> 0`, junk is sent, the loop goes
on) and `SendFails`, after which the loop reads once more before it looks at
`ret`. `stalled` are clients that have stopped reading: `send` to them blocks
with `file_mutex` held. `broken` says that every further read of the loop under
way fails, until a send fails too.

### systemcalls

The caller prints and calls in any order. Parent and child are two processes
from `Fork` on; the child has its own copies of the stdio buffer, which `exit`
writes out and a successful `execv` drops, and of the descriptor. `waitpid` may
be interrupted by a signal: the call then returns, and its child goes on during
later calls, so `child` has one record per call. After a failed `fork` the pid
is -1 and `waitpid` reaps any child (`Waited`). The result of `fflush` is
ignored; when it fails, the library has kept the bytes, which `fork` then
copies, or dropped them: ISO C leaves that open, and both are in the model.
`ret` is "unset" until a failure is stored in it, and an unset one is returned
as either Boolean. Descriptors are numbers, because `do_exec_redirect` closes
only positive ones.

### Mutants

Definitions whose names end in what they get wrong (`Lock_NoWait`,
`Store_KeepSize`, `signal_handler_NoClose`, ...) are mutants: plausible
mistakes, each of which makes one property fail when it replaces the real
definition. `PROJECT.json` pairs them. They are used nowhere else.

## 3. Runs

All runs finish within about three minutes on two workers.

| Run | Checks | Bounds |
|---|---|---|
| `driver_safety` | `RingShape`, `SizeIsBytesStored`, `LogInv`, `LeaksOnlyOnEviction`, `ReadsConcatenation`, `ImplementsCommandLog` | N = 2, 2 processes, 5 blocks, payloads `a` and `b\na`, reads of 2 bytes |
| `driver_faults` | `TypeOK`, `MemorySafe`, `IInv`, `CallsReturn` | N = 1, 2 processes, 3 blocks; `krealloc` may fail too |
| `server_safety` | `TypeOK`, `SnapshotReply`, `OwnCommandAnswered`, `OwnInv` | 2 clients, 2 lines each, N = 2; `read` may fail |
| `server_faults` | `NoUseAfterFree`, `ListLinked`, `ListIsLiveItems`, `Terminates` | 2 clients, 1 line each, N = 1; `pthread_create`, `write` and `accept` may fail, clients may vanish |
| `server_liveness` | `LinesAnswered`, `ConnectionsClose` | 2 clients, 1 line each, N = 1; the set-up, `malloc` and `open` may fail |
| `read_line` | `BufferBound`, `ReturnsLines` | all streams of up to 7 bytes, a buffer of 3 |
| `file_store` | `IInv`, `WholeFileSent`, `FileGrows`, `Terminates`, `LinesAnswered` | 2 connections with 1 line each, 1 timestamp; all members of `Faults`: the start, `init_filestore`, `pthread_create`, the set-up, `write`, `send`, `read`, `remove` |
| `system_calls` | `PrintsOnce`, `FalseOnFailure`, `ChildReaped`, `FileClosed`, `OutputWhereAsked` | 2 prints, 3 calls; `open`, `fflush`, `fork`, `dup2`, `execv` and `waitpid` may fail |

Why the bounds are enough: with N = 2 the buffer wraps, is full with its start
at either slot, and evicts; a partial command of one or more bytes, a command
completed by a second process and bytes behind the newline all occur. Five
blocks hold two commands, the partial one and `kbuf` with one to spare, so
`krealloc` can move; each eviction loses a block, after which `ENOMEM` is
reached. `driver_faults` is smaller because it also checks liveness without
symmetry; what it checks of the buffer with N = 1 is proved for every N.
`MaxPartial` stops writes onto a partial command longer than one byte (it only
bounds when a write begins, so partial commands of two bytes occur). `Kmalloc`
leaves one block for the `krealloc` that follows. Two clients with two lines
each and N = 2 let a client's line be evicted by the other's before it is read
back. One process has one open file at a time. A buffer of three bytes and
streams of seven let lines that fit, just fit and do not fit follow each other
in every order. In the file build one timestamp is enough for a timer that
meets the cancellation asleep, waiting for the mutex or in `write`, and whose
failed write leaves the mutex locked; two connections for one that holds the
mutex and one that waits with the timer. A second timestamp, with which a timer
could meet the mutex it has itself left locked, is beyond the time of the run;
the safety properties are proved for any number of them. Three calls are needed for a descriptor 0 that
was left open to meet a later `open`, and for a call that fails to fork to reap
a child left by an earlier one while another is still running. Addresses, processes
and clients are symmetric: no property tells them apart, and symmetry is not
used in runs with liveness properties.

In `AesdSocket` a fault of `read` is explored by `server_safety` and
`server_vanished_client` only: with it, a thread may send junk without end,
which no fairness excludes. In `FileStore` the properties name that outcome.

Deadlock is checked for the driver. The server's runs allow it, because the
process may end, and because a failed write really blocks all threads; so do
those of `read_line`, `file_store` and `system_calls`, where the stream, the
process or the caller's work comes to an end.

### Fairness

Driver: a process that holds the mutex goes on (weak fairness of `Locked`),
and the kernel's mutex, which hands over to waiters, lets every waiter have it
in time (strong fairness of `Lock`). No signal is assumed. Server: weak
fairness of main and of each thread, except that an `accept` that waits on a
listening socket need not fail (`MainRuns`). Nothing is assumed about clients
or signals; in `server_liveness` clients do not vanish and may stay silent for
ever. Nothing is assumed about the order in which a mutex serves its waiters;
what the clients send is finite, so weak fairness is enough. File build: the
same for main, the timer and the calls a connection makes between reading two
lines, as far as nothing fails: that a `read` or `send` fails, and that a
client sends, closes or reads, is not assumed. A send to a client that does not
read may therefore block for good. That the timer gets on is what `sleep`
returning means.

`FileStore!Terminates` and `LinesAnswered` name the ways in which `file_mutex`
can be held for ever (`[]Held`): by a thread whose `write` has failed
(`Abandoned`), by a connection in `send` to a client that does not read, and by
one whose every read fails, so that it sends junk again and again
(`HeldInLoop`). While the timer waits for such a mutex it cannot be cancelled,
and main stays in `pthread_join`. The run shows that nothing else keeps the
process from ending, in particular not a timer that is cancelled with the mutex
locked, nor a mutex that is held for a while.

Both versions of `LinesAnswered` count as an answer only a call of
`filestore_read_to_dest` that has sent what there is and returns 0. The other
outcomes are named: the call has failed, and the connection, which stays open
until its client sends again or closes, takes no further line (`GivenUp`); or
the process has ended.

### Disagreements between the code and what it says

Four runs are expected to fail; each quotes the line it contradicts in
`PROJECT.json`.

| Run | What TLC shows |
|---|---|
| `driver_krealloc_fails` | after a failed `krealloc` the entry has no block and a size above 0; the next write stores uninitialised bytes as part of a command |
| `server_write_fails` | a failed write keeps `file_mutex`; its thread and all others block |
| `server_cleanup` | the cleanup walk follows a link in freed memory |
| `server_vanished_client` | `SIGPIPE` ends the server when a client closes early |

Other defects that are in the modules as they are in the code. No run is
expected to fail for them; the properties that hold are stated around them:

- a full buffer overwrites the pointer to its oldest command without freeing
  it (`LeaksOnlyOnEviction` says that this is the only leak);
- the -1 of a failed `read` in the unsigned `bytes_read` (aesdsocket.c:118, 192)
  passes the test `> 0` and becomes the length of a `send`: the client gets junk
  in a reply that returns 0, or the loop never ends. `SnapshotReply` and
  `WholeFileSent` say what such a reply has of the device or file, and exclude
  junk only where `read` does not fail;
- a failing `fflush` is not noticed (systemcalls.c:75, 130), and `PrintsOnce`
  ends with it;
- in the file build, main goes on after `init_filestore` has failed, and tests
  `pthread_create` for a value it never returns;
- `do_exec` and `do_exec_redirect` return an uninitialised `ret` unless `open`,
  `fork` or `waitpid` failed, and ignore the exit status, against
  systemcalls.c:40-43 ("or if a non-zero return value was returned by the
  command"); `FalseOnFailure` says what they do report, and no property speaks
  of a failing `execv` or of the exit status;
- a descriptor 0 is not closed (systemcalls.c:145), against line 93 ("This file
  will be closed at completion"); `FileClosed` says that only that one is not;
- a line of 65536 bytes or more loses its newline, which `Cut` states, and the
  next line of any client is then joined to it in the device, as after a client
  that breaks off in mid-line.

The comment on `close` in the signal handler (aesdsocket.c:66) says it is there
to avoid "Accept failed: Bad file descriptor"; in the model, as in the code, it
is what leads to `AcceptFails`, and so what ends the wait in `accept`
(`Terminates` fails without it).

## 4. Proofs

Every theorem holds for every value of the constants that satisfies the
assumption named with it. The special values (`NULL`, `FREE`, `Junk`, `Nobody`,
`HEAD`) are not among the ordinary ones in any of them. The inductive
invariants that are stated in the modules (`AesdChar!IInv`, `LogInv`, `OwnInv`,
`FileStore!IInv`, `ReturnsLines`) are also checked by the runs; `ListInv`,
`ReplyInv`, `StoreTypes` and the invariant of `systemcalls` are stated with the
proofs.

### Driver: memory and shape

`AesdCharProofs`, from `NAssumption` and `CharAssumption` (N > 0, payloads are
non-empty byte strings, read sizes are positive), with every allocation and
copy free to fail, `krealloc` too:

- `DriverInvariant`: `Spec => []IInv`
- `DriverTypes`, `DriverRingShape`, `DriverMemorySafe`: `TypeOK`, `RingShape`
  and `MemorySafe`

`MemorySafe` is not inductive by itself. That freeing `kbuf` cannot free a
block of the device needs to know which calls own one (`KbufHolds`); that
`krealloc` and `memcpy` see the state their own call has left needs the mutex
(`MutexHeld`), and that `memcpy` stays inside the block needs `RoomHolds`; that
overwriting slot `in_offs` does not leave a second owner needs the shape of
the buffer (`RingShape`); that a load starts with no call under way needs
`FilesOpen`; that the entry a read has found is still there needs `FoundHolds`.
Their conjunction `IInv` is inductive. The proof has one lemma per action, and
separate lemmas for arithmetic modulo N, the first newline, what the search
returns, the content of fresh, grown and copied blocks, and the shape after
`add_entry`.

### Driver: the command log

`AesdCharLogProofs`, under the additional hypothesis `~KreallocMayFail`. It is
part of each statement, and the run `driver_krealloc_fails` shows that it
cannot be dropped:

- `DriverLogInvariant`: `Spec => []LogInv`
- `DriverSizes`: `Spec => []SizeIsBytesStored`
- `DriverIsCommandLog`: `Spec => ImplementsCommandLog`
- `DriverLeaks`: `Spec => LeaksOnlyOnEviction`

`SizeIsBytesStored` speaks of moments at which the mutex is free, so it says
nothing inside a call; `SizesHold` says which step sees a block larger than the
size of its entry (the one after `krealloc`), and `ResultsHold` when a call has
a result, which is what tells an applied write from one that is only called.
In the refinement, `Store` is `Apply`: the bytes copied behind the partial
command are `Partial \o Kept(data)`, and `add_entry` is `Push` on the commands
in reading order, by cases on a buffer that is not full, becomes full, or
overwrites. The calls, returns and failures are `Invoke`, `Return` and
`Reject`, unloading is `Clear`, and every other step leaves the log as it is; a
`krealloc` that moves the partial command leaves its bytes the same.

### Server: thread list and replies

`AesdSocketProofs`, from `SocketAssumption` (N > 0, finitely many connections,
the newline is not one of the tokens that name a line), for every set of faults
and with vanishing clients:

- `ServerListInvariant`: `Spec => []ListInv`
- `ServerNoUseAfterFree`, `ServerListLinked`: the invariants of these names
- `ServerListWalk`: `Spec => []ListIsLiveItems`
- `ServerReplyInvariant`: `Spec => []ReplyInv`, and from it
  `ServerSnapshotReply`

`ListLinked` alone would allow a cycle of items that no link from the head
reaches, and `LIST_REMOVE` applied in it could leave an item that links to
itself. `Ranked` excludes it: some numbering of the items decreases along the
links. An insertion extends the numbering, a removal keeps it. `Fresh` says
that a connection is accepted once, so that the inserted item is new;
`WalkLive` that a walk stands at a live item, so that what it removes is in the
list. That invariant also shows what saves the cleanup in practice: the link it
reads from the freed item still leads to a live one, if the memory has not been
reused.

`ListIsLiveItems` is about a walk of any length. The recursive function that
describes it exists (`Iteration`, by the least length at which it would not).
Ranks fall along the walk, so it comes to no item twice and, by the pigeonhole
principle, has ended after as many turns as there are connections. Of the items
it has missed, take one of greatest rank: its `le_prev` is the head or an item
of greater rank, which the walk has come to, and so it has come to the item.

`ReplyInv` says that whoever uses the device holds `file_mutex`, and that what
has been sent of the device is a prefix of what it holds. That there is junk
beside it only when `read` may fail is a theorem of its own (`ServerJunk`).

### Server: types and own commands

`AesdSocketStoreProofs`, from the same assumptions:

- `ServerStoreInvariant`: `Spec => [](StoreTypes /\ OwnInv)`
- `ServerTypes`: `Spec => []TypeOK`
- `ServerOwnCommand`: `Spec => []OwnCommandAnswered`

`OwnCommandAnswered` looks at the end of a reply; `OwnInv` follows the command
from its write on, through the time in which `file_mutex` is free. A command
finished by another connection moves every command that is kept one place from
the end (`PushPlaces`), and adds one to the age of each. That the device gets a
line at all, and not an empty buffer, is the other half of `OwnInv`, and
`StoreTypes` needs it as much as it needs `StoreTypes`: the two are proved
together.

### File build, read_line, systemcalls

`FileStoreProofs` proves `FileStoreInvariant` (`Spec => []IInv`),
`FileStoreWholeFileSent` and `FileStoreFileGrows` from `FileStoreAssumption`,
for every number of connections, lines and timestamps and every set of faults:
the offset moves only under `file_mutex`, and what a reader has sent of the
file is the part before the offset. A failed read does not move the offset, so
that the junk it sends leaves this as it is.

`ReadLineProofs` proves `ReadLineReturnsLines` and `ReadLineBufferBound` for
streams of any length over any bytes and every buffer size n > 1, from
`ReadLineAssumption` (a buffer of one byte has room for the terminating zero
only, and the server's has 65536).
`ReturnsLines` is close to inductive as it stands: beside what has been
returned it says what the call under way has stored, cut as it will be
returned.

`SystemCallsProofs` states an inductive invariant, and proves from it
`CallsPrintOnce`, `CallsReportFailure`, `CallsReapChildren`, `CallsCloseFile`
and the action property `CallsRedirect`, for any number of prints and calls.
`PrintsOnce` depends on `NothingBuffered`: as long as no `fflush` has failed,
the caller's buffer is empty from `fflush` to the end of the call, and with it
every child's copy. `OutputWhereAsked` depends on `ChildPlaced`: a child that
has come to `execv` has the standard output that its own call asked for, even
if that call has returned; and a call returns with a child only after a failed
`waitpid`, which is in `ret`.

### Only model-checked

- `ReadsConcatenation`: it compares a read with the concatenation of all stored
  commands, which is recursion over data (`FlattenSeq`, a library operator).
- All liveness properties (`CallsReturn`, `Terminates`, `LinesAnswered`,
  `ConnectionsClose`): the prover does not handle fairness.

## 5. Not modelled

- Zero-length reads and writes. (`kmalloc(0)` returns a non-null token that may
  not be dereferenced, and nothing is copied.)
- Several files open in one process, or one file shared by several; `f_pos`
  would then be shared without a lock.
- Registration of the device number beyond success or failure of the load.
- Commands longer than one `read` of 1024 bytes: `ReadSend` moves one command
  per turn, and `file_mutex` is held over all turns anyway. Short counts of
  `send` and `write`.
- Errors of `pthread_mutex_lock` and `pthread_mutex_unlock`; they cannot occur
  for this mutex, which lives in zeroed static storage.
- The number of the descriptor behind `server_sock`, closed twice.
- Signals are taken by the main thread, which the kernel prefers while that
  thread does not block them. If another thread ran the handler, `close` would
  not wake main from `accept`.
- A second signal: `should_terminate` is set already, and the loop test or a
  failing `bind`, `listen` or `accept` leads to the end all the same.
- `read_line` with a buffer of size 0 or none, which the server never passes.
- Callers of the systemcalls example with children of their own, which
  `waitpid(-1)` after a failed `fork` might reap; a `printf` of the caller that
  fails; how much of an earlier output the file
  keeps, being opened without `O_TRUNC`; the argument vectors.
- The threading example: one thread that waits, locks, waits and unlocks, and
  sets a flag in its own argument block; the test that joins it is not in the
  repository. (The block is allocated with the size of a pointer,
  `sizeof(thread_data)`, threading.c:57: a matter of memory layout.)
- `writer.c` and the scripts: sequential, single-shot file I/O without state.
- The daemon option beyond its failure in the file build, logging, and
  everything that `PROJECT.json` lists as `not_modelled`.

## 6. Plan

Done: the driver, the server in both builds, the thread list, `read_line` and
the systemcalls example are modelled and checked; every safety property that
the runs check, except `ReadsConcatenation`, is proved. Left, in this order:

1. `ReadsConcatenation`: restate the concatenation with the running sum that
   the search itself uses (`current_length`), so that the bytes of one read can
   be compared with it without recursion over the commands, and prove it from
   `LogInv`.
2. Composition of server and driver, so that one reply is a sequence of
   `aesd_read` calls through one open file. `SnapshotReply` and
   `ReadsConcatenation` cover its two halves.
