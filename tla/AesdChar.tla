------------------------------ MODULE AesdChar ------------------------------
(***************************************************************************)
(* The character driver aesd-char-driver/main.c: file operations on the    *)
(* one device /dev/aesdchar, called concurrently by several processes,     *)
(* each through an open file of its own.  A call is cut into the steps     *)
(* between which another process can run: waiting for dev->lock, the       *)
(* allocation, the copy from or to user space (all of which may sleep)     *)
(* and the update of the device.                                           *)
(*                                                                         *)
(* The kernel heap is explicit, so that the ownership of every block the   *)
(* driver allocates can be followed from kmalloc to kfree.                 *)
(***************************************************************************)
EXTENDS CircularBuffer, FiniteSets

CONSTANTS
  Procs,           \* processes (or threads) calling the driver
  Addr,            \* addresses of heap blocks
  FREE,            \* content of an address that is not allocated
  Nobody,          \* owner of the mutex when it is free
  Bytes,           \* byte values, the newline among them
  NL,              \* the newline byte
  Junk,            \* what an uninitialised byte of a block reads as
  Payloads,        \* byte strings that processes write
  Counts,          \* sizes of the buffers that processes read into
  KreallocMayFail, \* whether krealloc may return NULL
  MaxPartial       \* bound: no write is begun on a longer partial command

ASSUME CharAssumption ==
  /\ NL \in Bytes /\ Junk \notin Bytes
  /\ NULL \notin Addr /\ Nobody \notin Procs
  /\ FREE \notin Seq(Bytes \cup {Junk})
  /\ Payloads \subseteq Seq(Bytes) /\ <<>> \notin Payloads
  /\ Counts \subseteq Nat \ {0}
  /\ KreallocMayFail \in BOOLEAN
  /\ MaxPartial \in Nat

VARIABLES
  loaded,  \* the module is loaded and its cdev is live
  buffer,  \* dev->buffer
  entry,   \* dev->entry, the command that has no newline yet
  lock,    \* owner of dev->lock
  heap,    \* content of every heap address
  f_pos,   \* per process: position of its open file, -1 when it has none
  pc,      \* per process: where its call stands, "idle" outside the driver
  data,    \* per process: user bytes of its write call
  count,   \* per process: count argument of its read call
  kbuf,    \* per process: kbuf of aesd_write
  found,   \* per process: entry and entry_offset_byte of aesd_read
  retval   \* per process: what its call is going to return

devVars  == <<loaded, buffer, entry>>
callVars == <<data, count, kbuf, found, retval>>
vars == <<loaded, buffer, entry, lock, heap, f_pos, pc, data, count, kbuf, found, retval>>

-----------------------------------------------------------------------------
(* Heap blocks.                                                            *)

FreeAddrs == {a \in Addr : heap[a] = FREE}

Uninitialised(n) == [i \in 1 .. n |-> Junk]

\* kfree, for a set of pointers; kfree(NULL) does nothing.
Kfree(h, ptrs) == [a \in Addr |-> IF a \in ptrs THEN FREE ELSE h[a]]

(***************************************************************************)
(* The block krealloc(ptr, n) returns on success: the old bytes, then      *)
(* uninitialised ones.                                                     *)
(***************************************************************************)
Grown(ptr, n) ==
  [i \in 1 .. n |-> IF ptr # NULL /\ i <= Len(heap[ptr]) THEN heap[ptr][i] ELSE Junk]

\* memcpy(dst + offset, src, n) on the block dst.
Memcpy(dst, offset, src, n) ==
  [i \in 1 .. Len(dst) |-> IF offset < i /\ i <= offset + n THEN src[i - offset] ELSE dst[i]]

-----------------------------------------------------------------------------
(* The scan for the newline in aesd_write.                                 *)

newline_pos(d) ==
  IF \E i \in DOMAIN d : d[i] = NL
  THEN (CHOOSE i \in DOMAIN d : d[i] = NL /\ \A j \in DOMAIN d : d[j] = NL => i <= j) - 1
  ELSE -1

\* Mutant: the newline itself is not copied.
copy_size_WithoutNewline(d) == IF newline_pos(d) = -1 THEN Len(d) ELSE newline_pos(d)

copy_size(d) == IF newline_pos(d) = -1 THEN Len(d) ELSE newline_pos(d) + 1

-----------------------------------------------------------------------------
(* Open files and calls.                                                   *)

Goto(p, from, to) == pc[p] = from /\ pc' = [pc EXCEPT ![p] = to]

\* An assignment to retval; no other local changes.
Result(p, r) ==
  retval' = [retval EXCEPT ![p] = r] /\ UNCHANGED <<data, count, kbuf, found>>

(***************************************************************************)
(* The call returns to user space and its locals are gone.                 *)
(***************************************************************************)
Return(p, from) ==
  /\ Goto(p, from, "idle")
  /\ data'   = [data EXCEPT ![p] = <<>>]
  /\ count'  = [count EXCEPT ![p] = 0]
  /\ kbuf'   = [kbuf EXCEPT ![p] = NULL]
  /\ found'  = [found EXCEPT ![p] = NULL]
  /\ retval' = [retval EXCEPT ![p] = "none"]

aesd_open(p) ==
  /\ loaded /\ pc[p] = "idle" /\ f_pos[p] = -1
  /\ f_pos' = [f_pos EXCEPT ![p] = 0]
  /\ UNCHANGED <<devVars, callVars, lock, heap, pc>>

aesd_release(p) ==
  /\ pc[p] = "idle" /\ f_pos[p] # -1
  /\ f_pos' = [f_pos EXCEPT ![p] = -1]
  /\ UNCHANGED <<devVars, callVars, lock, heap, pc>>

CallWrite(p, d) ==
  /\ f_pos[p] # -1 /\ entry.size <= MaxPartial
  /\ Goto(p, "idle", "write_lock")
  /\ data' = [data EXCEPT ![p] = d]
  /\ UNCHANGED <<devVars, lock, heap, f_pos, count, kbuf, found, retval>>

CallRead(p, c) ==
  /\ f_pos[p] # -1
  /\ Goto(p, "idle", "read_lock")
  /\ count' = [count EXCEPT ![p] = c]
  /\ UNCHANGED <<devVars, lock, heap, f_pos, data, kbuf, found, retval>>

\* Mutant: the mutex is taken although it is held.
Lock_NoWait(p) ==
  /\ \/ Goto(p, "write_lock", "write_kmalloc")
     \/ Goto(p, "read_lock", "read_find")
  /\ lock' = p
  /\ UNCHANGED <<devVars, callVars, heap, f_pos>>

\* mutex_lock_interruptible succeeds.
Lock(p) ==
  /\ lock = Nobody
  /\ \/ Goto(p, "write_lock", "write_kmalloc")
     \/ Goto(p, "read_lock", "read_find")
  /\ lock' = p
  /\ UNCHANGED <<devVars, callVars, heap, f_pos>>

\* A signal ends the wait for the mutex, which may just have been released;
\* the call returns -ERESTARTSYS.
Interrupted(p) ==
  /\ Return(p, "write_lock") \/ Return(p, "read_lock")
  /\ UNCHANGED <<devVars, lock, heap, f_pos>>

-----------------------------------------------------------------------------
(* aesd_write.                                                             *)

(***************************************************************************)
(* kbuf = kmalloc(count).  Bound: it succeeds only while another block is  *)
(* free, so that the krealloc that follows can find one.                   *)
(***************************************************************************)
Kmalloc(p) ==
  \/ \E a \in FreeAddrs :
       /\ FreeAddrs # {a}
       /\ Goto(p, "write_kmalloc", "write_copy")
       /\ heap' = [heap EXCEPT ![a] = Uninitialised(Len(data[p]))]
       /\ kbuf' = [kbuf EXCEPT ![p] = a]
       /\ UNCHANGED <<devVars, lock, f_pos, data, count, found, retval>>
  \/ /\ Goto(p, "write_kmalloc", "exit")
     /\ Result(p, "ENOMEM")
     /\ UNCHANGED <<devVars, lock, heap, f_pos>>

\* Mutant: a fault jumps to exit instead of exit_free.
CopyFromUser_NoFree(p) ==
  \/ /\ Goto(p, "write_copy", "write_krealloc")
     /\ heap' = [heap EXCEPT ![kbuf[p]] = data[p]]
     /\ UNCHANGED <<devVars, callVars, lock, f_pos>>
  \/ /\ Goto(p, "write_copy", "exit")
     /\ Result(p, "EFAULT")
     /\ UNCHANGED <<devVars, lock, heap, f_pos>>

CopyFromUser(p) ==
  \/ /\ Goto(p, "write_copy", "write_krealloc")
     /\ heap' = [heap EXCEPT ![kbuf[p]] = data[p]]
     /\ UNCHANGED <<devVars, callVars, lock, f_pos>>
  \/ /\ Goto(p, "write_copy", "exit_free")
     /\ Result(p, "EFAULT")
     /\ UNCHANGED <<devVars, lock, heap, f_pos>>

(***************************************************************************)
(* dev->entry.buffptr = krealloc(...): the block grows in place or moves.  *)
(* On failure the assignment overwrites the only pointer to the old block. *)
(***************************************************************************)
Krealloc(p) ==
  LET ptr == entry.buffptr
      n   == entry.size + copy_size(heap[kbuf[p]])
  IN  \/ /\ Goto(p, "write_krealloc", "write_store")
         /\ \E a \in FreeAddrs \cup ({ptr} \ {NULL}) :
              /\ heap' = [Kfree(heap, {ptr}) EXCEPT ![a] = Grown(ptr, n)]
              /\ entry' = [entry EXCEPT !.buffptr = a]
         /\ UNCHANGED <<loaded, buffer, callVars, lock, f_pos>>
      \/ /\ KreallocMayFail
         /\ Goto(p, "write_krealloc", "exit_free")
         /\ entry' = [entry EXCEPT !.buffptr = NULL]
         /\ Result(p, "ENOMEM")
         /\ UNCHANGED <<loaded, buffer, lock, heap, f_pos>>

(***************************************************************************)
(* The bytes go behind the partial command.  If they end it, the entry     *)
(* enters the circular buffer and dev->entry is reset.                     *)
(***************************************************************************)
StoreThen(p, reset) ==
  LET n == copy_size(heap[kbuf[p]])
      e == [entry EXCEPT !.size = @ + n]
  IN  /\ Goto(p, "write_store", "exit_free")
      /\ heap' = [heap EXCEPT ![entry.buffptr] =
                    Memcpy(@, entry.size, heap[kbuf[p]], n)]
      /\ IF newline_pos(heap[kbuf[p]]) = -1
         THEN entry' = e /\ UNCHANGED buffer
         ELSE /\ buffer' = aesd_circular_buffer_add_entry(buffer, e)
              /\ entry' = reset
      /\ Result(p, "count")
      /\ UNCHANGED <<loaded, lock, f_pos>>

\* Mutants: the reset forgets the pointer, or the size.
Store_KeepPointer(p) == StoreThen(p, [buffptr |-> entry.buffptr, size |-> 0])
Store_KeepSize(p) ==
  StoreThen(p, [buffptr |-> NULL, size |-> entry.size + copy_size(heap[kbuf[p]])])

Store(p) == StoreThen(p, NullEntry)

\* exit_free: kfree(kbuf).
ExitFree(p) ==
  /\ Goto(p, "exit_free", "exit")
  /\ heap' = Kfree(heap, {kbuf[p]})
  /\ kbuf' = [kbuf EXCEPT ![p] = NULL]
  /\ UNCHANGED <<devVars, lock, f_pos, data, count, found, retval>>

\* exit: mutex_unlock and return, of a write or of a read.
Exit(p) ==
  /\ Return(p, "exit") \/ Return(p, "read_exit")
  /\ lock' = Nobody
  /\ UNCHANGED <<devVars, heap, f_pos>>

-----------------------------------------------------------------------------
(* aesd_read.                                                              *)

\* Mutant: the return of 0 leaves the mutex locked.
Find_StaysLocked(p) ==
  LET e == aesd_circular_buffer_find_entry_offset_for_fpos(buffer, f_pos[p])
  IN  \/ /\ e = NULL
         /\ Return(p, "read_find")
         /\ UNCHANGED <<devVars, lock, heap, f_pos>>
      \/ /\ e # NULL
         /\ Goto(p, "read_find", "read_copy")
         /\ found' = [found EXCEPT ![p] = e]
         /\ UNCHANGED <<devVars, lock, heap, f_pos, data, count, kbuf, retval>>

(***************************************************************************)
(* The search for the position; when it lies beyond the data the call      *)
(* unlocks and returns 0.                                                  *)
(***************************************************************************)
Find(p) ==
  LET e == aesd_circular_buffer_find_entry_offset_for_fpos(buffer, f_pos[p])
  IN  \/ /\ e = NULL
         /\ Return(p, "read_find")
         /\ lock' = Nobody
         /\ UNCHANGED <<devVars, heap, f_pos>>
      \/ /\ e # NULL
         /\ Goto(p, "read_find", "read_copy")
         /\ found' = [found EXCEPT ![p] = e]
         /\ UNCHANGED <<devVars, lock, heap, f_pos, data, count, kbuf, retval>>

bytes_to_copy(p) ==
  LET left == buffer.entry[found[p].slot].size - found[p].offset
  IN  IF count[p] <= left THEN count[p] ELSE left

\* The bytes copy_to_user takes from the entry found.
CopiedBytes(p) ==
  SubSeq(heap[buffer.entry[found[p].slot].buffptr],
         found[p].offset + 1, found[p].offset + bytes_to_copy(p))

CopyToUser(p) ==
  \/ /\ Goto(p, "read_copy", "read_exit")
     /\ f_pos' = [f_pos EXCEPT ![p] = @ + bytes_to_copy(p)]
     /\ Result(p, "count")
     /\ UNCHANGED <<devVars, lock, heap>>
  \/ /\ Goto(p, "read_copy", "read_exit")
     /\ Result(p, "EFAULT")
     /\ UNCHANGED <<devVars, lock, heap, f_pos>>

-----------------------------------------------------------------------------
(* Module load and unload.                                                 *)

(***************************************************************************)
(* aesd_init_module zeroes the device, then makes it live with cdev_add;   *)
(* when that fails the load fails.                                         *)
(***************************************************************************)
aesd_init_module ==
  /\ ~loaded
  /\ buffer' = aesd_circular_buffer_init
  /\ entry' = NullEntry
  /\ lock' = Nobody
  /\ loaded' \in BOOLEAN
  /\ UNCHANGED <<callVars, heap, f_pos, pc>>

(***************************************************************************)
(* aesd_cleanup_module frees the partial command and every entry.  The     *)
(* kernel refuses to unload the module while a file is open, because       *)
(* aesd_fops.owner is THIS_MODULE.                                         *)
(***************************************************************************)
aesd_cleanup_module ==
  /\ loaded
  /\ \A p \in Procs : f_pos[p] = -1
  /\ heap' = Kfree(heap, {entry.buffptr} \cup {buffer.entry[i].buffptr : i \in Slots})
  /\ loaded' = FALSE
  /\ UNCHANGED <<buffer, entry, callVars, lock, f_pos, pc>>

-----------------------------------------------------------------------------
Init ==
  /\ loaded = FALSE
  /\ buffer = aesd_circular_buffer_init
  /\ entry = NullEntry
  /\ lock = Nobody
  /\ heap = [a \in Addr |-> FREE]
  /\ f_pos = [p \in Procs |-> -1]
  /\ pc = [p \in Procs |-> "idle"]
  /\ data = [p \in Procs |-> <<>>]
  /\ count = [p \in Procs |-> 0]
  /\ kbuf = [p \in Procs |-> NULL]
  /\ found = [p \in Procs |-> NULL]
  /\ retval = [p \in Procs |-> "none"]

\* The steps of a call that holds the mutex.
Locked(p) ==
  \/ Kmalloc(p) \/ CopyFromUser(p) \/ Krealloc(p) \/ Store(p) \/ ExitFree(p)
  \/ Find(p) \/ CopyToUser(p)
  \/ Exit(p)

Call(p) ==
  \/ aesd_open(p) \/ aesd_release(p)
  \/ \E d \in Payloads : CallWrite(p, d)
  \/ \E c \in Counts : CallRead(p, c)

Next ==
  \/ \E p \in Procs : Call(p) \/ Lock(p) \/ Interrupted(p) \/ Locked(p)
  \/ aesd_init_module
  \/ aesd_cleanup_module

Spec == Init /\ [][Next]_vars

(***************************************************************************)
(* A process that holds the mutex keeps running, and the kernel mutex      *)
(* hands over to its waiters, so that none is passed over for ever.  No    *)
(* signal is assumed to arrive.                                            *)
(***************************************************************************)
FairSpec ==
  /\ Spec
  /\ \A p \in Procs : WF_vars(Locked(p)) /\ SF_vars(Lock(p))

-----------------------------------------------------------------------------
(* Properties.                                                             *)

Content == Seq(Bytes \cup {Junk})
Entry   == [buffptr : Addr \cup {NULL}, size : Nat]

WritePCs == {"write_kmalloc", "write_copy", "write_krealloc", "write_store",
             "exit_free", "exit"}
ReadPCs  == {"read_find", "read_copy", "read_exit"}
Critical == WritePCs \cup ReadPCs

(***************************************************************************)
(* Type invariant, of the device and of the calls.                         *)
(***************************************************************************)
DeviceTypes ==
  /\ loaded \in BOOLEAN
  /\ buffer \in [entry : [Slots -> Entry], in_offs : Slots, out_offs : Slots, full : BOOLEAN]
  /\ entry \in Entry
  /\ lock \in Procs \cup {Nobody}
  /\ heap \in [Addr -> Content \cup {FREE}]

CallTypes ==
  /\ f_pos \in [Procs -> Nat \cup {-1}]
  /\ pc \in [Procs -> Critical \cup {"idle", "write_lock", "read_lock"}]
  /\ data \in [Procs -> Seq(Bytes)]
  /\ count \in [Procs -> Nat]
  /\ kbuf \in [Procs -> Addr \cup {NULL}]
  /\ found \in [Procs -> [slot : Slots, offset : Nat] \cup {NULL}]
  /\ retval \in [Procs -> {"none", "count", "ENOMEM", "EFAULT"}]

TypeOK == DeviceTypes /\ CallTypes

(***************************************************************************)
(* The shape the circular buffer keeps whatever is written: until it has   *)
(* wrapped it starts at slot 0 and the slots from in_offs on are empty;    *)
(* afterwards it stays full with both offsets equal.                       *)
(***************************************************************************)
RingShape ==
  /\ buffer.full => buffer.in_offs = buffer.out_offs
  /\ ~buffer.full => /\ buffer.out_offs = 0
                     /\ \A i \in Slots : i >= buffer.in_offs => buffer.entry[i] = NullEntry

(***************************************************************************)
(* The heap blocks in use: those of the stored commands, of the partial    *)
(* command and of the writes under way.                                    *)
(***************************************************************************)
Occupied  == {i \in Slots : buffer.full \/ i < buffer.in_offs}
RingPtrs  == {buffer.entry[i].buffptr : i \in Slots} \ {NULL}
DevPtrs   == IF loaded THEN RingPtrs \cup ({entry.buffptr} \ {NULL}) ELSE {}
KbufPtrs  == {kbuf[p] : p \in Procs} \ {NULL}
Allocated == Addr \ FreeAddrs
Lost      == Allocated \ (DevPtrs \cup KbufPtrs)

(***************************************************************************)
(* No block has two owners and no owner's block has been freed, so that no *)
(* kfree is a double free (in krealloc, at exit_free, in                   *)
(* aesd_cleanup_module) and no read or memcpy touches a freed block, on    *)
(* every error path and for any interleaving of calls.                     *)
(***************************************************************************)
MemorySafe ==
  /\ \A p \in Procs : kbuf[p] # NULL =>
       /\ heap[kbuf[p]] # FREE
       /\ kbuf[p] \notin DevPtrs
       /\ \A q \in Procs \ {p} : kbuf[q] # kbuf[p]
  /\ loaded =>
       /\ \A i \in Occupied : /\ buffer.entry[i].buffptr # NULL
                              /\ heap[buffer.entry[i].buffptr] # FREE
                              /\ buffer.entry[i].buffptr # entry.buffptr
       /\ \A i, j \in Occupied :
            i # j => buffer.entry[i].buffptr # buffer.entry[j].buffptr
       /\ entry.buffptr # NULL => heap[entry.buffptr] # FREE

(***************************************************************************)
(* The discipline behind these properties, together inductive: the process *)
(* between its lock and its unlock owns the mutex, and what it has read of *)
(* the device (the entry found, the block grown for its bytes, its kbuf)   *)
(* is still true when it uses it.                                          *)
(***************************************************************************)
MutexHeld == \A p \in Procs : pc[p] \in Critical <=> lock = p

FilesOpen ==
  \A p \in Procs : /\ pc[p] # "idle" => f_pos[p] # -1
                   /\ f_pos[p] # -1 => loaded

KbufHolds ==
  \A p \in Procs :
    /\ kbuf[p] # NULL <=>
         pc[p] \in {"write_copy", "write_krealloc", "write_store", "exit_free"}
    /\ pc[p] \in {"write_krealloc", "write_store"} => heap[kbuf[p]] = data[p]

FoundHolds ==
  \A p \in Procs : pc[p] = "read_copy" =>
    found[p] # NULL /\ found[p].offset < buffer.entry[found[p].slot].size

RoomHolds ==
  \A p \in Procs : pc[p] = "write_store" =>
    entry.buffptr # NULL /\ Len(heap[entry.buffptr]) = entry.size + copy_size(data[p])

IInv ==
  /\ TypeOK /\ RingShape /\ MemorySafe
  /\ MutexHeld /\ FilesOpen /\ KbufHolds /\ FoundHolds /\ RoomHolds

(***************************************************************************)
(* aesd-circular-buffer.h describes the size member of an entry as the     *)
(* "Number of bytes stored in buffptr".  Whenever no call is inside the    *)
(* driver, that is so for the partial command and for every stored one.    *)
(***************************************************************************)
StoredBytes(e) == IF e.buffptr = NULL THEN 0 ELSE Len(heap[e.buffptr])

SizeIsBytesStored ==
  loaded /\ lock = Nobody =>
    /\ entry.size = StoredBytes(entry)
    /\ \A i \in Slots : buffer.entry[i].size = StoredBytes(buffer.entry[i])

(***************************************************************************)
(* Why it is so, and why the driver implements the command log below, when *)
(* krealloc does not fail.  Only the process between krealloc and the      *)
(* copying of its bytes sees a partial command in a block larger than      *)
(* entry.size; and a call has a result only on its way out.                *)
(***************************************************************************)
SizesHold ==
  loaded =>
    /\ (\A p \in Procs : pc[p] # "write_store") => entry.size = StoredBytes(entry)
    /\ \A i \in Slots : buffer.entry[i].size = StoredBytes(buffer.entry[i])

ResultsHold ==
  \A p \in Procs :
    /\ pc[p] \notin {"exit_free", "exit", "read_exit"} => retval[p] = "none"
    /\ pc[p] \notin WritePCs \cup {"write_lock"} => data[p] = <<>>

LogInv == IInv /\ SizesHold /\ ResultsHold

(***************************************************************************)
(* When krealloc does not fail, the one place where the driver loses a     *)
(* block is the overwriting of the oldest entry of a full buffer: no error *)
(* path of a call and no unloading of the module leaves a block behind.    *)
(***************************************************************************)
LeaksOnlyOnEviction ==
  [][Lost' \subseteq Lost \/ (buffer.full /\ buffer' # buffer)]_vars

(***************************************************************************)
(* Every call returns: each path through aesd_read and aesd_write releases *)
(* the mutex, so that no call waits for it for ever.                       *)
(***************************************************************************)
CallsReturn == \A p \in Procs : pc[p] # "idle" ~> pc[p] = "idle"

-----------------------------------------------------------------------------
(* Refinement: the driver implements the command log.                      *)

\* The stored commands, oldest first.
Lines ==
  IF loaded
  THEN [i \in 1 .. Held(buffer) |-> heap[buffer.entry[SlotAt(buffer, i - 1)].buffptr]]
  ELSE <<>>

Partial ==
  IF loaded /\ entry.buffptr # NULL THEN SubSeq(heap[entry.buffptr], 1, entry.size) ELSE <<>>

Status ==
  [p \in Procs |->
     IF pc[p] \notin WritePCs \cup {"write_lock"} THEN "idle"
     ELSE IF retval[p] = "count" THEN "applied" ELSE "called"]

Log == INSTANCE CommandLog
         WITH lines <- Lines, partial <- Partial, status <- Status, payload <- data

(***************************************************************************)
(* As long as krealloc does not fail, the driver's writes behave as atomic *)
(* operations on a log of the last N commands: each successful write is    *)
(* applied exactly once, between its call and its return, and the buffer   *)
(* holds the last N commands in order.                                     *)
(***************************************************************************)
ImplementsCommandLog == Log!LogSpec
=============================================================================
