-------------------------- MODULE AesdCharLogProofs --------------------------
(***************************************************************************)
(* The character driver is the command log, as long as krealloc does not   *)
(* fail: for any number of processes, entries, heap blocks and byte        *)
(* strings, its writes are atomic operations on the last N commands, the   *)
(* sizes it records are those of its blocks, and it loses a block only     *)
(* when it overwrites the oldest command of a full buffer.                 *)
(***************************************************************************)
EXTENDS AesdCharProofs

-----------------------------------------------------------------------------
(* Offsets and bytes.                                                      *)

\* Reduction modulo N of the sum of two offsets.
LEMMA WrapSum ==
  ASSUME NEW x \in 0 .. 2 * N - 1
  PROVE  x % N = IF x < N THEN x ELSE x - N
<1>1. N \in Nat /\ N > 0
  BY NAssumption
<1>2. CASE x < N
  BY <1>1, <1>2
<1>3. CASE ~(x < N)
  <2>1. PICK y \in 0 .. N - 1 : x = y + N
    BY <1>1, <1>3
  <2>2. (y + N) % N = y
    BY <1>1, <2>1
  <2>3. x - N = y
    BY <1>1, <2>1
  <2> QED BY <1>3, <2>1, <2>2, <2>3
<1> QED BY <1>2, <1>3

\* The slots of the stored commands, in reading order, are occupied.
LEMMA SlotOccupied ==
  ASSUME IInv, NEW i \in 1 .. Held(buffer)
  PROVE  /\ SlotAt(buffer, i - 1) \in Occupied
         /\ ~buffer.full => SlotAt(buffer, i - 1) = i - 1
<1> USE DEF IInv, TypeOK, DeviceTypes, RingShape, SlotAt, entry_index, Held, Occupied, Slots
<1>1. N \in Nat /\ N > 0 /\ buffer.in_offs \in Slots /\ buffer.out_offs \in Slots
  BY NAssumption
<1>2. CASE buffer.full
  <2>1. i - 1 \in Slots
    BY <1>1, <1>2
  <2> QED BY <1>1, <1>2, <2>1, WrapAny
<1>3. CASE ~buffer.full
  <2>1. i - 1 \in Slots /\ i - 1 < buffer.in_offs /\ buffer.out_offs = 0
    BY <1>1, <1>3
  <2>2. (0 + (i - 1)) % N = i - 1
    BY <1>1, <2>1, WrapSum
  <2> QED BY <1>3, <2>1, <2>2
<1> QED BY <1>2, <1>3

\* Two blocks of the same bytes are the same.
LEMMA SameBytes ==
  ASSUME NEW s \in Content, NEW t \in Content, Len(s) = Len(t),
         \A i \in 1 .. Len(s) : s[i] = t[i]
  PROVE  s = t
BY DEF Content

(***************************************************************************)
(* memcpy behind the bytes already there, into room for exactly the new    *)
(* ones, appends them.                                                     *)
(***************************************************************************)
LEMMA MemcpyAppends ==
  ASSUME NEW dst \in Content, NEW d \in Seq(Bytes), NEW n \in 0 .. Len(d),
         NEW size \in Nat, Len(dst) = size + n
  PROVE  /\ Memcpy(dst, size, d, n) = SubSeq(dst, 1, size) \o SubSeq(d, 1, n)
         /\ Len(Memcpy(dst, size, d, n)) = size + n
<1> DEFINE old == SubSeq(dst, 1, size)
           new == SubSeq(d, 1, n)
           all == Memcpy(dst, size, d, n)
<1>1. /\ old \in Content /\ Len(old) = size
      /\ \A i \in 1 .. size : old[i] = dst[i]
  BY DEF Content
<1>2. /\ new \in Seq(Bytes) /\ Len(new) = n
      /\ \A i \in 1 .. n : new[i] = d[i]
  OBVIOUS
<1>22. new \in Content
  BY <1>2 DEF Content
<1>3. /\ all \in Content /\ Len(all) = size + n
      /\ \A i \in 1 .. size + n : all[i] = IF size < i THEN d[i - size] ELSE dst[i]
  <2>1. all \in Content
    BY MemcpyContent
  <2>2. all = [i \in 1 .. size + n |->
                 IF size < i /\ i <= size + n THEN d[i - size] ELSE dst[i]]
    BY DEF Memcpy
  <2> HIDE DEF all
  <2>3. \A i \in 1 .. size + n : all[i] = IF size < i THEN d[i - size] ELSE dst[i]
    BY <2>2
  <2>4. Len(all) = size + n
    BY <2>2
  <2> QED BY <2>1, <2>3, <2>4
<1> HIDE DEF old, new, all
<1>4. /\ old \o new \in Content /\ Len(old \o new) = size + n
      /\ \A i \in 1 .. size + n : (old \o new)[i] = IF size < i THEN new[i - size] ELSE old[i]
  BY <1>1, <1>22, <1>2 DEF Content
<1>5. ASSUME NEW i \in 1 .. size + n PROVE all[i] = (old \o new)[i]
  <2>1. CASE size < i
    <3>1. i - size \in 1 .. n
      BY <2>1
    <3> QED BY <2>1, <3>1, <1>2, <1>3, <1>4
  <2>2. CASE ~(size < i)
    <3>1. i \in 1 .. size
      BY <2>2
    <3> QED BY <2>2, <3>1, <1>1, <1>3, <1>4
  <2> QED BY <2>1, <2>2
<1>6. all = old \o new
  BY <1>3, <1>4, <1>5, SameBytes
<1> QED BY <1>3, <1>6 DEF all, old, new

\* The scan of aesd_write and the log agree on where a command ends.
LEMMA SameCommand ==
  ASSUME NEW d \in Seq(Bytes)
  PROVE  /\ newline_pos(d) = -1 <=> ~Log!HasNewline(d)
         /\ copy_size(d) = Log!CopySize(d)
<1> DEFINE first == CHOOSE i \in DOMAIN d :
                      d[i] = NL /\ \A j \in DOMAIN d : d[j] = NL => i <= j
           T == {i \in DOMAIN d : d[i] = NL}
<1>1. CASE ~Log!HasNewline(d)
  BY <1>1 DEF newline_pos, copy_size, Log!HasNewline, Log!CopySize
<1>2. CASE Log!HasNewline(d)
  <2>1. T \subseteq Nat /\ T # {}
    BY <1>2 DEF Log!HasNewline
  <2> HIDE DEF T
  <2>2. PICK i \in T : \A j \in T : i <= j
    BY <2>1, LeastNatural
  <2>3. \E k \in DOMAIN d : d[k] = NL /\ \A j \in DOMAIN d : d[j] = NL => k <= j
    BY <2>2 DEF T
  <2>4. first \in 1 .. Len(d)
    BY <2>3
  <2>5. newline_pos(d) = first - 1 /\ Log!CopySize(d) = first
    BY <1>2 DEF newline_pos, Log!CopySize, Log!HasNewline
  <2> HIDE DEF first
  <2> QED BY <1>2, <2>4, <2>5 DEF copy_size
<1> QED BY <1>1, <1>2

-----------------------------------------------------------------------------
(* The steps that leave the device alone.                                  *)

(***************************************************************************)
(* What the device holds changes only with its record and its own blocks.  *)
(***************************************************************************)
LEMMA DeviceKept ==
  ASSUME LogInv, UNCHANGED devVars, \A a \in DevPtrs : heap'[a] = heap[a],
         (\E p \in Procs : pc[p] = "write_store") => \E p \in Procs : pc'[p] = "write_store"
  PROVE  Lines' = Lines /\ Partial' = Partial /\ SizesHold'
<1> USE DEF LogInv, devVars
<1>1. CASE ~loaded
  BY <1>1 DEF Lines, Partial, SizesHold
<1>2. CASE loaded
  <2> USE <1>2
  <2>1. /\ \A i \in Occupied : heap'[buffer.entry[i].buffptr] = heap[buffer.entry[i].buffptr]
        /\ entry.buffptr # NULL => heap'[entry.buffptr] = heap[entry.buffptr]
    BY DeviceBlocks
  <2>2. Lines' = Lines
    <3>1. \A i \in 1 .. Held(buffer) :
            heap'[buffer.entry[SlotAt(buffer, i - 1)].buffptr]
              = heap[buffer.entry[SlotAt(buffer, i - 1)].buffptr]
      BY <2>1, SlotOccupied
    <3>2. Held(buffer)' = Held(buffer) /\ \A i : SlotAt(buffer, i)' = SlotAt(buffer, i)
      BY DEF Held, SlotAt
    <3> QED BY <3>1, <3>2 DEF Lines
  <2>3. Partial' = Partial
    BY <2>1 DEF Partial
  <2>4. SizesHold'
    <3>1. entry.size = StoredBytes(entry) => (entry.size = StoredBytes(entry))'
      BY <2>1 DEF StoredBytes
    <3>2. ASSUME NEW i \in Slots
          PROVE  (buffer.entry[i].size = StoredBytes(buffer.entry[i]))'
      <4>1. buffer.entry[i].buffptr # NULL => buffer.entry[i].buffptr \in DevPtrs
        BY DEF DevPtrs, RingPtrs
      <4> QED BY <4>1 DEF SizesHold, StoredBytes
    <3> QED BY <3>1, <3>2 DEF SizesHold
  <2> QED BY <2>2, <2>3, <2>4
<1> QED BY <1>1, <1>2

\* The status of a call depends on the position and the result of that call.
LEMMA OneStatus ==
  ASSUME NEW p \in Procs,
         \A q \in Procs \ {p} : pc'[q] = pc[q] /\ retval'[q] = retval[q]
  PROVE  /\ Status' = [Status EXCEPT ![p] = Status'[p]]
         /\ Status'[p] = Status[p] => Status' = Status
BY DEF Status

\* Opening, closing, the start of a read and the taking of the mutex.
LEMMA LogBegin ==
  ASSUME LogInv, NEW p \in Procs,
         \/ aesd_open(p) \/ aesd_release(p)
         \/ \E c \in Counts : CallRead(p, c)
         \/ Lock(p)
  PROVE  SizesHold' /\ ResultsHold' /\ UNCHANGED Log!logVars
<1> USE DEF LogInv, IInv, TypeOK, CallTypes
<1>1. /\ UNCHANGED <<devVars, heap, data, retval>>
      /\ \/ pc' = pc
         \/ pc[p] = "idle" /\ pc' = [pc EXCEPT ![p] = "read_lock"]
         \/ pc[p] = "write_lock" /\ pc' = [pc EXCEPT ![p] = "write_kmalloc"]
         \/ pc[p] = "read_lock" /\ pc' = [pc EXCEPT ![p] = "read_find"]
  BY DEF aesd_open, aesd_release, CallRead, Lock, Goto, callVars
<1>2. Lines' = Lines /\ Partial' = Partial /\ SizesHold'
  BY <1>1, DeviceKept
<1>3. Status' = Status
  BY <1>1, OneStatus DEF Status, WritePCs
<1>4. ResultsHold'
  BY <1>1 DEF ResultsHold, WritePCs
<1> QED BY <1>1, <1>2, <1>3, <1>4 DEF Log!logVars

\* A write call begins.
LEMMA LogInvoke ==
  ASSUME LogInv, NEW p \in Procs, NEW d \in Payloads, CallWrite(p, d)
  PROVE  SizesHold' /\ ResultsHold' /\ Log!Invoke(p, d)
<1> USE DEF LogInv, IInv, TypeOK, CallTypes
<1>1. /\ UNCHANGED <<devVars, heap, retval>>
      /\ pc[p] = "idle" /\ pc' = [pc EXCEPT ![p] = "write_lock"]
      /\ data' = [data EXCEPT ![p] = d]
  BY DEF CallWrite, Goto
<1>2. Lines' = Lines /\ Partial' = Partial /\ SizesHold'
  BY <1>1, DeviceKept
<1>3. Status[p] = "idle" /\ Status' = [Status EXCEPT ![p] = "called"]
  <2>1. retval[p] = "none"
    BY <1>1 DEF ResultsHold
  <2>2. Status[p] = "idle" /\ Status'[p] = "called"
    BY <1>1, <2>1 DEF Status, WritePCs
  <2> QED BY <1>1, <2>2, OneStatus
<1>4. ResultsHold'
  BY <1>1 DEF ResultsHold, WritePCs
<1> QED BY <1>1, <1>2, <1>3, <1>4 DEF Log!Invoke

(***************************************************************************)
(* The steps of a write that only its own buffer sees, and those of a read *)
(* under the mutex up to its return.                                       *)
(***************************************************************************)
LEMMA LogUnseen ==
  ASSUME LogInv, NEW p \in Procs,
         Kmalloc(p) \/ CopyFromUser(p) \/ ExitFree(p) \/ CopyToUser(p)
  PROVE  SizesHold' /\ ResultsHold' /\ UNCHANGED Log!logVars
<1> USE DEF LogInv, IInv, TypeOK, CallTypes
<1>1. /\ UNCHANGED <<devVars, data>>
      /\ \/ /\ pc[p] = "write_kmalloc" /\ pc' = [pc EXCEPT ![p] = "write_copy"]
            /\ retval' = retval
         \/ /\ pc[p] = "write_kmalloc" /\ pc' = [pc EXCEPT ![p] = "exit"]
            /\ retval' = [retval EXCEPT ![p] = "ENOMEM"]
         \/ /\ pc[p] = "write_copy" /\ pc' = [pc EXCEPT ![p] = "write_krealloc"]
            /\ retval' = retval
         \/ /\ pc[p] = "write_copy" /\ pc' = [pc EXCEPT ![p] = "exit_free"]
            /\ retval' = [retval EXCEPT ![p] = "EFAULT"]
         \/ /\ pc[p] = "exit_free" /\ pc' = [pc EXCEPT ![p] = "exit"]
            /\ retval' = retval
         \/ /\ pc[p] = "read_copy" /\ pc' = [pc EXCEPT ![p] = "read_exit"]
            /\ \E r : retval' = [retval EXCEPT ![p] = r]
  BY DEF Kmalloc, CopyFromUser, ExitFree, CopyToUser, Goto, Result, callVars
<1>2. \A a \in DevPtrs : heap'[a] = heap[a]
  <2>1. CASE heap' = heap
    BY <2>1
  <2>2. CASE \E a \in FreeAddrs : heap' = [heap EXCEPT ![a] = Uninitialised(Len(data[p]))]
    <3>1. PICK a \in FreeAddrs : heap' = [heap EXCEPT ![a] = Uninitialised(Len(data[p]))]
      BY <2>2
    <3>2. a \notin DevPtrs
      BY FreeIsUnowned DEF FreeAddrs
    <3> QED BY <3>1, <3>2 DEF DeviceTypes, DevPtrs, RingPtrs, Entry
  <2>3. CASE /\ pc[p] \in {"write_copy", "exit_free"}
             /\ \/ heap' = [heap EXCEPT ![kbuf[p]] = data[p]]
                \/ heap' = Kfree(heap, {kbuf[p]})
    <3>1. kbuf[p] \notin DevPtrs
      BY <2>3 DEF KbufHolds, MemorySafe
    <3>2. DevPtrs \subseteq Addr
      BY DEF DevPtrs, RingPtrs, DeviceTypes, Entry
    <3> QED BY <2>3, <3>1, <3>2 DEF DeviceTypes, Kfree
  <2> QED BY <2>1, <2>2, <2>3 DEF Kmalloc, CopyFromUser, ExitFree, CopyToUser, Goto
<1>3. Lines' = Lines /\ Partial' = Partial /\ SizesHold'
  <2>1. ASSUME NEW q \in Procs, pc[q] = "write_store" PROVE pc'[q] = "write_store"
    BY <1>1, <2>1
  <2> QED BY <1>1, <1>2, <2>1, DeviceKept
<1>4. Status' = Status
  <2>1. Status'[p] = Status[p]
    BY <1>1 DEF Status, WritePCs, ResultsHold
  <2> QED BY <1>1, <2>1, OneStatus
<1>5. ResultsHold'
  BY <1>1 DEF ResultsHold, WritePCs
<1> QED BY <1>1, <1>3, <1>4, <1>5 DEF Log!logVars

(***************************************************************************)
(* The end of a call: a write returns its count if it was applied, and an  *)
(* error otherwise; the end of a read is not seen.                         *)
(***************************************************************************)
LEMMA LogEnd ==
  ASSUME LogInv, NEW p \in Procs, NEW from, Return(p, from),
         from \in {"write_lock", "read_lock", "exit", "read_exit", "read_find"},
         UNCHANGED <<devVars, heap>>
  PROVE  /\ SizesHold' /\ ResultsHold'
         /\ Log!Return(p) \/ Log!Reject(p) \/ UNCHANGED Log!logVars
<1> USE DEF LogInv, IInv, TypeOK, CallTypes
<1>1. /\ pc[p] = from /\ pc' = [pc EXCEPT ![p] = "idle"]
      /\ data' = [data EXCEPT ![p] = <<>>]
      /\ retval' = [retval EXCEPT ![p] = "none"]
  BY DEF Return, Goto
<1>2. Lines' = Lines /\ Partial' = Partial /\ SizesHold'
  <2>1. ASSUME NEW q \in Procs, pc[q] = "write_store" PROVE pc'[q] = "write_store"
    BY <1>1, <2>1
  <2> QED BY <2>1, DeviceKept
<1>3. Status'[p] = "idle" /\ Status' = [Status EXCEPT ![p] = Status'[p]]
  BY <1>1, OneStatus DEF Status, WritePCs
<1>4. ResultsHold'
  BY <1>1 DEF ResultsHold
<1>5. CASE from \in {"write_lock", "exit"}
  <2>1. Status[p] \in {"called", "applied"}
    BY <1>1, <1>5 DEF Status, WritePCs
  <2> QED BY <1>1, <1>2, <1>3, <1>4, <2>1 DEF Log!Return, Log!Reject
<1>6. CASE from \notin {"write_lock", "exit"}
  <2>1. Status[p] = "idle" /\ data[p] = <<>>
    BY <1>1, <1>6 DEF Status, WritePCs, ResultsHold
  <2>2. Status' = Status /\ data' = data
    BY <1>1, <1>3, <2>1, OneStatus
  <2> QED BY <1>2, <1>4, <2>2 DEF Log!logVars
<1> QED BY <1>5, <1>6

\* The search of a read is not seen.
LEMMA LogFind ==
  ASSUME LogInv, NEW p \in Procs, Find(p)
  PROVE  /\ SizesHold' /\ ResultsHold'
         /\ Log!Return(p) \/ Log!Reject(p) \/ UNCHANGED Log!logVars
<1>1. CASE Return(p, "read_find") /\ UNCHANGED <<devVars, heap>>
  BY <1>1, LogEnd
<1>2. CASE /\ pc[p] = "read_find" /\ pc' = [pc EXCEPT ![p] = "read_copy"]
           /\ UNCHANGED <<devVars, heap, data, retval>>
  <2> USE <1>2 DEF LogInv, IInv, TypeOK, CallTypes
  <2>1. Lines' = Lines /\ Partial' = Partial /\ SizesHold'
    <3>1. ASSUME NEW q \in Procs, pc[q] = "write_store" PROVE pc'[q] = "write_store"
      BY <3>1
    <3> QED BY <3>1, DeviceKept
  <2>2. Status' = Status
    BY OneStatus DEF Status, WritePCs
  <2>3. ResultsHold'
    BY DEF ResultsHold, WritePCs
  <2> QED BY <2>1, <2>2, <2>3 DEF Log!logVars
<1> QED BY <1>1, <1>2 DEF Find, Goto

-----------------------------------------------------------------------------
(* The steps that change the device.                                       *)

(***************************************************************************)
(* krealloc, when it does not fail, keeps the bytes of the partial command *)
(* and leaves the stored ones where they are.                              *)
(***************************************************************************)
LEMMA LogKrealloc ==
  ASSUME LogInv, ~KreallocMayFail, NEW p \in Procs, Krealloc(p)
  PROVE  SizesHold' /\ ResultsHold' /\ UNCHANGED Log!logVars
<1> USE DEF LogInv, IInv, TypeOK, CallTypes, DeviceTypes
<1> DEFINE ptr == entry.buffptr
           n   == entry.size + copy_size(heap[kbuf[p]])
<1>1. PICK a \in FreeAddrs \cup ({ptr} \ {NULL}) :
        /\ heap' = [Kfree(heap, {ptr}) EXCEPT ![a] = Grown(ptr, n)]
        /\ entry' = [entry EXCEPT !.buffptr = a]
  BY DEF Krealloc
<1>2. /\ pc[p] = "write_krealloc" /\ pc' = [pc EXCEPT ![p] = "write_store"]
      /\ UNCHANGED <<loaded, buffer, data, retval>>
  BY DEF Krealloc, Goto, callVars
<1>3. loaded
  BY <1>2 DEF FilesOpen
<1>4. \A q \in Procs : pc[q] # "write_store"
  BY <1>2 DEF MutexHeld, Critical, WritePCs
<1>5. ptr \in Addr \cup {NULL} /\ entry.size \in Nat
  BY DEF Entry
<1>6. a \in Addr /\ a # NULL
  BY <1>5, CharAssumption DEF FreeAddrs
<1>7. heap'[a] = Grown(ptr, n)
  BY <1>1, <1>6 DEF Kfree
<1>8. \A b \in Addr : b \notin {a, ptr} => heap'[b] = heap[b]
  BY <1>1, <1>6 DEF Kfree
<1>9. \A i \in Slots : buffer.entry[i].buffptr # NULL =>
        /\ buffer.entry[i].buffptr \in Addr \ {a, ptr}
        /\ heap'[buffer.entry[i].buffptr] = heap[buffer.entry[i].buffptr]
  <2> SUFFICES ASSUME NEW i \in Slots, buffer.entry[i].buffptr # NULL
               PROVE  buffer.entry[i].buffptr \in Addr \ {a, ptr}
    BY <1>8
  <2>1. i \in Occupied
    BY DEF RingShape, Occupied, NullEntry, Slots
  <2>2. buffer.entry[i].buffptr \in Addr /\ buffer.entry[i].buffptr # ptr
    BY <1>3, <2>1, DeviceBlocks DEF MemorySafe
  <2>3. heap[buffer.entry[i].buffptr] # FREE
    BY <1>3, <2>1 DEF MemorySafe
  <2> QED BY <2>2, <2>3 DEF FreeAddrs
<1>10. Lines' = Lines
  <2>1. \A i \in 1 .. Held(buffer) :
          heap'[buffer.entry[SlotAt(buffer, i - 1)].buffptr]
            = heap[buffer.entry[SlotAt(buffer, i - 1)].buffptr]
    <3> SUFFICES ASSUME NEW i \in 1 .. Held(buffer)
                 PROVE  heap'[buffer.entry[SlotAt(buffer, i - 1)].buffptr]
                          = heap[buffer.entry[SlotAt(buffer, i - 1)].buffptr]
      OBVIOUS
    <3>1. SlotAt(buffer, i - 1) \in Occupied
      BY SlotOccupied
    <3>2. /\ SlotAt(buffer, i - 1) \in Slots
          /\ buffer.entry[SlotAt(buffer, i - 1)].buffptr # NULL
      BY <1>3, <3>1 DEF MemorySafe, Occupied
    <3> QED BY <3>2, <1>9
  <2>2. Held(buffer)' = Held(buffer) /\ \A i : SlotAt(buffer, i)' = SlotAt(buffer, i)
    BY <1>2 DEF Held, SlotAt
  <2> QED BY <1>2, <1>3, <2>1, <2>2 DEF Lines
<1>11. Partial' = Partial
  <2>1. entry'.buffptr = a /\ entry'.size = entry.size
    BY <1>1, <1>6 DEF Entry
  <2>2. n \in Nat /\ entry.size <= n
    <3>1. copy_size(heap[kbuf[p]]) \in Nat
      BY <1>2, CopySizeBound DEF KbufHolds
    <3> QED BY <1>5, <3>1
  <2>3. entry.size = StoredBytes(entry)
    BY <1>3, <1>4 DEF SizesHold
  <2> HIDE DEF n
  <2>4. CASE ptr = NULL
    <3>1. entry.size = 0
      BY <2>3, <2>4 DEF StoredBytes
    <3>2. SubSeq(heap'[a], 1, 0) = <<>>
      OBVIOUS
    <3> QED BY <2>1, <2>4, <3>1, <3>2, <1>2, <1>3, <1>6 DEF Partial
  <2>5. CASE ptr # NULL
    <3>1. heap[ptr] \in Content /\ Len(heap[ptr]) = entry.size
      BY <1>3, <2>3, <2>5, DeviceBlocks DEF StoredBytes
    <3>2. /\ Grown(ptr, n) \in Content /\ Len(Grown(ptr, n)) = n
          /\ \A i \in 1 .. entry.size : Grown(ptr, n)[i] = heap[ptr][i]
      <4>1. Grown(ptr, n) \in Content /\ Len(Grown(ptr, n)) = n
        BY <2>2, <3>1, GrownContent
      <4>2. \A i \in 1 .. n :
              Grown(ptr, n)[i] = IF i <= Len(heap[ptr]) THEN heap[ptr][i] ELSE Junk
        BY <2>5 DEF Grown
      <4> QED BY <1>5, <2>2, <3>1, <4>1, <4>2
    <3> DEFINE new == SubSeq(Grown(ptr, n), 1, entry.size)
               old == SubSeq(heap[ptr], 1, entry.size)
    <3>3. /\ new \in Content /\ Len(new) = entry.size
          /\ \A i \in 1 .. entry.size : new[i] = Grown(ptr, n)[i]
      BY <1>5, <2>2, <3>2 DEF Content
    <3>4. /\ old \in Content /\ Len(old) = entry.size
          /\ \A i \in 1 .. entry.size : old[i] = heap[ptr][i]
      BY <1>5, <3>1 DEF Content
    <3> HIDE DEF new, old
    <3>5. new = old
      BY <1>5, <3>2, <3>3, <3>4, SameBytes
    <3> QED BY <2>1, <2>5, <3>5, <1>2, <1>3, <1>6, <1>7 DEF Partial, new, old
  <2> QED BY <2>4, <2>5
<1>12. SizesHold'
  <2>1. pc'[p] = "write_store"
    BY <1>2
  <2>2. ASSUME NEW i \in Slots
        PROVE  (buffer.entry[i].size = StoredBytes(buffer.entry[i]))'
    BY <1>2, <1>3, <1>9 DEF SizesHold, StoredBytes
  <2> QED BY <2>1, <2>2 DEF SizesHold
<1>13. Status' = Status
  BY <1>2, OneStatus DEF Status, WritePCs
<1>14. ResultsHold'
  BY <1>2 DEF ResultsHold, WritePCs
<1> QED BY <1>2, <1>10, <1>11, <1>12, <1>13, <1>14 DEF Log!logVars

(***************************************************************************)
(* add_entry in reading order: the new entry is the last; a full buffer    *)
(* forgets its first entry and the others move up by one.                  *)
(***************************************************************************)
LEMMA AddEntryOrder ==
  ASSUME DeviceTypes, RingShape, NEW e \in Entry,
         buffer' = aesd_circular_buffer_add_entry(buffer, e)
  PROVE  LET first == IF buffer.full THEN 1 ELSE 0
         IN  /\ Held(buffer) \in 0 .. N /\ (buffer.full <=> Held(buffer) = N)
             /\ Held(buffer') = Held(buffer) + 1 - first
             /\ SlotAt(buffer', Held(buffer') - 1) = buffer.in_offs
             /\ \A i \in 0 .. Held(buffer') - 2 :
                  /\ SlotAt(buffer', i) = SlotAt(buffer, i + first)
                  /\ SlotAt(buffer', i) # buffer.in_offs
<1> DEFINE in  == buffer.in_offs
           out == buffer.out_offs
<1> USE DEF SlotAt, entry_index, Held
<1>1. /\ N \in Nat /\ N > 0
      /\ in \in 0 .. N - 1 /\ out \in 0 .. N - 1 /\ buffer.full \in BOOLEAN
  BY NAssumption DEF DeviceTypes, Slots
<1>2. /\ buffer'.in_offs = (in + 1) % N
      /\ buffer'.out_offs = IF buffer.full THEN (out + 1) % N ELSE out
      /\ buffer'.full <=> buffer'.in_offs = buffer'.out_offs
  BY DEF aesd_circular_buffer_add_entry
<1>3. /\ (in + 1) % N = IF in + 1 = N THEN 0 ELSE in + 1
      /\ (out + 1) % N = IF out + 1 = N THEN 0 ELSE out + 1
  BY <1>1, Wrap DEF Slots
<1>4. CASE ~buffer.full
  <2>1. out = 0 /\ buffer'.out_offs = 0 /\ Held(buffer) = in
    BY <1>2, <1>4 DEF RingShape
  <2>2. Held(buffer') = in + 1
    <3>1. CASE in + 1 = N
      BY <1>2, <1>3, <2>1, <3>1
    <3>2. CASE in + 1 # N
      BY <1>1, <1>2, <1>3, <2>1, <3>2
    <3> QED BY <3>1, <3>2
  <2>3. \A i \in 0 .. in : (0 + i) % N = i
    BY <1>1, WrapSum
  <2>4. \A i \in 0 .. in : SlotAt(buffer', i) = i /\ SlotAt(buffer, i) = i
    BY <2>1, <2>3
  <2> HIDE DEF SlotAt, Held
  <2>5. SlotAt(buffer', Held(buffer') - 1) = in
    BY <1>1, <2>2, <2>4
  <2>6. ASSUME NEW i \in 0 .. Held(buffer') - 2
        PROVE  SlotAt(buffer', i) = SlotAt(buffer, i + 0) /\ SlotAt(buffer', i) # in
    <3>1. i \in 0 .. in /\ i + 0 = i /\ i < in
      BY <1>1, <2>2
    <3> QED BY <2>4, <3>1
  <2> QED BY <1>1, <1>4, <2>1, <2>2, <2>5, <2>6
<1>5. CASE buffer.full
  <2>1. in = out /\ buffer'.out_offs = (out + 1) % N /\ Held(buffer) = N
    BY <1>2, <1>5 DEF RingShape
  <2>2. Held(buffer') = N
    BY <1>2, <2>1
  <2>3. (buffer'.out_offs + (N - 1)) % N = in
    <3>1. CASE out + 1 = N
      <4>1. buffer'.out_offs + (N - 1) = N - 1 /\ N - 1 \in 0 .. 2 * N - 1
        BY <1>1, <1>3, <2>1, <3>1
      <4>2. (N - 1) % N = N - 1
        BY <1>1, <4>1, WrapSum
      <4>3. N - 1 = out
        BY <1>1, <3>1
      <4> QED BY <2>1, <4>1, <4>2, <4>3
    <3>2. CASE out + 1 # N
      <4>1. buffer'.out_offs + (N - 1) = out + N /\ out + N \in 0 .. 2 * N - 1
        BY <1>1, <1>3, <2>1, <3>2
      <4>2. (out + N) % N = out
        BY <1>1, <4>1, WrapSum
      <4> QED BY <2>1, <4>1, <4>2
    <3> QED BY <3>1, <3>2
  <2>4. ASSUME NEW i \in 0 .. N - 2
        PROVE  /\ (buffer'.out_offs + i) % N = (out + (i + 1)) % N
               /\ (buffer'.out_offs + i) % N # in
    <3>1. PICK k \in 0 .. 2 * N - 1 : k = out + (i + 1)
      BY <1>1
    <3>2. k % N = IF k < N THEN k ELSE k - N
      BY WrapSum
    <3>3. i % N = i
      BY <1>1, WrapSum
    <3>4. CASE out + 1 = N
      <4>1. buffer'.out_offs + i = i /\ k - N = i /\ ~(k < N)
        BY <1>1, <1>3, <2>1, <3>1, <3>4
      <4>2. (buffer'.out_offs + i) % N = i /\ k % N = i
        BY <3>2, <3>3, <4>1
      <4>3. i # in
        BY <1>1, <2>1, <3>4
      <4> QED BY <3>1, <4>2, <4>3
    <3>5. CASE out + 1 # N
      <4>1. buffer'.out_offs + i = k
        BY <1>1, <1>3, <2>1, <3>1, <3>5
      <4>2. k % N # out
        BY <1>1, <3>1, <3>2
      <4> QED BY <2>1, <3>1, <4>1, <4>2
    <3> QED BY <3>4, <3>5
  <2>5. SlotAt(buffer', Held(buffer') - 1) = in
    BY <2>2, <2>3
  <2>6. \A i \in 0 .. Held(buffer') - 2 : SlotAt(buffer', i) = SlotAt(buffer, i + 1)
                                         /\ SlotAt(buffer', i) # in
    BY <2>2, <2>4
  <2> HIDE DEF SlotAt, Held
  <2> QED BY <1>1, <1>5, <2>1, <2>2, <2>5, <2>6
<1> QED BY <1>4, <1>5

(***************************************************************************)
(* The stored commands are a sequence of byte strings.                     *)
(***************************************************************************)
LEMMA LinesType ==
  ASSUME IInv, loaded
  PROVE  Lines \in Seq(Content) /\ Len(Lines) = Held(buffer) /\ Held(buffer) \in Nat
<1>1. Held(buffer) \in Nat
  BY NAssumption DEF IInv, TypeOK, DeviceTypes, Held, Slots
<1>2. ASSUME NEW i \in 1 .. Held(buffer)
      PROVE  heap[buffer.entry[SlotAt(buffer, i - 1)].buffptr] \in Content
  <2> DEFINE k == SlotAt(buffer, i - 1)
  <2>1. k \in Occupied
    BY SlotOccupied
  <2> HIDE DEF k
  <2>2. buffer.entry[k].buffptr \in Addr /\ heap[buffer.entry[k].buffptr] # FREE
    BY <2>1, DeviceBlocks DEF IInv, MemorySafe
  <2> QED BY <2>2 DEF IInv, TypeOK, DeviceTypes, k
<1>3. Lines = [i \in 1 .. Held(buffer) |->
                 heap[buffer.entry[SlotAt(buffer, i - 1)].buffptr]]
  BY DEF Lines
<1>4. Lines \in Seq(Content)
  BY <1>1, <1>2, <1>3
<1>5. Len(Lines) = Held(buffer)
  BY <1>1, <1>3
<1> QED BY <1>1, <1>4, <1>5

\* What it means for a sequence to be the log after one more command.
LEMMA Pushed ==
  ASSUME NEW s \in Seq(Content), NEW t \in Seq(Content), NEW x \in Content,
         NEW first \in {0, 1}, Len(s) <= N, first = 1 <=> Len(s) = N,
         Len(t) = Len(s) + 1 - first,
         t[Len(t)] = x, \A i \in 1 .. Len(t) - 1 : t[i] = s[i + first]
  PROVE  t = Log!Push(s, x)
<1>1. N \in Nat /\ N > 0 /\ Len(s) \in Nat
  BY NAssumption
<1>2. CASE first = 0
  <2>1. Log!Push(s, x) = Append(s, x)
    BY <1>1, <1>2 DEF Log!Push
  <2> QED BY <1>1, <1>2, <2>1
<1>3. CASE first = 1
  <2>1. Log!Push(s, x) = Append(Tail(s), x)
    BY <1>1, <1>3 DEF Log!Push
  <2>2. /\ Tail(s) \in Seq(Content) /\ Len(Tail(s)) = Len(s) - 1
        /\ \A i \in 1 .. Len(s) - 1 : Tail(s)[i] = s[i + 1]
    BY <1>1, <1>3
  <2> DEFINE r == Tail(s)
  <2> HIDE DEF r
  <2>3. t = Append(r, x)
    BY <1>1, <1>3, <2>2 DEF r
  <2> QED BY <2>1, <2>3 DEF r
<1> QED BY <1>2, <1>3

(***************************************************************************)
(* The store applies the write: the partial command grows by the bytes     *)
(* kept, and if a newline ends it, it becomes the last command of the log. *)
(***************************************************************************)
LEMMA LogStore ==
  ASSUME LogInv, NEW p \in Procs, Store(p)
  PROVE  SizesHold' /\ ResultsHold' /\ Log!Apply(p)
<1> USE DEF LogInv, IInv, TypeOK, CallTypes, DeviceTypes
<1> DEFINE d   == data[p]
           n   == copy_size(d)
           e   == [entry EXCEPT !.size = @ + n]
           new == Memcpy(heap[entry.buffptr], entry.size, d, n)
<1>1. pc[p] = "write_store" /\ loaded
  BY DEF Store, StoreThen, Goto, FilesOpen
<1>2. d \in Seq(Bytes) /\ heap[kbuf[p]] = d
  BY <1>1 DEF KbufHolds
<1>3. /\ pc' = [pc EXCEPT ![p] = "exit_free"]
      /\ retval' = [retval EXCEPT ![p] = "count"]
      /\ heap' = [heap EXCEPT ![entry.buffptr] = new]
      /\ UNCHANGED <<loaded, data>>
      /\ \/ newline_pos(d) = -1 /\ entry' = e /\ buffer' = buffer
         \/ /\ newline_pos(d) # -1 /\ entry' = NullEntry
            /\ buffer' = aesd_circular_buffer_add_entry(buffer, e)
  BY <1>2 DEF Store, StoreThen, Goto, Result
<1>4. /\ entry.buffptr # NULL /\ entry.buffptr \in Addr
      /\ heap[entry.buffptr] \in Content /\ Len(heap[entry.buffptr]) = entry.size + n
  BY <1>1, DeviceBlocks DEF RoomHolds
<1> HIDE DEF d
<1>5. /\ n \in 0 .. Len(d) /\ n \in Nat /\ entry.size \in Nat
      /\ entry \in [buffptr : Addr \cup {NULL}, size : Nat]
  BY <1>2, CopySizeBound DEF Entry
<1> HIDE DEF n
<1>6. new \in Content /\ new = Partial \o Log!Kept(d) /\ Len(new) = entry.size + n
  <2>1. n = Log!CopySize(d)
    BY <1>2, SameCommand DEF n
  <2>2. /\ new = SubSeq(heap[entry.buffptr], 1, entry.size) \o SubSeq(d, 1, n)
        /\ Len(new) = entry.size + n
    BY ONLY <1>2, <1>4, <1>5, MemcpyAppends, Zenon
  <2>3. new \in Content
    BY <1>2, <1>4, <1>5, MemcpyContent
  <2>4. Partial = SubSeq(heap[entry.buffptr], 1, entry.size)
    BY <1>1, <1>4 DEF Partial
  <2>5. Log!Kept(d) = SubSeq(d, 1, n)
    BY <2>1 DEF Log!Kept
  <2> HIDE DEF new
  <2> QED BY <2>2, <2>3, <2>4, <2>5
<1>7. e \in Entry /\ e.buffptr = entry.buffptr /\ e.size = entry.size + n
  <2>1. e = [buffptr |-> entry.buffptr, size |-> entry.size + n]
    BY ONLY <1>5
  <2>2. entry.buffptr \in Addr \cup {NULL} /\ entry.size + n \in Nat
    BY ONLY <1>5
  <2> HIDE DEF e
  <2> QED BY ONLY <2>1, <2>2 DEF Entry
<1> HIDE DEF e, new
<1>77. loaded' /\ data' = data
  BY <1>1, <1>3
<1>8. \A b \in Addr : heap'[b] = IF b = entry.buffptr THEN new ELSE heap[b]
  BY <1>3, <1>4
<1>9. ASSUME NEW i \in Occupied
      PROVE  heap'[buffer.entry[i].buffptr] = heap[buffer.entry[i].buffptr]
  <2>1. buffer.entry[i].buffptr \in Addr /\ buffer.entry[i].buffptr # entry.buffptr
    BY <1>1, DeviceBlocks DEF MemorySafe
  <2> QED BY <1>8, <2>1
<1>10. Status[p] = "called" /\ Status' = [Status EXCEPT ![p] = "applied"]
  <2>1. retval[p] = "none"
    BY <1>1 DEF ResultsHold
  <2>2. Status[p] = "called" /\ Status'[p] = "applied"
    BY <1>1, <1>3, <2>1 DEF Status, WritePCs
  <2> QED BY <1>3, <2>2, OneStatus
<1>11. ResultsHold'
  BY <1>1, <1>3 DEF ResultsHold, WritePCs
<1>12. \A i \in Slots : i \notin Occupied => buffer.entry[i] = NullEntry
  BY DEF RingShape, Occupied, Slots
<1>13. CASE newline_pos(d) = -1
  <2>1. entry' = e /\ buffer' = buffer /\ ~Log!HasNewline(d)
    BY <1>2, <1>3, <1>13, SameCommand
  <2>2. Lines' = Lines
    <3>1. \A i \in 1 .. Held(buffer) :
            heap'[buffer.entry[SlotAt(buffer, i - 1)].buffptr]
              = heap[buffer.entry[SlotAt(buffer, i - 1)].buffptr]
      BY <1>9, SlotOccupied
    <3>2. Held(buffer)' = Held(buffer) /\ \A i : SlotAt(buffer, i)' = SlotAt(buffer, i)
      BY <2>1 DEF Held, SlotAt
    <3> QED BY <1>1, <1>77, <2>1, <3>1, <3>2 DEF Lines
  <2>3. Partial' = new
    <3>1. SubSeq(new, 1, entry.size + n) = new
      BY <1>6 DEF Content
    <3> QED BY <1>1, <1>3, <1>4, <1>7, <1>8, <2>1, <3>1 DEF Partial
  <2>4. SizesHold'
    <3>1. (entry.size = StoredBytes(entry))'
      BY <1>4, <1>6, <1>7, <1>8, <2>1 DEF StoredBytes
    <3>2. ASSUME NEW i \in Slots
          PROVE  (buffer.entry[i].size = StoredBytes(buffer.entry[i]))'
      <4>1. CASE i \in Occupied
        BY <1>1, <1>9, <2>1, <4>1 DEF SizesHold, StoredBytes
      <4>2. CASE i \notin Occupied
        BY <1>12, <2>1, <4>2 DEF StoredBytes, NullEntry
      <4> QED BY <4>1, <4>2
    <3> QED BY <3>1, <3>2 DEF SizesHold
  <2> QED BY <1>3, <1>6, <1>10, <1>11, <2>1, <2>2, <2>3, <2>4 DEF Log!Apply, d
<1>14. CASE newline_pos(d) # -1
  <2>1. /\ entry' = NullEntry /\ Log!HasNewline(d)
        /\ buffer' = aesd_circular_buffer_add_entry(buffer, e)
    BY <1>2, <1>3, <1>14, SameCommand
  <2>2. Partial' = <<>>
    BY <2>1 DEF Partial, NullEntry
  <2>3. /\ buffer.in_offs \in Slots
        /\ \A i \in Slots :
             buffer'.entry[i] = IF i = buffer.in_offs THEN e ELSE buffer.entry[i]
    BY <1>7, <2>1, AddEntryShape
  <2>4. Lines' = Log!Push(Lines, new)
    <3> DEFINE first == IF buffer.full THEN 1 ELSE 0
               h  == Held(buffer)
               hh == Held(buffer')
    <3>1. /\ h \in 0 .. N /\ (buffer.full <=> h = N) /\ N \in Nat /\ N > 0
          /\ hh = h + 1 - first
          /\ SlotAt(buffer', hh - 1) = buffer.in_offs
          /\ \A i \in 0 .. hh - 2 : /\ SlotAt(buffer', i) = SlotAt(buffer, i + first)
                                   /\ SlotAt(buffer', i) # buffer.in_offs
      BY <1>7, <2>1, AddEntryOrder, NAssumption
    <3>2. Lines = [i \in 1 .. h |-> heap[buffer.entry[SlotAt(buffer, i - 1)].buffptr]]
      BY <1>1 DEF Lines
    <3>3. Lines' = [i \in 1 .. hh |->
                      heap'[buffer'.entry[SlotAt(buffer', i - 1)].buffptr]]
      BY <1>1, <1>3 DEF Lines
    <3> HIDE DEF h, hh
    <3>4. ASSUME NEW i \in 1 .. hh - 1
          PROVE  heap'[buffer'.entry[SlotAt(buffer', i - 1)].buffptr] = Lines[i + first]
      <4>1. i - 1 \in 0 .. hh - 2 /\ i + first \in 1 .. h /\ (i + first) - 1 = (i - 1) + first
        BY <3>1
      <4>2. SlotAt(buffer, (i + first) - 1) \in Occupied
        BY <4>1, SlotOccupied DEF h
      <4>3. SlotAt(buffer', i - 1) = SlotAt(buffer, (i + first) - 1)
        BY <3>1, <4>1
      <4>4. buffer'.entry[SlotAt(buffer', i - 1)] = buffer.entry[SlotAt(buffer, (i + first) - 1)]
        BY <3>1, <4>1, <4>2, <4>3, <2>3 DEF Occupied
      <4>5. Lines[i + first] = heap[buffer.entry[SlotAt(buffer, (i + first) - 1)].buffptr]
        BY <3>2, <4>1
      <4> QED BY <1>9, <4>2, <4>4, <4>5
    <3>5. heap'[buffer'.entry[SlotAt(buffer', hh - 1)].buffptr] = new
      BY <1>4, <1>7, <1>8, <2>3, <3>1
    <3>6. hh \in Nat /\ hh > 0 /\ h \in Nat /\ first \in {0, 1} /\ (first = 1 <=> h = N)
      BY <3>1
    <3>7. Lines \in Seq(Content) /\ Len(Lines) = h
      BY <1>1, LinesType DEF h
    <3> HIDE DEF first
    <3>8. ASSUME NEW i \in 1 .. hh
          PROVE  heap'[buffer'.entry[SlotAt(buffer', i - 1)].buffptr] \in Content
      <4>1. CASE i = hh
        BY <1>6, <3>5, <4>1
      <4>2. CASE i # hh
        <5>1. i \in 1 .. hh - 1 /\ i + first \in 1 .. h
          BY <3>1, <3>6, <4>2
        <5> QED BY <3>4, <3>7, <5>1
      <4> QED BY <4>1, <4>2
    <3> DEFINE t == Lines'
    <3>9. t \in Seq(Content) /\ Len(t) = hh
      <4>1. t = [i \in 1 .. hh |-> heap'[buffer'.entry[SlotAt(buffer', i - 1)].buffptr]]
        BY <3>3
      <4> HIDE DEF t
      <4>2. t \in Seq(Content)
        BY ONLY <3>6, <3>8, <4>1
      <4>3. Len(t) = hh
        BY ONLY <3>6, <4>1
      <4> QED BY <4>2, <4>3
    <3>10. t[hh] = new /\ \A i \in 1 .. hh - 1 : t[i] = Lines[i + first]
      BY <3>3, <3>4, <3>5, <3>6
    <3> HIDE DEF t
    <3>11. t = Log!Push(Lines, new)
      <4>1. Len(Lines) <= N /\ Len(t) = Len(Lines) + 1 - first
        BY <3>1, <3>7, <3>9 DEF first
      <4>2. t[Len(t)] = new /\ \A i \in 1 .. Len(t) - 1 : t[i] = Lines[i + first]
        BY ONLY <3>9, <3>10, Zenon
      <4>3. first = 1 <=> Len(Lines) = N
        BY ONLY <3>6, <3>7, Zenon
      <4> QED BY ONLY <1>6, <3>6, <3>7, <3>9, <4>1, <4>2, <4>3, Pushed, Zenon
    <3> QED BY <3>11 DEF t
  <2>5. SizesHold'
    <3>1. (entry.size = StoredBytes(entry))'
      BY <2>1 DEF StoredBytes, NullEntry
    <3>2. ASSUME NEW i \in Slots
          PROVE  (buffer.entry[i].size = StoredBytes(buffer.entry[i]))'
      <4>1. CASE i = buffer.in_offs
        BY <1>4, <1>6, <1>7, <1>8, <2>3, <4>1 DEF StoredBytes
      <4>2. CASE i # buffer.in_offs
        <5>1. buffer'.entry[i] = buffer.entry[i]
          BY <2>3, <4>2
        <5>2. CASE i \in Occupied
          BY <1>1, <1>9, <5>1, <5>2 DEF SizesHold, StoredBytes
        <5>3. CASE i \notin Occupied
          BY <1>12, <5>1, <5>3 DEF StoredBytes, NullEntry
        <5> QED BY <5>2, <5>3
      <4> QED BY <4>1, <4>2
    <3> QED BY <3>1, <3>2 DEF SizesHold
  <2> QED BY <1>3, <1>6, <1>10, <1>11, <2>1, <2>2, <2>4, <2>5 DEF Log!Apply, d
<1> QED BY <1>13, <1>14

\* Loading the module shows an empty log; unloading it empties the log.
LEMMA LogModule ==
  ASSUME LogInv, aesd_init_module \/ aesd_cleanup_module
  PROVE  SizesHold' /\ ResultsHold' /\ (Log!Clear \/ UNCHANGED Log!logVars)
<1>1. UNCHANGED <<pc, data, retval>>
  BY DEF aesd_init_module, aesd_cleanup_module, callVars
<1>2. ResultsHold' /\ Status' = Status
  BY <1>1 DEF LogInv, ResultsHold, Status
<1>3. CASE aesd_init_module
  <2> USE <1>3 DEF aesd_init_module
  <2>1. Lines = <<>> /\ Partial = <<>>
    BY DEF Lines, Partial
  <2>2. Lines' = <<>>
    <3>1. Held(buffer') = 0
      BY DEF Held, aesd_circular_buffer_init
    <3> QED BY <3>1 DEF Lines
  <2>3. Partial' = <<>>
    BY DEF Partial, NullEntry
  <2>4. SizesHold'
    BY DEF SizesHold, StoredBytes, aesd_circular_buffer_init, NullEntry
  <2> QED BY <1>1, <1>2, <2>1, <2>2, <2>3, <2>4 DEF Log!logVars
<1>4. CASE aesd_cleanup_module
  <2> USE <1>4 DEF aesd_cleanup_module
  <2>1. \A p \in Procs : Status[p] = "idle"
    BY DEF LogInv, IInv, FilesOpen, Status, WritePCs
  <2>2. Lines' = <<>> /\ Partial' = <<>> /\ SizesHold'
    BY DEF Lines, Partial, SizesHold
  <2> QED BY <1>1, <1>2, <2>1, <2>2 DEF Log!Clear
<1> QED BY <1>3, <1>4

-----------------------------------------------------------------------------
(* The theorems about the log.                                             *)

\* Initially the log is empty.
LEMMA InitLog == Init => LogInv /\ Log!LogInit
<1> SUFFICES ASSUME Init PROVE LogInv /\ Log!LogInit
  OBVIOUS
<1>1. SizesHold /\ ResultsHold
  BY DEF Init, SizesHold, ResultsHold
<1>2. Lines = <<>> /\ Partial = <<>>
  BY DEF Init, Lines, Partial
<1>3. Status = [p \in Procs |-> "idle"]
  BY DEF Init, Status, WritePCs
<1>4. data = [p \in Procs |-> <<>>]
  BY DEF Init
<1> QED BY <1>1, <1>2, <1>3, <1>4, InitIInv DEF LogInv, Log!LogInit

\* Every step of the driver is a step of the log or is not seen.
LEMMA NextLog ==
  ASSUME ~KreallocMayFail, LogInv, [Next]_vars
  PROVE  LogInv' /\ [Log!LogNext]_(Log!logVars)
<1>1. IInv'
  BY NextIInv DEF LogInv
<1> SUFFICES SizesHold' /\ ResultsHold' /\ (Log!LogNext \/ UNCHANGED Log!logVars)
  BY <1>1 DEF LogInv
<1>2. CASE UNCHANGED vars
  <2>1. SizesHold' /\ ResultsHold'
    BY <1>2 DEF LogInv, vars, SizesHold, StoredBytes, ResultsHold
  <2>2. Lines' = Lines /\ Partial' = Partial /\ Status' = Status /\ data' = data
    BY <1>2 DEF vars, Lines, Partial, Status, Held, SlotAt
  <2> QED BY <2>1, <2>2 DEF Log!logVars
<1>3. ASSUME NEW p \in Procs, Call(p) \/ Lock(p)
      PROVE  SizesHold' /\ ResultsHold' /\ (Log!LogNext \/ UNCHANGED Log!logVars)
  BY <1>3, LogBegin, LogInvoke DEF Call, Log!LogNext
<1>4. ASSUME NEW p \in Procs, Interrupted(p) \/ Exit(p)
      PROVE  SizesHold' /\ ResultsHold' /\ (Log!LogNext \/ UNCHANGED Log!logVars)
  <2>1. \E from \in {"write_lock", "read_lock", "exit", "read_exit", "read_find"} :
          Return(p, from) /\ UNCHANGED <<devVars, heap>>
    BY <1>4 DEF Interrupted, Exit
  <2> QED BY <2>1, LogEnd DEF Log!LogNext
<1>5. ASSUME NEW p \in Procs, Locked(p)
      PROVE  SizesHold' /\ ResultsHold' /\ (Log!LogNext \/ UNCHANGED Log!logVars)
  BY <1>4, <1>5, LogUnseen, LogKrealloc, LogStore, LogFind DEF Locked, Log!LogNext
<1>6. ASSUME aesd_init_module \/ aesd_cleanup_module
      PROVE  SizesHold' /\ ResultsHold' /\ (Log!LogNext \/ UNCHANGED Log!logVars)
  BY <1>6, LogModule DEF Log!LogNext
<1> QED BY <1>2, <1>3, <1>4, <1>5, <1>6 DEF Next

(***************************************************************************)
(* The inductive invariant behind the log: where no write is between       *)
(* krealloc and its copy, the recorded sizes are those of the blocks, and  *)
(* no call has a result before its way out.                                *)
(***************************************************************************)
THEOREM DriverLogInvariant == ~KreallocMayFail => (Spec => []LogInv)
<1> SUFFICES ASSUME ~KreallocMayFail PROVE Spec => []LogInv
  OBVIOUS
<1>1. Init => LogInv
  BY InitLog
<1>2. LogInv /\ [Next]_vars => LogInv'
  BY NextLog
<1> QED BY <1>1, <1>2, PTL DEF Spec

(***************************************************************************)
(* As long as krealloc does not fail, the size member of an entry is the   *)
(* number of bytes stored in its buffptr whenever no call is inside.       *)
(***************************************************************************)
THEOREM DriverSizes == ~KreallocMayFail => (Spec => []SizeIsBytesStored)
<1> SUFFICES ASSUME ~KreallocMayFail PROVE Spec => []SizeIsBytesStored
  OBVIOUS
<1>1. LogInv => SizeIsBytesStored
  <2> SUFFICES ASSUME LogInv, loaded, lock = Nobody
               PROVE  /\ entry.size = StoredBytes(entry)
                      /\ \A i \in Slots : buffer.entry[i].size = StoredBytes(buffer.entry[i])
    BY DEF SizeIsBytesStored
  <2>1. \A p \in Procs : pc[p] # "write_store"
    BY CharAssumption DEF LogInv, IInv, MutexHeld, Critical, WritePCs
  <2> QED BY <2>1 DEF LogInv, SizesHold
<1> QED BY <1>1, DriverLogInvariant, PTL

(***************************************************************************)
(* As long as krealloc does not fail, the driver implements the command    *)
(* log: each successful write takes effect once, atomically, between its   *)
(* call and its return, a failed one never, and the circular buffer holds  *)
(* the last N commands in the order of those effects.                      *)
(***************************************************************************)
THEOREM DriverIsCommandLog == ~KreallocMayFail => (Spec => ImplementsCommandLog)
<1> SUFFICES ASSUME ~KreallocMayFail PROVE Spec => Log!LogSpec
  BY DEF ImplementsCommandLog
<1>1. Init => Log!LogInit
  BY InitLog
<1>2. LogInv /\ [Next]_vars => [Log!LogNext]_(Log!logVars)
  BY NextLog
<1>3. Spec => []LogInv
  BY DriverLogInvariant
<1> QED BY <1>1, <1>2, <1>3, PTL DEF Spec, Log!LogSpec

-----------------------------------------------------------------------------
(* Blocks that are lost.                                                   *)

(***************************************************************************)
(* A step loses no block when every block it allocates, and every block it *)
(* takes from an owner without freeing it, has an owner afterwards.        *)
(***************************************************************************)
LEMMA NothingLost ==
  ASSUME \A a \in Addr : heap'[a] # FREE /\ heap[a] = FREE => a \in (DevPtrs \cup KbufPtrs)',
         \A a \in (DevPtrs \cup KbufPtrs) \cap Addr :
           heap'[a] # FREE => a \in (DevPtrs \cup KbufPtrs)'
  PROVE  Lost' \subseteq Lost
BY DEF Lost, Allocated, FreeAddrs

\* The steps that leave the device and every kbuf as they are.
LEMMA LeakNone ==
  ASSUME UNCHANGED <<devVars, kbuf>>, \A a \in Addr : heap[a] = FREE => heap'[a] = FREE
  PROVE  Lost' \subseteq Lost
BY DEF Lost, Allocated, FreeAddrs, DevPtrs, RingPtrs, KbufPtrs, devVars

\* The steps of a write on its kbuf.
LEMMA LeakKbuf ==
  ASSUME IInv, NEW p \in Procs, Kmalloc(p) \/ CopyFromUser(p) \/ ExitFree(p)
  PROVE  Lost' \subseteq Lost
<1> USE DEF IInv, TypeOK, CallTypes, DeviceTypes
<1>1. DevPtrs' = DevPtrs
  <2>1. UNCHANGED devVars
    BY DEF Kmalloc, CopyFromUser, ExitFree
  <2> QED BY <2>1 DEF DevPtrs, RingPtrs, devVars
<1>2. ASSUME NEW a \in FreeAddrs, pc[p] = "write_kmalloc",
             heap' = [heap EXCEPT ![a] = Uninitialised(Len(data[p]))],
             kbuf' = [kbuf EXCEPT ![p] = a]
      PROVE  Lost' \subseteq Lost
  <2>1. kbuf[p] = NULL /\ a \in Addr /\ a # NULL
    BY <1>2, CharAssumption DEF KbufHolds, FreeAddrs
  <2>2. a \in KbufPtrs' /\ KbufPtrs \subseteq KbufPtrs'
    <3>1. kbuf'[p] = a /\ \A q \in Procs : q # p => kbuf'[q] = kbuf[q]
      BY <1>2
    <3>2. a \in KbufPtrs'
      BY <2>1, <3>1 DEF KbufPtrs
    <3>3. ASSUME NEW q \in Procs, kbuf[q] # NULL PROVE kbuf[q] \in KbufPtrs'
      BY <2>1, <3>1, <3>3 DEF KbufPtrs
    <3>4. \A b \in KbufPtrs : \E q \in Procs : b = kbuf[q] /\ kbuf[q] # NULL
      BY DEF KbufPtrs
    <3> QED BY <3>2, <3>3, <3>4
  <2>3. \A b \in Addr : b # a => heap'[b] = heap[b]
    BY <1>2
  <2> QED BY <1>1, <2>2, <2>3, NothingLost
<1>3. CASE UNCHANGED <<devVars, kbuf, heap>>
  BY <1>3, LeakNone
<1>4. CASE /\ pc[p] = "write_copy" /\ heap' = [heap EXCEPT ![kbuf[p]] = data[p]]
           /\ UNCHANGED <<devVars, kbuf>>
  <2>1. kbuf[p] \in Addr /\ heap[kbuf[p]] # FREE
    BY <1>4 DEF KbufHolds, MemorySafe
  <2>2. \A a \in Addr : heap[a] = FREE => heap'[a] = FREE
    BY <1>4, <2>1
  <2> QED BY <1>4, <2>2, LeakNone
<1>5. CASE ExitFree(p)
  <2>1. \A b \in Addr : heap'[b] = IF b = kbuf[p] THEN FREE ELSE heap[b]
    BY <1>5 DEF ExitFree, Kfree
  <2>2. KbufPtrs \subseteq KbufPtrs' \cup {kbuf[p]}
    BY <1>5 DEF ExitFree, KbufPtrs
  <2> QED BY <1>1, <2>1, <2>2, NothingLost
<1> QED BY <1>2, <1>3, <1>4, <1>5
        DEF Kmalloc, CopyFromUser, Goto, Result, callVars, devVars

\* krealloc, when it does not fail, frees the block it copies or keeps it.
LEMMA LeakKrealloc ==
  ASSUME IInv, ~KreallocMayFail, NEW p \in Procs, Krealloc(p)
  PROVE  Lost' \subseteq Lost
<1> USE DEF IInv, TypeOK, CallTypes, DeviceTypes
<1> DEFINE ptr == entry.buffptr
           n   == entry.size + copy_size(heap[kbuf[p]])
<1>1. PICK a \in FreeAddrs \cup ({ptr} \ {NULL}) :
        /\ heap' = [Kfree(heap, {ptr}) EXCEPT ![a] = Grown(ptr, n)]
        /\ entry' = [entry EXCEPT !.buffptr = a]
  BY DEF Krealloc
<1> HIDE DEF n
<1>2. pc[p] = "write_krealloc" /\ UNCHANGED <<loaded, buffer, kbuf>>
  BY DEF Krealloc, Goto, callVars
<1>3. loaded
  BY <1>2 DEF FilesOpen
<1>4. a \in Addr /\ a # NULL /\ ptr \in Addr \cup {NULL} /\ entry'.buffptr = a
  BY <1>1, CharAssumption DEF FreeAddrs, Entry
<1>5. \A b \in Addr : b # a => heap'[b] = IF b = ptr THEN FREE ELSE heap[b]
  BY <1>1, <1>4 DEF Kfree
<1>6. /\ a \in DevPtrs' /\ KbufPtrs' = KbufPtrs
      /\ DevPtrs \subseteq DevPtrs' \cup {ptr}
  BY <1>2, <1>3, <1>4 DEF DevPtrs, RingPtrs, KbufPtrs
<1> QED BY <1>4, <1>5, <1>6, NothingLost

(***************************************************************************)
(* The store hands the block of the command over to the circular buffer; a *)
(* full one drops its oldest block.                                        *)
(***************************************************************************)
LEMMA LeakStore ==
  ASSUME IInv, NEW p \in Procs, Store(p)
  PROVE  Lost' \subseteq Lost \/ (buffer.full /\ buffer' # buffer)
<1> USE DEF IInv, TypeOK, DeviceTypes
<1> DEFINE e == [entry EXCEPT !.size = @ + copy_size(heap[kbuf[p]])]
           x == Memcpy(heap[entry.buffptr], entry.size, heap[kbuf[p]], copy_size(heap[kbuf[p]]))
<1>1. /\ pc[p] = "write_store" /\ UNCHANGED <<loaded, kbuf>>
      /\ heap' = [heap EXCEPT ![entry.buffptr] = x]
      /\ \/ entry' = e /\ buffer' = buffer
         \/ buffer' = aesd_circular_buffer_add_entry(buffer, e) /\ entry' = NullEntry
  BY DEF Store, StoreThen, Goto, Result
<1>2. loaded /\ KbufPtrs' = KbufPtrs
  BY <1>1 DEF FilesOpen, KbufPtrs
<1>3. entry.buffptr # NULL /\ entry.buffptr \in Addr /\ heap[entry.buffptr] # FREE
  BY <1>1, <1>2, DeviceBlocks DEF RoomHolds, MemorySafe
<1>4. e \in Entry /\ e.buffptr = entry.buffptr
  <2>1. copy_size(heap[kbuf[p]]) \in Nat
    BY <1>1, CopySizeBound DEF KbufHolds, CallTypes
  <2> QED BY <2>1 DEF Entry
<1> HIDE DEF e, x
<1>5. \A b \in Addr : heap[b] = FREE => heap'[b] = FREE
  BY <1>1, <1>3
<1>6. CASE entry' = e /\ buffer' = buffer
  <2>1. DevPtrs' = DevPtrs
    BY <1>1, <1>4, <1>6 DEF DevPtrs, RingPtrs
  <2> QED BY <1>2, <1>5, <2>1, NothingLost
<1>7. CASE buffer' = aesd_circular_buffer_add_entry(buffer, e) /\ entry' = NullEntry
  <2>1. /\ buffer.in_offs \in Slots
        /\ \A i \in Slots :
             buffer'.entry[i] = IF i = buffer.in_offs THEN e ELSE buffer.entry[i]
    BY <1>4, <1>7, AddEntryShape
  <2>2. CASE buffer.full
    <3>1. buffer.in_offs \in Occupied
      BY <2>1, <2>2 DEF Occupied
    <3>2. buffer.entry[buffer.in_offs].buffptr # entry.buffptr
      BY <1>2, <3>1 DEF MemorySafe
    <3> QED BY <1>4, <2>1, <2>2, <3>2
  <2>3. CASE ~buffer.full
    <3>1. buffer.entry[buffer.in_offs].buffptr = NULL
      BY <2>1, <2>3 DEF RingShape, NullEntry, Slots
    <3>2. ASSUME NEW i \in Slots, buffer.entry[i].buffptr # NULL
          PROVE  buffer.entry[i].buffptr \in RingPtrs'
      BY <2>1, <3>1, <3>2 DEF RingPtrs
    <3>3. entry.buffptr \in RingPtrs'
      BY <1>3, <1>4, <2>1 DEF RingPtrs
    <3>4. DevPtrs \subseteq DevPtrs'
      BY <1>1, <1>2, <3>2, <3>3 DEF DevPtrs, RingPtrs
    <3> QED BY <1>2, <1>5, <3>4, NothingLost
  <2> QED BY <2>2, <2>3
<1> QED BY <1>1, <1>6, <1>7

\* Unloading the module frees what the device owns.
LEMMA LeakModule ==
  ASSUME IInv, aesd_init_module \/ aesd_cleanup_module
  PROVE  Lost' \subseteq Lost
<1>1. CASE aesd_init_module
  <2>1. DevPtrs = {} /\ KbufPtrs' = KbufPtrs /\ heap' = heap
    BY <1>1 DEF aesd_init_module, DevPtrs, KbufPtrs, callVars
  <2> QED BY <2>1, NothingLost
<1>2. CASE aesd_cleanup_module
  <2>1. loaded /\ KbufPtrs' = KbufPtrs
    BY <1>2 DEF aesd_cleanup_module, KbufPtrs, callVars
  <2>2. \A b \in Addr : heap'[b] = IF b \in DevPtrs THEN FREE ELSE heap[b]
    BY <1>2, CharAssumption DEF aesd_cleanup_module, Kfree, DevPtrs, RingPtrs
  <2> QED BY <2>1, <2>2, NothingLost
<1> QED BY <1>1, <1>2

(***************************************************************************)
(* As long as krealloc does not fail, the only step that loses a block of  *)
(* kernel memory is the one that overwrites the oldest entry of a full     *)
(* buffer: no error path of a call and no unloading of the module does.    *)
(***************************************************************************)
THEOREM DriverLeaks == ~KreallocMayFail => (Spec => LeaksOnlyOnEviction)
<1> SUFFICES ASSUME ~KreallocMayFail PROVE Spec => LeaksOnlyOnEviction
  OBVIOUS
<1> DEFINE Leak == Lost' \subseteq Lost \/ (buffer.full /\ buffer' # buffer)
<1>1. IInv /\ [Next]_vars => [Leak]_vars
  <2> SUFFICES ASSUME IInv, Next PROVE Leak
    OBVIOUS
  <2>1. ASSUME NEW p \in Procs, Call(p) \/ Lock(p) \/ CopyToUser(p) PROVE Leak
    <3>1. UNCHANGED <<devVars, kbuf, heap>>
      BY <2>1 DEF Call, aesd_open, aesd_release, CallWrite, CallRead, Lock, CopyToUser,
                  Result, callVars
    <3> QED BY <3>1, LeakNone
  <2>2. ASSUME NEW p \in Procs, Interrupted(p) \/ Exit(p) \/ Find(p) PROVE Leak
    <3>1. UNCHANGED <<devVars, heap>>
      BY <2>2 DEF Interrupted, Exit, Find
    <3>2. kbuf' = kbuf
      <4>1. \/ kbuf' = kbuf
            \/ /\ pc[p] \in {"write_lock", "read_lock", "exit", "read_exit", "read_find"}
               /\ kbuf' = [kbuf EXCEPT ![p] = NULL]
        BY <2>2 DEF Interrupted, Exit, Find, Return, Goto
      <4> QED BY <4>1 DEF IInv, TypeOK, CallTypes, KbufHolds
    <3> QED BY <3>1, <3>2, LeakNone
  <2>3. ASSUME NEW p \in Procs, Locked(p) PROVE Leak
    BY <2>1, <2>2, <2>3, LeakKbuf, LeakKrealloc, LeakStore DEF Locked
  <2> QED BY <2>1, <2>2, <2>3, LeakModule DEF Next
<1> QED BY <1>1, DriverInvariant, PTL DEF Spec, LeaksOnlyOnEviction
=============================================================================
