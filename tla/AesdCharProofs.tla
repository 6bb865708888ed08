--------------------------- MODULE AesdCharProofs ---------------------------
(***************************************************************************)
(* The character driver keeps its memory: for any number of processes,     *)
(* entries, heap blocks and byte strings, and whether or not krealloc      *)
(* fails, every reachable state satisfies the type invariant, the shape    *)
(* of the circular buffer and memory safety.                               *)
(***************************************************************************)
EXTENDS AesdChar, BasicLemmas, TLAPS

-----------------------------------------------------------------------------
(* Numbers and sequences.                                                  *)

\* An offset of the circular buffer, advanced by one, wraps at N.
LEMMA Wrap ==
  ASSUME NEW i \in Slots
  PROVE  /\ (i + 1) % N = IF i + 1 = N THEN 0 ELSE i + 1
         /\ (i + 1) % N \in Slots
BY NAssumption DEF Slots

\* The slot i places behind an offset is a slot.
LEMMA WrapAny ==
  ASSUME NEW i \in Slots, NEW j \in Slots
  PROVE  (i + j) % N \in Slots
BY NAssumption DEF Slots

\* An assignment to one component keeps the type of a function.
LEMMA Override ==
  ASSUME NEW D, NEW S, NEW f \in [D -> S], NEW x \in D, NEW v \in S
  PROVE  [f EXCEPT ![x] = v] \in [D -> S]
OBVIOUS

\* The scan of aesd_write finds the first newline if there is one.
LEMMA NewlineFound ==
  ASSUME NEW d \in Seq(Bytes)
  PROVE  newline_pos(d) \in -1 .. Len(d) - 1
<1> DEFINE T == {i \in DOMAIN d : d[i] = NL}
<1>1. CASE T = {}
  BY <1>1 DEF newline_pos
<1>2. CASE T # {}
  <2>1. T \subseteq 1 .. Len(d)
    OBVIOUS
  <2>2. T \subseteq Nat
    BY <2>1
  <2> HIDE DEF T
  <2>3. PICK i \in T : \A j \in T : i <= j
    BY <1>2, <2>2, LeastNatural
  <2>4. \E k \in DOMAIN d : d[k] = NL /\ \A j \in DOMAIN d : d[j] = NL => k <= j
    BY <2>3 DEF T
  <2> DEFINE first == CHOOSE k \in DOMAIN d :
                        d[k] = NL /\ \A j \in DOMAIN d : d[j] = NL => k <= j
  <2>5. first \in DOMAIN d
    BY <2>4
  <2>6. newline_pos(d) = first - 1
    BY <2>4 DEF newline_pos
  <2> QED BY <2>5, <2>6
<1> QED BY <1>1, <1>2

\* It copies no more bytes than it was given.
LEMMA CopySizeBound ==
  ASSUME NEW d \in Seq(Bytes)
  PROVE  copy_size(d) \in 0 .. Len(d)
BY NewlineFound DEF copy_size

(***************************************************************************)
(* The entry that the search for a position returns is one of the buffer,  *)
(* and the offset falls inside it.                                         *)
(***************************************************************************)
LEMMA FindInside ==
  ASSUME NEW b, b.out_offs \in Slots, NEW pos \in Nat,
         aesd_circular_buffer_find_entry_offset_for_fpos(b, pos) # NULL
  PROVE  LET e == aesd_circular_buffer_find_entry_offset_for_fpos(b, pos)
         IN  /\ e \in [slot : Slots, offset : Nat]
             /\ e.offset < b.entry[e.slot].size
<1> DEFINE hits == Hits(b, b.out_offs, pos)
           hit  == CHOOSE h \in hits : TRUE
<1>1. hits # {}
  BY DEF aesd_circular_buffer_find_entry_offset_for_fpos, FindFrom
<1>2. hit \in hits
  BY <1>1
<1>3. /\ hit \in Slots \X (0 .. pos)
      /\ hit[2] < b.entry[entry_index(b.out_offs, hit[1])].size
  BY <1>2 DEF Hits
<1> HIDE DEF hit
<1>4. entry_index(b.out_offs, hit[1]) \in Slots
  BY <1>3, WrapAny DEF entry_index
<1>5. aesd_circular_buffer_find_entry_offset_for_fpos(b, pos)
        = [slot |-> entry_index(b.out_offs, hit[1]), offset |-> hit[2]]
  BY <1>1 DEF aesd_circular_buffer_find_entry_offset_for_fpos, FindFrom, hit
<1>6. hit[2] \in Nat
  BY <1>3
<1> QED BY <1>3, <1>4, <1>5, <1>6
-----------------------------------------------------------------------------
(* The inductive invariant, first the actions that move no heap block.     *)

\* Memory safety speaks of the device, the heap and kbuf only.
LEMMA SameMemory ==
  ASSUME RingShape, MemorySafe, UNCHANGED <<devVars, heap, kbuf>>
  PROVE  RingShape' /\ MemorySafe'
BY DEF RingShape, MemorySafe, devVars, Occupied, DevPtrs, RingPtrs

\* Initially the device is empty and nobody is in a call.
LEMMA InitIInv == Init => IInv
<1> SUFFICES ASSUME Init PROVE IInv
  OBVIOUS
<1>1. DeviceTypes
  <2>1. 0 \in Slots /\ NullEntry \in Entry
    BY NAssumption DEF Slots, NullEntry, Entry
  <2> QED BY <2>1 DEF Init, DeviceTypes, aesd_circular_buffer_init
<1>11. CallTypes
  <2>1. <<>> \in Seq(Bytes)
    OBVIOUS
  <2> QED BY <2>1 DEF Init, CallTypes
<1>2. RingShape
  BY NAssumption DEF Init, RingShape, aesd_circular_buffer_init, Slots
<1>3. MemorySafe
  BY DEF Init, MemorySafe
<1>4. MutexHeld
  BY CharAssumption DEF Init, MutexHeld, Critical, WritePCs, ReadPCs
<1>5. FilesOpen /\ KbufHolds
  BY DEF Init, FilesOpen, KbufHolds
<1>6. FoundHolds
  BY DEF Init, FoundHolds
<1>7. RoomHolds
  BY DEF Init, RoomHolds
<1> QED BY <1>1, <1>11, <1>2, <1>3, <1>4, <1>5, <1>6, <1>7 DEF IInv, TypeOK

\* Opening and closing a file changes its position only.
LEMMA FileStep ==
  ASSUME IInv, NEW p \in Procs, aesd_open(p) \/ aesd_release(p)
  PROVE  IInv'
<1> USE DEF IInv, aesd_open, aesd_release, devVars, callVars
<1>1. TypeOK'
  <2>1. DeviceTypes'
    BY DEF TypeOK, DeviceTypes
  <2>2. PICK x \in Nat \cup {-1} : f_pos' = [f_pos EXCEPT ![p] = x]
    OBVIOUS
  <2>22. f_pos' \in [Procs -> Nat \cup {-1}]
    BY <2>2, Zenon DEF TypeOK, CallTypes
  <2>3. CallTypes'
    BY <2>22 DEF TypeOK, CallTypes
  <2> QED BY <2>1, <2>3 DEF TypeOK
<1>2. RingShape' /\ MemorySafe'
  BY SameMemory
<1>3. MutexHeld' /\ KbufHolds'
  BY DEF MutexHeld, KbufHolds
<1>4. FilesOpen'
  BY DEF FilesOpen, TypeOK, CallTypes
<1>5. FoundHolds'
  BY DEF FoundHolds
<1>6. RoomHolds'
  BY DEF RoomHolds
<1> QED BY <1>1, <1>2, <1>3, <1>4, <1>5, <1>6

\* A call begins with the wait for the mutex.
LEMMA CallStep ==
  ASSUME IInv, NEW p \in Procs,
         (\E d \in Payloads : CallWrite(p, d)) \/ (\E c \in Counts : CallRead(p, c))
  PROVE  IInv'
<1> USE DEF IInv, CallWrite, CallRead, Goto, devVars
<1>1. TypeOK'
  <2>1. DeviceTypes'
    BY DEF TypeOK, DeviceTypes
  <2>2. /\ pc' \in [Procs -> Critical \cup {"idle", "write_lock", "read_lock"}]
        /\ count' \in [Procs -> Nat]
    BY CharAssumption DEF TypeOK, CallTypes
  <2>3. data' \in [Procs -> Seq(Bytes)]
    BY CharAssumption DEF TypeOK, CallTypes
  <2>4. CallTypes'
    BY <2>2, <2>3 DEF TypeOK, CallTypes
  <2> QED BY <2>1, <2>4 DEF TypeOK
<1>2. RingShape' /\ MemorySafe'
  BY SameMemory
<1>3. MutexHeld'
  BY DEF MutexHeld, TypeOK, DeviceTypes, CallTypes, Critical, WritePCs, ReadPCs
<1>4. FilesOpen'
  BY DEF FilesOpen, TypeOK, CallTypes
<1>5. KbufHolds'
  BY DEF KbufHolds, TypeOK, CallTypes
<1>6. FoundHolds'
  BY DEF FoundHolds, TypeOK, CallTypes
<1>7. RoomHolds'
  BY DEF RoomHolds, TypeOK, CallTypes
<1> QED BY <1>1, <1>2, <1>3, <1>4, <1>5, <1>6, <1>7

\* The mutex goes to one waiting process.
LEMMA LockStep ==
  ASSUME IInv, NEW p \in Procs, Lock(p)
  PROVE  IInv'
<1> USE DEF IInv, Lock, Goto, devVars, callVars
<1>1. TypeOK'
  BY DEF TypeOK, DeviceTypes, CallTypes, Critical, WritePCs, ReadPCs
<1>2. RingShape' /\ MemorySafe'
  BY SameMemory
<1>3. MutexHeld'
  BY CharAssumption DEF MutexHeld, TypeOK, DeviceTypes, CallTypes, Critical, WritePCs, ReadPCs
<1>4. FilesOpen'
  BY DEF FilesOpen, TypeOK, CallTypes
<1>5. KbufHolds'
  BY DEF KbufHolds, TypeOK, CallTypes
<1>6. FoundHolds'
  BY DEF FoundHolds, TypeOK, CallTypes
<1>7. RoomHolds'
  BY DEF RoomHolds, TypeOK, CallTypes
<1> QED BY <1>1, <1>2, <1>3, <1>4, <1>5, <1>6, <1>7

\* The type of a call's variables is kept when the call returns.
LEMMA ReturnTypes ==
  ASSUME CallTypes, NEW p \in Procs, NEW from, Return(p, from), f_pos' = f_pos
  PROVE  CallTypes'
<1> USE DEF Return, Goto, CallTypes
<1>1. /\ pc' \in [Procs -> Critical \cup {"idle", "write_lock", "read_lock"}]
      /\ retval' \in [Procs -> {"none", "count", "ENOMEM", "EFAULT"}]
  OBVIOUS
<1>2. count' \in [Procs -> Nat] /\ kbuf' \in [Procs -> Addr \cup {NULL}]
  OBVIOUS
<1>3. data' \in [Procs -> Seq(Bytes)]
  <2>1. data' = [data EXCEPT ![p] = <<>>] /\ <<>> \in Seq(Bytes)
    OBVIOUS
  <2> QED BY <2>1, Override, Zenon
<1>4. found' \in [Procs -> [slot : Slots, offset : Nat] \cup {NULL}]
  OBVIOUS
<1> QED BY <1>1, <1>2, <1>3, <1>4

\* A process that returns without kbuf leaves the memory as it is.
LEMMA ReturnStep ==
  ASSUME IInv, NEW p \in Procs, Interrupted(p) \/ Exit(p)
  PROVE  IInv'
<1> USE DEF IInv, Interrupted, Exit, Return, Goto, devVars
<1>1. kbuf' = kbuf
  <2>1. kbuf[p] = NULL
    BY DEF KbufHolds
  <2> QED BY <2>1 DEF TypeOK, CallTypes
<1>2. TypeOK'
  BY ReturnTypes DEF TypeOK, DeviceTypes
<1>3. RingShape' /\ MemorySafe'
  BY <1>1, SameMemory
<1>4. MutexHeld'
  BY CharAssumption DEF MutexHeld, TypeOK, DeviceTypes, CallTypes, Critical, WritePCs, ReadPCs
<1>5. FilesOpen'
  BY DEF FilesOpen, TypeOK, CallTypes
<1>6. KbufHolds'
  BY <1>1 DEF KbufHolds, TypeOK, CallTypes
<1>7. FoundHolds'
  BY DEF FoundHolds, TypeOK, CallTypes
<1>8. RoomHolds'
  BY DEF RoomHolds, TypeOK, CallTypes
<1> QED BY <1>2, <1>3, <1>4, <1>5, <1>6, <1>7, <1>8
(***************************************************************************)
(* The search of aesd_read either returns at the end of the data or finds  *)
(* an entry; the mutex keeps it until it is copied.                        *)
(***************************************************************************)
LEMMA FindStep ==
  ASSUME IInv, NEW p \in Procs, Find(p)
  PROVE  IInv'
<1> DEFINE e == aesd_circular_buffer_find_entry_offset_for_fpos(buffer, f_pos[p])
<1> HIDE DEF e
<1>1. CASE /\ Return(p, "read_find") /\ lock' = Nobody
           /\ UNCHANGED <<devVars, heap, f_pos>>
  <2> USE <1>1 DEF IInv, TypeOK, devVars
  <2>1. kbuf' = kbuf
    <3>1. kbuf[p] = NULL
      BY DEF KbufHolds, Return, Goto
    <3> QED BY <3>1 DEF CallTypes, Return
  <2>2. CallTypes'
    BY ReturnTypes
  <2>3. DeviceTypes'
    BY DEF DeviceTypes
  <2>4. RingShape' /\ MemorySafe'
    BY <2>1, SameMemory
  <2>5. MutexHeld'
    BY CharAssumption DEF MutexHeld, CallTypes, Critical, WritePCs, ReadPCs, Return, Goto
  <2>6. FilesOpen'
    BY DEF FilesOpen, CallTypes, Return, Goto
  <2>7. KbufHolds'
    BY <2>1 DEF KbufHolds, CallTypes, Return, Goto
  <2>8. FoundHolds'
    BY DEF FoundHolds, CallTypes, Return, Goto
  <2>9. RoomHolds'
    BY DEF RoomHolds, CallTypes, Return, Goto
  <2> QED BY <2>2, <2>3, <2>4, <2>5, <2>6, <2>7, <2>8, <2>9
<1>2. CASE /\ e # NULL
           /\ Goto(p, "read_find", "read_copy")
           /\ found' = [found EXCEPT ![p] = e]
           /\ UNCHANGED <<devVars, lock, heap, f_pos, data, count, kbuf, retval>>
  <2> USE <1>2 DEF IInv, TypeOK, devVars, Goto
  <2>1. f_pos[p] \in Nat
    BY DEF FilesOpen, CallTypes
  <2>2. buffer.out_offs \in Slots
    BY DEF DeviceTypes
  <2>3. e \in [slot : Slots, offset : Nat] /\ e.offset < buffer.entry[e.slot].size
    BY <2>1, <2>2, FindInside DEF e
  <2>4. CallTypes'
    <3>1. pc' \in [Procs -> Critical \cup {"idle", "write_lock", "read_lock"}]
      BY DEF CallTypes, Critical, ReadPCs
    <3>2. found' \in [Procs -> [slot : Slots, offset : Nat] \cup {NULL}]
      BY <2>3 DEF CallTypes
    <3> QED BY <3>1, <3>2 DEF CallTypes
  <2>5. DeviceTypes'
    BY DEF DeviceTypes
  <2>6. RingShape' /\ MemorySafe'
    BY SameMemory
  <2>7. MutexHeld'
    BY DEF MutexHeld, CallTypes, Critical, WritePCs, ReadPCs
  <2>8. FilesOpen'
    BY DEF FilesOpen, CallTypes
  <2>9. KbufHolds'
    BY DEF KbufHolds, CallTypes
  <2>10. FoundHolds'
    BY <2>3 DEF FoundHolds, CallTypes
  <2>11. RoomHolds'
    BY DEF RoomHolds, CallTypes
  <2> QED BY <2>4, <2>5, <2>6, <2>7, <2>8, <2>9, <2>10, <2>11
<1> QED BY <1>1, <1>2 DEF Find, e

\* The copy to user space moves the file position forwards.
LEMMA CopyToUserStep ==
  ASSUME IInv, NEW p \in Procs, CopyToUser(p)
  PROVE  IInv'
<1> USE DEF IInv, TypeOK, CopyToUser, Goto, Result, devVars
<1>1. f_pos[p] \in Nat
  BY DEF FilesOpen, CallTypes
<1>2. bytes_to_copy(p) \in Nat
  <2>1. found[p] \in [slot : Slots, offset : Nat]
    BY DEF FoundHolds, CallTypes
  <2>2. buffer.entry[found[p].slot].size \in Nat
    BY <2>1 DEF DeviceTypes, Entry
  <2>3. found[p].offset < buffer.entry[found[p].slot].size
    BY DEF FoundHolds
  <2>4. count[p] \in Nat
    BY DEF CallTypes
  <2> QED BY <2>1, <2>2, <2>3, <2>4 DEF bytes_to_copy
<1>3. DeviceTypes'
  BY DEF DeviceTypes
<1>4. CallTypes'
  <2>1. f_pos' \in [Procs -> Nat \cup {-1}]
    <3>1. f_pos[p] + bytes_to_copy(p) \in Nat \cup {-1}
      BY <1>1, <1>2
    <3>2. \/ f_pos' = f_pos
          \/ f_pos' = [f_pos EXCEPT ![p] = f_pos[p] + bytes_to_copy(p)]
      BY Zenon
    <3> QED BY <3>1, <3>2, Override, Zenon DEF CallTypes
  <2>2. /\ pc' \in [Procs -> Critical \cup {"idle", "write_lock", "read_lock"}]
        /\ retval' \in [Procs -> {"none", "count", "ENOMEM", "EFAULT"}]
    BY DEF CallTypes, Critical, ReadPCs
  <2> QED BY <2>1, <2>2 DEF CallTypes
<1>5. RingShape' /\ MemorySafe'
  BY SameMemory
<1>6. MutexHeld'
  BY DEF MutexHeld, CallTypes, Critical, WritePCs, ReadPCs
<1>7. FilesOpen'
  BY <1>1, <1>2 DEF FilesOpen, CallTypes
<1>8. KbufHolds'
  BY DEF KbufHolds, CallTypes
<1>9. FoundHolds'
  BY DEF FoundHolds, CallTypes
<1>10. RoomHolds'
  BY DEF RoomHolds, CallTypes
<1> QED BY <1>3, <1>4, <1>5, <1>6, <1>7, <1>8, <1>9, <1>10
-----------------------------------------------------------------------------
(* The actions that move heap blocks.                                      *)

\* A block that is free belongs neither to a call nor to the device.
LEMMA FreeIsUnowned ==
  ASSUME IInv, NEW a \in Addr, heap[a] = FREE
  PROVE  /\ \A q \in Procs : kbuf[q] # a
         /\ a \notin DevPtrs
<1> USE DEF IInv
<1>1. a # NULL
  BY CharAssumption
<1>2. \A q \in Procs : kbuf[q] # a
  BY <1>1 DEF MemorySafe
<1>3. ASSUME loaded, NEW i \in Slots PROVE buffer.entry[i].buffptr # a
  BY <1>1, <1>3 DEF MemorySafe, RingShape, Occupied, NullEntry, TypeOK, DeviceTypes, Slots
<1>4. ASSUME loaded PROVE entry.buffptr # a
  BY <1>1, <1>4 DEF MemorySafe
<1> QED BY <1>2, <1>3, <1>4 DEF DevPtrs, RingPtrs

\* The bytes of a fresh block.
LEMMA FreshContent ==
  ASSUME NEW n \in Nat
  PROVE  Uninitialised(n) \in Content /\ Uninitialised(n) # FREE
<1>1. Uninitialised(n) \in Content
  BY DEF Uninitialised, Content
<1> QED BY <1>1, CharAssumption DEF Content

\* An error path before krealloc leaves the memory as it is.
LEMMA ErrorStep ==
  ASSUME IInv, NEW p \in Procs, NEW from, NEW to, NEW r \in {"ENOMEM", "EFAULT"},
         \/ from = "write_kmalloc" /\ to = "exit"
         \/ from = "write_copy" /\ to = "exit_free",
         Goto(p, from, to), Result(p, r), UNCHANGED <<devVars, lock, heap, f_pos>>
  PROVE  IInv'
<1> USE DEF IInv, TypeOK, Goto, Result, devVars
<1>1. DeviceTypes'
  BY DEF DeviceTypes
<1>2. CallTypes'
  BY DEF CallTypes, Critical, WritePCs
<1>3. RingShape' /\ MemorySafe'
  BY SameMemory
<1>4. MutexHeld'
  BY DEF MutexHeld, CallTypes, Critical, WritePCs, ReadPCs
<1>5. FilesOpen'
  BY DEF FilesOpen, CallTypes
<1>6. KbufHolds'
  BY DEF KbufHolds, CallTypes
<1>7. FoundHolds'
  BY DEF FoundHolds, CallTypes
<1>8. RoomHolds'
  BY DEF RoomHolds, CallTypes
<1> QED BY <1>1, <1>2, <1>3, <1>4, <1>5, <1>6, <1>7, <1>8

\* kmalloc takes a free block for kbuf.
LEMMA KmallocStep ==
  ASSUME IInv, NEW p \in Procs, Kmalloc(p)
  PROVE  IInv'
<1> USE DEF IInv, TypeOK, Goto, devVars
<1>1. CASE /\ Goto(p, "write_kmalloc", "exit")
           /\ Result(p, "ENOMEM")
           /\ UNCHANGED <<devVars, lock, heap, f_pos>>
  BY <1>1, ErrorStep
<1>2. ASSUME NEW a \in FreeAddrs,
             Goto(p, "write_kmalloc", "write_copy"),
             heap' = [heap EXCEPT ![a] = Uninitialised(Len(data[p]))],
             kbuf' = [kbuf EXCEPT ![p] = a],
             UNCHANGED <<devVars, lock, f_pos, data, count, found, retval>>
      PROVE  IInv'
  <2> USE <1>2
  <2>1. a \in Addr /\ heap[a] = FREE /\ a # NULL
    BY CharAssumption DEF FreeAddrs
  <2>2. /\ \A q \in Procs : kbuf[q] # a
        /\ a \notin DevPtrs
    BY <2>1, FreeIsUnowned
  <2>3. Uninitialised(Len(data[p])) \in Content /\ Uninitialised(Len(data[p])) # FREE
    BY FreshContent DEF CallTypes
  <2>4. heap' \in [Addr -> Content \cup {FREE}]
    BY <2>1, <2>3, Override, Zenon DEF DeviceTypes
  <2>5. DeviceTypes'
    BY <2>4 DEF DeviceTypes
  <2>6. CallTypes'
    BY <2>1 DEF CallTypes, Critical, WritePCs
  <2>7. RingShape'
    BY DEF RingShape
  <2>8. DevPtrs' = DevPtrs
    BY DEF DevPtrs, RingPtrs
  <2>9. \A b \in Addr : heap[b] # FREE => heap'[b] # FREE
    BY <2>1, <2>3 DEF DeviceTypes
  <2>10. MemorySafe'
    <3>1. ASSUME NEW q \in Procs, kbuf'[q] # NULL
          PROVE  /\ heap'[kbuf'[q]] # FREE
                 /\ kbuf'[q] \notin DevPtrs'
                 /\ \A r \in Procs \ {q} : kbuf'[r] # kbuf'[q]
      <4>1. CASE q = p
        BY <4>1, <2>1, <2>2, <2>3, <2>8 DEF CallTypes, DeviceTypes
      <4>2. CASE q # p
        BY <3>1, <4>2, <2>2, <2>8, <2>9 DEF CallTypes, MemorySafe
      <4> QED BY <4>1, <4>2
    <3>2. ASSUME loaded'
          PROVE  /\ \A i \in Occupied' : /\ buffer'.entry[i].buffptr # NULL
                                         /\ heap'[buffer'.entry[i].buffptr] # FREE
                                         /\ buffer'.entry[i].buffptr # entry'.buffptr
                 /\ \A i, j \in Occupied' :
                      i # j => buffer'.entry[i].buffptr # buffer'.entry[j].buffptr
                 /\ entry'.buffptr # NULL => heap'[entry'.buffptr] # FREE
      BY <3>2, <2>9 DEF MemorySafe, Occupied, DeviceTypes, Entry
    <3> QED BY <3>1, <3>2 DEF MemorySafe
  <2>11. MutexHeld'
    BY DEF MutexHeld, CallTypes, Critical, WritePCs, ReadPCs
  <2>12. FilesOpen'
    BY DEF FilesOpen, CallTypes
  <2>13. KbufHolds'
    BY <2>1, <2>2 DEF KbufHolds, MutexHeld, CallTypes, DeviceTypes, Critical, WritePCs
  <2>14. FoundHolds'
    BY DEF FoundHolds, CallTypes
  <2>15. RoomHolds'
    BY DEF RoomHolds, MutexHeld, CallTypes, Critical, WritePCs
  <2> QED BY <2>5, <2>6, <2>7, <2>10, <2>11, <2>12, <2>13, <2>14, <2>15
<1> QED BY <1>1, <1>2 DEF Kmalloc
\* The copy from user space fills kbuf.
LEMMA CopyFromUserStep ==
  ASSUME IInv, NEW p \in Procs, CopyFromUser(p)
  PROVE  IInv'
<1> USE DEF IInv, TypeOK, Goto, devVars
<1>1. CASE /\ Goto(p, "write_copy", "exit_free")
           /\ Result(p, "EFAULT")
           /\ UNCHANGED <<devVars, lock, heap, f_pos>>
  BY <1>1, ErrorStep
<1>2. CASE /\ Goto(p, "write_copy", "write_krealloc")
           /\ heap' = [heap EXCEPT ![kbuf[p]] = data[p]]
           /\ UNCHANGED <<devVars, callVars, lock, f_pos>>
  <2> USE <1>2 DEF callVars
  <2>1. kbuf[p] \in Addr
    BY DEF KbufHolds, CallTypes
  <2>2. data[p] \in Content /\ data[p] # FREE
    <3>1. data[p] \in Seq(Bytes)
      BY DEF CallTypes
    <3>2. data[p] \in Seq(Bytes \cup {Junk})
      BY <3>1
    <3> QED BY <3>2, CharAssumption DEF Content
  <2>3. heap' \in [Addr -> Content \cup {FREE}]
    BY <2>1, <2>2, Override, Zenon DEF DeviceTypes
  <2>4. DeviceTypes'
    BY <2>3 DEF DeviceTypes
  <2>5. CallTypes'
    BY DEF CallTypes, Critical, WritePCs
  <2>6. RingShape'
    BY DEF RingShape
  <2>7. DevPtrs' = DevPtrs /\ Occupied' = Occupied
    BY DEF DevPtrs, RingPtrs, Occupied
  <2>8. \A b \in Addr : heap[b] # FREE => heap'[b] # FREE
    BY <2>1, <2>2 DEF DeviceTypes
  <2>9. MemorySafe'
    <3>1. ASSUME NEW q \in Procs, kbuf'[q] # NULL
          PROVE  /\ heap'[kbuf'[q]] # FREE
                 /\ kbuf'[q] \notin DevPtrs'
                 /\ \A r \in Procs \ {q} : kbuf'[r] # kbuf'[q]
      BY <3>1, <2>7, <2>8 DEF CallTypes, MemorySafe
    <3>2. ASSUME loaded'
          PROVE  /\ \A i \in Occupied' : /\ buffer'.entry[i].buffptr # NULL
                                         /\ heap'[buffer'.entry[i].buffptr] # FREE
                                         /\ buffer'.entry[i].buffptr # entry'.buffptr
                 /\ \A i, j \in Occupied' :
                      i # j => buffer'.entry[i].buffptr # buffer'.entry[j].buffptr
                 /\ entry'.buffptr # NULL => heap'[entry'.buffptr] # FREE
      BY <3>2, <2>8 DEF MemorySafe, Occupied, DeviceTypes, Entry
    <3> QED BY <3>1, <3>2 DEF MemorySafe
  <2>10. MutexHeld'
    BY DEF MutexHeld, CallTypes, Critical, WritePCs, ReadPCs
  <2>11. FilesOpen'
    BY DEF FilesOpen, CallTypes
  <2>12. KbufHolds'
    <3>1. heap'[kbuf[p]] = data[p]
      BY <2>1 DEF DeviceTypes
    <3> QED BY <3>1 DEF KbufHolds, MutexHeld, CallTypes, Critical, WritePCs
  <2>13. FoundHolds'
    BY DEF FoundHolds, CallTypes
  <2>14. RoomHolds'
    BY DEF RoomHolds, MutexHeld, CallTypes, Critical, WritePCs
  <2> QED BY <2>4, <2>5, <2>6, <2>9, <2>10, <2>11, <2>12, <2>13, <2>14
<1> QED BY <1>1, <1>2 DEF CopyFromUser

\* kbuf is freed; no other owner has its block.
LEMMA ExitFreeStep ==
  ASSUME IInv, NEW p \in Procs, ExitFree(p)
  PROVE  IInv'
<1> USE DEF IInv, TypeOK, ExitFree, Goto, devVars
<1>1. kbuf[p] \in Addr /\ kbuf[p] # NULL
  BY DEF KbufHolds, CallTypes
<1>2. \A b \in Addr : heap'[b] = IF b = kbuf[p] THEN FREE ELSE heap[b]
  BY DEF Kfree
<1>3. heap' \in [Addr -> Content \cup {FREE}]
  BY DEF Kfree, DeviceTypes
<1>4. DeviceTypes'
  BY <1>3 DEF DeviceTypes
<1>5. CallTypes'
  BY DEF CallTypes, Critical, WritePCs
<1>6. RingShape'
  BY DEF RingShape
<1>7. DevPtrs' = DevPtrs /\ Occupied' = Occupied
  BY DEF DevPtrs, RingPtrs, Occupied
<1>8. MemorySafe'
  <2>1. ASSUME NEW q \in Procs, kbuf'[q] # NULL
        PROVE  /\ heap'[kbuf'[q]] # FREE
               /\ kbuf'[q] \notin DevPtrs'
               /\ \A r \in Procs \ {q} : kbuf'[r] # kbuf'[q]
    <3>1. q # p /\ kbuf'[q] = kbuf[q] /\ kbuf[q] \in Addr /\ kbuf[q] # NULL
      BY <2>1 DEF CallTypes
    <3>2. /\ heap[kbuf[q]] # FREE /\ kbuf[q] \notin DevPtrs
          /\ \A r \in Procs \ {q} : kbuf[r] # kbuf[q]
      BY <3>1 DEF MemorySafe
    <3> QED BY <3>1, <3>2, <1>1, <1>2, <1>7 DEF CallTypes
  <2>2. ASSUME loaded'
        PROVE  /\ \A i \in Occupied' : /\ buffer'.entry[i].buffptr # NULL
                                       /\ heap'[buffer'.entry[i].buffptr] # FREE
                                       /\ buffer'.entry[i].buffptr # entry'.buffptr
               /\ \A i, j \in Occupied' :
                    i # j => buffer'.entry[i].buffptr # buffer'.entry[j].buffptr
               /\ entry'.buffptr # NULL => heap'[entry'.buffptr] # FREE
    <3>1. kbuf[p] \notin DevPtrs
      BY <1>1 DEF MemorySafe
    <3>2. \A b \in DevPtrs : b \in Addr => heap'[b] = heap[b]
      BY <3>1, <1>2
    <3>3. \A i \in Occupied : buffer.entry[i].buffptr \in DevPtrs \cap Addr
      BY <2>2 DEF DevPtrs, RingPtrs, Occupied, MemorySafe, DeviceTypes, Entry
    <3>4. entry.buffptr # NULL => entry.buffptr \in DevPtrs \cap Addr
      BY <2>2 DEF DevPtrs, DeviceTypes, Entry
    <3> QED BY <2>2, <3>2, <3>3, <3>4, <1>7 DEF MemorySafe
  <2> QED BY <2>1, <2>2 DEF MemorySafe
<1>9. MutexHeld'
  BY DEF MutexHeld, CallTypes, Critical, WritePCs, ReadPCs
<1>10. FilesOpen'
  BY DEF FilesOpen, CallTypes
<1>11. KbufHolds'
  BY DEF KbufHolds, MutexHeld, CallTypes, Critical, WritePCs
<1>12. FoundHolds'
  BY DEF FoundHolds, CallTypes
<1>13. RoomHolds'
  BY DEF RoomHolds, MutexHeld, CallTypes, Critical, WritePCs
<1> QED BY <1>4, <1>5, <1>6, <1>8, <1>9, <1>10, <1>11, <1>12, <1>13
\* What the device owns while the module is loaded.
LEMMA DeviceBlocks ==
  ASSUME IInv, loaded
  PROVE  /\ \A i \in Occupied : /\ i \in Slots
                                /\ buffer.entry[i].buffptr \in DevPtrs \cap Addr
         /\ entry.buffptr # NULL => /\ entry.buffptr \in DevPtrs \cap Addr
                                   /\ heap[entry.buffptr] \in Content
<1> USE DEF IInv, TypeOK
<1>1. \A i \in Occupied : i \in Slots /\ buffer.entry[i].buffptr \in DevPtrs \cap Addr
  BY DEF DevPtrs, RingPtrs, Occupied, MemorySafe, DeviceTypes, Entry
<1>2. entry.buffptr # NULL => entry.buffptr \in DevPtrs \cap Addr
  BY DEF DevPtrs, DeviceTypes, Entry
<1>3. entry.buffptr # NULL => heap[entry.buffptr] \in Content
  BY <1>2 DEF MemorySafe, DeviceTypes
<1> QED BY <1>1, <1>2, <1>3

\* The block that krealloc returns.
LEMMA GrownContent ==
  ASSUME NEW ptr, NEW n \in Nat, ptr # NULL => heap[ptr] \in Content
  PROVE  /\ Grown(ptr, n) \in Content
         /\ Grown(ptr, n) # FREE
         /\ Len(Grown(ptr, n)) = n
<1>1. ASSUME NEW i \in 1 .. n
      PROVE  (IF ptr # NULL /\ i <= Len(heap[ptr]) THEN heap[ptr][i] ELSE Junk)
               \in Bytes \cup {Junk}
  BY DEF Content
<1>2. Grown(ptr, n) \in Content
  BY <1>1 DEF Grown, Content
<1>3. Len(Grown(ptr, n)) = n
  BY DEF Grown
<1> QED BY <1>2, <1>3, CharAssumption DEF Content

(***************************************************************************)
(* krealloc moves the partial command to a block nobody owns, or, when it  *)
(* fails, drops the driver's only pointer to it.                           *)
(***************************************************************************)
LEMMA KreallocStep ==
  ASSUME IInv, NEW p \in Procs, Krealloc(p)
  PROVE  IInv'
<1> USE DEF IInv, TypeOK, Goto, devVars
<1> DEFINE ptr == entry.buffptr
           n   == entry.size + copy_size(heap[kbuf[p]])
<1>1. pc[p] = "write_krealloc" /\ loaded
  BY DEF Krealloc, FilesOpen
<1>2. /\ kbuf[p] \in Addr /\ kbuf[p] # NULL
      /\ heap[kbuf[p]] = data[p] /\ data[p] \in Seq(Bytes)
  BY <1>1 DEF KbufHolds, CallTypes
<1>3. n \in Nat
  <2>1. copy_size(data[p]) \in Nat
    BY <1>2, CopySizeBound
  <2>2. entry.size \in Nat
    BY DEF DeviceTypes, Entry
  <2> QED BY <1>2, <2>1, <2>2
<1>4. loaded' = loaded /\ buffer' = buffer /\ Occupied' = Occupied
  BY DEF Krealloc, Occupied
<1>5. RingShape'
  BY <1>4 DEF RingShape
<1>6. CASE /\ Goto(p, "write_krealloc", "write_store")
           /\ \E a \in FreeAddrs \cup ({ptr} \ {NULL}) :
                /\ heap' = [Kfree(heap, {ptr}) EXCEPT ![a] = Grown(ptr, n)]
                /\ entry' = [entry EXCEPT !.buffptr = a]
           /\ UNCHANGED <<loaded, buffer, callVars, lock, f_pos>>
  <2> USE <1>6 DEF callVars
  <2>1. PICK a \in FreeAddrs \cup ({ptr} \ {NULL}) :
               /\ heap' = [Kfree(heap, {ptr}) EXCEPT ![a] = Grown(ptr, n)]
               /\ entry' = [entry EXCEPT !.buffptr = a]
    OBVIOUS
  <2>2. a \in Addr /\ a # NULL
    BY <2>1, <1>1, CharAssumption, DeviceBlocks DEF FreeAddrs
  <2>3. /\ Grown(ptr, n) \in Content /\ Grown(ptr, n) # FREE
        /\ Len(Grown(ptr, n)) = n
    BY <1>1, <1>3, DeviceBlocks, GrownContent
  <2>4. Kfree(heap, {ptr}) \in [Addr -> Content \cup {FREE}]
    BY DEF Kfree, DeviceTypes
  <2>5. heap' \in [Addr -> Content \cup {FREE}]
    BY <2>1, <2>2, <2>3, <2>4, Override, Zenon
  <2>6. \A b \in Addr : heap'[b] = IF b = a THEN Grown(ptr, n)
                                  ELSE IF b = ptr THEN FREE ELSE heap[b]
    BY <2>1, <2>2, <2>4 DEF Kfree
  <2>7. /\ entry' \in Entry /\ entry'.buffptr = a /\ entry'.size = entry.size
    BY <2>1, <2>2 DEF DeviceTypes, Entry
  <2>8. DeviceTypes'
    BY <2>5, <2>7 DEF DeviceTypes
  <2>9. CallTypes'
    BY DEF CallTypes, Critical, WritePCs
  <2>10. /\ \A q \in Procs : kbuf[q] # NULL => kbuf[q] # a /\ kbuf[q] # ptr
         /\ \A i \in Occupied : buffer.entry[i].buffptr # a /\ buffer.entry[i].buffptr # ptr
    <3>1. CASE a \in FreeAddrs
      <4>1. (\A q \in Procs : kbuf[q] # a) /\ a \notin DevPtrs
        BY <3>1, FreeIsUnowned DEF FreeAddrs
      <4>2. ASSUME NEW q \in Procs, kbuf[q] # NULL PROVE kbuf[q] # ptr
        BY <4>2, <1>1, DeviceBlocks DEF MemorySafe
      <4>3. ASSUME NEW i \in Occupied
            PROVE  buffer.entry[i].buffptr # a /\ buffer.entry[i].buffptr # ptr
        BY <4>1, <1>1, DeviceBlocks DEF MemorySafe
      <4> QED BY <4>1, <4>2, <4>3
    <3>2. CASE a = ptr
      BY <3>2, <2>2, <1>1, DeviceBlocks DEF MemorySafe
    <3> QED BY <3>1, <3>2
  <2>11. DevPtrs' = RingPtrs \cup {a}
    BY <1>1, <1>4, <2>2, <2>7 DEF DevPtrs, RingPtrs
  <2>12. RingPtrs \subseteq DevPtrs
    BY <1>1 DEF DevPtrs
  <2>13. MemorySafe'
    <3>1. ASSUME NEW q \in Procs, kbuf'[q] # NULL
          PROVE  /\ heap'[kbuf'[q]] # FREE
                 /\ kbuf'[q] \notin DevPtrs'
                 /\ \A r \in Procs \ {q} : kbuf'[r] # kbuf'[q]
      <4>1. kbuf[q] \in Addr
        BY <3>1 DEF CallTypes
      <4>2. heap'[kbuf[q]] = heap[kbuf[q]]
        BY <3>1, <4>1, <2>6, <2>10
      <4> QED BY <3>1, <4>2, <2>10, <2>11, <2>12 DEF MemorySafe
    <3>2. ASSUME loaded'
          PROVE  /\ \A i \in Occupied' : /\ buffer'.entry[i].buffptr # NULL
                                         /\ heap'[buffer'.entry[i].buffptr] # FREE
                                         /\ buffer'.entry[i].buffptr # entry'.buffptr
                 /\ \A i, j \in Occupied' :
                      i # j => buffer'.entry[i].buffptr # buffer'.entry[j].buffptr
                 /\ entry'.buffptr # NULL => heap'[entry'.buffptr] # FREE
      <4>1. \A i \in Occupied : heap'[buffer.entry[i].buffptr] = heap[buffer.entry[i].buffptr]
        BY <1>1, <2>6, <2>10, DeviceBlocks
      <4>2. heap'[entry'.buffptr] # FREE
        BY <2>2, <2>3, <2>6, <2>7
      <4>3. \A i \in Occupied : /\ buffer.entry[i].buffptr # NULL
                              /\ heap'[buffer.entry[i].buffptr] # FREE
                              /\ buffer.entry[i].buffptr # a
        BY <1>1, <2>10, <4>1 DEF MemorySafe
      <4>4. \A i, j \in Occupied :
              i # j => buffer.entry[i].buffptr # buffer.entry[j].buffptr
        BY <1>1 DEF MemorySafe
      <4>5. \A i \in Occupied' : /\ buffer'.entry[i].buffptr # NULL
                               /\ heap'[buffer'.entry[i].buffptr] # FREE
                               /\ buffer'.entry[i].buffptr # entry'.buffptr
        BY <1>4, <2>7, <4>3
      <4>6. \A i, j \in Occupied' :
              i # j => buffer'.entry[i].buffptr # buffer'.entry[j].buffptr
        BY <1>4, <4>4
      <4> QED BY <4>2, <4>5, <4>6
    <3> QED BY <3>1, <3>2 DEF MemorySafe
  <2>14. MutexHeld'
    BY DEF MutexHeld, CallTypes, Critical, WritePCs, ReadPCs
  <2>15. FilesOpen'
    BY DEF FilesOpen, CallTypes
  <2>16. KbufHolds'
    <3>1. heap'[kbuf[p]] = data[p]
      BY <1>2, <2>6, <2>10
    <3> QED BY <3>1 DEF KbufHolds, MutexHeld, CallTypes, Critical, WritePCs
  <2>17. FoundHolds'
    BY DEF FoundHolds, CallTypes
  <2>18. RoomHolds'
    <3>1. entry'.buffptr # NULL /\ Len(heap'[entry'.buffptr]) = entry'.size + copy_size(data[p])
      BY <1>2, <2>2, <2>3, <2>6, <2>7
    <3> QED BY <3>1 DEF RoomHolds, MutexHeld, CallTypes, Critical, WritePCs
  <2> QED BY <1>5, <2>8, <2>9, <2>13, <2>14, <2>15, <2>16, <2>17, <2>18
<1>7. CASE /\ Goto(p, "write_krealloc", "exit_free")
           /\ entry' = [entry EXCEPT !.buffptr = NULL]
           /\ Result(p, "ENOMEM")
           /\ UNCHANGED <<loaded, buffer, lock, heap, f_pos>>
  <2> USE <1>7 DEF Result
  <2>1. entry' \in Entry /\ entry'.buffptr = NULL
    BY DEF DeviceTypes, Entry
  <2>2. DeviceTypes'
    BY <2>1 DEF DeviceTypes
  <2>3. CallTypes'
    BY DEF CallTypes, Critical, WritePCs
  <2>4. DevPtrs' \subseteq DevPtrs
    BY <2>1 DEF DevPtrs, RingPtrs
  <2>5. MemorySafe'
    <3>1. ASSUME NEW q \in Procs, kbuf'[q] # NULL
          PROVE  /\ heap'[kbuf'[q]] # FREE
                 /\ kbuf'[q] \notin DevPtrs'
                 /\ \A r \in Procs \ {q} : kbuf'[r] # kbuf'[q]
      BY <3>1, <2>4 DEF MemorySafe
    <3>2. ASSUME loaded'
          PROVE  /\ \A i \in Occupied' : /\ buffer'.entry[i].buffptr # NULL
                                         /\ heap'[buffer'.entry[i].buffptr] # FREE
                                         /\ buffer'.entry[i].buffptr # entry'.buffptr
                 /\ \A i, j \in Occupied' :
                      i # j => buffer'.entry[i].buffptr # buffer'.entry[j].buffptr
                 /\ entry'.buffptr # NULL => heap'[entry'.buffptr] # FREE
      BY <1>4, <3>2, <2>1 DEF MemorySafe
    <3> QED BY <3>1, <3>2 DEF MemorySafe
  <2>6. MutexHeld'
    BY DEF MutexHeld, CallTypes, Critical, WritePCs, ReadPCs
  <2>7. FilesOpen'
    BY DEF FilesOpen, CallTypes
  <2>8. KbufHolds'
    BY DEF KbufHolds, CallTypes
  <2>9. FoundHolds'
    BY DEF FoundHolds, CallTypes
  <2>10. RoomHolds'
    BY DEF RoomHolds, MutexHeld, CallTypes, Critical, WritePCs
  <2> QED BY <1>5, <2>2, <2>3, <2>5, <2>6, <2>7, <2>8, <2>9, <2>10
<1> QED BY <1>6, <1>7 DEF Krealloc
\* memcpy within the bounds of both blocks.
LEMMA MemcpyContent ==
  ASSUME NEW dst \in Content, NEW src \in Seq(Bytes), NEW o \in Nat, NEW n \in 0 .. Len(src)
  PROVE  /\ Memcpy(dst, o, src, n) \in Content
         /\ Memcpy(dst, o, src, n) # FREE
<1>1. ASSUME NEW i \in 1 .. Len(dst)
      PROVE  (IF o < i /\ i <= o + n THEN src[i - o] ELSE dst[i]) \in Bytes \cup {Junk}
  <2>1. CASE o < i /\ i <= o + n
    <3>1. i - o \in 1 .. Len(src)
      BY <2>1
    <3> QED BY <2>1, <3>1
  <2>2. CASE ~(o < i /\ i <= o + n)
    BY <2>2 DEF Content
  <2> QED BY <2>1, <2>2
<1>2. Len(dst) \in Nat
  BY DEF Content
<1>3. Memcpy(dst, o, src, n) \in Content
  BY <1>1, <1>2 DEF Memcpy, Content
<1> QED BY <1>3, CharAssumption DEF Content

\* What aesd_circular_buffer_add_entry does to a buffer of the right shape.
LEMMA AddEntryShape ==
  ASSUME DeviceTypes, RingShape, NEW e \in Entry,
         buffer' = aesd_circular_buffer_add_entry(buffer, e)
  PROVE  /\ buffer' \in [entry : [Slots -> Entry], in_offs : Slots,
                         out_offs : Slots, full : BOOLEAN]
         /\ RingShape'
         /\ buffer.in_offs \in Slots
         /\ Occupied' \subseteq Occupied \cup {buffer.in_offs}
         /\ \A i \in Slots : buffer'.entry[i] = IF i = buffer.in_offs THEN e ELSE buffer.entry[i]
<1> DEFINE in  == (buffer.in_offs + 1) % N
           out == IF buffer.full THEN (buffer.out_offs + 1) % N ELSE buffer.out_offs
<1>1. /\ buffer.in_offs \in Slots /\ buffer.out_offs \in Slots
      /\ buffer.full \in BOOLEAN /\ buffer.entry \in [Slots -> Entry]
  BY DEF DeviceTypes
<1>2. /\ in = IF buffer.in_offs + 1 = N THEN 0 ELSE buffer.in_offs + 1
      /\ (buffer.out_offs + 1) % N
           = IF buffer.out_offs + 1 = N THEN 0 ELSE buffer.out_offs + 1
  BY <1>1, Wrap
<1>3. in \in Slots /\ out \in Slots
  BY <1>1, Wrap
<1>4. /\ buffer'.entry = [buffer.entry EXCEPT ![buffer.in_offs] = e]
      /\ buffer'.in_offs = in /\ buffer'.out_offs = out /\ buffer'.full = (in = out)
  BY DEF aesd_circular_buffer_add_entry
<1>5. buffer'.entry \in [Slots -> Entry]
  BY <1>1, <1>4
<1>6. buffer' \in [entry : [Slots -> Entry], in_offs : Slots,
                  out_offs : Slots, full : BOOLEAN]
  BY <1>3, <1>5 DEF aesd_circular_buffer_add_entry
<1>7. \A i \in Slots : buffer'.entry[i] = IF i = buffer.in_offs THEN e ELSE buffer.entry[i]
  BY <1>1, <1>4
<1>8. in = out <=> (buffer.full \/ buffer.in_offs + 1 = N)
  BY <1>1, <1>2, NAssumption DEF RingShape, Slots
<1>9. RingShape'
  <2>1. buffer'.full => buffer'.in_offs = buffer'.out_offs
    BY <1>4
  <2>2. ASSUME ~buffer'.full
        PROVE  /\ buffer'.out_offs = 0
               /\ \A i \in Slots : i >= buffer'.in_offs => buffer'.entry[i] = NullEntry
    <3>1. ~buffer.full /\ buffer.in_offs + 1 # N
      BY <2>2, <1>4, <1>8
    <3>2. buffer'.out_offs = 0 /\ buffer'.in_offs = buffer.in_offs + 1
      BY <3>1, <1>2, <1>4 DEF RingShape
    <3>3. ASSUME NEW i \in Slots, i >= buffer'.in_offs PROVE buffer'.entry[i] = NullEntry
      BY <3>1, <3>2, <3>3, <1>1, <1>7 DEF RingShape, Slots
    <3> QED BY <3>2, <3>3
  <2> QED BY <2>1, <2>2 DEF RingShape
<1>10. Occupied' \subseteq Occupied \cup {buffer.in_offs}
  <2>1. ASSUME NEW i \in Slots, buffer'.full \/ i < buffer'.in_offs, i # buffer.in_offs
        PROVE  buffer.full \/ i < buffer.in_offs
    <3>1. CASE buffer'.full
      BY <2>1, <3>1, <1>1, <1>4, <1>8 DEF Slots
    <3>2. CASE i < buffer'.in_offs
      BY <2>1, <3>2, <1>1, <1>2, <1>4, NAssumption DEF Slots
    <3> QED BY <2>1, <3>1, <3>2
  <2> QED BY <2>1 DEF Occupied
<1> QED BY <1>1, <1>6, <1>7, <1>9, <1>10
(***************************************************************************)
(* The bytes are stored in the room krealloc made; a finished command      *)
(* takes its block with it into the circular buffer.                       *)
(***************************************************************************)
LEMMA StoreStep ==
  ASSUME IInv, NEW p \in Procs, Store(p)
  PROVE  IInv'
<1> USE DEF IInv, TypeOK, Goto
<1> DEFINE n == copy_size(heap[kbuf[p]])
           e == [entry EXCEPT !.size = @ + n]
           block == Memcpy(heap[entry.buffptr], entry.size, heap[kbuf[p]], n)
<1>1. /\ pc[p] = "write_store" /\ pc' = [pc EXCEPT ![p] = "exit_free"]
      /\ heap' = [heap EXCEPT ![entry.buffptr] = block]
      /\ \/ entry' = e /\ buffer' = buffer
         \/ buffer' = aesd_circular_buffer_add_entry(buffer, e) /\ entry' = NullEntry
      /\ retval' = [retval EXCEPT ![p] = "count"]
      /\ UNCHANGED <<loaded, lock, f_pos, data, count, kbuf, found>>
  BY DEF Store, StoreThen, Result
<1>2. loaded
  BY <1>1 DEF FilesOpen
<1>3. /\ kbuf[p] \in Addr /\ kbuf[p] # NULL
      /\ heap[kbuf[p]] = data[p] /\ data[p] \in Seq(Bytes)
  BY <1>1 DEF KbufHolds, CallTypes
<1>4. /\ entry.buffptr # NULL /\ entry.buffptr \in Addr
      /\ entry.buffptr \in DevPtrs /\ heap[entry.buffptr] \in Content
  BY <1>1, <1>2, DeviceBlocks DEF RoomHolds
<1>5. n \in 0 .. Len(data[p]) /\ entry.size \in Nat
  BY <1>3, CopySizeBound DEF DeviceTypes, Entry
<1>6. block \in Content /\ block # FREE
  BY <1>3, <1>4, <1>5, MemcpyContent
<1>7. e \in Entry /\ e.buffptr = entry.buffptr
  BY <1>5 DEF DeviceTypes, Entry
<1> HIDE DEF block, e, n
<1>8. heap' \in [Addr -> Content \cup {FREE}]
  BY <1>1, <1>4, <1>6, Override, Zenon DEF DeviceTypes
<1>9. \A b \in Addr : heap'[b] = IF b = entry.buffptr THEN block ELSE heap[b]
  BY <1>1, <1>4 DEF DeviceTypes
<1>10. \A b \in Addr : heap[b] # FREE => heap'[b] # FREE
  BY <1>6, <1>9
<1>11. /\ buffer' \in [entry : [Slots -> Entry], in_offs : Slots,
                       out_offs : Slots, full : BOOLEAN]
       /\ RingShape'
  <2>1. CASE buffer' = buffer
    BY <2>1 DEF RingShape, DeviceTypes
  <2>2. CASE buffer' = aesd_circular_buffer_add_entry(buffer, e)
    BY <2>2, <1>7, AddEntryShape
  <2> QED BY <1>1, <2>1, <2>2
<1>12. entry' \in Entry
  BY <1>1, <1>7 DEF NullEntry, Entry
<1>13. DeviceTypes'
  BY <1>1, <1>8, <1>11, <1>12 DEF DeviceTypes
<1>14. CallTypes'
  BY <1>1 DEF CallTypes, Critical, WritePCs
<1>15. /\ \A i \in Occupied : /\ i \in Slots
                             /\ buffer.entry[i].buffptr \in DevPtrs \cap Addr
                             /\ buffer.entry[i].buffptr # NULL
                             /\ heap[buffer.entry[i].buffptr] # FREE
                             /\ buffer.entry[i].buffptr # entry.buffptr
       /\ \A i, j \in Occupied : i # j => buffer.entry[i].buffptr # buffer.entry[j].buffptr
  BY <1>2, DeviceBlocks DEF MemorySafe
<1>16. /\ \A i \in Occupied' : /\ buffer'.entry[i].buffptr # NULL
                              /\ heap'[buffer'.entry[i].buffptr] # FREE
                              /\ buffer'.entry[i].buffptr # entry'.buffptr
       /\ \A i, j \in Occupied' :
            i # j => buffer'.entry[i].buffptr # buffer'.entry[j].buffptr
       /\ entry'.buffptr # NULL => heap'[entry'.buffptr] # FREE
       /\ DevPtrs' \subseteq DevPtrs
  <2>1. CASE entry' = e /\ buffer' = buffer
    <3>1. Occupied' = Occupied /\ DevPtrs' = DevPtrs
      BY <2>1, <1>1, <1>7 DEF Occupied, DevPtrs, RingPtrs
    <3>2. entry'.buffptr = entry.buffptr /\ heap'[entry.buffptr] # FREE
      BY <2>1, <1>4, <1>6, <1>7, <1>9
    <3>3. \A i \in Occupied : heap'[buffer.entry[i].buffptr] # FREE
      BY <1>10, <1>15
    <3>4. \A i \in Occupied' : /\ buffer'.entry[i].buffptr # NULL
                             /\ heap'[buffer'.entry[i].buffptr] # FREE
                             /\ buffer'.entry[i].buffptr # entry'.buffptr
      BY <2>1, <3>1, <3>2, <3>3, <1>15
    <3>5. \A i, j \in Occupied' :
            i # j => buffer'.entry[i].buffptr # buffer'.entry[j].buffptr
      BY <2>1, <3>1, <1>15
    <3> QED BY <3>1, <3>2, <3>4, <3>5
  <2>2. CASE /\ buffer' = aesd_circular_buffer_add_entry(buffer, e)
             /\ entry' = NullEntry
    <3>1. /\ buffer.in_offs \in Slots
          /\ Occupied' \subseteq Occupied \cup {buffer.in_offs}
          /\ \A i \in Slots :
               buffer'.entry[i] = IF i = buffer.in_offs THEN e ELSE buffer.entry[i]
      BY <2>2, <1>7, AddEntryShape
    <3>2. entry'.buffptr = NULL
      BY <2>2 DEF NullEntry
    <3>3. ASSUME NEW i \in Occupied'
          PROVE  \/ i = buffer.in_offs /\ buffer'.entry[i].buffptr = entry.buffptr
                 \/ i \in Occupied /\ buffer'.entry[i].buffptr = buffer.entry[i].buffptr
                      /\ i # buffer.in_offs
      BY <3>1, <1>7, <1>15
    <3>4. ASSUME NEW i \in Occupied'
          PROVE  buffer'.entry[i].buffptr # NULL /\ heap'[buffer'.entry[i].buffptr] # FREE
      BY <3>3, <1>4, <1>6, <1>9, <1>10, <1>15
    <3>5. ASSUME NEW i \in Occupied', NEW j \in Occupied', i # j
          PROVE  buffer'.entry[i].buffptr # buffer'.entry[j].buffptr
      BY <3>3, <3>5, <1>15
    <3>6. DevPtrs' \subseteq DevPtrs
      <4>1. ASSUME NEW i \in Slots, buffer'.entry[i].buffptr # NULL
            PROVE  buffer'.entry[i].buffptr \in DevPtrs
        BY <4>1, <3>1, <1>2, <1>4, <1>7 DEF DevPtrs, RingPtrs
      <4> QED BY <4>1, <3>2 DEF DevPtrs, RingPtrs
    <3> QED BY <3>2, <3>4, <3>5, <3>6
  <2> QED BY <1>1, <2>1, <2>2
<1>17. MemorySafe'
  <2>1. ASSUME NEW q \in Procs, kbuf'[q] # NULL
        PROVE  /\ heap'[kbuf'[q]] # FREE
               /\ kbuf'[q] \notin DevPtrs'
               /\ \A r \in Procs \ {q} : kbuf'[r] # kbuf'[q]
    BY <2>1, <1>1, <1>10, <1>16 DEF MemorySafe, CallTypes
  <2> QED BY <2>1, <1>16 DEF MemorySafe
<1>18. MutexHeld'
  BY <1>1 DEF MutexHeld, CallTypes, Critical, WritePCs, ReadPCs
<1>19. FilesOpen'
  BY <1>1 DEF FilesOpen, CallTypes
<1>20. KbufHolds'
  BY <1>1 DEF KbufHolds, MutexHeld, CallTypes, Critical, WritePCs
<1>21. FoundHolds'
  BY <1>1 DEF FoundHolds, MutexHeld, CallTypes, Critical, WritePCs, ReadPCs
<1>22. RoomHolds'
  BY <1>1 DEF RoomHolds, MutexHeld, CallTypes, Critical, WritePCs
<1> QED BY <1>11, <1>13, <1>14, <1>17, <1>18, <1>19, <1>20, <1>21, <1>22
\* The module is loaded and unloaded while no file is open and no call is made.
LEMMA ModuleStep ==
  ASSUME IInv, aesd_init_module \/ aesd_cleanup_module
  PROVE  IInv'
<1> USE DEF IInv, TypeOK
<1>1. \A q \in Procs : f_pos[q] = -1 /\ pc[q] = "idle" /\ kbuf[q] = NULL
  <2>1. \A q \in Procs : f_pos[q] = -1
    BY DEF FilesOpen, aesd_init_module, aesd_cleanup_module
  <2>2. \A q \in Procs : pc[q] = "idle"
    BY <2>1 DEF FilesOpen
  <2> QED BY <2>1, <2>2 DEF KbufHolds
<1>2. lock = Nobody /\ lock' = Nobody
  <2>1. \A q \in Procs : lock # q
    BY <1>1 DEF MutexHeld, Critical, WritePCs, ReadPCs
  <2>2. lock = Nobody
    BY <2>1 DEF DeviceTypes
  <2> QED BY <2>2 DEF aesd_init_module, aesd_cleanup_module
<1>3. UNCHANGED <<f_pos, pc, data, count, kbuf, found, retval>>
  BY DEF aesd_init_module, aesd_cleanup_module, callVars
<1>4. CallTypes'
  BY <1>3 DEF CallTypes
<1>5. MutexHeld'
  BY <1>1, <1>2, <1>3, CharAssumption DEF MutexHeld, Critical, WritePCs, ReadPCs
<1>6. FilesOpen'
  BY <1>1, <1>3 DEF FilesOpen
<1>7. KbufHolds'
  BY <1>1, <1>3 DEF KbufHolds
<1>8. FoundHolds' /\ RoomHolds'
  BY <1>1, <1>3 DEF FoundHolds, RoomHolds
<1>9. DeviceTypes' /\ RingShape' /\ MemorySafe'
  <2>1. CASE aesd_init_module
    <3> USE <2>1 DEF aesd_init_module
    <3>1. 0 \in Slots /\ NullEntry \in Entry
      BY NAssumption DEF Slots, NullEntry, Entry
    <3>2. DeviceTypes'
      BY <1>2, <3>1 DEF DeviceTypes, aesd_circular_buffer_init
    <3>3. RingShape'
      BY NAssumption DEF RingShape, aesd_circular_buffer_init, Slots
    <3>4. Occupied' = {} /\ entry'.buffptr = NULL
      BY NAssumption DEF Occupied, aesd_circular_buffer_init, Slots, NullEntry
    <3>5. MemorySafe'
      BY <1>1, <1>3, <3>4 DEF MemorySafe
    <3> QED BY <3>2, <3>3, <3>5
  <2>2. CASE aesd_cleanup_module
    <3> USE <2>2 DEF aesd_cleanup_module
    <3>1. heap' \in [Addr -> Content \cup {FREE}]
      BY DEF Kfree, DeviceTypes
    <3>2. DeviceTypes'
      BY <1>2, <3>1 DEF DeviceTypes
    <3>3. RingShape'
      BY DEF RingShape
    <3>4. MemorySafe'
      BY <1>1, <1>3 DEF MemorySafe
    <3> QED BY <3>2, <3>3, <3>4
  <2> QED BY <2>1, <2>2
<1> QED BY <1>4, <1>5, <1>6, <1>7, <1>8, <1>9

-----------------------------------------------------------------------------
(* The theorems.                                                           *)

\* Every step of the driver preserves the inductive invariant.
LEMMA NextIInv == IInv /\ [Next]_vars => IInv'
<1> SUFFICES ASSUME IInv, [Next]_vars PROVE IInv'
  OBVIOUS
<1>1. CASE UNCHANGED vars
  <2> USE <1>1 DEF vars, IInv, TypeOK
  <2>1. DeviceTypes' /\ CallTypes'
    BY DEF DeviceTypes, CallTypes
  <2>2. RingShape' /\ MemorySafe'
    BY SameMemory DEF devVars
  <2>3. MutexHeld' /\ FilesOpen' /\ KbufHolds'
    BY DEF MutexHeld, FilesOpen, KbufHolds
  <2>4. FoundHolds' /\ RoomHolds'
    BY DEF FoundHolds, RoomHolds
  <2> QED BY <2>1, <2>2, <2>3, <2>4
<1>2. ASSUME NEW p \in Procs, Call(p) PROVE IInv'
  BY <1>2, FileStep, CallStep DEF Call
<1>3. ASSUME NEW p \in Procs, Lock(p) \/ Interrupted(p) \/ Exit(p) PROVE IInv'
  BY <1>3, LockStep, ReturnStep
<1>4. ASSUME NEW p \in Procs, Locked(p) PROVE IInv'
  BY <1>3, <1>4, KmallocStep, CopyFromUserStep, KreallocStep, StoreStep, ExitFreeStep,
     FindStep, CopyToUserStep DEF Locked
<1> QED BY <1>1, <1>2, <1>3, <1>4, ModuleStep DEF Next

(***************************************************************************)
(* IInv is an invariant of the driver: whatever the processes do, the one  *)
(* that holds dev->lock finds what it has read of the device unchanged.    *)
(***************************************************************************)
THEOREM DriverInvariant == Spec => []IInv
<1>1. Init => IInv
  BY InitIInv
<1>2. IInv /\ [Next]_vars => IInv'
  BY NextIInv
<1> QED BY <1>1, <1>2, PTL DEF Spec

(***************************************************************************)
(* The variables of the driver keep their types; in particular the offsets *)
(* of the buffer stay inside it and file positions never become negative.  *)
(***************************************************************************)
THEOREM DriverTypes == Spec => []TypeOK
<1>1. IInv => TypeOK
  BY DEF IInv
<1> QED BY <1>1, DriverInvariant, PTL

(***************************************************************************)
(* add_entry keeps the shape of the circular buffer.                       *)
(***************************************************************************)
THEOREM DriverRingShape == Spec => []RingShape
<1>1. IInv => RingShape
  BY DEF IInv
<1> QED BY <1>1, DriverInvariant, PTL

(***************************************************************************)
(* No block of the driver is used after it is freed, freed twice or owned  *)
(* twice, on any error path, krealloc's included.                          *)
(***************************************************************************)
THEOREM DriverMemorySafe == Spec => []MemorySafe
<1>1. IInv => MemorySafe
  BY DEF IInv
<1> QED BY <1>1, DriverInvariant, PTL
=============================================================================
