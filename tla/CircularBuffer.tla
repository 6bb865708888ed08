--------------------------- MODULE CircularBuffer ---------------------------
(***************************************************************************)
(* The circular buffer of aesd-char-driver/aesd-circular-buffer.c: the     *)
(* last N completed writes, in an array of N entries.  The C functions     *)
(* take a pointer to a struct aesd_circular_buffer and leave all locking   *)
(* to the caller, so they are operators on a record here; the driver       *)
(* (module AesdChar) owns the record and calls them under its mutex.       *)
(***************************************************************************)
EXTENDS Integers, Sequences

CONSTANTS
  N,     \* AESDCHAR_MAX_WRITE_OPERATIONS_SUPPORTED, 10 in the header
  NULL   \* the null pointer

ASSUME NAssumption == N \in Nat \ {0}

Slots == 0 .. N - 1

(***************************************************************************)
(* struct aesd_buffer_entry: a pointer and the number of bytes it holds.   *)
(***************************************************************************)
NullEntry == [buffptr |-> NULL, size |-> 0]

aesd_circular_buffer_init ==
  [entry |-> [i \in Slots |-> NullEntry], in_offs |-> 0, out_offs |-> 0, full |-> FALSE]

\* Mutants of add_entry: full computed before in_offs moves on; no wrap-around.
add_entry_FullTooEarly(b, e) ==
  LET out == IF b.full THEN (b.out_offs + 1) % N ELSE b.out_offs
  IN  [entry    |-> [b.entry EXCEPT ![b.in_offs] = e],
       in_offs  |-> (b.in_offs + 1) % N,
       out_offs |-> out,
       full     |-> b.in_offs = out]

add_entry_NoWrap(b, e) ==
  [entry    |-> [b.entry EXCEPT ![b.in_offs] = e],
   in_offs  |-> b.in_offs + 1,
   out_offs |-> b.out_offs,
   full     |-> b.in_offs + 1 = b.out_offs]

(***************************************************************************)
(* The entry is stored at in_offs; a full buffer overwrites its oldest     *)
(* entry and moves out_offs on.  full is recomputed from the two offsets.  *)
(***************************************************************************)
aesd_circular_buffer_add_entry(b, e) ==
  LET out == IF b.full THEN (b.out_offs + 1) % N ELSE b.out_offs
      in  == (b.in_offs + 1) % N
  IN  [entry    |-> [b.entry EXCEPT ![b.in_offs] = e],
       in_offs  |-> in,
       out_offs |-> out,
       full     |-> in = out]

(***************************************************************************)
(* The search walks all N slots from slot first on, adding up sizes, for   *)
(* the entry that char_offset falls into: the bytes before that entry and  *)
(* the offset in it make up char_offset.  Slots never written have size 0  *)
(* and are walked over.                                                    *)
(***************************************************************************)
entry_index(first, i) == (first + i) % N

current_length(b, first) ==
  LET sum[i \in Slots] ==
        IF i = 0 THEN 0 ELSE sum[i-1] + b.entry[entry_index(first, i-1)].size
  IN  sum

Hits(b, first, char_offset) ==
  {h \in Slots \X (0 .. char_offset) :
     /\ current_length(b, first)[h[1]] + h[2] = char_offset
     /\ h[2] < b.entry[entry_index(first, h[1])].size}

FindFrom(b, first, char_offset) ==
  LET hits == Hits(b, first, char_offset)
      hit  == CHOOSE h \in hits : TRUE
  IN  IF hits = {} THEN NULL
                   ELSE [slot |-> entry_index(first, hit[1]), offset |-> hit[2]]

\* Mutant: the walk begins at slot 0.
find_FromSlotZero(b, char_offset) == FindFrom(b, 0, char_offset)

aesd_circular_buffer_find_entry_offset_for_fpos(b, char_offset) ==
  FindFrom(b, b.out_offs, char_offset)

\* The i-th slot in reading order, i = 0 being the oldest entry.
SlotAt(b, i) == entry_index(b.out_offs, i)

(***************************************************************************)
(* The number of entries held, which no C variable records.                *)
(***************************************************************************)
Held(b) == IF b.full THEN N ELSE b.in_offs
=============================================================================
