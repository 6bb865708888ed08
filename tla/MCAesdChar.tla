---------------------------- MODULE MCAesdChar ----------------------------
(***************************************************************************)
(* Instances of AesdChar for TLC: a buffer of one or two commands, two     *)
(* processes, three to five heap blocks, so that the buffer wraps, commands*)
(* are evicted and memory runs out.                                        *)
(***************************************************************************)
EXTENDS AesdChar, SequencesExt

CONSTANTS a, b  \* two ordinary bytes

MCBytes == {a, b, NL}

\* Part of a command, and the end of one with a byte after its newline.
MCFewPayloads == {<<a>>, <<b, NL, a>>}

Symmetry == Permutations(Addr) \cup Permutations(Procs)

(***************************************************************************)
(* A successful read returns at least one byte, and exactly the bytes that *)
(* stand at the file position when the stored commands are concatenated    *)
(* end to end; a read returns 0 only at or beyond their end.               *)
(***************************************************************************)
ReadsConcatenation ==
  [][\A p \in Procs :
       /\ (pc[p] = "read_copy" /\ retval'[p] = "count" /\ pc'[p] = "read_exit") =>
            /\ f_pos'[p] > f_pos[p]
            /\ CopiedBytes(p) = SubSeq(FlattenSeq(Lines), f_pos[p] + 1, f_pos'[p])
       /\ (pc[p] = "read_find" /\ pc'[p] = "idle") => f_pos[p] >= Len(FlattenSeq(Lines))
    ]_vars
=============================================================================
