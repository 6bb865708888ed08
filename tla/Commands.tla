------------------------------ MODULE Commands ------------------------------
(***************************************************************************)
(* What a write does to the content of the character device: which of its  *)
(* bytes are kept, and how a finished command enters the N that are kept.  *)
(***************************************************************************)
EXTENDS Integers, Sequences

CONSTANTS
  N,   \* how many commands are kept
  NL   \* the newline byte

HasNewline(d) == \E i \in DOMAIN d : d[i] = NL

(***************************************************************************)
(* The bytes of a write that are kept: all up to and including the first   *)
(* newline.                                                                *)
(***************************************************************************)
CopySize(d) ==
  IF HasNewline(d)
  THEN CHOOSE i \in DOMAIN d : d[i] = NL /\ \A j \in DOMAIN d : d[j] = NL => i <= j
  ELSE Len(d)

Kept(d) == SubSeq(d, 1, CopySize(d))

\* Mutant: the buffer counts as full one command early.
Push_EarlyFull(s, x) == IF Len(s) < N - 1 THEN Append(s, x) ELSE Append(Tail(s), x)

Push(s, x) == IF Len(s) < N THEN Append(s, x) ELSE Append(Tail(s), x)
=============================================================================
