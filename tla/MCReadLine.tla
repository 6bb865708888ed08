----------------------------- MODULE MCReadLine -----------------------------
(***************************************************************************)
(* All streams of up to MaxLen bytes, and a buffer that most of their      *)
(* lines do not fit into.                                                  *)
(***************************************************************************)
EXTENDS ReadLine

CONSTANTS
  a,       \* an ordinary byte
  MaxLen   \* bound: length of a stream

MCBytes == {a, NL}

MCStreams == UNION {[1 .. k -> MCBytes] : k \in 0 .. MaxLen}
=============================================================================
