------------------------------ MODULE ReadLine ------------------------------
(***************************************************************************)
(* server/read_line.c as a connection thread calls it, again and again on  *)
(* one stream until it returns 0 or -1: bytes are read one at a time into  *)
(* a buffer of n bytes, and those of a line that do not fit are discarded. *)
(* A read interrupted by a signal is repeated, which changes nothing here. *)
(***************************************************************************)
EXTENDS Integers, Sequences

CONSTANTS
  n,        \* size of the buffer, 65536 in the server
  NL,       \* the newline
  Bytes,    \* byte values
  Streams   \* what a client may send before it closes

ASSUME ReadLineAssumption == n \in Nat \ {0, 1} /\ Streams \subseteq Seq(Bytes)

VARIABLES
  stream,    \* what this client sends
  pos,       \* how many bytes of it have been read
  buf,       \* bytes stored by the call under way; their number is totRead
  returned,  \* the lines returned so far
  ends,      \* how much of the stream was read when each returned (history)
  state      \* "reading", or why the last call returned no line

vars == <<stream, pos, buf, returned, ends, state>>

Init ==
  /\ stream \in Streams
  /\ pos = 0 /\ buf = <<>> /\ returned = <<>> /\ ends = <<>>
  /\ state = "reading"

\* break: the buffer is terminated with '\0' at totRead, and returned.
ReturnLine(line) ==
  /\ returned' = Append(returned, line) /\ ends' = Append(ends, pos')
  /\ buf' = <<>>

\* Mutants: the newline is not stored; the bound is off by one.
GotByte_DropsNewline ==
  LET ch   == stream[pos + 1]
      kept == IF Len(buf) < n - 1 THEN Append(buf, ch) ELSE buf
  IN  /\ state = "reading" /\ pos < Len(stream)
      /\ pos' = pos + 1
      /\ \/ ch = NL /\ ReturnLine(buf)
         \/ ch # NL /\ buf' = kept /\ UNCHANGED <<returned, ends>>
      /\ UNCHANGED <<stream, state>>

GotByte_OneMore ==
  LET ch   == stream[pos + 1]
      kept == IF Len(buf) < n THEN Append(buf, ch) ELSE buf
  IN  /\ state = "reading" /\ pos < Len(stream)
      /\ pos' = pos + 1
      /\ \/ ch = NL /\ ReturnLine(kept)
         \/ ch # NL /\ buf' = kept /\ UNCHANGED <<returned, ends>>
      /\ UNCHANGED <<stream, state>>

\* numRead = 1
GotByte ==
  LET ch   == stream[pos + 1]
      kept == IF Len(buf) < n - 1 THEN Append(buf, ch) ELSE buf
  IN  /\ state = "reading" /\ pos < Len(stream)
      /\ pos' = pos + 1
      /\ \/ ch = NL /\ ReturnLine(kept)
         \/ ch # NL /\ buf' = kept /\ UNCHANGED <<returned, ends>>
      /\ UNCHANGED <<stream, state>>

\* numRead = 0: what has been read of the last line is returned first.
GotEOF ==
  /\ state = "reading" /\ pos = Len(stream)
  /\ UNCHANGED <<stream, pos>>
  /\ \/ buf # <<>> /\ ReturnLine(buf) /\ UNCHANGED state
     \/ buf = <<>> /\ state' = "eof" /\ UNCHANGED <<buf, returned, ends>>

\* numRead = -1: the call returns -1, and what it has stored is lost.
GotError ==
  /\ state = "reading"
  /\ state' = "error"
  /\ UNCHANGED <<stream, pos, buf, returned, ends>>

Next == GotByte \/ GotEOF \/ GotError

Spec == Init /\ [][Next]_vars

-----------------------------------------------------------------------------
(* Properties.                                                             *)

(***************************************************************************)
(* The buffer never overflows: the bytes stored and the terminating '\0'   *)
(* are at most n, for lines of any length.                                 *)
(***************************************************************************)
BufferBound ==
  /\ Len(buf) + 1 <= n
  /\ \A k \in DOMAIN returned : Len(returned[k]) + 1 <= n

(***************************************************************************)
(* Lines of the stream: from its first byte, which begins the stream or    *)
(* follows a newline, to the next newline or the end of the stream.  A     *)
(* returned one is cut to n - 1 bytes, and if it is, has lost its newline. *)
(***************************************************************************)
Cut(line) == IF Len(line) < n THEN line ELSE SubSeq(line, 1, n - 1)

\* Where the k-th line starts, counting the bytes before it.
Start(k) == IF k = 1 THEN 0 ELSE ends[k - 1]

\* The stream between two of its positions.
Between(from, to) == SubSeq(stream, from + 1, to)

OneLine(from, to) == \A i \in from + 1 .. to - 1 : stream[i] # NL

(***************************************************************************)
(* What the calls have returned is the part of the stream that has been    *)
(* read, line by line, each line cut: no call takes bytes of the next      *)
(* line, the rest of a line that is too long is not mistaken for a line,   *)
(* nothing is left out between two lines, and 0 is returned only when all  *)
(* of the stream has been returned, never for a line.                      *)
(***************************************************************************)
Returned ==
  /\ DOMAIN returned = DOMAIN ends
  /\ \A k \in DOMAIN ends :
       /\ Start(k) < ends[k] /\ ends[k] <= pos /\ OneLine(Start(k), ends[k])
       /\ stream[ends[k]] = NL \/ ends[k] = Len(stream)
       /\ returned[k] = Cut(Between(Start(k), ends[k]))

UnderWay ==
  LET start == Start(Len(ends) + 1)
  IN  /\ start <= pos /\ OneLine(start, pos + 1)
      /\ buf = Cut(Between(start, pos))
      /\ state = "eof" => start = Len(stream)

ReturnsLines == Returned /\ UnderWay
=============================================================================
