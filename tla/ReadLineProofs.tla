--------------------------- MODULE ReadLineProofs ---------------------------
(***************************************************************************)
(* read_line, for a buffer of any size and streams of any length: the      *)
(* calls return the lines of the stream, cut to what fits.                 *)
(***************************************************************************)
EXTENDS ReadLine, SequenceTheorems, TLAPS

TypeOK ==
  /\ stream \in Seq(Bytes) /\ pos \in 0 .. Len(stream)
  /\ buf \in Seq(Bytes)
  /\ returned \in Seq(Seq(Bytes)) /\ ends \in Seq(Nat)
  /\ state \in {"reading", "eof", "error"}

IInv == TypeOK /\ ReturnsLines

-----------------------------------------------------------------------------
(* Cut lines.                                                              *)

\* A stretch of the stream.
LEMMA BetweenSequence ==
  ASSUME NEW s \in Seq(Bytes), NEW from \in Nat, NEW to \in Nat, from <= to, to <= Len(s)
  PROVE  /\ SubSeq(s, from + 1, to) \in Seq(Bytes)
         /\ Len(SubSeq(s, from + 1, to)) = to - from
         /\ \A i \in 1 .. to - from : SubSeq(s, from + 1, to)[i] = s[from + i]
OBVIOUS

\* A cut line fits into the buffer together with the terminating '\0'.
LEMMA CutFits ==
  ASSUME NEW line \in Seq(Bytes)
  PROVE  /\ Cut(line) \in Seq(Bytes)
         /\ Len(Cut(line)) = IF Len(line) < n THEN Len(line) ELSE n - 1
         /\ \A i \in 1 .. Len(Cut(line)) : Cut(line)[i] = line[i]
BY ReadLineAssumption DEF Cut

(***************************************************************************)
(* One more byte: it is stored if it fits, else the cut line stays as it   *)
(* is.                                                                     *)
(***************************************************************************)
LEMMA CutGrows ==
  ASSUME NEW s \in Seq(Bytes), NEW from \in Nat, NEW to \in Nat, from <= to, to < Len(s)
  PROVE  LET b == Cut(SubSeq(s, from + 1, to))
         IN  Cut(SubSeq(s, from + 1, to + 1)) =
               IF Len(b) < n - 1 THEN Append(b, s[to + 1]) ELSE b
<1> DEFINE u == SubSeq(s, from + 1, to)
           v == SubSeq(s, from + 1, to + 1)
           b == Cut(u)
<1>1. /\ u \in Seq(Bytes) /\ Len(u) = to - from
      /\ \A i \in 1 .. to - from : u[i] = s[from + i]
  BY BetweenSequence
<1>2. /\ v \in Seq(Bytes) /\ Len(v) = to + 1 - from
      /\ \A i \in 1 .. to + 1 - from : v[i] = s[from + i]
  BY BetweenSequence
<1>3. s[to + 1] \in Bytes /\ s[from + (to + 1 - from)] = s[to + 1]
  OBVIOUS
<1> HIDE DEF u, v
<1>4. /\ b \in Seq(Bytes) /\ Len(b) = IF Len(u) < n THEN Len(u) ELSE n - 1
      /\ \A i \in 1 .. Len(b) : b[i] = u[i]
  BY <1>1, CutFits
<1>5. /\ Cut(v) \in Seq(Bytes) /\ Len(Cut(v)) = IF Len(v) < n THEN Len(v) ELSE n - 1
      /\ \A i \in 1 .. Len(Cut(v)) : Cut(v)[i] = v[i]
  BY <1>2, CutFits
<1> HIDE DEF b
<1>6. CASE Len(b) < n - 1
  <2>1. Len(b) = to - from /\ Len(Cut(v)) = to - from + 1
    BY <1>1, <1>2, <1>4, <1>5, <1>6, ReadLineAssumption
  <2>2. /\ Append(b, s[to + 1]) \in Seq(Bytes)
        /\ Len(Append(b, s[to + 1])) = to - from + 1
        /\ \A i \in 1 .. to - from : Append(b, s[to + 1])[i] = b[i]
        /\ Append(b, s[to + 1])[to - from + 1] = s[to + 1]
    BY <1>3, <1>4, <2>1
  <2>3. \A i \in 1 .. to - from + 1 : Append(b, s[to + 1])[i] = Cut(v)[i]
    BY <1>1, <1>2, <1>3, <1>4, <1>5, <2>1, <2>2
  <2>4. Cut(v) = Append(b, s[to + 1])
    BY <1>5, <2>1, <2>2, <2>3
  <2> QED BY <1>6, <2>4 DEF v, b, u
<1>7. CASE ~(Len(b) < n - 1)
  <2>1. Len(b) = n - 1 /\ Len(Cut(v)) = n - 1 /\ to - from >= n - 1
    BY <1>1, <1>2, <1>4, <1>5, <1>7, ReadLineAssumption
  <2>2. ASSUME NEW i \in 1 .. n - 1 PROVE Cut(v)[i] = b[i]
    <3>1. i \in 1 .. to - from /\ i \in 1 .. to + 1 - from
      BY <2>1, ReadLineAssumption
    <3>2. Cut(v)[i] = v[i] /\ b[i] = u[i]
      BY <1>4, <1>5, <2>1
    <3> QED BY <1>1, <1>2, <3>1, <3>2
  <2>3. Cut(v) = b
    BY <1>4, <1>5, <2>1, <2>2
  <2> QED BY <1>7, <2>3 DEF v, b, u
<1> QED BY <1>6, <1>7

\* Only an empty line is empty when cut.
LEMMA CutEmpty ==
  ASSUME NEW s \in Seq(Bytes), NEW from \in Nat, NEW to \in Nat, from <= to, to <= Len(s)
  PROVE  Cut(SubSeq(s, from + 1, to)) = <<>> <=> from = to
<1> DEFINE u == SubSeq(s, from + 1, to)
<1>1. u \in Seq(Bytes) /\ Len(u) = to - from
  BY BetweenSequence
<1> HIDE DEF u
<1>2. /\ Cut(u) \in Seq(Bytes)
      /\ Len(Cut(u)) = IF Len(u) < n THEN Len(u) ELSE n - 1
  BY <1>1, CutFits
<1>3. Cut(u) = <<>> <=> Len(Cut(u)) = 0
  BY <1>2, EmptySeq
<1> QED BY <1>1, <1>2, <1>3, ReadLineAssumption DEF u

-----------------------------------------------------------------------------
(* The inductive invariant.                                                *)

LEMMA InitIInv == Init => IInv
<1> SUFFICES ASSUME Init PROVE IInv
  OBVIOUS
<1>1. TypeOK
  BY ReadLineAssumption DEF Init, TypeOK
<1>2. Start(Len(ends) + 1) = 0 /\ pos = 0 /\ stream \in Seq(Bytes)
  BY ReadLineAssumption DEF Init, Start
<1>3. Returned
  BY DEF Init, Returned
<1>4. UnderWay
  <2>1. pos \in Nat /\ pos <= pos /\ pos <= Len(stream)
    BY <1>2
  <2>2. Cut(SubSeq(stream, pos + 1, pos)) = <<>>
    BY <1>2, <2>1, CutEmpty
  <2>3. Start(Len(ends) + 1) = pos /\ buf = <<>> /\ state = "reading"
    BY <1>2 DEF Init
  <2> QED BY <2>1, <2>2, <2>3 DEF UnderWay, Between, OneLine
<1> QED BY <1>1, <1>3, <1>4 DEF IInv, ReturnsLines

\* Where the line under way starts.
LEMMA StartType ==
  ASSUME IInv
  PROVE  /\ Start(Len(ends) + 1) \in Nat
         /\ \A k \in DOMAIN ends : Start(k) \in Nat /\ ends[k] \in Nat
BY DEF IInv, TypeOK, Start

(***************************************************************************)
(* A line is returned: it is recorded with its end, and the next one       *)
(* starts there.                                                           *)
(***************************************************************************)
LEMMA ReturnStep ==
  ASSUME IInv, NEW line, NEW start, start = Start(Len(ends) + 1),
         UNCHANGED stream, pos' \in 0 .. Len(stream), pos <= pos', start < pos',
         ReturnLine(line), line = Cut(Between(start, pos')), OneLine(start, pos'),
         stream[pos'] = NL \/ pos' = Len(stream),
         state' = "reading"
  PROVE  IInv'
<1>1. /\ stream \in Seq(Bytes) /\ ends \in Seq(Nat) /\ returned \in Seq(Seq(Bytes))
      /\ DOMAIN returned = DOMAIN ends /\ start \in Nat
  BY StartType DEF IInv, TypeOK, ReturnsLines, Returned
<1>10. pos' \in Nat /\ start <= pos' /\ pos' <= Len(stream)
  BY <1>1
<1>2. line \in Seq(Bytes)
  <2>1. SubSeq(stream, start + 1, pos') \in Seq(Bytes)
    BY <1>1, <1>10, BetweenSequence
  <2> QED BY <2>1, CutFits DEF Between
<1>3. /\ ends' \in Seq(Nat) /\ returned' \in Seq(Seq(Bytes)) /\ buf' = <<>>
      /\ Len(ends') = Len(ends) + 1 /\ DOMAIN ends = 1 .. Len(ends)
      /\ DOMAIN ends' = 1 .. Len(ends) + 1 /\ DOMAIN returned' = DOMAIN ends'
      /\ \A k \in 1 .. Len(ends) : ends'[k] = ends[k] /\ returned'[k] = returned[k]
      /\ ends'[Len(ends) + 1] = pos' /\ returned'[Len(ends) + 1] = line
  <2>1. Len(returned) = Len(ends) /\ DOMAIN ends = 1 .. Len(ends)
    BY <1>1
  <2>2. /\ ends' = Append(ends, pos') /\ returned' = Append(returned, line)
        /\ buf' = <<>>
    BY DEF ReturnLine
  <2>3. /\ ends' \in Seq(Nat) /\ Len(ends') = Len(ends) + 1
        /\ DOMAIN ends' = 1 .. Len(ends) + 1
        /\ \A k \in 1 .. Len(ends) : ends'[k] = ends[k]
        /\ ends'[Len(ends) + 1] = pos'
    BY <1>1, <1>10, <2>2
  <2>4. /\ returned' \in Seq(Seq(Bytes))
        /\ DOMAIN returned' = 1 .. Len(ends) + 1
        /\ \A k \in 1 .. Len(ends) : returned'[k] = returned[k]
        /\ returned'[Len(ends) + 1] = line
    BY <1>1, <1>2, <2>1, <2>2
  <2> QED BY <2>1, <2>2, <2>3, <2>4
<1>4. TypeOK'
  BY <1>1, <1>3 DEF TypeOK
<1>5. /\ \A k \in 1 .. Len(ends) + 1 : Start(k)' = Start(k)
      /\ Start(Len(ends) + 1)' = pos'
  <2>1. ASSUME NEW k \in 1 .. Len(ends) + 1 PROVE Start(k)' = Start(k)
    <3>1. k # 1 => k - 1 \in 1 .. Len(ends)
      BY <1>1
    <3> QED BY <1>3, <3>1 DEF Start
  <2>2. Len(ends) + 1 + 1 # 1 /\ Len(ends) + 1 + 1 - 1 = Len(ends) + 1
    BY <1>1
  <2>3. Start(Len(ends) + 1)' = pos'
    BY <1>3, <2>2 DEF Start
  <2> QED BY <2>1, <2>3
<1>6. Returned'
  <2> SUFFICES ASSUME NEW k \in DOMAIN ends'
               PROVE  /\ Start(k)' < ends'[k] /\ ends'[k] <= pos'
                      /\ OneLine(Start(k), ends[k])'
                      /\ stream[ends'[k]] = NL \/ ends'[k] = Len(stream)
                      /\ returned'[k] = Cut(Between(Start(k), ends[k]))'
    BY <1>3 DEF Returned
  <2>1. CASE k = Len(ends) + 1
    <3>1. Start(k)' = start /\ ends'[k] = pos' /\ returned'[k] = line
      BY <1>1, <1>3, <1>5, <2>1
    <3>2. OneLine(Start(k), ends[k])' <=> OneLine(start, pos')
      BY <3>1 DEF OneLine
    <3>3. Cut(Between(Start(k), ends[k]))' = Cut(Between(start, pos'))
      BY <3>1 DEF Between, Cut
    <3> QED BY <1>1, <1>10, <3>1, <3>2, <3>3
  <2>2. CASE k # Len(ends) + 1
    <3>1. k \in 1 .. Len(ends) /\ k \in 1 .. Len(ends) + 1
      BY <1>1, <1>3, <2>2
    <3>2. k \in DOMAIN ends /\ ends'[k] = ends[k] /\ returned'[k] = returned[k]
      BY <1>3, <3>1
    <3>3. Start(k)' = Start(k)
      BY <1>5, <3>1
    <3>4. ends[k] <= pos'
      <4>1. ends[k] \in Nat /\ ends[k] <= pos /\ pos \in Nat
        BY <1>1, <3>2, StartType DEF IInv, ReturnsLines, Returned, TypeOK
      <4> QED BY <1>1, <1>10, <4>1
    <3> QED BY <3>2, <3>3, <3>4 DEF IInv, ReturnsLines, Returned, OneLine, Between, Cut
  <2> QED BY <2>1, <2>2
<1>7. UnderWay'
  <2>1. Cut(SubSeq(stream, pos' + 1, pos')) = <<>>
    BY <1>1, <1>10, CutEmpty
  <2>2. Cut(Between(pos, pos))' = <<>>
    BY <2>1 DEF Between, Cut
  <2>3. OneLine(pos, pos + 1)'
    <3>1. pos' \in Nat
      BY <1>1, <1>10
    <3>2. \A k \in Nat : \A i \in k + 1 .. (k + 1) - 1 : FALSE
      OBVIOUS
    <3>3. \A i \in pos' + 1 .. (pos' + 1) - 1 : FALSE
      BY ONLY <3>1, <3>2, Zenon
    <3> QED BY ONLY <3>3, Zenon DEF OneLine
  <2> QED BY <1>3, <1>5, <1>10, <2>2, <2>3 DEF UnderWay
<1> QED BY <1>4, <1>6, <1>7 DEF IInv, ReturnsLines

\* A byte is read.
LEMMA GotByteStep ==
  ASSUME IInv, GotByte PROVE IInv'
<1> DEFINE start == Start(Len(ends) + 1)
           ch    == stream[pos + 1]
           kept  == IF Len(buf) < n - 1 THEN Append(buf, ch) ELSE buf
<1>1. /\ stream \in Seq(Bytes) /\ pos \in Nat /\ pos < Len(stream)
      /\ start \in Nat /\ start <= pos /\ OneLine(start, pos + 1)
      /\ buf = Cut(SubSeq(stream, start + 1, pos))
      /\ pos' = pos + 1 /\ UNCHANGED stream /\ state' = "reading"
  BY StartType DEF IInv, TypeOK, GotByte, ReturnsLines, UnderWay, Between
<1>2. kept = Cut(SubSeq(stream, start + 1, pos + 1))
  BY <1>1, CutGrows
<1>3. CASE ch = NL
  <2>1. ReturnLine(kept)
    BY <1>3 DEF GotByte
  <2>2. kept = Cut(Between(start, pos')) /\ OneLine(start, pos')
    BY <1>1, <1>2 DEF Between
  <2>3. pos' \in 0 .. Len(stream) /\ pos <= pos' /\ start < pos' /\ stream[pos'] = NL
    BY <1>1, <1>3
  <2> HIDE DEF start, kept
  <2> QED BY <1>1, <2>1, <2>2, <2>3, ReturnStep DEF start
<1>4. CASE ch # NL
  <2>1. buf' = kept /\ UNCHANGED <<returned, ends>>
    BY <1>4 DEF GotByte
  <2>2. kept \in Seq(Bytes)
    <3>1. pos + 1 \in Nat /\ start <= pos + 1 /\ pos + 1 <= Len(stream)
      BY <1>1
    <3>2. SubSeq(stream, start + 1, pos + 1) \in Seq(Bytes)
      BY <1>1, <3>1, BetweenSequence
    <3> QED BY <1>2, <3>2, CutFits
  <2>3. TypeOK'
    BY <1>1, <2>1, <2>2 DEF IInv, TypeOK
  <2>4. Returned'
    <3>1. \A k \in DOMAIN ends : ends[k] <= pos'
      BY <1>1, StartType DEF IInv, ReturnsLines, Returned
    <3> QED BY <1>1, <2>1, <3>1 DEF IInv, ReturnsLines, Returned, Start, OneLine, Between, Cut
  <2>5. OneLine(start, pos + 2)
    BY <1>1, <1>4 DEF OneLine
  <2>6. UnderWay'
    <3>1. Start(Len(ends) + 1)' = start
      BY <2>1 DEF Start
    <3> HIDE DEF start, kept
    <3> QED BY <1>1, <1>2, <2>1, <2>5, <3>1 DEF UnderWay, OneLine, Between, Cut
  <2> QED BY <2>3, <2>4, <2>6 DEF IInv, ReturnsLines
<1> QED BY <1>3, <1>4

\* The stream ends: the rest is returned, or there is none.
LEMMA GotEOFStep ==
  ASSUME IInv, GotEOF PROVE IInv'
<1> DEFINE start == Start(Len(ends) + 1)
<1>1. /\ stream \in Seq(Bytes) /\ pos \in Nat /\ pos = Len(stream)
      /\ start \in Nat /\ start <= pos /\ OneLine(start, pos + 1)
      /\ buf = Cut(SubSeq(stream, start + 1, pos))
      /\ UNCHANGED <<stream, pos>>
  BY StartType DEF IInv, TypeOK, GotEOF, ReturnsLines, UnderWay, Between
<1>2. buf = <<>> <=> start = pos
  <2>1. pos <= Len(stream)
    BY <1>1
  <2> QED BY <1>1, <2>1, CutEmpty
<1>3. CASE buf # <<>> /\ ReturnLine(buf) /\ UNCHANGED state
  <2>1. start < pos' /\ pos <= pos' /\ pos' \in 0 .. Len(stream) /\ pos' = Len(stream)
    BY <1>1, <1>2, <1>3
  <2>2. OneLine(start, pos') /\ buf = Cut(Between(start, pos'))
    <3>1. \A i \in start + 1 .. pos' - 1 : i \in start + 1 .. (pos + 1) - 1
      BY <1>1
    <3> QED BY <1>1, <3>1 DEF OneLine, Between
  <2>3. state' = "reading"
    BY <1>3 DEF GotEOF
  <2> HIDE DEF start
  <2> QED BY <1>1, <1>3, <2>1, <2>2, <2>3, ReturnStep DEF start
<1>4. CASE buf = <<>> /\ state' = "eof" /\ UNCHANGED <<buf, returned, ends>>
  <2>1. TypeOK'
    BY <1>1, <1>4 DEF IInv, TypeOK
  <2>2. Returned'
    BY <1>1, <1>4 DEF IInv, ReturnsLines, Returned, Start, OneLine, Between, Cut
  <2>3. UnderWay'
    <3>1. Start(Len(ends) + 1)' = start
      BY <1>4 DEF Start
    <3> HIDE DEF start
    <3> QED BY <1>1, <1>2, <1>4, <3>1 DEF UnderWay, OneLine, Between, Cut
  <2> QED BY <2>1, <2>2, <2>3 DEF IInv, ReturnsLines
<1> QED BY <1>3, <1>4 DEF GotEOF

\* Every step keeps the invariant.
LEMMA NextIInv == IInv /\ [Next]_vars => IInv'
<1> SUFFICES ASSUME IInv, [Next]_vars PROVE IInv'
  OBVIOUS
<1>1. CASE UNCHANGED <<stream, pos, buf, returned, ends>>
           /\ state' \in {state, "error"}
  <2>1. TypeOK'
    BY <1>1 DEF IInv, TypeOK
  <2>2. Returned' /\ UnderWay'
    BY <1>1 DEF IInv, ReturnsLines, Returned, UnderWay, Start, OneLine, Between, Cut
  <2> QED BY <2>1, <2>2 DEF IInv, ReturnsLines
<1>2. CASE GotByte \/ GotEOF
  BY <1>2, GotByteStep, GotEOFStep
<1> QED BY <1>1, <1>2 DEF Next, GotError, vars

-----------------------------------------------------------------------------
(* The theorems.                                                           *)

(***************************************************************************)
(* For a buffer of any size and any stream, successive calls of read_line  *)
(* return the lines of the stream in order, each cut to what fits.         *)
(***************************************************************************)
THEOREM ReadLineReturnsLines == Spec => []ReturnsLines
<1>1. IInv => ReturnsLines
  BY DEF IInv
<1> QED BY <1>1, InitIInv, NextIInv, PTL DEF Spec

(***************************************************************************)
(* For a buffer of any size and lines of any length, neither the bytes     *)
(* stored nor the terminating '\0' are written beyond the buffer.          *)
(***************************************************************************)
THEOREM ReadLineBufferBound == Spec => []BufferBound
<1>1. ASSUME IInv, NEW from \in Nat, NEW to \in Nat, from <= to, to <= Len(stream)
      PROVE  Len(Cut(Between(from, to))) + 1 <= n
  <2>1. Between(from, to) \in Seq(Bytes)
    BY <1>1, BetweenSequence DEF Between, IInv, TypeOK
  <2> QED BY <2>1, CutFits, ReadLineAssumption
<1>2. IInv => BufferBound
  <2> SUFFICES ASSUME IInv PROVE BufferBound
    OBVIOUS
  <2>1. /\ pos \in Nat /\ pos <= Len(stream)
        /\ Start(Len(ends) + 1) \in Nat /\ Start(Len(ends) + 1) <= pos
        /\ buf = Cut(Between(Start(Len(ends) + 1), pos))
    BY StartType DEF IInv, TypeOK, ReturnsLines, UnderWay
  <2>2. Len(buf) + 1 <= n
    BY <1>1, <2>1
  <2>3. ASSUME NEW k \in DOMAIN returned
        PROVE  Len(returned[k]) + 1 <= n
    <3>1. /\ Start(k) \in Nat /\ ends[k] \in Nat /\ Start(k) < ends[k]
          /\ returned[k] = Cut(Between(Start(k), ends[k]))
      BY StartType DEF IInv, ReturnsLines, Returned
    <3>2. ends[k] <= Len(stream)
      BY <2>1, <3>1 DEF IInv, ReturnsLines, Returned
    <3> QED BY <1>1, <3>1, <3>2
  <2> QED BY <2>2, <2>3 DEF BufferBound
<1> QED BY <1>2, InitIInv, NextIInv, PTL DEF Spec
=============================================================================
