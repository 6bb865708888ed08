-------------------------- MODULE SystemCallsProofs --------------------------
(***************************************************************************)
(* The systemcalls example, for any number of prints and calls and         *)
(* whichever of the modelled calls fail: where the caller's prints and the *)
(* commands' output go, what a failing open, fork or waitpid returns, and  *)
(* what is left of children and descriptors when a call returns.           *)
(***************************************************************************)
EXTENDS SystemCalls, TLAPS

(***************************************************************************)
(* The invariant.  As long as no fflush has failed the caller's buffer is  *)
(* empty from fflush to the end of the call, and so is every child's copy  *)
(* of it.  A call has no child before its fork, and returns with one only  *)
(* after a failure; a child that has got as far as execv has the standard  *)
(* output its call asked for.  A failure stays in ret, and the call has    *)
(* opened one descriptor at most.                                          *)
(***************************************************************************)
Output == [kind : {"print", "output"}, num : Nat]

Child == [state : {"none", "dup", "exec", "command", "zombie"},
          redirect : BOOLEAN, fd : {-1, 0, 3},
          buffer : Seq(Output), to_file : BOOLEAN]

TypeOK ==
  /\ pc \in {"idle", "open", "flush", "fork", "wait", "return"}
  /\ calls \in Nat /\ redirect \in BOOLEAN
  /\ ret \in {"unset", "false"} /\ result \in BOOLEAN /\ error \in BOOLEAN
  /\ fd \in {-1, 0, 3} /\ fds \subseteq 0 .. 3
  /\ printed \in Nat /\ unflushed \in BOOLEAN
  /\ buffer \in Seq(Output) /\ terminal \in Seq(Output) /\ outfile \in Seq(Output)
  /\ child \in [Calls -> Child]

NothingBuffered ==
  ~unflushed =>
    /\ pc \in {"fork", "wait", "return"} => buffer = <<>>
    /\ \A k \in Calls : child[k].buffer = <<>>

\* Where the standard output of the child c is.
Directed(c) ==
  /\ c.state = "dup" => c.redirect /\ ~c.to_file
  /\ c.state \in {"exec", "command"} => c.to_file = c.redirect

ChildPlaced ==
  /\ pc # "idle" => calls \in Calls
  /\ \A k \in Calls : child[k].state # "none" =>
       /\ k <= calls
       /\ k = calls => \/ pc = "wait"
                       \/ pc = "return" /\ ret = "false"
                       \/ pc = "idle" /\ result = FALSE
  /\ \A k \in Calls : Directed(child[k])

FailureKept == error => IF pc = "idle" THEN result = FALSE ELSE ret = "false"

DescriptorsKept ==
  /\ fds \ {0, fd} = {1, 2}
  /\ pc \in {"idle", "open"} => fd = -1

IInv ==
  /\ TypeOK /\ PrintsOnce
  /\ NothingBuffered /\ ChildPlaced /\ FailureKept /\ DescriptorsKept

-----------------------------------------------------------------------------
(* Sequences of outputs.                                                   *)

\* One more print, buffered or written out, comes last on the terminal.
LEMMA PrintLast ==
  ASSUME NEW t \in Seq(Output), NEW b \in Seq(Output), NEW x \in Output
  PROVE  /\ t \o Append(b, x) = Append(t \o b, x)
         /\ ((t \o b) \o <<x>>) \o <<>> = Append(t \o b, x)
<1> DEFINE s == t \o b
<1>1. s \in Seq(Output) /\ <<x>> \in Seq(Output) /\ Append(b, x) \in Seq(Output)
  OBVIOUS
<1>2. t \o Append(b, x) = Append(s, x)
  <2>1. Len(t \o Append(b, x)) = Len(Append(s, x))
    OBVIOUS
  <2>2. \A i \in 1 .. Len(s) + 1 : (t \o Append(b, x))[i] = Append(s, x)[i]
    OBVIOUS
  <2> QED BY <2>1, <2>2
<1>3. (s \o <<x>>) \o <<>> = Append(s, x)
  BY <1>1
<1> QED BY <1>2, <1>3

\* Nothing behind an output leaves it as it is.
LEMMA NothingAppended ==
  ASSUME NEW t \in Seq(Output)
  PROVE  t \o <<>> = t
OBVIOUS

(***************************************************************************)
(* The output of a command, which system lets through while prints are     *)
(* still buffered: the prints keep their order around it.                  *)
(***************************************************************************)
LEMMA OutputBetween ==
  ASSUME NEW t \in Seq(Output), NEW b \in Seq(Output), NEW k \in Nat
  PROVE  LET s == t \o b
             r == Append(t, OutputOf(k)) \o b
             Shift(i) == IF i <= Len(t) THEN i ELSE i + 1
             Back(i)  == IF i <= Len(t) THEN i ELSE i - 1
         IN  /\ \A i \in DOMAIN s : Shift(i) \in DOMAIN r /\ r[Shift(i)] = s[i]
             /\ \A i \in DOMAIN r : IsPrint(r[i]) =>
                  i # Len(t) + 1 /\ Back(i) \in DOMAIN s /\ s[Back(i)] = r[i]
<1> DEFINE x == OutputOf(k)
           s == t \o b
           r == Append(t, x) \o b
<1>1. x \in Output /\ ~IsPrint(x)
  BY DEF OutputOf, Output, IsPrint
<1> HIDE DEF x
<1>2. DOMAIN s = 1 .. Len(t) + Len(b) /\ DOMAIN r = 1 .. Len(t) + 1 + Len(b)
  BY <1>1
<1>3. \A i \in 1 .. Len(t) : s[i] = t[i] /\ r[i] = t[i]
  BY <1>1
<1>4. \A i \in 1 .. Len(b) : s[Len(t) + i] = b[i] /\ r[Len(t) + 1 + i] = b[i]
  BY <1>1
<1>5. r[Len(t) + 1] = x
  BY <1>1
<1>6. ASSUME NEW i \in DOMAIN s, i > Len(t)
      PROVE  i + 1 \in DOMAIN r /\ r[i + 1] = s[i]
  <2>1. i - Len(t) \in 1 .. Len(b)
    BY <1>2, <1>6
  <2>2. s[Len(t) + (i - Len(t))] = r[Len(t) + 1 + (i - Len(t))]
    BY <1>4, <2>1
  <2> QED BY <1>2, <1>6, <2>2
<1>7. ASSUME NEW i \in DOMAIN r, i > Len(t) + 1
      PROVE  i - 1 \in DOMAIN s /\ s[i - 1] = r[i]
  BY <1>2, <1>6, <1>7
<1>8. \A i \in DOMAIN s : i <= Len(t) => i \in DOMAIN r /\ r[i] = s[i]
  BY <1>2, <1>3
<1>9. \A i \in DOMAIN r : i <= Len(t) => i \in DOMAIN s /\ r[i] = s[i]
  BY <1>2, <1>3
<1> HIDE DEF s, r
<1>10. \A i \in DOMAIN s : LET h == IF i <= Len(t) THEN i ELSE i + 1
                           IN  h \in DOMAIN r /\ r[h] = s[i]
  BY <1>2, <1>6, <1>8
<1>11. \A i \in DOMAIN r : IsPrint(r[i]) =>
          LET h == IF i <= Len(t) THEN i ELSE i - 1
          IN  i # Len(t) + 1 /\ h \in DOMAIN s /\ s[h] = r[i]
  BY <1>1, <1>2, <1>5, <1>7, <1>9
<1> QED BY <1>10, <1>11 DEF s, r, x

(***************************************************************************)
(* The next print at the end, or an output anywhere, keeps the prints in   *)
(* order.                                                                  *)
(***************************************************************************)
LEMMA OncePrinted ==
  ASSUME NEW s \in Seq(Output), NEW n \in Nat, PrintedOnce(s, n)
  PROVE  PrintedOnce(Append(s, PrintOf(n + 1)), n + 1)
<1> DEFINE x == PrintOf(n + 1)
           r == Append(s, x)
<1>1. x \in Output /\ x.num = n + 1
  BY DEF PrintOf, Output
<1>2. x = PrintOf(n + 1)
  OBVIOUS
<1> HIDE DEF x
<1>3. /\ DOMAIN s = 1 .. Len(s) /\ DOMAIN r = 1 .. Len(s) + 1
      /\ \A i \in 1 .. Len(s) : r[i] = s[i]
      /\ r[Len(s) + 1] = x
  BY <1>1
<1>4. \A i \in DOMAIN s : s[i].num \in Nat
  <2>1. \A i \in DOMAIN s : s[i] \in Output
    OBVIOUS
  <2> QED BY <2>1 DEF Output
<1> HIDE DEF r
<1>5. ASSUME NEW k \in 1 .. n + 1
      PROVE  \E i \in DOMAIN r : r[i] = PrintOf(k)
  <2>1. CASE k = n + 1
    BY <1>2, <1>3, <2>1
  <2>2. CASE k # n + 1
    <3>1. PICK i \in DOMAIN s : s[i] = PrintOf(k)
      BY <2>2 DEF PrintedOnce
    <3> QED BY <1>3, <3>1
  <2> QED BY <2>1, <2>2
<1>6. ASSUME NEW i \in DOMAIN r, IsPrint(r[i])
      PROVE  /\ r[i].num <= n + 1
             /\ \A j \in DOMAIN r : i < j /\ IsPrint(r[j]) => r[i].num < r[j].num
  <2>1. CASE i = Len(s) + 1
    BY <1>1, <1>3, <2>1
  <2>2. CASE i # Len(s) + 1
    <3>1. i \in DOMAIN s /\ r[i] = s[i]
      BY <1>3, <2>2
    <3>2. r[i].num \in Nat /\ r[i].num <= n
      BY <1>4, <1>6, <3>1 DEF PrintedOnce
    <3>3. ASSUME NEW j \in DOMAIN r, i < j, IsPrint(r[j])
          PROVE  r[i].num < r[j].num
      <4>1. CASE j = Len(s) + 1
        BY <1>1, <1>3, <3>2, <4>1
      <4>2. CASE j # Len(s) + 1
        <5>1. j \in DOMAIN s /\ r[j] = s[j]
          BY <1>3, <4>2
        <5> QED BY <1>6, <3>1, <3>3, <5>1 DEF PrintedOnce
      <4> QED BY <4>1, <4>2
    <3> QED BY <3>2, <3>3
  <2> QED BY <2>1, <2>2
<1> QED BY <1>5, <1>6 DEF PrintedOnce, r, x

LEMMA OnceOutput ==
  ASSUME NEW t \in Seq(Output), NEW b \in Seq(Output), NEW k \in Nat, NEW n \in Nat,
         PrintedOnce(t \o b, n)
  PROVE  PrintedOnce(Append(t, OutputOf(k)) \o b, n)
<1> DEFINE s == t \o b
           r == Append(t, OutputOf(k)) \o b
           Shift(i) == IF i <= Len(t) THEN i ELSE i + 1
           Back(i)  == IF i <= Len(t) THEN i ELSE i - 1
<1>1. /\ \A i \in DOMAIN s : Shift(i) \in DOMAIN r /\ r[Shift(i)] = s[i]
      /\ \A i \in DOMAIN r : IsPrint(r[i]) =>
           i # Len(t) + 1 /\ Back(i) \in DOMAIN s /\ s[Back(i)] = r[i]
  BY OutputBetween
<1>2. DOMAIN r \subseteq Nat
  <2>1. OutputOf(k) \in Output
    BY DEF OutputOf, Output
  <2> QED BY <2>1
<1> HIDE DEF s, r
<1>3. ASSUME NEW m \in 1 .. n
      PROVE  \E i \in DOMAIN r : r[i] = PrintOf(m)
  <2>1. PICK i \in DOMAIN s : s[i] = PrintOf(m)
    BY DEF PrintedOnce, s
  <2> QED BY <1>1, <2>1
<1>4. ASSUME NEW i \in DOMAIN r, IsPrint(r[i])
      PROVE  /\ r[i].num <= n
             /\ \A j \in DOMAIN r : i < j /\ IsPrint(r[j]) => r[i].num < r[j].num
  <2>1. i # Len(t) + 1 /\ Back(i) \in DOMAIN s /\ s[Back(i)] = r[i]
    BY <1>1, <1>4
  <2>2. r[i].num <= n
    BY <1>4, <2>1 DEF PrintedOnce, s
  <2>3. ASSUME NEW j \in DOMAIN r, i < j, IsPrint(r[j])
        PROVE  r[i].num < r[j].num
    <3>1. j # Len(t) + 1 /\ Back(j) \in DOMAIN s /\ s[Back(j)] = r[j]
      BY <1>1, <2>3
    <3>2. Back(i) < Back(j)
      BY <1>2, <2>1, <2>3, <3>1
    <3> QED BY <1>4, <2>1, <2>3, <3>1, <3>2 DEF PrintedOnce, s
  <2> QED BY <2>2, <2>3
<1> QED BY <1>3, <1>4 DEF PrintedOnce, r

-----------------------------------------------------------------------------
(* The inductive invariant, action by action.                              *)

\* Initially nothing has been printed and there is no child.
LEMMA InitIInv == Init => IInv
<1> SUFFICES ASSUME Init PROVE IInv
  OBVIOUS
<1>1. <<>> \in Seq(Output) /\ <<>> \o <<>> = <<>>
  OBVIOUS
<1>2. TypeOK
  <2>1. NoChild \in Child
    BY <1>1 DEF NoChild, Child
  <2>2. fds \subseteq 0 .. 3
    BY DEF Init
  <2>3. child \in [Calls -> Child]
    BY <2>1 DEF Init
  <2> QED BY <1>1, <2>2, <2>3 DEF Init, TypeOK
<1>3. PrintsOnce
  <2>1. PrintedOnce(<<>>, 0)
    BY DEF PrintedOnce
  <2> QED BY <1>1, <2>1 DEF Init, PrintsOnce
<1>4. \A k \in Calls : child[k].state = "none" /\ child[k].buffer = <<>>
  BY DEF Init, NoChild
<1>5. NothingBuffered /\ ChildPlaced /\ FailureKept /\ DescriptorsKept
  BY <1>4 DEF Init, NothingBuffered, ChildPlaced, Directed, FailureKept, DescriptorsKept
<1> QED BY <1>2, <1>3, <1>5 DEF IInv

\* printf: the print comes last, and its number is the highest.
LEMMA PrintfStep ==
  ASSUME IInv, Printf PROVE IInv'
<1> DEFINE x == PrintOf(printed + 1)
<1>1. x \in Output /\ printed \in Nat /\ printed' = printed + 1
  BY DEF IInv, TypeOK, PrintOf, Output, Printf
<1>2. terminal \o buffer \in Seq(Output)
  BY DEF IInv, TypeOK
<1>3. /\ terminal' \o buffer' = Append(terminal \o buffer, x)
      /\ buffer' \in Seq(Output) /\ terminal' \in Seq(Output)
  <2>1. x = PrintOf(printed') /\ buffer \in Seq(Output) /\ terminal \in Seq(Output)
    BY DEF Printf, IInv, TypeOK
  <2> HIDE DEF x
  <2>2. CASE buffer' = Append(buffer, x) /\ terminal' = terminal
    BY <1>1, <2>1, <2>2, PrintLast
  <2>3. CASE buffer' = <<>> /\ terminal' = (terminal \o buffer) \o <<x>>
    <3>1. terminal' \o buffer' = ((terminal \o buffer) \o <<x>>) \o <<>>
      BY <2>3
    <3>2. <<x>> \in Seq(Output)
      BY <1>1
    <3> QED BY <1>1, <2>1, <2>3, <3>1, <3>2, PrintLast
  <2> QED BY <2>1, <2>2, <2>3 DEF Printf
<1>4. TypeOK'
  BY <1>3 DEF Printf, IInv, TypeOK, callVars, retVars, fileVars
<1>5. PrintsOnce'
  <2> SUFFICES ASSUME ~unflushed' PROVE PrintsOnce'
    BY DEF PrintsOnce
  <2>1. PrintedOnce(Append(terminal \o buffer, x), printed + 1)
    BY <1>1, <1>2, OncePrinted DEF IInv, PrintsOnce, Printf
  <2> QED BY <1>1, <1>3, <2>1 DEF IInv, PrintsOnce, Printf
<1>6. NothingBuffered' /\ ChildPlaced' /\ FailureKept' /\ DescriptorsKept'
  BY DEF Printf, IInv, NothingBuffered, ChildPlaced, FailureKept, DescriptorsKept,
         callVars, retVars, fileVars
<1> QED BY <1>4, <1>5, <1>6 DEF IInv

\* do_system: the output of its command may overtake buffered prints.
LEMMA SystemStep ==
  ASSUME IInv, do_system PROVE IInv'
<1> USE DEF IInv
<1>1. calls \in Nat /\ calls' = calls + 1 /\ OutputOf(calls') \in Output
  BY DEF TypeOK, do_system, OutputOf, Output
<1>2. terminal' \in Seq(Output) /\ PrintsOnce'
  <2>1. /\ terminal \in Seq(Output) /\ buffer \in Seq(Output) /\ printed \in Nat
        /\ UNCHANGED <<printed, buffer, unflushed, outfile>>
    BY DEF TypeOK, do_system, printVars
  <2>2. CASE terminal' = terminal
    BY <2>1, <2>2 DEF PrintsOnce
  <2>3. CASE terminal' = Append(terminal, OutputOf(calls'))
    <3>1. ~unflushed => PrintedOnce(Append(terminal, OutputOf(calls')) \o buffer, printed)
      BY <1>1, <2>1, OnceOutput DEF PrintsOnce
    <3> QED BY <1>1, <2>1, <2>3, <3>1 DEF PrintsOnce
  <2> QED BY <2>2, <2>3 DEF do_system
<1>3. TypeOK'
  <2>1. result' \in BOOLEAN /\ error' \in BOOLEAN
    BY DEF do_system
  <2>2. UNCHANGED <<pc, redirect, ret, fd, fds, printed, buffer, unflushed, outfile, child>>
    BY DEF do_system, fileVars, printVars
  <2>3. calls' \in Nat
    BY <1>1
  <2> QED BY <1>2, <2>1, <2>2, <2>3 DEF TypeOK
<1>4. ChildPlaced'
  <2>1. pc = "idle" /\ pc' = "idle" /\ child' = child
    BY DEF do_system
  <2>2. \A k \in Calls : child[k].state # "none" => k <= calls /\ k # calls'
    BY <1>1 DEF ChildPlaced, Calls
  <2> QED BY <1>1, <2>1, <2>2 DEF ChildPlaced, Calls
<1>5. NothingBuffered' /\ FailureKept' /\ DescriptorsKept'
  BY DEF do_system, NothingBuffered, FailureKept, DescriptorsKept, fileVars, printVars
<1> QED BY <1>2, <1>3, <1>4, <1>5

\* The entry of do_exec and do_exec_redirect.
LEMMA CallStep ==
  ASSUME IInv, Call PROVE IInv'
<1> USE DEF IInv
<1>1. redirect' \in BOOLEAN /\ pc = "idle" /\ pc' \in {"flush", "open"}
  BY DEF Call, Goto
<1>2. /\ calls \in Nat /\ calls' = calls + 1 /\ calls' \in Calls
      /\ ret' = "unset" /\ error' = FALSE
  BY SystemCallsAssumption DEF TypeOK, Call, Calls
<1>3. UNCHANGED <<result, fd, fds, printed, buffer, unflushed, terminal, outfile, child>>
  BY DEF Call, fileVars, printVars, outVars
<1>4. TypeOK'
  <2>1. calls' \in Nat
    BY <1>2
  <2>2. error' \in BOOLEAN /\ ret' \in {"unset", "false"}
    BY <1>2
  <2> QED BY <1>1, <1>3, <2>1, <2>2 DEF TypeOK
<1>5. PrintsOnce'
  BY <1>3 DEF PrintsOnce
<1>6. ChildPlaced'
  <2>1. \A k \in Calls : child[k].state # "none" => k <= calls /\ k # calls'
    BY <1>2 DEF ChildPlaced, Calls
  <2> QED BY <1>1, <1>2, <1>3, <2>1 DEF ChildPlaced, Calls
<1>7. NothingBuffered' /\ FailureKept' /\ DescriptorsKept'
  BY <1>1, <1>2, <1>3 DEF NothingBuffered, FailureKept, DescriptorsKept
<1> QED BY <1>4, <1>5, <1>6, <1>7

\* The lowest free descriptor is 3, or 0 for a caller without standard input.
LEMMA LowestFree ==
  ASSUME NEW S \in SUBSET (0 .. 3), S \ {0} = {1, 2}
  PROVE  Min((0 .. 3) \ S) = IF 0 \in S THEN 3 ELSE 0
<1>1. CASE 0 \in S
  <2>1. (0 .. 3) \ S = {3}
    BY <1>1
  <2> QED BY <1>1, <2>1 DEF Min
<1>2. CASE 0 \notin S
  <2>1. (0 .. 3) \ S = {0, 3}
    BY <1>2
  <2> QED BY <1>2, <2>1 DEF Min
<1> QED BY <1>1, <1>2

\* open takes one descriptor, or fails.
LEMMA OpenStep ==
  ASSUME IInv, Open PROVE IInv'
<1> USE DEF IInv
<1>1. fds \in SUBSET (0 .. 3) /\ fds \ {0} = {1, 2} /\ fd = -1
  BY DEF TypeOK, DescriptorsKept, Open, Goto
<1>2. /\ fd' \in {-1, 0, 3} /\ fds' \subseteq 0 .. 3
      /\ fds' \ {0, fd'} = {1, 2}
  <2>1. CASE fd' = -1 /\ fds' = fds
    BY <1>1, <2>1
  <2>2. CASE fd' = Min((0 .. 3) \ fds) /\ fds' = fds \cup {fd'}
    BY <1>1, <2>2, LowestFree
  <2> QED BY <2>1, <2>2 DEF Open
<1>3. TypeOK' /\ PrintsOnce'
  BY <1>2 DEF TypeOK, PrintsOnce, Open, Goto, Fails, callVars, printVars, outVars
<1>4. NothingBuffered' /\ ChildPlaced'
  BY DEF Open, Goto, NothingBuffered, ChildPlaced, callVars, printVars
<1>5. FailureKept' /\ DescriptorsKept'
  BY <1>2 DEF Open, Goto, Fails, FailureKept, DescriptorsKept
<1> QED BY <1>3, <1>4, <1>5

\* fflush: what is buffered moves to the terminal, or nothing is claimed any more.
LEMMA FlushStep ==
  ASSUME IInv, Flush PROVE IInv'
<1> USE DEF IInv
<1>1. buffer' \in Seq(Output) /\ terminal' \in Seq(Output) /\ unflushed' \in BOOLEAN
  <2>1. buffer \in Seq(Output) /\ terminal \in Seq(Output) /\ unflushed \in BOOLEAN
    BY DEF TypeOK
  <2>2. <<>> \in Seq(Output) /\ terminal \o buffer \in Seq(Output)
    BY <2>1
  <2>3. buffer' \in {buffer, <<>>} /\ terminal' \in {terminal, terminal \o buffer}
    BY DEF Flush
  <2>4. unflushed' = unflushed \/ unflushed' = TRUE
    BY DEF Flush
  <2> QED BY <2>1, <2>2, <2>3, <2>4
<1>2. PrintsOnce'
  <2> SUFFICES ASSUME ~unflushed' PROVE PrintsOnce'
    BY DEF PrintsOnce
  <2>1. terminal' = terminal \o buffer /\ buffer' = <<>> /\ ~unflushed
    BY DEF Flush
  <2>2. terminal' \o buffer' = terminal \o buffer
    BY <2>1, <1>1, NothingAppended
  <2> QED BY <2>1, <2>2 DEF PrintsOnce, Flush
<1>3. TypeOK'
  BY <1>1 DEF TypeOK, Flush, Goto, callVars, retVars, fileVars
<1>4. NothingBuffered'
  BY DEF Flush, Goto, NothingBuffered
<1>5. ChildPlaced' /\ FailureKept' /\ DescriptorsKept'
  BY DEF Flush, Goto, ChildPlaced, FailureKept, DescriptorsKept,
         callVars, retVars, fileVars
<1> QED BY <1>2, <1>3, <1>4, <1>5

(***************************************************************************)
(* A child that takes one step: what the invariant asks of the others does *)
(* not change.                                                             *)
(***************************************************************************)
LEMMA OneChild ==
  ASSUME IInv, NEW k \in Calls, NEW c \in Child,
         child' = [child EXCEPT ![k] = c],
         Directed(c), c.buffer \in {<<>>, child[k].buffer},
         child[k].state # "none",
         UNCHANGED <<pc, callVars, retVars, printVars>>
  PROVE  child' \in [Calls -> Child] /\ NothingBuffered' /\ ChildPlaced'
<1> USE DEF IInv
<1>1. /\ child \in [Calls -> Child] /\ child'[k] = c
      /\ \A j \in Calls : j # k => child'[j] = child[j]
  BY DEF TypeOK
<1>2. child' \in [Calls -> Child]
  BY <1>1
<1>3. UNCHANGED <<pc, calls, ret, result, buffer, unflushed>>
  BY DEF callVars, retVars, printVars
<1>4. NothingBuffered'
  BY <1>1, <1>3 DEF NothingBuffered
<1>5. ChildPlaced'
  <2>1. \A j \in Calls : Directed(child'[j])
    BY <1>1 DEF ChildPlaced
  <2>2. \A j \in Calls : child'[j].state # "none" => child[j].state # "none"
    BY <1>1
  <2> QED BY <1>3, <2>1, <2>2 DEF ChildPlaced
<1> QED BY <1>2, <1>4, <1>5

\* fork: the child's copy of the buffer is empty, unless fflush has failed.
LEMMA ForkStep ==
  ASSUME IInv, Fork PROVE IInv'
<1> USE DEF IInv
<1>1. /\ pc = "fork" /\ pc' = "wait" /\ calls \in Calls
      /\ child \in [Calls -> Child]
      /\ UNCHANGED <<calls, redirect, result, fd, fds, printed, buffer, unflushed,
                     terminal, outfile>>
  BY DEF Fork, Goto, ChildPlaced, TypeOK, callVars, fileVars, printVars, outVars
<1>2. PrintsOnce' /\ FailureKept' /\ DescriptorsKept'
  BY <1>1 DEF PrintsOnce, FailureKept, DescriptorsKept, Fork, Fails
<1>3. CASE child' = child
  BY <1>1, <1>2, <1>3 DEF TypeOK, NothingBuffered, ChildPlaced, Fork, Fails
<1>4. CASE child' # child
  <2> DEFINE c == [state |-> IF redirect THEN "dup" ELSE "exec",
                   redirect |-> redirect, fd |-> fd,
                   buffer |-> buffer, to_file |-> FALSE]
  <2>1. child' = [child EXCEPT ![calls] = c] /\ UNCHANGED <<ret, error>>
    BY <1>4 DEF Fork
  <2>2. c \in Child /\ Directed(c) /\ c.buffer = buffer
    <3>1. redirect \in BOOLEAN /\ fd \in {-1, 0, 3} /\ buffer \in Seq(Output)
      BY DEF TypeOK
    <3>2. (IF redirect THEN "dup" ELSE "exec") \in {"none", "dup", "exec", "command", "zombie"}
      OBVIOUS
    <3>3. c \in Child
      BY <3>1, <3>2 DEF Child
    <3>4. Directed(c)
      BY <3>1 DEF Directed
    <3> QED BY <3>3, <3>4
  <2> HIDE DEF c
  <2>3. child'[calls] = c /\ \A j \in Calls : j # calls => child'[j] = child[j]
    BY <1>1, <2>1
  <2>4. child' \in [Calls -> Child]
    BY <1>1, <2>1, <2>2
  <2>5. TypeOK'
    BY <1>1, <2>1, <2>4 DEF TypeOK
  <2>6. NothingBuffered'
    BY <1>1, <2>2, <2>3 DEF NothingBuffered
  <2>7. ChildPlaced'
    <3>1. \A j \in Calls : Directed(child'[j])
      BY <2>2, <2>3 DEF ChildPlaced
    <3>2. \A j \in Calls : child'[j].state # "none" => j <= calls
      BY <1>1, <2>3 DEF ChildPlaced, Calls
    <3> QED BY <1>1, <3>1, <3>2 DEF ChildPlaced
  <2> QED BY <1>2, <2>5, <2>6, <2>7
<1> QED BY <1>3, <1>4

(***************************************************************************)
(* What a child writes: its exit an empty buffer, or the command a line    *)
(* that is no print, with whatever the caller has buffered behind it.      *)
(***************************************************************************)
LEMMA ChildWrites ==
  ASSUME IInv, NEW k \in Calls, UNCHANGED printVars,
         \/ UNCHANGED outVars
         \/ Arrives(k, child[k].buffer)
         \/ Arrives(k, <<OutputOf(k)>>)
  PROVE  terminal' \in Seq(Output) /\ outfile' \in Seq(Output) /\ PrintsOnce'
<1> USE DEF IInv
<1>1. /\ terminal \in Seq(Output) /\ outfile \in Seq(Output) /\ printed \in Nat
      /\ buffer \in Seq(Output) /\ k \in Nat
      /\ UNCHANGED <<printed, buffer, unflushed>>
  BY DEF TypeOK, Calls, printVars
<1>2. CASE UNCHANGED outVars
  BY <1>1, <1>2 DEF outVars, PrintsOnce
<1>3. CASE Arrives(k, child[k].buffer)
  <2>1. child[k].buffer \in Seq(Output)
    BY DEF TypeOK, Child
  <2>2. terminal' \in Seq(Output) /\ outfile' \in Seq(Output)
    BY <1>1, <1>3, <2>1 DEF Arrives
  <2>3. ASSUME ~unflushed PROVE PrintsOnce'
    <3>1. child[k].buffer = <<>>
      BY <2>3 DEF NothingBuffered
    <3>2. terminal' = terminal /\ outfile' = outfile
      BY <1>1, <1>3, <3>1, NothingAppended DEF Arrives
    <3> QED BY <1>1, <3>2 DEF PrintsOnce
  <2> QED BY <1>1, <2>2, <2>3 DEF PrintsOnce
<1>4. CASE Arrives(k, <<OutputOf(k)>>)
  <2>1. OutputOf(k) \in Output /\ ~IsPrint(OutputOf(k))
    BY <1>1 DEF OutputOf, Output, IsPrint
  <2>2. /\ terminal \o <<OutputOf(k)>> = Append(terminal, OutputOf(k))
        /\ outfile \o <<OutputOf(k)>> = Append(outfile, OutputOf(k))
    BY <1>1, <2>1
  <2>3. ~unflushed => PrintedOnce(Append(terminal, OutputOf(k)) \o buffer, printed)
    BY <1>1, OnceOutput DEF PrintsOnce
  <2>4. ~unflushed => \A i \in DOMAIN Append(outfile, OutputOf(k)) :
                         ~IsPrint(Append(outfile, OutputOf(k))[i])
    BY <1>1, <2>1 DEF PrintsOnce
  <2>5. CASE child[k].to_file
    <3>1. outfile' = Append(outfile, OutputOf(k)) /\ terminal' = terminal
      BY <1>4, <2>2, <2>5 DEF Arrives
    <3> QED BY <1>1, <2>1, <2>4, <3>1 DEF PrintsOnce
  <2>6. CASE ~child[k].to_file
    <3>1. terminal' = Append(terminal, OutputOf(k)) /\ outfile' = outfile
      BY <1>4, <2>2, <2>6 DEF Arrives
    <3> QED BY <1>1, <2>1, <2>3, <3>1 DEF PrintsOnce
  <2> QED BY <2>5, <2>6
<1> QED BY <1>2, <1>3, <1>4

\* The child, during its call or after it.
LEMMA ChildStep ==
  ASSUME IInv, NEW k \in Calls, ChildDup(k) \/ ChildExec(k) \/ Command(k)
  PROVE  IInv'
<1> USE DEF IInv
<1>1. /\ child[k] \in Child /\ child \in [Calls -> Child]
      /\ child[k].state \in {"dup", "exec", "command"} /\ Directed(child[k])
      /\ UNCHANGED <<pc, callVars, retVars, fileVars, printVars>>
  BY DEF ChildDup, ChildExec, Command, ChildPlaced, TypeOK
<1>2. terminal' \in Seq(Output) /\ outfile' \in Seq(Output) /\ PrintsOnce'
  BY <1>1, ChildWrites DEF ChildDup, ChildExec, Command, ChildExits
<1>3. \E c \in Child : /\ child' = [child EXCEPT ![k] = c]
                       /\ Directed(c) /\ c.buffer \in {<<>>, child[k].buffer}
  <2>1. CASE child' = [child EXCEPT ![k].state = "zombie"]
    <3> DEFINE c == [child[k] EXCEPT !.state = "zombie"]
    <3>1. child' = [child EXCEPT ![k] = c]
      BY <1>1, <2>1
    <3>2. c \in Child /\ Directed(c) /\ c.buffer = child[k].buffer
      BY <1>1 DEF Child, Directed
    <3> QED BY <3>1, <3>2
  <2>2. CASE /\ child[k].state = "dup"
             /\ child' = [child EXCEPT ![k].state = "exec", ![k].to_file = TRUE]
    <3> DEFINE c == [child[k] EXCEPT !.state = "exec", !.to_file = TRUE]
    <3>1. child' = [child EXCEPT ![k] = c]
      BY <1>1, <2>2
    <3>2. c \in Child /\ Directed(c) /\ c.buffer = child[k].buffer
      BY <1>1, <2>2 DEF Child, Directed
    <3> QED BY <3>1, <3>2
  <2>3. CASE /\ child[k].state = "exec"
             /\ child' = [child EXCEPT ![k].state = "command", ![k].buffer = <<>>]
    <3> DEFINE c == [child[k] EXCEPT !.state = "command", !.buffer = <<>>]
    <3>1. child' = [child EXCEPT ![k] = c]
      BY <1>1, <2>3
    <3>2. c \in Child /\ Directed(c) /\ c.buffer = <<>>
      <4>1. <<>> \in Seq(Output)
        OBVIOUS
      <4> QED BY <1>1, <2>3, <4>1 DEF Child, Directed
    <3> QED BY <3>1, <3>2
  <2> QED BY <2>1, <2>2, <2>3 DEF ChildDup, ChildExec, Command, ChildExits
<1>4. child' \in [Calls -> Child] /\ NothingBuffered' /\ ChildPlaced'
  <2>1. PICK c \in Child : /\ child' = [child EXCEPT ![k] = c]
                           /\ Directed(c) /\ c.buffer \in {<<>>, child[k].buffer}
    BY <1>3
  <2>2. child[k].state # "none"
    BY <1>1
  <2> QED BY <1>1, <2>1, <2>2, OneChild
<1>5. TypeOK'
  BY <1>1, <1>2, <1>4 DEF TypeOK, callVars, retVars, fileVars, printVars
<1>6. FailureKept' /\ DescriptorsKept'
  BY <1>1 DEF FailureKept, DescriptorsKept, retVars, fileVars
<1> QED BY <1>2, <1>4, <1>5, <1>6

(***************************************************************************)
(* waitpid: its own child is reaped, unless it fails; one left behind by   *)
(* an earlier call may be reaped instead of its own only after a failed    *)
(* fork.                                                                   *)
(***************************************************************************)
LEMMA WaitStep ==
  ASSUME IInv, Wait PROVE IInv'
<1> USE DEF IInv
<1>1. /\ pc = "wait" /\ pc' = "return" /\ calls \in Calls
      /\ child \in [Calls -> Child]
      /\ UNCHANGED <<calls, redirect, result, fd, fds, printed, buffer, unflushed,
                     terminal, outfile>>
  BY DEF Wait, Goto, ChildPlaced, TypeOK, callVars, fileVars, printVars, outVars
<1>2. PrintsOnce' /\ FailureKept' /\ DescriptorsKept'
  BY <1>1 DEF PrintsOnce, FailureKept, DescriptorsKept, Wait, Fails
<1>3. CASE NothingToReap /\ Fails
  BY <1>1, <1>2, <1>3 DEF TypeOK, NothingBuffered, ChildPlaced, NothingToReap, Fails
<1>4. CASE Reap /\ UNCHANGED <<ret, error>>
  <2>1. PICK k \in Waited : child' = [child EXCEPT ![k] = NoChild]
    BY <1>4 DEF Reap
  <2>2. k \in Calls
    BY <1>1 DEF Waited
  <2>3. NoChild \in Child /\ NoChild.state = "none" /\ NoChild.buffer = <<>>
    <3>1. <<>> \in Seq(Output)
      OBVIOUS
    <3> QED BY <3>1 DEF NoChild, Child
  <2>4. child'[k] = NoChild /\ \A j \in Calls : j # k => child'[j] = child[j]
    BY <1>1, <2>1, <2>2
  <2>5. child' \in [Calls -> Child]
    BY <1>1, <2>1, <2>3
  <2>6. TypeOK'
    BY <1>1, <1>4, <2>5 DEF TypeOK
  <2>7. NothingBuffered'
    BY <1>1, <2>2, <2>3, <2>4 DEF NothingBuffered
  <2>8. child'[calls].state = "none"
    BY <1>1, <2>1, <2>2, <2>3, <2>4 DEF Waited
  <2>9. ChildPlaced'
    <3>1. \A j \in Calls : Directed(child'[j])
      BY <2>3, <2>4 DEF ChildPlaced, Directed
    <3>2. \A j \in Calls : child'[j].state # "none" => j <= calls /\ j # calls
      BY <1>1, <2>3, <2>4, <2>8 DEF ChildPlaced
    <3> QED BY <1>1, <3>1, <3>2 DEF ChildPlaced
  <2> QED BY <1>2, <2>6, <2>7, <2>9
<1> QED BY <1>3, <1>4 DEF Wait

\* The return closes what open has opened, unless that is descriptor 0.
LEMMA ReturnStep ==
  ASSUME IInv, Return PROVE IInv'
<1> USE DEF IInv, Return, ReturnClosing, Goto
<1>1. TypeOK' /\ PrintsOnce'
  BY DEF TypeOK, PrintsOnce, callVars, printVars, outVars
<1>2. NothingBuffered'
  BY DEF NothingBuffered, printVars
<1>3. ret = "false" => result' = FALSE
  <2>1. ret = "false" => result' \in {FALSE}
    OBVIOUS
  <2> QED BY <2>1
<1>4. ChildPlaced'
  BY <1>3 DEF ChildPlaced, callVars
<1>5. FailureKept'
  BY <1>3 DEF FailureKept
<1>6. DescriptorsKept'
  BY DEF DescriptorsKept, TypeOK
<1> QED BY <1>1, <1>2, <1>4, <1>5, <1>6

\* Every step keeps the invariant.
LEMMA NextIInv == IInv /\ [Next]_vars => IInv'
<1> SUFFICES ASSUME IInv, [Next]_vars PROVE IInv'
  OBVIOUS
<1>1. CASE UNCHANGED vars
  BY <1>1 DEF vars, callVars, retVars, fileVars, printVars, outVars, IInv, TypeOK,
              PrintsOnce, NothingBuffered, ChildPlaced, FailureKept, DescriptorsKept
<1>2. CASE Next
  <2>1. \A k \in Calls : ChildDup(k) \/ ChildExec(k) \/ Command(k) => IInv'
    BY ChildStep
  <2> QED BY <1>2, <2>1, PrintfStep, SystemStep, CallStep, OpenStep, FlushStep, ForkStep,
             WaitStep, ReturnStep DEF Next
<1> QED BY <1>1, <1>2

-----------------------------------------------------------------------------
(* The theorems.                                                           *)

\* The invariant of do_exec and do_exec_redirect, from which the others follow.
THEOREM CallsInvariant == Spec => []IInv
BY InitIInv, NextIInv, PTL DEF Spec

(***************************************************************************)
(* As long as no fflush fails, what the caller prints arrives once and in  *)
(* order, although fork copies its buffer and the child's exit writes that *)
(* copy out, perhaps after its call was interrupted and has returned.      *)
(***************************************************************************)
THEOREM CallsPrintOnce == Spec => []PrintsOnce
<1>1. IInv => PrintsOnce
  BY DEF IInv
<1> QED BY <1>1, CallsInvariant, PTL

(***************************************************************************)
(* A failed open, fork or waitpid makes the call return false, and the     *)
(* uninitialised ret is not what is returned then.  Of a failing execv and *)
(* of the command's exit status it says nothing.                           *)
(***************************************************************************)
THEOREM CallsReportFailure == Spec => []FalseOnFailure
<1>1. IInv => FalseOnFailure
  BY DEF IInv, FailureKept, FalseOnFailure
<1> QED BY <1>1, CallsInvariant, PTL

(***************************************************************************)
(* A call whose child is still running or unreaped when it returns, as     *)
(* after an interrupted waitpid, returns false.                            *)
(***************************************************************************)
THEOREM CallsReapChildren == Spec => []ChildReaped
<1>1. IInv => ChildReaped
  BY DEF IInv, ChildPlaced, ChildReaped
<1> QED BY <1>1, CallsInvariant, PTL

(***************************************************************************)
(* No call of do_exec_redirect leaves its descriptor open, unless it is 0. *)
(***************************************************************************)
THEOREM CallsCloseFile == Spec => []FileClosed
<1>1. IInv => FileClosed
  <2> SUFFICES ASSUME IInv, pc = "idle" PROVE fds \ {0} = {1, 2}
    BY DEF FileClosed
  <2>1. fd = -1 /\ fds \ {0, fd} = {1, 2} /\ fds \subseteq 0 .. 3
    BY DEF IInv, DescriptorsKept, TypeOK
  <2> QED BY <2>1
<1> QED BY <1>1, CallsInvariant, PTL

(***************************************************************************)
(* What a command prints goes to the file when its call redirects it and   *)
(* to the terminal when it does not, whatever has failed before and also   *)
(* after its call has returned.                                            *)
(***************************************************************************)
THEOREM CallsRedirect == Spec => OutputWhereAsked
<1> DEFINE Asked == \A k \in Calls :
                      child[k].state = "command" /\ child'[k].state = "zombie" =>
                        IF child[k].redirect THEN terminal' = terminal
                                             ELSE outfile' = outfile
<1>1. IInv /\ [Next]_vars => [Asked]_vars
  <2> SUFFICES ASSUME IInv, Next, NEW k \in Calls,
                      child[k].state = "command", child'[k].state = "zombie"
               PROVE  IF child[k].redirect THEN terminal' = terminal
                                           ELSE outfile' = outfile
    OBVIOUS
  <2>1. child \in [Calls -> Child] /\ child[k].to_file = child[k].redirect
    BY DEF IInv, TypeOK, ChildPlaced, Directed
  <2>2. PICK j \in Calls : ChildDup(j) \/ ChildExec(j) \/ Command(j)
    <3>1. child'[k] # child[k]
      OBVIOUS
    <3>2. ~Printf /\ ~do_system /\ ~Call /\ ~Open /\ ~Flush /\ ~Return
      BY <3>1 DEF Printf, do_system, Call, Open, Flush, Return, ReturnClosing
    <3>3. ASSUME Fork PROVE FALSE
      <4>1. calls \in Calls /\ child[calls].state = "none"
        BY <3>3 DEF IInv, ChildPlaced, Fork, Goto
      <4> QED BY <2>1, <3>1, <3>3, <4>1 DEF Fork
    <3>4. ASSUME Wait PROVE FALSE
      <4>1. PICK i \in Waited : child[i].state = "zombie" /\ child' = [child EXCEPT ![i] = NoChild]
        BY <3>1, <3>4 DEF Wait, Reap, NothingToReap
      <4> QED BY <2>1, <3>1, <4>1
    <3> QED BY <3>2, <3>3, <3>4 DEF Next
  <2>3. j = k
    BY <2>1, <2>2 DEF ChildDup, ChildExec, Command, ChildExits
  <2>4. Arrives(k, <<OutputOf(k)>>) \/ UNCHANGED outVars
    BY <2>2, <2>3 DEF ChildDup, ChildExec, Command
  <2> QED BY <2>1, <2>4 DEF Arrives, outVars
<1> QED BY <1>1, CallsInvariant, PTL DEF Spec, OutputWhereAsked
=============================================================================
