------------------------ MODULE AesdSocketStoreProofs ------------------------
(***************************************************************************)
(* The server and the device: for any number of connections, commands kept *)
(* and lines sent, and every combination of faults, a client that is       *)
(* answered is answered with its own command unless the device has dropped *)
(* it.                                                                     *)
(***************************************************************************)
EXTENDS AesdSocketProofs

USE SocketAssumption DEF mainVars, storeVars, sendVars, threadVars, clientVars

-----------------------------------------------------------------------------
(* Lines.                                                                  *)

(***************************************************************************)
(* A line of a client has its number first and nothing behind its newline, *)
(* so that the device keeps all of it.                                     *)
(***************************************************************************)
LEMMA LineFacts ==
  ASSUME NEW l \in AllLines
  PROVE  /\ l \in Seq(Tokens) /\ Kept(l) = l
         /\ l # <<>> /\ l[1].num \in 1 .. MaxMsgs
         /\ HasNewline(l) => Len(l) = 2
<1>1. PICK c \in Clients, k \in 1 .. MaxMsgs : l = Line(c, k) \/ l = Fragment(c, k)
  BY DEF AllLines
<1> DEFINE t == [from |-> c, num |-> k]
<1>2. t \in Tokens /\ NL \in Tokens /\ t # NL /\ t.num = k
  BY DEF Tokens
<1> HIDE DEF t
<1>3. CASE l = <<t, NL>>
  <2>1. /\ l \in Seq(Tokens) /\ Len(l) = 2 /\ DOMAIN l = 1 .. 2
        /\ l[1] = t /\ l[2] = NL
    BY <1>2, <1>3
  <2>2. HasNewline(l)
    BY <2>1 DEF HasNewline
  <2>3. CopySize(l) = 2
    <3> DEFINE First(i) == l[i] = NL /\ \A j \in DOMAIN l : l[j] = NL => i <= j
    <3>1. 2 \in DOMAIN l /\ First(2)
      BY <1>2, <2>1
    <3>2. \A i \in DOMAIN l : First(i) => i = 2
      BY <1>2, <2>1
    <3> QED BY <2>2, <3>1, <3>2 DEF CopySize
  <2>4. SubSeq(l, 1, 2) = l
    BY <2>1, EndPrefixes
  <2>5. Kept(l) = l
    BY <2>3, <2>4 DEF Kept
  <2> QED BY <1>2, <2>1, <2>5
<1>4. CASE l = <<t>>
  <2>1. l \in Seq(Tokens) /\ Len(l) = 1 /\ DOMAIN l = 1 .. 1 /\ l[1] = t
    BY <1>2, <1>4
  <2>2. ~HasNewline(l)
    BY <1>2, <2>1 DEF HasNewline
  <2>3. SubSeq(l, 1, 1) = l
    BY <2>1, EndPrefixes
  <2>4. CopySize(l) = 1
    BY <2>1, <2>2, Zenon DEF CopySize
  <2>5. Kept(l) = l
    BY <2>3, <2>4, Zenon DEF Kept
  <2> QED BY <1>2, <2>1, <2>2, <2>5
<1> QED BY <1>1, <1>3, <1>4 DEF Line, Fragment, t

-----------------------------------------------------------------------------
(* Types.                                                                  *)

\* The part of the type invariant that is not about the thread list.
StoreTypes ==
  /\ mpc \in {"socket", "listen", "loop", "accept", "reap", "cleanup", "close",
              "exited", "crashed", "killed"}
  /\ sock \in {"none", "open", "listening", "closed"}
  /\ should_terminate \in BOOLEAN
  /\ file_mutex \in Clients \cup {Nobody}
  /\ partial \in Seq(Tokens) /\ lines \in Seq(Seq(Tokens))
  /\ age \in [Clients -> 0 .. N]
  /\ line \in [Clients -> AllLines \cup {<<>>}]
  /\ failed \in [Clients -> BOOLEAN]
  /\ reply \in [Clients -> Seq(Seq(Tokens))]
  /\ inbox \in [Clients -> Seq(AllLines)]

\* The initial values.
LEMMA InitStore == Init => StoreTypes
<1> SUFFICES ASSUME Init PROVE StoreTypes
  OBVIOUS
<1>1. partial \in Seq(Tokens) /\ lines \in Seq(Seq(Tokens))
  BY DEF Init
<1>2. /\ \A c \in Clients : reply[c] \in Seq(Seq(Tokens)) /\ inbox[c] \in Seq(AllLines)
      /\ reply = [c \in Clients |-> reply[c]] /\ inbox = [c \in Clients |-> inbox[c]]
  BY DEF Init
<1>3. reply \in [Clients -> Seq(Seq(Tokens))] /\ inbox \in [Clients -> Seq(AllLines)]
  BY <1>2
<1>4. /\ age \in [Clients -> 0 .. N] /\ failed \in [Clients -> BOOLEAN]
      /\ line \in [Clients -> AllLines \cup {<<>>}]
  BY DEF Init
<1> QED BY <1>1, <1>3, <1>4 DEF Init, StoreTypes

\* Main, the signal handler and the clients' connections.
LEMMA MainStore ==
  ASSUME StoreTypes, Main \/ signal_handler
  PROVE  StoreTypes'
<1>1. UNCHANGED <<storeVars, line, failed, sendVars, inbox>>
  BY DEF Main, Setup, LoopTest, Accept, AcceptFails, Reap, Cleanup, Exit, signal_handler
<1>2. /\ mpc' \in {"socket", "listen", "loop", "accept", "reap", "cleanup", "close",
                   "exited", "crashed", "killed"}
      /\ sock' \in {"none", "open", "listening", "closed"}
      /\ should_terminate' \in BOOLEAN
  BY DEF Main, Setup, LoopTest, Accept, AcceptFails, Reap, Cleanup, Exit, signal_handler,
         GotoMain, StoreTypes
<1> QED BY <1>1, <1>2 DEF StoreTypes

\* Clients send lines and nothing else.
LEMMA ClientStore ==
  ASSUME StoreTypes, NEW c \in Clients, Client(c)
  PROVE  StoreTypes'
<1>1. UNCHANGED <<mpc, sock, should_terminate, storeVars, threadVars>>
  BY DEF Client, Connect, ClientSend, Shutdown, Vanish
<1>2. inbox' \in [Clients -> Seq(AllLines)]
  <2>1. CASE inbox' = inbox
    BY <2>1 DEF StoreTypes
  <2>2. CASE ClientSend(c)
    <3> DEFINE k == NextNum(c)
    <3>1. k \in 1 .. MaxMsgs
      <4>1. inbox[c] \in Seq(AllLines) /\ line[c] \in AllLines \cup {<<>>}
        BY DEF StoreTypes
      <4>2. inbox[c] # <<>> => inbox[c][Len(inbox[c])] \in AllLines
        BY <4>1
      <4>3. inbox[c] # <<>> => inbox[c][Len(inbox[c])][1].num \in 1 .. MaxMsgs
        BY <4>2, LineFacts
      <4>4. line[c] # <<>> => line[c][1].num \in 1 .. MaxMsgs
        BY <4>1, LineFacts
      <4>5. NextNum(c) \in Nat \ {0}
        <5>1. \A m \in 1 .. MaxMsgs : m + 1 \in Nat \ {0}
          OBVIOUS
        <5>2. CASE inbox[c] # <<>>
          BY <4>3, <5>1, <5>2, Zenon DEF NextNum
        <5>3. CASE inbox[c] = <<>> /\ line[c] # <<>>
          BY <4>4, <5>1, <5>3, Zenon DEF NextNum
        <5>4. CASE inbox[c] = <<>> /\ line[c] = <<>>
          BY <5>4 DEF NextNum
        <5> QED BY <5>2, <5>3, <5>4
      <4>6. NextNum(c) <= MaxMsgs
        BY <2>2 DEF ClientSend
      <4> QED BY <4>5, <4>6
    <3> HIDE DEF k
    <3>2. Line(c, k) \in AllLines /\ Fragment(c, k) \in AllLines
      BY <3>1 DEF AllLines
    <3>3. PICK x \in AllLines : inbox' = [inbox EXCEPT ![c] = Append(inbox[c], x)]
      BY <2>2, <3>2 DEF ClientSend, k
    <3>4. Append(inbox[c], x) \in Seq(AllLines)
      BY DEF StoreTypes
    <3> QED BY <3>3, <3>4 DEF StoreTypes
  <2> QED BY <2>1, <2>2 DEF Client, Connect, Shutdown, Vanish
<1> QED BY <1>1, <1>2 DEF StoreTypes

\* The steps of a thread that leave the device as it is.
LEMMA ThreadStore ==
  ASSUME StoreTypes, ReplyInv, NEW c \in Clients,
         \/ ReadLine(c) \/ WriteLock(c) \/ WriteUnlock(c) \/ ReadLock(c) \/ ReadOpen(c)
         \/ ReadSend(c) \/ ReadUnlock(c) \/ Closing(c)
  PROVE  StoreTypes'
<1>1. UNCHANGED <<sock, should_terminate, lines, partial, age>>
  BY DEF ReadLine, TakeLine, WriteLock, WriteUnlock, ReadLock, ReadOpen, ReadSend,
         ReadSendUpTo, ReadUnlock, Closing
<1>2. mpc' \in {mpc, "killed"} /\ file_mutex' \in {file_mutex, c, Nobody}
  BY DEF ReadLine, TakeLine, WriteLock, WriteUnlock, ReadLock, ReadOpen, ReadSend,
         ReadSendUpTo, ReadUnlock, Closing
<1>3. failed' \in [Clients -> BOOLEAN]
  <2>1. failed' = failed \/ \E x \in BOOLEAN : failed' = [failed EXCEPT ![c] = x]
    BY DEF ReadLine, TakeLine, WriteLock, WriteUnlock, ReadLock, ReadOpen, ReadSend,
           ReadSendUpTo, ReadUnlock, Closing
  <2> QED BY <2>1 DEF StoreTypes
<1>4. line' \in [Clients -> AllLines \cup {<<>>}] /\ inbox' \in [Clients -> Seq(AllLines)]
  <2>1. CASE UNCHANGED <<line, inbox>>
    BY <2>1 DEF StoreTypes
  <2>2. CASE TakeLine(c)
    <3>1. inbox[c] \in Seq(AllLines) /\ inbox[c] # <<>>
      BY <2>2 DEF TakeLine, StoreTypes
    <3>2. Head(inbox[c]) \in AllLines /\ Tail(inbox[c]) \in Seq(AllLines)
      BY <3>1
    <3> QED BY <2>2, <3>2 DEF TakeLine, StoreTypes
  <2> QED BY <2>1, <2>2 DEF ReadLine, WriteLock, WriteUnlock, ReadLock, ReadOpen, ReadSend,
                           ReadSendUpTo, ReadUnlock, Closing
<1>5. reply' \in [Clients -> Seq(Seq(Tokens))]
  <2>1. CASE UNCHANGED reply
    BY <2>1 DEF StoreTypes
  <2>2. CASE reply' = [reply EXCEPT ![c] = <<>>]
    <3>1. <<>> \in Seq(Seq(Tokens))
      OBVIOUS
    <3> QED BY <2>2, <3>1 DEF StoreTypes
  <2>3. CASE /\ More(c, Len(lines))
             /\ reply' = [reply EXCEPT ![c] = Append(reply[c], lines[Len(reply[c]) + 1])]
    <3>1. lines \in Seq(Seq(Tokens)) /\ reply[c] \in Seq(Seq(Tokens))
      BY DEF StoreTypes
    <3>2. lines[Len(reply[c]) + 1] \in Seq(Tokens)
      BY <2>3, <3>1 DEF More
    <3>3. Append(reply[c], lines[Len(reply[c]) + 1]) \in Seq(Seq(Tokens))
      BY <3>1, <3>2
    <3> QED BY <2>3, <3>3 DEF StoreTypes
  <2> QED BY <2>1, <2>2, <2>3 DEF ReadLine, TakeLine, WriteLock, WriteUnlock, ReadLock,
                                ReadOpen, ReadSend, ReadSendUpTo, ReadUnlock, Closing
<1> QED BY <1>1, <1>2, <1>3, <1>4, <1>5 DEF StoreTypes

(***************************************************************************)
(* What write leaves in the device.  A finished command ends with the line *)
(* that finished it.                                                       *)
(***************************************************************************)
LEMMA WriteEffect ==
  ASSUME StoreTypes, NEW c \in Clients, line[c] \in AllLines, aesd_write(c)
  PROVE  /\ lines' \in Seq(Seq(Tokens)) /\ partial' \in Seq(Tokens)
         /\ age' \in [Clients -> 0 .. N]
         /\ HasNewline(line[c]) =>
              /\ lines' = Push(lines, partial \o line[c])
              /\ \A d \in Clients : age'[d] = IF d = c THEN 0
                                            ELSE IF age[d] = N THEN N ELSE age[d] + 1
         /\ ~HasNewline(line[c]) => UNCHANGED <<lines, age>>
<1>1. /\ line[c] \in Seq(Tokens) /\ Kept(line[c]) = line[c]
      /\ partial \in Seq(Tokens) /\ lines \in Seq(Seq(Tokens)) /\ age \in [Clients -> 0 .. N]
  BY LineFacts DEF StoreTypes
<1>2. partial \o line[c] \in Seq(Tokens)
  BY <1>1
<1>3. CASE HasNewline(line[c])
  <2>1. /\ lines' = Push(lines, partial \o line[c]) /\ partial' = <<>>
        /\ age' = [d \in Clients |-> IF d = c THEN 0
                                     ELSE IF age[d] = N THEN N ELSE age[d] + 1]
    BY <1>1, <1>3 DEF aesd_write
  <2>2. Push(lines, partial \o line[c]) \in Seq(Seq(Tokens))
    <3> DEFINE x == partial \o line[c]
    <3>1. x \in Seq(Tokens)
      BY <1>2
    <3> HIDE DEF x
    <3>2. Len(lines) \in Nat /\ (~(Len(lines) < N) => lines # <<>>)
      BY <1>1
    <3>3. Append(lines, x) \in Seq(Seq(Tokens))
      BY <1>1, <3>1
    <3>4. lines # <<>> => Append(Tail(lines), x) \in Seq(Seq(Tokens))
      BY <1>1, <3>1
    <3>5. Push(lines, x) \in Seq(Seq(Tokens))
      BY <3>2, <3>3, <3>4 DEF Push
    <3> QED BY <3>5 DEF x
  <2>3. \A d \in Clients : age'[d] = IF d = c THEN 0
                                   ELSE IF age[d] = N THEN N ELSE age[d] + 1
    BY <2>1, Zenon
  <2>4. age' \in [Clients -> 0 .. N]
    <3>1. ASSUME NEW d \in Clients PROVE age'[d] \in 0 .. N
      <4>1. age[d] \in 0 .. N
        BY <1>1
      <4>2. age'[d] = 0 \/ age'[d] = N \/ (age[d] # N /\ age'[d] = age[d] + 1)
        BY <2>3
      <4> QED BY <4>1, <4>2
    <3> QED BY <2>1, <3>1
  <2>5. partial' \in Seq(Tokens)
    BY <2>1
  <2> QED BY <1>3, <2>1, <2>2, <2>3, <2>4, <2>5
<1>4. CASE ~HasNewline(line[c])
  <2>1. partial' = partial \o line[c] /\ UNCHANGED <<lines, age>>
    BY <1>1, <1>4 DEF aesd_write
  <2> QED BY <1>1, <1>2, <1>4, <2>1
<1> QED BY <1>3, <1>4

\* write: a failure leaves the device as it is.
LEMMA WriteStore ==
  ASSUME StoreTypes, OwnInv, NEW c \in Clients, Write(c)
  PROVE  StoreTypes'
<1>1. UNCHANGED <<mpc, sock, should_terminate, file_mutex, line, reply, inbox>>
  BY DEF Write
<1>2. pc[c] = "write" /\ line[c] \in AllLines
  BY DEF Write, Goto, OwnInv, StoreTypes
<1>3. CASE aesd_write(c) /\ UNCHANGED failed
  BY <1>1, <1>2, <1>3, WriteEffect DEF StoreTypes
<1>4. CASE UNCHANGED <<lines, partial, age>> /\ failed' = [failed EXCEPT ![c] = TRUE]
  BY <1>1, <1>4 DEF StoreTypes
<1> QED BY <1>3, <1>4 DEF Write

-----------------------------------------------------------------------------
(* The own command.                                                        *)

\* What OwnInv says of one connection.
OwnHeld(c) ==
  /\ pc[c] \in {"write_lock", "write"} \cup Written => line[c] # <<>>
  /\ pc[c] \in Written /\ ~failed[c] /\ HasNewline(line[c]) /\ age[c] < N
     => LET own == lines[Len(lines) - age[c]]
        IN  /\ Len(lines) > age[c]
            /\ Len(own) >= 2 /\ own[Len(own) - 1] = line[c][1]

LEMMA OwnParts == OwnInv <=> \A c \in Clients : OwnHeld(c)
BY DEF OwnInv, OwnHeld

\* A step that leaves the device, the line and the outcome of a connection
\* alone, and does not bring its thread behind the write.
LEMMA OwnKept ==
  ASSUME NEW c \in Clients, OwnHeld(c), UNCHANGED lines,
         line'[c] = line[c], failed'[c] = failed[c], age'[c] = age[c],
         pc'[c] \in Written => pc[c] \in Written,
         pc'[c] \in {"write_lock", "write"} => pc[c] \in {"write_lock", "write"}
  PROVE  OwnHeld(c)'
BY DEF OwnHeld

\* Main, signals and clients.
LEMMA OwnOthers ==
  ASSUME ListInv, OwnInv,
         Main \/ signal_handler \/ (\E c \in Clients : Client(c))
  PROVE  OwnInv'
<1>1. UNCHANGED <<lines, line, failed, age>>
  BY DEF Main, Setup, LoopTest, Accept, AcceptFails, Reap, Cleanup, Exit, signal_handler,
         Client, Connect, ClientSend, Shutdown, Vanish
<1>2. \A d \in Clients : pc'[d] = pc[d] \/ pc'[d] = "read_line"
  <2>1. CASE UNCHANGED pc
    BY <2>1
  <2>2. CASE Accept /\ pc' = [pc EXCEPT ![Head(pending)] = "read_line"]
    BY <2>2 DEF ListInv, ListTypes
  <2> QED BY <2>1, <2>2
             DEF Main, Setup, LoopTest, Accept, AcceptFails, Reap, Cleanup, Exit,
                 signal_handler, Client, Connect, ClientSend, Shutdown, Vanish
<1>3. ASSUME NEW d \in Clients PROVE OwnHeld(d)'
  <2>1. OwnHeld(d)
    BY OwnParts
  <2>2. "read_line" \notin {"write_lock", "write"} \cup Written
    BY DEF Written
  <2> QED BY <1>1, <1>2, <2>1, <2>2, OwnKept
<1> QED BY <1>3 DEF OwnInv, OwnHeld

\* The steps of a thread that leave the device as it is.
LEMMA OwnThread ==
  ASSUME ListInv, StoreTypes, OwnInv, NEW c \in Clients,
         \/ ReadLine(c) \/ WriteLock(c) \/ WriteUnlock(c) \/ ReadLock(c) \/ ReadOpen(c)
         \/ ReadSend(c) \/ ReadUnlock(c) \/ Closing(c)
  PROVE  OwnInv'
<1>1. UNCHANGED <<lines, age>>
  BY DEF ReadLine, TakeLine, WriteLock, WriteUnlock, ReadLock, ReadOpen, ReadSend,
         ReadSendUpTo, ReadUnlock, Closing
<1>2. \A d \in Clients : d # c => pc'[d] = pc[d] /\ line'[d] = line[d] /\ failed'[d] = failed[d]
  BY DEF ReadLine, TakeLine, WriteLock, WriteUnlock, ReadLock, ReadOpen, ReadSend,
         ReadSendUpTo, ReadUnlock, Closing, Goto, ListInv, ListTypes, StoreTypes
<1>3. ASSUME NEW d \in Clients, d # c PROVE OwnHeld(d)'
  <2>1. OwnHeld(d)
    BY OwnParts
  <2> QED BY <1>1, <1>2, <1>3, <2>1, OwnKept
<1>4. OwnHeld(c)'
  <2> USE DEF ListInv, ListTypes
  <2>1. OwnHeld(c)
    BY OwnParts
  <2>2. CASE TakeLine(c)
    <3>1. inbox[c] \in Seq(AllLines) /\ inbox[c] # <<>>
      BY <2>2 DEF TakeLine, StoreTypes
    <3>2. Head(inbox[c]) \in AllLines
      BY <3>1
    <3>3. line'[c] # <<>>
      BY <2>2, <3>2, LineFacts DEF TakeLine, StoreTypes
    <3>4. pc'[c] \notin Written
      BY <2>2 DEF TakeLine, Goto, Written
    <3> QED BY <3>3, <3>4 DEF OwnHeld
  <2>3. CASE WriteLock(c) \/ WriteUnlock(c) \/ ReadLock(c) \/ ReadOpen(c) \/ ReadSend(c)
    <3>1. UNCHANGED <<line, failed>>
      BY <2>3 DEF WriteLock, WriteUnlock, ReadLock, ReadOpen, ReadSend, ReadSendUpTo
    <3>2. /\ pc'[c] \in Written => pc[c] \in Written
          /\ pc'[c] \in {"write_lock", "write"} => pc[c] \in {"write_lock", "write"}
      BY <2>3 DEF WriteLock, WriteUnlock, ReadLock, ReadOpen, ReadSend, ReadSendUpTo, Goto,
                  Written
    <3> QED BY <1>1, <2>1, <3>1, <3>2, OwnKept
  <2>4. CASE /\ ~TakeLine(c)
             /\ ReadLine(c) \/ ReadUnlock(c) \/ Closing(c)
    <3>1. pc'[c] \notin {"write_lock", "write"} \cup Written
      BY <2>4 DEF ReadLine, ReadUnlock, Closing, Goto, Written
    <3> QED BY <3>1 DEF OwnHeld
  <2> QED BY <2>2, <2>3, <2>4
<1> QED BY <1>3, <1>4 DEF OwnInv, OwnHeld

(***************************************************************************)
(* A new command is the last of the device, and each command that is kept  *)
(* moves one place away from the end.                                      *)
(***************************************************************************)
LEMMA PushPlaces ==
  ASSUME NEW E, NEW s \in Seq(E), NEW x \in E, NEW k \in Nat,
         NEW m, m = Push(s, x)
  PROVE  /\ Len(m) > 0 /\ m[Len(m)] = x
         /\ k + 1 < N /\ Len(s) > k => Len(m) > k + 1 /\ m[Len(m) - (k + 1)] = s[Len(s) - k]
<1>1. Len(s) \in Nat /\ N \in Nat /\ N > 0
  OBVIOUS
<1>2. CASE Len(s) < N
  <2>1. m = Append(s, x)
    BY <1>2 DEF Push
  <2>2. /\ Len(m) = Len(s) + 1 /\ m[Len(s) + 1] = x
        /\ \A i \in 1 .. Len(s) : m[i] = s[i]
    BY <2>1
  <2>3. ASSUME Len(s) > k
        PROVE  Len(m) - (k + 1) = Len(s) - k /\ Len(s) - k \in 1 .. Len(s)
    BY <1>1, <2>2, <2>3
  <2> QED BY <1>1, <2>2, <2>3
<1>3. CASE ~(Len(s) < N)
  <2>1. m = Append(Tail(s), x)
    BY <1>3 DEF Push
  <2>2. s # <<>> /\ Len(s) >= N
    BY <1>1, <1>3
  <2>3. /\ Tail(s) \in Seq(E) /\ Len(Tail(s)) = Len(s) - 1
        /\ \A i \in 1 .. Len(s) - 1 : Tail(s)[i] = s[i + 1]
    BY <2>2
  <2>4. /\ Len(m) = Len(s) /\ m[Len(s)] = x
        /\ \A i \in 1 .. Len(s) - 1 : m[i] = s[i + 1]
    BY <1>1, <2>1, <2>3
  <2>5. ASSUME k + 1 < N
        PROVE  /\ Len(m) - (k + 1) \in 1 .. Len(s) - 1
               /\ (Len(m) - (k + 1)) + 1 = Len(s) - k
               /\ Len(m) > k + 1
    BY <1>1, <2>2, <2>4, <2>5
  <2> QED BY <1>1, <2>2, <2>4, <2>5
<1> QED BY <1>2, <1>3

(***************************************************************************)
(* write: the writer's command comes last, and the others' move one place  *)
(* further, as their age says.                                             *)
(***************************************************************************)
LEMMA OwnWrite ==
  ASSUME ListInv, StoreTypes, OwnInv, NEW c \in Clients, Write(c)
  PROVE  OwnInv'
<1>1. UNCHANGED line /\ pc[c] = "write"
  BY DEF Write, Goto
<1>2. line[c] \in AllLines
  BY <1>1 DEF OwnInv, StoreTypes
<1>3. \A d \in Clients : d # c => pc'[d] = pc[d] /\ failed'[d] = failed[d]
  BY DEF Write, Goto, ListInv, ListTypes, StoreTypes
<1>4. line'[c] # <<>>
  BY <1>1, <1>2, LineFacts
<1>5. CASE /\ UNCHANGED <<lines, age>>
           /\ ~HasNewline(line[c]) \/ failed' = [failed EXCEPT ![c] = TRUE]
  <2>1. ASSUME NEW d \in Clients, d # c PROVE OwnHeld(d)'
    <3>1. OwnHeld(d)
      BY OwnParts
    <3> QED BY <1>1, <1>3, <1>5, <2>1, <3>1, OwnKept
  <2>2. ~HasNewline(line'[c]) \/ failed'[c]
    BY <1>1, <1>5 DEF StoreTypes
  <2>3. OwnHeld(c)'
    BY <1>4, <2>2 DEF OwnHeld
  <2> QED BY <2>1, <2>3 DEF OwnInv, OwnHeld
<1>6. CASE aesd_write(c) /\ HasNewline(line[c])
  <2> DEFINE x == partial \o line[c]
  <2>1. /\ lines' = Push(lines, x)
        /\ \A d \in Clients : age'[d] = IF d = c THEN 0
                                      ELSE IF age[d] = N THEN N ELSE age[d] + 1
    BY <1>2, <1>6, WriteEffect
  <2>2. /\ x \in Seq(Tokens) /\ Len(x) >= 2 /\ x[Len(x) - 1] = line[c][1]
    <3>1. line[c] \in Seq(Tokens) /\ partial \in Seq(Tokens) /\ Len(line[c]) = 2
      BY <1>2, <1>6, LineFacts DEF StoreTypes
    <3> QED BY <3>1, Joined
  <2> HIDE DEF x
  <2>3. lines \in Seq(Seq(Tokens)) /\ age \in [Clients -> 0 .. N]
    BY DEF StoreTypes
  <2>4. \A k \in Nat :
          k + 1 < N /\ Len(lines) > k =>
            Len(lines') > k + 1 /\ lines'[Len(lines') - (k + 1)] = lines[Len(lines) - k]
    <3> SUFFICES ASSUME NEW k \in Nat, k + 1 < N /\ Len(lines) > k
                 PROVE  /\ Len(lines') > k + 1
                        /\ lines'[Len(lines') - (k + 1)] = lines[Len(lines) - k]
      OBVIOUS
    <3> DEFINE E == Seq(Tokens)
               m == lines'
    <3>1. lines \in Seq(E) /\ x \in E /\ m = Push(lines, x)
      BY <2>1, <2>2, <2>3
    <3> HIDE DEF E, m
    <3>2. Len(m) > k + 1 /\ m[Len(m) - (k + 1)] = lines[Len(lines) - k]
      BY ONLY <3>1, k \in Nat, k + 1 < N /\ Len(lines) > k, PushPlaces
    <3> QED BY <3>2 DEF m
  <2>5. OwnHeld(c)'
    <3>1. Len(lines') > 0 /\ lines'[Len(lines')] = x
      BY <2>1, <2>2, <2>3, PushPlaces
    <3>2. age'[c] = 0 /\ Len(lines') - 0 = Len(lines')
      <4>1. lines' \in Seq(Seq(Tokens))
        BY <1>2, <1>6, WriteEffect
      <4> QED BY <2>1, <4>1
    <3> QED BY <1>1, <1>4, <2>2, <3>1, <3>2 DEF OwnHeld
  <2>6. ASSUME NEW d \in Clients, d # c PROVE OwnHeld(d)'
    <3>1. OwnHeld(d)
      BY OwnParts
    <3>2. line'[d] = line[d] /\ pc'[d] = pc[d] /\ failed'[d] = failed[d]
      BY <1>1, <1>3, <2>6
    <3>3. age[d] \in 0 .. N /\ (age'[d] < N => age'[d] = age[d] + 1 /\ age[d] + 1 < N)
      BY <2>1, <2>3, <2>6
    <3>4. ASSUME age'[d] < N, Len(lines) > age[d]
          PROVE  /\ Len(lines') > age'[d]
                 /\ lines'[Len(lines') - age'[d]] = lines[Len(lines) - age[d]]
      <4>1. age[d] \in Nat /\ age[d] + 1 < N /\ age'[d] = age[d] + 1
        BY <3>3, <3>4
      <4> QED BY <3>4, <4>1, <2>4
    <3>5. age'[d] < N => age[d] < N
      BY <3>3
    <3> QED BY <3>1, <3>2, <3>4, <3>5 DEF OwnHeld
  <2> QED BY <2>5, <2>6 DEF OwnInv, OwnHeld
<1> QED BY <1>2, <1>5, <1>6, WriteEffect DEF Write

(***************************************************************************)
(* The types and the own commands, together: each needs the other.         *)
(***************************************************************************)
THEOREM ServerStoreInvariant == Spec => [](StoreTypes /\ OwnInv)
<1>1. Init => StoreTypes /\ OwnInv
  <2>1. Init => OwnInv
    BY DEF Init, OwnInv, Written
  <2> QED BY <2>1, InitStore
<1>2. ListInv /\ ReplyInv /\ StoreTypes /\ OwnInv /\ [Next]_vars => StoreTypes' /\ OwnInv'
  <2> SUFFICES ASSUME ListInv, ReplyInv, StoreTypes, OwnInv, [Next]_vars
               PROVE  StoreTypes' /\ OwnInv'
    OBVIOUS
  <2>1. CASE Main \/ signal_handler
    BY <2>1, MainStore, OwnOthers
  <2>2. ASSUME NEW c \in Clients, Client(c) PROVE StoreTypes' /\ OwnInv'
    BY <2>2, ClientStore, OwnOthers
  <2>3. ASSUME NEW c \in Clients, Thread(c) PROVE StoreTypes' /\ OwnInv'
    BY <2>3, ThreadStore, WriteStore, OwnThread, OwnWrite DEF Thread
  <2>4. CASE UNCHANGED vars
    BY <2>4 DEF vars, StoreTypes, OwnInv
  <2> QED BY <2>1, <2>2, <2>3, <2>4 DEF Next
<1> QED BY <1>1, <1>2, ServerListInvariant, ServerReplyInvariant, PTL DEF Spec

(***************************************************************************)
(* The type invariant of the server.                                       *)
(***************************************************************************)
THEOREM ServerTypes == Spec => []TypeOK
<1>1. JunkFromReads => junk \in [Clients -> BOOLEAN]
  BY DEF JunkFromReads
<1>2. ListInv /\ ReplyInv /\ StoreTypes /\ JunkFromReads => TypeOK
  BY <1>1 DEF ListInv, ListTypes, ReplyInv, ReplyTypes, StoreTypes, TypeOK
<1> QED
  BY <1>2, ServerListInvariant, ServerReplyInvariant, ServerStoreInvariant, ServerJunk, PTL

(***************************************************************************)
(* An answered client finds its own command in the reply, as many places   *)
(* from its end as other connections have completed commands meanwhile,    *)
(* unless the device has dropped it.                                       *)
(***************************************************************************)
THEOREM ServerOwnCommand == Spec => []OwnCommandAnswered
<1>1. ReplyInv /\ OwnInv => OwnCommandAnswered
  <2> SUFFICES ASSUME ReplyInv, OwnInv PROVE OwnCommandAnswered
    OBVIOUS
  <2>1. \A c \in Clients : pc[c] = "read_unlock" /\ ret[c] = 0 => reply[c] = lines
    BY DEF ReplyInv, ReplyIsPrefix
  <2> QED BY <2>1 DEF OwnInv, OwnCommandAnswered, Written
<1> QED BY <1>1, ServerReplyInvariant, ServerStoreInvariant, PTL
=============================================================================
