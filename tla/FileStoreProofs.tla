--------------------------- MODULE FileStoreProofs ---------------------------
(***************************************************************************)
(* The file build's replies and its file, for every number of connections, *)
(* lines and timestamps and every combination of faults.                   *)
(***************************************************************************)
EXTENDS FileStore, BasicLemmas, TLAPS

USE FileStoreAssumption DEF Users

-----------------------------------------------------------------------------
(* O_APPEND.                                                               *)

(***************************************************************************)
(* Appending as write does it with O_APPEND.                               *)
(***************************************************************************)
LEMMA PutAppends ==
  ASSUME NEW u \in Users, num \in [Users -> Nat],
         file \in Seq(Entries), Put(u)
  PROVE  /\ file' \in Seq(Entries) /\ offset' \in Nat
         /\ Len(file') = Len(file) + 1
         /\ \A i \in 1 .. Len(file) : file'[i] = file[i]
<1> DEFINE f == [i \in 1 .. Len(file) + 1 |-> IF i = Len(file) + 1 THEN Entry(u) ELSE file[i]]
<1>1. Len(file) \in Nat /\ Entry(u) \in Entries
  BY DEF Entry, Entries
<1>2. file' = f /\ offset' = Len(file) + 1
  BY <1>1 DEF Put, PutAt
<1>3. \A i \in 1 .. Len(file) + 1 : f[i] \in Entries
  BY <1>1
<1>4. f \in Seq(Entries) /\ Len(f) = Len(file) + 1
  BY <1>1, <1>3
<1>5. \A i \in 1 .. Len(file) : f[i] = file[i]
  BY <1>1
<1> QED
  BY <1>1, <1>2, <1>4, <1>5

-----------------------------------------------------------------------------
(* The inductive invariant.                                                *)

USE DEF fileVars, sendVars, threadVars, mainVars, envVars

(***************************************************************************)
(* The start of the process.                                               *)
(***************************************************************************)
LEMMA InitInv == Init => IInv
<1> SUFFICES ASSUME Init PROVE IInv
  OBVIOUS
<1>1. file \in Seq(Entries)
  <2>1. [from |-> Nobody, num |-> 0] \in Entries
    BY DEF Entries
  <2>2. <<[from |-> Nobody, num |-> 0]>> \in Seq(Entries)
    BY <2>1, Singleton
  <2>3. <<>> \in Seq(Entries)
    OBVIOUS
  <2>4. file = <<>> \/ file = <<[from |-> Nobody, num |-> 0]>>
    BY Zenon DEF Init
  <2> QED
    BY <2>2, <2>3, <2>4, Zenon
<1>2. pc \in [Users -> {"none", "read_line"}]
  BY DEF Init
<1>3. ret \in [Users -> {0}] /\ num \in [Users -> {0}] /\ reply \in [Users -> {<<>>}]
  BY DEF Init
<1>4. failed \in [Users -> BOOLEAN] /\ junk \in [Users -> {FALSE}]
  BY DEF Init
<1>5. TypeOK
  <2>1. /\ pc \in [Users -> {"none", "read_line", "closed", "sleep", "ended",
                            "write_lock", "write", "write_unlock",
                            "read_lock", "seek", "read_send", "read_unlock"}]
        /\ ret \in [Users -> {0, -1}] /\ num \in [Users -> Nat]
    BY <1>2, <1>3
  <2>2. reply \in [Users -> Seq(Entries)]
    <3>1. {<<>>} \subseteq Seq(Entries)
      OBVIOUS
    <3> QED
      BY <1>3, <3>1, Zenon
  <2>3. /\ mpc = "init" /\ stalled = {} /\ offset \in Nat /\ file_mutex = Nobody
        /\ should_terminate \in BOOLEAN /\ fd \in BOOLEAN
        /\ name \in {"absent", "linked", "kept"} /\ cancelled \in BOOLEAN /\ broken \in BOOLEAN
    BY DEF Init
  <2>4. junk \in [Users -> BOOLEAN]
    BY <1>4
  <2> QED
    BY <1>1, <1>4, <2>1, <2>2, <2>3, <2>4 DEF TypeOK
<1> QED
  BY <1>2, <1>3, <1>4, <1>5 DEF IInv, MutexHeld, ReplyIsPrefix

(***************************************************************************)
(* Main, signals and clients touch neither the file nor a thread's state;  *)
(* creating the timer moves only the timer.                                *)
(***************************************************************************)
LEMMA MainInv ==
  ASSUME IInv,
         Main \/ signal_handler \/ (\E c \in Conns : Stall(c) \/ Break(c))
  PROVE  IInv'
<1>1. UNCHANGED <<fileVars, file_mutex, threadVars>>
  BY DEF Main, init_filestore, StartFails, CreateTimer, Setup, Shutdown, filestore_close,
         Cancel, Join, signal_handler, Stall, Break
<1>2. \/ UNCHANGED pc
      \/ pc' = [pc EXCEPT ![Timer] = "sleep"] /\ mpc = "start"
  BY DEF Main, init_filestore, StartFails, CreateTimer, Setup, Shutdown, filestore_close,
         Cancel, Join, signal_handler, Stall, Break, GotoMain
<1>3. TypeOK'
  <2>1. mpc' \in {"init", "start", "setup", "accept", "cancel", "join", "exited", "crashed"}
    BY DEF Main, init_filestore, StartFails, CreateTimer, Setup, Shutdown, filestore_close,
           Cancel, Join, signal_handler, Stall, Break, GotoMain, IInv, TypeOK
  <2>2. (should_terminate \in BOOLEAN /\ fd \in BOOLEAN /\ cancelled \in BOOLEAN
         /\ name \in {"absent", "linked", "kept"} /\ broken \in BOOLEAN)'
    BY DEF Main, init_filestore, StartFails, CreateTimer, Setup, Shutdown, filestore_close,
           Cancel, Join, signal_handler, Stall, Break, IInv, TypeOK
  <2>3. stalled' \subseteq Conns
    BY DEF Main, init_filestore, StartFails, CreateTimer, Setup, Shutdown, filestore_close,
           Cancel, Join, signal_handler, Stall, Break, IInv, TypeOK
  <2> QED
    BY <1>1, <1>2, <2>1, <2>2, <2>3 DEF IInv, TypeOK
<1>4. MutexHeld'
  BY <1>1, <1>2 DEF IInv, TypeOK, MutexHeld
<1>5. ReplyIsPrefix'
  BY <1>1, <1>2 DEF IInv, TypeOK, ReplyIsPrefix
<1> QED
  BY <1>3, <1>4, <1>5 DEF IInv

(***************************************************************************)
(* A step of a thread that moves neither the file nor a reply: it takes    *)
(* file_mutex only when it is free, and gives it back only as its owner.   *)
(***************************************************************************)
LEMMA OutsideInv ==
  ASSUME IInv, NEW u \in Users,
         \/ u \in Conns /\ (ReadLine(u) \/ ReadLock(u))
         \/ u = Timer /\ (Sleep \/ EndInWrite)
         \/ WriteLock(u) \/ WriteUnlock(u)
  PROVE  IInv'
<1>1. UNCHANGED <<envVars, mainVars, fileVars, failed, sendVars>>
  BY DEF ReadLine, ReadLock, Sleep, EndInWrite, WriteLock, WriteUnlock
<1>2. PICK to \in {"closed", "write_lock", "sleep", "ended", "read_lock", "seek", "write"} :
        pc' = [pc EXCEPT ![u] = to]
  BY DEF ReadLine, ReadLock, Sleep, EndInWrite, WriteLock, WriteUnlock, Goto, After
<1>3. pc[u] \notin {"read_send", "read_unlock"}
  BY DEF ReadLine, ReadLock, Sleep, EndInWrite, WriteLock, WriteUnlock, Goto
<1>4. \/ to \notin {"seek", "write"} /\ UNCHANGED file_mutex
      \/ file_mutex = Nobody /\ file_mutex' = u
      \/ to \notin {"seek", "write"} /\ file_mutex = u /\ file_mutex' = Nobody
  BY <1>2 DEF ReadLine, ReadLock, Sleep, EndInWrite, WriteLock, WriteUnlock, Goto, After,
              IInv, TypeOK, MutexHeld
<1>5. num' \in [Users -> Nat]
  <2>1. UNCHANGED num \/ num' = [num EXCEPT ![u] = @ + 1]
    BY DEF ReadLine, ReadLock, Sleep, EndInWrite, WriteLock, WriteUnlock
  <2>2. num \in [Users -> Nat]
    BY DEF IInv, TypeOK
  <2>3. [num EXCEPT ![u] = @ + 1] \in [Users -> Nat]
    BY <2>2
  <2> QED
    BY <2>1, <2>2, <2>3, Zenon
<1>6. TypeOK'
  BY <1>1, <1>2, <1>4, <1>5 DEF IInv, TypeOK
<1>7. MutexHeld'
  BY <1>2, <1>4 DEF IInv, TypeOK, MutexHeld
<1>8. to \in {"read_lock", "seek"} => u # Timer
  BY <1>2 DEF ReadLine, ReadLock, Sleep, EndInWrite, WriteLock, WriteUnlock, Goto, After,
              IInv, TypeOK
<1>9. ReplyIsPrefix'
  BY <1>1, <1>2, <1>3, <1>8 DEF IInv, TypeOK, ReplyIsPrefix
<1> QED
  BY <1>6, <1>7, <1>9 DEF IInv

(***************************************************************************)
(* write, and its failure: the file grows under the mutex, so that no      *)
(* other thread is reading it.                                             *)
(***************************************************************************)
LEMMA WriteInv ==
  ASSUME IInv, NEW u \in Users, Write(u)
  PROVE  IInv'
<1>1. pc[u] = "write" /\ file_mutex = u
  BY DEF Write, Goto, IInv, MutexHeld
<1>2. UNCHANGED <<envVars, mainVars, file_mutex, num, sendVars>>
  BY DEF Write
<1>3. PICK to \in {"write_unlock", "read_lock", "sleep"} : pc' = [pc EXCEPT ![u] = to]
  BY DEF Write, Goto, After
<1>4. to = "read_lock" => u # Timer
  BY <1>3 DEF Write, Goto, After, IInv, TypeOK
<1>5. file' \in Seq(Entries) /\ offset' \in Nat
  BY PutAppends DEF Write, IInv, TypeOK
<1>6. failed' \in [Users -> BOOLEAN]
  BY DEF Write, IInv, TypeOK
<1>7. TypeOK'
  BY <1>2, <1>3, <1>5, <1>6 DEF IInv, TypeOK
<1>8. MutexHeld'
  BY <1>1, <1>2, <1>3 DEF IInv, TypeOK, MutexHeld
<1>9. \A v \in Users : v # u => pc[v] \notin {"read_send", "read_unlock"}
  BY <1>1 DEF IInv, MutexHeld
<1>10. ReplyIsPrefix'
  BY <1>1, <1>2, <1>3, <1>4, <1>9 DEF IInv, TypeOK, ReplyIsPrefix
<1> QED
  BY <1>7, <1>8, <1>10 DEF IInv

(***************************************************************************)
(* lseek, and the turns of the loop of reads and sends.                    *)
(***************************************************************************)
LEMMA ReadInv ==
  ASSUME IInv, NEW c \in Conns,
         Seek(c) \/ ReadSend(c) \/ ReadFails(c) \/ SendFails(c)
  PROVE  IInv'
<1>1. c \in Users /\ c # Timer
  OBVIOUS
<1>2. pc[c] \in {"seek", "read_send"} /\ file_mutex = c
  BY <1>1 DEF Seek, ReadSend, ReadFails, SendFails, Goto, IInv, MutexHeld
<1>3. UNCHANGED <<mainVars, stalled, file, file_mutex, num, failed>> /\ broken' \in BOOLEAN
  BY DEF Seek, ReadSend, ReadFails, SendFails, IInv, TypeOK
<1>4. \A v \in Users : v # c => pc[v] \notin {"read_send", "read_unlock"}
  BY <1>2 DEF IInv, MutexHeld
<1>5. CASE Seek(c)
  <2>1. /\ pc' = [pc EXCEPT ![c] = "read_send"] /\ offset' = 0
        /\ UNCHANGED sendVars /\ pc[c] = "seek"
    BY <1>5 DEF Seek, Goto
  <2>2. TypeOK'
    BY <1>1, <1>3, <2>1 DEF IInv, TypeOK
  <2>3. MutexHeld'
    BY <1>1, <1>2, <1>3, <2>1 DEF IInv, TypeOK, MutexHeld
  <2>4. ret[c] = 0 /\ reply[c] = SubSeq(file, 1, 0) /\ 0 <= Len(file)
    BY <1>1, <2>1, EndPrefixes DEF IInv, TypeOK, ReplyIsPrefix
  <2>5. ReplyIsPrefix'
    BY <1>1, <1>3, <1>4, <2>1, <2>4 DEF IInv, TypeOK, ReplyIsPrefix
  <2> QED
    BY <2>2, <2>3, <2>5 DEF IInv
<1>6. CASE ReadSend(c) \/ ReadFails(c) \/ SendFails(c)
  <2>1. /\ pc[c] = "read_send" /\ ret[c] = 0
        /\ offset <= Len(file) /\ reply[c] = SubSeq(file, 1, offset)
    BY <1>1, <1>6 DEF ReadSend, ReadFails, SendFails, Goto, IInv, ReplyIsPrefix
  <2>2. file \in Seq(Entries) /\ Len(file) \in Nat /\ offset \in Nat
    BY DEF IInv, TypeOK
  <2>3. CASE /\ offset < Len(file)
             /\ pc' = [pc EXCEPT ![c] = "read_send"]
             /\ reply' = [reply EXCEPT ![c] = Append(@, file[offset + 1])]
             /\ offset' = offset + 1 /\ UNCHANGED <<ret, junk>>
    <3>1. Append(reply[c], file[offset + 1]) = SubSeq(file, 1, offset + 1)
      BY <2>1, <2>2, <2>3, NextPrefix
    <3>2. reply' = [reply EXCEPT ![c] = SubSeq(file, 1, offset + 1)]
      BY <2>3, <3>1
    <3>3. SubSeq(file, 1, offset + 1) \in Seq(Entries) /\ offset' \in Nat
      BY <2>2, <2>3
    <3>4. TypeOK'
      BY <1>1, <1>3, <2>3, <3>2, <3>3 DEF IInv, TypeOK
    <3>5. MutexHeld'
      BY <1>1, <1>2, <1>3, <2>3 DEF IInv, TypeOK, MutexHeld
    <3>6. offset' <= Len(file) /\ reply'[c] = SubSeq(file, 1, offset')
      <4>1. offset' <= Len(file)
        BY <2>2, <2>3
      <4>2. reply'[c] = SubSeq(file, 1, offset')
        BY <1>1, <2>3, <3>2 DEF IInv, TypeOK
      <4> QED
        BY <4>1, <4>2
    <3>7. ReplyIsPrefix'
      BY <1>1, <1>3, <1>4, <2>1, <2>3, <3>2, <3>6 DEF IInv, TypeOK, ReplyIsPrefix
    <3> QED
      BY <3>4, <3>5, <3>7 DEF IInv
  <2>4. CASE /\ pc' = [pc EXCEPT ![c] = "read_unlock"]
             /\ ret' = [ret EXCEPT ![c] = -1]
             /\ offset' \in Nat /\ UNCHANGED <<reply, junk>>
    <3>1. TypeOK'
      BY <1>1, <1>3, <2>2, <2>4 DEF IInv, TypeOK
    <3>2. MutexHeld'
      BY <1>1, <1>2, <1>3, <2>4 DEF IInv, TypeOK, MutexHeld
    <3>3. ReplyIsPrefix'
      BY <1>1, <1>3, <1>4, <2>4 DEF IInv, TypeOK, ReplyIsPrefix
    <3> QED
      BY <3>1, <3>2, <3>3 DEF IInv
  <2>5. CASE /\ offset >= Len(file)
             /\ pc' = [pc EXCEPT ![c] = "read_unlock"]
             /\ UNCHANGED <<offset, sendVars>>
    <3>2. TypeOK'
      BY <1>1, <1>3, <2>5 DEF IInv, TypeOK
    <3>3. MutexHeld'
      BY <1>1, <1>2, <1>3, <2>5 DEF IInv, TypeOK, MutexHeld
    <3>4. ReplyIsPrefix'
      BY <1>1, <1>3, <1>4, <2>5 DEF IInv, TypeOK, ReplyIsPrefix
    <3> QED
      BY <3>2, <3>3, <3>4 DEF IInv
  <2>6. CASE /\ "read" \in Faults
             /\ pc' = [pc EXCEPT ![c] = "read_send"]
             /\ junk' = [junk EXCEPT ![c] = TRUE]
             /\ UNCHANGED <<offset, reply, ret>>
    <3>1. TypeOK'
      BY <1>1, <1>3, <2>6 DEF IInv, TypeOK
    <3>2. MutexHeld'
      BY <1>1, <1>2, <1>3, <2>6 DEF IInv, TypeOK, MutexHeld
    <3>3. ReplyIsPrefix'
      BY <1>1, <1>3, <1>4, <2>1, <2>6 DEF IInv, TypeOK, ReplyIsPrefix
    <3> QED
      BY <3>1, <3>2, <3>3 DEF IInv
  <2>7. CASE ReadSend(c)
    BY <2>7, <2>3, <2>5 DEF ReadSend, Goto
  <2>8. CASE ReadFails(c)
    BY <2>8, <2>6 DEF ReadFails, Goto
  <2>9. CASE SendFails(c)
    <3>1. \A k \in Nat : ReadFrom(k) \subseteq Nat
      BY <2>2 DEF ReadFrom
    <3>2. offset' \in Nat
      BY <2>2, <2>9, <3>1 DEF SendFails
    <3> QED
      BY <2>4, <2>9, <3>2 DEF SendFails, Goto
  <2> QED
    BY <1>6, <2>7, <2>8, <2>9
<1> QED
  BY <1>5, <1>6

(***************************************************************************)
(* The return of filestore_read_to_dest.                                   *)
(***************************************************************************)
LEMMA ReadUnlockInv ==
  ASSUME IInv, NEW c \in Conns, ReadUnlock(c)
  PROVE  IInv'
<1>1. c \in Users /\ c # Timer
  OBVIOUS
<1>2. /\ pc[c] = "read_unlock" /\ pc' = [pc EXCEPT ![c] = "read_line"]
      /\ file_mutex' = Nobody
      /\ reply' = [reply EXCEPT ![c] = <<>>] /\ ret' = [ret EXCEPT ![c] = 0]
      /\ junk' = [junk EXCEPT ![c] = FALSE]
      /\ UNCHANGED <<envVars, mainVars, fileVars, num>>
  BY DEF ReadUnlock, Goto
<1>3. file_mutex = c
  BY <1>1, <1>2 DEF IInv, MutexHeld
<1>4. failed' \in [Users -> BOOLEAN]
  BY DEF ReadUnlock, IInv, TypeOK
<1>5. TypeOK'
  BY <1>1, <1>2, <1>4 DEF IInv, TypeOK
<1>6. MutexHeld'
  BY <1>1, <1>2, <1>3 DEF IInv, TypeOK, MutexHeld
<1>7. ReplyIsPrefix'
  BY <1>1, <1>2 DEF IInv, TypeOK, ReplyIsPrefix
<1> QED
  BY <1>5, <1>6, <1>7 DEF IInv

(***************************************************************************)
(* Together: no step breaks the inductive invariant.                       *)
(***************************************************************************)
LEMMA NextInv == IInv /\ [Next]_vars => IInv'
<1> SUFFICES ASSUME IInv, [Next]_vars PROVE IInv'
  OBVIOUS
<1>1. CASE Main \/ signal_handler \/ (\E c \in Conns : Stall(c) \/ Break(c))
  BY <1>1, MainInv
<1>2. CASE timer_thread
  BY <1>2, OutsideInv, WriteInv DEF timer_thread, filestore_write
<1>3. ASSUME NEW c \in Conns, handle_connection(c) PROVE IInv'
  <2>1. c \in Users
    OBVIOUS
  <2> QED
    BY <1>3, <2>1, OutsideInv, WriteInv, ReadInv, ReadUnlockInv
    DEF handle_connection, filestore_write, filestore_read_to_dest
<1>4. CASE UNCHANGED vars
  BY <1>4 DEF vars, IInv, TypeOK, MutexHeld, ReplyIsPrefix
<1> QED
  BY <1>1, <1>2, <1>3, <1>4 DEF Next

(***************************************************************************)
(* The inductive invariant holds of the file build, from the start and     *)
(* through every step of main, the timer and the connections: a thread     *)
(* that touches the file holds file_mutex, and what a call has sent of the *)
(* file is what lies before the shared offset, whichever calls fail.       *)
(***************************************************************************)
THEOREM FileStoreInvariant == Spec => []IInv
BY InitInv, NextInv, PTL DEF Spec

-----------------------------------------------------------------------------
(* The end of a reply.                                                     *)

(***************************************************************************)
(* Once a connection has sent its last, only its own step changes the      *)
(* file, its reply and where it is, for it holds file_mutex.               *)
(***************************************************************************)
LEMMA EndKept ==
  ASSUME IInv, [Next]_vars, NEW c \in Conns, pc[c] = "read_unlock", pc'[c] = "read_unlock"
  PROVE  UNCHANGED file /\ reply'[c] = reply[c] /\ ret'[c] = ret[c] /\ junk'[c] = junk[c]
<1>1. c \in Users /\ file_mutex = c /\ c # Timer
  BY DEF IInv, MutexHeld
<1>2. \A u \in Users : u # c => pc[u] \notin {"write", "seek", "read_send", "read_unlock"}
  BY <1>1 DEF IInv, MutexHeld
<1>3. CASE Main \/ signal_handler \/ (\E d \in Conns : Stall(d) \/ Break(d))
  BY <1>3 DEF Main, init_filestore, StartFails, CreateTimer, Setup, Shutdown,
              Cancel, Join, signal_handler, Stall, Break
<1>4. CASE timer_thread
  BY <1>2, <1>4 DEF timer_thread, filestore_write, Sleep, EndInWrite, WriteLock, Write,
                    WriteUnlock, Goto
<1>5. ASSUME NEW d \in Conns, handle_connection(d)
      PROVE  UNCHANGED file /\ reply'[c] = reply[c] /\ ret'[c] = ret[c] /\ junk'[c] = junk[c]
  <2>1. pc[d] \notin {"write", "read_send"} /\ (d = c => pc[d] = "read_unlock")
    BY <1>2
  <2>2. d # c \/ ~ReadUnlock(d)
    BY <1>1 DEF ReadUnlock, Goto, IInv, TypeOK
  <2>3. ~ReadUnlock(d)
    BY <1>2, <2>2 DEF ReadUnlock, Goto
  <2> QED
    BY <1>5, <2>1, <2>3
    DEF handle_connection, filestore_write, filestore_read_to_dest, ReadLine, WriteLock, Write,
        WriteUnlock, ReadLock, Seek, ReadSend, ReadFails, SendFails, Goto
<1>6. CASE UNCHANGED vars
  BY <1>6 DEF vars
<1> QED
  BY <1>3, <1>4, <1>5, <1>6 DEF Next

(***************************************************************************)
(* A connection comes to the end of its reply at the end of the file, or   *)
(* because a send has failed.                                              *)
(***************************************************************************)
LEMMA EndReached ==
  ASSUME IInv, [Next]_vars, NEW c \in Conns, pc[c] # "read_unlock", pc'[c] = "read_unlock"
  PROVE  \/ ReadSend(c) /\ offset >= Len(file) /\ UNCHANGED <<file, sendVars>>
         \/ SendFails(c)
<1> DEFINE Places == {"none", "read_line", "closed", "sleep", "ended",
                      "write_lock", "write", "write_unlock",
                      "read_lock", "seek", "read_send", "read_unlock"}
<1>1. c \in Users /\ c # Timer /\ pc \in [Users -> Places]
  BY DEF IInv, TypeOK
<1>2. ~(Main \/ signal_handler \/ (\E d \in Conns : Stall(d) \/ Break(d)))
  BY <1>1 DEF Main, init_filestore, StartFails, CreateTimer, Setup, Shutdown,
              Cancel, Join, signal_handler, Stall, Break
<1>3. ~timer_thread
  BY <1>1 DEF timer_thread, filestore_write, Sleep, EndInWrite, WriteLock, Write,
              WriteUnlock, Goto, After
<1>4. ASSUME NEW d \in Conns, handle_connection(d)
      PROVE  \/ ReadSend(c) /\ offset >= Len(file) /\ UNCHANGED <<file, sendVars>>
             \/ SendFails(c)
  <2>1. PICK to \in Places : pc' = [pc EXCEPT ![d] = to]
    BY <1>4 DEF handle_connection, filestore_write, filestore_read_to_dest, ReadLine, WriteLock,
        Write, WriteUnlock, ReadLock, Seek, ReadSend, ReadFails, SendFails, ReadUnlock, Goto, After
  <2>2. d = c /\ to = "read_unlock"
    BY <1>1, <2>1
  <2>3. ReadSend(c) \/ SendFails(c)
    BY <1>1, <1>4, <2>1, <2>2
    DEF handle_connection, filestore_write, filestore_read_to_dest, ReadLine, WriteLock,
        Write, WriteUnlock, ReadLock, Seek, ReadFails, ReadUnlock, Goto, After
  <2>4. ReadSend(c) => offset >= Len(file) /\ UNCHANGED <<file, sendVars>>
    BY <1>1, <2>1, <2>2 DEF ReadSend, Goto
  <2> QED
    BY <2>3, <2>4
<1>5. ~(UNCHANGED vars)
  BY DEF vars
<1> QED
  BY <1>2, <1>3, <1>4, <1>5 DEF Next

(***************************************************************************)
(* Every reply that has not failed is the whole file, and nothing besides  *)
(* unless reads may fail, for any number of connections, although all      *)
(* threads share one file offset.                                          *)
(***************************************************************************)
THEOREM FileStoreWholeFileSent == Spec => []WholeFileSent
<1>1. Init => WholeFileSent
  BY DEF Init, WholeFileSent
<1>2. ASSUME IInv, WholeFileSent, [Next]_vars PROVE WholeFileSent'
  <2> SUFFICES ASSUME NEW c \in Conns, pc'[c] = "read_unlock", ret'[c] = 0
               PROVE  reply'[c] = file' /\ ("read" \notin Faults => ~junk'[c])
    BY DEF WholeFileSent
  <2>1. c \in Users
    OBVIOUS
  <2>2. CASE pc[c] = "read_unlock"
    <3>1. UNCHANGED file /\ reply'[c] = reply[c] /\ ret'[c] = ret[c] /\ junk'[c] = junk[c]
      BY <1>2, <2>2, EndKept
    <3> QED
      BY <1>2, <2>2, <3>1 DEF WholeFileSent
  <2>3. CASE pc[c] # "read_unlock"
    <3>1. CASE SendFails(c)
      BY <1>2, <2>1, <3>1 DEF SendFails, IInv, TypeOK
    <3>2. CASE ReadSend(c) /\ offset >= Len(file) /\ UNCHANGED <<file, sendVars>>
      <4>1. /\ offset <= Len(file) /\ reply[c] = SubSeq(file, 1, offset)
            /\ ("read" \notin Faults => ~junk[c])
        BY <1>2, <2>1, <3>2 DEF ReadSend, Goto, IInv, ReplyIsPrefix
      <4>2. file \in Seq(Entries) /\ Len(file) \in Nat /\ offset \in Nat
        BY <1>2 DEF IInv, TypeOK
      <4>3. reply[c] = file
        BY <3>2, <4>1, <4>2, EndPrefixes
      <4> QED
        BY <3>2, <4>1, <4>3
    <3> QED
      BY <1>2, <2>3, <3>1, <3>2, EndReached
  <2> QED
    BY <2>2, <2>3
<1> QED
  BY <1>1, <1>2, FileStoreInvariant, PTL DEF Spec

(***************************************************************************)
(* No step overwrites what is in the file.                                 *)
(***************************************************************************)
THEOREM FileStoreFileGrows == Spec => FileGrows
<1> DEFINE Grows == Len(file) <= Len(file') /\ SubSeq(file', 1, Len(file)) = file
<1>1. ASSUME IInv, [Next]_vars PROVE [Grows]_vars
  <2>1. file \in Seq(Entries) /\ Len(file) \in Nat /\ num \in [Users -> Nat]
    BY <1>1 DEF IInv, TypeOK
  <2>2. CASE UNCHANGED file
    BY <2>1, <2>2, EndPrefixes
  <2>3. ASSUME NEW u \in Users, Put(u) PROVE Grows
    <3>1. /\ file' \in Seq(Entries) /\ Len(file') = Len(file) + 1
          /\ \A i \in 1 .. Len(file) : file'[i] = file[i]
      BY <2>1, <2>3, PutAppends
    <3>2. /\ SubSeq(file', 1, Len(file)) \in Seq(Entries)
          /\ Len(SubSeq(file', 1, Len(file))) = Len(file)
          /\ \A i \in 1 .. Len(file) : SubSeq(file', 1, Len(file))[i] = file[i]
      BY <2>1, <3>1
    <3>3. SubSeq(file', 1, Len(file)) = file
      BY <2>1, <3>2
    <3> QED
      BY <2>1, <3>1, <3>3
  <2>4. UNCHANGED file \/ (\E u \in Users : Put(u))
    BY <1>1 DEF Next, vars, Main, init_filestore, StartFails, CreateTimer, Setup,
       Shutdown, Cancel, Join, signal_handler, Stall, Break, timer_thread, handle_connection,
       filestore_write, filestore_read_to_dest, Sleep, EndInWrite, ReadLine, WriteLock, Write,
       WriteUnlock, ReadLock, Seek, ReadSend, ReadFails, SendFails, ReadUnlock
  <2> QED
    BY <2>2, <2>3, <2>4
<1> QED
  BY <1>1, FileStoreInvariant, PTL DEF Spec, FileGrows
=============================================================================
