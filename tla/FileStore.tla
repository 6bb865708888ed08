------------------------------ MODULE FileStore ------------------------------
(***************************************************************************)
(* The file build of server/aesdsocket.c (without USE_AESD_CHAR_DEVICE):   *)
(* the connection threads and a timer thread share one descriptor of       *)
(* /var/tmp/aesdsocketdata, with its one file offset, and main removes the *)
(* file and ends the timer at the shutdown.                                *)
(*                                                                         *)
(* What both builds share, the accept loop, the thread list and signals    *)
(* that end the process, is in module AesdSocket; here every connection is *)
(* accepted from the start.  An entry of the file is a line of a           *)
(* connection, a timestamp, or what an earlier run has left.               *)
(***************************************************************************)
EXTENDS Integers, Sequences

CONSTANTS
  Conns,      \* connections
  Timer,      \* the timer thread
  Nobody,     \* owner of file_mutex when it is free
  MaxMsgs,    \* bound: lines a client sends
  MaxTicks,   \* bound: timestamps the timer writes
  Faults      \* what may fail

Users == Conns \cup {Timer}

ASSUME FileStoreAssumption ==
  /\ Timer \notin Conns /\ Nobody \notin Users
  /\ MaxMsgs \in Nat /\ MaxTicks \in Nat
  /\ Faults \subseteq {"start", "init", "timer", "setup", "write", "send", "read", "remove"}

VARIABLES
  mpc,               \* where main is
  should_terminate,
  fd,                \* filestore.fd is a descriptor, not -1
  name,              \* of the file: "absent", "linked", or "kept" when remove has failed
  file, offset,      \* its entries, and how many are before the file offset
  file_mutex,        \* its owner
  pc,                \* per thread: where it is
  num,               \* per thread: entries it has come to write
  failed,            \* per thread: operation_failed (a history for the timer)
  reply, ret,        \* per thread: what the call of filestore_read_to_dest has sent
                     \* of the file, and its ret
  junk,              \* per thread: the call has also sent bytes that are not the file's
  cancelled,         \* pthread_cancel has been called for the timer
  stalled,           \* connections whose clients no longer read
  broken             \* every further read of the loop under way fails

envVars    == <<stalled, broken>>
mainVars   == <<mpc, should_terminate, fd, name, cancelled>>
fileVars   == <<file, offset>>
sendVars   == <<reply, junk, ret>>
threadVars == <<num, failed, sendVars>>
vars == <<envVars, mainVars, fileVars, file_mutex, pc, threadVars>>

Ended == mpc \in {"exited", "crashed"}

Entry(u) == [from |-> u, num |-> num[u]]

Goto(u, from, to) == ~Ended /\ pc[u] = from /\ pc' = [pc EXCEPT ![u] = to]

-----------------------------------------------------------------------------
(* What the threads do between two calls.                                  *)

\* Another line, or the end of the stream; a line read too late is dropped.
ReadLine(c) ==
  /\ \/ /\ num[c] < MaxMsgs
        /\ ~should_terminate /\ ~failed[c]
        /\ Goto(c, "read_line", "write_lock")
        /\ num' = [num EXCEPT ![c] = @ + 1]
     \/ Goto(c, "read_line", "closed") /\ UNCHANGED num
  /\ UNCHANGED <<envVars, mainVars, fileVars, file_mutex, failed, sendVars>>

\* sleep, a cancellation point.
Sleep ==
  /\ \/ /\ ~cancelled /\ num[Timer] < MaxTicks
        /\ Goto(Timer, "sleep", "write_lock")
        /\ num' = [num EXCEPT ![Timer] = @ + 1]
     \/ cancelled /\ Goto(Timer, "sleep", "ended") /\ UNCHANGED num
  /\ UNCHANGED <<envVars, mainVars, fileVars, file_mutex, failed, sendVars>>

-----------------------------------------------------------------------------
(* filestore_write.  The timer ignores its result.                         *)

After(u) == IF u = Timer THEN "sleep" ELSE "read_lock"

\* pthread_mutex_lock is not a cancellation point.
WriteLock(u) ==
  /\ file_mutex = Nobody
  /\ Goto(u, "write_lock", "write")
  /\ file_mutex' = u
  /\ UNCHANGED <<envVars, mainVars, fileVars, threadVars>>

\* write of an entry at a position of the file.
PutAt(u, k) ==
  /\ file' = [i \in 1 .. (IF k < Len(file) THEN Len(file) ELSE k + 1) |->
                IF i = k + 1 THEN Entry(u) ELSE file[i]]
  /\ offset' = k + 1

\* Mutant: no O_APPEND.
Put_AtOffset(u) == PutAt(u, offset)

\* O_APPEND: at the end, wherever the offset is.
Put(u) == PutAt(u, Len(file))

(***************************************************************************)
(* A failure returns with file_mutex locked.  write is a cancellation      *)
(* point: a timer cancelled on the way to it ends there, with file_mutex   *)
(* locked as well.                                                         *)
(***************************************************************************)
CancelPending(u) == u = Timer /\ cancelled

Write(u) ==
  /\ ~CancelPending(u)
  /\ \/ /\ fd
        /\ Goto(u, "write", "write_unlock")
        /\ Put(u)
        /\ UNCHANGED <<envVars, mainVars, file_mutex, threadVars>>
     \/ /\ ~fd \/ "write" \in Faults
        /\ Goto(u, "write", After(u))
        /\ failed' = [failed EXCEPT ![u] = TRUE]
        /\ UNCHANGED <<envVars, mainVars, fileVars, file_mutex, num, sendVars>>

EndInWrite ==
  /\ cancelled
  /\ Goto(Timer, "write", "ended")
  /\ UNCHANGED <<envVars, mainVars, fileVars, file_mutex, threadVars>>

\* Mutant: no unlock.
WriteUnlock_Missing(u) ==
  /\ Goto(u, "write_unlock", After(u))
  /\ UNCHANGED <<envVars, mainVars, fileVars, file_mutex, threadVars>>

WriteUnlock(u) ==
  /\ Goto(u, "write_unlock", After(u))
  /\ file_mutex' = Nobody
  /\ UNCHANGED <<envVars, mainVars, fileVars, threadVars>>

-----------------------------------------------------------------------------
(* filestore_read_to_dest.                                                 *)

\* Mutant: the file is read without the mutex.
ReadLock_Missing(c) ==
  /\ Goto(c, "read_lock", "seek")
  /\ UNCHANGED <<envVars, mainVars, fileVars, file_mutex, threadVars>>

ReadLock(c) ==
  /\ file_mutex = Nobody
  /\ Goto(c, "read_lock", "seek")
  /\ file_mutex' = c
  /\ UNCHANGED <<envVars, mainVars, fileVars, threadVars>>

\* Mutant: the file is read from wherever the offset is.
Seek_Missing(c) ==
  /\ Goto(c, "seek", "read_send")
  /\ UNCHANGED <<envVars, mainVars, fileVars, file_mutex, threadVars>>

\* lseek(filestore.fd, 0, SEEK_SET)
Seek(c) ==
  /\ Goto(c, "seek", "read_send")
  /\ offset' = 0
  /\ UNCHANGED <<envVars, mainVars, file, file_mutex, threadVars>>

(***************************************************************************)
(* The loop of reads and sends.  send blocks while the client does not     *)
(* read.                                                                   *)
(***************************************************************************)
ReadSend(c) ==
  /\ ~broken
  /\ \/ /\ offset < Len(file) /\ c \notin stalled
        /\ Goto(c, "read_send", "read_send")
        /\ reply' = [reply EXCEPT ![c] = Append(@, file[offset + 1])]
        /\ offset' = offset + 1
     \/ /\ offset >= Len(file)
        /\ Goto(c, "read_send", "read_unlock")
        /\ UNCHANGED <<offset, reply>>
  /\ UNCHANGED <<envVars, mainVars, file, file_mutex, num, failed, junk, ret>>

\* A failed read is -1 in the unsigned bytes_read, which is > 0: memory from
\* file_buffer on is sent instead, and the loop goes on with ret as it was.
ReadFails(c) ==
  /\ "read" \in Faults /\ c \notin stalled
  /\ Goto(c, "read_send", "read_send")
  /\ junk' = [junk EXCEPT ![c] = TRUE]
  /\ UNCHANGED <<envVars, mainVars, fileVars, file_mutex, num, failed, reply, ret>>

\* Where a read at position k may leave the offset.
ReadFrom(k) ==
  (IF broken THEN {} ELSE {IF k < Len(file) THEN k + 1 ELSE k})
    \cup (IF "read" \in Faults THEN {k} ELSE {})

(***************************************************************************)
(* A send fails, of what was read or of what a failed read has left.  The  *)
(* loop reads once more before it looks at ret.                            *)
(***************************************************************************)
SendFails(c) ==
  /\ Goto(c, "read_send", "read_unlock")
  /\ ret' = [ret EXCEPT ![c] = -1]
  /\ \/ /\ "send" \in Faults /\ ~broken /\ offset < Len(file)
        /\ offset' \in ReadFrom(offset + 1)
     \/ /\ "read" \in Faults
        /\ offset' \in ReadFrom(offset)
  /\ broken' = FALSE
  /\ UNCHANGED <<stalled, mainVars, file, file_mutex, num, failed, reply, junk>>

\* The call returns ret, and its locals are gone.
ReadUnlock(c) ==
  /\ Goto(c, "read_unlock", "read_line")
  /\ file_mutex' = Nobody
  /\ failed' = [failed EXCEPT ![c] = @ \/ ret[c] = -1]
  /\ reply' = [reply EXCEPT ![c] = <<>>]
  /\ junk' = [junk EXCEPT ![c] = FALSE]
  /\ ret' = [ret EXCEPT ![c] = 0]
  /\ UNCHANGED <<envVars, mainVars, fileVars, num>>

-----------------------------------------------------------------------------
(* Main.                                                                   *)

GotoMain(from, to) == mpc = from /\ mpc' = to

(***************************************************************************)
(* init_filestore: the file is opened without O_TRUNC.  A failure is       *)
(* logged, and main goes on with the descriptor -1.                        *)
(***************************************************************************)
init_filestore ==
  /\ GotoMain("init", "start")
  /\ \/ fd' = TRUE /\ name' = "linked"
     \/ "init" \in Faults /\ UNCHANGED <<fd, name>>
  /\ UNCHANGED <<should_terminate, cancelled, envVars, fileVars, file_mutex, pc, threadVars>>

\* remove; a failure is only logged.
filestore_close ==
  \/ name' = IF name = "linked" THEN "absent" ELSE name
  \/ "remove" \in Faults /\ name' = IF name = "linked" THEN "kept" ELSE name

\* Wrong arguments, a failure to become a daemon, after which the file
\* stays, or a failure to register a signal handler.
StartFails ==
  /\ GotoMain("start", "exited")
  /\ "start" \in Faults
  /\ UNCHANGED name \/ filestore_close
  /\ UNCHANGED <<should_terminate, fd, cancelled, envVars, fileVars, file_mutex, pc, threadVars>>

(***************************************************************************)
(* pthread_create for the timer.  It never returns the -1 that main looks  *)
(* for: a failure is not noticed, and timer_thread_id is not initialised.  *)
(***************************************************************************)
CreateTimer ==
  /\ GotoMain("start", "setup")
  /\ \/ pc' = [pc EXCEPT ![Timer] = "sleep"]
     \/ "timer" \in Faults /\ UNCHANGED pc
  /\ UNCHANGED <<should_terminate, fd, name, cancelled, envVars, fileVars, file_mutex, threadVars>>

\* socket, bind and listen, which fail when the handler has closed the socket.
Setup ==
  /\ \/ GotoMain("setup", "accept") /\ UNCHANGED name
     \/ /\ GotoMain("setup", "exited")
        /\ "setup" \in Faults \/ should_terminate
        /\ filestore_close
  /\ UNCHANGED <<should_terminate, fd, cancelled, envVars, fileVars, file_mutex, pc, threadVars>>

\* The end of the accept loop and the cleanup of the thread list: the file
\* is removed while connections still use it.
Shutdown ==
  /\ GotoMain("accept", "cancel")
  /\ should_terminate
  /\ filestore_close
  /\ UNCHANGED <<should_terminate, fd, cancelled, envVars, fileVars, file_mutex, pc, threadVars>>


\* pthread_cancel; with an uninitialised timer_thread_id anything may happen.
Cancel ==
  /\ mpc = "cancel"
  /\ mpc' \in IF pc[Timer] = "none" THEN {"join", "crashed"} ELSE {"join"}
  /\ cancelled' = TRUE
  /\ UNCHANGED <<should_terminate, fd, name, envVars, fileVars, file_mutex, pc, threadVars>>

\* pthread_join, and the return from main, which ends the other threads.
Join ==
  /\ mpc = "join" /\ pc[Timer] \in {"ended", "none"}
  /\ mpc' \in IF pc[Timer] = "none" THEN {"exited", "crashed"} ELSE {"exited"}
  /\ UNCHANGED <<should_terminate, fd, name, cancelled, envVars, fileVars, file_mutex, pc, threadVars>>

signal_handler ==
  /\ ~Ended /\ mpc # "init" /\ mpc # "start" /\ ~should_terminate
  /\ should_terminate' = TRUE
  /\ UNCHANGED <<mpc, fd, name, cancelled, envVars, fileVars, file_mutex, pc, threadVars>>

-----------------------------------------------------------------------------
(* Not part of the program: a client no longer reads what it is sent, or   *)
(* the file can no longer be read.  Either matters to the loop only.       *)

Stall(c) ==
  /\ ~Ended /\ pc[c] = "read_send"
  /\ stalled' = stalled \cup {c}
  /\ UNCHANGED <<broken, mainVars, fileVars, file_mutex, pc, threadVars>>

Break(c) ==
  /\ ~Ended /\ pc[c] = "read_send" /\ "read" \in Faults
  /\ broken' = TRUE
  /\ UNCHANGED <<stalled, mainVars, fileVars, file_mutex, pc, threadVars>>

-----------------------------------------------------------------------------
Init ==
  /\ mpc = "init" /\ should_terminate = FALSE
  /\ fd = FALSE /\ cancelled = FALSE /\ stalled = {} /\ broken = FALSE
  /\ file \in {<<>>, <<[from |-> Nobody, num |-> 0]>>} /\ offset = 0
  /\ name = IF file = <<>> THEN "absent" ELSE "linked"
  /\ file_mutex = Nobody
  /\ pc = [u \in Users |-> IF u = Timer THEN "none" ELSE "read_line"]
  /\ num = [u \in Users |-> 0]
  /\ failed = [u \in Users |-> FALSE]
  /\ reply = [u \in Users |-> <<>>]
  /\ junk = [u \in Users |-> FALSE]
  /\ ret = [u \in Users |-> 0]

filestore_write(u) == WriteLock(u) \/ Write(u) \/ WriteUnlock(u)

filestore_read_to_dest(c) == ReadLock(c) \/ Seek(c) \/ ReadSend(c) \/ ReadUnlock(c)

\* Connections are accepted once the server is set up.
handle_connection(c) ==
  /\ mpc \notin {"init", "start", "setup"}
  /\ \/ ReadLine(c) \/ filestore_write(c) \/ filestore_read_to_dest(c)
     \/ ReadFails(c) \/ SendFails(c)

timer_thread == Sleep \/ filestore_write(Timer) \/ EndInWrite

Main ==
  \/ init_filestore \/ StartFails \/ CreateTimer \/ Setup
  \/ Shutdown \/ Cancel \/ Join

Next ==
  \/ Main
  \/ timer_thread
  \/ \E c \in Conns : handle_connection(c) \/ Stall(c) \/ Break(c)
  \/ signal_handler

Spec == Init /\ [][Next]_vars

(***************************************************************************)
(* Every thread that can run does run.  Nothing is assumed of signals and  *)
(* of clients, who need not send, close or read; no call need ever fail,   *)
(* so that a send to a client that does not read may block for good, and   *)
(* reads may fail for good.  Of the mutex it is only assumed that a thread *)
(* gets it that finds it free for good: what the others write is finite.   *)
(***************************************************************************)
FairSpec ==
  /\ Spec /\ WF_vars(Main) /\ WF_vars(timer_thread)
  /\ \A c \in Conns : WF_vars(filestore_write(c) \/ filestore_read_to_dest(c))

-----------------------------------------------------------------------------
(* Properties.                                                             *)

Entries == [from : Users \cup {Nobody}, num : Nat]

(***************************************************************************)
(* Type invariant.                                                         *)
(***************************************************************************)
TypeOK ==
  /\ mpc \in {"init", "start", "setup", "accept", "cancel", "join", "exited", "crashed"}
  /\ should_terminate \in BOOLEAN /\ fd \in BOOLEAN
  /\ name \in {"absent", "linked", "kept"} /\ cancelled \in BOOLEAN
  /\ stalled \subseteq Conns /\ broken \in BOOLEAN
  /\ file \in Seq(Entries) /\ offset \in Nat
  /\ file_mutex \in Users \cup {Nobody}
  /\ pc \in [Users -> {"none", "read_line", "closed", "sleep", "ended",
                       "write_lock", "write", "write_unlock",
                       "read_lock", "seek", "read_send", "read_unlock"}]
  /\ num \in [Users -> Nat]
  /\ failed \in [Users -> BOOLEAN]
  /\ reply \in [Users -> Seq(Entries)] /\ junk \in [Users -> BOOLEAN]
  /\ ret \in [Users -> {0, -1}]

(***************************************************************************)
(* A thread that touches the file holds file_mutex.                        *)
(***************************************************************************)
MutexHeld ==
  \A u \in Users :
    pc[u] \in {"write", "write_unlock", "seek", "read_send", "read_unlock"} => file_mutex = u

(***************************************************************************)
(* During the call, what it has sent of the file is the part before the    *)
(* offset; only connections read, and outside the call nothing is sent.    *)
(***************************************************************************)
ReplyIsPrefix ==
  \A u \in Users :
    /\ pc[u] \in {"read_lock", "seek", "read_send", "read_unlock"} => u # Timer
    /\ pc[u] = "read_send" =>
         ret[u] = 0 /\ offset <= Len(file) /\ reply[u] = SubSeq(file, 1, offset)
    /\ pc[u] \notin {"read_send", "read_unlock"} =>
         ret[u] = 0 /\ reply[u] = <<>> /\ ~junk[u]
    /\ junk[u] => "read" \in Faults

(***************************************************************************)
(* What makes WholeFileSent inductive: whoever moves the offset or the end *)
(* of the file holds file_mutex, and so a reader finds the offset where    *)
(* its own last step has left it.                                          *)
(***************************************************************************)
IInv == TypeOK /\ MutexHeld /\ ReplyIsPrefix

(***************************************************************************)
(* A call of filestore_read_to_dest that returns 0 has sent the whole file *)
(* as it is at that moment, each entry once and in order, though every     *)
(* thread moves the one file offset that it reads from; and it has sent    *)
(* nothing else, unless reads fail.  (After a failed read it has sent junk *)
(* in between, and returns 0 all the same.)                                *)
(***************************************************************************)
WholeFileSent ==
  \A c \in Conns :
    pc[c] = "read_unlock" /\ ret[c] = 0 =>
      reply[c] = file /\ ("read" \notin Faults => ~junk[c])

(***************************************************************************)
(* Nothing in the file is ever overwritten, not even when a failed send    *)
(* has left the shared offset in the middle of it.                         *)
(***************************************************************************)
FileGrows ==
  [][Len(file) <= Len(file') /\ SubSeq(file', 1, Len(file)) = file]_vars

(***************************************************************************)
(* Who may hold file_mutex and not give it back: a thread whose write has  *)
(* failed, a connection that sends to a client that does not read, and one *)
(* whose every read fails, so that it sends junk again and again.          *)
(***************************************************************************)
Abandoned ==
  /\ file_mutex # Nobody
  /\ failed[file_mutex]
  /\ pc[file_mutex] \in {"read_lock", "sleep", "write_lock"}

HeldInLoop ==
  /\ file_mutex # Nobody
  /\ pc[file_mutex] = "read_send"
  /\ file_mutex \in stalled \/ broken

Held == Abandoned \/ HeldInLoop

(***************************************************************************)
(* After a signal the process ends, with the file removed unless remove    *)
(* has failed, wherever the cancellation meets the timer, even if the      *)
(* timer then takes file_mutex with it.  Only a timer that waits for ever  *)
(* for a file_mutex that is held for ever, where it cannot be cancelled,   *)
(* keeps main in pthread_join.                                             *)
(***************************************************************************)
Terminates ==
  should_terminate ~>
    \/ Ended /\ name # "linked"
    \/ [](pc[Timer] = "write_lock" /\ Held)

(***************************************************************************)
(* A line that is read is answered: filestore_read_to_dest has sent the    *)
(* file and is to return 0; or a send to its client has failed, and the    *)
(* connection will take no further line.  Else the process ends, or        *)
(* file_mutex is held for ever.                                            *)
(***************************************************************************)
Answered(c) == pc[c] = "read_unlock" /\ ret[c] = 0
GivenUp(c)  == pc[c] = "read_line" /\ failed[c]

LinesAnswered ==
  \A c \in Conns :
    pc[c] = "write_lock" ~> Answered(c) \/ GivenUp(c) \/ Ended \/ []Held
=============================================================================
