------------------------------ MODULE AesdSocket ------------------------------
(***************************************************************************)
(* The socket server server/aesdsocket.c, in the build it ships with       *)
(* (USE_AESD_CHAR_DEVICE): the main thread accepts connections and reaps   *)
(* finished threads, one thread per connection reads lines, writes each to *)
(* /dev/aesdchar and sends the whole device content back, and SIGINT or    *)
(* SIGTERM shuts everything down.                                          *)
(*                                                                         *)
(* A connection stands for its client, its thread and its list item.  A    *)
(* write of the device is one step, as module AesdChar shows the driver's  *)
(* write to be (module CommandLog); a line is a sequence of tokens that    *)
(* ends with the newline NL unless the client closed in mid-line.          *)
(***************************************************************************)
EXTENDS Commands, FiniteSets

CONSTANTS
  Clients,           \* connections
  Nobody,            \* owner of file_mutex when it is free
  NULL, HEAD,        \* of the thread list: null pointer, address of its head
  MaxMsgs,           \* bound: lines a client sends
  Faults,            \* system calls that may fail
  ClientsMayVanish   \* whether a client may close before it has its answers

ASSUME SocketAssumption ==
  /\ IsFiniteSet(Clients)
  /\ N \in Nat \ {0}
  /\ MaxMsgs \in Nat /\ NL \notin [from : Clients, num : 1 .. MaxMsgs]
  /\ {Nobody, NULL, HEAD} \cap Clients = {} /\ NULL # HEAD
  /\ Faults \subseteq {"setup", "malloc", "thread", "write", "open", "read", "accept"}
  /\ ClientsMayVanish \in BOOLEAN

VARIABLES
  mpc,              \* where main is
  sock,             \* what server_sock refers to
  should_terminate,
  pending,          \* connections waiting for accept, in order
  list,             \* the thread list
  data,             \* the item that the walk over the list has come to
  item,             \* per connection: state of its list item's memory
  file_mutex,       \* its owner
  lines, partial,   \* content of the device
  pc,               \* per connection: where its thread is
  line,             \* per connection: conn_buffer
  failed,           \* per connection: operation_failed
  reply, ret,       \* per connection: what the call of filestore_read_to_dest has sent
                    \* of the device, and its ret
  junk,             \* per connection: the call has also sent bytes that are not the device's
  age,              \* per connection: commands completed since its own (history)
  peer,             \* per connection: the client's end of the socket
  inbox             \* per connection: what the client has sent, unread

mainVars   == <<mpc, sock, should_terminate, pending, list, data, item>>
storeVars  == <<file_mutex, lines, partial, age>>
sendVars   == <<reply, junk, ret>>
threadVars == <<pc, line, failed, sendVars>>
clientVars == <<peer, inbox>>
vars == <<mainVars, storeVars, threadVars, clientVars>>

-----------------------------------------------------------------------------
(* What clients send, and the thread list.                                 *)

Tokens == [from : Clients, num : 1 .. MaxMsgs] \cup {NL}

Line(c, k)     == <<[from |-> c, num |-> k], NL>>
Fragment(c, k) == <<[from |-> c, num |-> k]>>
AllLines == {Line(c, k) : c \in Clients, k \in 1 .. MaxMsgs}
              \cup {Fragment(c, k) : c \in Clients, k \in 1 .. MaxMsgs}

INSTANCE ThreadList WITH Items <- Clients

-----------------------------------------------------------------------------
(* Threads.                                                                *)

\* The process exists: exit, SIGPIPE or a wild pointer end all its threads.
Running == mpc \notin {"exited", "crashed", "killed"}

Goto(c, from, to) == Running /\ pc[c] = from /\ pc' = [pc EXCEPT ![c] = to]

thread_complete(c) == pc[c] \in {"returning", "ended"}

TakeLine(c) ==
  /\ inbox[c] # <<>>
  /\ HasNewline(Head(inbox[c])) \/ peer[c] # "open"
  /\ Goto(c, "read_line",
          IF should_terminate \/ failed[c] THEN "closing" ELSE "write_lock")
  /\ line' = [line EXCEPT ![c] = Head(inbox[c])]
  /\ inbox' = [inbox EXCEPT ![c] = Tail(@)]
  /\ UNCHANGED <<mainVars, storeVars, failed, sendVars, peer>>


(***************************************************************************)
(* The loop condition of handle_connection.  read_line blocks until a      *)
(* whole line or the end of the stream is there; only then are             *)
(* should_terminate and operation_failed looked at, so that a line read    *)
(* too late is dropped.  A vanished client may make the read fail.         *)
(***************************************************************************)
ReadLine(c) ==
  \/ TakeLine(c)
  \/ /\ peer[c] = "gone" \/ (peer[c] = "eof" /\ inbox[c] = <<>>)
     /\ Goto(c, "read_line", "closing")
     /\ UNCHANGED <<mainVars, storeVars, line, failed, sendVars, clientVars>>

-----------------------------------------------------------------------------
(* filestore_write.                                                        *)

WriteLock(c) ==
  /\ file_mutex = Nobody
  /\ Goto(c, "write_lock", "write")
  /\ file_mutex' = c
  /\ UNCHANGED <<mainVars, lines, partial, age, line, failed, sendVars, clientVars>>

(***************************************************************************)
(* A successful write on the device, by connection c: the line goes behind *)
(* the partial command and, when it has its newline, completes it.         *)
(***************************************************************************)
aesd_write(c) ==
  IF HasNewline(line[c])
  THEN /\ lines' = Push(lines, partial \o Kept(line[c]))
       /\ partial' = <<>>
       /\ age' = [d \in Clients |-> IF d = c THEN 0
                                    ELSE IF age[d] = N THEN N ELSE age[d] + 1]
  ELSE /\ partial' = partial \o Kept(line[c])
       /\ UNCHANGED <<lines, age>>

(***************************************************************************)
(* open and write.  A failure of either is noticed at write, and returns   *)
(* with file_mutex locked; handle_connection goes on to send the device.   *)
(***************************************************************************)
Write(c) ==
  \/ /\ Goto(c, "write", "write_unlock")
     /\ aesd_write(c)
     /\ UNCHANGED <<mainVars, file_mutex, line, failed, sendVars, clientVars>>
  \/ /\ "write" \in Faults
     /\ Goto(c, "write", "read_lock")
     /\ failed' = [failed EXCEPT ![c] = TRUE]
     /\ UNCHANGED <<mainVars, storeVars, line, sendVars, clientVars>>

\* Mutant: no unlock.
WriteUnlock_Missing(c) ==
  /\ Goto(c, "write_unlock", "read_lock")
  /\ UNCHANGED <<mainVars, storeVars, line, failed, sendVars, clientVars>>

WriteUnlock(c) ==
  /\ Goto(c, "write_unlock", "read_lock")
  /\ file_mutex' = Nobody
  /\ UNCHANGED <<mainVars, lines, partial, age, line, failed, sendVars, clientVars>>

-----------------------------------------------------------------------------
(* filestore_read_to_dest.                                                 *)

\* Mutant: the device is read without the mutex.
ReadLock_Missing(c) ==
  /\ Goto(c, "read_lock", "read_open")
  /\ UNCHANGED <<mainVars, storeVars, line, failed, sendVars, clientVars>>

ReadLock(c) ==
  /\ file_mutex = Nobody
  /\ Goto(c, "read_lock", "read_open")
  /\ file_mutex' = c
  /\ UNCHANGED <<mainVars, lines, partial, age, line, failed, sendVars, clientVars>>

\* Mutant: the descriptor is assigned to ret.
ReadOpen_IntoRet(c) ==
  /\ Goto(c, "read_open", "read_send")
  /\ ret' = [ret EXCEPT ![c] = 4]
  /\ UNCHANGED <<mainVars, storeVars, line, failed, reply, junk, clientVars>>

ReadOpen(c) ==
  /\ \/ /\ Goto(c, "read_open", "read_send")
        /\ UNCHANGED ret
     \/ /\ "open" \in Faults
        /\ Goto(c, "read_open", "read_unlock")
        /\ ret' = [ret EXCEPT ![c] = -1]
  /\ UNCHANGED <<mainVars, storeVars, line, failed, reply, junk, clientVars>>

(***************************************************************************)
(* The loop of reads, each of which returns at most one command, and of    *)
(* sends.  A failed read is -1 in the unsigned bytes_read, which is > 0:   *)
(* the loop sends memory from file_buffer on and goes on with ret as it    *)
(* was, or that send fails, which sets ret and ends the loop.  A send to a *)
(* client that is gone fails too, or raises SIGPIPE and ends the process.  *)
(***************************************************************************)
More(c, held) == Len(reply[c]) < held
ReadMayFail   == "read" \in Faults

ReadSendUpTo(c, held) ==
  /\ Running /\ pc[c] = "read_send"
  /\ \/ /\ More(c, held)
        /\ reply' = [reply EXCEPT ![c] = Append(@, lines[Len(@) + 1])]
        /\ UNCHANGED <<mpc, pc, junk, ret>>
     \/ /\ ReadMayFail
        /\ junk' = [junk EXCEPT ![c] = TRUE]
        /\ UNCHANGED <<mpc, pc, reply, ret>>
     \/ /\ ReadMayFail \/ (More(c, held) /\ peer[c] = "gone")
        /\ pc' = [pc EXCEPT ![c] = "read_unlock"]
        /\ ret' = [ret EXCEPT ![c] = -1]
        /\ UNCHANGED <<mpc, reply, junk>>
     \/ /\ (ReadMayFail \/ More(c, held)) /\ peer[c] = "gone"
        /\ mpc' = "killed"
        /\ UNCHANGED <<pc, sendVars>>
     \/ /\ ~More(c, held)
        /\ pc' = [pc EXCEPT ![c] = "read_unlock"]
        /\ UNCHANGED <<mpc, sendVars>>
  /\ UNCHANGED <<sock, should_terminate, pending, list, data, item, storeVars,
                 line, failed, clientVars>>

\* Mutant: the loop ends one command early.
ReadSend_StopsEarly(c) == ReadSendUpTo(c, Len(lines) - 1)

ReadSend(c) == ReadSendUpTo(c, Len(lines))

\* The call returns ret, and its locals are gone.
ReadUnlock(c) ==
  /\ Goto(c, "read_unlock", "read_line")
  /\ file_mutex' = Nobody
  /\ failed' = [failed EXCEPT ![c] = @ \/ ret[c] = -1]
  /\ reply' = [reply EXCEPT ![c] = <<>>]
  /\ junk' = [junk EXCEPT ![c] = FALSE]
  /\ ret' = [ret EXCEPT ![c] = 0]
  /\ UNCHANGED <<mainVars, lines, partial, age, line, clientVars>>

-----------------------------------------------------------------------------
(* The end of handle_connection: the connection is closed, the item marked *)
(* complete, and the thread still reads the item before it returns.        *)

Closing(c) ==
  /\ \/ Goto(c, "closing", "completing")
     \/ Goto(c, "completing", "returning")
     \/ Goto(c, "returning", "ended")
  /\ UNCHANGED <<mainVars, storeVars, line, failed, sendVars, clientVars>>

-----------------------------------------------------------------------------
(* Main.                                                                   *)

GotoMain(from, to) == mpc = from /\ mpc' = to

\* socket, bind and listen; each may fail, bind and listen surely when the
\* signal handler has closed the socket meanwhile.
Setup ==
  /\ \/ /\ GotoMain("socket", "listen")
        /\ sock' = "open"
     \/ /\ GotoMain("listen", "loop")
        /\ sock = "open"
        /\ sock' = "listening"
     \/ /\ GotoMain("socket", "exited")
        /\ "setup" \in Faults
        /\ UNCHANGED sock
     \/ /\ GotoMain("listen", "exited")
        /\ "setup" \in Faults \/ sock = "closed"
        /\ sock' = "closed"
  /\ UNCHANGED <<should_terminate, pending, list, data, item, storeVars, threadVars, clientVars>>

\* while (!should_terminate)
LoopTest ==
  /\ GotoMain("loop", IF should_terminate THEN "cleanup" ELSE "accept")
  /\ data' = IF should_terminate THEN LIST_FIRST(list) ELSE data
  /\ UNCHANGED <<sock, should_terminate, pending, list, item, storeVars, threadVars, clientVars>>

(***************************************************************************)
(* A list item and the thread data it points to are allocated and freed    *)
(* together.                                                               *)
(***************************************************************************)
init_conn_list_item(c) == item' = [item EXCEPT ![c] = "live"]
free_conn_list_item(c) == item' = [item EXCEPT ![c] = "freed"]

(***************************************************************************)
(* accept returns a connection; its item is allocated and inserted at the  *)
(* head, and its thread created.  Failures are logged and nothing else.    *)
(***************************************************************************)
Accept ==
  /\ GotoMain("accept", "reap")
  /\ sock = "listening" /\ pending # <<>>
  /\ pending' = Tail(pending)
  /\ LET c == Head(pending)
     IN  \/ /\ init_conn_list_item(c)
            /\ list' = LIST_INSERT_HEAD(list, c)
            /\ \/ pc' = [pc EXCEPT ![c] = "read_line"]
               \/ "thread" \in Faults /\ UNCHANGED pc
         \/ /\ "malloc" \in Faults
            /\ UNCHANGED <<list, item, pc>>
  /\ data' = LIST_FIRST(list')
  /\ UNCHANGED <<sock, should_terminate, storeVars, line, failed, sendVars, clientVars>>

\* accept fails: on the closed socket ("Bad file descriptor"), for want of
\* a descriptor, or because the connection it was to return is gone.
AcceptFails ==
  /\ GotoMain("accept", "reap")
  /\ \/ /\ sock = "closed" \/ "accept" \in Faults
        /\ UNCHANGED pending
     \/ /\ "accept" \in Faults
        /\ pending # <<>> /\ peer[Head(pending)] = "gone"
        /\ pending' = Tail(pending)
  /\ data' = LIST_FIRST(list)
  /\ UNCHANGED <<sock, should_terminate, list, item, storeVars, threadVars, clientVars>>

\* Mutants: free without join, free without LIST_REMOVE.
JoinAndFree_NoJoin(c) ==
  /\ thread_complete(c)
  /\ list' = LIST_REMOVE(list, c)
  /\ free_conn_list_item(c)

JoinAndFree_NoRemove(c) ==
  /\ thread_complete(c) /\ pc[c] = "ended"
  /\ free_conn_list_item(c)
  /\ UNCHANGED list

\* pthread_join, which waits for the thread, LIST_REMOVE and free.
JoinAndFree(c) ==
  /\ thread_complete(c) /\ pc[c] = "ended"
  /\ list' = LIST_REMOVE(list, c)
  /\ free_conn_list_item(c)

\* One turn of LIST_FOREACH_SAFE in the accept loop: the next item is read
\* before this one can be freed.
Reap ==
  /\ mpc = "reap"
  /\ \/ /\ data = NULL
        /\ mpc' = "loop"
        /\ UNCHANGED <<list, data, item>>
     \/ /\ data # NULL
        /\ \/ JoinAndFree(data)
           \/ ~thread_complete(data) /\ UNCHANGED <<list, item>>
        /\ data' = LIST_NEXT(list, data)
        /\ UNCHANGED mpc
  /\ UNCHANGED <<sock, should_terminate, pending, storeVars, threadVars, clientVars>>

(***************************************************************************)
(* One turn of LIST_FOREACH in the cleanup.  The step to the next item     *)
(* reads the link of this one, freed or not: in a freed item it finds the  *)
(* old value if the allocator left it, else a wild pointer.                *)
(***************************************************************************)
Cleanup ==
  /\ mpc = "cleanup"
  /\ \/ /\ data = NULL
        /\ mpc' = "close"
        /\ UNCHANGED <<list, data, item>>
     \/ /\ data # NULL
        /\ \/ JoinAndFree(data) /\ mpc' \in {"cleanup", "crashed"}
           \/ ~thread_complete(data) /\ UNCHANGED <<mpc, list, item>>
        /\ data' = LIST_NEXT(list', data)
  /\ UNCHANGED <<sock, should_terminate, pending, storeVars, threadVars, clientVars>>

\* The last close and the return from main, which ends every thread.
Exit ==
  /\ GotoMain("close", "exited")
  /\ sock' = "closed"
  /\ UNCHANGED <<should_terminate, pending, list, data, item, storeVars, threadVars, clientVars>>

\* Mutant: the socket stays open.
signal_handler_NoClose ==
  /\ Running /\ ~should_terminate
  /\ should_terminate' = TRUE
  /\ UNCHANGED <<mpc, sock, pending, list, data, item, storeVars, threadVars, clientVars>>

(***************************************************************************)
(* SIGINT or SIGTERM, taken by the main thread between any two of its      *)
(* steps or in the middle of accept.  Closing the socket resets the        *)
(* connections that wait in its queue.                                     *)
(***************************************************************************)
signal_handler ==
  /\ Running /\ ~should_terminate
  /\ should_terminate' = TRUE
  /\ sock' = IF sock = "none" THEN "none" ELSE "closed"
  /\ pending' = <<>>
  /\ UNCHANGED <<mpc, list, data, item, storeVars, threadVars, clientVars>>

-----------------------------------------------------------------------------
(* Clients (not part of the program).                                      *)

Connect(c) ==
  /\ Running /\ sock = "listening" /\ peer[c] = "none"
  /\ peer' = [peer EXCEPT ![c] = "open"]
  /\ pending' = Append(pending, c)
  /\ UNCHANGED <<mpc, sock, should_terminate, list, data, item, storeVars, threadVars, inbox>>

NextNum(c) ==
  IF inbox[c] # <<>> THEN inbox[c][Len(inbox[c])][1].num + 1
  ELSE IF line[c] # <<>> THEN line[c][1].num + 1 ELSE 1

\* The next line, or the beginning of one when it is the last thing sent.
ClientSend(c) ==
  /\ Running /\ peer[c] = "open" /\ NextNum(c) <= MaxMsgs
  /\ \/ /\ inbox' = [inbox EXCEPT ![c] = Append(@, Line(c, NextNum(c)))]
        /\ UNCHANGED peer
     \/ /\ inbox' = [inbox EXCEPT ![c] = Append(@, Fragment(c, NextNum(c)))]
        /\ peer' = [peer EXCEPT ![c] = "eof"]
  /\ UNCHANGED <<mainVars, storeVars, threadVars>>

\* The client shuts down its sending side.
Shutdown(c) ==
  /\ Running /\ peer[c] = "open"
  /\ peer' = [peer EXCEPT ![c] = "eof"]
  /\ UNCHANGED <<mainVars, storeVars, threadVars, inbox>>

Vanish(c) ==
  /\ ClientsMayVanish
  /\ Running /\ peer[c] \in {"open", "eof"}
  /\ peer' = [peer EXCEPT ![c] = "gone"]
  /\ UNCHANGED <<mainVars, storeVars, threadVars, inbox>>

-----------------------------------------------------------------------------
Init ==
  /\ mpc = "socket" /\ sock = "none" /\ should_terminate = FALSE
  /\ pending = <<>> /\ list = LIST_INIT /\ data = NULL
  /\ item = [c \in Clients |-> "none"]
  /\ file_mutex = Nobody /\ lines = <<>> /\ partial = <<>>
  /\ age = [c \in Clients |-> N]
  /\ pc = [c \in Clients |-> "none"]
  /\ line = [c \in Clients |-> <<>>]
  /\ failed = [c \in Clients |-> FALSE]
  /\ reply = [c \in Clients |-> <<>>]
  /\ junk = [c \in Clients |-> FALSE]
  /\ ret = [c \in Clients |-> 0]
  /\ peer = [c \in Clients |-> "none"]
  /\ inbox = [c \in Clients |-> <<>>]

Thread(c) ==
  \/ ReadLine(c)
  \/ WriteLock(c) \/ Write(c) \/ WriteUnlock(c)
  \/ ReadLock(c) \/ ReadOpen(c) \/ ReadSend(c) \/ ReadUnlock(c)
  \/ Closing(c)

Main == Setup \/ LoopTest \/ Accept \/ AcceptFails \/ Reap \/ Cleanup \/ Exit

Client(c) ==
  Connect(c) \/ ClientSend(c) \/ Shutdown(c) \/ Vanish(c)

Next ==
  \/ Main
  \/ signal_handler
  \/ \E c \in Clients : Thread(c) \/ Client(c)

Spec == Init /\ [][Next]_vars

(***************************************************************************)
(* Every thread that can run does run.  Nothing is assumed of clients or   *)
(* signals, nor that an accept that waits will fail: only a closed socket  *)
(* or a connection ends the wait.  Of the mutex it is only assumed that a  *)
(* thread gets it that finds it free for good: what the others send is     *)
(* finite.                                                                 *)
(***************************************************************************)
MainRuns ==
  \/ Setup \/ LoopTest \/ Accept \/ Reap \/ Cleanup \/ Exit
  \/ sock = "closed" /\ AcceptFails

FairSpec == Spec /\ WF_vars(MainRuns) /\ \A c \in Clients : WF_vars(Thread(c))

-----------------------------------------------------------------------------
(* Properties.                                                             *)

(***************************************************************************)
(* Type invariant.                                                         *)
(***************************************************************************)
TypeOK ==
  /\ mpc \in {"socket", "listen", "loop", "accept", "reap", "cleanup", "close",
              "exited", "crashed", "killed"}
  /\ sock \in {"none", "open", "listening", "closed"}
  /\ should_terminate \in BOOLEAN
  /\ pending \in Seq(Clients)
  /\ list \in [lh_first : Clients \cup {NULL},
               le_next  : [Clients -> Clients \cup {NULL}],
               le_prev  : [Clients -> Clients \cup {HEAD, NULL}]]
  /\ data \in Clients \cup {NULL}
  /\ item \in [Clients -> {"none", "live", "freed"}]
  /\ file_mutex \in Clients \cup {Nobody}
  /\ partial \in Seq(Tokens) /\ lines \in Seq(Seq(Tokens))
  /\ age \in [Clients -> 0 .. N]
  /\ pc \in [Clients -> {"none", "read_line", "write_lock", "write", "write_unlock",
                         "read_lock", "read_open", "read_send", "read_unlock",
                         "closing", "completing", "returning", "ended"}]
  /\ line \in [Clients -> AllLines \cup {<<>>}]
  /\ failed \in [Clients -> BOOLEAN]
  /\ reply \in [Clients -> Seq(Seq(Tokens))] /\ junk \in [Clients -> BOOLEAN]
  /\ ret \in [Clients -> {0, -1}]
  /\ peer \in [Clients -> {"none", "open", "eof", "gone"}]
  /\ inbox \in [Clients -> Seq(AllLines)]

(***************************************************************************)
(* A call of filestore_read_to_dest that returns 0 has sent all that the   *)
(* device held at one single moment, in order, though it reads it with     *)
(* many system calls: no other connection's line slips in between and none *)
(* is evicted under it.  It has sent nothing else, unless reads fail.      *)
(* (After a failed read it has sent junk in between, and returns 0 all the *)
(* same.)                                                                  *)
(***************************************************************************)
SnapshotReply ==
  \A c \in Clients :
    pc[c] = "read_unlock" /\ ret[c] = 0 =>
      reply[c] = lines /\ ("read" \notin Faults => ~junk[c])

(***************************************************************************)
(* What a client gets back contains the command it has just sent, unless   *)
(* the device has dropped it: file_mutex is released between the write and *)
(* the read, so other connections may complete commands in between, and    *)
(* the own one is then found that much further from the end.               *)
(***************************************************************************)
OwnCommandAnswered ==
  \A c \in Clients :
    /\ pc[c] = "read_unlock" /\ ret[c] = 0 /\ ~failed[c]
    /\ HasNewline(line[c]) /\ age[c] < N
    => LET own == reply[c][Len(reply[c]) - age[c]]
       IN  Len(reply[c]) > age[c] /\ own[Len(own) - 1] = line[c][1]

\* Where a thread is between its write and the end of its reply.
Written == {"write_unlock", "read_lock", "read_open", "read_send", "read_unlock"}

(***************************************************************************)
(* From the write to the end of the reply, the command that a connection's *)
(* line has finished stands as many places from the end of the device as   *)
(* other connections have finished commands since, whoever holds           *)
(* file_mutex meanwhile; and a thread that has come to filestore_write has *)
(* a line.                                                                 *)
(***************************************************************************)
OwnInv ==
  \A c \in Clients :
    /\ pc[c] \in {"write_lock", "write"} \cup Written => line[c] # <<>>
    /\ pc[c] \in Written /\ ~failed[c] /\ HasNewline(line[c]) /\ age[c] < N
       => LET own == lines[Len(lines) - age[c]]
          IN  /\ Len(lines) > age[c]
              /\ Len(own) >= 2 /\ own[Len(own) - 1] = line[c][1]

(***************************************************************************)
(* The memory of a list item is freed only once its thread is over: the    *)
(* thread still uses it after setting thread_complete.                     *)
(***************************************************************************)
NoUseAfterFree ==
  \A c \in Clients : item[c] = "freed" => pc[c] = "ended"

Live == {c \in Clients : item[c] = "live"}

(***************************************************************************)
(* LIST_INSERT_HEAD and LIST_REMOVE keep the links of the live items       *)
(* consistent in both directions, and no link of a live item leads to one  *)
(* that has been freed.                                                    *)
(***************************************************************************)
ListLinked == Linked(list, Live)

\* Where a walk from the head stands after k turns; it has ended when there
\* are no more connections it could come to.
Turns == 0 .. Cardinality(Clients)

Visited[k \in Turns] ==
  IF k = 0 THEN LIST_FIRST(list)
  ELSE IF Visited[k-1] = NULL THEN NULL ELSE LIST_NEXT(list, Visited[k-1])

(***************************************************************************)
(* A walk from the head comes to exactly the live items and to an end, so  *)
(* that no item is joined or freed twice and none is forgotten.            *)
(***************************************************************************)
ListIsLiveItems ==
  /\ Visited[Cardinality(Clients)] = NULL
  /\ {Visited[k] : k \in Turns} \ {NULL} = Live

(***************************************************************************)
(* After a signal the process ends, whatever its threads are doing and     *)
(* whatever calls have failed: closing the socket wakes accept, and main   *)
(* joins no thread that could wait for a client or for the mutex.          *)
(***************************************************************************)
Terminates == should_terminate ~> ~Running

(***************************************************************************)
(* A line that is read before the shutdown is answered:                    *)
(* filestore_read_to_dest has sent what the device holds and is to return  *)
(* 0.  Otherwise the device could not be opened for the answer, and the    *)
(* connection, still open, will take no further line from its client; or   *)
(* the process has ended.                                                  *)
(***************************************************************************)
Answered(c) == pc[c] = "read_unlock" /\ ret[c] = 0
GivenUp(c)  == pc[c] = "read_line" /\ failed[c]

LinesAnswered ==
  \A c \in Clients : pc[c] = "write_lock" ~> Answered(c) \/ GivenUp(c) \/ ~Running

(***************************************************************************)
(* "Closing connection": once its client has closed, a connection is       *)
(* closed and its thread ends, whether or not one of its operations has    *)
(* failed, or the process has ended.                                       *)
(***************************************************************************)
ConnectionsClose ==
  \A c \in Clients :
    pc[c] # "none" /\ peer[c] # "open" ~> pc[c] = "ended" \/ ~Running

(***************************************************************************)
(* The walk of the cleanup never follows a wild pointer: "Do a check       *)
(* outside the loop" is the walk of the accept loop once more.             *)
(***************************************************************************)
CleanupSafe == mpc # "crashed"

(***************************************************************************)
(* "Failed to send data to client": a client that has closed makes send    *)
(* fail, and the server goes on.                                           *)
(***************************************************************************)
SurvivesClients == mpc # "killed"
=============================================================================
