----------------------------- MODULE SystemCalls -----------------------------
(***************************************************************************)
(* examples/systemcalls/systemcalls.c: a single-threaded caller prints and *)
(* runs commands with do_system, do_exec and do_exec_redirect.  From fork  *)
(* on two processes share descriptors and a copy of the stdio buffer, more *)
(* than two when a waitpid is interrupted and its child outlives the call. *)
(* open, fflush, fork, dup2, execv and waitpid may fail, whenever they are *)
(* called.                                                                 *)
(*                                                                         *)
(* A print is named by its number, a command's output by its call's; what  *)
(* of an earlier output the file keeps under a later one is left out.      *)
(***************************************************************************)
EXTENDS Integers, Sequences, FiniteSetsExt

CONSTANTS
  MaxPrints,  \* bound: prints of the caller
  MaxCalls    \* bound: calls

ASSUME SystemCallsAssumption == MaxPrints \in Nat /\ MaxCalls \in Nat

VARIABLES
  pc,         \* where the caller is
  calls,      \* number of calls so far
  redirect,   \* the call under way is do_exec_redirect
  ret,        \* its ret: "false", or "unset" while it is not initialised
  result,     \* what the last call has returned
  error,      \* an open, fork or waitpid of the last call has failed (history)
  fd, fds,    \* its descriptor, and all that the caller has open
  printed,    \* number of prints so far
  buffer,     \* stdout's buffer in the caller
  unflushed,  \* an fflush has failed (history)
  terminal,   \* what has arrived at the caller's standard output
  outfile,    \* what has arrived in the output file
  child       \* of every call, its child until it is reaped

callVars  == <<calls, redirect>>
retVars   == <<ret, result, error>>
fileVars  == <<fd, fds>>
printVars == <<printed, buffer, unflushed>>
outVars   == <<terminal, outfile>>
vars == <<pc, callVars, retVars, fileVars, printVars, outVars, child>>

Calls == 1 .. MaxCalls

(***************************************************************************)
(* A child: what its call asked for, its copies of the buffer and of fd,   *)
(* and whether its standard output is the file.                            *)
(***************************************************************************)
NoChild == [state |-> "none", redirect |-> FALSE, fd |-> -1,
            buffer |-> <<>>, to_file |-> FALSE]

Goto(from, to) == pc = from /\ pc' = to

Fails == ret' = "false" /\ error' = TRUE

-----------------------------------------------------------------------------
(* The caller, and do_system.                                              *)

PrintOf(k)  == [kind |-> "print", num |-> k]
OutputOf(k) == [kind |-> "output", num |-> k]

\* printf in the caller: buffered, or the buffer is written out.
Printf ==
  /\ pc = "idle" /\ printed < MaxPrints
  /\ printed' = printed + 1
  /\ \/ buffer' = Append(buffer, PrintOf(printed')) /\ UNCHANGED terminal
     \/ buffer' = <<>> /\ terminal' = (terminal \o buffer) \o <<PrintOf(printed')>>
  /\ UNCHANGED <<pc, callVars, retVars, fileVars, unflushed, outfile, child>>

(***************************************************************************)
(* system forks without touching stdio and reaps its own child.  NULL and  *)
(* whatever fails give false; a command may print and fail, or print       *)
(* nothing and succeed.                                                    *)
(***************************************************************************)
do_system ==
  /\ pc = "idle" /\ calls < MaxCalls
  /\ calls' = calls + 1
  /\ terminal' \in {terminal, Append(terminal, OutputOf(calls'))}
  /\ result' \in BOOLEAN /\ error' = FALSE
  /\ UNCHANGED <<pc, redirect, ret, fileVars, printVars, outfile, child>>

-----------------------------------------------------------------------------
(* do_exec and do_exec_redirect.                                           *)

Call ==
  /\ calls < MaxCalls /\ calls' = calls + 1
  /\ \/ Goto("idle", "flush") /\ redirect' = FALSE
     \/ Goto("idle", "open") /\ redirect' = TRUE
  /\ ret' = "unset" /\ error' = FALSE
  /\ UNCHANGED <<result, fileVars, printVars, outVars, child>>

\* A failure does not end the call.
Open ==
  /\ Goto("open", "flush")
  /\ \/ /\ fd' = Min((0 .. 3) \ fds)
        /\ fds' = fds \cup {fd'}
        /\ UNCHANGED <<ret, error>>
     \/ fd' = -1 /\ Fails /\ UNCHANGED fds
  /\ UNCHANGED <<callVars, result, printVars, outVars, child>>

\* Mutant: no fflush.
Flush_Missing ==
  /\ Goto("flush", "fork")
  /\ UNCHANGED <<callVars, retVars, fileVars, printVars, outVars, child>>

\* The result of fflush is ignored; the library may keep what it could not write.
Flush ==
  /\ Goto("flush", "fork")
  /\ \/ terminal' = terminal \o buffer /\ buffer' = <<>> /\ UNCHANGED unflushed
     \/ buffer' \in {buffer, <<>>} /\ unflushed' = TRUE /\ UNCHANGED terminal
  /\ UNCHANGED <<callVars, retVars, fileVars, printed, outfile, child>>

Fork ==
  /\ Goto("fork", "wait")
  /\ \/ /\ child' = [child EXCEPT ![calls] =
                       [state |-> IF redirect THEN "dup" ELSE "exec",
                        redirect |-> redirect, fd |-> fd,
                        buffer |-> buffer, to_file |-> FALSE]]
        /\ UNCHANGED <<ret, error>>
     \/ Fails /\ UNCHANGED child
  /\ UNCHANGED <<callVars, result, fileVars, printVars, outVars>>

\* Output of the child of call k.
Arrives(k, out) ==
  /\ outfile' = IF child[k].to_file THEN outfile \o out ELSE outfile
  /\ terminal' = IF child[k].to_file THEN terminal ELSE terminal \o out

\* exit(-1) writes out the child's copy of the buffer, if it can.
ChildExits(k) ==
  /\ child' = [child EXCEPT ![k].state = "zombie"]
  /\ Arrives(k, child[k].buffer) \/ UNCHANGED outVars

\* Mutant: a failed dup2 is ignored.
ChildDup_Unchecked(k) ==
  /\ child[k].state = "dup"
  /\ \E ok \in BOOLEAN :
       /\ ok => child[k].fd # -1
       /\ child' = [child EXCEPT ![k].state = "exec", ![k].to_file = ok]
  /\ UNCHANGED <<pc, callVars, retVars, fileVars, printVars, outVars>>

ChildDup(k) ==
  /\ child[k].state = "dup"
  /\ \/ /\ child[k].fd # -1
        /\ child' = [child EXCEPT ![k].state = "exec", ![k].to_file = TRUE]
        /\ UNCHANGED outVars
     \/ ChildExits(k)
  /\ UNCHANGED <<pc, callVars, retVars, fileVars, printVars>>

\* execv: the command replaces the child, its buffer included, or it fails.
ChildExec(k) ==
  /\ child[k].state = "exec"
  /\ \/ /\ child' = [child EXCEPT ![k].state = "command", ![k].buffer = <<>>]
        /\ UNCHANGED outVars
     \/ ChildExits(k)
  /\ UNCHANGED <<pc, callVars, retVars, fileVars, printVars>>

\* The command (not part of the program) prints, or not, and exits.
Command(k) ==
  /\ child[k].state = "command"
  /\ child' = [child EXCEPT ![k].state = "zombie"]
  /\ Arrives(k, <<OutputOf(k)>>) \/ UNCHANGED outVars
  /\ UNCHANGED <<pc, callVars, retVars, fileVars, printVars>>

(***************************************************************************)
(* The children waitpid waits for: after a failed fork its pid is -1, and  *)
(* that is any child, one that an earlier call has left behind included.   *)
(***************************************************************************)
Waited == IF child[calls].state = "none" THEN Calls ELSE {calls}

\* waitpid returns a child that has ended.  The status is not looked at.
Reap == \E k \in Waited :
  child[k].state = "zombie" /\ child' = [child EXCEPT ![k] = NoChild]

NothingToReap == (\A k \in Waited : child[k].state # "zombie") /\ UNCHANGED child

\* Mutants: waitpid does not wait; its result is the result of the call.
Wait_NoHang ==
  /\ Goto("wait", "return")
  /\ Reap \/ NothingToReap
  /\ UNCHANGED <<callVars, retVars, fileVars, printVars, outVars>>

Wait_SetsRet ==
  /\ Goto("wait", "return")
  /\ \/ Reap /\ ret' = "unset" /\ UNCHANGED error
     \/ NothingToReap /\ Fails
  /\ UNCHANGED <<callVars, result, fileVars, printVars, outVars>>

\* Without an ended child, waitpid fails: there is none, or a signal comes first.
Wait ==
  /\ Goto("wait", "return")
  /\ \/ Reap /\ UNCHANGED <<ret, error>>
     \/ NothingToReap /\ Fails
  /\ UNCHANGED <<callVars, result, fileVars, printVars, outVars>>

\* An uninitialised ret may be read as anything.
ReturnClosing(S) ==
  /\ Goto("return", "idle")
  /\ fds' = fds \ S
  /\ fd' = -1
  /\ result' \in IF ret = "unset" THEN BOOLEAN ELSE {FALSE}
  /\ UNCHANGED <<callVars, ret, error, printVars, outVars, child>>

\* Mutant: no close.
Return_NoClose == ReturnClosing({})

\* if (fd > 0) close(fd)
Return == ReturnClosing({fd} \ {0})

-----------------------------------------------------------------------------
\* The caller may have been started without a standard input.
Init ==
  /\ pc = "idle" /\ calls = 0 /\ redirect = FALSE
  /\ ret = "unset" /\ result = FALSE /\ error = FALSE
  /\ fd = -1 /\ fds \in {{0, 1, 2}, {1, 2}}
  /\ printed = 0 /\ buffer = <<>> /\ unflushed = FALSE
  /\ terminal = <<>> /\ outfile = <<>>
  /\ child = [k \in Calls |-> NoChild]

Next ==
  \/ Printf \/ do_system
  \/ Call \/ Open \/ Flush \/ Fork \/ Wait \/ Return
  \/ \E k \in Calls : ChildDup(k) \/ ChildExec(k) \/ Command(k)

Spec == Init /\ [][Next]_vars

-----------------------------------------------------------------------------
(* Properties.                                                             *)

IsPrint(x) == x.kind = "print"

\* All prints up to the n-th are in s, once and in order.
PrintedOnce(s, n) ==
  /\ \A k \in 1 .. n : \E i \in DOMAIN s : s[i] = PrintOf(k)
  /\ \A i \in DOMAIN s : IsPrint(s[i]) =>
       /\ s[i].num <= n
       /\ \A j \in DOMAIN s : i < j /\ IsPrint(s[j]) => s[i].num < s[j].num

(***************************************************************************)
(* Unless an fflush has failed, what the caller prints arrives once, in    *)
(* order and on its own standard output, though the child leaves with      *)
(* exit, which writes out its copy of the buffer, and perhaps into the     *)
(* output file, and perhaps after its call has returned.                   *)
(***************************************************************************)
PrintsOnce ==
  ~unflushed =>
    /\ PrintedOnce(terminal \o buffer, printed)
    /\ \A i \in DOMAIN outfile : ~IsPrint(outfile[i])

(***************************************************************************)
(* A call whose open, fork or waitpid fails returns false: what succeeds   *)
(* later, like the waitpid for any child after a failed fork, does not     *)
(* hide the failure, and ret is not returned uninitialised.  The comment   *)
(* at lines 40-43 also promises false for a failing execv and for a        *)
(* command that exits with another status than zero.  There ret is         *)
(* uninitialised and the call may return true: that part does not hold,    *)
(* and is not claimed here.                                                *)
(***************************************************************************)
FalseOnFailure == pc = "idle" /\ error => result = FALSE

(***************************************************************************)
(* A call that has not reaped its child, which it leaves running or as a   *)
(* zombie because its waitpid was interrupted, does not return true.       *)
(***************************************************************************)
ChildReaped ==
  pc = "idle" => \A k \in Calls : k = calls /\ child[k].state # "none" => result = FALSE

(***************************************************************************)
(* What a command prints when its call redirects it never arrives at the   *)
(* caller's standard output, whichever of open and dup2 fails and even     *)
(* when a later call is under way; and conversely.                         *)
(***************************************************************************)
OutputWhereAsked ==
  [][\A k \in Calls :
       child[k].state = "command" /\ child'[k].state = "zombie" =>
         IF child[k].redirect THEN terminal' = terminal ELSE outfile' = outfile]_vars

(***************************************************************************)
(* "This file will be closed at completion of the function call": calls do *)
(* not use up descriptors, except that a descriptor 0, which open returns  *)
(* to a caller without a standard input, stays open.                       *)
(***************************************************************************)
FileClosed == pc = "idle" => fds \ {0} = {1, 2}
=============================================================================
