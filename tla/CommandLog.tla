----------------------------- MODULE CommandLog -----------------------------
(***************************************************************************)
(* What the character device promises to its writers, as one atomic        *)
(* object: the last N newline-terminated commands, oldest first, and the   *)
(* bytes of a command that has no newline yet.  A write call of a process  *)
(* takes effect exactly once, between its invocation and its successful    *)
(* return, and a call that returns an error has no effect at all.          *)
(***************************************************************************)
EXTENDS Commands

CONSTANTS
  Procs,    \* the calling processes
  Payloads  \* the byte strings a write call may carry

VARIABLES
  lines,    \* the commands kept, oldest first
  partial,  \* the bytes written since the last newline
  status,   \* per process: "idle", "called" or "applied"
  payload   \* per process: the bytes of its write call

logVars == <<lines, partial, status, payload>>

LogInit ==
  /\ lines = <<>>
  /\ partial = <<>>
  /\ status = [p \in Procs |-> "idle"]
  /\ payload = [p \in Procs |-> <<>>]

Invoke(p, d) ==
  /\ status[p] = "idle"
  /\ status' = [status EXCEPT ![p] = "called"]
  /\ payload' = [payload EXCEPT ![p] = d]
  /\ UNCHANGED <<lines, partial>>

Apply(p) ==
  /\ status[p] = "called"
  /\ status' = [status EXCEPT ![p] = "applied"]
  /\ IF HasNewline(payload[p])
     THEN /\ lines' = Push(lines, partial \o Kept(payload[p]))
          /\ partial' = <<>>
     ELSE /\ partial' = partial \o Kept(payload[p])
          /\ UNCHANGED lines
  /\ UNCHANGED payload

\* The call returns its byte count.
Return(p) ==
  /\ status[p] = "applied"
  /\ status' = [status EXCEPT ![p] = "idle"]
  /\ payload' = [payload EXCEPT ![p] = <<>>]
  /\ UNCHANGED <<lines, partial>>

\* The call returns an error.
Reject(p) ==
  /\ status[p] = "called"
  /\ status' = [status EXCEPT ![p] = "idle"]
  /\ payload' = [payload EXCEPT ![p] = <<>>]
  /\ UNCHANGED <<lines, partial>>

\* The module is unloaded while no process is in a call.
Clear ==
  /\ \A p \in Procs : status[p] = "idle"
  /\ lines' = <<>>
  /\ partial' = <<>>
  /\ UNCHANGED <<status, payload>>

LogNext ==
  \/ \E p \in Procs : \/ \E d \in Payloads : Invoke(p, d)
                      \/ Apply(p) \/ Return(p) \/ Reject(p)
  \/ Clear

LogSpec == LogInit /\ [][LogNext]_logVars
=============================================================================
