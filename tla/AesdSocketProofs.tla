--------------------------- MODULE AesdSocketProofs ---------------------------
(***************************************************************************)
(* The server's thread list and the memory of its items, for every number  *)
(* of connections and every combination of faults.                         *)
(***************************************************************************)
EXTENDS AesdSocket, BasicLemmas, TLAPS

USE SocketAssumption

-----------------------------------------------------------------------------
(* The inductive invariant.                                                *)

ListTypes ==
  /\ pending \in Seq(Clients)
  /\ list \in [lh_first : Clients \cup {NULL},
               le_next  : [Clients -> Clients \cup {NULL}],
               le_prev  : [Clients -> Clients \cup {HEAD, NULL}]]
  /\ data \in Clients \cup {NULL}
  /\ item \in [Clients -> {"none", "live", "freed"}]
  /\ pc \in [Clients -> {"none", "read_line", "write_lock", "write", "write_unlock",
                         "read_lock", "read_open", "read_send", "read_unlock",
                         "closing", "completing", "returning", "ended"}]
  /\ peer \in [Clients -> {"none", "open", "eof", "gone"}]

\* A connection has no item and no thread before accept returns it, and
\* accept returns it once.
Fresh ==
  /\ \A c \in Clients :
       peer[c] = "none" =>
         pc[c] = "none" /\ item[c] = "none" /\ \A i \in 1 .. Len(pending) : pending[i] # c
  /\ \A i \in 1 .. Len(pending) :
       pc[pending[i]] = "none" /\ item[pending[i]] = "none" /\ peer[pending[i]] # "none"
  /\ \A i, j \in 1 .. Len(pending) : pending[i] = pending[j] => i = j

\* The links of the live items lead downwards in some order, so that there
\* is no cycle.
Decreasing(l, S, r) == \A e \in S : l.le_next[e] # NULL => r[l.le_next[e]] < r[e]

Ranked == \E r \in [Clients -> Nat] : Decreasing(list, Live, r)

\* A walk stands at a live item or at the end.
WalkLive == mpc \in {"reap", "cleanup"} => data \in Live \cup {NULL}

ListInv == ListTypes /\ Fresh /\ NoUseAfterFree /\ ListLinked /\ Ranked /\ WalkLive

-----------------------------------------------------------------------------
(* The LIST macros.                                                        *)

Lists == [lh_first : Clients \cup {NULL},
          le_next  : [Clients -> Clients \cup {NULL}],
          le_prev  : [Clients -> Clients \cup {HEAD, NULL}]]

(***************************************************************************)
(* LIST_INSERT_HEAD adds a new item to a consistent list.                  *)
(***************************************************************************)
LEMMA InsertLinked ==
  ASSUME NEW l \in Lists, NEW S \in SUBSET Clients, NEW e \in Clients, e \notin S,
         Linked(l, S)
  PROVE  /\ LIST_INSERT_HEAD(l, e) \in Lists
         /\ Linked(LIST_INSERT_HEAD(l, e), S \cup {e})
         /\ LIST_INSERT_HEAD(l, e).lh_first = e
         /\ LIST_INSERT_HEAD(l, e).le_next = [l.le_next EXCEPT ![e] = l.lh_first]
<1> DEFINE m == LIST_INSERT_HEAD(l, e)
           f == l.lh_first
<1>1. f \in S \cup {NULL} /\ e # NULL /\ e # HEAD /\ e # f
  BY DEF Linked
<1>2. /\ m \in Lists
      /\ m.lh_first = e
      /\ m.le_next = [l.le_next EXCEPT ![e] = f]
      /\ m.le_prev = [(IF f = NULL THEN l.le_prev ELSE [l.le_prev EXCEPT ![f] = e])
                        EXCEPT ![e] = HEAD]
  BY <1>1 DEF Lists, LIST_INSERT_HEAD, SetPrev, LIST_FIRST
<1>3. Linked(m, S \cup {e})
  BY <1>1, <1>2 DEF Linked, Lists
<1> QED
  BY <1>2, <1>3

(***************************************************************************)
(* LIST_REMOVE takes an item out of a consistent list without a cycle.     *)
(***************************************************************************)
LEMMA RemoveLinked ==
  ASSUME NEW l \in Lists, NEW S \in SUBSET Clients, NEW e \in S,
         Linked(l, S), NEW r \in [Clients -> Nat], Decreasing(l, S, r)
  PROVE  /\ LIST_REMOVE(l, e) \in Lists
         /\ Linked(LIST_REMOVE(l, e), S \ {e})
         /\ Decreasing(LIST_REMOVE(l, e), S \ {e}, r)
         /\ l.le_next[e] \in (S \ {e}) \cup {NULL}
         /\ LIST_REMOVE(l, e).le_next[e] = l.le_next[e]
<1> DEFINE m == LIST_REMOVE(l, e)
           n == l.le_next[e]
           p == l.le_prev[e]
<1>1. e \in Clients /\ n \in S \cup {NULL} /\ p \in S \cup {HEAD}
  BY DEF Linked
<1>2. e # NULL /\ e # HEAD /\ NULL \notin S /\ HEAD \notin S
  BY <1>1
<1>3. n # e /\ p # e
  <2>1. n # NULL => r[n] < r[e]
    BY DEF Decreasing
  <2>2. p # HEAD => l.le_next[p] = e /\ r[e] < r[p]
    BY <1>1, <1>2 DEF Decreasing, Linked
  <2> QED
    BY <1>1, <1>2, <2>1, <2>2
<1>4. n # NULL => n # p
  <2>1. ASSUME n # NULL, n = p PROVE FALSE
    <3>1. r[n] < r[e] /\ r[e] < r[p] /\ r[n] \in Nat /\ r[e] \in Nat
      BY <1>1, <1>2, <2>1 DEF Decreasing, Linked
    <3> QED
      BY <2>1, <3>1
  <2> QED
    BY <2>1
<1>5. /\ m.le_prev = IF n = NULL THEN l.le_prev ELSE [l.le_prev EXCEPT ![n] = p]
      /\ m.lh_first = IF p = HEAD THEN n ELSE l.lh_first
      /\ m.le_next = IF p = HEAD THEN l.le_next ELSE [l.le_next EXCEPT ![p] = n]
      /\ m = [lh_first |-> m.lh_first, le_next |-> m.le_next, le_prev |-> m.le_prev]
  BY <1>1, <1>2 DEF Lists, LIST_REMOVE, Assign, SetPrev, LIST_NEXT
<1>6. m \in Lists
  BY <1>1, <1>2, <1>5 DEF Lists
<1>7. Linked(m, S \ {e})
  BY <1>1, <1>2, <1>3, <1>4, <1>5 DEF Linked, Lists
<1>8. Decreasing(m, S \ {e}, r)
  BY <1>1, <1>2, <1>3, <1>5 DEF Decreasing, Linked, Lists
<1> QED
  BY <1>1, <1>3, <1>5, <1>6, <1>7, <1>8 DEF Lists

-----------------------------------------------------------------------------
(* The steps.                                                              *)

USE DEF mainVars, storeVars, sendVars, threadVars, clientVars

(***************************************************************************)
(* The start of the process.                                               *)
(***************************************************************************)
LEMMA InitListInv == Init => ListInv
<1> SUFFICES ASSUME Init PROVE ListInv
  OBVIOUS
<1>1. /\ pending = <<>> /\ data = NULL /\ list.lh_first = NULL
      /\ list = [lh_first |-> NULL, le_next |-> [e \in Clients |-> NULL],
                 le_prev |-> [e \in Clients |-> NULL]]
      /\ item = [c \in Clients |-> "none"] /\ pc = [c \in Clients |-> "none"]
      /\ peer = [c \in Clients |-> "none"] /\ mpc = "socket"
  BY DEF Init, LIST_INIT
<1>2. ListTypes
  BY <1>1 DEF ListTypes
<1>3. Live = {}
  BY <1>1 DEF Live
<1>4. ListLinked
  BY <1>1, <1>3 DEF ListLinked, Linked
<1>5. Ranked
  <2>1. [c \in Clients |-> 0] \in [Clients -> Nat]
    OBVIOUS
  <2> QED
    BY <1>3, <2>1 DEF Ranked, Decreasing
<1>6. Fresh /\ NoUseAfterFree /\ WalkLive
  BY <1>1 DEF Fresh, NoUseAfterFree, WalkLive
<1> QED
  BY <1>2, <1>4, <1>5, <1>6 DEF ListInv

(***************************************************************************)
(* A step that leaves the list, the items and the waiting connections      *)
(* alone, and with them all that the invariant says of the links.          *)
(***************************************************************************)
LEMMA LinksKept ==
  ASSUME ListInv, UNCHANGED <<list, item>>
  PROVE  ListLinked' /\ Ranked' /\ Live' = Live
<1>1. Live' = Live
  BY DEF Live
<1>2. ListLinked'
  BY <1>1 DEF ListInv, ListLinked, Linked
<1>3. Ranked'
  BY <1>1 DEF ListInv, Ranked, Decreasing
<1> QED
  BY <1>1, <1>2, <1>3

(***************************************************************************)
(* A connection thread leaves the list to main, and once it has ended it   *)
(* takes no further step.                                                  *)
(***************************************************************************)
LEMMA ThreadInv ==
  ASSUME ListInv, NEW c \in Clients, Thread(c)
  PROVE  ListInv'
<1>1. UNCHANGED <<pending, list, data, item, peer>> /\ mpc' \in {mpc, "killed"}
  BY DEF Thread, ReadLine, TakeLine, WriteLock, Write, WriteUnlock, ReadLock, ReadOpen,
         ReadSend, ReadSendUpTo, ReadUnlock, Closing
<1>2. pc[c] \notin {"none", "ended"}
  BY DEF Thread, ReadLine, TakeLine, WriteLock, Write, WriteUnlock, ReadLock, ReadOpen,
         ReadSend, ReadSendUpTo, ReadUnlock, Closing, Goto
<1>3. PICK to \in {"read_line", "write_lock", "write", "write_unlock",
                   "read_lock", "read_open", "read_send", "read_unlock",
                   "closing", "completing", "returning", "ended"} :
        pc' = [pc EXCEPT ![c] = to]
  <2>1. UNCHANGED pc => pc' = [pc EXCEPT ![c] = pc[c]]
    BY DEF ListInv, ListTypes
  <2>2. pc[c] \in {"read_line", "write_lock", "write", "write_unlock",
                   "read_lock", "read_open", "read_send", "read_unlock",
                   "closing", "completing", "returning", "ended"}
    BY <1>2 DEF ListInv, ListTypes
  <2> QED
    BY <2>1, <2>2
    DEF Thread, ReadLine, TakeLine, WriteLock, Write, WriteUnlock, ReadLock, ReadOpen,
        ReadSend, ReadSendUpTo, ReadUnlock, Closing, Goto
<1>4. ListTypes'
  BY <1>1, <1>3 DEF ListInv, ListTypes
<1>5. Fresh'
  BY <1>1, <1>2, <1>3 DEF ListInv, ListTypes, Fresh
<1>6. NoUseAfterFree'
  BY <1>1, <1>2, <1>3 DEF ListInv, ListTypes, NoUseAfterFree
<1>7. WalkLive' /\ ListLinked' /\ Ranked'
  BY <1>1, LinksKept DEF ListInv, WalkLive
<1> QED
  BY <1>4, <1>5, <1>6, <1>7 DEF ListInv

(***************************************************************************)
(* Clients: a new connection waits at the end of the queue.                *)
(***************************************************************************)
LEMMA ClientInv ==
  ASSUME ListInv, NEW c \in Clients, Client(c)
  PROVE  ListInv'
<1>1. UNCHANGED <<mpc, list, data, item, pc>>
  BY DEF Client, Connect, ClientSend, Shutdown, Vanish
<1>2. WalkLive' /\ ListLinked' /\ Ranked' /\ NoUseAfterFree'
  BY <1>1, LinksKept DEF ListInv, WalkLive, NoUseAfterFree
<1>3. CASE Connect(c)
  <2>1. /\ peer[c] = "none" /\ peer' = [peer EXCEPT ![c] = "open"]
        /\ pending' = Append(pending, c)
    BY <1>3 DEF Connect
  <2>2. pending \in Seq(Clients) /\ Len(pending) \in Nat
    BY DEF ListInv, ListTypes
  <2>3. /\ pending' \in Seq(Clients) /\ Len(pending') = Len(pending) + 1
        /\ \A i \in 1 .. Len(pending) : pending'[i] = pending[i]
        /\ pending'[Len(pending) + 1] = c
    BY <2>1, <2>2
  <2>4. ListTypes'
    BY <1>1, <2>1, <2>3 DEF ListInv, ListTypes
  <2>5. Fresh'
    <3>1. \A i \in 1 .. Len(pending) : pending[i] # c /\ pending[i] \in Clients
      BY <2>1, <2>2 DEF ListInv, Fresh
    <3>2. \A d \in Clients :
            peer'[d] = "none" =>
              pc'[d] = "none" /\ item'[d] = "none" /\ \A i \in 1 .. Len(pending') : pending'[i] # d
      BY <1>1, <2>1, <2>2, <2>3 DEF ListInv, ListTypes, Fresh
    <3>3. \A i \in 1 .. Len(pending') :
            /\ pc'[pending'[i]] = "none" /\ item'[pending'[i]] = "none"
            /\ peer'[pending'[i]] # "none"
      BY <1>1, <2>1, <2>2, <2>3, <3>1 DEF ListInv, ListTypes, Fresh
    <3>4. \A i, j \in 1 .. Len(pending') : pending'[i] = pending'[j] => i = j
      BY <2>2, <2>3, <3>1 DEF ListInv, Fresh
    <3> QED
      BY <3>2, <3>3, <3>4 DEF Fresh
  <2> QED
    BY <1>2, <2>4, <2>5 DEF ListInv
<1>4. CASE ~Connect(c)
  <2>1. UNCHANGED pending
    BY <1>4 DEF Client, ClientSend, Shutdown, Vanish
  <2>2. peer[c] # "none" /\ \E to \in {"open", "eof", "gone"} : peer' = [peer EXCEPT ![c] = to]
    <3>1. peer[c] # "none"
      BY <1>4 DEF Client, ClientSend, Shutdown, Vanish
    <3>2. UNCHANGED peer => peer' = [peer EXCEPT ![c] = peer[c]]
      BY DEF ListInv, ListTypes
    <3>3. peer[c] \in {"open", "eof", "gone"}
      BY <3>1 DEF ListInv, ListTypes
    <3> QED
      BY <1>4, <3>1, <3>2, <3>3 DEF Client, ClientSend, Shutdown, Vanish
  <2>3. ListTypes'
    BY <1>1, <2>1, <2>2 DEF ListInv, ListTypes
  <2>4. Fresh'
    BY <1>1, <2>1, <2>2 DEF ListInv, ListTypes, Fresh
  <2> QED
    BY <1>2, <2>3, <2>4 DEF ListInv
<1> QED
  BY <1>3, <1>4

(***************************************************************************)
(* The steps of main and of the signal handler that touch no item: the     *)
(* walks begin at the head, which is live.                                 *)
(***************************************************************************)
LEMMA MainInv ==
  ASSUME ListInv,
         Setup \/ LoopTest \/ AcceptFails \/ Exit \/ signal_handler
  PROVE  ListInv'
<1>1. /\ UNCHANGED <<list, item, pc, peer>>
      /\ pending' \in {pending, <<>>} \/ (pending # <<>> /\ pending' = Tail(pending))
  BY DEF Setup, LoopTest, AcceptFails, Exit, signal_handler
<1>2. data' \in {data, list.lh_first} /\ list.lh_first \in Live \cup {NULL}
  BY DEF Setup, LoopTest, AcceptFails, Exit, signal_handler, LIST_FIRST,
         ListInv, ListLinked, Linked
<1>3. \/ mpc' \notin {"reap", "cleanup"}
      \/ data' = list.lh_first
      \/ mpc' = mpc /\ data' = data
  BY DEF Setup, LoopTest, AcceptFails, Exit, signal_handler, LIST_FIRST, GotoMain
<1>4. ListTypes'
  <2>1. pending' \in Seq(Clients)
    <3>1. <<>> \in Seq(Clients) /\ pending \in Seq(Clients)
      BY DEF ListInv, ListTypes
    <3>2. pending # <<>> => Tail(pending) \in Seq(Clients)
      BY <3>1
    <3> QED
      BY <1>1, <3>1, <3>2, Zenon
  <2>2. data' \in Clients \cup {NULL}
    BY <1>2 DEF ListInv, ListTypes, Live
  <2> QED
    BY <1>1, <2>1, <2>2 DEF ListInv, ListTypes
<1>5. Fresh' /\ NoUseAfterFree'
  <2>1. NoUseAfterFree'
    BY <1>1 DEF ListInv, ListTypes, NoUseAfterFree
  <2>2. CASE pending' \in {pending, <<>>}
    BY <1>1, <2>1, <2>2 DEF ListInv, ListTypes, Fresh
  <2>3. CASE pending # <<>> /\ pending' = Tail(pending)
    <3>1. pending \in Seq(Clients)
      BY DEF ListInv, ListTypes
    <3>2. /\ Len(pending') = Len(pending) - 1
          /\ \A k \in 1 .. Len(pending') : k + 1 \in 1 .. Len(pending) /\ pending'[k] = pending[k + 1]
      BY <2>3, <3>1
    <3>3. \A d \in Clients :
            peer'[d] = "none" =>
              pc'[d] = "none" /\ item'[d] = "none" /\ \A k \in 1 .. Len(pending') : pending'[k] # d
      BY <1>1, <3>2 DEF ListInv, Fresh
    <3>4. \A k \in 1 .. Len(pending') :
            /\ pc'[pending'[k]] = "none" /\ item'[pending'[k]] = "none"
            /\ peer'[pending'[k]] # "none"
      BY <1>1, <3>2 DEF ListInv, Fresh
    <3>5. \A k, m \in 1 .. Len(pending') : pending'[k] = pending'[m] => k = m
      BY <3>1, <3>2 DEF ListInv, Fresh
    <3> QED
      BY <2>1, <3>3, <3>4, <3>5 DEF Fresh
  <2> QED
    BY <1>1, <2>2, <2>3
<1>6. WalkLive' /\ ListLinked' /\ Ranked'
  BY <1>1, <1>2, <1>3, LinksKept DEF ListInv, WalkLive
<1> QED
  BY <1>4, <1>5, <1>6 DEF ListInv

(***************************************************************************)
(* accept: the connection is new, and so is its item in the list.          *)
(***************************************************************************)
LEMMA AcceptInv ==
  ASSUME ListInv, Accept
  PROVE  ListInv'
<1> DEFINE c == Head(pending)
<1>1. /\ pending \in Seq(Clients) /\ pending # <<>> /\ Len(pending) \in Nat \ {0}
      /\ c = pending[1] /\ c \in Clients
      /\ pending' = Tail(pending)
  BY DEF Accept, ListInv, ListTypes
<1>2. pc[c] = "none" /\ item[c] = "none" /\ peer[c] # "none"
  BY <1>1 DEF ListInv, Fresh
<1>3. /\ pending' \in Seq(Clients) /\ Len(pending') = Len(pending) - 1
      /\ \A i \in 1 .. Len(pending') : i + 1 \in 1 .. Len(pending) /\ pending'[i] = pending[i + 1]
  BY <1>1
<1>4. \A i \in 1 .. Len(pending') : pending'[i] # c /\ pending'[i] \in Clients
  BY <1>1, <1>3 DEF ListInv, Fresh
<1>5. UNCHANGED peer /\ mpc' = "reap" /\ data' = list'.lh_first
  BY DEF Accept, GotoMain, LIST_FIRST
<1>6. UNCHANGED pc \/ pc' = [pc EXCEPT ![c] = "read_line"]
  BY DEF Accept
<1>7. UNCHANGED item \/ item' = [item EXCEPT ![c] = "live"]
  BY DEF Accept, init_conn_list_item
<1>8. Fresh'
  <2>1. \A d \in Clients : d # c => pc'[d] = pc[d] /\ item'[d] = item[d]
    BY <1>1, <1>6, <1>7 DEF ListInv, ListTypes
  <2>2. \A d \in Clients :
          peer'[d] = "none" =>
            pc'[d] = "none" /\ item'[d] = "none" /\ \A i \in 1 .. Len(pending') : pending'[i] # d
    BY <1>2, <1>3, <1>5, <2>1 DEF ListInv, Fresh
  <2>3. \A i \in 1 .. Len(pending') :
          /\ pc'[pending'[i]] = "none" /\ item'[pending'[i]] = "none"
          /\ peer'[pending'[i]] # "none"
    BY <1>3, <1>4, <1>5, <2>1 DEF ListInv, Fresh
  <2>4. \A i, j \in 1 .. Len(pending') : pending'[i] = pending'[j] => i = j
    BY <1>1, <1>3 DEF ListInv, Fresh
  <2> QED
    BY <2>2, <2>3, <2>4 DEF Fresh
<1>9. NoUseAfterFree'
  BY <1>1, <1>2, <1>6, <1>7 DEF ListInv, ListTypes, NoUseAfterFree
<1>10. CASE UNCHANGED <<list, item>>
  <2>1. ListLinked' /\ Ranked' /\ Live' = Live
    BY <1>10, LinksKept
  <2>2. data' \in Live \cup {NULL}
    BY <1>5, <1>10 DEF ListInv, ListLinked, Linked
  <2>3. ListTypes'
    BY <1>1, <1>3, <1>5, <1>6, <1>10, <2>2 DEF ListInv, ListTypes, Live
  <2> QED
    BY <1>8, <1>9, <2>1, <2>2, <2>3 DEF ListInv, WalkLive
<1>11. CASE /\ item' = [item EXCEPT ![c] = "live"]
            /\ list' = LIST_INSERT_HEAD(list, c)
  <2>1. Live' = Live \cup {c} /\ c \notin Live /\ Live \in SUBSET Clients
    BY <1>1, <1>2, <1>11 DEF Live, ListInv, ListTypes
  <2>2. list \in Lists /\ Linked(list, Live)
    BY DEF ListInv, ListTypes, Lists, ListLinked
  <2>3. /\ list' \in Lists /\ Linked(list', Live')
        /\ list'.lh_first = c
        /\ list'.le_next = [list.le_next EXCEPT ![c] = list.lh_first]
    <3> HIDE DEF c
    <3>1. c \in Clients /\ c \notin Live /\ Live \in SUBSET Clients
      BY <1>1, <2>1
    <3>2. /\ LIST_INSERT_HEAD(list, c) \in Lists
          /\ Linked(LIST_INSERT_HEAD(list, c), Live \cup {c})
          /\ LIST_INSERT_HEAD(list, c).lh_first = c
          /\ LIST_INSERT_HEAD(list, c).le_next = [list.le_next EXCEPT ![c] = list.lh_first]
      BY <2>2, <3>1, InsertLinked, Zenon
    <3> QED
      BY <1>11, <2>1, <3>2
  <2>4. Ranked'
    <3>1. PICK r \in [Clients -> Nat] : Decreasing(list, Live, r)
      BY DEF ListInv, Ranked
    <3>2. list.lh_first \in Live \cup {NULL}
      BY DEF ListInv, ListLinked, Linked
    <3>3. PICK k \in Nat : list.lh_first # NULL => r[list.lh_first] < k
      <4>1. CASE list.lh_first = NULL
        BY <4>1
      <4>2. CASE list.lh_first # NULL
        <5>1. r[list.lh_first] \in Nat
          BY <2>1, <3>2, <4>2
        <5>2. r[list.lh_first] + 1 \in Nat /\ r[list.lh_first] < r[list.lh_first] + 1
          BY <5>1
        <5> QED
          BY <5>2
      <4> QED
        BY <4>1, <4>2
    <3> DEFINE q == [r EXCEPT ![c] = k]
    <3>4. q \in [Clients -> Nat] /\ q[c] = k /\ \A d \in Clients : d # c => q[d] = r[d]
      BY <1>1
    <3>5. \A e \in Live : list.le_next[e] \in Live \cup {NULL} /\ list.le_next[e] # c
      BY <1>1, <2>1 DEF ListInv, ListLinked, Linked
    <3>6. Decreasing(list', Live', q)
      <4>1. ASSUME NEW e \in Live', list'.le_next[e] # NULL PROVE q[list'.le_next[e]] < q[e]
        <5>1. CASE e = c
          BY <1>1, <2>1, <2>2, <2>3, <3>2, <3>3, <3>4, <4>1, <5>1 DEF Lists
        <5>2. CASE e # c
          BY <1>1, <2>1, <2>2, <2>3, <3>1, <3>4, <3>5, <4>1, <5>2 DEF Lists, Decreasing
        <5> QED
          BY <5>1, <5>2
      <4> QED
        BY <4>1 DEF Decreasing
    <3> QED
      BY <3>4, <3>6 DEF Ranked
  <2>5. ListTypes'
    BY <1>1, <1>3, <1>5, <1>6, <1>11, <2>3 DEF ListInv, ListTypes, Lists
  <2>6. ListLinked' /\ WalkLive'
    BY <1>5, <2>1, <2>3 DEF ListLinked, WalkLive
  <2> QED
    BY <1>8, <1>9, <2>4, <2>5, <2>6 DEF ListInv
<1> QED
  BY <1>10, <1>11 DEF Accept, init_conn_list_item

(***************************************************************************)
(* A turn of either walk: an item that is removed and freed has an ended   *)
(* thread, and the walk goes on at a live item, though that of the cleanup *)
(* reads the link to it from memory that is already freed.                 *)
(***************************************************************************)
LEMMA WalkInv ==
  ASSUME ListInv, Reap \/ Cleanup
  PROVE  ListInv'
<1>1. UNCHANGED <<pending, pc, peer>>
  BY DEF Reap, Cleanup
<1>2. Live \in SUBSET Clients /\ NULL \notin Live
  BY DEF Live
<1>3. CASE data = NULL
  <2>1. UNCHANGED <<list, data, item>>
    BY <1>3 DEF Reap, Cleanup
  <2>2. ListLinked' /\ Ranked' /\ WalkLive'
    BY <1>3, <2>1, LinksKept DEF WalkLive
  <2> QED
    BY <1>1, <2>1, <2>2 DEF ListInv, ListTypes, Fresh, NoUseAfterFree
<1>4. CASE data # NULL
  <2>1. data \in Live /\ data \in Clients
    BY <1>2, <1>4 DEF Reap, Cleanup, ListInv, WalkLive
  <2>2. CASE UNCHANGED <<list, item>> /\ data' = list.le_next[data]
    <3>1. ListLinked' /\ Ranked' /\ Live' = Live
      BY <2>2, LinksKept
    <3>2. data' \in Live \cup {NULL}
      BY <2>1, <2>2 DEF ListInv, ListLinked, Linked
    <3>3. ListTypes'
      BY <1>1, <1>2, <2>2, <3>2 DEF ListInv, ListTypes
    <3> QED
      BY <1>1, <2>2, <3>1, <3>2, <3>3 DEF ListInv, WalkLive, Fresh, NoUseAfterFree
  <2>3. CASE JoinAndFree(data) /\ data' \in {list.le_next[data], list'.le_next[data]}
    <3>1. /\ pc[data] = "ended" /\ list' = LIST_REMOVE(list, data)
          /\ item' = [item EXCEPT ![data] = "freed"]
      BY <2>3 DEF JoinAndFree, free_conn_list_item
    <3>2. Live' = Live \ {data}
      BY <2>1, <3>1 DEF Live, ListInv, ListTypes
    <3>3. list \in Lists /\ Linked(list, Live)
      BY DEF ListInv, ListTypes, Lists, ListLinked
    <3>4. PICK r \in [Clients -> Nat] : Decreasing(list, Live, r)
      BY DEF ListInv, Ranked
    <3>5. /\ list' \in Lists /\ Linked(list', Live')
          /\ Decreasing(list', Live', r)
          /\ list.le_next[data] \in Live' \cup {NULL}
          /\ list'.le_next[data] = list.le_next[data]
      BY <1>2, <2>1, <3>1, <3>2, <3>3, <3>4, RemoveLinked
    <3>6. data' \in Live' \cup {NULL}
      BY <2>3, <3>5
    <3>7. ListTypes'
      BY <1>1, <1>2, <3>1, <3>2, <3>5, <3>6 DEF ListInv, ListTypes, Lists
    <3>8. Fresh'
      BY <1>1, <2>1, <3>1 DEF ListInv, ListTypes, Fresh
    <3>9. NoUseAfterFree'
      BY <1>1, <2>1, <3>1 DEF ListInv, ListTypes, NoUseAfterFree
    <3>10. ListLinked' /\ Ranked' /\ WalkLive'
      BY <3>4, <3>5, <3>6 DEF ListLinked, Ranked, WalkLive
    <3> QED
      BY <3>7, <3>8, <3>9, <3>10 DEF ListInv
  <2> QED
    BY <1>4, <2>2, <2>3 DEF Reap, Cleanup, LIST_NEXT
<1> QED
  BY <1>3, <1>4

-----------------------------------------------------------------------------
(* Theorems.                                                               *)

(***************************************************************************)
(* The thread list and its items keep their invariant through every step   *)
(* of main, the signal handler, the connection threads and the clients.    *)
(***************************************************************************)
THEOREM ServerListInvariant == Spec => []ListInv
<1>1. ListInv /\ [Next]_vars => ListInv'
  <2> SUFFICES ASSUME ListInv, [Next]_vars PROVE ListInv'
    OBVIOUS
  <2>1. CASE Main \/ signal_handler
    BY <2>1, MainInv, AcceptInv, WalkInv DEF Main
  <2>2. ASSUME NEW c \in Clients, Thread(c) \/ Client(c) PROVE ListInv'
    BY <2>2, ThreadInv, ClientInv
  <2>3. CASE UNCHANGED vars
    <3>1. UNCHANGED <<mpc, pending, list, data, item, pc, peer>>
      BY <2>3 DEF vars
    <3>2. ListLinked' /\ Ranked' /\ Live' = Live
      BY <3>1, LinksKept
    <3> QED
      BY <3>1, <3>2 DEF ListInv, ListTypes, Fresh, NoUseAfterFree, WalkLive
  <2> QED
    BY <2>1, <2>2, <2>3 DEF Next
<1> QED
  BY InitListInv, <1>1, PTL DEF Spec

(***************************************************************************)
(* No item is freed before its thread has ended.                           *)
(***************************************************************************)
THEOREM ServerNoUseAfterFree == Spec => []NoUseAfterFree
<1>1. ListInv => NoUseAfterFree
  BY DEF ListInv
<1> QED
  BY <1>1, ServerListInvariant, PTL

(***************************************************************************)
(* The links of the live items are consistent in both directions and never *)
(* lead to an item that has been freed.                                    *)
(***************************************************************************)
THEOREM ServerListLinked == Spec => []ListLinked
<1>1. ListInv => ListLinked
  BY DEF ListInv
<1> QED
  BY <1>1, ServerListInvariant, PTL

-----------------------------------------------------------------------------
(* A walk along the list.                                                  *)

\* Where a walk along the items S of the list l stands after each of n turns.
IsWalk(f, l, S, n) ==
  /\ f \in [0 .. n -> S \cup {NULL}]
  /\ f[0] = l.lh_first
  /\ \A k \in 1 .. n : f[k] = IF f[k - 1] = NULL THEN NULL ELSE l.le_next[f[k - 1]]

\* The walk has come to its end, and to every item.
VisitsAll(f, S, n) == f[n] = NULL /\ {f[k] : k \in 0 .. n} \ {NULL} = S

(***************************************************************************)
(* A walk along consistent links without a cycle comes to each item once   *)
(* and to an end: it descends in rank, so that it comes to no item twice,  *)
(* and of the items it missed one of greatest rank would be the successor  *)
(* of one it came to.                                                      *)
(***************************************************************************)
LEMMA WalkVisitsAll ==
  ASSUME NEW l \in Lists, NEW S \in SUBSET Clients, Linked(l, S),
         NEW r \in [Clients -> Nat], Decreasing(l, S, r),
         NEW n \in Nat, n = Cardinality(Clients), NEW f, IsWalk(f, l, S, n)
  PROVE  VisitsAll(f, S, n)
<1> USE DEF IsWalk
<1>1. NULL \notin S /\ \A e \in S : r[e] \in Nat
  OBVIOUS
<1>2. ASSUME NEW k \in 1 .. n, f[k] # NULL
      PROVE  /\ k - 1 \in 0 .. n /\ f[k - 1] \in S
             /\ r[f[k]] \in Nat /\ r[f[k - 1]] \in Nat /\ r[f[k]] < r[f[k - 1]]
  <2>1. k - 1 \in 0 .. n /\ k \in 0 .. n
    OBVIOUS
  <2>2. f[k - 1] # NULL /\ f[k] = l.le_next[f[k - 1]]
    BY <1>2
  <2>3. f[k - 1] \in S /\ f[k] \in S
    BY <1>2, <2>1, <2>2
  <2> QED BY <1>1, <1>2, <2>1, <2>2, <2>3 DEF Decreasing
<1>3. ASSUME NEW i \in 0 .. n, NEW j \in 0 .. n, i < j, f[j] # NULL
      PROVE  f[i] # NULL /\ r[f[j]] < r[f[i]]
  <2> DEFINE Descends(k) == f[k] # NULL => f[i] # NULL /\ r[f[k]] < r[f[i]]
             T == {k \in Nat : i < k /\ k <= n /\ ~Descends(k)}
  <2>1. SUFFICES ASSUME T # {} PROVE FALSE
    BY <1>3
  <2>2. PICK k \in T : \A m \in T : k <= m
    <3>1. T \subseteq Nat
      OBVIOUS
    <3> HIDE DEF T
    <3> QED BY <2>1, <3>1, LeastNatural
  <2>3. k \in 1 .. n /\ f[k] # NULL /\ ~Descends(k) /\ i < k
    BY <2>2
  <2>4. /\ k - 1 \in 0 .. n /\ f[k - 1] \in S /\ f[k - 1] # NULL
        /\ r[f[k]] \in Nat /\ r[f[k - 1]] \in Nat /\ r[f[k]] < r[f[k - 1]]
    BY <1>1, <1>2, <2>3
  <2>5. CASE i = k - 1
    BY <2>3, <2>4, <2>5
  <2>6. CASE i < k - 1
    <3>1. k - 1 \notin T
      <4>1. k - 1 \in T => k <= k - 1
        BY <2>2, Zenon
      <4>2. ~(k <= k - 1)
        BY <2>3
      <4> QED BY <4>1, <4>2
    <3>2. Descends(k - 1)
      BY <2>3, <2>4, <2>6, <3>1
    <3>3. f[i] # NULL /\ r[f[k - 1]] < r[f[i]]
      BY <2>4, <3>2
    <3>4. r[f[i]] \in Nat
      BY <1>1, <3>3
    <3> QED BY <2>3, <2>4, <3>3, <3>4
  <2> QED BY <2>3, <2>5, <2>6
<1>4. IsFiniteSet(S) /\ Cardinality(S) \in Nat /\ Cardinality(S) <= n
  <2>1. IsFiniteSet(S) /\ Cardinality(S) <= Cardinality(Clients)
    BY FS_Subset
  <2> QED BY <2>1, FS_CardinalityType
<1>5. f[n] = NULL
  <2> SUFFICES ASSUME f[n] # NULL PROVE FALSE
    OBVIOUS
  <2>1. \A i \in 0 .. n : f[i] \in S
    <3> SUFFICES ASSUME NEW i \in 0 .. n PROVE f[i] # NULL
      OBVIOUS
    <3>1. n \in 0 .. n /\ (i < n \/ i = n)
      OBVIOUS
    <3> QED BY <1>3, <3>1
  <2>2. f \in [0 .. n -> S]
    BY <2>1
  <2>3. IsFiniteSet(0 .. n) /\ Cardinality(0 .. n) = n + 1
    <3>1. 0 \in Int /\ n \in Int /\ ~(0 > n) /\ n - 0 + 1 = n + 1
      OBVIOUS
    <3> QED BY <3>1, FS_Interval
  <2>4. Cardinality(S) < Cardinality(0 .. n)
    BY <1>4, <2>3
  <2>5. PICK i, j \in 0 .. n : i # j /\ f[i] = f[j]
    <3> DEFINE D == 0 .. n
    <3>1. IsFiniteSet(D) /\ IsFiniteSet(S) /\ Cardinality(S) < Cardinality(D) /\ f \in [D -> S]
      BY <1>4, <2>2, <2>3, <2>4
    <3> HIDE DEF D
    <3>2. \E i, j \in D : i # j /\ f[i] = f[j]
      BY ONLY <3>1, FS_PigeonHole, Zenon
    <3> QED BY <3>2 DEF D
  <2>6. f[i] # NULL /\ f[j] # NULL /\ r[f[i]] \in Nat /\ r[f[j]] \in Nat
    BY <1>1, <2>1
  <2>7. CASE i < j
    BY <1>3, <2>5, <2>6, <2>7
  <2>8. CASE j < i
    BY <1>3, <2>5, <2>6, <2>8
  <2> QED BY <2>5, <2>7, <2>8
<1> DEFINE V == {f[k] : k \in 0 .. n} \ {NULL}
<1>6. V \subseteq S
  OBVIOUS
<1>7. ASSUME S \ V # {} PROVE FALSE
  <2> DEFINE U == S \ V
             R == {r[e] : e \in U}
             h == [e \in U |-> r[e]]
  <2>1. IsFiniteSet(R)
    <3>1. IsFiniteSet(U)
      BY <1>4, FS_Subset
    <3>2. h \in Surjection(U, R)
      BY DEF Surjection
    <3> HIDE DEF U, R, h
    <3> QED BY <3>1, <3>2, FS_Surjection
  <2>2. R \subseteq Nat /\ R # {}
    BY <1>1, <1>7
  <2>3. PICK m \in R : \A y \in R : y <= m
    <3> HIDE DEF R
    <3> QED BY <2>1, <2>2, GreatestNatural
  <2>4. PICK e \in U : r[e] = m
    OBVIOUS
  <2> DEFINE p == l.le_prev[e]
  <2>5. e \in S /\ p \in S \cup {HEAD} /\ e # NULL /\ e \notin V
    BY <1>1 DEF Linked
  <2>6. CASE p = HEAD
    <3>1. f[0] = e /\ 0 \in 0 .. n
      BY <2>5, <2>6 DEF Linked
    <3> QED BY <2>5, <3>1
  <2>7. CASE p # HEAD
    <3>1. p \in S /\ l.le_next[p] = e /\ p # NULL
      BY <1>1, <2>5, <2>7 DEF Linked
    <3>2. r[e] < r[p] /\ r[e] \in Nat /\ r[p] \in Nat
      BY <1>1, <2>5, <3>1 DEF Decreasing
    <3>3. p \notin U
      <4>1. p \in U => r[p] \in R
        OBVIOUS
      <4>2. p \in U => r[p] <= r[e]
        BY <2>3, <2>4, <4>1
      <4> QED BY <3>2, <4>2
    <3>4. PICK k \in 0 .. n : f[k] = p
      BY <3>1, <3>3
    <3>5. k # n
      BY <1>5, <3>1, <3>4
    <3>6. k + 1 \in 1 .. n /\ (k + 1) - 1 = k /\ k + 1 \in 0 .. n
      BY <3>5
    <3>7. f[k + 1] = e
      BY <3>1, <3>4, <3>6
    <3> QED BY <2>5, <3>6, <3>7
  <2> QED BY <2>6, <2>7
<1> QED BY <1>5, <1>6, <1>7 DEF VisitsAll

(***************************************************************************)
(* A walk from the head of the thread list comes to the live items, all of *)
(* them, and to an end.                                                    *)
(***************************************************************************)
THEOREM ServerListWalk == Spec => []ListIsLiveItems
<1>1. ListInv => ListIsLiveItems
  <2> SUFFICES ASSUME ListInv PROVE ListIsLiveItems
    OBVIOUS
  <2> DEFINE n == Cardinality(Clients)
             S == Live \cup {NULL}
             g == [e \in S |-> IF e = NULL THEN NULL ELSE list.le_next[e]]
  <2>1. n \in Nat
    BY FS_CardinalityType
  <2>2. list \in Lists /\ Live \in SUBSET Clients /\ Linked(list, Live)
    BY DEF ListInv, ListTypes, Lists, ListLinked, Live
  <2>3. list.lh_first \in S /\ g \in [S -> S]
    BY <2>2 DEF Linked
  <2>4. PICK f \in [0 .. n -> S] :
          f = [k \in 0 .. n |-> IF k = 0 THEN list.lh_first ELSE g[f[k - 1]]]
    <3> DEFINE x == list.lh_first
    <3>1. x \in S /\ g \in [S -> S] /\ n \in Nat
      BY <2>1, <2>3
    <3> HIDE DEF n, S, g, x
    <3>2. \E f : Iterates(f, x, g, n, S)
      BY ONLY <3>1, Iteration, Zenon
    <3> QED BY <3>2 DEF x, Iterates
  <2>5. \A k \in 1 .. n : k - 1 \in 0 .. n /\ k \in 0 .. n /\ k # 0
    BY <2>1
  <2>6. ASSUME NEW k \in 1 .. n
        PROVE  g[f[k - 1]] = IF f[k - 1] = NULL THEN NULL ELSE list.le_next[f[k - 1]]
    BY <2>4, <2>5
  <2>7. f = [k \in Turns |->
               IF k = 0 THEN LIST_FIRST(list)
               ELSE IF f[k-1] = NULL THEN NULL ELSE LIST_NEXT(list, f[k-1])]
    <3>1. ASSUME NEW k \in 0 .. n
          PROVE  f[k] = IF k = 0 THEN LIST_FIRST(list)
                        ELSE IF f[k-1] = NULL THEN NULL ELSE LIST_NEXT(list, f[k-1])
      <4>1. f[k] = IF k = 0 THEN list.lh_first ELSE g[f[k - 1]]
        BY <2>4, Zenon
      <4>2. k # 0 => k \in 1 .. n
        BY <2>1
      <4> HIDE DEF g
      <4> QED BY <2>6, <4>1, <4>2 DEF LIST_FIRST, LIST_NEXT
    <3>2. f = [k \in 0 .. n |-> f[k]]
      BY <2>4
    <3> QED BY <3>1, <3>2, Zenon DEF Turns
  <2>8. Visited = [k \in Turns |->
                     IF k = 0 THEN LIST_FIRST(list)
                     ELSE IF Visited[k-1] = NULL THEN NULL ELSE LIST_NEXT(list, Visited[k-1])]
    BY <2>7, Zenon DEF Visited
  <2> HIDE DEF Visited
  <2>9. \A k \in 0 .. n :
          Visited[k] = IF k = 0 THEN list.lh_first
                       ELSE IF Visited[k-1] = NULL THEN NULL ELSE list.le_next[Visited[k-1]]
    BY <2>8, Zenon DEF Turns, LIST_FIRST, LIST_NEXT
  <2>10. \A k \in 0 .. n : Visited[k] \in S
    <3> DEFINE T == {k \in Nat : k <= n /\ Visited[k] \notin S}
    <3>1. SUFFICES ASSUME T # {} PROVE FALSE
      BY <2>1
    <3>2. PICK k \in T : \A m \in T : k <= m
      <4>1. T \subseteq Nat
        OBVIOUS
      <4> HIDE DEF T
      <4> QED BY <3>1, <4>1, LeastNatural
    <3>3. k \in 0 .. n /\ k \in Nat /\ Visited[k] \notin S
      BY <2>1, <3>2
    <3>4. k # 0
      BY <2>3, <2>9, <3>3
    <3>5. k - 1 \in Nat /\ k - 1 <= n /\ ~(k <= k - 1)
      BY <2>1, <3>3, <3>4
    <3>6. k - 1 \notin T
      BY <3>2, <3>5, Zenon
    <3>7. Visited[k - 1] \in S
      BY <3>5, <3>6
    <3>8. Visited[k] = IF Visited[k - 1] = NULL THEN NULL ELSE list.le_next[Visited[k - 1]]
      BY <2>9, <3>3, <3>4
    <3> QED BY <2>2, <3>3, <3>7, <3>8 DEF Linked
  <2>11. Visited \in [0 .. n -> S]
    <3>1. Visited = [k \in 0 .. n |-> Visited[k]]
      BY <2>8, Zenon DEF Turns
    <3> QED BY <2>10, <3>1
  <2>12. PICK r \in [Clients -> Nat] : Decreasing(list, Live, r)
    BY DEF ListInv, Ranked
  <2>13. /\ Visited[0] = list.lh_first
         /\ \A k \in 1 .. n :
              Visited[k] = IF Visited[k - 1] = NULL THEN NULL ELSE list.le_next[Visited[k - 1]]
    BY <2>1, <2>5, <2>9
  <2>14. Visited[n] = NULL /\ {Visited[k] : k \in 0 .. n} \ {NULL} = Live
    <3>1. IsWalk(Visited, list, Live, n)
      BY <2>11, <2>13 DEF IsWalk
    <3> HIDE DEF n
    <3>2. n = Cardinality(Clients)
      BY DEF n
    <3>3. VisitsAll(Visited, Live, n)
      BY ONLY <2>1, <2>2, <2>12, <3>1, <3>2, WalkVisitsAll, Zenon
    <3> QED BY <3>3 DEF VisitsAll
  <2> QED BY <2>14 DEF ListIsLiveItems, Turns
<1> QED BY <1>1, ServerListInvariant, PTL

-----------------------------------------------------------------------------
(* Replies.                                                                *)

IsSequence(s) == \E E : s \in Seq(E)

\* A thread that uses the device holds file_mutex.
DeviceOwned ==
  \A c \in Clients :
    pc[c] \in {"write", "write_unlock", "read_open", "read_send", "read_unlock"} => file_mutex = c

\* What a call of filestore_read_to_dest has sent is a prefix of the
\* commands in the device.
ReplyIsPrefix ==
  \A c \in Clients :
    /\ pc[c] = "read_send" =>
         /\ ret[c] = 0
         /\ Len(reply[c]) \in 0 .. Len(lines)
         /\ reply[c] = SubSeq(lines, 1, Len(reply[c]))
    /\ pc[c] = "read_unlock" /\ ret[c] = 0 => reply[c] = lines
    /\ pc[c] \notin {"read_send", "read_unlock"} => ret[c] = 0 /\ reply[c] = <<>>

ReplyTypes ==
  /\ IsSequence(lines)
  /\ ret \in [Clients -> {0, -1}]
  /\ reply = [c \in Clients |-> reply[c]]

ReplyInv == ReplyTypes /\ DeviceOwned /\ ReplyIsPrefix

(***************************************************************************)
(* What the device holds after a completed command is a sequence again.    *)
(***************************************************************************)
LEMMA PushSequence ==
  ASSUME NEW s, NEW x, IsSequence(s)
  PROVE  IsSequence(Push(s, x))
<1>1. PICK E : s \in Seq(E)
  BY DEF IsSequence
<1>2. s \in Seq(E \cup {x})
  BY <1>1
<1>3. Append(s, x) \in Seq(E \cup {x})
  BY <1>2
<1>4. s # <<>> => Append(Tail(s), x) \in Seq(E \cup {x})
  BY <1>2
<1>5. Len(s) >= N => s # <<>>
  BY <1>1
<1>6. Len(s) \in Nat /\ N \in Nat
  BY <1>1
<1>7. Push(s, x) \in Seq(E \cup {x})
  BY <1>3, <1>4, <1>5, <1>6 DEF Push
<1> QED
  BY <1>7 DEF IsSequence

(***************************************************************************)
(* Steps that move neither the device nor a reply; a thread may take       *)
(* file_mutex when it is free, give its own back, or leave it locked.      *)
(***************************************************************************)
LEMMA QuietInv ==
  ASSUME ListInv, ReplyInv, NEW c \in Clients,
         ReadLine(c) \/ WriteLock(c) \/ WriteUnlock(c) \/ ReadLock(c) \/ Closing(c)
  PROVE  ReplyInv'
<1>1. UNCHANGED <<lines, reply, ret>>
  BY DEF ReadLine, TakeLine, WriteLock, WriteUnlock, ReadLock, Closing
<1>2. PICK to \in {"write_lock", "closing", "write", "read_lock", "read_open",
                   "completing", "returning", "ended"} : pc' = [pc EXCEPT ![c] = to]
  BY DEF ReadLine, TakeLine, WriteLock, WriteUnlock, ReadLock, Closing, Goto
<1>3. pc[c] \notin {"read_send", "read_unlock"}
  BY DEF ReadLine, TakeLine, WriteLock, WriteUnlock, ReadLock, Closing, Goto
<1>4. pc \in [Clients -> {"none", "read_line", "write_lock", "write", "write_unlock",
                         "read_lock", "read_open", "read_send", "read_unlock",
                         "closing", "completing", "returning", "ended"}]
  BY DEF ListInv, ListTypes
<1>5. \/ to \notin {"write", "read_open"} /\ UNCHANGED file_mutex
      \/ file_mutex = Nobody /\ file_mutex' = c
      \/ to \notin {"write", "read_open"} /\ file_mutex = c /\ file_mutex' = Nobody
  BY <1>2, <1>4 DEF ReadLine, TakeLine, WriteLock, WriteUnlock, ReadLock, Closing, Goto,
                    ReplyInv, DeviceOwned
<1>6. ReplyTypes'
  BY <1>1 DEF ReplyInv, ReplyTypes
<1>7. DeviceOwned'
  BY <1>2, <1>4, <1>5 DEF ReplyInv, DeviceOwned
<1>8. ReplyIsPrefix'
  BY <1>1, <1>2, <1>3, <1>4 DEF ReplyInv, ReplyIsPrefix
<1> QED
  BY <1>6, <1>7, <1>8 DEF ReplyInv

(***************************************************************************)
(* write: whoever changes the device holds file_mutex, so that no reply is *)
(* under way.                                                              *)
(***************************************************************************)
LEMMA WriteInv ==
  ASSUME ListInv, ReplyInv, NEW c \in Clients, Write(c)
  PROVE  ReplyInv'
<1>1. UNCHANGED <<file_mutex, reply, ret>>
  BY DEF Write
<1>2. PICK to \in {"write_unlock", "read_lock"} : pc' = [pc EXCEPT ![c] = to]
  BY DEF Write, Goto
<1>3. pc[c] = "write" /\ file_mutex = c
  BY DEF Write, Goto, ReplyInv, DeviceOwned
<1>4. pc \in [Clients -> {"none", "read_line", "write_lock", "write", "write_unlock",
                         "read_lock", "read_open", "read_send", "read_unlock",
                         "closing", "completing", "returning", "ended"}]
  BY DEF ListInv, ListTypes
<1>5. UNCHANGED lines \/ \E x : lines' = Push(lines, x)
  BY DEF Write, aesd_write
<1>6. IsSequence(lines')
  BY <1>5, PushSequence DEF ReplyInv, ReplyTypes
<1>7. ReplyTypes'
  BY <1>1, <1>6 DEF ReplyInv, ReplyTypes
<1>8. DeviceOwned'
  BY <1>1, <1>2, <1>3, <1>4 DEF ReplyInv, DeviceOwned
<1>9. \A d \in Clients : d # c => pc[d] \notin {"read_send", "read_unlock"}
  BY <1>3 DEF ReplyInv, DeviceOwned
<1>10. ReplyIsPrefix'
  BY <1>1, <1>2, <1>3, <1>4, <1>9 DEF ReplyInv, ReplyIsPrefix
<1> QED
  BY <1>7, <1>8, <1>10 DEF ReplyInv

(***************************************************************************)
(* open, and the turns of the loop of reads and sends.                     *)
(***************************************************************************)
LEMMA ReadInv ==
  ASSUME ListInv, ReplyInv, NEW c \in Clients, ReadOpen(c) \/ ReadSend(c)
  PROVE  ReplyInv'
<1>1. UNCHANGED <<file_mutex, lines>>
  BY DEF ReadOpen, ReadSend, ReadSendUpTo
<1>2. pc[c] \in {"read_open", "read_send"} /\ file_mutex = c
  BY DEF ReadOpen, ReadSend, ReadSendUpTo, Goto, ReplyInv, DeviceOwned
<1>3. \A d \in Clients : d # c => pc[d] \notin {"read_send", "read_unlock"}
  BY <1>2 DEF ReplyInv, DeviceOwned
<1>4. pc \in [Clients -> {"none", "read_line", "write_lock", "write", "write_unlock",
                         "read_lock", "read_open", "read_send", "read_unlock",
                         "closing", "completing", "returning", "ended"}]
  BY DEF ListInv, ListTypes
<1>5. PICK E : lines \in Seq(E)
  BY DEF ReplyInv, ReplyTypes, IsSequence
<1>6. PICK to \in {"read_send", "read_unlock"} : pc' = [pc EXCEPT ![c] = to]
  <2>1. UNCHANGED pc /\ pc[c] = "read_send" => pc' = [pc EXCEPT ![c] = "read_send"]
    BY <1>4
  <2> QED
    BY <2>1 DEF ReadOpen, ReadSend, ReadSendUpTo, Goto
<1>7. DeviceOwned'
  BY <1>1, <1>2, <1>4, <1>6 DEF ReplyInv, DeviceOwned
<1>8. CASE UNCHANGED <<reply, ret>> /\ to = "read_send"
  <2>1. SubSeq(lines, 1, 0) = <<>> /\ Len(lines) \in Nat
    BY <1>5, EndPrefixes
  <2>2. ReplyTypes'
    BY <1>1, <1>8 DEF ReplyInv, ReplyTypes
  <2>3. /\ ret[c] = 0 /\ Len(reply[c]) \in 0 .. Len(lines)
        /\ reply[c] = SubSeq(lines, 1, Len(reply[c]))
    <3>1. CASE pc[c] = "read_send"
      BY <3>1 DEF ReplyInv, ReplyIsPrefix
    <3>2. CASE pc[c] = "read_open"
      <4>1. ret[c] = 0 /\ reply[c] = <<>> /\ Len(<<>>) = 0
        BY <3>2 DEF ReplyInv, ReplyIsPrefix
      <4> QED
        BY <2>1, <4>1
    <3> QED
      BY <1>2, <3>1, <3>2
  <2>4. ReplyIsPrefix'
    BY <1>1, <1>3, <1>4, <1>6, <1>8, <2>3 DEF ReplyInv, ReplyIsPrefix
  <2> QED
    BY <1>7, <2>2, <2>4 DEF ReplyInv
<1>9. CASE ret' = [ret EXCEPT ![c] = -1] /\ UNCHANGED reply /\ to = "read_unlock"
  <2>1. ReplyTypes'
    BY <1>1, <1>9 DEF ReplyInv, ReplyTypes
  <2>2. ret'[c] = -1 /\ \A d \in Clients : d # c => ret'[d] = ret[d]
    BY <1>9 DEF ReplyInv, ReplyTypes
  <2>3. ReplyIsPrefix'
    BY <1>1, <1>3, <1>4, <1>6, <1>9, <2>2 DEF ReplyInv, ReplyIsPrefix
  <2> QED
    BY <1>7, <2>1, <2>3 DEF ReplyInv
<1>10. CASE ReadSend(c) /\ ~More(c, Len(lines)) /\ UNCHANGED <<reply, ret>> /\ to = "read_unlock"
  <2>1. reply[c] = lines
    <3>1. /\ Len(reply[c]) \in 0 .. Len(lines) /\ reply[c] = SubSeq(lines, 1, Len(reply[c]))
      BY <1>10 DEF ReadSend, ReadSendUpTo, ReplyInv, ReplyIsPrefix
    <3>2. Len(reply[c]) = Len(lines)
      BY <1>5, <1>10, <3>1 DEF More
    <3> QED
      BY <1>5, <3>1, <3>2, EndPrefixes
  <2>2. ReplyTypes'
    BY <1>1, <1>10 DEF ReplyInv, ReplyTypes
  <2>3. ReplyIsPrefix'
    BY <1>1, <1>3, <1>4, <1>6, <1>10, <2>1 DEF ReplyInv, ReplyIsPrefix
  <2> QED
    BY <1>7, <2>2, <2>3 DEF ReplyInv
<1>11. CASE /\ ReadSend(c) /\ More(c, Len(lines)) /\ UNCHANGED ret /\ to = "read_send"
            /\ reply' = [reply EXCEPT ![c] = Append(@, lines[Len(@) + 1])]
  <2> DEFINE k == Len(reply[c])
  <2>1. ret[c] = 0 /\ k \in Nat /\ k < Len(lines) /\ reply[c] = SubSeq(lines, 1, k)
    BY <1>5, <1>11 DEF ReadSend, ReadSendUpTo, More, ReplyInv, ReplyIsPrefix
  <2>2. Append(reply[c], lines[k + 1]) = SubSeq(lines, 1, k + 1)
    BY <1>5, <2>1, NextPrefix
  <2>3. reply'[c] = SubSeq(lines, 1, k + 1) /\ \A d \in Clients : d # c => reply'[d] = reply[d]
    BY <1>11, <2>2 DEF ReplyInv, ReplyTypes
  <2>4. Len(SubSeq(lines, 1, k + 1)) = k + 1 /\ k + 1 \in 0 .. Len(lines)
    BY <1>5, <2>1
  <2>5. ReplyTypes'
    <3>1. reply' = [d \in Clients |-> reply'[d]]
      BY <1>11 DEF ReplyInv, ReplyTypes
    <3> QED
      BY <1>1, <1>11, <3>1 DEF ReplyInv, ReplyTypes
  <2>6. ReplyIsPrefix'
    <3> HIDE DEF k
    <3> QED
      BY <1>1, <1>3, <1>4, <1>6, <1>11, <2>1, <2>3, <2>4 DEF ReplyInv, ReplyIsPrefix
  <2> QED
    BY <1>7, <2>5, <2>6 DEF ReplyInv
<1> QED
  <2>1. CASE ReadOpen(c)
    BY <1>4, <1>6, <1>8, <1>9, <2>1 DEF ReadOpen, Goto
  <2>2. CASE ReadSend(c)
    BY <1>4, <1>6, <1>8, <1>9, <1>10, <1>11, <2>2 DEF ReadSend, ReadSendUpTo
  <2> QED
    BY <2>1, <2>2

(***************************************************************************)
(* The return of filestore_read_to_dest.                                   *)
(***************************************************************************)
LEMMA ReadUnlockInv ==
  ASSUME ListInv, ReplyInv, NEW c \in Clients, ReadUnlock(c)
  PROVE  ReplyInv'
<1>1. /\ pc[c] = "read_unlock" /\ pc' = [pc EXCEPT ![c] = "read_line"]
      /\ file_mutex' = Nobody /\ UNCHANGED lines
      /\ reply' = [reply EXCEPT ![c] = <<>>] /\ ret' = [ret EXCEPT ![c] = 0]
  BY DEF ReadUnlock, Goto
<1>2. file_mutex = c
  BY <1>1 DEF ReplyInv, DeviceOwned
<1>3. pc \in [Clients -> {"none", "read_line", "write_lock", "write", "write_unlock",
                         "read_lock", "read_open", "read_send", "read_unlock",
                         "closing", "completing", "returning", "ended"}]
  BY DEF ListInv, ListTypes
<1>4. ReplyTypes'
  <2>1. reply' = [d \in Clients |-> reply'[d]]
    BY <1>1 DEF ReplyInv, ReplyTypes
  <2> QED
    BY <1>1, <2>1 DEF ReplyInv, ReplyTypes
<1>5. DeviceOwned'
  BY <1>1, <1>2, <1>3 DEF ReplyInv, DeviceOwned
<1>6. /\ reply'[c] = <<>> /\ ret'[c] = 0
      /\ \A d \in Clients : d # c => reply'[d] = reply[d] /\ ret'[d] = ret[d]
  BY <1>1 DEF ReplyInv, ReplyTypes
<1>7. ReplyIsPrefix'
  BY <1>1, <1>3, <1>6 DEF ReplyInv, ReplyIsPrefix
<1> QED
  BY <1>4, <1>5, <1>7 DEF ReplyInv

(***************************************************************************)
(* Main, signals and clients; accept starts a thread at read_line.         *)
(***************************************************************************)
LEMMA OthersReplyInv ==
  ASSUME ListInv, ReplyInv,
         Main \/ signal_handler \/ (\E c \in Clients : Client(c))
  PROVE  ReplyInv'
<1>1. UNCHANGED <<file_mutex, lines, reply, ret>>
  BY DEF Main, Setup, LoopTest, Accept, AcceptFails, Reap, Cleanup, Exit, signal_handler,
         Client, Connect, ClientSend, Shutdown, Vanish
<1>2. pc \in [Clients -> {"none", "read_line", "write_lock", "write", "write_unlock",
                         "read_lock", "read_open", "read_send", "read_unlock",
                         "closing", "completing", "returning", "ended"}]
  BY DEF ListInv, ListTypes
<1>3. ReplyTypes'
  BY <1>1 DEF ReplyInv, ReplyTypes
<1>4. CASE UNCHANGED pc
  BY <1>1, <1>3, <1>4 DEF ReplyInv, DeviceOwned, ReplyIsPrefix
<1>5. CASE Accept /\ pc' = [pc EXCEPT ![Head(pending)] = "read_line"]
  <2>1. pending \in Seq(Clients) /\ pending # <<>>
    BY <1>5 DEF Accept, ListInv, ListTypes
  <2>2. PICK c \in Clients : c = Head(pending) /\ pc[c] = "none"
    BY <2>1 DEF ListInv, Fresh
  <2> QED
    BY <1>1, <1>2, <1>3, <1>5, <2>2 DEF ReplyInv, DeviceOwned, ReplyIsPrefix
<1> QED
  BY <1>4, <1>5
  DEF Main, Setup, LoopTest, Accept, AcceptFails, Reap, Cleanup, Exit, signal_handler,
      Client, Connect, ClientSend, Shutdown, Vanish

(***************************************************************************)
(* Whoever uses the device holds file_mutex, and what a reply has sent is  *)
(* a prefix of what the device holds.                                      *)
(***************************************************************************)
THEOREM ServerReplyInvariant == Spec => []ReplyInv
<1>1. Init => ReplyInv
  <2> SUFFICES ASSUME Init PROVE ReplyInv
    OBVIOUS
  <2>1. lines \in Seq({}) /\ lines = <<>>
    BY DEF Init
  <2>2. /\ pc = [c \in Clients |-> "none"] /\ reply = [c \in Clients |-> <<>>]
        /\ ret = [c \in Clients |-> 0]
    BY DEF Init
  <2>3. ReplyTypes
    BY <2>1, <2>2 DEF ReplyTypes, IsSequence
  <2> QED
    BY <2>2, <2>3 DEF ReplyInv, DeviceOwned, ReplyIsPrefix
<1>2. ListInv /\ ReplyInv /\ [Next]_vars => ReplyInv'
  <2> SUFFICES ASSUME ListInv, ReplyInv, [Next]_vars PROVE ReplyInv'
    OBVIOUS
  <2>1. CASE Main \/ signal_handler \/ (\E c \in Clients : Client(c))
    BY <2>1, OthersReplyInv
  <2>2. ASSUME NEW c \in Clients, Thread(c) PROVE ReplyInv'
    BY <2>2, QuietInv, WriteInv, ReadInv, ReadUnlockInv DEF Thread
  <2>3. CASE UNCHANGED vars
    BY <2>3 DEF vars, ReplyInv, ReplyTypes, DeviceOwned, ReplyIsPrefix
  <2> QED
    BY <2>1, <2>2, <2>3 DEF Next
<1> QED
  BY <1>1, <1>2, ServerListInvariant, PTL DEF Spec

\* Only a failed read makes a call send what is not the device's.
JunkFromReads == junk \in [Clients -> IF "read" \in Faults THEN BOOLEAN ELSE {FALSE}]

(***************************************************************************)
(* Junk comes from failed reads alone.                                     *)
(***************************************************************************)
THEOREM ServerJunk == Spec => []JunkFromReads
<1> DEFINE Values == IF "read" \in Faults THEN BOOLEAN ELSE {FALSE}
<1>1. Init => JunkFromReads
  BY DEF Init, JunkFromReads
<1>2. JunkFromReads /\ [Next]_vars => JunkFromReads'
  <2> SUFFICES ASSUME JunkFromReads, [Next]_vars PROVE JunkFromReads'
    OBVIOUS
  <2>1. \/ UNCHANGED junk
        \/ \E c \in Clients : \E v \in Values : junk' = [junk EXCEPT ![c] = v]
    <3>1. CASE Main \/ signal_handler \/ (\E c \in Clients : Client(c))
      BY <3>1
      DEF Main, Setup, LoopTest, Accept, AcceptFails, Reap, Cleanup, Exit, signal_handler,
          Client, Connect, ClientSend, Shutdown, Vanish
    <3>2. ASSUME NEW c \in Clients, Thread(c)
          PROVE  UNCHANGED junk \/ \E v \in Values : junk' = [junk EXCEPT ![c] = v]
      <4>1. CASE ReadSend(c)
        BY <4>1 DEF ReadSend, ReadSendUpTo, ReadMayFail
      <4>2. CASE ReadUnlock(c)
        BY <4>2 DEF ReadUnlock
      <4>3. CASE ~ReadSend(c) /\ ~ReadUnlock(c)
        BY <3>2, <4>3
        DEF Thread, ReadLine, TakeLine, WriteLock, Write, WriteUnlock, ReadLock, ReadOpen, Closing
      <4> QED
        BY <4>1, <4>2, <4>3
    <3>3. CASE UNCHANGED vars
      BY <3>3 DEF vars
    <3> QED
      BY <3>1, <3>2, <3>3 DEF Next
  <2>2. \A c \in Clients : \A v \in Values : [junk EXCEPT ![c] = v] \in [Clients -> Values]
    <3>1. junk \in [Clients -> Values]
      BY DEF JunkFromReads
    <3> HIDE DEF Values
    <3> QED
      BY <3>1
  <2> QED
    BY <2>1, <2>2, Zenon DEF JunkFromReads
<1> QED
  BY <1>1, <1>2, PTL DEF Spec

(***************************************************************************)
(* A reply that has not failed is what the device holds at that moment,    *)
(* all of it and in order, for any number of connections and any number N  *)
(* of commands, and nothing besides unless reads may fail.                 *)
(***************************************************************************)
THEOREM ServerSnapshotReply == Spec => []SnapshotReply
<1>1. ReplyInv /\ JunkFromReads => SnapshotReply
  <2>1. JunkFromReads => \A c \in Clients : "read" \notin Faults => ~junk[c]
    BY DEF JunkFromReads
  <2> QED
    BY <2>1 DEF ReplyInv, ReplyIsPrefix, SnapshotReply
<1> QED
  BY <1>1, ServerReplyInvariant, ServerJunk, PTL
=============================================================================
