----------------------------- MODULE ThreadList -----------------------------
(***************************************************************************)
(* The LIST macros of server/queue.h that the server uses for its threads: *)
(* a doubly linked list.  The C head and the links embedded in the items   *)
(* are one record.  An item's le_prev is the address of the link that      *)
(* points to it, here the holder of that link: HEAD for the head's         *)
(* lh_first, an item for its le_next.                                      *)
(***************************************************************************)
CONSTANTS
  Items,  \* the items' addresses
  NULL,   \* the null pointer
  HEAD    \* the address of the head's lh_first

\* A fresh list; what the links of items hold before their insertion does
\* not matter, malloc leaves them uninitialised.
LIST_INIT ==
  [lh_first |-> NULL,
   le_next  |-> [e \in Items |-> NULL],
   le_prev  |-> [e \in Items |-> NULL]]

LIST_FIRST(l)   == l.lh_first
LIST_NEXT(l, e) == l.le_next[e]

\* *link = e, for the link that its holder names.
Assign(l, holder, e) ==
  IF holder = HEAD THEN [l EXCEPT !.lh_first = e] ELSE [l EXCEPT !.le_next[holder] = e]

\* e->le_prev = the link of holder; nothing for the null pointer.
SetPrev(l, e, holder) == IF e = NULL THEN l ELSE [l EXCEPT !.le_prev[e] = holder]

LIST_INSERT_HEAD(l, e) ==
  LET linked == SetPrev([l EXCEPT !.le_next[e] = LIST_FIRST(l)], LIST_FIRST(l), e)
  IN  [linked EXCEPT !.lh_first = e, !.le_prev[e] = HEAD]

\* Mutant: the next item keeps its link back to the removed one.
LIST_REMOVE_OneWay(l, e) == Assign(l, l.le_prev[e], LIST_NEXT(l, e))

LIST_REMOVE(l, e) ==
  Assign(SetPrev(l, LIST_NEXT(l, e), l.le_prev[e]), l.le_prev[e], LIST_NEXT(l, e))

(***************************************************************************)
(* The links of the items S are consistent: each item is where its le_prev *)
(* says it is, and no link leads out of S.                                 *)
(***************************************************************************)
Linked(l, S) ==
  /\ l.lh_first \in S \cup {NULL}
  /\ l.lh_first # NULL => l.le_prev[l.lh_first] = HEAD
  /\ \A e \in S :
       /\ l.le_next[e] \in S \cup {NULL}
       /\ l.le_next[e] # NULL => l.le_prev[l.le_next[e]] = e
       /\ l.le_prev[e] \in S \cup {HEAD}
       /\ l.le_prev[e] = HEAD => l.lh_first = e
       /\ l.le_prev[e] # HEAD => l.le_next[l.le_prev[e]] = e
=============================================================================
