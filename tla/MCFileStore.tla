----------------------------- MODULE MCFileStore -----------------------------
(***************************************************************************)
(* The instance of FileStore for TLC: connections and a timer that write   *)
(* few entries each, with all of Faults.                                   *)
(***************************************************************************)
EXTENDS FileStore
=============================================================================
