---------------------------- MODULE MCSystemCalls ----------------------------
(***************************************************************************)
(* The instance of SystemCalls for TLC: prints before, between and after   *)
(* calls, the second of which meets what the first has left.               *)
(***************************************************************************)
EXTENDS SystemCalls
=============================================================================
