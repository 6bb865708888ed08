---------------------------- MODULE MCAesdSocket ----------------------------
(***************************************************************************)
(* Instances of AesdSocket for TLC: few connections with few lines each,   *)
(* and a device that keeps fewer commands than the clients send together.  *)
(***************************************************************************)
EXTENDS AesdSocket, TLC

Symmetry == Permutations(Clients)

=============================================================================
