----------------------------- MODULE MCRpcCall ------------------------------
(* Symmetry for the runs of RpcCall. *)
EXTENDS RpcCall, TLC

Symmetry == Permutations(Conn)
=============================================================================
