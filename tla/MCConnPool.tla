----------------------------- MODULE MCConnPool -----------------------------
(* Model values and symmetry for the runs of ConnPool. *)
EXTENDS ConnPool, TLC

Symmetry == Permutations(User) \cup Permutations(Conn)
=============================================================================
