----------------------------- MODULE MCSetServer -----------------------------
(***************************************************************************)
(* The instance of SetServer for TLC.                                      *)
(***************************************************************************)
EXTENDS SetServer, TLC

OneHost(p) == "host"
Batch(s, r) == [sum |-> s, refuse |-> r, setrefuse |-> 0]
Threes == {Batch(3, 0)}
ProcSymmetry == Permutations(Procs)
AllQuotas == 1 .. 2^Width - 1
=============================================================================
