---------------------------- MODULE MCQuotaServer ----------------------------
(***************************************************************************)
(* Instances of QuotaServer for TLC.                                       *)
(***************************************************************************)
EXTENDS QuotaServer, TLC

OneHost(p) == "host"
OwnHost(p) == p

Batch(s, r) == [sum |-> s, refuse |-> r, setrefuse |-> 0]
OneOrThree == {Batch(1, 0), Batch(3, 0)}
OneEach == {Batch(1, 1)}

ProcSymmetry == Permutations(Procs)
=============================================================================
