------------------------------ MODULE MCPhpApi ------------------------------
(***************************************************************************)
(* Instances of PhpApi for TLC.                                            *)
(***************************************************************************)
EXTENDS PhpApi, TLC

Answer(q, sq, pq) ==
  [localq |-> q, totalworkernum |-> 2, setquota |-> sq, procquota |-> pq]

TwoAnswers == {Answer(2, 0, 0), Answer(1, 3, 1)}
WorkerSymmetry == Permutations(Workers)
=============================================================================
