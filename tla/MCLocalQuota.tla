---------------------------- MODULE MCLocalQuota ----------------------------
(***************************************************************************)
(* An instance of LocalQuota for TLC: two threads, a key and the key it is *)
(* judged after.                                                           *)
(***************************************************************************)
EXTENDS LocalQuota, TLC

CONSTANTS Act, Ref

ReferToRef(k) == IF k = Act THEN Ref ELSE NoKey

Answer(q, p, w) == [localq |-> q, workers |-> w, setquota |-> 4, setsum |-> 1,
                    procquota |-> p]
TwoAnswers == {Answer(2, 1, 0), Answer(3, 0, 2)}

ThreadSymmetry == Permutations(Threads)
=============================================================================
