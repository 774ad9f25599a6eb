----------------------------- MODULE MCDemoApi -----------------------------
(***************************************************************************)
(* Instances of DemoApi for TLC.                                           *)
(***************************************************************************)
EXTENDS DemoApi, TLC

Answer(q, s, sq) == [localq |-> q, setsum |-> s, setquota |-> sq]
MCAnswers == {Answer(1, 1, 2), Answer(0, 0, 0)}
=============================================================================
