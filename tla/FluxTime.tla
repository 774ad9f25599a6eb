------------------------------ MODULE FluxTime ------------------------------
(***************************************************************************)
(* The time slots in which every part of ModernFlux keeps its statistics.  *)
(* A statistics ring covers one period of NumPerMin slots of NumPerIndex   *)
(* seconds (6 slots of 10 seconds, so one minute, in the code).  A slot    *)
(* is named by its index in the ring and by its timekey, the first second  *)
(* it covers; the same index is used again one period later, and the       *)
(* timekey is what tells the two uses apart.                               *)
(* Modelled from GetTimeKey of QuaAgent/src/flux/module.go, which the C++  *)
(* server (ServiceQua.cpp), the Go SDK and the PHP API repeat; as they do   *)
(* GetAverQ, the mean of a ring of quotas.                                 *)
(***************************************************************************)
EXTENDS Integers, FiniteSets, Functions

CONSTANTS
  NumPerMin,     \* slots of the ring (NUM_PER_MIN)
  NumPerIndex    \* seconds of a slot (NUM_PER_INDEX)

ASSUME SlotAssumption ==
  /\ NumPerMin \in Nat \ {0}
  /\ NumPerIndex \in Nat \ {0}

Slots == 0 .. NumPerMin - 1
Period == NumPerMin * NumPerIndex

SlotIndex(t) == (t % Period) \div NumPerIndex
TimeKey(t) == (t - (t % Period)) + SlotIndex(t) * NumPerIndex

\* The mean of those of n quotas that are not zero.
Mean(q, n) ==
  LET some == {i \in 0 .. n - 1 : q[i] > 0}
  IN  IF some = {} THEN 0
      ELSE SumFunctionOnSet(q, 0 .. n - 1) \div Cardinality(some)
=============================================================================
