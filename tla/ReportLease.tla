----------------------------- MODULE ReportLease -----------------------------
(***************************************************************************)
(* What the reporting goroutine of QuaAgent promises the quota server and  *)
(* the worker about the reports of a key, whatever its queues, its ring of *)
(* slots and the network do.                                               *)
(*                                                                         *)
(* A key's reporting is "idle" (no report outstanding), "out" (one is      *)
(* outstanding) or "dead" (never again).  The code means to have only the  *)
(* first two: "dead" is what it does when it throws away a late answer of  *)
(* an outstanding report (quota.go, lines 52-55).                          *)
(***************************************************************************)
EXTENDS Naturals

CONSTANTS
  Keys,          \* the flow-control keys
  ReportPeriod,  \* least seconds between two reports of a key
  LateAfter,     \* an answer is used only when it is younger than this
  RetryAfter,    \* an outstanding report is replaced only after this
  Start          \* the second at which the agent starts

VARIABLES
  now,           \* the clock
  phase,         \* what is going on with a key's report
  lastsend       \* when the key was last reported; 0 when it never was

leaseVars == <<now, phase, lastsend>>

LeaseInit ==
  /\ now = Start
  /\ phase = [k \in Keys |-> "idle"]
  /\ lastsend = [k \in Keys |-> 0]

\* Reports of a key are at least ReportPeriod seconds apart, and one that is
\* outstanding is replaced only when it is overdue.
Send(k) ==
  /\ \/ phase[k] = "idle"
     \/ phase[k] = "out" /\ now - lastsend[k] > RetryAfter
  /\ lastsend[k] = 0 \/ now - lastsend[k] >= ReportPeriod
  /\ phase' = [phase EXCEPT ![k] = "out"]
  /\ lastsend' = [lastsend EXCEPT ![k] = now]
  /\ UNCHANGED now

\* An answer is used only while its key has a young report outstanding.
Accept(k) ==
  /\ phase[k] = "out"
  /\ now - lastsend[k] < LateAfter
  /\ phase' = [phase EXCEPT ![k] = "idle"]
  /\ UNCHANGED <<now, lastsend>>

\* A late answer ends the key's reporting.
Lose(k) ==
  /\ phase[k] = "out"
  /\ now - lastsend[k] >= LateAfter
  /\ phase' = [phase EXCEPT ![k] = "dead"]
  /\ UNCHANGED <<now, lastsend>>

Pass == now' = now + 1 /\ UNCHANGED <<phase, lastsend>>

LeaseNext == Pass \/ \E k \in Keys : Send(k) \/ Accept(k) \/ Lose(k)

LeaseSpec == LeaseInit /\ [][LeaseNext]_leaseVars
=============================================================================
