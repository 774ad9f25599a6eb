----------------------------- MODULE QosBreaker -----------------------------
(***************************************************************************)
(* The circuit breaker in front of the quota server: checkqos.go, and the  *)
(* part of pool.TCPSend (pool.go) that asks it and reports back.           *)
(*                                                                         *)
(* Every finished send reports success or failure through RetMsCh to the   *)
(* goroutine UpdateQos, which counts it in a ring of one-second slots,     *)
(* judges the last seconds, and puts one verdict into CheckQosCh.  A send  *)
(* takes one verdict out, and goes ahead when there is none.  The verdicts *)
(* are tokens: a refused send reports nothing, so it uses one up.          *)
(*                                                                         *)
(* UpdateQos reads the clock twice, once to count and once to judge, and   *)
(* its put into CheckQosCh blocks while the channel is full.  The random   *)
(* number is seeded with the second, so all verdicts of a second draw the  *)
(* same one: coin.                                                         *)
(***************************************************************************)
EXTENDS Integers, Sequences, FiniteSets, Functions

CONSTANTS
  PastTime,       \* slots of the ring, and how far back it may look (30)
  WinLen,         \* slots judged (s_win_len, 6)
  Threshold,      \* failures that are always tolerated (500)
  FlowThreshold,  \* tolerated rate of failures, out of RatioCheck (20)
  RatioCheck,     \* (100)
  QosCap, RetCap, \* capacities of CheckQosCh and RetMsCh (100)
  MaxInflight,    \* bound: sends under way at a time
  Start,          \* the second at which the agent starts
  MaxTime,        \* bound: the last second of the clock
  MaxSends        \* bound: sends

ASSUME BreakerAssumption ==
  /\ PastTime \in Nat \ {0} /\ WinLen \in 1 .. PastTime
  /\ Threshold \in Nat /\ RatioCheck \in Nat /\ FlowThreshold \in 0 .. RatioCheck
  /\ QosCap \in Nat \ {0} /\ RetCap \in Nat
  /\ MaxInflight \in Nat
  /\ Start \in Nat /\ Start > PastTime
  /\ MaxTime \in Nat /\ MaxSends \in Nat

Ring == 0 .. PastTime - 1

VARIABLES
  now,        \* the clock, in seconds
  coin,       \* what HitProbaCheck draws in this second
  quawin,     \* the ring of slots
  upc,        \* UpdateQos is at "wait", "check" or "push"
  verdict,    \* the verdict it is about to put
  CheckQosCh, \* verdicts waiting for sends
  RetMsCh,    \* outcomes waiting for UpdateQos: TRUE is success
  inflight,   \* sends that were let through and have not ended
  sends,      \* sends so far (bounds the model)
  outcomes,   \* history: the outcomes counted, with their seconds
  checked,    \* history: when the last verdict was found, and what it counted
  row         \* history: sends refused since the last one let through

uservars == <<quawin, upc, verdict>>
channels == <<CheckQosCh, RetMsCh>>
history == <<outcomes, checked, row>>
vars == <<now, coin, uservars, channels, inflight, sends, history>>

Init ==
  /\ now = Start
  /\ coin \in BOOLEAN
  /\ quawin = [i \in Ring |-> [tTime |-> 0, suc |-> 0, fail |-> 0]]
  /\ upc = "wait"
  /\ verdict = TRUE
  /\ CheckQosCh = <<TRUE>>
  /\ RetMsCh = <<>>
  /\ inflight = 0
  /\ sends = 0
  /\ outcomes = <<>>
  /\ checked = [at |-> 0, suc |-> 0, fail |-> 0]
  /\ row = 0

-----------------------------------------------------------------------------
\* TCPSend.

\* It is let through by a verdict, or because there is none.
SendAllowed ==
  /\ sends < MaxSends
  /\ sends' = sends + 1
  /\ inflight < MaxInflight
  /\ inflight' = inflight + 1
  /\ \/ CheckQosCh = <<>> /\ UNCHANGED CheckQosCh
     \/ /\ CheckQosCh # <<>>
        /\ Head(CheckQosCh) = TRUE
        /\ CheckQosCh' = Tail(CheckQosCh)
  /\ row' = 0
  /\ UNCHANGED <<now, coin, uservars, RetMsCh, outcomes, checked>>

\* A mistake: a refused send puts its verdict back.
SendRefusedPutsBack ==
  /\ sends < MaxSends
  /\ sends' = sends + 1
  /\ CheckQosCh # <<>>
  /\ Head(CheckQosCh) = FALSE
  /\ row' = row + 1
  /\ UNCHANGED <<now, coin, uservars, channels, inflight, outcomes, checked>>

SendRefused ==
  /\ sends < MaxSends
  /\ sends' = sends + 1
  /\ CheckQosCh # <<>>
  /\ Head(CheckQosCh) = FALSE
  /\ CheckQosCh' = Tail(CheckQosCh)
  /\ row' = row + 1
  /\ UNCHANGED <<now, coin, uservars, RetMsCh, inflight, outcomes, checked>>

\* No connection to be had: it returns without reporting an outcome.
AcquireFails ==
  /\ inflight > 0
  /\ inflight' = inflight - 1
  /\ UNCHANGED <<now, coin, uservars, channels, sends, history>>

\* UpdateQosToCh: the outcome is dropped when RetMsCh is full.
SendEnds(ok) ==
  /\ inflight > 0
  /\ inflight' = inflight - 1
  /\ RetMsCh' = IF Len(RetMsCh) < RetCap THEN Append(RetMsCh, ok) ELSE RetMsCh
  /\ UNCHANGED <<now, coin, uservars, CheckQosCh, sends, history>>

-----------------------------------------------------------------------------
\* UpdateQos.

\* A mistake: a slot is not emptied when its second comes round again.
FreshNever(slot) == [slot EXCEPT !.tTime = now]

Fresh(slot) ==
  IF slot.tTime = 0 \/ now - slot.tTime >= PastTime
  THEN [tTime |-> now, suc |-> 0, fail |-> 0]
  ELSE slot

Counted(slot, ok) ==
  [tTime |-> slot.tTime,
   suc |-> slot.suc + (IF ok THEN 1 ELSE 0),
   fail |-> slot.fail + (IF ok THEN 0 ELSE 1)]

RecordOutcome ==
  /\ upc = "wait"
  /\ RetMsCh # <<>>
  /\ RetMsCh' = Tail(RetMsCh)
  /\ quawin' = [quawin EXCEPT ![now % PastTime] =
                  Counted(Fresh(@), Head(RetMsCh))]
  /\ upc' = "check"
  /\ outcomes' = Append(outcomes, [at |-> now, ok |-> Head(RetMsCh)])
  /\ UNCHANGED <<now, coin, verdict, CheckQosCh, inflight, sends, checked, row>>

\* A mistake: the window is one slot too long.
JudgedOneMore == {(now - i) % PastTime : i \in 0 .. WinLen}

\* The slots CheckQos looks at: those of the last WinLen seconds, this one
\* included, of which it counts those whose time is past and not too far.
Judged ==
  {i \in {(now - j) % PastTime : j \in 0 .. WinLen - 1} :
     now > quawin[i].tTime /\ now - quawin[i].tTime <= PastTime}

\* Failures beyond the tolerated number and rate open the breaker, which then
\* lets through what the draw lets through.
Overloaded(suc, fail) ==
  fail > Threshold
  /\ fail * (RatioCheck - FlowThreshold) > FlowThreshold * suc
HitProba == FlowThreshold = 0 \/ coin

CheckQos ==
  /\ upc = "check"
  /\ LET suc  == SumFunctionOnSet([i \in Ring |-> quawin[i].suc], Judged)
         fail == SumFunctionOnSet([i \in Ring |-> quawin[i].fail], Judged)
     IN  /\ verdict' = (~Overloaded(suc, fail) \/ HitProba)
         /\ checked' = [at |-> now, suc |-> suc, fail |-> fail]
  /\ upc' = "push"
  /\ UNCHANGED <<now, coin, quawin, channels, inflight, sends, outcomes, row>>

PushVerdict ==
  /\ upc = "push"
  /\ Len(CheckQosCh) < QosCap
  /\ CheckQosCh' = Append(CheckQosCh, verdict)
  /\ upc' = "wait"
  /\ UNCHANGED <<now, coin, quawin, verdict, RetMsCh, inflight, sends, history>>

Tick ==
  /\ now < MaxTime
  /\ now' = now + 1
  /\ coin' \in BOOLEAN
  /\ UNCHANGED <<uservars, channels, inflight, sends, history>>

Send == SendAllowed \/ SendRefused \/ AcquireFails
        \/ \E ok \in BOOLEAN : SendEnds(ok)
Update == RecordOutcome \/ CheckQos \/ PushVerdict

Next == Send \/ Update \/ Tick

Spec == Init /\ [][Next]_vars

-----------------------------------------------------------------------------
\* Properties.

\* The types of the breaker's state.
TypeOK ==
  /\ now \in Nat
  /\ coin \in BOOLEAN
  /\ quawin \in [Ring -> [tTime : Nat, suc : Nat, fail : Nat]]
  /\ upc \in {"wait", "check", "push"}
  /\ verdict \in BOOLEAN
  /\ CheckQosCh \in Seq(BOOLEAN) /\ Len(CheckQosCh) <= QosCap
  /\ RetMsCh \in Seq(BOOLEAN) /\ Len(RetMsCh) <= RetCap
  /\ inflight \in 0 .. MaxInflight
  /\ sends \in Nat
  /\ row \in Nat

\* The breaker never shuts for good: however many verdicts went stale in the
\* queue, and whatever the draws, no more sends are refused in a row than
\* there were tokens in the system, since a refused send makes no new one
\* (checkqos.go, 94-154; pool.go, 94-96).
Tokens == Len(CheckQosCh) + Len(RetMsCh) + (IF upc = "wait" THEN 0 ELSE 1)
          + inflight
RefusalsBounded ==
  row + Tokens <= QosCap + RetCap + 1 + MaxInflight

Outcomes(seconds, ok) ==
  Cardinality({i \in DOMAIN outcomes :
                 outcomes[i].at \in seconds /\ outcomes[i].ok = ok})

\* A verdict counts exactly the outcomes of the WinLen - 1 seconds before it,
\* and at most those of the second PastTime before it besides, whose slot is
\* still there when the clock ticks between counting and judging
\* (checkqos.go, 47-92 and 106-125).
VerdictCountsWindow ==
  LET t      == checked.at
      window == {t - i : i \in 1 .. WinLen - 1}
  IN  t > 0 =>
        \E extra \in {{}, {t - PastTime}} :
          /\ checked.suc = Outcomes(window \cup extra, TRUE)
          /\ checked.fail = Outcomes(window \cup extra, FALSE)

\* A send is refused only when an earlier window really was overloaded: no
\* refusal comes from a past round of the ring, but for that one stale slot,
\* or from the second still running (checkqos.go, 47-92).
NoFalseAlarm ==
  (\E i \in DOMAIN CheckQosCh : ~CheckQosCh[i]) =>
     \E t \in Start .. now : \E extra \in {{}, {t - PastTime}} :
       LET window == {t - i : i \in 1 .. WinLen - 1} \cup extra
       IN  Overloaded(Outcomes(window, TRUE), Outcomes(window, FALSE))
=============================================================================
