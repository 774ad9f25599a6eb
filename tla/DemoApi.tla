------------------------------ MODULE DemoApi ------------------------------
(***************************************************************************)
(* The Go SDK, Demo/src/flux.                                              *)
(*                                                                         *)
(* Goroutines call CheckQuota.  A call counts its request for its key and  *)
(* for the set under their locks, and leaves its verdict to                *)
(* consumeCheckRet, which keeps the statistics, and the key to             *)
(* uploadFlowStat, which reports it.  What is done under one lock alone is *)
(* one step; updateLocalData holds the lock of the key while it waits for  *)
(* that of the set, and is two.                                            *)
(*                                                                         *)
(* averQuota and restrainQuota are equal (quotaFloatPercent is 0).  The    *)
(* statistics of the minute are left out, the verdict 1 passes like 0.     *)
(* The unit of time is a part of a second.                                 *)
(***************************************************************************)
EXTENDS FluxTime, Sequences

CONSTANTS
  Callers,       \* goroutines that call CheckQuota
  Keys,          \* the flow-control keys
  Preset,        \* the one Init adds ("Production_Test")
  Second,        \* a second, after which a count begins anew
  Interval,      \* between two reports (updateQuotaInterval, 5 seconds)
  Refreshed,     \* quotas older than it are replaced (5 minutes)
  MinQuota,      \* quotas up to it are not applied (minQuotaThreshold, 10)
  DefaultQuota,  \* the quota of a key before an answer (defaultQuota, 50)
  SetQuota,      \* the quota of the set before an answer (20)
  QuotaArrayNum, \* quotas that are averaged (quotaArrayNum, 12)
  ChanCap,       \* capacity of both channels (flowChanBufferSize, 100000)
  Answers,       \* the answers of the server
  Start,         \* the time at which the SDK starts
  MaxTime, MaxCalls  \* bounds: the clock, and calls

ASSUME DemoAssumption ==
  /\ Preset \in Keys
  /\ Second \in Nat /\ Interval \in Nat /\ Refreshed \in Nat
  /\ MinQuota \in Nat
  /\ DefaultQuota \in Nat \ {0} /\ SetQuota \in Nat \ {0}
  /\ QuotaArrayNum \in Nat \ {0} /\ ChanCap \in Nat
  /\ Answers \subseteq [localq : Nat, setsum : Nat, setquota : Nat]
  /\ Start \in Nat /\ Start > Interval
  /\ MaxTime \in Nat /\ Start <= MaxTime /\ MaxCalls \in Nat

VARIABLES
  clock,      \* the clock
  rlset,      \* rlSet: quota, count and the time the count began
  heap,       \* every RateLimitData made
  data,       \* rlKey: the one of a key, by its place in heap, or 0
  retchan,    \* flowRetChan
  upchan,     \* flowUploadChan
  pc, call,   \* where a call is, and its variables
  up,         \* uploadFlowStat: where it is, and for which RateLimitData
  calls,      \* calls so far (bounds the model)
  setwindow,  \* history: of the set's count, its first value, passes, most
  keywindow,  \* history: of a key's count, likewise
  verdicts,   \* history: calls that returned, by the slot of their time
  dropped,    \* history: verdicts that found flowRetChan full
  replaced    \* history: slot times counted in an entry that AddData replaced

history == <<setwindow, keywindow, verdicts, dropped, replaced>>
vars == <<clock, rlset, heap, data, retchan, upchan, pc, call, up, calls,
          history>>

NoSlot == [timekey |-> 0, sum |-> 0, refuse |-> 0]
NewData(q, k) == [key |-> k, quota |-> q, nowsum |-> 0, reset |-> clock,
                  updatetime |-> 0, slots |-> [i \in Slots |-> NoSlot],
                  qindex |-> 0, qarray |-> [i \in 0 .. QuotaArrayNum - 1 |-> 0]]
NoWindow == [base |-> 0, passes |-> 0, most |-> 0, free |-> FALSE]
Times == {TimeKey(t) : t \in Start .. MaxTime}

Init ==
  /\ clock = Start
  /\ rlset = [quota |-> SetQuota, sum |-> 0, reset |-> Start]
  /\ heap = <<NewData(DefaultQuota, Preset)>>
  /\ data = [k \in Keys |-> IF k = Preset THEN 1 ELSE 0]
  /\ retchan = <<>>
  /\ upchan = <<>>
  /\ pc = [c \in Callers |-> "idle"]
  /\ call = [c \in Callers |-> <<>>]
  /\ up = [at |-> "idle"]
  /\ calls = 0
  /\ setwindow = NoWindow
  /\ keywindow = <<NoWindow>>
  /\ verdicts = [t \in Times |-> 0]
  /\ dropped = [t \in Times |-> 0]
  /\ replaced = {}

Goto(c, at) == pc' = [pc EXCEPT ![c] = at]
Grown(w, most) == [w EXCEPT !.passes = @ + 1,
                            !.most = IF most > @ THEN most ELSE @]

-----------------------------------------------------------------------------
\* CheckQuota.

\* Under the lock of the set: the time of the call, and a new count after a
\* second.
Begin(c, k) ==
  /\ pc[c] = "idle"
  /\ calls < MaxCalls
  /\ calls' = calls + 1
  /\ call' = [call EXCEPT ![c] = [key |-> k, now |-> clock]]
  /\ IF clock - rlset.reset > Second
     THEN /\ rlset' = [rlset EXCEPT !.reset = clock, !.sum = 0]
          /\ setwindow' = NoWindow
     ELSE UNCHANGED <<rlset, setwindow>>
  /\ Goto(c, "data")
  /\ UNCHANGED <<clock, heap, data, retchan, upchan, up, keywindow, verdicts,
                 dropped, replaced>>

GetData(c) ==
  LET e == data[call[c].key]
  IN  /\ pc[c] = "data"
      /\ call' = [call EXCEPT ![c] = [key |-> @.key, now |-> @.now, entry |-> e,
                                      pass |-> TRUE]]
      /\ Goto(c, IF e = 0 THEN "add" ELSE "judge")
      /\ UNCHANGED <<clock, rlset, heap, data, retchan, upchan, up, calls,
                     history>>

\* The verdicts of a time that an entry has counted.
Held(d, t) == LET slot == d.slots[SlotIndex(t)]
              IN  IF slot.timekey = t THEN slot.sum + slot.refuse ELSE 0

\* A key nobody has is added, over one that was added meanwhile, whose entry
\* nobody finds any more.
AddData(c) ==
  LET old == data[call[c].key]
  IN  /\ pc[c] = "add"
      /\ heap' = Append(heap, NewData(DefaultQuota, call[c].key))
      /\ data' = [data EXCEPT ![call[c].key] = Len(heap')]
      /\ keywindow' = Append(keywindow, NoWindow)
      /\ replaced' = replaced \cup
                       {t \in Times : old # 0 /\ Held(heap[old], t) > 0}
      /\ Goto(c, "set")
      /\ UNCHANGED <<clock, rlset, retchan, upchan, call, up, calls, setwindow,
                     verdicts, dropped>>

\* updateLocalData holds the lock of the key.
Locked(e) == up.at \notin {"idle", "request"} /\ up.entry = e

\* A mistake: the quota itself is passed.
OverOffByOne(d, n) == d.quota > MinQuota /\ n > d.quota + 1

\* Quotas up to MinQuota are not applied.
Over(d, n) == d.quota > MinQuota /\ n > d.quota

\* A new count after a second begins with 0: the request that begins it is
\* judged by the count of before, and not counted.
Begins(d, t) == t - d.reset > Second
Counted(d, t) == IF Begins(d, t) THEN [d EXCEPT !.nowsum = 0, !.reset = t]
                 ELSE [d EXCEPT !.nowsum = @ + 1]

\* checkKey, under the lock of the key.  A request older than the quota passes
\* uncounted.
Judge(c) ==
  LET e == call[c].entry
      d == heap[e]
      t == call[c].now
      n == d.nowsum + 1
      pass == ~Over(d, n)
      from == IF Begins(d, t) THEN NoWindow ELSE keywindow[e]
      free == [from EXCEPT !.free = @ \/ d.quota <= MinQuota]
  IN  /\ pc[c] = "judge"
      /\ ~Locked(e)
      /\ Goto(c, "set")
      /\ IF t < d.updatetime
         THEN UNCHANGED <<heap, call, keywindow, upchan>>
         ELSE /\ heap' = [heap EXCEPT ![e] = Counted(d, t)]
              /\ call' = [call EXCEPT ![c].pass = pass]
              /\ keywindow' = [keywindow EXCEPT ![e] =
                                 IF pass THEN Grown(free, d.quota) ELSE free]
              /\ upchan' = IF t > d.updatetime + Interval /\ Len(upchan) < ChanCap
                           THEN Append(upchan, d.key) ELSE upchan
      /\ UNCHANGED <<clock, rlset, data, retchan, up, calls, setwindow, verdicts,
                     dropped, replaced>>

CheckSet == rlset.sum < rlset.quota

\* Under the lock of the set again: a request that passes is counted for it.
\* The verdict goes to flowRetChan when there is room.
Return(c) ==
  LET t == TimeKey(call[c].now)
      pass == call[c].pass /\ CheckSet
  IN  /\ pc[c] = "set"
      /\ IF pass
         THEN /\ rlset' = [rlset EXCEPT !.sum = @ + 1]
              /\ setwindow' = Grown(setwindow, rlset.quota)
         ELSE UNCHANGED <<rlset, setwindow>>
      /\ IF Len(retchan) < ChanCap
         THEN /\ retchan' = Append(retchan, [key |-> call[c].key, pass |-> pass,
                                             time |-> call[c].now])
              /\ UNCHANGED dropped
         ELSE /\ dropped' = [dropped EXCEPT ![t] = @ + 1]
              /\ UNCHANGED retchan
      /\ verdicts' = [verdicts EXCEPT ![t] = @ + 1]
      /\ call' = [call EXCEPT ![c] = <<>>]
      /\ Goto(c, "idle")
      /\ UNCHANGED <<clock, heap, data, upchan, up, calls, keywindow, replaced>>

-----------------------------------------------------------------------------
\* consumeCheckRet.

\* A mistake: a slot of another time is not emptied.
ResetTimeOnly(slot, k) == [slot EXCEPT !.timekey = k]
Reset(slot, k) == IF slot.timekey = k THEN slot ELSE [NoSlot EXCEPT !.timekey = k]

CountRet ==
  LET r == Head(retchan)
      i == SlotIndex(r.time)
  IN  /\ retchan # <<>>
      /\ retchan' = Tail(retchan)
      /\ heap' = [heap EXCEPT ![data[r.key]].slots[i] =
                    LET s == Reset(@, TimeKey(r.time))
                    IN  IF r.pass THEN [s EXCEPT !.sum = @ + 1]
                        ELSE [s EXCEPT !.refuse = @ + 1]]
      /\ UNCHANGED <<clock, rlset, data, upchan, pc, call, up, calls, history>>

-----------------------------------------------------------------------------
\* uploadFlowStat.

Recent(d) == clock < d.updatetime + Interval

TakeUpload ==
  /\ up.at = "idle"
  /\ upchan # <<>>
  /\ upchan' = Tail(upchan)
  /\ up' = IF Recent(heap[data[Head(upchan)]]) THEN up
           ELSE [at |-> "request", entry |-> data[Head(upchan)]]
  /\ UNCHANGED <<clock, rlset, heap, data, retchan, pc, call, calls, history>>

\* No connection, no answer in time, one that cannot be read.
UploadFails ==
  /\ up.at = "request"
  /\ up' = [at |-> "idle"]
  /\ UNCHANGED <<clock, rlset, heap, data, retchan, upchan, pc, call, calls,
                 history>>

\* A mistake: the mean of all, those of no answer yet too.
AverQOfAll(q) == SumFunctionOnSet(q, DOMAIN q) \div QuotaArrayNum

\* getAverQ: the mean of the quotas that are not zero.
AverQ(q) == Mean(q, QuotaArrayNum)

\* A mistake: the return of an answer without a quota leaves the key locked.
AfterAnswerLocked(a) == [at |-> IF a.localq = 0 THEN "done" ELSE "set",
                         entry |-> up.entry, ans |-> a]
AfterAnswer(a) == IF a.localq = 0 THEN [at |-> "idle"]
                  ELSE [at |-> "set", entry |-> up.entry, ans |-> a]

\* updateLocalData, under the lock of the key.
AnswerKey(a) ==
  LET d == heap[up.entry]
      i == (d.qindex + 1) % QuotaArrayNum
      q == [d.qarray EXCEPT ![i] = a.localq]
      timed == [heap EXCEPT ![up.entry].updatetime = clock]
  IN  /\ up.at = "request"
      /\ heap' = IF a.localq = 0 THEN timed
                 ELSE [timed EXCEPT ![up.entry] = [@ EXCEPT !.qindex = i,
                                      !.qarray = q, !.quota = AverQ(q)]]
      /\ up' = AfterAnswer(a)
      /\ UNCHANGED <<clock, rlset, data, retchan, upchan, pc, call, calls,
                     history>>

\* And under that of the set too.
AnswerSet ==
  /\ up.at = "set"
  /\ rlset' = [rlset EXCEPT !.sum = IF up.ans.setsum > 0 THEN up.ans.setsum ELSE @,
                            !.quota = IF up.ans.setquota > 0
                                      THEN up.ans.setquota ELSE @]
  /\ setwindow' = IF up.ans.setsum > 0
                  THEN [NoWindow EXCEPT !.base = up.ans.setsum] ELSE setwindow
  /\ up' = [at |-> "idle"]
  /\ UNCHANGED <<clock, heap, data, retchan, upchan, pc, call, calls, keywindow,
                 verdicts, dropped, replaced>>

-----------------------------------------------------------------------------
\* updateGlobalInfo: Init again, every five minutes.
Refresh ==
  /\ heap[data[Preset]].updatetime < clock - Refreshed
  /\ heap' = [heap EXCEPT ![data[Preset]].quota = DefaultQuota]
  /\ UNCHANGED <<clock, rlset, data, retchan, upchan, pc, call, up, calls,
                 history>>

Tick ==
  /\ clock < MaxTime
  /\ clock' = clock + 1
  /\ UNCHANGED <<rlset, heap, data, retchan, upchan, pc, call, up, calls, history>>

CallSteps(c) == GetData(c) \/ AddData(c) \/ Judge(c) \/ Return(c)

Next ==
  \/ \E c \in Callers : (\E k \in Keys : Begin(c, k)) \/ CallSteps(c)
  \/ CountRet
  \/ TakeUpload \/ UploadFails \/ AnswerSet
  \/ \E a \in Answers : AnswerKey(a)
  \/ Refresh \/ Tick

\* A goroutine that can run does; the server may never answer.
Spec == Init /\ [][Next]_vars
FairSpec == Spec /\ WF_vars(AnswerSet) /\ \A c \in Callers : WF_vars(CallSteps(c))

-----------------------------------------------------------------------------
\* Properties.

TypeOK ==
  /\ clock \in Nat
  /\ rlset \in [quota : Nat \ {0}, sum : Nat, reset : Nat]
  /\ data \in [Keys -> 0 .. Len(heap)]
  /\ \A e \in DOMAIN heap :
       /\ heap[e].key \in Keys
       /\ heap[e].quota \in Nat \ {0} /\ heap[e].nowsum \in Nat
       /\ heap[e].reset \in Nat /\ heap[e].updatetime \in Nat
  /\ Len(retchan) <= ChanCap /\ Len(upchan) <= ChanCap
  /\ pc \in [Callers -> {"idle", "data", "add", "judge", "set"}]
  /\ up.at \in {"idle", "request", "set"}

\* Since the count of the set began anew, with 0 after a second or with the
\* server's sum after an answer, no more passed than the greatest quota allows;
\* since that of an entry of a key did, the one request more that is not
\* counted.  An entry that replaces another counts for itself
\* (api.go, 224-240 and 275-310; task.go, 157-172).
PassesWithinQuota ==
  /\ setwindow.passes > 0 => setwindow.base + setwindow.passes <= setwindow.most
  /\ \A e \in DOMAIN keywindow :
       keywindow[e].free \/ keywindow[e].passes <= keywindow[e].most + 1

\* The entries the keys have now.
Referred == {data[k] : k \in Keys} \ {0}
CountedOf(t) ==
  SumFunctionOnSet([e \in DOMAIN heap |-> Held(heap[e], t)], Referred)
QueuedOf(t) == Cardinality({i \in DOMAIN retchan : TimeKey(retchan[i].time) = t})

\* A verdict is counted once at most, in the slot of its time of the entry its
\* key has, and is not forgotten: it is counted there, waits to be, or found
\* the queue full.  Two things forget: a slot used for two periods, where a
\* verdict that comes late forgets even the newer ones, and a second goroutine
\* that found the key missing and replaces the entry with what it has counted
\* (task.go, 16-54; api.go, 342-343).
VerdictsCountedOnce ==
  \A t \in Times :
    LET known == CountedOf(t) + QueuedOf(t) + dropped[t]
    IN  /\ known <= verdicts[t]
        /\ /\ t \notin replaced
           /\ \A u \in Times \ {t} : SlotIndex(u) = SlotIndex(t) => verdicts[u] = 0
           => known = verdicts[t]

\* A call returns though the server may never answer: nobody waits for the
\* network with a lock, and every return gives back those it holds (task.go
\* 87-111, 114-178).  The locks are those of the keys and of the set: that of
\* rlKey, and resetStatistics, which holds it while it takes the keys' one by
\* one (188-220), are no part of this.
CallsReturn == \A c \in Callers : pc[c] # "idle" ~> pc[c] = "idle"
=============================================================================
