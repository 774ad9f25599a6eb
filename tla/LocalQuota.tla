----------------------------- MODULE LocalQuota -----------------------------
(***************************************************************************)
(* The C++ client library: CheckQuota of QuaServer/ServiceQua.cpp, called  *)
(* by the micro-threads of a business server.                              *)
(*                                                                         *)
(* A call judges one request of a key by the entry s_map_local has of it.  *)
(* When the entry's report is due the same call sends it and yields until  *)
(* the quota server answers; other calls run meanwhile, and the call goes  *)
(* on with the reference, the second and the verdict of before.  So a call *)
(* is one action, or two: CheckQuota, which sends, and Answered or Fails.  *)
(* spp_handle_loop runs ClearData between them, which erases entries that  *)
(* were not answered for days.  A call that still refers to an erased      *)
(* entry writes to memory that was freed: nobody sees the write, unless an *)
(* entry made since took the memory (Reuse).                               *)
(*                                                                         *)
(* QUOTA_FLOAT_PERCENT is 0: restrainquota is localquotaver, and the range *)
(* in which HitProba draws is empty.  The clock is read once a call and    *)
(* does not go back, so a call never finds an updatetime ahead of it.  The *)
(* warning below the refusal (ret 1) and the minute's statistics, which    *)
(* only inform, are left out.                                              *)
(***************************************************************************)
EXTENDS FluxTime, FiniteSets

CONSTANTS
  Keys,          \* the flow-control keys
  NoKey,         \* no key
  Threads,       \* the micro-threads
  Refer(_),      \* the key a key without quota is judged after, or NoKey
  ReportPeriod,  \* seconds between two reports (REPORT_PERIOD, 5)
  HeartBeat,     \* quotas older than this are not trusted (5 minutes)
  Threshold,     \* quotas below are not used (s_threshold_per_second, 10)
  QuotaArrayNum, \* quotas averaged (QUOTA_ARRAY_NUM, 12)
  Expire,        \* entries unanswered for longer are erased (3 days)
  EraseEvery,    \* seconds between two erasures (a day)
  Start,         \* the second at which the server starts
  Totals,        \* the total quotas of the callers' configuration
  Answers,       \* what the quota server may answer
  MaxCalls,      \* bound: requests of the callers
  MaxTime        \* bound: the last second of the clock

ASSUME LocalAssumption ==
  /\ NoKey \notin Keys
  /\ IsFiniteSet(Threads)
  /\ \A k \in Keys : Refer(k) \in (Keys \ {k}) \union {NoKey}
  /\ ReportPeriod \in Nat \ {0} /\ HeartBeat \in Nat
  /\ Threshold \in Nat \ {0} /\ QuotaArrayNum \in Nat \ {0}
  /\ Expire \in Nat /\ Expire >= HeartBeat /\ Expire >= ReportPeriod
  /\ EraseEvery \in Nat
  /\ Start \in Nat /\ Start > Expire /\ Start >= Period /\ Start <= MaxTime
  /\ Totals \subseteq Nat \ {0}
  /\ Answers \subseteq [localq : Nat, workers : Nat, setquota : Nat,
                        setsum : Nat, procquota : Nat]
  /\ MaxCalls \in Nat /\ MaxTime \in Nat

VARIABLES
  now,        \* the clock, in seconds
  local,      \* s_map_local; the entry of a key it lacks is NoEntry
  known,      \* the keys s_map_local has
  s_now, s_setsum,  \* the second, and the requests passed for the set in it
  call,       \* what a thread waiting for the quota server remembers
  lasterase,  \* when entries were last erased
  calls,      \* requests so far (bounds the model)
  truth,      \* history: requests of a key judged in each slot of time
  limit,      \* history: greatest limit of a key in its current second
  passes,     \* history: requests of a key passed in that second
  setlimit,   \* history: greatest limit of the set in the second s_now
  setpasses,  \* history: requests judged to pass for the set in that second
  reported,   \* history: when the last answered report of a key was sent
  dangled     \* history: an entry was erased while a call referred to it

setvars == <<s_now, s_setsum>>
history == <<truth, limit, passes, setlimit, setpasses, reported, dangled>>
vars == <<now, local, known, setvars, call, lasterase, calls, history>>

NoSlot == [timekey |-> 0, sum |-> 0, refuse |-> 0, setrefuse |-> 0]
NoQuotas == [i \in 0 .. QuotaArrayNum - 1 |-> 0]
NoEntry == [updatetime |-> 0, now |-> 0, nowsum |-> 0, total |-> 0, ver |-> 0,
            qarray |-> NoQuotas, index |-> 0, lock |-> 0, workers |-> 0,
            setquota |-> 0, setsum |-> 0, procquota |-> 0,
            timesum |-> [i \in Slots |-> NoSlot]]
NoCall == [key |-> NoKey, ref |-> NoKey, sent |-> 0, pass |-> FALSE]
NoTruth == [t \in 0 .. MaxTime |-> [passed |-> 0, refuse |-> 0, setrefuse |-> 0]]

\* A limit no number of requests of the model reaches.
Unlimited == MaxCalls + 1

Init ==
  /\ now = Start
  /\ local = [k \in Keys |-> NoEntry]
  /\ known = {}
  /\ s_now = 0
  /\ s_setsum = 0
  /\ call = [t \in Threads |-> NoCall]
  /\ lasterase = 0
  /\ calls = 0
  /\ truth = [k \in Keys |-> NoTruth]
  /\ limit = [k \in Keys |-> 0]
  /\ passes = [k \in Keys |-> 0]
  /\ setlimit = 0
  /\ setpasses = 0
  /\ reported = [k \in Keys |-> 0]
  /\ dangled = FALSE

-----------------------------------------------------------------------------
\* The limits a request is held against.

FirstOfSecond(e) == now # e.now

NowSum(e) == IF FirstOfSecond(e) THEN 1 ELSE e.nowsum + 1

NoAnswerLong(e) == now - e.updatetime > HeartBeat

\* The quota of the entry is not used: too old, too small, or none.
OnShare(e) == NoAnswerLong(e) \/ e.ver < Threshold

\* The reference key has a quota, still fresh, to be judged after.
Referred(k) ==
  /\ Refer(k) # NoKey
  /\ LET r == local[Refer(k)]
     IN r.ver > 0 /\ now - r.updatetime < HeartBeat

ReferQuota(k, total) ==
  IF Referred(k)
  THEN (local[Refer(k)].ver * total) \div local[Refer(k)].total
  ELSE 0

AverQuota(e, total) == IF e.workers > 0 THEN total \div e.workers ELSE 0

\* ProcessByRefer, then ProcessByAver, then no limit.
ShareLimit(k, e, total) ==
  IF ReferQuota(k, total) > Threshold THEN ReferQuota(k, total)
  ELSE IF AverQuota(e, total) > Threshold THEN AverQuota(e, total) - 1
  ELSE Unlimited

OwnLimit(e) == IF e.ver > Threshold THEN e.ver ELSE Unlimited

\* The requests of the current second that may pass, the first always.
Limit(k, e, total) ==
  IF FirstOfSecond(e) THEN 1
  ELSE IF OnShare(e) THEN ShareLimit(k, e, total)
  ELSE OwnLimit(e)

\* QSetValid, QSetOverLoad: by the processor's quota, else the even share.
SetLimit(e) ==
  LET share == IF e.procquota > 0 THEN e.procquota
               ELSE IF e.workers > 0 THEN e.setquota \div e.workers
               ELSE 0
  IN IF e.setquota > 0 /\ e.setsum > 0 /\ share > 0 THEN share ELSE Unlimited

\* A mistake: the request that exceeds the limit passes.
OverOffByOne(k, total) ==
  NowSum(local[k]) > Limit(k, local[k], total) + 1

Over(k, total) == NowSum(local[k]) > Limit(k, local[k], total)

SetSum == IF s_now = now THEN s_setsum ELSE 0

\* The set is asked only of requests the key lets pass.
SetOver(k, total) == ~Over(k, total) /\ SetSum >= SetLimit(local[k])

Passes(k, total) == ~Over(k, total) /\ ~SetOver(k, total)

-----------------------------------------------------------------------------
\* The slots.

One(b) == IF b THEN 1 ELSE 0

\* A mistake: a slot used again keeps the set's refusals of its last use.
CountedOverOld(ring, over, setover) ==
  LET old == ring[SlotIndex(now)]
      slot == IF old.timekey = TimeKey(now) THEN old
              ELSE [NoSlot EXCEPT !.timekey = TimeKey(now),
                                  !.setrefuse = old.setrefuse]
  IN [ring EXCEPT ![SlotIndex(now)] =
        [slot EXCEPT !.sum = @ + One(~over), !.refuse = @ + One(over),
                     !.setrefuse = @ + One(setover)]]

Counted(ring, over, setover) ==
  LET old == ring[SlotIndex(now)]
      slot == IF old.timekey = TimeKey(now) THEN old
              ELSE [NoSlot EXCEPT !.timekey = TimeKey(now)]
  IN [ring EXCEPT ![SlotIndex(now)] =
        [slot EXCEPT !.sum = @ + One(~over), !.refuse = @ + One(over),
                     !.setrefuse = @ + One(setover)]]

-----------------------------------------------------------------------------
\* One call: the request is judged and counted, the report is sent if due.

Waiting == {t \in Threads : call[t].key # NoKey}

\* A mistake: the lock is not looked at.
DueUnlocked(e) == now - e.updatetime >= ReportPeriod

Due(e) == now - e.updatetime >= ReportPeriod /\ e.lock = 0

\* A mistake: the total quota is taken over with a second request only.
TotalLater(e, total) == IF FirstOfSecond(e) THEN e.total ELSE total

Total(e, total) == total

\* The entry after a request: ClearQuota forgets the ring of quotas, and not
\* their mean, when the quota service has been silent for long.
Judged(k, total) ==
  LET e == local[k]
  IN [e EXCEPT
        !.total = Total(e, total),
        !.now = now,
        !.nowsum = NowSum(e),
        !.qarray = IF ~FirstOfSecond(e) /\ NoAnswerLong(e) THEN NoQuotas ELSE @,
        !.lock = IF Due(e) THEN 1 ELSE @,
        !.timesum = Counted(@, Over(k, total), SetOver(k, total))]

\* The keys the call makes an entry for: its own, or that of the reference.
Made(k) ==
  LET e == local[k]
      refers == ~FirstOfSecond(e) /\ OnShare(e) /\ Refer(k) # NoKey
  IN ({k} \union (IF refers THEN {Refer(k)} ELSE {})) \ known

\* Waiting calls whose entry was erased: an entry made takes its memory.
Reuse(k) ==
  {{}} \union {{t} : t \in {u \in Waiting : call[u].ref = NoKey /\ Made(k) # {}}}

Rebound(k, reuse) ==
  [t \in Threads |-> IF t \in reuse
                     THEN [call[t] EXCEPT !.ref = CHOOSE m \in Made(k) : TRUE]
                     ELSE call[t]]

\* The history of a request: what was judged, against which limits.
Recorded(k, total) ==
  LET e == local[k]
      again == ~FirstOfSecond(e)
      Greater(a, b) == IF a > b THEN a ELSE b
  IN /\ truth' = [truth EXCEPT ![k][TimeKey(now)] =
                    [passed |-> @.passed + One(Passes(k, total)),
                     refuse |-> @.refuse + One(Over(k, total)),
                     setrefuse |-> @.setrefuse + One(SetOver(k, total))]]
     /\ limit' = [limit EXCEPT ![k] =
                    Greater(IF again THEN @ ELSE 0, Limit(k, e, total))]
     /\ passes' = [passes EXCEPT ![k] =
                     (IF again THEN @ ELSE 0) + One(~Over(k, total))]
     /\ setlimit' = Greater(IF s_now = now THEN setlimit ELSE 0, SetLimit(e))
     /\ setpasses' = (IF s_now = now THEN setpasses ELSE 0)
                       + One(Passes(k, total))

CheckQuota(t, k, total) ==
  LET due == Due(local[k])
  IN /\ calls < MaxCalls
     /\ t \notin Waiting
     \* A division by zero ends the process.
     /\ ~FirstOfSecond(local[k]) /\ OnShare(local[k]) /\ Referred(k)
          => local[Refer(k)].total > 0
     /\ calls' = calls + 1
     /\ local' = [local EXCEPT ![k] = Judged(k, total)]
     /\ known' = known \union Made(k)
     /\ s_now' = now
     /\ s_setsum' = SetSum + One(Passes(k, total) /\ ~due)
     /\ \E reuse \in Reuse(k) :
          call' = [Rebound(k, reuse) EXCEPT
                     ![t] = IF due
                            THEN [key |-> k, ref |-> k, sent |-> now,
                                  pass |-> Passes(k, total)]
                            ELSE NoCall]
     /\ Recorded(k, total)
     /\ UNCHANGED <<now, lasterase, reported, dangled>>

-----------------------------------------------------------------------------
\* The rest of a call that waited.

GetAverQ(qarray) == Mean(qarray, QuotaArrayNum)

\* A value of the answer replaces the old one only if there is one.
Given(new, old) == IF new > 0 THEN new ELSE old

Adopted(e, a) ==
  LET qarray == [e.qarray EXCEPT ![e.index] = a.localq]
  IN [e EXCEPT !.index = (@ + 1) % QuotaArrayNum,
               !.qarray = qarray, !.ver = GetAverQ(qarray),
               !.workers = Given(a.workers, @),
               !.setquota = Given(a.setquota, @),
               !.setsum = Given(a.setsum, @),
               !.procquota = Given(a.procquota, @)]

\* The entry a call refers to is written, if it is there.
Written(c, e) == IF c.ref = NoKey THEN local ELSE [local EXCEPT ![c.ref] = e]

\* A mistake: a request that passed is not counted after the wait.
SumBefore(c) == s_setsum

SumAfter(c) == s_setsum + One(c.pass)

Returns(t) ==
  /\ t \in Waiting
  /\ call' = [call EXCEPT ![t] = NoCall]
  /\ s_setsum' = SumAfter(call[t])
  /\ UNCHANGED <<now, known, s_now, lasterase, calls, truth, limit, passes,
                 setlimit, setpasses, dangled>>

\* The updatetime is that of the sending; an answer may hold no quota.
Answered(t, a) ==
  LET c == call[t]
      e == IF c.ref = NoKey THEN NoEntry ELSE local[c.ref]
      heard == [e EXCEPT !.updatetime = c.sent, !.lock = 0]
  IN /\ Returns(t)
     /\ local' = Written(c, IF a.localq > 0 THEN Adopted(heard, a) ELSE heard)
     /\ reported' = [reported EXCEPT ![c.key] = c.sent]

\* No route, no connection, a timeout, or an answer that cannot be parsed.
Fails(t) ==
  LET c == call[t]
      e == IF c.ref = NoKey THEN NoEntry ELSE local[c.ref]
  IN /\ Returns(t)
     /\ local' = Written(c, [e EXCEPT !.lock = 0])
     /\ UNCHANGED reported

-----------------------------------------------------------------------------
\* The loop of the framework, at the hours it may erase, and the clock.

Expired(k) == now - local[k].updatetime > Expire

ClearData ==
  LET gone == {k \in known : Expired(k)}
      freed == {t \in Waiting : call[t].ref \in gone}
  IN /\ now - lasterase > EraseEvery
     /\ lasterase' = now
     /\ known' = known \ gone
     /\ local' = [k \in Keys |-> IF k \in gone THEN NoEntry ELSE local[k]]
     /\ call' = [t \in Threads |-> IF t \in freed
                                   THEN [call[t] EXCEPT !.ref = NoKey]
                                   ELSE call[t]]
     /\ dangled' = (dangled \/ freed # {})
     /\ truth' = [k \in Keys |-> IF k \in gone THEN NoTruth ELSE truth[k]]
     /\ limit' = [k \in Keys |-> IF k \in gone THEN 0 ELSE limit[k]]
     /\ passes' = [k \in Keys |-> IF k \in gone THEN 0 ELSE passes[k]]
     /\ UNCHANGED <<now, setvars, calls, setlimit, setpasses, reported>>

Tick ==
  /\ now < MaxTime
  /\ now' = now + 1
  /\ UNCHANGED <<local, known, setvars, call, lasterase, calls, history>>

Call == \E t \in Threads, k \in Keys, total \in Totals : CheckQuota(t, k, total)
Return == \E t \in Threads : Fails(t) \/ \E a \in Answers : Answered(t, a)
Next == Call \/ Return \/ ClearData \/ Tick

Spec == Init /\ [][Next]_vars

-----------------------------------------------------------------------------
\* Properties.

\* No more requests of a key pass in a second than the greatest of the limits
\* CheckQuota held them against in it, however the quota, the total, the
\* reference key and the age of the quota change within the second.  The count
\* begins anew, and this history with it, when ClearData erases the entry.
KeyPassesWithinQuota == \A k \in Keys : passes[k] <= limit[k]

\* No more requests pass for the set in a second than the greatest limit of
\* the set in it and one for each other thread: s_setsum counts a request only
\* when its call returns, which may be after the wait for the quota server.
SetPassesWithinLimit ==
  setpasses > 0 => setpasses <= setlimit + (Cardinality(Threads) - 1)

\* A slot of timesum holds exactly the requests of its ten seconds: those
\* passed, by the key's limit and the set's apart, and those refused, as the
\* server needs them to tell real from refused (PRODATA::Real).  The requests
\* of an entry that ClearData has erased are lost with it and are not meant.
SlotsCountRequests ==
  \A k \in Keys, i \in Slots :
    LET s == local[k].timesum[i]
        was == truth[k][s.timekey]
    IN s.timekey > 0 => /\ s.sum = was.passed + was.setrefuse
                        /\ s.refuse = was.refuse
                        /\ s.setrefuse = was.setrefuse

\* The divisor of ProcessByRefer: a reference key with a quota has a total
\* quota, although its entry may have been made for the reference only.  An
\* entry erased under a call is the exception: the answer may be written to
\* one made later.
ReferTotalPositive ==
  dangled \/ \A k \in Keys : local[k].ver > 0 => local[k].total > 0

\* A report of a key is sent while no other is on its way, and ReportPeriod
\* after the last that was answered, measured from sending to sending.  Only
\* when an entry was erased under a call, and its lock with it, may two go.
ReportsSpaced ==
  [][\A t \in Threads, k \in Keys :
       (call[t].key # k /\ call'[t].key = k) =>
         \/ dangled
         \/ /\ \A u \in Threads : call[u].key # k
            /\ now - reported[k] >= ReportPeriod]_vars
=============================================================================
