----------------------------- MODULE AgentReport -----------------------------
(***************************************************************************)
(* The reporting goroutine of QuaAgent, quotastart of quota.go.            *)
(*                                                                         *)
(* For every flow-control key it counts the requests the worker judged in  *)
(* a ring of time slots, sends the ring to the quota server at most once   *)
(* every ReportPeriod seconds, and turns the answers into the quotas it    *)
(* passes back to the worker.  One report of a key is outstanding at a     *)
(* time: Lock is taken by the send, given back by the answer, and taken    *)
(* over by a later send when the answer is overdue.                        *)
(*                                                                         *)
(* One iteration of the goroutine's loop drains the answers that have      *)
(* arrived (pc = "drain"), then blocks for one judged request              *)
(* (pc = "wait").  Answers are therefore looked at only when the NEXT      *)
(* request of any key comes.                                               *)
(*                                                                         *)
(* A report travels in a goroutine of its own (pool.TCPSend): it may take  *)
(* any time, be answered, or fail without a word.  The answer's serial and *)
(* the fields the loop never reads are left out.                           *)
(***************************************************************************)
EXTENDS FluxTime, Sequences

CONSTANTS
  Keys,          \* the flow-control keys
  ReportPeriod,  \* seconds between an answer and the next report (5)
  LateAfter,     \* an answer this old or older is thrown away (3)
  RetryAfter,    \* an outstanding report older than this is given up (3 + 1)
  QuotaArrayNum, \* quotas kept for the average (QUOTA_ARRAY_NUM)
  DrainMax,      \* answers drained in one go (1024)
  WorkerCap, QuotaCap, RspCap,  \* capacities of the channels (1024)
  Answers,       \* the contents of an answer of the quota server
  Garbled,       \* a body that does not unmarshal
  Start,         \* the second at which the agent starts
  MaxTime,       \* bound: the last second of the clock
  MaxOffers      \* bound: requests the worker judges

ASSUME TimingAssumption ==
  /\ ReportPeriod \in Nat \ {0} /\ LateAfter \in Nat \ {0}
  /\ RetryAfter \in Nat /\ RetryAfter + 1 >= ReportPeriod

ASSUME CapacityAssumption ==
  /\ QuotaArrayNum \in Nat \ {0} /\ DrainMax \in Nat \ {0}
  /\ WorkerCap \in Nat /\ QuotaCap \in Nat /\ RspCap \in Nat

\* Unix time is far beyond the first period of the ring and beyond LateAfter:
\* a Sendtime of 0 always counts as long ago, a timekey is never 0.
ASSUME StartAssumption ==
  /\ Start \in Nat /\ Start >= LateAfter /\ Start >= NumPerIndex
  /\ MaxTime \in Nat /\ MaxOffers \in Nat

ASSUME AnswersAssumption ==
  /\ \A a \in Answers :
       a \in [localq : Nat, totalworkernum : Nat, totalq : Nat,
              setquota : Nat, setsum : Nat, procquota : Nat]
  /\ Garbled \notin Answers

VARIABLES
  now,         \* the clock, in seconds
  pc,          \* "drain" or "wait"
  drained,     \* iterations of the drain loop done
  workerchan,  \* requests judged by the worker, in order
  quotachan,   \* quotas on their way to the worker
  rspchan,     \* answers of the quota server
  inflight,    \* reports travelling in a TCPSend goroutine
  updatetime,  \* Updatetime of a key; 0 when quotamap has no entry for it
  lock,        \* Lock of a key
  sendtime,    \* Sendtime of a key
  timesum,     \* Timesum of a key: its ring of slots
  quota,       \* the quota fields of a key
  offers,      \* requests judged so far (bounds the model)
  sends,       \* history: reports sent for a key
  accepts,     \* history: answers accepted for a key since its last report
  lastsend,    \* history: when the last report of a key was sent
  late,        \* history: some answer of the key was thrown away as late
  reported     \* history: the ring as last reported

local == <<updatetime, lock, sendtime, timesum, quota>>
history == <<sends, accepts, lastsend, late, reported>>
vars == <<now, pc, drained, workerchan, quotachan, rspchan, inflight,
          local, offers, history>>

NoSlot == [timekey |-> 0, sum |-> 0, refuse |-> 0, setrefuse |-> 0]
NoQuota ==
  [index |-> 0, qarray |-> [i \in 0 .. QuotaArrayNum - 1 |-> 0],
   localquotaver |-> 0, localquota |-> 0, totalworkernum |-> 0,
   totalquota |-> 0, setquota |-> 0, setsum |-> 0, procquo |-> 0,
   averq |-> 0, paverq |-> 0]

Init ==
  /\ now = Start
  /\ pc = "drain"
  /\ drained = 0
  /\ workerchan = <<>>
  /\ quotachan = <<>>
  /\ rspchan = <<>>
  /\ inflight = {}
  /\ updatetime = [k \in Keys |-> 0]
  /\ lock = [k \in Keys |-> 0]
  /\ sendtime = [k \in Keys |-> 0]
  /\ timesum = [k \in Keys |-> [i \in Slots |-> NoSlot]]
  /\ quota = [k \in Keys |-> NoQuota]
  /\ offers = 0
  /\ sends = [k \in Keys |-> 0]
  /\ accepts = [k \in Keys |-> 0]
  /\ lastsend = [k \in Keys |-> 0]
  /\ late = [k \in Keys |-> FALSE]
  /\ reported = [k \in Keys |-> [i \in Slots |-> NoSlot]]

-----------------------------------------------------------------------------
\* What an answer does to the quotas of its key.

Known(k) == updatetime[k] > 0

\* GetAverQ: the mean of the quotas that are not zero.
GetAverQ(arr) == Mean(arr, QuotaArrayNum)

GetPositiveData(checknum, data) == IF checknum > 0 THEN checknum ELSE data

\* GetAver: an even share of the total, used while no quota is fresh.
EvenShare(total, workers) == IF workers > 0 THEN total \div workers ELSE total

NewQuota(q, a) ==
  LET i     == q.index + 1
      arr   == [q.qarray EXCEPT ![i % QuotaArrayNum] = a.localq]
      wnum  == GetPositiveData(a.totalworkernum, q.totalworkernum)
      squo  == GetPositiveData(a.setquota, q.setquota)
  IN  [index |-> i, qarray |-> arr, localquotaver |-> GetAverQ(arr),
       localquota |-> a.localq, totalworkernum |-> wnum,
       totalquota |-> a.totalq, setquota |-> squo,
       setsum |-> GetPositiveData(a.setsum, q.setsum),
       procquo |-> GetPositiveData(a.procquota, q.procquo),
       averq |-> EvenShare(a.totalq, wnum), paverq |-> EvenShare(squo, wnum)]

RspData(k, q, t) ==
  [key |-> k, aquota |-> q.localquotaver, procquo |-> q.procquo,
   averq |-> q.averq, paverq |-> q.paverq, updatetime |-> t]

-----------------------------------------------------------------------------
\* The drain loop.

TakeAnswer ==
  /\ pc = "drain"
  /\ drained < DrainMax
  /\ rspchan # <<>>
  /\ rspchan' = Tail(rspchan)
  /\ drained' = drained + 1
  /\ UNCHANGED <<now, pc, workerchan, inflight, offers>>

DiscardGarbled ==
  /\ TakeAnswer
  /\ Head(rspchan).body = Garbled
  /\ UNCHANGED <<local, quotachan, history>>

\* Mistakes: a cleared Sendtime is taken for a young one; off by one; the
\* lock is not given back.
IsLateOutstanding(k) == sendtime[k] > 0 /\ now - sendtime[k] >= LateAfter
IsLateOffByOne(k) == now - sendtime[k] > LateAfter
KeepLock(k) == UNCHANGED lock

IsLate(k) == now - sendtime[k] >= LateAfter
Unlock(k) == lock' = [lock EXCEPT ![k] = 0]

\* The break of the late branch leaves the select only: Lock stays as it is.
DiscardLate(k) ==
  /\ TakeAnswer
  /\ Head(rspchan).body # Garbled
  /\ Head(rspchan).key = k
  /\ IsLate(k)
  /\ updatetime' = [updatetime EXCEPT ![k] = IF Known(k) THEN @ ELSE now]
  /\ sendtime' = [sendtime EXCEPT ![k] = 0]
  /\ late' = [late EXCEPT ![k] = TRUE]
  /\ UNCHANGED <<lock, timesum, quota, quotachan, sends, accepts, lastsend,
                 reported>>

AcceptAnswer(k) ==
  /\ TakeAnswer
  /\ Head(rspchan).body # Garbled
  /\ Head(rspchan).key = k
  /\ ~IsLate(k)
  /\ sendtime' = [sendtime EXCEPT ![k] = 0]
  /\ updatetime' = [updatetime EXCEPT ![k] = now]
  /\ quota' = [quota EXCEPT ![k] = NewQuota(@, Head(rspchan).body)]
  /\ quotachan' = IF Len(quotachan) < QuotaCap
                  THEN Append(quotachan, RspData(k, quota'[k], now))
                  ELSE quotachan
  /\ Unlock(k)
  /\ accepts' = [accepts EXCEPT ![k] = @ + 1]
  /\ UNCHANGED <<timesum, sends, lastsend, late, reported>>

DrainDone ==
  /\ pc = "drain"
  /\ rspchan = <<>> \/ drained = DrainMax
  /\ pc' = "wait"
  /\ drained' = 0
  /\ UNCHANGED <<now, workerchan, quotachan, rspchan, inflight, local, offers,
                 history>>

-----------------------------------------------------------------------------
\* One judged request.

\* A request judged as d, added to what a slot held before it.
Counted(old, d) ==
  [timekey |-> TimeKey(now),
   sum |-> old.sum + (IF d.qret > 0 THEN 1 ELSE 0),
   refuse |-> old.refuse + (IF d.qret > 0 THEN 0 ELSE 1),
   setrefuse |-> old.setrefuse + (IF d.sret = 0 THEN 1 ELSE 0)]

\* A mistake: the slot is compared with the second, not with its timekey.
CountBySecond(slot, d) == Counted(IF slot.timekey = now THEN slot ELSE NoSlot, d)

\* The slot of this second begins anew when it holds an earlier period.
Count(slot, d) ==
  Counted(IF slot.timekey = TimeKey(now) THEN slot ELSE NoSlot, d)

\* Mistakes: the report is given up a second too early, or a second too late.
ExpiredEarly(k) == sendtime[k] > 0 /\ now - sendtime[k] >= RetryAfter
ExpiredLate(k) == sendtime[k] > 0 /\ now - sendtime[k] > RetryAfter + 1

Due(k) == Known(k) /\ now - updatetime[k] >= ReportPeriod
Expired(k) == sendtime[k] > 0 /\ now - sendtime[k] > RetryAfter
MaySend(k) == Due(k) /\ (lock[k] = 0 \/ Expired(k))

SendReport(k) ==
  /\ MaySend(k)
  /\ lock' = [lock EXCEPT ![k] = 1]
  /\ sendtime' = [sendtime EXCEPT ![k] = now]
  /\ inflight' = inflight \cup
       {[key |-> k, num |-> sends[k] + 1,
         items |-> {timesum'[k][i] : i \in
                      {j \in Slots : timesum'[k][j].timekey > 0}}]}
  /\ sends' = [sends EXCEPT ![k] = @ + 1]
  /\ accepts' = [accepts EXCEPT ![k] = 0]
  /\ lastsend' = [lastsend EXCEPT ![k] = now]
  /\ reported' = [reported EXCEPT ![k] = timesum'[k]]

KeepReport(k) ==
  /\ ~MaySend(k)
  /\ UNCHANGED <<lock, sendtime, inflight, sends, accepts, lastsend, reported>>

HandleRequest(k) ==
  /\ pc = "wait"
  /\ workerchan # <<>>
  /\ Head(workerchan).key = k
  /\ workerchan' = Tail(workerchan)
  /\ updatetime' = [updatetime EXCEPT ![k] = IF Known(k) THEN @ ELSE now]
  /\ timesum' = [timesum EXCEPT ![k][SlotIndex(now)] =
                                  Count(@, Head(workerchan))]
  /\ SendReport(k) \/ KeepReport(k)
  /\ pc' = "drain"
  /\ UNCHANGED <<now, drained, quotachan, rspchan, quota, offers, late>>

-----------------------------------------------------------------------------
\* A report on its way: pool.TCPSend.

\* It fails (breaker open, no connection, two failed attempts): no answer.
SendFails(m) ==
  /\ m \in inflight
  /\ inflight' = inflight \ {m}
  /\ UNCHANGED <<now, pc, drained, workerchan, quotachan, rspchan, local,
                 offers, history>>

\* It is answered; the answer is dropped when rspchan is full.
SendAnswered(m) ==
  /\ m \in inflight
  /\ inflight' = inflight \ {m}
  /\ \E a \in Answers \cup {Garbled} :
       rspchan' = IF Len(rspchan) < RspCap
                  THEN Append(rspchan, [key |-> m.key, body |-> a])
                  ELSE rspchan
  /\ UNCHANGED <<now, pc, drained, workerchan, quotachan, local, offers,
                 history>>

-----------------------------------------------------------------------------
\* The worker at the other end of workerchan and quotachan, and the clock.

\* The worker refuses for the set only what it has passed for the key.
Verdicts == {[qret |-> 1, sret |-> 1], [qret |-> 1, sret |-> 0],
             [qret |-> 0, sret |-> 1]}

Offer(k, v) ==
  /\ offers < MaxOffers
  /\ offers' = offers + 1
  /\ workerchan' = IF Len(workerchan) < WorkerCap
                   THEN Append(workerchan, [key |-> k, qret |-> v.qret,
                                            sret |-> v.sret])
                   ELSE workerchan
  /\ UNCHANGED <<now, pc, drained, quotachan, rspchan, inflight, local,
                 history>>

TakeQuota ==
  /\ quotachan # <<>>
  /\ quotachan' = Tail(quotachan)
  /\ UNCHANGED <<now, pc, drained, workerchan, rspchan, inflight, local,
                 offers, history>>

Tick ==
  /\ now < MaxTime
  /\ now' = now + 1
  /\ UNCHANGED <<pc, drained, workerchan, quotachan, rspchan, inflight, local,
                 offers, history>>

Loop ==
  \/ DiscardGarbled
  \/ \E k \in Keys : DiscardLate(k) \/ AcceptAnswer(k)
  \/ DrainDone
  \/ \E k \in Keys : HandleRequest(k)

Network == \E m \in inflight : SendFails(m) \/ SendAnswered(m)

Worker ==
  \/ \E k \in Keys, v \in Verdicts : Offer(k, v)
  \/ TakeQuota

Next == Loop \/ Network \/ Worker \/ Tick

Spec == Init /\ [][Next]_vars

-----------------------------------------------------------------------------
\* Properties.

SlotType == [timekey : Nat, sum : Nat, refuse : Nat, setrefuse : Nat]
RequestType == [key : Keys, qret : {0, 1}, sret : {0, 1}]
AnswerType == [key : Keys, body : Answers \cup {Garbled}]
ReportType == [key : Keys, num : Nat, items : SUBSET SlotType]

QuotaType == [index : Nat, qarray : [0 .. QuotaArrayNum - 1 -> Nat],
              localquotaver : Nat, localquota : Nat, totalworkernum : Nat,
              totalquota : Nat, setquota : Nat, setsum : Nat, procquo : Nat,
              averq : Nat, paverq : Nat]
QuotaMsg == [key : Keys, aquota : Nat, procquo : Nat, averq : Nat,
             paverq : Nat, updatetime : Nat]

\* The types of the loop's state.
TypeOK ==
  /\ now \in Nat
  /\ pc \in {"drain", "wait"}
  /\ drained \in 0 .. DrainMax
  /\ workerchan \in Seq(RequestType)
  /\ rspchan \in Seq(AnswerType)
  /\ inflight \subseteq ReportType
  /\ updatetime \in [Keys -> Nat]
  /\ lock \in [Keys -> {0, 1}]
  /\ sendtime \in [Keys -> Nat]
  /\ timesum \in [Keys -> [Slots -> SlotType]]
  /\ quota \in [Keys -> QuotaType]
  /\ quotachan \in Seq(QuotaMsg)
  /\ offers \in Nat
  /\ sends \in [Keys -> Nat]
  /\ accepts \in [Keys -> Nat]
  /\ lastsend \in [Keys -> Nat]
  /\ late \in [Keys -> BOOLEAN]
  /\ reported \in [Keys -> [Slots -> SlotType]]

\* After a report at most one answer is applied, though the answer of a report
\* that was given up may arrive as well, before or after its own (quota.go,
\* 52-87: Sendtime is cleared by whatever answer comes first).
OneAcceptPerSend == \A k \in Keys : accepts[k] <= 1

\* Two reports of a key are at least ReportPeriod seconds apart, whether the
\* first was answered, lost or overdue (quota.go, 137-149).
SendsSpaced ==
  [][\A k \in Keys : sends'[k] # sends[k] =>
       lastsend[k] = 0 \/ now - lastsend[k] >= ReportPeriod]_vars

\* The lock of a key is held without a running timer only after one of the
\* key's answers was thrown away as late: a lost report, a failed send, a
\* garbled answer or a full channel never wedges the key (quota.go, 140-149).
StuckOnlyByLate ==
  \A k \in Keys : ~late[k] => (lock[k] = 1 <=> sendtime[k] > 0)

HandledKey(k) == pc = "wait" /\ pc' = "drain" /\ Head(workerchan).key = k

\* The lock is a lease: a request that comes when the key's report is
\* overdue and ReportPeriod has passed since the last answer sends a new one
\* (the timeout of quota.go, 139-149).
Overdue(k) ==
  /\ Due(k)
  /\ lastsend[k] = 0 \/ now - lastsend[k] > RetryAfter
OverdueReportRenewed ==
  [][\A k \in Keys : HandledKey(k) /\ Overdue(k) => sends'[k] > sends[k]]_vars

\* The same, of the keys none of whose answers was late: lost reports and
\* lost answers alone never silence a key (quota.go, 139-149).
RenewedUnlessLate ==
  [][\A k \in Keys : HandledKey(k) /\ Overdue(k) /\ ~late[k]
                        => sends'[k] > sends[k]]_vars

\* What is reported of a slot only grows: the server reads a smaller report of
\* the same timekey as a restart of the agent and counts it once more
\* (quota.go, 111-135 and 164-176).
ReportsCumulative ==
  [][\A k \in Keys : \A i \in Slots :
       LET old == reported[k][i]
           new == reported'[k][i]
       IN  /\ new.timekey >= old.timekey
           /\ new.timekey = old.timekey =>
                /\ new.sum >= old.sum
                /\ new.refuse >= old.refuse
                /\ new.setrefuse >= old.setrefuse]_vars

\* The worker receives the quotas of a key in the order of the answers, at
\* most one a second, none twice, even when some are dropped because
\* quotachan is full (quota.go, 72-85).
QuotasInOrder ==
  \A i, j \in DOMAIN quotachan :
    i < j /\ quotachan[i].key = quotachan[j].key
      => quotachan[i].updatetime < quotachan[j].updatetime

\* The loop implements the abstract lease of a key's report: see ReportLease.
Lease == INSTANCE ReportLease
           WITH phase <- [k \in Keys |-> IF lock[k] = 0 THEN "idle"
                                         ELSE IF sendtime[k] > 0 THEN "out"
                                         ELSE "dead"]
ImplementsLease == Lease!LeaseSpec
=============================================================================
