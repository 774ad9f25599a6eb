# ModernFlux in TLA+

ModernFlux limits the rate of requests of a business, key by key, over many
machines. A program asks whether a request may pass: the agent beside it
(QuaAgent), or a library in itself (C++, Go, PHP). Agents and libraries report
what they counted to a quota server, which adds it up and answers with the part
of each key's quota that is theirs; the servers report to a second level that
divides the quota of a set. These modules model the agent, the three libraries
and both levels of the server, check them with TLC, and prove what matters most
of them with TLAPS.

## 1. The system

```
 client --request--> Handle --> analyseToMaster ==(masters)==> workerstart --verdict--> client
                     (one goroutine a connection)                 |   ^
                                                    (workerchan)  |   |  (quotachan)
                                                                  v   |
                     CheckQosCh / RetMsCh <--> TCPSend <--- quotastart
                       UpdateQos (breaker)      |  ^            ^
                                        pool, Ping |            | (rspchan)
                                                |  +------------+
   C++ library, Go SDK, PHP API --reports--+    v
                                           +--> GetQueryQuota  --SetQuotaReq--> ProSETQuota
                                              (quota server, first level)      (second level)
```

Paths are relative to `src/QuaAgent/src/flux/` (Go) and `src/QuaServer/` (C++)
where they do not say otherwise.

| component | source | state | operations | what makes it correct |
|---|---|---|---|---|
| slot arithmetic | module.go 189-195 | none | `GetTimeKey` | the slot of a second is in the ring, the timekey is its first second |
| reporting loop | quota.go, module.go | `quotamap` (Lock, Sendtime, Updatetime, Timesum, Qarray) | `quotastart`: drain the answers, count a request, report | one report of a key outstanding, reports spaced, overdue ones renewed; what is reported only grows; quotas reach the worker in order |
| admission loop | worker.go, master.go | `realmap`, `period` | `workerstart`: drain the quotas, purge, judge a request; `analyseToMaster` | no more pass in a second than the limit, no fewer; every queued request is judged |
| breaker | checkqos.go, pool.go | `quawin`, `CheckQosCh`, `RetMsCh` | `UpdateQos`, `CheckQos`, `CheckQosFromCh`, `UpdateQosToCh` | a verdict counts the last seconds only; the breaker never shuts for good |
| connections, framing | pool.go, master.go | `GenericPool.pool`, the connections and their deadlines | `TCPSend`, `Acquire`, `Release`, `Close`, `Ping`, `ReadBinary` | a connection has one user; an answer is that of the report; the breaker learns each outcome; every report ends |
| agent process | qagent.go | channels, sockets | `main`, signals | - |
| quota server, first level | ServiceQua.cpp 1018-1527, ServiceQua.h | `s_map_quota`, `s_map_proc_quota`, `s_map_setinfo` | `GetQueryQuota`, `ClearData`, `CleanReportId`, the call of the second level | the sum of a slot is what the processors reported of it; shares within the quota, and only of steady processors; one call of a set at a time |
| quota server, second level | ServiceQua.cpp 1556-1777 | `s_map_setsumdata`, `s_map_setprocdata` | `ProSETQuota` | a set's requests are counted once; a processor gets no more than its set has |
| C++ client library | ServiceQua.cpp 439-896, ServiceQua.h | `s_map_local` | `CheckQuota`, `ProcessByRefer`, `ProcessByAver`, `ClearData` | one report of a key at a time; the set's limit exceeded by no more than the threads that wait; counts true to the verdicts |
| Go SDK | src/Demo/src/flux | `rateLimitKey`, `rateLimitData`, the set, two channels | `CheckQuota`, `consumeCheckRet`, `uploadFlowStat`, `Init` | limits hold over locks taken one by one; verdicts counted once; every call returns |
| PHP API | src/PHPAPI/Fc/FcApi.class.php | four Swoole tables shared by the workers | `CheckQuota`, `ClearTableData` | limits hold and one worker reports, though a call is many operations on the tables |
| set configuration | ServiceQua.cpp 1844-1927, FileDataMeta.h | double-buffered file data | `LoadSETInfoWrap` | readers never see a half-loaded file |
| server framework | Frame.cpp, FlowMsg.cpp, SppApi.cpp, ... | message context | parse, pack, dispatch | - |
| machine load, time | CpuInfo.cpp, TimeAPI.cpp | samples of /proc | sampling | - |

How they interact. `workerstart` and `quotastart` share no memory: judged
requests go one way over a channel that drops them when it is full, quotas go
the other way over another that does the same. A report is sent from a goroutine
of its own (`TCPSend`), which asks the breaker, sends at most twice over
connections of a pool, and posts the body of the answer, if any, to `rspchan`.
The quota server is one process with cooperative threads: a handler runs alone
until it yields, which it does only while it waits for the second level. Its
state is not persisted; a client that restarts shows as a sum that went down.
The C++ library yields in the same way while it waits for the server. The Go SDK
runs on goroutines that share its maps under a lock for each key and one for the
set; the PHP API runs on processes whose only shared memory is tables, of which
each operation is atomic and nothing else is.

What is hard. Answers are looked at only when the next request comes, so an
answer may be late by any time; reports are lost, refused, sent twice and
overtaken; three timeouts (5, 3 and 4 seconds) play together; slots of a ring
are used again one period later, by code that must tell the uses apart by their
timekeys; a limit changes within the second in which it is applied; handlers go
on, after a yield or a read, with the clock, the entry and the verdict of before
it; sums are kept per key, per processor and per set, all corrected by one
memory of the last report; a call that failed for its caller may be handled
all the same. The hazards are listed line by line in PROJECT.json.

## 2. Modules

| module | models | role |
|---|---|---|
| `FluxTime` | GetTimeKey, GetAverQ | slots and the mean of the quotas, used by all modules that keep counts |
| `ReportLease` | the promise of a key's report | abstract specification, implemented by `AgentReport` |
| `AgentReport` | quotastart and the network | detailed specification |
| `AgentWorker` | workerstart and analyseToMaster | |
| `QosBreaker` | the breaker and TCPSend's use of it | |
| `AgentConn` | TCPSend, the pool, Ping, ReadBinary and the server's end of a connection | |
| `QuotaServer` | GetQueryQuota, ClearData, reporting clients; a second level that answers anything | abstract specification of the two levels |
| `SetServer` | ProSETQuota composed with `QuotaServer` | detailed specification, implements `QuotaServer` |
| `LocalQuota` | CheckQuota of the C++ library, ClearData | |
| `DemoApi` | the Go SDK | |
| `PhpApi` | the PHP API | |
| `MC*` | | values of the constants for TLC |
| `*_proofs` | | theorems and their proofs |

### AgentReport
An iteration of the loop of `quotastart` is two kinds of step. At `pc = "drain"`
it takes an answer (`AcceptAnswer`, `DiscardLate`, `DiscardGarbled`), at most
`DrainMax` of them and as long as there are any (`DrainDone`); at `pc = "wait"`
it blocks for a judged request and handles it wholly (`HandleRequest`): counts
it in the ring, and sends a report when one is due. `inflight` holds the reports
in their goroutines, which end by `SendFails` (breaker, no connection, both
attempts failed) or `SendAnswered`, with an answer, a garbled body, and
dropped when `rspchan` is full. The worker's end of the two channels is `Offer`
and `TakeQuota`. `lock`, `sendtime`, `updatetime`, `timesum` and `quota` are the
fields of `LOCALDATA`. A late answer is any that finds
`now - sendtime >= LateAfter`: the code then sets Sendtime to 0 and breaks out
of the loop's `select`, before the line that would give Lock back.

### AgentWorker
At `wpc = "drain"` a quota is taken (`TakeQuota`) or the drain ends
(`QuotasDrained`, which is also the purge); at `wpc = "wait"` one request is
judged (`Judge`). Verdicts are delivered from goroutines of their own, in any
order (`Deliver`); `Receive` drops a request when the queue is full. A key with
no entry in `realmap` is one of zeros, which is what the code then creates.

### QosBreaker
`UpdateQos` is three steps, because it reads the clock twice and its put blocks:
`RecordOutcome`, `CheckQos`, `PushVerdict`. A send is `SendAllowed` or
`SendRefused`, and later `SendEnds` or `AcquireFails`; `SendEnds` drops its
outcome when `RetMsCh` is full. The verdicts are tokens: one is made by each
outcome counted and used up by each send that finds one.

### AgentConn
`TCPSend` of a report goes from one call that may block to the next: `Refused`,
`Acquire` (from the pool), `AcquireNew` and `Dial` or `DialFails`; then the read
(`ReadGives`, or `ReadFails` and, in the second attempt, `RedialFails` or
`Replace`, where `Close` dials a connection for the pool). `ReadBinary` takes
what one `Read` gives for a header and what the next gives for a body, so an
answer that arrives in two parts is read as one (`astray`). The deadline of a
connection is set when it is dialled, when it is released and when Ping keeps it:
`left` is what remains, and `Tick` takes it from connections in use and in the
pool alike. `PingTakes`, `PingEOF` and `PingKeeps` are one round over the pool;
`Arrives` and `Down` are the server, `Collect` the finalizer of a connection
nobody refers to.

### QuotaServer
`Query` is one whole request: the report's slots are added to those of the key,
the processor and the set (`AddReport`), the processor's share is computed
(`Allocate`, with `CleanReportId` before it), and either it is answered at once
or the second level is asked (`AskSet`) and the handler yields, to be taken up by
`SetAnswered` or `SetFails` with the time of the request. `Report`, `Lose` and
`Restart` are the clients. A report stays in `net` once more after it was handled
(`again`): `TCPSend` sends it a second time when its first connection fails.
The second level answers with any quotas of any of the processors it was asked about.

### SetServer
The same server with a second level that computes its answers. A call leaves a
request with the rings as they are (`QueryAsks`); `ProSETQuota` handles one
request in one step: the rings of the processors and of the set are added by the
rules of the first level (`Taken`), means are formed over the slots that are old
enough (`ProcValid`, `SetTaken`), and each processor gets the set's quota by the
ratio of the two means, or the even share (`ProcQuota`). `CallAnswered` and
`CallFails` end the wait; a request whose call has failed may still be handled,
after the next one. `Apart` is every other step of the first level. Four history
variables serve the properties: `late` (a request was handled after a later
one), `counted` (what was reported of which slot), `readded` (of whom a slot was
added again that its key had forgotten, `Forgotten`) and `cut` (the set's slot
lost a count that was of another time, `Stale`).

### LocalQuota
`CheckQuota` of a thread judges and counts one request and either returns or
sends the key's report and waits; then `Answered` or `Fails` is the rest of the
call, with the entry, the second and the verdict of before (`call`). The
micro-threads switch only there. `ClearData` runs between them. An entry erased
under a waiting call leaves that call a reference to freed memory: what it
writes later is seen by nobody, or lands in an entry made since that took the
memory (`Reuse`). `restrainquota` and `localquota` are not variables: with
`QUOTA_FLOAT_PERCENT` 0 the first equals `localquotaver`, and the second is
only compared with 0, as which `localquotaver` serves.

### DemoApi
What is done under one lock is one step. A call of `CheckQuota` looks its key up
(`GetData`), adds it if it is missing (`AddData`, which replaces one added
meanwhile: `heap` keeps every entry, as calls may still judge by one that no key
has any more), judges and counts by key
(`Judge`) and by set (`CheckSet`), and leaves its verdict and its key in two
channels (`Return`). `CountRet` is `consumeCheckRet`; `TakeUpload`,
`UploadFails`, `AnswerKey` and `AnswerSet` are `uploadFlowStat`, of which the
last two are one critical section with two locks (`AfterAnswer`, `Locked`).
`Refresh` is the timer of `Init`, and `Preset` the one key that `Init` adds.

### PhpApi
Each operation on a table is a step: `Begin`, `GetLocal` (and `MakeLocal` when
the row is missing), `GetSetQuot`, `CountSet`, `Judge` with the increments of
the row, `GetTimesum` (and `MakeSlots`), `CountSlot`, `CheckLock` and `TakeLock`,
then `Answered`, `AnsweredOther` (an answer of another key), `AnswerThrows` or
`Fails`, and `Unlock`. What a call read earlier and still uses is `call`. A worker may die at
any of them (`Dies`). `Finish` is `ClearTableData` at the end of a call.

Abstractions. Names of processors and keys are model values, `Ip` is a constant
operator; the contents of an answer are a small set; a missing map entry is
one of zeros. Serial numbers, logging and
the counters nothing reads are left out. The randomness of the breaker is a
choice per second, because the code seeds its generator with the second.

## 3. Runs

All times and capacities are constants of the modules; the runs scale them down
and keep their order. Every bound (`MaxTime`, `MaxOffers`, `MaxRequests`,
`MaxCalls`, `MaxDeaths`, `MaxSends`, `MaxInflight`, `MaxReports`,
`MaxNet`, `MaxRestarts`) is in a guard of its module; `AgentConn` needs none, its
reports being finitely many. Deadlock is not checked: the bounds stop the
environment, and a loop that blocks for a request is meant to.

| run | what it shows | bounds, and why they are enough |
|---|---|---|
| `report` | `QuotasInOrder`, `StuckOnlyByLate`, `ReportsCumulative`, `SendsSpaced`, `RenewedUnlessLate`, and that `AgentReport` implements `ReportLease` | one key (keys share only the queues); six seconds with a report due every two, given up after one, so reports are sent, given up and sent again with both answers under way; a ring of two slots of two seconds, so both are used again; three kinds of answer, the zeros of a server that just started among them; full channels |
| `limits` | `PassesWithinLimit`, `RefusedOnlyAtLimit`, `SetPassesWithinLimit`, `QuotaViewAdvances`, `RequestsJudged` | limits of 1 to 4 and four requests, so limits are reached, raised and lowered within a second; quotas stale and entries purged after a second; two quotas queued and one drained in a go, and as many pushed as there is room for, so that the queue need never be empty |
| `breaker` | `VerdictCountsWindow`, `NoFalseAlarm`, `RefusalsBounded` | a ring of three seconds over five; two failures trip it; six sends, more than the tokens there are |
| `conn` | `OneOwner`, `AnswersOfReport`, `OutcomeTold`, `OnlyPingForgets`, `SendsEnd` | two reports, a pool of one and three connections in all, so that one is dialled beside the pool and one in place of a closed one; an answer in two parts; a deadline of one tick |
| `sums` | `ActSumsCover`, `OvercountOnlyByDisorder`, `SetCallExclusive`, `SetTimesAdvance` | two processors, one of a set, three reports, each perhaps twice, two on their way at a time; a restart; an erasure; one slot used for two periods; a call that is answered at any time or never |
| `shares` | `ShareWithinQuota`, `QuotaOnlyToSteady` | two processors of one address, four reports, a ring that wraps, one or three requests a report, gaps long enough to start anew and to be cleaned |
| `levels` | `SetOvercountOnlyByDisorder`, `WithinSetOnSameTimes` | two processors of one set, three reports over three seconds with two slots, so a slot is used again and rolled over by one processor before the other; up to three calls, each answered, failed, or handled after it failed; a restart; an erasure of the key, after which its slots are added again; a quota of the set that is reached by either processor alone. One key, so nothing is `cut`: an instance with two keys was run aside, over several million states and not to its end, and shows that `WithinSetOnSameTimes` needs that exception |
| `client` | `KeyPassesWithinQuota`, `SetPassesWithinLimit`, `SlotsCountRequests`, `ReferTotalPositive`, `ReportsSpaced` | two threads, a key and its reference key, five calls over three seconds; two answers with different limits, so limits change under the calls; quotas stale after a second, slots used again after two, an erasure that meets waiting calls |
| `php` | `LockExclusive`, `PassesWithinQuota`, `SlotsNeverOvercount`, `ReportsShrinkOnlyByRace` | two workers and three calls, of which one may be killed at any operation; three seconds, so a count and a slot are begun anew under a call; a clean-up at the second 7, which deletes rows under the other's call; limits of one to three. A second is begun up to three times, by two workers that read the row before either began it, or after it was deleted |
| `sdk` | `TypeOK`, `PassesWithinQuota`, `VerdictsCountedOnce`, `CallsReturn` | two goroutines, a key there from the start and one both may add; three calls over two seconds; channels of two; an answer with and one without a quota. Both goroutines may add the second key, the one over the other's counts |

Findings: two runs check a property that the documents state and the code does
not have, and TLC shows how.

| run | property | what happens |
|---|---|---|
| `stuck` | `OverdueReportRenewed` | an answer taken 3 seconds or more after its report clears the timer and keeps the lock (quota.go:52). The timeout of line 141 needs the timer: the key never reports again, and lives on its even share. Answers wait for the next request, so a key with a request every four seconds is enough |
| `wrap` | `ShareProportional` | the product of quota and history is 32 bits and wraps (ServiceQua.cpp:1351); here with 5 bits. A quota of 11000 a second, all used by one processor, reaches it |

`ReportLease` has the phase "dead" because of the first: `StuckOnlyByLate`,
`RenewedUnlessLate` and the refinement show that nothing else leads there.

What the properties had to allow. Where the code keeps less than one would wish,
the property says what it does keep, and its exceptions name the rest:

- A report handled after a newer one, smaller, is taken for a restart and its
  requests are counted again (`OvercountOnlyByDisorder`, ServiceQua.cpp:1271).
- The slots of a processor and of the set are corrected by what the processor
  last reported of the slot of the KEY (ServiceQua.cpp:1283-1301). When another
  key or processor has rolled one of them over, a count of the last period is
  taken from the new one (`cut` in `SetServer`), or an old slot is added again with
  every report that still carries it (`readded`); and so it is after ClearData has
  erased the key but not the set.
- A processor judged by other slots than its set, or by slots that were added
  again, or whose set has lost a count, may be given more than the set has
  (`WithinSetOnSameTimes`). So may, together, processors whose shares of a
  key were computed at different times.
- `Ping` forgets a connection when the pool has filled up while it read
  (`OnlyPingForgets`); it stays open until the finalizer closes it.
- A pooled connection keeps its old deadline, so a report may have less than the
  30 seconds, fail, and be sent a second time to a server that has it.
- A part of an answer is taken for all of it (`AnswersOfReport`, master.go:120),
  and the next report on that connection reads the rest.
- The breaker is told nothing of a report that found no connection (pool.go:100).
- The first request of a second is judged by the count of the second before
  and not counted (Go SDK, api.go:285-308): one more than the quota passes.
- A verdict of the Go SDK that is consumed late turns its slot back and the newer
  counts are lost (task.go:39).
- reportLock of the PHP API stays taken when its worker dies or the answer does
  not parse; only the clean-up at 16 o'clock, which deletes the row, gives it
  back (FcApi.class.php:338).
- Two first calls of a key in the Go SDK each add it, and what the entry of the first
  has counted is in no report (`VerdictsCountedOnce`, api.go:343). Calls that
  still judge by that entry have its count, and others the new one's, so
  `PassesWithinQuota` of the SDK bounds the passes of each entry.
- Workers of the PHP API may begin a second more than once, and with each begin as
  many requests pass as the limit allows: `PassesWithinQuota` of `PhpApi` counts
  the begins (`Begun`) and bounds the passes of a second by them. A second is begun
  again by a worker that read the row before another began it
  (FcApi.class.php:163), by a late one, and after the row was deleted or
  written anew (line 415).
- A PHP worker that found a row missing writes zeros over one made and locked
  since (`erased`), and two that open a slot lose counts, after which a report
  shrinks and the server counts it again.

One more remark met on the way: ServiceQua.cpp:412 says "20s" of a test that is
for 30.

Fairness. `RequestsJudged` assumes weak fairness of `WorkerLoop` alone: a
runnable goroutine is run by the Go scheduler. Nothing is assumed of clients, of
the network, of `quotastart` or of the clock; the put of a judged request into
`workerchan` does not block, so the worker needs nobody. Nothing bounds the quotas
that `quotastart` pushes but the capacity of the queue: it may push one for
every one that is drained, for ever. That the loop counts what it drains
(worker.go:24) is what the property rests on: its mutant does not, and drains
for ever. `CallsReturn` of the Go SDK assumes the same of each
caller and of `AnswerSet`, the end of `updateLocalData` that holds the key's lock;
of `consumeCheckRet` and of the answer before it, which may never come, nothing
is assumed. Its locks are those of the keys and of the set. That of `rlKey` is left
out, and so is `resetStatistics`, which holds it while it takes the keys' locks
one by one (task.go:191-220): no other goroutine takes it while it has the lock
of a key. Its mutant goes on to the next report with the lock still held. `SendsEnd`
assumes that the clock ticks, that a dial returns (`Dials`), that a read which
has data or whose deadline has passed returns (`Reads`), and the same of Ping;
the server owes nothing. Its mutant dials without a deadline. All other
specifications are without fairness.

Every property of a passing run has a mutant in PROJECT.json: an operator beside
the one of the code that makes a plausible mistake (marked "A mistake" in the
modules), with which TLC finds the property violated.

## 4. Proofs

Each theorem holds for all values of the constants that satisfy the named
assumptions, and so for the code's (slots of 10 seconds, channels of 1024, any
number of keys, processors, goroutines and workers), and whatever bound a module
puts on its clock or its requests.

| theorem | states | argument |
|---|---|---|
| `FluxTime_proofs`: `SlotIndexInRing`, `TimeKeyBounds` | the slot of a second is in the ring, its timekey at most NumPerIndex - 1 seconds before | Euclidean division, `DivMod` |
| `AgentReport_proofs`: `TypeCorrect` | `TypeOK` | inductive as it stands |
| `AcceptsBounded`, `OnlyLateAnswersWedge` | at most one answer accepted for a report (`OneAcceptPerSend`), `StuckOnlyByLate` | `LeaseInv`, below |
| `ReportsSpaced`, `RenewedWithoutLateAnswer` | `SendsSpaced`, `RenewedUnlessLate` | `LeaseInv` and what `HandleRequest` does to the timer |
| `QuotasAreInOrder` | `QuotasInOrder` | `OrderInv`, below |
| `ReportsGrow` | `ReportsCumulative` | `GrowInv`, below |
| `LeaseRefinement` | `Spec => Lease!LeaseSpec` | initial states map to initial states, every step to a step of the lease or a stutter |
| `Agent_proofs`, of `AgentWorker`: `WorkerTypeCorrect` | `WorkerTypeOK` | inductive |
| `AdmissionUpperBound`, `AdmissionLowerBound` | `PassesWithinLimit`, `RefusedOnlyAtLimit` | `AdmissionInv`, below |
| `SetUpperBound` | `SetPassesWithinLimit` | `SetSecondInv`, below |
| `ViewAdvances` | `QuotaViewAdvances` | `ViewInv`, below |
| `QosBreaker_proofs`: `BreakerTypes`, `RefusalsAreBounded` | `TypeOK`, `RefusalsBounded` | every refused send uses up a token and makes none |
| `VerdictCountsItsWindow` | `VerdictCountsWindow` | `RingInv`, `VerdictInv`, below |
| `NoAlarmIsFalse` | `NoFalseAlarm` | `VerdictInv`, below |
| `Agent_proofs`, of `AgentConn`: `ConnTypesHold`, `OneOwnerHolds` | `TypeOK`, `OneOwner` | `ConnInv`, below |
| `OnlyPingForgetsHolds` | `OnlyPingForgets` | `ConnInv` and one lemma for each action on who owns what after it |
| `OutcomeToldHolds` | `OutcomeTold` | `ToldInv`, below |
| `AnswersOfReportHolds` | `AnswersOfReport` | `AnswersInv`, below |
| `QuotaServer_proofs`: `SetLockExclusive`, `SetTimesNeverGoBack` | `SetCallExclusive`, `SetTimesAdvance` | `CallInv`, below |
| `QuotaForSteadyOnly` | `QuotaOnlyToSteady` | `SteadyInv`, below |
| `SumsCoverReports` | `ActSumsCover` | `SumsInv`, below |
| `ShareNeverAboveQuota` | `ShareWithinQuota` | `ShareInv`, below |
| `NoRequestCountedTwice` | `OvercountOnlyByDisorder` | `LedgerInv`, below |
| `LevelsImplement`, `LevelsKeepPromises` | `SetSpec => Spec`, and hence all six above of both levels | `LevelsInv`, below |
| `SetCountsNothingTwice` | `SetOvercountOnlyByDisorder` | `SetInv`, `AsksInv` of `SetServer`, below |
| `LocalQuota_proofs`: `TypesCorrect` | the types (`Typed`) | inductive |
| `SetLimitKept` | `SetPassesWithinLimit` | `SetInv`, below |
| `ReportsAreSpaced` | `ReportsSpaced` | `SpacedInv`, below |
| `KeyLimitKept` | `KeyPassesWithinQuota` | `KeyInv`, below |
| `ReferDivides` | `ReferTotalPositive` | `ReferInv`, below |
| `SlotsAreExact` | `SlotsCountRequests` | `CountInv`, below |
| `PhpApi_proofs`: `LockExclusiveHolds` | `LockExclusive` | `LockInv`, below |
| `PhpTypesHold` | `TypeOK` | `TypeInv`, below |
| `PassesWithinQuotaHolds` | `PassesWithinQuota` | `PassInv`, below |
| `SlotsNeverOvercountHolds` | `SlotsNeverOvercount` | `SlotInv`, below |
| `ReportsShrinkOnlyByRaceHolds` | `ReportsShrinkOnlyByRace` | `ReportInv`, below |
| `DemoApi_proofs`: `DemoTypesHold` | `TypeOK` | `TypeInv` of the SDK, below |
| `DemoPassesHold` | `PassesWithinQuota` | `PassInv` of the SDK, below |
| `DemoVerdictsCounted` | `VerdictsCountedOnce` | `CountInv` of the SDK, below |

The inductive invariants:

- `LeaseInv`. That a key is stuck only by a late answer is not inductive: the
  timer must be tied to the lock and to the history. A free lock means that no
  timer runs and the last report was answered; a running timer is the second of
  the last report, of which no answer was accepted yet; a lock without a timer
  has a late answer behind it; at most one answer was accepted since the last
  report.
  `RetryAfter + 1 >= ReportPeriod` (4 + 1 and 5) is what the spacing needs,
  because a report may be given up before the period is over.
- `AdmissionInv`. What a second passed is bounded by the count in `realmap`,
  which a purge resets in the middle of it all: as long as the entry is that of
  the second last judged, no more were passed than counted; an entry that is
  empty is of a second that is over. With it go the two bounds themselves, each
  against the set of the limits that were in force.
- `SetSecondInv`. The loop counts a key's passes for its set only among those that
  passed the key's own limit, so what the set is judged by is no smaller than
  `setpasses`.
- `OrderInv`. A quota in `quotachan` is no later than the key's Updatetime, and a
  running timer is later than it: so an answer that is accepted is newer than
  all that still wait. `ViewInv` is the other end of the channel: everything in it
  is no older than what the worker has taken, and in order. Both hold whatever
  is dropped because the channel is full.
- `GrowInv`. A slot is never of a time to come, and what was reported of it is an
  earlier state of it: of a smaller timekey, or of the same with no larger
  counts. What a report sends is the slot as it is, so it has grown.
- `ConnInv`. The owners of a connection are apart: no name twice in the pool, none
  in the pool and with a report or Ping, none with two reports; and each is
  open. A goroutine has a connection exactly while it reads (`Holding`), which is
  what keeps the connection it closed from being one that was dialled since
  under the same name.
- `ToldInv`. By where the goroutine is: nothing told and nothing offered before the
  end; at the end, success and an answer or failure and none.
- `AnswersInv`. On a connection in the pool or with Ping nothing is owed or
  under way, unless a part of an answer was read; on one with a report, at most that
  report's answer. It rests on one write for each read that succeeds, and
  on closing after each that fails.
- `CallInv`. The lock is 1 exactly while one call is out, and all times a
  processor was given by the second level are no later than that call: calls
  begin later than all those that were answered, because there is one at a time.
- `SteadyInv`. Every entry of `mapalloq` is empty, or its `firsttime` and
  `updatetime` are seconds at which reports of that processor were handled, with
  no gap between them, and the latter is the last. It needs
  `Start >= ActiveWithin`: a `updatetime` of 0 counts as a gap, as it does for any clock
  that counts from 1970.
- `SumsInv`. The sum of a slot is what was last reported of it, plus what was lost
  sight of when a processor's smaller report was taken for a restart: the sum is
  never less than `Reported`, and equal to it until then (`shrunk`). One report changes
  one term of the sum over the processors (`SumChanged`), a newer slot all of them.
- `ShareInv`. By `SumsInv` a processor's count of a slot is at most the slot's, so
  its history is at most the total of the same slots (`SumBelow`), and the product
  of that and the quota, wrapped or not, divided by the total is at most the quota.
- `LedgerInv`. That a slot's sum is no more than the requests there were is far
  from inductive: a report on its way, perhaps twice, may add to it, and so may a
  ring that is not reported yet. The invariant says that there is a ledger: `c`,
  what each processor has counted of each time over all its restarts; `h`, what it
  had counted when it sent each report; `con`, what the server has counted for it.
  Whatever a report would still add (`Gain`) has been counted after what the server
  has: `con + Gain <= h <= c`. Reports are in the order of their numbers
  (`SentInOrder`), which is why only one handled after a newer one can break it.
  The ledger is not in the model: each step's lemma says how its entry goes on.
- `SetInv`, `AsksInv` of `SetServer`. The set's slots are corrected by what is
  remembered of the keys' slots, so the ledger is continued: `sc` is what the set
  has counted for each processor and key in each slot. It is bounded as `con` is
  while the key's slot still says what the processor has reported (`Kept`);
  when it does not, the count stands still, and would be added again only by a report
  that puts its processor into `readded`. So the set's slots are `Backed` by
  requests that were made. At the second level one thing more is needed, that what
  is reported to it only grows (`Before`): the requests under way are in the order
  of their numbers, each `Before` the ring as it now is, so one that is handled in
  order replaces what was reported last and the second level has just that.
- `RingInv`, `VerdictInv`. A slot of the breaker's ring counts the outcomes of its
  own second, all of them, because no outcome is later than the slot of its
  second (`OutcomesKept`). A verdict that is still to be pushed, or a token that
  refuses, goes back to a window that was overloaded (`Raised`).
- `LevelsInv`. The answer there is, if any, is one to the call that waits, and so
  is the request numbered last: a request whose call has failed has a smaller
  number, or there is no call. Quotas of the second level are at most an
  int32_t's greatest, so each is one that `QuotaServer` allows.
- `SetInv`. `s_setsum` counts a request when its call returns, so it lags behind
  the requests judged; what it lacks are the calls that passed and still wait
  (`Passing`). A request passes only below the limit, and the thread that makes
  it is not one of those that wait: hence one less than the threads.
- `SpacedInv`. Until an entry is erased under a call: a call that waits refers to the
  entry of its key and holds its lock, no two are of one key, and an entry's
  updatetime is that of the last answered report, or that report is
  long over, as when the entry was erased (`Expire >= ReportPeriod`).
- `KeyInv`. As for the agent: the passes of a second are among the requests the
  entry counts (`nowsum`), which are judged before they are counted. It needs that a
  limit is a number, that is, that the mean of the quotas is.
- `ReferInv`. Until an entry is erased under a call, a call that waits is of a key
  whose total its own request has set, so the entry the answer gives a quota
  has a total.
- `CountInv`. A slot lies where its timekey says (`TimeKeySlot`), and a time that
  had requests has a slot of that time or of a later one (`Remembered`): without
  that, a slot opened anew could belong to a time that had requests before.
- `LockInv`. Two workers can both find `reportLock` at 0; what tells them apart is
  the value the increment returns. Until the row is erased or made under a report:
  one reporter at most, the lock above 0 while there is one, and above 0 without one
  only if a worker was lost with it.
- `TypeInv` adds to `TypeOK` what the calls have read. It needs that the mean of a
  ring of quotas is a natural number (`MeanType`).
- `PassInv`. For the key, of each second: the passes are at most those that the
  finished counts of the second allowed, one limit each, and the count in
  the row while the row is of that second (`KeyPassed`). For the set, calls take a
  ticket each, the begin of the second they counted in and the count as they
  raised it (`setbegin`, `setsum`), and judge by it later: the tickets of those
  that passed are a set `U` of distinct pairs of a begin so far and a number within
  the limit, those of calls still to be judged are outside it (`SetPassed`).
  `U` has as many members as requests passed, and begins times limit at most
  (`PairsWithin`).
- `SlotInv`. A call counts in the slot it has read, or opens it anew, and others
  may do so between. A slot lies where its timekey says and its time has begun
  (`SlotsPlaced`); a call that does not wait is not older than `MaxStall`
  (`CallsRecent`), so a slot that was open for it is open for it still, or was
  erased (`StillOpen`).
- `ReportInv`. What was said of a time is no more than the slot has, until the slot
  is used again or was opened twice (`Held`); and the same of the copy each call has
  made of the slots, which is what it will report (`CopiesHeld`).
- `TypeInv` of the SDK. A key that has an entry keeps one, so every key in a
  channel or in a call has one: `consumeCheckRet` and `uploadFlowStat` look it up
  and use it unseen. Quotas are above 0, because the mean of a ring of which one
  is above 0 is taken over those that are (`MeanPositive`).
- `PassInv` of the SDK. Passes since a count began are among those it counts: all
  of them for the set, and all but the first, which began it, for a key.
- `CountInv` of the SDK. The verdicts of a time that are in slots of entries the keys
  have (`Referred`), in the queue or dropped are no more than were given, and as many
  if no verdict is of another time of the same slot (`Alone`) and no entry was
  replaced that had counted some of it (`replaced`). With it goes that a slot or a verdict is of a
  time that had verdicts, without which a late one could turn back a slot that
  is not of its own entry.

The sums. Many of these are sums over the processors, the slots or the keys, and
what a fold computes for every set is an induction, which the prover lacks.
`FluxTime_proofs` proves what is needed once by a least counterexample (`Least`,
`Smallest`): a sum is a number, changes with one of its terms (`SumChanged`), grows
with them (`SumBelow`), is split (`SumSplit`) and is empty where its terms are 0.
`Mean`, `Share` and the sums of the server and of the SDK rest on these.

Assumptions: `SlotAssumption`, `TimingAssumption`, `CapacityAssumption`,
`StartAssumption`, `AnswersAssumption`, `WorkerAssumption`, `BreakerAssumption`,
`ConnAssumption`, `ServerAssumption`, `SetAssumption`, `LocalAssumption`,
`DemoAssumption`, `PhpAssumption`; TLC evaluates each in the runs of its module.
They say of the constants what the code's have: sets of processors are finite, the
so are those of keys, the width of an integer gives a positive modulus, the bound on the clock is not before
the start, and the clock starts after the first slot is over (0 marks an unused
slot, and the clock counts from 1970). The three timings that matter are named above:
`RetryAfter + 1 >= ReportPeriod`, `Expire >= ReportPeriod` and
`MaxStall + NumPerIndex <= Period`, the last being that a call of the PHP API is
not suspended for a whole ring.

Only model-checked. `RequestsJudged`, `CallsReturn` and `SendsEnd` are liveness,
which TLAPS cannot prove here. `WithinSetOnSameTimes` is not proved either: it
rests on the set's slot at the second level having no less than the processor's,
after calls that carry different processors and may be handled out of order, each
adding to the one and the other by its own memory; no inductive invariant for it has
been found yet.

## 5. Not modelled

- Vendored and generated code: SPP, L5, jsoncpp, tinyxml, golang/protobuf, what
  protoc generates. ModernFlux's own code is some 9000 of the
  implementation's 48000 lines; the rest holds none of its logic, which is why the
  map covers a small share of the whole.
- The set configuration. `LoadSETInfoWrap` reads files into the one of two buffers
  that is not read, and switches, all in the one loop of the process: no step of
  another actor falls between. Its content is a constant (`SetProcs`, `SetQuota`).
- The processes, their signals and sockets, the SPP framework, parsing and packing,
  logging, machine load: input and output.
- Of the agent: `glnum` and `gsnum`, serial numbers that the goroutines of all
  connections raise without a lock (two requests may get one; it travels with
  reports and verdicts, and nothing in the agent decides by it); its own listener, whose short reads are those of `ReadBinary`; a
  request that finds the worker's queue full is dropped in the model as in the
  code, and its client waits in vain. `Shutdown` of the pool is never called.
- Of `GetQueryQuota`: worker numbers, several sets, requests
  without a total quota (they skip everything modelled), and the
  disabled RealReport and QuotaReport.
- Of the second level: other servers of the first level, whose rings would be
  added beside this one's; ClearData of its maps; a restart of the first level,
  whose smaller sums it would add again like those of a restarted client.
- Of the C++ client library: `FluxQuota`, which keeps no state, the statistics of
  the minute, the warning verdict (ret 1), and `CheckQos` and `UpdateQos`, whose
  ring is that of the agent's breaker without its channels.
- Of the Go SDK: the bytes of its request and answer (an answer in parts ends with
  the deadline, net.go:118, as no answer does), the statistics of the minute, setters.
- Of the PHP API: the pool of connections (a failed one is closed), several keys,
  which share only the set's row, `setrefuse`, the statistics of the minute.

The bounds above are those of TLC on one machine in a few minutes.
