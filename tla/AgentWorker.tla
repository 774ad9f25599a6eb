----------------------------- MODULE AgentWorker -----------------------------
(***************************************************************************)
(* The admission goroutine of QuaAgent, workerstart of worker.go, and the  *)
(* queue analyseToMaster of master.go feeds it through.                    *)
(*                                                                         *)
(* The goroutine drains the quotas that have arrived (wpc = "drain"),      *)
(* forgets the keys nobody asked for in days, then blocks for one request  *)
(* (wpc = "wait") and judges it by the number of requests of its key in    *)
(* the current second.  The verdict goes back to the client from a         *)
(* goroutine of its own, so it may overtake or be overtaken by others, and *)
(* on to quotastart (AgentReport) for the statistics.                      *)
(*                                                                         *)
(* A key without an entry in realmap is one whose entry is all zeros: the  *)
(* code creates exactly that entry when it first needs it.                 *)
(***************************************************************************)
EXTENDS Integers, Sequences, FiniteSets

CONSTANTS
  Keys,         \* the flow-control keys
  HeartBeat,    \* quotas older than this are not trusted (5 minutes)
  PurgePeriod,  \* seconds between two purges (a day)
  IdleAfter,    \* a key unused for longer is purged (3 days)
  DrainMax,     \* quotas drained in one go (1024)
  MasterCap, WorkerCap, QuotaCap,  \* capacities of the channels (1024)
  Quotas,       \* the quotas an answer of the server leads to
  Start,        \* the second at which the agent starts
  MaxTime,      \* bound: the last second of the clock
  MaxRequests   \* bound: requests of the clients

ASSUME WorkerAssumption ==
  /\ HeartBeat \in Nat /\ PurgePeriod \in Nat /\ IdleAfter \in Nat
  /\ DrainMax \in Nat \ {0}
  /\ MasterCap \in Nat /\ WorkerCap \in Nat /\ QuotaCap \in Nat
  /\ \A q \in Quotas :
       q \in [aquota : Nat, procquo : Nat, averq : Nat, paverq : Nat]
  /\ Start \in Nat \ {0}
  /\ MaxTime \in Nat /\ MaxRequests \in Nat

VARIABLES
  now,         \* the clock, in seconds
  wpc,         \* "drain" or "wait"
  wdrained,    \* iterations of the drain loop done
  masters,     \* requests waiting for the worker
  workerchan,  \* judged requests on their way to quotastart
  quotachan,   \* quotas on their way to the worker
  realmap,     \* the worker's entry of each key
  period,      \* when the worker last purged
  answers,     \* verdicts on their way to the clients
  requests,    \* requests so far (bounds the model)
  second,      \* history: the second in which a key was last judged
  limits,      \* history: the limits it was held against in that second
  passes,      \* history: requests of a key passed in that second
  setlimits,   \* history: the limits of the set, likewise
  setpasses    \* history: requests also passed for the set, likewise

queues == <<masters, workerchan, quotachan>>
seconds == <<second, limits, passes, setlimits, setpasses>>
wvars == <<now, wpc, wdrained, queues, realmap, period, answers, requests,
           seconds>>

NoEntry == [sum |-> 0, aquota |-> 0, procquo |-> 0, averq |-> 0, paverq |-> 0,
            times |-> 0, updatetime |-> 0]

WorkerInit ==
  /\ now = Start
  /\ wpc = "drain"
  /\ wdrained = 0
  /\ masters = <<>>
  /\ workerchan = <<>>
  /\ quotachan = <<>>
  /\ realmap = [k \in Keys |-> NoEntry]
  /\ period = Start
  /\ answers = {}
  /\ requests = 0
  /\ second = [k \in Keys |-> 0]
  /\ limits = [k \in Keys |-> {}]
  /\ passes = [k \in Keys |-> 0]
  /\ setlimits = [k \in Keys |-> {}]
  /\ setpasses = [k \in Keys |-> 0]

-----------------------------------------------------------------------------
\* A client's request: one that finds the queue full is never answered.

Receive(k) ==
  /\ requests < MaxRequests
  /\ requests' = requests + 1
  /\ masters' = IF Len(masters) < MasterCap
                THEN Append(masters, [key |-> k, id |-> requests + 1])
                ELSE masters
  /\ UNCHANGED <<now, wpc, wdrained, workerchan, quotachan, realmap, period,
                 answers, seconds>>

-----------------------------------------------------------------------------
\* The drain loop and the purge.

Refreshed(e, m) ==
  [e EXCEPT !.aquota = m.aquota, !.procquo = m.procquo, !.averq = m.averq,
            !.paverq = m.paverq, !.updatetime = m.updatetime]

\* A mistake: the loop does not count what it drains.
DrainedUncounted(n) == n

\* The loop's counter after one more quota.
Drained(n) == n + 1

\* A mistake: the newest quota is taken first.
TakeNewestQuota(k) ==
  /\ wpc = "drain"
  /\ wdrained < DrainMax
  /\ quotachan # <<>>
  /\ quotachan[Len(quotachan)].key = k
  /\ quotachan' = SubSeq(quotachan, 1, Len(quotachan) - 1)
  /\ wdrained' = Drained(wdrained)
  /\ realmap' = [realmap EXCEPT
                   ![k] = Refreshed(@, quotachan[Len(quotachan)])]
  /\ UNCHANGED <<now, wpc, masters, workerchan, period, answers, requests,
                 seconds>>

TakeQuota(k) ==
  /\ wpc = "drain"
  /\ wdrained < DrainMax
  /\ quotachan # <<>>
  /\ Head(quotachan).key = k
  /\ quotachan' = Tail(quotachan)
  /\ wdrained' = Drained(wdrained)
  /\ realmap' = [realmap EXCEPT ![k] = Refreshed(@, Head(quotachan))]
  /\ UNCHANGED <<now, wpc, masters, workerchan, period, answers, requests,
                 seconds>>

Idle(k) == now - realmap[k].times > IdleAfter

QuotasDrained ==
  /\ wpc = "drain"
  /\ quotachan = <<>> \/ wdrained = DrainMax
  /\ wpc' = "wait"
  /\ wdrained' = 0
  /\ IF now - period > PurgePeriod
     THEN /\ realmap' = [k \in Keys |-> IF Idle(k) THEN NoEntry ELSE realmap[k]]
          /\ period' = now
     ELSE UNCHANGED <<realmap, period>>
  /\ UNCHANGED <<now, queues, answers, requests, seconds>>

-----------------------------------------------------------------------------
\* One request.

\* The quotas are not trusted when they are old, or when the key has none.
Untrusted(e) == (now > e.updatetime /\ now - e.updatetime > HeartBeat)
                \/ e.aquota <= 0

\* The limits a second's requests are held against; 0 is no limit.
Limit(e) == IF Untrusted(e) THEN e.averq ELSE e.aquota
SetLimit(e) == IF Untrusted(e) THEN e.paverq ELSE e.procquo

\* A mistake: the request that reaches the limit is let through.
ReachesOffByOne(n, limit) == limit > 0 /\ n > limit

Reaches(n, limit) == limit > 0 /\ n >= limit

\* A mistake: the count of the last second goes on.
FirstNever(e) == e.times = 0
FirstOfSecond(e) == now # e.times

\* The count of the second with this request, and the two verdicts: 1 or 0.
NewSum(e) == IF FirstOfSecond(e) THEN 1 ELSE e.sum + 1
Ret(e) == IF ~FirstOfSecond(e) /\ Reaches(NewSum(e), Limit(e)) THEN 0 ELSE 1
SetRet(e) ==
  IF Ret(e) = 1 /\ Reaches(NewSum(e), SetLimit(e)) THEN 0 ELSE 1

Remember(k, e) ==
  LET newsec == second[k] # now
  IN  /\ second' = [second EXCEPT ![k] = now]
      /\ limits' = [limits EXCEPT ![k] = IF newsec THEN {}
                                         ELSE @ \cup {Limit(e)}]
      /\ passes' = [passes EXCEPT ![k] = IF newsec THEN Ret(e) ELSE @ + Ret(e)]
      /\ setlimits' = [setlimits EXCEPT
                         ![k] = IF newsec THEN {SetLimit(e)}
                                ELSE @ \cup {SetLimit(e)}]
      /\ setpasses' = [setpasses EXCEPT
                         ![k] = (IF newsec THEN 0 ELSE @)
                                + (IF Ret(e) = 1 /\ SetRet(e) = 1 THEN 1 ELSE 0)]

Judge(k) ==
  /\ wpc = "wait"
  /\ masters # <<>>
  /\ Head(masters).key = k
  /\ masters' = Tail(masters)
  /\ realmap' = [realmap EXCEPT ![k] = [@ EXCEPT !.sum = NewSum(realmap[k]),
                                                 !.times = now]]
  /\ answers' = answers \cup
       {[id |-> Head(masters).id, localq |-> Ret(realmap[k]),
         procquota |-> SetRet(realmap[k])]}
  /\ workerchan' = IF Len(workerchan) < WorkerCap
                   THEN Append(workerchan, [key |-> k, qret |-> Ret(realmap[k]),
                                            sret |-> SetRet(realmap[k])])
                   ELSE workerchan
  /\ Remember(k, realmap[k])
  /\ wpc' = "drain"
  /\ UNCHANGED <<now, wdrained, quotachan, period, requests>>

\* The goroutine that writes an answer to its client.
Deliver(a) ==
  /\ a \in answers
  /\ answers' = answers \ {a}
  /\ UNCHANGED <<now, wpc, wdrained, queues, realmap, period, requests, seconds>>

-----------------------------------------------------------------------------
\* quotastart at the other ends of the queues, and the clock.

PushQuota(k, q) ==
  /\ Len(quotachan) < QuotaCap
  /\ quotachan' = Append(quotachan,
                    [key |-> k, aquota |-> q.aquota, procquo |-> q.procquo,
                     averq |-> q.averq, paverq |-> q.paverq,
                     updatetime |-> now])
  /\ UNCHANGED <<now, wpc, wdrained, masters, workerchan, realmap, period,
                 answers, requests, seconds>>

TakeVerdict ==
  /\ workerchan # <<>>
  /\ workerchan' = Tail(workerchan)
  /\ UNCHANGED <<now, wpc, wdrained, masters, quotachan, realmap, period,
                 answers, requests, seconds>>

WorkerTick ==
  /\ now < MaxTime
  /\ now' = now + 1
  /\ UNCHANGED <<wpc, wdrained, queues, realmap, period, answers, requests,
                 seconds>>

WorkerLoop ==
  \/ \E k \in Keys : TakeQuota(k) \/ Judge(k)
  \/ QuotasDrained

Clients ==
  \/ \E k \in Keys : Receive(k)
  \/ \E a \in answers : Deliver(a)

Reporter ==
  \/ \E k \in Keys, q \in Quotas : PushQuota(k, q)
  \/ TakeVerdict

WorkerNext == WorkerLoop \/ Clients \/ Reporter \/ WorkerTick

WorkerSpec == WorkerInit /\ [][WorkerNext]_wvars

-----------------------------------------------------------------------------
\* Properties.

EntryType == [sum : Nat, aquota : Nat, procquo : Nat, averq : Nat,
              paverq : Nat, times : Nat, updatetime : Nat]
QuotaMsg == [key : Keys, aquota : Nat, procquo : Nat, averq : Nat,
             paverq : Nat, updatetime : Nat]

\* The types of the worker's state.
WorkerTypeOK ==
  /\ now \in Nat
  /\ wpc \in {"drain", "wait"}
  /\ wdrained \in 0 .. DrainMax
  /\ masters \in Seq([key : Keys, id : Nat])
  /\ workerchan \in Seq([key : Keys, qret : {0, 1}, sret : {0, 1}])
  /\ quotachan \in Seq(QuotaMsg)
  /\ realmap \in [Keys -> EntryType]
  /\ period \in Nat
  /\ answers \subseteq [id : Nat, localq : {0, 1}, procquota : {0, 1}]
  /\ requests \in Nat
  /\ second \in [Keys -> Nat]
  /\ limits \in [Keys -> SUBSET Nat]
  /\ passes \in [Keys -> Nat]
  /\ setlimits \in [Keys -> SUBSET Nat]
  /\ setpasses \in [Keys -> Nat]

\* No more requests of a key are passed in a second than the limit allows:
\* one fewer than the greatest limit in force in that second, however often
\* the quotas change under way, and always one (worker.go, 71-88).
PassesWithinLimit ==
  \A k \in Keys :
    0 \notin limits[k] =>
      passes[k] <= 1 \/ \E l \in limits[k] : passes[k] <= l - 1

\* And no fewer: once a key has been refused in a second, as many of its
\* requests have passed as the least limit in force allows (worker.go, 71-88).
RefusedOnlyAtLimit ==
  \A k \in Keys :
    passes[k] < realmap[k].sum =>
      \E l \in limits[k] : l > 0 /\ l - 1 <= passes[k]

\* Of the passed requests, no more pass for the set as well than one fewer
\* than the greatest limit of the set in that second (worker.go, 97-107).
SetPassesWithinLimit ==
  \A k \in Keys :
    0 \notin setlimits[k] =>
      setpasses[k] = 0 \/ \E l \in setlimits[k] : setpasses[k] <= l - 1

\* A key's quotas never get older: the worker sees them in the order in which
\* they were pushed, and only a purge forgets them (worker.go, 24-58).
QuotaViewAdvances ==
  [][\A k \in Keys : \/ realmap'[k].updatetime >= realmap[k].updatetime
                     \/ realmap'[k] = NoEntry]_wvars

\* Every request that reached the queue gets its answer, though quotas may
\* arrive as fast as they are drained and for ever: the loop counts what it
\* drains and then turns to the requests (worker.go, 24).  Fairness: the Go
\* scheduler runs the loop.
Waiting(i) == \E m \in DOMAIN masters : masters[m].id = i
RequestsJudged == \A i \in 1 .. MaxRequests : Waiting(i) ~> ~Waiting(i)

FairWorkerSpec == WorkerSpec /\ WF_wvars(WorkerLoop)
=============================================================================
