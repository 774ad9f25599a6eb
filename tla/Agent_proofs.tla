---------------------------- MODULE Agent_proofs ----------------------------
(***************************************************************************)
(* Two parts of QuaAgent that share no state: the admission of requests    *)
(* (AgentWorker), for every set of quotas, every clock and every           *)
(* interleaving of requests, quotas and purges; and the connections of its *)
(* reports (AgentConn), for any number of reports and connections, any     *)
(* capacity of the pool and any deadline.                                  *)
(***************************************************************************)
EXTENDS AgentWorker, AgentConn, SequenceTheorems, TLAPS

-----------------------------------------------------------------------------
\* The admission of requests.

RequestType == [key : Keys, id : Nat]
VerdictType == [key : Keys, qret : {0, 1}, sret : {0, 1}]

LEMMA NoEntryType == NoEntry \in EntryType
BY DEF NoEntry, EntryType

\* Judging a request counts it, and leads to verdicts that are 0 or 1.
LEMMA JudgeTypes ==
  ASSUME NEW e \in EntryType
  PROVE  /\ NewSum(e) \in Nat \ {0}
         /\ Ret(e) \in {0, 1} /\ SetRet(e) \in {0, 1}
         /\ Limit(e) \in Nat /\ SetLimit(e) \in Nat
BY DEF NewSum, Ret, SetRet, Limit, SetLimit, EntryType

LEMMA RefreshedType ==
  ASSUME NEW e \in EntryType, NEW m \in QuotaMsg
  PROVE  /\ Refreshed(e, m) \in EntryType
         /\ Refreshed(e, m).sum = e.sum /\ Refreshed(e, m).times = e.times
BY DEF Refreshed, EntryType, QuotaMsg

LEMMA WorkerInitType == WorkerInit => WorkerTypeOK
<1> SUFFICES ASSUME WorkerInit PROVE WorkerTypeOK  OBVIOUS
<1>1. <<>> \in Seq(RequestType) /\ <<>> \in Seq(VerdictType)
      /\ <<>> \in Seq(QuotaMsg)
  OBVIOUS
<1>2. realmap \in [Keys -> EntryType]  BY NoEntryType DEF WorkerInit
<1> QED
  BY <1>1, <1>2, WorkerAssumption
  DEF WorkerInit, WorkerTypeOK, RequestType, VerdictType

\* What a step of Judge does to the state, with its types.
LEMMA JudgeStep ==
  ASSUME WorkerTypeOK, NEW k \in Keys, Judge(k)
  PROVE  WorkerTypeOK'
<1> DEFINE e == realmap[k]
<1>0. e \in EntryType  BY DEF WorkerTypeOK
<1>1. /\ NewSum(e) \in Nat /\ Ret(e) \in {0, 1} /\ SetRet(e) \in {0, 1}
      /\ Limit(e) \in Nat /\ SetLimit(e) \in Nat
  BY <1>0, JudgeTypes
<1>2. realmap' \in [Keys -> EntryType]
  <2>1. [e EXCEPT !.sum = NewSum(e), !.times = now] \in EntryType
    BY <1>0, <1>1 DEF EntryType, WorkerTypeOK
  <2>2. realmap' = [realmap EXCEPT ![k] = [e EXCEPT !.sum = NewSum(e),
                                                    !.times = now]]
    BY DEF Judge, WorkerTypeOK
  <2> HIDE DEF e
  <2> QED BY <2>1, <2>2 DEF WorkerTypeOK
<1>3. masters' \in Seq(RequestType) /\ Head(masters).id \in Nat
  <2>1. masters \in Seq(RequestType) /\ masters # <<>>
    BY DEF WorkerTypeOK, RequestType, Judge
  <2>2. Head(masters) \in RequestType /\ Tail(masters) \in Seq(RequestType)
    BY <2>1, HeadTailProperties
  <2> QED BY <2>2 DEF Judge, RequestType
<1>4. workerchan' \in Seq(VerdictType)
  <2>1. [key |-> k, qret |-> Ret(e), sret |-> SetRet(e)] \in VerdictType
    BY <1>1 DEF VerdictType
  <2>2. workerchan \in Seq(VerdictType)  BY DEF WorkerTypeOK, VerdictType
  <2>3. Append(workerchan, [key |-> k, qret |-> Ret(e), sret |-> SetRet(e)])
          \in Seq(VerdictType)
    BY <2>1, <2>2, AppendProperties
  <2> QED BY <2>2, <2>3 DEF Judge
<1>5. answers' \subseteq [id : Nat, localq : {0, 1}, procquota : {0, 1}]
  <2>1. [id |-> Head(masters).id, localq |-> Ret(e), procquota |-> SetRet(e)]
          \in [id : Nat, localq : {0, 1}, procquota : {0, 1}]
    BY <1>1, <1>3
  <2> QED BY <2>1 DEF Judge, WorkerTypeOK
<1>6. /\ second' \in [Keys -> Nat]
      /\ limits' \in [Keys -> SUBSET Nat]
      /\ passes' \in [Keys -> Nat]
      /\ setlimits' \in [Keys -> SUBSET Nat]
      /\ setpasses' \in [Keys -> Nat]
  <2> HIDE DEF e
  <2>1. Remember(k, e)  BY DEF Judge, e
  <2>2. second' \in [Keys -> Nat]  BY <2>1 DEF Remember, WorkerTypeOK
  <2>3. limits' \in [Keys -> SUBSET Nat]
    BY <1>1, <2>1 DEF Remember, WorkerTypeOK
  <2>4. passes' \in [Keys -> Nat]
    BY <1>1, <2>1 DEF Remember, WorkerTypeOK
  <2>5. setlimits' \in [Keys -> SUBSET Nat]
    BY <1>1, <2>1 DEF Remember, WorkerTypeOK
  <2>6. setpasses' \in [Keys -> Nat]
    BY <1>1, <2>1 DEF Remember, WorkerTypeOK
  <2> QED BY <2>2, <2>3, <2>4, <2>5, <2>6
<1> QED
  BY <1>2, <1>3, <1>4, <1>5, <1>6
  DEF Judge, WorkerTypeOK, RequestType, VerdictType

LEMMA WorkerStepType == WorkerTypeOK /\ [WorkerNext]_wvars => WorkerTypeOK'
<1> SUFFICES ASSUME WorkerTypeOK, [WorkerNext]_wvars PROVE WorkerTypeOK'
  OBVIOUS
<1>1. ASSUME NEW k \in Keys, TakeQuota(k) PROVE WorkerTypeOK'
  <2>1. quotachan \in Seq(QuotaMsg) /\ quotachan # <<>>
    BY <1>1 DEF TakeQuota, WorkerTypeOK
  <2>2. Head(quotachan) \in QuotaMsg /\ quotachan' \in Seq(QuotaMsg)
    BY <1>1, <2>1, HeadTailProperties DEF TakeQuota
  <2>3. Refreshed(realmap[k], Head(quotachan)) \in EntryType
    BY <2>2, RefreshedType DEF WorkerTypeOK
  <2>6. realmap' \in [Keys -> EntryType]
    BY <1>1, <2>3 DEF TakeQuota, WorkerTypeOK
  <2>7. wdrained' \in 0 .. DrainMax
    <3>1. wdrained \in 0 .. DrainMax /\ wdrained < DrainMax
          /\ wdrained' = wdrained + 1
      BY <1>1 DEF TakeQuota, Drained, WorkerTypeOK
    <3> QED BY <3>1, WorkerAssumption
  <2> QED BY <1>1, <2>2, <2>6, <2>7 DEF TakeQuota, WorkerTypeOK, seconds
<1>2. ASSUME NEW k \in Keys, Judge(k) PROVE WorkerTypeOK'
  BY <1>2, JudgeStep
<1>3. CASE QuotasDrained
  <2>1. realmap' \in [Keys -> EntryType] /\ period' \in Nat
    BY <1>3, NoEntryType DEF QuotasDrained, WorkerTypeOK
  <2>2. wdrained' \in 0 .. DrainMax
    BY <1>3, WorkerAssumption DEF QuotasDrained
  <2> QED BY <1>3, <2>1, <2>2 DEF QuotasDrained, WorkerTypeOK, queues, seconds
<1>4. ASSUME NEW k \in Keys, Receive(k) PROVE WorkerTypeOK'
  <2>1. masters \in Seq(RequestType)  BY DEF WorkerTypeOK, RequestType
  <2>2. [key |-> k, id |-> requests + 1] \in RequestType
    BY DEF WorkerTypeOK, RequestType
  <2>3. masters' \in Seq(RequestType)
    BY <1>4, <2>1, <2>2, AppendProperties DEF Receive
  <2> QED BY <1>4, <2>3 DEF Receive, WorkerTypeOK, RequestType, seconds
<1>5. ASSUME NEW a \in answers, Deliver(a) PROVE WorkerTypeOK'
  BY <1>5 DEF Deliver, WorkerTypeOK, queues, seconds
<1>6. ASSUME NEW k \in Keys, NEW q \in Quotas, PushQuota(k, q)
      PROVE WorkerTypeOK'
  <2>1. [key |-> k, aquota |-> q.aquota, procquo |-> q.procquo,
         averq |-> q.averq, paverq |-> q.paverq, updatetime |-> now]
          \in QuotaMsg
    BY WorkerAssumption DEF QuotaMsg, WorkerTypeOK
  <2>2. quotachan' \in Seq(QuotaMsg)
    BY <1>6, <2>1, AppendProperties DEF PushQuota, WorkerTypeOK
  <2> QED BY <1>6, <2>2 DEF PushQuota, WorkerTypeOK, seconds
<1>7. CASE TakeVerdict
  <2>1. workerchan \in Seq(VerdictType)  BY DEF WorkerTypeOK, VerdictType
  <2>2. workerchan' \in Seq(VerdictType)
    BY <1>7, <2>1, HeadTailProperties DEF TakeVerdict
  <2> QED BY <1>7, <2>2 DEF TakeVerdict, WorkerTypeOK, VerdictType, seconds
<1>8. CASE WorkerTick
  BY <1>8 DEF WorkerTick, WorkerTypeOK, queues, seconds
<1>9. CASE UNCHANGED wvars
  BY <1>9 DEF wvars, WorkerTypeOK, queues, seconds
<1> QED
  BY <1>1, <1>2, <1>3, <1>4, <1>5, <1>6, <1>7, <1>8, <1>9
  DEF WorkerNext, WorkerLoop, Clients, Reporter

\* The worker's state keeps its types.
THEOREM WorkerTypeCorrect == WorkerSpec => []WorkerTypeOK
<1>1. WorkerInit => WorkerTypeOK  BY WorkerInitType
<1>2. WorkerTypeOK /\ [WorkerNext]_wvars => WorkerTypeOK'  BY WorkerStepType
<1> QED BY <1>1, <1>2, PTL DEF WorkerSpec

-----------------------------------------------------------------------------
(***************************************************************************)
(* The bounds of a second.  SecondInv ties the worker's count, which a     *)
(* purge resets, to the history of the key: as long as the entry is that   *)
(* of the second last judged, no more requests were passed than counted.   *)
(***************************************************************************)
SecondInv(k) ==
  /\ second[k] <= now
  /\ \/ realmap[k].times = second[k] /\ passes[k] <= realmap[k].sum
     \/ realmap[k].times = 0 /\ realmap[k].sum = 0 /\ second[k] < now
  /\ 0 \notin limits[k] =>
       passes[k] <= 1 \/ \E l \in limits[k] : passes[k] <= l - 1
  /\ passes[k] < realmap[k].sum =>
       \E l \in limits[k] : l > 0 /\ l - 1 <= passes[k]

AdmissionInv == WorkerTypeOK /\ now > 0 /\ \A k \in Keys : SecondInv(k)

\* The invariant of a key depends on its fields and the clock only.
LEMMA SameSecond ==
  ASSUME WorkerTypeOK, NEW k \in Keys, SecondInv(k), now' \in {now, now + 1},
         realmap'[k].times = realmap[k].times,
         realmap'[k].sum = realmap[k].sum,
         second'[k] = second[k], limits'[k] = limits[k], passes'[k] = passes[k]
  PROVE  SecondInv(k)'
<1>1. second[k] \in Nat /\ now \in Nat  BY DEF WorkerTypeOK
<1> QED BY <1>1 DEF SecondInv

LEMMA JudgeKeepsSecond ==
  ASSUME AdmissionInv, NEW k \in Keys, Judge(k)
  PROVE  SecondInv(k)'
<1> DEFINE e == realmap[k]
<1>0. e \in EntryType /\ WorkerTypeOK  BY DEF AdmissionInv, WorkerTypeOK
<1>1. /\ now' = now /\ second'[k] = now
      /\ realmap'[k].times = now /\ realmap'[k].sum = NewSum(e)
  BY <1>0 DEF Judge, Remember, EntryType, WorkerTypeOK
<1>2. /\ now \in Nat /\ now > 0 /\ passes[k] \in Nat /\ limits[k] \in SUBSET Nat
      /\ e.sum \in Nat /\ e.times \in Nat /\ Limit(e) \in Nat
      /\ Ret(e) \in {0, 1}
  BY <1>0, JudgeTypes DEF AdmissionInv, WorkerTypeOK, EntryType
<1>3. CASE second[k] # now
  <2>1. FirstOfSecond(e)
    BY <1>2, <1>3 DEF FirstOfSecond, AdmissionInv, SecondInv
  <2>2. NewSum(e) = 1 /\ Ret(e) = 1  BY <2>1 DEF NewSum, Ret
  <2>3. passes'[k] = 1
    BY <1>0, <1>3, <2>2 DEF Judge, Remember, WorkerTypeOK
  <2> QED BY <1>1, <1>2, <2>2, <2>3 DEF SecondInv
<1>4. CASE second[k] = now
  <2>1. e.times = now /\ passes[k] <= e.sum
    BY <1>2, <1>4 DEF AdmissionInv, SecondInv
  <2>2. NewSum(e) = e.sum + 1  BY <2>1 DEF NewSum, FirstOfSecond
  <2>3. /\ limits'[k] = limits[k] \cup {Limit(e)}
        /\ passes'[k] = passes[k] + Ret(e)
    BY <1>0, <1>4 DEF Judge, Remember, WorkerTypeOK
  <2>4. Ret(e) = IF Limit(e) > 0 /\ e.sum + 1 >= Limit(e) THEN 0 ELSE 1
    BY <2>1, <2>2 DEF Ret, Reaches, FirstOfSecond
  <2>5. /\ 0 \notin limits[k] =>
             passes[k] <= 1 \/ \E l \in limits[k] : passes[k] <= l - 1
        /\ passes[k] < e.sum =>
             \E l \in limits[k] : l > 0 /\ l - 1 <= passes[k]
    BY DEF AdmissionInv, SecondInv
  <2> HIDE DEF e
  <2>6. passes'[k] <= NewSum(e)
    BY <1>2, <2>1, <2>2, <2>3
  <2>7. 0 \notin limits'[k] =>
          passes'[k] <= 1 \/ \E l \in limits'[k] : passes'[k] <= l - 1
    <3>1. CASE Ret(e) = 1
      <4>1. 0 \notin limits'[k] => Limit(e) > 0  BY <1>2, <2>3
      <4>2. Limit(e) > 0 => passes'[k] <= Limit(e) - 1
        BY <1>2, <2>1, <2>3, <2>4, <3>1
      <4> QED BY <2>3, <4>1, <4>2
    <3>2. CASE Ret(e) = 0
      BY <1>2, <2>3, <2>5, <3>2
    <3> QED BY <1>2, <3>1, <3>2
  <2>8. passes'[k] < NewSum(e) =>
          \E l \in limits'[k] : l > 0 /\ l - 1 <= passes'[k]
    <3>1. CASE Ret(e) = 1
      <4>1. passes'[k] < NewSum(e) => passes[k] < e.sum
        BY <1>2, <2>2, <2>3, <3>1
      <4>2. \A l \in limits[k] : l - 1 <= passes[k] => l - 1 <= passes'[k]
        BY <1>2, <2>3, <3>1
      <4> QED BY <2>3, <2>5, <4>1, <4>2
    <3>2. CASE Ret(e) = 0 /\ passes[k] = e.sum
      <4>1. Limit(e) > 0 /\ Limit(e) - 1 <= passes'[k]
        BY <1>2, <2>3, <2>4, <3>2
      <4> QED BY <2>3, <4>1
    <3>3. CASE Ret(e) = 0 /\ passes[k] < e.sum
      <4>1. passes'[k] = passes[k]  BY <1>2, <2>3, <3>3
      <4> QED BY <2>3, <2>5, <3>3, <4>1
    <3> QED BY <1>2, <2>1, <3>1, <3>2, <3>3
  <2> QED BY <1>1, <1>2, <2>6, <2>7, <2>8 DEF SecondInv
<1> QED BY <1>3, <1>4

LEMMA StepAdmission == AdmissionInv /\ [WorkerNext]_wvars => AdmissionInv'
<1> SUFFICES ASSUME AdmissionInv, [WorkerNext]_wvars PROVE AdmissionInv'
  OBVIOUS
<1>0. WorkerTypeOK /\ WorkerTypeOK'  BY WorkerStepType DEF AdmissionInv
<1>n. now \in Nat /\ now > 0  BY <1>0 DEF AdmissionInv, WorkerTypeOK
<1>k. ASSUME NEW k \in Keys PROVE SecondInv(k)  BY DEF AdmissionInv
<1>1. ASSUME NEW j \in Keys, TakeQuota(j) PROVE AdmissionInv'
  <2>1. now' = now /\ UNCHANGED seconds  BY <1>1 DEF TakeQuota
  <2>2. Head(quotachan) \in QuotaMsg
    BY <1>0, <1>1, HeadTailProperties DEF TakeQuota, WorkerTypeOK
  <2>3. realmap[j] \in EntryType  BY <1>0 DEF WorkerTypeOK
  <2>4. /\ Refreshed(realmap[j], Head(quotachan)).sum = realmap[j].sum
        /\ Refreshed(realmap[j], Head(quotachan)).times = realmap[j].times
    BY <2>2, <2>3, RefreshedType
  <2>5. ASSUME NEW k \in Keys
        PROVE  realmap'[k].sum = realmap[k].sum
               /\ realmap'[k].times = realmap[k].times
    BY <1>0, <1>1, <2>4 DEF TakeQuota, WorkerTypeOK
  <2>6. ASSUME NEW k \in Keys PROVE SecondInv(k)'
    BY <1>0, <1>k, <2>1, <2>5, SameSecond DEF seconds
  <2> QED BY <1>0, <1>n, <2>1, <2>6 DEF AdmissionInv
<1>2. ASSUME NEW j \in Keys, Judge(j) PROVE AdmissionInv'
  <2>1. now' = now  BY <1>2 DEF Judge
  <2>2. ASSUME NEW k \in Keys, k # j PROVE SecondInv(k)'
    BY <1>0, <1>2, <1>k, <2>1, <2>2, SameSecond
    DEF Judge, Remember, WorkerTypeOK
  <2>3. SecondInv(j)'  BY <1>2, JudgeKeepsSecond
  <2> QED BY <1>0, <1>n, <2>1, <2>2, <2>3 DEF AdmissionInv
<1>3. CASE QuotasDrained
  <2>1. now' = now /\ UNCHANGED seconds  BY <1>3 DEF QuotasDrained
  <2>2. ASSUME NEW k \in Keys, realmap'[k] = realmap[k] PROVE SecondInv(k)'
    BY <1>0, <1>k, <2>1, <2>2, SameSecond DEF seconds
  <2>3. ASSUME NEW k \in Keys, realmap'[k] = NoEntry, Idle(k)
        PROVE  SecondInv(k)'
    <3>1. second[k] \in Nat /\ realmap[k].times \in Nat /\ passes[k] \in Nat
      BY <1>0 DEF WorkerTypeOK, EntryType
    <3>2. second[k] < now
      BY <1>n, <1>k, <2>3, <3>1, WorkerAssumption DEF Idle, SecondInv
    <3>3. realmap'[k].times = 0 /\ realmap'[k].sum = 0
      BY <2>3 DEF NoEntry
    <3> QED BY <1>k, <2>1, <3>1, <3>2, <3>3 DEF SecondInv, seconds
  <2>4. ASSUME NEW k \in Keys
        PROVE  realmap'[k] = realmap[k] \/ (realmap'[k] = NoEntry /\ Idle(k))
    BY <1>0, <1>3 DEF QuotasDrained, WorkerTypeOK
  <2> QED BY <1>0, <1>n, <2>1, <2>2, <2>3, <2>4 DEF AdmissionInv
<1>4. CASE Clients \/ Reporter
  <2>1. UNCHANGED <<now, realmap, second, limits, passes>>
    BY <1>4 DEF Clients, Reporter, Receive, Deliver, PushQuota, TakeVerdict,
                seconds
  <2>2. ASSUME NEW k \in Keys PROVE SecondInv(k)'
    BY <1>0, <1>k, <2>1, SameSecond
  <2> QED BY <1>0, <1>n, <2>1, <2>2 DEF AdmissionInv
<1>5. CASE WorkerTick
  <2>1. now' = now + 1 /\ UNCHANGED <<realmap, second, limits, passes>>
    BY <1>5 DEF WorkerTick, seconds
  <2>2. ASSUME NEW k \in Keys PROVE SecondInv(k)'
    BY <1>0, <1>k, <2>1, SameSecond
  <2> QED BY <1>0, <1>n, <2>1, <2>2 DEF AdmissionInv
<1>6. CASE UNCHANGED wvars
  BY <1>0, <1>6 DEF wvars, seconds, AdmissionInv, SecondInv
<1> QED
  BY <1>1, <1>2, <1>3, <1>4, <1>5, <1>6 DEF WorkerNext, WorkerLoop

LEMMA AdmissionInvariant == WorkerSpec => []AdmissionInv
<1>1. WorkerInit => AdmissionInv
  <2> SUFFICES ASSUME WorkerInit PROVE AdmissionInv  OBVIOUS
  <2>1. WorkerTypeOK  BY WorkerInitType
  <2>2. ASSUME NEW k \in Keys PROVE SecondInv(k)
    BY WorkerAssumption DEF WorkerInit, SecondInv, NoEntry
  <2> QED BY <2>1, <2>2, WorkerAssumption DEF AdmissionInv, WorkerInit
<1>2. AdmissionInv /\ [WorkerNext]_wvars => AdmissionInv'  BY StepAdmission
<1> QED BY <1>1, <1>2, PTL DEF WorkerSpec

\* No second passes more requests of a key than its limits allow (worker.go,
\* 71-88).
THEOREM AdmissionUpperBound == WorkerSpec => []PassesWithinLimit
<1>1. AdmissionInv => PassesWithinLimit
  BY DEF AdmissionInv, SecondInv, PassesWithinLimit
<1> QED BY <1>1, AdmissionInvariant, PTL

\* No request is refused before the second has passed what its limits allow
\* (worker.go, 71-88).
THEOREM AdmissionLowerBound == WorkerSpec => []RefusedOnlyAtLimit
<1>1. AdmissionInv => RefusedOnlyAtLimit
  BY DEF AdmissionInv, SecondInv, RefusedOnlyAtLimit
<1> QED BY <1>1, AdmissionInvariant, PTL

-----------------------------------------------------------------------------
(***************************************************************************)
(* The set.  Of the requests a key passes in a second those that also pass *)
(* for the set are some, so the count they are held against is no smaller. *)
(***************************************************************************)
SetSecondInv(k) ==
  /\ setpasses[k] <= passes[k]
  /\ 0 \notin setlimits[k] =>
       setpasses[k] = 0 \/ \E l \in setlimits[k] : setpasses[k] <= l - 1

SetAdmissionInv == \A k \in Keys : SetSecondInv(k)

LEMMA SetJudge ==
  ASSUME AdmissionInv, SetAdmissionInv, NEW k \in Keys, Judge(k)
  PROVE  SetSecondInv(k)'
<1> DEFINE e == realmap[k]
           newsec == second[k] # now
           both == IF Ret(e) = 1 /\ SetRet(e) = 1 THEN 1 ELSE 0
<1>0. e \in EntryType /\ WorkerTypeOK  BY DEF AdmissionInv, WorkerTypeOK
<1>1. /\ passes[k] \in Nat /\ setpasses[k] \in Nat /\ setlimits[k] \in SUBSET Nat
      /\ e.sum \in Nat /\ SetLimit(e) \in Nat /\ NewSum(e) \in Nat
      /\ Ret(e) \in {0, 1} /\ SetRet(e) \in {0, 1}
  BY <1>0, JudgeTypes DEF WorkerTypeOK, EntryType
<1>2. /\ passes'[k] = IF newsec THEN Ret(e) ELSE passes[k] + Ret(e)
      /\ setpasses'[k] = (IF newsec THEN 0 ELSE setpasses[k]) + both
      /\ setlimits'[k] = IF newsec THEN {SetLimit(e)}
                         ELSE setlimits[k] \cup {SetLimit(e)}
  BY <1>0, Zenon DEF Judge, Remember, WorkerTypeOK
<1>3. passes'[k] <= NewSum(e)
  <2>1. SecondInv(k)'  BY JudgeKeepsSecond
  <2>2. realmap'[k].sum = NewSum(e) /\ realmap'[k].times = now /\ now' = now
    BY <1>0 DEF Judge, EntryType, WorkerTypeOK
  <2>3. now > 0  BY DEF AdmissionInv
  <2> HIDE DEF e
  <2> QED BY <1>0, <2>1, <2>2, <2>3 DEF SecondInv, WorkerTypeOK
<1>4. SetRet(e) = 1 /\ Ret(e) = 1 /\ SetLimit(e) > 0 => NewSum(e) <= SetLimit(e) - 1
  <2>1. SetRet(e) = 1 /\ Ret(e) = 1 => ~Reaches(NewSum(e), SetLimit(e))
    BY DEF SetRet
  <2> HIDE DEF e
  <2> QED BY <1>1, <2>1 DEF Reaches
<1>5. SetSecondInv(k)  BY DEF SetAdmissionInv
<1> HIDE DEF e, newsec
<1>6. both \in {0, 1} /\ (both = 1 <=> Ret(e) = 1 /\ SetRet(e) = 1)  OBVIOUS
<1> HIDE DEF both
<1>7. setpasses'[k] <= passes'[k]
  BY <1>1, <1>2, <1>5, <1>6 DEF SetSecondInv
<1>8. setpasses'[k] \in Nat /\ passes'[k] \in Nat  BY <1>1, <1>2, <1>6
<1>9. ASSUME 0 \notin setlimits'[k]
      PROVE  setpasses'[k] = 0 \/ \E l \in setlimits'[k] : setpasses'[k] <= l - 1
  <2>1. SetLimit(e) \in setlimits'[k] /\ SetLimit(e) > 0  BY <1>1, <1>2, <1>9
  <2>2. CASE both = 1
    <3>1. setpasses'[k] <= SetLimit(e) - 1
      BY <1>1, <1>3, <1>4, <1>6, <1>7, <1>8, <2>1, <2>2
    <3> QED BY <2>1, <3>1
  <2>3. CASE both = 0
    <3>1. CASE newsec  BY <1>2, <2>3, <3>1
    <3>2. CASE ~newsec
      <4>1. setpasses'[k] = setpasses[k] /\ setlimits[k] \subseteq setlimits'[k]
        BY <1>1, <1>2, <2>3, <3>2
      <4> QED BY <1>5, <1>9, <4>1 DEF SetSecondInv
    <3> QED BY <3>1, <3>2
  <2> QED BY <1>6, <2>2, <2>3
<1> QED BY <1>7, <1>9 DEF SetSecondInv

LEMMA SetStep ==
  AdmissionInv /\ SetAdmissionInv /\ [WorkerNext]_wvars => SetAdmissionInv'
<1> SUFFICES ASSUME AdmissionInv, SetAdmissionInv, [WorkerNext]_wvars
             PROVE  SetAdmissionInv'
  OBVIOUS
<1>1. ASSUME NEW j \in Keys, Judge(j) PROVE SetAdmissionInv'
  <2>1. SetSecondInv(j)'  BY <1>1, SetJudge
  <2>2. ASSUME NEW k \in Keys, k # j PROVE SetSecondInv(k)'
    <3>1. /\ passes'[k] = passes[k] /\ setpasses'[k] = setpasses[k]
          /\ setlimits'[k] = setlimits[k]
      BY <1>1, <2>2 DEF Judge, Remember, AdmissionInv, WorkerTypeOK
    <3> QED BY <3>1 DEF SetAdmissionInv, SetSecondInv
  <2> QED BY <2>1, <2>2 DEF SetAdmissionInv
<1>2. CASE UNCHANGED <<passes, setpasses, setlimits>>
  BY <1>2 DEF SetAdmissionInv, SetSecondInv
<1>3. ASSUME NEW j \in Keys, TakeQuota(j) PROVE SetAdmissionInv'
  BY <1>2, <1>3 DEF TakeQuota, seconds
<1>4. CASE QuotasDrained  BY <1>2, <1>4 DEF QuotasDrained, seconds
<1>5. CASE Clients \/ Reporter
  BY <1>2, <1>5 DEF Clients, Reporter, Receive, Deliver, PushQuota, TakeVerdict, seconds
<1>6. CASE WorkerTick  BY <1>2, <1>6 DEF WorkerTick, seconds
<1>7. CASE UNCHANGED wvars  BY <1>2, <1>7 DEF wvars, seconds
<1> QED BY <1>1, <1>3, <1>4, <1>5, <1>6, <1>7 DEF WorkerNext, WorkerLoop

\* Of the passed requests no more pass for the set than the set's limits of the
\* second allow (worker.go, 97-107).
THEOREM SetUpperBound == WorkerSpec => []SetPassesWithinLimit
<1>1. WorkerInit => SetAdmissionInv
  BY DEF WorkerInit, SetAdmissionInv, SetSecondInv
<1>2. AdmissionInv /\ SetAdmissionInv /\ [WorkerNext]_wvars => SetAdmissionInv'
  BY SetStep
<1>3. SetAdmissionInv => SetPassesWithinLimit
  BY DEF SetAdmissionInv, SetSecondInv, SetPassesWithinLimit
<1> QED BY <1>1, <1>2, <1>3, AdmissionInvariant, PTL DEF WorkerSpec

-----------------------------------------------------------------------------
(***************************************************************************)
(* The worker's view of the quotas.  quotachan holds them in the order of  *)
(* their time, all of them later than what the worker has taken.           *)
(***************************************************************************)
ViewInv ==
  /\ \A k \in Keys : realmap[k].updatetime <= now
  /\ \A i \in 1 .. Len(quotachan) : quotachan[i].updatetime <= now
  /\ \A i, j \in 1 .. Len(quotachan) :
       i <= j => quotachan[i].updatetime <= quotachan[j].updatetime
  /\ \A k \in Keys, i \in 1 .. Len(quotachan) :
       realmap[k].updatetime <= quotachan[i].updatetime

ViewStep ==
  \A k \in Keys : \/ realmap'[k].updatetime >= realmap[k].updatetime
                  \/ realmap'[k] = NoEntry

\* What the invariant is about is typed.
LEMMA ViewTypes ==
  ASSUME WorkerTypeOK
  PROVE  /\ now \in Nat /\ quotachan \in Seq(QuotaMsg) /\ Len(quotachan) \in Nat
         /\ \A k \in Keys : realmap[k].updatetime \in Nat
         /\ \A i \in 1 .. Len(quotachan) : quotachan[i].updatetime \in Nat
<1>1. quotachan \in Seq(QuotaMsg) /\ Len(quotachan) \in Nat  BY DEF WorkerTypeOK
<1>2. \A i \in 1 .. Len(quotachan) : quotachan[i] \in QuotaMsg
  BY <1>1, ElementOfSeq
<1> QED BY <1>1, <1>2 DEF WorkerTypeOK, EntryType, QuotaMsg

LEMMA ViewTake ==
  ASSUME WorkerTypeOK, ViewInv, NEW k \in Keys, TakeQuota(k)
  PROVE  ViewInv' /\ ViewStep
<1>1. /\ quotachan \in Seq(QuotaMsg) /\ quotachan # <<>>
      /\ quotachan' = Tail(quotachan) /\ now' = now
      /\ realmap' = [realmap EXCEPT ![k] = Refreshed(@, Head(quotachan))]
  BY DEF TakeQuota, WorkerTypeOK
<1>2. /\ Len(quotachan) \in Nat \ {0} /\ Head(quotachan) = quotachan[1]
      /\ Len(quotachan') = Len(quotachan) - 1
      /\ \A i \in 1 .. Len(quotachan') : quotachan'[i] = quotachan[i + 1]
  BY <1>1, HeadTailProperties, LenProperties
<1>3. realmap'[k].updatetime = quotachan[1].updatetime
  <2>1. realmap \in [Keys -> EntryType]  BY DEF WorkerTypeOK
  <2>2. realmap'[k] = Refreshed(realmap[k], quotachan[1])
    BY ONLY <1>1, <1>2, <2>1, k \in Keys
  <2>3. realmap[k] \in EntryType  BY ONLY <2>1, k \in Keys
  <2>4. Refreshed(realmap[k], quotachan[1]).updatetime = quotachan[1].updatetime
    BY ONLY <2>3 DEF Refreshed, EntryType
  <2> QED BY ONLY <2>2, <2>4
<1>4. \A j \in Keys \ {k} : realmap'[j] = realmap[j]
  BY <1>1 DEF WorkerTypeOK
<1>5. 1 \in 1 .. Len(quotachan)  BY <1>2
<1>6. \A i \in 1 .. Len(quotachan') : i + 1 \in 1 .. Len(quotachan)  BY <1>2
<1>7. ViewStep
  BY <1>3, <1>4, <1>5, ViewTypes DEF ViewInv, ViewStep
<1>8. \A j \in Keys : realmap'[j].updatetime <= now'
  BY <1>1, <1>3, <1>4, <1>5 DEF ViewInv
<1>9. \A i \in 1 .. Len(quotachan') : quotachan'[i].updatetime <= now'
  BY <1>1, <1>2, <1>6 DEF ViewInv
<1>10. \A i, j \in 1 .. Len(quotachan') :
         i <= j => quotachan'[i].updatetime <= quotachan'[j].updatetime
  BY <1>2, <1>6 DEF ViewInv
<1>11. ASSUME NEW j \in Keys, NEW i \in 1 .. Len(quotachan')
       PROVE  realmap'[j].updatetime <= quotachan'[i].updatetime
  <2>1. quotachan'[i] = quotachan[i + 1] /\ i + 1 \in 1 .. Len(quotachan)
    BY <1>2, <1>6
  <2>2. CASE j = k  BY <1>3, <1>5, <2>1, <2>2 DEF ViewInv
  <2>3. CASE j # k  BY <1>4, <2>1, <2>3 DEF ViewInv
  <2> QED BY <2>2, <2>3
<1> QED BY <1>7, <1>8, <1>9, <1>10, <1>11 DEF ViewInv

LEMMA ViewPush ==
  ASSUME WorkerTypeOK, ViewInv, NEW k \in Keys, NEW q \in Quotas, PushQuota(k, q)
  PROVE  ViewInv'
<1> DEFINE m == [key |-> k, aquota |-> q.aquota, procquo |-> q.procquo,
                 averq |-> q.averq, paverq |-> q.paverq, updatetime |-> now]
<1>1. quotachan' = Append(quotachan, m) /\ UNCHANGED <<now, realmap>>
  BY DEF PushQuota
<1>2. m \in QuotaMsg  BY WorkerAssumption DEF QuotaMsg, WorkerTypeOK
<1>3. m.updatetime = now  OBVIOUS
<1> HIDE DEF m
<1>4. /\ Len(quotachan') = Len(quotachan) + 1
      /\ \A i \in 1 .. Len(quotachan) : quotachan'[i] = quotachan[i]
      /\ quotachan'[Len(quotachan) + 1] = m
  BY <1>1, <1>2, AppendProperties DEF WorkerTypeOK
<1>5. Len(quotachan) \in Nat  BY ViewTypes
<1>6. \A i \in 1 .. Len(quotachan') :
        i \in 1 .. Len(quotachan) \/ quotachan'[i].updatetime = now
  BY <1>3, <1>4, <1>5
<1>7. \A i \in 1 .. Len(quotachan') : quotachan'[i].updatetime <= now
  BY <1>4, <1>6, ViewTypes DEF ViewInv
<1>8. ASSUME NEW i \in 1 .. Len(quotachan'), NEW j \in 1 .. Len(quotachan'), i <= j
      PROVE  quotachan'[i].updatetime <= quotachan'[j].updatetime
  <2>1. CASE quotachan'[j].updatetime = now  BY <1>7, <2>1
  <2>2. CASE j \in 1 .. Len(quotachan)
    <3>1. i \in 1 .. Len(quotachan)  BY <1>4, <1>5, <1>8, <2>2
    <3> QED BY <1>4, <1>8, <2>2, <3>1 DEF ViewInv
  <2> QED BY <1>6, <2>1, <2>2
<1>9. \A j \in Keys, i \in 1 .. Len(quotachan') :
        realmap[j].updatetime <= quotachan'[i].updatetime
  BY <1>4, <1>6 DEF ViewInv
<1> QED BY <1>1, <1>7, <1>8, <1>9 DEF ViewInv

LEMMA ViewNext ==
  WorkerTypeOK /\ ViewInv /\ [WorkerNext]_wvars => ViewInv' /\ [ViewStep]_wvars
<1> SUFFICES ASSUME WorkerTypeOK, ViewInv, [WorkerNext]_wvars
             PROVE  ViewInv' /\ [ViewStep]_wvars
  OBVIOUS
<1>0. ASSUME realmap' = realmap PROVE ViewStep
  <2>1. \A k \in Keys : realmap[k].updatetime \in Nat  BY ViewTypes
  <2> QED BY <1>0, <2>1 DEF ViewStep
<1>1. ASSUME NEW k \in Keys, TakeQuota(k) PROVE ViewInv' /\ [ViewStep]_wvars
  BY <1>1, ViewTake
<1>2. ASSUME NEW k \in Keys, Judge(k) PROVE ViewInv' /\ [ViewStep]_wvars
  <2>1. UNCHANGED <<now, quotachan>>  BY <1>2 DEF Judge
  <2>2. \A j \in Keys : realmap'[j].updatetime = realmap[j].updatetime
    BY <1>2 DEF Judge, WorkerTypeOK, EntryType
  <2>3. \A j \in Keys : realmap[j].updatetime \in Nat  BY ViewTypes
  <2> QED BY <2>1, <2>2, <2>3 DEF ViewInv, ViewStep
<1>3. CASE QuotasDrained
  <2>1. UNCHANGED <<now, quotachan>>  BY <1>3 DEF QuotasDrained, queues
  <2>2. \A j \in Keys : realmap'[j] \in {realmap[j], NoEntry}
    BY <1>3 DEF QuotasDrained
  <2>3. NoEntry.updatetime = 0  BY DEF NoEntry
  <2>4. \A j \in Keys : realmap'[j].updatetime \in {realmap[j].updatetime, 0}
    BY <2>2, <2>3
  <2>5. ViewInv'  BY <2>1, <2>4, ViewTypes DEF ViewInv
  <2>6. ViewStep  BY <2>2, ViewTypes DEF ViewStep
  <2> QED BY <2>5, <2>6
<1>4. ASSUME NEW k \in Keys, NEW q \in Quotas, PushQuota(k, q)
      PROVE  ViewInv' /\ [ViewStep]_wvars
  <2>1. realmap' = realmap  BY <1>4 DEF PushQuota
  <2> QED BY <1>0, <1>4, <2>1, ViewPush
<1>5. CASE Clients \/ TakeVerdict
  <2>1. UNCHANGED <<now, quotachan, realmap>>
    BY <1>5 DEF Clients, Receive, Deliver, TakeVerdict, queues
  <2> QED BY <1>0, <2>1 DEF ViewInv
<1>6. CASE WorkerTick
  <2>1. now' = now + 1 /\ UNCHANGED <<quotachan, realmap>>
    BY <1>6 DEF WorkerTick, queues
  <2>2. ViewInv'  BY <2>1, ViewTypes DEF ViewInv
  <2> QED BY <1>0, <2>1, <2>2
<1>7. CASE UNCHANGED wvars  BY <1>7 DEF wvars, queues, ViewInv
<1> QED
  BY <1>1, <1>2, <1>3, <1>4, <1>5, <1>6, <1>7
  DEF WorkerNext, WorkerLoop, Reporter

\* The quotas of a key never get older, only a purge forgets them (worker.go,
\* 24-58).
THEOREM ViewAdvances == WorkerSpec => QuotaViewAdvances
<1>1. WorkerInit => WorkerTypeOK /\ ViewInv
  <2> SUFFICES ASSUME WorkerInit PROVE ViewInv  BY WorkerInitType
  <2>1. Len(quotachan) = 0 /\ now \in Nat /\ \A k \in Keys : realmap[k].updatetime = 0
    BY WorkerAssumption DEF WorkerInit, NoEntry
  <2> QED BY <2>1 DEF ViewInv
<1>2. WorkerTypeOK /\ ViewInv /\ [WorkerNext]_wvars => (WorkerTypeOK /\ ViewInv)'
  BY WorkerStepType, ViewNext
<1>3. WorkerTypeOK /\ ViewInv /\ [WorkerNext]_wvars => [ViewStep]_wvars
  BY ViewNext
<1>4. WorkerSpec => [][ViewStep]_wvars
  BY <1>1, <1>2, <1>3, PTL DEF WorkerSpec
<1> QED BY <1>4, Zenon DEF QuotaViewAdvances, ViewStep

-----------------------------------------------------------------------------
\* The connections.

ConnType == [open : BOOLEAN, up : BOOLEAN, left : 0 .. ReadTime,
             owed : Seq(PieceType), in : Seq(PieceType), astray : BOOLEAN]
SendType ==
  [at : {"idle", "dial", "try", "redial", "retry", "replace"} \cup Ended,
   conn : Conns \cup {Nobody}]
\* A goroutine has a connection while it reads it.
Holding == \A r \in Reports : send[r].conn # Nobody <=> send[r].at \in {"try", "retry"}
AnswerType == [answer : Reports \cup {Garbage}, astray : BOOLEAN]

-----------------------------------------------------------------------------
\* Types.

LEMMA EmptyTypes ==
  /\ <<>> \in Seq(PieceType) /\ <<>> \in Seq(Conns) /\ Len(<<>>) = 0
  /\ <<>> \in Seq(AnswerType) /\ <<>> \in Seq({"success", "failure"})
BY EmptySeq

LEMMA ConnTypes == Closed \in ConnType /\ Dialled \in ConnType
BY EmptyTypes, ConnAssumption DEF ConnType, Closed, Dialled, Deadline

LEMMA PieceTypes ==
  ASSUME NEW r \in Reports, NEW part \in {"whole", "first", "rest"}
  PROVE  Piece(r, part) \in PieceType /\ <<Piece(r, part)>> \in Seq(PieceType)
BY DEF Piece, PieceType

\* The conjuncts of TypeOK, under the names of this module.
LEMMA Types ==
  TypeOK <=>
    /\ conns \in [Conns -> ConnType]
    /\ pool \in Seq(Conns) /\ Len(pool) <= MaxOpen
    /\ send \in [Reports -> SendType]
    /\ ping \in [conn : Conns \cup {Nobody}, more : 0 .. MaxOpen]
    /\ rspchan \in [Reports -> Seq(AnswerType)]
    /\ told \in [Reports -> Seq({"success", "failure"})]
BY DEF TypeOK, ConnType, SendType, AnswerType

LEMMA TypesNext ==
  TypeOK' <=>
    /\ conns' \in [Conns -> ConnType]
    /\ pool' \in Seq(Conns) /\ Len(pool') <= MaxOpen
    /\ send' \in [Reports -> SendType]
    /\ ping' \in [conn : Conns \cup {Nobody}, more : 0 .. MaxOpen]
    /\ rspchan' \in [Reports -> Seq(AnswerType)]
    /\ told' \in [Reports -> Seq({"success", "failure"})]
BY DEF TypeOK, ConnType, SendType, AnswerType

LEMMA Renewed ==
  /\ ReadTime \in 0 .. ReadTime
  /\ \A t \in 0 .. ReadTime : (IF t > 0 THEN t - 1 ELSE t) \in 0 .. ReadTime
BY ConnAssumption

\* What is read of a connection.
LEMMA ReadTypes ==
  ASSUME conns \in [Conns -> ConnType], NEW c \in Conns,
         NEW o \in ReadBinary(c), o # Failed
  PROVE  /\ conns[c].left # 0 /\ conns[c].in # <<>>
         /\ o.answer \in Reports \cup {Garbage}
         /\ o.in \in Seq(PieceType)
         /\ o.astray \in BOOLEAN
<1> DEFINE in == conns[c].in
<1>1. in \in Seq(PieceType) /\ conns[c].astray \in BOOLEAN  BY DEF ConnType
<1>2. conns[c].left # 0 /\ in # <<>>  BY DEF ReadBinary, OnTimeout
<1>3. Head(in) \in PieceType /\ Tail(in) \in Seq(PieceType)
  BY <1>1, <1>2, HeadTailProperties
<1>4. CASE Head(in).part = "whole"
  <2>1. o = Got(Head(in).of, Tail(in), conns[c].astray)
    BY <1>2, <1>4 DEF ReadBinary
  <2> QED BY <2>1, <1>1, <1>2, <1>3 DEF Got, PieceType
<1>5. CASE Head(in).part = "first"
  <2>1. o = Got(Garbage, Tail(in), TRUE)
    BY <1>2, <1>5 DEF ReadBinary
  <2> QED BY <2>1, <1>1, <1>2, <1>3 DEF Got
<1>6. CASE Head(in).part = "rest"
  <2>1. PICK n \in 1 .. Len(in) + 1 : o = Got(Garbage, SubSeq(in, n, Len(in)), TRUE)
    BY <1>2, <1>6 DEF ReadBinary
  <2>2. SubSeq(in, n, Len(in)) \in Seq(PieceType)
    <3>1. Len(in) \in Nat /\ n \in Int /\ Len(in) \in Int
      BY <1>1, LenProperties
    <3>2. \A i \in n .. Len(in) : in[i] \in PieceType
      BY <3>1, <1>1, ElementOfSeq
    <3> QED BY <3>1, <3>2, SubSeqProperties
  <2> QED BY <2>1, <2>2, <1>2 DEF Got
<1> QED BY <1>3, <1>4, <1>5, <1>6 DEF PieceType

LEMMA InitTypes == Init => TypeOK
<1> SUFFICES ASSUME Init PROVE TypeOK  OBVIOUS
<1>1. PICK n \in 0 .. MaxOpen :
        \E p \in [1 .. n -> Conns] :
          /\ pool = p
          /\ conns = [c \in Conns |-> IF \E i \in 1 .. n : p[i] = c
                                      THEN Dialled ELSE Closed]
  BY DEF Init
<1>2. conns \in [Conns -> ConnType]  BY <1>1, ConnTypes
<1>3. pool \in Seq(Conns) /\ Len(pool) <= MaxOpen
  <2>1. n \in Nat /\ n <= MaxOpen /\ pool \in [1 .. n -> Conns]
    BY <1>1, ConnAssumption
  <2> QED BY <2>1, SeqDef
<1>4. /\ send \in [Reports -> SendType]
      /\ ping \in [conn : Conns \cup {Nobody}, more : 0 .. MaxOpen]
  BY ConnAssumption DEF Init, SendType
<1>5. /\ rspchan \in [Reports -> Seq(AnswerType)]
      /\ told \in [Reports -> Seq({"success", "failure"})]
  BY EmptyTypes DEF Init
<1> QED BY <1>2, <1>3, <1>4, <1>5, Types

LEMMA TailOfPool ==
  ASSUME pool \in Seq(Conns), Len(pool) <= MaxOpen, pool # <<>>
  PROVE  /\ Head(pool) \in Conns /\ Tail(pool) \in Seq(Conns)
         /\ Len(Tail(pool)) <= MaxOpen
<1>1. Len(pool) \in Nat  BY LenProperties
<1> QED BY <1>1, HeadTailProperties, ConnAssumption

LEMMA RoomInPool ==
  ASSUME pool \in Seq(Conns), NEW c \in Conns, Room
  PROVE  Append(pool, c) \in Seq(Conns) /\ Len(Append(pool, c)) <= MaxOpen
<1>1. Len(pool) \in Nat  BY LenProperties
<1> QED BY <1>1, AppendProperties, ConnAssumption DEF Room

LEMMA FreshClosed ==
  ASSUME SomeClosed
  PROVE  Fresh \in Conns /\ ~conns[Fresh].open
BY DEF SomeClosed, Fresh

\* A step that changes one connection.
LEMMA OneConn ==
  ASSUME conns \in [Conns -> ConnType], NEW c \in Conns, NEW x \in ConnType
  PROVE  [conns EXCEPT ![c] = x] \in [Conns -> ConnType]
OBVIOUS

LEMMA TellTypes ==
  ASSUME told \in [Reports -> Seq({"success", "failure"})], NEW r \in Reports,
         NEW o \in {"success", "failure"}, Tell(r, o)
  PROVE  told' \in [Reports -> Seq({"success", "failure"})]
<1>1. Append(told[r], o) \in Seq({"success", "failure"})  BY AppendProperties
<1> QED BY <1>1 DEF Tell

LEMMA WriteTypes ==
  ASSUME conns \in [Conns -> ConnType], send \in [Reports -> SendType],
         NEW c \in Conns, NEW r \in Reports, Write(c, r, "try")
  PROVE  conns' \in [Conns -> ConnType] /\ send' \in [Reports -> SendType]
<1> DEFINE x == [conns[c] EXCEPT !.owed = IF conns[c].up
                   THEN Append(@, Piece(r, "whole")) ELSE @]
<1>1. conns[c].owed \in Seq(PieceType)  BY DEF ConnType
<1>2. Append(conns[c].owed, Piece(r, "whole")) \in Seq(PieceType)
  BY <1>1, PieceTypes, AppendProperties
<1>3. x \in ConnType  BY <1>1, <1>2 DEF ConnType
<1>4. conns' = [conns EXCEPT ![c] = x]  BY DEF Write
<1> HIDE DEF x
<1>5. [at |-> "try", conn |-> c] \in SendType  BY DEF SendType
<1> QED BY <1>3, <1>4, <1>5 DEF Write

LEMMA SendTypes ==
  ASSUME TypeOK, Holding, NEW r \in Reports,
         Refused(r) \/ Acquire(r) \/ AcquireNew(r) \/ Dials(r) \/ Reads(r)
  PROVE  TypeOK'
<1> USE Types, TypesNext
<1>1. \A at \in {"refused", "dial", "redial", "replace", "done", "undialled"} :
        Goto(r, at) => send' \in [Reports -> SendType]
  BY DEF Goto, SendType, Ended
<1>2. CASE Refused(r)
  BY <1>1, <1>2 DEF Refused
<1>3. CASE Acquire(r)
  <2>1. Head(pool) \in Conns /\ Tail(pool) \in Seq(Conns) /\ Len(Tail(pool)) <= MaxOpen
    BY <1>3, TailOfPool DEF Acquire
  <2>2. conns' \in [Conns -> ConnType] /\ send' \in [Reports -> SendType]
    BY <1>3, <2>1, WriteTypes DEF Acquire
  <2> QED BY <1>3, <2>1, <2>2 DEF Acquire
<1>4. CASE AcquireNew(r)
  BY <1>1, <1>4 DEF AcquireNew
<1>5. ASSUME NEW at \in {"dial", "redial"}, NEW try \in {"try", "retry"}, Dial(r, at, try)
      PROVE  TypeOK'
  <2> DEFINE x == [Dialled EXCEPT !.owed = <<Piece(r, "whole")>>]
  <2>1. x \in ConnType  BY ConnTypes, PieceTypes DEF ConnType
  <2> HIDE DEF x
  <2>2. Fresh \in Conns  BY <1>5, FreshClosed DEF Dial
  <2>3. conns' \in [Conns -> ConnType]  BY <1>5, <2>1, <2>2 DEF Dial, x
  <2>4. send' \in [Reports -> SendType]  BY <1>5, <2>2 DEF Dial, SendType
  <2> QED BY <1>5, <2>3, <2>4 DEF Dial
<1>6. CASE DialFails(r)
  BY <1>1, <1>6 DEF DialFails
<1>7. CASE RedialFails(r)
  BY <1>1, <1>7, TellTypes DEF RedialFails
<1>8. CASE Replace(r)
  <2>1. /\ conns' \in [Conns -> ConnType]
        /\ pool' \in Seq(Conns) /\ Len(pool') <= MaxOpen
    <3>1. CASE UNCHANGED <<conns, pool>>
      BY <3>1
    <3>2. CASE /\ SomeClosed /\ Room
               /\ conns' = [conns EXCEPT ![Fresh] = Dialled]
               /\ pool' = Append(pool, Fresh)
      BY <3>2, FreshClosed, RoomInPool, ConnTypes
    <3> QED BY <1>8, <3>1, <3>2 DEF Replace
  <2> QED BY <1>1, <1>8, <2>1, TellTypes DEF Replace
<1>9. ASSUME NEW try \in {"try", "retry"}, NEW next \in {"redial", "replace"},
             ReadFails(r, try, next)
      PROVE  TypeOK'
  <2>1. send[r].conn \in Conns \cup {Nobody}  BY DEF SendType
  <2>2. conns' \in [Conns -> ConnType]
    BY <1>9, <2>1, ConnTypes DEF ReadFails, Shut
  <2> QED BY <1>1, <1>9, <2>2 DEF ReadFails
<1>10. ASSUME NEW try \in {"try", "retry"}, ReadGives(r, try)
       PROVE  TypeOK'
  <2> DEFINE c == send[r].conn
  <2>0. c \in Conns  BY <1>10 DEF ReadGives, Holding, SendType
  <2>1. PICK o \in ReadBinary(c) \ {Failed} :
          /\ conns' = [conns EXCEPT ![c] = Released(c, o)]
          /\ rspchan' = [rspchan EXCEPT ![r] =
               Append(@, [answer |-> o.answer, astray |-> conns[c].astray])]
    BY <1>10 DEF ReadGives
  <2>2. /\ o.answer \in Reports \cup {Garbage}
        /\ o.in \in Seq(PieceType) /\ o.astray \in BOOLEAN
    BY <2>0, ReadTypes
  <2>3. conns[c] \in ConnType  BY <2>0
  <2>4. Released(c, o) \in ConnType
    <3>1. [conns[c] EXCEPT !.left = ReadTime, !.in = o.in, !.astray = o.astray]
            \in ConnType
      BY <2>2, <2>3, Renewed DEF ConnType
    <3> QED BY <3>1, ConnTypes DEF Released
  <2>5. conns' \in [Conns -> ConnType]  BY <2>0, <2>1, <2>4
  <2>6. rspchan' \in [Reports -> Seq(AnswerType)]
    <3>1. [answer |-> o.answer, astray |-> conns[c].astray] \in AnswerType
      BY <2>2, <2>3 DEF ConnType, AnswerType
    <3> QED BY <2>1, <3>1, AppendProperties
  <2>7. pool' \in Seq(Conns) /\ Len(pool') <= MaxOpen
    BY <1>10, <2>0, RoomInPool DEF ReadGives
  <2> QED BY <1>1, <1>10, <2>5, <2>6, <2>7, TellTypes DEF ReadGives
<1> QED
  BY <1>2, <1>3, <1>4, <1>5, <1>6, <1>7, <1>8, <1>9, <1>10 DEF Dials, Reads

LEMMA TenTypes ==
  ASSUME NEW in \in Seq(PieceType), in # <<>>, NEW x \in TenBytes(in)
  PROVE  x \in Seq(PieceType)
<1>1. Head(in) \in PieceType /\ Tail(in) \in Seq(PieceType)
  BY HeadTailProperties
<1>2. <<Piece(Head(in).of, "rest")>> \in Seq(PieceType)
  BY <1>1, PieceTypes DEF PieceType
<1>3. <<Piece(Head(in).of, "rest")>> \o Tail(in) \in Seq(PieceType)
  BY <1>1, <1>2, ConcatProperties
<1> QED BY <1>1, <1>3 DEF TenBytes

LEMMA PingTypes ==
  ASSUME TypeOK, PingStart \/ PingTakes \/ PingEOF \/ PingKeeps
  PROVE  TypeOK'
<1> USE Types, TypesNext
<1>0. pool \in Seq(Conns) /\ Len(pool) \in Nat /\ Len(pool) \in 0 .. MaxOpen
  BY LenProperties, ConnAssumption
<1>1. CASE PingStart
  BY <1>0, <1>1 DEF PingStart
<1>2. CASE PingTakes
  <2>1. /\ pool' \in Seq(Conns) /\ Len(pool') <= MaxOpen
        /\ ping' \in [conn : Conns \cup {Nobody}, more : 0 .. MaxOpen]
    <3>1. CASE pool = <<>>
      BY <1>2, <3>1, ConnAssumption DEF PingTakes
    <3>2. CASE pool # <<>>
      <4>1. Head(pool) \in Conns /\ Tail(pool) \in Seq(Conns) /\ Len(Tail(pool)) <= MaxOpen
        BY <3>2, TailOfPool
      <4>2. ping.more - 1 \in 0 .. MaxOpen
        BY <1>2, ConnAssumption DEF PingTakes
      <4>3. ping' = [conn |-> Head(pool), more |-> ping.more - 1] /\ pool' = Tail(pool)
        BY <1>2, <3>2 DEF PingTakes
      <4> QED BY <4>1, <4>2, <4>3
    <3> QED BY <3>1, <3>2
  <2> QED BY <1>2, <2>1 DEF PingTakes
<1>3. CASE PingEOF
  BY <1>3, ConnTypes DEF PingEOF, Shut
<1>4. CASE PingKeeps
  <2> DEFINE c == ping.conn
  <2>1. c \in Conns /\ conns[c] \in ConnType  BY <1>4 DEF PingKeeps
  <2>2. conns' \in [Conns -> ConnType]
    <3>1. CASE conns' = [conns EXCEPT ![c].left = ReadTime]
      <4>1. [conns[c] EXCEPT !.left = ReadTime] \in ConnType
        BY <2>1, Renewed DEF ConnType
      <4>2. conns' = [conns EXCEPT ![c] = [conns[c] EXCEPT !.left = ReadTime]]
        BY <2>1, <3>1
      <4> QED BY <2>1, <4>1, <4>2, OneConn
    <3>2. ASSUME conns[c].in # <<>>, NEW in \in TenBytes(conns[c].in),
                 conns' = [conns EXCEPT ![c].left = ReadTime, ![c].in = in,
                                        ![c].astray = TRUE]
          PROVE  conns' \in [Conns -> ConnType]
      <4>1. in \in Seq(PieceType)  BY <2>1, <3>2, TenTypes DEF ConnType
      <4>2. [conns[c] EXCEPT !.left = ReadTime, !.in = in, !.astray = TRUE] \in ConnType
        BY <2>1, <4>1, Renewed DEF ConnType
      <4>3. conns' = [conns EXCEPT ![c] =
              [conns[c] EXCEPT !.left = ReadTime, !.in = in, !.astray = TRUE]]
        BY <2>1, <3>2
      <4> QED BY <2>1, <4>2, <4>3, OneConn
    <3> QED BY <1>4, <3>1, <3>2 DEF PingKeeps
  <2>3. pool' \in Seq(Conns) /\ Len(pool') <= MaxOpen
    BY <1>4, <2>1, RoomInPool DEF PingKeeps
  <2> QED BY <1>4, <2>2, <2>3 DEF PingKeeps
<1> QED BY <1>1, <1>2, <1>3, <1>4

LEMMA NetworkTypes ==
  ASSUME TypeOK, Tick \/ (\E c \in Conns : Arrives(c) \/ Down(c) \/ Collect(c))
  PROVE  TypeOK'
<1> USE Types, TypesNext
<1>1. ASSUME NEW c \in Conns, Arrives(c)
      PROVE  TypeOK'
  <2> DEFINE a == Head(conns[c].owed)
             in == conns[c].in
  <2>1. /\ conns[c] \in ConnType /\ in \in Seq(PieceType)
        /\ conns[c].owed \in Seq(PieceType) /\ conns[c].owed # <<>>
    BY <1>1 DEF ConnType, Arrives
  <2>2. a \in PieceType /\ Tail(conns[c].owed) \in Seq(PieceType)
    BY <2>1, HeadTailProperties
  <2>3. ASSUME NEW x \in Seq(PieceType), NEW y \in Seq(PieceType),
               conns' = [conns EXCEPT ![c].owed = x, ![c].in = y]
        PROVE  conns' \in [Conns -> ConnType]
    <3>1. [conns[c] EXCEPT !.owed = x, !.in = y] \in ConnType
      BY <2>1, <2>3 DEF ConnType
    <3>2. conns' = [conns EXCEPT ![c] = [conns[c] EXCEPT !.owed = x, !.in = y]]
      BY <2>1, <2>3
    <3> QED BY <3>1, <3>2, OneConn
  <2>4. Append(in, a) \in Seq(PieceType) /\ Append(in, Piece(a.of, "first")) \in Seq(PieceType)
    <3>1. Piece(a.of, "first") \in PieceType  BY <2>2, PieceTypes DEF PieceType
    <3> QED BY <2>1, <2>2, <3>1, AppendProperties
  <2>5. in # <<>> => [in EXCEPT ![Len(in)].part = "whole"] \in Seq(PieceType)
    <3> SUFFICES ASSUME in # <<>>
                 PROVE  [in EXCEPT ![Len(in)].part = "whole"] \in Seq(PieceType)
      OBVIOUS
    <3>1. Len(in) \in 1 .. Len(in)  BY <2>1, EmptySeq
    <3>2. in[Len(in)] \in PieceType  BY <2>1, <3>1, ElementOfSeq
    <3>3. [in[Len(in)] EXCEPT !.part = "whole"] \in PieceType  BY <3>2 DEF PieceType
    <3>4. [in EXCEPT ![Len(in)].part = "whole"]
            = [in EXCEPT ![Len(in)] = [in[Len(in)] EXCEPT !.part = "whole"]]
      OBVIOUS
    <3> HIDE DEF in
    <3> QED BY <2>1, <3>1, <3>3, <3>4, ExceptSeq
  <2>6. [conns[c].owed EXCEPT ![1].part = "rest"] \in Seq(PieceType)
    <3> DEFINE owed == conns[c].owed
    <3>1. 1 \in 1 .. Len(owed)  BY <2>1, EmptySeq
    <3>2. owed[1] \in PieceType  BY <2>1, <3>1, ElementOfSeq
    <3>3. [owed[1] EXCEPT !.part = "rest"] \in PieceType  BY <3>2 DEF PieceType
    <3>4. [owed EXCEPT ![1].part = "rest"] = [owed EXCEPT ![1] = [owed[1] EXCEPT !.part = "rest"]]
      OBVIOUS
    <3>5. owed \in Seq(PieceType)  BY <2>1
    <3> HIDE DEF owed
    <3>6. [owed EXCEPT ![1].part = "rest"] \in Seq(PieceType)
      BY <3>1, <3>3, <3>4, <3>5, ExceptSeq
    <3> QED BY <3>6 DEF owed
  <2>7. conns' \in [Conns -> ConnType]
    <3> HIDE DEF a
    <3>1. CASE conns' = [conns EXCEPT ![c].owed = Tail(@), ![c].in = Append(@, a)]
      BY <3>1, <2>2, <2>3, <2>4
    <3>2. CASE in # <<>> /\ conns' = [conns EXCEPT ![c].owed = Tail(@),
                 ![c].in = [@ EXCEPT ![Len(in)].part = "whole"]]
      BY <3>2, <2>2, <2>3, <2>5
    <3>3. CASE conns' = [conns EXCEPT ![c].owed = [@ EXCEPT ![1].part = "rest"],
                 ![c].in = Append(@, Piece(a.of, "first"))]
      BY <3>3, <2>3, <2>4, <2>6
    <3> QED BY <1>1, <3>1, <3>2, <3>3 DEF Arrives, a
  <2> QED BY <1>1, <2>7 DEF Arrives
<1>2. ASSUME NEW c \in Conns, Down(c)
      PROVE  TypeOK'
  <2>1. [conns[c] EXCEPT !.up = FALSE, !.owed = <<>>] \in ConnType
    <3>1. conns[c] \in ConnType  OBVIOUS
    <3>2. <<>> \in Seq(PieceType)  BY EmptyTypes
    <3> QED BY ONLY <3>1, <3>2 DEF ConnType
  <2>2. conns' = [conns EXCEPT ![c] = [conns[c] EXCEPT !.up = FALSE, !.owed = <<>>]]
    BY <1>2 DEF Down
  <2> QED BY <1>2, <2>1, <2>2, OneConn DEF Down
<1>3. ASSUME NEW c \in Conns, Collect(c)
      PROVE  TypeOK'
  BY <1>3, ConnTypes DEF Collect, Shut
<1>4. CASE Tick
  <2>1. \A c \in Conns :
          [conns[c] EXCEPT !.left = IF @ > 0 THEN @ - 1 ELSE @] \in ConnType
    <3> SUFFICES ASSUME NEW c \in Conns
                 PROVE  [conns[c] EXCEPT !.left = IF @ > 0 THEN @ - 1 ELSE @] \in ConnType
      OBVIOUS
    <3> DEFINE t == IF conns[c].left > 0 THEN conns[c].left - 1 ELSE conns[c].left
    <3>1. conns[c] \in ConnType  OBVIOUS
    <3>2. t \in 0 .. ReadTime  BY <3>1, Renewed DEF ConnType
    <3>3. [conns[c] EXCEPT !.left = IF @ > 0 THEN @ - 1 ELSE @] = [conns[c] EXCEPT !.left = t]
      OBVIOUS
    <3> HIDE DEF t
    <3>4. [conns[c] EXCEPT !.left = t] \in ConnType
      BY <3>1, <3>2 DEF ConnType
    <3> QED BY <3>3, <3>4
  <2> QED BY <1>4, <2>1 DEF Tick
<1> QED BY <1>1, <1>2, <1>3, <1>4

-----------------------------------------------------------------------------
\* One user of each connection.

Distinct(p) == \A i, j \in DOMAIN p : p[i] = p[j] => i = j
In(p) == {p[i] : i \in DOMAIN p}

LEMMA TailIn ==
  ASSUME NEW p \in Seq(Conns), p # <<>>, Distinct(p)
  PROVE  /\ Head(p) \in Conns /\ Head(p) \in In(p)
         /\ Distinct(Tail(p)) /\ In(Tail(p)) = In(p) \ {Head(p)}
<1>1. /\ Len(p) \in Nat \ {0} /\ DOMAIN p = 1 .. Len(p)
      /\ Tail(p) \in Seq(Conns) /\ Len(Tail(p)) = Len(p) - 1
      /\ DOMAIN Tail(p) = 1 .. Len(p) - 1
      /\ \A i \in 1 .. Len(p) - 1 : Tail(p)[i] = p[i + 1]
  <2>1. Len(p) \in Nat \ {0} /\ DOMAIN p = 1 .. Len(p)
    BY EmptySeq, LenProperties
  <2>2. /\ Tail(p) \in Seq(Conns) /\ Len(Tail(p)) = Len(p) - 1
        /\ \A i \in 1 .. Len(Tail(p)) : Tail(p)[i] = p[i + 1]
    BY HeadTailProperties
  <2>3. DOMAIN Tail(p) = 1 .. Len(Tail(p))  BY <2>2, LenProperties
  <2> QED BY <2>1, <2>2, <2>3
<1>2. Head(p) = p[1] /\ Head(p) \in Conns  BY HeadTailProperties
<1>3. Head(p) \in In(p)  BY <1>1, <1>2 DEF In
<1>4. Distinct(Tail(p))  BY <1>1 DEF Distinct
<1>5. In(Tail(p)) \subseteq In(p) \ {Head(p)}
  BY <1>1, <1>2 DEF In, Distinct
<1>6. In(p) \ {Head(p)} \subseteq In(Tail(p))
  <2> SUFFICES ASSUME NEW c \in In(p), c # Head(p) PROVE c \in In(Tail(p))
    OBVIOUS
  <2>1. PICK i \in 1 .. Len(p) : c = p[i]  BY <1>1 DEF In
  <2>2. i # 1  BY <2>1, <1>2
  <2>3. i - 1 \in 1 .. Len(p) - 1 /\ Tail(p)[i - 1] = c  BY <1>1, <2>1, <2>2
  <2> QED BY <1>1, <2>3 DEF In
<1> QED BY <1>2, <1>3, <1>4, <1>5, <1>6

LEMMA AppendIn ==
  ASSUME NEW p \in Seq(Conns), NEW c \in Conns
  PROVE  /\ In(Append(p, c)) = In(p) \cup {c}
         /\ Distinct(p) /\ c \notin In(p) => Distinct(Append(p, c))
<1>1. /\ Len(p) \in Nat /\ DOMAIN p = 1 .. Len(p)
      /\ DOMAIN Append(p, c) = 1 .. Len(p) + 1
      /\ \A i \in 1 .. Len(p) : Append(p, c)[i] = p[i]
      /\ Append(p, c)[Len(p) + 1] = c
  <2>1. Len(p) \in Nat /\ DOMAIN p = 1 .. Len(p)  BY LenProperties
  <2>2. /\ Append(p, c) \in Seq(Conns) /\ Len(Append(p, c)) = Len(p) + 1
        /\ \A i \in 1 .. Len(p) : Append(p, c)[i] = p[i]
        /\ Append(p, c)[Len(p) + 1] = c
    BY AppendProperties
  <2>3. DOMAIN Append(p, c) = 1 .. Len(Append(p, c))  BY <2>2, LenProperties
  <2> QED BY <2>1, <2>2, <2>3
<1>2. In(Append(p, c)) = In(p) \cup {c}
  <2>1. In(p) \cup {c} \subseteq In(Append(p, c))
    <3>1. \A i \in 1 .. Len(p) : p[i] \in In(Append(p, c))
      BY <1>1 DEF In
    <3>2. c \in In(Append(p, c))
      BY <1>1 DEF In
    <3> QED BY <1>1, <3>1, <3>2 DEF In
  <2>2. In(Append(p, c)) \subseteq In(p) \cup {c}
    BY <1>1 DEF In
  <2> QED BY <2>1, <2>2
<1>3. Distinct(p) /\ c \notin In(p) => Distinct(Append(p, c))
  BY <1>1 DEF In, Distinct
<1> QED BY <1>2, <1>3

\* OneOwner, user by user.
Exclusive ==
  /\ Distinct(pool)
  /\ \A r, s \in Reports : r # s /\ send[r].conn = send[s].conn => send[r].conn = Nobody
  /\ \A r \in Reports : send[r].conn \notin In(pool)
  /\ ping.conn \notin In(pool)
  /\ \A r \in Reports : ping.conn = send[r].conn => ping.conn = Nobody
  /\ \A c \in In(pool) : conns[c].open
  /\ \A r \in Reports : send[r].conn # Nobody => conns[send[r].conn].open
  /\ ping.conn # Nobody => conns[ping.conn].open

ConnInv == TypeOK /\ Holding /\ Exclusive

LEMMA ExclusiveOwners == ConnInv => OneOwner
<1> SUFFICES ASSUME ConnInv PROVE OneOwner  OBVIOUS
<1>1. Pooled = In(pool)  BY DEF Pooled, In
<1>2. \A i, j \in DOMAIN pool : pool[i] = pool[j] => i = j
  BY DEF ConnInv, Exclusive, Distinct
<1>3. \A c \in Sending : \E r \in Reports : c = send[r].conn /\ c # Nobody
  BY DEF Sending
<1> QED
  BY <1>1, <1>2, <1>3 DEF ConnInv, Exclusive, OneOwner, Owned

LEMMA InConns ==
  ASSUME TypeOK
  PROVE  In(pool) \subseteq Conns /\ Nobody \notin In(pool) /\ pool \in Seq(Conns)
<1>1. pool \in Seq(Conns)  BY Types
<1>2. \A i \in DOMAIN pool : pool[i] \in Conns
  BY <1>1, LenProperties, ElementOfSeq
<1> QED BY <1>1, <1>2, ConnAssumption DEF In

LEMMA InitOwners == Init => ConnInv
<1> SUFFICES ASSUME Init PROVE ConnInv  OBVIOUS
<1>1. TypeOK  BY InitTypes
<1>2. Holding  BY DEF Init, Holding
<1>3. PICK n \in 0 .. MaxOpen :
        \E p \in [1 .. n -> Conns] :
          /\ \A i, j \in 1 .. n : p[i] = p[j] => i = j
          /\ pool = p
          /\ conns = [c \in Conns |-> IF \E i \in 1 .. n : p[i] = c
                                      THEN Dialled ELSE Closed]
  BY DEF Init
<1>4. pool \in [1 .. n -> Conns] /\ DOMAIN pool = 1 .. n  BY <1>3
<1>5. Distinct(pool)  BY <1>3, <1>4 DEF Distinct
<1>6. \A c \in In(pool) : conns[c].open
  BY <1>3, <1>4 DEF In, Dialled
<1>7. /\ \A r \in Reports : send[r].conn = Nobody
      /\ ping.conn = Nobody
  BY DEF Init
<1> QED BY <1>1, <1>2, <1>5, <1>6, <1>7, InConns DEF ConnInv, Exclusive

\* What a step leaves open.
LEMMA WriteKeepsOpen ==
  ASSUME TypeOK, NEW c \in Conns, NEW r \in Reports, NEW try, Write(c, r, try)
  PROVE  \A d \in Conns : conns'[d].open = conns[d].open
BY Types DEF Write, ConnType

\* Goroutine r takes a connection nobody has, from the pool or dialled.
LEMMA TakenByOne ==
  ASSUME ConnInv, NEW r \in Reports, NEW c \in Conns, NEW at \in {"try", "retry"},
         send[r].conn = Nobody,
         \A s \in Reports : send[s].conn # c,
         ping.conn # c,
         send'[r] = [at |-> at, conn |-> c],
         \A s \in Reports \ {r} : send'[s] = send[s],
         ping' = ping,
         Distinct(pool'), In(pool') = In(pool) \ {c},
         conns'[c].open,
         \A d \in Conns \ {c} : conns'[d].open = conns[d].open
  PROVE  Holding' /\ Exclusive'
<1> USE DEF ConnInv
<1>0. /\ send \in [Reports -> SendType] /\ ping.conn \in Conns \cup {Nobody}
      /\ In(pool) \subseteq Conns
  BY Types, InConns
<1>1. send'[r].conn = c /\ send'[r].at = at /\ c # Nobody  BY ConnAssumption
<1>2. Holding'  BY <1>1 DEF Holding
<1>3. \A s, u \in Reports : s # u /\ send'[s].conn = send'[u].conn
                               => send'[s].conn = Nobody
  BY <1>1 DEF Exclusive
<1>4. \A s \in Reports : send'[s].conn \notin In(pool')
  BY <1>1 DEF Exclusive
<1>5. ping'.conn \notin In(pool') /\ (\A s \in Reports : ping'.conn = send'[s].conn
                                         => ping'.conn = Nobody)
  BY <1>1 DEF Exclusive
<1>6. \A d \in In(pool') : conns'[d].open
  BY <1>0 DEF Exclusive
<1>7. \A s \in Reports : send'[s].conn # Nobody => conns'[send'[s].conn].open
  <2> SUFFICES ASSUME NEW s \in Reports, send'[s].conn # Nobody
               PROVE  conns'[send'[s].conn].open
    OBVIOUS
  <2>1. CASE s = r  BY <1>1, <2>1
  <2>2. CASE s # r
    <3>1. send'[s] = send[s] /\ send[s].conn \in Conns \ {c}
      BY <1>0, <2>2 DEF SendType
    <3> QED BY <3>1 DEF Exclusive
  <2> QED BY <2>1, <2>2
<1>8. ping'.conn # Nobody => conns'[ping'.conn].open
  BY <1>0 DEF Exclusive
<1> QED BY <1>2, <1>3, <1>4, <1>5, <1>6, <1>7, <1>8 DEF Exclusive

LEMMA SendOwners ==
  ASSUME ConnInv, NEW r \in Reports,
         Refused(r) \/ Acquire(r) \/ AcquireNew(r) \/ Dials(r) \/ Reads(r)
  PROVE  Holding' /\ Exclusive'
<1> USE DEF ConnInv
<1>0. /\ send \in [Reports -> SendType] /\ conns \in [Conns -> ConnType]
      /\ ping.conn \in Conns \cup {Nobody}
      /\ In(pool) \subseteq Conns /\ Nobody \notin In(pool) /\ pool \in Seq(Conns)
  BY Types, InConns
<1>1. ASSUME NEW at \in {"refused", "dial", "redial", "replace", "done", "undialled"},
             Goto(r, at)
      PROVE  /\ Holding'
             /\ send'[r].conn = Nobody
             /\ \A s \in Reports \ {r} : send'[s] = send[s]
  BY <1>0, <1>1 DEF Goto, Holding
<1>2. ASSUME NEW at \in {"refused", "dial", "redial", "done", "undialled"},
             Goto(r, at), UNCHANGED <<conns, pool, ping>>
      PROVE  Holding' /\ Exclusive'
  BY <1>1, <1>2, <1>0 DEF Exclusive
<1>3. CASE Refused(r)  BY <1>2, <1>3 DEF Refused
<1>4. CASE Acquire(r)
  <2> DEFINE c == Head(pool)
  <2>1. /\ c \in Conns /\ c \in In(pool) /\ Distinct(pool')
        /\ In(pool') = In(pool) \ {c}
    BY <1>0, <1>4, TailIn DEF Acquire, Exclusive
  <2>2. /\ \A d \in Conns : conns'[d].open = conns[d].open
        /\ send'[r] = [at |-> "try", conn |-> c]
        /\ \A s \in Reports \ {r} : send'[s] = send[s]
        /\ ping' = ping
    BY <1>0, <1>4, <2>1, WriteKeepsOpen DEF Acquire, Write
  <2>3. send[r].conn = Nobody  BY <1>4 DEF Acquire, Holding
  <2>4. conns[c].open /\ ping.conn # c /\ \A s \in Reports : send[s].conn # c
    BY <2>1 DEF Exclusive
  <2> HIDE DEF c
  <2> QED BY <2>1, <2>2, <2>3, <2>4, TakenByOne
<1>5. CASE AcquireNew(r)  BY <1>2, <1>5 DEF AcquireNew
<1>6. ASSUME NEW at \in {"dial", "redial"}, NEW try \in {"try", "retry"}, Dial(r, at, try)
      PROVE  Holding' /\ Exclusive'
  <2>1. Fresh \in Conns /\ ~conns[Fresh].open  BY <1>6, FreshClosed DEF Dial
  <2>2. /\ conns'[Fresh].open
        /\ \A d \in Conns \ {Fresh} : conns'[d] = conns[d]
        /\ send'[r] = [at |-> try, conn |-> Fresh]
        /\ \A s \in Reports \ {r} : send'[s] = send[s]
        /\ ping' = ping /\ pool' = pool
    <3>1. [Dialled EXCEPT !.owed = <<Piece(r, "whole")>>].open  BY DEF Dialled
    <3> QED BY <1>0, <1>6, <2>1, <3>1 DEF Dial
  <2>3. send[r].conn = Nobody  BY <1>6 DEF Dial, Holding
  <2>4. /\ ping.conn # Fresh /\ \A s \in Reports : send[s].conn # Fresh
        /\ Fresh \notin In(pool)
    BY <2>1, ConnAssumption DEF Exclusive
  <2>5. In(pool') = In(pool) \ {Fresh} /\ Distinct(pool')
    BY <2>2, <2>4 DEF Exclusive
  <2> QED BY <2>1, <2>2, <2>3, <2>4, <2>5, TakenByOne
<1>7. CASE DialFails(r)  BY <1>2, <1>7 DEF DialFails
<1>8. CASE RedialFails(r)  BY <1>2, <1>8 DEF RedialFails
<1>9. CASE Replace(r)
  <2>1. Goto(r, "done") /\ ping' = ping  BY <1>9 DEF Replace
  <2>2. CASE UNCHANGED <<conns, pool>>  BY <1>2, <2>1, <2>2
  <2>3. CASE /\ SomeClosed
             /\ conns' = [conns EXCEPT ![Fresh] = Dialled]
             /\ pool' = Append(pool, Fresh)
    <3>1. Fresh \in Conns /\ ~conns[Fresh].open  BY <2>3, FreshClosed
    <3>2. Fresh \notin In(pool)  BY <3>1 DEF Exclusive
    <3>3. In(pool') = In(pool) \cup {Fresh} /\ Distinct(pool')
      BY <1>0, <2>3, <3>1, <3>2, AppendIn DEF Exclusive
    <3>4. conns'[Fresh].open /\ \A d \in Conns \ {Fresh} : conns'[d] = conns[d]
      BY <1>0, <2>3, <3>1 DEF Dialled
    <3>5. /\ ping.conn # Fresh /\ \A s \in Reports : send[s].conn # Fresh
      BY <3>1, ConnAssumption DEF Exclusive
    <3>6. /\ Holding' /\ send'[r].conn = Nobody
          /\ \A s \in Reports \ {r} : send'[s] = send[s]
      BY <1>1, <2>1
    <3>7. \A s, u \in Reports : s # u /\ send'[s].conn = send'[u].conn
                                   => send'[s].conn = Nobody
      BY <3>6 DEF Exclusive
    <3>8. \A s \in Reports : send'[s].conn \notin In(pool')
      BY <1>0, <3>1, <3>3, <3>5, <3>6, ConnAssumption DEF Exclusive
    <3>9. ping'.conn \notin In(pool') /\ (\A s \in Reports : ping'.conn = send'[s].conn
                                             => ping'.conn = Nobody)
      BY <2>1, <3>3, <3>5, <3>6 DEF Exclusive
    <3>10. \A d \in In(pool') : conns'[d].open
      BY <1>0, <3>3, <3>4 DEF Exclusive
    <3>11. \A s \in Reports : send'[s].conn # Nobody => conns'[send'[s].conn].open
      BY <1>0, <3>4, <3>5, <3>6 DEF Exclusive, SendType
    <3>12. ping'.conn # Nobody => conns'[ping'.conn].open
      BY <1>0, <2>1, <3>4, <3>5 DEF Exclusive
    <3> QED BY <3>3, <3>6, <3>7, <3>8, <3>9, <3>10, <3>11, <3>12 DEF Exclusive
  <2> QED BY <1>9, <2>2, <2>3 DEF Replace
<1>10. ASSUME NEW try \in {"try", "retry"}, NEW next \in {"redial", "replace"},
              ReadFails(r, try, next)
       PROVE  Holding' /\ Exclusive'
  <2> DEFINE c == send[r].conn
  <2>1. c \in Conns /\ c # Nobody /\ c \notin In(pool)
    BY <1>0, <1>10 DEF ReadFails, Holding, SendType, Exclusive
  <2>2. /\ \A d \in Conns \ {c} : conns'[d] = conns[d]
        /\ Goto(r, next) /\ ping' = ping /\ pool' = pool
    BY <1>0, <1>10 DEF ReadFails, Shut
  <2>3. /\ \A s \in Reports : send[s].conn = c => s = r
        /\ ping.conn # c
    BY <1>0, <2>1 DEF Exclusive, SendType
  <2>4. Holding'  BY <1>0, <1>1, <2>1, <2>2
  <2>5. Exclusive'  BY <1>0, <1>1, <2>1, <2>2, <2>3 DEF Exclusive, SendType
  <2> QED BY <2>4, <2>5
<1>11. ASSUME NEW try \in {"try", "retry"}, ReadGives(r, try)
       PROVE  Holding' /\ Exclusive'
  <2> DEFINE c == send[r].conn
  <2>1. c \in Conns /\ c # Nobody /\ c \notin In(pool) /\ conns[c].open
    BY <1>0, <1>11 DEF ReadGives, Holding, SendType, Exclusive
  <2>2. /\ \A d \in Conns \ {c} : conns'[d] = conns[d]
        /\ Goto(r, "done") /\ ping' = ping
        /\ Room => conns'[c].open /\ pool' = Append(pool, c)
        /\ ~Room => pool' = pool
    <3>1. PICK o : conns' = [conns EXCEPT ![c] = Released(c, o)]
      BY <1>11 DEF ReadGives
    <3>2. Room => Released(c, o).open  BY <1>0, <2>1 DEF Released, ConnType
    <3> QED BY <1>0, <1>11, <2>1, <3>1, <3>2 DEF ReadGives
  <2>3. CASE Room
    <3>1. In(pool') = In(pool) \cup {c} /\ Distinct(pool')
      BY <1>0, <2>1, <2>2, <2>3, AppendIn DEF Exclusive
    <3> QED BY <1>0, <1>1, <2>1, <2>2, <2>3, <3>1 DEF Exclusive, SendType
  <2>4. CASE ~Room
    BY <1>0, <1>1, <2>1, <2>2, <2>4 DEF Exclusive, SendType
  <2> QED BY <2>3, <2>4
<1> QED
  BY <1>3, <1>4, <1>5, <1>6, <1>7, <1>8, <1>9, <1>10, <1>11 DEF Dials, Reads

LEMMA PingOwners ==
  ASSUME ConnInv, PingStart \/ PingTakes \/ PingEOF \/ PingKeeps
  PROVE  Holding' /\ Exclusive'
<1> USE DEF ConnInv
<1>0. /\ send \in [Reports -> SendType] /\ conns \in [Conns -> ConnType]
      /\ ping.conn \in Conns \cup {Nobody}
      /\ ping \in [conn : Conns \cup {Nobody}, more : 0 .. MaxOpen]
      /\ In(pool) \subseteq Conns /\ Nobody \notin In(pool) /\ pool \in Seq(Conns)
  BY Types, InConns
<1>1. send' = send /\ Holding'
  BY DEF PingStart, PingTakes, PingEOF, PingKeeps, Holding
<1>2. ASSUME UNCHANGED <<conns, pool>>, ping'.conn = ping.conn
      PROVE  Exclusive'
  BY <1>1, <1>2 DEF Exclusive
<1>3. CASE PingStart
  <2>1. ping'.conn = ping.conn  BY <1>0, <1>3 DEF PingStart
  <2> QED BY <1>1, <1>2, <1>3, <2>1 DEF PingStart
<1>4. CASE PingTakes
  <2>1. CASE pool = <<>>
    <3>1. ping'.conn = ping.conn  BY <1>0, <1>4, <2>1 DEF PingTakes
    <3> QED BY <1>1, <1>2, <1>4, <2>1, <3>1 DEF PingTakes
  <2>2. CASE pool # <<>>
    <3> DEFINE c == Head(pool)
    <3>1. /\ c \in Conns /\ c \in In(pool) /\ Distinct(pool')
          /\ In(pool') = In(pool) \ {c}
      BY <1>0, <1>4, <2>2, TailIn DEF PingTakes, Exclusive
    <3>2. ping'.conn = c /\ conns' = conns
      BY <1>4, <2>2 DEF PingTakes
    <3> HIDE DEF c
    <3> QED BY <1>0, <1>1, <3>1, <3>2 DEF Exclusive
  <2> QED BY <2>1, <2>2
<1>5. CASE PingEOF
  <2> DEFINE c == ping.conn
  <2>1. c \in Conns /\ c \notin In(pool) /\ \A r \in Reports : send[r].conn # c
    BY <1>0, <1>5 DEF PingEOF, Exclusive
  <2>2. /\ ping'.conn = Nobody /\ pool' = pool
        /\ \A d \in Conns \ {c} : conns'[d] = conns[d]
    BY <1>0, <1>5 DEF PingEOF, Shut
  <2> HIDE DEF c
  <2> QED BY <1>0, <1>1, <2>1, <2>2 DEF Exclusive, SendType
<1>6. CASE PingKeeps
  <2> DEFINE c == ping.conn
  <2>1. /\ c \in Conns /\ c \notin In(pool) /\ \A r \in Reports : send[r].conn # c
        /\ conns[c].open
    BY <1>0, <1>6 DEF PingKeeps, Exclusive
  <2>2. ping'.conn = Nobody /\ pool' = IF Room THEN Append(pool, c) ELSE pool
    BY <1>0, <1>6 DEF PingKeeps
  <2>3. \A d \in Conns : conns'[d].open = conns[d].open
    <3>1. CASE conns' = [conns EXCEPT ![c].left = ReadTime]
      BY <1>0, <2>1, <3>1 DEF ConnType
    <3>2. ASSUME NEW in, conns' = [conns EXCEPT ![c].left = ReadTime, ![c].in = in,
                                                ![c].astray = TRUE]
          PROVE  \A d \in Conns : conns'[d].open = conns[d].open
      BY <1>0, <2>1, <3>2 DEF ConnType
    <3> QED BY <1>6, <3>1, <3>2 DEF PingKeeps
  <2>4. In(pool') \subseteq In(pool) \cup {c} /\ Distinct(pool')
    BY <1>0, <2>1, <2>2, AppendIn DEF Exclusive
  <2> HIDE DEF c
  <2>5. c # Nobody  BY <2>1, ConnAssumption
  <2>6. \A s, u \in Reports : s # u /\ send'[s].conn = send'[u].conn
                                => send'[s].conn = Nobody
    BY <1>1 DEF Exclusive
  <2>7. \A s \in Reports : send'[s].conn \notin In(pool')
    BY <1>1, <2>1, <2>4 DEF Exclusive
  <2>8. ping'.conn \notin In(pool') /\ (\A s \in Reports : ping'.conn = send'[s].conn
                                           => ping'.conn = Nobody)
    BY <1>0, <2>2, <2>4, <2>5
  <2>9. \A d \in In(pool') : conns'[d].open
    BY <1>0, <2>1, <2>3, <2>4 DEF Exclusive
  <2>10. \A s \in Reports : send'[s].conn # Nobody => conns'[send'[s].conn].open
    BY <1>0, <1>1, <2>3 DEF Exclusive, SendType
  <2> QED BY <1>1, <2>2, <2>4, <2>6, <2>7, <2>8, <2>9, <2>10 DEF Exclusive
<1> QED BY <1>1, <1>3, <1>4, <1>5, <1>6

LEMMA NetworkOwners ==
  ASSUME ConnInv, Tick \/ (\E c \in Conns : Arrives(c) \/ Down(c) \/ Collect(c))
  PROVE  Holding' /\ Exclusive'
<1> USE DEF ConnInv
<1>0. /\ send \in [Reports -> SendType] /\ conns \in [Conns -> ConnType]
      /\ ping.conn \in Conns \cup {Nobody} /\ In(pool) \subseteq Conns
  BY Types, InConns
<1>1. UNCHANGED <<pool, send, ping>>
  BY DEF Tick, Arrives, Down, Collect
<1>2. Holding'  BY <1>1 DEF Holding
<1>3. ASSUME \A d \in Conns : conns[d].open /\ d \in Owned => conns'[d].open
      PROVE  Exclusive'
  <2>1. \A d \in In(pool) : d \in Owned  BY DEF Owned, Pooled, In
  <2>2. \A r \in Reports : send[r].conn # Nobody => send[r].conn \in Owned
    BY DEF Owned, Sending
  <2>3. ping.conn # Nobody => ping.conn \in Owned  BY DEF Owned
  <2>4. \A d \in In(pool) : conns'[d].open  BY <1>0, <1>3, <2>1 DEF Exclusive
  <2>5. \A r \in Reports : send[r].conn # Nobody => conns'[send[r].conn].open
    BY <1>0, <1>3, <2>2 DEF Exclusive, SendType
  <2>6. ping.conn # Nobody => conns'[ping.conn].open
    BY <1>0, <1>3, <2>3 DEF Exclusive
  <2> QED BY <1>1, <2>4, <2>5, <2>6 DEF Exclusive
<1>4. ASSUME NEW c \in Conns, Arrives(c)
      PROVE  \A d \in Conns : conns'[d].open = conns[d].open
  <2>1. ASSUME NEW x, NEW y, conns' = [conns EXCEPT ![c].owed = x, ![c].in = y]
        PROVE  \A d \in Conns : conns'[d].open = conns[d].open
    BY <1>0, <2>1 DEF ConnType
  <2> QED BY <1>4, <2>1 DEF Arrives
<1>5. ASSUME NEW c \in Conns, Down(c)
      PROVE  \A d \in Conns : conns'[d].open = conns[d].open
  BY <1>0, <1>5 DEF Down, ConnType
<1>6. ASSUME NEW c \in Conns, Collect(c)
      PROVE  \A d \in Conns \ {c} : conns'[d] = conns[d]
  BY <1>0, <1>6 DEF Collect, Shut
<1>7. CASE Tick
  <2>1. \A d \in Conns : conns'[d].open = conns[d].open
    BY <1>0, <1>7 DEF Tick, ConnType
  <2> QED BY <1>2, <1>3, <2>1
<1> QED BY <1>2, <1>3, <1>4, <1>5, <1>6, <1>7 DEF Collect

LEMMA ConnStep == ConnInv /\ [Next]_vars => ConnInv'
<1> SUFFICES ASSUME ConnInv, [Next]_vars PROVE ConnInv'  OBVIOUS
<1>1. CASE \E r \in Reports :
             Refused(r) \/ Acquire(r) \/ AcquireNew(r) \/ Dials(r) \/ Reads(r)
  BY <1>1, SendTypes, SendOwners DEF ConnInv
<1>2. CASE PingStart \/ PingTakes \/ PingEOF \/ PingKeeps
  BY <1>2, PingTypes, PingOwners DEF ConnInv
<1>3. CASE Tick \/ (\E c \in Conns : Arrives(c) \/ Down(c) \/ Collect(c))
  BY <1>3, NetworkTypes, NetworkOwners DEF ConnInv
<1>4. CASE UNCHANGED vars
  <2>1. TypeOK'  BY <1>4, Types, TypesNext DEF vars, ConnInv
  <2>2. Holding'  BY <1>4 DEF vars, ConnInv, Holding
  <2>3. Exclusive'  BY <1>4 DEF vars, ConnInv, Exclusive
  <2> QED BY <2>1, <2>2, <2>3 DEF ConnInv
<1> QED BY <1>1, <1>2, <1>3, <1>4 DEF Next

\* The types of the connections, the pool and the reports hold in every
\* reachable state (pool.go 58-234, master.go 88-131).
THEOREM ConnTypesHold == Spec => []TypeOK
<1>1. ConnInv => TypeOK  BY DEF ConnInv
<1> QED BY <1>1, InitOwners, ConnStep, PTL DEF Spec

\* A connection is in the pool, with one report or with Ping, and is open
\* while it is (pool.go 58-128, 164-234).
THEOREM OneOwnerHolds == Spec => []OneOwner
BY InitOwners, ConnStep, ExclusiveOwners, PTL DEF Spec

-----------------------------------------------------------------------------
\* The breaker's outcomes.

\* What was told and offered, by where the goroutine is.
ToldAt(r) ==
  IF send[r].at = "done"
  THEN \/ told[r] = <<"success">> /\ rspchan[r] # <<>>
       \/ told[r] = <<"failure">> /\ rspchan[r] = <<>>
  ELSE told[r] = <<>> /\ rspchan[r] = <<>>
ToldInv == ConnInv /\ \A r \in Reports : ToldAt(r)

LEMMA ToldOutcome == ToldInv => OutcomeTold
<1> SUFFICES ASSUME ToldInv, NEW r \in Reports
             PROVE  /\ send[r].at = "done" <=> Len(told[r]) = 1
                    /\ Len(told[r]) <= 1
                    /\ \A i \in DOMAIN told[r] :
                         told[r][i] = "success" <=> rspchan[r] # <<>>
  BY DEF OutcomeTold
<1>1. ToldAt(r)  BY DEF ToldInv
<1>2. CASE told[r] = <<>>
  <2>1. send[r].at # "done"  BY <1>1, <1>2 DEF ToldAt
  <2> QED BY <1>2, <2>1
<1>3. CASE told[r] = <<"success">>
  <2>1. send[r].at = "done" /\ rspchan[r] # <<>>  BY <1>1, <1>3 DEF ToldAt
  <2> QED BY <1>3, <2>1
<1>4. CASE told[r] = <<"failure">>
  <2>1. send[r].at = "done" /\ rspchan[r] = <<>>  BY <1>1, <1>4 DEF ToldAt
  <2> QED BY <1>4, <2>1
<1> QED BY <1>1, <1>2, <1>3, <1>4 DEF ToldAt

LEMMA InitTold == Init => ToldInv
BY InitOwners DEF Init, ToldInv, ToldAt

\* Nothing is told or offered of a report that is sent on.
LEMMA NotYetTold ==
  ASSUME ToldInv, NEW r \in Reports, NEW at, at # "done",
         send[r].at # "done", send'[r].at = at,
         \A s \in Reports \ {r} : send'[s] = send[s],
         told' = told, rspchan' = rspchan
  PROVE  \A s \in Reports : ToldAt(s)'
BY DEF ToldInv, ToldAt

LEMMA ToldStep == ToldInv /\ [Next]_vars => ToldInv'
<1> SUFFICES ASSUME ToldInv, [Next]_vars PROVE ToldInv'  OBVIOUS
<1>0. TypeOK /\ send \in [Reports -> SendType] /\ told \in [Reports -> Seq({"success", "failure"})]
      /\ rspchan \in [Reports -> Seq(AnswerType)]
  BY Types DEF ToldInv, ConnInv
<1>1. ConnInv'  BY ConnStep DEF ToldInv
<1>2. ASSUME UNCHANGED <<send, told, rspchan>> PROVE \A s \in Reports : ToldAt(s)'
  BY <1>2 DEF ToldInv, ToldAt
<1>3. ASSUME NEW r \in Reports, Refused(r) \/ AcquireNew(r) \/ DialFails(r)
      PROVE  \A s \in Reports : ToldAt(s)'
  <2>1. /\ send[r].at # "done" /\ told' = told /\ rspchan' = rspchan
        /\ \A s \in Reports \ {r} : send'[s] = send[s]
    BY <1>0, <1>3 DEF Refused, AcquireNew, DialFails, Goto
  <2>2. send'[r].at # "done"
    BY <1>0, <1>3 DEF Refused, AcquireNew, DialFails, Goto
  <2> QED BY <2>1, <2>2, NotYetTold
<1>4. ASSUME NEW r \in Reports, Acquire(r)
      PROVE  \A s \in Reports : ToldAt(s)'
  <2>1. /\ send[r].at # "done" /\ told' = told /\ rspchan' = rspchan
        /\ \A s \in Reports \ {r} : send'[s] = send[s]
    BY <1>0, <1>4 DEF Acquire, Write
  <2>2. send'[r].at # "done"
    BY <1>0, <1>4 DEF Acquire, Write
  <2> QED BY <2>1, <2>2, NotYetTold
<1>5. ASSUME NEW r \in Reports, NEW at \in {"dial", "redial"}, NEW try \in {"try", "retry"},
             Dial(r, at, try)
      PROVE  \A s \in Reports : ToldAt(s)'
  BY <1>0, <1>5, NotYetTold DEF Dial
<1>6. ASSUME NEW r \in Reports, NEW try \in {"try", "retry"},
             NEW next \in {"redial", "replace"}, ReadFails(r, try, next)
      PROVE  \A s \in Reports : ToldAt(s)'
  BY <1>0, <1>6, NotYetTold DEF ReadFails, Goto
<1>7. ASSUME NEW r \in Reports, RedialFails(r) \/ Replace(r)
      PROVE  \A s \in Reports : ToldAt(s)'
  <2>1. told[r] = <<>> /\ rspchan[r] = <<>>
    BY <1>7 DEF RedialFails, Replace, ToldInv, ToldAt
  <2>2. /\ send'[r].at = "done" /\ told'[r] = <<"failure">> /\ rspchan' = rspchan
        /\ \A s \in Reports \ {r} : send'[s] = send[s] /\ told'[s] = told[s]
    BY <1>0, <1>7, <2>1 DEF RedialFails, Replace, Goto, Tell
  <2> QED BY <2>1, <2>2 DEF ToldInv, ToldAt
<1>8. ASSUME NEW r \in Reports, NEW try \in {"try", "retry"}, ReadGives(r, try)
      PROVE  \A s \in Reports : ToldAt(s)'
  <2>1. told[r] = <<>> /\ rspchan[r] = <<>>
    BY <1>8 DEF ReadGives, ToldInv, ToldAt
  <2>2. /\ send'[r].at = "done" /\ told'[r] = <<"success">>
        /\ \A s \in Reports \ {r} : send'[s] = send[s] /\ told'[s] = told[s]
    BY <1>0, <1>8, <2>1 DEF ReadGives, Goto, Tell
  <2>3. /\ rspchan'[r] # <<>>
        /\ \A s \in Reports \ {r} : rspchan'[s] = rspchan[s]
    BY <1>0, <1>8, <2>1 DEF ReadGives
  <2> QED BY <2>2, <2>3 DEF ToldInv, ToldAt
<1>9. \A s \in Reports : ToldAt(s)'
  <2>1. CASE PingStart \/ PingTakes \/ PingEOF \/ PingKeeps
    BY <1>2, <2>1 DEF PingStart, PingTakes, PingEOF, PingKeeps
  <2>2. CASE Tick \/ (\E c \in Conns : Arrives(c) \/ Down(c) \/ Collect(c))
    BY <1>2, <2>2 DEF Tick, Arrives, Down, Collect
  <2>3. CASE UNCHANGED vars  BY <1>2, <2>3 DEF vars
  <2>4. ASSUME NEW r \in Reports, Dials(r) \/ Reads(r)
        PROVE  \A s \in Reports : ToldAt(s)'
    BY <1>3, <1>5, <1>6, <1>7, <1>8, <2>4 DEF Dials, Reads
  <2> QED BY <1>3, <1>4, <2>1, <2>2, <2>3, <2>4 DEF Next
<1> QED BY <1>1, <1>9 DEF ToldInv

\* The breaker is told one outcome of each report it let through and that
\* found a connection, a success when an answer was offered (pool.go 94-127).
THEOREM OutcomeToldHolds == Spec => []OutcomeTold
BY InitTold, ToldStep, ToldOutcome, PTL DEF Spec

-----------------------------------------------------------------------------
\* What becomes of a connection that is given up.

LEMMA OwnersOf ==
  /\ \A c \in Pooled : c \in Owned
  /\ \A r \in Reports : send[r].conn # Nobody => send[r].conn \in Owned
  /\ ping.conn # Nobody => ping.conn \in Owned
BY DEF Owned, Sending

LEMMA OwnersNext ==
  /\ \A c \in In(pool') : c \in Owned'
  /\ \A r \in Reports : send'[r].conn # Nobody => send'[r].conn \in Owned'
  /\ ping'.conn # Nobody => ping'.conn \in Owned'
BY DEF Owned, Pooled, Sending, In

LEMMA GivenUpClosed ==
  ConnInv /\ [Next]_vars
    => \A c \in Owned \ {ping.conn} : c \notin Owned' => ~conns'[c].open
<1> SUFFICES ASSUME ConnInv, [Next]_vars, NEW c \in Owned, c # ping.conn,
                    c \notin Owned'
             PROVE  ~conns'[c].open
  OBVIOUS
<1> USE DEF ConnInv
<1>0. /\ send \in [Reports -> SendType] /\ conns \in [Conns -> ConnType]
      /\ pool \in Seq(Conns) /\ In(pool) \subseteq Conns
      /\ Nobody \notin In(pool)
  BY Types, InConns
<1>1. c \in In(pool) \/ \E s \in Reports : send[s].conn = c /\ c # Nobody
  BY DEF Owned, Pooled, Sending, In
<1>2. ASSUME \A x \in In(pool) : x \in In(pool'), send' = send PROVE FALSE
  BY <1>1, <1>2, OwnersNext
<1>3. ASSUME NEW r \in Reports, send[r].conn # c, \A x \in In(pool) : x \in In(pool'),
             \A s \in Reports \ {r} : send'[s] = send[s]
      PROVE  FALSE
  BY <1>1, <1>3, OwnersNext
<1>4. ASSUME NEW r \in Reports, Acquire(r) PROVE FALSE
  <2>1. In(pool') = In(pool) \ {Head(pool)}
    BY <1>0, <1>4, TailIn DEF Acquire, Exclusive
  <2>2. /\ send'[r].conn = Head(pool)
        /\ \A s \in Reports \ {r} : send'[s] = send[s]
    BY <1>0, <1>4 DEF Acquire, Write
  <2>3. Head(pool) \in In(pool)  BY <1>0, <1>4, TailIn DEF Acquire, Exclusive
  <2>4. send[r].conn = Nobody /\ c # Nobody
    BY <1>0, <1>1, <1>4 DEF Acquire, Holding
  <2> QED BY <1>0, <1>1, <2>1, <2>2, <2>3, <2>4, OwnersNext
<1>5. ASSUME NEW r \in Reports,
             \/ Refused(r) \/ AcquireNew(r) \/ DialFails(r) \/ RedialFails(r)
             \/ Dial(r, "dial", "try") \/ Dial(r, "redial", "retry")
      PROVE  FALSE
  <2>1. send[r].conn = Nobody
    BY <1>5 DEF Refused, AcquireNew, DialFails, RedialFails, Dial, Holding
  <2>2. c # Nobody  BY <1>0, <1>1
  <2>3. pool' = pool
    BY <1>5 DEF Refused, AcquireNew, DialFails, RedialFails, Dial
  <2>4. \A s \in Reports \ {r} : send'[s] = send[s]
    BY <1>0, <1>5 DEF Refused, AcquireNew, DialFails, RedialFails, Dial, Goto
  <2> QED BY <1>3, <2>1, <2>2, <2>3, <2>4
<1>6. ASSUME NEW r \in Reports, Replace(r) PROVE FALSE
  <2>1. send[r].conn = Nobody  BY <1>6 DEF Replace, Holding
  <2>2. c # Nobody  BY <1>0, <1>1
  <2>3. \A x \in In(pool) : x \in In(pool')
    <3>1. CASE pool' = pool  BY <3>1
    <3>2. CASE SomeClosed /\ pool' = Append(pool, Fresh)
      BY <1>0, <3>2, FreshClosed, AppendIn
    <3> QED BY <1>6, <3>1, <3>2 DEF Replace
  <2>4. \A s \in Reports \ {r} : send'[s] = send[s]
    BY <1>0, <1>6 DEF Replace, Goto
  <2> QED BY <1>3, <2>1, <2>2, <2>3, <2>4
<1>7. ASSUME NEW r \in Reports, NEW try \in {"try", "retry"},
             NEW next \in {"redial", "replace"}, ReadFails(r, try, next)
      PROVE  ~conns'[c].open
  <2>1. pool' = pool /\ \A s \in Reports \ {r} : send'[s] = send[s]
    BY <1>0, <1>7 DEF ReadFails, Goto
  <2>2. send[r].conn = c  BY <1>3, <2>1
  <2>3. c \in Conns  BY <1>0, <1>1, <2>2 DEF SendType
  <2> QED BY <1>0, <1>7, <2>2, <2>3 DEF ReadFails, Shut, Closed
<1>8. ASSUME NEW r \in Reports, NEW try \in {"try", "retry"}, ReadGives(r, try)
      PROVE  ~conns'[c].open
  <2>1. \A s \in Reports \ {r} : send'[s] = send[s]
    BY <1>0, <1>8 DEF ReadGives, Goto
  <2>2. send[r].conn \in Conns
    BY <1>0, <1>8 DEF ReadGives, Holding, SendType
  <2>3. CASE Room
    <3>1. In(pool') = In(pool) \cup {send[r].conn}
      BY <1>0, <1>8, <2>2, <2>3, AppendIn DEF ReadGives
    <3>2. c # send[r].conn  BY <3>1, OwnersNext
    <3> QED BY <1>3, <2>1, <3>1, <3>2
  <2>4. CASE ~Room
    <3>1. pool' = pool  BY <1>8, <2>4 DEF ReadGives
    <3>2. send[r].conn = c  BY <1>3, <2>1, <3>1
    <3>3. PICK o : conns' = [conns EXCEPT ![c] = Released(c, o)]
      BY <1>8, <3>2 DEF ReadGives
    <3>4. conns'[c] = Closed  BY <1>0, <2>2, <2>4, <3>2, <3>3 DEF Released
    <3> QED BY <3>4 DEF Closed
  <2> QED BY <2>3, <2>4
<1>9. CASE PingTakes
  <2>1. CASE pool = <<>>  BY <1>2, <1>9, <2>1 DEF PingTakes
  <2>2. CASE pool # <<>>
    <3>1. In(pool') = In(pool) \ {Head(pool)} /\ ping'.conn = Head(pool) /\ send' = send
      <4>1. pool' = Tail(pool) /\ ping'.conn = Head(pool) /\ send' = send
        BY <1>9, <2>2 DEF PingTakes
      <4>2. In(Tail(pool)) = In(pool) \ {Head(pool)}
        BY <1>0, <2>2, TailIn DEF Exclusive
      <4> QED BY <4>1, <4>2
    <3>2. Head(pool) # Nobody
      BY <1>0, <2>2, TailIn DEF Exclusive
    <3> QED BY <1>1, <3>1, <3>2, OwnersNext
  <2> QED BY <2>1, <2>2
<1>10. CASE PingKeeps
  <2>1. send' = send  BY <1>10 DEF PingKeeps
  <2>2. \A x \in In(pool) : x \in In(pool')
    <3>1. CASE pool' = pool  BY <3>1
    <3>2. CASE pool' = Append(pool, ping.conn)
      <4>1. ping.conn \in Conns  BY <1>10, Types DEF PingKeeps
      <4> QED BY <1>0, <3>2, <4>1, AppendIn
    <3> QED BY <1>10, <3>1, <3>2 DEF PingKeeps
  <2> QED BY <1>2, <2>1, <2>2
<1>11. CASE PingStart \/ PingEOF  BY <1>2, <1>11 DEF PingStart, PingEOF
<1>12. CASE Tick \/ (\E d \in Conns : Arrives(d) \/ Down(d) \/ Collect(d))
  BY <1>2, <1>12 DEF Tick, Arrives, Down, Collect
<1>13. CASE UNCHANGED vars  BY <1>2, <1>13 DEF vars
<1>14. ASSUME NEW r \in Reports, Dials(r) \/ Reads(r) PROVE ~conns'[c].open
  BY <1>5, <1>6, <1>7, <1>8, <1>14 DEF Dials, Reads
<1> QED
  BY <1>4, <1>5, <1>9, <1>10, <1>11, <1>12, <1>13, <1>14 DEF Next

\* A connection that is given up is closed, but for those Ping forgets
\* (pool.go 64-79, 102-121, 206-234).
THEOREM OnlyPingForgetsHolds == Spec => OnlyPingForgets
<1>1. ConnInv /\ [Next]_vars
        => [\A c \in Owned \ {ping.conn} : c \notin Owned' => ~conns'[c].open]_vars
  BY GivenUpClosed
<1> QED BY <1>1, InitOwners, ConnStep, PTL DEF Spec, OnlyPingForgets

-----------------------------------------------------------------------------
\* The answers under way.

\* No byte is under way, or a part of an answer was read.
Clean(k) == k.astray \/ (k.owed = <<>> /\ k.in = <<>>)
\* What is under way is the answer of report r.
UnderWay(k, r) ==
  \/ k.astray
  \/ k.owed = <<Piece(r, "whole")>> /\ k.in = <<>>
  \/ k.owed = <<Piece(r, "rest")>> /\ k.in = <<Piece(r, "first")>>
  \/ k.owed = <<>> /\ k.in \in {<<>>, <<Piece(r, "first")>>, <<Piece(r, "whole")>>}
Offered(r) ==
  \A i \in DOMAIN rspchan[r] :
    rspchan[r][i].astray \/ rspchan[r][i].answer \in {r, Garbage}

WirePool == \A c \in In(pool) : Clean(conns[c])
WirePing == ping.conn # Nobody => Clean(conns[ping.conn])
WireSend == \A r \in Reports : send[r].conn # Nobody => UnderWay(conns[send[r].conn], r)
AnswersInv == ConnInv /\ WirePool /\ WirePing /\ WireSend /\ \A r \in Reports : Offered(r)

Alike(k, l) == k.owed = l.owed /\ k.in = l.in /\ k.astray = l.astray

LEMMA AlikeWires ==
  ASSUME NEW k, NEW l, Alike(k, l)
  PROVE  /\ Clean(l) => Clean(k)
         /\ \A r \in Reports : UnderWay(l, r) => UnderWay(k, r)
BY DEF Alike, Clean, UnderWay

LEMMA DialledWires ==
  /\ Clean(Dialled)
  /\ \A r \in Reports : UnderWay([Dialled EXCEPT !.owed = <<Piece(r, "whole")>>], r)
BY DEF Dialled, Clean, UnderWay

\* An answer that is read is the report's, or what goes astray is known to.
LEMMA ReadWires ==
  ASSUME conns \in [Conns -> ConnType], NEW c \in Conns, NEW r \in Reports,
         UnderWay(conns[c], r), NEW o \in ReadBinary(c), o # Failed
  PROVE  /\ conns[c].astray \/ o.answer \in {r, Garbage}
         /\ Clean([conns[c] EXCEPT !.left = ReadTime, !.in = o.in, !.astray = o.astray])
<1> DEFINE in == conns[c].in
<1>1. conns[c] \in ConnType /\ conns[c].left # 0 /\ in # <<>>
  BY ReadTypes
<1>2. CASE conns[c].astray
  <2>1. o.astray
    BY <1>1, <1>2 DEF ReadBinary, OnTimeout, Got
  <2> QED BY <1>1, <1>2, <2>1 DEF Clean, ConnType
<1>3. CASE ~conns[c].astray /\ in = <<Piece(r, "first")>>
  <2>1. Head(in).part = "first"  BY <1>3 DEF Piece
  <2>2. o = Got(Garbage, Tail(in), TRUE)
    BY <1>1, <2>1 DEF ReadBinary
  <2>3. o.answer = Garbage /\ o.astray = TRUE  BY <2>2 DEF Got
  <2> QED BY <1>1, <2>3 DEF Clean, ConnType
<1>4. CASE ~conns[c].astray /\ in = <<Piece(r, "whole")>> /\ conns[c].owed = <<>>
  <2>1. Head(in).part = "whole" /\ Head(in).of = r /\ Tail(in) = <<>>
    BY <1>4 DEF Piece
  <2>2. o = Got(r, <<>>, conns[c].astray)
    BY <1>1, <2>1 DEF ReadBinary
  <2>3. o.answer = r /\ o.in = <<>>  BY <2>2 DEF Got
  <2> QED BY <1>1, <1>4, <2>3 DEF Clean, ConnType
<1> QED BY <1>1, <1>2, <1>3, <1>4 DEF UnderWay

LEMMA ArriveWires ==
  ASSUME conns \in [Conns -> ConnType], NEW c \in Conns, Arrives(c)
  PROVE  /\ Clean(conns[c]) => Clean(conns'[c])
         /\ \A r \in Reports : UnderWay(conns[c], r) => UnderWay(conns'[c], r)
         /\ \A d \in Conns \ {c} : conns'[d] = conns[d]
<1> DEFINE a == Head(conns[c].owed)
           in == conns[c].in
           begun == a.part = "rest" /\ in # <<>> /\ in[Len(in)] = Piece(a.of, "first")
           got == IF begun THEN [in EXCEPT ![Len(in)].part = "whole"] ELSE Append(in, a)
           rest == [conns[c].owed EXCEPT ![1].part = "rest"]
           part == Append(in, Piece(a.of, "first"))
<1>1. conns[c] \in ConnType /\ conns[c].owed # <<>>  BY DEF Arrives
<1>2. ASSUME NEW x, NEW y, conns' = [conns EXCEPT ![c].owed = x, ![c].in = y]
      PROVE  /\ conns'[c].owed = x /\ conns'[c].in = y
             /\ conns'[c].astray = conns[c].astray
             /\ \A d \in Conns \ {c} : conns'[d] = conns[d]
  BY <1>1, <1>2 DEF ConnType
<1>3. \/ conns' = [conns EXCEPT ![c].owed = Tail(conns[c].owed), ![c].in = got]
      \/ a.part = "whole" /\ conns' = [conns EXCEPT ![c].owed = rest, ![c].in = part]
  BY DEF Arrives
<1> HIDE DEF rest, part, got
<1>4. /\ conns'[c].astray = conns[c].astray
      /\ \A d \in Conns \ {c} : conns'[d] = conns[d]
      /\ \/ conns'[c].owed = Tail(conns[c].owed) /\ conns'[c].in = got
         \/ a.part = "whole" /\ conns'[c].owed = rest /\ conns'[c].in = part
  BY <1>2, <1>3
<1>5. Clean(conns[c]) => Clean(conns'[c])
  BY <1>1, <1>4 DEF Clean
<1>6. ASSUME NEW r \in Reports, UnderWay(conns[c], r), ~conns[c].astray
      PROVE  UnderWay(conns'[c], r)
  <2>1. CASE conns[c].owed = <<Piece(r, "whole")>> /\ in = <<>>
    <3>1. a = Piece(r, "whole") /\ Tail(conns[c].owed) = <<>> /\ a.part = "whole" /\ a.of = r
      BY <2>1 DEF Piece
    <3>2. got = <<Piece(r, "whole")>>  BY <2>1, <3>1 DEF got
    <3>3. part = <<Piece(r, "first")>>  BY <2>1, <3>1 DEF part
    <3>4. rest = <<Piece(r, "rest")>>  BY <2>1 DEF rest, Piece
    <3> HIDE DEF a, in
    <3> QED BY <1>4, <3>1, <3>2, <3>3, <3>4 DEF UnderWay
  <2>2. CASE conns[c].owed = <<Piece(r, "rest")>> /\ in = <<Piece(r, "first")>>
    <3>1. a = Piece(r, "rest") /\ Tail(conns[c].owed) = <<>> /\ a.part = "rest" /\ a.of = r
      BY <2>2 DEF Piece
    <3>2. begun /\ Len(in) = 1  BY <2>2, <3>1
    <3>3. got = <<Piece(r, "whole")>>  BY <2>2, <3>2 DEF got, Piece
    <3> HIDE DEF a, in, begun
    <3> QED BY <1>4, <3>1, <3>3 DEF UnderWay
  <2> QED BY <1>1, <1>6, <2>1, <2>2 DEF UnderWay
<1>7. \A r \in Reports : UnderWay(conns[c], r) => UnderWay(conns'[c], r)
  BY <1>4, <1>6 DEF UnderWay
<1> QED BY <1>4, <1>5, <1>7

LEMMA InitAnswers == Init => AnswersInv
<1> SUFFICES ASSUME Init PROVE AnswersInv  OBVIOUS
<1>1. ConnInv  BY InitOwners
<1>2. \A c \in Conns : Clean(conns[c])  BY DEF Init, Clean, Dialled, Closed
<1>3. WirePool  BY <1>1, <1>2, InConns DEF WirePool, ConnInv
<1>4. WirePing /\ WireSend /\ \A r \in Reports : Offered(r)
  BY DEF Init, WirePing, WireSend, Offered
<1> QED BY <1>1, <1>3, <1>4 DEF AnswersInv

\* A step that leaves the bytes of owned connections as they are.
LEMMA SameWires ==
  ASSUME AnswersInv, ConnInv', UNCHANGED <<send, ping, pool, rspchan>>,
         \A c \in Owned :
           /\ Clean(conns[c]) => Clean(conns'[c])
           /\ \A r \in Reports : UnderWay(conns[c], r) => UnderWay(conns'[c], r)
  PROVE  AnswersInv'
<1>1. WirePool'
  BY OwnersOf DEF AnswersInv, WirePool, Pooled, In
<1>2. WirePing'  BY OwnersOf DEF AnswersInv, WirePing
<1>3. WireSend'  BY OwnersOf DEF AnswersInv, WireSend
<1>4. \A r \in Reports : Offered(r)'  BY DEF AnswersInv, Offered
<1> QED BY <1>1, <1>2, <1>3, <1>4 DEF AnswersInv

\* A step after which report r has no connection, and the others are as before.
LEMMA LeftWires ==
  ASSUME AnswersInv, ConnInv', NEW r \in Reports, NEW c,
         send'[r].conn = Nobody,
         \A s \in Reports \ {r} : send'[s] = send[s],
         \A s \in Reports \ {r} : send[s].conn # Nobody => send[s].conn # c,
         ping.conn # Nobody => ping.conn # c,
         c \notin In(pool),
         \A d \in Conns \ {c} : conns'[d] = conns[d],
         ping' = ping, rspchan' = rspchan,
         \/ pool' = pool
         \/ c \in Conns /\ pool' = Append(pool, c) /\ Clean(conns'[c])
  PROVE  AnswersInv'
<1> USE DEF AnswersInv
<1>0. /\ pool \in Seq(Conns) /\ In(pool) \subseteq Conns
      /\ ping.conn \in Conns \cup {Nobody} /\ send \in [Reports -> SendType]
  BY InConns, Types DEF ConnInv
<1>1. WirePool'
  <2>1. CASE pool' = pool  BY <1>0, <2>1 DEF WirePool
  <2>2. CASE c \in Conns /\ pool' = Append(pool, c) /\ Clean(conns'[c])
    <3>1. In(pool') = In(pool) \cup {c}  BY <1>0, <2>2, AppendIn
    <3> QED BY <1>0, <2>2, <3>1 DEF WirePool
  <2> QED BY <2>1, <2>2
<1>2. WirePing'  BY <1>0 DEF WirePing
<1>3. WireSend'
  <2> SUFFICES ASSUME NEW s \in Reports, send'[s].conn # Nobody
               PROVE  UnderWay(conns'[send'[s].conn], s)
    BY DEF WireSend
  <2>1. s # r /\ send'[s] = send[s] /\ send[s].conn \in Conns \ {c}
    BY <1>0 DEF SendType
  <2> QED BY <2>1 DEF WireSend
<1>4. \A s \in Reports : Offered(s)'  BY DEF Offered
<1> QED BY <1>1, <1>2, <1>3, <1>4

\* Report r takes connection c, the others stay as they are.
LEMMA TakenWires ==
  ASSUME AnswersInv, ConnInv', NEW r \in Reports, NEW c \in Conns,
         send'[r].conn = c,
         \A s \in Reports \ {r} : send'[s] = send[s],
         \A s \in Reports : send[s].conn # c,
         ping.conn # c, c \notin In(pool'), In(pool') \subseteq In(pool),
         UnderWay(conns'[c], r),
         \A d \in Conns \ {c} : conns'[d] = conns[d],
         ping' = ping, rspchan' = rspchan
  PROVE  AnswersInv'
<1> USE DEF AnswersInv
<1>0. /\ In(pool) \subseteq Conns
      /\ ping.conn \in Conns \cup {Nobody} /\ send \in [Reports -> SendType]
  BY InConns, Types DEF ConnInv
<1>1. WirePool'  BY <1>0 DEF WirePool
<1>2. WirePing'  BY <1>0 DEF WirePing
<1>3. WireSend'
  <2> SUFFICES ASSUME NEW s \in Reports, send'[s].conn # Nobody
               PROVE  UnderWay(conns'[send'[s].conn], s)
    BY DEF WireSend
  <2>1. CASE s = r  BY <2>1
  <2>2. CASE s # r
    <3>1. send'[s] = send[s] /\ send[s].conn \in Conns \ {c}
      BY <1>0, <2>2 DEF SendType
    <3> QED BY <3>1 DEF WireSend
  <2> QED BY <2>1, <2>2
<1>4. \A s \in Reports : Offered(s)'  BY DEF Offered
<1> QED BY <1>1, <1>2, <1>3, <1>4

LEMMA SendAnswers ==
  ASSUME AnswersInv, ConnInv', NEW r \in Reports,
         Refused(r) \/ Acquire(r) \/ AcquireNew(r) \/ Dials(r) \/ Reads(r)
  PROVE  AnswersInv'
<1>0. /\ send \in [Reports -> SendType] /\ conns \in [Conns -> ConnType]
      /\ ping.conn \in Conns \cup {Nobody} /\ TypeOK /\ Exclusive /\ Holding
      /\ In(pool) \subseteq Conns /\ Nobody \notin In(pool) /\ pool \in Seq(Conns)
  BY Types, InConns DEF AnswersInv, ConnInv
<1>1. ASSUME NEW at, Goto(r, at)
      PROVE  /\ send'[r].conn = Nobody
             /\ \A s \in Reports \ {r} : send'[s] = send[s]
  BY <1>0, <1>1 DEF Goto
<1>2. ASSUME NEW at, Goto(r, at), UNCHANGED <<conns, pool, ping, rspchan>>
      PROVE  AnswersInv'
  <2>1. Nobody \notin In(pool) /\ pool' = pool /\ ping' = ping /\ rspchan' = rspchan
        /\ \A d \in Conns \ {Nobody} : conns'[d] = conns[d]
    BY <1>0, <1>2
  <2> QED BY <1>1, <1>2, <2>1, LeftWires
<1>3. CASE Refused(r)  BY <1>2, <1>3 DEF Refused
<1>4. CASE Acquire(r)
  <2> DEFINE c == Head(pool)
  <2>1. /\ c \in Conns /\ c \in In(pool) /\ In(pool') = In(pool) \ {c}
    BY <1>0, <1>4, TailIn DEF Acquire, Exclusive
  <2>2. ping.conn # c /\ \A s \in Reports : send[s].conn # c
    BY <1>0, <2>1 DEF Exclusive
  <2>3. /\ conns' = [conns EXCEPT ![c].owed = IF conns[c].up
                                              THEN Append(@, Piece(r, "whole")) ELSE @]
        /\ send'[r].conn = c /\ \A s \in Reports \ {r} : send'[s] = send[s]
        /\ ping' = ping /\ rspchan' = rspchan
    BY <1>0, <1>4 DEF Acquire, Write
  <2>4. Clean(conns[c])  BY <2>1 DEF AnswersInv, WirePool
  <2> HIDE DEF c
  <2>5. /\ conns'[c].in = conns[c].in /\ conns'[c].astray = conns[c].astray
        /\ conns'[c].owed = IF conns[c].up THEN Append(conns[c].owed, Piece(r, "whole"))
                            ELSE conns[c].owed
        /\ \A d \in Conns \ {c} : conns'[d] = conns[d]
    BY <1>0, <2>1, <2>3 DEF ConnType
  <2>6. UnderWay(conns'[c], r)
    <3>1. Append(<<>>, Piece(r, "whole")) = <<Piece(r, "whole")>>  OBVIOUS
    <3> QED BY <2>4, <2>5, <3>1 DEF Clean, UnderWay
  <2> QED BY <2>1, <2>2, <2>3, <2>5, <2>6, TakenWires
<1>5. CASE AcquireNew(r)  BY <1>2, <1>5 DEF AcquireNew
<1>6. ASSUME NEW at, NEW try, Dial(r, at, try)
      PROVE  AnswersInv'
  <2>1. Fresh \in Conns /\ ~conns[Fresh].open  BY <1>6, FreshClosed DEF Dial
  <2>2. /\ conns'[Fresh] = [Dialled EXCEPT !.owed = <<Piece(r, "whole")>>]
        /\ \A d \in Conns \ {Fresh} : conns'[d] = conns[d]
        /\ send'[r].conn = Fresh
        /\ \A s \in Reports \ {r} : send'[s] = send[s]
        /\ ping' = ping /\ pool' = pool /\ rspchan' = rspchan
    BY <1>0, <1>6, <2>1 DEF Dial
  <2>3. /\ ping.conn # Fresh /\ \A s \in Reports : send[s].conn # Fresh
        /\ Fresh \notin In(pool)
    BY <1>0, <2>1, ConnAssumption DEF Exclusive
  <2>4. UnderWay(conns'[Fresh], r)  BY <2>2, DialledWires
  <2> QED BY <2>1, <2>2, <2>3, <2>4, TakenWires
<1>7. CASE DialFails(r)  BY <1>2, <1>7 DEF DialFails
<1>8. CASE RedialFails(r)  BY <1>2, <1>8 DEF RedialFails
<1>9. CASE Replace(r)
  <2>1. Goto(r, "done") /\ ping' = ping /\ rspchan' = rspchan  BY <1>9 DEF Replace
  <2>2. CASE UNCHANGED <<conns, pool>>  BY <1>2, <2>1, <2>2
  <2>3. CASE /\ SomeClosed
             /\ conns' = [conns EXCEPT ![Fresh] = Dialled]
             /\ pool' = Append(pool, Fresh)
    <3>1. Fresh \in Conns /\ ~conns[Fresh].open  BY <2>3, FreshClosed
    <3>2. /\ conns'[Fresh] = Dialled
          /\ \A d \in Conns \ {Fresh} : conns'[d] = conns[d]
      BY <1>0, <2>3, <3>1
    <3>3. /\ ping.conn # Fresh /\ \A s \in Reports : send[s].conn # Fresh
          /\ Fresh \notin In(pool)
      BY <1>0, <3>1, ConnAssumption DEF Exclusive
    <3>4. Clean(conns'[Fresh])  BY <3>2, DialledWires
    <3> QED BY <1>1, <2>1, <2>3, <3>1, <3>2, <3>3, <3>4, LeftWires
  <2> QED BY <1>9, <2>2, <2>3 DEF Replace
<1>10. ASSUME NEW try \in {"try", "retry"}, NEW next, ReadFails(r, try, next)
       PROVE  AnswersInv'
  <2> DEFINE c == send[r].conn
  <2>1. /\ c \in Conns /\ c \notin In(pool) /\ ping.conn # c
        /\ \A s \in Reports \ {r} : send[s].conn # c
    BY <1>0, <1>10, ConnAssumption DEF ReadFails, Holding, SendType, Exclusive
  <2>2. /\ \A d \in Conns \ {c} : conns'[d] = conns[d]
        /\ Goto(r, next) /\ ping' = ping /\ pool' = pool /\ rspchan' = rspchan
    BY <1>0, <1>10 DEF ReadFails, Shut
  <2> HIDE DEF c
  <2> QED BY <1>1, <2>1, <2>2, LeftWires
<1>11. ASSUME NEW try \in {"try", "retry"}, ReadGives(r, try)
       PROVE  AnswersInv'
  <2> DEFINE c == send[r].conn
  <2>1. /\ c \in Conns /\ c \notin In(pool) /\ ping.conn # c /\ c # Nobody
        /\ \A s \in Reports \ {r} : send[s].conn # c
    BY <1>0, <1>11, ConnAssumption DEF ReadGives, Holding, SendType, Exclusive
  <2>2. UnderWay(conns[c], r)  BY <2>1 DEF AnswersInv, WireSend
  <2>3. PICK o \in ReadBinary(c) \ {Failed} :
          /\ conns' = [conns EXCEPT ![c] = Released(c, o)]
          /\ rspchan' = [rspchan EXCEPT ![r] =
               Append(@, [answer |-> o.answer, astray |-> conns[c].astray])]
    BY <1>11 DEF ReadGives
  <2>4. /\ Goto(r, "done") /\ ping' = ping
        /\ pool' = IF Room THEN Append(pool, c) ELSE pool
    BY <1>11 DEF ReadGives
  <2>5. /\ conns[c].astray \/ o.answer \in {r, Garbage}
        /\ Clean([conns[c] EXCEPT !.left = ReadTime, !.in = o.in, !.astray = o.astray])
    BY <1>0, <2>1, <2>2, ReadWires
  <2> HIDE DEF c
  <2>6. /\ \A d \in Conns \ {c} : conns'[d] = conns[d]
        /\ Room => Clean(conns'[c])
    BY <1>0, <2>1, <2>3, <2>5 DEF Released
  <2>7. WirePool' /\ WirePing' /\ WireSend'
    <3>1. WirePool'
      <4>1. CASE Room
        <5>1. In(pool') = In(pool) \cup {c}  BY <1>0, <2>1, <2>4, <4>1, AppendIn
        <5> QED BY <1>0, <2>6, <4>1, <5>1 DEF WirePool, AnswersInv
      <4>2. CASE ~Room
        <5>1. pool' = pool  BY <2>4, <4>2
        <5> QED BY <1>0, <2>1, <2>6, <5>1 DEF WirePool, AnswersInv
      <4> QED BY <4>1, <4>2
    <3>2. WirePing'  BY <1>0, <2>1, <2>4, <2>6 DEF WirePing, AnswersInv
    <3>3. WireSend'
      <4> SUFFICES ASSUME NEW s \in Reports, send'[s].conn # Nobody
                   PROVE  UnderWay(conns'[send'[s].conn], s)
        BY DEF WireSend
      <4>1. s # r /\ send'[s] = send[s]  BY <1>1, <2>4
      <4>2. send[s].conn \in Conns \ {c}  BY <1>0, <2>1, <4>1 DEF SendType
      <4> QED BY <2>6, <4>1, <4>2 DEF WireSend, AnswersInv
    <3> QED BY <3>1, <3>2, <3>3
  <2>8. \A s \in Reports : Offered(s)'
    <3> SUFFICES ASSUME NEW s \in Reports PROVE Offered(s)'  OBVIOUS
    <3>0. Offered(s)  BY DEF AnswersInv
    <3>1. CASE s # r
      <4>1. rspchan'[s] = rspchan[s]  BY <1>0, <2>3, <3>1, Types
      <4> QED BY <3>0, <4>1 DEF Offered
    <3>2. CASE s = r
      <4> DEFINE new == [answer |-> o.answer, astray |-> conns[c].astray]
      <4>1. rspchan[r] \in Seq(AnswerType)  BY <1>0, Types
      <4>2. rspchan'[r] = Append(rspchan[r], new)  BY <1>0, <2>3, Types
      <4>3. new.astray \/ new.answer \in {r, Garbage}  BY <2>5
      <4> HIDE DEF new
      <4>4. \A i \in DOMAIN rspchan'[r] :
              rspchan'[r][i] = new \/ (i \in DOMAIN rspchan[r] /\ rspchan'[r][i] = rspchan[r][i])
        BY <4>1, <4>2
      <4> QED BY <3>0, <3>2, <4>3, <4>4 DEF Offered
    <3> QED BY <3>1, <3>2
  <2> QED BY <2>7, <2>8 DEF AnswersInv
<1> QED
  BY <1>3, <1>4, <1>5, <1>6, <1>7, <1>8, <1>9, <1>10, <1>11 DEF Dials, Reads

LEMMA PingAnswers ==
  ASSUME AnswersInv, ConnInv', PingStart \/ PingTakes \/ PingEOF \/ PingKeeps
  PROVE  AnswersInv'
<1>0. /\ send \in [Reports -> SendType] /\ conns \in [Conns -> ConnType]
      /\ ping \in [conn : Conns \cup {Nobody}, more : 0 .. MaxOpen]
      /\ ping.conn \in Conns \cup {Nobody} /\ TypeOK /\ Exclusive
      /\ In(pool) \subseteq Conns /\ Nobody \notin In(pool) /\ pool \in Seq(Conns)
  BY Types, InConns DEF AnswersInv, ConnInv
<1>1. send' = send /\ rspchan' = rspchan
  BY DEF PingStart, PingTakes, PingEOF, PingKeeps
<1>2. \A r \in Reports : Offered(r)'  BY <1>1 DEF Offered, AnswersInv
<1>3. ASSUME ping'.conn = Nobody, NEW c \in Conns, ping.conn = c,
             \A d \in Conns \ {c} : conns'[d] = conns[d],
             \/ pool' = pool
             \/ pool' = Append(pool, c) /\ Clean(conns'[c])
      PROVE  AnswersInv'
  <2>0. c \notin In(pool) /\ \A r \in Reports : send[r].conn # c
    BY <1>0, <1>3, ConnAssumption DEF Exclusive
  <2>1. WirePool'
    <3>1. CASE pool' = pool  BY <1>0, <1>3, <2>0, <3>1 DEF WirePool, AnswersInv
    <3>2. CASE pool' = Append(pool, c) /\ Clean(conns'[c])
      <4>1. In(pool') = In(pool) \cup {c}  BY <1>0, <3>2, AppendIn
      <4> QED BY <1>0, <1>3, <2>0, <3>2, <4>1 DEF WirePool, AnswersInv
    <3> QED BY <1>3, <3>1, <3>2
  <2>2. WirePing'  BY <1>3 DEF WirePing
  <2>3. WireSend'
    BY <1>0, <1>1, <1>3, <2>0 DEF WireSend, AnswersInv, SendType
  <2> QED BY <1>2, <2>1, <2>2, <2>3 DEF AnswersInv
<1>4. ASSUME UNCHANGED <<conns, pool>>, ping'.conn = ping.conn PROVE AnswersInv'
  BY <1>1, <1>2, <1>4 DEF AnswersInv, WirePool, WirePing, WireSend
<1>5. CASE PingStart
  <2>1. ping'.conn = ping.conn  BY <1>0, <1>5 DEF PingStart
  <2> QED BY <1>4, <1>5, <2>1 DEF PingStart
<1>6. CASE PingTakes
  <2>1. CASE pool = <<>>
    <3>1. ping'.conn = ping.conn  BY <1>0, <1>6, <2>1 DEF PingTakes
    <3> QED BY <1>4, <1>6, <2>1, <3>1 DEF PingTakes
  <2>2. CASE pool # <<>>
    <3>1. pool' = Tail(pool) /\ ping'.conn = Head(pool) /\ conns' = conns
      BY <1>6, <2>2 DEF PingTakes
    <3>2. In(Tail(pool)) = In(pool) \ {Head(pool)} /\ Head(pool) \in In(pool)
      BY <1>0, <2>2, TailIn DEF Exclusive
    <3> QED BY <1>1, <1>2, <3>1, <3>2 DEF AnswersInv, WirePool, WirePing, WireSend
  <2> QED BY <2>1, <2>2
<1>7. CASE PingEOF
  <2> DEFINE c == ping.conn
  <2>1. c \in Conns /\ ping'.conn = Nobody /\ pool' = pool
    BY <1>0, <1>7 DEF PingEOF
  <2>2. \A d \in Conns \ {c} : conns'[d] = conns[d]
    BY <1>0, <1>7 DEF PingEOF, Shut
  <2> HIDE DEF c
  <2> QED BY <1>3, <2>1, <2>2 DEF c
<1>8. CASE PingKeeps
  <2> DEFINE c == ping.conn
  <2>1. /\ c \in Conns /\ c # Nobody /\ ping'.conn = Nobody
        /\ pool' = IF Room THEN Append(pool, c) ELSE pool
    BY <1>0, <1>8 DEF PingKeeps
  <2>2. Clean(conns[c]) /\ conns[c] \in ConnType
    BY <1>0, <2>1 DEF AnswersInv, WirePing
  <2>3. Clean(conns'[c]) /\ \A d \in Conns \ {c} : conns'[d] = conns[d]
    <3>1. CASE conns' = [conns EXCEPT ![c].left = ReadTime]
      BY <1>0, <2>1, <2>2, <3>1 DEF Clean, ConnType
    <3>2. ASSUME NEW in, conns' = [conns EXCEPT ![c].left = ReadTime, ![c].in = in,
                                                ![c].astray = TRUE]
          PROVE  Clean(conns'[c]) /\ \A d \in Conns \ {c} : conns'[d] = conns[d]
      BY <1>0, <2>1, <2>2, <3>2 DEF Clean, ConnType
    <3> QED BY <1>8, <3>1, <3>2 DEF PingKeeps
  <2> HIDE DEF c
  <2> QED BY <1>3, <2>1, <2>3 DEF c
<1> QED BY <1>5, <1>6, <1>7, <1>8

LEMMA NetworkAnswers ==
  ASSUME AnswersInv, ConnInv',
         Tick \/ (\E c \in Conns : Arrives(c) \/ Down(c) \/ Collect(c))
  PROVE  AnswersInv'
<1>0. conns \in [Conns -> ConnType] /\ Owned \subseteq Conns
  <2>1. /\ send \in [Reports -> SendType] /\ ping.conn \in Conns \cup {Nobody}
        /\ In(pool) \subseteq Conns /\ conns \in [Conns -> ConnType]
    BY Types, InConns DEF AnswersInv, ConnInv
  <2> QED BY <2>1 DEF Owned, Pooled, Sending, In, SendType
<1>1. UNCHANGED <<send, ping, pool, rspchan>>
  BY DEF Tick, Arrives, Down, Collect
<1>2. ASSUME NEW c \in Conns, Arrives(c) PROVE AnswersInv'
  <2>1. \A d \in Owned :
          /\ Clean(conns[d]) => Clean(conns'[d])
          /\ \A r \in Reports : UnderWay(conns[d], r) => UnderWay(conns'[d], r)
    BY <1>0, <1>2, ArriveWires
  <2> QED BY <1>1, <2>1, SameWires
<1>3. ASSUME NEW c \in Conns, Down(c) PROVE AnswersInv'
  <2>1. /\ conns'[c].owed = <<>> /\ conns'[c].in = conns[c].in
        /\ conns'[c].astray = conns[c].astray
        /\ \A d \in Conns \ {c} : conns'[d] = conns[d]
    BY <1>0, <1>3 DEF Down, ConnType
  <2>2. /\ Clean(conns[c]) => Clean(conns'[c])
        /\ \A r \in Reports : UnderWay(conns[c], r) => UnderWay(conns'[c], r)
    BY <2>1 DEF Clean, UnderWay
  <2> QED BY <1>0, <1>1, <2>1, <2>2, SameWires
<1>4. ASSUME NEW c \in Conns, Collect(c) PROVE AnswersInv'
  <2>1. \A d \in Owned : conns'[d] = conns[d]
    BY <1>0, <1>4 DEF Collect, Shut
  <2> QED BY <1>1, <2>1, SameWires
<1>5. CASE Tick
  <2>1. \A d \in Conns : Alike(conns'[d], conns[d])
    BY <1>0, <1>5 DEF Tick, Alike, ConnType
  <2> QED BY <1>0, <1>1, <2>1, AlikeWires, SameWires
<1> QED BY <1>2, <1>3, <1>4, <1>5

LEMMA AnswersStep == AnswersInv /\ [Next]_vars => AnswersInv'
<1> SUFFICES ASSUME AnswersInv, [Next]_vars PROVE AnswersInv'  OBVIOUS
<1>1. ConnInv'  BY ConnStep DEF AnswersInv
<1>2. ASSUME NEW r \in Reports,
             Refused(r) \/ Acquire(r) \/ AcquireNew(r) \/ Dials(r) \/ Reads(r)
      PROVE  AnswersInv'
  BY <1>1, <1>2, SendAnswers
<1>3. CASE PingStart \/ PingTakes \/ PingEOF \/ PingKeeps
  BY <1>1, <1>3, PingAnswers
<1>4. CASE Tick \/ (\E c \in Conns : Arrives(c) \/ Down(c) \/ Collect(c))
  BY <1>1, <1>4, NetworkAnswers
<1>5. CASE UNCHANGED vars
  <2>1. UNCHANGED <<send, ping, pool, rspchan>> /\ conns' = conns
    BY <1>5 DEF vars
  <2> QED BY <1>1, <2>1, SameWires
<1> QED BY <1>2, <1>3, <1>4, <1>5 DEF Next

\* What TCPSend offers is the answer of its own report, but after a part of an
\* answer was read for a whole (pool.go 102-126, master.go 88-131).
THEOREM AnswersOfReportHolds == Spec => []AnswersOfReport
<1>1. AnswersInv => AnswersOfReport  BY DEF AnswersInv, AnswersOfReport, Offered
<1> QED BY <1>1, InitAnswers, AnswersStep, PTL DEF Spec
=============================================================================
