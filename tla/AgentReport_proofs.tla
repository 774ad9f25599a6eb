------------------------- MODULE AgentReport_proofs -------------------------
(***************************************************************************)
(* Proofs about the reporting goroutine of QuaAgent, for every set of      *)
(* keys, every timing and every capacity that AgentReport admits.          *)
(***************************************************************************)
EXTENDS AgentReport, FluxTime_proofs, SequenceTheorems

\* Counting a request in a slot gives a slot.
LEMMA CountType ==
  ASSUME NEW s \in SlotType, NEW d \in RequestType, now \in Nat
  PROVE  Count(s, d) \in SlotType
<1>1. TimeKey(now) \in Nat  BY TimeKeyBounds
<1>2. NoSlot \in SlotType  BY DEF NoSlot, SlotType
<1>3. ASSUME NEW old \in SlotType PROVE Counted(old, d) \in SlotType
  BY <1>1 DEF Counted, SlotType
<1> QED BY <1>2, <1>3 DEF Count

LEMMA NoSlotType == NoSlot \in SlotType
  BY DEF NoSlot, SlotType

LEMMA NoQuotaType == NoQuota \in QuotaType
  BY CapacityAssumption DEF NoQuota, QuotaType

\* An answer gives a key quotas, the mean of the last ones among them.
LEMMA NewQuotaType ==
  ASSUME NEW q \in QuotaType, NEW a \in Answers
  PROVE  NewQuota(q, a) \in QuotaType
<1> DEFINE i == q.index + 1
           arr == [q.qarray EXCEPT ![i % QuotaArrayNum] = a.localq]
           wnum == GetPositiveData(a.totalworkernum, q.totalworkernum)
           squo == GetPositiveData(a.setquota, q.setquota)
           ssum == GetPositiveData(a.setsum, q.setsum)
           pquo == GetPositiveData(a.procquota, q.procquo)
           mean == GetAverQ(arr)
           share == EvenShare(a.totalq, wnum)
           setshare == EvenShare(squo, wnum)
<1>1. /\ a.localq \in Nat /\ a.totalworkernum \in Nat /\ a.totalq \in Nat
      /\ a.setquota \in Nat /\ a.setsum \in Nat /\ a.procquota \in Nat
  BY AnswersAssumption
<1>2. i \in Nat  BY DEF QuotaType
<1>3. arr \in [0 .. QuotaArrayNum - 1 -> Nat]
  BY <1>1 DEF QuotaType
<1>4. mean \in Nat
  <2> HIDE DEF arr
  <2> QED BY <1>3, CapacityAssumption, MeanType DEF GetAverQ
<1>5. wnum \in Nat /\ squo \in Nat /\ ssum \in Nat /\ pquo \in Nat
  BY <1>1 DEF GetPositiveData, QuotaType
<1>6. \A x, y \in Nat : EvenShare(x, y) \in Nat
  <2>1. \A x, y \in Nat : y > 0 => x \div y \in Nat  BY DivMod
  <2> QED BY <2>1 DEF EvenShare
<1>7. share \in Nat /\ setshare \in Nat
  <2> HIDE DEF wnum, squo
  <2> QED BY <1>1, <1>5, <1>6
<1>8. NewQuota(q, a) =
        [index |-> i, qarray |-> arr, localquotaver |-> mean,
         localquota |-> a.localq, totalworkernum |-> wnum,
         totalquota |-> a.totalq, setquota |-> squo, setsum |-> ssum,
         procquo |-> pquo, averq |-> share, paverq |-> setshare]
  BY Zenon DEF NewQuota
<1> HIDE DEF i, arr, wnum, squo, ssum, pquo, mean, share, setshare
<1> QED BY <1>1, <1>2, <1>3, <1>4, <1>5, <1>7, <1>8 DEF QuotaType

LEMMA RspDataType ==
  ASSUME NEW k \in Keys, NEW q \in QuotaType, NEW t \in Nat
  PROVE  /\ RspData(k, q, t) \in QuotaMsg
         /\ RspData(k, q, t).key = k /\ RspData(k, q, t).updatetime = t
BY DEF RspData, QuotaType, QuotaMsg

LEMMA InitType == Init => TypeOK
<1> SUFFICES ASSUME Init PROVE TypeOK  OBVIOUS
<1>1. <<>> \in Seq(RequestType) /\ <<>> \in Seq(AnswerType)
      /\ <<>> \in Seq(QuotaMsg)
  OBVIOUS
<1>3. [k \in Keys |-> NoQuota] \in [Keys -> QuotaType]  BY NoQuotaType
<1>2. [i \in Slots |-> NoSlot] \in [Slots -> SlotType]  BY NoSlotType
<1> QED
  BY <1>1, <1>2, <1>3, StartAssumption, CapacityAssumption DEF Init, TypeOK

\* Every step keeps the types.
LEMMA StepType == TypeOK /\ [Next]_vars => TypeOK'
<1> SUFFICES ASSUME TypeOK, [Next]_vars PROVE TypeOK'  OBVIOUS
<1> USE DEF TypeOK
<1>1. ASSUME TakeAnswer PROVE rspchan' \in Seq(AnswerType)
                              /\ drained' \in 0 .. DrainMax
  BY <1>1, HeadTailProperties, CapacityAssumption DEF TakeAnswer
<1>2. CASE DiscardGarbled
  BY <1>1, <1>2 DEF DiscardGarbled, TakeAnswer, local, history
<1>3. ASSUME NEW k \in Keys, DiscardLate(k) PROVE TypeOK'
  BY <1>1, <1>3 DEF DiscardLate, TakeAnswer
<1>4. ASSUME NEW k \in Keys, AcceptAnswer(k) PROVE TypeOK'
  <2>1. /\ lock' \in [Keys -> {0, 1}]
        /\ sendtime' \in [Keys -> Nat]
        /\ updatetime' \in [Keys -> Nat]
        /\ accepts' \in [Keys -> Nat]
    <3>1. /\ lock' = [lock EXCEPT ![k] = 0]
          /\ sendtime' = [sendtime EXCEPT ![k] = 0]
          /\ updatetime' = [updatetime EXCEPT ![k] = now]
          /\ accepts' = [accepts EXCEPT ![k] = @ + 1]
      BY ONLY <1>4 DEF AcceptAnswer, Unlock
    <3>2. /\ now \in Nat /\ lock \in [Keys -> {0, 1}]
          /\ sendtime \in [Keys -> Nat] /\ updatetime \in [Keys -> Nat]
          /\ accepts \in [Keys -> Nat]
      OBVIOUS
    <3>3. accepts[k] + 1 \in Nat  BY ONLY <3>2, k \in Keys
    <3> QED BY ONLY <3>1, <3>2, <3>3, k \in Keys
  <2>2. UNCHANGED <<now, pc, workerchan, inflight, offers, timesum, sends,
                    lastsend, late, reported>>
    BY <1>4 DEF AcceptAnswer, TakeAnswer
  <2>3. rspchan' \in Seq(AnswerType) /\ drained' \in 0 .. DrainMax
    BY <1>1, <1>4 DEF AcceptAnswer
  <2>4. Head(rspchan) \in AnswerType
    BY <1>4, HeadTailProperties DEF AcceptAnswer, TakeAnswer
  <2>5. Head(rspchan).body \in Answers
    BY <1>4, <2>4 DEF AcceptAnswer, AnswerType
  <2>6. quota' = [quota EXCEPT ![k] = NewQuota(quota[k], Head(rspchan).body)]
    BY <1>4 DEF AcceptAnswer
  <2>7. quota' \in [Keys -> QuotaType]
    BY <2>5, <2>6, NewQuotaType
  <2>8. RspData(k, quota'[k], now) \in QuotaMsg
    BY <2>7, RspDataType
  <2>9. quotachan' \in Seq(QuotaMsg)
    BY <1>4, <2>8, AppendProperties DEF AcceptAnswer
  <2> QED BY <2>1, <2>2, <2>3, <2>7, <2>9
<1>5. CASE DrainDone
  BY <1>5, CapacityAssumption DEF DrainDone, local, history
<1>6. ASSUME NEW k \in Keys, HandleRequest(k) PROVE TypeOK'
  <2>1. workerchan' \in Seq(RequestType) /\ Head(workerchan) \in RequestType
    BY <1>6, HeadTailProperties DEF HandleRequest
  <2>2. SlotIndex(now) \in Slots  BY SlotIndexInRing
  <2>3. Count(timesum[k][SlotIndex(now)], Head(workerchan)) \in SlotType
    BY <2>1, <2>2, CountType
  <2>4. timesum' \in [Keys -> [Slots -> SlotType]]
    BY <1>6, <2>2, <2>3 DEF HandleRequest
  <2>5. CASE SendReport(k)
    <3>1. {timesum'[k][i] : i \in {j \in Slots : timesum'[k][j].timekey > 0}}
            \in SUBSET SlotType
      BY <2>4
    <3>2. inflight' \subseteq ReportType
      BY <2>5, <3>1 DEF SendReport, ReportType
    <3>3. /\ lock' \in [Keys -> {0, 1}]
          /\ sendtime' \in [Keys -> Nat]
          /\ sends' \in [Keys -> Nat]
          /\ lastsend' \in [Keys -> Nat]
          /\ accepts' \in [Keys -> Nat]
      <4>1. lock' \in [Keys -> {0, 1}]  BY <2>5 DEF SendReport
      <4>2. sendtime' \in [Keys -> Nat]  BY <2>5 DEF SendReport
      <4>3. sends' \in [Keys -> Nat]  BY <2>5 DEF SendReport
      <4>4. lastsend' \in [Keys -> Nat]  BY <2>5 DEF SendReport
      <4>5. accepts' \in [Keys -> Nat]  BY <2>5 DEF SendReport
      <4> QED BY <4>1, <4>2, <4>3, <4>4, <4>5
    <3>4. timesum'[k] \in [Slots -> SlotType]  BY <2>4
    <3>5. reported' \in [Keys -> [Slots -> SlotType]]
      BY <2>5, <3>4 DEF SendReport
    <3>6. updatetime' \in [Keys -> Nat] /\ pc' \in {"drain", "wait"}
      BY <1>6 DEF HandleRequest
    <3>7. UNCHANGED <<now, drained, rspchan, offers, late, quota, quotachan>>
      BY <1>6 DEF HandleRequest
    <3> QED BY <2>1, <2>4, <3>2, <3>3, <3>5, <3>6, <3>7
  <2>6. CASE KeepReport(k)
    BY <1>6, <2>1, <2>4, <2>6 DEF KeepReport, HandleRequest
  <2> QED BY <1>6, <2>5, <2>6 DEF HandleRequest
<1>7. ASSUME NEW m \in inflight, SendFails(m) PROVE TypeOK'
  BY <1>7 DEF SendFails, local, history
<1>8. ASSUME NEW m \in inflight, SendAnswered(m) PROVE TypeOK'
  <2>1. m.key \in Keys  BY DEF ReportType
  <2>2. PICK a \in Answers \cup {Garbled} :
          rspchan' = IF Len(rspchan) < RspCap
                     THEN Append(rspchan, [key |-> m.key, body |-> a])
                     ELSE rspchan
    BY <1>8 DEF SendAnswered
  <2>3. [key |-> m.key, body |-> a] \in AnswerType  BY <2>1 DEF AnswerType
  <2>4. rspchan' \in Seq(AnswerType)
    BY <2>2, <2>3, AppendProperties
  <2> QED BY <1>8, <2>4 DEF SendAnswered, local, history
<1>9. ASSUME NEW k \in Keys, NEW v \in Verdicts, Offer(k, v) PROVE TypeOK'
  <2>1. [key |-> k, qret |-> v.qret, sret |-> v.sret] \in RequestType
    BY DEF Verdicts, RequestType
  <2>2. workerchan' \in Seq(RequestType)
    BY <1>9, <2>1, AppendProperties DEF Offer
  <2> QED BY <1>9, <2>2 DEF Offer, local, history
<1>10. CASE TakeQuota
  BY <1>10 DEF TakeQuota, local, history
<1>11. CASE Tick
  BY <1>11 DEF Tick, local, history
<1>12. CASE UNCHANGED vars
  BY <1>12 DEF vars, local, history
<1> QED
  BY <1>2, <1>3, <1>4, <1>5, <1>6, <1>7, <1>8, <1>9, <1>10, <1>11, <1>12
  DEF Next, Loop, Network, Worker

\* The loop's state keeps its types.
THEOREM TypeCorrect == Spec => []TypeOK
<1>1. Init => TypeOK  BY InitType
<1>2. TypeOK /\ [Next]_vars => TypeOK'  BY StepType
<1> QED BY <1>1, <1>2, PTL DEF Spec

-----------------------------------------------------------------------------
(***************************************************************************)
(* The lease of a key's report.  LeaseInv relates the timer, Sendtime, to  *)
(* the lock and to the history of the key: a running timer is that of the  *)
(* last report, of which no answer was accepted yet, and belongs to a held *)
(* lock; a free lock means that the last report was answered.              *)
(***************************************************************************)
KeyInv(k) ==
  /\ lastsend[k] <= now /\ updatetime[k] <= now
  /\ lock[k] = 0 => sendtime[k] = 0 /\ lastsend[k] <= updatetime[k]
  /\ sendtime[k] > 0 => sendtime[k] = lastsend[k]
  /\ sendtime[k] > 0 => accepts[k] = 0
  /\ lock[k] = 1 /\ sendtime[k] = 0 => late[k]
  /\ accepts[k] <= 1

LeaseInv == TypeOK /\ now >= Start /\ \A k \in Keys : KeyInv(k)

LEMMA InitLease == Init => LeaseInv
<1> SUFFICES ASSUME Init PROVE LeaseInv  OBVIOUS
<1>1. TypeOK  BY InitType
<1>2. ASSUME NEW k \in Keys PROVE KeyInv(k)
  BY StartAssumption DEF Init, KeyInv
<1> QED BY <1>1, <1>2, StartAssumption DEF LeaseInv, Init

\* The invariant of one key depends on that key's fields and the clock only.
LEMMA OtherKey ==
  ASSUME TypeOK, NEW k \in Keys, KeyInv(k), now' = now,
         lock'[k] = lock[k], sendtime'[k] = sendtime[k],
         updatetime'[k] = updatetime[k], lastsend'[k] = lastsend[k],
         sends'[k] = sends[k], accepts'[k] = accepts[k], late'[k] = late[k]
  PROVE  KeyInv(k)'
BY DEF KeyInv

\* A step of the loop on key k keeps the invariant of every key.
LEMMA StepLease == LeaseInv /\ [Next]_vars => LeaseInv'
<1> SUFFICES ASSUME LeaseInv, [Next]_vars PROVE LeaseInv'  OBVIOUS
<1> USE DEF LeaseInv
<1>0. TypeOK /\ TypeOK'  BY StepType
<1>t. now \in Nat /\ now' \in Nat  BY <1>0 DEF TypeOK
<1>1. ASSUME NEW k \in Keys, DiscardLate(k) PROVE LeaseInv'
  <2>1. now' = now  BY <1>1 DEF DiscardLate, TakeAnswer
  <2>2. ASSUME NEW j \in Keys, j # k PROVE KeyInv(j)'
    BY <1>1, <2>1, <2>2, OtherKey DEF DiscardLate, TypeOK
  <2>3. KeyInv(k)'
    BY <1>1, <2>1 DEF DiscardLate, KeyInv, TypeOK, Known
  <2> QED BY <1>0, <2>1, <2>2, <2>3
<1>2. ASSUME NEW k \in Keys, AcceptAnswer(k) PROVE LeaseInv'
  <2>1. now' = now  BY <1>2 DEF AcceptAnswer, TakeAnswer
  <2>2. ASSUME NEW j \in Keys, j # k PROVE KeyInv(j)'
    BY <1>2, <2>1, <2>2, OtherKey DEF AcceptAnswer, Unlock, TypeOK
  <2>3. sendtime[k] > 0
    BY <1>2, StartAssumption, TimingAssumption
    DEF AcceptAnswer, IsLate, TypeOK
  <2>4. KeyInv(k)'
    BY <1>2, <2>1, <2>3 DEF AcceptAnswer, Unlock, KeyInv, TypeOK
  <2> QED BY <1>0, <2>1, <2>2, <2>4
<1>3. ASSUME NEW k \in Keys, HandleRequest(k) PROVE LeaseInv'
  <2>1. now' = now /\ UNCHANGED late
    BY <1>3 DEF HandleRequest
  <2>2. ASSUME NEW j \in Keys, j # k PROVE KeyInv(j)'
    BY <1>3, <2>1, <2>2, OtherKey
    DEF HandleRequest, SendReport, KeepReport, TypeOK
  <2>3. ASSUME SendReport(k) PROVE KeyInv(k)'
    <3>1. /\ lock'[k] = 1 /\ sendtime'[k] = now /\ lastsend'[k] = now
          /\ accepts'[k] = 0
      BY <2>3 DEF SendReport, TypeOK
    <3>2. updatetime'[k] = updatetime[k]
      BY <1>3, <2>3 DEF HandleRequest, SendReport, MaySend, Due, TypeOK
    <3>3. updatetime[k] <= now
      BY DEF KeyInv
    <3>4. updatetime[k] \in Nat
      BY DEF TypeOK
    <3>5. now > 0  BY <1>t, StartAssumption, TimingAssumption
    <3> QED BY <1>t, <2>1, <3>1, <3>2, <3>3, <3>4, <3>5 DEF KeyInv
  <2>4. ASSUME KeepReport(k) PROVE KeyInv(k)'
    BY <1>0, <1>3, <2>1, <2>4 DEF HandleRequest, KeepReport, KeyInv, TypeOK, Known
  <2>5. KeyInv(k)'
    BY <1>0, <1>3, <2>1, <2>3, <2>4 DEF HandleRequest
  <2> QED BY <1>0, <2>1, <2>2, <2>5
<1>4. CASE DiscardGarbled
  BY <1>0, <1>4 DEF DiscardGarbled, TakeAnswer, local, history, KeyInv
<1>5. CASE DrainDone
  BY <1>0, <1>5 DEF DrainDone, local, history, KeyInv
<1>6. CASE Network
  BY <1>0, <1>6 DEF Network, SendFails, SendAnswered, local, history, KeyInv
<1>7. CASE Worker
  <2>1. now' = now /\ UNCHANGED <<local, history>>
    BY <1>7 DEF Worker, Offer, TakeQuota
  <2> QED BY <1>0, <2>1 DEF local, history, KeyInv
<1>8. CASE Tick
  <2>1. now' = now + 1 /\ UNCHANGED <<local, history>>
    BY <1>8 DEF Tick
  <2>2. ASSUME NEW k \in Keys PROVE KeyInv(k)'
    <3>1. lastsend[k] \in Nat /\ updatetime[k] \in Nat  BY DEF TypeOK
    <3>2. lastsend[k] <= now + 1 /\ updatetime[k] <= now + 1
      BY <1>t, <3>1 DEF KeyInv
    <3> QED BY <2>1, <3>2 DEF KeyInv, local, history
  <2>3. now' >= Start  BY <1>t, <2>1, StartAssumption
  <2> QED BY <1>0, <2>2, <2>3
<1>9. CASE UNCHANGED vars
  BY <1>0, <1>9 DEF vars, local, history, KeyInv
<1> QED
  BY <1>1, <1>2, <1>3, <1>4, <1>5, <1>6, <1>7, <1>8, <1>9 DEF Next, Loop

LEMMA LeaseInvariant == Spec => []LeaseInv
<1>1. Init => LeaseInv  BY InitLease
<1>2. LeaseInv /\ [Next]_vars => LeaseInv'  BY StepLease
<1> QED BY <1>1, <1>2, PTL DEF Spec

\* After a report at most one answer is applied (quota.go, 52-87).
THEOREM AcceptsBounded == Spec => []OneAcceptPerSend
<1>1. LeaseInv => OneAcceptPerSend
  BY DEF LeaseInv, KeyInv, OneAcceptPerSend
<1> QED BY <1>1, LeaseInvariant, PTL

\* Only a late answer leaves a lock held without its timer (quota.go, 140-149).
THEOREM OnlyLateAnswersWedge == Spec => []StuckOnlyByLate
<1>1. LeaseInv => StuckOnlyByLate
  BY DEF LeaseInv, KeyInv, StuckOnlyByLate, TypeOK
<1> QED BY <1>1, LeaseInvariant, PTL

\* Reports of a key are ReportPeriod seconds apart (quota.go, 137-149): after
\* an answer because it was sent no earlier than the report, after a timeout
\* because the timeout is no shorter than the period.
LEMMA SendSpaced ==
  ASSUME LeaseInv, NEW k \in Keys, MaySend(k)
  PROVE  lastsend[k] = 0 \/ now - lastsend[k] >= ReportPeriod
<1>1. /\ now \in Nat /\ lastsend[k] \in Nat /\ sendtime[k] \in Nat
      /\ updatetime[k] \in Nat
  BY DEF LeaseInv, TypeOK
<1>2. CASE lock[k] = 0
  BY <1>1, <1>2, TimingAssumption DEF LeaseInv, KeyInv, MaySend, Due
<1>3. CASE Expired(k)
  BY <1>1, <1>3, TimingAssumption DEF LeaseInv, KeyInv, Expired
<1> QED BY <1>2, <1>3 DEF MaySend

\* Only HandleRequest sends, and only when it may.
LEMMA WhoSends ==
  ASSUME TypeOK, [Next]_vars, NEW k \in Keys, sends'[k] # sends[k]
  PROVE  MaySend(k)
<1>1. \E j \in Keys : HandleRequest(j) /\ SendReport(j)
  BY DEF Next, Loop, Network, Worker, vars, history, local, DiscardGarbled,
         DiscardLate, AcceptAnswer, DrainDone, HandleRequest, KeepReport,
         SendFails, SendAnswered, Offer, TakeQuota, Tick
<1> QED BY <1>1 DEF SendReport, TypeOK

\* The server is not asked more than once a ReportPeriod for a key.
THEOREM ReportsSpaced == Spec => SendsSpaced
<1>1. LeaseInv /\ [Next]_vars =>
        [\A k \in Keys : sends'[k] # sends[k] =>
           lastsend[k] = 0 \/ now - lastsend[k] >= ReportPeriod]_vars
  BY WhoSends, SendSpaced DEF LeaseInv
<1> QED BY <1>1, LeaseInvariant, PTL DEF Spec, SendsSpaced

\* A request that finds its key's report overdue sends a new one, unless an
\* answer of the key was late (quota.go, 139-149).
THEOREM RenewedWithoutLateAnswer == Spec => RenewedUnlessLate
<1>1. ASSUME LeaseInv, [Next]_vars, NEW k \in Keys, HandledKey(k), Overdue(k),
             ~late[k]
      PROVE  sends'[k] > sends[k]
  <2>1. HandleRequest(k)
    <3>1. pc # pc' /\ pc = "wait"  BY <1>1 DEF HandledKey
    <3>2. \E j \in Keys : HandleRequest(j)
      BY <1>1, <3>1
      DEF Next, Loop, Network, Worker, vars, DiscardGarbled, DiscardLate,
          AcceptAnswer, TakeAnswer, DrainDone, SendFails, SendAnswered, Offer,
          TakeQuota, Tick
    <3> QED BY <1>1, <3>2 DEF HandleRequest, HandledKey
  <2>2. MaySend(k)
    BY <1>1, StartAssumption
    DEF LeaseInv, KeyInv, Overdue, MaySend, Expired, TypeOK
  <2>3. SendReport(k)  BY <2>1, <2>2 DEF HandleRequest, KeepReport
  <2> QED BY <1>1, <2>3 DEF SendReport, LeaseInv, TypeOK
<1>2. LeaseInv /\ [Next]_vars =>
        [\A k \in Keys : HandledKey(k) /\ Overdue(k) /\ ~late[k]
                           => sends'[k] > sends[k]]_vars
  BY <1>1
<1> QED BY <1>2, LeaseInvariant, PTL DEF Spec, RenewedUnlessLate

-----------------------------------------------------------------------------
(***************************************************************************)
(* The loop implements ReportLease.                                        *)
(***************************************************************************)
Phase == [k \in Keys |-> IF lock[k] = 0 THEN "idle"
                         ELSE IF sendtime[k] > 0 THEN "out" ELSE "dead"]

PhaseOf(l, s) == IF l = 0 THEN "idle" ELSE IF s > 0 THEN "out" ELSE "dead"

\* The phases of the other keys stay, and that of k becomes what its new lock
\* and timer say.
LEMMA PhaseStep ==
  ASSUME TypeOK, TypeOK', NEW k \in Keys,
         \A j \in Keys \ {k} : lock'[j] = lock[j] /\ sendtime'[j] = sendtime[j]
  PROVE  Phase' = [Phase EXCEPT ![k] = PhaseOf(lock'[k], sendtime'[k])]
<1>1. Phase' = [j \in Keys |-> PhaseOf(lock'[j], sendtime'[j])]
  BY DEF Phase, PhaseOf
<1>2. Phase = [j \in Keys |-> PhaseOf(lock[j], sendtime[j])]
  BY DEF Phase, PhaseOf
<1> QED BY <1>1, <1>2

LEMMA LeaseStep ==
  LeaseInv /\ [Next]_vars => [Lease!LeaseNext]_(Lease!leaseVars)
<1> SUFFICES ASSUME LeaseInv, [Next]_vars
             PROVE  Lease!LeaseNext \/ UNCHANGED <<now, Phase, lastsend>>
  BY DEF Lease!leaseVars, Phase
<1>0. TypeOK /\ TypeOK' /\ LeaseInv'  BY StepLease DEF LeaseInv
<1>1. ASSUME NEW k \in Keys, DiscardLate(k)
      PROVE  Lease!LeaseNext \/ UNCHANGED <<now, Phase, lastsend>>
  <2>1. UNCHANGED <<now, lastsend, lock>>
        /\ sendtime' = [sendtime EXCEPT ![k] = 0]
    BY <1>1 DEF DiscardLate, TakeAnswer
  <2>0. /\ lock'[k] = lock[k] /\ sendtime'[k] = 0
        /\ \A j \in Keys \ {k} : lock'[j] = lock[j]
                                  /\ sendtime'[j] = sendtime[j]
    BY <1>0, <2>1 DEF TypeOK
  <2>p. Phase' = [Phase EXCEPT ![k] = PhaseOf(lock'[k], sendtime'[k])]
    BY <1>0, <2>0, PhaseStep
  <2>2. CASE Phase[k] = "out"
    <3>1. lock[k] = 1 /\ sendtime[k] > 0  BY <2>2, <1>0 DEF Phase, TypeOK
    <3>2. Phase' = [Phase EXCEPT ![k] = "dead"]
      BY <1>0, <2>0, <2>p, <3>1 DEF PhaseOf
    <3>3. now - lastsend[k] >= LateAfter
      BY <1>1, <3>1 DEF DiscardLate, IsLate, LeaseInv, KeyInv
    <3>4. Lease!Lose(k)
      BY <2>1, <2>2, <3>2, <3>3 DEF Lease!Lose, Phase
    <3> QED BY <3>4 DEF Lease!LeaseNext
  <2>3. CASE Phase[k] # "out"
    <3>1. Phase[k] = PhaseOf(lock'[k], sendtime'[k])
      BY <1>0, <2>0, <2>3 DEF Phase, PhaseOf, TypeOK
    <3>2. Phase' = Phase  BY <2>p, <3>1 DEF Phase
    <3> QED BY <2>1, <3>2
  <2> QED BY <2>2, <2>3
<1>2. ASSUME NEW k \in Keys, AcceptAnswer(k) PROVE Lease!LeaseNext
  <2>1. UNCHANGED <<now, lastsend>>  BY <1>2 DEF AcceptAnswer, TakeAnswer
  <2>2. sendtime[k] > 0
    BY <1>2, StartAssumption, TimingAssumption
    DEF AcceptAnswer, IsLate, LeaseInv, TypeOK
  <2>3. lock[k] = 1 /\ sendtime[k] = lastsend[k]
    BY <1>0, <2>2 DEF LeaseInv, KeyInv, TypeOK
  <2>4. Phase' = [Phase EXCEPT ![k] = "idle"]
    <3>1. /\ lock' = [lock EXCEPT ![k] = 0]
          /\ sendtime' = [sendtime EXCEPT ![k] = 0]
      BY ONLY <1>2 DEF AcceptAnswer, Unlock
    <3>2. lock \in [Keys -> {0, 1}] /\ sendtime \in [Keys -> Nat]
      BY ONLY <1>0 DEF TypeOK
    <3> QED BY ONLY <3>1, <3>2, k \in Keys DEF Phase
  <2>5. now - lastsend[k] < LateAfter
    <3>1. ~(now - lastsend[k] >= LateAfter)
      BY ONLY <1>2, <2>3 DEF AcceptAnswer, IsLate
    <3>2. now \in Nat /\ lastsend[k] \in Nat
      BY ONLY <1>0, k \in Keys DEF TypeOK
    <3> QED BY ONLY <3>1, <3>2, TimingAssumption
  <2>6. Phase[k] = "out"  BY <2>2, <2>3 DEF Phase
  <2>7. Lease!Accept(k)
    BY <2>1, <2>4, <2>5, <2>6 DEF Lease!Accept, Phase
  <2> QED BY <2>7 DEF Lease!LeaseNext
<1>3. ASSUME NEW k \in Keys, HandleRequest(k)
      PROVE  Lease!LeaseNext \/ UNCHANGED <<now, Phase, lastsend>>
  <2>1. now' = now  BY <1>3 DEF HandleRequest
  <2>2. CASE SendReport(k)
    <3>1. lastsend' = [lastsend EXCEPT ![k] = now]  BY <2>2 DEF SendReport
    <3>2. Phase' = [Phase EXCEPT ![k] = "out"]
      <4>1. /\ lock'[k] = 1 /\ sendtime'[k] = now
            /\ \A j \in Keys \ {k} : lock'[j] = lock[j]
                                      /\ sendtime'[j] = sendtime[j]
        BY <1>0, <2>2 DEF SendReport, TypeOK
      <4>2. now > 0
        BY <1>0, StartAssumption, TimingAssumption DEF LeaseInv, TypeOK
      <4> QED BY <1>0, <4>1, <4>2, PhaseStep DEF PhaseOf
    <3>3. lastsend[k] = 0 \/ now - lastsend[k] >= ReportPeriod
      BY <2>2, SendSpaced DEF SendReport
    <3>4. \/ Phase[k] = "idle"
          \/ Phase[k] = "out" /\ now - lastsend[k] > RetryAfter
      BY <1>0, <2>2
      DEF SendReport, MaySend, Expired, Phase, LeaseInv, KeyInv, TypeOK
    <3>5. Lease!Send(k)
      BY <2>1, <3>1, <3>2, <3>3, <3>4 DEF Lease!Send, Phase
    <3> QED BY <3>5 DEF Lease!LeaseNext
  <2>3. CASE KeepReport(k)
    BY <2>1, <2>3 DEF KeepReport, Phase
  <2> QED BY <1>3, <2>2, <2>3 DEF HandleRequest
<1>4. CASE Tick
  BY <1>4 DEF Tick, local, history, Phase, Lease!LeaseNext, Lease!Pass
<1>5. CASE DiscardGarbled
  BY <1>5 DEF DiscardGarbled, TakeAnswer, local, history, Phase
<1>6. CASE DrainDone
  BY <1>6 DEF DrainDone, local, history, Phase
<1>7. CASE Network
  BY <1>7 DEF Network, SendFails, SendAnswered, local, history, Phase
<1>8. CASE Worker
  BY <1>8 DEF Worker, Offer, TakeQuota, local, history, Phase
<1>9. CASE UNCHANGED vars
  BY <1>9 DEF vars, local, history, Phase
<1> QED
  BY <1>1, <1>2, <1>3, <1>4, <1>5, <1>6, <1>7, <1>8, <1>9 DEF Next, Loop

\* Whatever the queues, the ring and the network do, the reports of a key
\* follow the abstract lease (quota.go, 13-185).
THEOREM LeaseRefinement == Spec => ImplementsLease
<1>1. Init => Lease!LeaseInit
  BY DEF Init, Lease!LeaseInit
<1>2. LeaseInv /\ [Next]_vars => [Lease!LeaseNext]_(Lease!leaseVars)
  BY LeaseStep
<1> QED
  BY <1>1, <1>2, LeaseInvariant, PTL
  DEF Spec, ImplementsLease, Lease!LeaseSpec

-----------------------------------------------------------------------------
(***************************************************************************)
(* The quotas on their way to the worker.  Each is no later than the key's *)
(* Updatetime, and an answer is accepted only of a report that was sent    *)
(* after it.                                                               *)
(***************************************************************************)
OrderInv ==
  /\ \A i \in 1 .. Len(quotachan) :
       quotachan[i].updatetime <= updatetime[quotachan[i].key]
  /\ \A k \in Keys :
       sendtime[k] > 0 => updatetime[k] > 0 /\ updatetime[k] < sendtime[k]
  /\ \A i, j \in 1 .. Len(quotachan) :
       i < j /\ quotachan[i].key = quotachan[j].key
         => quotachan[i].updatetime < quotachan[j].updatetime

LEMMA OrderTypes ==
  ASSUME TypeOK
  PROVE  /\ now \in Nat /\ Len(quotachan) \in Nat
         /\ DOMAIN quotachan = 1 .. Len(quotachan)
         /\ \A i \in 1 .. Len(quotachan) :
              quotachan[i].key \in Keys /\ quotachan[i].updatetime \in Nat
         /\ \A k \in Keys : updatetime[k] \in Nat /\ sendtime[k] \in Nat
<1>1. quotachan \in Seq(QuotaMsg)  BY DEF TypeOK
<1>2. Len(quotachan) \in Nat /\ DOMAIN quotachan = 1 .. Len(quotachan)
  BY <1>1, LenProperties
<1>3. \A i \in 1 .. Len(quotachan) : quotachan[i] \in QuotaMsg
  BY <1>1, ElementOfSeq
<1> QED BY <1>2, <1>3 DEF TypeOK, QuotaMsg

\* A step that leaves quotachan alone and moves Updatetime forward.
LEMMA OrderStays ==
  ASSUME TypeOK, TypeOK', OrderInv, quotachan' = quotachan,
         \A k \in Keys : updatetime'[k] >= updatetime[k],
         \A k \in Keys : sendtime'[k] > 0 =>
                           updatetime'[k] > 0 /\ updatetime'[k] < sendtime'[k]
  PROVE  OrderInv'
<1>1. \A i \in 1 .. Len(quotachan) :
        /\ quotachan[i].key \in Keys /\ quotachan[i].updatetime \in Nat
        /\ quotachan[i].updatetime <= updatetime[quotachan[i].key]
  BY OrderTypes DEF OrderInv
<1>2. \A k \in Keys : updatetime[k] \in Nat /\ updatetime'[k] \in Nat
  BY DEF TypeOK
<1>3. \A i \in 1 .. Len(quotachan') :
        quotachan'[i].updatetime <= updatetime'[quotachan'[i].key]
  BY <1>1, <1>2
<1> QED BY <1>3 DEF OrderInv

LEMMA OrderAccept ==
  ASSUME LeaseInv, TypeOK', OrderInv, NEW k \in Keys, AcceptAnswer(k)
  PROVE  OrderInv'
<1> DEFINE m == RspData(k, quota'[k], now)
<1>0. TypeOK  BY DEF LeaseInv
<1>1. /\ updatetime' = [updatetime EXCEPT ![k] = now]
      /\ sendtime' = [sendtime EXCEPT ![k] = 0]
      /\ quotachan' = IF Len(quotachan) < QuotaCap THEN Append(quotachan, m)
                      ELSE quotachan
  BY Zenon DEF AcceptAnswer
<1>2. m \in QuotaMsg /\ m.key = k /\ m.updatetime = now
  <2>1. quota'[k] \in QuotaType  BY DEF TypeOK
  <2>2. now \in Nat  BY <1>0, OrderTypes
  <2> QED BY <2>1, <2>2, RspDataType
<1>3. sendtime[k] > 0
  <2>1. now \in Nat /\ now >= Start /\ sendtime[k] \in Nat
    BY <1>0, OrderTypes DEF LeaseInv
  <2>2. now - sendtime[k] < LateAfter
    BY <2>1, TimingAssumption DEF AcceptAnswer, IsLate
  <2> QED BY <2>1, <2>2, StartAssumption, TimingAssumption
<1>4. updatetime[k] < now
  <2>1. sendtime[k] <= now  BY <1>3 DEF LeaseInv, KeyInv
  <2> QED BY <1>0, <1>3, <2>1, OrderTypes DEF OrderInv
<1>5. /\ \A j \in Keys : updatetime'[j] = IF j = k THEN now ELSE updatetime[j]
      /\ \A j \in Keys : sendtime'[j] = IF j = k THEN 0 ELSE sendtime[j]
  BY <1>0, <1>1 DEF TypeOK
<1>6. CASE quotachan' = quotachan
  <2>1. \A j \in Keys : updatetime[j] \in Nat /\ sendtime[j] \in Nat
    BY ONLY <1>0, OrderTypes
  <2>2. now \in Nat  BY ONLY <1>0, OrderTypes
  <2>3. \A j \in Keys : updatetime'[j] >= updatetime[j]
    BY ONLY <1>4, <1>5, <2>1, <2>2
  <2>4. \A j \in Keys : sendtime[j] > 0 => updatetime[j] > 0 /\ updatetime[j] < sendtime[j]
    BY ONLY OrderInv DEF OrderInv
  <2>5. \A j \in Keys : sendtime'[j] > 0 =>
                            updatetime'[j] > 0 /\ updatetime'[j] < sendtime'[j]
    BY ONLY <1>5, <2>1, <2>2, <2>4
  <2> QED BY ONLY <1>0, <1>6, <2>3, <2>5, TypeOK', OrderInv, OrderStays
<1>7. CASE quotachan' = Append(quotachan, m)
  <2> HIDE DEF m
  <2> DEFINE n == Len(quotachan)
  <2>1. /\ Len(quotachan') = n + 1 /\ n \in Nat
        /\ \A i \in 1 .. n : quotachan'[i] = quotachan[i]
        /\ quotachan'[n + 1] = m
    <3>1. quotachan \in Seq(QuotaMsg)  BY <1>0 DEF TypeOK
    <3>2. Len(quotachan) \in Nat  BY <1>0, OrderTypes
    <3> QED BY <1>2, <1>7, <3>1, <3>2, AppendProperties
  <2>2. \A i \in 1 .. n : /\ quotachan[i].key \in Keys
                          /\ quotachan[i].updatetime \in Nat
                          /\ quotachan[i].updatetime <= updatetime[quotachan[i].key]
    BY <1>0, OrderTypes DEF OrderInv
  <2>3. \A i, j \in 1 .. n : i < j /\ quotachan[i].key = quotachan[j].key
                             => quotachan[i].updatetime < quotachan[j].updatetime
    BY DEF OrderInv
  <2>4. \A j \in Keys : updatetime[j] \in Nat /\ now \in Nat
    BY <1>0, OrderTypes
  <2> HIDE DEF n
  <2>5. \A i \in 1 .. n + 1 : i \in 1 .. n \/ i = n + 1  BY <2>1
  <2>6. \A i \in 1 .. n + 1 :
          quotachan'[i].updatetime <= updatetime'[quotachan'[i].key]
    BY <1>2, <1>4, <1>5, <2>1, <2>2, <2>4, <2>5
  <2>7. ASSUME NEW i \in 1 .. n + 1, NEW j \in 1 .. n + 1, i < j,
               quotachan'[i].key = quotachan'[j].key
        PROVE  quotachan'[i].updatetime < quotachan'[j].updatetime
    <3>1. i \in 1 .. n  BY <2>1, <2>7
    <3>2. CASE j \in 1 .. n  BY <2>1, <2>3, <2>7, <3>1, <3>2
    <3>3. CASE j = n + 1
      <4>1. quotachan'[i] = quotachan[i] /\ quotachan[i].key = k
        BY <1>2, <2>1, <2>7, <3>1, <3>3
      <4>2. quotachan[i].updatetime <= updatetime[k]  BY <2>2, <3>1, <4>1
      <4> QED BY <1>2, <1>4, <2>1, <2>2, <2>4, <3>1, <3>3, <4>1, <4>2
    <3> QED BY <2>5, <3>2, <3>3
  <2>8. \A j \in Keys : sendtime'[j] > 0 =>
                          updatetime'[j] > 0 /\ updatetime'[j] < sendtime'[j]
    BY <1>5 DEF OrderInv
  <2> QED BY <2>1, <2>6, <2>7, <2>8 DEF OrderInv
<1> QED BY <1>1, <1>6, <1>7

LEMMA OrderHandle ==
  ASSUME LeaseInv, TypeOK', OrderInv, NEW k \in Keys, HandleRequest(k)
  PROVE  OrderInv'
<1>0. TypeOK /\ now \in Nat /\ now > 0
  <2>1. TypeOK /\ now >= Start  BY DEF LeaseInv
  <2> QED BY <2>1, OrderTypes, StartAssumption, TimingAssumption
<1>1. /\ quotachan' = quotachan
      /\ updatetime' = [updatetime EXCEPT ![k] = IF Known(k) THEN @ ELSE now]
  BY DEF HandleRequest
<1>2. \A j \in Keys : /\ updatetime[j] \in Nat /\ sendtime[j] \in Nat
                      /\ sendtime[j] > 0 => updatetime[j] > 0
                                            /\ updatetime[j] < sendtime[j]
  BY <1>0, OrderTypes DEF OrderInv
<1>3. \A j \in Keys :
        updatetime'[j] = IF j = k /\ updatetime[k] = 0 THEN now ELSE updatetime[j]
  <2>1. updatetime = [j \in Keys |-> updatetime[j]]  BY <1>0 DEF TypeOK
  <2>2. Known(k) <=> updatetime[k] # 0  BY <1>2 DEF Known
  <2> QED BY <1>1, <2>1, <2>2
<1>4. \A j \in Keys : updatetime'[j] >= updatetime[j]
  BY <1>0, <1>2, <1>3
<1>5. CASE SendReport(k)
  <2>1. updatetime[k] > 0 /\ updatetime[k] < now
    BY <1>0, <1>2, <1>5, TimingAssumption DEF SendReport, MaySend, Due, Known
  <2>2. \A j \in Keys : sendtime'[j] = IF j = k THEN now ELSE sendtime[j]
    BY <1>0, <1>5 DEF SendReport, TypeOK
  <2>3. \A j \in Keys : sendtime'[j] > 0 =>
                          updatetime'[j] > 0 /\ updatetime'[j] < sendtime'[j]
    BY <1>2, <1>3, <2>1, <2>2
  <2> QED BY <1>0, <1>1, <1>4, <2>3, OrderStays
<1>6. CASE KeepReport(k)
  <2>1. sendtime' = sendtime  BY <1>6 DEF KeepReport
  <2>2. \A j \in Keys : sendtime'[j] > 0 =>
                          updatetime'[j] > 0 /\ updatetime'[j] < sendtime'[j]
    BY <1>2, <1>3, <2>1
  <2> QED BY <1>0, <1>1, <1>4, <2>2, OrderStays
<1> QED BY <1>5, <1>6 DEF HandleRequest

LEMMA OrderTaken ==
  ASSUME TypeOK, OrderInv, TakeQuota
  PROVE  OrderInv'
<1>1. /\ quotachan \in Seq(QuotaMsg) /\ quotachan # <<>>
      /\ quotachan' = Tail(quotachan) /\ UNCHANGED <<updatetime, sendtime>>
  BY DEF TakeQuota, TypeOK, local
<1>2. /\ Len(quotachan) \in Nat
      /\ Len(quotachan') = Len(quotachan) - 1
      /\ \A i \in 1 .. Len(quotachan') : quotachan'[i] = quotachan[i + 1]
  BY <1>1, HeadTailProperties, LenProperties
<1>3. \A i \in 1 .. Len(quotachan') : i + 1 \in 1 .. Len(quotachan)  BY <1>2
<1>4. \A i \in 1 .. Len(quotachan') :
        quotachan'[i].updatetime <= updatetime[quotachan'[i].key]
  BY <1>2, <1>3 DEF OrderInv
<1>5. \A i, j \in 1 .. Len(quotachan') :
        i < j /\ quotachan'[i].key = quotachan'[j].key
          => quotachan'[i].updatetime < quotachan'[j].updatetime
  <2>1. \A i, j \in 1 .. Len(quotachan) :
          i < j /\ quotachan[i].key = quotachan[j].key
            => quotachan[i].updatetime < quotachan[j].updatetime
    BY DEF OrderInv
  <2>2. ASSUME NEW i \in 1 .. Len(quotachan'), NEW j \in 1 .. Len(quotachan'),
               i < j, quotachan'[i].key = quotachan'[j].key
        PROVE  quotachan'[i].updatetime < quotachan'[j].updatetime
    <3>1. /\ i + 1 \in 1 .. Len(quotachan) /\ j + 1 \in 1 .. Len(quotachan)
          /\ quotachan'[i] = quotachan[i + 1] /\ quotachan'[j] = quotachan[j + 1]
      BY ONLY <1>2, <1>3, <2>2
    <3>2. i + 1 < j + 1  BY ONLY <1>2, <2>2
    <3> QED BY ONLY <2>1, <2>2, <3>1, <3>2
  <2> QED BY ONLY <2>2
<1> QED BY <1>1, <1>4, <1>5 DEF OrderInv

LEMMA OrderStep == LeaseInv /\ OrderInv /\ [Next]_vars => OrderInv'
<1> SUFFICES ASSUME LeaseInv, OrderInv, [Next]_vars PROVE OrderInv'  OBVIOUS
<1>0. TypeOK /\ TypeOK'  BY StepType DEF LeaseInv
<1>1. ASSUME NEW k \in Keys, DiscardLate(k) PROVE OrderInv'
  <2>1. /\ quotachan' = quotachan
        /\ \A j \in Keys : updatetime'[j] =
             IF j = k /\ ~(updatetime[k] > 0) THEN now ELSE updatetime[j]
        /\ \A j \in Keys : sendtime'[j] = IF j = k THEN 0 ELSE sendtime[j]
    BY <1>0, <1>1 DEF DiscardLate, Known, TypeOK
  <2>2. \A j \in Keys : updatetime'[j] >= updatetime[j]
    BY <1>0, <2>1, OrderTypes
  <2>3. \A j \in Keys : sendtime'[j] > 0 =>
                          updatetime'[j] > 0 /\ updatetime'[j] < sendtime'[j]
    BY <2>1 DEF OrderInv
  <2> QED BY <1>0, <2>1, <2>2, <2>3, OrderStays
<1>2. ASSUME NEW k \in Keys, AcceptAnswer(k) PROVE OrderInv'
  BY <1>0, <1>2, OrderAccept
<1>3. ASSUME NEW k \in Keys, HandleRequest(k) PROVE OrderInv'
  BY <1>0, <1>3, OrderHandle
<1>4. CASE TakeQuota  BY <1>0, <1>4, OrderTaken
<1>5. CASE UNCHANGED <<quotachan, updatetime, sendtime>>
  BY <1>5 DEF OrderInv
<1>6. CASE DiscardGarbled \/ DrainDone \/ Network \/ Tick \/ UNCHANGED vars
  BY <1>5, <1>6
  DEF DiscardGarbled, DrainDone, Network, SendFails, SendAnswered, Tick, vars, local
<1>7. ASSUME NEW k \in Keys, NEW v \in Verdicts, Offer(k, v) PROVE OrderInv'
  BY <1>5, <1>7 DEF Offer, local
<1> QED BY <1>1, <1>2, <1>3, <1>4, <1>6, <1>7 DEF Next, Loop, Worker

\* The worker receives the quotas of a key in the order of the answers, at most
\* one a second (quota.go, 72-85).
THEOREM QuotasAreInOrder == Spec => []QuotasInOrder
<1>1. Init => OrderInv  BY DEF Init, OrderInv
<1>2. LeaseInv /\ OrderInv /\ [Next]_vars => OrderInv'  BY OrderStep
<1>3. LeaseInv /\ OrderInv => QuotasInOrder
  BY OrderTypes DEF LeaseInv, OrderInv, QuotasInOrder
<1> QED BY <1>1, <1>2, <1>3, LeaseInvariant, PTL DEF Spec

-----------------------------------------------------------------------------
(***************************************************************************)
(* What is reported of a slot.  A slot is never ahead of the clock, so its *)
(* timekey goes up when it is used again, and its counts go up meanwhile.  *)
(***************************************************************************)
Grown(old, new) ==
  /\ new.timekey >= old.timekey
  /\ new.timekey = old.timekey => /\ new.sum >= old.sum
                                  /\ new.refuse >= old.refuse
                                  /\ new.setrefuse >= old.setrefuse

GrowInv ==
  \A k \in Keys, i \in Slots :
    /\ timesum[k][i].timekey <= TimeKey(now)
    /\ Grown(reported[k][i], timesum[k][i])

GrowStep == \A k \in Keys : \A i \in Slots : Grown(reported[k][i], reported'[k][i])

LEMMA GrownTransitive ==
  ASSUME NEW a \in SlotType, NEW b \in SlotType, NEW c \in SlotType,
         Grown(a, b), Grown(b, c)
  PROVE  Grown(a, c)
BY DEF Grown, SlotType

LEMMA GrownSelf == \A a \in SlotType : Grown(a, a)
BY DEF Grown, SlotType

LEMMA CountGrows ==
  ASSUME NEW s \in SlotType, NEW d \in RequestType, now \in Nat,
         s.timekey <= TimeKey(now)
  PROVE  Grown(s, Count(s, d)) /\ Count(s, d).timekey = TimeKey(now)
<1>1. TimeKey(now) \in Nat  BY TimeKeyBounds
<1>2. CASE s.timekey = TimeKey(now)
  BY <1>1, <1>2 DEF Count, Counted, Grown, SlotType
<1>3. CASE s.timekey # TimeKey(now)
  BY <1>1, <1>3 DEF Count, Counted, Grown, SlotType
<1> QED BY <1>2, <1>3

LEMMA GrowHandle ==
  ASSUME TypeOK, TypeOK', GrowInv, NEW k \in Keys, HandleRequest(k)
  PROVE  GrowInv' /\ GrowStep
<1> DEFINE n == SlotIndex(now)
           new == Count(timesum[k][n], Head(workerchan))
<1>1. n \in Slots /\ now \in Nat /\ now' = now
  BY SlotIndexInRing DEF TypeOK, HandleRequest
<1>2. Head(workerchan) \in RequestType
  BY HeadTailProperties DEF HandleRequest, TypeOK
<1>3. Grown(timesum[k][n], new) /\ new.timekey = TimeKey(now)
  BY <1>1, <1>2, CountGrows DEF TypeOK, GrowInv
<1>4. timesum' = [timesum EXCEPT ![k][n] = new]
  BY DEF HandleRequest
<1> HIDE DEF n, new
<1>5. \A j \in Keys, i \in Slots :
        timesum'[j][i] = IF j = k /\ i = n THEN new ELSE timesum[j][i]
  BY <1>1, <1>4 DEF TypeOK
<1>6. \A j \in Keys, i \in Slots : /\ timesum[j][i] \in SlotType
                                   /\ timesum'[j][i] \in SlotType
                                   /\ reported[j][i] \in SlotType
  BY DEF TypeOK
<1>7. \A j \in Keys, i \in Slots : Grown(timesum[j][i], timesum'[j][i])
  BY <1>3, <1>5, <1>6, GrownSelf
<1>8. \A j \in Keys, i \in Slots : Grown(reported[j][i], timesum'[j][i])
  BY <1>6, <1>7, GrownTransitive DEF GrowInv
<1>9. \A j \in Keys, i \in Slots : timesum'[j][i].timekey <= TimeKey(now)
  <2>1. TimeKey(now) \in Nat  BY <1>1, TimeKeyBounds
  <2>2. \A j \in Keys, i \in Slots : timesum[j][i].timekey <= TimeKey(now)
    BY DEF GrowInv
  <2> QED BY <1>3, <1>5, <2>1, <2>2
<1>10. \A j \in Keys, i \in Slots : reported'[j][i] \in {reported[j][i], timesum'[j][i]}
  <2>1. CASE SendReport(k)  BY <2>1 DEF SendReport, TypeOK
  <2>2. CASE KeepReport(k)  BY <2>2 DEF KeepReport
  <2> QED BY <2>1, <2>2 DEF HandleRequest
<1>11. GrowStep  BY <1>6, <1>8, <1>10, GrownSelf DEF GrowStep
<1>12. \A j \in Keys, i \in Slots : Grown(reported'[j][i], timesum'[j][i])
  BY <1>6, <1>8, <1>10, GrownSelf
<1>13. GrowInv'  BY <1>1, <1>9, <1>12 DEF GrowInv
<1> QED BY <1>11, <1>13

LEMMA GrowNext == TypeOK /\ GrowInv /\ [Next]_vars => GrowInv' /\ [GrowStep]_vars
<1> SUFFICES ASSUME TypeOK, GrowInv, [Next]_vars
             PROVE  GrowInv' /\ [GrowStep]_vars
  OBVIOUS
<1>0. TypeOK'  BY StepType
<1>1. ASSUME NEW k \in Keys, HandleRequest(k) PROVE GrowInv' /\ [GrowStep]_vars
  BY <1>0, <1>1, GrowHandle
<1>2. CASE UNCHANGED <<timesum, reported>> /\ now' \in {now, now + 1}
  <2>1. now \in Nat /\ now + 1 \in Nat /\ now <= now + 1  BY DEF TypeOK
  <2>2. TimeKey(now) <= TimeKey(now') /\ TimeKey(now) \in Nat /\ TimeKey(now') \in Nat
    <3>1. now' \in Nat /\ now <= now'  BY <1>2, <2>1
    <3> QED BY <2>1, <3>1, TimeKeyMonotone, TimeKeyBounds
  <2>3. \A k \in Keys, i \in Slots : /\ timesum[k][i].timekey \in Nat
                                     /\ reported[k][i] \in SlotType
    BY DEF TypeOK, SlotType
  <2>4. GrowStep  BY <1>2, <2>3, GrownSelf DEF GrowStep
  <2>5. \A k \in Keys, i \in Slots : timesum[k][i].timekey <= TimeKey(now')
    BY <2>2, <2>3 DEF GrowInv
  <2>6. GrowInv'  BY <1>2, <2>5 DEF GrowInv
  <2> QED BY <2>4, <2>6
<1>3. CASE DiscardGarbled \/ DrainDone \/ Network \/ Worker
  BY <1>2, <1>3
  DEF DiscardGarbled, TakeAnswer, DrainDone, Network, SendFails, SendAnswered,
      Worker, Offer, TakeQuota, local, history
<1>4. ASSUME NEW k \in Keys, DiscardLate(k) \/ AcceptAnswer(k)
      PROVE  GrowInv' /\ [GrowStep]_vars
  BY <1>2, <1>4 DEF DiscardLate, AcceptAnswer, TakeAnswer
<1>5. CASE Tick  BY <1>2, <1>5 DEF Tick, local, history
<1>6. CASE UNCHANGED vars  BY <1>6 DEF vars, local, history, GrowInv
<1> QED BY <1>1, <1>3, <1>4, <1>5, <1>6 DEF Next, Loop

\* What is reported of a slot only grows, unless the slot is used again (quota.go,
\* 111-135 and 164-176).
THEOREM ReportsGrow == Spec => ReportsCumulative
<1>1. Init => TypeOK /\ GrowInv
  <2> SUFFICES ASSUME Init PROVE GrowInv  BY InitType
  <2>1. \A k \in Keys, i \in Slots : timesum[k][i] = NoSlot /\ reported[k][i] = NoSlot
    BY DEF Init
  <2>2. TimeKey(now) \in Nat  BY TimeKeyBounds, StartAssumption DEF Init
  <2> QED BY <2>1, <2>2, NoSlotType, GrownSelf DEF GrowInv, NoSlot
<1>2. TypeOK /\ GrowInv /\ [Next]_vars => (TypeOK /\ GrowInv)'
  BY StepType, GrowNext
<1>3. TypeOK /\ GrowInv /\ [Next]_vars => [GrowStep]_vars  BY GrowNext
<1>4. Spec => [][GrowStep]_vars  BY <1>1, <1>2, <1>3, PTL DEF Spec
<1> QED BY <1>4, Zenon DEF ReportsCumulative, GrowStep, Grown
=============================================================================
