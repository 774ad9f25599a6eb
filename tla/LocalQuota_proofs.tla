-------------------------- MODULE LocalQuota_proofs --------------------------
(***************************************************************************)
(* Proofs about LocalQuota: how far the requests passed for the set in a   *)
(* second can exceed its limit while calls wait for the quota server, that *)
(* the reports of a key are spaced and go one at a time, that a key keeps  *)
(* its limit, that ProcessByRefer does not divide by zero and that a slot  *)
(* counts exactly the requests of its time.                                *)
(***************************************************************************)
EXTENDS LocalQuota, FluxTime_proofs

-----------------------------------------------------------------------------
\* Types.

Quotas == [0 .. QuotaArrayNum - 1 -> Nat]
SlotType == [timekey : Nat, sum : Nat, refuse : Nat, setrefuse : Nat]
RingType == [Slots -> SlotType]

IsEntry(e) ==
  /\ e = [updatetime |-> e.updatetime, now |-> e.now, nowsum |-> e.nowsum,
          total |-> e.total, ver |-> e.ver, qarray |-> e.qarray,
          index |-> e.index, lock |-> e.lock, workers |-> e.workers,
          setquota |-> e.setquota, setsum |-> e.setsum,
          procquota |-> e.procquota, timesum |-> e.timesum]
  /\ e.updatetime \in Nat /\ e.now \in Nat /\ e.nowsum \in Nat
  /\ e.total \in Nat /\ e.ver \in Nat
  /\ e.qarray \in Quotas /\ e.index \in 0 .. QuotaArrayNum - 1
  /\ e.timesum \in RingType
  /\ e.workers \in Nat /\ e.setquota \in Nat
  /\ e.setsum \in Nat /\ e.procquota \in Nat

IsCall(c) ==
  /\ c = [key |-> c.key, ref |-> c.ref, sent |-> c.sent, pass |-> c.pass]
  /\ c.key \in Keys \union {NoKey}
  /\ c.ref \in Keys \union {NoKey}
  /\ c.sent \in Nat
  /\ c.pass \in BOOLEAN

\* The state is made of entries and calls.
Typed ==
  /\ now \in Nat /\ now <= MaxTime
  /\ local = [k \in Keys |-> local[k]]
  /\ \A k \in Keys : IsEntry(local[k])
  /\ call = [t \in Threads |-> call[t]]
  /\ \A t \in Threads : IsCall(call[t])
  /\ s_setsum \in Nat
  /\ setlimit \in Nat /\ setpasses \in Nat
  /\ reported \in [Keys -> Nat]

\* The parts of an entry that only a request of its key changes.
Kept(e, f) ==
  f.nowsum = e.nowsum /\ f.total = e.total /\ f.timesum = e.timesum

LEMMA NoEntryIsEntry == IsEntry(NoEntry) /\ NoEntry.updatetime = 0
  <1>1. NoQuotas \in Quotas
    BY DEF NoQuotas, Quotas
  <1>2. [i \in Slots |-> NoSlot] \in RingType
    BY DEF RingType, NoSlot, SlotType
  <1>3. 0 \in 0 .. QuotaArrayNum - 1
    BY LocalAssumption
  <1> QED
    BY <1>1, <1>2, <1>3 DEF IsEntry, NoEntry

LEMMA NoCallIsCall == IsCall(NoCall) /\ NoCall.key = NoKey
  BY DEF IsCall, NoCall

\* Counting keeps a ring of slots one.
LEMMA CountedIsRing ==
  ASSUME now \in Nat, NEW ring \in RingType, NEW over, NEW setover
  PROVE  Counted(ring, over, setover) \in RingType
  <1>1. SlotIndex(now) \in Slots /\ TimeKey(now) \in Nat
    BY SlotIndexInRing, TimeKeyBounds
  <1> DEFINE old == ring[SlotIndex(now)]
             slot == IF old.timekey = TimeKey(now) THEN old
                     ELSE [NoSlot EXCEPT !.timekey = TimeKey(now)]
             new == [slot EXCEPT !.sum = @ + One(~over), !.refuse = @ + One(over),
                                 !.setrefuse = @ + One(setover)]
  <1>2. old \in SlotType
    BY <1>1 DEF RingType
  <1>3. slot \in SlotType
    BY <1>1, <1>2 DEF NoSlot, SlotType
  <1>4. One(~over) \in Nat /\ One(over) \in Nat /\ One(setover) \in Nat
    BY DEF One
  <1>5. Counted(ring, over, setover) = [ring EXCEPT ![SlotIndex(now)] = new]
    BY Zenon DEF Counted
  <1> HIDE DEF slot
  <1> DEFINE a == slot.sum + One(~over)
             b == slot.refuse + One(over)
             c == slot.setrefuse + One(setover)
  <1>7. a \in Nat /\ b \in Nat /\ c \in Nat
    BY <1>3, <1>4 DEF SlotType
  <1>8. new = [slot EXCEPT !.sum = a, !.refuse = b, !.setrefuse = c]
    OBVIOUS
  <1> HIDE DEF new, a, b, c
  <1>6. new \in SlotType
    BY <1>3, <1>7, <1>8 DEF SlotType
  <1> QED
    BY <1>5, <1>6 DEF RingType

\* A request changes neither the quotas of the set nor the time of the answer.
LEMMA JudgedIsEntry ==
  ASSUME Typed, NEW k \in Keys, NEW total \in Totals
  PROVE  /\ IsEntry(Judged(k, total))
         /\ Judged(k, total).updatetime = local[k].updatetime
         /\ Judged(k, total).lock = IF Due(local[k]) THEN 1 ELSE local[k].lock
         /\ Judged(k, total).nowsum = NowSum(local[k])
         /\ Judged(k, total).total = total
         /\ Judged(k, total).timesum =
              Counted(local[k].timesum, Over(k, total), SetOver(k, total))
  <1> DEFINE e == local[k]
             now_ == NowSum(e)
             qarray_ == IF ~FirstOfSecond(e) /\ NoAnswerLong(e) THEN NoQuotas
                        ELSE e.qarray
             lock_ == IF Due(e) THEN 1 ELSE e.lock
             ring_ == Counted(e.timesum, Over(k, total), SetOver(k, total))
             total_ == Total(e, total)
  <1>1. Judged(k, total) =
          [e EXCEPT !.total = total_, !.now = now, !.nowsum = now_,
                    !.qarray = qarray_, !.lock = lock_, !.timesum = ring_]
    BY Zenon DEF Judged
  <1>2. IsEntry(e)
    BY DEF Typed
  <1>3. /\ lock_ = IF Due(local[k]) THEN 1 ELSE local[k].lock
        /\ now_ = NowSum(local[k])
        /\ total_ = total
        /\ ring_ = Counted(local[k].timesum, Over(k, total), SetOver(k, total))
    BY DEF Total
  <1>5. now_ \in Nat /\ now \in Nat
    BY <1>2 DEF IsEntry, NowSum, Typed
  <1>6. qarray_ \in Quotas
    BY <1>2 DEF IsEntry, NoQuotas, Quotas
  <1>7. ring_ \in RingType
    BY <1>2, <1>5, CountedIsRing DEF IsEntry
  <1>8. total_ \in Nat
    BY LocalAssumption DEF Total
  <1> HIDE DEF now_, qarray_, lock_, ring_, total_, e
  <1>4. /\ IsEntry(Judged(k, total))
        /\ Judged(k, total).updatetime = e.updatetime
        /\ Judged(k, total).lock = lock_
        /\ Judged(k, total).nowsum = now_
        /\ Judged(k, total).total = total_
        /\ Judged(k, total).timesum = ring_
    <2> DEFINE new == Judged(k, total)
    <2>1. IsEntry(new)
      <3>1. new = [e EXCEPT !.total = total_, !.now = now, !.nowsum = now_,
                            !.qarray = qarray_, !.lock = lock_, !.timesum = ring_]
        BY ONLY <1>1
      <3> HIDE DEF new
      <3>2. /\ new.updatetime = e.updatetime /\ new.now = now /\ new.nowsum = now_
            /\ new.total = total_ /\ new.ver = e.ver /\ new.qarray = qarray_
            /\ new.index = e.index /\ new.timesum = ring_ /\ new.workers = e.workers
            /\ new.setquota = e.setquota /\ new.setsum = e.setsum
            /\ new.procquota = e.procquota
        BY ONLY <3>1, <1>2 DEF IsEntry
      <3>3. new = [updatetime |-> new.updatetime, now |-> new.now, nowsum |-> new.nowsum,
                   total |-> new.total, ver |-> new.ver, qarray |-> new.qarray,
                   index |-> new.index, lock |-> new.lock, workers |-> new.workers,
                   setquota |-> new.setquota, setsum |-> new.setsum,
                   procquota |-> new.procquota, timesum |-> new.timesum]
        BY ONLY <3>1, <1>2 DEF IsEntry
      <3> QED BY ONLY <1>2, <1>5, <1>6, <1>7, <1>8, <3>2, <3>3 DEF IsEntry
    <2>2. new.updatetime = e.updatetime /\ new.lock = lock_ /\ new.nowsum = now_
      BY <1>1, <1>2 DEF IsEntry
    <2>3. new.total = total_ /\ new.timesum = ring_
      BY <1>1, <1>2 DEF IsEntry
    <2> QED BY <2>1, <2>2, <2>3
  <1> QED
    BY <1>3, <1>4 DEF e

LEMMA AdoptedIsEntry ==
  ASSUME NEW e, IsEntry(e), NEW a \in Answers
  PROVE  /\ IsEntry(Adopted(e, a))
         /\ Adopted(e, a).updatetime = e.updatetime
         /\ Adopted(e, a).lock = e.lock
         /\ Kept(e, Adopted(e, a))
  <1>1. /\ Given(a.workers, e.workers) \in Nat
        /\ Given(a.setquota, e.setquota) \in Nat
        /\ Given(a.setsum, e.setsum) \in Nat
        /\ Given(a.procquota, e.procquota) \in Nat
    BY LocalAssumption DEF IsEntry, Given
  <1> DEFINE ring == [e.qarray EXCEPT ![e.index] = a.localq]
             next == (e.index + 1) % QuotaArrayNum
             aver == GetAverQ(ring)
  <1>2. Adopted(e, a) =
          [e EXCEPT !.index = next, !.qarray = ring, !.ver = aver,
                    !.workers = Given(a.workers, e.workers),
                    !.setquota = Given(a.setquota, e.setquota),
                    !.setsum = Given(a.setsum, e.setsum),
                    !.procquota = Given(a.procquota, e.procquota)]
    BY Zenon DEF Adopted
  <1>3. ring \in Quotas
    BY LocalAssumption DEF IsEntry, Quotas
  <1>4. next \in 0 .. QuotaArrayNum - 1
    <2>1. e.index + 1 \in Nat
      BY DEF IsEntry
    <2> QED
      BY <2>1, LocalAssumption, DivMod
  <1>5. aver \in Nat
    BY <1>3, LocalAssumption, MeanType DEF GetAverQ, Quotas
  <1> HIDE DEF ring, next, aver
  <1> DEFINE w == Given(a.workers, e.workers)
             quota == Given(a.setquota, e.setquota)
             used == Given(a.setsum, e.setsum)
             proc == Given(a.procquota, e.procquota)
  <1>6. w \in Nat /\ quota \in Nat /\ used \in Nat /\ proc \in Nat
    BY <1>1
  <1>7. Adopted(e, a) =
          [e EXCEPT !.index = next, !.qarray = ring, !.ver = aver, !.workers = w,
                    !.setquota = quota, !.setsum = used, !.procquota = proc]
    BY <1>2
  <1> HIDE DEF w, quota, used, proc
  <1> DEFINE new == Adopted(e, a)
  <1> HIDE DEF new
  <1>8. new = [updatetime |-> e.updatetime, now |-> e.now, nowsum |-> e.nowsum,
               total |-> e.total, ver |-> aver, qarray |-> ring, index |-> next,
               lock |-> e.lock, workers |-> w, setquota |-> quota,
               setsum |-> used, procquota |-> proc, timesum |-> e.timesum]
    <2>1. e = [updatetime |-> e.updatetime, now |-> e.now, nowsum |-> e.nowsum,
               total |-> e.total, ver |-> e.ver, qarray |-> e.qarray,
               index |-> e.index, lock |-> e.lock, workers |-> e.workers,
               setquota |-> e.setquota, setsum |-> e.setsum,
               procquota |-> e.procquota, timesum |-> e.timesum]
      BY DEF IsEntry
    <2>2. new = [e EXCEPT !.index = next, !.qarray = ring, !.ver = aver, !.workers = w,
                          !.setquota = quota, !.setsum = used, !.procquota = proc]
      BY ONLY <1>7 DEF new
    <2> QED
      BY ONLY <2>1, <2>2
  <1>9. /\ e.updatetime \in Nat /\ e.now \in Nat /\ e.nowsum \in Nat
        /\ e.total \in Nat /\ e.timesum \in RingType
    BY DEF IsEntry
  <1>10. /\ IsEntry(new) /\ new.updatetime = e.updatetime /\ new.lock = e.lock
         /\ Kept(e, new)
    BY <1>3, <1>4, <1>5, <1>6, <1>8, <1>9 DEF IsEntry, Kept
  <1> QED
    BY <1>10 DEF new

\* The time of an answer and the lock given back.
LEMMA HeardIsEntry ==
  ASSUME NEW e, IsEntry(e), NEW s \in Nat
  PROVE  LET heard == [e EXCEPT !.updatetime = s, !.lock = 0]
         IN /\ IsEntry(heard) /\ heard.updatetime = s /\ heard.lock = 0
            /\ Kept(e, heard)
  <1> DEFINE timed == [e EXCEPT !.updatetime = s]
             heard == [timed EXCEPT !.lock = 0]
  <1>1. IsEntry(timed) /\ timed.updatetime = s /\ Kept(e, timed)
    BY DEF IsEntry, Kept
  <1> HIDE DEF timed
  <1>2. /\ IsEntry(heard) /\ heard.updatetime = s /\ heard.lock = 0
        /\ Kept(e, heard)
    BY <1>1 DEF IsEntry, Kept
  <1>3. heard = [e EXCEPT !.updatetime = s, !.lock = 0]
    BY Zenon DEF timed
  <1> QED
    BY <1>2, <1>3, Zenon

LEMMA SetLimitNat ==
  ASSUME NEW e, IsEntry(e)
  PROVE  SetLimit(e) \in Nat
  BY LocalAssumption DEF IsEntry, SetLimit, Unlimited

LEMMA TypedInit == Init => Typed
  <1> SUFFICES ASSUME Init PROVE Typed
    OBVIOUS
  <1>1. \A k \in Keys : local[k] = NoEntry
    BY DEF Init
  <1>2. \A t \in Threads : call[t] = NoCall
    BY DEF Init
  <1> QED
    BY <1>1, <1>2, NoEntryIsEntry, NoCallIsCall, LocalAssumption
    DEF Init, Typed

-----------------------------------------------------------------------------
\* What the actions do to the calls.

LEMMA CallsAfterCheck ==
  ASSUME Typed, NEW t \in Threads, NEW k \in Keys, NEW total \in Totals,
         CheckQuota(t, k, total)
  PROVE  /\ call' = [u \in Threads |-> call'[u]]
         /\ \A u \in Threads : IsCall(call'[u])
         /\ \A u \in Threads \ {t} : /\ call'[u].key = call[u].key
                                    /\ call'[u].pass = call[u].pass
         /\ \A u \in Threads \ {t} : (call[u].key = NoKey \/ call[u].ref # NoKey)
                                     => call'[u].ref = call[u].ref
         /\ Due(local[k]) => call'[t] = [key |-> k, ref |-> k, sent |-> now,
                                        pass |-> Passes(k, total)]
         /\ ~Due(local[k]) => call'[t] = NoCall
  <1>1. PICK reuse \in Reuse(k) :
          call' = [Rebound(k, reuse) EXCEPT
                     ![t] = IF Due(local[k])
                            THEN [key |-> k, ref |-> k, sent |-> now,
                                  pass |-> Passes(k, total)]
                            ELSE NoCall]
    BY Zenon DEF CheckQuota
  <1> DEFINE m == CHOOSE m \in Made(k) : TRUE
  <1>2. \A u \in reuse : u \in Waiting /\ call[u].ref = NoKey /\ m \in Keys
    <2>1. Made(k) \subseteq Keys
      BY LocalAssumption DEF Made
    <2> QED
      BY <2>1 DEF Reuse
  <1>3. Rebound(k, reuse) =
          [u \in Threads |-> IF u \in reuse
                             THEN [call[u] EXCEPT !.ref = m]
                             ELSE call[u]]
    BY Zenon DEF Rebound
  <1>4. \A u \in Threads \ {t} : call'[u] = Rebound(k, reuse)[u]
    BY <1>1, <1>3
  <1>5. call'[t] = IF Due(local[k])
                   THEN [key |-> k, ref |-> k, sent |-> now,
                         pass |-> Passes(k, total)]
                   ELSE NoCall
    BY <1>1, <1>3
  <1>6. IsCall(call'[t])
    <2>1. Passes(k, total) \in BOOLEAN
      BY DEF Passes, Over, SetOver
    <2>2. now \in Nat
      BY DEF Typed
    <2> QED
      BY <1>5, <2>1, <2>2, NoCallIsCall DEF IsCall
  <1> HIDE DEF m
  <1>7. ASSUME NEW u \in Threads \ {t}
        PROVE  /\ IsCall(call'[u])
               /\ call'[u].key = call[u].key
               /\ call'[u].pass = call[u].pass
               /\ (call[u].key = NoKey \/ call[u].ref # NoKey)
                    => call'[u].ref = call[u].ref
    <2>1. IsCall(call[u])
      BY DEF Typed
    <2>2. CASE u \in reuse
      <3>1. call'[u] = [call[u] EXCEPT !.ref = m]
        BY <1>3, <1>4, <2>2
      <3>2. m \in Keys /\ call[u].key # NoKey /\ call[u].ref = NoKey
        BY <1>2, <2>2 DEF Waiting
      <3> QED
        BY <2>1, <3>1, <3>2 DEF IsCall
    <2>3. CASE u \notin reuse
      BY <1>3, <1>4, <2>1, <2>3
    <2> QED
      BY <2>2, <2>3
  <1>8. call' = [u \in Threads |-> call'[u]]
    BY <1>1, <1>3
  <1> QED
    BY <1>5, <1>6, <1>7, <1>8

LEMMA CallsAfterReturn ==
  ASSUME Typed, NEW t \in Threads, Returns(t)
  PROVE  /\ call' = [u \in Threads |-> call'[u]]
         /\ \A u \in Threads : IsCall(call'[u])
         /\ \A u \in Threads \ {t} : call'[u] = call[u]
         /\ call'[t] = NoCall
  BY NoCallIsCall DEF Typed, Returns

LEMMA CallsAfterClear ==
  ASSUME Typed, ClearData
  PROVE  /\ call' = [u \in Threads |-> call'[u]]
         /\ \A u \in Threads : IsCall(call'[u])
         /\ \A u \in Threads : /\ call'[u].key = call[u].key
                                /\ call'[u].pass = call[u].pass
         /\ \A u \in Threads : dangled' \/ call'[u].ref = call[u].ref
  <1> DEFINE freed == {t \in Waiting :
                         call[t].ref \in {k \in known : Expired(k)}}
  <1>1. /\ call' = [t \in Threads |-> IF t \in freed
                                     THEN [call[t] EXCEPT !.ref = NoKey]
                                     ELSE call[t]]
        /\ dangled' = (dangled \/ freed # {})
    BY Zenon DEF ClearData
  <1> HIDE DEF freed
  <1>2. ASSUME NEW u \in Threads
        PROVE  /\ IsCall(call'[u])
               /\ call'[u].key = call[u].key
               /\ call'[u].pass = call[u].pass
               /\ dangled' \/ call'[u].ref = call[u].ref
    <2>1. IsCall(call[u])
      BY DEF Typed
    <2>2. CASE u \in freed
      BY <1>1, <2>1, <2>2 DEF IsCall
    <2>3. CASE u \notin freed
      BY <1>1, <2>1, <2>3
    <2> QED
      BY <2>2, <2>3
  <1> QED
    BY <1>1, <1>2

-----------------------------------------------------------------------------
\* The types are kept.

LEMMA TypedCheck ==
  ASSUME Typed, NEW t \in Threads, NEW k \in Keys, NEW total \in Totals,
         CheckQuota(t, k, total)
  PROVE  Typed'
  <1>1. /\ local' = [local EXCEPT ![k] = Judged(k, total)]
        /\ now' = now /\ reported' = reported
    BY DEF CheckQuota
  <1>2. local' = [j \in Keys |-> local'[j]] /\ \A j \in Keys : IsEntry(local'[j])
    BY <1>1, JudgedIsEntry DEF Typed
  <1>3. s_setsum' \in Nat /\ setpasses' \in Nat
    BY DEF CheckQuota, Recorded, SetSum, One, Typed
  <1>4. setlimit' \in Nat
    BY SetLimitNat DEF CheckQuota, Recorded, Typed
  <1> QED
    BY <1>1, <1>2, <1>3, <1>4, CallsAfterCheck DEF Typed

\* An answer or a failure leaves the entries entries, for whichever entry the
\* call refers to.
LEMMA WrittenTyped ==
  ASSUME Typed, NEW c, IsCall(c), NEW e, IsEntry(e)
  PROVE  /\ Written(c, e) = [j \in Keys |-> Written(c, e)[j]]
         /\ \A j \in Keys : IsEntry(Written(c, e)[j])
  BY DEF Typed, IsCall, Written

LEMMA TypedAnswered ==
  ASSUME Typed, NEW t \in Threads, NEW a \in Answers, Answered(t, a)
  PROVE  Typed'
  <1> DEFINE c == call[t]
             e == IF c.ref = NoKey THEN NoEntry ELSE local[c.ref]
             heard == [e EXCEPT !.updatetime = c.sent, !.lock = 0]
             new == IF a.localq > 0 THEN Adopted(heard, a) ELSE heard
  <1>1. IsCall(c) /\ c.key \in Keys
    BY DEF Typed, Answered, Returns, Waiting, IsCall
  <1>2. IsEntry(e)
    BY <1>1, NoEntryIsEntry DEF Typed, IsCall
  <1>3. local' = Written(c, new)
        /\ reported' = [reported EXCEPT ![c.key] = c.sent]
    BY Zenon DEF Answered
  <1>4. Returns(t)
    BY DEF Answered
  <1> HIDE DEF c, e
  <1>5. IsEntry(heard)
    <2>1. c.sent \in Nat
      BY <1>1 DEF IsCall
    <2> QED
      BY <1>2, <2>1, HeardIsEntry
  <1>6. IsEntry(new)
    BY <1>5, AdoptedIsEntry
  <1> HIDE DEF new
  <1>7. local' = [j \in Keys |-> local'[j]] /\ \A j \in Keys : IsEntry(local'[j])
    BY <1>1, <1>3, <1>6, WrittenTyped
  <1>8. reported' \in [Keys -> Nat]
    BY <1>1, <1>3 DEF Typed, IsCall
  <1>9. s_setsum' \in Nat /\ UNCHANGED <<now, setlimit, setpasses>>
    BY <1>4 DEF Returns, SumAfter, One, Typed
  <1> QED
    BY <1>4, <1>7, <1>8, <1>9, CallsAfterReturn DEF Typed

LEMMA TypedFails ==
  ASSUME Typed, NEW t \in Threads, Fails(t)
  PROVE  Typed'
  <1> DEFINE c == call[t]
             e == IF c.ref = NoKey THEN NoEntry ELSE local[c.ref]
             new == [e EXCEPT !.lock = 0]
  <1>1. IsCall(c)
    BY DEF Typed
  <1>2. IsEntry(e)
    BY <1>1, NoEntryIsEntry DEF Typed, IsCall
  <1>3. local' = Written(c, new) /\ reported' = reported
    BY Zenon DEF Fails
  <1>4. Returns(t)
    BY DEF Fails
  <1> HIDE DEF c, e
  <1>5. IsEntry(new)
    BY <1>2 DEF IsEntry
  <1> HIDE DEF new
  <1>6. local' = [j \in Keys |-> local'[j]] /\ \A j \in Keys : IsEntry(local'[j])
    BY <1>1, <1>3, <1>5, WrittenTyped
  <1>7. s_setsum' \in Nat /\ UNCHANGED <<now, setlimit, setpasses>>
    BY <1>4 DEF Returns, SumAfter, One, Typed
  <1> QED
    BY <1>3, <1>4, <1>6, <1>7, CallsAfterReturn DEF Typed

LEMMA TypedClear ==
  ASSUME Typed, ClearData
  PROVE  Typed'
  <1>1. local' = [k \in Keys |-> local'[k]] /\ \A k \in Keys : IsEntry(local'[k])
    BY NoEntryIsEntry DEF ClearData, Typed
  <1>2. UNCHANGED <<now, s_setsum, setlimit, setpasses, reported>>
    BY DEF ClearData, setvars
  <1>3. call' = [u \in Threads |-> call'[u]] /\ \A u \in Threads : IsCall(call'[u])
    BY CallsAfterClear
  <1> QED
    BY <1>1, <1>2, <1>3 DEF Typed

LEMMA TypedNext == Typed /\ [Next]_vars => Typed'
  <1> SUFFICES ASSUME Typed, [Next]_vars PROVE Typed'
    OBVIOUS
  <1>1. CASE Call
    BY <1>1, TypedCheck DEF Call
  <1>2. CASE Return
    BY <1>2, TypedAnswered, TypedFails DEF Return
  <1>3. CASE ClearData
    BY <1>3, TypedClear
  <1>4. CASE Tick
    <2>1. /\ now' = now + 1 /\ now < MaxTime
          /\ UNCHANGED <<local, call, s_setsum, setlimit, setpasses, reported>>
      BY <1>4 DEF Tick, setvars, history
    <2>2. now' \in Nat /\ now' <= MaxTime
      BY <2>1, LocalAssumption DEF Typed
    <2> QED
      BY <2>1, <2>2 DEF Typed
  <1>5. CASE UNCHANGED vars
    BY <1>5 DEF vars, setvars, history, Typed
  <1> QED
    BY <1>1, <1>2, <1>3, <1>4, <1>5 DEF Next

\* The types the proofs need hold in every reachable state.
THEOREM TypesCorrect == Spec => []Typed
  BY TypedInit, TypedNext, PTL DEF Spec

-----------------------------------------------------------------------------
\* The limit of the set.  What s_setsum does not count yet are the requests
\* that passed and whose calls wait.

Passing == {t \in Threads : call[t].key # NoKey /\ call[t].pass}

SetInv ==
  /\ setpasses <= s_setsum + Cardinality(Passing)
  /\ SetPassesWithinLimit

LEMMA PassingFinite ==
  /\ IsFiniteSet(Passing) /\ Cardinality(Passing) \in Nat
  /\ Cardinality(Threads) \in Nat
  <1>1. Passing \subseteq Threads
    BY DEF Passing
  <1> QED
    BY <1>1, LocalAssumption, FS_Subset, FS_CardinalityType

\* A thread that makes a call is not one of those that wait.
LEMMA OthersPass ==
  ASSUME NEW t \in Threads, t \notin Waiting
  PROVE  /\ t \notin Passing
         /\ Cardinality(Passing) <= Cardinality(Threads) - 1
  <1>1. Passing \subseteq Threads \ {t} /\ t \notin Passing
    BY DEF Passing, Waiting
  <1>2. /\ IsFiniteSet(Threads \ {t})
        /\ Cardinality(Threads \ {t}) = Cardinality(Threads) - 1
    BY LocalAssumption, FS_RemoveElement
  <1>3. Cardinality(Passing) <= Cardinality(Threads \ {t})
    BY <1>1, <1>2, FS_Subset
  <1> QED
    BY <1>1, <1>2, <1>3

LEMMA SetCheck ==
  ASSUME Typed, SetInv, NEW t \in Threads, NEW k \in Keys, NEW total \in Totals,
         CheckQuota(t, k, total)
  PROVE  SetInv'
  <1> DEFINE n == Cardinality(Passing)
             m == Cardinality(Threads)
             base == IF s_now = now THEN setpasses ELSE 0
             most == IF s_now = now THEN setlimit ELSE 0
             lim == SetLimit(local[k])
  <1>1. n \in Nat /\ m \in Nat /\ n <= m - 1 /\ t \notin Passing
        /\ IsFiniteSet(Passing)
    BY PassingFinite, OthersPass DEF CheckQuota
  <1>2. lim \in Nat
    BY SetLimitNat DEF Typed
  <1>3. base \in Nat /\ most \in Nat /\ SetSum \in Nat
    BY DEF Typed, SetSum
  <1>4. base <= SetSum + n
    BY <1>1 DEF SetInv, SetSum
  <1>5. base > 0 => base <= most + (m - 1)
    BY DEF SetInv, SetPassesWithinLimit
  <1>6. /\ setpasses' = base + One(Passes(k, total))
        /\ setlimit' = IF most > lim THEN most ELSE lim
        /\ s_setsum' = SetSum + One(Passes(k, total) /\ ~Due(local[k]))
    BY Zenon DEF CheckQuota, Recorded
  <1>7. \A u \in Threads \ {t} : u \in Passing' <=> u \in Passing
    <2>1. \A u \in Threads \ {t} : /\ call'[u].key = call[u].key
                                  /\ call'[u].pass = call[u].pass
      BY CallsAfterCheck
    <2> QED
      BY <2>1, Zenon DEF Passing
  <1>8. Passing' \subseteq Threads /\ Passing \subseteq Threads
    BY DEF Passing
  <1>9. t \in Passing' <=> Due(local[k]) /\ Passes(k, total)
    <2>1. CASE Due(local[k])
      <3>1. call'[t].key = k /\ call'[t].pass = Passes(k, total)
        <4>1. call'[t] = [key |-> k, ref |-> k, sent |-> now,
                          pass |-> Passes(k, total)]
          BY <2>1, CallsAfterCheck
        <4> QED
          BY <4>1
      <3> QED
        BY <2>1, <3>1, LocalAssumption, Zenon DEF Passing
    <2>2. CASE ~Due(local[k])
      <3>1. call'[t].key = NoKey
        BY <2>2, CallsAfterCheck, NoCallIsCall
      <3> QED
        BY <2>2, <3>1, Zenon DEF Passing
    <2> QED
      BY <2>1, <2>2
  <1> HIDE DEF n, m, base, most, lim
  <1>10. setlimit' \in Nat /\ setlimit' >= most /\ setlimit' >= lim
    BY <1>2, <1>3, <1>6
  <1>11. n \in Nat /\ m \in Nat /\ n <= m - 1
    BY <1>1
  <1>12. CASE Passes(k, total) /\ Due(local[k])
    <2>1. Passing' = Passing \union {t}
      BY <1>1, <1>7, <1>8, <1>9, <1>12
    <2>2. Cardinality(Passing') = n + 1
      BY <1>1, <2>1, FS_AddElement DEF n
    <2>3. SetSum < lim
      BY <1>2, <1>3, <1>12 DEF Passes, SetOver, lim
    <2>4. setpasses' = base + 1 /\ s_setsum' = SetSum
      BY <1>3, <1>6, <1>12 DEF One
    <2>5. setpasses' <= s_setsum' + Cardinality(Passing')
      BY <1>1, <1>3, <1>4, <2>2, <2>4
    <2>6. setpasses' <= setlimit' + (m - 1)
      <3>1. base + 1 <= lim + (m - 1)
        BY <1>11, <1>2, <1>3, <1>4, <2>3
      <3> QED
        BY <1>2, <1>10, <1>11, <2>4, <3>1
    <2> QED
      BY <2>5, <2>6 DEF SetInv, SetPassesWithinLimit, m
  <1>13. CASE Passes(k, total) /\ ~Due(local[k])
    <2>1. Passing' = Passing
      BY <1>1, <1>7, <1>8, <1>9, <1>13
    <2>2. SetSum < lim
      BY <1>2, <1>3, <1>13 DEF Passes, SetOver, lim
    <2>3. setpasses' = base + 1 /\ s_setsum' = SetSum + 1
      BY <1>3, <1>6, <1>13 DEF One
    <2>4. setpasses' <= s_setsum' + Cardinality(Passing')
      BY <1>1, <1>3, <1>4, <2>1, <2>3 DEF n
    <2>5. setpasses' <= setlimit' + (m - 1)
      <3>1. base + 1 <= lim + (m - 1)
        BY <1>11, <1>2, <1>3, <1>4, <2>2
      <3> QED
        BY <1>2, <1>10, <1>11, <2>3, <3>1
    <2> QED
      BY <2>4, <2>5 DEF SetInv, SetPassesWithinLimit, m
  <1>14. CASE ~Passes(k, total)
    <2>1. Passing' = Passing
      BY <1>1, <1>7, <1>8, <1>9, <1>14
    <2>2. setpasses' = base /\ s_setsum' = SetSum
      BY <1>3, <1>6, <1>14 DEF One
    <2>3. setpasses' <= s_setsum' + Cardinality(Passing')
      BY <1>4, <2>1, <2>2 DEF n
    <2>4. setpasses' > 0 => setpasses' <= setlimit' + (m - 1)
      <3>1. base > 0 => base <= most + (m - 1)
        BY <1>5
      <3>2. setlimit' >= most /\ setlimit' \in Nat
        BY <1>10
      <3>3. m - 1 \in Int /\ base \in Nat /\ most \in Nat
        BY <1>11, <1>3
      <3>4. base > 0 => base <= setlimit' + (m - 1)
        BY <3>1, <3>2, <3>3
      <3> QED
        BY <3>4, <2>2
    <2> QED
      BY <2>3, <2>4 DEF SetInv, SetPassesWithinLimit, m
  <1> QED
    BY <1>12, <1>13, <1>14

LEMMA SetReturn ==
  ASSUME Typed, SetInv, NEW t \in Threads, Returns(t)
  PROVE  SetInv'
  <1>1. Passing' = Passing \ {t}
    BY CallsAfterReturn DEF Passing, NoCall
  <1>2. t \in Passing <=> call[t].pass
    BY DEF Passing, Returns, Waiting
  <1>3. UNCHANGED <<setlimit, setpasses>> /\ s_setsum' = s_setsum + One(call[t].pass)
    BY Zenon DEF Returns, SumAfter
  <1>4. CASE t \in Passing
    <2>1. Cardinality(Passing') = Cardinality(Passing) - 1
      BY <1>1, <1>4, PassingFinite, FS_RemoveElement
    <2>2. s_setsum' = s_setsum + 1
      BY <1>2, <1>3, <1>4 DEF One
    <2> QED
      BY <1>3, <2>1, <2>2, PassingFinite DEF SetInv, SetPassesWithinLimit, Typed
  <1>5. CASE t \notin Passing
    <2>1. Passing' = Passing
      BY <1>1, <1>5
    <2>2. s_setsum' = s_setsum
      BY <1>2, <1>3, <1>5 DEF One, Typed
    <2> QED
      BY <1>3, <2>1, <2>2 DEF SetInv, SetPassesWithinLimit
  <1> QED
    BY <1>4, <1>5

LEMMA SetNext == Typed /\ SetInv /\ [Next]_vars => SetInv'
  <1> SUFFICES ASSUME Typed, SetInv, [Next]_vars PROVE SetInv'
    OBVIOUS
  <1>1. CASE Call
    BY <1>1, SetCheck DEF Call
  <1>2. CASE Return
    BY <1>2, SetReturn DEF Return, Answered, Fails
  <1>3. CASE ClearData
    <2>1. \A u \in Threads : /\ call'[u].key = call[u].key
                            /\ call'[u].pass = call[u].pass
      BY <1>3, CallsAfterClear
    <2>2. Passing' = Passing
      BY <2>1, Zenon DEF Passing
    <2> QED
      BY <1>3, <2>2 DEF ClearData, setvars, SetInv, SetPassesWithinLimit
  <1>4. CASE Tick
    BY <1>4 DEF Tick, setvars, history, Passing, SetInv, SetPassesWithinLimit
  <1>5. CASE UNCHANGED vars
    BY <1>5 DEF vars, setvars, history, Passing, SetInv, SetPassesWithinLimit
  <1> QED
    BY <1>1, <1>2, <1>3, <1>4, <1>5 DEF Next

LEMMA SetInit == Init => SetInv
  <1> SUFFICES ASSUME Init PROVE SetInv
    OBVIOUS
  <1>1. setpasses = 0 /\ s_setsum = 0
    BY DEF Init
  <1> QED
    BY <1>1, PassingFinite DEF SetInv, SetPassesWithinLimit

\* The requests that pass for the set in a second exceed the limit by less
\* than the number of threads, however long calls wait (CheckQuota counts a
\* request in s_setsum only when its call returns).
THEOREM SetLimitKept == Spec => []SetPassesWithinLimit
  <1>1. Typed /\ SetInv /\ [Next]_vars => (Typed /\ SetInv)'
    BY TypedNext, SetNext
  <1>2. Init => Typed /\ SetInv
    BY TypedInit, SetInit
  <1>3. SetInv => SetPassesWithinLimit
    BY DEF SetInv
  <1> QED
    BY <1>1, <1>2, <1>3, PTL DEF Spec

-----------------------------------------------------------------------------
\* The reports of a key.  A call that waits refers to the entry of its key and
\* holds its lock, until an entry is erased under a call; the time in the entry
\* is that of the last answered report, or that report was long ago.

HoldsLock(t) ==
  /\ call[t].ref = call[t].key
  /\ local[call[t].key].lock = 1

Remembers(k) ==
  local[k].updatetime = reported[k] \/ now - reported[k] >= ReportPeriod

SpacedInv ==
  dangled \/
    /\ \A t \in Threads : call[t].key # NoKey => HoldsLock(t)
    /\ \A t, u \in Threads :
         call[t].key # NoKey /\ call[t].key = call[u].key => t = u
    /\ \A k \in Keys : Remembers(k)

\* The step of ReportsSpaced.
SpacedStep ==
  \A t \in Threads, k \in Keys :
    (call[t].key # k /\ call'[t].key = k) =>
      \/ dangled
      \/ /\ \A u \in Threads : call[u].key # k
         /\ now - reported[k] >= ReportPeriod

\* A due report finds its key without a call and long unanswered.
LEMMA DueIsFree ==
  ASSUME Typed, SpacedInv, ~dangled, NEW k \in Keys, Due(local[k])
  PROVE  /\ \A u \in Threads : call[u].key # k
         /\ now - reported[k] >= ReportPeriod
  <1>1. local[k].lock = 0 /\ now - local[k].updatetime >= ReportPeriod
    BY DEF Due
  <1>2. ASSUME NEW u \in Threads, call[u].key = k PROVE FALSE
    <2>1. HoldsLock(u)
      BY <1>2, LocalAssumption DEF SpacedInv
    <2> QED
      BY <1>1, <1>2, <2>1 DEF HoldsLock
  <1>3. Remembers(k)
    BY DEF SpacedInv
  <1> QED
    BY <1>1, <1>2, <1>3 DEF Remembers

LEMMA SpacedCheck ==
  ASSUME Typed, SpacedInv, NEW t \in Threads, NEW k \in Keys, NEW total \in Totals,
         CheckQuota(t, k, total)
  PROVE  SpacedInv' /\ SpacedStep
  <1>1. /\ local' = [local EXCEPT ![k] = Judged(k, total)]
        /\ UNCHANGED <<now, reported, dangled>>
    BY DEF CheckQuota
  <1>2. \A u \in Threads \ {t} : call'[u].key = call[u].key
    BY CallsAfterCheck
  <1>3. Due(local[k]) => call'[t].key = k /\ call'[t].ref = k
    <2>1. Due(local[k]) => call'[t] = [key |-> k, ref |-> k, sent |-> now,
                                       pass |-> Passes(k, total)]
      BY CallsAfterCheck
    <2> QED
      BY <2>1
  <1>4. ~Due(local[k]) => call'[t].key = NoKey
    BY CallsAfterCheck, NoCallIsCall
  <1>5. ASSUME ~dangled PROVE SpacedInv'
    <2>1. \A j \in Keys : local'[j].updatetime = local[j].updatetime
      BY <1>1, JudgedIsEntry DEF Typed
    <2>2. \A j \in Keys : local[j].lock = 1 => local'[j].lock = 1
      BY <1>1, JudgedIsEntry DEF Typed
    <2>3. Due(local[k]) => local'[k].lock = 1
      BY <1>1, JudgedIsEntry DEF Typed
    <2>4. \A u \in Threads \ {t} : call[u].key # NoKey => call'[u].ref = call[u].ref
      <3>1. \A u \in Threads : call[u].key # NoKey => call[u].ref # NoKey
        BY <1>5 DEF SpacedInv, HoldsLock
      <3>2. \A u \in Threads \ {t} : (call[u].key = NoKey \/ call[u].ref # NoKey)
                                     => call'[u].ref = call[u].ref
        BY CallsAfterCheck
      <3> QED
        BY <3>1, <3>2
    <2>5. ASSUME NEW u \in Threads, call'[u].key # NoKey PROVE HoldsLock(u)'
      <3>1. CASE u = t
        BY <1>3, <1>4, <2>3, <2>5, <3>1 DEF HoldsLock
      <3>2. CASE u # t
        <4>1. call'[u].key = call[u].key /\ call'[u].ref = call[u].ref
          BY <1>2, <2>4, <2>5, <3>2
        <4>2. HoldsLock(u) /\ call[u].key \in Keys
          BY <1>5, <2>5, <4>1 DEF SpacedInv, Typed, IsCall
        <4> QED
          BY <2>2, <4>1, <4>2 DEF HoldsLock
      <3> QED
        BY <3>1, <3>2
    <2>6. ASSUME NEW u \in Threads, NEW v \in Threads,
                 call'[u].key # NoKey, call'[u].key = call'[v].key
          PROVE  u = v
      <3>1. CASE u # t /\ v # t
        BY <1>2, <1>5, <2>6, <3>1 DEF SpacedInv
      <3>2. CASE u = t \/ v = t
        <4>1. Due(local[k])
          BY <1>4, <2>6, <3>2
        <4>2. \A w \in Threads \ {t} : call'[w].key # k
          BY <1>2, <1>5, <4>1, DueIsFree
        <4> QED
          BY <1>3, <2>6, <3>2, <4>1, <4>2
      <3> QED
        BY <3>1, <3>2
    <2>7. \A j \in Keys : Remembers(j)'
      BY <1>1, <1>5, <2>1 DEF SpacedInv, Remembers
    <2> QED
      BY <2>5, <2>6, <2>7 DEF SpacedInv
  <1>6. SpacedInv'
    BY <1>1, <1>5 DEF SpacedInv
  <1>7. ASSUME NEW u \in Threads, NEW j \in Keys,
               call[u].key # j, call'[u].key = j, ~dangled
        PROVE  /\ \A v \in Threads : call[v].key # j
               /\ now - reported[j] >= ReportPeriod
    <2>1. u = t /\ Due(local[k]) /\ j = k
      BY <1>2, <1>3, <1>4, <1>7, LocalAssumption
    <2> QED
      BY <1>7, <2>1, DueIsFree
  <1> QED
    BY <1>6, <1>7 DEF SpacedStep

LEMMA SpacedAnswered ==
  ASSUME Typed, SpacedInv, NEW t \in Threads, NEW a \in Answers, Answered(t, a)
  PROVE  SpacedInv'
  <1> SUFFICES ASSUME ~dangled PROVE SpacedInv'
    BY DEF SpacedInv, Answered, Returns
  <1> DEFINE c == call[t]
             e == local[c.key]
             heard == [e EXCEPT !.updatetime = c.sent, !.lock = 0]
             new == IF a.localq > 0 THEN Adopted(heard, a) ELSE heard
  <1>1. IsCall(c) /\ c.key \in Keys /\ Returns(t)
    BY DEF Typed, Answered, Returns, Waiting, IsCall
  <1>2. c.ref = c.key /\ c.ref # NoKey
    BY <1>1, LocalAssumption DEF SpacedInv, HoldsLock
  <1>3. local' = [local EXCEPT ![c.key] = new]
        /\ reported' = [reported EXCEPT ![c.key] = c.sent]
    BY <1>2, Zenon DEF Answered, Written
  <1>4. new.updatetime = c.sent
    <2>1. IsEntry(e) /\ c.sent \in Nat
      BY <1>1 DEF Typed, IsCall
    <2> HIDE DEF e, c
    <2>2. IsEntry(heard) /\ heard.updatetime = c.sent
      BY <2>1, HeardIsEntry
    <2> QED
      BY <2>2, AdoptedIsEntry
  <1> HIDE DEF new
  <1>5. /\ \A u \in Threads \ {t} : call'[u] = call[u]
        /\ call'[t].key = NoKey
    BY <1>1, CallsAfterReturn, NoCallIsCall
  <1>6. ASSUME NEW u \in Threads, call'[u].key # NoKey PROVE HoldsLock(u)'
    <2>1. u # t /\ call'[u] = call[u]
      BY <1>5, <1>6
    <2>2. HoldsLock(u) /\ call[u].key # c.key /\ call[u].key \in Keys
      BY <1>6, <2>1 DEF SpacedInv, Typed, IsCall
    <2>3. local'[call[u].key] = local[call[u].key]
      BY <1>3, <2>2 DEF Typed
    <2> QED
      BY <2>1, <2>2, <2>3 DEF HoldsLock
  <1>7. \A u, v \in Threads :
          call'[u].key # NoKey /\ call'[u].key = call'[v].key => u = v
    BY <1>5 DEF SpacedInv
  <1>8. ASSUME NEW k \in Keys PROVE Remembers(k)'
    <2>1. CASE k = c.key
      <3>1. local'[k].updatetime = c.sent /\ reported'[k] = c.sent
        BY <1>1, <1>3, <1>4, <2>1 DEF Typed
      <3> QED
        BY <3>1 DEF Remembers
    <2>2. CASE k # c.key
      <3>1. local'[k] = local[k] /\ reported'[k] = reported[k] /\ now' = now
        BY <1>1, <1>3, <2>2 DEF Typed, Returns
      <3> QED
        BY <3>1 DEF SpacedInv, Remembers
    <2> QED
      BY <2>1, <2>2
  <1> QED
    BY <1>6, <1>7, <1>8 DEF SpacedInv

LEMMA SpacedFails ==
  ASSUME Typed, SpacedInv, NEW t \in Threads, Fails(t)
  PROVE  SpacedInv'
  <1> SUFFICES ASSUME ~dangled PROVE SpacedInv'
    BY DEF SpacedInv, Fails, Returns
  <1> DEFINE c == call[t]
             new == [local[c.key] EXCEPT !.lock = 0]
  <1>1. IsCall(c) /\ c.key \in Keys /\ Returns(t)
    BY DEF Typed, Fails, Returns, Waiting, IsCall
  <1>2. c.ref = c.key /\ c.ref # NoKey
    BY <1>1, LocalAssumption DEF SpacedInv, HoldsLock
  <1>3. local' = [local EXCEPT ![c.key] = new] /\ reported' = reported
    BY <1>2, Zenon DEF Fails, Written
  <1>4. new.updatetime = local[c.key].updatetime
    BY <1>1 DEF Typed, IsEntry
  <1> HIDE DEF new
  <1>5. /\ \A u \in Threads \ {t} : call'[u] = call[u]
        /\ call'[t].key = NoKey
    BY <1>1, CallsAfterReturn, NoCallIsCall
  <1>6. ASSUME NEW u \in Threads, call'[u].key # NoKey PROVE HoldsLock(u)'
    <2>1. u # t /\ call'[u] = call[u]
      BY <1>5, <1>6
    <2>2. HoldsLock(u) /\ call[u].key # c.key /\ call[u].key \in Keys
      BY <1>6, <2>1 DEF SpacedInv, Typed, IsCall
    <2>3. local'[call[u].key] = local[call[u].key]
      BY <1>3, <2>2 DEF Typed
    <2> QED
      BY <2>1, <2>2, <2>3 DEF HoldsLock
  <1>7. \A u, v \in Threads :
          call'[u].key # NoKey /\ call'[u].key = call'[v].key => u = v
    BY <1>5 DEF SpacedInv
  <1>8. \A k \in Keys : local'[k].updatetime = local[k].updatetime
    BY <1>1, <1>3, <1>4 DEF Typed
  <1>9. now' = now
    BY <1>1 DEF Returns
  <1>10. \A k \in Keys : Remembers(k)'
    BY <1>3, <1>8, <1>9 DEF SpacedInv, Remembers
  <1> QED
    BY <1>6, <1>7, <1>10 DEF SpacedInv

LEMMA SpacedClear ==
  ASSUME Typed, SpacedInv, ClearData
  PROVE  SpacedInv'
  <1> SUFFICES ASSUME ~dangled' PROVE SpacedInv'
    BY DEF SpacedInv
  <1> DEFINE gone == {k \in known : Expired(k)}
             freed == {t \in Waiting : call[t].ref \in gone}
  <1>1. /\ local' = [k \in Keys |-> IF k \in gone THEN NoEntry ELSE local[k]]
        /\ dangled' = (dangled \/ freed # {})
        /\ UNCHANGED <<now, reported>>
    BY Zenon DEF ClearData
  <1>2. ~dangled /\ freed = {}
    BY <1>1
  <1>3. \A u \in Threads : call'[u].key = call[u].key
    BY CallsAfterClear
  <1>4. \A u \in Threads : call'[u].ref = call[u].ref
    <2>1. \A u \in Threads : dangled' \/ call'[u].ref = call[u].ref
      BY CallsAfterClear
    <2> QED
      BY <2>1
  <1>5. ASSUME NEW u \in Threads, call'[u].key # NoKey PROVE HoldsLock(u)'
    <2>1. HoldsLock(u) /\ call[u].key \in Keys /\ u \in Waiting
      BY <1>2, <1>3, <1>5 DEF SpacedInv, Typed, IsCall, Waiting
    <2>2. call[u].key \notin gone
      BY <1>2, <2>1 DEF HoldsLock
    <2> HIDE DEF gone
    <2>3. local'[call[u].key] = local[call[u].key]
      BY <1>1, <2>1, <2>2
    <2> QED
      BY <1>3, <1>4, <2>1, <2>3 DEF HoldsLock
  <1>6. \A u, v \in Threads :
          call'[u].key # NoKey /\ call'[u].key = call'[v].key => u = v
    BY <1>2, <1>3 DEF SpacedInv
  <1>7. ASSUME NEW k \in Keys PROVE Remembers(k)'
    <2>1. Remembers(k)
      BY <1>2 DEF SpacedInv
    <2>2. CASE k \in gone
      <3>1. now - local[k].updatetime > Expire
        BY <2>2 DEF Expired
      <3>2. now \in Nat /\ local[k].updatetime \in Nat /\ reported[k] \in Nat
        BY DEF Typed, IsEntry
      <3>3. now - reported[k] >= ReportPeriod
        BY <2>1, <3>1, <3>2, LocalAssumption DEF Remembers
      <3> QED
        BY <1>1, <3>3 DEF Remembers
    <2>3. CASE k \notin gone
      BY <1>1, <2>1, <2>3 DEF Remembers
    <2> QED
      BY <2>2, <2>3
  <1> QED
    BY <1>5, <1>6, <1>7 DEF SpacedInv

LEMMA SpacedTick ==
  ASSUME Typed, SpacedInv, Tick
  PROVE  SpacedInv'
  <1>1. now' = now + 1 /\ UNCHANGED <<local, call, reported, dangled>>
    BY DEF Tick, history
  <1>2. ASSUME NEW k \in Keys, Remembers(k) PROVE Remembers(k)'
    BY <1>1, <1>2, LocalAssumption DEF Typed, Remembers
  <1> QED
    BY <1>1, <1>2 DEF SpacedInv, HoldsLock

LEMMA SpacedNext == Typed /\ SpacedInv /\ [Next]_vars => SpacedInv' /\ [SpacedStep]_vars
  <1> SUFFICES ASSUME Typed, SpacedInv, [Next]_vars
               PROVE  SpacedInv' /\ [SpacedStep]_vars
    OBVIOUS
  <1>1. CASE Call
    BY <1>1, SpacedCheck DEF Call
  <1>2. CASE Return
    <2>1. PICK t \in Threads : Fails(t) \/ \E a \in Answers : Answered(t, a)
      BY <1>2 DEF Return
    <2>2. SpacedInv' /\ Returns(t)
      BY <2>1, SpacedAnswered, SpacedFails DEF Answered, Fails
    <2>3. \A u \in Threads : call'[u].key \in {call[u].key, NoKey}
      BY <2>2, CallsAfterReturn, NoCallIsCall
    <2> QED
      BY <2>2, <2>3, LocalAssumption DEF SpacedStep
  <1>3. CASE ClearData
    <2>1. \A u \in Threads : /\ call'[u].key = call[u].key
                            /\ call'[u].pass = call[u].pass
      BY <1>3, CallsAfterClear
    <2> QED
      BY <1>3, <2>1, SpacedClear DEF SpacedStep
  <1>4. CASE Tick
    <2>1. call' = call
      BY <1>4 DEF Tick
    <2> QED
      BY <1>4, <2>1, SpacedTick DEF SpacedStep
  <1>5. CASE UNCHANGED vars
    BY <1>5 DEF vars, history, SpacedInv, HoldsLock, Remembers
  <1> QED
    BY <1>1, <1>2, <1>3, <1>4, <1>5 DEF Next

LEMMA SpacedInit == Init => SpacedInv
  BY DEF Init, SpacedInv, NoCall, NoEntry, Remembers

\* Reports of a key are sent one at a time and ReportPeriod after the last
\* that was answered, whatever calls wait and fail in between, unless
\* ClearData erased an entry under a call (CheckQuota, ClearData).
THEOREM ReportsAreSpaced == Spec => ReportsSpaced
  <1>1. Init => Typed /\ SpacedInv
    BY TypedInit, SpacedInit
  <1>2. Typed /\ SpacedInv /\ [Next]_vars => (Typed /\ SpacedInv)'
    BY TypedNext, SpacedNext
  <1>3. Typed /\ SpacedInv /\ [Next]_vars => [SpacedStep]_vars
    BY SpacedNext
  <1>4. Spec => [][SpacedStep]_vars
    BY <1>1, <1>2, <1>3, PTL DEF Spec
  <1> QED
    BY <1>4, Zenon DEF ReportsSpaced, SpacedStep

-----------------------------------------------------------------------------
\* What the end of a call leaves of the entries.

LEMMA ReturnKeeps ==
  ASSUME Typed, NEW t \in Threads,
         Fails(t) \/ \E a \in Answers : Answered(t, a)
  PROVE  /\ Returns(t)
         /\ \A j \in Keys : Kept(local[j], local'[j])
  <1> DEFINE c == call[t]
             e == IF c.ref = NoKey THEN NoEntry ELSE local[c.ref]
             heard == [e EXCEPT !.updatetime = c.sent, !.lock = 0]
  <1>1. Returns(t) /\ IsCall(c)
    BY DEF Answered, Fails, Typed
  <1>2. IsEntry(e) /\ c.sent \in Nat
    BY <1>1, NoEntryIsEntry DEF Typed, IsCall
  <1>3. \E new : IsEntry(new) /\ Kept(e, new) /\ local' = Written(c, new)
    <2>1. CASE Fails(t)
      <3> DEFINE new == [e EXCEPT !.lock = 0]
      <3>1. local' = Written(c, new)
        BY <2>1, Zenon DEF Fails
      <3> HIDE DEF e
      <3>2. IsEntry(new) /\ Kept(e, new)
        BY <1>2 DEF IsEntry, Kept
      <3> QED
        BY <3>1, <3>2
    <2>2. ASSUME NEW a \in Answers, Answered(t, a)
          PROVE  \E new : IsEntry(new) /\ Kept(e, new) /\ local' = Written(c, new)
      <3> DEFINE new == IF a.localq > 0 THEN Adopted(heard, a) ELSE heard
      <3>1. local' = Written(c, new)
        BY <2>2, Zenon DEF Answered
      <3> HIDE DEF e
      <3>2. IsEntry(heard) /\ Kept(e, heard)
        BY <1>2, HeardIsEntry
      <3> HIDE DEF heard
      <3>3. IsEntry(Adopted(heard, a)) /\ Kept(heard, Adopted(heard, a))
        BY <3>2, AdoptedIsEntry
      <3>4. IsEntry(new) /\ Kept(e, new)
        BY <3>2, <3>3 DEF Kept
      <3> HIDE DEF new
      <3> QED
        BY <3>1, <3>4
    <2> QED
      BY <2>1, <2>2
  <1>4. PICK new : IsEntry(new) /\ Kept(e, new) /\ local' = Written(c, new)
    BY <1>3
  <1>5. ASSUME NEW j \in Keys PROVE Kept(local[j], local'[j])
    <2>1. CASE c.ref = j
      <3>1. e = local[j] /\ local' = [local EXCEPT ![j] = new]
        BY <1>4, <2>1, LocalAssumption DEF Written
      <3> QED
        BY <1>4, <3>1 DEF Typed
    <2>2. CASE c.ref # j
      <3>1. local'[j] = local[j]
        BY <1>1, <1>4, <2>2 DEF Written, Typed, IsCall
      <3> QED
        BY <3>1 DEF Kept
    <2> QED
      BY <2>1, <2>2
  <1> QED
    BY <1>1, <1>5

-----------------------------------------------------------------------------
\* The limit of a key.  The requests that passed in the second are among those
\* the entry counts, and each was within the limit of its time.

KeyInv ==
  /\ limit \in [Keys -> Nat] /\ passes \in [Keys -> Nat]
  /\ \A k \in Keys : passes[k] <= local[k].nowsum
  /\ KeyPassesWithinQuota

\* A limit is a number: a request that would divide by zero is not judged.
LEMMA LimitNat ==
  ASSUME Typed, NEW k \in Keys, NEW total \in Totals,
         ~FirstOfSecond(local[k]) /\ OnShare(local[k]) /\ Referred(k)
           => local[Refer(k)].total > 0
  PROVE  /\ Limit(k, local[k], total) \in Nat
         /\ FirstOfSecond(local[k]) => Limit(k, local[k], total) = 1
  <1> DEFINE e == local[k]
  <1>1. total \in Nat /\ Threshold \in Nat \ {0} /\ Unlimited \in Nat
    BY LocalAssumption DEF Unlimited
  <1>2. e.ver \in Nat /\ e.workers \in Nat
    BY DEF Typed, IsEntry
  <1>3. CASE FirstOfSecond(e)
    BY <1>3 DEF Limit
  <1>4. CASE ~FirstOfSecond(e) /\ ~OnShare(e)
    BY <1>1, <1>2, <1>4 DEF Limit, OwnLimit
  <1>5. CASE ~FirstOfSecond(e) /\ OnShare(e)
    <2>1. ReferQuota(k, total) \in Nat
      <3>1. CASE Referred(k)
        <4> DEFINE f == local[Refer(k)]
        <4>1. Refer(k) \in Keys
          BY <3>1, LocalAssumption DEF Referred
        <4>2. f.ver \in Nat /\ f.total \in Nat \ {0}
          BY <1>5, <3>1, <4>1 DEF Typed, IsEntry
        <4>3. f.ver * total \in Nat
          BY <1>1, <4>2
        <4>4. ReferQuota(k, total) = (f.ver * total) \div f.total
          BY <3>1 DEF ReferQuota
        <4> HIDE DEF f
        <4> QED
          BY <4>2, <4>3, <4>4, DivMod
      <3>2. CASE ~Referred(k)
        BY <3>2 DEF ReferQuota
      <3> QED
        BY <3>1, <3>2
    <2>2. AverQuota(e, total) \in Nat
      BY <1>1, <1>2, DivMod DEF AverQuota
    <2>3. ShareLimit(k, e, total) \in Nat
      BY <1>1, <2>1, <2>2 DEF ShareLimit
    <2> QED
      BY <1>5, <2>3 DEF Limit
  <1> QED
    BY <1>3, <1>4, <1>5

LEMMA KeyCheck ==
  ASSUME Typed, KeyInv, NEW t \in Threads, NEW k \in Keys, NEW total \in Totals,
         CheckQuota(t, k, total)
  PROVE  KeyInv'
  <1> DEFINE lim == Limit(k, local[k], total)
             again == ~FirstOfSecond(local[k])
             most == IF again THEN limit[k] ELSE 0
             base == IF again THEN passes[k] ELSE 0
             sum == NowSum(local[k])
  <1>1. lim \in Nat /\ (~again => lim = 1)
    BY LimitNat DEF CheckQuota
  <1>2. most \in Nat /\ base \in Nat /\ base <= most
    BY DEF KeyInv, KeyPassesWithinQuota
  <1>3. sum \in Nat /\ base + 1 <= sum /\ (~again => base = 0)
    BY DEF KeyInv, NowSum, Typed, IsEntry
  <1>4. /\ local' = [local EXCEPT ![k] = Judged(k, total)]
        /\ limit' = [limit EXCEPT ![k] = IF most > lim THEN most ELSE lim]
        /\ passes' = [passes EXCEPT ![k] = base + One(~Over(k, total))]
    BY DEF CheckQuota, Recorded
  <1>5. Over(k, total) <=> sum > lim
    BY DEF Over
  <1> HIDE DEF lim, most, base, again, sum
  <1>6. One(~Over(k, total)) = IF sum > lim THEN 0 ELSE 1
    BY <1>5 DEF One
  <1> DEFINE newlimit == IF most > lim THEN most ELSE lim
             newpasses == base + One(~Over(k, total))
  <1>7. /\ newlimit \in Nat /\ newpasses \in Nat
        /\ newpasses <= newlimit /\ newpasses <= sum
    BY <1>1, <1>2, <1>3, <1>6
  <1>8. /\ limit' = [limit EXCEPT ![k] = newlimit]
        /\ passes' = [passes EXCEPT ![k] = newpasses]
    BY <1>4
  <1> HIDE DEF newlimit, newpasses
  <1>9. /\ local'[k].nowsum = sum
        /\ \A j \in Keys \ {k} : local'[j] = local[j]
    BY <1>4, JudgedIsEntry DEF Typed, sum
  <1> QED
    BY <1>7, <1>8, <1>9 DEF KeyInv, KeyPassesWithinQuota

LEMMA KeyNext == Typed /\ KeyInv /\ [Next]_vars => KeyInv'
  <1> SUFFICES ASSUME Typed, KeyInv, [Next]_vars PROVE KeyInv'
    OBVIOUS
  <1>1. CASE Call
    BY <1>1, KeyCheck DEF Call
  <1>2. CASE Return
    <2>1. PICK t \in Threads : Fails(t) \/ \E a \in Answers : Answered(t, a)
      BY <1>2 DEF Return
    <2>2. \A j \in Keys : local'[j].nowsum = local[j].nowsum
      BY <2>1, ReturnKeeps DEF Kept
    <2>3. UNCHANGED <<limit, passes>>
      BY <2>1, ReturnKeeps DEF Returns
    <2> QED
      BY <2>2, <2>3 DEF KeyInv, KeyPassesWithinQuota
  <1>3. CASE ClearData
    <2> DEFINE gone == {k \in known : Expired(k)}
    <2>1. /\ local' = [k \in Keys |-> IF k \in gone THEN NoEntry ELSE local[k]]
          /\ limit' = [k \in Keys |-> IF k \in gone THEN 0 ELSE limit[k]]
          /\ passes' = [k \in Keys |-> IF k \in gone THEN 0 ELSE passes[k]]
      BY <1>3, Zenon DEF ClearData
    <2> HIDE DEF gone
    <2>2. NoEntry.nowsum = 0
      BY DEF NoEntry
    <2> QED
      BY <2>1, <2>2 DEF KeyInv, KeyPassesWithinQuota
  <1>4. CASE Tick
    BY <1>4 DEF Tick, history, KeyInv, KeyPassesWithinQuota
  <1>5. CASE UNCHANGED vars
    BY <1>5 DEF vars, history, KeyInv, KeyPassesWithinQuota
  <1> QED
    BY <1>1, <1>2, <1>3, <1>4, <1>5 DEF Next

LEMMA KeyInit == Init => KeyInv
  BY DEF Init, KeyInv, KeyPassesWithinQuota, NoEntry

\* No more requests of a key pass in a second than the greatest limit CheckQuota
\* held them against in it, whatever becomes of the quota, the total and the
\* reference key within the second.
THEOREM KeyLimitKept == Spec => []KeyPassesWithinQuota
  <1>1. Init => Typed /\ KeyInv
    BY TypedInit, KeyInit
  <1>2. Typed /\ KeyInv /\ [Next]_vars => (Typed /\ KeyInv)'
    BY TypedNext, KeyNext
  <1>3. KeyInv => KeyPassesWithinQuota
    BY DEF KeyInv
  <1> QED
    BY <1>1, <1>2, <1>3, PTL DEF Spec

-----------------------------------------------------------------------------
\* The divisor of ProcessByRefer.  A call waits for a key whose total quota its
\* own request set; the answer gives that entry its quota.

ReferInv ==
  /\ ReferTotalPositive
  /\ dangled \/ \A t \in Threads :
                  call[t].key # NoKey => local[call[t].key].total > 0

LEMMA ReferCheck ==
  ASSUME Typed, ReferInv, NEW t \in Threads, NEW k \in Keys, NEW total \in Totals,
         CheckQuota(t, k, total)
  PROVE  ReferInv'
  <1>1. local' = [local EXCEPT ![k] = Judged(k, total)] /\ dangled' = dangled
    BY DEF CheckQuota
  <1>2. local'[k].total > 0 /\ \A j \in Keys \ {k} : local'[j] = local[j]
    BY <1>1, JudgedIsEntry, LocalAssumption DEF Typed
  <1>3. \A u \in Threads : call'[u].key \in {call[u].key, k, NoKey}
    <2>1. \A u \in Threads \ {t} : call'[u].key = call[u].key
      BY CallsAfterCheck
    <2>2. Due(local[k]) => call'[t] = [key |-> k, ref |-> k, sent |-> now,
                                       pass |-> Passes(k, total)]
      BY CallsAfterCheck
    <2>3. ~Due(local[k]) => call'[t].key = NoKey
      BY CallsAfterCheck, NoCallIsCall
    <2>4. call'[t].key \in {k, NoKey}
      BY <2>2, <2>3
    <2> QED
      BY <2>1, <2>4
  <1>4. ASSUME ~dangled, NEW u \in Threads, call'[u].key # NoKey
        PROVE  local'[call'[u].key].total > 0
    <2>1. CASE call'[u].key = k
      BY <1>2, <2>1
    <2>2. CASE call'[u].key # k
      <3>1. call'[u].key = call[u].key /\ call[u].key \in Keys \ {k}
        BY <1>3, <1>4, <2>2 DEF Typed, IsCall
      <3> QED
        BY <1>2, <1>4, <3>1 DEF ReferInv
    <2> QED
      BY <2>1, <2>2
  <1>5. ReferTotalPositive'
    BY <1>1, <1>2 DEF ReferInv, ReferTotalPositive
  <1> QED
    BY <1>1, <1>4, <1>5 DEF ReferInv

\* Only the entry a call refers to may get a quota at its end.
LEMMA OthersAfterReturn ==
  ASSUME Typed, NEW t \in Threads,
         Fails(t) \/ \E a \in Answers : Answered(t, a)
  PROVE  \A j \in Keys : call[t].ref # j => local'[j] = local[j]
  <1>1. \E new : local' = Written(call[t], new)
    BY Zenon DEF Answered, Fails
  <1> QED
    BY <1>1 DEF Written, Typed, IsCall

LEMMA ReferReturn ==
  ASSUME Typed, SpacedInv, ReferInv, NEW t \in Threads,
         Fails(t) \/ \E a \in Answers : Answered(t, a)
  PROVE  ReferInv'
  <1> SUFFICES ASSUME ~dangled PROVE ReferInv'
    BY ReturnKeeps DEF ReferInv, ReferTotalPositive, Returns
  <1>1. Returns(t) /\ \A j \in Keys : local'[j].total = local[j].total
    BY ReturnKeeps DEF Kept
  <1>2. call[t].key \in Keys /\ call[t].key # NoKey
    BY <1>1 DEF Returns, Waiting, Typed, IsCall
  <1>3. call[t].ref = call[t].key /\ local[call[t].key].total > 0
    BY <1>2 DEF SpacedInv, HoldsLock, ReferInv
  <1>4. \A j \in Keys : call[t].ref # j => local'[j] = local[j]
    BY OthersAfterReturn
  <1>5. ASSUME NEW j \in Keys, local'[j].ver > 0 PROVE local'[j].total > 0
    <2>1. CASE call[t].ref = j
      BY <1>1, <1>3, <2>1
    <2>2. CASE call[t].ref # j
      BY <1>4, <1>5, <2>2 DEF ReferInv, ReferTotalPositive
    <2> QED
      BY <2>1, <2>2
  <1>6. ASSUME NEW u \in Threads, call'[u].key # NoKey
        PROVE  local'[call'[u].key].total > 0
    <2>1. call'[u] = call[u] /\ call[u].key \in Keys
      BY <1>1, <1>6, CallsAfterReturn, NoCallIsCall DEF Typed, IsCall
    <2> QED
      BY <1>1, <1>6, <2>1 DEF ReferInv
  <1> QED
    BY <1>5, <1>6 DEF ReferInv, ReferTotalPositive

LEMMA ReferClear ==
  ASSUME Typed, SpacedInv, ReferInv, ClearData
  PROVE  ReferInv'
  <1> SUFFICES ASSUME ~dangled' PROVE ReferInv'
    BY DEF ReferInv, ReferTotalPositive
  <1> DEFINE gone == {k \in known : Expired(k)}
             freed == {t \in Waiting : call[t].ref \in gone}
  <1>1. /\ local' = [k \in Keys |-> IF k \in gone THEN NoEntry ELSE local[k]]
        /\ dangled' = (dangled \/ freed # {})
    BY Zenon DEF ClearData
  <1>2. ~dangled /\ freed = {}
    BY <1>1
  <1>3. \A u \in Threads : call'[u].key = call[u].key
    BY CallsAfterClear
  <1>4. ASSUME NEW u \in Threads, call'[u].key # NoKey
        PROVE  local'[call'[u].key].total > 0
    <2>1. HoldsLock(u) /\ call[u].key \in Keys /\ u \in Waiting
      BY <1>2, <1>3, <1>4 DEF SpacedInv, Typed, IsCall, Waiting
    <2>2. call[u].key \notin gone
      BY <1>2, <2>1 DEF HoldsLock
    <2> HIDE DEF gone
    <2>3. local'[call[u].key] = local[call[u].key]
      BY <1>1, <2>1, <2>2
    <2> QED
      BY <1>2, <1>3, <1>4, <2>3 DEF ReferInv
  <1> HIDE DEF gone
  <1>5. NoEntry.ver = 0
    BY DEF NoEntry
  <1>6. ReferTotalPositive'
    BY <1>1, <1>2, <1>5 DEF ReferInv, ReferTotalPositive
  <1> QED
    BY <1>4, <1>6 DEF ReferInv

LEMMA ReferNext ==
  Typed /\ SpacedInv /\ ReferInv /\ [Next]_vars => ReferInv'
  <1> SUFFICES ASSUME Typed, SpacedInv, ReferInv, [Next]_vars PROVE ReferInv'
    OBVIOUS
  <1>1. CASE Call
    BY <1>1, ReferCheck DEF Call
  <1>2. CASE Return
    BY <1>2, ReferReturn DEF Return
  <1>3. CASE ClearData
    BY <1>3, ReferClear
  <1>4. CASE Tick
    BY <1>4 DEF Tick, history, ReferInv, ReferTotalPositive
  <1>5. CASE UNCHANGED vars
    BY <1>5 DEF vars, history, ReferInv, ReferTotalPositive
  <1> QED
    BY <1>1, <1>2, <1>3, <1>4, <1>5 DEF Next

LEMMA ReferInit == Init => ReferInv
  BY DEF Init, ReferInv, ReferTotalPositive, NoEntry, NoCall

\* A reference key with a quota has a total quota to divide by, unless
\* ClearData erased an entry under a call (ProcessByRefer, CheckQuota).
THEOREM ReferDivides == Spec => []ReferTotalPositive
  <1>1. Init => Typed /\ SpacedInv /\ ReferInv
    BY TypedInit, SpacedInit, ReferInit
  <1>2. Typed /\ SpacedInv /\ ReferInv /\ [Next]_vars
          => (Typed /\ SpacedInv /\ ReferInv)'
    BY TypedNext, SpacedNext, ReferNext
  <1>3. ReferInv => ReferTotalPositive
    BY DEF ReferInv
  <1> QED
    BY <1>1, <1>2, <1>3, PTL DEF Spec

-----------------------------------------------------------------------------
\* The slots.  A slot is in its place and not ahead of the clock; what was
\* judged in a slot of time is still in the ring, or the slot was used again
\* for a later one.

Nothing == [passed |-> 0, refuse |-> 0, setrefuse |-> 0]
TruthType == [passed : Nat, refuse : Nat, setrefuse : Nat]

InPlace(k, i) ==
  LET key == local[k].timesum[i].timekey
  IN key > 0 => SlotIndex(key) = i /\ key <= TimeKey(now)

Remembered(k, t) ==
  truth[k][t] = Nothing \/ local[k].timesum[SlotIndex(t)].timekey >= t

\* The slot s holds the requests was.
Holds(s, was) ==
  /\ s.sum = was.passed + was.setrefuse
  /\ s.refuse = was.refuse
  /\ s.setrefuse = was.setrefuse

CountInv ==
  /\ truth \in [Keys -> [0 .. MaxTime -> TruthType]]
  /\ \A k \in Keys, i \in Slots : InPlace(k, i)
  /\ \A k \in Keys, t \in 0 .. MaxTime : Remembered(k, t)
  /\ \A k \in Keys, i \in Slots :
       local[k].timesum[i].timekey > 0
         => Holds(local[k].timesum[i], truth[k][local[k].timesum[i].timekey])

LEMMA CountMeans == CountInv => SlotsCountRequests
  BY DEF CountInv, Holds, SlotsCountRequests

LEMMA NothingIsTruth == NoTruth \in [0 .. MaxTime -> TruthType]
                        /\ \A t \in 0 .. MaxTime : NoTruth[t] = Nothing
  BY DEF NoTruth, Nothing, TruthType

LEMMA EmptyRing == \A i \in Slots : NoEntry.timesum[i].timekey = 0
  BY DEF NoEntry, NoSlot

\* The slot of now, and what was judged in its time, before and after a request.
LEMMA CountedSlot ==
  ASSUME Typed, CountInv, NEW k \in Keys, NEW total
  PROVE  LET ring == Counted(local[k].timesum, Over(k, total), SetOver(k, total))
             i == SlotIndex(now)
             was == [passed |-> truth[k][TimeKey(now)].passed + One(Passes(k, total)),
                     refuse |-> truth[k][TimeKey(now)].refuse + One(Over(k, total)),
                     setrefuse |-> truth[k][TimeKey(now)].setrefuse
                                     + One(SetOver(k, total))]
         IN /\ i \in Slots /\ SlotIndex(TimeKey(now)) = i
            /\ TimeKey(now) \in 0 .. MaxTime
            /\ was \in TruthType
            /\ ring[i].timekey = TimeKey(now)
            /\ TimeKey(now) > 0 => Holds(ring[i], was)
            /\ \A j \in Slots \ {i} : ring[j] = local[k].timesum[j]
            /\ local[k].timesum[i].timekey <= TimeKey(now)
  <1> DEFINE i == SlotIndex(now)
             key == TimeKey(now)
             olds == local[k].timesum
             old == olds[i]
             had == truth[k][key]
             o == One(Over(k, total))
             so == One(SetOver(k, total))
             p == One(Passes(k, total))
             no == One(~Over(k, total))
             slot == IF old.timekey = key THEN old ELSE [NoSlot EXCEPT !.timekey = key]
             new == [slot EXCEPT !.sum = @ + no, !.refuse = @ + o, !.setrefuse = @ + so]
             ring == Counted(olds, Over(k, total), SetOver(k, total))
             was == [passed |-> had.passed + p, refuse |-> had.refuse + o,
                     setrefuse |-> had.setrefuse + so]
  <1>1. /\ i \in Slots /\ key \in 0 .. MaxTime /\ key \in Nat
        /\ SlotIndex(key) = i
    <2>1. now \in Nat /\ now <= MaxTime
      BY DEF Typed
    <2>2. TimeKey(now) \in Nat /\ TimeKey(now) <= now
      BY <2>1, TimeKeyBounds
    <2> QED
      BY <2>1, <2>2, SlotIndexInRing, TimeKeySlot, LocalAssumption
  <1>2. olds \in RingType /\ old \in SlotType
    BY <1>1 DEF Typed, IsEntry, RingType
  <1>3. had \in TruthType
    BY <1>1 DEF CountInv
  <1>4. /\ o \in Nat /\ so \in Nat /\ p \in Nat /\ no \in Nat
        /\ no = p + so
    <2>1. o \in Nat /\ so \in Nat /\ p \in Nat /\ no \in Nat
      BY DEF One
    <2>2. CASE Over(k, total)
      <3>1. ~SetOver(k, total) /\ ~Passes(k, total)
        BY <2>2, Zenon DEF SetOver, Passes
      <3> QED
        BY <2>2, <3>1 DEF One
    <2>3. CASE ~Over(k, total) /\ SetOver(k, total)
      <3>1. ~Passes(k, total)
        BY <2>3, Zenon DEF Passes
      <3> QED
        BY <2>3, <3>1 DEF One
    <2>4. CASE ~Over(k, total) /\ ~SetOver(k, total)
      <3>1. Passes(k, total)
        BY <2>4, Zenon DEF Passes
      <3> QED
        BY <2>4, <3>1 DEF One
    <2> QED
      BY <2>1, <2>2, <2>3, <2>4
  <1>5. old.timekey <= key
    <2>1. InPlace(k, i)
      BY <1>1 DEF CountInv
    <2>2. old.timekey \in Nat
      BY <1>2 DEF SlotType
    <2> HIDE DEF i
    <2> QED
      BY <1>1, <2>1, <2>2 DEF InPlace
  <1>6. key > 0 => Holds(slot, had)
    <2>1. CASE old.timekey = key
      BY <1>1, <2>1 DEF CountInv
    <2>2. CASE old.timekey # key
      <3>1. Remembered(k, key)
        BY <1>1 DEF CountInv
      <3>2. truth[k][key] = Nothing \/ local[k].timesum[SlotIndex(key)].timekey >= key
        BY <3>1, Zenon DEF Remembered
      <3>3. had = Nothing
        <4>1. old.timekey \in Nat
          BY <1>2 DEF SlotType
        <4> HIDE DEF i, key
        <4> QED
          BY <1>1, <1>5, <2>2, <3>2, <4>1
      <3>4. slot.sum = 0 /\ slot.refuse = 0 /\ slot.setrefuse = 0
        BY <2>2 DEF NoSlot
      <3> QED
        BY <3>3, <3>4 DEF Holds, Nothing
    <2> QED
      BY <2>1, <2>2
  <1>7. slot \in SlotType /\ slot.timekey = key
    BY <1>1, <1>2 DEF NoSlot, SlotType
  <1>8. ring = [olds EXCEPT ![i] = new]
    BY Zenon DEF Counted
  <1> HIDE DEF key, olds, i, o, so, p, no, slot, old, ring, had
  <1>9. /\ new.timekey = key /\ new.sum = slot.sum + no
        /\ new.refuse = slot.refuse + o /\ new.setrefuse = slot.setrefuse + so
    BY <1>7 DEF SlotType
  <1>10. key > 0 => Holds(new, was)
    BY <1>3, <1>4, <1>6, <1>7, <1>9 DEF Holds, SlotType, TruthType
  <1>11. was \in TruthType
    BY <1>3, <1>4 DEF TruthType
  <1> HIDE DEF new, was
  <1>12. ring[i] = new /\ \A j \in Slots \ {i} : ring[j] = olds[j]
    BY <1>1, <1>2, <1>8 DEF RingType
  <1>13. /\ i \in Slots /\ SlotIndex(key) = i /\ key \in 0 .. MaxTime
         /\ was \in TruthType
         /\ ring[i].timekey = key
         /\ key > 0 => Holds(ring[i], was)
         /\ \A j \in Slots \ {i} : ring[j] = olds[j]
         /\ olds[i].timekey <= key
    BY <1>1, <1>5, <1>9, <1>10, <1>11, <1>12 DEF old
  <1> QED
    BY <1>13, Zenon DEF key, olds, i, o, so, p, ring, had, was

LEMMA CountCheck ==
  ASSUME Typed, CountInv, NEW t \in Threads, NEW k \in Keys, NEW total \in Totals,
         CheckQuota(t, k, total)
  PROVE  CountInv'
  <1> DEFINE i == SlotIndex(now)
             key == TimeKey(now)
             olds == local[k].timesum
             ring == Counted(olds, Over(k, total), SetOver(k, total))
             was == [passed |-> truth[k][key].passed + One(Passes(k, total)),
                     refuse |-> truth[k][key].refuse + One(Over(k, total)),
                     setrefuse |-> truth[k][key].setrefuse + One(SetOver(k, total))]
  <1>1. /\ i \in Slots /\ SlotIndex(key) = i /\ key \in 0 .. MaxTime
        /\ was \in TruthType
        /\ ring[i].timekey = key
        /\ key > 0 => Holds(ring[i], was)
        /\ \A j \in Slots \ {i} : ring[j] = olds[j]
        /\ olds[i].timekey <= key
    BY CountedSlot
  <1>2. /\ local' = [local EXCEPT ![k] = Judged(k, total)] /\ now' = now
        /\ truth' = [truth EXCEPT ![k][key] = was]
    BY Zenon DEF CheckQuota, Recorded
  <1>3. local'[k].timesum = ring /\ \A j \in Keys \ {k} : local'[j] = local[j]
    BY <1>2, JudgedIsEntry DEF Typed
  <1>4. olds \in RingType
    BY DEF Typed, IsEntry
  <1> HIDE DEF i, key, ring, was
  <1>5. /\ truth \in [Keys -> [0 .. MaxTime -> TruthType]]
        /\ truth' \in [Keys -> [0 .. MaxTime -> TruthType]]
        /\ truth'[k][key] = was
        /\ \A j \in Keys \ {k} : truth'[j] = truth[j]
        /\ \A s \in (0 .. MaxTime) \ {key} : truth'[k][s] = truth[k][s]
    BY <1>1, <1>2 DEF CountInv
  <1>6. ASSUME NEW j \in Keys \ {k}
        PROVE  /\ \A n \in Slots : InPlace(j, n)'
               /\ \A s \in 0 .. MaxTime : Remembered(j, s)'
               /\ \A n \in Slots :
                    local'[j].timesum[n].timekey > 0
                      => Holds(local'[j].timesum[n],
                               truth'[j][local'[j].timesum[n].timekey])
    BY <1>2, <1>3, <1>5 DEF CountInv, InPlace, Remembered
  <1>7. ASSUME NEW n \in Slots PROVE InPlace(k, n)'
    <2>1. CASE n = i
      BY <1>1, <1>2, <1>3, <2>1 DEF InPlace, key
    <2>2. CASE n # i
      BY <1>1, <1>2, <1>3, <2>2 DEF InPlace, CountInv
    <2> QED
      BY <2>1, <2>2
  <1>8. ASSUME NEW s \in 0 .. MaxTime PROVE Remembered(k, s)'
    <2>1. Remembered(k, s) /\ s \in Nat
      BY LocalAssumption DEF CountInv
    <2>2. CASE s = key
      <3>1. ring[SlotIndex(s)].timekey >= s
        BY <1>1, <2>1, <2>2
      <3> QED
        BY <1>3, <3>1 DEF Remembered
    <2>3. CASE s # key
      <3>1. truth'[k][s] = truth[k][s]
        BY <1>5, <2>3
      <3>2. SlotIndex(s) \in Slots
        BY <2>1, SlotIndexInRing
      <3>3. CASE SlotIndex(s) = i
        <4>1. olds[i].timekey \in Nat /\ key \in Nat
          BY <1>1, <1>4, LocalAssumption DEF RingType, SlotType
        <4>2. truth[k][s] = Nothing \/ olds[i].timekey >= s
          BY <2>1, <3>3 DEF Remembered
        <4> HIDE DEF olds
        <4>3. truth[k][s] = Nothing \/ ring[SlotIndex(s)].timekey >= s
          BY <1>1, <2>1, <3>3, <4>1, <4>2
        <4> QED
          BY <1>3, <3>1, <4>3 DEF Remembered
      <3>4. CASE SlotIndex(s) # i
        BY <1>1, <1>3, <2>1, <3>1, <3>2, <3>4 DEF Remembered
      <3> QED
        BY <3>3, <3>4
    <2> QED
      BY <2>2, <2>3
  <1>9. ASSUME NEW n \in Slots, ring[n].timekey > 0
        PROVE  Holds(ring[n], truth'[k][ring[n].timekey])
    <2>1. CASE n = i
      BY <1>1, <1>5, <1>9, <2>1
    <2>2. CASE n # i
      <3>1. ring[n] = olds[n] /\ olds[n].timekey > 0
        BY <1>1, <1>9, <2>2
      <3>2. Holds(olds[n], truth[k][olds[n].timekey])
        BY <3>1 DEF CountInv
      <3>3. InPlace(k, n)
        BY DEF CountInv
      <3>4. SlotIndex(olds[n].timekey) = n /\ olds[n].timekey <= key
        BY <3>1, <3>3 DEF InPlace, key
      <3>5. olds[n].timekey \in (0 .. MaxTime) \ {key}
        <4>1. olds[n].timekey \in Nat
          BY <1>4 DEF RingType, SlotType
        <4> HIDE DEF olds
        <4> QED
          BY <1>1, <2>2, <3>4, <4>1, LocalAssumption
      <3>6. truth'[k][olds[n].timekey] = truth[k][olds[n].timekey]
        BY <1>5, <3>5
      <3> QED
        BY <3>1, <3>2, <3>6
    <2> QED
      BY <2>1, <2>2
  <1>10. \A j \in Keys, n \in Slots : InPlace(j, n)'
    BY <1>6, <1>7
  <1>11. \A j \in Keys, s \in 0 .. MaxTime : Remembered(j, s)'
    BY <1>6, <1>8
  <1>12. \A j \in Keys, n \in Slots :
           local'[j].timesum[n].timekey > 0
             => Holds(local'[j].timesum[n],
                      truth'[j][local'[j].timesum[n].timekey])
    BY <1>3, <1>6, <1>9
  <1> QED
    BY <1>5, <1>10, <1>11, <1>12 DEF CountInv

LEMMA CountNext == Typed /\ CountInv /\ [Next]_vars => CountInv'
  <1> SUFFICES ASSUME Typed, CountInv, [Next]_vars PROVE CountInv'
    OBVIOUS
  <1>1. CASE Call
    BY <1>1, CountCheck DEF Call
  <1>2. CASE Return
    <2>1. PICK t \in Threads : Fails(t) \/ \E a \in Answers : Answered(t, a)
      BY <1>2 DEF Return
    <2>2. \A j \in Keys : local'[j].timesum = local[j].timesum
      BY <2>1, ReturnKeeps DEF Kept
    <2>3. UNCHANGED <<truth, now>>
      BY <2>1, ReturnKeeps DEF Returns
    <2> QED
      BY <2>2, <2>3 DEF CountInv, InPlace, Remembered
  <1>3. CASE ClearData
    <2> DEFINE gone == {k \in known : Expired(k)}
    <2>1. /\ local' = [k \in Keys |-> IF k \in gone THEN NoEntry ELSE local[k]]
          /\ truth' = [k \in Keys |-> IF k \in gone THEN NoTruth ELSE truth[k]]
          /\ now' = now
      BY <1>3, Zenon DEF ClearData
    <2> HIDE DEF gone
    <2>2. truth' \in [Keys -> [0 .. MaxTime -> TruthType]]
      BY <2>1, NothingIsTruth DEF CountInv
    <2>3. ASSUME NEW k \in Keys
          PROVE  /\ \A i \in Slots : InPlace(k, i)'
                 /\ \A t \in 0 .. MaxTime : Remembered(k, t)'
                 /\ \A i \in Slots :
                      local'[k].timesum[i].timekey > 0
                        => Holds(local'[k].timesum[i],
                                 truth'[k][local'[k].timesum[i].timekey])
      <3>1. CASE k \in gone
        <4>1. local'[k] = NoEntry /\ truth'[k] = NoTruth
          BY <2>1, <3>1
        <4> QED
          BY <4>1, EmptyRing, NothingIsTruth DEF InPlace, Remembered
      <3>2. CASE k \notin gone
        <4>1. local'[k] = local[k] /\ truth'[k] = truth[k]
          BY <2>1, <3>2
        <4> QED
          BY <2>1, <4>1 DEF CountInv, InPlace, Remembered
      <3> QED
        BY <3>1, <3>2
    <2> QED
      BY <2>2, <2>3 DEF CountInv
  <1>4. CASE Tick
    <2>1. now' = now + 1 /\ UNCHANGED <<local, truth>>
      BY <1>4 DEF Tick, history
    <2>2. /\ now \in Nat /\ now + 1 \in Nat /\ now <= now + 1
      BY DEF Typed
    <2>3. TimeKey(now) <= TimeKey(now + 1)
      BY <2>2, TimeKeyMonotone
    <2>4. TimeKey(now) \in Nat /\ TimeKey(now + 1) \in Nat
      BY <2>2, TimeKeyBounds
    <2>5. ASSUME NEW k \in Keys, NEW i \in Slots PROVE InPlace(k, i)'
      <3>1. local[k].timesum[i].timekey \in Nat
        BY DEF Typed, IsEntry, RingType, SlotType
      <3>2. InPlace(k, i)
        BY DEF CountInv
      <3> QED
        BY <2>1, <2>3, <2>4, <3>1, <3>2 DEF InPlace
    <2> QED
      BY <2>1, <2>5 DEF CountInv, Remembered
  <1>5. CASE UNCHANGED vars
    BY <1>5 DEF vars, history, CountInv, InPlace, Remembered
  <1> QED
    BY <1>1, <1>2, <1>3, <1>4, <1>5 DEF Next

LEMMA CountInit == Init => CountInv
  <1> SUFFICES ASSUME Init PROVE CountInv
    OBVIOUS
  <1>1. \A k \in Keys : local[k] = NoEntry /\ truth[k] = NoTruth
    BY DEF Init
  <1>2. truth \in [Keys -> [0 .. MaxTime -> TruthType]]
    BY NothingIsTruth DEF Init
  <1>3. \A k \in Keys, i \in Slots : local[k].timesum[i].timekey = 0
    BY <1>1, EmptyRing
  <1>4. \A k \in Keys, t \in 0 .. MaxTime : truth[k][t] = Nothing
    BY <1>1, NothingIsTruth
  <1>5. \A k \in Keys, i \in Slots : InPlace(k, i)
    BY <1>3 DEF InPlace
  <1>6. \A k \in Keys, t \in 0 .. MaxTime : Remembered(k, t)
    BY <1>4 DEF Remembered
  <1> QED
    BY <1>2, <1>3, <1>5, <1>6 DEF CountInv

\* A slot of timesum holds exactly the requests of its own time, passed and
\* refused apart, however often the ring has gone round (CheckQuota, ClearData).
THEOREM SlotsAreExact == Spec => []SlotsCountRequests
  <1>1. Init => Typed /\ CountInv
    BY TypedInit, CountInit
  <1>2. Typed /\ CountInv /\ [Next]_vars => (Typed /\ CountInv)'
    BY TypedNext, CountNext
  <1> QED
    BY <1>1, <1>2, CountMeans, PTL DEF Spec
=============================================================================
