--------------------------- MODULE PhpApi_proofs ---------------------------
(***************************************************************************)
(* The PHP API, for any number of workers and any quotas, periods and      *)
(* answers: the report lock, the types, the passes of a second, the slots  *)
(* of the statistics and what is reported of them.                         *)
(***************************************************************************)
EXTENDS PhpApi, FluxTime_proofs

\* The row has its fields, and the lock is a number.
RowLock ==
  /\ row = [totalworkernum |-> row.totalworkernum,
            localquotaver |-> row.localquotaver,
            updatetime |-> row.updatetime, now |-> row.now,
            nowsum |-> row.nowsum, setquota |-> row.setquota,
            procquota |-> row.procquota, index |-> row.index,
            reportLock |-> row.reportLock]
  /\ row.reportLock \in Nat

\* LockExclusive, and the lock is taken while somebody reports even when one
\* that died has left it taken.
OneReporter == \A u, w \in Reporters : u = w
LockHeld == Reporters # {} => row.reportLock > 0
NotLeft == ~orphaned /\ row.reportLock > 0 => Reporters # {}

LockInv ==
  /\ DOMAIN pc = Workers
  /\ RowLock
  /\ ~erased => OneReporter /\ LockHeld /\ NotLeft

LEMMA LockInvExclusive == LockInv => LockExclusive
BY DEF LockInv, RowLock, OneReporter, LockHeld, NotLeft, LockExclusive

LEMMA NoRowLock ==
  ASSUME row' = NoRow PROVE RowLock' /\ row'.reportLock = 0
BY DEF NoRow, RowLock

LEMMA InitLock == Init => LockInv
<1> SUFFICES ASSUME Init PROVE LockInv  OBVIOUS
<1>1. RowLock /\ row.reportLock = 0  BY DEF Init, NoRow, RowLock
<1>2. Reporters = {}  BY DEF Init, Reporters
<1> QED BY <1>1, <1>2 DEF Init, LockInv, OneReporter, LockHeld, NotLeft

\* A step of a worker that does not report before it or after it, and leaves
\* the lock.
LEMMA LockKept ==
  ASSUME LockInv, RowLock', row'.reportLock = row.reportLock,
         Reporters' = Reporters, DOMAIN pc' = Workers,
         orphaned' = orphaned, erased' = erased
  PROVE  LockInv'
BY DEF LockInv, OneReporter, LockHeld, NotLeft

LEMMA GotoOutside ==
  ASSUME NEW w \in Workers, NEW at, DOMAIN pc = Workers, Goto(w, at),
         w \notin Reporters, at \notin {"report", "unlock"}
  PROVE  DOMAIN pc' = Workers /\ Reporters' = Reporters
BY DEF Goto, Reporters

LEMMA GotoOut ==
  ASSUME NEW w \in Workers, NEW at, DOMAIN pc = Workers, Goto(w, at),
         at \notin {"report", "unlock"}
  PROVE  DOMAIN pc' = Workers /\ Reporters' = Reporters \ {w}
BY DEF Goto, Reporters

\* What a call does to the row but for its lock.
LEMMA RowKept ==
  ASSUME RowLock,
         \/ row' = row
         \/ \E t, n : row' = [row EXCEPT !.now = t, !.nowsum = n]
         \/ \E i, u, n, v, s, p :
              row' = [row EXCEPT !.index = i, !.updatetime = u, !.totalworkernum = n,
                                 !.localquotaver = v, !.setquota = s, !.procquota = p]
         \/ \E u : row' = [row EXCEPT !.updatetime = u]
  PROVE  RowLock' /\ row'.reportLock = row.reportLock
BY DEF RowLock

\* The lock is free and nobody reports, or the row was lost under a report.
LEMMA FreedByNobody ==
  ASSUME LockInv, RowLock', row'.reportLock = 0,
         erased' = (erased \/ Reporters # {}),
         DOMAIN pc' = Workers, Reporters' = Reporters
  PROVE  LockInv'
<1>1. ~erased' => Reporters' = {}  BY Zenon
<1>2. ~(row'.reportLock > 0)  OBVIOUS
<1> QED BY <1>1, <1>2 DEF LockInv, OneReporter, LockHeld, NotLeft

LEMMA LockStep == LockInv /\ [Next]_vars => LockInv'
<1> SUFFICES ASSUME LockInv, [Next]_vars PROVE LockInv'  OBVIOUS
<1>0. DOMAIN pc = Workers /\ RowLock  BY DEF LockInv
<1>1. ASSUME NEW w \in Workers,
             \/ Begin(w) \/ GetLocal(w) \/ GetSetQuot(w) \/ CountSet(w)
             \/ GetTimesum(w) \/ MakeSlots(w) \/ CountSlot(w) \/ CheckLock(w)
      PROVE  LockInv'
  <2>1. PICK at \in {"local", "set", "make", "setcount", "key", "count",
                     "makeslots", "lock", "incr", "clean"} : Goto(w, at)
    BY <1>1 DEF Begin, GetLocal, GetSetQuot, CountSet, GetTimesum, MakeSlots,
                CountSlot, CheckLock, Ends
  <2>2. w \notin Reporters
    BY <1>1 DEF Begin, GetLocal, GetSetQuot, CountSet, GetTimesum, MakeSlots,
                CountSlot, CheckLock, Reporters
  <2>3. row' = row /\ orphaned' = orphaned /\ erased' = erased
    BY <1>1 DEF Begin, GetLocal, GetSetQuot, CountSet, GetTimesum, MakeSlots,
                CountSlot, CheckLock, tables, history
  <2> QED BY <1>0, <2>1, <2>2, <2>3, GotoOutside, RowKept, LockKept
<1>2. ASSUME NEW w \in Workers, MakeLocal(w) PROVE LockInv'
  <2>1. DOMAIN pc' = Workers /\ Reporters' = Reporters
    <3>1. w \notin Reporters /\ Goto(w, "set")  BY <1>2 DEF MakeLocal, Reporters
    <3> QED BY <1>0, <3>1, GotoOutside
  <2>2. /\ row' = NoRow /\ erased' = (erased \/ Reporters # {})
        /\ orphaned' = orphaned
    BY <1>2 DEF MakeLocal
  <2>3. RowLock' /\ row'.reportLock = 0  BY <2>2, NoRowLock
  <2> QED BY <2>1, <2>2, <2>3, FreedByNobody
<1>3. ASSUME NEW w \in Workers, Judge(w) PROVE LockInv'
  <2>1. w \notin Reporters /\ Goto(w, "slots") /\ orphaned' = orphaned /\ erased' = erased
    BY <1>3 DEF Judge, Reporters
  <2>2. row' = row \/ \E t, n : row' = [row EXCEPT !.now = t, !.nowsum = n]
    <3>1. CASE row' = row  BY <3>1
    <3>2. CASE row' = Counted(call[w].local, call[w].now)
      <4>1. Counted(call[w].local, call[w].now)
              = [row EXCEPT !.now = call[w].now, !.nowsum = 1]
            \/ Counted(call[w].local, call[w].now) = [row EXCEPT !.nowsum = row.nowsum + 1]
        BY DEF Counted
      <4>2. [row EXCEPT !.nowsum = row.nowsum + 1]
              = [row EXCEPT !.now = row.now, !.nowsum = row.nowsum + 1]
        BY <1>0 DEF RowLock
      <4> QED BY <3>2, <4>1, <4>2
    <3> QED BY <1>3, <3>1, <3>2 DEF Judge
  <2> QED BY <1>0, <2>1, <2>2, GotoOutside, RowKept, LockKept
<1>4. ASSUME NEW w \in Workers, TakeLock(w) PROVE LockInv'
  <2>1. /\ row' = [row EXCEPT !.reportLock = row.reportLock + 1]
        /\ erased' = erased /\ orphaned' = orphaned
        /\ w \notin Reporters
    BY <1>4 DEF TakeLock, Reporters
  <2>2. RowLock' /\ row'.reportLock = row.reportLock + 1 /\ row.reportLock \in Nat
    BY <1>0, <2>1 DEF RowLock
  <2>3. CASE row.reportLock = 0
    <3>1. Goto(w, "report")  BY <1>4, <2>2, <2>3 DEF TakeLock, Won
    <3>2. DOMAIN pc' = Workers /\ Reporters' = Reporters \cup {w}
      BY <1>0, <3>1 DEF Goto, Reporters
    <3>3. ~erased => Reporters = {}  BY <2>3 DEF LockInv, LockHeld
    <3> QED BY <2>1, <2>2, <2>3, <3>2, <3>3 DEF LockInv, OneReporter, LockHeld, NotLeft
  <2>4. CASE row.reportLock > 0
    <3>1. Goto(w, "clean")  BY <1>4, <2>2, <2>4 DEF TakeLock, Won, Ends
    <3>2. DOMAIN pc' = Workers /\ Reporters' = Reporters
      BY <1>0, <2>1, <3>1, GotoOutside
    <3> QED BY <2>1, <2>2, <2>4, <3>2 DEF LockInv, OneReporter, LockHeld, NotLeft
  <2> QED BY <2>2, <2>3, <2>4
<1>5. ASSUME NEW w \in Workers,
             AnsweredOther(w) \/ Fails(w) \/ \E a \in Answers : Answered(w, a)
      PROVE  LockInv'
  <2>1. /\ Goto(w, "unlock") /\ pc[w] = "report"
        /\ orphaned' = orphaned /\ erased' = erased
    BY <1>5 DEF AnsweredOther, Fails, Answered, Ends, history
  <2>2. DOMAIN pc' = Workers /\ Reporters' = Reporters
    BY <1>0, <2>1 DEF Goto, Reporters
  <2>3. RowLock' /\ row'.reportLock = row.reportLock
    <3>1. CASE AnsweredOther(w)  BY <1>0, <3>1, RowKept DEF AnsweredOther
    <3>2. CASE Fails(w)  BY <1>0, <3>2, RowKept DEF Fails, tables
    <3>3. CASE \E a \in Answers : Answered(w, a)
      <4>1. PICK a \in Answers :
              row' = [row EXCEPT !.index = row.index + 1, !.updatetime = call[w].now,
                                 !.totalworkernum = a.totalworkernum,
                                 !.localquotaver = GetAverQ(qarray'),
                                 !.setquota = a.setquota, !.procquota = a.procquota]
        BY <3>3 DEF Answered
      <4> QED BY <1>0, <4>1, RowKept
    <3> QED BY <1>5, <3>1, <3>2, <3>3
  <2> QED BY <2>1, <2>2, <2>3, LockKept
<1>6. ASSUME NEW w \in Workers, AnswerThrows(w) PROVE LockInv'
  <2>1. /\ row' = row /\ erased' = erased /\ orphaned' = TRUE /\ Goto(w, "idle")
    BY <1>6 DEF AnswerThrows, Ends, tables
  <2>2. DOMAIN pc' = Workers /\ Reporters' = Reporters \ {w}
    BY <1>0, <2>1, GotoOut
  <2>3. RowLock' /\ row'.reportLock = row.reportLock  BY <1>0, <2>1, RowKept
  <2> QED BY <2>1, <2>2, <2>3 DEF LockInv, OneReporter, LockHeld, NotLeft
<1>7. ASSUME NEW w \in Workers, Unlock(w) PROVE LockInv'
  <2>1. /\ row' = [row EXCEPT !.reportLock = 0] /\ w \in Reporters
        /\ erased' = erased /\ orphaned' = orphaned /\ Goto(w, "clean")
    BY <1>7 DEF Unlock, Reporters, history
  <2>2. RowLock' /\ row'.reportLock = 0  BY <1>0, <2>1 DEF RowLock
  <2>3. DOMAIN pc' = Workers /\ Reporters' = Reporters \ {w}
    BY <1>0, <2>1, GotoOut
  <2>4. ~erased => Reporters' = {}  BY <2>1, <2>3 DEF LockInv, OneReporter
  <2> QED BY <2>1, <2>2, <2>3, <2>4 DEF LockInv, OneReporter, LockHeld, NotLeft
<1>8. ASSUME NEW w \in Workers, Finish(w) PROVE LockInv'
  <2>1. w \notin Reporters /\ Goto(w, "idle") /\ orphaned' = orphaned
    BY <1>8 DEF Finish, Reporters
  <2>2. DOMAIN pc' = Workers /\ Reporters' = Reporters
    BY <1>0, <2>1, GotoOutside
  <2>3. CASE row' = NoRow /\ erased' = (erased \/ Reporters # {})
    <3>1. RowLock' /\ row'.reportLock = 0  BY <2>3, NoRowLock
    <3> QED BY <2>2, <2>3, <3>1, FreedByNobody
  <2>4. CASE row' = row /\ erased' = erased
    BY <1>0, <2>1, <2>2, <2>4, RowKept, LockKept
  <2> QED BY <1>8, <2>3, <2>4 DEF Finish
<1>9. ASSUME NEW w \in Workers, Dies(w) PROVE LockInv'
  <2>1. /\ row' = row /\ erased' = erased /\ orphaned' = (orphaned \/ w \in Reporters)
        /\ Goto(w, "idle")
    BY <1>9 DEF Dies, Ends, tables
  <2>2. DOMAIN pc' = Workers /\ Reporters' = Reporters \ {w}
    BY <1>0, <2>1, GotoOut
  <2>3. RowLock' /\ row'.reportLock = row.reportLock  BY <1>0, <2>1, RowKept
  <2> QED BY <2>1, <2>2, <2>3 DEF LockInv, OneReporter, LockHeld, NotLeft
<1>10. CASE Tick \/ UNCHANGED vars
  <2>1. pc' = pc /\ row' = row /\ orphaned' = orphaned /\ erased' = erased
    BY <1>10 DEF Tick, vars, tables, history
  <2>2. Reporters' = Reporters  BY <2>1 DEF Reporters
  <2> QED BY <1>0, <2>1, <2>2, RowKept, LockKept
<1> QED
  BY <1>1, <1>2, <1>3, <1>4, <1>5, <1>6, <1>7, <1>8, <1>9, <1>10 DEF Next

\* The key is reported by one worker at a time and the lock is not left taken,
\* unless the row was lost under a report or a reporter died
\* (FcApi.class.php, 253-401).
THEOREM LockExclusiveHolds == Spec => []LockExclusive
BY InitLock, LockStep, LockInvExclusive, PTL DEF Spec

-----------------------------------------------------------------------------
\* Types.

RowType ==
  {r \in [totalworkernum : Nat, localquotaver : Nat, updatetime : Nat,
          now : Nat, nowsum : Nat, setquota : Nat, procquota : Nat,
          index : Nat, reportLock : Nat] :
     r.setquota > 0 => r.totalworkernum > 0}
SlotType == [timekey : Nat, sum : Nat, refuse : Nat]
CallType == [now : Seconds, local : RowType, fresh : BOOLEAN, setsum : Nat,
             setbegin : Nat, pass : BOOLEAN, timesum : [Slots -> SlotType],
             missing : SUBSET Slots, stale : BOOLEAN]
SecondType == [passes : Nat, most : Nat, begins : Nat]
Places == {"idle", "local", "make", "set", "setcount", "key", "slots",
           "makeslots", "count", "lock", "incr", "report", "unlock", "clean"}

TypeInv ==
  /\ clock \in Seconds
  /\ row \in RowType
  /\ setrow \in [now : Nat, nowsum : Nat]
  /\ slots \in [Slots -> SlotType]
  /\ qarray \in [0 .. QuotaArrayNum - 1 -> Nat]
  /\ made \in [row : BOOLEAN, slots : SUBSET Slots]
  /\ pc \in [Workers -> Places]
  /\ cleaned \subseteq Workers
  /\ orphaned \in BOOLEAN /\ erased \in BOOLEAN
  /\ call \in [Workers -> CallType]
  /\ second \in [Seconds -> SecondType] /\ setsecond \in [Seconds -> SecondType]

LEMMA SecondsNat == Seconds \subseteq Nat /\ Start \in Seconds
BY PhpAssumption DEF Seconds

LEMMA TypeInvTypes == TypeInv => TypeOK
BY SecondsNat DEF TypeInv, TypeOK, RowType, SlotType, Places

LEMMA Numbers ==
  /\ Start \in Nat \ {0} /\ QuotaArrayNum \in Nat \ {0} /\ Period \in Nat \ {0}
  /\ Floor \in Nat \ {0} /\ NoQuota \in Nat \ {0} /\ TotalQuota \in Nat
  /\ FloatPercent \in Nat /\ HeartBeat \in Nat
BY PhpAssumption, SlotAssumption, PeriodPositive

LEMMA NoTypes ==
  /\ NoRow \in RowType /\ NoSlot \in SlotType /\ NoSlots \in [Slots -> SlotType]
  /\ NoQuotas \in [0 .. QuotaArrayNum - 1 -> Nat]
  /\ NoCall \in CallType /\ NoSecond \in SecondType
<1>1. NoRow \in RowType  BY DEF NoRow, RowType
<1>2. NoSlot \in SlotType /\ NoSlots \in [Slots -> SlotType]
  BY DEF NoSlot, NoSlots, SlotType
<1>3. NoCall \in CallType  BY <1>1, <1>2, SecondsNat DEF NoCall, CallType
<1> QED BY <1>1, <1>2, <1>3 DEF NoQuotas, NoSecond, SecondType

LEMMA InitTypes == Init => TypeInv
<1> SUFFICES ASSUME Init PROVE TypeInv  OBVIOUS
<1>1. clock \in Seconds  BY SecondsNat DEF Init
<1>2. call \in [Workers -> CallType]  BY NoTypes DEF Init
<1>3. pc \in [Workers -> Places]  BY DEF Init, Places
<1> QED BY <1>1, <1>2, <1>3, NoTypes DEF Init, TypeInv

LEMMA CountedType ==
  ASSUME TypeInv, NEW l \in RowType, NEW t \in Nat
  PROVE  Counted(l, t) \in RowType
<1>1. row \in RowType  BY DEF TypeInv
<1>2. \A n, s \in Nat : [row EXCEPT !.now = n, !.nowsum = s] \in RowType
  BY <1>1 DEF RowType
<1>3. row.nowsum + 1 \in Nat /\ row.now \in Nat  BY <1>1 DEF RowType
<1>4. [row EXCEPT !.nowsum = row.nowsum + 1]
        = [row EXCEPT !.now = row.now, !.nowsum = row.nowsum + 1]
  BY <1>1 DEF RowType
<1>5. [row EXCEPT !.nowsum = row.nowsum + 1] \in RowType
  BY <1>2, <1>3, <1>4
<1> QED BY <1>2, <1>5 DEF Counted

\* The row of the key stays one.
LEMMA RowStep ==
  ASSUME TypeInv, Next PROVE row' \in RowType
<1>0. row \in RowType /\ call \in [Workers -> CallType]  BY DEF TypeInv
<1>1. ASSUME NEW w \in Workers, Judge(w) PROVE row' \in RowType
  <2>1. call[w].local \in RowType /\ call[w].now \in Nat  BY <1>0, SecondsNat DEF CallType
  <2> QED BY <1>0, <1>1, <2>1, CountedType DEF Judge
<1>2. ASSUME NEW w \in Workers, TakeLock(w) PROVE row' \in RowType
  BY <1>0, <1>2 DEF TakeLock, RowType
<1>3. ASSUME NEW w \in Workers, NEW a \in Answers, Answered(w, a) PROVE row' \in RowType
  <2>1. /\ a.localq \in Nat /\ a.totalworkernum \in Nat \ {0}
        /\ a.setquota \in Nat /\ a.procquota \in Nat
    BY PhpAssumption
  <2>2. qarray' \in [0 .. QuotaArrayNum - 1 -> Nat]
    BY <1>3, <2>1 DEF Answered, TypeInv
  <2>3. GetAverQ(qarray') \in Nat
    BY <2>2, MeanType, PhpAssumption DEF GetAverQ
  <2>4. call[w].now \in Nat  BY <1>0, SecondsNat DEF CallType
  <2>5. \A n, v, u, i, s, p \in Nat :
          n > 0 => [row EXCEPT !.index = i, !.updatetime = u, !.totalworkernum = n,
                               !.localquotaver = v, !.setquota = s, !.procquota = p]
                     \in RowType
    <3>1. ASSUME NEW n \in Nat, NEW v \in Nat, NEW u \in Nat,
                 NEW i \in Nat, NEW s \in Nat, NEW p \in Nat, n > 0
          PROVE  [row EXCEPT !.index = i, !.updatetime = u, !.totalworkernum = n,
                             !.localquotaver = v, !.setquota = s, !.procquota = p]
                   \in RowType
      BY ONLY <1>0, <3>1 DEF RowType
    <3> QED BY ONLY <3>1
  <2>6. row.index + 1 \in Nat  BY <1>0 DEF RowType
  <2>7. row' = [row EXCEPT !.index = row.index + 1, !.updatetime = call[w].now,
                           !.totalworkernum = a.totalworkernum,
                           !.localquotaver = GetAverQ(qarray'),
                           !.setquota = a.setquota, !.procquota = a.procquota]
    BY <1>3 DEF Answered
  <2>8. [row EXCEPT !.index = row.index + 1, !.updatetime = call[w].now,
                    !.totalworkernum = a.totalworkernum,
                    !.localquotaver = GetAverQ(qarray'),
                    !.setquota = a.setquota, !.procquota = a.procquota] \in RowType
    <3> DEFINE v == GetAverQ(qarray')
    <3>1. v \in Nat  BY <2>3
    <3>2. a.totalworkernum \in Nat /\ a.totalworkernum > 0  BY <2>1
    <3> HIDE DEF v
    <3>3. [row EXCEPT !.index = row.index + 1, !.updatetime = call[w].now,
                      !.totalworkernum = a.totalworkernum, !.localquotaver = v,
                      !.setquota = a.setquota, !.procquota = a.procquota] \in RowType
      BY <2>1, <2>4, <2>5, <2>6, <3>1, <3>2
    <3> QED BY <3>3 DEF v
  <2> QED BY <2>7, <2>8
<1>4. ASSUME NEW w \in Workers, AnsweredOther(w) PROVE row' \in RowType
  <2>1. call[w].now \in Nat  BY <1>0, SecondsNat DEF CallType
  <2> QED BY <1>0, <1>4, <2>1 DEF AnsweredOther, RowType
<1>5. ASSUME NEW w \in Workers, Unlock(w) PROVE row' \in RowType
  BY <1>0, <1>5 DEF Unlock, RowType
<1>6. ASSUME NEW w \in Workers, MakeLocal(w) \/ Finish(w) PROVE row' \in RowType
  BY <1>0, <1>6, NoTypes DEF MakeLocal, Finish
<1>7. ASSUME NEW w \in Workers,
             \/ Begin(w) \/ GetLocal(w) \/ GetSetQuot(w) \/ CountSet(w) \/ GetTimesum(w)
             \/ MakeSlots(w) \/ CountSlot(w) \/ CheckLock(w) \/ AnswerThrows(w)
             \/ Fails(w) \/ Dies(w)
      PROVE  row' = row
  BY <1>7 DEF Begin, GetLocal, GetSetQuot, CountSet, GetTimesum, MakeSlots, CountSlot,
              CheckLock, AnswerThrows, Fails, Dies, tables
<1>8. CASE Tick  BY <1>0, <1>8 DEF Tick, tables
<1> QED BY <1>0, <1>1, <1>2, <1>3, <1>4, <1>5, <1>6, <1>7, <1>8 DEF Next

\* The ring and the quotas.
LEMMA SlotsStep ==
  ASSUME TypeInv, Next PROVE slots' \in [Slots -> SlotType]
<1>0. slots \in [Slots -> SlotType] /\ call \in [Workers -> CallType]  BY DEF TypeInv
<1>1. ASSUME NEW w \in Workers, MakeSlots(w) PROVE slots' \in [Slots -> SlotType]
  BY <1>0, <1>1, NoTypes DEF MakeSlots
<1>2. ASSUME NEW w \in Workers, CountSlot(w) PROVE slots' \in [Slots -> SlotType]
  <2> DEFINE c == call[w]
             i == SlotIndex(c.now)
  <2>1. c.now \in Nat /\ i \in Slots /\ TimeKey(c.now) \in Nat
    BY <1>0, SecondsNat, SlotIndexInRing, TimeKeyBounds DEF CallType
  <2>2. \A s \in SlotType : \A p : Plus(s, p) \in SlotType
    BY DEF Plus, SlotType
  <2>3. [NoSlot EXCEPT !.timekey = TimeKey(c.now)] \in SlotType
    BY <2>1 DEF NoSlot, SlotType
  <2>4. SlotOf(c, i) \in SlotType
    BY <1>0, <2>1, <2>2, <2>3 DEF SlotOf
  <2> QED BY <1>0, <1>2, <2>1, <2>4 DEF CountSlot
<1>3. ASSUME NEW w \in Workers, Finish(w) PROVE slots' \in [Slots -> SlotType]
  BY <1>0, <1>3, NoTypes DEF Finish
<1>4. ASSUME NEW w \in Workers,
             \/ Begin(w) \/ GetLocal(w) \/ MakeLocal(w) \/ GetSetQuot(w) \/ CountSet(w)
             \/ Judge(w) \/ GetTimesum(w) \/ CheckLock(w) \/ TakeLock(w)
             \/ AnsweredOther(w) \/ AnswerThrows(w) \/ Fails(w) \/ Unlock(w) \/ Dies(w)
             \/ \E a \in Answers : Answered(w, a)
      PROVE  slots' = slots
  BY <1>4 DEF Begin, GetLocal, MakeLocal, GetSetQuot, CountSet, Judge, GetTimesum,
              CheckLock, TakeLock, AnsweredOther, AnswerThrows, Fails, Unlock, Dies,
              Answered, tables
<1>5. CASE Tick  BY <1>0, <1>5 DEF Tick, tables
<1> QED BY <1>0, <1>1, <1>2, <1>3, <1>4, <1>5 DEF Next

LEMMA QuotasStep ==
  ASSUME TypeInv, Next PROVE qarray' \in [0 .. QuotaArrayNum - 1 -> Nat]
<1>0. qarray \in [0 .. QuotaArrayNum - 1 -> Nat]  BY DEF TypeInv
<1>1. ASSUME NEW w \in Workers, Judge(w) \/ Finish(w)
      PROVE  qarray' \in [0 .. QuotaArrayNum - 1 -> Nat]
  BY <1>0, <1>1, NoTypes DEF Judge, Finish
<1>2. ASSUME NEW w \in Workers, NEW a \in Answers, Answered(w, a)
      PROVE  qarray' \in [0 .. QuotaArrayNum - 1 -> Nat]
  <2>1. a.localq \in Nat  BY PhpAssumption
  <2> QED BY <1>0, <1>2, <2>1 DEF Answered
<1>3. ASSUME NEW w \in Workers,
             \/ Begin(w) \/ GetLocal(w) \/ MakeLocal(w) \/ GetSetQuot(w) \/ CountSet(w)
             \/ GetTimesum(w) \/ MakeSlots(w) \/ CountSlot(w) \/ CheckLock(w) \/ TakeLock(w)
             \/ AnsweredOther(w) \/ AnswerThrows(w) \/ Fails(w) \/ Unlock(w) \/ Dies(w)
      PROVE  qarray' = qarray
  BY <1>3 DEF Begin, GetLocal, MakeLocal, GetSetQuot, CountSet, GetTimesum, MakeSlots,
              CountSlot, CheckLock, TakeLock, AnsweredOther, AnswerThrows, Fails, Unlock,
              Dies, tables
<1>4. CASE Tick  BY <1>0, <1>4 DEF Tick, tables
<1> QED BY <1>0, <1>1, <1>2, <1>3, <1>4 DEF Next

LEMMA SetCountedType ==
  ASSUME setrow \in [now : Nat, nowsum : Nat], NEW c \in CallType
  PROVE  SetCounted(c) \in [now : Nat, nowsum : Nat]
BY SecondsNat DEF SetCounted, CallType

\* What a call has read.
LEMMA OneCall ==
  ASSUME call \in [Workers -> CallType], NEW w \in Workers, NEW c \in CallType,
         call' = [call EXCEPT ![w] = c]
  PROVE  call' \in [Workers -> CallType]
OBVIOUS

LEMMA EndedCall ==
  ASSUME call \in [Workers -> CallType], NEW w \in Workers, NEW at, Ends(w, at)
  PROVE  call' \in [Workers -> CallType]
BY OneCall, NoTypes DEF Ends

LEMMA CountSetCall ==
  ASSUME call \in [Workers -> CallType], NEW w \in Workers, CountSet(w)
  PROVE  call' = [call EXCEPT ![w] =
                    [call[w] EXCEPT !.setsum = setrow'.nowsum, !.fresh = FALSE,
                       !.setbegin = setsecond'[call[w].now].begins]]
<1> DEFINE b == setsecond'[call[w].now].begins
<1>1. call' = [call EXCEPT ![w].setsum = setrow'.nowsum, ![w].fresh = FALSE,
                           ![w].setbegin = b]
  BY DEF CountSet
<1> HIDE DEF b
<1>2. call' = [call EXCEPT ![w] = [call[w] EXCEPT !.setsum = setrow'.nowsum,
                                     !.fresh = FALSE, !.setbegin = b]]
  BY <1>1
<1> QED BY <1>2 DEF b

LEMMA CallStep ==
  ASSUME TypeInv, Next, slots' \in [Slots -> SlotType],
         setsecond' \in [Seconds -> SecondType]
  PROVE  call' \in [Workers -> CallType]
<1>0. /\ call \in [Workers -> CallType] /\ row \in RowType /\ clock \in Seconds
      /\ slots \in [Slots -> SlotType] /\ setrow \in [now : Nat, nowsum : Nat]
      /\ made.slots \in SUBSET Slots
  BY DEF TypeInv
<1>1. ASSUME NEW w \in Workers, Begin(w) PROVE call' \in [Workers -> CallType]
  <2>1. call' = [call EXCEPT ![w] = [call[w] EXCEPT !.now = clock]]
    BY <1>0, <1>1 DEF Begin
  <2>2. [call[w] EXCEPT !.now = clock] \in CallType  BY <1>0 DEF CallType
  <2> QED BY <1>0, <2>1, <2>2, OneCall
<1>2. ASSUME NEW w \in Workers, GetLocal(w) PROVE call' \in [Workers -> CallType]
  <2>1. call' = [call EXCEPT ![w] = [call[w] EXCEPT !.local = row]]
    BY <1>0, <1>2 DEF GetLocal
  <2>2. [call[w] EXCEPT !.local = row] \in CallType  BY <1>0 DEF CallType
  <2> QED BY <1>0, <2>1, <2>2, OneCall
<1>3. ASSUME NEW w \in Workers, GetSetQuot(w) PROVE call' \in [Workers -> CallType]
  <2> DEFINE b == (setrow.now # call[w].now)
  <2>1. call' = [call EXCEPT ![w] = [call[w] EXCEPT !.fresh = b]]
    BY <1>0, <1>3 DEF GetSetQuot
  <2>2. b \in BOOLEAN  OBVIOUS
  <2> HIDE DEF b
  <2>3. [call[w] EXCEPT !.fresh = b] \in CallType  BY <1>0, <2>2 DEF CallType
  <2> QED BY <1>0, <2>1, <2>3, OneCall
<1>4. ASSUME NEW w \in Workers, CountSet(w) PROVE call' \in [Workers -> CallType]
  <2>1. setrow' \in [now : Nat, nowsum : Nat]  BY <1>0, <1>4, SetCountedType DEF CountSet
  <2> DEFINE b == setsecond'[call[w].now].begins
  <2>2. call[w] \in CallType /\ setrow'.nowsum \in Nat  BY <1>0, <2>1
  <2>3. b \in Nat  BY <2>2 DEF CallType, SecondType
  <2>4. call' = [call EXCEPT ![w] = [call[w] EXCEPT !.setsum = setrow'.nowsum,
                                       !.fresh = FALSE, !.setbegin = b]]
    BY <1>0, <1>4, CountSetCall
  <2> HIDE DEF b
  <2>5. [call[w] EXCEPT !.setsum = setrow'.nowsum, !.fresh = FALSE, !.setbegin = b]
          \in CallType
    BY ONLY <2>2, <2>3 DEF CallType
  <2> QED BY <1>0, <2>4, <2>5, OneCall
<1>5. ASSUME NEW w \in Workers, Judge(w) PROVE call' \in [Workers -> CallType]
  <2>1. PICK pass \in BOOLEAN :
          call' = [call EXCEPT ![w] =
                     [NoCall EXCEPT !.now = call[w].now, !.pass = pass,
                                    !.local.updatetime = call[w].local.updatetime,
                                    !.local.index = call[w].local.index]]
    BY <1>5 DEF Judge
  <2>2. /\ call[w].now \in Seconds /\ call[w].local.updatetime \in Nat
        /\ call[w].local.index \in Nat
    BY <1>0 DEF CallType, RowType
  <2>3. \A u, i \in Nat : [NoRow EXCEPT !.updatetime = u, !.index = i] \in RowType
    BY DEF NoRow, RowType
  <2>4. \A l \in RowType, t \in Seconds :
          [NoCall EXCEPT !.now = t, !.pass = pass, !.local = l] \in CallType
    BY NoTypes DEF CallType
  <2>5. [NoCall EXCEPT !.now = call[w].now, !.pass = pass,
                       !.local.updatetime = call[w].local.updatetime,
                       !.local.index = call[w].local.index]
          = [NoCall EXCEPT !.now = call[w].now, !.pass = pass,
                           !.local = [NoRow EXCEPT !.updatetime = call[w].local.updatetime,
                                                   !.index = call[w].local.index]]
    BY DEF NoCall
  <2> QED BY <1>0, <2>1, <2>2, <2>3, <2>4, <2>5, OneCall
<1>6. ASSUME NEW w \in Workers, GetTimesum(w) PROVE call' \in [Workers -> CallType]
  <2>1. call' = [call EXCEPT ![w] = [call[w] EXCEPT !.timesum = slots,
                                                    !.missing = Slots \ made.slots]]
    BY <1>0, <1>6 DEF GetTimesum
  <2>2. [call[w] EXCEPT !.timesum = slots, !.missing = Slots \ made.slots] \in CallType
    <3>1. call[w] \in CallType /\ slots \in [Slots -> SlotType]  BY <1>0 DEF TypeInv
    <3> QED BY ONLY <3>1 DEF CallType
  <2> QED BY <1>0, <2>1, <2>2, OneCall
<1>7. ASSUME NEW w \in Workers, MakeSlots(w) PROVE call' \in [Workers -> CallType]
  <2>1. call' = [call EXCEPT ![w] = [call[w] EXCEPT !.timesum = slots', !.missing = {}]]
    BY <1>0, <1>7 DEF MakeSlots
  <2>2. [call[w] EXCEPT !.timesum = slots', !.missing = {}] \in CallType
    BY <1>0 DEF CallType
  <2> QED BY <1>0, <2>1, <2>2, OneCall
<1>8. ASSUME NEW w \in Workers, CountSlot(w) PROVE call' \in [Workers -> CallType]
  <2> DEFINE i == SlotIndex(call[w].now)
             ts == [call[w].timesum EXCEPT ![i] = CopyOf(call[w], i, slots'[i])]
  <2>1. call[w].now \in Nat  BY <1>0, SecondsNat DEF CallType
  <2>2. i \in Slots  BY <2>1, SlotIndexInRing
  <2>3. call' = [call EXCEPT ![w] = [call[w] EXCEPT !.timesum = ts]]
    BY <1>0, <1>8 DEF CountSlot
  <2>4. ts \in [Slots -> SlotType]
    <3>1. call[w].timesum \in [Slots -> SlotType] /\ slots'[i] \in SlotType
      BY <1>0, <2>2 DEF CallType
    <3>2. CopyOf(call[w], i, slots'[i]) \in SlotType
      BY <2>2, <3>1 DEF CopyOf, SlotType
    <3> QED BY <3>1, <3>2
  <2> HIDE DEF ts
  <2>5. [call[w] EXCEPT !.timesum = ts] \in CallType
    <3>1. PICK c \in CallType : c = call[w]  BY <1>0
    <3>2. [c EXCEPT !.timesum = ts] \in CallType  BY <2>4 DEF CallType
    <3> QED BY <3>1, <3>2
  <2> QED BY <1>0, <2>3, <2>5, OneCall
<1>9. ASSUME NEW w \in Workers, CheckLock(w) PROVE call' \in [Workers -> CallType]
  BY <1>0, <1>9, EndedCall DEF CheckLock
<1>10. ASSUME NEW w \in Workers, TakeLock(w) PROVE call' \in [Workers -> CallType]
  <2>1. CASE Ends(w, "clean")  BY <1>0, <2>1, EndedCall
  <2>2. CASE call' = [u \in Workers |->
               IF u = w THEN [call[w] EXCEPT !.timesum = NoSlots, !.pass = FALSE,
                                             !.stale = FALSE]
               ELSE [call[u] EXCEPT !.stale =
                       @ \/ pc[u] \in {"makeslots", "count", "lock", "incr"}]]
    <3>1. [call[w] EXCEPT !.timesum = NoSlots, !.pass = FALSE, !.stale = FALSE] \in CallType
      BY <1>0, NoTypes DEF CallType
    <3>2. ASSUME NEW u \in Workers
          PROVE  [call[u] EXCEPT !.stale = call[u].stale
                    \/ pc[u] \in {"makeslots", "count", "lock", "incr"}] \in CallType
      <4> DEFINE b == call[u].stale \/ pc[u] \in {"makeslots", "count", "lock", "incr"}
      <4>1. b \in BOOLEAN  OBVIOUS
      <4> HIDE DEF b
      <4>2. PICK c \in CallType : c = call[u]  BY <1>0
      <4>3. [c EXCEPT !.stale = b] \in CallType  BY <4>1 DEF CallType
      <4> QED BY <4>2, <4>3 DEF b
    <3> QED BY <2>2, <3>1, <3>2
  <2> QED BY <1>10, <2>1, <2>2 DEF TakeLock
<1>11. ASSUME NEW w \in Workers,
              \/ AnsweredOther(w) \/ AnswerThrows(w) \/ Fails(w) \/ Dies(w)
              \/ \E a \in Answers : Answered(w, a)
       PROVE  call' \in [Workers -> CallType]
  BY <1>0, <1>11, EndedCall DEF AnsweredOther, AnswerThrows, Fails, Dies, Answered
<1>12. ASSUME NEW w \in Workers, MakeLocal(w) \/ Unlock(w) \/ Finish(w)
       PROVE  call' = call
  BY <1>12 DEF MakeLocal, Unlock, Finish
<1>13. CASE Tick  BY <1>0, <1>13 DEF Tick
<1> QED
  BY <1>0, <1>1, <1>2, <1>3, <1>4, <1>5, <1>6, <1>7, <1>8, <1>9, <1>10, <1>11,
     <1>12, <1>13 DEF Next

\* The limits are integers.
LEMMA Divides ==
  ASSUME NEW a \in Int, NEW b \in Nat \ {0}
  PROVE  a \div b \in Int
OBVIOUS

LEMMA BelowType ==
  ASSUME NEW n \in Nat, NEW d \in Nat \ {0}
  PROVE  Below([num |-> n, den |-> d]) \in Int
<1>1. (100 + FloatPercent) * n - 1 \in Int /\ 100 * d \in Nat \ {0}  BY Numbers
<1>2. ((100 + FloatPercent) * n - 1) \div (100 * d) \in Int  BY <1>1, Divides
<1> QED BY <1>2 DEF Below

LEMMA MostType ==
  ASSUME NEW l \in RowType, NEW t \in Nat
  PROVE  Most(l, t) \in Int
<1>1. \E n \in Nat, d \in Nat \ {0} : AverOf(l) = [num |-> n, den |-> d]
  <2>1. l.totalworkernum \in Nat  BY DEF RowType
  <2> QED BY <2>1, Numbers DEF AverOf
<1>2. Below(AverOf(l)) \in Int  BY <1>1, BelowType
<1>3. (l.localquotaver * (100 + FloatPercent)) \div 100 \in Int
  <2>1. l.localquotaver * (100 + FloatPercent) \in Int  BY Numbers DEF RowType
  <2> QED BY <2>1, Divides
<1> QED BY <1>2, <1>3 DEF Most

LEMMA SetShareType ==
  ASSUME NEW l \in RowType, SetValid(l)
  PROVE  Below(SetShare(l)) \in Int
<1>1. l.procquota \in Nat /\ l.setquota \in Nat /\ l.totalworkernum \in Nat \ {0}
  BY DEF RowType, SetValid
<1> QED BY <1>1, BelowType DEF SetShare

LEMMA BegunType ==
  ASSUME NEW s \in SecondType, NEW anew \in BOOLEAN
  PROVE  /\ Begun(s, anew) \in SecondType
         /\ Begun(s, anew).passes = s.passes /\ Begun(s, anew).most = s.most
         /\ Begun(s, anew).begins = IF anew THEN s.begins + 1 ELSE s.begins
BY DEF Begun, SecondType

LEMMA PassedType ==
  ASSUME NEW s \in SecondType, NEW most \in Int
  PROVE  /\ Passed(s, most) \in SecondType
         /\ Passed(s, most).passes = s.passes + 1
         /\ Passed(s, most).begins = s.begins
         /\ Passed(s, most).most >= s.most
         /\ Passed(s, most).most >= most
<1> DEFINE m == Greater(s.most, most)
<1>1. s.passes \in Nat /\ s.most \in Nat /\ s.begins \in Nat  BY DEF SecondType
<1>2. m \in Nat /\ m >= s.most /\ m >= most  BY <1>1 DEF Greater
<1>3. Passed(s, most) = [s EXCEPT !.passes = s.passes + 1, !.most = m]  BY DEF Passed
<1> HIDE DEF m
<1>4. ASSUME NEW i \in Nat, NEW k \in Nat
      PROVE  LET r == [s EXCEPT !.passes = i, !.most = k]
             IN  /\ r \in SecondType /\ r.passes = i
                 /\ r.most = k /\ r.begins = s.begins
  BY DEF SecondType
<1>5. PICK n \in Nat, j \in Nat : n = s.passes + 1 /\ j = m  BY <1>1, <1>2
<1>6. Passed(s, most) = [s EXCEPT !.passes = n, !.most = j]  BY <1>3, <1>5
<1>7. PICK r : r = [s EXCEPT !.passes = n, !.most = j]  OBVIOUS
<1>8. r \in SecondType /\ r.passes = n /\ r.most = j /\ r.begins = s.begins
  BY <1>4, <1>7
<1>9. r = Passed(s, most)  BY <1>6, <1>7
<1> QED BY <1>2, <1>5, <1>8, <1>9

\* The count of the key, when a request of it is judged, and its passes: it is
\* refused, or passes by itself, or begins the count of its second, or counts in
\* that of its own second, or in another's.
LEMMA JudgedKey ==
  ASSUME TypeInv, NEW w \in Workers, Judge(w)
  PROVE  LET t == call[w].now
             m == Most(call[w].local, t)
             Alone(most) == second' = [second EXCEPT ![t] = Passed(Begun(@, TRUE), most)]
         IN  \/ /\ second' = second /\ row'.now = row.now
                /\ row'.nowsum = row.nowsum + 1
             \/ Alone(1) /\ row' = row
             \/ Alone(1) /\ row'.now = t /\ row'.nowsum = 1
             \/ /\ second' = [second EXCEPT ![t] = Passed(@, m)]
                /\ row.now = t /\ row'.now = t /\ row'.nowsum = row.nowsum + 1
                /\ row.nowsum + 1 <= m
             \/ /\ Alone(m) /\ row.now # t /\ row'.now = row.now
                /\ row'.nowsum = row.nowsum + 1 /\ row.nowsum + 1 <= m
<1> DEFINE l == call[w].local
           t == call[w].now
           judged == t >= l.updatetime
           begins == judged /\ t # l.now
<1>1. row \in RowType /\ call \in [Workers -> CallType]  BY DEF TypeInv
<1>2. row' = IF judged THEN Counted(l, t) ELSE row  BY <1>1 DEF Judge
<1>3. PICK pass \in BOOLEAN :
        /\ ~judged \/ begins => pass
        /\ judged /\ ~begins => (pass => row'.nowsum <= Most(l, t))
        /\ second' =
             LET apart == ~judged \/ begins \/ row.now # t
             IN  IF pass
                 THEN [second EXCEPT ![t] =
                         Passed(Begun(@, apart),
                                IF judged /\ ~begins THEN Most(l, t) ELSE 1)]
                 ELSE second
  BY DEF Judge
<1>4. begins => Counted(l, t).now = t /\ Counted(l, t).nowsum = 1
  BY <1>1 DEF Counted, RowType
<1>5. ~begins /\ judged =>
        Counted(l, t).now = row.now /\ Counted(l, t).nowsum = row.nowsum + 1
  BY <1>1 DEF Counted, RowType
<1>6. CASE ~judged
  <2>1. pass /\ row' = row  BY <1>2, <1>3, <1>6
  <2>2. second' = [second EXCEPT ![t] = Passed(Begun(@, TRUE), 1)]
    BY <1>3, <1>6, <2>1
  <2> QED BY <2>1, <2>2
<1>7. CASE begins
  <2>1. pass /\ row'.now = t /\ row'.nowsum = 1  BY <1>2, <1>3, <1>4, <1>7
  <2>2. second' = [second EXCEPT ![t] = Passed(Begun(@, TRUE), 1)]
    BY <1>3, <1>7, <2>1
  <2> QED BY <2>1, <2>2
<1>8. CASE judged /\ ~begins
  <2>1. row'.now = row.now /\ row'.nowsum = row.nowsum + 1  BY <1>2, <1>5, <1>8
  <2>2. CASE pass /\ row.now = t
    <3>1. second' = [second EXCEPT ![t] = Passed(Begun(@, FALSE), Most(l, t))]
      BY <1>3, <1>8, <2>2
    <3>2. Begun(second[t], FALSE) = second[t]  BY DEF Begun
    <3>3. row'.nowsum <= Most(l, t)  BY <1>3, <1>8, <2>2
    <3> QED BY <2>1, <2>2, <3>1, <3>2, <3>3
  <2>3. CASE pass /\ row.now # t
    <3>1. second' = [second EXCEPT ![t] = Passed(Begun(@, TRUE), Most(l, t))]
      BY <1>3, <1>8, <2>3
    <3>2. row'.nowsum <= Most(l, t)  BY <1>3, <1>8, <2>3
    <3> QED BY <2>1, <2>3, <3>1, <3>2
  <2>4. CASE ~pass  BY <1>3, <2>1, <2>4
  <2> QED BY <2>2, <2>3, <2>4
<1> QED BY <1>6, <1>7, <1>8

LEMMA JudgedSet ==
  ASSUME TypeInv, NEW w \in Workers, Judge(w)
  PROVE  \/ setsecond' = setsecond
         \/ /\ SetValid(call[w].local)
            /\ call[w].setsum <= Below(SetShare(call[w].local))
            /\ setsecond' = [setsecond EXCEPT ![call[w].now] =
                               Passed(@, Below(SetShare(call[w].local)))]
<1> DEFINE l == call[w].local
<1>1. PICK pass \in BOOLEAN, setpass \in BOOLEAN :
        /\ IF pass /\ SetValid(l)
           THEN setpass => call[w].setsum <= Below(SetShare(l))
           ELSE setpass = pass
        /\ setsecond' = IF setpass /\ SetValid(l)
                        THEN [setsecond EXCEPT ![call[w].now] =
                                Passed(@, Below(SetShare(l)))]
                        ELSE setsecond
  BY DEF Judge
<1> QED BY <1>1

LEMMA SecondStep ==
  ASSUME TypeInv, Next
  PROVE  second' \in [Seconds -> SecondType] /\ setsecond' \in [Seconds -> SecondType]
<1>0. /\ second \in [Seconds -> SecondType] /\ setsecond \in [Seconds -> SecondType]
      /\ call \in [Workers -> CallType]
  BY DEF TypeInv
<1>1. ASSUME NEW w \in Workers, Judge(w)
      PROVE  second' \in [Seconds -> SecondType] /\ setsecond' \in [Seconds -> SecondType]
  <2>1. call[w].local \in RowType /\ call[w].now \in Seconds  BY <1>0 DEF CallType
  <2> DEFINE t == call[w].now
  <2>2. second[t] \in SecondType /\ setsecond[t] \in SecondType  BY <1>0, <2>1
  <2>3. Begun(second[t], TRUE) \in SecondType  BY <2>2, BegunType
  <2>4. Most(call[w].local, t) \in Int  BY <2>1, MostType, SecondsNat
  <2>5. /\ Passed(Begun(second[t], TRUE), 1) \in SecondType
        /\ Passed(Begun(second[t], TRUE), Most(call[w].local, t)) \in SecondType
        /\ Passed(second[t], Most(call[w].local, t)) \in SecondType
    <3>1. 1 \in Int  OBVIOUS
    <3> QED BY <2>2, <2>3, <2>4, <3>1, PassedType
  <2>6. second' \in [Seconds -> SecondType]
    <3>1. \/ second' = second
          \/ \E s \in SecondType : second' = [second EXCEPT ![t] = s]
      BY <1>1, <2>5, JudgedKey
    <3> QED BY <1>0, <3>1
  <2>7. setsecond' \in [Seconds -> SecondType]
    <3>1. CASE setsecond' = setsecond  BY <1>0, <3>1
    <3>2. CASE /\ SetValid(call[w].local)
               /\ setsecond' = [setsecond EXCEPT ![t] =
                                  Passed(@, Below(SetShare(call[w].local)))]
      <4>1. Passed(setsecond[t], Below(SetShare(call[w].local))) \in SecondType
        BY <2>1, <2>2, <3>2, SetShareType, PassedType
      <4> QED BY <1>0, <3>2, <4>1
    <3> QED BY <1>1, <3>1, <3>2, JudgedSet
  <2> QED BY <2>6, <2>7
<1>2. ASSUME NEW w \in Workers, CountSet(w)
      PROVE  second' = second /\ setsecond' \in [Seconds -> SecondType]
  <2>1. PICK anew \in BOOLEAN :
          setsecond' = [setsecond EXCEPT ![call[w].now] = Begun(@, anew)]
    <3>1. (call[w].fresh \/ setrow.now # call[w].now) \in BOOLEAN  OBVIOUS
    <3> QED BY <1>2, <3>1 DEF CountSet
  <2>2. call[w].now \in Seconds  BY <1>0 DEF CallType
  <2>3. Begun(setsecond[call[w].now], anew) \in SecondType
    BY <1>0, <2>2, BegunType
  <2> QED BY <1>0, <1>2, <2>1, <2>3 DEF CountSet
<1>3. ASSUME NEW w \in Workers,
             \/ Begin(w) \/ GetLocal(w) \/ MakeLocal(w) \/ GetSetQuot(w) \/ GetTimesum(w)
             \/ MakeSlots(w) \/ CountSlot(w) \/ CheckLock(w) \/ TakeLock(w)
             \/ AnsweredOther(w) \/ AnswerThrows(w) \/ Fails(w) \/ Unlock(w) \/ Finish(w)
             \/ Dies(w) \/ \E a \in Answers : Answered(w, a)
      PROVE  second' = second /\ setsecond' = setsecond
  BY <1>3 DEF Begin, GetLocal, MakeLocal, GetSetQuot, GetTimesum, MakeSlots, CountSlot,
              CheckLock, TakeLock, AnsweredOther, AnswerThrows, Fails, Unlock, Finish,
              Dies, Answered, history
<1>4. CASE Tick  BY <1>0, <1>4 DEF Tick, history
<1> QED BY <1>0, <1>1, <1>2, <1>3, <1>4 DEF Next

LEMMA PlaceStep ==
  ASSUME TypeInv, Next PROVE pc' \in [Workers -> Places] /\ cleaned' \subseteq Workers
<1>0. pc \in [Workers -> Places] /\ cleaned \subseteq Workers  BY DEF TypeInv
<1>1. ASSUME NEW w \in Workers, NEW at \in Places, Goto(w, at)
      PROVE  pc' \in [Workers -> Places]
  BY <1>0, <1>1 DEF Goto
<1>2. ASSUME NEW w \in Workers,
             \/ Begin(w) \/ GetLocal(w) \/ MakeLocal(w) \/ GetSetQuot(w)
             \/ CountSet(w) \/ Judge(w) \/ GetTimesum(w) \/ MakeSlots(w)
             \/ CountSlot(w) \/ CheckLock(w) \/ TakeLock(w) \/ Finish(w)
      PROVE  \E at \in Places : Goto(w, at)
  BY <1>2 DEF Begin, GetLocal, MakeLocal, GetSetQuot, CountSet, Judge, GetTimesum,
              MakeSlots, CountSlot, CheckLock, TakeLock, Finish, Ends, Places
<1>3. ASSUME NEW w \in Workers,
             \/ AnsweredOther(w) \/ AnswerThrows(w) \/ Fails(w) \/ Unlock(w)
             \/ Dies(w) \/ \E a \in Answers : Answered(w, a)
      PROVE  \E at \in Places : Goto(w, at)
  BY <1>3 DEF AnsweredOther, AnswerThrows, Fails, Unlock, Dies, Answered, Ends, Places
<1>4. CASE Tick  BY <1>0, <1>4 DEF Tick
<1>5. ASSUME NEW w \in Workers, Finish(w) \/ Dies(w) PROVE cleaned' \subseteq Workers
  BY <1>0, <1>5 DEF Finish, Dies
<1>6. ASSUME NEW w \in Workers,
             \/ Begin(w) \/ GetLocal(w) \/ MakeLocal(w) \/ GetSetQuot(w) \/ CountSet(w)
             \/ Judge(w) \/ GetTimesum(w) \/ MakeSlots(w) \/ CountSlot(w) \/ CheckLock(w)
             \/ TakeLock(w) \/ AnsweredOther(w) \/ AnswerThrows(w) \/ Fails(w) \/ Unlock(w)
             \/ \E a \in Answers : Answered(w, a)
      PROVE  cleaned' = cleaned
  BY <1>6 DEF Begin, GetLocal, MakeLocal, GetSetQuot, CountSet, Judge, GetTimesum,
              MakeSlots, CountSlot, CheckLock, TakeLock, AnsweredOther, AnswerThrows,
              Fails, Unlock, Answered
<1>7. cleaned' \subseteq Workers  BY <1>0, <1>4, <1>5, <1>6 DEF Next, Tick
<1>8. pc' \in [Workers -> Places]  BY <1>1, <1>2, <1>3, <1>4 DEF Next
<1> QED BY <1>7, <1>8

LEMMA RestStep ==
  ASSUME TypeInv, Next
  PROVE  /\ clock' \in Seconds /\ setrow' \in [now : Nat, nowsum : Nat]
         /\ made' \in [row : BOOLEAN, slots : SUBSET Slots]
         /\ orphaned' \in BOOLEAN /\ erased' \in BOOLEAN
<1>0. /\ clock \in Seconds /\ setrow \in [now : Nat, nowsum : Nat]
      /\ made \in [row : BOOLEAN, slots : SUBSET Slots]
      /\ orphaned \in BOOLEAN /\ erased \in BOOLEAN
      /\ call \in [Workers -> CallType]
  BY DEF TypeInv
<1>1. clock' \in Seconds
  <2>1. CASE Tick  BY <1>0, <2>1, PhpAssumption DEF Tick, Seconds
  <2>2. ASSUME NEW w \in Workers,
               \/ Begin(w) \/ GetLocal(w) \/ MakeLocal(w) \/ GetSetQuot(w)
               \/ CountSet(w) \/ Judge(w) \/ GetTimesum(w) \/ MakeSlots(w) \/ CountSlot(w)
               \/ CheckLock(w) \/ TakeLock(w) \/ AnsweredOther(w) \/ AnswerThrows(w)
               \/ Fails(w) \/ Unlock(w) \/ Finish(w) \/ Dies(w)
               \/ \E a \in Answers : Answered(w, a)
        PROVE  clock' = clock
    BY <2>2 DEF Begin, GetLocal, MakeLocal, GetSetQuot, CountSet, Judge, GetTimesum,
                MakeSlots, CountSlot, CheckLock, TakeLock, AnsweredOther, AnswerThrows,
                Fails, Unlock, Finish, Dies, Answered
  <2> QED BY <1>0, <2>1, <2>2 DEF Next
<1>2. setrow' \in [now : Nat, nowsum : Nat]
  <2>1. ASSUME NEW w \in Workers, CountSet(w) PROVE setrow' \in [now : Nat, nowsum : Nat]
    BY <1>0, <2>1, SetCountedType DEF CountSet
  <2>2. CASE Tick  BY <1>0, <2>2 DEF Tick, tables
  <2>3. ASSUME NEW w \in Workers,
               \/ Begin(w) \/ GetLocal(w) \/ MakeLocal(w) \/ GetSetQuot(w)
               \/ Judge(w) \/ GetTimesum(w) \/ MakeSlots(w) \/ CountSlot(w)
               \/ CheckLock(w) \/ TakeLock(w) \/ AnsweredOther(w) \/ AnswerThrows(w)
               \/ Fails(w) \/ Unlock(w) \/ Finish(w) \/ Dies(w)
               \/ \E a \in Answers : Answered(w, a)
        PROVE  setrow' = setrow
    BY <2>3 DEF Begin, GetLocal, MakeLocal, GetSetQuot, Judge, GetTimesum,
                MakeSlots, CountSlot, CheckLock, TakeLock, AnsweredOther, AnswerThrows,
                Fails, Unlock, Finish, Dies, Answered, tables
  <2> QED BY <1>0, <2>1, <2>2, <2>3 DEF Next
<1>3. made' \in [row : BOOLEAN, slots : SUBSET Slots]
  <2>1. \A b \in BOOLEAN, s \in SUBSET Slots :
          /\ [made EXCEPT !.row = b] \in [row : BOOLEAN, slots : SUBSET Slots]
          /\ [made EXCEPT !.slots = s] \in [row : BOOLEAN, slots : SUBSET Slots]
    BY <1>0
  <2>2. ASSUME NEW w \in Workers,
               \/ MakeLocal(w) \/ Judge(w) \/ TakeLock(w) \/ AnsweredOther(w) \/ Unlock(w)
               \/ \E a \in Answers : Answered(w, a)
        PROVE  made' = made \/ made' = [made EXCEPT !.row = TRUE]
    BY <2>2 DEF MakeLocal, Judge, TakeLock, AnsweredOther, Unlock, Answered
  <2>3. ASSUME NEW w \in Workers, MakeSlots(w)
        PROVE  made' = [made EXCEPT !.slots = Slots]
    BY <2>3 DEF MakeSlots
  <2>4. ASSUME NEW w \in Workers, CountSlot(w)
        PROVE  \E s \in SUBSET Slots : made' = [made EXCEPT !.slots = s]
    <3>1. SlotIndex(call[w].now) \in Slots
      BY <1>0, SecondsNat, SlotIndexInRing DEF CallType
    <3>2. made.slots \cup {SlotIndex(call[w].now)} \in SUBSET Slots  BY <1>0, <3>1
    <3>3. made' = [made EXCEPT !.slots = made.slots \cup {SlotIndex(call[w].now)}]
      BY <2>4 DEF CountSlot
    <3> QED BY <3>2, <3>3
  <2>5. ASSUME NEW w \in Workers, Finish(w)
        PROVE  made' = made \/ made' = [row |-> FALSE, slots |-> {}]
    BY <2>5 DEF Finish
  <2>6. ASSUME NEW w \in Workers,
               \/ Begin(w) \/ GetLocal(w) \/ GetSetQuot(w) \/ CountSet(w)
               \/ GetTimesum(w) \/ CheckLock(w) \/ AnswerThrows(w) \/ Fails(w) \/ Dies(w)
        PROVE  made' = made
    BY <2>6 DEF Begin, GetLocal, GetSetQuot, CountSet, GetTimesum, CheckLock,
                AnswerThrows, Fails, Dies, tables
  <2>7. CASE Tick  BY <1>0, <2>7 DEF Tick, tables
  <2>8. \/ made' = made \/ made' = [row |-> FALSE, slots |-> {}]
        \/ made' = [made EXCEPT !.row = TRUE]
        \/ \E s \in SUBSET Slots : made' = [made EXCEPT !.slots = s]
    BY <2>2, <2>3, <2>4, <2>5, <2>6, <2>7 DEF Next, Tick, tables
  <2>9. [row |-> FALSE, slots |-> {}] \in [row : BOOLEAN, slots : SUBSET Slots]
    OBVIOUS
  <2>10. [made EXCEPT !.row = TRUE] \in [row : BOOLEAN, slots : SUBSET Slots]
    BY <1>0
  <2> QED BY <1>0, <2>1, <2>8, <2>9, <2>10, Zenon
<1>4. orphaned' \in BOOLEAN /\ erased' \in BOOLEAN
  <2>1. ASSUME NEW w \in Workers,
               MakeLocal(w) \/ Finish(w) \/ AnswerThrows(w) \/ Dies(w)
        PROVE  orphaned' \in BOOLEAN /\ erased' \in BOOLEAN
    BY <1>0, <2>1 DEF MakeLocal, Finish, AnswerThrows, Dies
  <2>2. ASSUME NEW w \in Workers,
               \/ Begin(w) \/ GetLocal(w) \/ GetSetQuot(w) \/ CountSet(w) \/ Judge(w)
               \/ GetTimesum(w) \/ MakeSlots(w) \/ CountSlot(w) \/ CheckLock(w) \/ TakeLock(w)
               \/ AnsweredOther(w) \/ Fails(w) \/ Unlock(w)
               \/ \E a \in Answers : Answered(w, a)
        PROVE  orphaned' = orphaned /\ erased' = erased
    BY <2>2 DEF Begin, GetLocal, GetSetQuot, CountSet, Judge, GetTimesum, MakeSlots,
                CountSlot, CheckLock, TakeLock, AnsweredOther, Fails, Unlock, Answered,
                history
  <2>3. CASE Tick  BY <1>0, <2>3 DEF Tick, history
  <2> QED BY <1>0, <2>1, <2>2, <2>3 DEF Next
<1> QED BY <1>1, <1>2, <1>3, <1>4

LEMMA TypeStep == TypeInv /\ [Next]_vars => TypeInv'
<1> SUFFICES ASSUME TypeInv, [Next]_vars PROVE TypeInv'  OBVIOUS
<1>1. CASE Next
  <2>1. row' \in RowType  BY <1>1, RowStep
  <2>2. slots' \in [Slots -> SlotType]  BY <1>1, SlotsStep
  <2>3. qarray' \in [0 .. QuotaArrayNum - 1 -> Nat]  BY <1>1, QuotasStep
  <2>5. second' \in [Seconds -> SecondType] /\ setsecond' \in [Seconds -> SecondType]
    BY <1>1, SecondStep
  <2>4. call' \in [Workers -> CallType]  BY <1>1, <2>2, <2>5, CallStep
  <2>6. pc' \in [Workers -> Places] /\ cleaned' \subseteq Workers  BY <1>1, PlaceStep
  <2> QED BY <1>1, <2>1, <2>2, <2>3, <2>4, <2>5, <2>6, RestStep DEF TypeInv
<1>2. CASE UNCHANGED vars
  BY <1>2 DEF vars, tables, bounds, history, TypeInv
<1> QED BY <1>1, <1>2

\* The tables, the calls and where they are have their types in every reachable
\* state; the mean of the quotas is a number (FcApi.class.php, 116-461, 641-729).
THEOREM PhpTypesHold == Spec => []TypeOK
BY InitTypes, TypeStep, TypeInvTypes, PTL DEF Spec

-----------------------------------------------------------------------------
\* The passes.

\* What passed in a second of the key.  While the row counts in that second,
\* the count that it began last has not yet passed more than it counted.
KeyPassed(s, r, t) ==
  /\ s.passes <= s.begins * s.most
  /\ r.now = t => /\ s.begins >= 1 /\ r.nowsum >= 1
                  /\ s.passes + s.most <= s.begins * s.most + r.nowsum
KeyInv == \A t \in Seconds : KeyPassed(second[t], row, t)

\* The workers that counted in the set in a second and did not judge yet; a
\* request is known by the begin of the count it was counted in, and its count.
PendingAt(t) == {w \in Workers : pc[w] = "key" /\ call[w].now = t}
Ticket(c) == <<c.setbegin, c.setsum>>

\* The tickets of a second: those that passed, each of them one request's, and
\* none that is still to be judged.
Issued(p, s, r, t) ==
  /\ p[1] \in 1 .. s.begins /\ p[2] \in Nat \ {0}
  /\ r.now = t /\ p[1] = s.begins => p[2] <= r.nowsum
SetPassed(t, U) ==
  /\ setrow.now = t => setsecond[t].begins >= 1
  /\ U \subseteq (1 .. setsecond[t].begins) \X (1 .. setsecond[t].most)
  /\ Cardinality(U) = setsecond[t].passes
  /\ \A p \in U : Issued(p, setsecond[t], setrow, t)
  /\ \A w \in PendingAt(t) :
       Ticket(call[w]) \notin U /\ Issued(Ticket(call[w]), setsecond[t], setrow, t)
  /\ \A u, w \in PendingAt(t) : u # w => Ticket(call[u]) # Ticket(call[w])

PassInv == TypeInv /\ KeyInv /\ \A t \in Seconds : \E U : SetPassed(t, U)

LEMMA PairsWithin ==
  ASSUME NEW b \in Nat, NEW m \in Nat, NEW U, U \subseteq (1 .. b) \X (1 .. m)
  PROVE  IsFiniteSet(U) /\ Cardinality(U) <= b * m
<1>1. /\ IsFiniteSet(1 .. b) /\ Cardinality(1 .. b) = b
      /\ IsFiniteSet(1 .. m) /\ Cardinality(1 .. m) = m
  <2>1. \A n \in Nat : /\ IsFiniteSet(1 .. n)
                       /\ Cardinality(1 .. n) = IF 1 > n THEN 0 ELSE n - 1 + 1
    BY FS_Interval
  <2> QED BY <2>1
<1>2. /\ IsFiniteSet((1 .. b) \X (1 .. m))
      /\ Cardinality((1 .. b) \X (1 .. m)) = b * m
  <2>1. PICK S, T : S = 1 .. b /\ T = 1 .. m  OBVIOUS
  <2>2. IsFiniteSet(S) /\ IsFiniteSet(T)  BY <1>1, <2>1
  <2>3. IsFiniteSet(S \X T) /\ Cardinality(S \X T) = Cardinality(S) * Cardinality(T)
    BY <2>2, FS_Product
  <2>4. Cardinality(S) = b /\ Cardinality(T) = m  BY <1>1, <2>1
  <2> QED BY <2>1, <2>3, <2>4
<1> QED BY <1>2, FS_Subset

LEMMA PassedWithin == PassInv => PassesWithinQuota
<1> SUFFICES ASSUME PassInv, NEW t \in Seconds
             PROVE  WithinLimit(second[t]) /\ WithinLimit(setsecond[t])
  BY DEF PassesWithinQuota
<1>1. PICK U : SetPassed(t, U)  BY DEF PassInv
<1>2. setsecond[t].begins \in Nat /\ setsecond[t].most \in Nat
  BY DEF PassInv, TypeInv, SecondType
<1>3. Cardinality(U) <= setsecond[t].begins * setsecond[t].most
  BY <1>1, <1>2, PairsWithin DEF SetPassed
<1>4. WithinLimit(setsecond[t])  BY <1>1, <1>3 DEF SetPassed, WithinLimit
<1> QED BY <1>4 DEF PassInv, KeyInv, KeyPassed, WithinLimit

LEMMA InitPass == Init => PassInv
<1> SUFFICES ASSUME Init, NEW t \in Seconds
             PROVE  KeyPassed(second[t], row, t) /\ \E U : SetPassed(t, U)
  BY InitTypes DEF PassInv, KeyInv
<1>1. t # 0  BY Numbers, PhpAssumption DEF Seconds
<1>2. KeyPassed(second[t], row, t)  BY <1>1 DEF Init, KeyPassed, NoSecond, NoRow
<1>3. SetPassed(t, {})
  <2>1. PendingAt(t) = {}  BY DEF Init, PendingAt
  <2>2. Cardinality({}) = 0  BY FS_EmptySet
  <2> QED BY <1>1, <2>1, <2>2 DEF Init, SetPassed, NoSecond
<1> QED BY <1>2, <1>3

\* What a begin and a pass do to the bounds, for numbers.
LEMMA LimitGrows ==
  ASSUME NEW b \in Nat, NEW m \in Nat, NEW n \in Nat, m <= n
  PROVE  /\ b * m <= b * n
         /\ b >= 1 => b * m - m <= b * n - n
         /\ (b + 1) * n = b * n + n
         /\ b * m \in Nat /\ b * n \in Nat
<1>1. PICK d \in Nat : n = m + d
  <2>1. n - m \in Nat /\ n = m + (n - m)  OBVIOUS
  <2> QED BY <2>1
<1>2. b * n = b * m + b * d  BY <1>1
<1>3. b * d \in Nat /\ b * m \in Nat /\ b * n \in Nat  OBVIOUS
<1>4. (b + 1) * n = b * n + n  OBVIOUS
<1>5. b >= 1 => b * d >= d
  <2> SUFFICES ASSUME b >= 1 PROVE b * d >= d  OBVIOUS
  <2>1. PICK c \in Nat : b = c + 1
    <3>1. b - 1 \in Nat /\ b = (b - 1) + 1  OBVIOUS
    <3> QED BY <3>1
  <2>2. b * d = c * d + d /\ c * d \in Nat  BY <2>1
  <2> QED BY ONLY <2>2, d \in Nat
<1> QED BY ONLY <1>1, <1>2, <1>3, <1>4, <1>5, m \in Nat, n \in Nat

\* A request that passes by a count of its own.
LEMMA AloneKeeps ==
  ASSUME NEW s \in SecondType, NEW r \in RowType, NEW q \in RowType, NEW t \in Seconds,
         NEW most \in Int, most >= 1, KeyPassed(s, r, t),
         \/ q.now # t
         \/ q.now = t /\ q.nowsum = 1
         \/ q = r
  PROVE  KeyPassed(Passed(Begun(s, TRUE), most), q, t)
<1>1. PICK z : z = Passed(Begun(s, TRUE), most)  OBVIOUS
<1>2. /\ z.passes = s.passes + 1 /\ z.begins = s.begins + 1
      /\ z.most >= s.most /\ z.most >= most /\ z.most \in Nat
  <2>1. /\ Begun(s, TRUE) \in SecondType /\ Begun(s, TRUE).passes = s.passes
        /\ Begun(s, TRUE).most = s.most /\ Begun(s, TRUE).begins = s.begins + 1
    BY BegunType
  <2> QED BY <1>1, <2>1, PassedType DEF SecondType
<1>3. PICK b \in Nat, m \in Nat, n \in Nat, p \in Nat, c \in Nat :
        /\ b = s.begins /\ m = s.most /\ n = z.most /\ p = s.passes /\ c = q.nowsum
  BY <1>2 DEF SecondType, RowType
<1>4. /\ b * m <= b * n /\ (b >= 1 => b * m - m <= b * n - n)
      /\ (b + 1) * n = b * n + n /\ b * m \in Nat /\ b * n \in Nat
  BY <1>2, <1>3, LimitGrows
<1>5. p <= b * m /\ n >= 1  BY <1>2, <1>3 DEF KeyPassed
<1>6. p + 1 <= (b + 1) * n  BY ONLY <1>4, <1>5, b \in Nat, n \in Nat, p \in Nat
<1>7. q.now = t => c >= 1 /\ p + 1 + n <= (b + 1) * n + c
  <2>1. CASE q.now = t /\ c = 1
    BY ONLY <1>4, <1>5, <2>1, b \in Nat, n \in Nat, p \in Nat
  <2>2. CASE q.now = t /\ q = r
    <3>1. b >= 1 /\ c >= 1 /\ p + m <= b * m + c  BY <1>3, <2>2 DEF KeyPassed
    <3> QED BY ONLY <1>4, <1>5, <3>1, b \in Nat, m \in Nat, n \in Nat, p \in Nat, c \in Nat
  <2> QED BY <1>3, <2>1, <2>2
<1>8. b + 1 >= 1  OBVIOUS
<1> QED BY <1>1, <1>2, <1>3, <1>6, <1>7, <1>8 DEF KeyPassed

\* A request that passes in the count of its own second.
LEMMA CountKeeps ==
  ASSUME NEW s \in SecondType, NEW r \in RowType, NEW q \in RowType, NEW t \in Seconds,
         NEW most \in Int, KeyPassed(s, r, t),
         r.now = t, q.nowsum = r.nowsum + 1, q.nowsum <= most
  PROVE  KeyPassed(Passed(s, most), q, t)
<1>1. PICK z : z = Passed(s, most)  OBVIOUS
<1>2. /\ z.passes = s.passes + 1 /\ z.begins = s.begins
      /\ z.most >= s.most /\ z.most >= most /\ z.most \in Nat
  BY <1>1, PassedType DEF SecondType
<1>3. PICK b \in Nat, m \in Nat, n \in Nat, p \in Nat, c \in Nat :
        /\ b = s.begins /\ m = s.most /\ n = z.most /\ p = s.passes /\ c = r.nowsum
  BY <1>2 DEF SecondType, RowType
<1>4. /\ b >= 1 => b * m - m <= b * n - n
      /\ b * m \in Nat /\ b * n \in Nat
  BY <1>2, <1>3, LimitGrows
<1>5. b >= 1 /\ c >= 1 /\ p + m <= b * m + c /\ c + 1 <= n
  BY <1>2, <1>3 DEF KeyPassed
<1>6. p + 1 <= b * n /\ p + 1 + n <= b * n + (c + 1)
  BY ONLY <1>4, <1>5, b \in Nat, m \in Nat, n \in Nat, p \in Nat, c \in Nat
<1> QED BY <1>1, <1>2, <1>3, <1>5, <1>6 DEF KeyPassed

LEMMA CountsOn ==
  ASSUME NEW s \in SecondType, NEW r \in RowType, NEW q \in RowType, NEW t \in Seconds,
         KeyPassed(s, r, t),
         q.now = t => r.now = t /\ q.nowsum >= r.nowsum
  PROVE  KeyPassed(s, q, t)
<1>1. s.begins * s.most \in Nat  BY DEF SecondType
<1>2. s.passes \in Nat /\ s.most \in Nat /\ r.nowsum \in Nat /\ q.nowsum \in Nat
  BY DEF SecondType, RowType
<1>3. PICK x \in Nat : x = s.begins * s.most  BY <1>1
<1> QED BY <1>2, <1>3 DEF KeyPassed

LEMMA KeyStep ==
  ASSUME TypeInv, KeyInv, Next PROVE KeyInv'
<1>0. /\ row \in RowType /\ row' \in RowType /\ call \in [Workers -> CallType]
      /\ second \in [Seconds -> SecondType]
  BY RowStep DEF TypeInv
<1>1. ASSUME second' = second, row'.now # 0 => row'.now = row.now /\ row'.nowsum >= row.nowsum
      PROVE  KeyInv'
  <2> SUFFICES ASSUME NEW t \in Seconds PROVE KeyPassed(second[t], row', t)
    BY <1>1 DEF KeyInv
  <2>1. t # 0  BY Numbers, PhpAssumption DEF Seconds
  <2>2. row'.now = t => row.now = t /\ row'.nowsum >= row.nowsum  BY <1>1, <2>1
  <2> QED BY <1>0, <2>2, CountsOn DEF KeyInv
<1>2. ASSUME NEW w \in Workers, Judge(w) PROVE KeyInv'
  <2> DEFINE k == call[w].now
             m == Most(call[w].local, k)
  <2>1. k \in Seconds /\ call[w].local \in RowType  BY <1>0 DEF CallType
  <2>2. m \in Int  BY <2>1, MostType, SecondsNat
  <2>3. row.nowsum \in Nat /\ row'.nowsum \in Nat  BY <1>0 DEF RowType
  <2>4. ASSUME NEW most \in Int, most >= 1,
               second' = [second EXCEPT ![k] = Passed(Begun(@, TRUE), most)],
               \/ row' = row
               \/ row'.now = k /\ row'.nowsum = 1
               \/ row.now # k /\ row'.now = row.now /\ row'.nowsum = row.nowsum + 1
        PROVE  KeyInv'
    <3> SUFFICES ASSUME NEW t \in Seconds PROVE KeyPassed(second'[t], row', t)
      BY DEF KeyInv
    <3>1. KeyPassed(second[t], row, t) /\ second[t] \in SecondType  BY <1>0 DEF KeyInv
    <3>2. CASE t = k
      <4>1. second'[t] = Passed(Begun(second[t], TRUE), most)  BY <1>0, <2>4, <3>2
      <4>2. \/ row'.now # t
            \/ row'.now = t /\ row'.nowsum = 1
            \/ row' = row
        BY <2>4, <3>2
      <4> QED BY <1>0, <2>4, <3>1, <4>1, <4>2, AloneKeeps
    <3>3. CASE t # k
      <4>1. second'[t] = second[t]  BY <1>0, <2>4, <3>3
      <4>2. row'.now = t => row.now = t /\ row'.nowsum >= row.nowsum
        BY <2>3, <2>4, <3>3
      <4> QED BY <1>0, <3>1, <4>1, <4>2, CountsOn
    <3> QED BY <3>2, <3>3
  <2>5. CASE second' = second /\ row'.now = row.now /\ row'.nowsum = row.nowsum + 1
    BY <1>1, <2>3, <2>5
  <2>6. ASSUME second' = [second EXCEPT ![k] = Passed(@, m)],
               row.now = k, row'.now = k, row'.nowsum = row.nowsum + 1,
               row.nowsum + 1 <= m
        PROVE  KeyInv'
    <3> SUFFICES ASSUME NEW t \in Seconds PROVE KeyPassed(second'[t], row', t)
      BY DEF KeyInv
    <3>1. KeyPassed(second[t], row, t) /\ second[t] \in SecondType  BY <1>0 DEF KeyInv
    <3>2. CASE t = k
      <4>1. second'[t] = Passed(second[t], m)  BY <1>0, <2>6, <3>2
      <4>2. row.now = t /\ row'.nowsum = row.nowsum + 1 /\ row'.nowsum <= m
        BY <2>6, <3>2
      <4> HIDE DEF m
      <4> QED BY <1>0, <2>2, <3>1, <4>1, <4>2, CountKeeps
    <3>3. CASE t # k
      <4>1. second'[t] = second[t] /\ row'.now # t  BY <1>0, <2>6, <3>3
      <4> QED BY <1>0, <3>1, <4>1, CountsOn
    <3> QED BY <3>2, <3>3
  <2>7. 1 \in Int /\ 1 >= 1  OBVIOUS
  <2>8. row.nowsum + 1 <= m => m >= 1  BY <2>2, <2>3
  <2>9. \/ /\ second' = second /\ row'.now = row.now
           /\ row'.nowsum = row.nowsum + 1
        \/ /\ second' = [second EXCEPT ![k] = Passed(Begun(@, TRUE), 1)]
           /\ \/ row' = row
              \/ row'.now = k /\ row'.nowsum = 1
        \/ /\ second' = [second EXCEPT ![k] = Passed(@, m)]
           /\ row.now = k /\ row'.now = k /\ row'.nowsum = row.nowsum + 1
           /\ row.nowsum + 1 <= m
        \/ /\ second' = [second EXCEPT ![k] = Passed(Begun(@, TRUE), m)]
           /\ row.now # k /\ row'.now = row.now
           /\ row'.nowsum = row.nowsum + 1 /\ row.nowsum + 1 <= m
    BY <1>2, JudgedKey
  <2> HIDE DEF k, m
  <2> QED BY <2>2, <2>4, <2>5, <2>6, <2>7, <2>8, <2>9
<1>3. ASSUME NEW w \in Workers, MakeLocal(w) \/ Finish(w) PROVE KeyInv'
  <2>1. second' = second  BY <1>3 DEF MakeLocal, Finish
  <2>2. CASE row' = NoRow  BY <1>1, <2>1, <2>2 DEF NoRow
  <2>3. CASE row' = row  BY <1>0, <1>1, <2>1, <2>3 DEF RowType
  <2> QED BY <1>3, <2>2, <2>3 DEF MakeLocal, Finish
<1>4. ASSUME NEW w \in Workers,
             \/ Begin(w) \/ GetLocal(w) \/ GetSetQuot(w) \/ CountSet(w)
             \/ GetTimesum(w) \/ MakeSlots(w) \/ CountSlot(w) \/ CheckLock(w)
             \/ AnswerThrows(w) \/ Fails(w) \/ Dies(w)
      PROVE  KeyInv'
  <2>1. second' = second /\ row' = row
    BY <1>4 DEF Begin, GetLocal, GetSetQuot, CountSet, GetTimesum, MakeSlots,
                CountSlot, CheckLock, AnswerThrows, Fails, Dies, tables, history
  <2> QED BY <2>1 DEF KeyInv
<1>5. ASSUME NEW w \in Workers,
             TakeLock(w) \/ Unlock(w) \/ AnsweredOther(w) \/ \E a \in Answers : Answered(w, a)
      PROVE  KeyInv'
  <2>1. second' = second
    BY <1>5 DEF TakeLock, Unlock, AnsweredOther, Answered, history
  <2>2. row'.nowsum = row.nowsum /\ row'.now = row.now /\ row.nowsum \in Nat
    <3>1. CASE TakeLock(w)  BY <1>0, <3>1 DEF TakeLock, RowType
    <3>2. CASE Unlock(w)  BY <1>0, <3>2 DEF Unlock, RowType
    <3>3. CASE AnsweredOther(w)  BY <1>0, <3>3 DEF AnsweredOther, RowType
    <3>4. CASE \E a \in Answers : Answered(w, a)
      BY <1>0, <3>4 DEF Answered, RowType
    <3> QED BY <1>5, <3>1, <3>2, <3>3, <3>4
  <2> QED BY <1>1, <2>1, <2>2
<1>6. CASE Tick
  <2>1. second' = second /\ row' = row  BY <1>6 DEF Tick, tables, history
  <2> QED BY <2>1 DEF KeyInv
<1> QED BY <1>2, <1>3, <1>4, <1>5, <1>6 DEF Next

\* Fewer workers wait for the verdict, and the set's row counts on or is of
\* another second.
LEMMA PassedKept ==
  ASSUME TypeInv, NEW t \in Seconds, NEW U, SetPassed(t, U),
         setsecond'[t] = setsecond[t], setrow'.nowsum \in Nat,
         setrow'.now = t => setrow.now = t /\ setrow'.nowsum >= setrow.nowsum,
         \A w \in PendingAt(t)' :
           w \in PendingAt(t) /\ Ticket(call'[w]) = Ticket(call[w])
  PROVE  SetPassed(t, U)'
<1>1. setrow.nowsum \in Nat  BY DEF TypeInv
<1>2. ASSUME NEW p, Issued(p, setsecond[t], setrow, t)
      PROVE  Issued(p, setsecond'[t], setrow', t)
  <2>1. p[2] \in Nat  BY <1>2 DEF Issued
  <2> QED BY <1>1, <1>2, <2>1 DEF Issued
<1>3. \A p \in U : Issued(p, setsecond'[t], setrow', t)  BY <1>2 DEF SetPassed
<1>4. \A w \in PendingAt(t)' : Ticket(call'[w]) \notin U
                               /\ Issued(Ticket(call'[w]), setsecond'[t], setrow', t)
  BY <1>2 DEF SetPassed
<1>5. \A u, w \in PendingAt(t)' : u # w => Ticket(call'[u]) # Ticket(call'[w])
  BY DEF SetPassed
<1> QED BY <1>3, <1>4, <1>5 DEF SetPassed

LEMMA CountSetPassed ==
  ASSUME TypeInv, TypeInv', NEW w \in Workers, CountSet(w),
         NEW t \in Seconds, NEW U, SetPassed(t, U)
  PROVE  SetPassed(t, U)'
<1> DEFINE k == call[w].now
           anew == call[w].fresh \/ setrow.now # k
<1>0. /\ setrow \in [now : Nat, nowsum : Nat] /\ call \in [Workers -> CallType]
      /\ setrow' \in [now : Nat, nowsum : Nat]
      /\ pc \in [Workers -> Places] /\ setsecond \in [Seconds -> SecondType]
  BY DEF TypeInv
<1>1. call[w] \in CallType /\ k \in Seconds /\ call[w].fresh \in BOOLEAN
  BY <1>0 DEF CallType
<1>2. /\ setrow' = SetCounted(call[w])
      /\ setsecond' = [setsecond EXCEPT ![k] = Begun(@, anew)]
      /\ \A u \in Workers \ {w} : call'[u] = call[u] /\ pc'[u] = pc[u]
      /\ call'[w].setsum = setrow'.nowsum /\ call'[w].now = k
      /\ call'[w].setbegin = setsecond'[k].begins
  <2>1. call'[w] = [call[w] EXCEPT !.setsum = setrow'.nowsum, !.fresh = FALSE,
                                   !.setbegin = setsecond'[k].begins]
    BY <1>0 DEF CountSet
  <2>2. call'[w].setsum = setrow'.nowsum /\ call'[w].now = k
        /\ call'[w].setbegin = setsecond'[k].begins
    BY <1>1, <2>1 DEF CallType
  <2> QED BY <1>0, <2>2 DEF CountSet, Goto
<1>3. \A u \in PendingAt(t)' : u # w => u \in PendingAt(t) /\ Ticket(call'[u]) = Ticket(call[u])
  BY <1>2 DEF PendingAt
<1>4. call[w].fresh => setrow'.now = k /\ setrow'.nowsum = 1
  BY <1>2 DEF SetCounted
<1>5. ~call[w].fresh => setrow'.now = setrow.now /\ setrow'.nowsum = setrow.nowsum + 1
  BY <1>0, <1>2 DEF SetCounted
<1>6. setrow.nowsum \in Nat /\ setrow'.nowsum \in Nat  BY <1>0
<1>7. CASE t # k
  <2>1. setsecond'[t] = setsecond[t]  BY <1>0, <1>2, <1>7
  <2>2. setrow'.now = t => setrow.now = t /\ setrow'.nowsum >= setrow.nowsum
    BY <1>1, <1>4, <1>5, <1>6, <1>7
  <2>3. w \notin PendingAt(t)'  BY <1>2, <1>7 DEF PendingAt
  <2> QED BY <1>3, <1>6, <2>1, <2>2, <2>3, PassedKept
<1>8. CASE t = k
  <2>0. PICK b \in Nat, m \in Nat, c \in Nat, n \in Nat, d \in Nat :
          /\ b = setsecond[t].begins /\ m = setsecond[t].most /\ c = setrow.nowsum
          /\ n = setrow'.nowsum /\ d = setsecond'[t].begins
    <3>1. setsecond'[t] \in SecondType  BY DEF TypeInv
    <3> QED BY <1>0, <1>6, <3>1 DEF SecondType
  <2>1. /\ setsecond'[t].most = m /\ setsecond'[t].passes = setsecond[t].passes
        /\ d = IF anew THEN b + 1 ELSE b
    <3>1. setsecond'[t] = Begun(setsecond[t], anew)  BY <1>0, <1>2, <1>8
    <3>2. anew \in BOOLEAN /\ setsecond[t] \in SecondType  BY <1>0
    <3> HIDE DEF anew
    <3> QED BY <2>0, <3>1, <3>2, BegunType
  <2>2. setrow'.now = t => IF anew THEN n = 1 ELSE n = c + 1 /\ setrow.now = t
    BY <1>1, <1>4, <1>5, <1>8, <2>0
  <2>3. ~anew => setrow.now = t /\ n = c + 1  BY <1>1, <1>5, <1>8, <2>0
  <2>4. n >= 1  BY <1>1, <1>4, <1>5, <2>0
  <2>5. Ticket(call'[w]) = <<d, n>>  BY <1>2, <1>8, <2>0 DEF Ticket
  <2>6. ~anew => b >= 1  BY <2>0, <2>3 DEF SetPassed
  <2> HIDE DEF anew
  <2>7. d >= 1 /\ d >= b  BY <2>1, <2>6
  <2>8. ASSUME NEW p, Issued(p, setsecond[t], setrow, t)
        PROVE  p # <<d, n>> /\ Issued(p, setsecond'[t], setrow', t)
    <3>1. /\ p[1] \in 1 .. b /\ p[2] \in Nat \ {0}
          /\ setrow.now = t /\ p[1] = b => p[2] <= c
      BY <2>0, <2>8 DEF Issued
    <3>2. p[1] = d => ~anew /\ p[1] = b  BY <2>1, <3>1
    <3>3. p[1] = d => p[2] <= c /\ n = c + 1  BY <2>3, <3>1, <3>2
    <3>4. p # <<d, n>>
      <4>1. p = <<d, n>> => p[1] = d /\ p[2] = n  OBVIOUS
      <4> QED BY <3>1, <3>3, <4>1
    <3>5. p[1] \in 1 .. d  BY <2>7, <3>1
    <3>6. setrow'.now = t /\ p[1] = d => p[2] <= n  BY <3>1, <3>3
    <3> QED BY <2>0, <3>1, <3>4, <3>5, <3>6 DEF Issued
  <2>9. Issued(<<d, n>>, setsecond'[t], setrow', t)  BY <2>0, <2>4, <2>7 DEF Issued
  <2>10. U \subseteq (1 .. d) \X (1 .. m)  BY <2>0, <2>7 DEF SetPassed
  <2>11. \A p \in U : p # <<d, n>> /\ Issued(p, setsecond'[t], setrow', t)
    BY <2>8 DEF SetPassed
  <2>12. \A u \in PendingAt(t)' : Ticket(call'[u]) \notin U
                                  /\ Issued(Ticket(call'[u]), setsecond'[t], setrow', t)
    <3> SUFFICES ASSUME NEW u \in PendingAt(t)'
                 PROVE  /\ Ticket(call'[u]) \notin U
                        /\ Issued(Ticket(call'[u]), setsecond'[t], setrow', t)
      OBVIOUS
    <3>1. CASE u = w  BY <2>5, <2>9, <2>11, <3>1
    <3>2. CASE u # w  BY <1>3, <2>8, <3>2 DEF SetPassed
    <3> QED BY <3>1, <3>2
  <2>13. \A u, v \in PendingAt(t)' : u # v => Ticket(call'[u]) # Ticket(call'[v])
    <3> SUFFICES ASSUME NEW u \in PendingAt(t)', NEW v \in PendingAt(t)', u # v
                 PROVE  Ticket(call'[u]) # Ticket(call'[v])
      OBVIOUS
    <3>1. ASSUME NEW x \in PendingAt(t)', x # w
          PROVE  x \in PendingAt(t) /\ Ticket(call'[x]) = Ticket(call[x])
                 /\ Ticket(call'[x]) # Ticket(call'[w])
      <4>1. x \in PendingAt(t) /\ Ticket(call'[x]) = Ticket(call[x])  BY <1>3, <3>1
      <4>2. Issued(Ticket(call[x]), setsecond[t], setrow, t)  BY <4>1 DEF SetPassed
      <4> QED BY <2>5, <2>8, <4>1, <4>2
    <3>2. CASE u = w  BY <3>1, <3>2
    <3>3. CASE v = w  BY <3>1, <3>3
    <3>4. CASE u # w /\ v # w  BY <3>1, <3>4 DEF SetPassed
    <3> QED BY <3>2, <3>3, <3>4
  <2> QED BY <2>0, <2>1, <2>7, <2>10, <2>11, <2>12, <2>13 DEF SetPassed
<1> QED BY <1>7, <1>8

LEMMA JudgePassed ==
  ASSUME TypeInv, TypeInv', NEW w \in Workers, Judge(w),
         NEW t \in Seconds, NEW U, SetPassed(t, U)
  PROVE  \E V : SetPassed(t, V)'
<1> DEFINE k == call[w].now
           g == Below(SetShare(call[w].local))
<1>0. /\ setrow \in [now : Nat, nowsum : Nat] /\ call \in [Workers -> CallType]
      /\ pc \in [Workers -> Places] /\ setsecond \in [Seconds -> SecondType]
      /\ setrow.nowsum \in Nat
  BY DEF TypeInv
<1>1. call[w] \in CallType /\ k \in Seconds /\ call[w].local \in RowType
  BY <1>0 DEF CallType
<1>2. setrow' = setrow /\ pc[w] = "key"  BY DEF Judge
<1>3. \A u \in PendingAt(t)' :
        u # w /\ u \in PendingAt(t) /\ Ticket(call'[u]) = Ticket(call[u])
  <2>1. pc'[w] = "slots" /\ \A u \in Workers \ {w} : pc'[u] = pc[u] /\ call'[u] = call[u]
    BY <1>0 DEF Judge, Goto
  <2> QED BY <2>1 DEF PendingAt
<1>4. CASE setsecond'[t] = setsecond[t]
  <2>1. setrow'.nowsum \in Nat
        /\ (setrow'.now = t => setrow.now = t /\ setrow'.nowsum >= setrow.nowsum)
    BY <1>0, <1>2
  <2> QED BY <1>3, <1>4, <2>1, PassedKept
<1>5. CASE /\ SetValid(call[w].local) /\ call[w].setsum <= g /\ t = k
           /\ setsecond'[t] = Passed(setsecond[t], g)
  <2> DEFINE p == Ticket(call[w])
  <2>0. PICK V : V = U \cup {p}  OBVIOUS
  <2>1. g \in Int  BY <1>1, <1>5, SetShareType
  <2>2. setsecond[t] \in SecondType  BY <1>0
  <2> HIDE DEF g
  <2>3. /\ setsecond'[t].passes = setsecond[t].passes + 1
        /\ setsecond'[t].begins = setsecond[t].begins
        /\ setsecond'[t].most >= setsecond[t].most /\ setsecond'[t].most >= g
    BY <1>5, <2>1, <2>2, PassedType
  <2>4. PICK b \in Nat, m \in Nat, n \in Nat :
          /\ b = setsecond[t].begins /\ m = setsecond[t].most /\ n = setsecond'[t].most
    <3>1. setsecond'[t] \in SecondType  BY DEF TypeInv
    <3> QED BY <2>2, <3>1 DEF SecondType
  <2>5. w \in PendingAt(t)  BY <1>2, <1>5 DEF PendingAt
  <2>6. p \notin U /\ Issued(p, setsecond[t], setrow, t)  BY <2>5 DEF SetPassed
  <2>7. p \in (1 .. b) \X (1 .. n)
    <3>1. p = <<call[w].setbegin, call[w].setsum>>  BY DEF Ticket
    <3>2. call[w].setbegin \in 1 .. b /\ call[w].setsum \in Nat \ {0}
      BY <2>4, <2>6, <3>1 DEF Issued
    <3>3. call[w].setsum \in 1 .. n  BY <1>5, <2>1, <2>3, <2>4, <3>2
    <3> QED BY <3>1, <3>2, <3>3
  <2>8. \A q : Issued(q, setsecond[t], setrow, t) => Issued(q, setsecond'[t], setrow', t)
    BY <1>2, <2>3 DEF Issued
  <2>9. U \subseteq (1 .. b) \X (1 .. m)  BY <2>4 DEF SetPassed
  <2> HIDE DEF p
  <2>10. V \subseteq (1 .. b) \X (1 .. n)
    <3>1. (1 .. b) \X (1 .. m) \subseteq (1 .. b) \X (1 .. n)  BY <2>3, <2>4
    <3> QED BY <2>0, <2>7, <2>9, <3>1
  <2>11. Cardinality(V) = setsecond'[t].passes
    <3>1. IsFiniteSet(U)  BY <2>9, PairsWithin
    <3>2. Cardinality(V) = Cardinality(U) + 1  BY <2>0, <2>6, <3>1, FS_AddElement
    <3> QED BY <2>3, <3>2 DEF SetPassed
  <2>12. \A q \in V : Issued(q, setsecond'[t], setrow', t)
    BY <2>0, <2>6, <2>8 DEF SetPassed
  <2>13. \A u \in PendingAt(t)' : Ticket(call'[u]) \notin V
                                  /\ Issued(Ticket(call'[u]), setsecond'[t], setrow', t)
    BY <1>3, <2>0, <2>5, <2>8 DEF SetPassed, p
  <2>14. \A u, x \in PendingAt(t)' : u # x => Ticket(call'[u]) # Ticket(call'[x])
    BY <1>3 DEF SetPassed
  <2>15. setrow'.now = t => setsecond'[t].begins >= 1
    BY <1>2, <2>3 DEF SetPassed
  <2>16. SetPassed(t, V)'
    BY <2>3, <2>4, <2>10, <2>11, <2>12, <2>13, <2>14, <2>15 DEF SetPassed
  <2> QED BY <2>16
<1>6. \/ setsecond'[t] = setsecond[t]
      \/ /\ SetValid(call[w].local) /\ call[w].setsum <= g /\ t = k
         /\ setsecond'[t] = Passed(setsecond[t], g)
  BY <1>0, <1>1, JudgedSet
<1> QED BY <1>4, <1>5, <1>6

LEMMA SetStep ==
  ASSUME TypeInv, TypeInv', Next, NEW t \in Seconds, NEW U, SetPassed(t, U)
  PROVE  \E V : SetPassed(t, V)'
<1>0. /\ setrow \in [now : Nat, nowsum : Nat] /\ setrow.nowsum \in Nat
      /\ call \in [Workers -> CallType] /\ pc \in [Workers -> Places]
  BY DEF TypeInv
<1>1. ASSUME NEW w \in Workers, CountSet(w) PROVE \E V : SetPassed(t, V)'
  <2>1. SetPassed(t, U)'  BY <1>1, CountSetPassed
  <2> QED BY <2>1
<1>2. ASSUME NEW w \in Workers, Judge(w) PROVE \E V : SetPassed(t, V)'
  BY <1>2, JudgePassed
<1>3. ASSUME setrow' = setrow, setsecond' = setsecond,
             \A u \in PendingAt(t)' :
               u \in PendingAt(t) /\ Ticket(call'[u]) = Ticket(call[u])
      PROVE  \E V : SetPassed(t, V)'
  <2>1. SetPassed(t, U)'  BY <1>0, <1>3, PassedKept
  <2> QED BY <2>1
<1>4. ASSUME NEW w \in Workers, NEW at, at # "key", Goto(w, at),
             \A u \in Workers \ {w} : /\ call'[u].setsum = call[u].setsum
                                      /\ call'[u].setbegin = call[u].setbegin
                                      /\ call'[u].now = call[u].now,
             setrow' = setrow, setsecond' = setsecond
      PROVE  \E V : SetPassed(t, V)'
  <2>1. pc'[w] # "key" /\ \A u \in Workers \ {w} : pc'[u] = pc[u]
    BY <1>0, <1>4 DEF Goto
  <2>2. \A u \in PendingAt(t)' : u \in PendingAt(t) /\ Ticket(call'[u]) = Ticket(call[u])
    BY <1>4, <2>1 DEF PendingAt, Ticket
  <2> QED BY <1>3, <1>4, <2>2
<1>5. ASSUME NEW w \in Workers,
             \/ Begin(w) \/ GetLocal(w) \/ GetSetQuot(w) \/ GetTimesum(w)
             \/ MakeSlots(w) \/ CountSlot(w) \/ CheckLock(w) \/ AnswerThrows(w)
      PROVE  \E V : SetPassed(t, V)'
  <2>1. setrow' = setrow /\ setsecond' = setsecond
    BY <1>5 DEF Begin, GetLocal, GetSetQuot, GetTimesum, MakeSlots, CountSlot, CheckLock,
                AnswerThrows, tables, history
  <2>2. PICK at : at # "key" /\ Goto(w, at)
    BY <1>5 DEF Begin, GetLocal, GetSetQuot, GetTimesum, MakeSlots, CountSlot, CheckLock,
                AnswerThrows, Ends
  <2>3. \A u \in Workers \ {w} : call'[u] = call[u]
    BY <1>0, <1>5 DEF Begin, GetLocal, GetSetQuot, GetTimesum, MakeSlots, CountSlot,
                CheckLock, AnswerThrows, Ends
  <2> QED BY <1>4, <2>1, <2>2, <2>3
<1>6. ASSUME NEW w \in Workers,
             \/ MakeLocal(w) \/ AnsweredOther(w) \/ Fails(w) \/ Unlock(w) \/ Finish(w)
             \/ Dies(w) \/ \E a \in Answers : Answered(w, a)
      PROVE  \E V : SetPassed(t, V)'
  <2>1. setrow' = setrow /\ setsecond' = setsecond
    BY <1>6 DEF MakeLocal, AnsweredOther, Fails, Unlock, Finish, Dies, Answered, tables,
                history
  <2>2. PICK at : at # "key" /\ Goto(w, at)
    BY <1>6 DEF MakeLocal, AnsweredOther, Fails, Unlock, Finish, Dies, Answered, Ends
  <2>3. \A u \in Workers \ {w} : call'[u] = call[u]
    BY <1>0, <1>6 DEF MakeLocal, AnsweredOther, Fails, Unlock, Finish, Dies, Answered,
                Ends
  <2> QED BY <1>4, <2>1, <2>2, <2>3
<1>7. ASSUME NEW w \in Workers, TakeLock(w) PROVE \E V : SetPassed(t, V)'
  <2>1. setrow' = setrow /\ setsecond' = setsecond  BY <1>7 DEF TakeLock
  <2>2. PICK at : at # "key" /\ Goto(w, at)  BY <1>7 DEF TakeLock, Ends
  <2>3. ASSUME NEW u \in Workers \ {w}
        PROVE  /\ call'[u].setsum = call[u].setsum /\ call'[u].now = call[u].now
               /\ call'[u].setbegin = call[u].setbegin
    <3>1. call[u] \in CallType  BY <1>0
    <3>2. CASE Ends(w, "clean")  BY <1>0, <3>2 DEF Ends
    <3>3. CASE call'[u] = [call[u] EXCEPT !.stale =
                       @ \/ pc[u] \in {"makeslots", "count", "lock", "incr"}]
      BY ONLY <3>1, <3>3 DEF CallType
    <3> QED BY <1>7, <2>3, <3>2, <3>3 DEF TakeLock
  <2> QED BY <1>4, <2>1, <2>2, <2>3
<1>8. CASE Tick
  <2>1. setrow' = setrow /\ setsecond' = setsecond /\ pc' = pc /\ call' = call
    BY <1>8 DEF Tick, tables, history
  <2>2. \A u \in PendingAt(t)' : u \in PendingAt(t) /\ Ticket(call'[u]) = Ticket(call[u])
    BY <2>1 DEF PendingAt
  <2> QED BY <1>3, <2>1, <2>2
<1> QED BY <1>1, <1>2, <1>5, <1>6, <1>7, <1>8 DEF Next

LEMMA PassStep == PassInv /\ [Next]_vars => PassInv'
<1> SUFFICES ASSUME PassInv, [Next]_vars PROVE PassInv'  OBVIOUS
<1>1. TypeInv /\ TypeInv'  BY TypeStep DEF PassInv
<1>2. CASE Next
  <2>1. KeyInv'  BY <1>2, KeyStep DEF PassInv
  <2>2. \A t \in Seconds : \E V : SetPassed(t, V)'  BY <1>1, <1>2, SetStep DEF PassInv
  <2> QED BY <1>1, <2>1, <2>2 DEF PassInv
<1>3. CASE UNCHANGED vars
  <2>1. UNCHANGED <<row, second, setrow, setsecond, pc, call>>
    BY <1>3 DEF vars, tables, history
  <2>2. KeyInv'  BY <2>1 DEF PassInv, KeyInv
  <2>3. ASSUME NEW t \in Seconds, NEW U, SetPassed(t, U) PROVE SetPassed(t, U)'
    <3>1. PendingAt(t)' = PendingAt(t)  BY <2>1 DEF PendingAt
    <3> QED BY <2>1, <2>3, <3>1 DEF SetPassed
  <2>4. \A t \in Seconds : \E U : SetPassed(t, U)'  BY <2>3 DEF PassInv
  <2> QED BY <1>1, <2>2, <2>4 DEF PassInv
<1> QED BY <1>2, <1>3

\* In every second no more requests of the key, or of the set, pass than the
\* greatest limit they were held against, times the begins of the second's
\* count, however often workers begin it again (FcApi.class.php, 147-205 and
\* 623-640).
THEOREM PassesWithinQuotaHolds == Spec => []PassesWithinQuota
BY InitPass, PassStep, PassedWithin, PTL DEF Spec

-----------------------------------------------------------------------------
\* The slots.

\* Where a call is that does not wait for the server, and where it holds a
\* copy of the slots.
Early == {"local", "make", "set", "setcount", "key", "slots", "makeslots",
          "count", "lock", "incr"}
Copied == {"makeslots", "count", "lock", "incr"}

\* A call that does not wait for the server is not older than MaxStall.
CallsRecent ==
  \A w \in Workers : pc[w] \in Early =>
    /\ call[w].now \in Start .. MaxTime /\ call[w].now <= clock
    /\ clock - call[w].now <= MaxStall

\* A slot that is open is of a time that began, and in its place of the ring.
Placed(i, k, now) == k > 0 => k \in Times /\ SlotIndex(k) = i /\ k <= now
SlotsPlaced == \A i \in Slots : Placed(i, slots[i].timekey, clock)

\* A slot that was open for the request when it was read is open for it still,
\* or was erased.
StillOpen ==
  \A w \in Workers : pc[w] = "count" =>
    (call[w].timesum[SlotIndex(call[w].now)].timekey = TimeKey(call[w].now)
       => slots[SlotIndex(call[w].now)].timekey \in {0, TimeKey(call[w].now)})

SlotInv ==
  /\ TypeInv
  /\ clock \in Start .. MaxTime
  /\ truth \in [Times -> Nat]
  /\ CallsRecent
  /\ SlotsPlaced
  /\ StillOpen
  /\ SlotsNeverOvercount

LEMMA Constants ==
  /\ Start \in Nat /\ MaxTime \in Nat /\ NumPerIndex <= Start /\ Start <= MaxTime
  /\ NumPerIndex \in Nat \ {0} /\ Period \in Nat \ {0}
  /\ MaxStall \in Nat /\ MaxStall + NumPerIndex <= Period
BY PhpAssumption, SlotAssumption, PeriodPositive

\* The times of slots: no slot begins at 0, and two with one place in the ring
\* are a period apart.
LEMMA SlotTimes ==
  ASSUME NEW k \in Times
  PROVE  k \in Nat \ {0} /\ SlotIndex(k) \in Slots
<1>1. PICK t \in Start .. MaxTime : k = TimeKey(t)  BY DEF Times, Seconds
<1>2. t \in Nat /\ NumPerIndex <= t  BY Constants
<1>3. k \in Nat /\ t < k + NumPerIndex  BY <1>1, <1>2, TimeKeyBounds
<1>4. SlotIndex(k) \in Slots  BY <1>3, SlotIndexInRing
<1> QED BY <1>2, <1>3, <1>4, Constants

LEMMA TimesApart ==
  ASSUME NEW k \in Times, NEW m \in Times, SlotIndex(k) = SlotIndex(m), k < m
  PROVE  k + Period <= m
<1>1. PICK t \in Start .. MaxTime : k = TimeKey(t)  BY DEF Times, Seconds
<1>2. PICK u \in Start .. MaxTime : m = TimeKey(u)  BY DEF Times, Seconds
<1>3. t \in Nat /\ u \in Nat  BY Constants
<1>4. SlotIndex(t) = SlotIndex(u)  BY <1>1, <1>2, <1>3, TimeKeySlot
<1> QED BY <1>1, <1>2, <1>3, <1>4, TimeKeysApart

\* The time of a call that does not wait: its slot began less than a period ago.
LEMMA CallTime ==
  ASSUME SlotInv, NEW w \in Workers, pc[w] \in Early
  PROVE  /\ call[w].now \in Nat /\ call[w].now \in Start .. MaxTime
         /\ TimeKey(call[w].now) \in Times
         /\ SlotIndex(call[w].now) \in Slots
         /\ SlotIndex(TimeKey(call[w].now)) = SlotIndex(call[w].now)
         /\ TimeKey(call[w].now) <= clock
         /\ clock < TimeKey(call[w].now) + Period
<1> DEFINE t == call[w].now
<1>1. /\ t \in Start .. MaxTime /\ t <= clock /\ clock - t <= MaxStall
      /\ clock \in Start .. MaxTime
  BY DEF SlotInv, CallsRecent
<1>2. t \in Nat  BY <1>1, Constants
<1>3. TimeKey(t) \in Nat /\ TimeKey(t) <= t /\ t < TimeKey(t) + NumPerIndex
  BY <1>2, TimeKeyBounds
<1>4. SlotIndex(t) \in Slots /\ SlotIndex(TimeKey(t)) = SlotIndex(t)
  BY <1>2, SlotIndexInRing, TimeKeySlot
<1>5. TimeKey(t) \in Times  BY <1>1 DEF Times, Seconds
<1> HIDE DEF t
<1>6. TimeKey(t) <= clock /\ clock < TimeKey(t) + Period
  BY <1>1, <1>2, <1>3, Constants
<1> QED BY <1>1, <1>2, <1>4, <1>5, <1>6 DEF t

\* A slot in the place of such a call is of its time or of an earlier one.
LEMMA NotLater ==
  ASSUME SlotInv, NEW w \in Workers, pc[w] \in Early, NEW k \in Times,
         SlotIndex(k) = SlotIndex(call[w].now), k <= clock
  PROVE  k <= TimeKey(call[w].now)
<1> DEFINE m == TimeKey(call[w].now)
<1>1. m \in Times /\ SlotIndex(k) = SlotIndex(m) /\ clock < m + Period
  BY CallTime
<1>2. k \in Nat /\ m \in Nat /\ clock \in Nat /\ Period \in Nat
  BY <1>1, SlotTimes, Constants DEF SlotInv
<1> HIDE DEF m
<1>3. ~(m < k)
  <2>1. m < k => m + Period <= k  BY <1>1, TimesApart
  <2> QED BY <1>1, <1>2, <2>1
<1>4. k <= m  BY <1>2, <1>3
<1> QED BY <1>4 DEF m

LEMMA SameTime ==
  ASSUME SlotInv, NEW u \in Workers, NEW w \in Workers,
         pc[u] \in Early, pc[w] \in Early,
         SlotIndex(call[u].now) = SlotIndex(call[w].now)
  PROVE  TimeKey(call[u].now) = TimeKey(call[w].now)
<1> DEFINE k == TimeKey(call[u].now)
           m == TimeKey(call[w].now)
<1>1. k \in Times /\ k <= clock /\ SlotIndex(k) = SlotIndex(call[w].now)  BY CallTime
<1>2. m \in Times /\ m <= clock /\ SlotIndex(m) = SlotIndex(call[u].now)  BY CallTime
<1>3. k <= m /\ m <= k  BY <1>1, <1>2, NotLater
<1>4. k \in Nat /\ m \in Nat  BY <1>1, <1>2, SlotTimes
<1> HIDE DEF k, m
<1>5. k = m  BY <1>3, <1>4
<1> QED BY <1>5 DEF k, m

\* The slot a request is counted in.
LEMMA SlotOfRequest ==
  ASSUME TypeInv, NEW w \in Workers
  PROVE  LET c == call[w]
             i == SlotIndex(c.now)
             k == TimeKey(c.now)
             s == SlotOf(c, i)
             one == IF c.pass THEN 1 ELSE 0
         IN  /\ i \in Slots /\ k \in Nat /\ s \in SlotType /\ one \in {0, 1}
             /\ c.timesum[i].timekey = k =>
                  s.timekey = slots[i].timekey /\ s.sum = slots[i].sum + one
             /\ c.timesum[i].timekey # k => s.timekey = k /\ s.sum = one
<1> DEFINE c == call[w]
           i == SlotIndex(c.now)
           k == TimeKey(c.now)
           one == IF c.pass THEN 1 ELSE 0
           new == [NoSlot EXCEPT !.timekey = k]
<1>1. slots \in [Slots -> SlotType] /\ c \in CallType  BY DEF TypeInv
<1>2. c.now \in Nat /\ i \in Slots /\ k \in Nat
  BY <1>1, SecondsNat, SlotIndexInRing, TimeKeyBounds DEF CallType
<1>3. \A s \in SlotType : /\ Plus(s, c.pass) \in SlotType
                          /\ Plus(s, c.pass).timekey = s.timekey
                          /\ Plus(s, c.pass).sum = s.sum + one
  BY DEF Plus, SlotType
<1>4. new \in SlotType /\ new.timekey = k /\ new.sum = 0
  BY <1>2 DEF NoSlot, SlotType
<1>5. slots[i] \in SlotType /\ one \in {0, 1}  BY <1>1, <1>2
<1>6. SlotOf(c, i) = IF c.timesum[i].timekey # k THEN Plus(new, c.pass)
                     ELSE Plus(slots[i], c.pass)
  BY DEF SlotOf
<1> HIDE DEF c, i, k, one, new
<1>7. CASE c.timesum[i].timekey = k
  BY <1>2, <1>3, <1>5, <1>6, <1>7 DEF c, i, k, one
<1>8. CASE c.timesum[i].timekey # k
  <2>1. Plus(new, c.pass).sum = one
    <3>1. Plus(new, c.pass).sum = 0 + one  BY <1>3, <1>4
    <3> QED BY <1>5, <3>1
  <2>2. SlotOf(c, i) = Plus(new, c.pass)  BY <1>6, <1>8
  <2> QED BY <1>2, <1>3, <1>4, <1>5, <1>8, <2>1, <2>2 DEF c, i, k, one
<1> QED BY <1>7, <1>8

\* Every step but that of counting keeps a slot or erases it.
Spared(i) ==
  \/ slots'[i] = slots[i]
  \/ slots'[i] = NoSlot /\ slots[i].timekey \in opened'

LEMMA SlotsChange ==
  ASSUME TypeInv, Next
  PROVE  \/ /\ truth' = truth /\ opened \subseteq opened'
            /\ \A i \in Slots : Spared(i)
         \/ \E w \in Workers : CountSlot(w)
<1>0. slots \in [Slots -> SlotType]  BY DEF TypeInv
<1>1. ASSUME NEW w \in Workers, MakeSlots(w)
      PROVE  truth' = truth /\ opened \subseteq opened' /\ \A i \in Slots : Spared(i)
  BY <1>0, <1>1 DEF MakeSlots, Spared
<1>2. ASSUME NEW w \in Workers, Finish(w)
      PROVE  truth' = truth /\ opened \subseteq opened' /\ \A i \in Slots : Spared(i)
  <2>1. truth' = truth  BY <1>2 DEF Finish
  <2>2. CASE slots' = slots /\ opened' = opened  BY <2>1, <2>2 DEF Spared
  <2>3. CASE slots' = NoSlots /\ opened' = opened \cup {slots[i].timekey : i \in Slots}
    BY <2>1, <2>3 DEF Spared, NoSlots
  <2> QED BY <1>2, <2>2, <2>3 DEF Finish
<1>3. ASSUME truth' = truth, opened' = opened, slots' = slots
      PROVE  truth' = truth /\ opened \subseteq opened' /\ \A i \in Slots : Spared(i)
  BY <1>3 DEF Spared
<1>4. ASSUME NEW w \in Workers,
             \/ Begin(w) \/ GetLocal(w) \/ MakeLocal(w) \/ GetSetQuot(w) \/ CountSet(w)
             \/ Judge(w) \/ GetTimesum(w) \/ CheckLock(w) \/ TakeLock(w)
             \/ AnsweredOther(w) \/ AnswerThrows(w) \/ Fails(w) \/ Unlock(w) \/ Dies(w)
             \/ \E a \in Answers : Answered(w, a)
      PROVE  truth' = truth /\ opened' = opened /\ slots' = slots
  BY <1>4 DEF Begin, GetLocal, MakeLocal, GetSetQuot, CountSet, Judge, GetTimesum,
              CheckLock, TakeLock, AnsweredOther, AnswerThrows, Fails, Unlock, Dies,
              Answered, tables, history
<1>5. CASE Tick  BY <1>3, <1>5 DEF Tick, tables, history
<1> QED BY <1>1, <1>2, <1>3, <1>4, <1>5 DEF Next

LEMMA ClockStep ==
  ASSUME Next
  PROVE  clock' = clock \/ Tick
<1>1. ASSUME NEW w \in Workers,
             \/ Begin(w) \/ GetLocal(w) \/ MakeLocal(w) \/ GetSetQuot(w) \/ CountSet(w)
             \/ Judge(w) \/ GetTimesum(w) \/ MakeSlots(w) \/ CountSlot(w) \/ CheckLock(w)
             \/ TakeLock(w)
      PROVE  clock' = clock
  BY <1>1 DEF Begin, GetLocal, MakeLocal, GetSetQuot, CountSet, Judge, GetTimesum,
              MakeSlots, CountSlot, CheckLock, TakeLock
<1>2. ASSUME NEW w \in Workers,
             \/ AnsweredOther(w) \/ AnswerThrows(w) \/ Fails(w) \/ Unlock(w)
             \/ Finish(w) \/ Dies(w) \/ \E a \in Answers : Answered(w, a)
      PROVE  clock' = clock
  BY <1>2 DEF AnsweredOther, AnswerThrows, Fails, Unlock, Finish, Dies, Answered
<1> QED BY <1>1, <1>2 DEF Next

\* A call keeps the time of its beginning while it does not wait.
LEMMA NowStep ==
  ASSUME TypeInv, Next, NEW u \in Workers, pc'[u] \in Early
  PROVE  \/ pc[u] \in Early /\ call'[u].now = call[u].now
         \/ call'[u].now = clock /\ clock' = clock
<1>0. pc \in [Workers -> Places] /\ call \in [Workers -> CallType]  BY DEF TypeInv
<1>1. ASSUME NEW w \in Workers, Begin(w)
      PROVE  \/ pc[u] \in Early /\ call'[u].now = call[u].now
             \/ call'[u].now = clock /\ clock' = clock
  <2>1. CASE u = w
    <3>1. call'[u] = [call[u] EXCEPT !.now = clock]  BY <1>0, <1>1, <2>1 DEF Begin
    <3>2. call'[u].now = clock  BY <1>0, <3>1 DEF CallType
    <3> QED BY <1>1, <3>2 DEF Begin
  <2>2. CASE u # w  BY <1>0, <1>1, <2>2 DEF Begin, Goto
  <2> QED BY <2>1, <2>2
<1>2. ASSUME NEW w \in Workers, NEW at, Goto(w, at), pc[w] \in Early \/ at \notin Early,
             call'[u].now = call[u].now \/ (u = w /\ at \notin Early)
      PROVE  pc[u] \in Early /\ call'[u].now = call[u].now
  BY <1>0, <1>2 DEF Goto
<1>3. ASSUME NEW w \in Workers,
             \/ GetLocal(w) \/ GetSetQuot(w) \/ GetTimesum(w) \/ MakeSlots(w)
             \/ CountSlot(w)
      PROVE  pc[u] \in Early /\ call'[u].now = call[u].now
  <2>1. PICK at : Goto(w, at)
    BY <1>3 DEF GetLocal, GetSetQuot, GetTimesum, MakeSlots, CountSlot
  <2>2. pc[w] \in Early
    BY <1>3 DEF GetLocal, GetSetQuot, GetTimesum, MakeSlots, CountSlot, Early
  <2>3. call'[u].now = call[u].now
    <3>1. CASE GetLocal(w)  BY <1>0, <3>1 DEF GetLocal, CallType
    <3>2. CASE GetSetQuot(w)
      <4> DEFINE b == (setrow.now # call[w].now)
      <4>1. call' = [call EXCEPT ![w].fresh = b]  BY <3>2 DEF GetSetQuot
      <4> HIDE DEF b
      <4> QED BY <1>0, <4>1 DEF CallType
    <3>3. CASE GetTimesum(w)  BY <1>0, <3>3 DEF GetTimesum, CallType
    <3>4. CASE MakeSlots(w)  BY <1>0, <3>4 DEF MakeSlots, CallType
    <3>5. CASE CountSlot(w)  BY <1>0, <3>5 DEF CountSlot, CallType
    <3> QED BY <1>3, <3>1, <3>2, <3>3, <3>4, <3>5
  <2> QED BY <1>2, <2>1, <2>2, <2>3
<1>4. ASSUME NEW w \in Workers, CountSet(w)
      PROVE  pc[u] \in Early /\ call'[u].now = call[u].now
  <2>1. Goto(w, "key") /\ pc[w] \in Early  BY <1>4 DEF CountSet, Early
  <2>2. call'[u].now = call[u].now
    <3> DEFINE b == setsecond'[call[w].now].begins
    <3>1. call' = [call EXCEPT ![w] = [call[w] EXCEPT !.setsum = setrow'.nowsum,
                                         !.fresh = FALSE, !.setbegin = b]]
      BY <1>0, <1>4, CountSetCall
    <3> HIDE DEF b
    <3> QED BY <1>0, <3>1 DEF CallType
  <2> QED BY <1>2, <2>1, <2>2
<1>5. ASSUME NEW w \in Workers, Judge(w)
      PROVE  pc[u] \in Early /\ call'[u].now = call[u].now
  <2>1. Goto(w, "slots") /\ pc[w] \in Early  BY <1>5 DEF Judge, Early
  <2>2. PICK pass \in BOOLEAN :
          call' = [call EXCEPT ![w] =
                     [NoCall EXCEPT !.now = call[w].now, !.pass = pass,
                                    !.local.updatetime = call[w].local.updatetime,
                                    !.local.index = call[w].local.index]]
    BY <1>5 DEF Judge
  <2>3. call'[u].now = call[u].now  BY <1>0, <2>2 DEF NoCall
  <2> QED BY <1>2, <2>1, <2>3
<1>6. ASSUME NEW w \in Workers, NEW at, at \notin Early, Goto(w, at),
             \A v \in Workers \ {w} : call'[v].now = call[v].now
      PROVE  pc[u] \in Early /\ call'[u].now = call[u].now
  BY <1>2, <1>6
<1>7. ASSUME NEW w \in Workers, NEW at, Ends(w, at), at \notin Early
      PROVE  pc[u] \in Early /\ call'[u].now = call[u].now
  <2>1. \A v \in Workers \ {w} : call'[v] = call[v]  BY <1>0, <1>7 DEF Ends
  <2> QED BY <1>6, <1>7, <2>1 DEF Ends
<1>8. ASSUME NEW w \in Workers, TakeLock(w)
      PROVE  pc[u] \in Early /\ call'[u].now = call[u].now
  <2>1. CASE Ends(w, "clean")  BY <1>7, <2>1 DEF Early
  <2>2. CASE /\ Goto(w, "report")
             /\ \A v \in Workers \ {w} :
                  call'[v] = [call[v] EXCEPT !.stale =
                     @ \/ pc[v] \in {"makeslots", "count", "lock", "incr"}]
    <3>1. \A v \in Workers \ {w} : call'[v].now = call[v].now
      <4>1. \A v \in Workers : call[v] \in CallType  BY ONLY <1>0
      <4> QED BY ONLY <2>2, <4>1 DEF CallType
    <3> QED BY <1>6, <2>2, <3>1 DEF Early
  <2> QED BY <1>8, <2>1, <2>2 DEF TakeLock
<1>9. ASSUME NEW w \in Workers, CheckLock(w)
      PROVE  pc[u] \in Early /\ call'[u].now = call[u].now
  <2>1. CASE Ends(w, "clean")  BY <1>7, <2>1 DEF Early
  <2>2. CASE Goto(w, "incr") /\ call' = call
    <3>1. pc[w] \in Early  BY <1>9 DEF CheckLock, Early
    <3> QED BY <1>2, <2>2, <3>1
  <2> QED BY <1>9, <2>1, <2>2 DEF CheckLock
<1>10. ASSUME NEW w \in Workers,
              \/ AnsweredOther(w) \/ AnswerThrows(w) \/ Fails(w) \/ Dies(w)
              \/ \E a \in Answers : Answered(w, a)
       PROVE  pc[u] \in Early /\ call'[u].now = call[u].now
  <2>1. Ends(w, "unlock") \/ Ends(w, "idle")
    BY <1>10 DEF AnsweredOther, AnswerThrows, Fails, Dies, Answered
  <2> QED BY <1>7, <2>1 DEF Early
<1>11. ASSUME NEW w \in Workers, MakeLocal(w)
       PROVE  pc[u] \in Early /\ call'[u].now = call[u].now
  BY <1>2, <1>11 DEF MakeLocal, Early
<1>12. ASSUME NEW w \in Workers, Unlock(w) \/ Finish(w)
       PROVE  pc[u] \in Early /\ call'[u].now = call[u].now
  BY <1>6, <1>12 DEF Unlock, Finish, Early
<1>13. CASE Tick  BY <1>13 DEF Tick
<1> QED
  BY <1>1, <1>3, <1>4, <1>5, <1>8, <1>9, <1>10, <1>11, <1>12, <1>13 DEF Next

\* A copy of the slots is the slots as they are, or the one the call had, to
\* which it may just have written back the slot it counted in.
LEMMA CopyStep ==
  ASSUME TypeInv, Next, NEW u \in Workers, pc'[u] \in Copied
  PROVE  \/ call'[u].timesum = slots'
         \/ /\ pc[u] \in Copied /\ (pc'[u] = "count" => pc[u] = "count")
            /\ call'[u].now = call[u].now
            /\ call[u].stale => call'[u].stale
            /\ \/ call'[u].timesum = call[u].timesum
               \/ /\ CountSlot(u) /\ pc'[u] # "count"
                  /\ call'[u].timesum =
                       [call[u].timesum EXCEPT ![SlotIndex(call[u].now)] =
                          CopyOf(call[u], SlotIndex(call[u].now),
                                 slots'[SlotIndex(call[u].now)])]
<1> DEFINE New == call'[u].timesum = slots'
           Same == /\ pc[u] \in Copied /\ (pc'[u] = "count" => pc[u] = "count")
                   /\ call'[u].now = call[u].now
                   /\ call[u].stale => call'[u].stale
           Old == call'[u].timesum = call[u].timesum
           Back == /\ CountSlot(u) /\ pc'[u] # "count"
                   /\ call'[u].timesum =
                        [call[u].timesum EXCEPT ![SlotIndex(call[u].now)] =
                           CopyOf(call[u], SlotIndex(call[u].now),
                                  slots'[SlotIndex(call[u].now)])]
<1> SUFFICES New \/ (Same /\ (Old \/ Back))  OBVIOUS
<1>0. pc \in [Workers -> Places] /\ call \in [Workers -> CallType]  BY DEF TypeInv
<1>1. ASSUME NEW w \in Workers, NEW at, Goto(w, at), w # u, call'[u] = call[u]
      PROVE  Same /\ Old
  BY <1>0, <1>1 DEF Goto
<1>2. ASSUME NEW w \in Workers, NEW at, Goto(w, at), at \notin Copied,
             \A v \in Workers \ {w} : call'[v] = call[v]
      PROVE  Same /\ Old
  <2>1. w # u  BY <1>0, <1>2 DEF Goto
  <2> QED BY <1>1, <1>2, <2>1
<1>3. ASSUME NEW w \in Workers, NEW at, Ends(w, at), at \notin Copied
      PROVE  Same /\ Old
  <2>1. \A v \in Workers \ {w} : call'[v] = call[v]  BY <1>0, <1>3 DEF Ends
  <2> QED BY <1>2, <1>3, <2>1 DEF Ends
<1>4. ASSUME NEW w \in Workers,
             \/ Begin(w) \/ GetLocal(w) \/ MakeLocal(w) \/ GetSetQuot(w)
             \/ Judge(w) \/ Unlock(w) \/ Finish(w)
      PROVE  Same /\ Old
  <2>1. PICK at \in {"local", "set", "make", "setcount", "slots", "clean", "idle"} :
          Goto(w, at)
    BY <1>4 DEF Begin, GetLocal, MakeLocal, GetSetQuot, Judge, Unlock, Finish
  <2>2. \A v \in Workers \ {w} : call'[v] = call[v]
    BY <1>0, <1>4 DEF Begin, GetLocal, MakeLocal, GetSetQuot, Judge, Unlock, Finish
  <2>3. at \notin Copied  BY <2>1 DEF Copied
  <2> QED BY <1>2, <2>1, <2>2, <2>3
<1>5. ASSUME NEW w \in Workers, CountSet(w) PROVE Same /\ Old
  <2>1. u # w /\ pc'[u] = pc[u]  BY <1>0, <1>5 DEF CountSet, Goto, Copied
  <2>2. call'[u] = call[u]  BY <1>0, <1>5, <2>1, CountSetCall
  <2> QED BY <2>1, <2>2
<1>6. ASSUME NEW w \in Workers, GetTimesum(w) PROVE New \/ (Same /\ Old)
  <2>1. CASE u = w
    <3>1. slots' = slots  BY <1>6 DEF GetTimesum, tables
    <3>2. call'[u].timesum = slots  BY <1>0, <1>6, <2>1 DEF GetTimesum, CallType
    <3> QED BY <3>1, <3>2
  <2>2. CASE u # w
    <3>1. call'[u] = call[u] /\ \E at : Goto(w, at)  BY <1>0, <1>6, <2>2 DEF GetTimesum
    <3> QED BY <1>1, <2>2, <3>1
  <2> QED BY <2>1, <2>2
<1>7. ASSUME NEW w \in Workers, MakeSlots(w) PROVE New \/ (Same /\ Old)
  <2>1. CASE u = w
    <3>1. call'[u].timesum = slots'  BY <1>0, <1>7, <2>1 DEF MakeSlots, CallType
    <3> QED BY <3>1
  <2>2. CASE u # w
    <3>1. call'[u] = call[u] /\ Goto(w, "count")  BY <1>0, <1>7, <2>2 DEF MakeSlots
    <3> QED BY <1>1, <2>2, <3>1
  <2> QED BY <2>1, <2>2
<1>8. ASSUME NEW w \in Workers, CountSlot(w) PROVE Same /\ (Old \/ Back)
  <2>1. CASE u = w
    <3>1. pc[u] = "count" /\ pc'[u] = "lock"  BY <1>0, <1>8, <2>1 DEF CountSlot, Goto
    <3> DEFINE n == SlotIndex(call[u].now)
               new == CopyOf(call[u], n, slots'[n])
    <3>2. call' = [call EXCEPT ![u].timesum[n] = new]  BY <1>8, <2>1 DEF CountSlot
    <3> HIDE DEF n, new
    <3>3. call'[u] = [call[u] EXCEPT !.timesum = [call[u].timesum EXCEPT ![n] = new]]
      BY <1>0, <3>2
    <3>4. /\ call'[u].now = call[u].now /\ call'[u].stale = call[u].stale
          /\ call'[u].timesum = [call[u].timesum EXCEPT ![n] = new]
      BY <1>0, <3>3 DEF CallType
    <3> QED BY <1>8, <2>1, <3>1, <3>4 DEF Copied, n, new
  <2>2. CASE u # w
    <3>1. call'[u] = call[u] /\ Goto(w, "lock")  BY <1>0, <1>8, <2>2 DEF CountSlot
    <3> QED BY <1>1, <2>2, <3>1
  <2> QED BY <2>1, <2>2
<1>9. ASSUME NEW w \in Workers, CheckLock(w) PROVE Same /\ Old
  <2>1. CASE Ends(w, "clean")  BY <1>3, <2>1 DEF Copied
  <2>2. CASE Goto(w, "incr") /\ call' = call
    <3>1. CASE u # w  BY <1>1, <2>2, <3>1
    <3>2. CASE u = w
      <4>1. pc[u] = "lock" /\ pc'[u] = "incr"  BY <1>0, <1>9, <2>2, <3>2 DEF CheckLock, Goto
      <4> QED BY <2>2, <4>1 DEF Copied
    <3> QED BY <3>1, <3>2
  <2> QED BY <1>9, <2>1, <2>2 DEF CheckLock
<1>10. ASSUME NEW w \in Workers, TakeLock(w) PROVE Same /\ Old
  <2>1. CASE Ends(w, "clean")  BY <1>3, <2>1 DEF Copied
  <2>2. CASE /\ Goto(w, "report")
             /\ \A v \in Workers \ {w} :
                  call'[v] = [call[v] EXCEPT !.stale =
                     @ \/ pc[v] \in {"makeslots", "count", "lock", "incr"}]
    <3>1. u # w /\ pc'[u] = pc[u]  BY <1>0, <2>2 DEF Goto, Copied
    <3>2. call'[u] = [call[u] EXCEPT !.stale = TRUE]
      <4>1. pc[u] \in {"makeslots", "count", "lock", "incr"}  BY <3>1 DEF Copied
      <4>2. (call[u].stale \/ pc[u] \in {"makeslots", "count", "lock", "incr"}) = TRUE
        BY <4>1
      <4> QED BY <2>2, <3>1, <4>2
    <3>3. /\ call'[u].now = call[u].now /\ call'[u].stale
          /\ call'[u].timesum = call[u].timesum
      BY <1>0, <3>2 DEF CallType
    <3> QED BY <3>1, <3>3
  <2> QED BY <1>10, <2>1, <2>2 DEF TakeLock
<1>11. ASSUME NEW w \in Workers,
              \/ AnsweredOther(w) \/ AnswerThrows(w) \/ Fails(w) \/ Dies(w)
              \/ \E a \in Answers : Answered(w, a)
       PROVE  Same /\ Old
  <2>1. Ends(w, "unlock") \/ Ends(w, "idle")
    BY <1>11 DEF AnsweredOther, AnswerThrows, Fails, Dies, Answered
  <2> QED BY <1>3, <2>1 DEF Copied
<1>12. CASE Tick
  BY <1>12 DEF Tick
<1> HIDE DEF New, Same, Old, Back
<1> QED
  BY <1>4, <1>5, <1>6, <1>7, <1>8, <1>9, <1>10, <1>11, <1>12 DEF Next

LEMMA InitSlots == Init => SlotInv
<1> SUFFICES ASSUME Init PROVE SlotInv  OBVIOUS
<1>1. TypeInv  BY InitTypes
<1>2. clock \in Start .. MaxTime  BY Constants DEF Init
<1>3. truth \in [Times -> Nat]  BY DEF Init
<1>4. \A w \in Workers : pc[w] \notin Early  BY DEF Init, Early
<1>5. CallsRecent /\ StillOpen  BY <1>4 DEF CallsRecent, StillOpen, Early
<1>6. \A i \in Slots : slots[i].timekey = 0  BY DEF Init, NoSlots, NoSlot
<1>7. SlotsPlaced  BY <1>6 DEF SlotsPlaced, Placed
<1>8. SlotsNeverOvercount  BY <1>6 DEF SlotsNeverOvercount
<1> QED BY <1>1, <1>2, <1>3, <1>5, <1>7, <1>8 DEF SlotInv

\* The clock goes on by seconds, and not while a call would get too old.
LEMMA ClockBounds ==
  ASSUME SlotInv, Next
  PROVE  clock \in Nat /\ clock' \in Start .. MaxTime /\ clock <= clock'
<1>1. clock \in Start .. MaxTime  BY DEF SlotInv
<1>2. CASE clock' = clock  BY <1>1, <1>2, Constants
<1>3. CASE Tick  BY <1>1, <1>3, Constants DEF Tick
<1> QED BY <1>2, <1>3, ClockStep

LEMMA RecentStep ==
  ASSUME SlotInv, Next PROVE CallsRecent'
<1>0. clock \in Start .. MaxTime /\ TypeInv  BY DEF SlotInv
<1> SUFFICES ASSUME NEW u \in Workers, pc'[u] \in Early
             PROVE  /\ call'[u].now \in Start .. MaxTime /\ call'[u].now <= clock'
                    /\ clock' - call'[u].now <= MaxStall
  BY DEF CallsRecent
<1>1. CASE call'[u].now = clock /\ clock' = clock
  BY <1>0, <1>1, Constants
<1>2. CASE pc[u] \in Early /\ call'[u].now = call[u].now
  <2>1. /\ call[u].now \in Start .. MaxTime /\ call[u].now <= clock
        /\ clock - call[u].now <= MaxStall
    BY <1>2 DEF SlotInv, CallsRecent
  <2>2. CASE clock' = clock  BY <1>2, <2>1, <2>2
  <2>3. CASE Tick
    <3>1. clock' = clock + 1 /\ clock - call[u].now < MaxStall
      BY <1>2, <2>3 DEF Tick, Early
    <3> QED BY <1>0, <1>2, <2>1, <3>1, Constants
  <2> QED BY <2>2, <2>3, ClockStep
<1> QED BY <1>0, <1>1, <1>2, NowStep

\* The slot a step of counting writes, and the time it is of then.
LEMMA CountsSlot ==
  ASSUME SlotInv, NEW w \in Workers, CountSlot(w)
  PROVE  LET c == call[w]
             i == SlotIndex(c.now)
             k == TimeKey(c.now)
             one == IF c.pass THEN 1 ELSE 0
         IN  /\ i \in Slots /\ k \in Times /\ k <= clock /\ SlotIndex(k) = i
             /\ clock < k + Period
             /\ one \in {0, 1}
             /\ slots' = [slots EXCEPT ![i] = SlotOf(c, i)]
             /\ truth' = [truth EXCEPT ![k] = truth[k] + one]
             /\ slots'[i].timekey \in {0, k}
             /\ c.timesum[i].timekey = k =>
                  /\ slots'[i].timekey = slots[i].timekey
                  /\ slots'[i].sum = slots[i].sum + one
             /\ c.timesum[i].timekey # k =>
                  slots'[i].timekey = k /\ slots'[i].sum = one
<1> DEFINE c == call[w]
           i == SlotIndex(c.now)
           k == TimeKey(c.now)
           one == IF c.pass THEN 1 ELSE 0
<1>0. TypeInv  BY DEF SlotInv
<1>1. slots \in [Slots -> SlotType] /\ truth \in [Times -> Nat]
  BY DEF SlotInv, TypeInv
<1>2. pc[w] = "count" /\ pc[w] \in Early  BY DEF CountSlot, Early
<1>3. /\ i \in Slots /\ k \in Times /\ k <= clock /\ SlotIndex(k) = i
      /\ clock < k + Period
  BY <1>2, CallTime
<1>4. slots' = [slots EXCEPT ![i] = SlotOf(c, i)]  BY DEF CountSlot
<1>5. slots'[i] = SlotOf(c, i)  BY <1>1, <1>3, <1>4
<1>6. /\ one \in {0, 1}
      /\ c.timesum[i].timekey = k =>
           slots'[i].timekey = slots[i].timekey /\ slots'[i].sum = slots[i].sum + one
      /\ c.timesum[i].timekey # k => slots'[i].timekey = k /\ slots'[i].sum = one
  BY <1>0, <1>5, SlotOfRequest
<1>7. c.timesum[i].timekey = k => slots[i].timekey \in {0, k}
  BY <1>2 DEF SlotInv, StillOpen
<1>8. truth' = [truth EXCEPT ![k] = truth[k] + one]
  <2>1. truth' = [truth EXCEPT ![k] = IF c.pass THEN truth[k] + 1 ELSE truth[k]]
    BY DEF CountSlot
  <2>2. truth[k] \in Nat  BY <1>1, <1>3
  <2>3. (IF c.pass THEN truth[k] + 1 ELSE truth[k]) = truth[k] + one  BY <2>2
  <2> QED BY <2>1, <2>3
<1> HIDE DEF c, i, k, one
<1>9. slots'[i].timekey \in {0, k}  BY <1>6, <1>7
<1> QED BY <1>3, <1>4, <1>6, <1>8, <1>9 DEF c, i, k, one

LEMMA PlacedStep ==
  ASSUME SlotInv, Next PROVE SlotsPlaced'
<1>0. TypeInv /\ slots \in [Slots -> SlotType]  BY DEF SlotInv, TypeInv
<1>1. clock \in Nat /\ clock' \in Nat /\ clock <= clock'  BY ClockBounds, Constants
<1> SUFFICES ASSUME NEW j \in Slots PROVE Placed(j, slots'[j].timekey, clock')
  BY DEF SlotsPlaced
<1>2. ASSUME NEW k, Placed(j, k, clock) PROVE Placed(j, k, clock')
  <2>1. k > 0 /\ k \in Times => k \in Nat  BY SlotTimes
  <2> QED BY <1>1, <1>2, <2>1 DEF Placed
<1>3. Placed(j, slots[j].timekey, clock)  BY DEF SlotInv, SlotsPlaced
<1>4. CASE slots'[j] = slots[j]  BY <1>2, <1>3, <1>4
<1>5. CASE slots'[j].timekey = 0  BY <1>5 DEF Placed
<1>6. CASE Spared(j)  BY <1>4, <1>5, <1>6 DEF Spared, NoSlot
<1>7. ASSUME NEW w \in Workers, CountSlot(w) PROVE Placed(j, slots'[j].timekey, clock')
  <2> DEFINE i == SlotIndex(call[w].now)
  <2>1. i \in Slots /\ slots' = [slots EXCEPT ![i] = SlotOf(call[w], i)]
    BY <1>7, CountsSlot
  <2>2. CASE j # i  BY <1>0, <1>4, <2>1, <2>2
  <2>3. CASE j = i
    <3>1. PICK k \in Times : /\ k <= clock /\ SlotIndex(k) = j
                             /\ slots'[j].timekey \in {0, k}
      BY <1>7, <2>3, CountsSlot
    <3>2. Placed(j, k, clock)  BY <3>1 DEF Placed
    <3>3. Placed(j, k, clock')  BY <1>2, <3>2
    <3>4. CASE slots'[j].timekey = k  BY <3>3, <3>4
    <3> QED BY <1>5, <3>1, <3>4
  <2> QED BY <2>2, <2>3
<1> QED BY <1>0, <1>6, <1>7, SlotsChange

LEMMA OpenStep ==
  ASSUME SlotInv, Next PROVE StillOpen'
<1>0. /\ TypeInv /\ slots \in [Slots -> SlotType]
      /\ call \in [Workers -> CallType] /\ pc \in [Workers -> Places]
  BY DEF SlotInv, TypeInv
<1> SUFFICES ASSUME NEW u \in Workers, pc'[u] = "count",
                    call'[u].timesum[SlotIndex(call'[u].now)].timekey = TimeKey(call'[u].now)
             PROVE  slots'[SlotIndex(call'[u].now)].timekey \in {0, TimeKey(call'[u].now)}
  BY DEF StillOpen
<1>1. CASE call'[u].timesum = slots'  BY <1>1
<1>2. CASE pc[u] = "count" /\ call'[u].now = call[u].now /\ call'[u].timesum = call[u].timesum
  <2> DEFINE i == SlotIndex(call[u].now)
             k == TimeKey(call[u].now)
  <2>1. pc[u] \in Early  BY <1>2 DEF Early
  <2>2. i \in Slots  BY <2>1, CallTime
  <2>3. slots[i].timekey \in {0, k}  BY <1>2 DEF SlotInv, StillOpen
  <2>4. slots'[i].timekey \in {0, k}
    <3>1. CASE Spared(i)  BY <2>3, <3>1 DEF Spared, NoSlot
    <3>2. ASSUME NEW w \in Workers, CountSlot(w) PROVE slots'[i].timekey \in {0, k}
      <4>1. /\ SlotIndex(call[w].now) \in Slots
            /\ slots' = [slots EXCEPT ![SlotIndex(call[w].now)] =
                           SlotOf(call[w], SlotIndex(call[w].now))]
            /\ slots'[SlotIndex(call[w].now)].timekey \in {0, TimeKey(call[w].now)}
        BY <3>2, CountsSlot
      <4>2. CASE SlotIndex(call[w].now) # i
        BY <1>0, <2>2, <2>3, <4>1, <4>2
      <4>3. CASE SlotIndex(call[w].now) = i
        <5>1. pc[w] \in Early  BY <3>2 DEF CountSlot, Early
        <5>2. TimeKey(call[w].now) = k  BY <2>1, <4>3, <5>1, SameTime
        <5> QED BY <4>1, <4>3, <5>2
      <4> QED BY <4>2, <4>3
    <3> QED BY <1>0, <2>2, <3>1, <3>2, SlotsChange
  <2> QED BY <1>2, <2>4
<1>3. pc'[u] \in Copied  BY DEF Copied
<1> QED BY <1>0, <1>1, <1>2, <1>3, CopyStep

LEMMA TruthStep ==
  ASSUME SlotInv, Next
  PROVE  truth' \in [Times -> Nat] /\ SlotsNeverOvercount'
<1>0. /\ TypeInv /\ slots \in [Slots -> SlotType] /\ truth \in [Times -> Nat]
  BY DEF SlotInv, TypeInv
<1>1. \A j \in Slots : /\ slots[j].timekey \in Nat /\ slots[j].sum \in Nat
                       /\ slots[j].timekey > 0 =>
                            /\ slots[j].timekey \in Times
                            /\ slots[j].sum <= truth[slots[j].timekey]
  BY <1>0 DEF SlotInv, SlotsPlaced, Placed, SlotsNeverOvercount, SlotType
<1>2. CASE truth' = truth /\ \A j \in Slots : Spared(j)
  <2>1. \A j \in Slots : slots'[j] = slots[j] \/ slots'[j].timekey = 0
    BY <1>2 DEF Spared, NoSlot
  <2>2. SlotsNeverOvercount'  BY <1>1, <1>2, <2>1 DEF SlotsNeverOvercount
  <2> QED BY <1>0, <1>2, <2>2
<1>3. ASSUME NEW w \in Workers, CountSlot(w)
      PROVE  truth' \in [Times -> Nat] /\ SlotsNeverOvercount'
  <2> DEFINE c == call[w]
             i == SlotIndex(c.now)
             k == TimeKey(c.now)
             one == IF c.pass THEN 1 ELSE 0
  <2>1. /\ i \in Slots /\ k \in Times /\ SlotIndex(k) = i /\ one \in {0, 1}
        /\ slots' = [slots EXCEPT ![i] = SlotOf(c, i)]
        /\ truth' = [truth EXCEPT ![k] = truth[k] + one]
        /\ slots'[i].timekey \in {0, k}
        /\ c.timesum[i].timekey = k =>
             /\ slots'[i].timekey = slots[i].timekey
             /\ slots'[i].sum = slots[i].sum + one
        /\ c.timesum[i].timekey # k =>
             slots'[i].timekey = k /\ slots'[i].sum = one
    BY <1>3, CountsSlot
  <2> HIDE DEF c, i, k, one
  <2>2. truth' \in [Times -> Nat]  BY <1>0, <2>1
  <2>3. \A m \in Times : truth[m] <= truth'[m]  BY <1>0, <2>1
  <2>4. truth'[k] = truth[k] + one /\ truth[k] \in Nat  BY <1>0, <2>1
  <2>5. ASSUME NEW j \in Slots, slots'[j].timekey > 0
        PROVE  slots'[j].sum <= truth'[slots'[j].timekey]
    <3>1. CASE j # i
      <4>1. slots'[j] = slots[j]  BY <1>0, <2>1, <3>1
      <4>2. /\ slots[j].timekey \in Times /\ slots[j].sum \in Nat
            /\ slots[j].sum <= truth[slots[j].timekey]
        BY <1>1, <2>5, <4>1
      <4>3. truth[slots[j].timekey] \in Nat /\ truth'[slots[j].timekey] \in Nat
        BY <1>0, <2>2, <4>2
      <4> QED BY <2>3, <4>1, <4>2, <4>3
    <3>2. CASE j = i
      <4>1. slots'[i].timekey = k  BY <2>1, <2>5, <3>2
      <4>2. CASE c.timesum[i].timekey = k
        <5>1. /\ slots[i].timekey = k /\ slots'[i].sum = slots[i].sum + one
          BY <2>1, <4>1, <4>2
        <5>2. slots[i].sum <= truth[k] /\ slots[i].sum \in Nat
          BY <1>1, <2>1, <2>5, <3>2, <4>1, <5>1
        <5>3. slots'[i].sum <= truth'[k]
          BY <2>1, <2>4, <5>1, <5>2
        <5> QED BY <3>2, <4>1, <5>3
      <4>3. CASE c.timesum[i].timekey # k
        BY <2>1, <2>4, <3>2, <4>1, <4>3
      <4> QED BY <4>2, <4>3
    <3> QED BY <3>1, <3>2
  <2>6. SlotsNeverOvercount'  BY <2>5 DEF SlotsNeverOvercount
  <2> QED BY <2>2, <2>6
<1> QED BY <1>0, <1>2, <1>3, SlotsChange

LEMMA SlotStep == SlotInv /\ [Next]_vars => SlotInv'
<1> SUFFICES ASSUME SlotInv, [Next]_vars PROVE SlotInv'  OBVIOUS
<1>1. TypeInv'  BY TypeStep DEF SlotInv
<1>2. CASE Next
  BY <1>1, <1>2, ClockBounds, RecentStep, PlacedStep, OpenStep, TruthStep DEF SlotInv
<1>3. CASE UNCHANGED vars
  <2>1. UNCHANGED <<clock, slots, pc, call, truth>>  BY <1>3 DEF vars, tables, history
  <2>2. CallsRecent' /\ SlotsPlaced' /\ StillOpen'
    BY <2>1 DEF SlotInv, CallsRecent, SlotsPlaced, Placed, StillOpen
  <2>3. SlotsNeverOvercount'  BY <2>1 DEF SlotInv, SlotsNeverOvercount
  <2> QED BY <1>1, <2>1, <2>2, <2>3 DEF SlotInv
<1> QED BY <1>2, <1>3

\* No slot counts more requests than passed in its time, however the calls that
\* read the slots and those that write one interleave, are killed or stall, and
\* whatever is erased (FcApi.class.php, 225-252 and 433-447).
THEOREM SlotsNeverOvercountHolds == Spec => []SlotsNeverOvercount
<1>1. SlotInv => SlotsNeverOvercount  BY DEF SlotInv
<1> QED BY <1>1, InitSlots, SlotStep, PTL DEF Spec

-----------------------------------------------------------------------------
\* The reports.

\* What was said of a time is not more than its slot has, until the slot is
\* used again or has been opened twice or erased.
Held(k, n, slot, erasures, now) ==
  \/ k \in erasures
  \/ slot.timekey = k /\ n <= slot.sum
  \/ slot.timekey # k /\ k + Period <= now

\* A copy of the slot holds what was reported before it was made.
CopyHeld(i, s, old) ==
  s.timekey > 0 =>
    /\ s.timekey \in Times /\ SlotIndex(s.timekey) = i
    /\ Held(s.timekey, s.sum, slots[i], opened, clock)
    /\ ~old => s.timekey \in opened \/ reported[s.timekey] <= s.sum

ReportsHeld ==
  \A k \in Times :
    reported[k] > 0 => Held(k, reported[k], slots[SlotIndex(k)], opened, clock)
CopiesHeld ==
  \A w \in Workers : pc[w] \in Copied =>
    \A i \in Slots : CopyHeld(i, call[w].timesum[i], call[w].stale)

ReportInv ==
  /\ SlotInv
  /\ reported \in [Times -> Nat]
  /\ ReportsHeld
  /\ CopiesHeld

LEMMA InitReport == Init => ReportInv
<1> SUFFICES ASSUME Init PROVE ReportInv  OBVIOUS
<1>1. reported \in [Times -> Nat] /\ ReportsHeld  BY DEF Init, ReportsHeld
<1>2. CopiesHeld  BY DEF Init, CopiesHeld, Copied
<1> QED BY <1>1, <1>2, InitSlots DEF ReportInv

\* Counting in a slot writes down when it opens it a second time.
LEMMA OpenedStep ==
  ASSUME SlotInv, NEW w \in Workers, CountSlot(w)
  PROVE  LET c == call[w]
             i == SlotIndex(c.now)
             k == TimeKey(c.now)
         IN  /\ opened \subseteq opened'
             /\ c.timesum[i].timekey # k /\ slots[i].timekey = k => k \in opened'
             /\ c.timesum[i].timekey = k => slots[i].timekey \in {0, k}
BY DEF CountSlot, SlotInv, StillOpen

LEMMA HeldStep ==
  ASSUME SlotInv, Next, NEW k \in Times, NEW n \in Nat,
         Held(k, n, slots[SlotIndex(k)], opened, clock)
  PROVE  Held(k, n, slots'[SlotIndex(k)], opened', clock')
<1> DEFINE j == SlotIndex(k)
<1>0. /\ TypeInv /\ slots \in [Slots -> SlotType] /\ k \in Nat \ {0} /\ j \in Slots
      /\ slots[j].timekey \in Nat /\ slots[j].sum \in Nat
  BY SlotTimes DEF SlotInv, TypeInv, SlotType
<1>1. /\ clock \in Nat /\ clock' \in Nat /\ clock <= clock' /\ Period \in Nat
  BY ClockBounds, Constants
<1>2. opened \subseteq opened'
  BY <1>0, SlotsChange, OpenedStep
<1>3. CASE slots'[j] = slots[j]
  BY <1>0, <1>1, <1>2, <1>3 DEF Held
<1>4. CASE Spared(j)
  <2>1. CASE slots'[j] = NoSlot /\ slots[j].timekey \in opened'
    <3>1. slots'[j].timekey = 0  BY <2>1 DEF NoSlot
    <3>2. CASE k \in opened \/ slots[j].timekey = k  BY <1>2, <2>1, <3>2 DEF Held
    <3>3. CASE k + Period <= clock  BY <1>0, <1>1, <3>1, <3>3 DEF Held
    <3> QED BY <3>2, <3>3 DEF Held
  <2> QED BY <1>3, <1>4, <2>1 DEF Spared
<1>5. ASSUME NEW w \in Workers, CountSlot(w)
      PROVE  Held(k, n, slots'[j], opened', clock')
  <2> DEFINE c == call[w]
             i == SlotIndex(c.now)
             m == TimeKey(c.now)
             one == IF c.pass THEN 1 ELSE 0
  <2>1. /\ i \in Slots /\ m \in Times /\ m <= clock /\ SlotIndex(m) = i
        /\ clock < m + Period /\ one \in {0, 1}
        /\ slots' = [slots EXCEPT ![i] = SlotOf(c, i)]
        /\ slots'[i].timekey \in {0, m}
        /\ c.timesum[i].timekey = m =>
             /\ slots'[i].timekey = slots[i].timekey
             /\ slots'[i].sum = slots[i].sum + one
        /\ c.timesum[i].timekey # m =>
             slots'[i].timekey = m /\ slots'[i].sum = one
    BY <1>5, CountsSlot
  <2>2. /\ c.timesum[i].timekey # m /\ slots[i].timekey = m => m \in opened'
        /\ c.timesum[i].timekey = m => slots[i].timekey \in {0, m}
    BY <1>5, OpenedStep
  <2>3. pc[w] \in Early  BY <1>5 DEF CountSlot, Early
  <2>4. CASE j # i
    <3>1. slots'[j] = slots[j]  BY <1>0, <2>1, <2>4
    <3> QED BY <1>3, <3>1
  <2>5. CASE j = i /\ k \in opened  BY <1>2, <2>5 DEF Held
  <2>6. CASE j = i /\ slots[j].timekey = k /\ n <= slots[j].sum
    <3>1. Placed(j, k, clock)  BY <1>0, <2>6 DEF SlotInv, SlotsPlaced
    <3>2. k <= clock  BY <1>0, <3>1 DEF Placed
    <3>3. k <= m  BY <2>3, <2>6, <3>2, NotLater
    <3>4. m \in Nat \ {0}  BY <2>1, SlotTimes
    <3> HIDE DEF c, i, j, m, one
    <3>5. CASE k = m /\ c.timesum[i].timekey = m
      <4>1. slots'[j].timekey = k /\ slots'[j].sum = slots[j].sum + one
        BY <2>1, <2>6, <3>5
      <4>2. n <= slots'[j].sum  BY <1>0, <2>1, <2>6, <4>1
      <4> QED BY <4>1, <4>2 DEF Held
    <3>6. CASE k = m /\ c.timesum[i].timekey # m
      BY <2>2, <2>6, <3>6 DEF Held
    <3>7. CASE k < m
      <4>1. k + Period <= m
        <5>1. SlotIndex(k) = SlotIndex(m)  BY <2>1, <2>6 DEF j
        <5> QED BY <2>1, <3>7, <5>1, TimesApart
      <4>2. k + Period <= clock'  BY <1>0, <1>1, <2>1, <3>4, <4>1
      <4>3. c.timesum[i].timekey # m  BY <1>0, <2>2, <2>6, <3>4, <3>7
      <4>4. slots'[j].timekey # k  BY <1>0, <2>1, <2>6, <3>4, <3>7, <4>3
      <4> QED BY <4>2, <4>4 DEF Held
    <3>8. k = m \/ k < m  BY <1>0, <3>3, <3>4
    <3> QED BY <3>5, <3>6, <3>7, <3>8
  <2>7. CASE j = i /\ k + Period <= clock
    <3>1. m \in Nat \ {0}  BY <2>1, SlotTimes
    <3> HIDE DEF c, i, j, m, one
    <3>2. k # m  BY <1>0, <1>1, <2>1, <2>7, <3>1
    <3>3. slots'[j].timekey # k  BY <1>0, <2>1, <2>7, <3>2
    <3>4. k + Period <= clock'  BY <1>0, <1>1, <2>7
    <3> QED BY <3>3, <3>4 DEF Held
  <2> HIDE DEF c, i, m, one
  <2> QED BY <2>4, <2>5, <2>6, <2>7 DEF Held
<1> QED BY <1>0, <1>4, <1>5, SlotsChange

\* A report says what the call's copy holds, and makes the other copies old.
LEMMA ReportedStep ==
  ASSUME TypeInv, Next
  PROVE  \/ reported' = reported
         \/ \E w \in Workers :
              /\ pc[w] = "incr" /\ pc' = [pc EXCEPT ![w] = "report"]
              /\ slots' = slots /\ opened' = opened /\ clock' = clock
              /\ reported' = [k \in Times |->
                   IF \E i \in Slots : call[w].timesum[i].timekey = k
                   THEN call[w].timesum[SlotIndex(k)].sum ELSE reported[k]]
              /\ \A u \in Workers \ {w} :
                   pc[u] \in Copied => call'[u].stale
<1>0. call \in [Workers -> CallType]  BY DEF TypeInv
<1>1. ASSUME NEW w \in Workers, TakeLock(w), reported' # reported
      PROVE  /\ pc[w] = "incr" /\ pc' = [pc EXCEPT ![w] = "report"]
             /\ slots' = slots /\ opened' = opened /\ clock' = clock
             /\ reported' = [k \in Times |->
                  IF \E i \in Slots : call[w].timesum[i].timekey = k
                  THEN call[w].timesum[SlotIndex(k)].sum ELSE reported[k]]
             /\ \A u \in Workers \ {w} :
                  pc[u] \in Copied => call'[u].stale
  <2>1. /\ Goto(w, "report")
        /\ reported' = [k \in Times |->
             IF \E i \in Slots : call[w].timesum[i].timekey = k
             THEN call[w].timesum[SlotIndex(k)].sum ELSE reported[k]]
        /\ \A u \in Workers \ {w} :
             call'[u] = [call[u] EXCEPT !.stale =
               @ \/ pc[u] \in {"makeslots", "count", "lock", "incr"}]
    BY <1>1 DEF TakeLock
  <2>2. ASSUME NEW u \in Workers \ {w}, pc[u] \in Copied PROVE call'[u].stale
    <3>1. call'[u] = [call[u] EXCEPT !.stale =
            call[u].stale \/ pc[u] \in {"makeslots", "count", "lock", "incr"}]
      BY <2>1
    <3>2. (call[u].stale \/ pc[u] \in {"makeslots", "count", "lock", "incr"}) = TRUE
      BY <2>2 DEF Copied
    <3>3. call'[u] = [call[u] EXCEPT !.stale = TRUE]  BY <3>1, <3>2
    <3> QED BY <1>0, <3>3 DEF CallType
  <2> QED BY <1>1, <2>1, <2>2 DEF TakeLock, Goto
<1>2. ASSUME NEW w \in Workers,
             \/ Begin(w) \/ GetLocal(w) \/ MakeLocal(w) \/ GetSetQuot(w) \/ CountSet(w)
             \/ Judge(w) \/ GetTimesum(w) \/ MakeSlots(w) \/ CountSlot(w) \/ CheckLock(w)
             \/ AnsweredOther(w) \/ AnswerThrows(w) \/ Fails(w) \/ Unlock(w)
             \/ Finish(w) \/ Dies(w) \/ \E a \in Answers : Answered(w, a)
      PROVE  reported' = reported
  BY <1>2 DEF Begin, GetLocal, MakeLocal, GetSetQuot, CountSet, Judge, GetTimesum,
              MakeSlots, CountSlot, CheckLock, AnsweredOther, AnswerThrows, Fails, Unlock,
              Finish, Dies, Answered, history
<1>3. CASE Tick  BY <1>3 DEF Tick, history
<1> QED BY <1>1, <1>2, <1>3 DEF Next

LEMMA OpenedGrows ==
  ASSUME SlotInv, Next PROVE opened \subseteq opened'
BY SlotsChange, OpenedStep DEF SlotInv

\* A copied slot is the slot as it is, or has the time and the sum the call had
\* read, or has the sum that the call has just raised in it.
LEMMA CopiedSlot ==
  ASSUME SlotInv, Next, NEW u \in Workers, pc'[u] \in Copied, NEW i \in Slots
  PROVE  \/ call'[u].timesum[i] = slots'[i]
         \/ /\ pc[u] \in Copied
            /\ call[u].stale => call'[u].stale
            /\ call'[u].timesum[i].timekey = call[u].timesum[i].timekey
            /\ \/ call'[u].timesum[i].sum = call[u].timesum[i].sum
               \/ /\ CountSlot(u) /\ i = SlotIndex(call[u].now)
                  /\ call[u].timesum[i].timekey = TimeKey(call[u].now)
                  /\ call'[u].timesum[i].sum = slots'[i].sum
<1> DEFINE n == SlotIndex(call[u].now)
           new == CopyOf(call[u], n, slots'[n])
<1>0. TypeInv /\ call[u].timesum \in [Slots -> SlotType]
  BY DEF SlotInv, TypeInv, CallType
<1>1. CASE call'[u].timesum = slots'  BY <1>1
<1>2. CASE /\ pc[u] \in Copied /\ (call[u].stale => call'[u].stale)
           /\ call'[u].timesum = call[u].timesum
  BY <1>2
<1>3. CASE /\ pc[u] \in Copied /\ (call[u].stale => call'[u].stale) /\ CountSlot(u)
           /\ call'[u].timesum = [call[u].timesum EXCEPT ![n] = new]
  <2>1. CASE i # n
    <3>1. call'[u].timesum[i] = call[u].timesum[i]
      <4> HIDE DEF n, new
      <4> QED BY <1>0, <1>3, <2>1
    <3> QED BY <1>3, <3>1
  <2>2. CASE i = n
    <3>1. call'[u].timesum[i] = new
      <4> HIDE DEF n, new
      <4> QED BY <1>0, <1>3, <2>2
    <3>2. call[u].timesum[i] \in SlotType  BY <1>0
    <3>3. \/ new = slots'[i]
          \/ /\ call[u].timesum[i].timekey = TimeKey(call[u].now)
             /\ \/ new = [call[u].timesum[i] EXCEPT !.sum = slots'[i].sum]
                \/ new = [call[u].timesum[i] EXCEPT !.refuse = slots'[i].refuse]
      BY <2>2 DEF CopyOf
    <3> HIDE DEF new
    <3>4. ASSUME new = [call[u].timesum[i] EXCEPT !.sum = slots'[i].sum]
          PROVE  new.timekey = call[u].timesum[i].timekey /\ new.sum = slots'[i].sum
      BY <3>2, <3>4 DEF SlotType
    <3>5. ASSUME new = [call[u].timesum[i] EXCEPT !.refuse = slots'[i].refuse]
          PROVE  new.timekey = call[u].timesum[i].timekey
                 /\ new.sum = call[u].timesum[i].sum
      BY <3>2, <3>5 DEF SlotType
    <3> QED BY <1>3, <2>2, <3>1, <3>3, <3>4, <3>5
  <2> QED BY <2>1, <2>2
<1>4. \/ call'[u].timesum = slots'
      \/ /\ pc[u] \in Copied /\ (call[u].stale => call'[u].stale)
         /\ \/ call'[u].timesum = call[u].timesum
            \/ CountSlot(u) /\ call'[u].timesum = [call[u].timesum EXCEPT ![n] = new]
  BY <1>0, CopyStep
<1> HIDE DEF n, new
<1> QED BY <1>1, <1>2, <1>3, <1>4

LEMMA ReportsHeldStep ==
  ASSUME ReportInv, Next
  PROVE  reported' \in [Times -> Nat] /\ ReportsHeld'
<1>0. /\ SlotInv /\ TypeInv /\ reported \in [Times -> Nat]
      /\ call \in [Workers -> CallType]
  BY DEF ReportInv, SlotInv, TypeInv
<1>1. ASSUME NEW k \in Times, reported'[k] = reported[k], reported'[k] > 0
      PROVE  Held(k, reported'[k], slots'[SlotIndex(k)], opened', clock')
  <2>1. PICK n \in Nat : n = reported[k]  BY <1>0
  <2>2. Held(k, n, slots[SlotIndex(k)], opened, clock)
    BY <1>1, <2>1 DEF ReportInv, ReportsHeld
  <2>3. Held(k, n, slots'[SlotIndex(k)], opened', clock')
    BY <1>0, <2>2, HeldStep
  <2> QED BY <1>1, <2>1, <2>3
<1>2. CASE reported' = reported
  BY <1>0, <1>1, <1>2 DEF ReportsHeld
<1>3. ASSUME NEW w \in Workers,
             pc[w] = "incr", slots' = slots, opened' = opened, clock' = clock,
             reported' = [k \in Times |->
               IF \E i \in Slots : call[w].timesum[i].timekey = k
               THEN call[w].timesum[SlotIndex(k)].sum ELSE reported[k]]
      PROVE  reported' \in [Times -> Nat] /\ ReportsHeld'
  <2>1. call[w].timesum \in [Slots -> SlotType]  BY <1>0 DEF CallType
  <2>2. \A i \in Slots : CopyHeld(i, call[w].timesum[i], call[w].stale)
    BY <1>3 DEF ReportInv, CopiesHeld, Copied
  <2>3. ASSUME NEW k \in Times, NEW i \in Slots, call[w].timesum[i].timekey = k
        PROVE  /\ SlotIndex(k) = i /\ reported'[k] = call[w].timesum[i].sum
               /\ Held(k, call[w].timesum[i].sum, slots[i], opened, clock)
    <3>1. k > 0  BY SlotTimes
    <3>2. SlotIndex(k) = i /\ Held(k, call[w].timesum[i].sum, slots[i], opened, clock)
      BY <2>2, <2>3, <3>1 DEF CopyHeld
    <3> QED BY <1>3, <2>3, <3>2
  <2>4. ASSUME NEW k \in Times, ~\E i \in Slots : call[w].timesum[i].timekey = k
        PROVE  reported'[k] = reported[k]
    BY <1>3, <2>4
  <2>5. \A k \in Times : reported'[k] \in Nat
    BY <1>0, <2>1, <2>3, <2>4 DEF SlotType
  <2>6. reported' \in [Times -> Nat]  BY <1>3, <2>5
  <2>7. ASSUME NEW k \in Times, reported'[k] > 0
        PROVE  Held(k, reported'[k], slots'[SlotIndex(k)], opened', clock')
    <3>1. CASE \E i \in Slots : call[w].timesum[i].timekey = k
      BY <1>3, <2>3, <3>1
    <3>2. CASE ~\E i \in Slots : call[w].timesum[i].timekey = k
      BY <1>1, <2>4, <2>7, <3>2
    <3> QED BY <3>1, <3>2
  <2> QED BY <2>6, <2>7 DEF ReportsHeld
<1> QED BY <1>0, <1>2, <1>3, ReportedStep

LEMMA CopiesHeldStep ==
  ASSUME ReportInv, Next, SlotInv', ReportsHeld', reported' \in [Times -> Nat]
  PROVE  CopiesHeld'
<1>0. /\ SlotInv /\ TypeInv /\ call \in [Workers -> CallType]
      /\ slots' \in [Slots -> SlotType] /\ SlotsPlaced'
      /\ opened \subseteq opened'
  BY OpenedGrows DEF ReportInv, SlotInv, TypeInv
<1> SUFFICES ASSUME NEW u \in Workers, pc'[u] \in Copied, NEW i \in Slots,
                    call'[u].timesum[i].timekey > 0
             PROVE  LET s == call'[u].timesum[i]
                    IN  /\ s.timekey \in Times /\ SlotIndex(s.timekey) = i
                        /\ Held(s.timekey, s.sum, slots'[i], opened', clock')
                        /\ ~call'[u].stale =>
                             s.timekey \in opened' \/ reported'[s.timekey] <= s.sum
  BY DEF CopiesHeld, CopyHeld
<1>1. ASSUME NEW k \in Times, NEW n \in Nat, SlotIndex(k) = i,
             slots'[i].timekey = k, slots'[i].sum = n
      PROVE  Held(k, n, slots'[i], opened', clock') /\ (k \in opened' \/ reported'[k] <= n)
  <2>1. Held(k, n, slots'[i], opened', clock')  BY <1>1 DEF Held
  <2>2. k \in opened' \/ reported'[k] <= n
    <3>1. reported'[k] \in Nat  OBVIOUS
    <3>2. CASE reported'[k] = 0  BY <1>1, <3>2
    <3>3. CASE reported'[k] > 0
      <4>1. Held(k, reported'[k], slots'[i], opened', clock')
        BY <1>1, <3>3 DEF ReportsHeld
      <4> QED BY <1>1, <4>1 DEF Held
    <3> QED BY <3>1, <3>2, <3>3
  <2> QED BY <2>1, <2>2
<1>3. CASE call'[u].timesum[i] = slots'[i]
  <2>1. slots'[i].timekey \in Times /\ SlotIndex(slots'[i].timekey) = i
    BY <1>0, <1>3 DEF SlotsPlaced, Placed
  <2>2. slots'[i].sum \in Nat  BY <1>0 DEF SlotType
  <2> QED BY <1>1, <1>3, <2>1, <2>2
<1>4. CASE /\ call'[u].timesum[i].timekey = call[u].timesum[i].timekey
           /\ pc[u] \in Copied /\ CountSlot(u) /\ i = SlotIndex(call[u].now)
           /\ call[u].timesum[i].timekey = TimeKey(call[u].now)
           /\ call'[u].timesum[i].sum = slots'[i].sum
  <2>1. PICK k : k = TimeKey(call[u].now)  OBVIOUS
  <2>2. PICK n : n = slots'[i].sum  OBVIOUS
  <2>3. /\ k \in Times /\ SlotIndex(k) = i /\ clock < k + Period
        /\ slots'[i].timekey \in {0, k}
        /\ slots'[i].timekey = slots[i].timekey
    BY <1>0, <1>4, <2>1, CountsSlot
  <2>4. n \in Nat /\ k \in Nat \ {0}  BY <1>0, <2>2, <2>3, SlotTimes DEF SlotType
  <2>5. CASE slots'[i].timekey = k  BY <1>1, <1>4, <2>1, <2>2, <2>3, <2>4, <2>5
  <2>6. CASE slots'[i].timekey = 0
    <3>1. PICK s \in SlotType : s = call[u].timesum[i]  BY <1>0 DEF CallType
    <3>2. CopyHeld(i, s, call[u].stale)  BY <1>4, <3>1 DEF ReportInv, CopiesHeld
    <3>3. Held(k, s.sum, slots[i], opened, clock)
      BY <1>4, <2>1, <2>4, <3>1, <3>2 DEF CopyHeld
    <3>4. slots[i].timekey # k  BY <2>3, <2>4, <2>6
    <3>5. ~(k + Period <= clock)
      <4>1. clock \in Nat /\ Period \in Nat  BY <1>0, Constants DEF SlotInv
      <4> QED BY <2>3, <2>4, <4>1
    <3>6. k \in opened'  BY <1>0, <3>3, <3>4, <3>5 DEF Held
    <3>7. Held(k, n, slots'[i], opened', clock')  BY <3>6 DEF Held
    <3> QED BY <1>4, <2>1, <2>2, <2>3, <3>6, <3>7
  <2> QED BY <2>3, <2>5, <2>6
<1>2. CASE /\ call'[u].timesum[i].timekey = call[u].timesum[i].timekey
           /\ call'[u].timesum[i].sum = call[u].timesum[i].sum
           /\ pc[u] \in Copied
           /\ call[u].stale => call'[u].stale
  <2>1. PICK s \in SlotType : s = call[u].timesum[i]  BY <1>0 DEF CallType
  <2>2. CopyHeld(i, s, call[u].stale)  BY <1>2, <2>1 DEF ReportInv, CopiesHeld
  <2>3. PICK k \in Times : k = s.timekey /\ SlotIndex(k) = i
    BY <1>2, <2>1, <2>2 DEF CopyHeld
  <2>4. PICK n \in Nat : n = s.sum  BY <2>1 DEF SlotType
  <2>5. Held(k, n, slots[SlotIndex(k)], opened, clock)
    BY <1>2, <2>1, <2>2, <2>3, <2>4 DEF CopyHeld
  <2>6. Held(k, n, slots'[i], opened', clock')  BY <1>0, <2>3, <2>5, HeldStep
  <2>7. ASSUME ~call'[u].stale PROVE k \in opened' \/ reported'[k] <= n
    <3>1. CASE reported' = reported
      <4>1. k \in opened \/ reported[k] <= n
        BY <1>2, <2>1, <2>2, <2>3, <2>4, <2>7 DEF CopyHeld
      <4> QED BY <1>0, <3>1, <4>1
    <3>2. ASSUME NEW w \in Workers, pc' = [pc EXCEPT ![w] = "report"],
                 \A v \in Workers \ {w} : pc[v] \in Copied => call'[v].stale
          PROVE  FALSE
      <4>1. u # w  BY <1>0, <3>2 DEF SlotInv, TypeInv, Copied
      <4> QED BY <1>2, <2>7, <3>2, <4>1
    <3> QED BY <1>0, <3>1, <3>2, ReportedStep
  <2> QED BY <1>2, <2>1, <2>3, <2>4, <2>6, <2>7
<1> QED BY <1>0, <1>2, <1>3, <1>4, CopiedSlot

LEMMA ReportStep == ReportInv /\ [Next]_vars => ReportInv'
<1> SUFFICES ASSUME ReportInv, [Next]_vars PROVE ReportInv'  OBVIOUS
<1>1. SlotInv'  BY SlotStep DEF ReportInv
<1>2. CASE Next
  <2>1. reported' \in [Times -> Nat] /\ ReportsHeld'  BY <1>2, ReportsHeldStep
  <2>2. CopiesHeld'  BY <1>1, <1>2, <2>1, CopiesHeldStep
  <2> QED BY <1>1, <2>1, <2>2 DEF ReportInv
<1>3. CASE UNCHANGED vars
  <2>1. UNCHANGED <<clock, slots, pc, call, opened, reported>>
    BY <1>3 DEF vars, tables, history
  <2>2. ReportsHeld' /\ CopiesHeld'
    BY <2>1 DEF ReportInv, ReportsHeld, CopiesHeld, CopyHeld
  <2> QED BY <1>1, <2>1, <2>2 DEF ReportInv
<1> QED BY <1>2, <1>3

\* Of a slot that was neither opened twice nor erased, a call that read it after
\* the last report never says less than that did
\* (FcApi.class.php, 225-279).
THEOREM ReportsShrinkOnlyByRaceHolds == Spec => ReportsShrinkOnlyByRace
<1>1. ASSUME ReportInv, [Next]_vars
      PROVE  [\A w \in Workers, k \in Times :
                /\ reported'[k] < reported[k]
                /\ pc[w] = "incr" /\ pc'[w] = "report"
                => k \in opened \/ call[w].stale]_vars
  <2> SUFFICES ASSUME Next, NEW w \in Workers, NEW k \in Times,
                      reported'[k] < reported[k], pc[w] = "incr", pc'[w] = "report",
                      ~call[w].stale
               PROVE  k \in opened
    BY <1>1
  <2>0. /\ TypeInv /\ reported \in [Times -> Nat] /\ call \in [Workers -> CallType]
        /\ pc \in [Workers -> Places]
    BY <1>1 DEF ReportInv, SlotInv, TypeInv
  <2>1. reported' # reported  BY <2>0
  <2>2. PICK v \in Workers :
          /\ pc' = [pc EXCEPT ![v] = "report"]
          /\ reported' = [m \in Times |->
               IF \E i \in Slots : call[v].timesum[i].timekey = m
               THEN call[v].timesum[SlotIndex(m)].sum ELSE reported[m]]
    BY <2>0, <2>1, ReportedStep
  <2>3. v = w  BY <2>0, <2>2
  <2>4. PICK i \in Slots : call[w].timesum[i].timekey = k
    BY <2>0, <2>2, <2>3
  <2>5. CopyHeld(i, call[w].timesum[i], call[w].stale)
    BY <1>1 DEF ReportInv, CopiesHeld, Copied
  <2>6. k > 0  BY SlotTimes
  <2>7. SlotIndex(k) = i /\ (k \in opened \/ reported[k] <= call[w].timesum[i].sum)
    BY <2>4, <2>5, <2>6 DEF CopyHeld
  <2>8. reported'[k] = call[w].timesum[i].sum  BY <2>2, <2>3, <2>4, <2>7
  <2>9. call[w].timesum[i].sum \in Nat /\ reported[k] \in Nat
    BY <2>0 DEF CallType, SlotType
  <2> QED BY <2>7, <2>8, <2>9
<1> QED BY <1>1, InitReport, ReportStep, PTL DEF Spec, ReportsShrinkOnlyByRace
=============================================================================
