------------------------------- MODULE PhpApi -------------------------------
(***************************************************************************)
(* The PHP API, PHPAPI/Fc/FcApi.class.php.                                 *)
(*                                                                         *)
(* The workers of a web server, processes or coroutines of one, judge      *)
(* requests by rows of tables they share.  A table operation is atomic, a  *)
(* call of CheckQuota is not: it decides by the row it read at its         *)
(* beginning, and every operation on a table is a step here, the reading   *)
(* of the six slots one.  One key is modelled.  A row that is missing      *)
(* counts as zeros, and whoever finds it so writes zeros in its place.     *)
(*                                                                         *)
(* restrainquota is written with localquotaver only, and is a function of  *)
(* it; averq is computed again before each use.  An answer with no setsum  *)
(* is one with no setquota.  The verdict 1 passes like 0.  setrefuse, the  *)
(* statistics of the minute and the pool of connections, of which a failed *)
(* one is closed, are left out.                                            *)
(***************************************************************************)
EXTENDS FluxTime, FiniteSets

CONSTANTS
  Workers,        \* the callers, a process or a coroutine each
  ReportPeriod,   \* seconds between two reports (report_period, 5)
  HeartBeat,      \* quotas older than this are not trusted (5 minutes)
  FloatPercent,   \* passed beyond the quota (quota_float_percent, 10)
  Floor,          \* quotas below it are not applied (threshold_per_second, 100)
  NoQuota,        \* the limit before the first answer (threshold_max_second, 500)
  TotalQuota,     \* the quota of the key, from the caller
  QuotaArrayNum,  \* quotas that are averaged (quota_array_num, 12)
  CleanAfter,     \* rows without an answer for longer are deleted (a day)
  CleanTimes,     \* the seconds of the hour in which they are (16 o'clock)
  MaxStall,       \* a call that does not wait for the server ends within it
  Answers,        \* the answers of the server
  Start,          \* the second at which the workers start
  MaxTime, MaxCalls, MaxDeaths  \* bounds: the clock, calls, workers killed

ASSUME PhpAssumption ==
  /\ ReportPeriod \in Nat /\ HeartBeat \in Nat /\ FloatPercent \in Nat
  /\ Floor \in Nat \ {0} /\ NoQuota \in Nat \ {0} /\ TotalQuota \in Nat
  /\ QuotaArrayNum \in Nat \ {0} /\ CleanAfter \in Nat
  /\ MaxStall \in Nat /\ MaxStall + NumPerIndex <= Period
  /\ Answers \subseteq [localq : Nat, totalworkernum : Nat \ {0},
                        setquota : Nat, procquota : Nat]
  /\ Start \in Nat /\ NumPerIndex <= Start  \* no slot begins at 0, the mark of none
  /\ MaxTime \in Nat /\ Start <= MaxTime /\ MaxCalls \in Nat /\ MaxDeaths \in Nat

VARIABLES
  clock,     \* the clock, in seconds
  row,       \* local_table, the row of the key
  setrow,    \* setquot_table: the count of all keys
  slots,     \* timesum_table
  qarray,    \* qarray_table
  made,      \* which rows of the key there are: the row, and slots
  pc,        \* where a worker's call is
  call,      \* what it has read and still uses
  cleaned,   \* the workers that have cleaned today (lastcleanday)
  calls, deaths,  \* calls and deaths so far (bound the model)
  orphaned,  \* history: a call ended with reportLock taken
  erased,    \* history: the row was deleted or made under a reporting call
  second,    \* history: passes of a second, the most allowed, the begins of its count
  setsecond, \* history: the same of the set
  truth,     \* history: requests passed in the time of a slot
  opened,    \* history: slots opened twice for a time, deleted or made again
  reported   \* history: the sum last reported of a slot, and since when

tables == <<row, setrow, slots, qarray, made>>
bounds == <<calls, deaths>>
history == <<orphaned, erased, second, setsecond, truth, opened, reported>>
vars == <<clock, tables, pc, call, cleaned, bounds, history>>

NoRow == [totalworkernum |-> 0, localquotaver |-> 0, updatetime |-> 0,
          now |-> 0, nowsum |-> 0, setquota |-> 0, procquota |-> 0,
          index |-> 0, reportLock |-> 0]
NoSlot == [timekey |-> 0, sum |-> 0, refuse |-> 0]
NoSlots == [i \in Slots |-> NoSlot]
NoQuotas == [i \in 0 .. QuotaArrayNum - 1 |-> 0]
NoCall == [now |-> Start, local |-> NoRow, fresh |-> FALSE, setsum |-> 0,
           setbegin |-> 0, pass |-> FALSE, timesum |-> NoSlots, missing |-> {},
           stale |-> FALSE]
NoSecond == [passes |-> 0, most |-> 0, begins |-> 0]

Seconds == Start .. MaxTime
Times == {TimeKey(t) : t \in Seconds}

Init ==
  /\ clock = Start
  /\ row = NoRow
  /\ setrow = [now |-> 0, nowsum |-> 0]
  /\ slots = NoSlots
  /\ qarray = NoQuotas
  /\ made = [row |-> FALSE, slots |-> {}]
  /\ pc = [w \in Workers |-> "idle"]
  /\ call = [w \in Workers |-> NoCall]
  /\ cleaned = {}
  /\ calls = 0
  /\ deaths = 0
  /\ orphaned = FALSE
  /\ erased = FALSE
  /\ second = [t \in Seconds |-> NoSecond]
  /\ setsecond = [t \in Seconds |-> NoSecond]
  /\ truth = [k \in Times |-> 0]
  /\ opened = {}
  /\ reported = [k \in Times |-> 0]

Goto(w, at) == pc' = [pc EXCEPT ![w] = at]
Ends(w, at) == Goto(w, at) /\ call' = [call EXCEPT ![w] = NoCall]

\* The workers that report: between the lock taken and given back.
Reporters == {w \in Workers : pc[w] \in {"report", "unlock"}}

-----------------------------------------------------------------------------
\* The call reads the clock and the row.

Begin(w) ==
  /\ pc[w] = "idle"
  /\ calls < MaxCalls
  /\ calls' = calls + 1
  /\ call' = [call EXCEPT ![w].now = clock]
  /\ Goto(w, "local")
  /\ UNCHANGED <<clock, tables, cleaned, deaths, history>>

GetLocal(w) ==
  /\ pc[w] = "local"
  /\ call' = [call EXCEPT ![w].local = row]
  /\ Goto(w, IF made.row THEN "set" ELSE "make")
  /\ UNCHANGED <<clock, tables, cleaned, bounds, history>>

\* A row that was missing is written, over one made since.
MakeLocal(w) ==
  /\ pc[w] = "make"
  /\ row' = NoRow
  /\ made' = [made EXCEPT !.row = TRUE]
  /\ erased' = (erased \/ Reporters # {})
  /\ Goto(w, "set")
  /\ UNCHANGED <<clock, setrow, slots, qarray, call, cleaned, bounds, orphaned,
                 second, setsecond, truth, opened, reported>>

-----------------------------------------------------------------------------
\* The count of all keys: the second is looked at, then set.

GetSetQuot(w) ==
  /\ pc[w] = "set"
  /\ call' = [call EXCEPT ![w].fresh = (setrow.now # call[w].now)]
  /\ Goto(w, "setcount")
  /\ UNCHANGED <<clock, tables, cleaned, bounds, history>>

SetCounted(c) == IF c.fresh THEN [now |-> c.now, nowsum |-> 1]
                 ELSE [setrow EXCEPT !.nowsum = @ + 1]

\* The count of a second begins; a request that is counted in the count of
\* another second, or not at all, is a count of its own.
Begun(s, anew) == IF anew THEN [s EXCEPT !.begins = @ + 1] ELSE s

CountSet(w) ==
  LET t == call[w].now
  IN  /\ pc[w] = "setcount"
      /\ setrow' = SetCounted(call[w])
      /\ setsecond' = [setsecond EXCEPT
                         ![t] = Begun(@, call[w].fresh \/ setrow.now # t)]
      /\ call' = [call EXCEPT ![w].setsum = setrow'.nowsum, ![w].fresh = FALSE,
                              ![w].setbegin = setsecond'[t].begins]
      /\ Goto(w, "key")
      /\ UNCHANGED <<clock, row, slots, qarray, made, cleaned, bounds, orphaned,
                     erased, second, truth, opened, reported>>

-----------------------------------------------------------------------------
\* The count of the key and the verdict: the row as it was read, with the
\* count of now.

\* No quota to trust: the even share of the total (ProcessByAver).
Dead(l, t) == t > l.updatetime /\ t - l.updatetime > HeartBeat
ByAver(l, t) == Dead(l, t) \/ l.localquotaver < Floor

\* The even share as a fraction.
AverOf(l) ==
  IF l.totalworkernum = 0
  THEN [num |-> IF NoQuota < Floor THEN Floor ELSE NoQuota, den |-> 1]
  ELSE IF TotalQuota < Floor * l.totalworkernum
  THEN [num |-> Floor, den |-> 1]
  ELSE [num |-> TotalQuota, den |-> l.totalworkernum]

\* The greatest count that may pass: less than 100 + FloatPercent percent.
Below(a) == ((100 + FloatPercent) * a.num - 1) \div (100 * a.den)
Most(l, t) == IF ByAver(l, t) THEN Below(AverOf(l))
              ELSE (l.localquotaver * (100 + FloatPercent)) \div 100

\* Above the share a draw decides.
MayRefuse(l, t, n) == ByAver(l, t) /\ n > AverOf(l).num \div AverOf(l).den

\* QSetOverLoad, with the share of the set's quota.
SetValid(l) == l.setquota > 0
SetShare(l) == IF l.procquota > 0 THEN [num |-> l.procquota, den |-> 1]
               ELSE [num |-> l.setquota, den |-> l.totalworkernum]
SetMayRefuse(l, n) ==
  SetValid(l) /\ (n * 100 * SetShare(l).den) \div SetShare(l).num > 100

Greater(a, b) == IF a > b THEN a ELSE b
Passed(s, most) == [s EXCEPT !.passes = @ + 1, !.most = Greater(@, most)]

\* A mistake: the count is written back as read, plus one.
CountedInRow(l, t) ==
  IF t # l.now THEN [row EXCEPT !.now = t, !.nowsum = 1]
  ELSE [row EXCEPT !.nowsum = l.nowsum + 1]

\* The row with the request counted: a new second begins with it.
Counted(l, t) ==
  IF t # l.now THEN [row EXCEPT !.now = t, !.nowsum = 1]
  ELSE [row EXCEPT !.nowsum = @ + 1]

\* A request older than the quota passes without being counted.
Judge(w) ==
  LET l == call[w].local
      t == call[w].now
      judged == t >= l.updatetime
      begins == judged /\ t # l.now
      n == row'.nowsum
  IN  /\ pc[w] = "key"
      /\ row' = IF judged THEN Counted(l, t) ELSE row
      /\ made' = IF judged THEN [made EXCEPT !.row = TRUE] ELSE made
      /\ qarray' = IF judged /\ ~begins /\ Dead(l, t) THEN NoQuotas ELSE qarray
      /\ \E pass \in BOOLEAN, setpass \in BOOLEAN :
           /\ ~judged \/ begins => pass
           /\ judged /\ ~begins =>
                (pass => n <= Most(l, t)) /\ (~pass => MayRefuse(l, t, n) \/ n > Most(l, t))
           /\ IF pass /\ SetValid(l)
              THEN /\ setpass => call[w].setsum <= Below(SetShare(l))
                   /\ ~setpass => SetMayRefuse(l, call[w].setsum)
              ELSE setpass = pass
           /\ call' = [call EXCEPT ![w] =
                [NoCall EXCEPT !.now = t, !.pass = pass,
                               !.local.updatetime = l.updatetime,
                               !.local.index = l.index]]
           /\ second' =
                LET apart == ~judged \/ begins \/ row.now # t
                IN  IF pass
                    THEN [second EXCEPT ![t] =
                            Passed(Begun(@, apart),
                                   IF judged /\ ~begins THEN Most(l, t) ELSE 1)]
                    ELSE second
           /\ setsecond' = IF setpass /\ SetValid(l)
                           THEN [setsecond EXCEPT ![t] =
                                   Passed(@, Below(SetShare(l)))]
                           ELSE setsecond
      /\ Goto(w, "slots")
      /\ UNCHANGED <<clock, setrow, slots, cleaned, bounds, orphaned, erased,
                     truth, opened, reported>>

-----------------------------------------------------------------------------
\* The statistics: the slots are read, then one is counted on.

GetTimesum(w) ==
  /\ pc[w] = "slots"
  /\ call' = [call EXCEPT ![w].timesum = slots, ![w].missing = Slots \ made.slots]
  /\ Goto(w, IF made.slots = Slots THEN "count" ELSE "makeslots")
  /\ UNCHANGED <<clock, tables, cleaned, bounds, history>>

\* Each slot that was missing is written before the next is read, so that one
\* at most can have been made since.
MakeSlots(w) ==
  /\ pc[w] = "makeslots"
  /\ \E i \in call[w].missing :
       /\ slots' = [slots EXCEPT ![i] = NoSlot]
       /\ opened' = opened \cup {slots[i].timekey}
  /\ made' = [made EXCEPT !.slots = Slots]
  /\ call' = [call EXCEPT ![w].timesum = slots', ![w].missing = {}]
  /\ Goto(w, "count")
  /\ UNCHANGED <<clock, row, setrow, qarray, cleaned, bounds, orphaned, erased,
                 second, setsecond, truth, reported>>

Plus(slot, pass) == IF pass THEN [slot EXCEPT !.sum = @ + 1]
                    ELSE [slot EXCEPT !.refuse = @ + 1]

\* A mistake: a slot that is opened keeps what it counted before.
OpenKeeps(c, i) ==
  IF c.timesum[i].timekey # TimeKey(c.now)
  THEN Plus([slots[i] EXCEPT !.timekey = TimeKey(c.now)], c.pass)
  ELSE Plus(slots[i], c.pass)

\* The slot after the call: opened if it was of another time when read.
SlotOf(c, i) ==
  IF c.timesum[i].timekey # TimeKey(c.now)
  THEN Plus([NoSlot EXCEPT !.timekey = TimeKey(c.now)], c.pass)
  ELSE Plus(slots[i], c.pass)

\* The call's copy of the slot: the count it raised is read back, and no other.
CopyOf(c, i, slot) ==
  IF c.timesum[i].timekey # TimeKey(c.now) THEN slot
  ELSE IF c.pass THEN [c.timesum[i] EXCEPT !.sum = slot.sum]
  ELSE [c.timesum[i] EXCEPT !.refuse = slot.refuse]

CountSlot(w) ==
  LET c == call[w]
      k == TimeKey(c.now)
      i == SlotIndex(c.now)
  IN  /\ pc[w] = "count"
      /\ slots' = [slots EXCEPT ![i] = SlotOf(c, i)]
      /\ made' = [made EXCEPT !.slots = @ \cup {i}]
      /\ call' = [call EXCEPT ![w].timesum[i] = CopyOf(c, i, slots'[i])]
      /\ truth' = [truth EXCEPT ![k] = IF c.pass THEN @ + 1 ELSE @]
      /\ opened' = IF c.timesum[i].timekey # k /\ slots[i].timekey = k
                   THEN opened \cup {k} ELSE opened
      /\ Goto(w, "lock")
      /\ UNCHANGED <<clock, row, setrow, qarray, cleaned, bounds, orphaned,
                     erased, second, setsecond, reported>>

-----------------------------------------------------------------------------
\* The report: the lock is looked at, then taken.

Due(c) == c.now - c.local.updatetime >= ReportPeriod

CheckLock(w) ==
  /\ pc[w] = "lock"
  /\ IF Due(call[w]) /\ row.reportLock = 0
     THEN Goto(w, "incr") /\ UNCHANGED call
     ELSE Ends(w, "clean")
  /\ UNCHANGED <<clock, tables, cleaned, bounds, history>>

\* A mistake: whoever saw the lock free reports.
WonAlways(n) == n >= 1

\* Whoever incremented the lock from zero reports.
Won(n) == n = 1

\* The report leaves, with the slots as they were read.
TakeLock(w) ==
  /\ pc[w] = "incr"
  /\ row' = [row EXCEPT !.reportLock = @ + 1]
  /\ made' = [made EXCEPT !.row = TRUE]
  /\ IF Won(row'.reportLock)
     THEN /\ Goto(w, "report")
          /\ reported' = [k \in Times |->
               IF \E i \in Slots : call[w].timesum[i].timekey = k
               THEN call[w].timesum[SlotIndex(k)].sum ELSE reported[k]]
          /\ call' = [u \in Workers |->
               IF u = w THEN [call[w] EXCEPT !.timesum = NoSlots, !.pass = FALSE,
                                             !.stale = FALSE]
               ELSE [call[u] EXCEPT !.stale =
                       @ \/ pc[u] \in {"makeslots", "count", "lock", "incr"}]]
     ELSE Ends(w, "clean") /\ UNCHANGED reported
  /\ UNCHANGED <<clock, setrow, slots, qarray, cleaned, bounds, orphaned,
                 erased, second, setsecond, truth, opened>>

\* GetAverQ: the mean of the quotas that are not zero.
GetAverQ(q) == Mean(q, QuotaArrayNum)

\* The answer is applied with the index and the second of the call's
\* beginning.
Answered(w, a) ==
  LET c == call[w]
  IN  /\ pc[w] = "report"
      /\ qarray' = [qarray EXCEPT ![c.local.index % QuotaArrayNum] = a.localq]
      /\ row' = [row EXCEPT !.index = @ + 1, !.updatetime = c.now,
                            !.totalworkernum = a.totalworkernum,
                            !.localquotaver = GetAverQ(qarray'),
                            !.setquota = a.setquota, !.procquota = a.procquota]
      /\ made' = [made EXCEPT !.row = TRUE]
      /\ Ends(w, "unlock")
      /\ UNCHANGED <<clock, setrow, slots, cleaned, bounds, history>>

\* One that does not name the key sets the time alone.
AnsweredOther(w) ==
  /\ pc[w] = "report"
  /\ row' = [row EXCEPT !.updatetime = call[w].now]
  /\ made' = [made EXCEPT !.row = TRUE]
  /\ Ends(w, "unlock")
  /\ UNCHANGED <<clock, setrow, slots, qarray, cleaned, bounds, history>>

\* One that cannot be parsed throws, and the call ends without the unlock.
AnswerThrows(w) ==
  /\ pc[w] = "report"
  /\ orphaned' = TRUE
  /\ Ends(w, "idle")
  /\ UNCHANGED <<clock, tables, cleaned, bounds, erased, second, setsecond, truth,
                 opened, reported>>

\* A mistake: a failed report clears what it said.
FailsCleared(w) ==
  /\ pc[w] = "report"
  /\ slots' = NoSlots
  /\ Ends(w, "unlock")
  /\ UNCHANGED <<clock, row, setrow, qarray, made, cleaned, bounds, history>>

\* No route, no connection, no answer: all end alike.
Fails(w) ==
  /\ pc[w] = "report"
  /\ Ends(w, "unlock")
  /\ UNCHANGED <<clock, tables, cleaned, bounds, history>>

Unlock(w) ==
  /\ pc[w] = "unlock"
  /\ row' = [row EXCEPT !.reportLock = 0]
  /\ made' = [made EXCEPT !.row = TRUE]
  /\ Goto(w, "clean")
  /\ UNCHANGED <<clock, setrow, slots, qarray, call, cleaned, bounds, history>>

-----------------------------------------------------------------------------
\* The end of a call, with ClearTableData, and the end of a worker.

Expired == row.updatetime < clock - CleanAfter

Finish(w) ==
  /\ pc[w] = "clean"
  /\ IF clock \in CleanTimes /\ w \notin cleaned
     THEN /\ cleaned' = cleaned \cup {w}
          /\ IF Expired
             THEN /\ row' = NoRow
                  /\ slots' = NoSlots
                  /\ qarray' = NoQuotas
                  /\ made' = [row |-> FALSE, slots |-> {}]
                  /\ erased' = (erased \/ Reporters # {})
                  /\ opened' = opened \cup {slots[i].timekey : i \in Slots}
             ELSE UNCHANGED <<row, slots, qarray, made, erased, opened>>
     ELSE UNCHANGED <<cleaned, row, slots, qarray, made, erased, opened>>
  /\ Goto(w, "idle")
  /\ UNCHANGED <<clock, setrow, call, bounds, orphaned, second, setsecond, truth,
                 reported>>

\* The worker is killed and started again.
Dies(w) ==
  /\ pc[w] # "idle"
  /\ deaths < MaxDeaths
  /\ deaths' = deaths + 1
  /\ orphaned' = (orphaned \/ w \in Reporters)
  /\ cleaned' = cleaned \ {w}
  /\ Ends(w, "idle")
  /\ UNCHANGED <<clock, tables, calls, erased, second, setsecond, truth, opened,
                 reported>>

\* A call that does not wait for the server does not last until its slot is
\* used again.
Tick ==
  /\ clock < MaxTime
  /\ \A w \in Workers : pc[w] \in {"local", "make", "set", "setcount", "key",
                           "slots", "makeslots", "count", "lock", "incr"} =>
                          clock - call[w].now < MaxStall
  /\ clock' = clock + 1
  /\ UNCHANGED <<tables, pc, call, cleaned, bounds, history>>

Next ==
  \/ \E w \in Workers :
       \/ Begin(w) \/ GetLocal(w) \/ MakeLocal(w) \/ GetSetQuot(w)
       \/ CountSet(w) \/ Judge(w) \/ GetTimesum(w) \/ MakeSlots(w) \/ CountSlot(w) \/ CheckLock(w) \/ TakeLock(w)
       \/ AnsweredOther(w) \/ AnswerThrows(w) \/ Fails(w) \/ Unlock(w)
       \/ Finish(w) \/ Dies(w)
       \/ \E a \in Answers : Answered(w, a)
  \/ Tick

Spec == Init /\ [][Next]_vars

-----------------------------------------------------------------------------
\* Properties.

TypeOK ==
  /\ clock \in Nat
  /\ row \in [totalworkernum : Nat, localquotaver : Nat, updatetime : Nat,
              now : Nat, nowsum : Nat, setquota : Nat, procquota : Nat,
              index : Nat, reportLock : Nat]
  /\ setrow \in [now : Nat, nowsum : Nat]
  /\ slots \in [Slots -> [timekey : Nat, sum : Nat, refuse : Nat]]
  /\ qarray \in [0 .. QuotaArrayNum - 1 -> Nat]
  /\ made \in [row : BOOLEAN, slots : SUBSET Slots]
  /\ pc \in [Workers -> {"idle", "local", "make", "set", "setcount", "key",
                         "slots", "makeslots", "count", "lock", "incr",
                         "report", "unlock", "clean"}]
  /\ cleaned \subseteq Workers
  /\ orphaned \in BOOLEAN /\ erased \in BOOLEAN

\* The key is reported by one worker at a time, though the lock is looked at
\* in one operation and taken in another, and the lock is not left taken.
\* Only the row deleted, or made by one who found it missing, under a report
\* lets in a second reporter, and only one that dies or throws with the lock
\* leaves it (FcApi.class.php, 253-401 and 410-423).
LockExclusive ==
  ~erased =>
    /\ \A u, w \in Reporters : u = w
    /\ ~orphaned => (row.reportLock > 0 <=> Reporters # {})

\* In a second no more requests of the key, or of the set, pass than the
\* greatest limit they were held against, times the begins of its count.  It
\* begins again, and as many pass again, for a worker that read the row, or the
\* second of the set, before another began it, for a late one that begins an
\* earlier second, and after the row was deleted or made again; a request that
\* is counted in another second, or not at all, is one more
\* (FcApi.class.php, 141-205 and 623-640).
WithinLimit(s) == s.passes <= s.begins * s.most
PassesWithinQuota ==
  \A t \in Seconds : WithinLimit(second[t]) /\ WithinLimit(setsecond[t])

\* A slot never counts more requests than passed in its time: counts are only
\* lost, when two calls open it or make it (FcApi.class.php, 225-252, 433-447).
SlotsNeverOvercount ==
  \A i \in Slots :
    slots[i].timekey > 0 => slots[i].sum <= truth[slots[i].timekey]

\* The sum reported of a slot goes down, which the server takes for a restart
\* and counts again, only if two calls opened the slot, or made it, or if the
\* call read its slots before the report that said more (FcApi.class.php, 225-279).
ReportsShrinkOnlyByRace ==
  [][\A w \in Workers, k \in Times :
       /\ reported'[k] < reported[k]
       /\ pc[w] = "incr" /\ pc'[w] = "report"
       => k \in opened \/ call[w].stale]_vars
=============================================================================
