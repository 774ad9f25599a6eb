------------------------------ MODULE SetServer ------------------------------
(***************************************************************************)
(* Both levels of the quota server: QuotaServer, whose call is answered    *)
(* here by ProSETQuota of QuaServer/ServiceQua.cpp.                        *)
(*                                                                         *)
(* The call carries the ring of the set and those of the processors that   *)
(* reported since the last one.  The second level keeps the same sums over *)
(* all servers of the first that ask it, and hands the quota of the set to *)
(* the processors by the mean of their slots against that of the set.  A   *)
(* call that fails has not been taken back: its request may be handled     *)
(* later, after that of the next one, and nobody waits for its answer.     *)
(*                                                                         *)
(* One server of the first level asks, for one set.  What only informs is  *)
(* left out: the set's sum and the refused ones of the processors;         *)
(* CleanReportId never finds more than the one processor of the entry.     *)
(***************************************************************************)
EXTENDS QuotaServer

CONSTANTS
  SetQuota,   \* the quota of the set, from its configuration
  WorkerNum   \* the workers of the set, from the first level

\* The greatest int32_t, where ActQuota * self wraps at uint32_t's.
MaxInt == 2^(Width - 1) - 1

ASSUME SetAssumption ==
  /\ MaxInt \in Nat
  /\ SetQuota \in 0 .. MaxInt
  /\ WorkerNum \in Nat
  /\ IsFiniteSet(Keys)
  /\ 1 .. MaxInt \subseteq ProcQuotas

VARIABLES
  asks,         \* requests to the second level that it has not handled
  asked,        \* calls so far (numbers them)
  given,        \* the answer of the call that waits, when there is one
  setdata,      \* the set at the second level
  setprocdata,  \* a processor at the second level
  newest2,      \* history: the newest call whose request was handled
  late,         \* history: a request was handled after one of a later call
  counted,      \* history: what was reported: <<key, processor, time of a slot>>
  readded,      \* history: processors of which a slot was added again
  cut           \* history: a count of another time was taken from the set's slot

past == <<counted, readded, cut>>
second == <<asks, asked, given, setdata, setprocdata, newest2, late, past>>
allvars == <<vars, second>>

NoRecord == [titem |-> NoRing, last |-> [i \in Slots |-> NoData], info |-> NoInfo]

SetInit ==
  /\ Init
  /\ asks = {}
  /\ asked = 0
  /\ given = {}
  /\ setdata = [titem |-> NoRing, last |-> [i \in Slots |-> NoData],
                info |-> NoInfo, firstvalid |-> FALSE, valid |-> 0, quota |-> 0]
  /\ setprocdata = [p \in Procs |-> NoRecord]
  /\ newest2 = 0
  /\ late = FALSE
  /\ counted = {}
  /\ readded = {}
  /\ cut = FALSE

-----------------------------------------------------------------------------
\* A ring reported to the second level.

\* A mistake: what was reported last is not kept.
TakenForgotten(d, items) ==
  [d EXCEPT !.titem = [i \in Slots |->
                         IF Told(items[i])
                         THEN Added(@[i], d.last[i], items[i]) ELSE @[i]]]

\* The slots with those of the report added, and what was reported last.
Taken(d, items) ==
  [d EXCEPT
     !.titem = [i \in Slots |-> IF Told(items[i])
                                THEN Added(@[i], d.last[i], items[i]) ELSE @[i]],
     !.last = [i \in Slots |->
                 IF Told(items[i]) /\ items[i].timekey >= d.titem[i].timekey
                 THEN Data(items[i]) ELSE @[i]]]

IsOld(slot) == /\ slot.timekey < TimeKey(now)
               /\ TimeKey(now) - slot.timekey >= FineInterval

\* A processor's slots that count; and the set's, those this server reported.
ProcSlots(d) == {i \in Slots : IsOld(d.titem[i]) /\ d.titem[i].sum > 0}

\* A mistake: empty slots count as well.
SetSlotsEmpty(d) == {i \in Slots : IsOld(d.titem[i])}
SetSlots(d) == {i \in Slots : IsOld(d.titem[i]) /\ d.last[i].sum > 0}

SumOver(d, S) == SumFunctionOnSet([i \in Slots |-> d.titem[i].sum], S)
TotalOver(d, S) ==
  SumFunctionOnSet([i \in Slots |-> d.titem[i].sum + d.titem[i].refuse], S)
PerSecond(sum, S) == sum \div (NumPerIndex * Cardinality(S))

\* The processor p, and what it uses a second; 0 when that is not known.
ProcTaken(p, items) ==
  LET d == Taken(setprocdata[p], items)
  IN  IF p \in Grouped THEN [d EXCEPT !.info = Seen(@, now, 0)] ELSE d

ProcValid(p, d) ==
  LET S == ProcSlots(d)
  IN  IF /\ p \in Grouped /\ ValidID(setprocdata[p].info, now)
         /\ S # {} /\ SumOver(d, S) > AllocMin
      THEN PerSecond(SumOver(d, S), S)
      ELSE 0

\* The set, with its means renewed when the first level is steady and has a
\* history; else they stay, and say so (setfirstvalid).
SetTaken(items) ==
  LET d  == Taken(setdata, items)
      S  == SetSlots(d)
      ok == ValidID(d.info, now) /\ S # {} /\ TotalOver(d, S) > AllocMin
  IN  [d EXCEPT !.info = Seen(@, now, 0),
                !.firstvalid = ok,
                !.valid = IF ok THEN PerSecond(SumOver(d, S), S) ELSE @,
                !.quota = IF ok THEN SetQuota ELSE @]

-----------------------------------------------------------------------------
\* The quotas.

\* uint32_t arithmetic, the result taken for an int32_t.
GetProcQ(d, valid) ==
  IF d.firstvalid /\ d.valid > 0 /\ valid > 0
  THEN ((d.quota * valid) % 2^Width) \div d.valid
  ELSE 0
GetAverQ(d) == IF WorkerNum > 0 THEN d.quota \div WorkerNum ELSE d.quota

ProcQuota(d, valid) ==
  LET q == GetProcQ(d, valid)
  IN  IF q \in 1 .. MaxInt THEN q ELSE GetAverQ(d)

\* One request to the second level, which nothing interrupts.
ProSETQuota(a) ==
  /\ a \in asks
  /\ asks' = asks \ {a}
  /\ setprocdata' = [p \in Procs |->
       IF p \in DOMAIN a.procs THEN ProcTaken(p, a.procs[p]) ELSE setprocdata[p]]
  /\ setdata' = SetTaken(a.items)
  /\ LET q(p) == ProcQuota(setdata', ProcValid(p, setprocdata'[p]))
         told == {p \in DOMAIN a.procs \cap Grouped : q(p) > 0}
     IN  given' = IF calls # {} /\ a.num = asked
                  THEN {[p \in told |-> q(p)]} ELSE given
  /\ newest2' = IF a.num > newest2 THEN a.num ELSE newest2
  /\ late' = (late \/ a.num < newest2)
  /\ UNCHANGED <<vars, asked, past>>

-----------------------------------------------------------------------------
\* The steps of the first level, and what they mean to the second.

\* The slots of a report that the rings of its processor or of the set take,
\* though the key's slot does not say what the processor had reported of them.
Forgotten(m) ==
  LET k == m.key  p == m.proc  t(i) == m.items[i].timekey
  IN  {i \in Slots :
         /\ Told(m.items[i]) /\ <<k, p, t(i)>> \in counted
         /\ procitem[p][i].timekey <= t(i) \/ stitem[i].timekey = t(i)
         /\ \/ titem[k][i].timekey # t(i) \/ mapidnum[k][i][p].sum = 0
            \/ procitem[p][i].timekey < t(i)}

\* Those of which the set's slot loses what was reported of another time.
Stale(m) ==
  {i \in Slots :
     /\ Told(m.items[i]) /\ m.proc \in SetProcs
     /\ stitem[i].timekey = m.items[i].timekey
     /\ titem[m.key][i].timekey # m.items[i].timekey
     /\ ~IsReset(mapidnum[m.key][i][m.proc], m.items[i])}

\* A request of a client that begins a call sends the sums as they now are.
QueryAsks(m) ==
  /\ Query(m)
  /\ asks' = asks \cup {[num |-> asked + 1, items |-> stitem',
                        procs |-> [p \in c.procs |-> procitem'[p]]] :
                       c \in calls' \ calls}
  /\ asked' = asked + Cardinality(calls' \ calls)
  /\ counted' = counted \cup {<<m.key, m.proc, m.items[i].timekey>> :
                                i \in {j \in Slots : Told(m.items[j])}}
  /\ readded' = readded \cup (IF Forgotten(m) = {} THEN {} ELSE {m.proc})
  /\ cut' = (cut \/ Stale(m) # {})
  /\ UNCHANGED <<given, setdata, setprocdata, newest2, late>>

\* The answer of the second level, or none: what was asked may still be handled.
CallAnswered(c) ==
  /\ \E g \in given : SetAnswered(c, g)
  /\ given' = {}
  /\ UNCHANGED <<asks, asked, setdata, setprocdata, newest2, late, past>>

CallFails(c) ==
  /\ SetFails(c)
  /\ given' = {}
  /\ UNCHANGED <<asks, asked, setdata, setprocdata, newest2, late, past>>

Apart ==
  \/ \E k \in Keys, p \in Procs, b \in Batches : Report(k, p, b)
  \/ \E p \in Procs : Restart(p)
  \/ \E m \in net : Lose(m)
  \/ ClearData
  \/ Tick

SetNext ==
  \/ \E m \in net : QueryAsks(m)
  \/ \E a \in asks : ProSETQuota(a)
  \/ \E c \in calls : CallAnswered(c) \/ CallFails(c)
  \/ Apart /\ UNCHANGED second

SetSpec == SetInit /\ [][SetNext]_allvars

-----------------------------------------------------------------------------
\* Properties.

\* The second level counts no request of the set twice, though calls fail
\* after they were handled, or are handled after they failed, though it takes a
\* smaller sum for that of a restarted server, and though the set's slots are
\* corrected by what is remembered of those of the keys (ServiceQua.cpp,
\* 1283-1301): only a slot that the key has forgotten is added again.
SetOvercountOnlyByDisorder ==
  ~late /\ disordered = {} /\ readded = {} =>
    \A i \in Slots : LET t == setdata.titem[i].timekey
                     IN  t > 0 => setdata.titem[i].sum
                                    <= SumFunctionOnSet([k \in Keys |-> truth[k][t]], Keys)

\* A processor that is judged by the same times as its set is never given more
\* than the quota of the whole set; one that is judged by others, because the
\* two begin their slots anew at different times, or of which a slot was added
\* again, may be, and so may any when the set's slot has lost a count (ServiceQua.h,
\* 314; ServiceQua.cpp, 1283-1301, 1632-1649 and 1714-1742).
TimesOf(d) == {d.titem[i].timekey : i \in ProcSlots(d)}
WithinSetOnSameTimes ==
  [][\A g \in given' \ given : \A p \in DOMAIN g \ readded :
       ~cut /\ TimesOf(setprocdata'[p]) = TimesOf(setdata') => g[p] <= SetQuota]_allvars
=============================================================================
