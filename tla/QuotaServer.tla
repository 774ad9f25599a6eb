----------------------------- MODULE QuotaServer -----------------------------
(***************************************************************************)
(* The quota server, GetQueryQuota of QuaServer/ServiceQua.cpp, with the   *)
(* clients that report to it.                                              *)
(*                                                                         *)
(* A report carries the client's whole ring of slots.  The server keeps,   *)
(* for every key, the sum of each slot over the processors and what each   *)
(* processor reported last of it (mapidnum); a report replaces the         *)
(* processor's share of the sum, and one that is smaller than the last is  *)
(* taken for that of a restarted client and added.  The same report is     *)
(* added to the slots of its processor (procdata) and of its set.  A       *)
(* processor that reports without a gap is then given its share of the     *)
(* key's quota, as the slots FineInterval ago and older have it.           *)
(*                                                                         *)
(* At most once a second a request of the set also asks the second-level   *)
(* server for the processors' quotas (ProSETQuota).  That call yields to   *)
(* other requests until it is answered, so it is two actions: AskSet, a    *)
(* part of Query, and SetAnswered or SetFails.                             *)
(*                                                                         *)
(* Worker numbers, the set's quota and sum, and the fields of the answer   *)
(* that only inform are left out; an entry that is missing from a map is   *)
(* one of zeros, which is what the code creates when it looks for it.  A   *)
(* key has a quota: requests without one skip the whole of it.             *)
(***************************************************************************)
EXTENDS FluxTime

CONSTANTS
  Keys,          \* the flow-control keys
  Procs,         \* the reporting processors, "<ip>_<group>" or "<ip>"
  Ip(_),         \* the address of a processor
  SetProcs,      \* the processors whose address is in the configured set
  Grouped,       \* those with a group number: GetReportIP finds their address
  ActQuota,      \* the quota of every key, from the request
  Width,         \* bits of the unsigned product actquota * self (32)
  FineInterval,  \* slots this old are used for the shares (20)
  AllocMin,      \* history needed for a share (QUOTA_ALLOC_MIN, 10)
  ActiveWithin,  \* a gap this long between two reports starts anew (30)
  ProveFor,      \* a processor must have reported for longer (2 minutes)
  WarmUp,        \* and the server must be up for longer (5 minutes)
  CleanAt, ClearAt, CleanAfter,  \* CleanReportId (300, 500, 30 minutes)
  ProcMax,       \* processors waiting for the set that force a call (30)
  Expire,        \* keys unused for longer are erased (3 days)
  EraseEvery,    \* seconds between two erasures (a day)
  Start,         \* the second at which the server starts
  ProcQuotas,    \* quotas the second level gives
  Batches,       \* bound: what a client counts between two reports
  MaxTime,       \* bound: the last second of the clock
  MaxReports, MaxNet, MaxRestarts  \* bounds: reports, reports on their
                 \* way at a time, and restarts of the clients

ASSUME ServerAssumption ==
  /\ SetProcs \subseteq Procs /\ Grouped \subseteq Procs
  /\ IsFiniteSet(Procs)
  /\ ActQuota \in Nat \ {0} /\ Width \in Nat /\ 2^Width \in Nat \ {0}
  /\ FineInterval \in Nat /\ AllocMin \in Nat
  /\ ActiveWithin \in Nat /\ ProveFor \in Nat /\ WarmUp \in Nat
  /\ CleanAt \in Nat /\ ClearAt \in Nat /\ CleanAfter \in Nat
  /\ ProcMax \in Nat /\ Expire \in Nat /\ EraseEvery \in Nat
  /\ Start \in Nat /\ Start >= NumPerIndex /\ Start >= ActiveWithin
  /\ ProcQuotas \subseteq Nat \ {0}
  /\ Batches \subseteq [sum : Nat, refuse : Nat, setrefuse : Nat]
  /\ MaxTime \in Nat /\ Start <= MaxTime /\ MaxReports \in Nat /\ MaxNet \in Nat
  /\ MaxRestarts \in Nat

VARIABLES
  now,        \* the clock, in seconds
  timesum,    \* the ring of a client for a key
  net,        \* reports on their way
  sent,       \* reports sent so far (bounds the model, numbers them)
  restarts,   \* restarts so far (bounds the model)
  titem,      \* the slots of a key
  mapidnum,   \* what a processor reported last of a slot of a key
  mapalloq,   \* the quota of a processor for a key
  procitem,   \* the slots of a processor, over the keys
  procalloq,  \* the quota of a processor in its set
  stitem,     \* the slots of the set
  setlock, setupdate,  \* lock and updatetime of the set
  setproc,    \* processors to be reported to the second level
  calls,      \* requests waiting for the second level
  updatetime, \* when a key was last asked for; 0 when s_map_quota lacks it
  procupdate, \* the same of a processor, s_map_proc_quota
  lasterase,  \* when expired keys were last erased
  rsp,        \* the last answer
  truth,      \* history: requests the clients really counted
  newest,     \* history: number of the newest report handled
  shrunk,     \* history: slots in which a smaller report was added
  disordered, \* history: a report overtaken by a newer one was handled
  handled     \* history: the seconds in which a processor's report was handled

clients == <<timesum, net, sent, restarts>>
stats == <<titem, mapidnum, procitem, stitem>>
alloc == <<mapalloq, procalloq, updatetime, procupdate>>
set == <<setlock, setupdate, setproc, calls>>
history == <<truth, newest, shrunk, disordered, handled>>
vars == <<now, clients, stats, alloc, set, lasterase, rsp, history>>

NoData == [sum |-> 0, refuse |-> 0, setrefuse |-> 0]
NoSlot == [timekey |-> 0, sum |-> 0, refuse |-> 0, setrefuse |-> 0]
NoInfo == [aquota |-> 0, updatetime |-> 0, firsttime |-> 0]
NoRing == [i \in Slots |-> NoSlot]

Init ==
  /\ now = Start
  /\ timesum = [k \in Keys |-> [p \in Procs |-> NoRing]]
  /\ net = {}
  /\ sent = 0
  /\ restarts = 0
  /\ titem = [k \in Keys |-> NoRing]
  /\ mapidnum = [k \in Keys |-> [i \in Slots |-> [p \in Procs |-> NoData]]]
  /\ mapalloq = [k \in Keys |-> [p \in Procs |-> NoInfo]]
  /\ procitem = [p \in Procs |-> NoRing]
  /\ procalloq = [p \in Procs |-> NoInfo]
  /\ stitem = NoRing
  /\ setlock = 0
  /\ setupdate = 0
  /\ setproc = {}
  /\ calls = {}
  /\ updatetime = [k \in Keys |-> 0]
  /\ procupdate = [p \in Procs |-> 0]
  /\ lasterase = 0
  /\ rsp = [localq |-> 0, procquota |-> 0]
  /\ truth = [k \in Keys |-> [t \in {TimeKey(s) : s \in Start .. MaxTime} |-> 0]]
  /\ newest = [k \in Keys |-> [p \in Procs |-> 0]]
  /\ shrunk = {}
  /\ disordered = {}
  /\ handled = [k \in Keys |-> [p \in Procs |-> {}]]

-----------------------------------------------------------------------------
\* The clients.

\* A client counts the requests of a while and reports its ring.
Report(k, p, b) ==
  /\ sent < MaxReports
  /\ Cardinality(net) < MaxNet
  /\ sent' = sent + 1
  /\ LET old  == timesum[k][p][SlotIndex(now)]
         from == IF old.timekey = TimeKey(now) THEN old ELSE NoSlot
     IN  timesum' = [timesum EXCEPT ![k][p][SlotIndex(now)] =
           [timekey |-> TimeKey(now), sum |-> from.sum + b.sum,
            refuse |-> from.refuse + b.refuse,
            setrefuse |-> from.setrefuse + b.setrefuse]]
  /\ net' = net \cup {[num |-> sent + 1, key |-> k, proc |-> p,
                       items |-> timesum'[k][p], again |-> TRUE]}
  /\ truth' = [truth EXCEPT ![k][TimeKey(now)] = @ + b.sum]
  /\ UNCHANGED <<now, restarts, stats, alloc, set, lasterase, rsp, newest,
                 shrunk, disordered, handled>>

Lose(m) ==
  /\ net' = net \ {m}
  /\ UNCHANGED <<now, timesum, sent, restarts, stats, alloc, set, lasterase, rsp,
                 history>>

Restart(p) ==
  /\ restarts < MaxRestarts
  /\ restarts' = restarts + 1
  /\ timesum' = [k \in Keys |-> [timesum[k] EXCEPT ![p] = NoRing]]
  /\ UNCHANGED <<now, net, sent, stats, alloc, set, lasterase, rsp, history>>

-----------------------------------------------------------------------------
\* A report and the slots of its key, its processor and its set.

Plus(s, d) == [s EXCEPT !.sum = @ + d.sum, !.refuse = @ + d.refuse,
                        !.setrefuse = @ + d.setrefuse]
Minus(s, d) == [s EXCEPT !.sum = @ - d.sum, !.refuse = @ - d.refuse,
                         !.setrefuse = @ - d.setrefuse]
Data(item) == [sum |-> item.sum, refuse |-> item.refuse,
               setrefuse |-> item.setrefuse]

\* Items that say nothing are skipped.
Told(item) == item.timekey > 0 /\ item.sum > 0

Newer(slot, item) == slot.timekey = 0 \/ item.timekey > slot.timekey

\* A mistake: a repeated report is taken for a reset.
IsResetOrSame(last, item) == last.sum = 0 \/ item.sum <= last.sum

\* A processor whose sum went down was restarted and counts from zero.
IsReset(last, item) == last.sum = 0 \/ item.sum < last.sum

\* The slot with the item in it: InitAll, ReSetAddAll or NormalAddAll.
Added(slot, last, item) ==
  IF Newer(slot, item) THEN item
  ELSE IF item.timekey < slot.timekey THEN slot
  ELSE IF IsReset(last, item) THEN Plus(slot, item)
  ELSE Plus(Minus(slot, last), item)

\* A mistake: a newer slot keeps what the others reported of the old one.
RememberedForGood(map, slot, p, item) ==
  IF item.timekey < slot.timekey THEN map ELSE [map EXCEPT ![p] = Data(item)]

\* What the processors reported of the slot: a newer slot forgets the others.
Remembered(map, slot, p, item) ==
  IF Newer(slot, item)
  THEN [q \in Procs |-> IF q = p THEN Data(item) ELSE NoData]
  ELSE IF item.timekey < slot.timekey THEN map
  ELSE [map EXCEPT ![p] = Data(item)]

\* The sums of all three are corrected by what the processor last reported
\* of the slot of the KEY.
AddReport(m) ==
  LET k       == m.key
      p       == m.proc
      last(i) == mapidnum[k][i][p]
      In(ring) == [i \in Slots |-> IF Told(m.items[i])
                                   THEN Added(ring[i], last(i), m.items[i])
                                   ELSE ring[i]]
  IN  /\ titem' = [titem EXCEPT ![k] = In(@)]
      /\ mapidnum' = [mapidnum EXCEPT
           ![k] = [i \in Slots |->
                     IF Told(m.items[i])
                     THEN Remembered(@[i], titem[k][i], p, m.items[i])
                     ELSE @[i]]]
      /\ procitem' = [procitem EXCEPT ![p] = In(@)]
      /\ stitem' = IF p \in SetProcs THEN In(stitem) ELSE stitem

-----------------------------------------------------------------------------
\* The processor's share of the key's quota.

\* ValidID: the processor has reported without a gap, and for long enough.
Steady(id, t) == t >= id.updatetime /\ t - id.updatetime < ActiveWithin
ValidID(id, t) == Steady(id, t) /\ t > id.firsttime
                  /\ t - id.firsttime > ProveFor

\* A mistake: a gap in the reports does not start anew.
SeenSinceEver(id, t, q) ==
  [aquota |-> q, updatetime |-> t,
   firsttime |-> IF id.firsttime = 0 THEN t ELSE id.firsttime]

\* The entry of a processor seen at t, with the quota q.
Seen(id, t, q) ==
  [aquota |-> q, updatetime |-> t,
   firsttime |-> IF Steady(id, t) THEN id.firsttime ELSE t]

\* CleanReportId: an address with too many processors loses the old or all.
Cleaned(ids, p) ==
  LET mine == {q \in Procs : Ip(q) = Ip(p) /\ ids[q].updatetime > 0}
      gone == IF Cardinality(mine) > ClearAt THEN mine
              ELSE IF Cardinality(mine) > CleanAt
              THEN {q \in mine : now - ids[q].updatetime > CleanAfter}
              ELSE {}
  IN  [q \in Procs |-> IF q \in gone THEN NoInfo ELSE ids[q]]

\* The slots a share is computed from.
Usable(k, p) ==
  {i \in Slots : /\ TimeKey(now) - titem'[k][i].timekey >= FineInterval
                 /\ titem'[k][i].timekey < TimeKey(now)
                 /\ mapidnum'[k][i][p].sum > 0}
History(k, p) ==
  SumFunctionOnSet([i \in Slots |-> mapidnum'[k][i][p].sum], Usable(k, p))
Total(k, p) == SumFunctionOnSet([i \in Slots |-> titem'[k][i].sum], Usable(k, p))

\* uint32_t arithmetic: the product wraps.
Share(self, total) == ((ActQuota * self) % 2^Width) \div total

Quota(k, p, valid) ==
  IF valid /\ Cardinality(Usable(k, p)) >= 2 /\ Total(k, p) > AllocMin
  THEN Share(History(k, p), Total(k, p))
  ELSE 0

Allocate(k, p) ==
  LET ids   == Cleaned(mapalloq[k], p)
      valid == ValidID(ids[p], now)
      info  == Seen(ids[p], now, Quota(k, p, valid))
  IN  /\ mapalloq' = [mapalloq EXCEPT ![k] = [ids EXCEPT ![p] = info]]
      /\ updatetime' = [updatetime EXCEPT ![k] = now]
      /\ procupdate' = [procupdate EXCEPT ![p] = now]

Answer(c, procids) ==
  rsp' = [localq |-> c.localq,
          procquota |-> IF c.valid THEN procids[c.proc].aquota ELSE 0]

-----------------------------------------------------------------------------
\* The second level.

\* Mistakes: the call does not look at the lock; a failed call keeps it.
SetDueUnlocked(p) == p \in SetProcs /\ now - setupdate >= 1
SetDue(p) ==
  /\ p \in SetProcs
  /\ setlock = 0
  /\ now - setupdate >= 1 \/ Cardinality(setproc \cup {p}) > ProcMax

\* The request asks for the processors' quotas and waits: s_setproc is
\* emptied before the call is even sent.
AskSet(c) ==
  /\ SetDue(c.proc)
  /\ setlock' = 1
  /\ setupdate' = now
  /\ setproc' = {}
  /\ calls' = calls \cup
       {[proc |-> c.proc, localq |-> c.localq, valid |-> c.valid, at |-> now,
         procs |-> setproc \cup {c.proc}]}
  /\ UNCHANGED rsp

AnswerAtOnce(c) ==
  /\ ~SetDue(c.proc)
  /\ setproc' = setproc \cup ({c.proc} \cap SetProcs)
  /\ Answer(c, procalloq)
  /\ UNCHANGED <<setlock, setupdate, calls>>

Unlock(c) ==
  /\ calls' = calls \ {c}
  /\ setlock' = 0

\* It is answered, with a quota for some of the processors it asked for: now
\* is still that of the request.
SetAnswered(c, quotas) ==
  /\ c \in calls
  /\ Unlock(c)
  /\ setupdate' = c.at
  /\ procalloq' = [p \in Procs |->
       IF p \notin DOMAIN quotas THEN procalloq[p]
       ELSE Seen(procalloq[p], c.at,
                 IF ValidID(procalloq[p], c.at) THEN quotas[p]
                 ELSE procalloq[p].aquota)]
  /\ Answer(c, procalloq')
  /\ UNCHANGED <<now, clients, stats, mapalloq, updatetime, procupdate,
                 setproc, lasterase, history>>

\* A mistake: a failed call keeps the lock.
SetFailsLocked(c) ==
  /\ c \in calls
  /\ calls' = calls \ {c}
  /\ Answer(c, procalloq)
  /\ UNCHANGED <<now, clients, stats, alloc, setlock, setupdate, setproc,
                 lasterase, history>>

SetFails(c) ==
  /\ c \in calls
  /\ Unlock(c)
  /\ Answer(c, procalloq)
  /\ UNCHANGED <<now, clients, stats, alloc, setupdate, setproc, lasterase,
                 history>>

-----------------------------------------------------------------------------
\* One request.

Remember(m) ==
  LET k == m.key
      p == m.proc
      slot(i) == titem[k][i]
      rolled  == {i \in Slots : Told(m.items[i]) /\ Newer(slot(i), m.items[i])}
      smaller == {i \in Slots : /\ Told(m.items[i])
                                /\ m.items[i].timekey = slot(i).timekey
                                /\ m.items[i].sum < mapidnum[k][i][p].sum}
  IN  /\ newest' = [newest EXCEPT ![k][p] = IF m.num > @ THEN m.num ELSE @]
      /\ disordered' = disordered \cup
                          (IF m.num < newest[k][p] THEN {k} ELSE {})
      /\ shrunk' = (shrunk \ {<<k, i>> : i \in rolled})
                     \cup {<<k, i>> : i \in smaller}
      /\ handled' = [handled EXCEPT ![k][p] = @ \cup {now}]
      /\ UNCHANGED truth

\* A report whose answer is lost comes once more (TCPSend sends it again).
Query(m) ==
  /\ m \in net
  /\ \/ net' = net \ {m}
     \/ m.again /\ net' = (net \ {m}) \cup {[m EXCEPT !.again = FALSE]}
  /\ AddReport(m)
  /\ Allocate(m.key, m.proc)
  /\ LET id == Cleaned(mapalloq[m.key], m.proc)[m.proc]
         c  == [proc |-> m.proc, valid |-> ValidID(id, now),
                localq |-> IF now - Start > WarmUp
                           THEN mapalloq'[m.key][m.proc].aquota ELSE 0]
     IN  AskSet(c) \/ AnswerAtOnce(c)
  /\ Remember(m)
  /\ UNCHANGED <<now, timesum, sent, restarts, procalloq, lasterase>>

\* ClearData: what nobody asked for in days is erased, once a day.
ClearData ==
  /\ now - lasterase > EraseEvery
  /\ lasterase' = now
  /\ LET old(u) == now - u > Expire
     IN  /\ titem' = [k \in Keys |->
                        IF old(updatetime[k]) THEN NoRing ELSE titem[k]]
         /\ mapidnum' = [k \in Keys |->
              IF old(updatetime[k])
              THEN [i \in Slots |-> [p \in Procs |-> NoData]] ELSE mapidnum[k]]
         /\ mapalloq' = [k \in Keys |->
              IF old(updatetime[k]) THEN [p \in Procs |-> NoInfo] ELSE mapalloq[k]]
         /\ updatetime' = [k \in Keys |->
                             IF old(updatetime[k]) THEN 0 ELSE updatetime[k]]
         /\ procitem' = [p \in Procs |->
                           IF old(procupdate[p]) THEN NoRing ELSE procitem[p]]
         /\ procalloq' = [p \in Procs |->
                            IF old(procupdate[p]) THEN NoInfo ELSE procalloq[p]]
         /\ procupdate' = [p \in Procs |->
                             IF old(procupdate[p]) THEN 0 ELSE procupdate[p]]
         /\ shrunk' = {s \in shrunk : ~old(updatetime[s[1]])}
  /\ UNCHANGED <<now, clients, stitem, set, rsp, truth, newest, disordered,
                 handled>>

Tick ==
  /\ now < MaxTime
  /\ now' = now + 1
  /\ UNCHANGED <<clients, stats, alloc, set, lasterase, rsp, history>>

Next ==
  \/ \E k \in Keys, p \in Procs, b \in Batches : Report(k, p, b)
  \/ \E p \in Procs : Restart(p)
  \/ \E m \in net : Query(m) \/ Lose(m)
  \/ \E c \in calls : \/ SetFails(c)
                      \/ \E got \in SUBSET (c.procs \cap Grouped) :
                           \E quotas \in [got -> ProcQuotas] : SetAnswered(c, quotas)
  \/ ClearData
  \/ Tick

Spec == Init /\ [][Next]_vars

-----------------------------------------------------------------------------
\* Properties.

Reported(k, i) == SumFunctionOnSet([p \in Procs |-> mapidnum[k][i][p].sum], Procs)
Refused(k, i) == SumFunctionOnSet([p \in Procs |-> mapidnum[k][i][p].refuse], Procs)

\* The sum of a slot is what its processors reported last of it, and never
\* less: only a smaller report, taken for a restart, makes it more
\* (ServiceQua.cpp, 1244-1276).
ActSumsCover ==
  \A k \in Keys, i \in Slots :
    /\ titem[k][i].sum >= Reported(k, i)
    /\ titem[k][i].refuse >= Refused(k, i)
    /\ <<k, i>> \notin shrunk => titem[k][i].sum = Reported(k, i)

\* However reports are lost, sent again and delayed, and however often the
\* clients restart, the server counts no request of a slot twice: only a
\* report handled after a newer one of its processor makes it do so
\* (the reset of ServiceQua.cpp, 1271-1272).
OvercountOnlyByDisorder ==
  \A k \in Keys \ disordered, i \in Slots :
    titem[k][i].timekey > 0 => titem[k][i].sum <= truth[k][titem[k][i].timekey]

\* A processor never gets more than the whole quota of the key, although its
\* share is of slots that others report to, restart in and forget
\* (ServiceQua.cpp, 1315-1359).
ShareWithinQuota ==
  \A k \in Keys, p \in Procs : mapalloq[k][p].aquota <= ActQuota

\* Only a processor that has reported without a gap for longer than ProveFor,
\* the last time included, has a quota (ValidID, CleanReportId, ClearData).
QuotaOnlyToSteady ==
  \A k \in Keys, p \in Procs :
    mapalloq[k][p].aquota > 0 =>
      \E t \in handled[k][p] :
        /\ mapalloq[k][p].updatetime - t > ProveFor
        /\ \A u \in handled[k][p] :
             t <= u /\ u < mapalloq[k][p].updatetime =>
               \E v \in handled[k][p] : u < v /\ v - u < ActiveWithin

\* The lock of the set is held exactly while its one call is out
\* (ServiceQua.cpp, 1394-1396 and 1490).
SetCallExclusive == Cardinality(calls) = setlock

\* An answer of the second level never sets a processor's times back, though
\* it is applied with the time of a request long past (ServiceQua.cpp, 1476).
SetTimesAdvance ==
  [][\A p \in Procs : \/ procalloq'[p].updatetime >= procalloq[p].updatetime
                      \/ procalloq'[p] = NoInfo]_vars

\* The quota given is the processor's share of the total, the localq of the
\* protocol: totalq*(self)/total (ServiceQua.cpp, 1351).
ShareProportional ==
  [][\A k \in Keys, p \in Procs :
       mapalloq'[k][p].aquota # mapalloq[k][p].aquota
         /\ mapalloq'[k][p].aquota > 0 =>
           mapalloq'[k][p].aquota
             = (ActQuota * History(k, p)) \div Total(k, p)]_vars
=============================================================================
