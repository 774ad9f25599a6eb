-------------------------- MODULE QuotaServer_proofs --------------------------
(***************************************************************************)
(* Proofs about QuotaServer: the call of the second level is exclusive and *)
(* its delayed answers never set a processor's times back; only steady     *)
(* processors have a quota, and none has more than the whole; the sums of  *)
(* the slots cover what was reported, and count nothing twice unless a     *)
(* report is overtaken.  And SetServer, both levels together, implements   *)
(* QuotaServer, so all of it holds there; and the set counts nothing twice *)
(* at either level.                                                        *)
(***************************************************************************)
EXTENDS SetServer, FluxTime_proofs, FiniteSetTheorems, TLAPS

-----------------------------------------------------------------------------
\* The call of the second level.

\* An entry of mapalloq, whatever its quota.
IsInfo(id) ==
  /\ id = [aquota |-> id.aquota, updatetime |-> id.updatetime,
           firsttime |-> id.firsttime]
  /\ id.updatetime \in Nat
  /\ id.firsttime \in Nat

IsCall(c) ==
  /\ c = [proc |-> c.proc, localq |-> c.localq, valid |-> c.valid,
          at |-> c.at, procs |-> c.procs]
  /\ c.at \in Nat

\* No call and no lock, or one of each; and nothing a processor was given by
\* the second level is of a time after the call that is out.
CallInv ==
  /\ now \in Nat
  /\ \/ setlock = 0 /\ calls = {}
     \/ setlock = 1 /\ \E c : calls = {c}
  /\ \A c \in calls : IsCall(c) /\ c.at <= now
  /\ DOMAIN procalloq = Procs
  /\ procalloq = [p \in Procs |-> procalloq[p]]
  /\ \A p \in Procs :
       /\ IsInfo(procalloq[p])
       /\ procalloq[p].updatetime <= now
       /\ \A c \in calls : procalloq[p].updatetime <= c.at

LEMMA InfoSeen ==
  ASSUME NEW id, NEW t \in Nat, NEW q, IsInfo(id)
  PROVE  IsInfo(Seen(id, t, q)) /\ Seen(id, t, q).updatetime = t
  BY DEF IsInfo, Seen

LEMMA NoInfoIsInfo == IsInfo(NoInfo) /\ NoInfo.updatetime = 0
  BY DEF IsInfo, NoInfo

LEMMA CallInit == Init => CallInv
  <1> SUFFICES ASSUME Init PROVE CallInv
    OBVIOUS
  <1>1. \A p \in Procs : procalloq[p] = NoInfo
    BY DEF Init
  <1>2. now \in Nat
    BY ServerAssumption DEF Init
  <1> QED
    BY <1>1, <1>2, NoInfoIsInfo DEF Init, CallInv

LEMMA AskKeepsCalls ==
  ASSUME CallInv, NEW c, AskSet(c), now' = now, procalloq' = procalloq
  PROVE  CallInv'
  <1> DEFINE d == [proc |-> c.proc, localq |-> c.localq, valid |-> c.valid,
                   at |-> now, procs |-> setproc \cup {c.proc}]
  <1>1. calls = {}
    BY DEF AskSet, SetDue, CallInv
  <1>2. calls' = {d} /\ setlock' = 1
    BY <1>1 DEF AskSet
  <1>3. IsCall(d) /\ d.at = now
    BY DEF IsCall, CallInv
  <1> HIDE DEF d
  <1>4. now' \in Nat /\ now' = d.at
    BY <1>3 DEF CallInv
  <1>5. \A e \in calls' : IsCall(e) /\ e.at <= now'
    BY <1>2, <1>3, <1>4
  <1>6. \A p \in Procs :
          /\ IsInfo(procalloq[p])
          /\ procalloq[p].updatetime <= now
          /\ \A e \in calls' : procalloq[p].updatetime <= e.at
    BY <1>2, <1>3 DEF CallInv
  <1>7. DOMAIN procalloq = Procs
        /\ procalloq = [p \in Procs |-> procalloq[p]]
    BY DEF CallInv
  <1> QED
    BY <1>2, <1>4, <1>5, <1>6, <1>7 DEF CallInv

LEMMA CallNext == CallInv /\ [Next]_vars => CallInv'
  <1> SUFFICES ASSUME CallInv, [Next]_vars PROVE CallInv'
    OBVIOUS
  <1>1. ASSUME UNCHANGED <<now, setlock, calls, procalloq>> PROVE CallInv'
    BY <1>1 DEF CallInv
  <1>2. ASSUME NEW k \in Keys, NEW p \in Procs, NEW b \in Batches,
               Report(k, p, b)
        PROVE  CallInv'
    BY <1>1, <1>2 DEF Report, alloc, set
  <1>3. ASSUME NEW p \in Procs, Restart(p) PROVE CallInv'
    BY <1>1, <1>3 DEF Restart, alloc, set
  <1>4. ASSUME NEW m \in net, Lose(m) PROVE CallInv'
    BY <1>1, <1>4 DEF Lose, alloc, set
  <1>5. ASSUME NEW m \in net, Query(m) PROVE CallInv'
    <2>1. /\ now' = now /\ procalloq' = procalloq
          /\ \E c : AskSet(c) \/ AnswerAtOnce(c)
      BY <1>5 DEF Query
    <2>2. PICK c : AskSet(c) \/ AnswerAtOnce(c)
      BY <2>1
    <2>3. CASE AskSet(c)
      BY <2>1, <2>3, AskKeepsCalls
    <2>4. CASE AnswerAtOnce(c)
      BY <1>1, <2>1, <2>4 DEF AnswerAtOnce
    <2> QED
      BY <2>2, <2>3, <2>4
  <1>6. ASSUME NEW c \in calls, NEW qs, SetAnswered(c, qs) PROVE CallInv'
    <2>1. /\ now' = now /\ setlock' = 0 /\ calls' = {}
          /\ c.at \in Nat /\ c.at <= now
      BY <1>6 DEF SetAnswered, Unlock, CallInv, IsCall
    <2>2. procalloq' = [p \in Procs |->
            IF p \notin DOMAIN qs THEN procalloq[p]
            ELSE Seen(procalloq[p], c.at,
                      IF ValidID(procalloq[p], c.at) THEN qs[p]
                      ELSE procalloq[p].aquota)]
      BY <1>6 DEF SetAnswered
    <2>3. ASSUME NEW p \in Procs
          PROVE  IsInfo(procalloq'[p]) /\ procalloq'[p].updatetime <= now
      <3>1. IsInfo(procalloq[p]) /\ procalloq[p].updatetime <= now
        BY DEF CallInv
      <3>2. CASE p \notin DOMAIN qs
        BY <2>2, <3>1, <3>2
      <3>3. CASE p \in DOMAIN qs
        BY <2>1, <2>2, <3>1, <3>3, InfoSeen
      <3> QED
        BY <3>2, <3>3
    <2>4. DOMAIN procalloq' = Procs
          /\ procalloq' = [p \in Procs |-> procalloq'[p]]
      BY <2>2
    <2>5. now \in Nat
      BY DEF CallInv
    <2> QED
      BY <2>1, <2>3, <2>4, <2>5 DEF CallInv
  <1>7. ASSUME NEW c \in calls, SetFails(c) PROVE CallInv'
    <2>1. /\ now' = now /\ setlock' = 0 /\ calls' = {}
          /\ procalloq' = procalloq
      BY <1>7 DEF SetFails, Unlock, CallInv, alloc
    <2> QED
      BY <2>1 DEF CallInv
  <1>8. ASSUME ClearData PROVE CallInv'
    <2>1. /\ now' = now /\ setlock' = setlock /\ calls' = calls
          /\ procalloq' = [p \in Procs |-> IF now - procupdate[p] > Expire
                                           THEN NoInfo ELSE procalloq[p]]
      BY <1>8 DEF ClearData, set
    <2>2. ASSUME NEW p \in Procs
          PROVE  /\ IsInfo(procalloq'[p])
                 /\ procalloq'[p].updatetime <= now
                 /\ \A c \in calls : procalloq'[p].updatetime <= c.at
      <3>1. CASE procalloq'[p] = NoInfo
        BY <3>1, NoInfoIsInfo DEF CallInv, IsCall
      <3>2. CASE procalloq'[p] = procalloq[p]
        BY <3>2 DEF CallInv
      <3> QED
        BY <2>1, <3>1, <3>2
    <2>3. DOMAIN procalloq' = Procs
          /\ procalloq' = [p \in Procs |-> procalloq'[p]]
      BY <2>1
    <2> QED
      BY <2>1, <2>2, <2>3 DEF CallInv
  <1>9. ASSUME Tick PROVE CallInv'
    <2>1. /\ now' = now + 1
          /\ UNCHANGED <<setlock, calls, procalloq>>
      BY <1>9 DEF Tick, set, alloc
    <2>2. now \in Nat /\ now' \in Nat
      BY <2>1 DEF CallInv
    <2>3. \A c \in calls : IsCall(c) /\ c.at <= now'
      BY <2>1, <2>2 DEF CallInv, IsCall
    <2>4. ASSUME NEW p \in Procs
          PROVE  /\ IsInfo(procalloq[p])
                 /\ procalloq[p].updatetime <= now'
                 /\ \A c \in calls : procalloq[p].updatetime <= c.at
      <3>1. /\ IsInfo(procalloq[p]) /\ procalloq[p].updatetime <= now
            /\ \A c \in calls : procalloq[p].updatetime <= c.at
        BY DEF CallInv
      <3> QED
        BY <2>1, <2>2, <3>1 DEF IsInfo
    <2>5. DOMAIN procalloq = Procs
          /\ procalloq = [p \in Procs |-> procalloq[p]]
      BY DEF CallInv
    <2> QED
      BY <2>1, <2>2, <2>3, <2>4, <2>5 DEF CallInv
  <1>10. CASE UNCHANGED vars
    BY <1>1, <1>10 DEF vars, set, alloc
  <1> QED
    BY <1>2, <1>3, <1>4, <1>5, <1>6, <1>7, <1>8, <1>9, <1>10 DEF Next

\* At most one call of the second level is out, and the lock of the set says
\* whether one is: a failed call gives it back (ServiceQua.cpp, 1394-1490).
THEOREM SetLockExclusive == Spec => []SetCallExclusive
  <1>1. CallInv => SetCallExclusive
    BY FS_EmptySet, FS_Singleton DEF CallInv, SetCallExclusive
  <1> QED
    BY <1>1, CallInit, CallNext, PTL DEF Spec

LEMMA CallTimesStep ==
  CallInv /\ [Next]_vars =>
    \A p \in Procs : \/ procalloq'[p].updatetime >= procalloq[p].updatetime
                     \/ procalloq'[p] = NoInfo
  <1> SUFFICES ASSUME CallInv, [Next]_vars, NEW p \in Procs
               PROVE  \/ procalloq'[p].updatetime >= procalloq[p].updatetime
                      \/ procalloq'[p] = NoInfo
    OBVIOUS
  <1>1. procalloq[p].updatetime \in Nat
    BY DEF CallInv, IsInfo
  <1>2. CASE procalloq' = procalloq
    BY <1>1, <1>2
  <1>3. ASSUME NEW c \in calls, NEW qs, SetAnswered(c, qs)
        PROVE  procalloq'[p].updatetime >= procalloq[p].updatetime
    <2>1. c.at \in Nat /\ procalloq[p].updatetime <= c.at
          /\ IsInfo(procalloq[p])
      BY DEF CallInv, IsCall
    <2>2. procalloq' = [r \in Procs |->
            IF r \notin DOMAIN qs THEN procalloq[r]
            ELSE Seen(procalloq[r], c.at,
                      IF ValidID(procalloq[r], c.at) THEN qs[r]
                      ELSE procalloq[r].aquota)]
      BY <1>3 DEF SetAnswered
    <2>3. CASE p \notin DOMAIN qs
      BY <1>1, <2>2, <2>3
    <2>4. CASE p \in DOMAIN qs
      <3>1. procalloq'[p].updatetime = c.at
        BY <2>1, <2>2, <2>4, InfoSeen
      <3> QED
        BY <1>1, <2>1, <3>1
    <2> QED
      BY <2>3, <2>4
  <1>4. CASE ClearData
    BY <1>1, <1>4 DEF ClearData
  <1>5. \/ procalloq' = procalloq \/ ClearData
        \/ \E c \in calls : \E qs : SetAnswered(c, qs)
    <2>1. CASE Tick \/ UNCHANGED vars  BY <2>1 DEF Tick, vars, alloc
    <2>2. CASE \E k \in Keys, q \in Procs, b \in Batches : Report(k, q, b)
      BY <2>2 DEF Report, alloc
    <2>3. CASE \E q \in Procs : Restart(q)  BY <2>3 DEF Restart, alloc
    <2>4. CASE \E m \in net : Lose(m) \/ Query(m)  BY <2>4 DEF Lose, Query, alloc
    <2>5. CASE \E d \in calls : SetFails(d)  BY <2>5 DEF SetFails, alloc
    <2> QED BY <2>1, <2>2, <2>3, <2>4, <2>5 DEF Next
  <1> QED
    BY <1>2, <1>3, <1>4, <1>5

\* An answer of the second level never sets a processor's times back, though
\* it is applied with the time of a request long past (ServiceQua.cpp, 1476).
THEOREM SetTimesNeverGoBack == Spec => SetTimesAdvance
  BY CallInit, CallNext, CallTimesStep, PTL DEF Spec, SetTimesAdvance

-----------------------------------------------------------------------------
\* Quotas are for steady processors.

\* An entry of mapalloq is empty, or is of a processor whose reports, handled
\* at the seconds H, came without a gap between firsttime and updatetime, the
\* last of them; and a quota is there only after more than ProveFor of it.
SteadyInfo(id, H) ==
  /\ IsInfo(id)
  /\ \/ id.aquota = 0 /\ id.updatetime = 0
     \/ /\ id.firsttime \in H /\ id.updatetime \in H
        /\ \A u \in H : u <= id.updatetime
        /\ \A u \in H : id.firsttime <= u /\ u < id.updatetime =>
              \E v \in H : u < v /\ v - u < ActiveWithin
        /\ id.aquota > 0 => id.updatetime - id.firsttime > ProveFor

SteadyInv ==
  /\ now \in Nat /\ now >= Start
  /\ DOMAIN mapalloq = Keys /\ DOMAIN handled = Keys
  /\ \A k \in Keys : DOMAIN mapalloq[k] = Procs /\ DOMAIN handled[k] = Procs
  /\ \A k \in Keys, p \in Procs :
       /\ SteadyInfo(mapalloq[k][p], handled[k][p])
       /\ handled[k][p] \subseteq 0 .. now

LEMMA NoInfoSteady == ASSUME NEW H PROVE SteadyInfo(NoInfo, H)
  BY NoInfoIsInfo DEF SteadyInfo, NoInfo

\* A report handled at t, the latest so far, and the quota it leads to.
LEMMA SeenSteady ==
  ASSUME NEW id, NEW t \in Nat, NEW H \in SUBSET (0 .. t), NEW q,
         t >= Start, SteadyInfo(id, H), ~ValidID(id, t) => q = 0
  PROVE  SteadyInfo(Seen(id, t, q), H \cup {t})
  <1> DEFINE s == Seen(id, t, q)
  <1>1. s.updatetime = t /\ s.aquota = q /\ IsInfo(s)
    BY InfoSeen DEF SteadyInfo, Seen
  <1>2. id.updatetime \in Nat /\ id.firsttime \in Nat
    BY DEF SteadyInfo, IsInfo
  <1>3. ASSUME ~Steady(id, t) PROVE SteadyInfo(s, H \cup {t})
    <2>1. s.firsttime = t
      BY <1>3 DEF Seen
    <2>2. q = 0
      BY <1>3 DEF ValidID
    <2> HIDE DEF s
    <2> QED
      BY <1>1, <2>1, <2>2 DEF SteadyInfo
  <1>4. ASSUME Steady(id, t) PROVE SteadyInfo(s, H \cup {t})
    <2>1. s.firsttime = id.firsttime
      BY <1>4 DEF Seen
    <2>2. id.updatetime # 0 /\ t - id.updatetime < ActiveWithin
      BY <1>2, <1>4, ServerAssumption DEF Steady
    <2>3. /\ id.firsttime \in H /\ id.updatetime \in H
          /\ \A u \in H : u <= id.updatetime
          /\ \A u \in H : id.firsttime <= u /\ u < id.updatetime =>
                \E v \in H : u < v /\ v - u < ActiveWithin
      BY <2>2 DEF SteadyInfo
    <2>4. q > 0 => t - id.firsttime > ProveFor
      BY DEF ValidID
    <2>5. ASSUME NEW u \in H \cup {t}, id.firsttime <= u, u < t
          PROVE  \E v \in H \cup {t} : u < v /\ v - u < ActiveWithin
      <3>1. u \in H /\ u \in Nat /\ u <= id.updatetime
        BY <2>3, <2>5
      <3>2. CASE u < id.updatetime
        BY <2>3, <2>5, <3>1, <3>2
      <3>3. CASE u = id.updatetime
        BY <2>2, <2>5, <3>3
      <3> QED
        BY <1>2, <3>1, <3>2, <3>3
    <2>6. \A u \in H \cup {t} : u <= t
      OBVIOUS
    <2> HIDE DEF s
    <2> QED
      BY <1>1, <2>1, <2>3, <2>4, <2>5, <2>6 DEF SteadyInfo
  <1> QED
    BY <1>3, <1>4

LEMMA NoQuotaUnlessValid ==
  ASSUME NEW k, NEW p, NEW valid, ~valid PROVE Quota(k, p, valid) = 0
  BY DEF Quota

LEMMA SteadyInit == Init => SteadyInv
  <1> SUFFICES ASSUME Init PROVE SteadyInv
    OBVIOUS
  <1>1. mapalloq = [k \in Keys |-> [p \in Procs |-> NoInfo]]
        /\ handled = [k \in Keys |-> [p \in Procs |-> {}]]
        /\ now = Start
    BY DEF Init
  <1> QED
    BY <1>1, NoInfoSteady, ServerAssumption DEF SteadyInv

LEMMA QuerySteady ==
  ASSUME SteadyInv, NEW m \in net, Query(m) PROVE SteadyInv'
  <1> DEFINE ids  == Cleaned(mapalloq[m.key], m.proc)
             q    == Quota(m.key, m.proc, ValidID(ids[m.proc], now))
             info == Seen(ids[m.proc], now, q)
  <1>1. /\ now' = now
        /\ mapalloq' = [mapalloq EXCEPT ![m.key] = [ids EXCEPT ![m.proc] = info]]
        /\ handled' = [handled EXCEPT ![m.key][m.proc] = @ \cup {now}]
    BY DEF Query, Allocate, Remember
  <1>2. now \in Nat /\ now >= Start
    BY DEF SteadyInv
  <1>3. /\ DOMAIN mapalloq = Keys /\ DOMAIN handled = Keys
        /\ \A k \in Keys : DOMAIN mapalloq[k] = Procs /\ DOMAIN handled[k] = Procs
        /\ DOMAIN ids = Procs
    BY DEF SteadyInv, Cleaned
  <1>4. ASSUME NEW r \in Procs, m.key \in Keys
        PROVE  SteadyInfo(ids[r], handled[m.key][r])
    <2>1. ids[r] = NoInfo \/ ids[r] = mapalloq[m.key][r]
      BY DEF Cleaned
    <2> QED
      BY <1>4, <2>1, NoInfoSteady DEF SteadyInv
  <1>5. ASSUME m.key \in Keys, m.proc \in Procs
        PROVE  SteadyInfo(info, handled[m.key][m.proc] \cup {now})
    <2>1. SteadyInfo(ids[m.proc], handled[m.key][m.proc])
      BY <1>4, <1>5
    <2>2. handled[m.key][m.proc] \in SUBSET (0 .. now)
      BY <1>5 DEF SteadyInv
    <2>3. ~ValidID(ids[m.proc], now) => q = 0
      BY NoQuotaUnlessValid
    <2> HIDE DEF ids, q
    <2> QED
      BY <1>2, <2>1, <2>2, <2>3, SeenSteady
  <1> HIDE DEF ids, info
  <1>6. ASSUME NEW k \in Keys, NEW p \in Procs
        PROVE  /\ SteadyInfo(mapalloq'[k][p], handled'[k][p])
               /\ handled'[k][p] \subseteq 0 .. now
    <2>1. handled[k][p] \subseteq 0 .. now
          /\ SteadyInfo(mapalloq[k][p], handled[k][p])
      BY DEF SteadyInv
    <2>2. CASE k = m.key /\ p = m.proc
      <3>1. mapalloq'[k][p] = info /\ handled'[k][p] = handled[k][p] \cup {now}
        BY <1>1, <1>3, <2>2
      <3> QED
        BY <1>2, <1>5, <2>1, <2>2, <3>1
    <2>3. CASE k = m.key /\ p # m.proc
      <3>1. mapalloq'[k][p] = ids[p] /\ handled'[k][p] = handled[k][p]
        BY <1>1, <1>3, <2>3
      <3> QED
        BY <1>4, <2>1, <2>3, <3>1
    <2>4. CASE k # m.key
      <3>1. mapalloq'[k][p] = mapalloq[k][p] /\ handled'[k][p] = handled[k][p]
        BY <1>1, <1>3, <2>4
      <3> QED
        BY <2>1, <3>1
    <2> QED
      BY <2>2, <2>3, <2>4
  <1>7. /\ DOMAIN mapalloq' = Keys /\ DOMAIN handled' = Keys
        /\ \A k \in Keys : DOMAIN mapalloq'[k] = Procs /\ DOMAIN handled'[k] = Procs
    BY <1>1, <1>3
  <1> QED
    BY <1>1, <1>2, <1>6, <1>7 DEF SteadyInv

LEMMA ClearKeepsSteady == ASSUME SteadyInv, ClearData PROVE SteadyInv'
  <1>1. /\ now' = now /\ handled' = handled
        /\ mapalloq' = [k \in Keys |-> IF now - updatetime[k] > Expire
                                       THEN [p \in Procs |-> NoInfo]
                                       ELSE mapalloq[k]]
    BY DEF ClearData
  <1>2. ASSUME NEW k \in Keys, NEW p \in Procs
        PROVE  SteadyInfo(mapalloq'[k][p], handled[k][p])
    <2>1. mapalloq'[k][p] = NoInfo \/ mapalloq'[k][p] = mapalloq[k][p]
      BY <1>1
    <2> QED
      BY <2>1, NoInfoSteady DEF SteadyInv
  <1>3. DOMAIN mapalloq' = Keys /\ \A k \in Keys : DOMAIN mapalloq'[k] = Procs
    BY <1>1 DEF SteadyInv
  <1> QED
    BY <1>1, <1>2, <1>3 DEF SteadyInv

LEMMA SteadyNext == SteadyInv /\ [Next]_vars => SteadyInv'
  <1> SUFFICES ASSUME SteadyInv, [Next]_vars PROVE SteadyInv'
    OBVIOUS
  <1>1. CASE UNCHANGED <<mapalloq, handled>> /\ now' \in {now, now + 1}
    <2>1. now \in Nat /\ now' \in Nat /\ now' >= now /\ now' >= Start
      BY <1>1, ServerAssumption DEF SteadyInv
    <2>2. \A k \in Keys, p \in Procs : handled[k][p] \subseteq 0 .. now'
      BY <2>1 DEF SteadyInv
    <2> QED
      BY <1>1, <2>1, <2>2 DEF SteadyInv
  <1>2. CASE ClearData
    BY <1>2, ClearKeepsSteady
  <1>3. CASE \E m \in net : Query(m)
    BY <1>3, QuerySteady
  <1>4. \/ UNCHANGED <<mapalloq, handled>> /\ now' \in {now, now + 1}
        \/ ClearData
        \/ \E m \in net : Query(m)
    BY DEF Next, Report, Restart, Lose, SetAnswered, SetFails, Tick, vars, alloc,
           history
  <1> QED
    BY <1>1, <1>2, <1>3, <1>4

\* Only a processor that has reported without a gap for longer than ProveFor
\* has a quota (ValidID, ServiceQua.cpp, 406-424).
THEOREM QuotaForSteadyOnly == Spec => []QuotaOnlyToSteady
  <1>1. SteadyInv => QuotaOnlyToSteady
    <2> SUFFICES ASSUME SteadyInv, NEW k \in Keys, NEW p \in Procs,
                        mapalloq[k][p].aquota > 0
                 PROVE  \E t \in handled[k][p] :
                          /\ mapalloq[k][p].updatetime - t > ProveFor
                          /\ \A u \in handled[k][p] :
                               t <= u /\ u < mapalloq[k][p].updatetime =>
                                 \E v \in handled[k][p] :
                                   u < v /\ v - u < ActiveWithin
      BY DEF QuotaOnlyToSteady
    <2>1. SteadyInfo(mapalloq[k][p], handled[k][p])
      BY DEF SteadyInv
    <2>2. mapalloq[k][p].aquota # 0
      OBVIOUS
    <2> QED
      BY <2>1, <2>2 DEF SteadyInfo
  <1> QED
    BY <1>1, SteadyInit, SteadyNext, PTL DEF Spec

-----------------------------------------------------------------------------
\* The sums of the slots.

Amounts == [sum : Nat, refuse : Nat, setrefuse : Nat]
Items == [timekey : Nat, sum : Nat, refuse : Nat, setrefuse : Nat]
Reports == [num : Nat, key : Keys, proc : Procs, items : [Slots -> Items],
            again : BOOLEAN]

\* The sums of a key are only known not to be less than what was reported.
Totals == [timekey : Nat, sum : Int, refuse : Int, setrefuse : Int]

SumsType ==
  /\ now \in Nat /\ Start <= now /\ now <= MaxTime
  /\ timesum \in [Keys -> [Procs -> [Slots -> Items]]]
  /\ sent \in Nat
  /\ net \subseteq Reports
  /\ titem \in [Keys -> [Slots -> Totals]]
  /\ mapidnum \in [Keys -> [Slots -> [Procs -> Amounts]]]

\* What the processors reported last of a slot.
SumOf(map) == SumFunctionOnSet([p \in Procs |-> map[p].sum], Procs)
RefuseOf(map) == SumFunctionOnSet([p \in Procs |-> map[p].refuse], Procs)

Covers(slot, map) == slot.sum >= SumOf(map) /\ slot.refuse >= RefuseOf(map)

SumsInv ==
  /\ SumsType
  /\ \A k \in Keys, i \in Slots :
       /\ Covers(titem[k][i], mapidnum[k][i])
       /\ <<k, i>> \notin shrunk => titem[k][i].sum = SumOf(mapidnum[k][i])

LEMMA SumOfType ==
  ASSUME NEW map \in [Procs -> Amounts]
  PROVE  SumOf(map) \in Nat /\ RefuseOf(map) \in Nat
<1> DEFINE f == [p \in Procs |-> map[p].sum]
           g == [p \in Procs |-> map[p].refuse]
<1>1. IsFiniteSet(Procs)  BY ServerAssumption
<1>2. \A p \in Procs : f[p] \in Nat /\ g[p] \in Nat  BY DEF Amounts
<1>3. SumFunctionOnSet(f, Procs) \in Nat /\ SumFunctionOnSet(g, Procs) \in Nat
  <2> HIDE DEF f, g
  <2> QED BY <1>1, <1>2, SumNat
<1> QED BY <1>3 DEF SumOf, RefuseOf

LEMMA SumOfNothing ==
  SumOf([p \in Procs |-> NoData]) = 0 /\ RefuseOf([p \in Procs |-> NoData]) = 0
<1> DEFINE map == [p \in Procs |-> NoData]
           f == [p \in Procs |-> map[p].sum]
           g == [p \in Procs |-> map[p].refuse]
<1>1. IsFiniteSet(Procs)  BY ServerAssumption
<1>2. \A p \in Procs : f[p] = 0 /\ g[p] = 0  BY DEF NoData
<1>3. SumFunctionOnSet(f, Procs) = 0 /\ SumFunctionOnSet(g, Procs) = 0
  <2> HIDE DEF f, g
  <2> QED BY <1>1, <1>2, SumZero
<1> QED BY <1>3 DEF SumOf, RefuseOf

\* One processor reports anew.
LEMMA SumOfChanged ==
  ASSUME NEW map \in [Procs -> Amounts], NEW p \in Procs, NEW d \in Amounts
  PROVE  LET map2 == [map EXCEPT ![p] = d]
         IN  /\ SumOf(map2) = (SumOf(map) - map[p].sum) + d.sum
             /\ RefuseOf(map2) = (RefuseOf(map) - map[p].refuse) + d.refuse
<1> DEFINE map2 == [map EXCEPT ![p] = d]
           f == [q \in Procs |-> map[q].sum]
           g == [q \in Procs |-> map[q].refuse]
           f2 == [q \in Procs |-> map2[q].sum]
           g2 == [q \in Procs |-> map2[q].refuse]
<1>1. IsFiniteSet(Procs)  BY ServerAssumption
<1>2. \A q \in Procs : f[q] \in Int /\ g[q] \in Int /\ f2[q] \in Int /\ g2[q] \in Int
  BY DEF Amounts
<1>3. \A q \in Procs \ {p} : f2[q] = f[q] /\ g2[q] = g[q]  OBVIOUS
<1>4. f[p] = map[p].sum /\ g[p] = map[p].refuse /\ f2[p] = d.sum /\ g2[p] = d.refuse
  OBVIOUS
<1>5. /\ SumFunctionOnSet(f2, Procs) = (SumFunctionOnSet(f, Procs) - f[p]) + f2[p]
      /\ SumFunctionOnSet(g2, Procs) = (SumFunctionOnSet(g, Procs) - g[p]) + g2[p]
  <2> HIDE DEF f, g, f2, g2
  <2> QED BY <1>1, <1>2, <1>3, SumChanged
<1> QED BY <1>4, <1>5 DEF SumOf, RefuseOf

LEMMA TotalsChanged ==
  ASSUME NEW s \in Totals, NEW x \in Int, NEW y \in Int, NEW z \in Int
  PROVE  [s EXCEPT !.sum = x, !.refuse = y, !.setrefuse = z] \in Totals
BY DEF Totals

LEMMA PlusMinus ==
  ASSUME NEW s \in Totals, NEW d,
         d.sum \in Int, d.refuse \in Int, d.setrefuse \in Int
  PROVE  /\ Plus(s, d) \in Totals
         /\ Plus(s, d).sum = s.sum + d.sum
         /\ Plus(s, d).refuse = s.refuse + d.refuse
         /\ Plus(s, d).timekey = s.timekey
         /\ Minus(s, d) \in Totals
         /\ Minus(s, d).sum = s.sum - d.sum
         /\ Minus(s, d).refuse = s.refuse - d.refuse
         /\ Minus(s, d).timekey = s.timekey
<1>1. /\ s.sum + d.sum \in Int /\ s.refuse + d.refuse \in Int
      /\ s.setrefuse + d.setrefuse \in Int
      /\ s.sum - d.sum \in Int /\ s.refuse - d.refuse \in Int
      /\ s.setrefuse - d.setrefuse \in Int
  BY DEF Totals
<1>2. Plus(s, d) \in Totals  BY <1>1, TotalsChanged DEF Plus
<1>3. Minus(s, d) \in Totals  BY <1>1, TotalsChanged DEF Minus
<1>4. /\ Plus(s, d).sum = s.sum + d.sum
      /\ Plus(s, d).refuse = s.refuse + d.refuse
      /\ Plus(s, d).timekey = s.timekey
  BY DEF Plus, Totals
<1>5. /\ Minus(s, d).sum = s.sum - d.sum
      /\ Minus(s, d).refuse = s.refuse - d.refuse
      /\ Minus(s, d).timekey = s.timekey
  BY DEF Minus, Totals
<1> QED BY <1>2, <1>3, <1>4, <1>5

LEMMA DataType == ASSUME NEW item \in Items PROVE Data(item) \in Amounts
BY DEF Data, Items, Amounts

\* A report of a slot that says something, and what the slot then has.
LEMMA AddedCovers ==
  ASSUME NEW map \in [Procs -> Amounts], NEW slot \in Totals, NEW p \in Procs,
         NEW item \in Items, Told(item), Covers(slot, map)
  PROVE  LET slot2 == Added(slot, map[p], item)
             map2  == Remembered(map, slot, p, item)
         IN  /\ slot2 \in Totals
             /\ map2 \in [Procs -> Amounts]
             /\ Covers(slot2, map2)
             /\ Newer(slot, item) => slot2.sum = SumOf(map2)
             /\ slot.sum = SumOf(map)
                  /\ ~(item.timekey = slot.timekey /\ item.sum < map[p].sum)
                => slot2.sum = SumOf(map2)
<1> DEFINE slot2 == Added(slot, map[p], item)
           map2  == Remembered(map, slot, p, item)
           last  == map[p]
           map3  == [map EXCEPT ![p] = Data(item)]
<1>1. /\ Data(item) \in Amounts /\ Data(item).sum = item.sum
      /\ Data(item).refuse = item.refuse
      /\ item \in Totals /\ last \in Amounts
      /\ item.setrefuse \in Int /\ last.setrefuse \in Int
      /\ map3 \in [Procs -> Amounts]
      /\ item.timekey \in Nat /\ slot.timekey \in Nat
  <2>1. Data(item) \in Amounts  BY DataType
  <2> QED BY <2>1 DEF Data, Items, Totals, Amounts
<1>2. /\ item.sum \in Nat /\ item.refuse \in Nat /\ last.sum \in Nat /\ last.refuse \in Nat
      /\ slot.sum \in Int /\ slot.refuse \in Int
      /\ SumOf(map) \in Nat /\ RefuseOf(map) \in Nat
      /\ slot.sum >= SumOf(map) /\ slot.refuse >= RefuseOf(map)
  <2>1. SumOf(map) \in Nat /\ RefuseOf(map) \in Nat  BY SumOfType
  <2> QED BY <1>1, <2>1 DEF Items, Amounts, Totals, Covers
<1>3. CASE Newer(slot, item)
  <2> DEFINE none == [q \in Procs |-> NoData]
             only == [none EXCEPT ![p] = Data(item)]
  <2>1. slot2 = item  BY <1>3 DEF Added
  <2>2. map2 = only  BY <1>3 DEF Remembered
  <2>3. none \in [Procs -> Amounts] /\ none[p].sum = 0 /\ none[p].refuse = 0
    BY DEF NoData, Amounts
  <2>4. SumOf(none) = 0 /\ RefuseOf(none) = 0  BY SumOfNothing
  <2>5. only \in [Procs -> Amounts]  BY <1>1, <2>3
  <2>6. /\ SumOf(only) = (SumOf(none) - none[p].sum) + Data(item).sum
        /\ RefuseOf(only) = (RefuseOf(none) - none[p].refuse) + Data(item).refuse
    <3>1. Data(item) \in Amounts  BY ONLY <1>1
    <3> HIDE DEF none
    <3> QED BY ONLY <2>3, <3>1, p \in Procs, SumOfChanged
  <2>7. SumOf(only) = item.sum /\ RefuseOf(only) = item.refuse
    BY <1>1, <1>2, <2>3, <2>4, <2>6
  <2> HIDE DEF only, none, slot2, map2
  <2> QED BY <1>1, <1>2, <2>1, <2>2, <2>5, <2>7 DEF Covers, slot2, map2
<1>4. CASE ~Newer(slot, item) /\ item.timekey < slot.timekey
  <2>1. slot2 = slot /\ map2 = map  BY <1>4 DEF Added, Remembered
  <2> HIDE DEF slot2, map2
  <2> QED BY <1>4, <2>1 DEF slot2, map2
<1>5. CASE ~Newer(slot, item) /\ item.timekey = slot.timekey
  <2>1. map2 = map3  BY <1>1, <1>5 DEF Remembered
  <2>2. /\ SumOf(map3) = (SumOf(map) - last.sum) + item.sum
        /\ RefuseOf(map3) = (RefuseOf(map) - last.refuse) + item.refuse
    <3>1. LET d == Data(item)
              m == [map EXCEPT ![p] = d]
          IN  /\ SumOf(m) = (SumOf(map) - map[p].sum) + d.sum
              /\ RefuseOf(m) = (RefuseOf(map) - map[p].refuse) + d.refuse
      BY <1>1, SumOfChanged
    <3> QED BY <1>1, <3>1
  <2>3. slot2 = IF IsReset(last, item) THEN Plus(slot, item)
                ELSE Plus(Minus(slot, last), item)
    BY <1>1, <1>5 DEF Added
  <2>4. CASE IsReset(last, item)
    <3>1. slot2 \in Totals /\ slot2.sum = slot.sum + item.sum
          /\ slot2.refuse = slot.refuse + item.refuse
      BY <1>1, <1>2, <2>3, <2>4, PlusMinus
    <3>2. last.sum = 0 \/ item.sum < last.sum  BY <2>4 DEF IsReset
    <3> HIDE DEF slot2, map2, map3, last
    <3>3. Covers(slot2, map2)  BY <1>2, <2>1, <2>2, <3>1 DEF Covers
    <3>4. slot.sum = SumOf(map) /\ ~(item.sum < last.sum) => slot2.sum = SumOf(map2)
      BY <1>2, <2>1, <2>2, <3>1, <3>2
    <3> QED BY <1>1, <1>5, <2>1, <3>1, <3>3, <3>4 DEF slot2, map2, last
  <2>5. CASE ~IsReset(last, item)
    <3> DEFINE less == Minus(slot, last)
    <3> HIDE DEF last
    <3>1. less \in Totals /\ less.sum = slot.sum - last.sum
          /\ less.refuse = slot.refuse - last.refuse
      BY <1>1, <1>2, PlusMinus
    <3>2. slot2 = Plus(less, item)  BY <2>3, <2>5
    <3> HIDE DEF less, slot2
    <3>3. slot2 \in Totals /\ slot2.sum = less.sum + item.sum
          /\ slot2.refuse = less.refuse + item.refuse
      <4>1. item.sum \in Int /\ item.refuse \in Int /\ item.setrefuse \in Int
        BY <1>1, <1>2
      <4> QED BY ONLY <4>1, <3>1, <3>2, PlusMinus
    <3>4. slot2.sum = (slot.sum - last.sum) + item.sum
          /\ slot2.refuse = (slot.refuse - last.refuse) + item.refuse
      BY <3>1, <3>3
    <3> HIDE DEF map2, map3
    <3>5. Covers(slot2, map2)  BY <1>2, <2>1, <2>2, <3>4 DEF Covers
    <3>6. slot.sum = SumOf(map) => slot2.sum = SumOf(map2)
      BY <1>2, <2>1, <2>2, <3>4
    <3> QED BY <1>1, <1>5, <2>1, <3>3, <3>5, <3>6 DEF slot2, map2
  <2> QED BY <2>4, <2>5
<1>6. Newer(slot, item) \/ item.timekey < slot.timekey \/ item.timekey = slot.timekey
  BY <1>1 DEF Newer
<1> QED BY <1>3, <1>4, <1>5, <1>6

-----------------------------------------------------------------------------
LEMMA Positions ==
  ASSUME NEW t \in Nat
  PROVE  SlotIndex(t) \in Slots /\ TimeKey(t) \in Nat
BY SlotIndexInRing, TimeKeyBounds

LEMMA SumsInit == Init => SumsInv
<1> SUFFICES ASSUME Init PROVE SumsInv  OBVIOUS
<1>1. NoRing \in [Slots -> Items] /\ NoRing \in [Slots -> Totals] /\ NoData \in Amounts
  BY DEF NoRing, NoSlot, Items, Totals, NoData, Amounts
<1>2. now \in Nat /\ Start <= now /\ now <= MaxTime  BY ServerAssumption DEF Init
<1>3. SumsType  BY <1>1, <1>2 DEF Init, SumsType
<1>4. ASSUME NEW k \in Keys, NEW i \in Slots
      PROVE  Covers(titem[k][i], mapidnum[k][i])
             /\ titem[k][i].sum = SumOf(mapidnum[k][i])
  <2>1. titem[k][i] = NoSlot /\ mapidnum[k][i] = [p \in Procs |-> NoData]
    BY DEF Init, NoRing
  <2>2. NoSlot.sum = 0 /\ NoSlot.refuse = 0  BY DEF NoSlot
  <2> QED BY <2>1, <2>2, SumOfNothing DEF Covers
<1> QED BY <1>3, <1>4 DEF SumsInv

LEMMA ReportSums ==
  ASSUME SumsInv, NEW k \in Keys, NEW p \in Procs, NEW b \in Batches, Report(k, p, b)
  PROVE  SumsInv'
<1> DEFINE j == SlotIndex(now)
           old == timesum[k][p][j]
           from == IF old.timekey = TimeKey(now) THEN old ELSE NoSlot
           item == [timekey |-> TimeKey(now), sum |-> from.sum + b.sum,
                    refuse |-> from.refuse + b.refuse,
                    setrefuse |-> from.setrefuse + b.setrefuse]
           m == [num |-> sent + 1, key |-> k, proc |-> p,
                 items |-> timesum'[k][p], again |-> TRUE]
<1>1. /\ timesum' = [timesum EXCEPT ![k][p][j] = item]
      /\ net' = net \cup {m} /\ sent' = sent + 1
      /\ UNCHANGED <<now, titem, mapidnum, shrunk>>
  BY DEF Report, stats
<1>2. SumsType  BY DEF SumsInv
<1>3. j \in Slots /\ TimeKey(now) \in Nat  BY <1>2, Positions DEF SumsType
<1>4. item \in Items
  <2>1. old \in Items /\ NoSlot \in Items
    BY <1>2, <1>3 DEF SumsType, NoSlot, Items
  <2>2. from.sum \in Nat /\ from.refuse \in Nat /\ from.setrefuse \in Nat
    BY <2>1 DEF Items
  <2>3. b.sum \in Nat /\ b.refuse \in Nat /\ b.setrefuse \in Nat
    BY ServerAssumption
  <2> HIDE DEF from
  <2> QED BY <1>3, <2>2, <2>3 DEF Items
<1> HIDE DEF item, j
<1>5. timesum' \in [Keys -> [Procs -> [Slots -> Items]]]
  BY <1>1, <1>2, <1>3, <1>4 DEF SumsType
<1>6. m \in Reports
  <2>1. timesum'[k][p] \in [Slots -> Items] /\ sent + 1 \in Nat
    BY <1>2, <1>5 DEF SumsType
  <2> QED BY <2>1 DEF Reports
<1> HIDE DEF m
<1>7. SumsType'  BY <1>1, <1>2, <1>5, <1>6 DEF SumsType
<1> QED BY <1>1, <1>7 DEF SumsInv

LEMMA QuerySums ==
  ASSUME SumsInv, NEW m \in net, Query(m)
  PROVE  SumsInv'
<1> DEFINE k == m.key
           p == m.proc
           slot(i) == titem[k][i]
           map(i) == mapidnum[k][i]
           last(i) == map(i)[p]
           ring == [i \in Slots |-> IF Told(m.items[i])
                                    THEN Added(slot(i), last(i), m.items[i])
                                    ELSE slot(i)]
           maps == [i \in Slots |-> IF Told(m.items[i])
                                    THEN Remembered(map(i), slot(i), p, m.items[i])
                                    ELSE map(i)]
           rolled  == {i \in Slots : Told(m.items[i]) /\ Newer(slot(i), m.items[i])}
           smaller == {i \in Slots : /\ Told(m.items[i])
                                     /\ m.items[i].timekey = slot(i).timekey
                                     /\ m.items[i].sum < last(i).sum}
<1>0. SumsType  BY DEF SumsInv
<1>1. m \in Reports /\ k \in Keys /\ p \in Procs /\ m.items \in [Slots -> Items]
  BY <1>0 DEF SumsType, Reports
<1>2. /\ titem' = [titem EXCEPT ![k] = ring]
      /\ mapidnum' = [mapidnum EXCEPT ![k] = maps]
  <2>1. titem' = [titem EXCEPT ![k] = [i \in Slots |->
                    IF Told(m.items[i])
                    THEN Added(titem[k][i], mapidnum[k][i][p], m.items[i])
                    ELSE titem[k][i]]]
    BY <1>0, <1>1 DEF Query, AddReport, SumsType
  <2>2. mapidnum' = [mapidnum EXCEPT ![k] = [i \in Slots |->
                    IF Told(m.items[i])
                    THEN Remembered(mapidnum[k][i], titem[k][i], p, m.items[i])
                    ELSE mapidnum[k][i]]]
    BY <1>0, <1>1 DEF Query, AddReport, SumsType
  <2> QED BY <2>1, <2>2
<1>3. shrunk' = (shrunk \ {<<k, i>> : i \in rolled}) \cup {<<k, i>> : i \in smaller}
  BY DEF Query, Remember
<1>4. UNCHANGED <<now, timesum, sent>> /\ net' \subseteq Reports
  <2>1. UNCHANGED <<now, timesum, sent>>  BY DEF Query
  <2>2. [m EXCEPT !.again = FALSE] \in Reports  BY <1>1 DEF Reports
  <2>3. net' \subseteq net \cup {[m EXCEPT !.again = FALSE]}  BY DEF Query
  <2> QED BY <1>0, <2>1, <2>2, <2>3 DEF SumsType
<1>5. ASSUME NEW i \in Slots
      PROVE  /\ ring[i] \in Totals /\ maps[i] \in [Procs -> Amounts]
             /\ Covers(ring[i], maps[i])
             /\ <<k, i>> \notin shrunk' => ring[i].sum = SumOf(maps[i])
  <2>1. /\ slot(i) \in Totals /\ map(i) \in [Procs -> Amounts] /\ m.items[i] \in Items
        /\ Covers(slot(i), map(i))
        /\ <<k, i>> \notin shrunk => slot(i).sum = SumOf(map(i))
    BY <1>0, <1>1 DEF SumsInv, SumsType
  <2>2. CASE ~Told(m.items[i])
    <3>1. ring[i] = slot(i) /\ maps[i] = map(i) /\ i \notin rolled  BY <2>2
    <3>2. <<k, i>> \notin shrunk' => <<k, i>> \notin shrunk
      <4> HIDE DEF rolled, smaller, k
      <4> QED BY <1>3, <3>1
    <3> HIDE DEF ring, maps, slot, map
    <3> QED BY <2>1, <3>1, <3>2
  <2>3. CASE Told(m.items[i])
    <3> DEFINE s == slot(i)
               f == map(i)
               e == m.items[i]
               s2 == Added(s, f[p], e)
               f2 == Remembered(f, s, p, e)
    <3>1. ring[i] = s2 /\ maps[i] = f2  BY <2>3
    <3>2. /\ s2 \in Totals /\ f2 \in [Procs -> Amounts] /\ Covers(s2, f2)
          /\ Newer(s, e) => s2.sum = SumOf(f2)
          /\ s.sum = SumOf(f) /\ ~(e.timekey = s.timekey /\ e.sum < f[p].sum)
               => s2.sum = SumOf(f2)
      <4>1. Told(e) /\ p \in Procs /\ Covers(s, f) /\ s \in Totals /\ e \in Items
            /\ f \in [Procs -> Amounts]
        BY <1>1, <2>1, <2>3
      <4> HIDE DEF s, f, e, p
      <4> QED BY <4>1, AddedCovers
    <3>3. <<k, i>> \notin shrunk' =>
            /\ <<k, i>> \notin shrunk \/ Newer(s, e)
            /\ ~(e.timekey = s.timekey /\ e.sum < f[p].sum)
      <4>1. i \in rolled <=> Newer(s, e)  BY <2>3
      <4>2. i \in smaller <=> e.timekey = s.timekey /\ e.sum < f[p].sum  BY <2>3
      <4> HIDE DEF rolled, smaller, k, s, e, f, p
      <4> QED BY <1>3, <4>1, <4>2
    <3>4. <<k, i>> \notin shrunk => s.sum = SumOf(f)  BY <2>1
    <3> HIDE DEF ring, maps, s, f, e, s2, f2
    <3> QED BY <3>1, <3>2, <3>3, <3>4
  <2> QED BY <2>2, <2>3
<1>6. ring \in [Slots -> Totals] /\ maps \in [Slots -> [Procs -> Amounts]]
  <2>1. ring = [i \in Slots |-> ring[i]] /\ maps = [i \in Slots |-> maps[i]]  OBVIOUS
  <2> HIDE DEF ring, maps
  <2> QED BY <1>5, <2>1
<1>7. \A l \in Keys, i \in Slots : l # k => (<<l, i>> \in shrunk' <=> <<l, i>> \in shrunk)
  <2> HIDE DEF rolled, smaller
  <2> QED BY <1>3
<1> HIDE DEF ring, maps, k, rolled, smaller
<1>8. SumsType'  BY <1>0, <1>1, <1>2, <1>4, <1>6 DEF SumsType
<1>9. ASSUME NEW l \in Keys, NEW i \in Slots
      PROVE  /\ Covers(titem'[l][i], mapidnum'[l][i])
             /\ <<l, i>> \notin shrunk' => titem'[l][i].sum = SumOf(mapidnum'[l][i])
  <2>1. CASE l = k
    <3>1. titem'[l] = ring /\ mapidnum'[l] = maps  BY <1>0, <1>1, <1>2, <2>1 DEF SumsType
    <3> QED BY <1>5, <2>1, <3>1
  <2>2. CASE l # k
    <3>1. titem'[l] = titem[l] /\ mapidnum'[l] = mapidnum[l]
      BY <1>0, <1>1, <1>2, <2>2 DEF SumsType
    <3>2. /\ Covers(titem[l][i], mapidnum[l][i])
          /\ <<l, i>> \notin shrunk => titem[l][i].sum = SumOf(mapidnum[l][i])
      BY DEF SumsInv
    <3> QED BY <1>7, <2>2, <3>1, <3>2
  <2> QED BY <2>1, <2>2
<1> QED BY <1>8, <1>9 DEF SumsInv

LEMMA ClearSums == ASSUME SumsInv, ClearData PROVE SumsInv'
<1> DEFINE old(k) == now - updatetime[k] > Expire
           none == [i \in Slots |-> [p \in Procs |-> NoData]]
<1>1. /\ titem' = [k \in Keys |-> IF old(k) THEN NoRing ELSE titem[k]]
      /\ mapidnum' = [k \in Keys |-> IF old(k) THEN none ELSE mapidnum[k]]
      /\ shrunk' = {s \in shrunk : ~old(s[1])}
      /\ UNCHANGED <<now, timesum, sent, net>>
  BY DEF ClearData, clients
<1>2. NoRing \in [Slots -> Totals] /\ none \in [Slots -> [Procs -> Amounts]]
  BY DEF NoRing, NoSlot, Totals, NoData, Amounts
<1>3. SumsType'
  <2> HIDE DEF none, old
  <2> QED BY <1>1, <1>2 DEF SumsInv, SumsType
<1>4. ASSUME NEW k \in Keys, NEW i \in Slots
      PROVE  /\ Covers(titem'[k][i], mapidnum'[k][i])
             /\ <<k, i>> \notin shrunk' => titem'[k][i].sum = SumOf(mapidnum'[k][i])
  <2>1. CASE old(k)
    <3>1. titem'[k][i] = NoSlot /\ mapidnum'[k][i] = [p \in Procs |-> NoData]
      BY <1>1, <2>1 DEF NoRing
    <3>2. NoSlot.sum = 0 /\ NoSlot.refuse = 0  BY DEF NoSlot
    <3> QED BY <3>1, <3>2, SumOfNothing DEF Covers
  <2>2. CASE ~old(k)
    <3>1. titem'[k] = titem[k] /\ mapidnum'[k] = mapidnum[k]  BY <1>1, <2>2
    <3>2. <<k, i>> \notin shrunk' => <<k, i>> \notin shrunk
      <4> HIDE DEF old
      <4> QED BY <1>1, <2>2
    <3>3. /\ Covers(titem[k][i], mapidnum[k][i])
          /\ <<k, i>> \notin shrunk => titem[k][i].sum = SumOf(mapidnum[k][i])
      BY DEF SumsInv
    <3> QED BY <3>1, <3>2, <3>3
  <2> QED BY <2>1, <2>2
<1> QED BY <1>3, <1>4 DEF SumsInv

LEMMA SumsNext == SumsInv /\ [Next]_vars => SumsInv'
<1> SUFFICES ASSUME SumsInv, [Next]_vars PROVE SumsInv'  OBVIOUS
<1>1. ASSUME UNCHANGED <<titem, mapidnum, shrunk, sent>>, net' \subseteq net,
             timesum' \in [Keys -> [Procs -> [Slots -> Items]]],
             now' = now \/ (now' = now + 1 /\ now < MaxTime)
      PROVE  SumsInv'
  <2>1. now' \in Nat /\ Start <= now' /\ now' <= MaxTime
    BY <1>1, ServerAssumption DEF SumsInv, SumsType
  <2> QED BY <1>1, <2>1 DEF SumsInv, SumsType
<1>2. timesum \in [Keys -> [Procs -> [Slots -> Items]]]  BY DEF SumsInv, SumsType
<1>3. ASSUME NEW k \in Keys, NEW p \in Procs, NEW b \in Batches, Report(k, p, b)
      PROVE  SumsInv'
  BY <1>3, ReportSums
<1>4. ASSUME NEW p \in Procs, Restart(p) PROVE SumsInv'
  <2>1. NoRing \in [Slots -> Items]  BY DEF NoRing, NoSlot, Items
  <2>2. timesum' = [k \in Keys |-> [timesum[k] EXCEPT ![p] = NoRing]]
    BY <1>4 DEF Restart
  <2>3. timesum' \in [Keys -> [Procs -> [Slots -> Items]]]  BY <1>2, <2>1, <2>2
  <2>4. UNCHANGED <<titem, mapidnum, shrunk, sent, net, now>>
    BY <1>4 DEF Restart, stats, history
  <2> QED BY <1>1, <2>3, <2>4
<1>5. ASSUME NEW m \in net, Lose(m) PROVE SumsInv'
  <2>1. UNCHANGED <<titem, mapidnum, shrunk, sent, now, timesum>> /\ net' \subseteq net
    BY <1>5 DEF Lose, stats, history
  <2> QED BY <1>1, <1>2, <2>1
<1>6. ASSUME NEW m \in net, Query(m) PROVE SumsInv'
  BY <1>6, QuerySums
<1>7. CASE ClearData  BY <1>7, ClearSums
<1>8. CASE Tick
  <2>1. UNCHANGED <<titem, mapidnum, shrunk, sent, net, timesum>>
        /\ now' = now + 1 /\ now < MaxTime
    BY <1>8 DEF Tick, clients, stats, history
  <2> QED BY <1>1, <1>2, <2>1
<1>9. CASE \E c \in calls : SetFails(c) \/ \E qs : SetAnswered(c, qs)
  <2>1. UNCHANGED <<titem, mapidnum, shrunk, sent, net, timesum, now>>
    BY <1>9 DEF SetFails, SetAnswered, clients, stats, history
  <2> QED BY <1>1, <1>2, <2>1
<1>10. CASE UNCHANGED vars
  <2>1. UNCHANGED <<titem, mapidnum, shrunk, sent, net, timesum, now>>
    BY <1>10 DEF vars, clients, stats, history
  <2> QED BY <1>1, <1>2, <2>1
<1> QED BY <1>3, <1>4, <1>5, <1>6, <1>7, <1>8, <1>9, <1>10 DEF Next

\* The sum of a slot is what its processors reported last of it, and never less:
\* only a smaller report, taken for a restart, makes it more
\* (ServiceQua.cpp, 1244-1276).
THEOREM SumsCoverReports == Spec => []ActSumsCover
<1>1. SumsInv => ActSumsCover
  BY DEF SumsInv, ActSumsCover, Covers, SumOf, RefuseOf, Reported, Refused
<1> QED BY <1>1, SumsInit, SumsNext, PTL DEF Spec

-----------------------------------------------------------------------------
\* A share is within the quota.

LEMMA OneOfSum ==
  ASSUME NEW map \in [Procs -> Amounts], NEW p \in Procs
  PROVE  map[p].sum \in Nat /\ map[p].sum <= SumOf(map)
<1> DEFINE f == [q \in Procs |-> map[q].sum]
           rest == SumFunctionOnSet(f, Procs \ {p})
<1>1. IsFiniteSet(Procs) /\ IsFiniteSet(Procs \ {p})
  BY ServerAssumption, FS_Subset
<1>2. \A q \in Procs : f[q] \in Nat  BY DEF Amounts
<1>3. f[p] = map[p].sum  OBVIOUS
<1>4. SumFunctionOnSet(f, Procs) = f[p] + rest /\ rest \in Nat
  <2> HIDE DEF f
  <2>1. \A q \in Procs : f[q] \in Int  BY <1>2
  <2>2. \A q \in Procs \ {p} : f[q] \in Nat  BY <1>2
  <2> QED BY <1>1, <2>1, <2>2, SumSplit, SumNat
<1>5. SumOf(map) = SumFunctionOnSet(f, Procs)  BY DEF SumOf
<1> HIDE DEF f, rest
<1> QED BY <1>2, <1>3, <1>4, <1>5

LEMMA PartOfQuota ==
  ASSUME NEW a \in Nat, NEW h \in Nat, NEW t \in Nat \ {0}, h <= t,
         NEW w \in Nat \ {0}
  PROVE  ((a * h) % w) \div t \in Nat /\ ((a * h) % w) \div t <= a
<1> DEFINE x == a * h
           y == x % w
           z == y \div t
<1>1. x \in Nat /\ x <= a * t
  <2>1. x \in Nat  BY Z3
  <2>2. a * h <= a * t  BY Z3
  <2> QED BY <2>1, <2>2
<1> HIDE DEF x
<1>2. y \in Nat /\ y <= x  BY <1>1, DivMod
<1> HIDE DEF y
<1>3. z \in Nat /\ y % t \in 0 .. t - 1 /\ y = z * t + (y % t)  BY <1>2, DivMod
<1> HIDE DEF z
<1>4. z * t \in Nat /\ a * t \in Nat  BY <1>3, Z3
<1>5. z * t <= a * t  BY <1>1, <1>2, <1>3, <1>4
<1>6. ~(z >= a + 1)
  <2>1. z >= a + 1 => z * t >= a * t + t  BY <1>3, Z3
  <2> QED BY <1>3, <1>4, <1>5, <2>1
<1> QED BY <1>3, <1>6 DEF x, y, z

LEMMA QuotaWithin ==
  ASSUME SumsInv', NEW k \in Keys, NEW p \in Procs, NEW valid
  PROVE  Quota(k, p, valid) \in Nat /\ Quota(k, p, valid) <= ActQuota
<1> DEFINE U == Usable(k, p)
           f == [i \in Slots |-> mapidnum'[k][i][p].sum]
           g == [i \in Slots |-> titem'[k][i].sum]
<1>1. /\ titem' \in [Keys -> [Slots -> Totals]]
      /\ mapidnum' \in [Keys -> [Slots -> [Procs -> Amounts]]]
      /\ \A i \in Slots : Covers(titem'[k][i], mapidnum'[k][i])
  BY DEF SumsInv, SumsType
<1>2. U \subseteq Slots /\ IsFiniteSet(U)
  <2>1. U \subseteq Slots  BY DEF Usable
  <2>2. IsFiniteSet(Slots)
    <3>1. 0 \in Int /\ NumPerMin - 1 \in Int  BY SlotAssumption
    <3> QED BY <3>1, FS_Interval DEF Slots
  <2> QED BY <2>1, <2>2, FS_Subset
<1>3. ASSUME NEW i \in Slots PROVE f[i] \in Nat /\ g[i] \in Nat /\ f[i] <= g[i]
  <2> DEFINE map == mapidnum'[k][i]
             slot == titem'[k][i]
  <2>1. map \in [Procs -> Amounts] /\ slot.sum \in Int /\ slot.sum >= SumOf(map)
    BY <1>1 DEF Totals, Covers
  <2>2. f[i] = map[p].sum /\ g[i] = slot.sum  OBVIOUS
  <2> HIDE DEF map, slot, f, g
  <2>3. map[p].sum \in Nat /\ map[p].sum <= SumOf(map) /\ SumOf(map) \in Nat
    BY <2>1, OneOfSum, SumOfType
  <2> QED BY <2>1, <2>2, <2>3
<1>4. /\ History(k, p) \in Nat /\ Total(k, p) \in Nat
      /\ History(k, p) <= Total(k, p)
  <2>1. History(k, p) = SumFunctionOnSet(f, U) /\ Total(k, p) = SumFunctionOnSet(g, U)
    BY DEF History, Total
  <2>2. \A i \in U : /\ f[i] \in Nat /\ g[i] \in Nat /\ f[i] \in Int /\ g[i] \in Int
                     /\ f[i] <= g[i]
    <3> HIDE DEF U, f, g
    <3> QED BY <1>2, <1>3
  <2> HIDE DEF U, f, g
  <2>3. SumFunctionOnSet(f, U) \in Nat /\ SumFunctionOnSet(g, U) \in Nat
    BY <1>2, <2>2, SumNat
  <2>4. SumFunctionOnSet(f, U) <= SumFunctionOnSet(g, U)
    BY <1>2, <2>2, SumLess
  <2> QED BY <2>1, <2>3, <2>4
<1>5. ActQuota \in Nat /\ AllocMin \in Nat /\ 2^Width \in Nat \ {0}
  BY ServerAssumption
<1>6. CASE Quota(k, p, valid) = 0  BY <1>5, <1>6
<1>7. CASE Quota(k, p, valid) # 0
  <2>1. /\ Total(k, p) > AllocMin
        /\ Quota(k, p, valid) = ((ActQuota * History(k, p)) % 2^Width) \div Total(k, p)
    BY <1>7 DEF Quota, Share
  <2>2. Total(k, p) \in Nat \ {0}  BY <1>4, <1>5, <2>1
  <2> HIDE DEF U, f, g
  <2> QED BY <1>4, <1>5, <2>1, <2>2, PartOfQuota
<1> QED BY <1>6, <1>7

ShareInv ==
  /\ SumsInv
  /\ DOMAIN mapalloq = Keys
  /\ \A k \in Keys : DOMAIN mapalloq[k] = Procs
  /\ \A k \in Keys, p \in Procs :
       mapalloq[k][p].aquota \in Nat /\ mapalloq[k][p].aquota <= ActQuota

LEMMA NoInfoShare == NoInfo.aquota \in Nat /\ NoInfo.aquota <= ActQuota
  BY ServerAssumption DEF NoInfo

LEMMA ShareInit == Init => ShareInv
  <1>1. Init => mapalloq = [k \in Keys |-> [p \in Procs |-> NoInfo]]
    BY DEF Init
  <1> QED
    BY <1>1, NoInfoShare, SumsInit DEF ShareInv

LEMMA QueryShare ==
  ASSUME ShareInv, NEW m \in net, Query(m)
  PROVE  ShareInv'
<1> DEFINE k == m.key
           p == m.proc
           ids == Cleaned(mapalloq[k], p)
           valid == ValidID(ids[p], now)
           q == Quota(k, p, valid)
           info == Seen(ids[p], now, q)
<1>1. SumsInv'  BY QuerySums DEF ShareInv
<1>2. k \in Keys /\ p \in Procs
  BY DEF ShareInv, SumsInv, SumsType, Reports
<1>3. mapalloq' = [mapalloq EXCEPT ![k] = [ids EXCEPT ![p] = info]]
  BY DEF Query, Allocate
<1>4. DOMAIN ids = Procs /\ \A r \in Procs : ids[r] = NoInfo \/ ids[r] = mapalloq[k][r]
  BY DEF Cleaned
<1>5. info.aquota \in Nat /\ info.aquota <= ActQuota
  <2>1. q \in Nat /\ q <= ActQuota
    <3> HIDE DEF k, p, valid
    <3> QED BY <1>1, <1>2, QuotaWithin
  <2>2. info.aquota = q  BY DEF Seen
  <2> HIDE DEF info, q
  <2> QED BY <2>1, <2>2
<1> HIDE DEF ids, info, k, p
<1>6. DOMAIN mapalloq' = Keys /\ \A l \in Keys : DOMAIN mapalloq'[l] = Procs
  BY <1>2, <1>3, <1>4 DEF ShareInv
<1>7. ASSUME NEW l \in Keys, NEW r \in Procs
      PROVE  mapalloq'[l][r].aquota \in Nat /\ mapalloq'[l][r].aquota <= ActQuota
  <2>1. \/ mapalloq'[l][r] = info \/ mapalloq'[l][r] = NoInfo
        \/ mapalloq'[l][r] = mapalloq[l][r]
    BY <1>2, <1>3, <1>4 DEF ShareInv
  <2> QED BY <1>5, <2>1, NoInfoShare DEF ShareInv
<1> QED BY <1>1, <1>6, <1>7 DEF ShareInv

LEMMA ShareNext == ShareInv /\ [Next]_vars => ShareInv'
<1> SUFFICES ASSUME ShareInv, [Next]_vars PROVE ShareInv'  OBVIOUS
<1>1. SumsInv'  BY SumsNext DEF ShareInv
<1>2. CASE \E m \in net : Query(m)  BY <1>2, QueryShare
<1>3. CASE ClearData
  <2>1. mapalloq' = [k \in Keys |-> IF now - updatetime[k] > Expire
                                    THEN [p \in Procs |-> NoInfo] ELSE mapalloq[k]]
    BY <1>3 DEF ClearData
  <2>2. DOMAIN mapalloq' = Keys /\ \A k \in Keys : DOMAIN mapalloq'[k] = Procs
    BY <2>1 DEF ShareInv
  <2>3. \A k \in Keys, p \in Procs :
          mapalloq'[k][p] = NoInfo \/ mapalloq'[k][p] = mapalloq[k][p]
    BY <2>1
  <2> QED BY <1>1, <2>2, <2>3, NoInfoShare DEF ShareInv
<1>4. CASE mapalloq' = mapalloq  BY <1>1, <1>4 DEF ShareInv
<1>5. (\E m \in net : Query(m)) \/ ClearData \/ mapalloq' = mapalloq
  BY DEF Next, Report, Restart, Lose, SetAnswered, SetFails, Tick, vars, alloc
<1> QED BY <1>2, <1>3, <1>4, <1>5

\* A processor never gets more than the whole quota of the key, also when the
\* product of its share wraps (ServiceQua.cpp, 1315-1359).
THEOREM ShareNeverAboveQuota == Spec => []ShareWithinQuota
<1>1. ShareInv => ShareWithinQuota  BY DEF ShareInv, ShareWithinQuota
<1> QED BY <1>1, ShareInit, ShareNext, PTL DEF Spec

-----------------------------------------------------------------------------
\* Nothing is counted twice.

Times == {TimeKey(s) : s \in Start .. MaxTime}

\* What a slot says of the time t; and what a report that says b of it adds
\* to a sum that has a of its processor.
At(item, t) == IF item.timekey = t THEN item.sum ELSE 0
Gain(a, b) == IF b < a THEN b ELSE b - a

TimesInv ==
  /\ SumsType
  /\ \A k \in Keys, p \in Procs, i \in Slots : timesum[k][p][i].timekey \in {0} \cup Times
  /\ \A m \in net, i \in Slots : m.items[i].timekey \in {0} \cup Times
  /\ \A k \in Keys, i \in Slots : titem[k][i].timekey \in {0} \cup Times
  /\ \A m \in net : m.num <= sent
  /\ truth \in [Keys -> [Times -> Nat]]
  /\ newest \in [Keys -> [Procs -> Nat]]

\* A ledger of requests: c[k][p][t], those of the time t that the processor p
\* has counted for k in all its lives; h[n][t], those it had counted when it
\* sent the report n; and con[k][i][p], those of the slot i that the server has
\* counted for it.
CountedAll(c) ==
  \A k \in Keys, t \in Times :
    truth[k][t] = SumFunctionOnSet([p \in Procs |-> c[k][p][t]], Procs)

RingsCounted(c) ==
  \A k \in Keys, p \in Procs, i \in Slots, t \in Times :
    At(timesum[k][p][i], t) <= c[k][p][t]

\* A report has no more than was counted when it was sent, and what its
\* processor would add to it now has been counted since.
SentCounted(c, h) ==
  \A m \in net, i \in Slots, t \in Times :
    /\ At(m.items[i], t) <= h[m.num][t]
    /\ h[m.num][t] + Gain(At(m.items[i], t), At(timesum[m.key][m.proc][i], t))
         <= c[m.key][m.proc][t]

\* What a later report adds to an earlier has been counted in between.
SentInOrder(h) ==
  \A a \in net, b \in net, i \in Slots, t \in Times :
    a.key = b.key /\ a.proc = b.proc /\ a.num <= b.num =>
      h[a.num][t] + Gain(At(a.items[i], t), At(b.items[i], t)) <= h[b.num][t]

\* The server has counted only what the processors had, and what the reports
\* on their way and the rings would add has been counted as well.
Credited(c, h, con, k, i, t) ==
  /\ titem[k][i].sum <= SumFunctionOnSet(con[k][i], Procs)
  /\ \A p \in Procs :
       con[k][i][p] + Gain(mapidnum[k][i][p].sum, At(timesum[k][p][i], t))
         <= c[k][p][t]
  /\ \A m \in net : m.key = k /\ newest[k][m.proc] <= m.num =>
       con[k][i][m.proc] + Gain(mapidnum[k][i][m.proc].sum, At(m.items[i], t))
         <= h[m.num][t]

Ledger(c, h, con) ==
  /\ c \in [Keys -> [Procs -> [Times -> Nat]]]
  /\ h \in [Nat -> [Times -> Nat]]
  /\ con \in [Keys -> [Slots -> [Procs -> Nat]]]
  /\ CountedAll(c)
  /\ RingsCounted(c)
  /\ SentCounted(c, h)
  /\ SentInOrder(h)
  /\ \A k \in Keys \ disordered, i \in Slots :
       titem[k][i].timekey > 0 => Credited(c, h, con, k, i, titem[k][i].timekey)

LedgerInv == TimesInv /\ \E c, h, con : Ledger(c, h, con)

-----------------------------------------------------------------------------
LEMMA GainFacts ==
  ASSUME NEW a \in Nat, NEW v \in Nat
  PROVE  /\ Gain(a, v) \in Nat
         /\ Gain(a, v) <= v
         /\ Gain(a, a) = 0
         /\ Gain(a, 0) = 0
         /\ Gain(0, v) = v
BY DEF Gain

LEMMA GainGrows ==
  ASSUME NEW a \in Nat, NEW v \in Nat, NEW w \in Nat, NEW d \in Nat, w <= v + d
  PROVE  w >= v => Gain(a, w) <= Gain(a, v) + d
BY DEF Gain

LEMMA TimesNat == ASSUME NEW t \in Times PROVE t \in Nat /\ t > 0
<1>1. PICK s \in Start .. MaxTime : t = TimeKey(s)  BY DEF Times
<1>2. Start \in Nat /\ NumPerIndex \in Nat /\ Start >= NumPerIndex /\ MaxTime \in Nat
  BY ServerAssumption, SlotAssumption
<1>3. s \in Nat /\ s >= NumPerIndex  BY <1>2
<1>4. TimeKey(s) \in Nat /\ s < TimeKey(s) + NumPerIndex  BY <1>3, TimeKeyBounds
<1> QED BY <1>1, <1>2, <1>3, <1>4

LEMMA AtType == ASSUME NEW item \in Items, NEW t PROVE At(item, t) \in Nat
BY DEF At, Items

\* The initial ledger is empty.
LEMMA LedgerInit == Init => LedgerInv
<1> SUFFICES ASSUME Init PROVE LedgerInv  OBVIOUS
<1>1. SumsType  BY SumsInit DEF SumsInv
<1>2. \A i \in Slots : NoRing[i] = NoSlot  BY DEF NoRing
<1>3. NoSlot.timekey = 0 /\ NoSlot.sum = 0  BY DEF NoSlot
<1>4. TimesInv
  <2>1. truth \in [Keys -> [Times -> Nat]] /\ newest \in [Keys -> [Procs -> Nat]]
    BY DEF Init, Times
  <2>2. net = {}  BY DEF Init
  <2>3. \A k \in Keys, i \in Slots :
          titem[k][i] = NoSlot /\ \A p \in Procs : timesum[k][p][i] = NoSlot
    BY <1>2 DEF Init
  <2> QED BY <1>1, <1>3, <2>1, <2>2, <2>3 DEF TimesInv
<1> DEFINE c == [k \in Keys |-> [p \in Procs |-> [t \in Times |-> 0]]]
           h == [n \in Nat |-> [t \in Times |-> 0]]
           con == [k \in Keys |-> [i \in Slots |-> [p \in Procs |-> 0]]]
<1>5. CountedAll(c)
  <2> SUFFICES ASSUME NEW k \in Keys, NEW t \in Times
               PROVE  truth[k][t] = SumFunctionOnSet([p \in Procs |-> c[k][p][t]], Procs)
    BY DEF CountedAll
  <2> DEFINE f == [p \in Procs |-> c[k][p][t]]
  <2>1. \A p \in Procs : f[p] = 0  OBVIOUS
  <2>2. IsFiniteSet(Procs)  BY ServerAssumption
  <2>3. SumFunctionOnSet(f, Procs) = 0
    <3> HIDE DEF f
    <3> QED BY <2>1, <2>2, SumZero
  <2>4. truth[k][t] = 0  BY DEF Init, Times
  <2> QED BY <2>3, <2>4
<1>6. RingsCounted(c)
  <2>1. \A k \in Keys, p \in Procs, i \in Slots : timesum[k][p][i] = NoSlot
    BY <1>2 DEF Init
  <2>2. \A k \in Keys, p \in Procs, t \in Times : c[k][p][t] = 0  OBVIOUS
  <2>3. \A t : At(NoSlot, t) = 0  BY <1>3 DEF At
  <2> HIDE DEF c
  <2> QED BY <2>1, <2>2, <2>3 DEF RingsCounted
<1>7. net = {}  BY DEF Init
<1>8. SentCounted(c, h) /\ SentInOrder(h)  BY <1>7 DEF SentCounted, SentInOrder
<1>9. \A k \in Keys, i \in Slots : titem[k][i].timekey = 0
  BY <1>2, <1>3 DEF Init
<1>10. /\ c \in [Keys -> [Procs -> [Times -> Nat]]]
       /\ h \in [Nat -> [Times -> Nat]]
       /\ con \in [Keys -> [Slots -> [Procs -> Nat]]]
  OBVIOUS
<1> HIDE DEF c, h, con
<1>11. Ledger(c, h, con)  BY <1>5, <1>6, <1>8, <1>9, <1>10 DEF Ledger
<1> QED BY <1>4, <1>11 DEF LedgerInv

-----------------------------------------------------------------------------
LEMMA NowTime == ASSUME SumsType PROVE TimeKey(now) \in Times /\ SlotIndex(now) \in Slots
<1>1. now \in Nat /\ now \in Start .. MaxTime
  <2>1. Start \in Nat /\ MaxTime \in Nat  BY ServerAssumption
  <2> QED BY <2>1 DEF SumsType
<1> QED BY <1>1, SlotIndexInRing DEF Times

\* A slot of a ring, before and after d more requests of the time t: a report
\* of it gains at most d.
Moved(old, new, t, d) ==
  /\ At(new, t) <= At(old, t) + d
  /\ \A x \in Nat : Gain(x, At(new, t)) <= Gain(x, At(old, t)) + d

LEMMA MovedSame ==
  ASSUME NEW item \in Items, NEW t, NEW d \in Nat
  PROVE  Moved(item, item, t, d)
<1>1. At(item, t) \in Nat  BY AtType
<1>2. \A x \in Nat : Gain(x, At(item, t)) \in Nat  BY <1>1, GainFacts
<1> QED BY <1>1, <1>2 DEF Moved

LEMMA MovedGone ==
  ASSUME NEW item \in Items, NEW new, NEW t, At(new, t) = 0, NEW d \in Nat
  PROVE  Moved(item, new, t, d)
<1>1. At(item, t) \in Nat  BY AtType
<1>2. \A x \in Nat : Gain(x, At(item, t)) \in Nat /\ Gain(x, 0) = 0
  BY <1>1, GainFacts
<1> QED BY <1>1, <1>2 DEF Moved

LEMMA ReportMoves ==
  ASSUME TimesInv, NEW k \in Keys, NEW p \in Procs, NEW b \in Batches, Report(k, p, b),
         NEW l \in Keys, NEW q \in Procs, NEW i \in Slots, NEW t \in Times
  PROVE  Moved(timesum[l][q][i], timesum'[l][q][i], t,
               IF l = k /\ q = p /\ t = TimeKey(now) THEN b.sum ELSE 0)
<1> DEFINE j == SlotIndex(now)
           T == TimeKey(now)
           old == timesum[k][p][j]
           from == IF old.timekey = T THEN old ELSE NoSlot
           item == [timekey |-> T, sum |-> from.sum + b.sum,
                    refuse |-> from.refuse + b.refuse,
                    setrefuse |-> from.setrefuse + b.setrefuse]
           d == IF l = k /\ q = p /\ t = T THEN b.sum ELSE 0
<1>1. timesum' = [timesum EXCEPT ![k][p][j] = item]  BY DEF Report
<1>2. SumsType /\ timesum \in [Keys -> [Procs -> [Slots -> Items]]]
  BY DEF TimesInv, SumsType
<1>3. j \in Slots /\ T \in Times  BY <1>2, NowTime
<1>4. b.sum \in Nat  BY ServerAssumption
<1>5. d \in Nat /\ timesum[l][q][i] \in Items  BY <1>2, <1>4
<1>6. CASE ~(l = k /\ q = p /\ i = j)
  <2>1. timesum'[l][q][i] = timesum[l][q][i]
    <3> HIDE DEF item, j
    <3> QED BY <1>1, <1>2, <1>6
  <2>2. Moved(timesum[l][q][i], timesum'[l][q][i], t, d)
    <3> HIDE DEF d
    <3> QED BY <1>5, <2>1, MovedSame
  <2> QED BY <2>2
<1>7. CASE l = k /\ q = p /\ i = j
  <2>1. timesum'[l][q][i] = item /\ timesum[l][q][i] = old
    <3> HIDE DEF item, j
    <3> QED BY <1>1, <1>2, <1>3, <1>7
  <2>2. CASE t # T
    <3>1. At(item, t) = 0  BY <2>2 DEF At
    <3>2. Moved(timesum[l][q][i], timesum'[l][q][i], t, d)
      <4> HIDE DEF item, d
      <4> QED BY <1>5, <2>1, <3>1, MovedGone
    <3> QED BY <3>2
  <2>3. CASE t = T
    <3>1. At(item, t) = from.sum + b.sum  BY <2>3 DEF At
    <3>2. from.sum = At(old, t)  BY <2>3 DEF At, NoSlot
    <3>3. d = b.sum  BY <1>7, <2>3
    <3>4. At(old, t) \in Nat
      <4> HIDE DEF old
      <4> QED BY <1>5, <2>1, AtType
    <3> HIDE DEF item, d, old, from
    <3>5. At(item, t) \in Nat /\ At(item, t) >= At(old, t) /\ At(item, t) <= At(old, t) + d
          /\ d \in Nat
      BY <1>4, <3>1, <3>2, <3>3, <3>4
    <3>6. \A x \in Nat : Gain(x, At(item, t)) <= Gain(x, At(old, t)) + d
      BY <3>4, <3>5, GainGrows
    <3>7. Moved(old, item, t, d)  BY <3>5, <3>6 DEF Moved
    <3> QED BY <2>1, <3>7 DEF d
  <2> QED BY <2>2, <2>3
<1> QED BY <1>6, <1>7

LEMMA ReportTimes ==
  ASSUME TimesInv, NEW k \in Keys, NEW p \in Procs, NEW b \in Batches, Report(k, p, b),
         SumsType'
  PROVE  TimesInv'
<1> DEFINE j == SlotIndex(now)
           T == TimeKey(now)
           old == timesum[k][p][j]
           from == IF old.timekey = T THEN old ELSE NoSlot
           item == [timekey |-> T, sum |-> from.sum + b.sum,
                    refuse |-> from.refuse + b.refuse,
                    setrefuse |-> from.setrefuse + b.setrefuse]
           m == [num |-> sent + 1, key |-> k, proc |-> p,
                 items |-> timesum'[k][p], again |-> TRUE]
<1>1. /\ timesum' = [timesum EXCEPT ![k][p][j] = item]
      /\ net' = net \cup {m} /\ sent' = sent + 1
      /\ truth' = [truth EXCEPT ![k][T] = @ + b.sum]
      /\ UNCHANGED <<titem, newest>>
  BY DEF Report, stats
<1>2. SumsType /\ timesum \in [Keys -> [Procs -> [Slots -> Items]]] /\ sent \in Nat
      /\ net \subseteq Reports
  BY DEF TimesInv, SumsType
<1>3. j \in Slots /\ T \in Times  BY <1>2, NowTime
<1>4. b.sum \in Nat  BY ServerAssumption
<1>5. item.timekey = T /\ m.num = sent + 1 /\ m.items = timesum'[k][p]  OBVIOUS
<1> HIDE DEF item, j, T, m
<1>6. \A l \in Keys, q \in Procs, i \in Slots :
        timesum'[l][q][i] = timesum[l][q][i] \/ timesum'[l][q][i] = item
  BY <1>1, <1>2, <1>3
<1>7. \A l \in Keys, q \in Procs, i \in Slots : timesum'[l][q][i].timekey \in {0} \cup Times
  <2>1. \A l \in Keys, q \in Procs, i \in Slots : timesum[l][q][i].timekey \in {0} \cup Times
    BY ONLY TimesInv DEF TimesInv
  <2> QED BY ONLY <1>3, <1>5, <1>6, <2>1
<1>8. \A n \in net', i \in Slots : n.items[i].timekey \in {0} \cup Times
  BY <1>1, <1>5, <1>7 DEF TimesInv
<1>9. \A n \in net' : n.num <= sent'
  <2>1. \A n \in net : n.num \in Nat /\ n.num <= sent  BY <1>2 DEF TimesInv, Reports
  <2> QED BY <1>1, <1>2, <1>5, <2>1
<1>10. truth' \in [Keys -> [Times -> Nat]]
  <2>1. truth[k][T] + b.sum \in Nat  BY <1>3, <1>4 DEF TimesInv
  <2> QED BY <1>1, <1>3, <2>1 DEF TimesInv
<1> QED BY <1>1, <1>7, <1>8, <1>9, <1>10 DEF TimesInv

\* A ledger in which more was counted and sent.
Grown(c, h, c2, h2) ==
  /\ \A l \in Keys, q \in Procs, t \in Times : c[l][q][t] <= c2[l][q][t]
  /\ \A l \in Keys, q \in Procs, i \in Slots, t \in Times, x \in Nat, y \in Nat :
       y + Gain(x, At(timesum[l][q][i], t)) <= c[l][q][t] =>
         y + Gain(x, At(timesum'[l][q][i], t)) <= c2[l][q][t]
  /\ \A m \in net' :
       \/ m \in net /\ h2[m.num] = h[m.num]
       \/ h2[m.num] = c2[m.key][m.proc] /\ m.items = timesum'[m.key][m.proc]

\* d more requests are counted; the ledger, with the report in it.
LEMMA LedgerReport ==
  ASSUME TimesInv, NEW c, NEW h, NEW con, Ledger(c, h, con),
         NEW k \in Keys, NEW p \in Procs, NEW b \in Batches, Report(k, p, b),
         TimesInv'
  PROVE  \E c2, h2 : Ledger(c2, h2, con)' /\ Grown(c, h, c2, h2)
<1> DEFINE T == TimeKey(now)
           d(l, q, t) == IF l = k /\ q = p /\ t = T THEN b.sum ELSE 0
           n == sent + 1
           new == [num |-> n, key |-> k, proc |-> p,
                   items |-> timesum'[k][p], again |-> TRUE]
<1>1. /\ net' = net \cup {new} /\ sent' = sent + 1
      /\ truth' = [truth EXCEPT ![k][T] = @ + b.sum]
      /\ UNCHANGED <<titem, mapidnum, newest, disordered>>
  BY DEF Report, stats
<1>2. /\ timesum \in [Keys -> [Procs -> [Slots -> Items]]]
      /\ timesum' \in [Keys -> [Procs -> [Slots -> Items]]]
      /\ sent \in Nat /\ net \subseteq Reports /\ T \in Times
      /\ \A m \in net : m.num <= sent /\ m.num \in Nat /\ m.key \in Keys /\ m.proc \in Procs
                        /\ m.items \in [Slots -> Items]
      /\ titem \in [Keys -> [Slots -> Totals]]
      /\ mapidnum \in [Keys -> [Slots -> [Procs -> Amounts]]]
  <2>1. SumsType /\ SumsType'  BY DEF TimesInv
  <2>2. T \in Times  BY <2>1, NowTime
  <2> QED BY <2>1, <2>2 DEF TimesInv, SumsType, Reports
<1>3. b.sum \in Nat /\ \A l, q, t : d(l, q, t) \in Nat  BY ServerAssumption
<1>4. /\ c \in [Keys -> [Procs -> [Times -> Nat]]]
      /\ h \in [Nat -> [Times -> Nat]]
      /\ con \in [Keys -> [Slots -> [Procs -> Nat]]]
  BY DEF Ledger
<1>5. ASSUME NEW l \in Keys, NEW q \in Procs, NEW i \in Slots, NEW t \in Times
      PROVE  Moved(timesum[l][q][i], timesum'[l][q][i], t, d(l, q, t))
  BY <1>5, ReportMoves
<1>6. new.num = n /\ new.key = k /\ new.proc = p /\ new.items = timesum'[k][p]
  OBVIOUS
<1> HIDE DEF new, T
<1>a. PICK c2 : c2 = [c EXCEPT ![k][p][T] = @ + b.sum]  OBVIOUS
<1>b. PICK h2 : h2 = [h EXCEPT ![n] = c2[k][p]]  OBVIOUS
<1>7. /\ c2 \in [Keys -> [Procs -> [Times -> Nat]]]
      /\ \A l \in Keys, q \in Procs, t \in Times : c2[l][q][t] = c[l][q][t] + d(l, q, t)
  <2>1. c[k][p][T] + b.sum \in Nat  BY <1>2, <1>3, <1>4
  <2>2. c2 \in [Keys -> [Procs -> [Times -> Nat]]]  BY <1>2, <1>4, <1>a, <2>1
  <2>3. ASSUME NEW l \in Keys, NEW q \in Procs, NEW t \in Times
        PROVE  c2[l][q][t] = c[l][q][t] + d(l, q, t)
    <3>1. CASE l = k /\ q = p /\ t = T  BY <1>2, <1>4, <1>a, <3>1
    <3>2. CASE ~(l = k /\ q = p /\ t = T)
      <4>1. c2[l][q][t] = c[l][q][t]  BY <1>2, <1>4, <1>a, <3>2
      <4>2. c[l][q][t] \in Nat  BY <1>4
      <4> QED BY <3>2, <4>1, <4>2
    <3> QED BY <3>1, <3>2
  <2> QED BY <2>2, <2>3
<1>8. /\ h2 \in [Nat -> [Times -> Nat]] /\ n \in Nat
      /\ h2[n] = c2[k][p]
      /\ \A m \in net : h2[m.num] = h[m.num] /\ m.num # n
  <2>1. n \in Nat /\ c2[k][p] \in [Times -> Nat]  BY <1>2, <1>7
  <2> QED BY <1>2, <1>4, <1>b, <2>1
<1> HIDE DEF n, d
<1>9. CountedAll(c2)'
  <2> SUFFICES ASSUME NEW l \in Keys, NEW t \in Times
               PROVE  truth'[l][t] = SumFunctionOnSet([q \in Procs |-> c2[l][q][t]], Procs)
    BY DEF CountedAll
  <2> DEFINE f == [q \in Procs |-> c[l][q][t]]
             g == [q \in Procs |-> c2[l][q][t]]
             dd == IF l = k /\ t = T THEN b.sum ELSE 0
  <2>1. IsFiniteSet(Procs)  BY ServerAssumption
  <2>2. \A q \in Procs : f[q] \in Int /\ g[q] \in Int /\ g[q] = f[q] + d(l, q, t)
    BY <1>4, <1>7
  <2>3. truth[l][t] = SumFunctionOnSet(f, Procs)  BY DEF Ledger, CountedAll
  <2>4. \A q \in Procs \ {p} : d(l, q, t) = 0  BY DEF d
  <2>5. d(l, p, t) = dd  BY DEF d
  <2>6. truth'[l][t] = truth[l][t] + dd
    <3>1. truth \in [Keys -> [Times -> Nat]]  BY DEF TimesInv
    <3>2. CASE l = k /\ t = T  BY <1>1, <1>2, <3>1, <3>2
    <3>3. CASE ~(l = k /\ t = T)
      <4>1. truth'[l][t] = truth[l][t]  BY <1>1, <1>2, <3>1, <3>3
      <4>2. truth[l][t] \in Nat  BY <3>1
      <4> QED BY <3>3, <4>1, <4>2
    <3> QED BY <3>2, <3>3
  <2>7. dd \in Nat  BY <1>3
  <2> HIDE DEF f, g, dd
  <2>8. \A q \in Procs \ {p} : g[q] = f[q]  BY <2>2, <2>4
  <2>9. SumFunctionOnSet(g, Procs) = (SumFunctionOnSet(f, Procs) - f[p]) + g[p]
    BY <2>1, <2>2, <2>8, SumChanged
  <2>10. SumFunctionOnSet(f, Procs) \in Int  BY <2>1, <2>2, SumInt
  <2>11. truth'[l][t] = SumFunctionOnSet(g, Procs)
    BY <2>2, <2>3, <2>5, <2>6, <2>7, <2>9, <2>10
  <2> QED BY <2>11 DEF g
<1>10. ASSUME NEW l \in Keys, NEW q \in Procs, NEW i \in Slots, NEW t \in Times
       PROVE  /\ At(timesum[l][q][i], t) \in Nat
              /\ At(timesum'[l][q][i], t) \in Nat
              /\ c[l][q][t] \in Nat /\ c2[l][q][t] \in Nat /\ d(l, q, t) \in Nat
              /\ c2[l][q][t] = c[l][q][t] + d(l, q, t)
              /\ At(timesum'[l][q][i], t) <= At(timesum[l][q][i], t) + d(l, q, t)
              /\ \A x \in Nat :
                   /\ Gain(x, At(timesum[l][q][i], t)) \in Nat
                   /\ Gain(x, At(timesum'[l][q][i], t)) \in Nat
                   /\ Gain(x, At(timesum'[l][q][i], t))
                        <= Gain(x, At(timesum[l][q][i], t)) + d(l, q, t)
  <2>1. timesum[l][q][i] \in Items /\ timesum'[l][q][i] \in Items  BY <1>2
  <2>2. At(timesum[l][q][i], t) \in Nat /\ At(timesum'[l][q][i], t) \in Nat
    BY <2>1, AtType
  <2>3. Moved(timesum[l][q][i], timesum'[l][q][i], t, d(l, q, t))  BY <1>5
  <2>4. c[l][q][t] \in Nat /\ c2[l][q][t] \in Nat /\ d(l, q, t) \in Nat
        /\ c2[l][q][t] = c[l][q][t] + d(l, q, t)
    BY <1>3, <1>4, <1>7
  <2>5. \A x \in Nat : /\ Gain(x, At(timesum[l][q][i], t)) \in Nat
                       /\ Gain(x, At(timesum'[l][q][i], t)) \in Nat
    BY <2>2, GainFacts
  <2> QED BY <2>2, <2>3, <2>4, <2>5 DEF Moved
<1>11. RingsCounted(c2)'
  <2> SUFFICES ASSUME NEW l \in Keys, NEW q \in Procs, NEW i \in Slots, NEW t \in Times
               PROVE  At(timesum'[l][q][i], t) <= c2[l][q][t]
    BY DEF RingsCounted
  <2>1. At(timesum[l][q][i], t) <= c[l][q][t]  BY DEF Ledger, RingsCounted
  <2>2. /\ At(timesum[l][q][i], t) \in Nat /\ At(timesum'[l][q][i], t) \in Nat
        /\ c[l][q][t] \in Nat /\ c2[l][q][t] \in Nat /\ d(l, q, t) \in Nat
        /\ c2[l][q][t] = c[l][q][t] + d(l, q, t)
        /\ At(timesum'[l][q][i], t) <= At(timesum[l][q][i], t) + d(l, q, t)
    BY <1>10
  <2> QED BY ONLY <2>1, <2>2
<1>12. ASSUME NEW m \in net, NEW i \in Slots, NEW t \in Times
       PROVE  /\ At(m.items[i], t) \in Nat /\ h2[m.num][t] = h[m.num][t] /\ h[m.num][t] \in Nat
              /\ At(m.items[i], t) <= h[m.num][t]
              /\ h[m.num][t] + Gain(At(m.items[i], t), At(timesum[m.key][m.proc][i], t))
                   <= c[m.key][m.proc][t]
  <2>1. At(m.items[i], t) \in Nat  BY <1>2, AtType
  <2>2. h2[m.num][t] = h[m.num][t]  BY ONLY <1>8, m \in net
  <2>3. h[m.num][t] \in Nat
    <3>1. m.num \in Nat  BY ONLY <1>2, m \in net
    <3> QED BY ONLY <1>4, <3>1, t \in Times
  <2>4. SentCounted(c, h)  BY DEF Ledger
  <2> QED BY ONLY <2>1, <2>2, <2>3, <2>4, m \in net, i \in Slots, t \in Times DEF SentCounted
<1>13. SentCounted(c2, h2)'
  <2> SUFFICES ASSUME NEW m \in net', NEW i \in Slots, NEW t \in Times
               PROVE  /\ At(m.items[i], t) <= h2[m.num][t]
                      /\ h2[m.num][t] + Gain(At(m.items[i], t), At(timesum'[m.key][m.proc][i], t))
                           <= c2[m.key][m.proc][t]
    BY DEF SentCounted
  <2>1. CASE m \in net
    <3> DEFINE x == At(m.items[i], t)
    <3>1. x \in Nat /\ h2[m.num][t] = h[m.num][t] /\ h[m.num][t] \in Nat
          /\ x <= h[m.num][t]
          /\ h[m.num][t] + Gain(x, At(timesum[m.key][m.proc][i], t))
               <= c[m.key][m.proc][t]
      BY <1>12, <2>1
    <3>2. m.key \in Keys /\ m.proc \in Procs  BY <1>2, <2>1
    <3> HIDE DEF x
    <3>3. h2[m.num][t] + Gain(x, At(timesum'[m.key][m.proc][i], t)) <= c2[m.key][m.proc][t]
      <4> DEFINE v == At(timesum[m.key][m.proc][i], t)
                 w == At(timesum'[m.key][m.proc][i], t)
                 e == d(m.key, m.proc, t)
                 s == c[m.key][m.proc][t]
                 s2 == c2[m.key][m.proc][t]
      <4>1. /\ s \in Nat /\ e \in Nat /\ s2 = s + e
            /\ Gain(x, v) \in Nat /\ Gain(x, w) \in Nat
            /\ Gain(x, w) <= Gain(x, v) + e
        <5>1. x \in Nat  BY ONLY <3>1
        <5> QED BY ONLY <5>1, <3>2, <1>10, i \in Slots, t \in Times
      <4>2. h[m.num][t] + Gain(x, v) <= s  BY <3>1
      <4> HIDE DEF v, w, e, s, s2
      <4>3. h[m.num][t] + Gain(x, w) <= s2  BY ONLY <3>1, <4>1, <4>2
      <4> QED BY <3>1, <4>3 DEF w, s2
    <3> QED BY <3>1, <3>3 DEF x
  <2>2. CASE m = new
    <3> DEFINE x == At(timesum'[k][p][i], t)
    <3>1. x \in Nat /\ Gain(x, x) = 0 /\ c2[k][p][t] \in Nat
      BY <1>10, GainFacts
    <3>2. x <= c2[k][p][t]  BY <1>11 DEF RingsCounted
    <3>3. h2[m.num][t] = c2[k][p][t] /\ m.key = k /\ m.proc = p /\ At(m.items[i], t) = x
      BY <1>6, <1>8, <2>2
    <3> HIDE DEF x
    <3>4. c2[k][p][t] + Gain(x, x) <= c2[k][p][t]  BY <3>1
    <3> QED BY <3>2, <3>3, <3>4 DEF x
  <2> QED BY <1>1, <2>1, <2>2
<1>14. SentInOrder(h2)'
  <2> SUFFICES ASSUME NEW a \in net', NEW e \in net', NEW i \in Slots, NEW t \in Times,
                      a.key = e.key, a.proc = e.proc, a.num <= e.num
               PROVE  h2[a.num][t] + Gain(At(a.items[i], t), At(e.items[i], t)) <= h2[e.num][t]
    BY DEF SentInOrder
  <2>1. CASE a \in net /\ e \in net
    <3>1. h[a.num][t] + Gain(At(a.items[i], t), At(e.items[i], t)) <= h[e.num][t]
      BY <2>1 DEF Ledger, SentInOrder
    <3> QED BY <1>12, <2>1, <3>1
  <2>2. CASE e = new
    <3>1. h2[e.num][t] = c2[e.key][e.proc][t] /\ e.items[i] = timesum'[e.key][e.proc][i]
      BY <1>6, <1>8, <2>2
    <3>2. h2[a.num][t] + Gain(At(a.items[i], t), At(timesum'[a.key][a.proc][i], t))
            <= c2[a.key][a.proc][t]
      BY <1>13 DEF SentCounted
    <3> QED BY <3>1, <3>2
  <2>3. CASE a = new /\ e \in net
    <3>1. a.num = sent + 1 /\ e.num \in Nat /\ e.num <= sent
      BY <1>2, <1>6, <2>3 DEF n
    <3> QED BY <1>2, <3>1
  <2> QED BY <1>1, <2>1, <2>2, <2>3
<1>15. ASSUME NEW l \in Keys \ disordered, NEW i \in Slots, titem[l][i].timekey > 0
       PROVE  Credited(c2, h2, con, l, i, titem[l][i].timekey)'
  <2>0. PICK t : t = titem[l][i].timekey  OBVIOUS
  <2> DEFINE last(q) == mapidnum[l][i][q].sum
  <2>1. t \in Times
    <3>1. t # 0  BY <1>15, <2>0
    <3> QED BY <2>0, <3>1 DEF TimesInv
  <2>2. Credited(c, h, con, l, i, t)  BY <1>15, <2>0 DEF Ledger
  <2>3. \A q \in Procs : last(q) \in Nat /\ con[l][i][q] \in Nat
    BY <1>2, <1>4 DEF Amounts
  <2>4. ASSUME NEW q \in Procs
        PROVE  con[l][i][q] + Gain(last(q), At(timesum'[l][q][i], t)) <= c2[l][q][t]
    <3>1. con[l][i][q] + Gain(last(q), At(timesum[l][q][i], t)) <= c[l][q][t]
      BY <2>2 DEF Credited
    <3>2. last(q) \in Nat /\ con[l][i][q] \in Nat  BY <2>3
    <3> HIDE DEF last
    <3> QED BY <1>10, <2>1, <3>1, <3>2
  <2>5. ASSUME NEW m \in net', m.key = l, newest[l][m.proc] <= m.num
        PROVE  con[l][i][m.proc] + Gain(last(m.proc), At(m.items[i], t)) <= h2[m.num][t]
    <3>1. CASE m \in net
      <4>1. con[l][i][m.proc] + Gain(last(m.proc), At(m.items[i], t)) <= h[m.num][t]
        BY <2>2, <2>5, <3>1 DEF Credited
      <4> HIDE DEF last
      <4> QED BY <1>12, <2>1, <3>1, <4>1
    <3>2. CASE m = new
      <4>1. h2[m.num][t] = c2[l][m.proc][t] /\ m.items[i] = timesum'[l][m.proc][i]
            /\ m.proc \in Procs
        BY <1>6, <1>8, <2>5, <3>2
      <4> HIDE DEF last
      <4> QED BY <2>4, <4>1
    <3> QED BY <1>1, <3>1, <3>2
  <2>6. titem[l][i].sum <= SumFunctionOnSet(con[l][i], Procs)  BY <2>2 DEF Credited
  <2>7. Credited(c2, h2, con, l, i, t)'  BY <1>1, <2>4, <2>5, <2>6 DEF Credited
  <2> QED BY <1>1, <2>0, <2>7
<1>16. Ledger(c2, h2, con)'
  BY <1>1, <1>4, <1>7, <1>8, <1>9, <1>11, <1>13, <1>14, <1>15 DEF Ledger
<1>17. Grown(c, h, c2, h2)
  <2>1. ASSUME NEW l \in Keys, NEW q \in Procs, NEW t \in Times
        PROVE  c[l][q][t] <= c2[l][q][t]
    <3>1. c[l][q][t] \in Nat /\ d(l, q, t) \in Nat  BY <1>3, <1>4
    <3> QED BY <1>7, <3>1
  <2>2. ASSUME NEW l \in Keys, NEW q \in Procs, NEW i \in Slots, NEW t \in Times,
               NEW x \in Nat, NEW y \in Nat,
               y + Gain(x, At(timesum[l][q][i], t)) <= c[l][q][t]
        PROVE  y + Gain(x, At(timesum'[l][q][i], t)) <= c2[l][q][t]
    <3>1. /\ c[l][q][t] \in Nat /\ c2[l][q][t] \in Nat /\ d(l, q, t) \in Nat
          /\ c2[l][q][t] = c[l][q][t] + d(l, q, t)
          /\ Gain(x, At(timesum[l][q][i], t)) \in Nat
          /\ Gain(x, At(timesum'[l][q][i], t)) \in Nat
          /\ Gain(x, At(timesum'[l][q][i], t))
               <= Gain(x, At(timesum[l][q][i], t)) + d(l, q, t)
      BY <1>10
    <3> QED BY ONLY <2>2, <3>1, y \in Nat
  <2>3. ASSUME NEW m \in net'
        PROVE  \/ m \in net /\ h2[m.num] = h[m.num]
               \/ h2[m.num] = c2[m.key][m.proc] /\ m.items = timesum'[m.key][m.proc]
    BY <1>1, <1>6, <1>8
  <2> QED BY <2>1, <2>2, <2>3 DEF Grown
<1> QED BY <1>16, <1>17

-----------------------------------------------------------------------------
\* The reports on their way are some of those there were.
SameReports ==
  \A m \in net' : \E a \in net : /\ a.num = m.num /\ a.key = m.key
                                 /\ a.proc = m.proc /\ a.items = m.items

RingsStill ==
  \A l \in Keys, q \in Procs, i \in Slots, t \in Times :
    Moved(timesum[l][q][i], timesum'[l][q][i], t, 0)

LEMMA RingsSame == ASSUME SumsType, timesum' = timesum PROVE RingsStill
<1> SUFFICES ASSUME NEW l \in Keys, NEW q \in Procs, NEW i \in Slots, NEW t \in Times
             PROVE  Moved(timesum[l][q][i], timesum[l][q][i], t, 0)
  BY DEF RingsStill
<1>1. timesum[l][q][i] \in Items  BY DEF SumsType
<1> QED BY <1>1, MovedSame

LEMMA Gains ==
  ASSUME TimesInv, TimesInv', RingsStill,
         NEW l \in Keys, NEW q \in Procs, NEW i \in Slots, NEW t \in Times
  PROVE  /\ At(timesum[l][q][i], t) \in Nat
         /\ At(timesum'[l][q][i], t) \in Nat
         /\ At(timesum'[l][q][i], t) <= At(timesum[l][q][i], t)
         /\ \A x \in Nat :
              /\ Gain(x, At(timesum[l][q][i], t)) \in Nat
              /\ Gain(x, At(timesum'[l][q][i], t)) \in Nat
              /\ Gain(x, At(timesum'[l][q][i], t)) <= Gain(x, At(timesum[l][q][i], t))
<1>1. timesum[l][q][i] \in Items /\ timesum'[l][q][i] \in Items
  BY DEF TimesInv, SumsType
<1>2. At(timesum[l][q][i], t) \in Nat /\ At(timesum'[l][q][i], t) \in Nat
  BY <1>1, AtType
<1> DEFINE v == At(timesum[l][q][i], t)
           w == At(timesum'[l][q][i], t)
<1>3. Moved(timesum[l][q][i], timesum'[l][q][i], t, 0)  BY DEF RingsStill
<1>4. w <= v + 0 /\ \A x \in Nat : Gain(x, w) <= Gain(x, v) + 0  BY <1>3 DEF Moved
<1>5. v \in Nat /\ w \in Nat  BY <1>2
<1> HIDE DEF v, w
<1>6. \A x \in Nat : Gain(x, v) \in Nat /\ Gain(x, w) \in Nat  BY <1>5, GainFacts
<1>7. w <= v /\ \A x \in Nat : Gain(x, w) <= Gain(x, v)  BY ONLY <1>4, <1>5, <1>6
<1> QED BY <1>5, <1>6, <1>7 DEF v, w

\* Nothing more is counted, and no report is sent.
LEMMA LedgerMoves ==
  ASSUME TimesInv, TimesInv', NEW c, NEW h, NEW con, Ledger(c, h, con),
         SameReports, RingsStill, truth' = truth
  PROVE  CountedAll(c)' /\ RingsCounted(c)' /\ SentCounted(c, h)' /\ SentInOrder(h)'
<1>1. CountedAll(c)'  BY DEF Ledger, CountedAll
<1>2. c \in [Keys -> [Procs -> [Times -> Nat]]] /\ h \in [Nat -> [Times -> Nat]]
  BY DEF Ledger
<1>3. RingsCounted(c)'
  <2> SUFFICES ASSUME NEW l \in Keys, NEW q \in Procs, NEW i \in Slots, NEW t \in Times
               PROVE  At(timesum'[l][q][i], t) <= c[l][q][t]
    BY DEF RingsCounted
  <2>1. At(timesum[l][q][i], t) <= c[l][q][t] /\ c[l][q][t] \in Nat
    BY <1>2 DEF Ledger, RingsCounted
  <2>2. /\ At(timesum[l][q][i], t) \in Nat
        /\ At(timesum'[l][q][i], t) \in Nat
        /\ At(timesum'[l][q][i], t) <= At(timesum[l][q][i], t)
    BY Gains
  <2> QED BY ONLY <2>1, <2>2
<1>4. \A a \in net : /\ a.num \in Nat /\ a.key \in Keys /\ a.proc \in Procs
                     /\ a.items \in [Slots -> Items]
  BY DEF TimesInv, SumsType, Reports
<1>5. SentCounted(c, h)'
  <2> SUFFICES ASSUME NEW m \in net', NEW i \in Slots, NEW t \in Times
               PROVE  /\ At(m.items[i], t) <= h[m.num][t]
                      /\ h[m.num][t] + Gain(At(m.items[i], t), At(timesum'[m.key][m.proc][i], t))
                           <= c[m.key][m.proc][t]
    BY DEF SentCounted
  <2>1. PICK a \in net : /\ a.num = m.num /\ a.key = m.key
                         /\ a.proc = m.proc /\ a.items = m.items
    BY DEF SameReports
  <2>2. PICK l \in Keys, q \in Procs, x \in Nat, y \in Nat :
          /\ l = m.key /\ q = m.proc /\ x = At(m.items[i], t) /\ y = h[m.num][t]
    <3>1. At(m.items[i], t) \in Nat  BY <1>4, <2>1, AtType
    <3> QED BY <1>2, <1>4, <2>1, <3>1
  <2>3. /\ x <= y
        /\ y + Gain(x, At(timesum[l][q][i], t)) <= c[l][q][t]
    BY <2>1, <2>2 DEF Ledger, SentCounted
  <2>4. /\ Gain(x, At(timesum[l][q][i], t)) \in Nat
        /\ Gain(x, At(timesum'[l][q][i], t)) \in Nat
        /\ Gain(x, At(timesum'[l][q][i], t)) <= Gain(x, At(timesum[l][q][i], t))
        /\ c[l][q][t] \in Nat
    BY <1>2, Gains
  <2>5. y + Gain(x, At(timesum'[l][q][i], t)) <= c[l][q][t]
    BY ONLY <2>2, <2>3, <2>4
  <2> QED BY <2>2, <2>3, <2>5
<1>6. SentInOrder(h)'
  <2> SUFFICES ASSUME NEW a \in net', NEW e \in net', NEW i \in Slots, NEW t \in Times,
                      a.key = e.key, a.proc = e.proc, a.num <= e.num
               PROVE  h[a.num][t] + Gain(At(a.items[i], t), At(e.items[i], t)) <= h[e.num][t]
    BY DEF SentInOrder
  <2>1. PICK a2 \in net : /\ a2.num = a.num /\ a2.key = a.key
                          /\ a2.proc = a.proc /\ a2.items = a.items
    BY DEF SameReports
  <2>2. PICK e2 \in net : /\ e2.num = e.num /\ e2.key = e.key
                          /\ e2.proc = e.proc /\ e2.items = e.items
    BY DEF SameReports
  <2>3. h[a2.num][t] + Gain(At(a2.items[i], t), At(e2.items[i], t)) <= h[e2.num][t]
    BY <2>1, <2>2 DEF Ledger, SentInOrder
  <2> QED BY <2>1, <2>2, <2>3
<1> QED BY <1>1, <1>3, <1>5, <1>6

\* And what the server has counted of a slot is not touched.
LEMMA CreditStill ==
  ASSUME TimesInv, TimesInv', NEW c, NEW h, NEW con, Ledger(c, h, con),
         SameReports, RingsStill,
         NEW l \in Keys, NEW i \in Slots, NEW t \in Times, NEW con2,
         Credited(c, h, con, l, i, t), con2[l][i] = con[l][i],
         titem'[l][i].sum = titem[l][i].sum, mapidnum'[l][i] = mapidnum[l][i],
         \A q \in Procs : newest[l][q] <= newest'[l][q]
  PROVE  Credited(c, h, con2, l, i, t)'
<1>1. /\ c \in [Keys -> [Procs -> [Times -> Nat]]] /\ h \in [Nat -> [Times -> Nat]]
      /\ con \in [Keys -> [Slots -> [Procs -> Nat]]]
  BY DEF Ledger
<1>2. \A q \in Procs : /\ mapidnum[l][i][q].sum \in Nat /\ con[l][i][q] \in Nat
                       /\ newest[l][q] \in Nat /\ newest'[l][q] \in Nat
  BY <1>1 DEF TimesInv, SumsType, Amounts
<1>3. titem'[l][i].sum <= SumFunctionOnSet(con2[l][i], Procs)  BY DEF Credited
<1>4. ASSUME NEW q \in Procs
      PROVE  con2[l][i][q] + Gain(mapidnum'[l][i][q].sum, At(timesum'[l][q][i], t))
               <= c[l][q][t]
  <2>1. PICK x \in Nat, y \in Nat : x = mapidnum[l][i][q].sum /\ y = con[l][i][q]
    BY <1>2
  <2>2. y + Gain(x, At(timesum[l][q][i], t)) <= c[l][q][t]
    BY <2>1 DEF Credited
  <2>3. /\ Gain(x, At(timesum[l][q][i], t)) \in Nat
        /\ Gain(x, At(timesum'[l][q][i], t)) \in Nat
        /\ Gain(x, At(timesum'[l][q][i], t)) <= Gain(x, At(timesum[l][q][i], t))
        /\ c[l][q][t] \in Nat
    BY <1>1, Gains
  <2>4. y + Gain(x, At(timesum'[l][q][i], t)) <= c[l][q][t]
    BY ONLY <2>1, <2>2, <2>3
  <2> QED BY <2>1, <2>4
<1>5. ASSUME NEW m \in net', m.key = l, newest'[l][m.proc] <= m.num
      PROVE  con2[l][i][m.proc] + Gain(mapidnum'[l][i][m.proc].sum, At(m.items[i], t))
               <= h[m.num][t]
  <2>1. PICK a \in net : /\ a.num = m.num /\ a.key = m.key
                         /\ a.proc = m.proc /\ a.items = m.items
    BY DEF SameReports
  <2>2. a.num \in Nat /\ a.proc \in Procs  BY DEF TimesInv, SumsType, Reports
  <2>3. newest[l][a.proc] <= a.num
    <3>1. /\ newest[l][a.proc] \in Nat /\ newest'[l][a.proc] \in Nat
          /\ newest[l][a.proc] <= newest'[l][a.proc] /\ newest'[l][a.proc] <= a.num
      BY <1>2, <1>5, <2>1, <2>2
    <3> QED BY ONLY <2>2, <3>1
  <2> QED BY <1>5, <2>1, <2>3 DEF Credited
<1> QED BY <1>3, <1>4, <1>5 DEF Credited

\* A step that leaves the slots or empties them.
LEMMA LedgerStill ==
  ASSUME TimesInv, TimesInv', NEW c, NEW h, NEW con, Ledger(c, h, con),
         SameReports, RingsStill, truth' = truth, disordered' = disordered,
         newest' = newest,
         \A k \in Keys, i \in Slots :
            \/ titem'[k][i].timekey = 0
            \/ titem'[k][i] = titem[k][i] /\ mapidnum'[k][i] = mapidnum[k][i]
  PROVE  Ledger(c, h, con)'
<1>1. /\ c \in [Keys -> [Procs -> [Times -> Nat]]]
      /\ h \in [Nat -> [Times -> Nat]]
      /\ con \in [Keys -> [Slots -> [Procs -> Nat]]]
  BY DEF Ledger
<1>2. CountedAll(c)' /\ RingsCounted(c)' /\ SentCounted(c, h)' /\ SentInOrder(h)'
  BY LedgerMoves
<1>3. ASSUME NEW k \in Keys \ disordered, NEW i \in Slots, titem'[k][i].timekey > 0
      PROVE  Credited(c, h, con, k, i, titem[k][i].timekey)'
  <2>1. PICK t : t = titem'[k][i].timekey  OBVIOUS
  <2>2. t # 0  BY <1>3, <2>1
  <2>3. titem'[k][i] = titem[k][i] /\ mapidnum'[k][i] = mapidnum[k][i]  BY <2>1, <2>2
  <2>4. t \in Times  BY <2>1, <2>2, <2>3 DEF TimesInv
  <2>5. Credited(c, h, con, k, i, t)  BY <1>3, <2>1, <2>3 DEF Ledger
  <2>6. \A q \in Procs : newest[k][q] <= newest'[k][q]
    <3>1. \A q \in Procs : newest[k][q] \in Nat  BY DEF TimesInv
    <3> QED BY <3>1
  <2>7. Credited(c, h, con, k, i, t)'  BY <2>3, <2>4, <2>5, <2>6, CreditStill
  <2> QED BY <2>1, <2>7
<1> QED BY <1>1, <1>2, <1>3 DEF Ledger

-----------------------------------------------------------------------------
\* A report is handled.

LEMMA QuerySteps ==
  ASSUME TimesInv, NEW m \in net, Query(m)
  PROVE  LET k == m.key
             p == m.proc
         IN  /\ k \in Keys /\ p \in Procs /\ m.num \in Nat
             /\ m.items \in [Slots -> Items]
             /\ titem' = [titem EXCEPT ![k] = [i \in Slots |->
                  IF Told(m.items[i])
                  THEN Added(titem[k][i], mapidnum[k][i][p], m.items[i])
                  ELSE titem[k][i]]]
             /\ mapidnum' = [mapidnum EXCEPT ![k] = [i \in Slots |->
                  IF Told(m.items[i])
                  THEN Remembered(mapidnum[k][i], titem[k][i], p, m.items[i])
                  ELSE mapidnum[k][i]]]
             /\ newest' = [newest EXCEPT ![k][p] = IF m.num > @ THEN m.num ELSE @]
             /\ disordered' = disordered \cup (IF m.num < newest[k][p] THEN {k} ELSE {})
             /\ UNCHANGED <<timesum, truth, sent, now>>
             /\ SameReports
<1> DEFINE k == m.key
           p == m.proc
<1>1. SumsType  BY DEF TimesInv
<1>2. k \in Keys /\ p \in Procs /\ m.num \in Nat /\ m.items \in [Slots -> Items]
  BY <1>1 DEF SumsType, Reports
<1>3. titem' = [titem EXCEPT ![k] = [i \in Slots |->
                    IF Told(m.items[i])
                    THEN Added(titem[k][i], mapidnum[k][i][p], m.items[i])
                    ELSE titem[k][i]]]
  BY <1>1, <1>2 DEF Query, AddReport, SumsType
<1>4. mapidnum' = [mapidnum EXCEPT ![k] = [i \in Slots |->
                    IF Told(m.items[i])
                    THEN Remembered(mapidnum[k][i], titem[k][i], p, m.items[i])
                    ELSE mapidnum[k][i]]]
  BY <1>1, <1>2 DEF Query, AddReport, SumsType
<1>5. /\ newest' = [newest EXCEPT ![k][p] = IF m.num > @ THEN m.num ELSE @]
      /\ disordered' = disordered \cup (IF m.num < newest[k][p] THEN {k} ELSE {})
      /\ UNCHANGED <<timesum, truth, sent, now>>
  BY DEF Query, Remember
<1>6. SameReports
  <2> DEFINE n == [m EXCEPT !.again = FALSE]
  <2>1. n.num = m.num /\ n.key = m.key /\ n.proc = m.proc /\ n.items = m.items
    BY <1>1 DEF SumsType, Reports
  <2>2. net' \subseteq net \cup {n}  BY DEF Query
  <2> HIDE DEF n
  <2> QED BY <2>1, <2>2 DEF SameReports
<1> QED BY <1>2, <1>3, <1>4, <1>5, <1>6

\* A slot begins anew with the report of one processor.
LEMMA CreditRolled ==
  ASSUME TimesInv, TimesInv', NEW c, NEW h, NEW con, Ledger(c, h, con),
         SameReports, timesum' = timesum,
         NEW m \in net, NEW k \in Keys, NEW p \in Procs, m.key = k, m.proc = p,
         newest'[k][p] = m.num,
         NEW i \in Slots, NEW t \in Times, m.items[i].timekey = t, NEW con2,
         titem'[k][i] = m.items[i],
         mapidnum'[k][i] = [q \in Procs |-> IF q = p THEN Data(m.items[i]) ELSE NoData],
         con2[k][i] = [q \in Procs |-> IF q = p THEN m.items[i].sum ELSE 0]
  PROVE  Credited(c, h, con2, k, i, t)'
<1> DEFINE s == m.items[i].sum
<1>1. /\ c \in [Keys -> [Procs -> [Times -> Nat]]] /\ h \in [Nat -> [Times -> Nat]]
  BY DEF Ledger
<1>2. m.items[i] \in Items /\ s \in Nat /\ m.num \in Nat
  BY DEF TimesInv, SumsType, Reports, Items
<1>3. At(m.items[i], t) = s /\ titem'[k][i].sum = s  BY DEF At
<1>4. /\ con2[k][i][p] = s /\ mapidnum'[k][i][p].sum = s
      /\ \A q \in Procs \ {p} : con2[k][i][q] = 0 /\ mapidnum'[k][i][q].sum = 0
  BY DEF Data, NoData
<1>5. titem'[k][i].sum <= SumFunctionOnSet(con2[k][i], Procs)
  <2> DEFINE f == con2[k][i]
             rest == SumFunctionOnSet(f, Procs \ {p})
  <2>1. IsFiniteSet(Procs) /\ IsFiniteSet(Procs \ {p})
    BY ServerAssumption, FS_Subset
  <2>2. \A q \in Procs : f[q] \in Int  BY <1>2, <1>4
  <2>3. \A q \in Procs \ {p} : f[q] = 0  BY <1>4
  <2>4. f[p] = s  BY <1>4
  <2> HIDE DEF f
  <2>5. SumFunctionOnSet(f, Procs) = f[p] + rest /\ rest = 0
    BY <2>1, <2>2, <2>3, SumSplit, SumZero
  <2> HIDE DEF rest, s
  <2> QED BY <1>2, <1>3, <2>4, <2>5 DEF f
<1>6. ASSUME NEW e \in Items
      PROVE  At(e, t) \in Nat /\ Gain(0, At(e, t)) = At(e, t) /\ Gain(s, At(e, t)) \in Nat
  <2>1. At(e, t) \in Nat  BY AtType
  <2> QED BY <1>2, <2>1, GainFacts
<1> HIDE DEF s
<1>7. ASSUME NEW q \in Procs
      PROVE  con2[k][i][q] + Gain(mapidnum'[k][i][q].sum, At(timesum[k][q][i], t))
               <= c[k][q][t]
  <2>1. timesum[k][q][i] \in Items /\ c[k][q][t] \in Nat
    BY <1>1 DEF TimesInv, SumsType
  <2>2. At(timesum[k][q][i], t) \in Nat
        /\ Gain(0, At(timesum[k][q][i], t)) = At(timesum[k][q][i], t)
        /\ Gain(s, At(timesum[k][q][i], t)) \in Nat
    BY <1>6, <2>1
  <2>3. CASE q = p
    <3>1. /\ s <= h[m.num][t]
          /\ h[m.num][t] + Gain(s, At(timesum[k][q][i], t)) <= c[k][q][t]
      BY <1>3, <2>3 DEF Ledger, SentCounted
    <3>2. h[m.num][t] \in Nat  BY <1>1, <1>2
    <3>3. s + Gain(s, At(timesum[k][q][i], t)) <= c[k][q][t]
      BY ONLY <1>2, <2>1, <2>2, <3>1, <3>2
    <3> QED BY <1>4, <2>3, <3>3
  <2>4. CASE q # p
    <3>1. At(timesum[k][q][i], t) <= c[k][q][t]  BY DEF Ledger, RingsCounted
    <3>2. con2[k][i][q] = 0 /\ mapidnum'[k][i][q].sum = 0  BY <1>4, <2>4
    <3>3. 0 + Gain(0, At(timesum[k][q][i], t)) <= c[k][q][t]
      BY ONLY <2>1, <2>2, <3>1
    <3> QED BY <3>2, <3>3
  <2> QED BY <2>3, <2>4
<1>8. ASSUME NEW n \in net', n.key = k, newest'[k][n.proc] <= n.num
      PROVE  con2[k][i][n.proc] + Gain(mapidnum'[k][i][n.proc].sum, At(n.items[i], t))
               <= h[n.num][t]
  <2>1. PICK a \in net : /\ a.num = n.num /\ a.key = n.key
                         /\ a.proc = n.proc /\ a.items = n.items
    BY DEF SameReports
  <2>2. a.num \in Nat /\ a.proc \in Procs /\ a.items[i] \in Items /\ h[a.num][t] \in Nat
    BY <1>1 DEF TimesInv, SumsType, Reports
  <2>3. At(a.items[i], t) \in Nat /\ Gain(0, At(a.items[i], t)) = At(a.items[i], t)
        /\ Gain(s, At(a.items[i], t)) \in Nat
    BY <1>6, <2>2
  <2>4. CASE a.proc = p
    <3>1. m.num <= a.num  BY <1>8, <2>1, <2>4
    <3>2. h[m.num][t] + Gain(s, At(a.items[i], t)) <= h[a.num][t] /\ s <= h[m.num][t]
      BY <1>3, <1>8, <2>1, <2>4, <3>1 DEF Ledger, SentInOrder, SentCounted
    <3>3. h[m.num][t] \in Nat  BY <1>1, <1>2
    <3>4. s + Gain(s, At(a.items[i], t)) <= h[a.num][t]
      BY ONLY <1>2, <2>2, <2>3, <3>2, <3>3
    <3> QED BY <1>4, <2>1, <2>4, <3>4
  <2>5. CASE a.proc # p
    <3>1. At(a.items[i], t) <= h[a.num][t]  BY DEF Ledger, SentCounted
    <3>2. con2[k][i][a.proc] = 0 /\ mapidnum'[k][i][a.proc].sum = 0
      BY <1>4, <2>2, <2>5
    <3>3. 0 + Gain(0, At(a.items[i], t)) <= h[a.num][t]
      BY ONLY <2>2, <2>3, <3>1
    <3> QED BY <2>1, <3>2, <3>3
  <2> QED BY <2>4, <2>5
<1> QED BY <1>5, <1>7, <1>8 DEF Credited

-----------------------------------------------------------------------------
\* A report is added to a slot that it says more, or less, of.
Delivered(m, k, p) ==
  /\ m.key = k /\ m.proc = p
  /\ newest[k][p] <= m.num /\ newest'[k][p] = m.num
  /\ \A q \in Procs \ {p} : newest'[k][q] = newest[k][q]
  /\ SameReports /\ timesum' = timesum
AddsItem(m, k, p, i, t, con, con2) ==
  /\ m.items[i].timekey = t
  /\ titem'[k][i].sum = titem[k][i].sum + Gain(mapidnum[k][i][p].sum, m.items[i].sum)
  /\ mapidnum'[k][i] = [mapidnum[k][i] EXCEPT ![p] = Data(m.items[i])]
  /\ con2[k][i] = [con[k][i] EXCEPT
                     ![p] = @ + Gain(mapidnum[k][i][p].sum, m.items[i].sum)]

LEMMA CreditAdded ==
  ASSUME TimesInv, TimesInv', NEW c, NEW h, NEW con, Ledger(c, h, con),
         NEW m \in net, NEW k \in Keys, NEW p \in Procs, Delivered(m, k, p),
         NEW i \in Slots, NEW t \in Times, NEW con2, AddsItem(m, k, p, i, t, con, con2),
         Credited(c, h, con, k, i, t)
  PROVE  Credited(c, h, con2, k, i, t)'
<1> USE DEF Delivered, AddsItem
<1>1. /\ c \in [Keys -> [Procs -> [Times -> Nat]]] /\ h \in [Nat -> [Times -> Nat]]
      /\ con[k][i] \in [Procs -> Nat]
  BY DEF Ledger
<1>2. /\ titem[k][i].sum \in Int /\ mapidnum[k][i] \in [Procs -> Amounts]
      /\ \A q \in Procs : mapidnum[k][i][q].sum \in Nat
      /\ m.items[i] \in Items /\ m.items[i].sum \in Nat /\ m.num \in Nat
  BY DEF TimesInv, SumsType, Totals, Amounts, Items, Reports
<1>3. PICK last \in Nat, s \in Nat, g \in Nat :
        /\ last = mapidnum[k][i][p].sum /\ s = m.items[i].sum /\ g = Gain(last, s)
  <2>1. mapidnum[k][i][p].sum \in Nat /\ m.items[i].sum \in Nat  BY <1>2
  <2>2. Gain(mapidnum[k][i][p].sum, m.items[i].sum) \in Nat  BY <2>1, GainFacts
  <2> QED BY <2>1, <2>2
<1>4. At(m.items[i], t) = s  BY <1>3 DEF At
<1>5. /\ con2[k][i] = [con[k][i] EXCEPT ![p] = @ + g]
      /\ titem'[k][i].sum = titem[k][i].sum + g
  BY <1>3
<1>6. /\ con2[k][i] \in [Procs -> Nat]
      /\ con2[k][i][p] = con[k][i][p] + g
      /\ \A q \in Procs \ {p} : con2[k][i][q] = con[k][i][q]
  <2>1. con[k][i][p] + g \in Nat  BY <1>1
  <2> QED BY <1>1, <1>5, <2>1
<1>7. /\ mapidnum'[k][i][p].sum = s
      /\ \A q \in Procs \ {p} : mapidnum'[k][i][q] = mapidnum[k][i][q]
  <2>1. Data(m.items[i]).sum = s  BY <1>3 DEF Data
  <2> QED BY <1>2, <2>1
<1>8. titem'[k][i].sum <= SumFunctionOnSet(con2[k][i], Procs)
  <2>1. PICK f, f2 : f = con[k][i] /\ f2 = con2[k][i]  OBVIOUS
  <2>2. IsFiniteSet(Procs)  BY ServerAssumption
  <2>3. /\ \A q \in Procs : f[q] \in Int /\ f2[q] \in Int
        /\ \A q \in Procs \ {p} : f2[q] = f[q]
        /\ f2[p] = f[p] + g
    BY <1>1, <1>6, <2>1
  <2>4. SumFunctionOnSet(f2, Procs) = (SumFunctionOnSet(f, Procs) - f[p]) + f2[p]
    <3>1. \A q \in Procs : f[q] \in Int /\ f2[q] \in Int  BY <2>3
    <3>2. \A q \in Procs \ {p} : f2[q] = f[q]  BY <2>3
    <3> QED BY ONLY p \in Procs, <2>2, <3>1, <3>2, SumChanged
  <2>5. SumFunctionOnSet(f, Procs) \in Int  BY <2>2, <2>3, SumInt
  <2>6. f[p] \in Int  BY <2>3
  <2>7. titem[k][i].sum <= SumFunctionOnSet(f, Procs)  BY <2>1 DEF Credited
  <2>8. titem[k][i].sum + g <= SumFunctionOnSet(f2, Procs)
    BY ONLY <1>2, <1>3, <2>3, <2>4, <2>5, <2>6, <2>7
  <2> QED BY <1>5, <2>1, <2>8
\* What the report has was counted when it was sent.
<1>9. con2[k][i][p] <= h[m.num][t]
  <2>1. con[k][i][p] + Gain(last, s) <= h[m.num][t]
    BY <1>3, <1>4 DEF Credited
  <2> QED BY <1>3, <1>6, <2>1
<1>10. ASSUME NEW q \in Procs
       PROVE  con2[k][i][q] + Gain(mapidnum'[k][i][q].sum, At(timesum[k][q][i], t))
                <= c[k][q][t]
  <2>1. CASE q = p
    <3>1. At(timesum[k][p][i], t) \in Nat
      <4>1. timesum[k][p][i] \in Items  BY DEF TimesInv, SumsType
      <4> QED BY <4>1, AtType
    <3>2. Gain(s, At(timesum[k][p][i], t)) \in Nat  BY <3>1, GainFacts
    <3>3. h[m.num][t] + Gain(s, At(timesum[k][p][i], t)) <= c[k][p][t]
      BY <1>4 DEF Ledger, SentCounted
    <3>4. h[m.num][t] \in Nat /\ c[k][p][t] \in Nat /\ con2[k][i][p] \in Nat
      BY <1>1, <1>2, <1>6
    <3>5. con2[k][i][p] + Gain(s, At(timesum[k][p][i], t)) <= c[k][p][t]
      BY ONLY <1>9, <3>2, <3>3, <3>4
    <3> QED BY <1>7, <2>1, <3>5
  <2>2. CASE q # p
    <3>1. con[k][i][q] + Gain(mapidnum[k][i][q].sum, At(timesum[k][q][i], t)) <= c[k][q][t]
      BY DEF Credited
    <3> QED BY <1>6, <1>7, <2>2, <3>1
  <2> QED BY <2>1, <2>2
<1>11. ASSUME NEW n \in net', n.key = k, newest'[k][n.proc] <= n.num
       PROVE  con2[k][i][n.proc] + Gain(mapidnum'[k][i][n.proc].sum, At(n.items[i], t))
                <= h[n.num][t]
  <2>1. PICK a \in net : /\ a.num = n.num /\ a.key = n.key
                         /\ a.proc = n.proc /\ a.items = n.items
    BY DEF SameReports
  <2>2. a.num \in Nat /\ a.proc \in Procs /\ a.items[i] \in Items /\ h[a.num][t] \in Nat
    BY <1>1 DEF TimesInv, SumsType, Reports
  <2>3. CASE a.proc = p
    <3>1. m.num <= a.num  BY <1>11, <2>1, <2>3
    <3>2. h[m.num][t] + Gain(s, At(a.items[i], t)) <= h[a.num][t]
      <4>1. m.key = a.key /\ m.proc = a.proc  BY <1>11, <2>1, <2>3
      <4>2. SentInOrder(h)  BY DEF Ledger
      <4>3. h[m.num][t] + Gain(At(m.items[i], t), At(a.items[i], t)) <= h[a.num][t]
        BY <3>1, <4>1, <4>2 DEF SentInOrder
      <4> QED BY <1>4, <4>3
    <3>3. h[m.num][t] \in Nat /\ con2[k][i][p] \in Nat  BY <1>1, <1>2, <1>6
    <3>4. Gain(s, At(a.items[i], t)) \in Nat
      <4>1. At(a.items[i], t) \in Nat  BY <2>2, AtType
      <4> QED BY <4>1, GainFacts
    <3>5. con2[k][i][p] + Gain(s, At(a.items[i], t)) <= h[a.num][t]
      BY ONLY <1>9, <2>2, <3>2, <3>3, <3>4
    <3> QED BY <1>7, <2>1, <2>3, <3>5
  <2>4. CASE a.proc # p
    <3>1. newest[k][a.proc] <= a.num  BY <1>11, <2>1, <2>2, <2>4
    <3>2. con[k][i][a.proc] + Gain(mapidnum[k][i][a.proc].sum, At(a.items[i], t))
            <= h[a.num][t]
      BY <1>11, <2>1, <3>1 DEF Credited
    <3> QED BY <1>6, <1>7, <2>1, <2>2, <2>4, <3>2
  <2> QED BY <2>3, <2>4
<1> QED BY <1>8, <1>10, <1>11 DEF Credited

\* What the addition is, whether or not it is taken for a reset.
LEMMA AddedGain ==
  ASSUME NEW slot \in Totals, NEW last \in Amounts, NEW item \in Items,
         ~Newer(slot, item), ~(item.timekey < slot.timekey)
  PROVE  /\ Added(slot, last, item).sum = slot.sum + Gain(last.sum, item.sum)
         /\ Added(slot, last, item).timekey = slot.timekey
<1>1. /\ slot.sum \in Int /\ item.sum \in Nat /\ last.sum \in Nat
      /\ item.refuse \in Int /\ item.setrefuse \in Int
      /\ last.refuse \in Int /\ last.setrefuse \in Int
      /\ item.sum \in Int /\ last.sum \in Int
  BY DEF Totals, Items, Amounts
<1>2. CASE IsReset(last, item)
  <2>1. Added(slot, last, item) = Plus(slot, item)  BY <1>2 DEF Added
  <2>2. Plus(slot, item).sum = slot.sum + item.sum
        /\ Plus(slot, item).timekey = slot.timekey
    BY <1>1, PlusMinus
  <2>3. Gain(last.sum, item.sum) = item.sum  BY <1>1, <1>2 DEF Gain, IsReset
  <2> QED BY <2>1, <2>2, <2>3
<1>3. CASE ~IsReset(last, item)
  <2>0. PICK less : less = Minus(slot, last)  OBVIOUS
  <2>1. Added(slot, last, item) = Plus(less, item)  BY <1>3, <2>0 DEF Added
  <2>2. less \in Totals /\ less.sum = slot.sum - last.sum /\ less.timekey = slot.timekey
    BY <1>1, <2>0, PlusMinus
  <2>3. Plus(less, item).sum = less.sum + item.sum /\ Plus(less, item).timekey = less.timekey
    BY <1>1, <2>2, PlusMinus
  <2>4. Gain(last.sum, item.sum) = item.sum - last.sum  BY <1>1, <1>3 DEF Gain, IsReset
  <2> QED BY <1>1, <2>1, <2>2, <2>3, <2>4
<1> QED BY <1>2, <1>3

LEMMA QueryTimes ==
  ASSUME TimesInv, SumsType', NEW m \in net, Query(m)
  PROVE  TimesInv'
<1> DEFINE k == m.key
           p == m.proc
           item(i) == m.items[i]
<1>1. SumsType  BY DEF TimesInv
<1>2. k \in Keys /\ p \in Procs /\ m.num \in Nat /\ m.items \in [Slots -> Items]
      /\ titem' = [titem EXCEPT ![k] = [i \in Slots |->
                  IF Told(m.items[i])
                  THEN Added(titem[k][i], mapidnum[k][i][p], m.items[i])
                  ELSE titem[k][i]]]
      /\ newest' = [newest EXCEPT ![k][p] = IF m.num > @ THEN m.num ELSE @]
      /\ UNCHANGED <<timesum, truth, sent, now>>
      /\ SameReports
  BY QuerySteps
<1>3. \A n \in net' : n.num <= sent /\ \A i \in Slots : n.items[i].timekey \in {0} \cup Times
  BY <1>2 DEF TimesInv, SameReports
<1>4. newest' \in [Keys -> [Procs -> Nat]]
  <2>1. newest \in [Keys -> [Procs -> Nat]]  BY DEF TimesInv
  <2> QED BY <1>2, <2>1
<1>5. ASSUME NEW l \in Keys, NEW i \in Slots
      PROVE  titem'[l][i].timekey \in {0} \cup Times
  <2>1. titem[l][i].timekey \in {0} \cup Times /\ m.items[i].timekey \in {0} \cup Times
    BY DEF TimesInv
  <2>2. CASE l = k /\ Told(m.items[i])
    <3>1. PICK slot \in Totals, last \in Amounts, e \in Items :
            slot = titem[k][i] /\ last = mapidnum[k][i][p] /\ e = m.items[i]
      BY <1>1, <1>2 DEF SumsType
    <3>2. titem'[l][i] = Added(slot, last, e)  BY <1>1, <1>2, <2>2, <3>1 DEF SumsType
    <3>3. CASE Newer(slot, e)
      <4>1. Added(slot, last, e) = e  BY <3>3 DEF Added
      <4> QED BY <2>1, <3>1, <3>2, <4>1
    <3>4. CASE ~Newer(slot, e) /\ e.timekey < slot.timekey
      <4>1. Added(slot, last, e) = slot  BY <3>4 DEF Added
      <4> QED BY <2>1, <2>2, <3>1, <3>2, <4>1
    <3>5. CASE ~Newer(slot, e) /\ ~(e.timekey < slot.timekey)
      <4>1. Added(slot, last, e).timekey = slot.timekey  BY <3>5, AddedGain
      <4> QED BY <2>1, <2>2, <3>1, <3>2, <4>1
    <3> QED BY <3>3, <3>4, <3>5
  <2>3. CASE ~(l = k /\ Told(m.items[i]))
    <3>1. titem'[l][i] = titem[l][i]  BY <1>1, <1>2, <2>3 DEF SumsType
    <3> QED BY <2>1, <3>1
  <2> QED BY <2>2, <2>3
<1>6. SumsType' /\ truth' \in [Keys -> [Times -> Nat]]
      /\ \A l \in Keys, q \in Procs, i \in Slots :
           timesum'[l][q][i].timekey \in {0} \cup Times
  BY <1>2 DEF TimesInv
<1> QED BY <1>2, <1>3, <1>4, <1>5, <1>6 DEF TimesInv

LEMMA LedgerQuery ==
  ASSUME TimesInv, TimesInv', NEW c, NEW h, NEW con, Ledger(c, h, con),
         NEW m \in net, Query(m)
  PROVE  \E con2 : Ledger(c, h, con2)'
<1>0. PICK k \in Keys, p \in Procs : k = m.key /\ p = m.proc
  BY DEF TimesInv, SumsType, Reports
<1> DEFINE item(i) == m.items[i]
           slot(i) == titem[k][i]
           last(i) == mapidnum[k][i][p]
<1>1. /\ m.num \in Nat
      /\ m.items \in [Slots -> Items]
      /\ titem' = [titem EXCEPT ![k] = [i \in Slots |->
                  IF Told(m.items[i])
                  THEN Added(titem[k][i], mapidnum[k][i][p], m.items[i])
                  ELSE titem[k][i]]]
      /\ mapidnum' = [mapidnum EXCEPT ![k] = [i \in Slots |->
                  IF Told(m.items[i])
                  THEN Remembered(mapidnum[k][i], titem[k][i], p, m.items[i])
                  ELSE mapidnum[k][i]]]
      /\ newest' = [newest EXCEPT ![k][p] = IF m.num > @ THEN m.num ELSE @]
      /\ disordered' = disordered \cup (IF m.num < newest[k][p] THEN {k} ELSE {})
      /\ UNCHANGED <<timesum, truth, sent, now>>
      /\ SameReports
  BY <1>0, QuerySteps
<1>2. /\ titem \in [Keys -> [Slots -> Totals]]
      /\ mapidnum \in [Keys -> [Slots -> [Procs -> Amounts]]]
      /\ newest \in [Keys -> [Procs -> Nat]]
      /\ SumsType
  BY DEF TimesInv, SumsType
<1>3. /\ c \in [Keys -> [Procs -> [Times -> Nat]]]
      /\ h \in [Nat -> [Times -> Nat]]
      /\ con \in [Keys -> [Slots -> [Procs -> Nat]]]
  BY DEF Ledger
<1>4. RingsStill  BY <1>1, <1>2, RingsSame
<1>5. CountedAll(c)' /\ RingsCounted(c)' /\ SentCounted(c, h)' /\ SentInOrder(h)'
  BY <1>1, <1>4, LedgerMoves
<1>6. PICK row : row = [i \in Slots |->
        IF ~Told(item(i)) \/ (~Newer(slot(i), item(i)) /\ item(i).timekey < slot(i).timekey)
        THEN con[k][i]
        ELSE IF Newer(slot(i), item(i))
        THEN [q \in Procs |-> IF q = p THEN item(i).sum ELSE 0]
        ELSE [con[k][i] EXCEPT ![p] = @ + Gain(last(i).sum, item(i).sum)]]
  OBVIOUS
<1>7. PICK con2 : con2 = [con EXCEPT ![k] = row]  OBVIOUS
<1>8. /\ con2 \in [Keys -> [Slots -> [Procs -> Nat]]]
      /\ con2[k] = row /\ \A l \in Keys \ {k} : con2[l] = con[l]
  <2>1. ASSUME NEW i \in Slots PROVE row[i] \in [Procs -> Nat]
    <3>1. item(i).sum \in Nat /\ last(i).sum \in Nat  BY <1>1, <1>2 DEF Items, Amounts
    <3>2. Gain(last(i).sum, item(i).sum) \in Nat  BY <3>1, GainFacts
    <3>3. con[k][i] \in [Procs -> Nat]  BY <1>3
    <3>4. con[k][i][p] + Gain(last(i).sum, item(i).sum) \in Nat  BY <3>2, <3>3
    <3> HIDE DEF item, slot, last
    <3>5. [con[k][i] EXCEPT ![p] = @ + Gain(last(i).sum, item(i).sum)] \in [Procs -> Nat]
      BY <3>3, <3>4
    <3>6. [q \in Procs |-> IF q = p THEN item(i).sum ELSE 0] \in [Procs -> Nat]
      BY <3>1
    <3> QED BY <1>6, <3>3, <3>5, <3>6
  <2>2. row = [i \in Slots |-> row[i]]  BY <1>6
  <2>3. row \in [Slots -> [Procs -> Nat]]  BY <2>1, <2>2
  <2> QED BY <1>3, <1>7, <2>3
<1>9. ASSUME NEW l \in Keys \ disordered', NEW i \in Slots, titem'[l][i].timekey > 0
      PROVE  Credited(c, h, con2, l, i, titem[l][i].timekey)'
  <2>1. PICK t : t = titem'[l][i].timekey  OBVIOUS
  <2>2. t # 0 /\ t > 0 /\ t \in Times
    <3>1. t # 0 /\ t > 0  BY <1>9, <2>1
    <3> QED BY <2>1, <3>1 DEF TimesInv
  <2>3. l \in Keys \ disordered  BY <1>1
  <2>4. \A q \in Procs : newest[l][q] <= newest'[l][q]
    <3>1. \A q \in Procs : newest[l][q] \in Nat  BY <1>2
    <3> QED BY <1>1, <1>2, <3>1
  <2>5. ASSUME titem'[l][i] = titem[l][i], mapidnum'[l][i] = mapidnum[l][i],
               con2[l][i] = con[l][i]
        PROVE  Credited(c, h, con2, l, i, t)'
    <3>1. Credited(c, h, con, l, i, t)  BY <2>1, <2>2, <2>3, <2>5 DEF Ledger
    <3> QED BY <1>1, <1>4, <2>2, <2>4, <2>5, <3>1, CreditStill
  <2>6. CASE l # k
    <3>1. titem'[l] = titem[l] /\ mapidnum'[l] = mapidnum[l] /\ con2[l] = con[l]
      BY <1>1, <1>2, <1>8, <2>6
    <3> QED BY <2>1, <2>5, <3>1
  <2>7. CASE l = k
    <3>0. PICK s \in Totals, f \in [Procs -> Amounts], e \in Items :
            s = titem[k][i] /\ f = mapidnum[k][i] /\ e = m.items[i]
      BY <1>1, <1>2
    <3>1. /\ titem'[k][i] = IF Told(e) THEN Added(s, f[p], e) ELSE s
          /\ mapidnum'[k][i] = IF Told(e) THEN Remembered(f, s, p, e) ELSE f
      BY <1>1, <1>2, <3>0
    <3>2. con2[k][i] =
            IF ~Told(e) \/ (~Newer(s, e) /\ e.timekey < s.timekey)
            THEN con[k][i]
            ELSE IF Newer(s, e) THEN [q \in Procs |-> IF q = p THEN e.sum ELSE 0]
            ELSE [con[k][i] EXCEPT ![p] = @ + Gain(f[p].sum, e.sum)]
      BY <1>6, <1>8, <3>0
    <3>3. m.num >= newest[k][p] /\ newest'[k][p] = m.num
          /\ \A q \in Procs \ {p} : newest'[k][q] = newest[k][q]
      <4>1. ~(m.num < newest[k][p])  BY <1>1, <1>9, <2>7
      <4>2. newest[k][p] \in Nat  BY <1>2
      <4>3. newest'[k] = [newest[k] EXCEPT ![p] = IF m.num > @ THEN m.num ELSE @]
        BY <1>1, <1>2
      <4>4. newest[k] \in [Procs -> Nat]  BY <1>2
      <4>5. newest'[k][p] = IF m.num > newest[k][p] THEN m.num ELSE newest[k][p]
        BY <4>3, <4>4
      <4>6. \A q \in Procs \ {p} : newest'[k][q] = newest[k][q]  BY <4>3, <4>4
      <4>7. m.num \in Nat  BY <1>1
      <4>8. m.num >= newest[k][p] /\ newest'[k][p] = m.num
        BY ONLY <4>1, <4>2, <4>5, <4>7
      <4> QED BY <4>6, <4>8
    <3>4. CASE ~Told(e) \/ (~Newer(s, e) /\ e.timekey < s.timekey)
      <4>1. titem'[k][i] = s /\ mapidnum'[k][i] = f /\ con2[k][i] = con[k][i]
        BY <3>1, <3>2, <3>4 DEF Added, Remembered
      <4> QED BY <2>1, <2>5, <2>7, <3>0, <4>1
    <3>5. CASE Told(e) /\ Newer(s, e)
      <4>1. /\ titem'[k][i] = e
            /\ mapidnum'[k][i] = [q \in Procs |-> IF q = p THEN Data(e) ELSE NoData]
            /\ con2[k][i] = [q \in Procs |-> IF q = p THEN e.sum ELSE 0]
        BY <3>1, <3>2, <3>5 DEF Added, Remembered
      <4>2. e.timekey = t  BY <2>1, <2>7, <4>1
      <4>3. Credited(c, h, con2, k, i, t)'
        <5>1. /\ titem'[k][i] = m.items[i] /\ m.items[i].timekey = t
              /\ mapidnum'[k][i] = [q \in Procs |-> IF q = p THEN Data(m.items[i])
                                                    ELSE NoData]
              /\ con2[k][i] = [q \in Procs |-> IF q = p THEN m.items[i].sum ELSE 0]
          BY <3>0, <4>1, <4>2
        <5>2. m.key = k /\ m.proc = p /\ newest'[k][p] = m.num
              /\ SameReports /\ timesum' = timesum
          BY <1>0, <1>1, <3>3
        <5>4. TimesInv /\ TimesInv' /\ Ledger(c, h, con) /\ m \in net /\ k \in Keys
              /\ p \in Procs /\ i \in Slots
          OBVIOUS
        <5> QED BY ONLY <5>4, <2>2, <5>1, <5>2, CreditRolled
      <4> QED BY <2>1, <2>7, <4>3
    <3>6. CASE Told(e) /\ ~Newer(s, e) /\ ~(e.timekey < s.timekey)
      <4>1. /\ Added(s, f[p], e).sum = s.sum + Gain(f[p].sum, e.sum)
            /\ Added(s, f[p], e).timekey = s.timekey
        BY <3>0, <3>6, AddedGain
      <4>2. /\ titem'[k][i].sum = s.sum + Gain(f[p].sum, e.sum) /\ s.timekey = t
            /\ mapidnum'[k][i] = [f EXCEPT ![p] = Data(e)]
            /\ con2[k][i] = [con[k][i] EXCEPT ![p] = @ + Gain(f[p].sum, e.sum)]
        BY <2>1, <2>7, <3>1, <3>2, <3>6, <4>1 DEF Remembered
      <4>3. e.timekey = t
        <5>1. e.timekey \in Nat /\ s.timekey \in Nat  BY <3>0 DEF Items, Totals
        <5> QED BY <3>6, <4>2, <5>1 DEF Newer
      <4>4. Credited(c, h, con, k, i, t)
        BY <2>2, <2>3, <2>7, <3>0, <4>2 DEF Ledger
      <4>5. Credited(c, h, con2, k, i, t)'
        <5>1. AddsItem(m, k, p, i, t, con, con2)
          BY <3>0, <4>2, <4>3 DEF AddsItem
        <5>2. Delivered(m, k, p)
          <6>1. m.num \in Nat /\ newest[k][p] \in Nat  BY <1>1, <1>2
          <6> QED BY <1>0, <1>1, <3>3, <6>1 DEF Delivered
        <5>4. TimesInv /\ TimesInv' /\ Ledger(c, h, con) /\ m \in net /\ k \in Keys
              /\ p \in Procs /\ i \in Slots
          OBVIOUS
        <5>5. t \in Times  BY ONLY <2>2
        <5> QED
          BY ONLY <5>4, <5>5, <4>4, <5>1, <5>2, CreditAdded
      <4> QED BY <2>1, <2>7, <4>5
    <3> QED BY <3>4, <3>5, <3>6
  <2> QED BY <2>6, <2>7
<1>10. Ledger(c, h, con2)'
  BY <1>3, <1>5, <1>8, <1>9 DEF Ledger
<1> QED BY <1>10

-----------------------------------------------------------------------------
\* The other steps count nothing, send nothing and handle no report.
Quiet ==
  /\ net' \subseteq net /\ UNCHANGED <<truth, disordered, newest, sent, stitem>>
  /\ \/ timesum' = timesum
     \/ \E p \in Procs : timesum' = [k \in Keys |-> [timesum[k] EXCEPT ![p] = NoRing]]
  /\ \A k \in Keys, i \in Slots :
       \/ titem'[k][i].timekey = 0
       \/ titem'[k][i] = titem[k][i] /\ mapidnum'[k][i] = mapidnum[k][i]

LEMMA OtherQuiet ==
  ASSUME \/ \E p \in Procs : Restart(p)
         \/ \E m \in net : Lose(m)
         \/ ClearData
         \/ Tick
         \/ \E d \in calls : SetFails(d) \/ \E qs : SetAnswered(d, qs)
         \/ UNCHANGED vars
  PROVE  Quiet
<1>1. ASSUME NEW p \in Procs, Restart(p) PROVE Quiet
  <2>1. /\ timesum' = [k \in Keys |-> [timesum[k] EXCEPT ![p] = NoRing]]
        /\ UNCHANGED <<truth, disordered, newest, sent, net, titem, mapidnum, stitem>>
    BY <1>1 DEF Restart, stats, history
  <2> QED BY <2>1 DEF Quiet
<1>2. ASSUME NEW m \in net, Lose(m) PROVE Quiet
  <2>1. /\ timesum' = timesum /\ net' \subseteq net
        /\ UNCHANGED <<truth, disordered, newest, sent, titem, mapidnum, stitem>>
    BY <1>2 DEF Lose, stats, history
  <2> QED BY <2>1 DEF Quiet
<1>3. CASE ClearData
  <2>1. /\ titem' = [k \in Keys |-> IF now - updatetime[k] > Expire
                                    THEN NoRing ELSE titem[k]]
        /\ mapidnum' = [k \in Keys |-> IF now - updatetime[k] > Expire
                          THEN [i \in Slots |-> [p \in Procs |-> NoData]]
                          ELSE mapidnum[k]]
        /\ UNCHANGED <<timesum, truth, disordered, newest, sent, net, stitem>>
    BY <1>3 DEF ClearData, clients
  <2>2. \A i \in Slots : NoRing[i].timekey = 0  BY DEF NoRing, NoSlot
  <2>3. \A k \in Keys, i \in Slots :
          \/ titem'[k][i].timekey = 0
          \/ titem'[k][i] = titem[k][i] /\ mapidnum'[k][i] = mapidnum[k][i]
    BY <2>1, <2>2
  <2> QED BY <2>1, <2>3 DEF Quiet
<1>4. CASE Tick \/ (\E d \in calls : SetFails(d) \/ \E qs : SetAnswered(d, qs))
           \/ UNCHANGED vars
  <2>1. UNCHANGED <<timesum, truth, disordered, newest, sent, net, titem, mapidnum, stitem>>
    BY <1>4 DEF Tick, SetFails, SetAnswered, vars, clients, stats, history
  <2> QED BY <2>1 DEF Quiet
<1> QED BY <1>1, <1>2, <1>3, <1>4

LEMMA QuietMoves ==
  ASSUME TimesInv, SumsType', Quiet
  PROVE  TimesInv' /\ RingsStill /\ SameReports
<1>1. \A i \in Slots : NoRing[i] = NoSlot  BY DEF NoRing
<1>2. NoSlot.timekey = 0 /\ NoSlot.sum = 0  BY DEF NoSlot
<1>3. \A k \in Keys, q \in Procs, i \in Slots :
        timesum'[k][q][i] = timesum[k][q][i] \/ timesum'[k][q][i] = NoSlot
  <2>1. timesum \in [Keys -> [Procs -> [Slots -> Items]]]  BY DEF TimesInv, SumsType
  <2>2. CASE timesum' = timesum  BY ONLY <2>2
  <2>3. ASSUME NEW r \in Procs, timesum' = [k \in Keys |-> [timesum[k] EXCEPT ![r] = NoRing]]
        PROVE  \A k \in Keys, q \in Procs, i \in Slots :
                 timesum'[k][q][i] = timesum[k][q][i] \/ timesum'[k][q][i] = NoSlot
    BY ONLY <1>1, <2>1, <2>3
  <2> QED BY <2>2, <2>3 DEF Quiet
<1>4. TimesInv'
  <2>1. \A k \in Keys, p \in Procs, i \in Slots :
          timesum'[k][p][i].timekey \in {0} \cup Times
    BY <1>2, <1>3 DEF TimesInv
  <2>2. \A k \in Keys, i \in Slots : titem'[k][i].timekey \in {0} \cup Times
    BY DEF TimesInv, Quiet
  <2> QED BY <2>1, <2>2 DEF TimesInv, Quiet
<1>5. RingsStill
  <2> SUFFICES ASSUME NEW l \in Keys, NEW q \in Procs, NEW i \in Slots, NEW t \in Times
               PROVE  Moved(timesum[l][q][i], timesum'[l][q][i], t, 0)
    BY DEF RingsStill
  <2>1. timesum[l][q][i] \in Items  BY DEF TimesInv, SumsType
  <2>2. CASE timesum'[l][q][i] = timesum[l][q][i]  BY <2>1, <2>2, MovedSame
  <2>3. CASE timesum'[l][q][i] = NoSlot
    <3>1. At(NoSlot, t) = 0  BY <1>2 DEF At
    <3> QED BY <2>1, <2>3, <3>1, MovedGone
  <2> QED BY <1>3, <2>2, <2>3
<1>6. SameReports  BY DEF SameReports, Quiet
<1> QED BY <1>4, <1>5, <1>6

LEMMA LedgerQuiet ==
  ASSUME TimesInv, TimesInv', RingsStill, SameReports, Quiet,
         NEW c, NEW h, NEW con, Ledger(c, h, con)
  PROVE  Ledger(c, h, con)'
BY LedgerStill DEF Quiet

LEMMA LedgerNext == SumsInv /\ LedgerInv /\ [Next]_vars => LedgerInv'
<1> SUFFICES ASSUME SumsInv, LedgerInv, [Next]_vars PROVE LedgerInv'  OBVIOUS
<1>1. TimesInv /\ SumsType'  BY SumsNext DEF LedgerInv, SumsInv
<1>2. PICK c, h, con : Ledger(c, h, con)  BY DEF LedgerInv
<1>3. ASSUME NEW k \in Keys, NEW p \in Procs, NEW b \in Batches, Report(k, p, b)
      PROVE  LedgerInv'
  <2>1. TimesInv'  BY <1>1, <1>3, ReportTimes
  <2>2. \E c2, h2 : Ledger(c2, h2, con)' /\ Grown(c, h, c2, h2)
    BY <1>1, <1>2, <1>3, <2>1, LedgerReport
  <2> QED BY <2>1, <2>2 DEF LedgerInv
<1>4. ASSUME NEW m \in net, Query(m) PROVE LedgerInv'
  <2>1. TimesInv'  BY <1>1, <1>4, QueryTimes
  <2>2. \E con2 : Ledger(c, h, con2)'  BY <1>1, <1>2, <1>4, <2>1, LedgerQuery
  <2> QED BY <2>1, <2>2 DEF LedgerInv
<1>5. ASSUME Quiet PROVE LedgerInv'
  <2>1. TimesInv' /\ RingsStill /\ SameReports  BY <1>1, <1>5, QuietMoves
  <2>2. Ledger(c, h, con)'  BY <1>1, <1>2, <1>5, <2>1, LedgerQuiet
  <2> QED BY <2>1, <2>2 DEF LedgerInv
<1> QED BY <1>3, <1>4, <1>5, OtherQuiet DEF Next

\* However reports are lost, sent again and delayed, and however often the
\* clients restart, no request is counted twice: only a report handled after a
\* newer one of its processor makes the server do so (ServiceQua.cpp, 1271-1272).
THEOREM NoRequestCountedTwice == Spec => []OvercountOnlyByDisorder
<1>1. LedgerInv => OvercountOnlyByDisorder
  <2> SUFFICES ASSUME LedgerInv, NEW k \in Keys \ disordered, NEW i \in Slots,
                      titem[k][i].timekey > 0
               PROVE  titem[k][i].sum <= truth[k][titem[k][i].timekey]
    BY DEF OvercountOnlyByDisorder
  <2>1. PICK c, h, con : Ledger(c, h, con)  BY DEF LedgerInv
  <2>2. PICK t : t = titem[k][i].timekey  OBVIOUS
  <2>3. t \in Times
    <3>1. t # 0  BY <2>2
    <3> QED BY <2>2, <3>1 DEF LedgerInv, TimesInv
  <2>4. Credited(c, h, con, k, i, t)  BY <2>1, <2>2 DEF Ledger
  <2>5. PICK f, g : f = con[k][i] /\ g = [p \in Procs |-> c[k][p][t]]  OBVIOUS
  <2>6. ASSUME NEW p \in Procs PROVE f[p] \in Int /\ g[p] \in Int /\ f[p] <= g[p]
    <3>1. mapidnum[k][i][p].sum \in Nat /\ timesum[k][p][i] \in Items
      BY DEF LedgerInv, TimesInv, SumsType, Amounts
    <3>2. At(timesum[k][p][i], t) \in Nat  BY <3>1, AtType
    <3>3. Gain(mapidnum[k][i][p].sum, At(timesum[k][p][i], t)) \in Nat
      BY <3>1, <3>2, GainFacts
    <3>4. f[p] + Gain(mapidnum[k][i][p].sum, At(timesum[k][p][i], t)) <= g[p]
      BY <2>4, <2>5 DEF Credited
    <3>5. f[p] \in Nat /\ g[p] \in Nat  BY <2>1, <2>3, <2>5 DEF Ledger
    <3> QED BY ONLY <3>3, <3>4, <3>5
  <2>7. IsFiniteSet(Procs)  BY ServerAssumption
  <2>8. SumFunctionOnSet(f, Procs) <= SumFunctionOnSet(g, Procs)
        /\ SumFunctionOnSet(f, Procs) \in Int /\ SumFunctionOnSet(g, Procs) \in Int
    BY <2>6, <2>7, SumLess, SumInt
  <2>9. titem[k][i].sum <= SumFunctionOnSet(f, Procs)  BY <2>4, <2>5 DEF Credited
  <2>10. truth[k][t] = SumFunctionOnSet(g, Procs)
    BY <2>1, <2>3, <2>5 DEF Ledger, CountedAll
  <2>11. titem[k][i].sum \in Int  BY DEF LedgerInv, TimesInv, SumsType, Totals
  <2>12. titem[k][i].sum <= SumFunctionOnSet(g, Procs)
    BY ONLY <2>8, <2>9, <2>11
  <2> QED BY <2>2, <2>10, <2>12
<1> QED BY <1>1, LedgerInit, LedgerNext, SumsInit, SumsNext, PTL DEF Spec

-----------------------------------------------------------------------------
\* Both levels.

\* The answer there is, and the request still to be handled that has the number
\* of the last call, are those of the call that waits; and the second level
\* never gives more than an int32_t.
LevelsInv ==
  /\ asked \in Nat
  /\ \A a \in asks : a.num \in Nat /\ a.num <= asked
  /\ \A a \in asks, c \in calls : a.num = asked => DOMAIN a.procs = c.procs
  /\ \A g \in given :
       /\ calls # {}
       /\ g \in [DOMAIN g -> ProcQuotas]
       /\ \A c \in calls : DOMAIN g \subseteq c.procs \cap Grouped
  /\ "quota" \in DOMAIN setdata /\ setdata.quota \in 0 .. MaxInt

LEMMA PartWithin ==
  ASSUME NEW a \in Nat, NEW b \in Nat \ {0}
  PROVE  a \div b \in Nat /\ a \div b <= a
  OBVIOUS

LEMMA ProcQuotaWithin ==
  ASSUME NEW d, NEW valid, d.quota \in 0 .. MaxInt, ProcQuota(d, valid) > 0
  PROVE  ProcQuota(d, valid) \in 1 .. MaxInt
  <1>1. WorkerNum \in Nat /\ MaxInt \in Nat
    BY SetAssumption
  <1>2. GetAverQ(d) \in Nat /\ GetAverQ(d) <= MaxInt
    BY <1>1, PartWithin DEF GetAverQ
  <1>3. CASE GetProcQ(d, valid) \in 1 .. MaxInt
    BY <1>3 DEF ProcQuota
  <1>4. CASE GetProcQ(d, valid) \notin 1 .. MaxInt
    <2>1. ProcQuota(d, valid) = GetAverQ(d)
      BY <1>4 DEF ProcQuota
    <2> QED
      BY <1>1, <1>2, <2>1
  <1> QED
    BY <1>3, <1>4

LEMMA SetTakenQuota ==
  ASSUME NEW items, "quota" \in DOMAIN setdata, setdata.quota \in 0 .. MaxInt
  PROVE  /\ "quota" \in DOMAIN SetTaken(items)
         /\ SetTaken(items).quota \in 0 .. MaxInt
  <1>1. DOMAIN Taken(setdata, items) = DOMAIN setdata
        /\ Taken(setdata, items).quota = setdata.quota
    BY DEF Taken
  <1>2. SetQuota \in 0 .. MaxInt
    BY SetAssumption
  <1>3. /\ DOMAIN SetTaken(items) = DOMAIN setdata
        /\ \/ SetTaken(items).quota = SetQuota
           \/ SetTaken(items).quota = setdata.quota
    BY <1>1 DEF SetTaken
  <1> QED
    BY <1>2, <1>3

LEMMA LevelsInit == SetInit => LevelsInv
  BY SetAssumption DEF SetInit, LevelsInv, Init

\* What the second level does is a stutter of the first.
LEMMA SecondHandles ==
  ASSUME LevelsInv, NEW a \in asks, ProSETQuota(a) PROVE LevelsInv'
  <1> DEFINE q(p) == ProcQuota(setdata', ProcValid(p, setprocdata'[p]))
             told == {p \in DOMAIN a.procs \cap Grouped : q(p) > 0}
             g    == [p \in told |-> q(p)]
  <1>1. /\ asked' = asked /\ calls' = calls /\ asks' = asks \ {a}
        /\ setdata' = SetTaken(a.items)
    BY DEF ProSETQuota, vars, set
  <1>2. "quota" \in DOMAIN setdata' /\ setdata'.quota \in 0 .. MaxInt
    BY <1>1, SetTakenQuota DEF LevelsInv
  <1>3. \A p \in told : q(p) \in 1 .. MaxInt
    BY <1>2, ProcQuotaWithin
  <1>4. \/ given' = given
        \/ given' = {g} /\ calls # {} /\ a.num = asked
    BY DEF ProSETQuota
  <1>5. g \in [told -> ProcQuotas] /\ DOMAIN g = told
    BY <1>3, SetAssumption
  <1>6. a.num = asked => \A c \in calls : told \subseteq c.procs \cap Grouped
    BY DEF LevelsInv
  <1> HIDE DEF g, told
  <1>7. \A h \in given' :
          /\ calls # {}
          /\ h \in [DOMAIN h -> ProcQuotas]
          /\ \A c \in calls : DOMAIN h \subseteq c.procs \cap Grouped
    BY <1>4, <1>5, <1>6 DEF LevelsInv
  <1> QED
    BY <1>1, <1>2, <1>7 DEF LevelsInv

LEMMA FirstAsks ==
  ASSUME CallInv, LevelsInv, NEW m \in net, QueryAsks(m) PROVE LevelsInv'
  <1>1. /\ UNCHANGED <<given, setdata>>
        /\ asked' = asked + Cardinality(calls' \ calls)
        /\ asks' = asks \cup {[num |-> asked + 1, items |-> stitem',
                             procs |-> [p \in c.procs |-> procitem'[p]]] :
                            c \in calls' \ calls}
    BY DEF QueryAsks
  <1>2. \E c : AskSet(c) \/ AnswerAtOnce(c)
    BY DEF QueryAsks, Query
  <1>3. CASE \E c : AnswerAtOnce(c)
    <2>1. calls' \ calls = {} /\ calls' = calls
      BY <1>3 DEF AnswerAtOnce
    <2>3. Cardinality(calls' \ calls) = 0
      BY <2>1, FS_EmptySet
    <2>2. asked' = asked /\ asks' = asks
      BY <1>1, <2>1, <2>3 DEF LevelsInv
    <2> QED
      BY <1>1, <2>1, <2>2 DEF LevelsInv
  <1>4. ASSUME NEW c, AskSet(c) PROVE LevelsInv'
    <2> DEFINE d == [proc |-> c.proc, localq |-> c.localq, valid |-> c.valid,
                     at |-> now, procs |-> setproc \cup {c.proc}]
               b == [num |-> asked + 1, items |-> stitem',
                     procs |-> [p \in d.procs |-> procitem'[p]]]
    <2>1. calls = {}
      BY <1>4 DEF AskSet, SetDue, CallInv
    <2>2. calls' = {d} /\ calls' \ calls = {d}
      BY <1>4, <2>1 DEF AskSet
    <2>3. b.num = asked + 1 /\ DOMAIN b.procs = d.procs
      OBVIOUS
    <2>4. asked' = asked + 1
      BY <1>1, <2>2, FS_Singleton
    <2>5. asks' = asks \cup {b}
      BY <1>1, <2>2
    <2>6. given' = {}
      BY <1>1, <2>1 DEF LevelsInv
    <2> HIDE DEF b, d
    <2>7. \A a \in asks' : a.num \in Nat /\ a.num <= asked'
      BY <2>3, <2>4, <2>5 DEF LevelsInv
    <2>8. \A a \in asks' : a.num = asked' => DOMAIN a.procs = d.procs
      BY <2>3, <2>4, <2>5 DEF LevelsInv
    <2>9. asked' \in Nat
      BY <2>4 DEF LevelsInv
    <2> QED
      BY <1>1, <2>2, <2>6, <2>7, <2>8, <2>9 DEF LevelsInv
  <1> QED
    BY <1>2, <1>3, <1>4

LEMMA LevelsStep ==
  ASSUME CallInv, LevelsInv, [SetNext]_allvars
  PROVE  [Next]_vars /\ LevelsInv'
  <1>1. ASSUME UNCHANGED <<calls, second>> PROVE LevelsInv'
    BY <1>1 DEF LevelsInv, second
  <1>2. ASSUME NEW m \in net, QueryAsks(m) PROVE [Next]_vars /\ LevelsInv'
    BY <1>2, FirstAsks DEF QueryAsks, Next
  <1>3. ASSUME NEW a \in asks, ProSETQuota(a) PROVE [Next]_vars /\ LevelsInv'
    BY <1>3, SecondHandles DEF ProSETQuota
  <1>4. ASSUME NEW c \in calls, CallAnswered(c)
        PROVE  [Next]_vars /\ LevelsInv'
    <2>1. PICK g \in given : SetAnswered(c, g)
      BY <1>4 DEF CallAnswered
    <2>2. /\ DOMAIN g \in SUBSET (c.procs \cap Grouped)
          /\ g \in [DOMAIN g -> ProcQuotas]
      BY DEF LevelsInv
    <2>3. Next
      BY <2>1, <2>2 DEF Next
    <2>4. calls' = {}
      BY <2>1 DEF SetAnswered, Unlock, CallInv
    <2>5. given' = {} /\ UNCHANGED <<asks, asked, setdata>>
      BY <1>4 DEF CallAnswered
    <2> QED
      BY <2>3, <2>4, <2>5 DEF LevelsInv
  <1>5. ASSUME NEW c \in calls, CallFails(c) PROVE [Next]_vars /\ LevelsInv'
    <2>1. Next
      BY <1>5 DEF CallFails, Next
    <2>2. calls' = {}
      BY <1>5 DEF CallFails, SetFails, Unlock, CallInv
    <2>3. given' = {} /\ UNCHANGED <<asks, asked, setdata>>
      BY <1>5 DEF CallFails
    <2> QED
      BY <2>1, <2>2, <2>3 DEF LevelsInv
  <1>6. ASSUME Apart, UNCHANGED second PROVE [Next]_vars /\ LevelsInv'
    <2>1. Next
      BY <1>6 DEF Apart, Next
    <2>2. calls' = calls
      BY <1>6 DEF Apart, Report, Restart, Lose, ClearData, Tick, set
    <2> QED
      BY <1>1, <1>6, <2>1, <2>2
  <1>7. CASE UNCHANGED allvars
    BY <1>1, <1>7 DEF allvars, vars, set
  <1> QED
    BY <1>2, <1>3, <1>4, <1>5, <1>6, <1>7 DEF SetNext

\* The two levels together do what the first level promises whatever the
\* second answers: requests handled late, or after their call has failed, are
\* stutters of it, and the answer taken is one to the call that waits
\* (ServiceQua.cpp, 1392-1490 and 1556-1777).
THEOREM LevelsImplement == SetSpec => Spec
  <1>1. SetInit => Init
    BY DEF SetInit
  <1> QED
    BY <1>1, CallInit, CallNext, LevelsInit, LevelsStep, PTL DEF SetSpec, Spec

\* Hence over both levels the call is exclusive, its answers set no time back,
\* quotas of keys are for steady processors only and never above the key's, and
\* no request of a key is counted twice.
THEOREM LevelsKeepPromises ==
  SetSpec => /\ []SetCallExclusive
             /\ SetTimesAdvance
             /\ []QuotaOnlyToSteady
             /\ []ShareWithinQuota
             /\ []ActSumsCover
             /\ []OvercountOnlyByDisorder
  BY LevelsImplement, SetLockExclusive, SetTimesNeverGoBack, QuotaForSteadyOnly,
     ShareNeverAboveQuota, SumsCoverReports, NoRequestCountedTwice

-----------------------------------------------------------------------------
\* Nothing is counted twice at the second level either.

\* The slots of the set at the first level, and what a report of them can be
\* followed by: later times, or more of the same.
Rings == [Slots -> Totals]
Before(x, y) ==
  \A i \in Slots : \/ x[i].timekey < y[i].timekey
                   \/ x[i].timekey = y[i].timekey /\ x[i].sum <= y[i].sum

SumAll(f) ==
  SumFunctionOnSet([k \in Keys |-> SumFunctionOnSet(f[k], Procs)], Keys)
SetTruth(tr, t) == SumFunctionOnSet([k \in Keys |-> tr[k][t]], Keys)

\* Slots that have no more than was really counted.
Backed(ring, tr) ==
  \A i \in Slots :
    ring[i].timekey > 0 => /\ ring[i].timekey \in Times
                           /\ ring[i].sum <= SetTruth(tr, ring[i].timekey)

\* x requests that the set has counted for the processor p and the key k in the
\* slot i of the time t: they were counted, and reported; and when the slot of
\* the key still says what p has reported of t, so is what p would add to them.
Kept(c, h, x, k, p, i, t) ==
  /\ x <= c[k][p][t]
  /\ x > 0 => p \in SetProcs /\ <<k, p, t>> \in counted
  /\ titem[k][i].timekey = t /\ mapidnum[k][i][p].sum > 0 =>
       /\ x + Gain(mapidnum[k][i][p].sum, At(timesum[k][p][i], t)) <= c[k][p][t]
       /\ \A m \in net : m.key = k /\ m.proc = p /\ newest[k][p] <= m.num =>
            x + Gain(mapidnum[k][i][p].sum, At(m.items[i], t)) <= h[m.num][t]

SetCredited(c, h, f, i, t) ==
  /\ stitem[i].sum <= SumAll(f)
  /\ \A k \in Keys, p \in Procs : Kept(c, h, f[k][p], k, p, i, t)

\* The ledger, with what the set has counted: sc[i][k][p].
SetLedger(c, h, sc) ==
  /\ sc \in [Slots -> [Keys -> [Procs -> Nat]]]
  /\ disordered = {} /\ readded = {} =>
       \A i \in Slots :
         stitem[i].timekey > 0 => SetCredited(c, h, sc[i], i, stitem[i].timekey)

SetInv ==
  /\ TimesInv
  /\ stitem \in Rings
  /\ \A i \in Slots : stitem[i].timekey \in {0} \cup Times
  /\ \E c, h, con, sc : Ledger(c, h, con) /\ SetLedger(c, h, sc)

LEMMA SumAllType ==
  ASSUME NEW f \in [Keys -> [Procs -> Nat]]
  PROVE  SumAll(f) \in Int
<1>1. IsFiniteSet(Keys) /\ IsFiniteSet(Procs)  BY SetAssumption, ServerAssumption
<1> DEFINE g == [k \in Keys |-> SumFunctionOnSet(f[k], Procs)]
<1>2. ASSUME NEW k \in Keys PROVE g[k] \in Int
  <2>1. \A p \in Procs : f[k][p] \in Int  OBVIOUS
  <2>2. SumFunctionOnSet(f[k], Procs) \in Int  BY <1>1, <2>1, SumInt
  <2> QED BY <2>2
<1> HIDE DEF g
<1>3. SumFunctionOnSet(g, Keys) \in Int  BY <1>1, <1>2, SumInt
<1> QED BY <1>3 DEF SumAll, g

LEMMA SumAllChanged ==
  ASSUME NEW f \in [Keys -> [Procs -> Nat]], NEW k \in Keys, NEW p \in Procs,
         NEW f2 \in [Keys -> [Procs -> Nat]],
         \A l \in Keys, q \in Procs : ~(l = k /\ q = p) => f2[l][q] = f[l][q]
  PROVE  SumAll(f2) = SumAll(f) + (f2[k][p] - f[k][p])
<1>1. IsFiniteSet(Keys) /\ IsFiniteSet(Procs)  BY SetAssumption, ServerAssumption
<1>2. PICK d : d = f2[k][p] - f[k][p]  OBVIOUS
<1>3. /\ f2[k][p] = f[k][p] + d /\ d \in Int
      /\ \A q \in Procs \ {p} : f2[k][q] = f[k][q]
      /\ \A l \in Keys \ {k} : f2[l] = f[l]
  <2>1. ASSUME NEW l \in Keys \ {k} PROVE f2[l] = f[l]
    <3>1. f2[l] \in [Procs -> Nat] /\ f[l] \in [Procs -> Nat]  OBVIOUS
    <3>2. \A q \in Procs : f2[l][q] = f[l][q]  OBVIOUS
    <3> QED BY <3>1, <3>2
  <2>2. f2[k][p] \in Nat /\ f[k][p] \in Nat  OBVIOUS
  <2>3. f2[k][p] = f[k][p] + d /\ d \in Int  BY <1>2, <2>2
  <2> QED BY <2>1, <2>3
<1> DEFINE g == [l \in Keys |-> SumFunctionOnSet(f[l], Procs)]
           g2 == [l \in Keys |-> SumFunctionOnSet(f2[l], Procs)]
<1>4. ASSUME NEW l \in Keys PROVE g[l] \in Int /\ g2[l] \in Int
  <2>1. \A q \in Procs : f[l][q] \in Int /\ f2[l][q] \in Int  BY <1>3
  <2>2. SumFunctionOnSet(f[l], Procs) \in Int  BY <1>1, <2>1, SumInt
  <2>3. SumFunctionOnSet(f2[l], Procs) \in Int  BY <1>1, <2>1, SumInt
  <2> QED BY <2>2, <2>3
<1>5. \A l \in Keys \ {k} : g2[l] = g[l]  BY <1>3
<1>6. g2[k] = g[k] + d
  <2>1. PICK u, v : u = f[k] /\ v = f2[k]  OBVIOUS
  <2>2. \A q \in Procs : u[q] \in Int /\ v[q] \in Int  BY <1>3, <2>1
  <2>3. \A q \in Procs \ {p} : v[q] = u[q]  BY <1>3, <2>1
  <2>4. SumFunctionOnSet(v, Procs) = (SumFunctionOnSet(u, Procs) - u[p]) + v[p]
    <3>1. IsFiniteSet(Procs) /\ IsFiniteSet(Procs \ {p})  BY <1>1, FS_RemoveElement
    <3>2. SumFunctionOnSet(u, Procs) = u[p] + SumFunctionOnSet(u, Procs \ {p})
      BY <2>2, <3>1, SumSplit
    <3>3. SumFunctionOnSet(v, Procs) = v[p] + SumFunctionOnSet(v, Procs \ {p})
      BY <2>2, <3>1, SumSplit
    <3>4. \A q \in Procs \ {p} : u[q] \in Int /\ v[q] = u[q]  BY <2>2, <2>3
    <3>5. SumFunctionOnSet(u, Procs \ {p}) = SumFunctionOnSet(v, Procs \ {p})
      BY <3>1, <3>4, SumSame
    <3>6. SumFunctionOnSet(u, Procs \ {p}) \in Int  BY <3>1, <3>4, SumInt
    <3>7. u[p] \in Int /\ v[p] \in Int  BY <2>2
    <3> QED BY ONLY <3>2, <3>3, <3>5, <3>6, <3>7
  <2>5. SumFunctionOnSet(u, Procs) \in Int /\ u[p] \in Int /\ v[p] = u[p] + d
    BY <1>3, <1>4, <2>1
  <2>6. SumFunctionOnSet(v, Procs) = SumFunctionOnSet(u, Procs) + d
    BY ONLY <2>4, <2>5, <1>3
  <2> QED BY <2>1, <2>6
<1>7. SumAll(f) = SumFunctionOnSet(g, Keys) /\ SumAll(f2) = SumFunctionOnSet(g2, Keys)
  BY DEF SumAll
<1> HIDE DEF g, g2
<1>8. SumFunctionOnSet(g2, Keys) = (SumFunctionOnSet(g, Keys) - g[k]) + g2[k]
  <2>1. IsFiniteSet(Keys) /\ IsFiniteSet(Keys \ {k})  BY <1>1, FS_RemoveElement
  <2>2. \A l \in Keys : g[l] \in Int /\ g2[l] \in Int  BY <1>4
  <2>3. SumFunctionOnSet(g, Keys) = g[k] + SumFunctionOnSet(g, Keys \ {k})
    BY <2>1, <2>2, SumSplit
  <2>4. SumFunctionOnSet(g2, Keys) = g2[k] + SumFunctionOnSet(g2, Keys \ {k})
    BY <2>1, <2>2, SumSplit
  <2>5. \A l \in Keys \ {k} : g[l] \in Int /\ g2[l] = g[l]  BY <1>5, <2>2
  <2>6. SumFunctionOnSet(g, Keys \ {k}) = SumFunctionOnSet(g2, Keys \ {k})
    BY <2>1, <2>5, SumSame
  <2>7. SumFunctionOnSet(g, Keys \ {k}) \in Int  BY <2>1, <2>5, SumInt
  <2>8. g[k] \in Int /\ g2[k] \in Int  BY <2>2
  <2> QED BY ONLY <2>3, <2>4, <2>6, <2>7, <2>8
<1>9. SumFunctionOnSet(g, Keys) \in Int  BY <1>1, <1>4, SumInt
<1>10. g[k] \in Int  BY <1>4
<1>11. SumFunctionOnSet(g2, Keys) = SumFunctionOnSet(g, Keys) + d
  BY ONLY <1>6, <1>8, <1>9, <1>10, <1>3
<1> QED BY <1>2, <1>7, <1>11

Nothing == [k \in Keys |-> [p \in Procs |-> 0]]

LEMMA SumNothing == Nothing \in [Keys -> [Procs -> Nat]] /\ SumAll(Nothing) = 0
<1>1. IsFiniteSet(Keys) /\ IsFiniteSet(Procs)  BY SetAssumption, ServerAssumption
<1> DEFINE g == [k \in Keys |-> SumFunctionOnSet(Nothing[k], Procs)]
<1>2. ASSUME NEW k \in Keys PROVE g[k] = 0
  <2>1. \A p \in Procs : Nothing[k][p] = 0  BY DEF Nothing
  <2>2. SumFunctionOnSet(Nothing[k], Procs) = 0  BY <1>1, <2>1, SumZero
  <2> QED BY <2>2
<1> HIDE DEF g
<1>3. SumFunctionOnSet(g, Keys) = 0  BY <1>1, <1>2, SumZero
<1>4. SumAll(Nothing) = 0  BY <1>3 DEF SumAll, g
<1> QED BY <1>4 DEF Nothing

\* What was counted of every processor makes what was counted of the keys.
LEMMA SumAllTruth ==
  ASSUME TimesInv, NEW c \in [Keys -> [Procs -> [Times -> Nat]]], CountedAll(c),
         NEW f \in [Keys -> [Procs -> Nat]], NEW t \in Times,
         \A k \in Keys, p \in Procs : f[k][p] <= c[k][p][t]
  PROVE  SumAll(f) <= SetTruth(truth, t) /\ SetTruth(truth, t) \in Int
<1>1. IsFiniteSet(Keys) /\ IsFiniteSet(Procs)  BY SetAssumption, ServerAssumption
<1> DEFINE g == [k \in Keys |-> SumFunctionOnSet(f[k], Procs)]
           tr == [k \in Keys |-> truth[k][t]]
<1>2. ASSUME NEW k \in Keys PROVE g[k] \in Int /\ tr[k] \in Int /\ g[k] <= tr[k]
  <2>1. PICK u, v : u = f[k] /\ v = [p \in Procs |-> c[k][p][t]]  OBVIOUS
  <2>2. \A p \in Procs : u[p] \in Int /\ v[p] \in Int /\ u[p] <= v[p]  BY <2>1
  <2>3. SumFunctionOnSet(u, Procs) <= SumFunctionOnSet(v, Procs)  BY <1>1, <2>2, SumLess
  <2>4. SumFunctionOnSet(u, Procs) \in Int  BY <1>1, <2>2, SumInt
  <2>5. truth[k][t] = SumFunctionOnSet(v, Procs)  BY <2>1 DEF CountedAll
  <2>6. truth[k][t] \in Int
    <3>1. truth[k][t] \in Nat  BY DEF TimesInv
    <3> QED BY <3>1
  <2> QED BY <2>1, <2>3, <2>4, <2>5, <2>6
<1>3. SumAll(f) = SumFunctionOnSet(g, Keys) /\ SetTruth(truth, t) = SumFunctionOnSet(tr, Keys)
  BY DEF SumAll, SetTruth
<1> HIDE DEF g, tr
<1>4. SumFunctionOnSet(g, Keys) <= SumFunctionOnSet(tr, Keys)  BY <1>1, <1>2, SumLess
<1>5. SumFunctionOnSet(tr, Keys) \in Int  BY <1>1, <1>2, SumInt
<1> QED BY <1>3, <1>4, <1>5

-----------------------------------------------------------------------------
\* The set's slots at the first level.

LEMMA AddedTotals ==
  ASSUME NEW slot \in Totals, NEW item \in Totals, NEW last,
         last.sum \in Int, last.refuse \in Int, last.setrefuse \in Int
  PROVE  Added(slot, last, item) \in Totals
<1>1. item.sum \in Int /\ item.refuse \in Int /\ item.setrefuse \in Int  BY DEF Totals
<1>2. Plus(slot, item) \in Totals  BY <1>1, PlusMinus
<1>3. PICK less : less = Minus(slot, last)  OBVIOUS
<1>4. less \in Totals  BY <1>3, PlusMinus
<1>5. Plus(less, item) \in Totals  BY <1>1, <1>4, PlusMinus
<1> QED BY <1>2, <1>3, <1>5 DEF Added

\* They only go on to later times, or to more of the same.
LEMMA SetSlotsQuery ==
  ASSUME TimesInv, stitem \in Rings,
         \A i \in Slots : stitem[i].timekey \in {0} \cup Times,
         NEW m \in net, Query(m)
  PROVE  /\ stitem' \in Rings
         /\ \A i \in Slots : stitem'[i].timekey \in {0} \cup Times
         /\ Before(stitem, stitem')
         /\ \A i \in Slots :
              stitem'[i] = IF m.proc \in SetProcs /\ Told(m.items[i])
                           THEN Added(stitem[i], mapidnum[m.key][i][m.proc], m.items[i])
                           ELSE stitem[i]
<1>1. /\ m.key \in Keys /\ m.proc \in Procs /\ m.items \in [Slots -> Items]
      /\ mapidnum \in [Keys -> [Slots -> [Procs -> Amounts]]]
      /\ \A i \in Slots : m.items[i].timekey \in {0} \cup Times
  BY DEF TimesInv, SumsType, Reports
<1>2. stitem' = IF m.proc \in SetProcs
                THEN [i \in Slots |-> IF Told(m.items[i])
                        THEN Added(stitem[i], mapidnum[m.key][i][m.proc], m.items[i])
                        ELSE stitem[i]]
                ELSE stitem
  BY DEF Query, AddReport
<1>3. \A i \in Slots :
        stitem'[i] = IF m.proc \in SetProcs /\ Told(m.items[i])
                     THEN Added(stitem[i], mapidnum[m.key][i][m.proc], m.items[i])
                     ELSE stitem[i]
  BY <1>2
<1>4. ASSUME NEW i \in Slots
      PROVE  /\ stitem'[i] \in Totals
             /\ stitem'[i].timekey \in {0} \cup Times
             /\ \/ stitem[i].timekey < stitem'[i].timekey
                \/ stitem[i].timekey = stitem'[i].timekey
                   /\ stitem[i].sum <= stitem'[i].sum
  <2>1. PICK slot \in Totals, last \in Amounts, e \in Items :
          slot = stitem[i] /\ last = mapidnum[m.key][i][m.proc] /\ e = m.items[i]
    BY <1>1 DEF Rings
  <2>2. slot.timekey \in {0} \cup Times /\ e.timekey \in {0} \cup Times
    BY <1>1, <2>1
  <2>3. slot.timekey \in Nat /\ slot.sum \in Int /\ e.timekey \in Nat
    BY DEF Totals, Items
  <2>4. CASE ~(m.proc \in SetProcs /\ Told(e))
    <3>1. stitem'[i] = slot  BY <1>3, <2>1, <2>4
    <3> QED BY <2>1, <2>2, <2>3, <3>1
  <2>5. CASE m.proc \in SetProcs /\ Told(e)
    <3>1. stitem'[i] = Added(slot, last, e)  BY <1>3, <2>1, <2>5
    <3>2. stitem'[i] \in Totals
      <4>1. e \in Totals  BY DEF Items, Totals
      <4>2. last.sum \in Int /\ last.refuse \in Int /\ last.setrefuse \in Int
        BY DEF Amounts
      <4> QED BY <3>1, <4>1, <4>2, AddedTotals
    <3>3. CASE Newer(slot, e)
      <4>1. stitem'[i] = e  BY <3>1, <3>3 DEF Added
      <4>2. slot.timekey < e.timekey  BY <2>3, <2>5, <3>3 DEF Newer, Told
      <4> QED BY <2>1, <2>2, <3>2, <4>1, <4>2
    <3>4. CASE ~Newer(slot, e) /\ e.timekey < slot.timekey
      <4>1. stitem'[i] = slot  BY <3>1, <3>4 DEF Added
      <4> QED BY <2>1, <2>2, <2>3, <4>1
    <3>5. CASE ~Newer(slot, e) /\ ~(e.timekey < slot.timekey)
      <4>1. /\ stitem'[i].sum = slot.sum + Gain(last.sum, e.sum)
            /\ stitem'[i].timekey = slot.timekey
        BY <3>1, <3>5, AddedGain
      <4>2. last.sum \in Nat /\ e.sum \in Nat  BY DEF Amounts, Items
      <4>3. Gain(last.sum, e.sum) \in Nat  BY <4>2, GainFacts
      <4>4. slot.sum <= stitem'[i].sum  BY ONLY <2>3, <4>1, <4>3
      <4> QED BY <2>1, <2>2, <3>2, <4>1, <4>4
    <3> QED BY <3>3, <3>4, <3>5
  <2> QED BY <2>4, <2>5
<1>5. stitem' \in Rings
  <2>1. DOMAIN stitem' = Slots /\ stitem' = [i \in Slots |-> stitem'[i]]
    BY <1>2 DEF Rings
  <2> QED BY <1>4, <2>1 DEF Rings
<1> QED BY <1>3, <1>4, <1>5 DEF Before

\* What a report changes in what the processors have reported of a time.
LEMMA EntryMoves ==
  ASSUME TimesInv, NEW m \in net, Query(m),
         NEW l \in Keys, NEW q \in Procs, NEW i \in Slots, NEW t \in Nat
  PROVE  IF l = m.key /\ q = m.proc /\ Told(m.items[i]) /\ m.items[i].timekey = t
         THEN titem'[l][i].timekey = t => mapidnum'[l][i][q].sum = m.items[i].sum
         ELSE titem'[l][i].timekey = t /\ mapidnum'[l][i][q].sum > 0 =>
                titem[l][i].timekey = t /\ mapidnum'[l][i][q].sum = mapidnum[l][i][q].sum
<1>0. PICK k \in Keys, p \in Procs : k = m.key /\ p = m.proc
  BY DEF TimesInv, SumsType, Reports
<1>1. /\ m.items \in [Slots -> Items]
      /\ titem' = [titem EXCEPT ![k] = [j \in Slots |->
                  IF Told(m.items[j])
                  THEN Added(titem[k][j], mapidnum[k][j][p], m.items[j])
                  ELSE titem[k][j]]]
      /\ mapidnum' = [mapidnum EXCEPT ![k] = [j \in Slots |->
                  IF Told(m.items[j])
                  THEN Remembered(mapidnum[k][j], titem[k][j], p, m.items[j])
                  ELSE mapidnum[k][j]]]
  <2>1. /\ m.items \in [Slots -> Items]
        /\ titem' = [titem EXCEPT ![m.key] = [j \in Slots |->
                  IF Told(m.items[j])
                  THEN Added(titem[m.key][j], mapidnum[m.key][j][m.proc], m.items[j])
                  ELSE titem[m.key][j]]]
        /\ mapidnum' = [mapidnum EXCEPT ![m.key] = [j \in Slots |->
                  IF Told(m.items[j])
                  THEN Remembered(mapidnum[m.key][j], titem[m.key][j], m.proc, m.items[j])
                  ELSE mapidnum[m.key][j]]]
    BY QuerySteps
  <2> QED BY <1>0, <2>1
<1>2. /\ titem \in [Keys -> [Slots -> Totals]]
      /\ mapidnum \in [Keys -> [Slots -> [Procs -> Amounts]]]
  BY DEF TimesInv, SumsType
<1>3. CASE l # k
  <2>1. titem'[l] = titem[l] /\ mapidnum'[l] = mapidnum[l]  BY <1>1, <1>2, <1>3
  <2> QED BY <1>0, <1>3, <2>1
<1>4. CASE l = k
  <2>0. PICK s \in Totals, f \in [Procs -> Amounts], e \in Items :
          s = titem[k][i] /\ f = mapidnum[k][i] /\ e = m.items[i]
    BY <1>1, <1>2
  <2>1. /\ titem'[k][i] = IF Told(e) THEN Added(s, f[p], e) ELSE s
        /\ mapidnum'[k][i] = IF Told(e) THEN Remembered(f, s, p, e) ELSE f
    BY <1>1, <1>2, <2>0
  <2>2. CASE ~Told(e)
    <3>1. titem'[k][i] = s /\ mapidnum'[k][i] = f  BY <2>1, <2>2
    <3> QED BY <1>4, <2>0, <2>2, <3>1
  <2>3. CASE Told(e) /\ Newer(s, e)
    <3>1. /\ titem'[k][i] = e
          /\ mapidnum'[k][i] = [r \in Procs |-> IF r = p THEN Data(e) ELSE NoData]
      BY <2>1, <2>3 DEF Added, Remembered
    <3>2. NoData.sum = 0 /\ Data(e).sum = e.sum  BY DEF NoData, Data
    <3>3. CASE q = p
      <4>1. mapidnum'[k][i][q].sum = e.sum  BY <3>1, <3>2, <3>3
      <4> QED BY <1>0, <1>4, <2>0, <2>3, <3>1, <3>3, <4>1
    <3>4. CASE q # p
      <4>1. mapidnum'[k][i][q].sum = 0  BY <3>1, <3>2, <3>4
      <4> QED BY <1>0, <1>4, <3>4, <4>1
    <3> QED BY <3>3, <3>4
  <2>4. CASE Told(e) /\ ~Newer(s, e) /\ e.timekey < s.timekey
    <3>1. titem'[k][i] = s /\ mapidnum'[k][i] = f
      BY <2>1, <2>4 DEF Added, Remembered
    <3>2. s.timekey \in Nat /\ e.timekey \in Nat  BY DEF Totals, Items
    <3>3. s.timekey # e.timekey  BY <2>4, <3>2
    <3> QED BY <1>4, <2>0, <3>1, <3>3
  <2>5. CASE Told(e) /\ ~Newer(s, e) /\ ~(e.timekey < s.timekey)
    <3>1. titem'[k][i].timekey = s.timekey  BY <2>1, <2>5, AddedGain
    <3>2. s.timekey \in Nat /\ e.timekey \in Nat  BY DEF Totals, Items
    <3>3. s.timekey = e.timekey  BY <2>5, <3>2 DEF Newer
    <3>4. mapidnum'[k][i] = [f EXCEPT ![p] = Data(e)]
      BY <2>1, <2>5 DEF Remembered
    <3>5. Data(e).sum = e.sum  BY DEF Data
    <3>6. CASE q = p
      <4>1. mapidnum'[k][i][q].sum = e.sum  BY <3>4, <3>5, <3>6
      <4> QED BY <1>0, <1>4, <2>0, <2>5, <3>1, <3>3, <3>6, <4>1
    <3>7. CASE q # p
      <4>1. mapidnum'[k][i][q] = f[q]  BY <3>4, <3>7
      <4> QED BY <1>0, <1>4, <2>0, <3>1, <3>7, <4>1
    <3> QED BY <3>6, <3>7
  <2> QED BY <2>2, <2>3, <2>4, <2>5
<1> QED BY <1>3, <1>4

-----------------------------------------------------------------------------
\* What is kept of a processor's requests.

\* Of nothing, nothing.
LEMMA KeptZero ==
  ASSUME TimesInv', NEW c, NEW h, NEW con, Ledger(c, h, con)',
         NEW k \in Keys, NEW p \in Procs, NEW i \in Slots, NEW t \in Times
  PROVE  Kept(c, h, 0, k, p, i, t)'
<1>1. PICK a \in Nat : a = mapidnum'[k][i][p].sum
  BY DEF TimesInv, SumsType, Amounts
<1>2. c[k][p][t] \in Nat /\ 0 <= c[k][p][t]
  <2>1. c[k][p][t] \in Nat  BY DEF Ledger
  <2> QED BY <2>1
<1>3. 0 + Gain(a, At(timesum'[k][p][i], t)) <= c[k][p][t]
  <2>1. timesum'[k][p][i] \in Items  BY DEF TimesInv, SumsType
  <2>2. PICK v \in Nat : v = At(timesum'[k][p][i], t)  BY <2>1, AtType
  <2>3. v <= c[k][p][t]  BY <2>2 DEF Ledger, RingsCounted
  <2>4. Gain(a, v) \in Nat /\ Gain(a, v) <= v  BY GainFacts
  <2>5. 0 + Gain(a, v) <= c[k][p][t]  BY ONLY <1>2, <2>2, <2>3, <2>4
  <2> QED BY <2>2, <2>5
<1>4. ASSUME NEW m \in net', m.key = k, m.proc = p
      PROVE  0 + Gain(a, At(m.items[i], t)) <= h[m.num][t]
  <2>1. m.items[i] \in Items /\ m.num \in Nat  BY DEF TimesInv, SumsType, Reports
  <2>2. PICK v \in Nat : v = At(m.items[i], t)  BY <2>1, AtType
  <2>3. v <= h[m.num][t]  BY <2>2 DEF Ledger, SentCounted
  <2>4. Gain(a, v) \in Nat /\ Gain(a, v) <= v  BY GainFacts
  <2>5. h[m.num][t] \in Nat  BY <2>1 DEF Ledger
  <2>6. 0 + Gain(a, v) <= h[m.num][t]  BY ONLY <2>2, <2>3, <2>4, <2>5
  <2> QED BY <2>2, <2>6
<1> QED BY <1>1, <1>2, <1>3, <1>4 DEF Kept

\* A step that leaves what the processor has reported of the time.
LEMMA KeptStill ==
  ASSUME TimesInv, TimesInv', NEW c, NEW h, NEW con, Ledger(c, h, con),
         SameReports, RingsStill,
         NEW k \in Keys, NEW p \in Procs, NEW i \in Slots, NEW t \in Times,
         NEW x \in Nat, Kept(c, h, x, k, p, i, t),
         counted \subseteq counted', newest[k][p] <= newest'[k][p],
         titem'[k][i].timekey = t /\ mapidnum'[k][i][p].sum > 0 =>
           titem[k][i].timekey = t /\ mapidnum'[k][i][p].sum = mapidnum[k][i][p].sum
  PROVE  Kept(c, h, x, k, p, i, t)'
<1>1. /\ x <= c[k][p][t]
      /\ x > 0 => p \in SetProcs /\ <<k, p, t>> \in counted'
  BY DEF Kept
<1>2. ASSUME titem'[k][i].timekey = t, mapidnum'[k][i][p].sum > 0
      PROVE  /\ x + Gain(mapidnum'[k][i][p].sum, At(timesum'[k][p][i], t)) <= c[k][p][t]
             /\ \A m \in net' : m.key = k /\ m.proc = p /\ newest'[k][p] <= m.num =>
                  x + Gain(mapidnum'[k][i][p].sum, At(m.items[i], t)) <= h[m.num][t]
  <2>1. PICK a \in Nat : a = mapidnum[k][i][p].sum
    BY DEF TimesInv, SumsType, Amounts
  <2>2. titem[k][i].timekey = t /\ mapidnum'[k][i][p].sum = a /\ a > 0
    BY <1>2, <2>1
  <2>3. x + Gain(a, At(timesum'[k][p][i], t)) <= c[k][p][t]
    <3>1. x + Gain(a, At(timesum[k][p][i], t)) <= c[k][p][t]  BY <2>1, <2>2 DEF Kept
    <3>2. /\ Gain(a, At(timesum[k][p][i], t)) \in Nat
          /\ Gain(a, At(timesum'[k][p][i], t)) \in Nat
          /\ Gain(a, At(timesum'[k][p][i], t)) <= Gain(a, At(timesum[k][p][i], t))
      BY Gains
    <3>3. c[k][p][t] \in Nat  BY DEF Ledger
    <3> QED BY ONLY <3>1, <3>2, <3>3, x \in Nat
  <2>4. ASSUME NEW m \in net', m.key = k, m.proc = p, newest'[k][p] <= m.num
        PROVE  x + Gain(a, At(m.items[i], t)) <= h[m.num][t]
    <3>1. PICK b \in net : /\ b.num = m.num /\ b.key = m.key
                           /\ b.proc = m.proc /\ b.items = m.items
      BY DEF SameReports
    <3>2. newest[k][p] \in Nat /\ newest'[k][p] \in Nat /\ b.num \in Nat
      BY DEF TimesInv, SumsType, Reports
    <3>3. newest[k][p] <= b.num
      <4>1. newest'[k][p] <= b.num  BY <2>4, <3>1
      <4> QED BY ONLY <3>2, <4>1, newest[k][p] <= newest'[k][p]
    <3>4. x + Gain(a, At(b.items[i], t)) <= h[b.num][t]
      BY <2>1, <2>2, <2>4, <3>1, <3>3 DEF Kept
    <3> QED BY <3>1, <3>4
  <2> QED BY <2>2, <2>3, <2>4
<1> QED BY <1>1, <1>2 DEF Kept

\* Requests that the report being handled says were counted.
LEMMA KeptReported ==
  ASSUME TimesInv, TimesInv', NEW c, NEW h, NEW con, Ledger(c, h, con),
         SameReports, timesum' = timesum,
         NEW m \in net, NEW k \in Keys, NEW p \in Procs, m.key = k, m.proc = p,
         newest'[k][p] = m.num,
         NEW i \in Slots, NEW t \in Times, m.items[i].timekey = t,
         NEW x \in Nat, x <= h[m.num][t], p \in SetProcs, <<k, p, t>> \in counted',
         titem'[k][i].timekey = t => mapidnum'[k][i][p].sum = m.items[i].sum
  PROVE  Kept(c, h, x, k, p, i, t)'
<1>1. /\ m.items[i] \in Items /\ m.num \in Nat
      /\ timesum[k][p][i] \in Items
  BY DEF TimesInv, SumsType, Reports
<1>2. h[m.num][t] \in Nat /\ c[k][p][t] \in Nat  BY <1>1 DEF Ledger
<1>3. PICK s \in Nat : s = m.items[i].sum  BY <1>1 DEF Items
<1>4. At(m.items[i], t) = s  BY <1>3 DEF At
<1>5. PICK v \in Nat : v = At(timesum[k][p][i], t)  BY <1>1, AtType
<1>6. Gain(s, v) \in Nat  BY GainFacts
<1>7. h[m.num][t] + Gain(s, v) <= c[k][p][t]
  BY <1>4, <1>5 DEF Ledger, SentCounted
<1>8. x <= c[k][p][t] /\ x + Gain(s, v) <= c[k][p][t]
  BY ONLY <1>2, <1>6, <1>7, x \in Nat, x <= h[m.num][t]
<1>9. ASSUME NEW n \in net', n.key = k, n.proc = p, newest'[k][p] <= n.num
      PROVE  x + Gain(s, At(n.items[i], t)) <= h[n.num][t]
  <2>1. PICK a \in net : /\ a.num = n.num /\ a.key = n.key
                         /\ a.proc = n.proc /\ a.items = n.items
    BY DEF SameReports
  <2>2. a.num \in Nat /\ a.items[i] \in Items  BY DEF TimesInv, SumsType, Reports
  <2>3. PICK w \in Nat : w = At(a.items[i], t)  BY <2>2, AtType
  <2>4. Gain(s, w) \in Nat /\ h[a.num][t] \in Nat
    <3>1. Gain(s, w) \in Nat  BY GainFacts
    <3> QED BY <2>2, <3>1 DEF Ledger
  <2>5. h[m.num][t] + Gain(s, w) <= h[a.num][t]
    <3>1. m.key = a.key /\ m.proc = a.proc /\ m.num <= a.num  BY <1>9, <2>1
    <3>2. SentInOrder(h)  BY DEF Ledger
    <3>3. h[m.num][t] + Gain(At(m.items[i], t), At(a.items[i], t)) <= h[a.num][t]
      BY <3>1, <3>2 DEF SentInOrder
    <3> QED BY <1>4, <2>3, <3>3
  <2>6. x + Gain(s, w) <= h[a.num][t]
    BY ONLY <1>2, <2>4, <2>5, x \in Nat, x <= h[m.num][t]
  <2> QED BY <2>1, <2>3, <2>6
<1>10. titem'[k][i].timekey = t => mapidnum'[k][i][p].sum = s  BY <1>3
<1> QED BY <1>5, <1>8, <1>9, <1>10 DEF Kept

LEMMA KeptGrown ==
  ASSUME TimesInv, TimesInv', NEW c, NEW h, NEW con, Ledger(c, h, con),
         NEW c2, NEW h2, Ledger(c2, h2, con)', Grown(c, h, c2, h2),
         UNCHANGED <<titem, mapidnum, newest, counted>>,
         NEW k \in Keys, NEW p \in Procs, NEW i \in Slots, NEW t \in Times,
         NEW x \in Nat, Kept(c, h, x, k, p, i, t)
  PROVE  Kept(c2, h2, x, k, p, i, t)'
<1>1. c[k][p][t] \in Nat /\ c2[k][p][t] \in Nat  BY DEF Ledger
<1>2. x <= c2[k][p][t]
  <2>1. x <= c[k][p][t]  BY DEF Kept
  <2>2. c[k][p][t] <= c2[k][p][t]  BY DEF Grown
  <2> QED BY ONLY <1>1, <2>1, <2>2, x \in Nat
<1>3. ASSUME titem[k][i].timekey = t, mapidnum[k][i][p].sum > 0
      PROVE  /\ x + Gain(mapidnum[k][i][p].sum, At(timesum'[k][p][i], t)) <= c2[k][p][t]
             /\ \A m \in net' : m.key = k /\ m.proc = p /\ newest[k][p] <= m.num =>
                  x + Gain(mapidnum[k][i][p].sum, At(m.items[i], t)) <= h2[m.num][t]
  <2>1. PICK a \in Nat : a = mapidnum[k][i][p].sum
    BY DEF TimesInv, SumsType, Amounts
  <2>2. x + Gain(a, At(timesum'[k][p][i], t)) <= c2[k][p][t]
    <3>1. x + Gain(a, At(timesum[k][p][i], t)) <= c[k][p][t]  BY <1>3, <2>1 DEF Kept
    <3> QED BY <3>1 DEF Grown
  <2>3. ASSUME NEW m \in net', m.key = k, m.proc = p, newest[k][p] <= m.num
        PROVE  x + Gain(a, At(m.items[i], t)) <= h2[m.num][t]
    <3>1. CASE m \in net /\ h2[m.num] = h[m.num]
      <4>1. x + Gain(a, At(m.items[i], t)) <= h[m.num][t]
        BY <1>3, <2>1, <2>3, <3>1 DEF Kept
      <4> QED BY <3>1, <4>1
    <3>2. CASE h2[m.num] = c2[m.key][m.proc] /\ m.items = timesum'[m.key][m.proc]
      BY <2>2, <2>3, <3>2
    <3> QED BY <3>1, <3>2 DEF Grown
  <2> QED BY <2>1, <2>2, <2>3
<1>4. x > 0 => p \in SetProcs /\ <<k, p, t>> \in counted'  BY DEF Kept
<1> QED BY <1>2, <1>3, <1>4 DEF Kept

-----------------------------------------------------------------------------
LEMMA SetQuery ==
  ASSUME SetInv, SumsType', NEW m \in net, QueryAsks(m)
  PROVE  SetInv'
<1>0. PICK k \in Keys, p \in Procs : k = m.key /\ p = m.proc
  BY DEF SetInv, TimesInv, SumsType, Reports
<1>1. /\ Query(m)
      /\ counted' = counted \cup {<<m.key, m.proc, m.items[i].timekey>> :
                                    i \in {j \in Slots : Told(m.items[j])}}
      /\ readded' = readded \cup (IF Forgotten(m) = {} THEN {} ELSE {m.proc})
  BY DEF QueryAsks
<1>2. TimesInv /\ TimesInv'  BY <1>1, QueryTimes DEF SetInv
<1>3. PICK c, h, con, sc : Ledger(c, h, con) /\ SetLedger(c, h, sc)  BY DEF SetInv
<1>4. PICK con2 : Ledger(c, h, con2)'  BY <1>1, <1>2, <1>3, LedgerQuery
<1>5. /\ stitem \in Rings /\ stitem' \in Rings
      /\ \A i \in Slots : stitem'[i].timekey \in {0} \cup Times
      /\ \A i \in Slots :
           stitem'[i] = IF p \in SetProcs /\ Told(m.items[i])
                        THEN Added(stitem[i], mapidnum[k][i][p], m.items[i])
                        ELSE stitem[i]
  BY <1>0, <1>1, SetSlotsQuery DEF SetInv
<1>6. /\ m.num \in Nat /\ m.items \in [Slots -> Items]
      /\ newest' = [newest EXCEPT ![k][p] = IF m.num > @ THEN m.num ELSE @]
      /\ disordered' = disordered \cup (IF m.num < newest[k][p] THEN {k} ELSE {})
      /\ timesum' = timesum
      /\ SameReports
  BY <1>0, <1>1, <1>2, QuerySteps
<1>7. RingsStill  BY <1>2, <1>6, RingsSame DEF TimesInv
<1>8. /\ mapidnum \in [Keys -> [Slots -> [Procs -> Amounts]]]
      /\ newest \in [Keys -> [Procs -> Nat]]
      /\ c \in [Keys -> [Procs -> [Times -> Nat]]] /\ h \in [Nat -> [Times -> Nat]]
      /\ sc \in [Slots -> [Keys -> [Procs -> Nat]]]
  BY <1>2, <1>3 DEF TimesInv, SumsType, Ledger, SetLedger
<1>9. PICK sc2 : sc2 = [i \in Slots |->
        IF \/ ~(p \in SetProcs /\ Told(m.items[i]))
           \/ ~Newer(stitem[i], m.items[i]) /\ m.items[i].timekey < stitem[i].timekey
        THEN sc[i]
        ELSE IF Newer(stitem[i], m.items[i])
        THEN [Nothing EXCEPT ![k][p] = @ + m.items[i].sum]
        ELSE [sc[i] EXCEPT ![k][p] = @ + Gain(mapidnum[k][i][p].sum, m.items[i].sum)]]
  OBVIOUS
<1>10. sc2 \in [Slots -> [Keys -> [Procs -> Nat]]]
  <2>1. ASSUME NEW i \in Slots PROVE sc2[i] \in [Keys -> [Procs -> Nat]]
    <3>1. PICK s \in Nat, g \in Nat, f \in [Keys -> [Procs -> Nat]] :
            s = m.items[i].sum /\ g = Gain(mapidnum[k][i][p].sum, m.items[i].sum)
            /\ f = sc[i]
      <4>1. m.items[i].sum \in Nat /\ mapidnum[k][i][p].sum \in Nat
        BY <1>6, <1>8 DEF Items, Amounts
      <4>2. Gain(mapidnum[k][i][p].sum, m.items[i].sum) \in Nat  BY <4>1, GainFacts
      <4> QED BY <1>8, <4>1, <4>2
    <3>2. [f EXCEPT ![k][p] = @ + g] \in [Keys -> [Procs -> Nat]]
      <4>1. f[k][p] + g \in Nat  OBVIOUS
      <4> QED BY <4>1
    <3>3. [Nothing EXCEPT ![k][p] = @ + s] \in [Keys -> [Procs -> Nat]]
      <4>1. PICK z \in [Keys -> [Procs -> Nat]] : z = Nothing  BY SumNothing
      <4>2. z[k][p] + s \in Nat  OBVIOUS
      <4> QED BY <4>1, <4>2
    <3> QED BY <1>9, <3>1, <3>2, <3>3
  <2>2. sc2 = [i \in Slots |-> sc2[i]]  BY <1>9
  <2> QED BY <2>1, <2>2
<1>11. ASSUME disordered' = {}, readded' = {}, NEW i \in Slots, stitem'[i].timekey > 0
       PROVE  SetCredited(c, h, sc2[i], i, stitem[i].timekey)'
  <2>1. PICK t \in Times : t = stitem'[i].timekey
    <3>1. stitem'[i].timekey # 0  BY <1>11
    <3> QED BY <1>5, <3>1
  <2>2. t \in Nat /\ t > 0  BY TimesNat
  <2>3. disordered = {} /\ readded = {} /\ Forgotten(m) = {}
    BY <1>1, <1>6, <1>11
  <2>4. /\ newest[k][p] <= m.num /\ newest'[k][p] = m.num
        /\ \A l \in Keys, q \in Procs : newest[l][q] <= newest'[l][q]
    <3>1. ~(m.num < newest[k][p])  BY <1>6, <1>11
    <3>2. newest[k][p] \in Nat  BY <1>8
    <3>3. newest'[k][p] = IF m.num > newest[k][p] THEN m.num ELSE newest[k][p]
      BY <1>6, <1>8
    <3>4. newest[k][p] <= m.num /\ newest'[k][p] = m.num
      BY ONLY <1>6, <3>1, <3>2, <3>3
    <3>5. ASSUME NEW l \in Keys, NEW q \in Procs PROVE newest[l][q] <= newest'[l][q]
      <4>1. newest[l][q] \in Nat  BY <1>8
      <4>2. CASE l = k /\ q = p  BY <3>4, <4>2
      <4>3. CASE ~(l = k /\ q = p)
        <5>1. newest'[l][q] = newest[l][q]  BY <1>6, <1>8, <4>3
        <5> QED BY <4>1, <5>1
      <4> QED BY <4>2, <4>3
    <3> QED BY <3>4, <3>5
  <2>5. PICK s \in Totals, last \in Amounts, e \in Items :
          s = stitem[i] /\ last = mapidnum[k][i][p] /\ e = m.items[i]
    BY <1>5, <1>6, <1>8 DEF Rings
  <2>6. /\ s.timekey \in Nat /\ s.sum \in Int /\ e.timekey \in Nat /\ e.sum \in Nat
        /\ last.sum \in Nat
    BY DEF Totals, Items, Amounts
  <2>7. /\ stitem'[i] = IF p \in SetProcs /\ Told(e) THEN Added(s, last, e) ELSE s
        /\ sc2[i] = IF \/ ~(p \in SetProcs /\ Told(e))
                       \/ ~Newer(s, e) /\ e.timekey < s.timekey
                    THEN sc[i]
                    ELSE IF Newer(s, e) THEN [Nothing EXCEPT ![k][p] = @ + e.sum]
                    ELSE [sc[i] EXCEPT ![k][p] = @ + Gain(last.sum, e.sum)]
    BY <1>5, <1>9, <2>5
  <2>8. counted \subseteq counted' /\ (Told(e) => <<k, p, e.timekey>> \in counted')
    BY <1>0, <1>1, <2>5
\* What the report does not touch is kept.
  <2>9. ASSUME NEW l \in Keys, NEW q \in Procs, NEW x \in Nat,
               Kept(c, h, x, l, q, i, t),
               ~(l = k /\ q = p /\ Told(e) /\ e.timekey = t)
        PROVE  Kept(c, h, x, l, q, i, t)'
    <3>1. titem'[l][i].timekey = t /\ mapidnum'[l][i][q].sum > 0 =>
            titem[l][i].timekey = t /\ mapidnum'[l][i][q].sum = mapidnum[l][i][q].sum
      BY <1>0, <1>1, <1>2, <2>2, <2>5, <2>9, EntryMoves
    <3> QED BY <1>2, <1>3, <1>6, <1>7, <2>4, <2>8, <2>9, <3>1, KeptStill
\* What it says is.
  <2>10. ASSUME NEW x \in Nat, x <= h[m.num][t], p \in SetProcs, Told(e), e.timekey = t
         PROVE  Kept(c, h, x, k, p, i, t)'
    <3>1. titem'[k][i].timekey = t => mapidnum'[k][i][p].sum = m.items[i].sum
      BY <1>0, <1>1, <1>2, <2>2, <2>5, <2>10, EntryMoves
    <3>2. <<k, p, t>> \in counted'  BY <2>8, <2>10
    <3>3. m.items[i].timekey = t /\ m.key = k /\ m.proc = p  BY <1>0, <2>5, <2>10
    <3> QED BY <1>2, <1>3, <1>6, <2>4, <2>10, <3>1, <3>2, <3>3, KeptReported
  <2>11. ASSUME e.timekey = t PROVE e.sum <= h[m.num][t]
    <3>1. At(m.items[i], t) = e.sum  BY <2>5, <2>11 DEF At
    <3> QED BY <1>3, <3>1 DEF Ledger, SentCounted
  <2>12. ASSUME s.timekey = t PROVE SetCredited(c, h, sc[i], i, t)
    BY <1>3, <2>2, <2>3, <2>5, <2>12 DEF SetLedger
  <2>13. CASE \/ ~(p \in SetProcs /\ Told(e))
              \/ ~Newer(s, e) /\ e.timekey < s.timekey
    <3>1. stitem'[i] = s /\ sc2[i] = sc[i]  BY <2>7, <2>13 DEF Added
    <3>2. s.timekey = t  BY <2>1, <3>1
    <3>3. SetCredited(c, h, sc[i], i, t)  BY <2>12, <3>2
    <3>4. stitem'[i].sum <= SumAll(sc2[i])  BY <2>5, <3>1, <3>3 DEF SetCredited
    <3>5. ASSUME NEW l \in Keys, NEW q \in Procs
          PROVE  Kept(c, h, sc2[i][l][q], l, q, i, t)'
      <4>1. PICK x \in Nat : x = sc[i][l][q]  BY <1>8
      <4>2. Kept(c, h, x, l, q, i, t)  BY <3>3, <4>1 DEF SetCredited
      <4>3. CASE ~(l = k /\ q = p /\ Told(e) /\ e.timekey = t)
        <5>1. Kept(c, h, x, l, q, i, t)'  BY <2>9, <4>2, <4>3
        <5> QED BY <3>1, <4>1, <5>1
      <4>4. CASE l = k /\ q = p /\ Told(e) /\ e.timekey = t
        <5>1. p \notin SetProcs  BY <2>6, <2>13, <3>2, <4>4
        <5>2. x = 0
          <6>1. ~(x > 0)  BY <4>2, <4>4, <5>1 DEF Kept
          <6> QED BY <6>1
        <5>3. Kept(c, h, 0, l, q, i, t)'  BY <1>2, <1>4, KeptZero
        <5> QED BY <3>1, <4>1, <5>2, <5>3
      <4> QED BY <4>3, <4>4
    <3>6. SetCredited(c, h, sc2[i], i, t)'  BY <3>4, <3>5 DEF SetCredited
    <3> QED BY <2>1, <3>6
  <2>14. CASE p \in SetProcs /\ Told(e) /\ Newer(s, e)
    <3>1. stitem'[i] = e /\ sc2[i] = [Nothing EXCEPT ![k][p] = @ + e.sum]
      BY <2>7, <2>14 DEF Added, Newer
    <3>2. e.timekey = t  BY <2>1, <3>1
    <3>3. PICK z \in [Keys -> [Procs -> Nat]] :
            /\ z = Nothing /\ SumAll(z) = 0
            /\ \A l \in Keys, q \in Procs : z[l][q] = 0
      BY SumNothing DEF Nothing
    <3>4. sc2[i] = [z EXCEPT ![k][p] = @ + e.sum]  BY <3>1, <3>3
    <3>5. /\ sc2[i][k][p] = e.sum
          /\ \A l \in Keys, q \in Procs : ~(l = k /\ q = p) => sc2[i][l][q] = 0
      <4>1. z[k][p] + e.sum = e.sum  BY <2>6, <3>3
      <4> QED BY <3>3, <3>4, <4>1
    <3>6. stitem'[i].sum <= SumAll(sc2[i])
      <4>1. PICK y \in [Keys -> [Procs -> Nat]] : y = sc2[i]  BY <1>10
      <4>2. y[k][p] = e.sum /\ z[k][p] = 0  BY <3>3, <3>5, <4>1
      <4>3. \A l \in Keys, q \in Procs : ~(l = k /\ q = p) => y[l][q] = z[l][q]
        BY <3>3, <3>5, <4>1
      <4>4. SumAll(y) = SumAll(z) + (y[k][p] - z[k][p])  BY <4>3, SumAllChanged
      <4> QED BY <2>6, <3>1, <3>3, <4>1, <4>2, <4>4
    <3>7. ASSUME NEW l \in Keys, NEW q \in Procs
          PROVE  Kept(c, h, sc2[i][l][q], l, q, i, t)'
      <4>1. CASE l = k /\ q = p
        <5>1. PICK x \in Nat : x = e.sum  BY <2>6
        <5>2. Kept(c, h, x, k, p, i, t)'  BY <2>10, <2>11, <2>14, <3>2, <5>1
        <5> QED BY <3>5, <4>1, <5>1, <5>2
      <4>2. CASE ~(l = k /\ q = p)
        <5>1. Kept(c, h, 0, l, q, i, t)'  BY <1>2, <1>4, KeptZero
        <5> QED BY <3>5, <4>2, <5>1
      <4> QED BY <4>1, <4>2
    <3>8. SetCredited(c, h, sc2[i], i, t)'  BY <3>6, <3>7 DEF SetCredited
    <3> QED BY <2>1, <3>8
  <2>15. CASE p \in SetProcs /\ Told(e) /\ ~Newer(s, e) /\ ~(e.timekey < s.timekey)
    <3>0. PICK g \in Nat : g = Gain(last.sum, e.sum)  BY <2>6, GainFacts
    <3>1. /\ stitem'[i].sum = s.sum + g /\ stitem'[i].timekey = s.timekey
          /\ sc2[i] = [sc[i] EXCEPT ![k][p] = @ + g]
      BY <2>7, <2>15, <3>0, AddedGain
    <3>2. s.timekey = t /\ e.timekey = t
      <4>1. s.timekey = t  BY <2>1, <3>1
      <4> QED BY <2>6, <2>15, <4>1 DEF Newer
    <3>3. SetCredited(c, h, sc[i], i, t)  BY <2>12, <3>2
    <3>4. PICK f \in [Keys -> [Procs -> Nat]] : f = sc[i]  BY <1>8
    <3>5. /\ sc2[i][k][p] = f[k][p] + g
          /\ \A l \in Keys, q \in Procs : ~(l = k /\ q = p) => sc2[i][l][q] = f[l][q]
      <4>1. sc2[i] = [f EXCEPT ![k][p] = @ + g]  BY <3>1, <3>4
      <4> QED BY <4>1
    <3>6. stitem'[i].sum <= SumAll(sc2[i])
      <4>1. PICK y \in [Keys -> [Procs -> Nat]] : y = sc2[i]  BY <1>10
      <4>2. SumAll(sc2[i]) = SumAll(f) + g
        <5>1. y[k][p] = f[k][p] + g /\ f[k][p] \in Nat  BY <3>5, <4>1
        <5>2. \A l \in Keys, q \in Procs : ~(l = k /\ q = p) => y[l][q] = f[l][q]
          BY <3>5, <4>1
        <5>3. SumAll(y) = SumAll(f) + (y[k][p] - f[k][p])  BY <5>2, SumAllChanged
        <5>4. y[k][p] - f[k][p] = g  BY <5>1
        <5> QED BY <4>1, <5>3, <5>4
      <4>3. SumAll(f) \in Int  BY SumAllType
      <4>4. s.sum <= SumAll(f)  BY <2>5, <3>3, <3>4 DEF SetCredited
      <4> QED BY ONLY <2>6, <3>0, <3>1, <4>2, <4>3, <4>4
\* The key remembers the slot, or none of it was reported before.
    <3>7. f[k][p] + g <= h[m.num][t]
      <4>1. Kept(c, h, f[k][p], k, p, i, t)  BY <3>3, <3>4 DEF SetCredited
      <4>2. CASE <<k, p, t>> \notin counted
        <5>1. ~(f[k][p] > 0)  BY <4>1, <4>2 DEF Kept
        <5>2. f[k][p] = 0  BY <5>1
        <5>3. g <= e.sum  BY <2>6, <3>0, GainFacts
        <5>4. e.sum <= h[m.num][t] /\ h[m.num][t] \in Nat  BY <1>6, <1>8, <2>11, <3>2
        <5> QED BY ONLY <2>6, <3>0, <5>2, <5>3, <5>4
      <4>3. CASE <<k, p, t>> \in counted
        <5>1. i \notin Forgotten(m)  BY <2>3
        <5>2. titem[k][i].timekey = t /\ mapidnum[k][i][p].sum # 0
          BY <1>0, <2>5, <2>15, <3>2, <4>3, <5>1 DEF Forgotten
        <5>3. mapidnum[k][i][p].sum > 0  BY <2>5, <2>6, <5>2
        <5>4. f[k][p] + Gain(mapidnum[k][i][p].sum, At(m.items[i], t)) <= h[m.num][t]
          BY <1>0, <2>4, <4>1, <5>2, <5>3 DEF Kept
        <5>5. At(m.items[i], t) = e.sum  BY <2>5, <3>2 DEF At
        <5> QED BY <2>5, <3>0, <5>4, <5>5
      <4> QED BY <4>2, <4>3
    <3>8. ASSUME NEW l \in Keys, NEW q \in Procs
          PROVE  Kept(c, h, sc2[i][l][q], l, q, i, t)'
      <4>1. CASE l = k /\ q = p
        <5>1. PICK x \in Nat : x = f[k][p] + g  OBVIOUS
        <5>2. Kept(c, h, x, k, p, i, t)'  BY <2>10, <2>15, <3>2, <3>7, <5>1
        <5> QED BY <3>5, <4>1, <5>1, <5>2
      <4>2. CASE ~(l = k /\ q = p)
        <5>1. PICK x \in Nat : x = f[l][q]  OBVIOUS
        <5>2. Kept(c, h, x, l, q, i, t)  BY <3>3, <3>4, <5>1 DEF SetCredited
        <5>3. Kept(c, h, x, l, q, i, t)'  BY <2>9, <4>2, <5>2
        <5> QED BY <3>5, <4>2, <5>1, <5>3
      <4> QED BY <4>1, <4>2
    <3>9. SetCredited(c, h, sc2[i], i, t)'  BY <3>6, <3>8 DEF SetCredited
    <3> QED BY <2>1, <3>9
  <2> QED BY <2>13, <2>14, <2>15
<1>12. SetLedger(c, h, sc2)'  BY <1>10, <1>11 DEF SetLedger
<1> QED BY <1>2, <1>4, <1>5, <1>12 DEF SetInv

-----------------------------------------------------------------------------
LEMMA SetInvInit == SetInit => SetInv
<1> SUFFICES ASSUME SetInit PROVE SetInv  OBVIOUS
<1>1. LedgerInv  BY LedgerInit DEF SetInit
<1>2. PICK c, h, con : Ledger(c, h, con)  BY <1>1 DEF LedgerInv
<1>3. stitem = NoRing /\ \A i \in Slots : stitem[i] = NoSlot
  BY DEF SetInit, Init, NoRing
<1>4. NoSlot.timekey = 0 /\ NoSlot \in Totals  BY DEF NoSlot, Totals
<1>5. stitem \in Rings  BY <1>3, <1>4 DEF Rings, NoRing
<1>6. PICK sc : sc = [i \in Slots |-> Nothing]  OBVIOUS
<1>7. sc \in [Slots -> [Keys -> [Procs -> Nat]]]  BY <1>6, SumNothing
<1>8. \A i \in Slots : ~(stitem[i].timekey > 0)  BY <1>3, <1>4
<1>9. SetLedger(c, h, sc)  BY <1>7, <1>8 DEF SetLedger
<1> QED BY <1>1, <1>2, <1>3, <1>4, <1>5, <1>9 DEF SetInv, LedgerInv

LEMMA SetReport ==
  ASSUME SetInv, SumsType', NEW k \in Keys, NEW p \in Procs, NEW b \in Batches,
         Report(k, p, b), past' = past
  PROVE  SetInv'
<1>1. TimesInv /\ TimesInv'  BY ReportTimes DEF SetInv
<1>2. PICK c, h, con, sc : Ledger(c, h, con) /\ SetLedger(c, h, sc)  BY DEF SetInv
<1>3. PICK c2, h2 : Ledger(c2, h2, con)' /\ Grown(c, h, c2, h2)
  BY <1>1, <1>2, LedgerReport
<1>4. UNCHANGED <<titem, mapidnum, newest, counted, readded, disordered, stitem>>
  BY DEF Report, stats, past
<1>5. ASSUME disordered = {}, readded = {}, NEW i \in Slots, stitem[i].timekey > 0
      PROVE  SetCredited(c2, h2, sc[i], i, stitem[i].timekey)'
  <2>1. PICK t \in Times : t = stitem[i].timekey
    <3>1. stitem[i].timekey # 0  BY <1>5
    <3> QED BY <3>1 DEF SetInv
  <2>2. SetCredited(c, h, sc[i], i, t)  BY <1>2, <1>5, <2>1 DEF SetLedger
  <2>3. ASSUME NEW l \in Keys, NEW q \in Procs
        PROVE  Kept(c2, h2, sc[i][l][q], l, q, i, t)'
    <3>1. PICK x \in Nat : x = sc[i][l][q]  BY <1>2 DEF SetLedger
    <3>2. Kept(c, h, x, l, q, i, t)  BY <2>2, <3>1 DEF SetCredited
    <3>3. UNCHANGED <<titem, mapidnum, newest, counted>>  BY <1>4
    <3>4. Kept(c2, h2, x, l, q, i, t)'
      BY <1>1, <1>2, <1>3, <3>2, <3>3, KeptGrown
    <3> QED BY <3>1, <3>4
  <2>4. stitem'[i].sum <= SumAll(sc[i])  BY <1>4, <2>2 DEF SetCredited
  <2>5. SetCredited(c2, h2, sc[i], i, t)'  BY <2>3, <2>4 DEF SetCredited
  <2> QED BY <1>4, <2>1, <2>5
<1>6. SetLedger(c2, h2, sc)'  BY <1>2, <1>4, <1>5 DEF SetLedger
<1>7. stitem' \in Rings /\ \A i \in Slots : stitem'[i].timekey \in {0} \cup Times
  BY <1>4 DEF SetInv
<1> QED BY <1>1, <1>3, <1>6, <1>7 DEF SetInv

LEMMA SetQuiet ==
  ASSUME SetInv, SumsType', Quiet, past' = past PROVE SetInv'
<1>1. TimesInv /\ TimesInv' /\ RingsStill /\ SameReports  BY QuietMoves DEF SetInv
<1>2. PICK c, h, con, sc : Ledger(c, h, con) /\ SetLedger(c, h, sc)  BY DEF SetInv
<1>3. Ledger(c, h, con)'  BY <1>1, <1>2, LedgerQuiet
<1>4. UNCHANGED <<newest, counted, readded, disordered, stitem>>
  BY DEF Quiet, past
<1>5. ASSUME disordered = {}, readded = {}, NEW i \in Slots, stitem[i].timekey > 0
      PROVE  SetCredited(c, h, sc[i], i, stitem[i].timekey)'
  <2>1. PICK t \in Times : t = stitem[i].timekey
    <3>1. stitem[i].timekey # 0  BY <1>5
    <3> QED BY <3>1 DEF SetInv
  <2>2. SetCredited(c, h, sc[i], i, t)  BY <1>2, <1>5, <2>1 DEF SetLedger
  <2>3. ASSUME NEW l \in Keys, NEW q \in Procs
        PROVE  Kept(c, h, sc[i][l][q], l, q, i, t)'
    <3>1. PICK x \in Nat : x = sc[i][l][q]  BY <1>2 DEF SetLedger
    <3>2. Kept(c, h, x, l, q, i, t)  BY <2>2, <3>1 DEF SetCredited
    <3>3. newest[l][q] <= newest'[l][q] /\ counted \subseteq counted'
      <4>1. newest[l][q] \in Nat  BY <1>1 DEF TimesInv
      <4> QED BY <1>4, <4>1
    <3>4. titem'[l][i].timekey = t /\ mapidnum'[l][i][q].sum > 0 =>
            titem[l][i].timekey = t /\ mapidnum'[l][i][q].sum = mapidnum[l][i][q].sum
      <4>1. t # 0  BY TimesNat
      <4> QED BY <4>1 DEF Quiet
    <3>5. Kept(c, h, x, l, q, i, t)'
      BY <1>1, <1>2, <3>2, <3>3, <3>4, KeptStill
    <3> QED BY <3>1, <3>5
  <2>4. stitem'[i].sum <= SumAll(sc[i])  BY <1>4, <2>2 DEF SetCredited
  <2>5. SetCredited(c, h, sc[i], i, t)'  BY <2>3, <2>4 DEF SetCredited
  <2> QED BY <1>4, <2>1, <2>5
<1>6. SetLedger(c, h, sc)'  BY <1>2, <1>4, <1>5 DEF SetLedger
<1>7. stitem' \in Rings /\ \A i \in Slots : stitem'[i].timekey \in {0} \cup Times
  BY <1>4 DEF SetInv
<1> QED BY <1>1, <1>3, <1>6, <1>7 DEF SetInv

\* What a step of the two levels is to the set's slots.
LEMMA SetSteps ==
  ASSUME [SetNext]_allvars
  PROVE  \/ \E m \in net : QueryAsks(m)
         \/ /\ past' = past
            /\ \/ \E k \in Keys, p \in Procs, b \in Batches : Report(k, p, b)
               \/ Quiet
<1>1. ASSUME NEW a \in asks, ProSETQuota(a) PROVE past' = past /\ UNCHANGED vars
  BY <1>1 DEF ProSETQuota
<1>2. ASSUME NEW d \in calls, CallAnswered(d) \/ CallFails(d)
      PROVE  past' = past /\ (SetFails(d) \/ \E qs : SetAnswered(d, qs))
  BY <1>2 DEF CallAnswered, CallFails
<1>3. ASSUME Apart, UNCHANGED second
      PROVE  /\ past' = past
             /\ \/ \E k \in Keys, p \in Procs, b \in Batches : Report(k, p, b)
                \/ \E p \in Procs : Restart(p)
                \/ \E m \in net : Lose(m)
                \/ ClearData
                \/ Tick
  BY <1>3 DEF Apart, second
<1>4. ASSUME UNCHANGED allvars PROVE past' = past /\ UNCHANGED vars
  BY <1>4 DEF allvars, second
<1> QED BY <1>1, <1>2, <1>3, <1>4, OtherQuiet DEF SetNext

LEMMA SetInvNext == SetInv /\ SumsType' /\ [SetNext]_allvars => SetInv'
<1> SUFFICES ASSUME SetInv, SumsType', [SetNext]_allvars PROVE SetInv'  OBVIOUS
<1> QED BY SetSteps, SetQuery, SetReport, SetQuiet

LEMMA SetBacked ==
  ASSUME SetInv, disordered = {}, readded = {}
  PROVE  Backed(stitem, truth)
<1> SUFFICES ASSUME NEW i \in Slots, stitem[i].timekey > 0
             PROVE  /\ stitem[i].timekey \in Times
                    /\ stitem[i].sum <= SetTruth(truth, stitem[i].timekey)
  BY DEF Backed
<1>1. PICK c, h, con, sc : Ledger(c, h, con) /\ SetLedger(c, h, sc)  BY DEF SetInv
<1>2. PICK t \in Times : t = stitem[i].timekey
  <2>1. stitem[i].timekey # 0  OBVIOUS
  <2> QED BY <2>1 DEF SetInv
<1>3. PICK f \in [Keys -> [Procs -> Nat]] : f = sc[i]  BY <1>1 DEF SetLedger
<1>4. SetCredited(c, h, f, i, t)  BY <1>1, <1>2, <1>3 DEF SetLedger
<1>5. \A k \in Keys, p \in Procs : f[k][p] <= c[k][p][t]
  BY <1>4 DEF SetCredited, Kept
<1>6. c \in [Keys -> [Procs -> [Times -> Nat]]] /\ CountedAll(c) /\ TimesInv
  BY <1>1 DEF Ledger, SetInv
<1>7. SumAll(f) <= SetTruth(truth, t) /\ SetTruth(truth, t) \in Int
  BY <1>5, <1>6, SumAllTruth
<1>8. stitem[i].sum <= SumAll(f)  BY <1>4 DEF SetCredited
<1>9. SumAll(f) \in Int /\ stitem[i].sum \in Int
  BY SumAllType DEF SetInv, Rings, Totals
<1>10. stitem[i].sum <= SetTruth(truth, t)  BY ONLY <1>7, <1>8, <1>9
<1> QED BY <1>2, <1>10

-----------------------------------------------------------------------------
\* What the second level was sent, and has of it.

LEMMA BeforeSame == ASSUME NEW x \in Rings PROVE Before(x, x)
<1>1. \A i \in Slots : x[i].sum \in Int  BY DEF Rings, Totals
<1> QED BY <1>1 DEF Before

LEMMA BeforeThen ==
  ASSUME NEW x \in Rings, NEW y \in Rings, NEW z \in Rings, Before(x, y), Before(y, z)
  PROVE  Before(x, z)
<1> SUFFICES ASSUME NEW i \in Slots
             PROVE  \/ x[i].timekey < z[i].timekey
                    \/ x[i].timekey = z[i].timekey /\ x[i].sum <= z[i].sum
  BY DEF Before
<1>1. /\ x[i].timekey \in Nat /\ y[i].timekey \in Nat /\ z[i].timekey \in Nat
      /\ x[i].sum \in Int /\ y[i].sum \in Int /\ z[i].sum \in Int
  BY DEF Rings, Totals
<1>2. /\ \/ x[i].timekey < y[i].timekey
         \/ x[i].timekey = y[i].timekey /\ x[i].sum <= y[i].sum
      /\ \/ y[i].timekey < z[i].timekey
         \/ y[i].timekey = z[i].timekey /\ y[i].sum <= z[i].sum
  BY DEF Before
<1> QED BY ONLY <1>1, <1>2

\* The truth only grows.
LEMMA BackedGrows ==
  ASSUME truth \in [Keys -> [Times -> Nat]], truth' \in [Keys -> [Times -> Nat]],
         \A k \in Keys, t \in Times : truth[k][t] <= truth'[k][t],
         NEW ring \in Rings, Backed(ring, truth)
  PROVE  Backed(ring, truth')
<1> SUFFICES ASSUME NEW i \in Slots, ring[i].timekey > 0
             PROVE  /\ ring[i].timekey \in Times
                    /\ ring[i].sum <= SetTruth(truth', ring[i].timekey)
  BY DEF Backed
<1>1. PICK t \in Times : t = ring[i].timekey  BY DEF Backed
<1>2. IsFiniteSet(Keys)  BY SetAssumption
<1> DEFINE f == [k \in Keys |-> truth[k][t]]
           g == [k \in Keys |-> truth'[k][t]]
<1>3. \A k \in Keys : f[k] \in Int /\ g[k] \in Int /\ f[k] <= g[k]
  <2>1. \A k \in Keys : truth[k][t] \in Nat /\ truth'[k][t] \in Nat  OBVIOUS
  <2> QED BY <2>1
<1>4. SetTruth(truth, t) = SumFunctionOnSet(f, Keys)
      /\ SetTruth(truth', t) = SumFunctionOnSet(g, Keys)
  BY DEF SetTruth
<1> HIDE DEF f, g
<1>5. SumFunctionOnSet(f, Keys) <= SumFunctionOnSet(g, Keys)  BY <1>2, <1>3, SumLess
<1>6. SumFunctionOnSet(f, Keys) \in Int  BY <1>2, <1>3, SumInt
<1>7. SumFunctionOnSet(g, Keys) \in Int  BY <1>2, <1>3, SumInt
<1>8. ring[i].sum <= SumFunctionOnSet(f, Keys)  BY <1>1, <1>4 DEF Backed
<1>9. ring[i].sum \in Int  BY DEF Rings, Totals
<1>10. ring[i].sum <= SumFunctionOnSet(g, Keys)  BY ONLY <1>5, <1>6, <1>7, <1>8, <1>9
<1> QED BY <1>1, <1>4, <1>10

\* Reports of the set are in the order of their numbers.  Unless one was
\* handled late, the second level has what the last one said, and it has
\* nothing of them that is not true.
SetHolds == disordered = {} /\ readded = {} => Backed(stitem, truth)

AsksInv ==
  /\ asked \in Nat /\ newest2 \in Nat /\ newest2 <= asked
  /\ {"titem", "last"} \subseteq DOMAIN setdata
  /\ \A a \in asks : /\ a.num \in Nat /\ a.num <= asked
                     /\ a.items \in Rings /\ Before(a.items, stitem)
  /\ \A a \in asks, b \in asks : a.num <= b.num => Before(a.items, b.items)
  /\ ~late =>
       /\ setdata.titem \in Rings
       /\ \A i \in Slots :
            /\ setdata.last[i].sum \in Int
            /\ setdata.last[i].refuse \in Int /\ setdata.last[i].setrefuse \in Int
            /\ setdata.titem[i].timekey > 0 =>
                 /\ setdata.titem[i].sum > 0
                 /\ setdata.last[i].sum = setdata.titem[i].sum
       /\ Before(setdata.titem, stitem)
       /\ \A a \in asks : newest2 <= a.num => Before(setdata.titem, a.items)
  /\ disordered = {} /\ readded = {} =>
       /\ \A a \in asks : Backed(a.items, truth)
       /\ ~late => Backed(setdata.titem, truth)

LEMMA AsksInit == SetInit => AsksInv
<1> SUFFICES ASSUME SetInit PROVE AsksInv  OBVIOUS
<1>1. asks = {} /\ asked = 0 /\ newest2 = 0 /\ stitem = NoRing
  BY DEF SetInit, Init
<1>2. {"titem", "last"} \subseteq DOMAIN setdata
      /\ setdata.titem = NoRing /\ setdata.last = [i \in Slots |-> NoData]
  BY DEF SetInit
<1>3. NoSlot \in Totals /\ NoSlot.timekey = 0  BY DEF NoSlot, Totals
<1>4. NoRing \in Rings /\ \A i \in Slots : NoRing[i].timekey = 0
  BY <1>3 DEF NoRing, Rings
<1>5. \A i \in Slots :
        /\ setdata.last[i].sum \in Int
        /\ setdata.last[i].refuse \in Int /\ setdata.last[i].setrefuse \in Int
  BY <1>2 DEF NoData
<1>6. Before(setdata.titem, stitem)  BY <1>1, <1>2, <1>4, BeforeSame
<1>7. Backed(setdata.titem, truth)  BY <1>2, <1>4 DEF Backed
<1> QED BY <1>1, <1>2, <1>4, <1>5, <1>6, <1>7 DEF AsksInv

\* What a report of the set does to a slot when it is not late.
LEMMA TakenSlot ==
  ASSUME NEW slot \in Totals, NEW item \in Totals, NEW last,
         last.sum \in Int, last.refuse \in Int, last.setrefuse \in Int, Told(item),
         \/ slot.timekey < item.timekey
         \/ slot.timekey = item.timekey /\ slot.sum <= item.sum,
         slot.timekey > 0 => slot.sum > 0 /\ last.sum = slot.sum
  PROVE  /\ Added(slot, last, item) \in Totals
         /\ Added(slot, last, item).timekey = item.timekey
         /\ Added(slot, last, item).sum = item.sum
<1>1. /\ slot.timekey \in Nat /\ item.timekey \in Nat
      /\ slot.sum \in Int /\ item.sum \in Int
      /\ item.refuse \in Int /\ item.setrefuse \in Int
  BY DEF Totals
<1>2. Added(slot, last, item) \in Totals  BY AddedTotals
<1>3. CASE slot.timekey < item.timekey
  <2>1. Added(slot, last, item) = item  BY <1>1, <1>3 DEF Added, Newer
  <2> QED BY <1>2, <2>1
<1>4. CASE slot.timekey = item.timekey /\ slot.sum <= item.sum
  <2>1. slot.timekey > 0 /\ slot.timekey # 0  BY <1>1, <1>4 DEF Told
  <2>2. ~Newer(slot, item) /\ ~(item.timekey < slot.timekey)
    BY <1>1, <1>4, <2>1 DEF Newer
  <2>3. ~IsReset(last, item)  BY <1>1, <1>4, <2>1 DEF IsReset
  <2>4. PICK less : less = Minus(slot, last)  OBVIOUS
  <2>5. less \in Totals /\ less.sum = slot.sum - last.sum /\ less.timekey = slot.timekey
    BY <2>4, PlusMinus
  <2>6. Added(slot, last, item) = Plus(less, item)  BY <2>2, <2>3, <2>4 DEF Added
  <2>7. Plus(less, item).sum = less.sum + item.sum /\ Plus(less, item).timekey = less.timekey
    BY <1>1, <2>5, PlusMinus
  <2>8. Plus(less, item).sum = item.sum  BY <1>1, <2>1, <2>5, <2>7
  <2> QED BY <1>2, <1>4, <2>5, <2>6, <2>7, <2>8
<1> QED BY <1>3, <1>4

LEMMA SetTakenRing ==
  ASSUME NEW items, {"titem", "last"} \subseteq DOMAIN setdata
  PROVE  /\ DOMAIN SetTaken(items) = DOMAIN setdata
         /\ SetTaken(items).titem =
              [i \in Slots |-> IF Told(items[i])
                 THEN Added(setdata.titem[i], setdata.last[i], items[i])
                 ELSE setdata.titem[i]]
         /\ SetTaken(items).last =
              [i \in Slots |->
                 IF Told(items[i]) /\ items[i].timekey >= setdata.titem[i].timekey
                 THEN Data(items[i]) ELSE setdata.last[i]]
<1>1. PICK d : d = Taken(setdata, items)  OBVIOUS
<1>2. /\ DOMAIN d = DOMAIN setdata
      /\ d.titem = [i \in Slots |-> IF Told(items[i])
                      THEN Added(setdata.titem[i], setdata.last[i], items[i])
                      ELSE setdata.titem[i]]
      /\ d.last = [i \in Slots |->
                     IF Told(items[i]) /\ items[i].timekey >= setdata.titem[i].timekey
                     THEN Data(items[i]) ELSE setdata.last[i]]
  BY <1>1 DEF Taken
<1>3. /\ DOMAIN SetTaken(items) = DOMAIN d
      /\ SetTaken(items).titem = d.titem /\ SetTaken(items).last = d.last
  BY <1>1, <1>2 DEF SetTaken
<1> QED BY <1>2, <1>3

-----------------------------------------------------------------------------
\* A report of the set is handled.
LEMMA AskHandled ==
  ASSUME AsksInv, stitem \in Rings, NEW a \in asks, ProSETQuota(a)
  PROVE  AsksInv'
<1>1. /\ asks' = asks \ {a} /\ setdata' = SetTaken(a.items)
      /\ newest2' = (IF a.num > newest2 THEN a.num ELSE newest2)
      /\ late' = (late \/ a.num < newest2)
      /\ UNCHANGED <<asked, stitem, truth, disordered, readded>>
  BY DEF ProSETQuota, vars, stats, history, past
<1>2. /\ DOMAIN setdata' = DOMAIN setdata
      /\ setdata'.titem = [i \in Slots |-> IF Told(a.items[i])
                             THEN Added(setdata.titem[i], setdata.last[i], a.items[i])
                             ELSE setdata.titem[i]]
      /\ setdata'.last = [i \in Slots |->
              IF Told(a.items[i]) /\ a.items[i].timekey >= setdata.titem[i].timekey
              THEN Data(a.items[i]) ELSE setdata.last[i]]
  BY <1>1, SetTakenRing DEF AsksInv
<1>3. /\ a.num \in Nat /\ a.num <= asked /\ a.items \in Rings
      /\ Before(a.items, stitem)
      /\ asked \in Nat /\ newest2 \in Nat /\ newest2 <= asked
  BY DEF AsksInv
<1>4. newest2' \in Nat /\ newest2' <= asked  BY <1>1, <1>3
<1>5. ASSUME ~late'
      PROVE  /\ ~late /\ newest2 <= a.num /\ newest2' = a.num
             /\ Before(setdata.titem, a.items) /\ setdata.titem \in Rings
  <2>1. ~late /\ ~(a.num < newest2)  BY <1>1, <1>5
  <2>2. newest2 <= a.num /\ newest2' = a.num  BY <1>1, <1>3, <2>1
  <2> QED BY <2>1, <2>2 DEF AsksInv
\* A slot is what the report says of it, or what it was.
<1>6. ASSUME ~late', NEW i \in Slots
      PROVE  /\ setdata'.titem[i] \in Totals
             /\ setdata'.last[i].sum \in Int /\ setdata'.last[i].refuse \in Int
             /\ setdata'.last[i].setrefuse \in Int
             /\ setdata'.titem[i].timekey > 0 =>
                  /\ setdata'.titem[i].sum > 0
                  /\ setdata'.last[i].sum = setdata'.titem[i].sum
             /\ \/ /\ setdata'.titem[i].timekey = a.items[i].timekey
                   /\ setdata'.titem[i].sum = a.items[i].sum
                \/ setdata'.titem[i] = setdata.titem[i]
  <2>1. ~late /\ Before(setdata.titem, a.items) /\ setdata.titem \in Rings
    BY <1>5, <1>6
  <2>2. PICK slot \in Totals, e \in Totals : slot = setdata.titem[i] /\ e = a.items[i]
    BY <1>3, <2>1 DEF Rings
  <2>3. PICK last : last = setdata.last[i]  OBVIOUS
  <2>4. /\ last.sum \in Int /\ last.refuse \in Int /\ last.setrefuse \in Int
        /\ slot.timekey > 0 => slot.sum > 0 /\ last.sum = slot.sum
    BY <2>1, <2>2, <2>3 DEF AsksInv
  <2>5. \/ slot.timekey < e.timekey
        \/ slot.timekey = e.timekey /\ slot.sum <= e.sum
    BY <2>1, <2>2 DEF Before
  <2>6. /\ setdata'.titem[i] = IF Told(e) THEN Added(slot, last, e) ELSE slot
        /\ setdata'.last[i] = IF Told(e) /\ e.timekey >= slot.timekey
                              THEN Data(e) ELSE last
    BY <1>2, <2>2, <2>3
  <2>7. CASE Told(e)
    <3>1. /\ Added(slot, last, e) \in Totals
          /\ Added(slot, last, e).timekey = e.timekey
          /\ Added(slot, last, e).sum = e.sum
      BY <2>4, <2>5, <2>7, TakenSlot
    <3>2. e.timekey >= slot.timekey
      <4>1. e.timekey \in Nat /\ slot.timekey \in Nat  BY DEF Totals
      <4> QED BY <2>5, <4>1
    <3>3. /\ Data(e).sum = e.sum /\ Data(e).refuse = e.refuse
          /\ Data(e).setrefuse = e.setrefuse
      BY DEF Data
    <3>4. e.sum \in Int /\ e.refuse \in Int /\ e.setrefuse \in Int /\ e.sum > 0
      BY <2>7 DEF Totals, Told
    <3> QED BY <2>2, <2>6, <2>7, <3>1, <3>2, <3>3, <3>4
  <2>8. CASE ~Told(e)
    <3>1. setdata'.titem[i] = slot /\ setdata'.last[i] = last  BY <2>6, <2>8
    <3> QED BY <2>2, <2>4, <3>1
  <2> QED BY <2>7, <2>8
<1>7. ASSUME ~late' PROVE setdata'.titem \in Rings
  <2>1. \A i \in Slots : setdata'.titem[i] \in Totals  BY <1>6, <1>7
  <2>2. DOMAIN setdata'.titem = Slots /\ setdata'.titem = [i \in Slots |-> setdata'.titem[i]]
    BY <1>2
  <2> QED BY <2>1, <2>2 DEF Rings
<1>8. ASSUME ~late', NEW r, Before(a.items, r), Before(setdata.titem, r)
      PROVE  Before(setdata'.titem, r)
  <2> SUFFICES ASSUME NEW i \in Slots
               PROVE  \/ setdata'.titem[i].timekey < r[i].timekey
                      \/ setdata'.titem[i].timekey = r[i].timekey
                         /\ setdata'.titem[i].sum <= r[i].sum
    BY DEF Before
  <2>1. /\ \/ a.items[i].timekey < r[i].timekey
           \/ a.items[i].timekey = r[i].timekey /\ a.items[i].sum <= r[i].sum
        /\ \/ setdata.titem[i].timekey < r[i].timekey
           \/ setdata.titem[i].timekey = r[i].timekey /\ setdata.titem[i].sum <= r[i].sum
    BY <1>8 DEF Before
  <2>2. \/ /\ setdata'.titem[i].timekey = a.items[i].timekey
           /\ setdata'.titem[i].sum = a.items[i].sum
        \/ setdata'.titem[i] = setdata.titem[i]
    BY <1>6, <1>8
  <2> QED BY <2>1, <2>2
<1>9. ASSUME ~late'
      PROVE  /\ Before(setdata'.titem, stitem)
             /\ \A b \in asks' : newest2' <= b.num => Before(setdata'.titem, b.items)
  <2>1. ~late /\ newest2 <= a.num /\ newest2' = a.num  BY <1>5, <1>9
  <2>2. Before(setdata.titem, stitem)  BY <2>1 DEF AsksInv
  <2>3. Before(setdata'.titem, stitem)  BY <1>3, <1>8, <1>9, <2>2
  <2>4. ASSUME NEW b \in asks', newest2' <= b.num PROVE Before(setdata'.titem, b.items)
    <3>1. b \in asks /\ b.num \in Nat  BY <1>1 DEF AsksInv
    <3>2. a.num <= b.num  BY <2>1, <2>4
    <3>3. newest2 <= b.num  BY ONLY <1>3, <2>1, <3>1, <3>2
    <3>4. Before(a.items, b.items)  BY <3>1, <3>2 DEF AsksInv
    <3>5. Before(setdata.titem, b.items)  BY <2>1, <3>1, <3>3 DEF AsksInv
    <3> QED BY <1>8, <1>9, <3>4, <3>5
  <2> QED BY <2>3, <2>4
<1>10. ASSUME ~late', disordered = {}, readded = {} PROVE Backed(setdata'.titem, truth)
  <2> SUFFICES ASSUME NEW i \in Slots, setdata'.titem[i].timekey > 0
               PROVE  /\ setdata'.titem[i].timekey \in Times
                      /\ setdata'.titem[i].sum
                           <= SetTruth(truth, setdata'.titem[i].timekey)
    BY DEF Backed
  <2>1. ~late  BY <1>5, <1>10
  <2>2. Backed(a.items, truth) /\ Backed(setdata.titem, truth)
    BY <1>10, <2>1 DEF AsksInv
  <2>3. CASE /\ setdata'.titem[i].timekey = a.items[i].timekey
             /\ setdata'.titem[i].sum = a.items[i].sum
    <3>1. /\ a.items[i].timekey \in Times
          /\ a.items[i].sum <= SetTruth(truth, a.items[i].timekey)
      BY <2>2, <2>3 DEF Backed
    <3> QED BY <2>3, <3>1
  <2>4. CASE setdata'.titem[i] = setdata.titem[i]
    <3>1. /\ setdata.titem[i].timekey \in Times
          /\ setdata.titem[i].sum <= SetTruth(truth, setdata.titem[i].timekey)
      BY <2>2, <2>4 DEF Backed
    <3> QED BY <2>4, <3>1
  <2> QED BY <1>6, <1>10, <2>3, <2>4
<1>11. {"titem", "last"} \subseteq DOMAIN setdata'  BY <1>2 DEF AsksInv
<1>12. /\ \A b \in asks' : /\ b.num \in Nat /\ b.num <= asked
                           /\ b.items \in Rings /\ Before(b.items, stitem)
       /\ \A b \in asks', d \in asks' : b.num <= d.num => Before(b.items, d.items)
       /\ disordered = {} /\ readded = {} => \A b \in asks' : Backed(b.items, truth)
  BY <1>1 DEF AsksInv
<1>13. ~late' =>
         /\ setdata'.titem \in Rings
         /\ \A i \in Slots :
              /\ setdata'.last[i].sum \in Int
              /\ setdata'.last[i].refuse \in Int /\ setdata'.last[i].setrefuse \in Int
              /\ setdata'.titem[i].timekey > 0 =>
                   /\ setdata'.titem[i].sum > 0
                   /\ setdata'.last[i].sum = setdata'.titem[i].sum
  BY <1>6, <1>7
<1> QED BY <1>1, <1>3, <1>4, <1>9, <1>10, <1>11, <1>12, <1>13 DEF AsksInv

\* A call is made, with the slots as they then are.
LEMMA AskMade ==
  ASSUME AsksInv, SetInv, SetHolds', NEW m \in net, QueryAsks(m)
  PROVE  AsksInv'
<1>1. /\ Query(m)
      /\ asks' = asks \cup {[num |-> asked + 1, items |-> stitem',
                             procs |-> [p \in d.procs |-> procitem'[p]]] :
                            d \in calls' \ calls}
      /\ asked' = asked + Cardinality(calls' \ calls)
      /\ UNCHANGED <<setdata, newest2, late>>
      /\ readded \subseteq readded'
  BY DEF QueryAsks
<1>2. /\ stitem \in Rings /\ stitem' \in Rings /\ Before(stitem, stitem')
  BY <1>1, SetSlotsQuery DEF SetInv
<1>3. truth' = truth /\ disordered \subseteq disordered'
  BY <1>1 DEF Query, Remember
<1>4. calls' \ calls = {} \/ \E d : calls' \ calls = {d}
  <2>1. PICK d : AskSet(d) \/ AnswerAtOnce(d)  BY <1>1 DEF Query
  <2>2. calls' = calls \/ \E e : calls' = calls \cup {e}
    BY <2>1 DEF AskSet, AnswerAtOnce
  <2> QED BY <2>2
<1>5. asked \in Nat /\ newest2 \in Nat /\ newest2 <= asked  BY DEF AsksInv
<1>6. \/ asks' = asks /\ asked' = asked
      \/ /\ asked' = asked + 1
         /\ \E b : asks' = asks \cup {b} /\ b.num = asked + 1 /\ b.items = stitem'
  <2>1. CASE calls' \ calls = {}
    <3>1. Cardinality(calls' \ calls) = 0  BY <2>1, FS_EmptySet
    <3> QED BY <1>1, <1>5, <2>1, <3>1
  <2>2. ASSUME NEW d, calls' \ calls = {d}
        PROVE  /\ asked' = asked + 1
               /\ \E b : asks' = asks \cup {b} /\ b.num = asked + 1 /\ b.items = stitem'
    <3>1. Cardinality(calls' \ calls) = 1  BY <2>2, FS_Singleton
    <3>2. asks' = asks \cup {[num |-> asked + 1, items |-> stitem',
                              procs |-> [p \in d.procs |-> procitem'[p]]]}
      BY <1>1, <2>2
    <3>3. PICK b : b = [num |-> asked + 1, items |-> stitem',
                        procs |-> [p \in d.procs |-> procitem'[p]]]
      OBVIOUS
    <3>4. b.num = asked + 1 /\ b.items = stitem'  BY <3>3
    <3>5. asks' = asks \cup {b}  BY <3>2, <3>3
    <3> QED BY <1>1, <3>1, <3>4, <3>5
  <2> QED BY <1>4, <2>1, <2>2
<1>7. asked' \in Nat /\ asked <= asked' /\ newest2 <= asked'
  <2>1. asked' = asked \/ asked' = asked + 1  BY <1>6
  <2> QED BY ONLY <1>5, <2>1
\* A request is an old one, or the one of this call.
<1>8. ASSUME NEW a \in asks'
      PROVE  a \in asks \/ (a.num = asked + 1 /\ asked' = asked + 1 /\ a.items = stitem')
  BY <1>6
<1>9. ASSUME NEW a \in asks'
      PROVE  /\ a.num \in Nat /\ a.num <= asked'
             /\ a.items \in Rings /\ Before(a.items, stitem')
  <2>1. CASE a \in asks
    <3>1. /\ a.num \in Nat /\ a.num <= asked
          /\ a.items \in Rings /\ Before(a.items, stitem)
      BY <2>1 DEF AsksInv
    <3>2. Before(a.items, stitem')  BY <1>2, <3>1, BeforeThen
    <3>3. a.num <= asked'  BY ONLY <1>5, <1>7, <3>1
    <3> QED BY <3>1, <3>2, <3>3
  <2>2. CASE a.num = asked + 1 /\ asked' = asked + 1 /\ a.items = stitem'
    <3>1. Before(stitem', stitem')  BY <1>2, BeforeSame
    <3> QED BY <1>2, <1>5, <2>2, <3>1
  <2> QED BY <1>8, <2>1, <2>2
<1>10. ASSUME NEW a \in asks', NEW b \in asks', a.num <= b.num
       PROVE  Before(a.items, b.items)
  <2>1. CASE b \in asks
    <3>1. b.num <= asked /\ b.num \in Nat  BY <2>1 DEF AsksInv
    <3>2. a.num # asked + 1
      <4>1. a.num \in Nat  BY <1>9
      <4> QED BY ONLY <1>5, <1>10, <3>1, <4>1
    <3>3. a \in asks  BY <1>8, <3>2
    <3> QED BY <1>10, <2>1, <3>3 DEF AsksInv
  <2>2. CASE b.items = stitem'  BY <1>9, <2>2
  <2> QED BY <1>8, <2>1, <2>2
<1>11. ASSUME ~late
       PROVE  /\ setdata.titem \in Rings
              /\ Before(setdata.titem, stitem')
              /\ \A a \in asks' : newest2 <= a.num => Before(setdata.titem, a.items)
  <2>1. setdata.titem \in Rings /\ Before(setdata.titem, stitem)  BY <1>11 DEF AsksInv
  <2>2. Before(setdata.titem, stitem')  BY <1>2, <2>1, BeforeThen
  <2>3. ASSUME NEW a \in asks', newest2 <= a.num PROVE Before(setdata.titem, a.items)
    <3>1. CASE a \in asks  BY <1>11, <2>3, <3>1 DEF AsksInv
    <3>2. CASE a.items = stitem'  BY <2>2, <3>2
    <3> QED BY <1>8, <3>1, <3>2
  <2> QED BY <2>1, <2>2, <2>3
<1>12. ASSUME disordered' = {}, readded' = {}
       PROVE  /\ \A a \in asks' : Backed(a.items, truth')
              /\ ~late => Backed(setdata.titem, truth')
  <2>1. disordered = {} /\ readded = {}  BY <1>1, <1>3, <1>12
  <2>2. Backed(stitem', truth')  BY <1>12 DEF SetHolds
  <2>3. ASSUME NEW a \in asks' PROVE Backed(a.items, truth')
    <3>1. CASE a \in asks  BY <1>3, <2>1, <3>1 DEF AsksInv
    <3>2. CASE a.items = stitem'  BY <2>2, <3>2
    <3> QED BY <1>8, <3>1, <3>2
  <2>4. ~late => Backed(setdata.titem, truth')  BY <1>3, <2>1 DEF AsksInv
  <2> QED BY <2>3, <2>4
<1>13. ~late => \A i \in Slots :
            /\ setdata.last[i].sum \in Int
            /\ setdata.last[i].refuse \in Int /\ setdata.last[i].setrefuse \in Int
            /\ setdata.titem[i].timekey > 0 =>
                 /\ setdata.titem[i].sum > 0
                 /\ setdata.last[i].sum = setdata.titem[i].sum
  BY DEF AsksInv
<1>14. {"titem", "last"} \subseteq DOMAIN setdata  BY DEF AsksInv
<1>15. setdata' = setdata /\ newest2' = newest2 /\ late' = late  BY <1>1
<1> QED
  BY <1>5, <1>7, <1>9, <1>10, <1>11, <1>12, <1>13, <1>14, <1>15 DEF AsksInv

\* The other steps leave all of it.
LEMMA AsksStill ==
  ASSUME AsksInv, UNCHANGED <<asks, asked, setdata, newest2, late, readded>>,
         UNCHANGED <<stitem, disordered>>,
         \A ring \in Rings : Backed(ring, truth) => Backed(ring, truth')
  PROVE  AsksInv'
<1>1. disordered = {} /\ readded = {} =>
        /\ \A a \in asks : Backed(a.items, truth')
        /\ ~late => Backed(setdata.titem, truth')
  BY DEF AsksInv
<1> QED BY <1>1 DEF AsksInv

LEMMA AsksNext ==
  AsksInv /\ SetInv /\ SetInv' /\ SetHolds' /\ [SetNext]_allvars => AsksInv'
<1> SUFFICES ASSUME AsksInv, SetInv, SetInv', SetHolds', [SetNext]_allvars
             PROVE  AsksInv'
  OBVIOUS
<1>1. ASSUME NEW m \in net, QueryAsks(m) PROVE AsksInv'  BY <1>1, AskMade
<1>2. ASSUME NEW a \in asks, ProSETQuota(a) PROVE AsksInv'
  BY <1>2, AskHandled DEF SetInv
<1>3. ASSUME UNCHANGED <<asks, asked, setdata, newest2, late, readded>>, Quiet
      PROVE  AsksInv'
  <2>1. UNCHANGED <<stitem, disordered, truth>>  BY <1>3 DEF Quiet
  <2> QED BY <1>3, <2>1, AsksStill
<1>4. ASSUME UNCHANGED <<asks, asked, setdata, newest2, late, readded>>,
             NEW k \in Keys, NEW p \in Procs, NEW b \in Batches, Report(k, p, b)
      PROVE  AsksInv'
  <2>1. UNCHANGED <<stitem, disordered>>
        /\ truth' = [truth EXCEPT ![k][TimeKey(now)] = @ + b.sum]
    BY <1>4 DEF Report, stats
  <2>2. truth \in [Keys -> [Times -> Nat]] /\ truth' \in [Keys -> [Times -> Nat]]
    BY DEF SetInv, TimesInv
  <2>3. b.sum \in Nat  BY ServerAssumption
  <2>4. ASSUME NEW l \in Keys, NEW t \in Times PROVE truth[l][t] <= truth'[l][t]
    <3>1. truth[l][t] \in Nat  BY <2>2
    <3>2. truth'[l][t] = truth[l][t] \/ truth'[l][t] = truth[l][t] + b.sum
      BY <2>1, <2>2
    <3> QED BY <2>3, <3>1, <3>2
  <2>5. \A ring \in Rings : Backed(ring, truth) => Backed(ring, truth')
    BY <2>2, <2>4, BackedGrows
  <2> QED BY <1>4, <2>1, <2>5, AsksStill
<1>5. ASSUME NEW d \in calls, CallAnswered(d) \/ CallFails(d) PROVE AsksInv'
  <2>1. /\ UNCHANGED <<asks, asked, setdata, newest2, late, readded>>
        /\ SetFails(d) \/ \E qs : SetAnswered(d, qs)
    BY <1>5 DEF CallAnswered, CallFails, past
  <2> QED BY <1>3, <2>1, OtherQuiet
<1>6. ASSUME Apart, UNCHANGED second PROVE AsksInv'
  <2>1. UNCHANGED <<asks, asked, setdata, newest2, late, readded>>
    BY <1>6 DEF second, past
  <2>2. \/ \E k \in Keys, p \in Procs, b \in Batches : Report(k, p, b)
        \/ \E p \in Procs : Restart(p)
        \/ \E m \in net : Lose(m)
        \/ ClearData
        \/ Tick
    BY <1>6 DEF Apart
  <2> QED BY <1>3, <1>4, <2>1, <2>2, OtherQuiet
<1>7. CASE UNCHANGED allvars
  <2>1. UNCHANGED <<asks, asked, setdata, newest2, late, readded>> /\ UNCHANGED vars
    BY <1>7 DEF allvars, second, past
  <2> QED BY <1>3, <2>1, OtherQuiet
<1> QED BY <1>1, <1>2, <1>5, <1>6, <1>7 DEF SetNext

\* Nothing that the set's processors counted is counted twice at the second
\* level: not when calls fail after they were handled or are handled after they
\* failed, nor when the slots of the set are corrected by what is remembered of
\* those of the keys, unless a key has forgotten the slot (ServiceQua.cpp,
\* 1283-1301 and 1556-1625).
THEOREM SetCountsNothingTwice == SetSpec => []SetOvercountOnlyByDisorder
<1>1. SetInv => SetHolds  BY SetBacked DEF SetHolds
<1>2. AsksInv => SetOvercountOnlyByDisorder
  <2> SUFFICES ASSUME AsksInv, ~late, disordered = {}, readded = {}, NEW i \in Slots,
                      setdata.titem[i].timekey > 0
               PROVE  setdata.titem[i].sum
                        <= SumFunctionOnSet(
                             [k \in Keys |-> truth[k][setdata.titem[i].timekey]], Keys)
    BY DEF SetOvercountOnlyByDisorder
  <2>1. Backed(setdata.titem, truth)  BY DEF AsksInv
  <2> QED BY <2>1 DEF Backed, SetTruth
<1>3. SetSpec => []SumsInv
  BY LevelsImplement, SumsInit, SumsNext, PTL DEF Spec
<1>4. SumsInv => SumsType  BY DEF SumsInv
<1> QED
  BY <1>1, <1>2, <1>3, <1>4, SetInvInit, SetInvNext, AsksInit, AsksNext, PTL DEF SetSpec
=============================================================================
