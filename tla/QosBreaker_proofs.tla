-------------------------- MODULE QosBreaker_proofs --------------------------
(***************************************************************************)
(* The breaker's tokens, for every capacity and every number of sends      *)
(* under way; the ring of outcomes, and the verdict taken from it, for     *)
(* every length of the window.  Of FluxTime_proofs this module uses the    *)
(* lemmas about sums: the constants of FluxTime play no part here.         *)
(***************************************************************************)
EXTENDS QosBreaker, FluxTime_proofs, SequenceTheorems

SlotType == [tTime : Nat, suc : Nat, fail : Nat]

\* Counting an outcome in a slot gives a slot.
LEMMA FreshType ==
  ASSUME NEW slot \in SlotType, now \in Nat
  PROVE  Fresh(slot) \in SlotType
BY DEF Fresh, SlotType

LEMMA CountedType ==
  ASSUME NEW slot \in SlotType, NEW ok \in BOOLEAN
  PROVE  Counted(slot, ok) \in SlotType
BY DEF Counted, SlotType

\* Taking from a channel, and putting into it.
LEMMA Take ==
  ASSUME NEW ch \in Seq(BOOLEAN), ch # <<>>
  PROVE  /\ Head(ch) \in BOOLEAN
         /\ Tail(ch) \in Seq(BOOLEAN)
         /\ Len(ch) \in Nat /\ Len(Tail(ch)) \in Nat
         /\ Len(Tail(ch)) = Len(ch) - 1
BY HeadTailProperties, LenProperties

LEMMA Put ==
  ASSUME NEW ch \in Seq(BOOLEAN), NEW b \in BOOLEAN
  PROVE  /\ Append(ch, b) \in Seq(BOOLEAN)
         /\ Len(ch) \in Nat /\ Len(Append(ch, b)) \in Nat
         /\ Len(Append(ch, b)) = Len(ch) + 1
BY AppendProperties, LenProperties

LEMMA InitType == Init => TypeOK
<1> SUFFICES ASSUME Init PROVE TypeOK  OBVIOUS
<1>1. <<TRUE>> \in Seq(BOOLEAN) /\ Len(<<TRUE>>) = 1
      /\ <<>> \in Seq(BOOLEAN) /\ Len(<<>>) = 0
  OBVIOUS
<1> QED BY <1>1, BreakerAssumption DEF Init, TypeOK

\* Every step keeps the types, and puts no more into a channel than it holds.
LEMMA StepType == TypeOK /\ [Next]_vars => TypeOK'
<1> SUFFICES ASSUME TypeOK, [Next]_vars PROVE TypeOK'  OBVIOUS
<1> USE DEF TypeOK
<1> USE BreakerAssumption
<1>1. CASE SendAllowed
  <2>1. \/ CheckQosCh' = CheckQosCh
        \/ CheckQosCh # <<>> /\ CheckQosCh' = Tail(CheckQosCh)
    BY <1>1 DEF SendAllowed
  <2>2. CheckQosCh' \in Seq(BOOLEAN) /\ Len(CheckQosCh') <= QosCap
    <3>1. CASE CheckQosCh' = CheckQosCh
      BY <3>1
    <3>2. CASE CheckQosCh # <<>> /\ CheckQosCh' = Tail(CheckQosCh)
      <4>1. CheckQosCh \in Seq(BOOLEAN) /\ Len(CheckQosCh) <= QosCap
        OBVIOUS
      <4>2. /\ Tail(CheckQosCh) \in Seq(BOOLEAN)
            /\ Len(Tail(CheckQosCh)) = Len(CheckQosCh) - 1
            /\ Len(CheckQosCh) \in Nat
        BY <3>2, <4>1, Take
      <4> HIDE DEF TypeOK
      <4> QED BY <3>2, <4>1, <4>2
    <3> QED BY <2>1, <3>1, <3>2
  <2>3. /\ inflight' = inflight + 1 /\ inflight < MaxInflight /\ row' = 0
        /\ sends' = sends + 1
        /\ UNCHANGED <<now, coin, uservars, RetMsCh>>
    BY <1>1 DEF SendAllowed
  <2> QED BY <2>2, <2>3 DEF uservars
<1>2. CASE SendRefused
  <2>1. \/ CheckQosCh' = CheckQosCh
        \/ CheckQosCh # <<>> /\ CheckQosCh' = Tail(CheckQosCh)
    BY <1>2 DEF SendRefused
  <2>2. CheckQosCh' \in Seq(BOOLEAN) /\ Len(CheckQosCh') <= QosCap
    <3>1. CASE CheckQosCh' = CheckQosCh
      BY <3>1
    <3>2. CASE CheckQosCh # <<>> /\ CheckQosCh' = Tail(CheckQosCh)
      <4>1. CheckQosCh \in Seq(BOOLEAN) /\ Len(CheckQosCh) <= QosCap
        OBVIOUS
      <4>2. /\ Tail(CheckQosCh) \in Seq(BOOLEAN)
            /\ Len(Tail(CheckQosCh)) = Len(CheckQosCh) - 1
            /\ Len(CheckQosCh) \in Nat
        BY <3>2, <4>1, Take
      <4> HIDE DEF TypeOK
      <4> QED BY <3>2, <4>1, <4>2
    <3> QED BY <2>1, <3>1, <3>2
  <2>3. /\ inflight' = inflight /\ row' = row + 1
        /\ sends' = sends + 1
        /\ UNCHANGED <<now, coin, uservars, RetMsCh>>
    BY <1>2 DEF SendRefused
  <2> QED BY <2>2, <2>3 DEF uservars
<1>3. CASE AcquireFails
  BY <1>3 DEF AcquireFails, uservars, channels, history
<1>4. ASSUME NEW ok \in BOOLEAN, SendEnds(ok) PROVE TypeOK'
  <2>1. \/ RetMsCh' = Append(RetMsCh, ok) /\ Len(RetMsCh) < RetCap
        \/ RetMsCh' = RetMsCh
    BY <1>4 DEF SendEnds
  <2>2. /\ Append(RetMsCh, ok) \in Seq(BOOLEAN)
        /\ Len(RetMsCh) \in Nat
        /\ Len(Append(RetMsCh, ok)) = Len(RetMsCh) + 1
    BY Put
  <2>3. RetMsCh' \in Seq(BOOLEAN) /\ Len(RetMsCh') <= RetCap
    <3>1. RetMsCh \in Seq(BOOLEAN) /\ Len(RetMsCh) <= RetCap /\ RetCap \in Nat
      BY BreakerAssumption
    <3>2. CASE RetMsCh' = RetMsCh  BY ONLY <3>1, <3>2
    <3>3. CASE RetMsCh' = Append(RetMsCh, ok) /\ Len(RetMsCh) < RetCap
      BY ONLY <2>2, <3>1, <3>3
    <3> QED BY ONLY <2>1, <3>2, <3>3
  <2> QED BY <1>4, <2>3 DEF SendEnds, uservars, history
<1>5. CASE RecordOutcome
  <2>1. RetMsCh' \in Seq(BOOLEAN) /\ Len(RetMsCh') <= RetCap
    BY <1>5, Take DEF RecordOutcome
  <2>2. now % PastTime \in Ring  BY DEF Ring
  <2>3. Head(RetMsCh) \in BOOLEAN  BY <1>5, Take DEF RecordOutcome
  <2>4. Counted(Fresh(quawin[now % PastTime]), Head(RetMsCh)) \in SlotType
    BY <2>2, <2>3, FreshType, CountedType DEF SlotType
  <2>5. quawin' \in [Ring -> SlotType]
    BY <1>5, <2>4 DEF RecordOutcome, SlotType
  <2> QED BY <1>5, <2>1, <2>5 DEF RecordOutcome, SlotType
<1>6. CASE CheckQos
  <2>1. verdict' \in BOOLEAN  BY <1>6 DEF CheckQos
  <2> QED BY <1>6, <2>1 DEF CheckQos, channels
<1>7. CASE PushVerdict
  <2>1. CheckQosCh' \in Seq(BOOLEAN) /\ Len(CheckQosCh') <= QosCap
    BY <1>7, Put DEF PushVerdict
  <2> QED BY <1>7, <2>1 DEF PushVerdict, history
<1>8. CASE Tick
  BY <1>8 DEF Tick, uservars, channels, history
<1>9. CASE UNCHANGED vars
  BY <1>9 DEF vars, uservars, channels, history
<1> QED
  BY <1>1, <1>2, <1>3, <1>4, <1>5, <1>6, <1>7, <1>8, <1>9
  DEF Next, Send, Update

\* The breaker's state keeps its types, and its channels their capacities.
THEOREM BreakerTypes == Spec => []TypeOK
<1>1. Init => TypeOK  BY InitType
<1>2. TypeOK /\ [Next]_vars => TypeOK'  BY StepType
<1> QED BY <1>1, <1>2, PTL DEF Spec

\* The tokens alone never exceed what the channels and the sends hold.
LEMMA TokensBounded ==
  TypeOK => Tokens \in Nat /\ Tokens <= QosCap + RetCap + 1 + MaxInflight
BY BreakerAssumption DEF TypeOK, Tokens

\* A refused send takes a token away and makes none; every other step either
\* moves tokens or starts the row anew.
LEMMA StepRefusals ==
  TypeOK /\ RefusalsBounded /\ [Next]_vars => RefusalsBounded'
<1> SUFFICES ASSUME TypeOK, RefusalsBounded, [Next]_vars
             PROVE  RefusalsBounded'
  OBVIOUS
<1>0. TypeOK'  BY StepType
<1>5a. Tokens' \in Nat /\ Tokens' <= QosCap + RetCap + 1 + MaxInflight
  <2>1. /\ Len(CheckQosCh') \in Nat /\ Len(CheckQosCh') <= QosCap
        /\ Len(RetMsCh') \in Nat /\ Len(RetMsCh') <= RetCap
        /\ inflight' \in Nat /\ inflight' <= MaxInflight
    BY ONLY <1>0, BreakerAssumption, LenProperties DEF TypeOK
  <2>2. Tokens' = Len(CheckQosCh') + Len(RetMsCh') + (IF upc' = "wait" THEN 0 ELSE 1)
                    + inflight'
    BY ONLY DEF Tokens
  <2> QED BY ONLY <2>1, <2>2, BreakerAssumption
<1>n. /\ row \in Nat /\ inflight \in Nat
      /\ Len(CheckQosCh) \in Nat /\ Len(RetMsCh) \in Nat
      /\ Len(CheckQosCh') \in Nat /\ Len(RetMsCh') \in Nat
  BY <1>0, LenProperties DEF TypeOK
<1> USE BreakerAssumption
<1>1. CASE row' = 0
  BY <1>5a, <1>n, <1>1 DEF RefusalsBounded, Tokens
<1>2. CASE SendRefused
  <2>1. Len(CheckQosCh') = Len(CheckQosCh) - 1 /\ row' = row + 1
    BY <1>2, Take DEF SendRefused, TypeOK
  <2>2. UNCHANGED <<RetMsCh, upc, inflight>>
    BY <1>2 DEF SendRefused, uservars
  <2> QED BY <1>n, <2>1, <2>2 DEF RefusalsBounded, Tokens
<1>3. CASE AcquireFails
  BY <1>3 DEF AcquireFails, RefusalsBounded, Tokens, uservars, channels,
              history, TypeOK
<1>4. ASSUME NEW ok \in BOOLEAN, SendEnds(ok) PROVE RefusalsBounded'
  <2>1. RetMsCh' = Append(RetMsCh, ok) \/ RetMsCh' = RetMsCh
    BY <1>4 DEF SendEnds
  <2>2. Len(RetMsCh') <= Len(RetMsCh) + 1
    BY <1>n, <2>1, Put DEF TypeOK
  <2>3. UNCHANGED <<CheckQosCh, upc, row>> /\ inflight' = inflight - 1
    BY <1>4 DEF SendEnds, uservars, history
  <2> QED BY <1>n, <2>2, <2>3 DEF RefusalsBounded, Tokens
<1>5. CASE RecordOutcome
  <2>1. Len(RetMsCh') = Len(RetMsCh) - 1
    BY <1>5, Take DEF RecordOutcome, TypeOK
  <2> QED BY <1>5, <2>1
          DEF RecordOutcome, RefusalsBounded, Tokens, TypeOK
<1>6. CASE CheckQos
  BY <1>6 DEF CheckQos, RefusalsBounded, Tokens, channels, TypeOK
<1>7. CASE PushVerdict
  <2>1. Len(CheckQosCh') = Len(CheckQosCh) + 1
    BY <1>7, Put DEF PushVerdict, TypeOK
  <2> QED BY <1>7, <2>1
          DEF PushVerdict, RefusalsBounded, Tokens, history, TypeOK
<1>8. CASE Tick
  BY <1>8 DEF Tick, RefusalsBounded, Tokens, uservars, channels, history
<1>9. CASE UNCHANGED vars
  BY <1>9 DEF vars, RefusalsBounded, Tokens, uservars, channels, history
<1>10. SendAllowed => row' = 0  BY DEF SendAllowed
<1> QED
  BY <1>1, <1>2, <1>3, <1>4, <1>5, <1>6, <1>7, <1>8, <1>9, <1>10
  DEF Next, Send, Update

\* The breaker never shuts for good: refusals in a row are bounded by the
\* tokens (checkqos.go, 94-154; pool.go, 94-96).
THEOREM RefusalsAreBounded == Spec => []RefusalsBounded
<1>1. Init => RefusalsBounded
  BY BreakerAssumption DEF Init, RefusalsBounded, Tokens
<1>2. TypeOK /\ RefusalsBounded /\ [Next]_vars => RefusalsBounded'
  BY StepRefusals
<1> QED BY <1>1, <1>2, BreakerTypes, PTL DEF Spec

-----------------------------------------------------------------------------
\* The window.

Outcome == [at : Nat, ok : BOOLEAN]

\* The outcomes o of some seconds, by their places in the order of counting.
Cell(o, seconds, ok) == {k \in DOMAIN o : o[k].at \in seconds /\ o[k].ok = ok}

\* A slot that was used counts the outcomes of its second.
SlotCounts(i, slot, o, t) ==
  slot.tTime > 0 =>
    /\ slot.tTime \in Start .. t /\ slot.tTime % PastTime = i
    /\ slot.suc = Cardinality(Cell(o, {slot.tTime}, TRUE))
    /\ slot.fail = Cardinality(Cell(o, {slot.tTime}, FALSE))
SlotsCount == \A i \in Ring : SlotCounts(i, quawin[i], outcomes, now)

\* No outcome is later than the slot of its second.
OutcomesKept ==
  \A k \in DOMAIN outcomes :
    /\ outcomes[k].at \in Start .. now
    /\ outcomes[k].at <= quawin[outcomes[k].at % PastTime].tTime

RingInv ==
  /\ TypeOK /\ Start <= now
  /\ outcomes \in Seq(Outcome)
  /\ SlotsCount
  /\ OutcomesKept

LEMMA Bounds ==
  /\ PastTime \in Nat \ {0} /\ WinLen \in Nat \ {0} /\ WinLen <= PastTime
  /\ Start \in Nat /\ PastTime < Start
BY BreakerAssumption

LEMMA OutcomesCell ==
  ASSUME NEW S, NEW b PROVE Outcomes(S, b) = Cardinality(Cell(outcomes, S, b))
BY DEF Outcomes, Cell

LEMMA CellFinite ==
  ASSUME NEW o \in Seq(Outcome), NEW S, NEW b
  PROVE  /\ IsFiniteSet(Cell(o, S, b)) /\ Cell(o, S, b) \subseteq 1 .. Len(o)
         /\ Cardinality(Cell(o, S, b)) \in Nat
<1>1. Cell(o, S, b) \subseteq 1 .. Len(o) /\ Len(o) \in Nat  BY LenProperties DEF Cell
<1>2. IsFiniteSet(1 .. Len(o))  BY <1>1, FS_Interval
<1> QED BY <1>1, <1>2, FS_Subset, FS_CardinalityType

\* One outcome more.
LEMMA CellAppend ==
  ASSUME NEW o \in Seq(Outcome), NEW e \in Outcome, NEW S, NEW b
  PROVE  Cell(Append(o, e), S, b)
           = Cell(o, S, b) \cup (IF e.at \in S /\ e.ok = b THEN {Len(o) + 1} ELSE {})
<1> DEFINE n == Len(o) + 1
           p == Append(o, e)
<1>1. Len(o) \in Nat /\ DOMAIN o = 1 .. Len(o)  BY LenProperties
<1>2. /\ p \in Seq(Outcome) /\ Len(p) = n /\ DOMAIN p = 1 .. n
      /\ p[n] = e /\ \A k \in 1 .. Len(o) : p[k] = o[k]
  BY <1>1, AppendProperties, LenProperties
<1> HIDE DEF p
<1>3. 1 .. n = (1 .. Len(o)) \cup {n} /\ n \notin 1 .. Len(o)  BY <1>1
<1> HIDE DEF n
<1>4. Cell(p, S, b) = Cell(o, S, b) \cup (IF e.at \in S /\ e.ok = b THEN {n} ELSE {})
  BY <1>1, <1>2, <1>3 DEF Cell
<1> QED BY <1>4 DEF n, p

LEMMA CountAppend ==
  ASSUME NEW o \in Seq(Outcome), NEW e \in Outcome, NEW S, NEW b
  PROVE  Cardinality(Cell(Append(o, e), S, b))
           = Cardinality(Cell(o, S, b)) + (IF e.at \in S /\ e.ok = b THEN 1 ELSE 0)
<1> DEFINE n == Len(o) + 1
           c == Cell(o, S, b)
<1>1. IsFiniteSet(c) /\ c \subseteq 1 .. Len(o) /\ Cardinality(c) \in Nat /\ Len(o) \in Nat
  BY CellFinite, LenProperties
<1>2. n \notin c  BY <1>1
<1>3. Cell(Append(o, e), S, b) = c \cup (IF e.at \in S /\ e.ok = b THEN {n} ELSE {})
  BY CellAppend
<1> HIDE DEF c, n
<1>4. CASE e.at \in S /\ e.ok = b
  <2>1. Cardinality(c \cup {n}) = Cardinality(c) + 1  BY <1>1, <1>2, FS_AddElement
  <2> QED BY <1>3, <1>4, <2>1 DEF c
<1>5. CASE ~(e.at \in S /\ e.ok = b)
  <2>1. Cell(Append(o, e), S, b) = c  BY <1>3, <1>5
  <2> QED BY <1>1, <1>5, <2>1 DEF c
<1> QED BY <1>4, <1>5

LEMMA InitRing == Init => RingInv
<1> SUFFICES ASSUME Init PROVE RingInv  OBVIOUS
<1>1. TypeOK  BY InitType
<1>2. outcomes \in Seq(Outcome) /\ DOMAIN outcomes = {}  BY DEF Init
<1>3. \A i \in Ring : quawin[i].tTime = 0  BY DEF Init
<1>4. Start <= now  BY Bounds DEF Init
<1>5. SlotsCount
  <2>1. ASSUME NEW i \in Ring PROVE ~(quawin[i].tTime > 0)  BY <1>3
  <2> QED BY <2>1 DEF SlotsCount, SlotCounts
<1>6. OutcomesKept  BY <1>2 DEF OutcomesKept
<1> QED BY <1>1, <1>2, <1>4, <1>5, <1>6 DEF RingInv

LEMMA RecordStep ==
  ASSUME RingInv, RecordOutcome
  PROVE  outcomes' \in Seq(Outcome) /\ SlotsCount' /\ OutcomesKept'
<1> DEFINE r == now % PastTime
           ok == Head(RetMsCh)
           e == [at |-> now, ok |-> ok]
           old == quawin[r]
           new == Counted(Fresh(old), ok)
<1>0. /\ TypeOK /\ now \in Nat /\ now \in Start .. now /\ now > 0
      /\ quawin \in [Ring -> SlotType] /\ outcomes \in Seq(Outcome) /\ r \in Ring
  <2>1. TypeOK /\ now \in Nat /\ Start <= now /\ outcomes \in Seq(Outcome)
        /\ quawin \in [Ring -> SlotType]
    BY DEF RingInv, TypeOK, SlotType
  <2>2. r \in Ring  BY <2>1, Bounds DEF Ring
  <2>3. now \in Start .. now /\ now > 0  BY <2>1, Bounds
  <2> QED BY <2>1, <2>2, <2>3
<1>1. /\ ok \in BOOLEAN /\ now' = now
      /\ quawin' = [quawin EXCEPT ![r] = new]
      /\ outcomes' = Append(outcomes, e)
  BY <1>0, Take DEF RecordOutcome, TypeOK
<1>2. e \in Outcome /\ e.at = now /\ e.ok = ok  BY <1>0, <1>1 DEF Outcome
<1>3. outcomes' \in Seq(Outcome)  BY <1>0, <1>1, <1>2, AppendProperties
<1>4. old \in SlotType /\ old.tTime \in Nat /\ old.suc \in Nat /\ old.fail \in Nat
  BY <1>0 DEF SlotType
<1>5. old.tTime > 0 => /\ old.tTime \in Start .. now /\ old.tTime % PastTime = r
                       /\ old.suc = Cardinality(Cell(outcomes, {old.tTime}, TRUE))
                       /\ old.fail = Cardinality(Cell(outcomes, {old.tTime}, FALSE))
  BY <1>0 DEF RingInv, SlotsCount, SlotCounts
<1>5a. PICK last \in Nat : last = old.tTime  BY <1>4
<1>5b. last > 0 => last \in Start .. now /\ last % PastTime = now % PastTime  BY <1>5, <1>5a
\* The slot counts this second, with what it had of it already.
<1>6. /\ Fresh(old).tTime = now
      /\ Fresh(old).suc = Cardinality(Cell(outcomes, {now}, TRUE))
      /\ Fresh(old).fail = Cardinality(Cell(outcomes, {now}, FALSE))
  <2>1. CASE old.tTime = now
    <3>1. Fresh(old) = old  BY <1>0, <2>1, Bounds DEF Fresh
    <3> QED BY <1>0, <1>5, <2>1, <3>1
  <2>2. CASE old.tTime # now
    <3>1. old.tTime = 0 \/ now - old.tTime >= PastTime
      <4>1. last > 0 /\ last < now => last + PastTime <= now
        BY <1>0, <1>5b, Bounds, SameRemainder
      <4>2. last > 0 => last <= now  BY <1>0, <1>5b, Bounds
      <4>3. last = 0 \/ now - last >= PastTime
        BY ONLY <1>0, <1>5a, <2>2, <4>1, <4>2, last \in Nat, Bounds
      <4> QED BY <1>5a, <4>3
    <3>2. Fresh(old) = [tTime |-> now, suc |-> 0, fail |-> 0]  BY <3>1 DEF Fresh
    <3>3. ASSUME NEW b PROVE Cell(outcomes, {now}, b) = {}
      <4> SUFFICES ASSUME NEW k \in DOMAIN outcomes, outcomes[k].at = now PROVE FALSE
        BY DEF Cell
      <4>1. now <= old.tTime  BY DEF RingInv, OutcomesKept
      <4>2. last <= now  BY <1>0, <1>5b, Bounds
      <4>3. now <= last /\ last # now  BY <1>5a, <2>2, <4>1
      <4> QED BY <1>0, <4>2, <4>3
    <3>4. Cardinality({}) = 0  BY FS_EmptySet
    <3>5. /\ Cardinality(Cell(outcomes, {now}, TRUE)) = 0
          /\ Cardinality(Cell(outcomes, {now}, FALSE)) = 0
      BY <3>3, <3>4
    <3>6. Fresh(old).tTime = now /\ Fresh(old).suc = 0 /\ Fresh(old).fail = 0
      BY <3>2
    <3> QED BY ONLY <3>5, <3>6
  <2> QED BY <2>1, <2>2
<1> DEFINE S == Cardinality(Cell(outcomes, {now}, TRUE))
           F == Cardinality(Cell(outcomes, {now}, FALSE))
<1>7. S \in Nat /\ F \in Nat  BY <1>0, CellFinite
<1>8. /\ new.tTime = now
      /\ new.suc = S + (IF ok THEN 1 ELSE 0)
      /\ new.fail = F + (IF ok THEN 0 ELSE 1)
  BY <1>6 DEF Counted
<1>9. /\ Cardinality(Cell(outcomes', {now}, TRUE)) = S + (IF ok THEN 1 ELSE 0)
      /\ Cardinality(Cell(outcomes', {now}, FALSE)) = F + (IF ok THEN 0 ELSE 1)
  <2>1. ASSUME NEW b \in BOOLEAN
        PROVE  Cardinality(Cell(outcomes', {now}, b))
                 = Cardinality(Cell(outcomes, {now}, b)) + (IF ok = b THEN 1 ELSE 0)
    BY <1>0, <1>1, <1>2, CountAppend
  <2>2. Cardinality(Cell(outcomes', {now}, TRUE)) = S + (IF ok = TRUE THEN 1 ELSE 0)
    BY <2>1
  <2>3. Cardinality(Cell(outcomes', {now}, FALSE)) = F + (IF ok = FALSE THEN 1 ELSE 0)
    BY <2>1
  <2> HIDE DEF S, F
  <2> QED BY <1>1, <2>2, <2>3
<1> HIDE DEF r, ok, e, old, new, S, F
<1>10. SlotsCount'
  <2> SUFFICES ASSUME NEW i \in Ring, quawin'[i].tTime > 0
               PROVE  LET s == quawin'[i]
                      IN  /\ s.tTime \in Start .. now /\ s.tTime % PastTime = i
                          /\ s.suc = Cardinality(Cell(outcomes', {s.tTime}, TRUE))
                          /\ s.fail = Cardinality(Cell(outcomes', {s.tTime}, FALSE))
    BY <1>1 DEF SlotsCount, SlotCounts
  <2>1. CASE i = r
    <3>1. quawin'[i] = new  BY <1>0, <1>1, <2>1
    <3>2. now % PastTime = i  BY <2>1 DEF r
    <3> QED BY <1>0, <1>8, <1>9, <3>1, <3>2
  <2>2. CASE i # r
    <3>1. quawin'[i] = quawin[i]  BY <1>0, <1>1, <2>2
    <3>2. PICK t : t = quawin[i].tTime  OBVIOUS
    <3>3. /\ t \in Start .. now /\ t % PastTime = i
          /\ quawin[i].suc = Cardinality(Cell(outcomes, {t}, TRUE))
          /\ quawin[i].fail = Cardinality(Cell(outcomes, {t}, FALSE))
      BY <2>2, <3>1, <3>2 DEF RingInv, SlotsCount, SlotCounts
    <3>4. t # now  BY <2>2, <3>3 DEF r
    <3>5. ASSUME NEW b PROVE Cell(outcomes', {t}, b) = Cell(outcomes, {t}, b)
      <4>1. e.at \notin {t}  BY <1>2, <3>4
      <4>2. Cell(Append(outcomes, e), {t}, b)
              = Cell(outcomes, {t}, b)
                \cup (IF e.at \in {t} /\ e.ok = b THEN {Len(outcomes) + 1} ELSE {})
        BY <1>0, <1>2, CellAppend
      <4> QED BY <1>1, <4>1, <4>2
    <3> QED BY <3>1, <3>2, <3>3, <3>5
  <2> QED BY <2>1, <2>2
<1>11. OutcomesKept'
  <2> SUFFICES ASSUME NEW k \in DOMAIN outcomes'
               PROVE  /\ outcomes'[k].at \in Start .. now
                      /\ outcomes'[k].at <= quawin'[outcomes'[k].at % PastTime].tTime
    BY <1>1 DEF OutcomesKept
  <2>0. /\ DOMAIN outcomes = 1 .. Len(outcomes) /\ Len(outcomes) \in Nat
        /\ DOMAIN outcomes' = 1 .. Len(outcomes) + 1
        /\ outcomes'[Len(outcomes) + 1] = e
        /\ \A j \in 1 .. Len(outcomes) : outcomes'[j] = outcomes[j]
    BY <1>0, <1>1, <1>2, <1>3, AppendProperties, LenProperties
  <2>1. CASE k = Len(outcomes) + 1
    <3>1. quawin'[r] = new  BY <1>0, <1>1
    <3> QED BY <1>0, <1>2, <1>8, <2>0, <2>1, <3>1 DEF r
  <2>2. CASE k \in 1 .. Len(outcomes)
    <3>1. PICK t : t = outcomes[k].at  OBVIOUS
    <3>2. outcomes'[k] = outcomes[k] /\ t \in Start .. now /\ t <= quawin[t % PastTime].tTime
      BY <2>0, <2>2, <3>1 DEF RingInv, OutcomesKept
    <3>3. t <= quawin'[t % PastTime].tTime
      <4>1. CASE t % PastTime = r  BY <1>0, <1>1, <1>8, <3>2, <4>1
      <4>2. CASE t % PastTime # r
        <5>1. t \in Nat /\ t % PastTime \in Ring  BY <3>2, Bounds DEF Ring
        <5> QED BY <1>0, <1>1, <3>2, <4>2, <5>1
      <4> QED BY <4>1, <4>2
    <3> QED BY <3>1, <3>2, <3>3
  <2>3. k \in 1 .. Len(outcomes) \/ k = Len(outcomes) + 1  BY <2>0
  <2> QED BY <2>1, <2>2, <2>3
<1> QED BY <1>3, <1>10, <1>11

LEMMA RingStep == RingInv /\ [Next]_vars => RingInv'
<1> SUFFICES ASSUME RingInv, [Next]_vars PROVE RingInv'  OBVIOUS
<1>0. TypeOK /\ Start <= now /\ now \in Nat /\ Start \in Nat  BY Bounds DEF RingInv, TypeOK
<1>1. TypeOK'  BY <1>0, StepType
<1>2. CASE RecordOutcome
  <2>1. Start <= now'  BY <1>0, <1>2 DEF RecordOutcome
  <2> QED BY <1>1, <1>2, <2>1, RecordStep DEF RingInv
<1>3. ASSUME quawin' = quawin, outcomes' = outcomes, now' \in {now, now + 1} PROVE RingInv'
  <2>1. Start <= now'  BY <1>0, <1>3
  <2>2. SlotsCount'
    <3> SUFFICES ASSUME NEW i \in Ring PROVE SlotCounts(i, quawin[i], outcomes, now')
      BY <1>3 DEF SlotsCount
    <3>1. SlotCounts(i, quawin[i], outcomes, now)  BY DEF RingInv, SlotsCount
    <3>2. quawin[i].tTime \in Nat  BY <1>0 DEF TypeOK
    <3>3. quawin[i].tTime \in Start .. now => quawin[i].tTime \in Start .. now'
      BY <1>0, <1>3, <3>2
    <3> QED BY <3>1, <3>3 DEF SlotCounts
  <2>3. OutcomesKept'
    BY <1>0, <1>3 DEF RingInv, OutcomesKept
  <2> QED BY <1>1, <1>3, <2>1, <2>2, <2>3 DEF RingInv
<1>4. ASSUME SendAllowed \/ SendRefused \/ AcquireFails \/ \E ok \in BOOLEAN : SendEnds(ok)
      PROVE  quawin' = quawin /\ outcomes' = outcomes /\ now' = now
  BY <1>4 DEF SendAllowed, SendRefused, AcquireFails, SendEnds, uservars, history
<1>5. ASSUME CheckQos \/ PushVerdict PROVE quawin' = quawin /\ outcomes' = outcomes /\ now' = now
  BY <1>5 DEF CheckQos, PushVerdict, history
<1>6. CASE Tick  BY <1>3, <1>6 DEF Tick, uservars, history
<1>7. CASE UNCHANGED vars  BY <1>3, <1>7 DEF vars, uservars, history
<1> QED BY <1>2, <1>3, <1>4, <1>5, <1>6, <1>7 DEF Next, Send, Update

-----------------------------------------------------------------------------
\* The verdict.

\* The seconds before t that are judged, and the second that may be besides.
Window(t) == {t - i : i \in 1 .. WinLen - 1}
Extras(t) == {{}, {t - PastTime}}

\* The seconds of the slots that are judged now.
JudgedTimes == {quawin[i].tTime : i \in Judged}

LEMMA JudgedSlots ==
  ASSUME RingInv, NEW i \in Judged
  PROVE  /\ i \in Ring /\ quawin[i] \in SlotType
         /\ quawin[i].tTime \in Nat \ {0} /\ quawin[i].tTime % PastTime = i
         /\ quawin[i].tTime \in Window(now) \cup {now - PastTime}
         /\ quawin[i].suc = Cardinality(Cell(outcomes, {quawin[i].tTime}, TRUE))
         /\ quawin[i].fail = Cardinality(Cell(outcomes, {quawin[i].tTime}, FALSE))
<1>1. /\ now \in Nat /\ Start <= now /\ quawin \in [Ring -> SlotType]
  BY DEF RingInv, TypeOK, SlotType
<1>2. PICK j \in 0 .. WinLen - 1 : i = (now - j) % PastTime  BY DEF Judged
<1>3. now > quawin[i].tTime /\ now - quawin[i].tTime <= PastTime  BY DEF Judged
<1>4. PICK a \in Nat : a = now - j  BY <1>1, <1>2, Bounds
<1>5. i \in Ring  BY <1>2, <1>4, Bounds DEF Ring
<1>6. PICK t \in Nat : t = quawin[i].tTime  BY <1>1, <1>5 DEF SlotType
<1>7. t < now /\ now - t <= PastTime /\ t > 0  BY <1>1, <1>3, <1>6, Bounds
<1>8. /\ t % PastTime = i
      /\ quawin[i].suc = Cardinality(Cell(outcomes, {t}, TRUE))
      /\ quawin[i].fail = Cardinality(Cell(outcomes, {t}, FALSE))
  BY <1>5, <1>6, <1>7 DEF RingInv, SlotsCount, SlotCounts
<1>9. t % PastTime = a % PastTime  BY <1>2, <1>4, <1>8
<1>10. t < a => t + PastTime <= a  BY <1>9, Bounds, SameRemainder
<1>11. a < t => a + PastTime <= t  BY <1>9, Bounds, SameRemainder
<1>12. (j \in 1 .. WinLen - 1 /\ t = now - j) \/ t = now - PastTime
  BY <1>1, <1>2, <1>4, <1>7, <1>10, <1>11, Bounds
<1>13. t \in Window(now) \cup {now - PastTime}  BY <1>12 DEF Window
<1> QED BY <1>1, <1>5, <1>6, <1>7, <1>8, <1>13

\* An outcome of the window is of a second whose slot is judged.
LEMMA WindowJudged ==
  ASSUME RingInv, NEW k \in DOMAIN outcomes, outcomes[k].at \in Window(now)
  PROVE  outcomes[k].at \in JudgedTimes
<1>1. now \in Nat /\ Start <= now /\ quawin \in [Ring -> SlotType]
  BY DEF RingInv, TypeOK, SlotType
<1>2. PICK j \in 1 .. WinLen - 1 : outcomes[k].at = now - j  BY DEF Window
<1>3. PICK a \in Nat : a = now - j /\ a = outcomes[k].at  BY <1>1, <1>2, Bounds
<1>4. a \in Start .. now /\ a <= quawin[a % PastTime].tTime
  BY <1>3 DEF RingInv, OutcomesKept
<1>5. PICK i \in Ring : i = a % PastTime  BY <1>3, Bounds DEF Ring
<1>6. PICK t \in Nat : t = quawin[i].tTime  BY <1>1, <1>5 DEF SlotType
<1>7. t > 0  BY <1>3, <1>4, <1>5, <1>6, Bounds
<1>8. t \in Start .. now /\ t % PastTime = i
  BY <1>5, <1>6, <1>7 DEF RingInv, SlotsCount, SlotCounts
<1>9. a < t => a + PastTime <= t  BY <1>3, <1>5, <1>8, Bounds, SameRemainder
<1>10. t = a  BY <1>1, <1>2, <1>3, <1>4, <1>5, <1>6, <1>8, <1>9, Bounds
<1>11. now > t /\ now - t <= PastTime  BY <1>1, <1>2, <1>3, <1>10, Bounds
<1>12. j \in 0 .. WinLen - 1  BY <1>2, Bounds
<1>13. i = (now - j) % PastTime  BY <1>3, <1>5
<1>14. i \in Judged  BY <1>6, <1>11, <1>12, <1>13 DEF Judged
<1> QED BY <1>3, <1>6, <1>10, <1>14 DEF JudgedTimes

LEMMA JudgedCell ==
  ASSUME RingInv, NEW b
  PROVE  Cell(outcomes, JudgedTimes, b)
           = Cell(outcomes, Window(now) \cup (JudgedTimes \cap {now - PastTime}), b)
<1>1. JudgedTimes \subseteq Window(now) \cup {now - PastTime}
  BY JudgedSlots DEF JudgedTimes
<1>2. \A k \in DOMAIN outcomes : outcomes[k].at \in Window(now) => outcomes[k].at \in JudgedTimes
  BY WindowJudged
<1> QED BY <1>1, <1>2 DEF Cell

\* The sum over the judged slots of what each counts of its own second.
LEMMA JudgedSum ==
  ASSUME RingInv, NEW f, NEW b,
         \A i \in Judged : f[i] = Cardinality(Cell(outcomes, {quawin[i].tTime}, b))
  PROVE  SumFunctionOnSet(f, Judged) = Cardinality(Cell(outcomes, JudgedTimes, b))
<1>c. PICK cell : cell = [i \in Judged |-> Cell(outcomes, {quawin[i].tTime}, b)]
  OBVIOUS
<1>1. IsFiniteSet(Judged)
  <2>1. Judged \subseteq Ring  BY JudgedSlots
  <2>2. IsFiniteSet(Ring)  BY Bounds, FS_Interval DEF Ring
  <2> QED BY <2>1, <2>2, FS_Subset
<1>2. \A i \in Judged : IsFiniteSet(cell[i]) /\ f[i] = Cardinality(cell[i])
  BY <1>c, CellFinite DEF RingInv
<1>3. \A i, j \in Judged : i # j => cell[i] \cap cell[j] = {}
  <2> SUFFICES ASSUME NEW i \in Judged, NEW j \in Judged, i # j
               PROVE  cell[i] \cap cell[j] = {}
    OBVIOUS
  <2>1. quawin[i].tTime # quawin[j].tTime  BY JudgedSlots
  <2> QED BY <1>c, <2>1 DEF Cell
<1>4. PICK V : V = Cell(outcomes, JudgedTimes, b)  OBVIOUS
<1>5. \A v : v \in V <=> \E i \in Judged : v \in cell[i]
  BY <1>c, <1>4 DEF Cell, JudgedTimes
<1>6. SumFunctionOnSet(f, Judged) = Cardinality(V)
  BY ONLY <1>1, <1>2, <1>3, <1>5, SumCards
<1> QED BY <1>4, <1>6

\* What a verdict that counts suc and fail at t counts.
CountsWindow(t, suc, fail, o) ==
  \E extra \in Extras(t) :
    /\ suc = Cardinality(Cell(o, Window(t) \cup extra, TRUE))
    /\ fail = Cardinality(Cell(o, Window(t) \cup extra, FALSE))

LEMMA CheckCounts ==
  ASSUME RingInv, CheckQos
  PROVE  CountsWindow(checked'.at, checked'.suc, checked'.fail, outcomes)
<1> DEFINE s == [i \in Ring |-> quawin[i].suc]
           f == [i \in Ring |-> quawin[i].fail]
           extra == JudgedTimes \cap {now - PastTime}
<1>1. /\ checked'.at = now /\ checked'.suc = SumFunctionOnSet(s, Judged)
      /\ checked'.fail = SumFunctionOnSet(f, Judged)
  BY DEF CheckQos
<1>2. \A i \in Judged : s[i] = Cardinality(Cell(outcomes, {quawin[i].tTime}, TRUE))
  BY JudgedSlots
<1>3. \A i \in Judged : f[i] = Cardinality(Cell(outcomes, {quawin[i].tTime}, FALSE))
  BY JudgedSlots
<1> HIDE DEF s, f
<1>4. SumFunctionOnSet(s, Judged) = Cardinality(Cell(outcomes, JudgedTimes, TRUE))
  BY <1>2, JudgedSum
<1>5. SumFunctionOnSet(f, Judged) = Cardinality(Cell(outcomes, JudgedTimes, FALSE))
  BY <1>3, JudgedSum
<1>6. extra \in Extras(now)  BY DEF Extras
<1>7. \A b : Cell(outcomes, JudgedTimes, b) = Cell(outcomes, Window(now) \cup extra, b)
  BY JudgedCell
<1> HIDE DEF extra
<1> QED BY <1>1, <1>4, <1>5, <1>6, <1>7 DEF CountsWindow

\* Outcomes are counted in the second of the clock, so that those of the
\* seconds before it stay what they are.
LEMMA PastKept ==
  ASSUME RingInv, [Next]_vars, NEW t \in Nat, t <= now, NEW extra \in Extras(t), NEW b
  PROVE  Cell(outcomes', Window(t) \cup extra, b) = Cell(outcomes, Window(t) \cup extra, b)
<1>0. now \in Nat /\ outcomes \in Seq(Outcome)  BY DEF RingInv, TypeOK
<1>1. now \notin Window(t) \cup extra
  <2>1. now \notin Window(t)  BY <1>0, Bounds DEF Window
  <2>2. now # t - PastTime  BY <1>0, Bounds
  <2> QED BY <2>1, <2>2 DEF Extras
<1>2. CASE outcomes' = outcomes  BY <1>2
<1>3. CASE RecordOutcome
  <2>1. PICK e \in Outcome : e.at = now /\ outcomes' = Append(outcomes, e)
    <3>1. Head(RetMsCh) \in BOOLEAN  BY <1>3, Take DEF RingInv, TypeOK, RecordOutcome
    <3>2. [at |-> now, ok |-> Head(RetMsCh)] \in Outcome  BY <1>0, <3>1 DEF Outcome
    <3> QED BY <1>3, <3>2 DEF RecordOutcome
  <2>2. PICK S : S = Window(t) \cup extra  OBVIOUS
  <2>3. Cell(Append(outcomes, e), S, b) = Cell(outcomes, S, b)
    <3>1. ~(e.at \in S /\ e.ok = b)  BY <1>1, <2>1, <2>2
    <3>2. Cell(Append(outcomes, e), S, b)
            = Cell(outcomes, S, b)
              \cup (IF e.at \in S /\ e.ok = b THEN {Len(outcomes) + 1} ELSE {})
      BY <1>0, CellAppend
    <3> QED BY <3>1, <3>2
  <2> QED BY <2>1, <2>2, <2>3
<1>4. ASSUME \/ SendAllowed \/ SendRefused \/ AcquireFails
             \/ \E ok \in BOOLEAN : SendEnds(ok)
      PROVE  outcomes' = outcomes
  BY <1>4 DEF SendAllowed, SendRefused, AcquireFails, SendEnds, history
<1>5. ASSUME CheckQos \/ PushVerdict \/ Tick \/ UNCHANGED vars PROVE outcomes' = outcomes
  BY <1>5 DEF CheckQos, PushVerdict, Tick, vars, history
<1> QED BY <1>2, <1>3, <1>4, <1>5 DEF Next, Send, Update

Alarm(t, o) ==
  \E extra \in Extras(t) :
    Overloaded(Cardinality(Cell(o, Window(t) \cup extra, TRUE)),
               Cardinality(Cell(o, Window(t) \cup extra, FALSE)))
Raised == \E t \in Start .. now : Alarm(t, outcomes)
Refusing == \E i \in DOMAIN CheckQosCh : ~CheckQosCh[i]

VerdictInv ==
  /\ RingInv
  /\ checked.at \in Nat /\ checked.at <= now
  /\ checked.at > 0 => CountsWindow(checked.at, checked.suc, checked.fail, outcomes)
  /\ upc = "push" =>
       Start <= checked.at /\ (~verdict => Overloaded(checked.suc, checked.fail))
  /\ Refusing => Raised

LEMMA VerdictHolds == VerdictInv => VerdictCountsWindow /\ NoFalseAlarm
<1> SUFFICES ASSUME VerdictInv PROVE VerdictCountsWindow /\ NoFalseAlarm  OBVIOUS
<1>1. VerdictCountsWindow
  BY OutcomesCell DEF VerdictInv, CountsWindow, VerdictCountsWindow, Window, Extras
<1>2. NoFalseAlarm
  BY OutcomesCell DEF VerdictInv, NoFalseAlarm, Refusing, Raised, Alarm, Window, Extras
<1> QED BY <1>1, <1>2

LEMMA InitVerdict == Init => VerdictInv
<1> SUFFICES ASSUME Init PROVE VerdictInv  OBVIOUS
<1>1. RingInv  BY InitRing
<1>2. checked.at = 0 /\ 0 <= now  BY Bounds DEF Init
<1>3. ~Refusing
  <2>1. /\ <<TRUE>> \in Seq(BOOLEAN) /\ Len(<<TRUE>>) = 1 /\ <<TRUE>>[1] = TRUE
        /\ DOMAIN <<TRUE>> = 1 .. 1
    OBVIOUS
  <2>2. CheckQosCh = <<TRUE>>  BY DEF Init
  <2>3. \A i \in 1 .. 1 : i = 1  BY SMT
  <2>4. \A i \in DOMAIN <<TRUE>> : <<TRUE>>[i]  BY <2>1, <2>3
  <2>5. \A i \in DOMAIN CheckQosCh : CheckQosCh[i]
    <3>1. CheckQosCh = <<TRUE>> => \A i \in DOMAIN CheckQosCh : CheckQosCh[i]  BY <2>4, Zenon
    <3> QED BY <2>2, <3>1
  <2> QED BY <2>5, Zenon DEF Refusing
<1>4. upc # "push"  BY DEF Init
<1> QED BY <1>1, <1>2, <1>3, <1>4 DEF VerdictInv

\* What a verdict counted it counted for good.
LEMMA CountsKept ==
  ASSUME RingInv, [Next]_vars, NEW t \in Nat, t <= now, NEW suc, NEW fail,
         CountsWindow(t, suc, fail, outcomes)
  PROVE  CountsWindow(t, suc, fail, outcomes')
<1>1. PICK extra \in Extras(t) :
        /\ suc = Cardinality(Cell(outcomes, Window(t) \cup extra, TRUE))
        /\ fail = Cardinality(Cell(outcomes, Window(t) \cup extra, FALSE))
  BY DEF CountsWindow
<1>2. \A b : Cell(outcomes', Window(t) \cup extra, b) = Cell(outcomes, Window(t) \cup extra, b)
  BY PastKept
<1> QED BY <1>1, <1>2 DEF CountsWindow

LEMMA RaisedKept ==
  ASSUME RingInv, [Next]_vars, Raised, now' \in Nat, now <= now'
  PROVE  Raised'
<1>1. PICK t \in Start .. now : Alarm(t, outcomes)  BY DEF Raised
<1>2. t \in Nat /\ t <= now /\ t \in Start .. now'  BY <1>1, Bounds DEF RingInv, TypeOK
<1>3. PICK extra \in Extras(t) :
        Overloaded(Cardinality(Cell(outcomes, Window(t) \cup extra, TRUE)),
                   Cardinality(Cell(outcomes, Window(t) \cup extra, FALSE)))
  BY <1>1 DEF Alarm
<1>4. \A b : Cell(outcomes', Window(t) \cup extra, b) = Cell(outcomes, Window(t) \cup extra, b)
  BY <1>2, PastKept
<1>5. /\ Cell(outcomes', Window(t) \cup extra, TRUE) = Cell(outcomes, Window(t) \cup extra, TRUE)
      /\ Cell(outcomes', Window(t) \cup extra, FALSE) = Cell(outcomes, Window(t) \cup extra, FALSE)
  BY <1>4
<1>6. Overloaded(Cardinality(Cell(outcomes', Window(t) \cup extra, TRUE)),
                 Cardinality(Cell(outcomes', Window(t) \cup extra, FALSE)))
  BY ONLY <1>3, <1>5
<1>7. Alarm(t, outcomes')  BY <1>6 DEF Alarm
<1> QED BY <1>2, <1>7 DEF Raised

LEMMA NowGrows ==
  ASSUME TypeOK, [Next]_vars
  PROVE  now \in Nat /\ now' \in Nat /\ now <= now'
<1>1. now \in Nat  BY DEF TypeOK
<1>2. ASSUME Send \/ Update \/ UNCHANGED vars PROVE now' = now
  BY <1>2 DEF Send, SendAllowed, SendRefused, AcquireFails, SendEnds, Update, RecordOutcome,
              CheckQos, PushVerdict, vars
<1>3. CASE Tick  BY <1>1, <1>3 DEF Tick
<1> QED BY <1>1, <1>2, <1>3 DEF Next

\* Verdicts are put in the queue by PushVerdict only.
LEMMA QueueStep ==
  ASSUME TypeOK, [Next]_vars, Refusing'
  PROVE  Refusing \/ (PushVerdict /\ ~verdict)
<1>0. CheckQosCh \in Seq(BOOLEAN)  BY DEF TypeOK
<1>1. CASE CheckQosCh' = CheckQosCh  BY <1>1 DEF Refusing
<1>2. CASE CheckQosCh # <<>> /\ CheckQosCh' = Tail(CheckQosCh)
  <2>1. /\ DOMAIN CheckQosCh' = 1 .. Len(CheckQosCh) - 1
        /\ DOMAIN CheckQosCh = 1 .. Len(CheckQosCh) /\ Len(CheckQosCh) \in Nat
        /\ \A i \in 1 .. Len(CheckQosCh) - 1 : CheckQosCh'[i] = CheckQosCh[i + 1]
    BY <1>0, <1>2, HeadTailProperties, LenProperties
  <2>2. PICK i \in 1 .. Len(CheckQosCh) - 1 : ~CheckQosCh'[i]  BY <2>1 DEF Refusing
  <2>3. i + 1 \in DOMAIN CheckQosCh /\ ~CheckQosCh[i + 1]  BY <2>1, <2>2
  <2> QED BY <2>3 DEF Refusing
<1>3. CASE PushVerdict
  <2>1. /\ CheckQosCh' = Append(CheckQosCh, verdict)
        /\ verdict \in BOOLEAN
    BY <1>3 DEF PushVerdict, TypeOK
  <2>2. /\ DOMAIN CheckQosCh' = 1 .. Len(CheckQosCh) + 1 /\ Len(CheckQosCh) \in Nat
        /\ DOMAIN CheckQosCh = 1 .. Len(CheckQosCh)
        /\ CheckQosCh'[Len(CheckQosCh) + 1] = verdict
        /\ \A i \in 1 .. Len(CheckQosCh) : CheckQosCh'[i] = CheckQosCh[i]
    BY <1>0, <2>1, AppendProperties, LenProperties
  <2>3. PICK i \in 1 .. Len(CheckQosCh) + 1 : ~CheckQosCh'[i]  BY <2>2 DEF Refusing
  <2>4. CASE i = Len(CheckQosCh) + 1  BY <1>3, <2>2, <2>3, <2>4
  <2>5. CASE i \in 1 .. Len(CheckQosCh)  BY <2>2, <2>3, <2>5 DEF Refusing
  <2> QED BY <2>2, <2>3, <2>4, <2>5
<1>4. ASSUME SendAllowed \/ SendRefused
      PROVE  CheckQosCh' = CheckQosCh \/ (CheckQosCh # <<>> /\ CheckQosCh' = Tail(CheckQosCh))
  BY <1>4 DEF SendAllowed, SendRefused
<1>5. ASSUME \/ AcquireFails \/ RecordOutcome \/ CheckQos \/ Tick \/ UNCHANGED vars
             \/ \E ok \in BOOLEAN : SendEnds(ok)
      PROVE  CheckQosCh' = CheckQosCh
  BY <1>5 DEF AcquireFails, RecordOutcome, CheckQos, Tick, SendEnds, vars, channels
<1> QED BY <1>1, <1>2, <1>3, <1>4, <1>5 DEF Next, Send, Update

LEMMA VerdictStep == VerdictInv /\ [Next]_vars => VerdictInv'
<1> SUFFICES ASSUME VerdictInv, [Next]_vars PROVE VerdictInv'  OBVIOUS
<1>0. RingInv /\ TypeOK /\ Start <= now  BY DEF VerdictInv, RingInv
<1>1. RingInv'  BY <1>0, RingStep
<1>2. now \in Nat /\ now' \in Nat /\ now <= now'  BY <1>0, NowGrows
<1>3. Refusing' => Raised'
  <2> SUFFICES ASSUME Refusing' PROVE Raised  BY <1>0, <1>2, RaisedKept
  <2>1. CASE Refusing  BY <2>1 DEF VerdictInv
  <2>2. CASE PushVerdict /\ ~verdict
    <3>1. /\ Start <= checked.at /\ Overloaded(checked.suc, checked.fail)
          /\ checked.at \in Nat /\ checked.at <= now
      BY <2>2 DEF VerdictInv, PushVerdict
    <3>2. checked.at > 0 /\ checked.at \in Start .. now  BY <1>2, <3>1, Bounds
    <3>3. Alarm(checked.at, outcomes)  BY <3>1, <3>2 DEF VerdictInv, CountsWindow, Alarm
    <3> QED BY <3>2, <3>3 DEF Raised
  <2> QED BY <1>0, <2>1, <2>2, QueueStep
<1>4. CASE CheckQos
  <2>1. checked'.at = now /\ now' = now /\ outcomes' = outcomes  BY <1>4 DEF CheckQos
  <2>2. CountsWindow(checked'.at, checked'.suc, checked'.fail, outcomes')
    BY <1>0, <1>4, <2>1, CheckCounts
  <2>3. ~verdict' => Overloaded(checked'.suc, checked'.fail)  BY <1>4 DEF CheckQos
  <2> QED BY <1>0, <1>1, <1>2, <1>3, <2>1, <2>2, <2>3 DEF VerdictInv
<1>5. CASE checked' = checked /\ (upc' = "push" => upc = "push" /\ verdict' = verdict)
  <2>1. checked'.at \in Nat /\ checked'.at <= now'  BY <1>2, <1>5 DEF VerdictInv
  <2>2. checked'.at > 0 => CountsWindow(checked'.at, checked'.suc, checked'.fail, outcomes')
    <3> SUFFICES ASSUME checked.at > 0
                 PROVE  CountsWindow(checked.at, checked.suc, checked.fail, outcomes')
      BY <1>5
    <3> QED BY <1>0, CountsKept DEF VerdictInv
  <2>3. upc' = "push" =>
          Start <= checked'.at /\ (~verdict' => Overloaded(checked'.suc, checked'.fail))
    BY <1>5 DEF VerdictInv
  <2> QED BY <1>1, <1>3, <2>1, <2>2, <2>3 DEF VerdictInv
<1>6. ASSUME \/ SendAllowed \/ SendRefused \/ AcquireFails \/ RecordOutcome \/ PushVerdict
             \/ Tick \/ UNCHANGED vars \/ \E ok \in BOOLEAN : SendEnds(ok)
      PROVE  checked' = checked /\ (upc' = "push" => upc = "push" /\ verdict' = verdict)
  BY <1>6 DEF SendAllowed, SendRefused, AcquireFails, RecordOutcome, PushVerdict, Tick,
              SendEnds, vars, uservars, history
<1> QED BY <1>4, <1>5, <1>6 DEF Next, Send, Update

\* A verdict counts exactly the outcomes of its window, and at most those of
\* one stale slot besides, whatever ticks between counting and judging
\* (checkqos.go, 47-92 and 106-125).
THEOREM VerdictCountsItsWindow == Spec => []VerdictCountsWindow
<1>1. VerdictInv => VerdictCountsWindow  BY VerdictHolds
<1> QED BY <1>1, InitVerdict, VerdictStep, PTL DEF Spec

\* No refusal waits in the queue unless an earlier window was overloaded
\* (checkqos.go, 47-92).
THEOREM NoAlarmIsFalse == Spec => []NoFalseAlarm
<1>1. VerdictInv => NoFalseAlarm  BY VerdictHolds
<1> QED BY <1>1, InitVerdict, VerdictStep, PTL DEF Spec
=============================================================================
