-------------------------- MODULE DemoApi_proofs --------------------------
(***************************************************************************)
(* The Go SDK, for any number of goroutines and keys, any capacity of the  *)
(* channels and any answers: the types, the passes of a second, and the    *)
(* verdicts counted once.                                                  *)
(***************************************************************************)
EXTENDS DemoApi, FluxTime_proofs, SequenceTheorems

SlotType == [timekey : Nat, sum : Nat, refuse : Nat]
DataType ==
  [key : Keys, quota : Nat \ {0}, nowsum : Nat, reset : Nat, updatetime : Nat,
   slots : [Slots -> SlotType], qindex : 0 .. QuotaArrayNum - 1,
   qarray : [0 .. QuotaArrayNum - 1 -> Nat]]
WindowType == [base : Nat, passes : Nat, most : Nat, free : BOOLEAN]
Running == Start .. MaxTime
RetType == [key : Keys, pass : BOOLEAN, time : Running]
BegunType == [key : Keys, now : Running]
CallType == [key : Keys, now : Running, entry : Nat, pass : BOOLEAN]
UpType == [at : {"idle"}]
          \cup [at : {"request"}, entry : Nat \ {0}]
          \cup [at : {"set"}, entry : Nat \ {0}, ans : Answers]

\* The time, the set and the entries of the keys: a key that has had an entry
\* has one.
DataTypes ==
  /\ clock \in Running
  /\ rlset \in [quota : Nat \ {0}, sum : Nat, reset : Nat]
  /\ heap \in Seq(DataType)
  /\ data \in [Keys -> 0 .. Len(heap)] /\ data[Preset] # 0
  /\ \A e \in 1 .. Len(heap) : data[heap[e].key] # 0
  /\ calls \in Nat
\* The calls: one that has its entry, or has made it, names a key that has one.
CallTypes ==
  /\ pc \in [Callers -> {"idle", "data", "add", "judge", "set"}]
  /\ call = [c \in Callers |-> call[c]]
  /\ \A c \in Callers :
       /\ pc[c] = "data" => call[c] \in BegunType
       /\ pc[c] \in {"add", "judge", "set"} => call[c] \in CallType
       /\ pc[c] = "judge" => call[c].entry \in 1 .. Len(heap)
       /\ pc[c] \in {"judge", "set"} => data[call[c].key] # 0
\* The channels, and uploadFlowStat.
ChanTypes ==
  /\ retchan \in Seq(RetType) /\ Len(retchan) <= ChanCap
  /\ upchan \in Seq(Keys) /\ Len(upchan) <= ChanCap
  /\ \A i \in 1 .. Len(retchan) : data[retchan[i].key] # 0
  /\ \A i \in 1 .. Len(upchan) : data[upchan[i]] # 0
  /\ up \in UpType /\ (up.at # "idle" => up.entry <= Len(heap))
HistoryTypes ==
  /\ setwindow \in WindowType
  /\ keywindow \in Seq(WindowType) /\ Len(keywindow) = Len(heap)
  /\ verdicts \in [Times -> Nat] /\ dropped \in [Times -> Nat]
  /\ replaced \subseteq Times

TypeInv == DataTypes /\ CallTypes /\ ChanTypes /\ HistoryTypes

-----------------------------------------------------------------------------
\* Types.

LEMMA Bounds ==
  /\ Start \in Running /\ MaxTime \in Nat /\ Start \in Nat \ {0}
  /\ \A t \in Running : t \in Nat /\ TimeKey(t) \in Times
  /\ QuotaArrayNum \in Nat \ {0} /\ 0 \in 0 .. QuotaArrayNum - 1
BY DemoAssumption DEF Running, Times

LEMMA NewDataType ==
  ASSUME NEW q \in Nat \ {0}, NEW k \in Keys, clock \in Running
  PROVE  /\ NewData(q, k) \in DataType
         /\ NewData(q, k).nowsum = 0
         /\ NewData(q, k).slots = [i \in Slots |-> NoSlot]
<1>1. clock \in Nat /\ 0 \in 0 .. QuotaArrayNum - 1  BY Bounds
<1>2. [i \in Slots |-> NoSlot] \in [Slots -> SlotType]  BY DEF NoSlot, SlotType
<1>3. [i \in 0 .. QuotaArrayNum - 1 |-> 0] \in [0 .. QuotaArrayNum - 1 -> Nat]
  OBVIOUS
<1> QED BY <1>1, <1>2, <1>3 DEF NewData, DataType

\* An entry made, and one changed.
LEMMA Made ==
  ASSUME NEW S, NEW s \in Seq(S), NEW x \in S
  PROVE  /\ Append(s, x) \in Seq(S) /\ Len(Append(s, x)) = Len(s) + 1
         /\ Len(s) \in Nat
         /\ \A i \in 1 .. Len(s) : Append(s, x)[i] = s[i]
         /\ Append(s, x)[Len(s) + 1] = x
         /\ \A i \in 1 .. Len(s) : s[i] \in S
BY AppendProperties, LenProperties, ElementOfSeq

LEMMA Changed ==
  ASSUME NEW S, NEW s \in Seq(S), NEW e \in 1 .. Len(s), NEW x \in S
  PROVE  /\ [s EXCEPT ![e] = x] \in Seq(S)
         /\ Len([s EXCEPT ![e] = x]) = Len(s)
         /\ Len(s) \in Nat
         /\ [s EXCEPT ![e] = x][e] = x
         /\ \A i \in 1 .. Len(s) : i # e => [s EXCEPT ![e] = x][i] = s[i]
<1>1. DOMAIN s = 1 .. Len(s)  BY LenProperties
<1>2. /\ [s EXCEPT ![e] = x] \in Seq(S)
      /\ Len([s EXCEPT ![e] = x]) = Len(s)
  BY ExceptSeq
<1>3. Len(s) \in Nat  BY LenProperties
<1> QED BY <1>1, <1>2, <1>3

\* The first of a queue, and the rest of it.
LEMMA Taken ==
  ASSUME NEW S, NEW s \in Seq(S), s # <<>>
  PROVE  /\ Head(s) \in S /\ Head(s) = s[1]
         /\ Tail(s) \in Seq(S) /\ Len(Tail(s)) = Len(s) - 1
         /\ Len(s) \in Nat /\ 1 \in 1 .. Len(s)
         /\ \A i \in 1 .. Len(Tail(s)) :
              i + 1 \in 1 .. Len(s) /\ Tail(s)[i] = s[i + 1]
<1>1. Len(s) \in Nat /\ Len(s) # 0  BY LenProperties, EmptySeq
<1> QED BY <1>1, HeadTailProperties

\* One, as a sequence.
LEMMA Single ==
  ASSUME NEW S, NEW x \in S
  PROVE  /\ <<x>> \in Seq(S) /\ Len(<<x>>) = 1 /\ <<x>>[1] = x
         /\ \A i \in 1 .. 1 : i = 1
OBVIOUS

\* What a step leaves as it was: entries stay, and keys keep theirs.
Grows ==
  /\ Len(heap) \in Nat /\ Len(heap') \in Nat /\ Len(heap) <= Len(heap')
  /\ \A k \in Keys : data[k] # 0 => data'[k] # 0

LEMMA DataKept ==
  ASSUME DataTypes, UNCHANGED <<heap, data>>
  PROVE  Grows
BY LenProperties DEF DataTypes, Grows

LEMMA CallsKept ==
  ASSUME CallTypes, Grows, UNCHANGED <<pc, call>>
  PROVE  CallTypes'
<1>1. call' = [c \in Callers |-> call'[c]]  BY DEF CallTypes
<1>2. pc' \in [Callers -> {"idle", "data", "add", "judge", "set"}]  BY DEF CallTypes
<1>3. ASSUME NEW c \in Callers
      PROVE  /\ pc'[c] = "data" => call'[c] \in BegunType
             /\ pc'[c] \in {"add", "judge", "set"} => call'[c] \in CallType
             /\ pc'[c] = "judge" => call'[c].entry \in 1 .. Len(heap')
             /\ pc'[c] \in {"judge", "set"} => data'[call'[c].key] # 0
  BY <1>3 DEF CallTypes, CallType, Grows
<1> QED BY <1>1, <1>2, <1>3 DEF CallTypes

\* One call goes to the place at, with the variables x.
LEMMA CallMoves ==
  ASSUME CallTypes, Grows, NEW c \in Callers, NEW at, NEW x,
         pc' = [pc EXCEPT ![c] = at], call' = [call EXCEPT ![c] = x],
         at \in {"idle", "data", "add", "judge", "set"},
         at = "data" => x \in BegunType,
         at \in {"add", "judge", "set"} => x \in CallType,
         at = "judge" => x.entry \in 1 .. Len(heap'),
         at \in {"judge", "set"} => data'[x.key] # 0
  PROVE  CallTypes'
<1>1. call' = [b \in Callers |-> call'[b]]  BY DEF CallTypes
<1>2. pc' \in [Callers -> {"idle", "data", "add", "judge", "set"}]  BY DEF CallTypes
<1>3. ASSUME NEW b \in Callers
      PROVE  /\ pc'[b] = "data" => call'[b] \in BegunType
             /\ pc'[b] \in {"add", "judge", "set"} => call'[b] \in CallType
             /\ pc'[b] = "judge" => call'[b].entry \in 1 .. Len(heap')
             /\ pc'[b] \in {"judge", "set"} => data'[call'[b].key] # 0
  <2>1. CASE b = c
    <3>1. pc'[b] = at /\ call'[b] = x  BY <2>1 DEF CallTypes
    <3> QED BY <3>1
  <2>2. CASE b # c
    <3>1. pc'[b] = pc[b] /\ call'[b] = call[b]  BY <2>2 DEF CallTypes
    <3>2. /\ pc[b] = "data" => call[b] \in BegunType
          /\ pc[b] \in {"add", "judge", "set"} => call[b] \in CallType
          /\ pc[b] = "judge" => call[b].entry \in 1 .. Len(heap)
          /\ pc[b] \in {"judge", "set"} => data[call[b].key] # 0
      BY <1>3 DEF CallTypes
    <3>3. call[b] \in CallType => call[b].key \in Keys  BY DEF CallType
    <3> QED BY <3>1, <3>2, <3>3 DEF Grows
  <2> QED BY <2>1, <2>2
<1> QED BY <1>1, <1>2, <1>3 DEF CallTypes

LEMMA ChansKept ==
  ASSUME ChanTypes, Grows, UNCHANGED <<retchan, upchan, up>>
  PROVE  ChanTypes'
<1>1. /\ \A i \in 1 .. Len(retchan) : retchan[i] \in RetType
      /\ \A i \in 1 .. Len(upchan) : upchan[i] \in Keys
  BY ElementOfSeq DEF ChanTypes
<1>2. \A i \in 1 .. Len(retchan) : retchan[i].key \in Keys  BY <1>1 DEF RetType
<1>3. up.at # "idle" => up.entry \in Nat
  BY DEF ChanTypes, UpType
<1>4. /\ \A i \in 1 .. Len(retchan) : data'[retchan[i].key] # 0
      /\ \A i \in 1 .. Len(upchan) : data'[upchan[i]] # 0
  BY <1>1, <1>2 DEF ChanTypes, Grows
<1>5. up.at # "idle" => up.entry <= Len(heap')
  BY <1>3 DEF ChanTypes, Grows
<1> QED BY <1>4, <1>5 DEF ChanTypes

LEMMA UploadAdded ==
  ASSUME ChanTypes, Grows, NEW k \in Keys, data[k] # 0, Len(upchan) < ChanCap,
         upchan' = Append(upchan, k), UNCHANGED <<data, retchan, up>>
  PROVE  ChanTypes'
<1>1. /\ upchan' \in Seq(Keys) /\ Len(upchan') = Len(upchan) + 1 /\ Len(upchan) \in Nat
      /\ \A i \in 1 .. Len(upchan) : upchan'[i] = upchan[i]
      /\ upchan'[Len(upchan) + 1] = k
  BY Made DEF ChanTypes
<1>2. Len(upchan') <= ChanCap  BY <1>1, DemoAssumption
<1>3. ASSUME NEW i \in 1 .. Len(upchan') PROVE data'[upchan'[i]] # 0
  <2>1. CASE i \in 1 .. Len(upchan)  BY <1>1, <2>1 DEF ChanTypes
  <2>2. CASE i = Len(upchan) + 1  BY <1>1, <2>2
  <2> QED BY <1>1, <1>3, <2>1, <2>2
<1>4. up'.at # "idle" => up'.entry <= Len(heap')
  BY DEF ChanTypes, UpType, Grows
<1> QED BY <1>1, <1>2, <1>3, <1>4 DEF ChanTypes

LEMMA HistoryKept ==
  ASSUME HistoryTypes, UNCHANGED history, Len(heap') = Len(heap)
  PROVE  HistoryTypes'
BY DEF HistoryTypes, history

\* A step changes one entry.
LEMMA EntryChanged ==
  ASSUME DataTypes, NEW e \in 1 .. Len(heap), NEW d \in DataType,
         d.key = heap[e].key,
         heap' = [heap EXCEPT ![e] = d], UNCHANGED <<clock, rlset, data, calls>>
  PROVE  /\ DataTypes' /\ Len(heap') = Len(heap) /\ Grows
         /\ heap'[e] = d
         /\ \A i \in 1 .. Len(heap) : i # e => heap'[i] = heap[i]
<1>1. heap \in Seq(DataType)  BY DEF DataTypes
<1>2. /\ heap' \in Seq(DataType) /\ Len(heap') = Len(heap) /\ Len(heap) \in Nat
      /\ heap'[e] = d
      /\ \A i \in 1 .. Len(heap) : i # e => heap'[i] = heap[i]
  BY <1>1, Changed
<1>3. \A i \in 1 .. Len(heap) : heap'[i].key = heap[i].key  BY <1>2
<1>4. DataTypes'  BY <1>2, <1>3 DEF DataTypes
<1> QED BY <1>2, <1>4 DEF Grows

LEMMA EntryType ==
  ASSUME DataTypes, NEW e \in 1 .. Len(heap)
  PROVE  heap[e] \in DataType /\ Len(heap) \in Nat
BY ElementOfSeq, LenProperties DEF DataTypes

LEMMA KeysEntry ==
  ASSUME DataTypes, NEW k \in Keys, data[k] # 0
  PROVE  data[k] \in 1 .. Len(heap)
BY LenProperties DEF DataTypes

LEMMA InitTypes == Init => TypeInv
<1> SUFFICES ASSUME Init PROVE TypeInv  OBVIOUS
<1>1. clock \in Running /\ clock = Start  BY Bounds DEF Init
<1> DEFINE d == NewData(DefaultQuota, Preset)
<1>2. d \in DataType  BY <1>1, NewDataType, DemoAssumption
<1>3. /\ heap \in Seq(DataType) /\ Len(heap) = 1
      /\ keywindow \in Seq(WindowType) /\ Len(keywindow) = 1
  <2>1. heap = <<d>>  BY DEF Init
  <2>2. keywindow = <<NoWindow>>  BY DEF Init
  <2>3. NoWindow \in WindowType  BY DEF NoWindow, WindowType
  <2> HIDE DEF d
  <2>4. <<d>> \in Seq(DataType) /\ Len(<<d>>) = 1  BY <1>2, Single
  <2>5. <<NoWindow>> \in Seq(WindowType) /\ Len(<<NoWindow>>) = 1  BY <2>3, Single
  <2> QED BY <2>1, <2>2, <2>4, <2>5
<1>4. DataTypes
  <2>1. data \in [Keys -> 0 .. 1] /\ data[Preset] = 1
    BY DemoAssumption DEF Init
  <2>4. \A e \in 1 .. Len(heap) : data[heap[e].key] # 0
    <3>1. heap = <<d>> /\ d.key = Preset  BY DEF Init, NewData
    <3> HIDE DEF d
    <3>2. <<d>>[1] = d /\ \A e \in 1 .. 1 : e = 1  BY <1>2, Single
    <3>3. heap[1] = d /\ \A e \in 1 .. Len(heap) : e = 1  BY <1>3, <3>1, <3>2
    <3> QED BY <2>1, <3>1, <3>3
  <2>2. rlset \in [quota : Nat \ {0}, sum : Nat, reset : Nat]
    BY Bounds, DemoAssumption DEF Init
  <2>3. calls \in Nat  BY DEF Init
  <2> QED BY <1>1, <1>3, <2>1, <2>2, <2>3, <2>4 DEF DataTypes
<1>5. CallTypes
  BY DEF Init, CallTypes
<1>6. ChanTypes
  <2>1. retchan = <<>> /\ upchan = <<>> /\ up = [at |-> "idle"]  BY DEF Init
  <2>2. <<>> \in Seq(RetType) /\ <<>> \in Seq(Keys) /\ Len(<<>>) = 0  BY EmptySeq
  <2>3. Len(retchan) = 0 /\ Len(upchan) = 0 /\ up.at = "idle" /\ up \in UpType
    BY <2>1, <2>2 DEF UpType
  <2> QED BY <2>1, <2>2, <2>3, DemoAssumption DEF ChanTypes
<1>7. HistoryTypes
  <2>1. setwindow \in WindowType  BY DEF Init, NoWindow, WindowType
  <2>2. /\ verdicts \in [Times -> Nat] /\ dropped \in [Times -> Nat]
        /\ replaced \subseteq Times
    BY DEF Init
  <2> QED BY <1>3, <2>1, <2>2 DEF HistoryTypes
<1> QED BY <1>4, <1>5, <1>6, <1>7 DEF TypeInv

LEMMA GrownType ==
  ASSUME NEW w \in WindowType, NEW q \in Nat
  PROVE  /\ Grown(w, q) \in WindowType
         /\ Grown(w, q).base = w.base /\ Grown(w, q).free = w.free
         /\ Grown(w, q).passes = w.passes + 1
         /\ Grown(w, q).most \in Nat
         /\ w.most <= Grown(w, q).most /\ q <= Grown(w, q).most
         /\ w.passes \in Nat /\ w.most \in Nat /\ w.base \in Nat
<1>1. w.passes \in Nat /\ w.most \in Nat /\ w.base \in Nat  BY DEF WindowType
<1>2. PICK p \in Nat : p = w.passes + 1  BY <1>1
<1>3. PICK m \in Nat : m = IF q > w.most THEN q ELSE w.most  BY <1>1
<1>4. Grown(w, q) = [w EXCEPT !.passes = p, !.most = m]  BY <1>2, <1>3 DEF Grown
<1>5. [w EXCEPT !.passes = p, !.most = m] \in WindowType  BY DEF WindowType
<1>6. /\ [w EXCEPT !.passes = p, !.most = m].passes = p
      /\ [w EXCEPT !.passes = p, !.most = m].most = m
      /\ [w EXCEPT !.passes = p, !.most = m].base = w.base
      /\ [w EXCEPT !.passes = p, !.most = m].free = w.free
  BY DEF WindowType
<1>7. w.most <= m /\ q <= m  BY <1>1, <1>3
<1> QED BY <1>1, <1>2, <1>4, <1>5, <1>6, <1>7

LEMMA BeginTypes ==
  ASSUME TypeInv, NEW c \in Callers, NEW k \in Keys, Begin(c, k)
  PROVE  TypeInv'
<1> USE DEF TypeInv
<1>1. Grows  BY DataKept DEF Begin
<1>2. clock \in Running /\ clock \in Nat  BY Bounds DEF DataTypes
<1>3. DataTypes'
  <2>1. rlset' \in [quota : Nat \ {0}, sum : Nat, reset : Nat]
    <3>1. CASE UNCHANGED rlset  BY <3>1 DEF DataTypes
    <3>2. CASE rlset' = [rlset EXCEPT !.reset = clock, !.sum = 0]
      BY <1>2, <3>2 DEF DataTypes
    <3> QED BY <3>1, <3>2 DEF Begin
  <2>2. calls' \in Nat  BY DEF Begin, DataTypes
  <2> QED BY <2>1, <2>2 DEF Begin, DataTypes
<1>4. CallTypes'
  <2>1. [key |-> k, now |-> clock] \in BegunType  BY <1>2 DEF BegunType
  <2>2. /\ pc' = [pc EXCEPT ![c] = "data"]
        /\ call' = [call EXCEPT ![c] = [key |-> k, now |-> clock]]
    BY DEF Begin, Goto
  <2> QED BY <1>1, <2>1, <2>2, CallMoves
<1>5. ChanTypes'  BY <1>1, ChansKept DEF Begin
<1>6. HistoryTypes'
  <2>1. setwindow' \in WindowType
    <3>1. setwindow' = setwindow \/ setwindow' = NoWindow  BY DEF Begin
    <3>2. NoWindow \in WindowType  BY DEF NoWindow, WindowType
    <3> QED BY <3>1, <3>2 DEF HistoryTypes
  <2> QED BY <2>1 DEF Begin, HistoryTypes
<1> QED BY <1>3, <1>4, <1>5, <1>6

LEMMA GetDataTypes ==
  ASSUME TypeInv, NEW c \in Callers, GetData(c)
  PROVE  TypeInv'
<1> USE DEF TypeInv
<1> DEFINE e == data[call[c].key]
           x == [key |-> call[c].key, now |-> call[c].now, entry |-> e, pass |-> TRUE]
           at == IF e = 0 THEN "add" ELSE "judge"
<1>1. Grows  BY DataKept DEF GetData
<1>2. call[c] \in BegunType  BY DEF GetData, CallTypes
<1>3. call[c].key \in Keys /\ call[c].now \in Running  BY <1>2 DEF BegunType
<1>4. e \in Nat /\ (e # 0 => e \in 1 .. Len(heap))
  BY <1>3, LenProperties DEF DataTypes
<1>5. x \in CallType  BY <1>3, <1>4 DEF CallType
<1>6. /\ pc' = [pc EXCEPT ![c] = at] /\ call' = [call EXCEPT ![c] = x]
      /\ heap' = heap /\ data' = data
  BY DEF GetData, Goto
<1>7. CallTypes'
  <2>1. x.entry = e /\ x.key = call[c].key  OBVIOUS
  <2>2. at \in {"add", "judge"} /\ (at = "judge" => e # 0)  OBVIOUS
  <2>3. at = "judge" => x.entry \in 1 .. Len(heap') /\ data'[x.key] # 0
    BY <1>4, <1>6, <2>1, <2>2
  <2> HIDE DEF at, x, e
  <2> QED BY <1>1, <1>5, <1>6, <2>2, <2>3, CallMoves
<1>8. DataTypes'  BY DEF GetData, DataTypes
<1>9. ChanTypes'  BY <1>1, ChansKept DEF GetData
<1>10. HistoryTypes'  BY HistoryKept DEF GetData
<1> QED BY <1>7, <1>8, <1>9, <1>10

LEMMA AddDataTypes ==
  ASSUME TypeInv, NEW c \in Callers, AddData(c)
  PROVE  /\ TypeInv' /\ Len(heap') = Len(heap) + 1 /\ Len(heap) \in Nat
         /\ \A i \in 1 .. Len(heap) : heap'[i] = heap[i] /\ keywindow'[i] = keywindow[i]
         /\ heap'[Len(heap) + 1].slots = [i \in Slots |-> NoSlot]
         /\ heap'[Len(heap) + 1].nowsum = 0
         /\ keywindow'[Len(heap) + 1] = NoWindow
<1> USE DEF TypeInv
<1> DEFINE d == NewData(DefaultQuota, call[c].key)
<1>1. call[c] \in CallType  BY DEF AddData, CallTypes
<1>2. call[c].key \in Keys  BY <1>1 DEF CallType
<1>3. /\ d \in DataType /\ d.nowsum = 0 /\ d.slots = [i \in Slots |-> NoSlot]
      /\ d.key = call[c].key
  BY <1>2, NewDataType, DemoAssumption DEF DataTypes, NewData
<1>4. heap' = Append(heap, d)  BY DEF AddData
<1> HIDE DEF d
<1>5. /\ heap' \in Seq(DataType) /\ Len(heap') = Len(heap) + 1 /\ Len(heap) \in Nat
      /\ \A i \in 1 .. Len(heap) : heap'[i] = heap[i]
      /\ heap'[Len(heap) + 1] = d
  BY <1>3, <1>4, Made DEF DataTypes
<1>6. /\ keywindow' \in Seq(WindowType) /\ Len(keywindow') = Len(heap) + 1
      /\ \A i \in 1 .. Len(heap) : keywindow'[i] = keywindow[i]
      /\ keywindow'[Len(heap) + 1] = NoWindow
  <2>1. NoWindow \in WindowType  BY DEF NoWindow, WindowType
  <2>2. keywindow' = Append(keywindow, NoWindow)  BY DEF AddData
  <2> QED BY <2>1, <2>2, Made DEF HistoryTypes
<1>7. data' = [data EXCEPT ![call[c].key] = Len(heap')]  BY DEF AddData
<1>8. /\ data' \in [Keys -> 0 .. Len(heap')] /\ data'[Preset] # 0
      /\ data'[call[c].key] # 0 /\ Grows
  <2>1. data \in [Keys -> 0 .. Len(heap)]  BY DEF DataTypes
  <2>2. \A k \in Keys : data'[k] = IF k = call[c].key THEN Len(heap') ELSE data[k]
    BY <1>7, <2>1
  <2>3. Len(heap') \in Nat \ {0} /\ Len(heap) <= Len(heap')  BY <1>5
  <2>4. \A k \in Keys : data'[k] \in 0 .. Len(heap') /\ (data[k] # 0 => data'[k] # 0)
    BY <1>5, <2>1, <2>2, <2>3
  <2>5. data' \in [Keys -> 0 .. Len(heap')]  BY <1>7, <2>1, <2>4
  <2>6. data'[call[c].key] # 0  BY <1>2, <2>2, <2>3
  <2>7. data'[Preset] # 0  BY <2>4, DemoAssumption DEF DataTypes
  <2> QED BY <1>5, <2>3, <2>4, <2>5, <2>6, <2>7 DEF Grows
<1>9. DataTypes'
  <2>1. ASSUME NEW i \in 1 .. Len(heap') PROVE data'[heap'[i].key] # 0
    <3>1. CASE i \in 1 .. Len(heap)
      <4>1. heap'[i] = heap[i] /\ heap[i].key \in Keys
        BY <1>5, <3>1, EntryType DEF DataType
      <4> QED BY <1>8, <3>1, <4>1 DEF DataTypes, Grows
    <3>2. CASE i = Len(heap) + 1  BY <1>3, <1>5, <1>8, <3>2
    <3> QED BY <1>5, <2>1, <3>1, <3>2
  <2> QED BY <1>5, <1>8, <2>1 DEF AddData, DataTypes
<1>10. CallTypes'
  <2>1. pc' = [pc EXCEPT ![c] = "set"] /\ call' = [call EXCEPT ![c] = call[c]]
    BY DEF AddData, Goto, CallTypes
  <2> QED BY <1>1, <1>8, <2>1, CallMoves
<1>11. ChanTypes'  BY <1>8, ChansKept DEF AddData
<1>12. HistoryTypes'  BY <1>5, <1>6 DEF AddData, HistoryTypes
<1> QED BY <1>3, <1>5, <1>6, <1>9, <1>10, <1>11, <1>12

LEMMA CountedType ==
  ASSUME NEW d \in DataType, NEW t \in Nat
  PROVE  /\ Counted(d, t) \in DataType
         /\ Counted(d, t).slots = d.slots /\ Counted(d, t).key = d.key
         /\ Counted(d, t).nowsum = IF Begins(d, t) THEN 0 ELSE d.nowsum + 1
         /\ d.nowsum \in Nat /\ d.quota \in Nat \ {0}
<1>1. d.nowsum \in Nat /\ d.quota \in Nat \ {0}  BY DEF DataType
<1>2. CASE Begins(d, t)
  <2>1. Counted(d, t) = [d EXCEPT !.nowsum = 0, !.reset = t]  BY <1>2 DEF Counted
  <2>2. /\ [d EXCEPT !.nowsum = 0, !.reset = t] \in DataType
        /\ [d EXCEPT !.nowsum = 0, !.reset = t].slots = d.slots
        /\ [d EXCEPT !.nowsum = 0, !.reset = t].key = d.key
        /\ [d EXCEPT !.nowsum = 0, !.reset = t].nowsum = 0
    BY DEF DataType
  <2> QED BY <1>1, <1>2, <2>1, <2>2
<1>3. CASE ~Begins(d, t)
  <2>1. PICK n \in Nat : n = d.nowsum + 1  BY <1>1
  <2>2. Counted(d, t) = [d EXCEPT !.nowsum = n]  BY <1>3, <2>1 DEF Counted
  <2>3. /\ [d EXCEPT !.nowsum = n] \in DataType
        /\ [d EXCEPT !.nowsum = n].slots = d.slots
        /\ [d EXCEPT !.nowsum = n].key = d.key
        /\ [d EXCEPT !.nowsum = n].nowsum = n
    BY DEF DataType
  <2> QED BY <1>1, <1>3, <2>1, <2>2, <2>3
<1> QED BY <1>2, <1>3

\* What Judge does when the request is not older than the quota.
Judged(c, e, d, t, from, free, pass) ==
  /\ e \in 1 .. Len(heap) /\ d = heap[e] /\ d \in DataType /\ t \in Nat
  /\ from \in WindowType /\ from = (IF Begins(d, t) THEN NoWindow ELSE keywindow[e])
  /\ free \in WindowType /\ free = [from EXCEPT !.free = @ \/ d.quota <= MinQuota]
  /\ pass \in BOOLEAN /\ (pass <=> ~Over(d, d.nowsum + 1))
  /\ heap' = [heap EXCEPT ![e] = Counted(d, t)]
  /\ call' = [call EXCEPT ![c].pass = pass]
  /\ keywindow' = [keywindow EXCEPT ![e] = IF pass THEN Grown(free, d.quota) ELSE free]
  /\ upchan' = upchan \/ (Len(upchan) < ChanCap /\ upchan' = Append(upchan, d.key))

LEMMA JudgeCases ==
  ASSUME TypeInv, NEW c \in Callers, Judge(c)
  PROVE  \/ UNCHANGED <<heap, call, keywindow, upchan>>
         \/ \E e, d, t, from, free, pass : Judged(c, e, d, t, from, free, pass)
<1> USE DEF TypeInv
<1> DEFINE e == call[c].entry
           d == heap[e]
           t == call[c].now
           pass == ~Over(d, d.nowsum + 1)
           from == IF Begins(d, t) THEN NoWindow ELSE keywindow[e]
           free == [from EXCEPT !.free = @ \/ d.quota <= MinQuota]
<1>1. call[c] \in CallType /\ e \in 1 .. Len(heap)  BY DEF Judge, CallTypes
<1>2. d \in DataType  BY <1>1, EntryType
<1>3. t \in Nat  BY <1>1, Bounds DEF CallType
<1>4. from \in WindowType
  <2>1. NoWindow \in WindowType  BY DEF NoWindow, WindowType
  <2>2. keywindow[e] \in WindowType  BY <1>1, ElementOfSeq DEF HistoryTypes
  <2> QED BY <2>1, <2>2
<1>5. free \in WindowType
  <2> HIDE DEF d, from
  <2>1. (from.free \/ d.quota <= MinQuota) \in BOOLEAN  BY <1>4 DEF WindowType
  <2> DEFINE b == from.free \/ d.quota <= MinQuota
  <2>2. b \in BOOLEAN  BY <2>1
  <2> HIDE DEF b
  <2>3. [from EXCEPT !.free = b] \in WindowType  BY <1>4, <2>2 DEF WindowType
  <2> QED BY <2>3 DEF b
<1>6. CASE t < d.updatetime
  BY <1>6 DEF Judge
<1>7. CASE ~(t < d.updatetime)
  <2>1. /\ heap' = [heap EXCEPT ![e] = Counted(d, t)]
        /\ call' = [call EXCEPT ![c].pass = pass]
        /\ keywindow' = [keywindow EXCEPT ![e] =
                           IF pass THEN Grown(free, d.quota) ELSE free]
    BY <1>7 DEF Judge
  <2>2. upchan' = upchan \/ (Len(upchan) < ChanCap /\ upchan' = Append(upchan, d.key))
    BY <1>7 DEF Judge
  <2>3. pass \in BOOLEAN /\ (pass <=> ~Over(d, d.nowsum + 1))  BY DEF Over
  <2>4. Judged(c, e, d, t, from, free, pass)
    <3> HIDE DEF pass
    <3> QED BY <1>1, <1>2, <1>3, <1>4, <1>5, <2>1, <2>2, <2>3 DEF Judged
  <2> QED BY <2>4
<1> QED BY <1>6, <1>7

LEMMA JudgeTypes ==
  ASSUME TypeInv, NEW c \in Callers, Judge(c)
  PROVE  TypeInv'
<1> USE DEF TypeInv
<1>1. call[c] \in CallType /\ data[call[c].key] # 0  BY DEF Judge, CallTypes
<1>2. call[c].key \in Keys  BY <1>1 DEF CallType
<1>3. /\ data' = data /\ pc' = [pc EXCEPT ![c] = "set"]
      /\ UNCHANGED <<clock, rlset, retchan, up, calls, setwindow, verdicts, dropped,
                     replaced>>
  BY DEF Judge, Goto
<1>4. CASE UNCHANGED <<heap, call, keywindow, upchan>>
  <2>1. Grows  BY <1>3, <1>4, DataKept
  <2>2. call' = [call EXCEPT ![c] = call[c]]  BY <1>4 DEF CallTypes
  <2>3. CallTypes'  BY <1>1, <1>3, <2>1, <2>2, CallMoves
  <2>4. ChanTypes'  BY <1>3, <1>4, <2>1, ChansKept
  <2>5. DataTypes' /\ HistoryTypes'  BY <1>3, <1>4 DEF DataTypes, HistoryTypes
  <2> QED BY <2>3, <2>4, <2>5
<1>5. ASSUME NEW e, NEW d, NEW t, NEW from, NEW free, NEW pass,
             Judged(c, e, d, t, from, free, pass)
      PROVE  TypeInv'
  <2>1. /\ e \in 1 .. Len(heap) /\ Counted(d, t) \in DataType
        /\ heap' = [heap EXCEPT ![e] = Counted(d, t)]
        /\ Counted(d, t).key = heap[e].key
    BY <1>5, CountedType DEF Judged
  <2>2. DataTypes' /\ Len(heap') = Len(heap) /\ Grows
    BY <1>3, <2>1, EntryChanged
  <2>4. CallTypes'
    <3>1. pass \in BOOLEAN  BY <1>5 DEF Judged
    <3>2. PICK x : x = [call[c] EXCEPT !.pass = pass]  OBVIOUS
    <3>3. x \in CallType /\ x.key = call[c].key  BY <1>1, <3>1, <3>2 DEF CallType
    <3>4. call' = [call EXCEPT ![c] = x]  BY <1>5, <3>2 DEF Judged
    <3> QED BY <1>1, <1>3, <2>2, <3>3, <3>4, CallMoves
  <2>5. ChanTypes'
    <3>1. CASE upchan' = upchan  BY <1>3, <2>2, <3>1, ChansKept
    <3>2. CASE Len(upchan) < ChanCap /\ upchan' = Append(upchan, d.key)
      <4>1. d.key \in Keys /\ data[d.key] # 0
        BY <1>5 DEF Judged, DataType, DataTypes
      <4> QED BY <1>3, <2>2, <3>2, <4>1, UploadAdded
    <3> QED BY <1>5, <3>1, <3>2 DEF Judged
  <2>6. HistoryTypes'
    <3>1. keywindow \in Seq(WindowType) /\ e \in 1 .. Len(keywindow)
      BY <2>1 DEF HistoryTypes
    <3>2. PICK x : x = IF pass THEN Grown(free, d.quota) ELSE free  OBVIOUS
    <3>3. x \in WindowType
      <4>1. free \in WindowType /\ d.quota \in Nat  BY <1>5, CountedType DEF Judged
      <4> QED BY <3>2, <4>1, GrownType
    <3>4. keywindow' = [keywindow EXCEPT ![e] = x]  BY <1>5, <3>2 DEF Judged
    <3>5. keywindow' \in Seq(WindowType) /\ Len(keywindow') = Len(keywindow)
      BY <3>1, <3>3, <3>4, Changed
    <3> QED BY <1>3, <2>2, <3>5 DEF HistoryTypes
  <2> QED BY <2>2, <2>4, <2>5, <2>6
<1> QED BY <1>4, <1>5, JudgeCases

LEMMA ReturnTypes ==
  ASSUME TypeInv, NEW c \in Callers, Return(c)
  PROVE  TypeInv'
<1> USE DEF TypeInv
<1> DEFINE t == TimeKey(call[c].now)
           pass == call[c].pass /\ CheckSet
           r == [key |-> call[c].key, pass |-> pass, time |-> call[c].now]
<1>1. call[c] \in CallType /\ data[call[c].key] # 0  BY DEF Return, CallTypes
<1>2. call[c].now \in Running /\ call[c].key \in Keys /\ call[c].pass \in BOOLEAN
  BY <1>1 DEF CallType
<1>3. t \in Times  BY <1>2, Bounds
<1>4. pass \in BOOLEAN  BY <1>2 DEF CheckSet
<1>5. r \in RetType /\ r.key = call[c].key
  <2> HIDE DEF pass
  <2> QED BY <1>2, <1>4 DEF RetType
<1>6. Grows  BY DataKept DEF Return
<1>7. CallTypes'
  <2>1. pc' = [pc EXCEPT ![c] = "idle"] /\ call' = [call EXCEPT ![c] = <<>>]
    BY DEF Return, Goto
  <2> QED BY <1>6, <2>1, CallMoves
<1>8. DataTypes'
  <2>1. rlset' \in [quota : Nat \ {0}, sum : Nat, reset : Nat]
    <3>1. CASE rlset' = rlset  BY <3>1 DEF DataTypes
    <3>2. CASE rlset' = [rlset EXCEPT !.sum = @ + 1]  BY <3>2 DEF DataTypes
    <3> QED BY <3>1, <3>2 DEF Return
  <2> QED BY <2>1 DEF Return, DataTypes
<1>9. ChanTypes'
  <2>1. CASE retchan' = retchan  BY <1>6, <2>1, ChansKept DEF Return
  <2>2. CASE Len(retchan) < ChanCap /\ retchan' = Append(retchan, r)
    <3> HIDE DEF r
    <3>1. /\ retchan' \in Seq(RetType) /\ Len(retchan') = Len(retchan) + 1
          /\ Len(retchan) \in Nat
          /\ \A i \in 1 .. Len(retchan) : retchan'[i] = retchan[i]
          /\ retchan'[Len(retchan) + 1] = r
      BY <1>5, <2>2, Made DEF ChanTypes
    <3>2. Len(retchan') <= ChanCap  BY <2>2, <3>1, DemoAssumption
    <3>3. ASSUME NEW i \in 1 .. Len(retchan') PROVE data[retchan'[i].key] # 0
      <4>1. CASE i \in 1 .. Len(retchan)  BY <3>1, <4>1 DEF ChanTypes
      <4>2. CASE i = Len(retchan) + 1  BY <1>1, <1>5, <3>1, <4>2
      <4> QED BY <3>1, <3>3, <4>1, <4>2
    <3>4. UNCHANGED <<heap, data, upchan, up>>  BY DEF Return
    <3> QED BY <3>1, <3>2, <3>3, <3>4 DEF ChanTypes
  <2> QED BY <2>1, <2>2 DEF Return
<1>10. HistoryTypes'
  <2>1. setwindow' \in WindowType
    <3>1. CASE setwindow' = setwindow  BY <3>1 DEF HistoryTypes
    <3>2. CASE setwindow' = Grown(setwindow, rlset.quota)
      BY <3>2, GrownType DEF HistoryTypes, DataTypes
    <3> QED BY <3>1, <3>2 DEF Return
  <2>2. verdicts' = [verdicts EXCEPT ![t] = @ + 1]  BY DEF Return
  <2>3. dropped' = dropped \/ dropped' = [dropped EXCEPT ![t] = @ + 1]  BY DEF Return
  <2> HIDE DEF t
  <2>4. verdicts' \in [Times -> Nat] /\ dropped' \in [Times -> Nat]
    <3>1. verdicts' \in [Times -> Nat]  BY <1>3, <2>2 DEF HistoryTypes
    <3>2. CASE dropped' = dropped  BY <3>1, <3>2 DEF HistoryTypes
    <3>3. CASE dropped' = [dropped EXCEPT ![t] = @ + 1]
      BY <1>3, <3>1, <3>3 DEF HistoryTypes
    <3> QED BY <2>3, <3>2, <3>3
  <2> QED BY <2>1, <2>4 DEF Return, HistoryTypes
<1> QED BY <1>7, <1>8, <1>9, <1>10

\* The slot in which a verdict is counted, and the slot of its time.
Marked(slot, r) ==
  LET s == Reset(slot, TimeKey(r.time))
  IN  IF r.pass THEN [s EXCEPT !.sum = @ + 1] ELSE [s EXCEPT !.refuse = @ + 1]

LEMMA MarkedType ==
  ASSUME NEW slot \in SlotType, NEW r \in RetType
  PROVE  /\ Marked(slot, r) \in SlotType
         /\ Marked(slot, r).timekey = TimeKey(r.time)
         /\ Marked(slot, r).sum + Marked(slot, r).refuse
              = (IF slot.timekey = TimeKey(r.time) THEN slot.sum + slot.refuse ELSE 0) + 1
<1>1. r.time \in Nat /\ r.pass \in BOOLEAN  BY Bounds DEF RetType
<1>2. PICK k : k = TimeKey(r.time)  OBVIOUS
<1>3. k \in Nat  BY <1>1, <1>2, TimeKeyBounds
<1>4. PICK s : s = Reset(slot, k)  OBVIOUS
<1>5. /\ s \in SlotType /\ s.timekey = k
      /\ s.sum + s.refuse = IF slot.timekey = k THEN slot.sum + slot.refuse ELSE 0
  BY <1>3, <1>4 DEF Reset, NoSlot, SlotType
<1>6. s.sum \in Nat /\ s.refuse \in Nat  BY <1>5 DEF SlotType
<1>7. CASE r.pass
  <2>1. PICK n \in Nat : n = s.sum + 1  BY <1>6
  <2>2. Marked(slot, r) = [s EXCEPT !.sum = n]  BY <1>2, <1>4, <1>7, <2>1 DEF Marked
  <2>3. /\ [s EXCEPT !.sum = n] \in SlotType /\ [s EXCEPT !.sum = n].timekey = k
        /\ [s EXCEPT !.sum = n].sum = n /\ [s EXCEPT !.sum = n].refuse = s.refuse
    BY <1>5 DEF SlotType
  <2>4. n + s.refuse = (s.sum + s.refuse) + 1  BY <1>6, <2>1
  <2> QED BY <1>2, <1>5, <2>2, <2>3, <2>4
<1>8. CASE ~r.pass
  <2>1. PICK n \in Nat : n = s.refuse + 1  BY <1>6
  <2>2. Marked(slot, r) = [s EXCEPT !.refuse = n]  BY <1>2, <1>4, <1>8, <2>1 DEF Marked
  <2>3. /\ [s EXCEPT !.refuse = n] \in SlotType /\ [s EXCEPT !.refuse = n].timekey = k
        /\ [s EXCEPT !.refuse = n].refuse = n /\ [s EXCEPT !.refuse = n].sum = s.sum
    BY <1>5 DEF SlotType
  <2>4. s.sum + n = (s.sum + s.refuse) + 1  BY <1>6, <2>1
  <2> QED BY <1>2, <1>5, <2>2, <2>3, <2>4
<1> QED BY <1>7, <1>8

LEMMA CountRetTypes ==
  ASSUME TypeInv, CountRet
  PROVE  /\ TypeInv' /\ Len(heap') = Len(heap)
         /\ \E r \in RetType, e \in 1 .. Len(heap) :
              LET i == SlotIndex(r.time)
              IN  /\ retchan[1] = r /\ e \in Referred /\ i \in Slots
                  /\ heap[e] \in DataType
                  /\ heap'[e] = [heap[e] EXCEPT !.slots =
                                   [@ EXCEPT ![i] = Marked(heap[e].slots[i], r)]]
                  /\ \A f \in 1 .. Len(heap) : f # e => heap'[f] = heap[f]
<1> USE DEF TypeInv
<1>1. /\ Head(retchan) \in RetType /\ Head(retchan) = retchan[1]
      /\ Tail(retchan) \in Seq(RetType) /\ Len(Tail(retchan)) = Len(retchan) - 1
      /\ Len(retchan) \in Nat /\ 1 \in 1 .. Len(retchan)
      /\ \A i \in 1 .. Len(Tail(retchan)) :
           i + 1 \in 1 .. Len(retchan) /\ Tail(retchan)[i] = retchan[i + 1]
  BY Taken DEF CountRet, ChanTypes
<1>2. PICK r \in RetType : r = Head(retchan)  BY <1>1
<1>3. r.key \in Keys /\ r.time \in Nat  BY Bounds DEF RetType
<1>4. PICK e \in 1 .. Len(heap) : e = data[r.key] /\ e \in Referred
  <2>1. data[r.key] # 0  BY <1>1, <1>2 DEF ChanTypes
  <2> QED BY <1>3, <2>1, KeysEntry DEF Referred
<1>5. PICK i \in Slots : i = SlotIndex(r.time)  BY <1>3, SlotIndexInRing
<1>6. heap[e] \in DataType  BY EntryType
<1>7. heap[e].slots \in [Slots -> SlotType]  BY <1>6 DEF DataType
<1>8. Marked(heap[e].slots[i], r) \in SlotType  BY <1>5, <1>7, MarkedType
<1>9. PICK m \in SlotType : m = Marked(heap[e].slots[i], r)  BY <1>8
<1>10. PICK ss : ss = [heap[e].slots EXCEPT ![i] = m]  OBVIOUS
<1>11. ss \in [Slots -> SlotType]  BY <1>7, <1>10
<1>12. PICK d : d = [heap[e] EXCEPT !.slots = ss]  OBVIOUS
<1>13. d \in DataType /\ d.key = heap[e].key  BY <1>6, <1>11, <1>12 DEF DataType
<1>14. heap' = [heap EXCEPT ![e] = d]
  <2>1. heap' = [heap EXCEPT ![e].slots[i] = Marked(@, r)]
    BY <1>2, <1>4, <1>5 DEF CountRet, Marked
  <2> QED BY <1>9, <1>10, <1>12, <2>1
<1>15. UNCHANGED <<clock, rlset, data, upchan, pc, call, up, calls>>
       /\ UNCHANGED history /\ retchan' = Tail(retchan)
  BY DEF CountRet
<1>16. /\ DataTypes' /\ Len(heap') = Len(heap) /\ Grows /\ heap'[e] = d
       /\ \A f \in 1 .. Len(heap) : f # e => heap'[f] = heap[f]
  BY <1>13, <1>14, <1>15, EntryChanged
<1>17. CallTypes'  BY <1>15, <1>16, CallsKept
<1>18. ChanTypes'
  <2>1. Len(retchan') <= ChanCap  BY <1>1, <1>15, DemoAssumption DEF ChanTypes
  <2>2. \A j \in 1 .. Len(retchan') : data'[retchan'[j].key] # 0
    BY <1>1, <1>15 DEF ChanTypes
  <2> QED BY <1>1, <1>15, <1>16, <2>1, <2>2 DEF ChanTypes
<1>19. HistoryTypes'  BY <1>15, <1>16, HistoryKept
<1>20. heap'[e] = [heap[e] EXCEPT !.slots =
                     [@ EXCEPT ![i] = Marked(heap[e].slots[i], r)]]
  BY <1>9, <1>10, <1>12, <1>16
<1>21. retchan[1] = r /\ e \in Referred /\ i \in Slots  BY <1>1, <1>2, <1>4
<1>22. TypeInv' /\ Len(heap') = Len(heap)  BY <1>16, <1>17, <1>18, <1>19
<1> QED BY <1>5, <1>6, <1>16, <1>20, <1>21, <1>22

LEMMA TakeUploadTypes ==
  ASSUME TypeInv, TakeUpload
  PROVE  TypeInv'
<1> USE DEF TypeInv
<1>1. Grows  BY DataKept DEF TakeUpload
<1>2. /\ Head(upchan) \in Keys /\ Head(upchan) = upchan[1]
      /\ Tail(upchan) \in Seq(Keys) /\ Len(Tail(upchan)) = Len(upchan) - 1
      /\ Len(upchan) \in Nat /\ 1 \in 1 .. Len(upchan)
      /\ \A i \in 1 .. Len(Tail(upchan)) :
           i + 1 \in 1 .. Len(upchan) /\ Tail(upchan)[i] = upchan[i + 1]
  BY Taken DEF TakeUpload, ChanTypes
<1>3. data[Head(upchan)] \in 1 .. Len(heap)
  <2>1. data[Head(upchan)] # 0  BY <1>2 DEF ChanTypes
  <2> QED BY <1>2, <2>1, KeysEntry
<1>4. DataTypes' /\ CallTypes' /\ HistoryTypes'
  BY <1>1, CallsKept, HistoryKept DEF TakeUpload, DataTypes
<1>5. up' \in UpType /\ (up'.at # "idle" => up'.entry <= Len(heap))
  <2>1. CASE up' = up  BY <2>1 DEF ChanTypes
  <2>2. CASE up' = [at |-> "request", entry |-> data[Head(upchan)]]
    BY <1>3, <2>2 DEF UpType
  <2> QED BY <2>1, <2>2 DEF TakeUpload
<1>6. ChanTypes'
  <2>1. UNCHANGED <<heap, data, retchan>> /\ upchan' = Tail(upchan)  BY DEF TakeUpload
  <2>2. Len(upchan') <= ChanCap  BY <1>2, <2>1, DemoAssumption DEF ChanTypes
  <2>3. \A i \in 1 .. Len(upchan') : data'[upchan'[i]] # 0
    BY <1>2, <2>1 DEF ChanTypes
  <2> QED BY <1>2, <1>5, <2>1, <2>2, <2>3 DEF ChanTypes
<1> QED BY <1>4, <1>6

LEMMA UploadFailsTypes ==
  ASSUME TypeInv, UploadFails
  PROVE  TypeInv'
<1> USE DEF TypeInv
<1>1. Grows  BY DataKept DEF UploadFails
<1>2. DataTypes' /\ CallTypes' /\ HistoryTypes'
  BY <1>1, CallsKept, HistoryKept DEF UploadFails, DataTypes
<1>3. up'.at = "idle" /\ up' \in UpType  BY DEF UploadFails, UpType
<1>4. ChanTypes'  BY <1>3 DEF UploadFails, ChanTypes
<1> QED BY <1>2, <1>4

LEMMA AnswerKeyTypes ==
  ASSUME TypeInv, NEW a \in Answers, AnswerKey(a)
  PROVE  /\ TypeInv' /\ Len(heap') = Len(heap)
         /\ \A i \in 1 .. Len(heap) : /\ heap'[i].slots = heap[i].slots
                                      /\ heap'[i].nowsum = heap[i].nowsum
<1> USE DEF TypeInv
<1>1. PICK e \in 1 .. Len(heap) : e = up.entry
  BY LenProperties DEF AnswerKey, ChanTypes, UpType, DataTypes
<1>2. heap[e] \in DataType /\ Len(heap) \in Nat  BY EntryType
<1>3. a \in [localq : Nat, setsum : Nat, setquota : Nat]  BY DemoAssumption
<1>4. clock \in Nat  BY Bounds DEF DataTypes
<1>5. PICK d1 : d1 = [heap[e] EXCEPT !.updatetime = clock]  OBVIOUS
<1>6. /\ d1 \in DataType /\ d1.slots = heap[e].slots /\ d1.nowsum = heap[e].nowsum
      /\ d1.key = heap[e].key /\ d1.qarray = heap[e].qarray
  BY <1>2, <1>4, <1>5 DEF DataType
<1>7. PICK timed : timed = [heap EXCEPT ![e] = d1]  OBVIOUS
<1>8. DOMAIN heap = 1 .. Len(heap)  BY LenProperties DEF DataTypes
<1>9. ASSUME a.localq # 0
      PROVE  \E d \in DataType :
               /\ heap' = [heap EXCEPT ![e] = d] /\ d.key = heap[e].key
               /\ d.slots = heap[e].slots /\ d.nowsum = heap[e].nowsum
  <2> DEFINE i == (heap[e].qindex + 1) % QuotaArrayNum
             q == [heap[e].qarray EXCEPT ![i] = a.localq]
  <2>1. QuotaArrayNum \in Nat \ {0} /\ heap[e].qindex \in Nat
        /\ heap[e].qarray \in [0 .. QuotaArrayNum - 1 -> Nat]
    <3>1. QuotaArrayNum \in Nat \ {0}  BY ONLY Bounds
    <3>2. heap[e] \in DataType  BY ONLY <1>2
    <3> QED BY ONLY <3>1, <3>2 DEF DataType
  <2>2. i \in 0 .. QuotaArrayNum - 1
    <3>1. PICK n \in Nat : n = heap[e].qindex + 1  BY <2>1
    <3>2. n % QuotaArrayNum \in 0 .. QuotaArrayNum - 1  BY <2>1, DivMod
    <3> QED BY <3>1, <3>2
  <2>3. a.localq \in Nat /\ a.localq > 0  BY <1>3, <1>9
  <2> HIDE DEF i
  <2>4. q \in [0 .. QuotaArrayNum - 1 -> Nat] /\ q[i] > 0  BY <2>1, <2>2, <2>3
  <2> HIDE DEF q
  <2>5. AverQ(q) \in Nat \ {0}  BY <2>1, <2>2, <2>4, MeanPositive DEF AverQ
  <2>6. PICK d : d = [d1 EXCEPT !.qindex = i, !.qarray = q, !.quota = AverQ(q)]
    OBVIOUS
  <2>7. /\ d \in DataType /\ d.slots = heap[e].slots /\ d.nowsum = heap[e].nowsum
        /\ d.key = heap[e].key
    BY <1>6, <2>2, <2>4, <2>5, <2>6 DEF DataType
  <2>8. heap' = [timed EXCEPT ![e] = [@ EXCEPT !.qindex = i, !.qarray = q,
                                               !.quota = AverQ(q)]]
    BY <1>1, <1>5, <1>7, <1>9 DEF AnswerKey, i, q
  <2>9. timed[e] = d1  BY <1>7, <1>8
  <2>10. heap' = [timed EXCEPT ![e] = d]  BY <2>6, <2>8, <2>9
  <2>11. heap' = [heap EXCEPT ![e] = d]  BY <1>7, <1>8, <2>10
  <2> QED BY <2>7, <2>11
<1>10. ASSUME a.localq = 0 PROVE heap' = [heap EXCEPT ![e] = d1]
  BY <1>1, <1>5, <1>10 DEF AnswerKey
<1>11. PICK d \in DataType :
         /\ heap' = [heap EXCEPT ![e] = d] /\ d.key = heap[e].key
         /\ d.slots = heap[e].slots /\ d.nowsum = heap[e].nowsum
  BY <1>6, <1>9, <1>10
<1>12. UNCHANGED <<clock, rlset, data, retchan, upchan, pc, call, calls, history>>
  BY DEF AnswerKey, history
<1>13. /\ DataTypes' /\ Len(heap') = Len(heap) /\ Grows /\ heap'[e] = d
       /\ \A j \in 1 .. Len(heap) : j # e => heap'[j] = heap[j]
  BY <1>11, <1>12, EntryChanged
<1>14. up' \in UpType /\ (up'.at # "idle" => up'.entry <= Len(heap'))
  <2>1. up' = [at |-> "idle"] \/ up' = [at |-> "set", entry |-> e, ans |-> a]
    BY <1>1 DEF AnswerKey, AfterAnswer
  <2> QED BY <1>2, <1>13, <2>1 DEF UpType
<1>15. CallTypes' /\ HistoryTypes'  BY <1>12, <1>13, CallsKept, HistoryKept
<1>16. ChanTypes'  BY <1>12, <1>14 DEF ChanTypes
<1> QED BY <1>11, <1>13, <1>15, <1>16

LEMMA AnswerSetTypes ==
  ASSUME TypeInv, AnswerSet
  PROVE  TypeInv'
<1> USE DEF TypeInv
<1>1. Grows  BY DataKept DEF AnswerSet
<1>2. up.ans \in [localq : Nat, setsum : Nat, setquota : Nat]
  BY DemoAssumption DEF AnswerSet, ChanTypes, UpType
<1>3. rlset' \in [quota : Nat \ {0}, sum : Nat, reset : Nat]
  <2>1. PICK s \in Nat : s = IF up.ans.setsum > 0 THEN up.ans.setsum ELSE rlset.sum
    BY <1>2 DEF DataTypes
  <2>2. PICK q \in Nat \ {0} :
          q = IF up.ans.setquota > 0 THEN up.ans.setquota ELSE rlset.quota
    BY <1>2 DEF DataTypes
  <2>3. rlset' = [rlset EXCEPT !.sum = s, !.quota = q]
    BY <2>1, <2>2 DEF AnswerSet
  <2> QED BY <2>3 DEF DataTypes
<1>4. DataTypes' /\ CallTypes'  BY <1>1, <1>3, CallsKept DEF AnswerSet, DataTypes
<1>5. up'.at = "idle" /\ up' \in UpType  BY DEF AnswerSet, UpType
<1>6. ChanTypes'  BY <1>5 DEF AnswerSet, ChanTypes
<1>7. HistoryTypes'
  <2>1. CASE setwindow' = setwindow  BY <2>1 DEF AnswerSet, HistoryTypes
  <2>2. CASE setwindow' = [NoWindow EXCEPT !.base = up.ans.setsum]
    <3>1. setwindow' \in WindowType  BY <1>2, <2>2 DEF NoWindow, WindowType
    <3> QED BY <3>1 DEF AnswerSet, HistoryTypes
  <2> QED BY <2>1, <2>2 DEF AnswerSet
<1> QED BY <1>4, <1>6, <1>7

LEMMA RefreshTypes ==
  ASSUME TypeInv, Refresh
  PROVE  /\ TypeInv' /\ Len(heap') = Len(heap)
         /\ \A i \in 1 .. Len(heap) : /\ heap'[i].slots = heap[i].slots
                                      /\ heap'[i].nowsum = heap[i].nowsum
<1> USE DEF TypeInv
<1>1. PICK e \in 1 .. Len(heap) : e = data[Preset]
  BY KeysEntry, DemoAssumption DEF DataTypes
<1>2. heap[e] \in DataType  BY EntryType
<1>3. PICK d : d = [heap[e] EXCEPT !.quota = DefaultQuota]  OBVIOUS
<1>4. /\ d \in DataType /\ d.slots = heap[e].slots /\ d.nowsum = heap[e].nowsum
      /\ d.key = heap[e].key
  BY <1>2, <1>3, DemoAssumption DEF DataType
<1>5. heap' = [heap EXCEPT ![e] = d]  BY <1>1, <1>3 DEF Refresh
<1>6. UNCHANGED <<clock, rlset, data, retchan, upchan, pc, call, up, calls, history>>
  BY DEF Refresh
<1>7. /\ DataTypes' /\ Len(heap') = Len(heap) /\ Grows /\ heap'[e] = d
      /\ \A j \in 1 .. Len(heap) : j # e => heap'[j] = heap[j]
  BY <1>4, <1>5, <1>6, EntryChanged
<1>8. CallTypes' /\ ChanTypes' /\ HistoryTypes'
  BY <1>6, <1>7, CallsKept, ChansKept, HistoryKept
<1> QED BY <1>4, <1>7, <1>8

LEMMA TickTypes ==
  ASSUME TypeInv, Tick
  PROVE  TypeInv'
<1> USE DEF TypeInv
<1>1. Grows  BY DataKept DEF Tick
<1>2. clock' \in Running  BY DemoAssumption DEF Tick, DataTypes, Running
<1>3. DataTypes'  BY <1>2 DEF Tick, DataTypes
<1>4. CallTypes' /\ ChanTypes' /\ HistoryTypes'
  BY <1>1, CallsKept, ChansKept, HistoryKept DEF Tick
<1> QED BY <1>3, <1>4

LEMMA StutterTypes ==
  ASSUME TypeInv, UNCHANGED vars
  PROVE  TypeInv'
<1> USE DEF TypeInv, vars
<1>1. Grows  BY DataKept
<1>2. DataTypes'  BY DEF DataTypes
<1>3. CallTypes' /\ ChanTypes' /\ HistoryTypes'
  BY <1>1, CallsKept, ChansKept, HistoryKept
<1> QED BY <1>2, <1>3

LEMMA TypesStep == TypeInv /\ [Next]_vars => TypeInv'
<1> SUFFICES ASSUME TypeInv, [Next]_vars PROVE TypeInv'  OBVIOUS
<1>1. ASSUME NEW c \in Callers, NEW k \in Keys, Begin(c, k) PROVE TypeInv'
  BY <1>1, BeginTypes
<1>2. ASSUME NEW c \in Callers, CallSteps(c) PROVE TypeInv'
  BY <1>2, GetDataTypes, AddDataTypes, JudgeTypes, ReturnTypes DEF CallSteps
<1>3. CASE CountRet  BY <1>3, CountRetTypes
<1>4. CASE TakeUpload \/ UploadFails \/ AnswerSet
  BY <1>4, TakeUploadTypes, UploadFailsTypes, AnswerSetTypes
<1>5. ASSUME NEW a \in Answers, AnswerKey(a) PROVE TypeInv'  BY <1>5, AnswerKeyTypes
<1>6. CASE Refresh \/ Tick \/ UNCHANGED vars
  BY <1>6, RefreshTypes, TickTypes, StutterTypes
<1> QED BY <1>1, <1>2, <1>3, <1>4, <1>5, <1>6 DEF Next

LEMMA TypesImplied == TypeInv => TypeOK
<1> SUFFICES ASSUME TypeInv PROVE TypeOK  OBVIOUS
<1> USE DEF TypeInv
<1>1. DOMAIN heap = 1 .. Len(heap)  BY LenProperties DEF DataTypes
<1>2. \A e \in DOMAIN heap :
        /\ heap[e].key \in Keys
        /\ heap[e].quota \in Nat \ {0} /\ heap[e].nowsum \in Nat
        /\ heap[e].reset \in Nat /\ heap[e].updatetime \in Nat
  BY <1>1, EntryType DEF DataType
<1>3. clock \in Nat  BY Bounds DEF DataTypes
<1>4. up.at \in {"idle", "request", "set"}  BY DEF ChanTypes, UpType
<1> QED BY <1>2, <1>3, <1>4 DEF TypeOK, DataTypes, CallTypes, ChanTypes

\* The types of the set, the entries, the calls and the channels; a quota is a
\* number above 0 whatever the server answers (rate_limit_data.go, 109-123;
\* task.go, 121-141).
THEOREM DemoTypesHold == Spec => []TypeOK
<1>1. TypeInv => TypeOK  BY TypesImplied
<1> QED BY <1>1, InitTypes, TypesStep, PTL DEF Spec

-----------------------------------------------------------------------------
\* Passes.

\* The count of the set is what its window began with and what passed since;
\* that of a key lacks the request that began it.
SetPasses ==
  /\ rlset.sum = setwindow.base + setwindow.passes
  /\ setwindow.passes > 0 => rlset.sum <= setwindow.most
KeyPasses(w, n) == /\ w.passes <= n + 1
                   /\ w.free \/ w.passes <= w.most + 1
PassInv ==
  /\ TypeInv
  /\ SetPasses
  /\ \A e \in 1 .. Len(heap) : KeyPasses(keywindow[e], heap[e].nowsum)

LEMMA PassImplied == PassInv => PassesWithinQuota
<1> SUFFICES ASSUME PassInv PROVE PassesWithinQuota  OBVIOUS
<1>1. DOMAIN keywindow = 1 .. Len(heap)
  BY LenProperties DEF PassInv, TypeInv, HistoryTypes
<1>2. setwindow.passes > 0 => setwindow.base + setwindow.passes <= setwindow.most
  BY DEF PassInv, SetPasses
<1>3. \A e \in DOMAIN keywindow :
        keywindow[e].free \/ keywindow[e].passes <= keywindow[e].most + 1
  BY <1>1 DEF PassInv, KeyPasses
<1> QED BY <1>2, <1>3 DEF PassesWithinQuota

LEMMA InitPass == Init => PassInv
<1> SUFFICES ASSUME Init PROVE PassInv  OBVIOUS
<1>1. TypeInv  BY InitTypes
<1>2. setwindow = NoWindow /\ rlset.sum = 0  BY DEF Init
<1>3. SetPasses  BY <1>2 DEF SetPasses, NoWindow
<1> DEFINE d == NewData(DefaultQuota, Preset)
<1>4. heap = <<d>> /\ keywindow = <<NoWindow>> /\ d.nowsum = 0
  BY DEF Init, NewData
<1>5. NoWindow \in WindowType  BY DEF NoWindow, WindowType
<1>6. d \in DataType
  <2>1. clock \in Running  BY Bounds DEF Init
  <2> QED BY <2>1, NewDataType, DemoAssumption
<1> HIDE DEF d
<1>7. /\ Len(<<d>>) = 1 /\ <<d>>[1] = d /\ \A i \in 1 .. 1 : i = 1
      /\ <<NoWindow>>[1] = NoWindow
  BY <1>5, <1>6, Single
<1>8. KeyPasses(NoWindow, 0)  BY DEF KeyPasses, NoWindow
<1>9. ASSUME NEW e \in 1 .. Len(heap) PROVE KeyPasses(keywindow[e], heap[e].nowsum)
  <2>1. e = 1 /\ heap[1] = d /\ keywindow[1] = NoWindow  BY <1>4, <1>7
  <2> QED BY <1>4, <1>8, <2>1
<1> QED BY <1>1, <1>3, <1>9 DEF PassInv

\* No passes of the set are counted.
LEMMA SetAlone ==
  ASSUME SetPasses, UNCHANGED <<rlset, setwindow>>
  PROVE  SetPasses'
BY DEF SetPasses

\* No passes of a key are counted, and no requests.
LEMMA KeysAlone ==
  ASSUME PassInv, Len(heap') = Len(heap), keywindow' = keywindow,
         \A i \in 1 .. Len(heap) : heap'[i].nowsum = heap[i].nowsum
  PROVE  \A e \in 1 .. Len(heap') : KeyPasses(keywindow'[e], heap'[e].nowsum)
BY DEF PassInv

LEMMA WindowsTyped ==
  ASSUME TypeInv
  PROVE  /\ setwindow \in WindowType /\ rlset.sum \in Nat /\ rlset.quota \in Nat
         /\ \A e \in 1 .. Len(heap) : keywindow[e] \in WindowType
         /\ \A e \in 1 .. Len(heap) : heap[e].nowsum \in Nat
<1> USE DEF TypeInv
<1>1. \A e \in 1 .. Len(heap) : keywindow[e] \in WindowType
  BY ElementOfSeq DEF HistoryTypes
<1>2. \A e \in 1 .. Len(heap) : heap[e].nowsum \in Nat  BY EntryType DEF DataType
<1> QED BY <1>1, <1>2 DEF DataTypes, HistoryTypes

LEMMA BeginPass ==
  ASSUME PassInv, NEW c \in Callers, NEW k \in Keys, Begin(c, k)
  PROVE  PassInv'
<1>1. TypeInv'  BY BeginTypes DEF PassInv
<1>2. SetPasses'
  <2>1. CASE UNCHANGED <<rlset, setwindow>>  BY <2>1, SetAlone DEF PassInv
  <2>2. CASE rlset' = [rlset EXCEPT !.reset = clock, !.sum = 0] /\ setwindow' = NoWindow
    <3>1. rlset'.sum = 0  BY <2>2 DEF PassInv, TypeInv, DataTypes
    <3> QED BY <2>2, <3>1 DEF SetPasses, NoWindow
  <2> QED BY <2>1, <2>2 DEF Begin
<1>3. UNCHANGED <<heap, keywindow>>  BY DEF Begin
<1> QED BY <1>1, <1>2, <1>3, KeysAlone DEF PassInv

LEMMA AddDataPass ==
  ASSUME PassInv, NEW c \in Callers, AddData(c)
  PROVE  PassInv'
<1>1. /\ TypeInv' /\ Len(heap') = Len(heap) + 1 /\ Len(heap) \in Nat
      /\ \A i \in 1 .. Len(heap) : heap'[i] = heap[i] /\ keywindow'[i] = keywindow[i]
      /\ heap'[Len(heap) + 1].nowsum = 0
      /\ keywindow'[Len(heap) + 1] = NoWindow
  BY AddDataTypes DEF PassInv
<1>2. SetPasses'  BY SetAlone DEF PassInv, AddData
<1>3. ASSUME NEW e \in 1 .. Len(heap') PROVE KeyPasses(keywindow'[e], heap'[e].nowsum)
  <2>1. CASE e \in 1 .. Len(heap)  BY <1>1, <2>1 DEF PassInv
  <2>2. CASE e = Len(heap) + 1  BY <1>1, <2>2 DEF KeyPasses, NoWindow
  <2> QED BY <1>1, <1>3, <2>1, <2>2
<1> QED BY <1>1, <1>2, <1>3 DEF PassInv

\* A request that passes is the first of its count, or within the quota.
LEMMA JudgePass ==
  ASSUME PassInv, NEW c \in Callers, Judge(c)
  PROVE  PassInv'
<1>1. TypeInv' /\ TypeInv  BY JudgeTypes DEF PassInv
<1>2. SetPasses'  BY SetAlone DEF PassInv, Judge
<1>3. CASE UNCHANGED <<heap, call, keywindow, upchan>>
  BY <1>1, <1>2, <1>3, KeysAlone DEF PassInv
<1>4. ASSUME NEW e, NEW d, NEW t, NEW from, NEW free, NEW pass,
             Judged(c, e, d, t, from, free, pass)
      PROVE  PassInv'
  <2> DEFINE w == IF pass THEN Grown(free, d.quota) ELSE free
             n == Counted(d, t).nowsum
  <2>1. /\ e \in 1 .. Len(heap) /\ d = heap[e] /\ d \in DataType /\ t \in Nat
        /\ from \in WindowType /\ free \in WindowType
        /\ heap' = [heap EXCEPT ![e] = Counted(d, t)]
        /\ keywindow' = [keywindow EXCEPT ![e] = w]
    BY <1>4 DEF Judged
  <2>2. /\ Counted(d, t) \in DataType /\ d.nowsum \in Nat /\ d.quota \in Nat \ {0}
        /\ n = IF Begins(d, t) THEN 0 ELSE d.nowsum + 1
    BY <2>1, CountedType
  <2>3. /\ w \in WindowType /\ Grown(free, d.quota).passes = free.passes + 1
        /\ Grown(free, d.quota).free = free.free
        /\ Grown(free, d.quota).most \in Nat /\ free.passes \in Nat /\ free.most \in Nat
        /\ free.most <= Grown(free, d.quota).most /\ d.quota <= Grown(free, d.quota).most
    BY <2>1, <2>2, GrownType
  <2>4. /\ free.passes = from.passes /\ free.most = from.most
        /\ free.free <=> (from.free \/ d.quota <= MinQuota)
    BY <1>4, <2>1 DEF Judged, WindowType
  <2>5. KeyPasses(w, n)
    <3>1. CASE Begins(d, t)
      <4>1. from = NoWindow  BY <1>4, <3>1 DEF Judged
      <4>2. free.passes = 0  BY <2>4, <4>1 DEF NoWindow
      <4>3. w.passes <= 1 /\ w.most \in Nat  BY <2>3, <4>2
      <4> QED BY <2>2, <2>3, <3>1, <4>3 DEF KeyPasses, WindowType
    <3>2. CASE ~Begins(d, t)
      <4>1. from = keywindow[e]  BY <1>4, <3>2 DEF Judged
      <4>2. KeyPasses(from, d.nowsum)  BY <2>1, <4>1 DEF PassInv
      <4>3. n = d.nowsum + 1  BY <2>2, <3>2
      <4>4. free.passes <= d.nowsum + 1 /\ (free.free \/ free.passes <= free.most + 1)
        BY <2>4, <4>2 DEF KeyPasses
      <4>5. CASE pass
        <5>1. w = Grown(free, d.quota)  BY <4>5
        <5>2. w.passes <= n + 1  BY <2>2, <2>3, <4>3, <4>4, <5>1
        <5>3. ASSUME ~free.free PROVE w.passes <= w.most + 1
          <6>1. ~Over(d, d.nowsum + 1)  BY <1>4, <4>5 DEF Judged
          <6>2. ~(d.quota <= MinQuota)  BY <2>4, <5>3
          <6>3. d.nowsum + 1 <= d.quota
            BY <2>2, <6>1, <6>2, DemoAssumption DEF Over
          <6> QED BY <2>2, <2>3, <4>4, <5>1, <6>3
        <5>4. w.free = free.free  BY <2>3, <5>1
        <5> QED BY <5>2, <5>3, <5>4 DEF KeyPasses
      <4>6. CASE ~pass
        <5>1. w = free  BY <4>6
        <5> QED BY <2>2, <2>3, <4>3, <4>4, <5>1 DEF KeyPasses
      <4> QED BY <4>5, <4>6
    <3> QED BY <3>1, <3>2
  <2> HIDE DEF w, n
  <2>6. /\ Len(heap') = Len(heap) /\ heap'[e] = Counted(d, t)
        /\ \A i \in 1 .. Len(heap) : i # e => heap'[i] = heap[i]
    BY <1>1, <2>1, <2>2, Changed DEF TypeInv, DataTypes
  <2>7. /\ keywindow'[e] = w
        /\ \A i \in 1 .. Len(heap) : i # e => keywindow'[i] = keywindow[i]
    <3>1. keywindow \in Seq(WindowType) /\ Len(keywindow) = Len(heap)
      BY <1>1 DEF TypeInv, HistoryTypes
    <3> QED BY <2>1, <2>3, <3>1, Changed
  <2>8. ASSUME NEW i \in 1 .. Len(heap') PROVE KeyPasses(keywindow'[i], heap'[i].nowsum)
    <3>1. CASE i = e  BY <2>5, <2>6, <2>7, <3>1 DEF n
    <3>2. CASE i # e  BY <2>6, <2>7, <3>2 DEF PassInv
    <3> QED BY <3>1, <3>2
  <2> QED BY <1>1, <1>2, <2>8 DEF PassInv
<1> QED BY <1>1, <1>3, <1>4, JudgeCases

LEMMA ReturnPass ==
  ASSUME PassInv, NEW c \in Callers, Return(c)
  PROVE  PassInv'
<1>1. TypeInv' /\ TypeInv  BY ReturnTypes DEF PassInv
<1>2. UNCHANGED <<heap, keywindow>>  BY DEF Return
<1>3. SetPasses'
  <2>1. CASE UNCHANGED <<rlset, setwindow>>  BY <2>1, SetAlone DEF PassInv
  <2>2. CASE /\ CheckSet
             /\ rlset' = [rlset EXCEPT !.sum = @ + 1]
             /\ setwindow' = Grown(setwindow, rlset.quota)
    <3>1. setwindow \in WindowType /\ rlset.sum \in Nat /\ rlset.quota \in Nat
      BY <1>1, WindowsTyped
    <3>2. rlset'.sum = rlset.sum + 1  BY <1>1, <2>2 DEF TypeInv, DataTypes
    <3>3. /\ setwindow'.base = setwindow.base
          /\ setwindow'.passes = setwindow.passes + 1
          /\ rlset.quota <= setwindow'.most /\ setwindow'.most \in Nat
          /\ setwindow.base \in Nat /\ setwindow.passes \in Nat
      BY <2>2, <3>1, GrownType
    <3>4. rlset.sum < rlset.quota  BY <2>2 DEF CheckSet
    <3>5. rlset.sum = setwindow.base + setwindow.passes  BY DEF PassInv, SetPasses
    <3> QED BY <3>1, <3>2, <3>3, <3>4, <3>5 DEF SetPasses
  <2> QED BY <2>1, <2>2 DEF Return
<1> QED BY <1>1, <1>2, <1>3, KeysAlone DEF PassInv

LEMMA AnswerSetPass ==
  ASSUME PassInv, AnswerSet
  PROVE  PassInv'
<1>1. TypeInv' /\ TypeInv  BY AnswerSetTypes DEF PassInv
<1>2. UNCHANGED <<heap, keywindow>>  BY DEF AnswerSet
<1>3. SetPasses'
  <2>1. up.ans.setsum \in Nat
    BY <1>1, DemoAssumption DEF AnswerSet, TypeInv, ChanTypes, UpType
  <2>2. CASE up.ans.setsum > 0
    <3>1. rlset'.sum = up.ans.setsum
      BY <1>1, <2>2 DEF AnswerSet, TypeInv, DataTypes
    <3>2. setwindow' = [NoWindow EXCEPT !.base = up.ans.setsum]
      BY <2>2 DEF AnswerSet
    <3>3. setwindow'.base = up.ans.setsum /\ setwindow'.passes = 0
      BY <3>2 DEF NoWindow
    <3> QED BY <2>1, <3>1, <3>3 DEF SetPasses
  <2>3. CASE ~(up.ans.setsum > 0)
    <3>1. rlset'.sum = rlset.sum /\ setwindow' = setwindow
      BY <1>1, <2>3 DEF AnswerSet, TypeInv, DataTypes
    <3> QED BY <3>1 DEF PassInv, SetPasses
  <2> QED BY <2>2, <2>3
<1> QED BY <1>1, <1>2, <1>3, KeysAlone DEF PassInv

LEMMA PassStep == PassInv /\ [Next]_vars => PassInv'
<1> SUFFICES ASSUME PassInv, [Next]_vars PROVE PassInv'  OBVIOUS
<1>1. TypeInv /\ TypeInv'  BY TypesStep DEF PassInv
<1>2. ASSUME UNCHANGED <<rlset, setwindow, keywindow>>, Len(heap') = Len(heap),
             \A i \in 1 .. Len(heap) : heap'[i].nowsum = heap[i].nowsum
      PROVE  PassInv'
  BY <1>1, <1>2, SetAlone, KeysAlone DEF PassInv
<1>3. ASSUME NEW c \in Callers, NEW k \in Keys, Begin(c, k) PROVE PassInv'
  BY <1>3, BeginPass
<1>4. ASSUME NEW c \in Callers, CallSteps(c) PROVE PassInv'
  <2>1. CASE GetData(c)  BY <1>2, <2>1 DEF GetData, history
  <2> QED BY <1>4, <2>1, AddDataPass, JudgePass, ReturnPass DEF CallSteps
<1>5. CASE CountRet
  <2>1. PICK r \in RetType, e \in 1 .. Len(heap) :
          LET i == SlotIndex(r.time)
          IN  /\ retchan[1] = r /\ i \in Slots
              /\ heap[e] \in DataType
              /\ heap'[e] = [heap[e] EXCEPT !.slots =
                               [@ EXCEPT ![i] = Marked(heap[e].slots[i], r)]]
              /\ \A f \in 1 .. Len(heap) : f # e => heap'[f] = heap[f]
    BY <1>1, <1>5, CountRetTypes
  <2>2. heap'[e].nowsum = heap[e].nowsum  BY <2>1 DEF DataType
  <2>3. \A i \in 1 .. Len(heap) : heap'[i].nowsum = heap[i].nowsum  BY <2>1, <2>2
  <2>4. Len(heap') = Len(heap)  BY <1>1, <1>5, CountRetTypes
  <2>5. UNCHANGED <<rlset, setwindow, keywindow>>  BY <1>5 DEF CountRet, history
  <2> QED BY <1>2, <2>3, <2>4, <2>5
<1>6. CASE TakeUpload \/ UploadFails \/ Tick \/ UNCHANGED vars
  <2>1. UNCHANGED <<rlset, setwindow, keywindow, heap>>
    BY <1>6 DEF TakeUpload, UploadFails, Tick, vars, history
  <2> QED BY <1>2, <2>1
<1>7. CASE AnswerSet  BY <1>7, AnswerSetPass
<1>8. ASSUME NEW a \in Answers, AnswerKey(a) PROVE PassInv'
  BY <1>1, <1>2, <1>8, AnswerKeyTypes DEF AnswerKey, history
<1>9. CASE Refresh
  BY <1>1, <1>2, <1>9, RefreshTypes DEF Refresh, history
<1> QED BY <1>3, <1>4, <1>5, <1>6, <1>7, <1>8, <1>9 DEF Next

\* Since a count began anew no more requests passed than the greatest quota
\* allows, of the set and, but for the one that began it, of a key, however the
\* calls and the answers interleave (api.go, 224-240 and 275-310; task.go,
\* 157-172).
THEOREM DemoPassesHold == Spec => []PassesWithinQuota
<1>1. PassInv => PassesWithinQuota  BY PassImplied
<1> QED BY <1>1, InitPass, PassStep, PTL DEF Spec

-----------------------------------------------------------------------------
\* Verdicts.

\* The verdicts of the time t in the slots of some entries L of h, and in the
\* queue q.
EntriesOf(h, L) == L \subseteq 1 .. Len(h)
CountedIn(h, L, t) == SumFunctionOnSet([e \in DOMAIN h |-> Held(h[e], t)], L)
Places(q, t) == {i \in DOMAIN q : TimeKey(q[i].time) = t}

\* Times that are slots' or verdicts' are times of calls that returned.
Came(v, t) == t \in Times /\ v[t] > 0
SlotsCame(h, v) ==
  \A e \in 1 .. Len(h), i \in Slots :
    LET slot == h[e].slots[i]
    IN  \/ slot = NoSlot
        \/ Came(v, slot.timekey) /\ SlotIndex(slot.timekey) = i
QueueCame(q, v) == \A i \in 1 .. Len(q) : Came(v, TimeKey(q[i].time))

\* No verdict is of another time of the same slot.
Alone(v, t) == \A u \in Times \ {t} : SlotIndex(u) = SlotIndex(t) => v[u] = 0
Balanced(h, L, q, v, lost, R, t) ==
  LET known == CountedIn(h, L, t) + Cardinality(Places(q, t)) + lost[t]
  IN  known <= v[t] /\ (t \notin R /\ Alone(v, t) => known = v[t])

CountInv ==
  /\ TypeInv
  /\ SlotsCame(heap, verdicts)
  /\ QueueCame(retchan, verdicts)
  /\ \A t \in Times : Balanced(heap, Referred, retchan, verdicts, dropped, replaced, t)

LEMMA CountImplied == CountInv => VerdictsCountedOnce
BY DEF CountInv, Balanced, CountedIn, Places, Alone, CountedOf, QueuedOf,
       VerdictsCountedOnce

LEMMA TimesSlot ==
  ASSUME NEW t \in Times
  PROVE  t \in Nat /\ SlotIndex(t) \in Slots
<1>1. PICK u \in Running : t = TimeKey(u)  BY DEF Times, Running
<1>2. t \in Nat  BY <1>1, Bounds, TimeKeyBounds
<1> QED BY <1>2, SlotIndexInRing

LEMMA HeldType ==
  ASSUME NEW d \in DataType, NEW t \in Times
  PROVE  Held(d, t) \in Nat
<1>1. d.slots[SlotIndex(t)] \in SlotType  BY TimesSlot DEF DataType
<1> QED BY <1>1 DEF Held, SlotType

LEMMA Entries ==
  ASSUME NEW h \in Seq(DataType), NEW L, EntriesOf(h, L), NEW t \in Times
  PROVE  /\ DOMAIN h = 1 .. Len(h) /\ Len(h) \in Nat /\ IsFiniteSet(L)
         /\ L \subseteq DOMAIN h
         /\ \A e \in DOMAIN h : Held(h[e], t) \in Nat
         /\ CountedIn(h, L, t) \in Nat
<1>1. DOMAIN h = 1 .. Len(h) /\ Len(h) \in Nat /\ \A e \in DOMAIN h : h[e] \in DataType
  BY LenProperties, ElementOfSeq
<1>2. IsFiniteSet(1 .. Len(h))  BY <1>1, FS_Interval
<1>3. IsFiniteSet(L) /\ L \subseteq DOMAIN h  BY <1>1, <1>2, FS_Subset DEF EntriesOf
<1>4. \A e \in DOMAIN h : Held(h[e], t) \in Nat  BY <1>1, HeldType
<1> DEFINE f == [e \in DOMAIN h |-> Held(h[e], t)]
<1>5. \A e \in L : f[e] \in Nat  BY <1>3, <1>4
<1>6. CountedIn(h, L, t) = SumFunctionOnSet(f, L)  BY DEF CountedIn
<1> HIDE DEF f
<1>7. CountedIn(h, L, t) \in Nat  BY <1>3, <1>5, <1>6, SumNat
<1> QED BY <1>1, <1>3, <1>4, <1>7

\* The entries hold the same.
LEMMA CountedSame ==
  ASSUME NEW h \in Seq(DataType), NEW g \in Seq(DataType), NEW t \in Times,
         NEW L, EntriesOf(h, L), EntriesOf(g, L),
         \A e \in L : Held(g[e], t) = Held(h[e], t)
  PROVE  CountedIn(g, L, t) = CountedIn(h, L, t)
<1>1. /\ L \subseteq DOMAIN h /\ L \subseteq DOMAIN g /\ IsFiniteSet(L)
      /\ \A e \in L : Held(h[e], t) \in Int
  <2>1. L \subseteq DOMAIN h /\ IsFiniteSet(L) /\ \A e \in L : Held(h[e], t) \in Int
    BY Entries
  <2>2. L \subseteq DOMAIN g  BY Entries
  <2> QED BY <2>1, <2>2
<1> DEFINE f == [e \in DOMAIN h |-> Held(h[e], t)]
           k == [e \in DOMAIN g |-> Held(g[e], t)]
<1>2. \A e \in L : f[e] \in Int /\ k[e] = f[e]  BY <1>1
<1>3. CountedIn(h, L, t) = SumFunctionOnSet(f, L)
      /\ CountedIn(g, L, t) = SumFunctionOnSet(k, L)
  BY DEF CountedIn
<1> HIDE DEF f, k
<1>4. SumFunctionOnSet(f, L) = SumFunctionOnSet(k, L)
  BY ONLY <1>1, <1>2, SumSame
<1> QED BY <1>3, <1>4

\* One entry, apart from the others.
LEMMA CountedApart ==
  ASSUME NEW h \in Seq(DataType), NEW L, EntriesOf(h, L), NEW t \in Times,
         NEW e \in L, NEW K, K = L \ {e}
  PROVE  /\ CountedIn(h, L, t) = Held(h[e], t) + CountedIn(h, K, t)
         /\ Held(h[e], t) \in Nat
         /\ CountedIn(h, K, t) \in Nat
<1>1. /\ L \subseteq DOMAIN h /\ IsFiniteSet(L)
      /\ \A i \in L : Held(h[i], t) \in Nat
  BY Entries
<1>2. EntriesOf(h, K)  BY DEF EntriesOf
<1> DEFINE f == [i \in DOMAIN h |-> Held(h[i], t)]
<1>3. (\A i \in L : f[i] \in Int) /\ f[e] = Held(h[e], t)  BY <1>1
<1>4. CountedIn(h, L, t) = SumFunctionOnSet(f, L)
      /\ CountedIn(h, K, t) = SumFunctionOnSet(f, L \ {e})
  BY DEF CountedIn
<1> HIDE DEF f
<1>5. SumFunctionOnSet(f, L) = f[e] + SumFunctionOnSet(f, L \ {e})
  BY ONLY <1>1, <1>3, e \in L, SumSplit
<1> QED BY <1>1, <1>2, <1>3, <1>4, <1>5, Entries

\* One entry holds something else.
LEMMA CountedOne ==
  ASSUME NEW h \in Seq(DataType), NEW g \in Seq(DataType), NEW t \in Times,
         NEW L, EntriesOf(h, L), Len(g) = Len(h), NEW e \in L,
         \A i \in 1 .. Len(h) : i # e => g[i] = h[i]
  PROVE  CountedIn(g, L, t) = (CountedIn(h, L, t) - Held(h[e], t)) + Held(g[e], t)
<1>1. PICK K : K = L \ {e}  OBVIOUS
<1>2. /\ EntriesOf(h, K) /\ EntriesOf(g, K) /\ EntriesOf(g, L)
      /\ \A i \in K : Held(g[i], t) = Held(h[i], t)
  BY <1>1 DEF EntriesOf
<1>3. CountedIn(g, K, t) = CountedIn(h, K, t)  BY <1>2, CountedSame
<1>4. /\ CountedIn(h, L, t) = Held(h[e], t) + CountedIn(h, K, t)
      /\ Held(h[e], t) \in Nat /\ CountedIn(h, K, t) \in Nat
  BY <1>1, CountedApart
<1>5. /\ CountedIn(g, L, t) = Held(g[e], t) + CountedIn(g, K, t)
      /\ Held(g[e], t) \in Nat
  BY <1>1, <1>2, CountedApart
<1> QED BY <1>3, <1>4, <1>5

\* An entry that holds nothing comes, and one goes, or none.
LEMMA CountedReplaced ==
  ASSUME NEW h \in Seq(DataType), NEW g \in Seq(DataType), NEW t \in Times,
         NEW L, EntriesOf(h, L), NEW n, n = Len(h) + 1, Len(g) = n,
         \A i \in 1 .. Len(h) : g[i] = h[i], Held(g[n], t) = 0,
         NEW M, n \in M, NEW old,
         \A i : i \in M => i = n \/ i \in L,
         \A i : i \in L /\ i \notin M => i = old
  PROVE  /\ CountedIn(g, M, t) \in Nat
         /\ CountedIn(g, M, t) <= CountedIn(h, L, t)
         /\ (old \in L => Held(h[old], t) = 0) => CountedIn(g, M, t) = CountedIn(h, L, t)
<1>1. Len(h) \in Nat /\ n \notin L  BY LenProperties DEF EntriesOf
<1>2. EntriesOf(g, M)  BY <1>1 DEF EntriesOf
<1>3. PICK K : K = M \ {n}  OBVIOUS
<1>4. /\ CountedIn(g, M, t) = Held(g[n], t) + CountedIn(g, K, t)
      /\ CountedIn(g, K, t) \in Nat
  BY <1>2, <1>3, CountedApart
<1>5. K \subseteq L /\ EntriesOf(h, K) /\ EntriesOf(g, K)
  BY <1>1, <1>2, <1>3 DEF EntriesOf
<1>6. CountedIn(g, K, t) = CountedIn(h, K, t)
  <2>1. \A i \in K : Held(g[i], t) = Held(h[i], t)  BY <1>5 DEF EntriesOf
  <2> QED BY <1>5, <2>1, CountedSame
<1>7. CountedIn(g, M, t) = CountedIn(h, K, t) /\ CountedIn(h, K, t) \in Nat
  BY <1>4, <1>6
<1>8. CASE K = L  BY <1>7, <1>8
<1>9. CASE K # L
  <2>1. old \in L /\ K = L \ {old}  BY <1>1, <1>3, <1>5, <1>9
  <2>2. /\ CountedIn(h, L, t) = Held(h[old], t) + CountedIn(h, K, t)
        /\ Held(h[old], t) \in Nat
    BY <2>1, CountedApart
  <2> QED BY <1>7, <2>1, <2>2
<1> QED BY <1>8, <1>9

\* The entries the keys have are entries.
LEMMA ReferredEntries ==
  ASSUME DataTypes
  PROVE  EntriesOf(heap, Referred) /\ heap \in Seq(DataType) /\ Len(heap) \in Nat
BY LenProperties DEF DataTypes, Referred, EntriesOf

LEMMA PlacesFinite ==
  ASSUME NEW q \in Seq(RetType), NEW t
  PROVE  /\ IsFiniteSet(Places(q, t)) /\ Cardinality(Places(q, t)) \in Nat
         /\ DOMAIN q = 1 .. Len(q) /\ Len(q) \in Nat
<1>1. DOMAIN q = 1 .. Len(q) /\ Len(q) \in Nat  BY LenProperties
<1>2. IsFiniteSet(1 .. Len(q))  BY <1>1, FS_Interval
<1>3. Places(q, t) \subseteq 1 .. Len(q)  BY <1>1 DEF Places
<1> QED BY <1>1, <1>2, <1>3, FS_Subset, FS_CardinalityType

\* A verdict is put into the queue, and taken from it.
LEMMA PlacesPut ==
  ASSUME NEW q \in Seq(RetType), NEW r \in RetType, NEW t
  PROVE  Cardinality(Places(Append(q, r), t)) =
           Cardinality(Places(q, t)) + (IF TimeKey(r.time) = t THEN 1 ELSE 0)
<1>1. /\ Append(q, r) \in Seq(RetType) /\ Len(Append(q, r)) = Len(q) + 1
      /\ Len(q) \in Nat
      /\ \A i \in 1 .. Len(q) : Append(q, r)[i] = q[i]
      /\ Append(q, r)[Len(q) + 1] = r
  BY Made
<1>2. DOMAIN q = 1 .. Len(q) /\ DOMAIN Append(q, r) = 1 .. Len(q) + 1
  BY <1>1, PlacesFinite
<1>3. IsFiniteSet(Places(q, t)) /\ Cardinality(Places(q, t)) \in Nat  BY PlacesFinite
<1>4. Len(q) + 1 \notin Places(q, t)  BY <1>1, <1>2 DEF Places
<1>5. CASE TimeKey(r.time) = t
  <2>1. Places(Append(q, r), t) = Places(q, t) \cup {Len(q) + 1}
    BY <1>1, <1>2, <1>5 DEF Places
  <2>2. Cardinality(Places(q, t) \cup {Len(q) + 1}) = Cardinality(Places(q, t)) + 1
    BY ONLY <1>3, <1>4, FS_AddElement
  <2> QED BY <1>5, <2>1, <2>2
<1>6. CASE TimeKey(r.time) # t
  <2>1. Places(Append(q, r), t) = Places(q, t)
    BY <1>1, <1>2, <1>6 DEF Places
  <2> QED BY <1>3, <1>6, <2>1
<1> QED BY <1>5, <1>6

LEMMA PlacesTaken ==
  ASSUME NEW q \in Seq(RetType), q # <<>>, NEW t
  PROVE  Cardinality(Places(Tail(q), t)) =
           Cardinality(Places(q, t)) - (IF TimeKey(q[1].time) = t THEN 1 ELSE 0)
<1>1. /\ Tail(q) \in Seq(RetType) /\ Len(Tail(q)) = Len(q) - 1
      /\ Len(q) \in Nat /\ 1 \in 1 .. Len(q)
      /\ \A i \in 1 .. Len(Tail(q)) : i + 1 \in 1 .. Len(q) /\ Tail(q)[i] = q[i + 1]
  BY Taken
<1>2. DOMAIN q = 1 .. Len(q) /\ DOMAIN Tail(q) = 1 .. Len(q) - 1
  BY <1>1, PlacesFinite
<1>3. IsFiniteSet(Places(q, t)) /\ Cardinality(Places(q, t)) \in Nat  BY PlacesFinite
<1>4. IsFiniteSet(Places(Tail(q), t)) /\ Cardinality(Places(Tail(q), t)) \in Nat
  BY <1>1, PlacesFinite
<1> DEFINE R == Places(q, t) \ {1}
           next == [i \in Places(Tail(q), t) |-> i + 1]
<1>5. next \in Bijection(Places(Tail(q), t), R)
  <2>1. \A i \in Places(Tail(q), t) : i + 1 \in R
    BY <1>1, <1>2 DEF Places
  <2>2. \A i, j \in Places(Tail(q), t) : i + 1 = j + 1 => i = j
    BY <1>2 DEF Places
  <2>3. ASSUME NEW j \in R PROVE \E i \in Places(Tail(q), t) : i + 1 = j
    <3>1. j \in 1 .. Len(q) /\ j # 1 /\ TimeKey(q[j].time) = t  BY <1>2 DEF Places
    <3>2. j - 1 \in 1 .. Len(Tail(q)) /\ (j - 1) + 1 = j  BY <1>1, <3>1
    <3>3. Tail(q)[j - 1] = q[j]  BY <1>1, <3>2
    <3>4. j - 1 \in Places(Tail(q), t)  BY <1>1, <1>2, <3>1, <3>2, <3>3 DEF Places
    <3> QED BY <3>2, <3>4
  <2>4. /\ next \in [Places(Tail(q), t) -> R]
        /\ \A i \in Places(Tail(q), t) : next[i] = i + 1
    BY <2>1
  <2> HIDE DEF R, next
  <2>5. next \in Injection(Places(Tail(q), t), R)
    BY <2>2, <2>4 DEF Injection, IsInjective
  <2>6. next \in Surjection(Places(Tail(q), t), R)
    BY <2>3, <2>4 DEF Surjection
  <2> QED BY <2>5, <2>6 DEF Bijection
<1>6. Cardinality(R) = Cardinality(Places(Tail(q), t))
  <2>1. ExistsBijection(Places(Tail(q), t), R)  BY <1>5, Zenon DEF ExistsBijection
  <2> HIDE DEF R
  <2> QED BY <1>4, <2>1, FS_Bijection
<1>7. CASE TimeKey(q[1].time) = t
  <2>1. 1 \in Places(q, t)  BY <1>1, <1>2, <1>7 DEF Places
  <2>2. Cardinality(R) = Cardinality(Places(q, t)) - 1
    BY <1>3, <2>1, FS_RemoveElement
  <2> QED BY <1>6, <1>7, <2>2
<1>8. CASE TimeKey(q[1].time) # t
  <2>1. R = Places(q, t)  BY <1>8 DEF Places
  <2> HIDE DEF R
  <2> QED BY <1>3, <1>6, <1>8, <2>1
<1> QED BY <1>7, <1>8

LEMMA InitCount == Init => CountInv
<1> SUFFICES ASSUME Init PROVE CountInv  OBVIOUS
<1>1. TypeInv  BY InitTypes
<1>2. clock \in Running  BY Bounds DEF Init
<1> DEFINE d == NewData(DefaultQuota, Preset)
<1>3. heap = <<d>> /\ d \in DataType /\ d.slots = [i \in Slots |-> NoSlot]
  BY <1>2, NewDataType, DemoAssumption DEF Init
<1>4. retchan = <<>> /\ Len(retchan) = 0  BY EmptySeq DEF Init
<1> HIDE DEF d
<1>5. Len(heap) = 1 /\ heap[1] = d /\ \A e \in 1 .. Len(heap) : e = 1
  BY <1>3, Single
<1>6. SlotsCame(heap, verdicts)  BY <1>3, <1>5 DEF SlotsCame
<1>7. QueueCame(retchan, verdicts)  BY <1>4 DEF QueueCame
<1>8. ASSUME NEW t \in Times
      PROVE  Balanced(heap, Referred, retchan, verdicts, dropped, replaced, t)
  <2>1. /\ heap \in Seq(DataType) /\ retchan \in Seq(RetType)
        /\ EntriesOf(heap, Referred)
    BY <1>1, ReferredEntries DEF TypeInv, DataTypes, ChanTypes
  <2>2. Held(heap[1], t) = 0
    BY <1>3, <1>5, TimesSlot DEF Held, NoSlot
  <2>3. CountedIn(heap, Referred, t) = 0
    <3> DEFINE f == [e \in DOMAIN heap |-> Held(heap[e], t)]
    <3>1. Referred \subseteq DOMAIN heap /\ IsFiniteSet(Referred)  BY <2>1, Entries
    <3>2. \A e \in Referred : f[e] = 0  BY <1>5, <2>1, <2>2, <3>1
    <3>3. CountedIn(heap, Referred, t) = SumFunctionOnSet(f, Referred)  BY DEF CountedIn
    <3> HIDE DEF f
    <3> QED BY <3>1, <3>2, <3>3, SumZero
  <2>4. Cardinality(Places(retchan, t)) = 0
    <3>1. DOMAIN retchan = 1 .. 0  BY <1>4, <2>1, PlacesFinite
    <3>2. Places(retchan, t) = {}  BY <3>1 DEF Places
    <3> QED BY <3>2, FS_EmptySet
  <2>5. verdicts[t] = 0 /\ dropped[t] = 0  BY DEF Init
  <2> QED BY <2>3, <2>4, <2>5 DEF Balanced
<1> QED BY <1>1, <1>6, <1>7, <1>8 DEF CountInv

\* The entries hold the same verdicts, and nothing else changes.
LEMMA SlotsAlone ==
  ASSUME CountInv, TypeInv', Len(heap') = Len(heap),
         \A i \in 1 .. Len(heap) : heap'[i].slots = heap[i].slots,
         UNCHANGED <<data, retchan, verdicts, dropped, replaced>>
  PROVE  CountInv'
<1>1. SlotsCame(heap', verdicts)  BY DEF CountInv, SlotsCame
<1>2. QueueCame(retchan, verdicts)  BY DEF CountInv
<1>3. ASSUME NEW t \in Times
      PROVE  Balanced(heap', Referred, retchan, verdicts, dropped, replaced, t)
  <2>1. /\ heap \in Seq(DataType) /\ heap' \in Seq(DataType)
        /\ EntriesOf(heap, Referred) /\ Len(heap) \in Nat
    BY ReferredEntries DEF CountInv, TypeInv, DataTypes
  <2>2. \A e \in Referred : Held(heap'[e], t) = Held(heap[e], t)
    BY <2>1 DEF Held, EntriesOf
  <2>3. EntriesOf(heap', Referred)  BY <2>1 DEF EntriesOf
  <2>5. CountedIn(heap', Referred, t) = CountedIn(heap, Referred, t)
    BY <2>1, <2>2, <2>3, CountedSame
  <2>4. Balanced(heap, Referred, retchan, verdicts, dropped, replaced, t)
    BY DEF CountInv
  <2> QED BY <2>4, <2>5 DEF Balanced
<1>4. Referred' = Referred  BY DEF Referred
<1> QED BY <1>1, <1>2, <1>3, <1>4 DEF CountInv

LEMMA AddDataCount ==
  ASSUME CountInv, NEW c \in Callers, AddData(c)
  PROVE  CountInv'
<1>1. /\ TypeInv' /\ Len(heap') = Len(heap) + 1 /\ Len(heap) \in Nat
      /\ \A i \in 1 .. Len(heap) : heap'[i] = heap[i]
      /\ heap'[Len(heap) + 1].slots = [i \in Slots |-> NoSlot]
  BY AddDataTypes DEF CountInv
<1>2. UNCHANGED <<retchan, verdicts, dropped>>  BY DEF AddData
<1>3. SlotsCame(heap', verdicts)
  <2>1. ASSUME NEW e \in 1 .. Len(heap'), NEW i \in Slots
        PROVE  LET slot == heap'[e].slots[i]
               IN  \/ slot = NoSlot
                   \/ Came(verdicts, slot.timekey) /\ SlotIndex(slot.timekey) = i
    <3>1. CASE e \in 1 .. Len(heap)  BY <1>1, <3>1 DEF CountInv, SlotsCame
    <3>2. CASE e = Len(heap) + 1  BY <1>1, <3>2
    <3> QED BY <1>1, <2>1, <3>1, <3>2
  <2> QED BY <2>1 DEF SlotsCame
<1> DEFINE n == Len(heap) + 1
           old == data[call[c].key]
<1>4. /\ EntriesOf(heap, Referred) /\ heap \in Seq(DataType)
      /\ heap' \in Seq(DataType)
  BY <1>1, ReferredEntries DEF CountInv, TypeInv, DataTypes
<1>5. /\ n \in Referred'
      /\ \A i : i \in Referred' => i = n \/ i \in Referred
      /\ \A i : i \in Referred /\ i \notin Referred' => i = old
      /\ old \in Referred => old # 0
  <2>1. call[c].key \in Keys /\ data \in [Keys -> 0 .. Len(heap)]
    BY DEF CountInv, TypeInv, CallTypes, CallType, AddData, DataTypes
  <2>2. data' = [data EXCEPT ![call[c].key] = n]  BY <1>1 DEF AddData
  <2>3. n # 0  BY <1>1
  <2> QED BY <2>1, <2>2, <2>3 DEF Referred
<1>6. ASSUME NEW t \in Times
      PROVE  Balanced(heap', Referred', retchan, verdicts, dropped, replaced', t)
  <2>1. Held(heap'[n], t) = 0  BY <1>1, TimesSlot DEF Held, NoSlot
  <2>2. PICK x, y : x = CountedIn(heap, Referred, t) /\ y = CountedIn(heap', Referred', t)
    OBVIOUS
  <2>3. replaced' = replaced \cup {u \in Times : old # 0 /\ Held(heap[old], u) > 0}
    BY DEF AddData
  <2>4. t \notin replaced' =>
          t \notin replaced /\ (old \in Referred => Held(heap[old], t) = 0)
    <3>1. old \in Referred => heap[old] \in DataType
      BY <1>4, ElementOfSeq DEF EntriesOf
    <3>2. old \in Referred => Held(heap[old], t) \in Nat  BY <3>1, HeldType
    <3> QED BY <1>5, <2>3, <3>2
  <2> HIDE DEF n, old
  <2>5. /\ y \in Nat /\ y <= x
        /\ (old \in Referred => Held(heap[old], t) = 0) => y = x
    <3>1. /\ n = Len(heap) + 1 /\ Len(heap') = n
          /\ \A i \in 1 .. Len(heap) : heap'[i] = heap[i]
      BY <1>1 DEF n
    <3> QED BY ONLY <1>4, <1>5, <2>1, <2>2, <3>1, t \in Times, CountedReplaced
  <2>6. Balanced(heap, Referred, retchan, verdicts, dropped, replaced, t)
    BY DEF CountInv
  <2>7. /\ x \in Nat /\ Cardinality(Places(retchan, t)) \in Nat
        /\ dropped[t] \in Nat /\ verdicts[t] \in Nat
    BY <1>4, <2>2, Entries, PlacesFinite DEF CountInv, TypeInv, ChanTypes, HistoryTypes
  <2>8. PICK m, d, v : /\ m = Cardinality(Places(retchan, t))
                       /\ d = dropped[t] /\ v = verdicts[t]
    OBVIOUS
  <2>9. /\ x + m + d <= v
        /\ t \notin replaced /\ Alone(verdicts, t) => x + m + d = v
    BY <2>2, <2>6, <2>8 DEF Balanced
  <2>10. /\ y + m + d <= v
         /\ t \notin replaced' /\ Alone(verdicts, t) => y + m + d = v
    BY <2>4, <2>5, <2>7, <2>8, <2>9
  <2> QED BY <2>2, <2>8, <2>10 DEF Balanced
<1> HIDE DEF n, old
<1> QED BY <1>1, <1>2, <1>3, <1>6 DEF CountInv

\* What came has come for good.
LEMMA CameKept ==
  ASSUME NEW v, NEW u, \A t \in Times : v[t] \in Nat /\ u[t] \in Nat /\ v[t] <= u[t],
         NEW h, NEW q
  PROVE  /\ \A t : Came(v, t) => Came(u, t)
         /\ SlotsCame(h, v) => SlotsCame(h, u)
         /\ QueueCame(q, v) => QueueCame(q, u)
         /\ \A t \in Times : Alone(u, t) => Alone(v, t)
<1>1. \A t : Came(v, t) => Came(u, t)  BY DEF Came
<1>2. \A t \in Times : Alone(u, t) => Alone(v, t)  BY DEF Alone
<1>3. SlotsCame(h, v) => SlotsCame(h, u)  BY <1>1 DEF SlotsCame
<1>4. QueueCame(q, v) => QueueCame(q, u)  BY <1>1 DEF QueueCame
<1> QED BY <1>1, <1>2, <1>3, <1>4

\* A verdict waits, or finds the queue full.
LEMMA ReturnCount ==
  ASSUME CountInv, NEW c \in Callers, Return(c)
  PROVE  CountInv'
<1>1. TypeInv /\ TypeInv'  BY ReturnTypes DEF CountInv
<1> DEFINE pass == call[c].pass /\ CheckSet
           r == [key |-> call[c].key, pass |-> pass, time |-> call[c].now]
<1>2. PICK T : T = TimeKey(call[c].now)  OBVIOUS
<1>3. call[c].now \in Running /\ call[c].key \in Keys /\ call[c].pass \in BOOLEAN
  BY <1>1 DEF Return, TypeInv, CallTypes, CallType
<1>4. T \in Times  BY <1>2, <1>3, Bounds
<1>5. r \in RetType /\ r.time = call[c].now
  <2>1. pass \in BOOLEAN  BY <1>3 DEF CheckSet
  <2> HIDE DEF pass
  <2> QED BY <1>3, <2>1 DEF RetType
<1>6. /\ heap' = heap /\ data' = data /\ replaced' = replaced
      /\ verdicts' = [verdicts EXCEPT ![T] = @ + 1]
  BY <1>2 DEF Return
<1>7. \/ Len(retchan) < ChanCap /\ retchan' = Append(retchan, r) /\ dropped' = dropped
      \/ retchan' = retchan /\ dropped' = [dropped EXCEPT ![T] = @ + 1]
  BY <1>2 DEF Return
<1> HIDE DEF r
<1>8. \A t \in Times : /\ verdicts[t] \in Nat /\ dropped[t] \in Nat
                       /\ verdicts'[t] = verdicts[t] + (IF t = T THEN 1 ELSE 0)
  BY <1>1, <1>4, <1>6 DEF TypeInv, HistoryTypes
<1>9. \A t \in Times : /\ verdicts[t] \in Nat /\ verdicts'[t] \in Nat
                       /\ verdicts[t] <= verdicts'[t]
  BY <1>8
<1>10. PICK v : v = verdicts'  OBVIOUS
<1>11. /\ SlotsCame(heap, v) /\ QueueCame(retchan, v)
       /\ \A t \in Times : Alone(v, t) => Alone(verdicts, t)
  BY <1>9, <1>10, CameKept DEF CountInv
<1>12. /\ retchan \in Seq(RetType) /\ heap \in Seq(DataType)
       /\ EntriesOf(heap, Referred) /\ Referred' = Referred
  BY <1>1, <1>6, ReferredEntries DEF TypeInv, ChanTypes, DataTypes, Referred
<1>13. QueueCame(retchan', v)
  <2>1. CASE retchan' = retchan  BY <1>11, <2>1
  <2>2. CASE retchan' = Append(retchan, r)
    <3>1. /\ Len(retchan') = Len(retchan) + 1 /\ Len(retchan) \in Nat
          /\ \A i \in 1 .. Len(retchan) : retchan'[i] = retchan[i]
          /\ retchan'[Len(retchan) + 1] = r
      BY <1>5, <1>12, <2>2, Made
    <3>2. Came(v, T)  BY <1>4, <1>8, <1>10 DEF Came
    <3>3. ASSUME NEW i \in 1 .. Len(retchan') PROVE Came(v, TimeKey(retchan'[i].time))
      <4>1. CASE i \in 1 .. Len(retchan)  BY <1>11, <3>1, <4>1 DEF QueueCame
      <4>2. CASE i = Len(retchan) + 1  BY <1>2, <1>5, <3>1, <3>2, <4>2
      <4> QED BY <3>1, <3>3, <4>1, <4>2
    <3> QED BY <3>3 DEF QueueCame
  <2> QED BY <1>7, <2>1, <2>2
<1>14. ASSUME NEW t \in Times
       PROVE  Balanced(heap, Referred, retchan', v, dropped', replaced, t)
  <2> DEFINE one == IF t = T THEN 1 ELSE 0
             n == CountedIn(heap, Referred, t)
             m == Cardinality(Places(retchan, t))
  <2>1. n + m + dropped[t] <= verdicts[t]
        /\ (t \notin replaced /\ Alone(verdicts, t) => n + m + dropped[t] = verdicts[t])
    BY DEF CountInv, Balanced
  <2>2. n \in Nat /\ m \in Nat /\ one \in Nat
    BY <1>12, Entries, PlacesFinite
  <2>3. v[t] = verdicts[t] + one /\ verdicts[t] \in Nat /\ dropped[t] \in Nat
    BY <1>8, <1>10
  <2>4. \/ Cardinality(Places(retchan', t)) = m + one /\ dropped'[t] = dropped[t]
        \/ Cardinality(Places(retchan', t)) = m /\ dropped'[t] = dropped[t] + one
    <3>1. CASE retchan' = Append(retchan, r) /\ dropped' = dropped
      <4>1. Cardinality(Places(retchan', t))
              = m + (IF TimeKey(r.time) = t THEN 1 ELSE 0)
        BY <1>5, <1>12, <3>1, PlacesPut
      <4> QED BY <1>2, <1>5, <3>1, <4>1
    <3>2. CASE retchan' = retchan /\ dropped' = [dropped EXCEPT ![T] = @ + 1]
      <4>1. dropped'[t] = dropped[t] + one
        BY <1>1, <1>4, <2>3, <3>2 DEF TypeInv, HistoryTypes
      <4> QED BY <3>2, <4>1
    <3> QED BY <1>7, <3>1, <3>2
  <2>5. Alone(v, t) => Alone(verdicts, t)  BY <1>11
  <2>6. PICK m2, d2 : m2 = Cardinality(Places(retchan', t)) /\ d2 = dropped'[t]
    OBVIOUS
  <2> HIDE DEF one, m
  <2>7. n + m2 + d2 = (n + m + dropped[t]) + one  BY <2>2, <2>3, <2>4, <2>6
  <2>8. /\ n + m2 + d2 <= v[t]
        /\ t \notin replaced /\ Alone(v, t) => n + m2 + d2 = v[t]
    BY <2>1, <2>2, <2>3, <2>5, <2>7
  <2> QED BY <2>6, <2>8 DEF Balanced
<1> QED BY <1>1, <1>6, <1>10, <1>11, <1>12, <1>13, <1>14 DEF CountInv

\* A verdict goes from the queue into the slot of its time, which forgets
\* those of another time.
LEMMA CountRetCount ==
  ASSUME CountInv, CountRet
  PROVE  CountInv'
<1>1. TypeInv /\ TypeInv' /\ Len(heap') = Len(heap)
  BY CountRetTypes DEF CountInv
<1>2. PICK r \in RetType, e \in 1 .. Len(heap) :
        LET i == SlotIndex(r.time)
        IN  /\ retchan[1] = r /\ e \in Referred /\ i \in Slots
            /\ heap[e] \in DataType
            /\ heap'[e] = [heap[e] EXCEPT !.slots =
                             [@ EXCEPT ![i] = Marked(heap[e].slots[i], r)]]
            /\ \A f \in 1 .. Len(heap) : f # e => heap'[f] = heap[f]
  BY <1>1, CountRetTypes
<1>3. PICK k : k = TimeKey(r.time)  OBVIOUS
<1>4. PICK j \in Slots : j = SlotIndex(r.time)  BY <1>2
<1>5. r.time \in Running /\ r.time \in Nat  BY Bounds DEF RetType
<1>6. k \in Times /\ SlotIndex(k) = j  BY <1>3, <1>4, <1>5, Bounds, TimeKeySlot
<1>7. PICK slot \in SlotType : slot = heap[e].slots[j]
  BY <1>2, <1>4 DEF DataType
<1>8. /\ Marked(slot, r) \in SlotType /\ Marked(slot, r).timekey = k
      /\ Marked(slot, r).sum + Marked(slot, r).refuse
           = (IF slot.timekey = k THEN slot.sum + slot.refuse ELSE 0) + 1
  BY <1>3, MarkedType
<1>9. PICK mark \in SlotType : mark = Marked(slot, r)  BY <1>8
<1>10. /\ heap'[e].slots[j] = mark
       /\ \A i \in Slots : i # j => heap'[e].slots[i] = heap[e].slots[i]
  <2>1. heap'[e].slots = [heap[e].slots EXCEPT ![j] = mark]
    BY <1>2, <1>4, <1>7, <1>9 DEF DataType
  <2>2. heap[e].slots \in [Slots -> SlotType]  BY <1>2 DEF DataType
  <2> QED BY <2>1, <2>2
<1>11. /\ retchan \in Seq(RetType) /\ retchan # <<>> /\ retchan' = Tail(retchan)
       /\ heap \in Seq(DataType) /\ heap' \in Seq(DataType)
       /\ UNCHANGED <<verdicts, dropped, replaced>>
       /\ EntriesOf(heap, Referred) /\ Referred' = Referred
  <2>1. /\ retchan \in Seq(RetType) /\ heap \in Seq(DataType)
        /\ heap' \in Seq(DataType) /\ EntriesOf(heap, Referred)
    BY <1>1, ReferredEntries DEF TypeInv, ChanTypes, DataTypes
  <2>2. /\ retchan # <<>> /\ retchan' = Tail(retchan)
        /\ UNCHANGED <<data, verdicts, dropped, replaced>>
    BY DEF CountRet, history
  <2> QED BY <2>1, <2>2 DEF Referred
<1>12. Came(verdicts, k)
  <2>1. 1 \in 1 .. Len(retchan)  BY <1>11, Taken
  <2> QED BY <1>2, <1>3, <2>1 DEF CountInv, QueueCame
<1>13. SlotsCame(heap', verdicts)
  <2>1. ASSUME NEW f \in 1 .. Len(heap'), NEW i \in Slots
        PROVE  LET s == heap'[f].slots[i]
               IN  \/ s = NoSlot
                   \/ Came(verdicts, s.timekey) /\ SlotIndex(s.timekey) = i
    <3>1. CASE f = e /\ i = j  BY <1>6, <1>8, <1>9, <1>10, <1>12, <3>1
    <3>2. CASE ~(f = e /\ i = j)
      <4>1. heap'[f].slots[i] = heap[f].slots[i]  BY <1>1, <1>2, <1>10, <3>2
      <4> QED BY <1>1, <4>1 DEF CountInv, SlotsCame
    <3> QED BY <3>1, <3>2
  <2> QED BY <2>1 DEF SlotsCame
<1>14. QueueCame(retchan', verdicts)
  BY <1>11, Taken DEF CountInv, QueueCame
<1>15. ASSUME NEW t \in Times
       PROVE  Balanced(heap', Referred, retchan', verdicts, dropped, replaced, t)
  <2>1. PICK n, m, n2, m2, x, y :
          /\ n = CountedIn(heap, Referred, t) /\ n2 = CountedIn(heap', Referred, t)
          /\ m = Cardinality(Places(retchan, t))
          /\ m2 = Cardinality(Places(retchan', t))
          /\ x = Held(heap[e], t) /\ y = Held(heap'[e], t)
    OBVIOUS
  <2>2. n \in Nat /\ m \in Nat /\ n2 \in Nat /\ m2 \in Nat
    <3>1. retchan' \in Seq(RetType)  BY <1>11, Taken
    <3>2. EntriesOf(heap', Referred)  BY <1>1, <1>11 DEF EntriesOf
    <3>3. n \in Nat /\ n2 \in Nat  BY <1>11, <2>1, <3>2, Entries
    <3> QED BY <1>11, <2>1, <3>1, <3>3, PlacesFinite
  <2>3. x \in Nat /\ y \in Nat
    <3>1. heap'[e] \in DataType  BY <1>1, <1>11, ElementOfSeq
    <3> QED BY <1>2, <2>1, <3>1, HeldType
  <2>4. n2 = (n - x) + y  BY <1>1, <1>2, <1>11, <2>1, CountedOne
  <2>5. m2 = m - (IF k = t THEN 1 ELSE 0)
    BY <1>2, <1>3, <1>11, <2>1, PlacesTaken
  <2>6. /\ n + m + dropped[t] <= verdicts[t]
        /\ t \notin replaced /\ Alone(verdicts, t) => n + m + dropped[t] = verdicts[t]
    BY <2>1 DEF CountInv, Balanced
  <2>7. verdicts[t] \in Nat /\ dropped[t] \in Nat
    BY <1>1 DEF TypeInv, HistoryTypes
  <2>8. CASE t = k
    <3>1. x = IF slot.timekey = k THEN slot.sum + slot.refuse ELSE 0
      BY <1>6, <1>7, <2>1, <2>8 DEF Held
    <3>2. y = mark.sum + mark.refuse
      BY <1>6, <1>8, <1>9, <1>10, <2>1, <2>8 DEF Held
    <3>3. y = x + 1  BY <1>8, <1>9, <3>1, <3>2
    <3>4. n2 + m2 = n + m  BY <2>2, <2>3, <2>4, <2>5, <2>8, <3>3
    <3>5. n2 + m2 + dropped[t] = n + m + dropped[t]  BY <2>2, <2>7, <3>4
    <3> QED BY <1>11, <2>1, <2>6, <3>5 DEF Balanced
  <2>9. CASE t # k /\ SlotIndex(t) = j
    <3>1. y = 0  BY <1>8, <1>9, <1>10, <2>1, <2>9 DEF Held
    <3>2. n2 + m2 + dropped[t] <= n + m + dropped[t]
      BY <2>2, <2>3, <2>4, <2>5, <2>7, <2>9, <3>1
    <3>3. ~Alone(verdicts, t)
      BY <1>6, <1>12, <2>9 DEF Alone, Came
    <3>4. n2 + m2 + dropped[t] <= verdicts[t]  BY <2>2, <2>6, <2>7, <3>2
    <3> QED BY <2>1, <3>3, <3>4 DEF Balanced
  <2>10. CASE t # k /\ SlotIndex(t) # j
    <3>1. x = y  BY <1>10, <2>1, <2>10, TimesSlot DEF Held
    <3>2. n2 + m2 + dropped[t] = n + m + dropped[t]
      BY <2>2, <2>3, <2>4, <2>5, <2>7, <2>10, <3>1
    <3> QED BY <2>1, <2>6, <3>2 DEF Balanced
  <2> QED BY <2>8, <2>9, <2>10
<1> QED BY <1>1, <1>11, <1>13, <1>14, <1>15 DEF CountInv

LEMMA CountStep == CountInv /\ [Next]_vars => CountInv'
<1> SUFFICES ASSUME CountInv, [Next]_vars PROVE CountInv'  OBVIOUS
<1>1. TypeInv /\ TypeInv'  BY TypesStep DEF CountInv
<1>2. ASSUME UNCHANGED <<heap, data, retchan, verdicts, dropped, replaced>> PROVE CountInv'
  BY <1>1, <1>2, SlotsAlone
<1>3. ASSUME NEW c \in Callers, NEW k \in Keys, Begin(c, k) PROVE CountInv'
  BY <1>2, <1>3 DEF Begin
<1>4. ASSUME NEW c \in Callers, CallSteps(c) PROVE CountInv'
  <2>1. CASE GetData(c)  BY <1>2, <2>1 DEF GetData, history
  <2>2. CASE Judge(c)
    <3>1. UNCHANGED <<data, retchan, verdicts, dropped, replaced>>  BY <2>2 DEF Judge
    <3>2. CASE UNCHANGED <<heap, call, keywindow, upchan>>  BY <1>2, <3>1, <3>2
    <3>3. ASSUME NEW e, NEW d, NEW t, NEW from, NEW free, NEW pass,
                 Judged(c, e, d, t, from, free, pass)
          PROVE  CountInv'
      <4>1. /\ e \in 1 .. Len(heap) /\ d = heap[e]
            /\ Counted(d, t) \in DataType /\ Counted(d, t).slots = d.slots
            /\ heap' = [heap EXCEPT ![e] = Counted(d, t)]
        BY <3>3, CountedType DEF Judged
      <4>2. /\ Len(heap') = Len(heap) /\ heap'[e] = Counted(d, t)
            /\ \A i \in 1 .. Len(heap) : i # e => heap'[i] = heap[i]
        BY <1>1, <4>1, Changed DEF TypeInv, DataTypes
      <4>3. \A i \in 1 .. Len(heap) : heap'[i].slots = heap[i].slots  BY <4>1, <4>2
      <4> QED BY <1>1, <3>1, <4>2, <4>3, SlotsAlone
    <3> QED BY <1>1, <2>2, <3>2, <3>3, JudgeCases
  <2> QED BY <1>4, <2>1, <2>2, AddDataCount, ReturnCount DEF CallSteps
<1>5. CASE CountRet  BY <1>5, CountRetCount
<1>6. CASE TakeUpload \/ UploadFails \/ AnswerSet \/ Tick \/ UNCHANGED vars
  <2>1. UNCHANGED <<heap, data, retchan, verdicts, dropped, replaced>>
    BY <1>6 DEF TakeUpload, UploadFails, AnswerSet, Tick, vars, history
  <2> QED BY <1>2, <2>1
<1>7. ASSUME NEW a \in Answers, AnswerKey(a) PROVE CountInv'
  BY <1>1, <1>7, AnswerKeyTypes, SlotsAlone DEF AnswerKey, history
<1>8. CASE Refresh
  BY <1>1, <1>8, RefreshTypes, SlotsAlone DEF Refresh, history
<1> QED BY <1>3, <1>4, <1>5, <1>6, <1>7, <1>8 DEF Next

\* Every verdict is counted once in the slot of its time of the entry its key
\* has, waits in flowRetChan, or found it full, however calls, consumeCheckRet
\* and answers interleave: what is known never exceeds what was judged, and falls
\* short of it only when the slot is used for another time, or when AddData
\* replaced an entry that had counted some (task.go, 16-54; api.go, 342-343).
THEOREM DemoVerdictsCounted == Spec => []VerdictsCountedOnce
<1>1. CountInv => VerdictsCountedOnce  BY CountImplied
<1> QED BY <1>1, InitCount, CountStep, PTL DEF Spec
=============================================================================
