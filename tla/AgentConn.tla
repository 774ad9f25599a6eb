----------------------------- MODULE AgentConn -----------------------------
(***************************************************************************)
(* How QuaAgent's reports travel to the quota server: pool.go, and         *)
(* ReadBinary of master.go.                                                *)
(*                                                                         *)
(* Each report has a goroutine, TCPSend: it takes a connection of the      *)
(* pool, or dials one, writes the report and reads one answer; when that   *)
(* fails it tries once more over a new connection.  Ping reads each idle   *)
(* connection until its deadline to find those the server has closed.      *)
(*                                                                         *)
(* A goroutine's step goes from one call that may block (a dial, a read)   *)
(* to the next.  A deadline is kept as the time that is left.  The bytes   *)
(* of a connection are whole answers, or the two parts of one that does    *)
(* not arrive at once: ReadBinary takes what one Read gives for the        *)
(* header, and what the next gives for the body.                           *)
(***************************************************************************)
EXTENDS Integers, Sequences, FiniteSets

CONSTANTS
  Reports,   \* the reports; each is sent by a goroutine of its own
  Conns,     \* names of connections, used again after they are closed
  MaxOpen,   \* capacity of the pool (maxOpen)
  ReadTime,  \* the read deadline (30 seconds)
  Nobody,    \* Ping reads no connection
  Garbage    \* an answer that is not one of the server's

ASSUME ConnAssumption ==
  /\ MaxOpen \in Nat \ {0} /\ ReadTime \in Nat \ {0}
  /\ Nobody \notin Conns /\ Garbage \notin Reports

VARIABLES
  conns,    \* the connections
  pool,     \* GenericPool.pool
  send,     \* TCPSend of each report: where it is, and its connection
  ping,     \* Ping: the connection it reads, and those of the round to come
  rspchan,  \* what TCPSend offered to resChan, by report
  told      \* the outcomes TCPSend told the breaker, by report

vars == <<conns, pool, send, ping, rspchan, told>>

\* A mistake: a dialled connection has no deadline.
DeadlineNever == -1
\* The deadline that factory sets.
Deadline == ReadTime

\* owed: answers the server has to give; in: bytes that have arrived; astray:
\* history, a part of an answer was read.
Closed == [open |-> FALSE, up |-> FALSE, left |-> 0, owed |-> <<>>, in |-> <<>>,
           astray |-> FALSE]
Dialled == [open |-> TRUE, up |-> TRUE, left |-> Deadline, owed |-> <<>>,
            in |-> <<>>, astray |-> FALSE]
Piece(r, part) == [of |-> r, part |-> part]
Fresh == CHOOSE c \in Conns : ~conns[c].open
SomeClosed == \E c \in Conns : ~conns[c].open
Room == Len(pool) < MaxOpen

\* NewGenericPool: a dial that fails leaves a place free.
Init ==
  /\ \E n \in 0 .. MaxOpen :
       \E p \in [1 .. n -> Conns] :
         /\ \A i, j \in 1 .. n : p[i] = p[j] => i = j
         /\ pool = p
         /\ conns = [c \in Conns |-> IF \E i \in 1 .. n : p[i] = c
                                     THEN Dialled ELSE Closed]
  /\ send = [r \in Reports |-> [at |-> "idle", conn |-> Nobody]]
  /\ ping = [conn |-> Nobody, more |-> 0]
  /\ rspchan = [r \in Reports |-> <<>>]
  /\ told = [r \in Reports |-> <<>>]

-----------------------------------------------------------------------------
\* ReadBinary.

Failed == [failed |-> TRUE]
Got(answer, in, astray) ==
  [failed |-> FALSE, answer |-> answer, in |-> in, astray |-> astray]

\* A mistake: the second test of the error comes first, and a timeout is an
\* answer of no bytes.
OnTimeoutEmpty(c) == Got(Garbage, conns[c].in, conns[c].astray)
OnTimeout(c) == Failed

\* What it may give now.  A deadline that has passed comes before bytes, bytes
\* before the end.  A part of an answer is taken for the whole; after that the
\* next header is somewhere among the bytes and its length takes any of them.
ReadBinary(c) ==
  LET in == conns[c].in
  IN  IF conns[c].left = 0 THEN {OnTimeout(c)}
      ELSE IF in = <<>> THEN IF conns[c].up THEN {} ELSE {Failed}
      ELSE CASE Head(in).part = "whole" ->
                  {Got(Head(in).of, Tail(in), conns[c].astray)}
             [] Head(in).part = "first" -> {Got(Garbage, Tail(in), TRUE)}
             [] OTHER -> {Got(Garbage, SubSeq(in, n, Len(in)), TRUE) :
                            n \in 1 .. Len(in) + 1}

-----------------------------------------------------------------------------
\* TCPSend.

\* conn.Write: a server that closed the connection does not get it, which the
\* read finds out.
Write(c, r, try) ==
  /\ conns' = [conns EXCEPT ![c].owed = IF conns[c].up
                                        THEN Append(@, Piece(r, "whole")) ELSE @]
  /\ send' = [send EXCEPT ![r] = [at |-> try, conn |-> c]]

Goto(r, at) == send' = [send EXCEPT ![r] = [at |-> at, conn |-> Nobody]]
Tell(r, outcome) == told' = [told EXCEPT ![r] = Append(@, outcome)]
Shut(c) == conns' = [conns EXCEPT ![c] = Closed]

\* CheckQosFromCh says no.
Refused(r) ==
  /\ send[r].at = "idle"
  /\ Goto(r, "refused")
  /\ UNCHANGED <<conns, pool, ping, rspchan, told>>

\* Acquire takes a connection of the pool as it is, its deadline too.
Acquire(r) ==
  /\ send[r].at = "idle"
  /\ pool # <<>>
  /\ Write(Head(pool), r, "try")
  /\ pool' = Tail(pool)
  /\ UNCHANGED <<ping, rspchan, told>>

AcquireNew(r) ==
  /\ send[r].at = "idle"
  /\ pool = <<>>
  /\ Goto(r, "dial")
  /\ UNCHANGED <<conns, pool, ping, rspchan, told>>

\* factory, before the first try or the second.
Dial(r, at, try) ==
  /\ send[r].at = at
  /\ SomeClosed
  /\ conns' = [conns EXCEPT ![Fresh] = [Dialled EXCEPT !.owed = <<Piece(r, "whole")>>]]
  /\ send' = [send EXCEPT ![r] = [at |-> try, conn |-> Fresh]]
  /\ UNCHANGED <<pool, ping, rspchan, told>>

\* The breaker is not told that Acquire failed.
DialFails(r) ==
  /\ send[r].at = "dial"
  /\ Goto(r, "undialled")
  /\ UNCHANGED <<conns, pool, ping, rspchan, told>>

\* A mistake: the breaker is not told either.
RedialFailsUntold(r) ==
  /\ send[r].at = "redial"
  /\ Goto(r, "done")
  /\ UNCHANGED <<conns, pool, ping, rspchan, told>>

RedialFails(r) ==
  /\ send[r].at = "redial"
  /\ Goto(r, "done")
  /\ Tell(r, "failure")
  /\ UNCHANGED <<conns, pool, ping, rspchan>>

\* The connection is closed: to be dialled anew after the first try, and by
\* Close after the second, which dials another for the pool.
ReadFails(r, try, next) ==
  /\ send[r].at = try
  /\ Failed \in ReadBinary(send[r].conn)
  /\ Shut(send[r].conn)
  /\ Goto(r, next)
  /\ UNCHANGED <<pool, ping, rspchan, told>>

Replace(r) ==
  /\ send[r].at = "replace"
  /\ \/ UNCHANGED <<conns, pool>>   \* the server is down, or the pool is full
     \/ /\ SomeClosed /\ Room
        /\ conns' = [conns EXCEPT ![Fresh] = Dialled]
        /\ pool' = Append(pool, Fresh)
  /\ Goto(r, "done")
  /\ Tell(r, "failure")
  /\ UNCHANGED <<ping, rspchan>>

\* A mistake: one there is no room for is forgotten, not closed.
ReleasedOpen(c, o) ==
  [conns[c] EXCEPT !.left = ReadTime, !.in = o.in, !.astray = o.astray]
\* SetReadDeadline and Release.
Released(c, o) ==
  IF Room THEN [conns[c] EXCEPT !.left = ReadTime, !.in = o.in,
                                !.astray = o.astray]
  ELSE Closed

\* The connection goes back; the breaker and then resChan are told.
ReadGives(r, try) ==
  LET c == send[r].conn
  IN  /\ send[r].at = try
      /\ \E o \in ReadBinary(c) \ {Failed} :
           /\ conns' = [conns EXCEPT ![c] = Released(c, o)]
           /\ rspchan' = [rspchan EXCEPT ![r] =
                Append(@, [answer |-> o.answer, astray |-> conns[c].astray])]
      /\ pool' = IF Room THEN Append(pool, c) ELSE pool
      /\ Goto(r, "done")
      /\ Tell(r, "success")
      /\ UNCHANGED ping

-----------------------------------------------------------------------------
\* Ping.

\* Every 20 seconds: as many connections as the pool has now.
PingStart ==
  /\ ping.conn = Nobody /\ ping.more = 0
  /\ ping' = [ping EXCEPT !.more = Len(pool)]
  /\ UNCHANGED <<conns, pool, send, rspchan, told>>

PingTakes ==
  /\ ping.conn = Nobody /\ ping.more > 0
  /\ IF pool = <<>>
     THEN /\ ping' = [ping EXCEPT !.more = 0]
          /\ UNCHANGED pool
     ELSE /\ ping' = [conn |-> Head(pool), more |-> ping.more - 1]
          /\ pool' = Tail(pool)
  /\ UNCHANGED <<conns, send, rspchan, told>>

\* The server has closed it, or reset it.
Ends(c) == conns[c].left > 0 /\ conns[c].in = <<>> /\ ~conns[c].up

\* A mistake: what was closed goes back, too.
PingEOFKept ==
  /\ ping.conn # Nobody
  /\ Ends(ping.conn)
  /\ Shut(ping.conn)
  /\ pool' = IF Room THEN Append(pool, ping.conn) ELSE pool
  /\ ping' = [ping EXCEPT !.conn = Nobody]
  /\ UNCHANGED <<send, rspchan, told>>

\* io.EOF closes the connection, a reset does not.
PingEOF ==
  /\ ping.conn # Nobody
  /\ Ends(ping.conn)
  /\ Shut(ping.conn)
  /\ ping' = [ping EXCEPT !.conn = Nobody]
  /\ UNCHANGED <<pool, send, rspchan, told>>

\* Ten bytes of an answer may leave a rest.
TenBytes(in) == {Tail(in), <<Piece(Head(in).of, "rest")>> \o Tail(in)}

\* Otherwise it goes back, or is forgotten when the pool has filled meanwhile.
PingKeeps ==
  LET c == ping.conn
  IN  /\ c # Nobody
      /\ IF conns[c].left = 0 \/ Ends(c)
         THEN conns' = [conns EXCEPT ![c].left = ReadTime]
         ELSE /\ conns[c].in # <<>>
              /\ \E in \in TenBytes(conns[c].in) :
                   conns' = [conns EXCEPT ![c].left = ReadTime, ![c].in = in,
                                          ![c].astray = TRUE]
      /\ pool' = IF Room THEN Append(pool, c) ELSE pool
      /\ ping' = [ping EXCEPT !.conn = Nobody]
      /\ UNCHANGED <<send, rspchan, told>>

-----------------------------------------------------------------------------
\* The server, the network and the runtime.

\* The server answers in the order of the reports; the answer arrives whole or
\* its first part before the rest.
Arrives(c) ==
  LET a == Head(conns[c].owed)
      in == conns[c].in
      begun == a.part = "rest" /\ in # <<>> /\ in[Len(in)] = Piece(a.of, "first")
  IN  /\ conns[c].open /\ conns[c].owed # <<>>
      /\ \/ conns' = [conns EXCEPT
              ![c].owed = Tail(@),
              ![c].in = IF begun THEN [@ EXCEPT ![Len(in)].part = "whole"]
                        ELSE Append(@, a)]
         \/ /\ a.part = "whole"
            /\ conns' = [conns EXCEPT
                 ![c].owed = [@ EXCEPT ![1].part = "rest"],
                 ![c].in = Append(@, Piece(a.of, "first"))]
      /\ UNCHANGED <<pool, send, ping, rspchan, told>>

\* The server closes the connection, or goes down.
Down(c) ==
  /\ conns[c].open /\ conns[c].up
  /\ conns' = [conns EXCEPT ![c].up = FALSE, ![c].owed = <<>>]
  /\ UNCHANGED <<pool, send, ping, rspchan, told>>

Pooled == {pool[i] : i \in DOMAIN pool}
Sending == {send[r].conn : r \in Reports} \ {Nobody}
Owned == Pooled \cup Sending \cup ({ping.conn} \ {Nobody})

\* Go's garbage collector closes a connection nobody has a reference to.
Collect(c) ==
  /\ conns[c].open /\ c \notin Owned
  /\ Shut(c)
  /\ UNCHANGED <<pool, send, ping, rspchan, told>>

Tick ==
  /\ \E c \in Conns : conns[c].left > 0
  /\ conns' = [c \in Conns |-> [conns[c] EXCEPT !.left = IF @ > 0 THEN @ - 1 ELSE @]]
  /\ UNCHANGED <<pool, send, ping, rspchan, told>>

Dials(r) == \/ Dial(r, "dial", "try") \/ DialFails(r)
            \/ Dial(r, "redial", "retry") \/ RedialFails(r)
            \/ Replace(r)
Reads(r) == \/ ReadFails(r, "try", "redial") \/ ReadGives(r, "try")
            \/ ReadFails(r, "retry", "replace") \/ ReadGives(r, "retry")

Next ==
  \/ \E r \in Reports :
       Refused(r) \/ Acquire(r) \/ AcquireNew(r) \/ Dials(r) \/ Reads(r)
  \/ PingStart \/ PingTakes \/ PingEOF \/ PingKeeps
  \/ \E c \in Conns : Arrives(c) \/ Down(c) \/ Collect(c)
  \/ Tick

\* A goroutine whose call has returned runs, a dial takes at most three
\* seconds, time passes.  The server owes nothing.
Spec == Init /\ [][Next]_vars
FairSpec ==
  /\ Spec
  /\ WF_vars(Tick)
  /\ WF_vars(PingTakes) /\ WF_vars(PingEOF \/ PingKeeps)
  /\ \A r \in Reports : WF_vars(Dials(r)) /\ WF_vars(Reads(r))

-----------------------------------------------------------------------------
\* Properties.

PieceType == [of : Reports, part : {"whole", "first", "rest"}]
Ended == {"refused", "undialled", "done"}
TypeOK ==
  /\ conns \in [Conns -> [open : BOOLEAN, up : BOOLEAN, left : 0 .. ReadTime,
                          owed : Seq(PieceType), in : Seq(PieceType),
                          astray : BOOLEAN]]
  /\ pool \in Seq(Conns) /\ Len(pool) <= MaxOpen
  /\ send \in [Reports ->
       [at : {"idle", "dial", "try", "redial", "retry", "replace"} \cup Ended,
        conn : Conns \cup {Nobody}]]
  /\ ping \in [conn : Conns \cup {Nobody}, more : 0 .. MaxOpen]
  /\ rspchan \in [Reports -> Seq([answer : Reports \cup {Garbage},
                                  astray : BOOLEAN])]
  /\ told \in [Reports -> Seq({"success", "failure"})]

\* A connection is in the pool once, or with one TCPSend, or with Ping, and
\* then it is open: a closed one is never used, none is used by two (pool.go
\* 58-128, 164-234).
OneOwner ==
  /\ \A i, j \in DOMAIN pool : pool[i] = pool[j] => i = j
  /\ \A r, s \in Reports : send[r].conn = send[s].conn /\ r # s
                             => send[r].conn = Nobody
  /\ ping.conn \notin Pooled \cup Sending
  /\ Pooled \cap Sending = {}
  /\ \A c \in Owned : conns[c].open

\* TCPSend offers the answer of its own report: no answer under way is left on
\* a connection another report will use.  Only after a part of an answer was
\* read for a whole is that so (pool.go 102-126, master.go 88-131).
AnswersOfReport ==
  \A r \in Reports : \A i \in DOMAIN rspchan[r] :
    rspchan[r][i].astray \/ rspchan[r][i].answer \in {r, Garbage}

\* The breaker is told one outcome of a report it let through, a success when
\* an answer was offered; of one that found no connection it is told nothing
\* (pool.go 94-127).
OutcomeTold ==
  \A r \in Reports :
    /\ send[r].at = "done" <=> Len(told[r]) = 1
    /\ Len(told[r]) <= 1
    /\ \A i \in DOMAIN told[r] : told[r][i] = "success" <=> rspchan[r] # <<>>

\* A connection that is given up is closed; only Ping forgets one, when the
\* pool has filled up while it read (pool.go 64-79, 102-121, 206-234).
OnlyPingForgets ==
  [][\A c \in Owned \ {ping.conn} : c \notin Owned' => ~conns'[c].open]_vars

\* A report ends, answered or not, and so does Ping's read, though the server
\* may be silent: no connection is read without a deadline (pool.go 43, 73,
\* 119).
SendsEnd ==
  /\ \A r \in Reports : send[r].at # "idle" ~> send[r].at \in Ended
  /\ ping.conn # Nobody ~> ping.conn = Nobody
=============================================================================
