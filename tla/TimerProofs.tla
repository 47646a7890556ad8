----------------------------- MODULE TimerProofs -----------------------------
(***************************************************************************)
(* Proofs about the timers and about the path their events take.           *)
(*                                                                         *)
(* ScanTimer, the close timer and the probe timer: no entry expires before *)
(* its interval is over, and the close timer closes no connection but the  *)
(* one it was set for, for every number of sessions, every interval and    *)
(* every depth of the FIFOs.                                               *)
(*                                                                         *)
(* RetransmitTimer: a session is given up after exactly MaxRetx timeouts   *)
(* in a row, for every number of sessions, every interval and every        *)
(* MaxRetx, although the scan may leave the table (Skip) and the index     *)
(* then addresses another entry.                                           *)
(*                                                                         *)
(* EventPath: the token accounting of the event engine is exact, and the   *)
(* gate for timer and application events opens only when the path has      *)
(* drained, for every FIFO depth the 8-bit counters can tell apart         *)
(* (CounterModAssumption).                                                 *)
(***************************************************************************)
EXTENDS ScanTimer, RetransmitTimer, EventPath, TLAPS

\* A running entry has been counted down by as much as is missing of its interval.
Counted == \A s \in Session : table[s].active => visits[s] + table[s].time = Interval

\* Where a session's wait can be: in the set FIFO, in the register, in the table or
\* in the FIFO of expired sessions.
In(q, s) == \E i \in 1 .. Len(q) : q[i] = s
Once(q, s) == \A i, j \in 1 .. Len(q) : q[i] = s /\ q[j] = s => i = j
Registered(s) == wait_for_write /\ set_session_id = s
Running(s) == table[s].active = TRUE

\* A session that was never reset in TIME_WAIT is in at most one of them, once, and
\* only while its connection is in TIME_WAIT.
PendingAt(s) ==
  /\ In(set_req, s) \/ Registered(s) \/ Running(s) \/ In(expired, s) => conn[s] = "TIME_WAIT"
  /\ In(set_req, s) => ~Registered(s) /\ ~Running(s) /\ ~In(expired, s)
  /\ Registered(s) => ~Running(s) /\ ~In(expired, s)
  /\ Running(s) => ~In(expired, s)
  /\ Once(set_req, s) /\ Once(expired, s)

Pending == timer = "close" => \A s \in Session : s \notin stale => PendingAt(s)

ScanInv == ScanTypeOK /\ Counted
-----------------------------------------------------------------------------
(* FIFOs.                                                                   *)

\* Reading and writing a FIFO of session ids.
LEMMA WriteFifo ==
  ASSUME NEW q \in Seq(Session), NEW e \in Session
  PROVE  Append(q, e) \in Seq(Session) /\ Len(Append(q, e)) = Len(q) + 1 /\ Len(q) \in Nat
OBVIOUS

LEMMA ReadFifo ==
  ASSUME NEW q \in Seq(Session), q # <<>>
  PROVE  /\ Head(q) \in Session /\ Tail(q) \in Seq(Session)
         /\ Len(Tail(q)) = Len(q) - 1 /\ Len(q) \in Nat
OBVIOUS

\* What is appended to a FIFO is seen: it is neither unchanged nor read, and the
\* element is determined.
LEMMA AppendFacts ==
  ASSUME NEW q \in Seq(Session), NEW e \in Session, NEW f \in Session
  PROVE  /\ Append(q, e) # q
         /\ q # <<>> => Append(q, e) # Tail(q)
         /\ Append(q, e) = Append(q, f) => e = f
<1>1. Len(Append(q, e)) = Len(q) + 1 /\ Len(q) \in Nat
  OBVIOUS
<1>2. q # <<>> => Len(Tail(q)) = Len(q) - 1
  OBVIOUS
<1>3. Append(q, e)[Len(q) + 1] = e /\ Append(q, f)[Len(q) + 1] = f
  OBVIOUS
<1> QED BY <1>1, <1>2, <1>3

\* Which ids a FIFO holds after a write and after a read.
LEMMA InAppend ==
  ASSUME NEW q \in Seq(Session), NEW e \in Session, NEW s \in Session
  PROVE  /\ In(Append(q, e), s) <=> In(q, s) \/ e = s
         /\ Once(q, s) /\ (e = s => ~In(q, s)) => Once(Append(q, e), s)
<1>1. /\ Len(Append(q, e)) = Len(q) + 1 /\ Len(q) \in Nat
      /\ Append(q, e)[Len(q) + 1] = e
      /\ \A i \in 1 .. Len(q) : Append(q, e)[i] = q[i]
  OBVIOUS
<1>2. \A i \in 1 .. Len(q) + 1 : i \in 1 .. Len(q) \/ i = Len(q) + 1
  BY <1>1
<1>3. \A i \in 1 .. Len(q) : i \in 1 .. Len(q) + 1
  BY <1>1
<1>4. Len(q) + 1 \in 1 .. Len(q) + 1
  BY <1>1
<1> QED BY <1>1, <1>2, <1>3, <1>4 DEF In, Once

LEMMA InTail ==
  ASSUME NEW q \in Seq(Session), q # <<>>, NEW s \in Session
  PROVE  /\ In(q, s) <=> Head(q) = s \/ In(Tail(q), s)
         /\ Once(q, s) => Once(Tail(q), s) /\ (Head(q) = s => ~In(Tail(q), s))
<1>1. /\ Len(Tail(q)) = Len(q) - 1 /\ Len(q) \in Nat /\ Len(q) > 0 /\ Head(q) = q[1]
      /\ \A i \in 1 .. Len(q) - 1 : Tail(q)[i] = q[i + 1]
  OBVIOUS
<1>2. \A i \in 1 .. Len(q) : i = 1 \/ (i - 1 \in 1 .. Len(q) - 1 /\ (i - 1) + 1 = i)
  BY <1>1
<1>3. \A i \in 1 .. Len(q) - 1 : i + 1 \in 1 .. Len(q) /\ i + 1 # 1
  BY <1>1
<1>4. 1 \in 1 .. Len(q)
  BY <1>1
<1>5. In(q, s) <=> Head(q) = s \/ In(Tail(q), s)
  <2>1. In(q, s) => Head(q) = s \/ In(Tail(q), s)
    BY <1>1, <1>2 DEF In
  <2>2. Head(q) = s => In(q, s)
    BY <1>1, <1>4 DEF In
  <2>3. In(Tail(q), s) => In(q, s)
    BY <1>1, <1>3 DEF In
  <2> QED BY <2>1, <2>2, <2>3
<1>6. ASSUME Once(q, s) PROVE Once(Tail(q), s)
  <2>1. SUFFICES ASSUME NEW i \in 1 .. Len(q) - 1, NEW j \in 1 .. Len(q) - 1,
                        q[i + 1] = s, q[j + 1] = s
                 PROVE  i = j
    BY <1>1 DEF Once
  <2>2. i + 1 = j + 1
    BY <1>3, <1>6, <2>1 DEF Once
  <2> QED BY <2>2
<1>7. ASSUME Once(q, s), Head(q) = s PROVE ~In(Tail(q), s)
  BY <1>1, <1>3, <1>4, <1>7 DEF In, Once
<1> QED BY <1>5, <1>6, <1>7
-----------------------------------------------------------------------------
(* Types, and the count of visits.                                          *)

ScanEntry == [time : 0 .. Interval, active : BOOLEAN]

LEMMA Consts ==
  /\ NumSessions \in Nat /\ NumSessions > 0 /\ IdMod \in Nat /\ IdMod >= NumSessions
  /\ Interval \in Nat /\ Depth \in Nat
  /\ 0 \in Session
BY SessionsAssumption, ScanSessionAssumption, IntervalAssumption DEF Session

\* The FIFOs' part of ScanTypeOK, one by one.
Fifo(q) == q \in Seq(Session) /\ Len(q) <= Depth

LEMMA FifoTypes ==
  ScanTypeOK => Fifo(set_req) /\ Fifo(clear_req) /\ Fifo(expired)
BY DEF ScanTypeOK, Fifo

LEMMA FifoWrite ==
  ASSUME NEW q, Fifo(q), Room(q), NEW e \in Session
  PROVE  Fifo(Append(q, e))
BY WriteFifo, Consts DEF Fifo, Room

LEMMA FifoRead ==
  ASSUME NEW q, Fifo(q), q # <<>>
  PROVE  Fifo(Tail(q)) /\ Head(q) \in Session
<1>1. q \in Seq(Session) /\ Len(q) <= Depth
  BY DEF Fifo
<1>2. /\ Head(q) \in Session /\ Tail(q) \in Seq(Session)
      /\ Len(Tail(q)) = Len(q) - 1 /\ Len(q) \in Nat
  BY <1>1, ReadFifo
<1>3. Len(Tail(q)) <= Depth
  BY <1>1, <1>2, Consts
<1> QED BY <1>2, <1>3 DEF Fifo

\* The entries that the timer writes.
LEMMA WrittenEntries ==
  /\ Started \in ScanEntry /\ Started.active = TRUE /\ Started.time = Interval
  /\ Stopped \in ScanEntry /\ Stopped.active = FALSE
BY Consts DEF Started, Stopped, ScanEntry

\* A count-down and an expiry of one entry.
LEMMA CountDownStep ==
  ASSUME ScanInv, NEW s \in Session, table[s].active, table[s].time > 0, CountDown(s)
  PROVE  /\ table' \in [Session -> ScanEntry] /\ visits' \in [Session -> Nat] /\ Counted'
         /\ \A r \in Session : table'[r].active = table[r].active
         /\ expired' = expired
<1>1. /\ table \in [Session -> ScanEntry] /\ visits \in [Session -> Nat]
      /\ table' = [table EXCEPT ![s].time = @ - 1]
      /\ visits' = [visits EXCEPT ![s] = @ + 1] /\ expired' = expired
  BY DEF ScanInv, ScanTypeOK, ScanEntry, CountDown
<1> DEFINE e == table[s]
           e1 == [e EXCEPT !.time = @ - 1]
<1>2. e \in ScanEntry /\ e.time \in Nat /\ visits[s] \in Nat /\ Interval \in Nat
  BY <1>1, Consts DEF ScanEntry
<1>3. e1 \in ScanEntry /\ e1.time = e.time - 1 /\ e1.active = e.active
  <2>1. e.time - 1 \in 0 .. Interval
    BY <1>2 DEF ScanEntry
  <2> HIDE DEF e
  <2> QED BY <1>2, <2>1 DEF ScanEntry
<1>4. table' = [table EXCEPT ![s] = e1]
  BY <1>1
<1> HIDE DEF e1
<1>5. /\ table' \in [Session -> ScanEntry] /\ visits' \in [Session -> Nat]
      /\ \A r \in Session : table'[r].active = table[r].active
  BY <1>1, <1>2, <1>3, <1>4
<1>6. visits[s] + e.time = Interval
  BY DEF ScanInv, Counted
<1>7. Counted'
  <2> SUFFICES ASSUME NEW r \in Session, table'[r].active
               PROVE  visits'[r] + table'[r].time = Interval
    BY DEF Counted
  <2>1. CASE r = s
    <3>1. visits'[r] = visits[s] + 1 /\ table'[r].time = e.time - 1
      BY <1>1, <1>3, <1>4, <2>1
    <3> QED BY <1>2, <1>6, <3>1
  <2>2. CASE r # s
    <3>1. visits'[r] = visits[r] /\ table'[r] = table[r]
      BY <1>1, <1>4, <2>2
    <3> QED BY <3>1 DEF ScanInv, Counted
  <2> QED BY <2>1, <2>2
<1> QED BY <1>1, <1>5, <1>7

LEMMA ExpireStep ==
  ASSUME ScanInv, NEW s \in Session, Expire(s), Room(expired)
  PROVE  /\ table' \in [Session -> ScanEntry] /\ visits' = visits /\ Counted'
         /\ table'[s].active = FALSE
         /\ \A r \in Session : r # s => table'[r].active = table[r].active
         /\ expired' = Append(expired, s) /\ Fifo(expired')
<1>1. /\ table \in [Session -> ScanEntry] /\ table' = [table EXCEPT ![s] = Stopped]
      /\ visits' = visits /\ expired' = Append(expired, s)
  BY DEF ScanInv, ScanTypeOK, ScanEntry, Expire, AfterExpiry
<1>2. /\ table' \in [Session -> ScanEntry] /\ table'[s].active = FALSE
      /\ \A r \in Session : r # s => table'[r] = table[r]
  BY <1>1, WrittenEntries
<1>3. Counted'
  BY <1>1, <1>2 DEF ScanInv, Counted
<1>4. Fifo(expired')
  BY <1>1, FifoTypes, FifoWrite DEF ScanInv
<1> QED BY <1>1, <1>2, <1>3, <1>4

\* A visit of either timer: the entry is left alone, counted down or reported.
LEMMA CheckStep ==
  ASSUME ScanInv, NEW s \in Session, NEW clear \in BOOLEAN, CheckClose(s) \/ CheckProbe(s, clear)
  PROVE  \/ Pass
         \/ table[s].active /\ table[s].time > 0 /\ CountDown(s)
         \/ table[s].active /\ (table[s].time = 0 \/ clear) /\ Room(expired) /\ Expire(s)
<1>1. table[s].time \in 0 .. Interval
  BY DEF ScanInv, ScanTypeOK
<1>2. table[s].time = 0 \/ table[s].time > 0
  BY <1>1, Consts
<1> QED BY <1>2 DEF CheckClose, CheckProbe

LEMMA CheckTypes ==
  ASSUME ScanInv, NEW s \in Session, NEW clear \in BOOLEAN, CheckClose(s) \/ CheckProbe(s, clear)
  PROVE  /\ table' \in [Session -> ScanEntry] /\ visits' \in [Session -> Nat] /\ Counted'
         /\ Fifo(expired')
<1>1. table \in [Session -> ScanEntry] /\ visits \in [Session -> Nat] /\ Fifo(expired) /\ Counted
  BY FifoTypes DEF ScanInv, ScanTypeOK, ScanEntry
<1>2. CASE Pass
  BY <1>1, <1>2 DEF Pass, Counted
<1>3. CASE table[s].active /\ table[s].time > 0 /\ CountDown(s)
  BY <1>1, <1>3, CountDownStep
<1>4. CASE Room(expired) /\ Expire(s)
  BY <1>1, <1>4, ExpireStep
<1> QED BY <1>2, <1>3, <1>4, CheckStep

LEMMA Initially ==
  ASSUME Init
  PROVE  ScanInv /\ Pending
<1>1. table \in [Session -> ScanEntry] /\ visits \in [Session -> Nat]
  BY WrittenEntries DEF Init
<1>2. Counted
  BY WrittenEntries DEF Init, Counted
<1>3. <<>> \in Seq(Session) /\ Len(<<>>) <= Depth
  BY Consts
<1>4. 0 \in 0 .. IdMod - 1
  BY Consts
<1>5. conn \in [Session -> Conn]
  BY DEF Init, Conn
<1>6. ScanTypeOK
  BY <1>1, <1>3, <1>4, <1>5, Consts DEF Init, ScanTypeOK, ScanEntry
<1>7. Pending
  <2> SUFFICES ASSUME NEW s \in Session PROVE PendingAt(s)
    BY DEF Pending
  <2>1. ~In(set_req, s) /\ ~In(expired, s) /\ Once(set_req, s) /\ Once(expired, s)
    BY DEF Init, In, Once
  <2>2. ~Registered(s) /\ ~Running(s)
    BY WrittenEntries DEF Init, Registered, Running
  <2> QED BY <2>1, <2>2 DEF PendingAt
<1> QED BY <1>2, <1>6, <1>7 DEF ScanInv

LEMMA InvStep ==
  ASSUME ScanInv, [Next]_vars
  PROVE  ScanInv'
<1>0. /\ Fifo(set_req) /\ Fifo(clear_req) /\ Fifo(expired)
      /\ table \in [Session -> ScanEntry] /\ visits \in [Session -> Nat] /\ Counted
      /\ cur_session_id \in Session /\ set_session_id \in Session
      /\ prev_session_id \in 0 .. IdMod - 1 /\ conn \in [Session -> Conn]
      /\ stale \subseteq Session /\ blocked \subseteq Session /\ inputs \in Nat
      /\ timer \in {"close", "probe"} /\ wait_for_write \in BOOLEAN
  BY FifoTypes DEF ScanInv, ScanTypeOK, ScanEntry
<1>p. ASSUME /\ Fifo(set_req') /\ Fifo(clear_req') /\ Fifo(expired')
             /\ table' \in [Session -> ScanEntry] /\ visits' \in [Session -> Nat] /\ Counted'
             /\ cur_session_id' \in Session /\ set_session_id' \in Session
             /\ prev_session_id' \in 0 .. IdMod - 1 /\ conn' \in [Session -> Conn]
             /\ stale' \subseteq Session /\ blocked' \subseteq Session /\ inputs' \in Nat
             /\ timer' \in {"close", "probe"} /\ wait_for_write' \in BOOLEAN
      PROVE  ScanInv'
  BY <1>p DEF ScanInv, ScanTypeOK, Fifo, ScanEntry
<1>u. UNCHANGED regs => Counted'
  BY <1>0 DEF Counted, regs
<1>s. \A s \in Session : s \in 0 .. IdMod - 1
  BY Consts DEF Session
<1>1. CASE WriteEntry
  <2>1. prev_session_id' \in 0 .. IdMod - 1
    <3>1. prev_session_id - 1 \in Int /\ IdMod \in Nat /\ IdMod > 0
      BY <1>0, Consts
    <3>2. (prev_session_id - 1) % IdMod \in 0 .. IdMod - 1
      BY <3>1
    <3> QED BY <1>1, <3>2 DEF WriteEntry, PrevBack
  <2>2. /\ table' \in [Session -> ScanEntry] /\ visits' \in [Session -> Nat] /\ Counted'
        /\ wait_for_write' \in BOOLEAN
    <3>1. CASE UNCHANGED <<table, visits, wait_for_write>>
      BY <1>0, <3>1 DEF Counted
    <3>2. CASE /\ table' = [table EXCEPT ![set_session_id] = Started]
               /\ visits' = [visits EXCEPT ![set_session_id] = 0]
               /\ wait_for_write' = FALSE
      <4>1. table' \in [Session -> ScanEntry] /\ visits' \in [Session -> Nat]
        BY <1>0, <3>2, WrittenEntries
      <4>2. 0 + Interval = Interval
        BY Consts
      <4>3. Counted'
        BY <1>0, <3>2, <4>2, WrittenEntries DEF Counted
      <4> QED BY <3>2, <4>1, <4>3
    <3> QED BY <1>1, <3>1, <3>2 DEF WriteEntry
  <2> QED BY <1>0, <1>1, <1>p, <2>1, <2>2 DEF WriteEntry, users
<1>2. CASE ReadSet
  <2>1. Fifo(set_req') /\ set_session_id' \in Session
    BY <1>0, <1>2, FifoRead DEF ReadSet
  <2>2. Counted'
    BY <1>0, <1>2 DEF ReadSet, Counted
  <2> QED BY <1>0, <1>2, <1>p, <2>1, <2>2 DEF ReadSet, users
<1>3. CASE Clear
  <2>1. Fifo(clear_req') /\ Head(clear_req) \in Session
    BY <1>0, <1>3, FifoRead DEF Clear
  <2>2. CheckProbe(Head(clear_req), TRUE)
    BY <1>3 DEF Clear
  <2>3. /\ table' \in [Session -> ScanEntry] /\ visits' \in [Session -> Nat] /\ Counted'
        /\ Fifo(expired')
    BY <2>1, <2>2, CheckTypes
  <2> QED BY <1>0, <1>3, <1>p, <1>s, <2>1, <2>3 DEF Clear, users
<1>4. CASE Visit
  <2>1. CheckClose(cur_session_id) \/ CheckProbe(cur_session_id, FALSE)
    BY <1>4 DEF Visit
  <2>2. /\ table' \in [Session -> ScanEntry] /\ visits' \in [Session -> Nat] /\ Counted'
        /\ Fifo(expired')
    BY <1>0, <2>1, CheckTypes
  <2>3. cur_session_id' \in Session
    BY <1>0, <1>4, Consts DEF Visit, NextId, Session
  <2> QED BY <1>0, <1>4, <1>p, <1>s, <2>2, <2>3 DEF Visit, users
<1>5. CASE ReleaseState
  <2>1. Fifo(expired') /\ Head(expired) \in Session
    BY <1>0, <1>5, FifoRead DEF ReleaseState
  <2>2. conn' \in [Session -> Conn]
    BY <1>0, <1>5, <2>1 DEF ReleaseState, Conn
  <2> QED BY <1>0, <1>5, <1>p, <1>u, <2>1, <2>2 DEF ReleaseState, regs
<1>6. CASE TryAgain
  <2>1. Fifo(expired') /\ Head(expired) \in Session
    BY <1>0, <1>6, FifoRead DEF TryAgain
  <2>2. Fifo(set_req') /\ blocked' \subseteq Session /\ inputs' \in Nat
    <3>1. CASE blocked' = blocked \ {Head(expired)} /\ UNCHANGED <<set_req, inputs>>
      BY <1>0, <3>1
    <3>2. CASE /\ Input("probe") /\ Room(set_req)
               /\ set_req' = Append(set_req, Head(expired)) /\ UNCHANGED blocked
      BY <1>0, <2>1, <3>2, FifoWrite DEF Input
    <3> QED BY <1>6, <3>1, <3>2 DEF TryAgain
  <2> QED BY <1>0, <1>6, <1>p, <1>u, <2>1, <2>2 DEF TryAgain, regs
<1>7. ASSUME NEW s \in Session, Establish(s) \/ Reset(s) PROVE ScanInv'
  <2>1. conn' \in [Session -> Conn] /\ stale' \subseteq Session /\ inputs' \in Nat
    BY <1>0, <1>7 DEF Establish, Reset, Conn, Input
  <2> QED BY <1>0, <1>7, <1>p, <1>u, <2>1 DEF Establish, Reset, regs
<1>8. ASSUME NEW s \in Session, EnterTimeWait(s) PROVE ScanInv'
  <2>1. conn' \in [Session -> Conn] /\ inputs' \in Nat /\ Fifo(set_req')
    BY <1>0, <1>8, FifoWrite DEF EnterTimeWait, Conn, Input
  <2> QED BY <1>0, <1>8, <1>p, <1>u, <2>1 DEF EnterTimeWait, regs
<1>9. ASSUME NEW s \in Session, SendBlocked(s) \/ NewAck(s) PROVE ScanInv'
  <2>1. inputs' \in Nat /\ Fifo(set_req') /\ Fifo(clear_req') /\ blocked' \subseteq Session
    <3>1. CASE SendBlocked(s)
      BY <1>0, <3>1, FifoWrite DEF SendBlocked, Input
    <3>2. CASE NewAck(s)
      BY <1>0, <3>2, FifoWrite DEF NewAck, Input, users
    <3> QED BY <1>9, <3>1, <3>2
  <2> QED BY <1>0, <1>9, <1>p, <1>u, <2>1 DEF SendBlocked, NewAck, regs, users
<1>10. CASE UNCHANGED vars
  BY <1>0, <1>10, <1>p, <1>u DEF vars, regs, users
<1> QED BY <1>1, <1>2, <1>3, <1>4, <1>5, <1>6, <1>7, <1>8, <1>9, <1>10 DEF Next, Timer
-----------------------------------------------------------------------------
(* The waits of the close timer.                                            *)

LEMMA PendingStep ==
  ASSUME ScanInv, Pending, [Next]_vars
  PROVE  Pending'
<1>0. /\ set_req \in Seq(Session) /\ expired \in Seq(Session)
      /\ table \in [Session -> ScanEntry] /\ conn \in [Session -> Conn]
      /\ cur_session_id \in Session /\ set_session_id \in Session
      /\ wait_for_write \in BOOLEAN
  BY FifoTypes DEF ScanInv, ScanTypeOK, ScanEntry, Fifo
<1>1. SUFFICES ASSUME timer' = "close", NEW s \in Session, s \notin stale'
               PROVE  PendingAt(s)'
  BY DEF Pending
<1>2. timer = "close"
  BY <1>1 DEF Next, Timer, WriteEntry, ReadSet, Clear, Visit, ReleaseState, TryAgain,
     Establish, EnterTimeWait, Reset, SendBlocked, NewAck, vars
<1>3. s \notin stale
  BY <1>1 DEF Next, Timer, WriteEntry, ReadSet, Clear, Visit, ReleaseState, TryAgain,
     Establish, EnterTimeWait, Reset, SendBlocked, NewAck, vars, users
<1>4. PendingAt(s)
  BY <1>1, <1>2, <1>3 DEF Pending
<1>5. CASE WriteEntry
  <2>1. UNCHANGED <<set_session_id, set_req, expired, conn>>
    BY <1>5 DEF WriteEntry, users
  <2>2. CASE UNCHANGED <<table, wait_for_write>>
    BY <1>4, <2>1, <2>2 DEF PendingAt, Registered, Running
  <2>3. CASE table' = [table EXCEPT ![set_session_id] = Started] /\ wait_for_write' = FALSE
    <3>1. Running(s)' <=> Running(s) \/ Registered(s)
      BY <1>0, <1>5, <2>3, WrittenEntries DEF Running, Registered, WriteEntry
    <3>2. ~Registered(s)'
      BY <2>3 DEF Registered
    <3> QED BY <1>4, <2>1, <3>1, <3>2 DEF PendingAt
  <2> QED BY <1>5, <2>2, <2>3 DEF WriteEntry
<1>6. CASE ReadSet
  <2>1. /\ UNCHANGED <<table, expired, conn>> /\ set_req' = Tail(set_req) /\ set_req # <<>>
        /\ wait_for_write' = TRUE /\ set_session_id' = Head(set_req) /\ ~wait_for_write
    BY <1>6 DEF ReadSet, users
  <2>2. /\ Registered(s)' <=> Head(set_req) = s
        /\ ~Registered(s) /\ (Running(s)' <=> Running(s))
    BY <2>1 DEF Registered, Running
  <2>3. /\ In(set_req, s) <=> Head(set_req) = s \/ In(set_req', s)
        /\ Once(set_req, s) => Once(set_req', s) /\ (Head(set_req) = s => ~In(set_req', s))
    BY <1>0, <2>1, InTail
  <2> QED BY <1>4, <2>1, <2>2, <2>3 DEF PendingAt
<1>7. CASE Visit
  <2>1. UNCHANGED <<set_session_id, wait_for_write, set_req, conn>>
        /\ CheckClose(cur_session_id)
    BY <1>2, <1>7 DEF Visit, users
  <2>2. Registered(s)' <=> Registered(s)
    BY <2>1 DEF Registered
  <2>3. CASE Pass
    BY <1>4, <2>1, <2>2, <2>3 DEF PendingAt, Pass, Running
  <2>4. CASE table[cur_session_id].active /\ table[cur_session_id].time > 0
             /\ CountDown(cur_session_id)
    <3>1. expired' = expired /\ (Running(s)' <=> Running(s))
      BY <1>0, <2>4, CountDownStep DEF Running
    <3> QED BY <1>4, <2>1, <2>2, <3>1 DEF PendingAt
  <2>5. CASE table[cur_session_id].active /\ Room(expired) /\ Expire(cur_session_id)
    <3>1. /\ expired' = Append(expired, cur_session_id)
          /\ Running(s)' <=> Running(s) /\ s # cur_session_id
          /\ Running(cur_session_id)
      BY <1>0, <2>5, ExpireStep DEF Running, ScanEntry
    <3>2. /\ In(expired', s) <=> In(expired, s) \/ cur_session_id = s
          /\ Once(expired, s) /\ (cur_session_id = s => ~In(expired, s)) => Once(expired', s)
      BY <1>0, <3>1, InAppend
    <3>3. CASE s = cur_session_id
      BY <1>4, <2>1, <2>2, <3>1, <3>2, <3>3 DEF PendingAt
    <3>4. CASE s # cur_session_id
      BY <1>4, <2>1, <2>2, <3>1, <3>2, <3>4 DEF PendingAt
    <3> QED BY <3>3, <3>4
  <2> QED BY <1>0, <2>1, <2>3, <2>4, <2>5, CheckStep
<1>8. CASE ReleaseState
  <2>1. /\ UNCHANGED <<table, wait_for_write, set_session_id, set_req>>
        /\ expired' = Tail(expired) /\ expired # <<>>
        /\ conn' = [conn EXCEPT ![Head(expired)] = "CLOSED"] /\ Head(expired) \in Session
    BY <1>0, <1>8, ReadFifo DEF ReleaseState, regs
  <2>2. (Registered(s)' <=> Registered(s)) /\ (Running(s)' <=> Running(s))
    BY <2>1 DEF Registered, Running
  <2>3. /\ In(expired, s) <=> Head(expired) = s \/ In(expired', s)
        /\ Once(expired, s) => Once(expired', s) /\ (Head(expired) = s => ~In(expired', s))
    BY <1>0, <2>1, InTail
  <2>4. CASE s = Head(expired)
    BY <1>4, <2>1, <2>2, <2>3, <2>4 DEF PendingAt
  <2>5. CASE s # Head(expired)
    <3>1. conn'[s] = conn[s]
      BY <1>0, <2>1, <2>5
    <3> QED BY <1>4, <2>1, <2>2, <2>3, <2>5, <3>1 DEF PendingAt
  <2> QED BY <2>4, <2>5
<1>9. ASSUME NEW r \in Session, Establish(r) \/ Reset(r) PROVE PendingAt(s)'
  <2>1. /\ UNCHANGED <<table, wait_for_write, set_session_id, set_req, expired>>
        /\ conn'[s] = conn[s] \/ conn[s] # "TIME_WAIT"
    BY <1>0, <1>1, <1>9 DEF Establish, Reset, regs
  <2>2. (Registered(s)' <=> Registered(s)) /\ (Running(s)' <=> Running(s))
    BY <2>1 DEF Registered, Running
  <2> QED BY <1>4, <2>1, <2>2 DEF PendingAt
<1>10. ASSUME NEW r \in Session, EnterTimeWait(r) PROVE PendingAt(s)'
  <2>1. /\ UNCHANGED <<table, wait_for_write, set_session_id, expired>>
        /\ set_req' = Append(set_req, r) /\ conn[r] = "OPEN"
        /\ conn' = [conn EXCEPT ![r] = "TIME_WAIT"]
    BY <1>10 DEF EnterTimeWait, regs
  <2>2. (Registered(s)' <=> Registered(s)) /\ (Running(s)' <=> Running(s))
    BY <2>1 DEF Registered, Running
  <2>3. /\ In(set_req', s) <=> In(set_req, s) \/ r = s
        /\ Once(set_req, s) /\ (r = s => ~In(set_req, s)) => Once(set_req', s)
    BY <1>0, <1>10, <2>1, InAppend
  <2>4. CASE s = r
    <3>1. conn'[s] = "TIME_WAIT" /\ conn[s] = "OPEN"
      BY <1>0, <2>1, <2>4
    <3> QED BY <1>4, <2>1, <2>2, <2>3, <3>1 DEF PendingAt
  <2>5. CASE s # r
    <3>1. conn'[s] = conn[s]
      BY <1>0, <2>1, <2>5
    <3> QED BY <1>4, <2>1, <2>2, <2>3, <2>5, <3>1 DEF PendingAt
  <2> QED BY <2>4, <2>5
<1>11. CASE UNCHANGED vars
  BY <1>4, <1>11 DEF vars, regs, users, PendingAt, Registered, Running
<1>12. ~Clear /\ ~TryAgain /\ \A r \in Session : ~SendBlocked(r) /\ ~NewAck(r)
  BY <1>2 DEF Clear, TryAgain, SendBlocked, NewAck, Input
<1> QED BY <1>5, <1>6, <1>7, <1>8, <1>9, <1>10, <1>11, <1>12 DEF Next, Timer
-----------------------------------------------------------------------------
(* The theorems.                                                            *)

\* A report that no clear request caused is one of a visit to a used-up entry.
LEMMA ReportStep ==
  ASSUME ScanInv, [Next]_vars, NEW s \in Session,
         expired' = Append(expired, s), clear_req' = clear_req
  PROVE  visits[s] >= Interval
<1>1. expired \in Seq(Session) /\ clear_req \in Seq(Session) /\ cur_session_id \in Session
  BY FifoTypes DEF ScanInv, ScanTypeOK, Fifo
<1>2. expired' # expired /\ ~(expired # <<>> /\ expired' = Tail(expired))
  BY <1>1, AppendFacts
<1>3. ~(clear_req # <<>> /\ clear_req' = Tail(clear_req))
  <2>1. clear_req # <<>> => Len(Tail(clear_req)) = Len(clear_req) - 1 /\ Len(clear_req) \in Nat
    BY <1>1, ReadFifo
  <2>2. clear_req # <<>> => Len(Tail(clear_req)) # Len(clear_req)
    BY <2>1
  <2> QED BY <2>2
<1>4. Visit
  BY <1>2, <1>3 DEF Next, Timer, WriteEntry, ReadSet, Clear, ReleaseState, TryAgain,
     Establish, EnterTimeWait, Reset, SendBlocked, NewAck, vars
<1>5. CheckClose(cur_session_id) \/ CheckProbe(cur_session_id, FALSE)
  BY <1>4 DEF Visit
<1>6. /\ table[cur_session_id].active /\ table[cur_session_id].time = 0
      /\ expired' = Append(expired, cur_session_id)
  BY <1>1, <1>2, <1>5, CheckStep DEF Pass, CountDown, Expire
<1>7. cur_session_id = s
  BY <1>1, <1>6, AppendFacts
<1>8. visits[s] + 0 = Interval /\ visits[s] \in Nat
  BY <1>6, <1>7 DEF ScanInv, Counted, ScanTypeOK
<1> QED BY <1>8, Consts

\* The scan and its registers stay inside the table, and no entry of the close or the
\* probe timer expires before its interval is over, whatever the order of sets, clears
\* and visits.
THEOREM ExpiryIsExact == Spec => ExpiryExact
<1>1. Init => ScanInv
  BY Initially
<1>2. ScanInv /\ [Next]_vars => ScanInv'
  BY InvStep
<1>3. ScanInv => ScanTypeOK
  BY DEF ScanInv
<1>4. ScanInv /\ [Next]_vars
        => [\A s \in Session :
              expired' = Append(expired, s) /\ clear_req' = clear_req => visits[s] >= Interval]_vars
  BY ReportStep
<1> QED BY <1>1, <1>2, <1>3, <1>4, PTL DEF Spec, ExpiryExact, ExpiresAfterInterval

\* The close timer's release meets an open connection only under an id whose earlier
\* connection was reset in TIME_WAIT: every other wait ends at the connection that
\* started it.
THEOREM ReleasesOwn == Spec => ReleasesItsOwn
<1>1. Init => ScanInv /\ Pending
  BY Initially
<1>2. ScanInv /\ Pending /\ [Next]_vars => (ScanInv /\ Pending)'
  BY InvStep, PendingStep
<1>3. ScanInv /\ Pending
        => [\A s \in Session :
              ReleaseState /\ s = Head(expired) /\ conn[s] = "OPEN" => s \in stale]_vars
  <2> SUFFICES ASSUME ScanInv, Pending, NEW s \in Session, ReleaseState, s = Head(expired),
                      conn[s] = "OPEN"
               PROVE  s \in stale
    OBVIOUS
  <2>1. timer = "close" /\ expired # <<>> /\ expired \in Seq(Session)
    BY FifoTypes DEF ScanInv, ReleaseState, Fifo
  <2>2. In(expired, s)
    BY <2>1, InTail
  <2> QED BY <2>1, <2>2 DEF Pending, PendingAt
<1> QED BY <1>1, <1>2, <1>3, PTL DEF Spec, ReleasesItsOwn
-----------------------------------------------------------------------------
(* The retransmit timer.                                                    *)

\* The retries counted in an entry are the timeouts of its session in a row.
CountsAgree == \A s \in Session : retrans_timer_table[s].retries = fired[s]

RetransInv == RetransTypeOK /\ CountsAgree
-----------------------------------------------------------------------------
(* FIFOs and indices.                                                       *)

\* What RetransmitTimer assumes of its constants, as numbers.
LEMMA ConstantFacts ==
  /\ NumSessions \in Nat \ {0} /\ Used \subseteq Session /\ NoReq \notin ClearReq
  /\ RetransTime \in [0 .. 4 -> Nat] /\ MaxRetx \in Nat
  /\ Skip \in Nat \ {0} /\ RetransDepth \in Nat \ {0}
BY SessionsAssumption, RetransSessionAssumption, RetransAssumption

\* Reading and writing a FIFO.
LEMMA PutAny ==
  ASSUME NEW S, NEW q \in Seq(S), NEW e \in S
  PROVE  Append(q, e) \in Seq(S)
OBVIOUS

LEMMA TakeAny ==
  ASSUME NEW S, NEW q \in Seq(S), q # <<>>
  PROVE  Head(q) \in S /\ Tail(q) \in Seq(S)
OBVIOUS

\* What is appended to a FIFO is seen: it is neither unchanged nor read, and the
\* element is determined.
LEMMA PutSeen ==
  ASSUME NEW S, NEW q \in Seq(S), NEW e \in S, NEW f \in S
  PROVE  /\ Append(q, e) # q
         /\ q # <<>> => Append(q, e) # Tail(q)
         /\ Append(q, e) = Append(q, f) => e = f
<1>1. Len(Append(q, e)) = Len(q) + 1 /\ Len(q) \in Nat
  OBVIOUS
<1>2. q # <<>> => Len(Tail(q)) = Len(q) - 1
  OBVIOUS
<1>3. Append(q, e)[Len(q) + 1] = e /\ Append(q, f)[Len(q) + 1] = f
  OBVIOUS
<1> QED BY <1>1, <1>2, <1>3

\* The RAM is addressed inside the table, and a session's index addresses its entry.
LEMMA AliasFacts ==
  ASSUME NEW i \in Nat
  PROVE  Alias(i) \in Session /\ (i \in Session => Alias(i) = i)
<1>1. NumSessions \in Nat /\ NumSessions > 0
  BY ConstantFacts
<1>2. i % NumSessions \in 0 .. NumSessions - 1
  BY <1>1
<1>3. i < NumSessions => i % NumSessions = i
  BY <1>1
<1> QED BY <1>1, <1>2, <1>3 DEF Alias, Session
-----------------------------------------------------------------------------
(* Steps of the timer.                                                      *)

\* Every interval that a set chooses is one of the table's.
LEMMA IntervalOfType ==
  ASSUME NEW r \in 0 .. MaxRetx
  PROVE  IntervalOf(r) \in Nat
BY ConstantFacts DEF IntervalOf

\* An entry that is written again is an entry.
LEMMA EntryUpdate ==
  ASSUME NEW e \in Entry, NEW t \in Nat, NEW b \in BOOLEAN, NEW n \in 0 .. MaxRetx
  PROVE  /\ [e EXCEPT !.time = t, !.active = b, !.retries = n] \in Entry
         /\ [e EXCEPT !.time = t, !.active = b, !.retries = n].retries = n
         /\ [e EXCEPT !.active = b, !.retries = n] \in Entry
         /\ [e EXCEPT !.active = b, !.retries = n].retries = n
BY DEF Entry

LEMMA ClearedFacts ==
  ASSUME NEW e \in Entry, NEW stop \in BOOLEAN
  PROVE  Cleared(e, stop) \in Entry /\ Cleared(e, stop).retries = 0
<1>1. RetransTime[0] \in Nat /\ 0 \in 0 .. MaxRetx
  BY ConstantFacts
<1> DEFINE t == IF stop THEN 0 ELSE RetransTime[0]
<1>2. PICK b \in BOOLEAN : b = (~stop /\ e.active)
  OBVIOUS
<1>3. Cleared(e, stop) = [e EXCEPT !.time = t, !.active = b, !.retries = 0]
  BY <1>2 DEF Cleared
<1>4. t \in Nat
  BY <1>1
<1> HIDE DEF t
<1> QED BY <1>1, <1>3, <1>4 DEF Entry

LEMMA ClearWriteStep ==
  ASSUME RetransInv, ClearWrite
  PROVE  RetransInv'
<1> DEFINE s == clear_reg.session_id
           e == retrans_timer_table[s]
<1>1. /\ s \in Session /\ clear_reg.stop \in BOOLEAN /\ clear_reg' = NoReq
      /\ retrans_timer_table \in [Session -> Entry] /\ fired \in [Session -> Nat]
      /\ retrans_timer_table' = [retrans_timer_table EXCEPT ![s] = Cleared(e, clear_reg.stop)]
      /\ fired' = [fired EXCEPT ![s] = 0]
  BY DEF RetransInv, RetransTypeOK, ClearWrite, CanWrite, ClearReq
<1>2. e \in Entry /\ RetransTime[0] \in Nat /\ MaxRetx \in Nat
  BY <1>1, ConstantFacts
<1>3. Cleared(e, clear_reg.stop) \in Entry /\ Cleared(e, clear_reg.stop).retries = 0
  BY <1>1, <1>2, ClearedFacts
<1>4. retrans_timer_table' \in [Session -> Entry] /\ fired' \in [Session -> Nat]
  BY <1>1, <1>3
<1>5. CountsAgree'
  BY <1>1, <1>3 DEF CountsAgree, RetransInv
<1>6. stopped' \subseteq Session
  BY <1>1 DEF ClearWrite, RetransInv, RetransTypeOK
<1> QED BY <1>1, <1>4, <1>5, <1>6 DEF RetransInv, RetransTypeOK, ClearWrite, outs, env

LEMMA SetTimerStep ==
  ASSUME RetransInv, SetTimer
  PROVE  RetransInv'
<1> DEFINE r == Head(set_rtimer)
           s == r.session_id
           e == retrans_timer_table[s]
           e1 == [e EXCEPT !.type = r.type, !.active = TRUE,
                           !.time = IF e.active THEN @ ELSE IntervalOf(e.retries)]
<1>1. r \in SetReq /\ Tail(set_rtimer) \in Seq(SetReq) /\ s \in Session
  <2>1. set_rtimer \in Seq(SetReq) /\ set_rtimer # <<>>
    BY DEF RetransInv, RetransTypeOK, SetTimer
  <2>2. r \in SetReq /\ Tail(set_rtimer) \in Seq(SetReq)
    BY <2>1, TakeAny
  <2> QED BY <2>2 DEF SetReq
<1>2. /\ retrans_timer_table \in [Session -> Entry] /\ e \in Entry
      /\ retrans_timer_table' = [retrans_timer_table EXCEPT ![s] = e1]
  BY <1>1 DEF RetransInv, RetransTypeOK, SetTimer
<1>3. IntervalOf(e.retries) \in Nat
  BY <1>2, IntervalOfType DEF Entry
<1>4. e1 \in Entry /\ e1.retries = e.retries
  BY <1>1, <1>2, <1>3 DEF Entry, SetReq
<1> HIDE DEF e1
<1>5. retrans_timer_table' \in [Session -> Entry]
  BY <1>1, <1>2, <1>4
<1>6. CountsAgree'
  BY <1>1, <1>2, <1>4 DEF CountsAgree, RetransInv, SetTimer
<1>7. rtimer_cur' \in Nat /\ rtimer_prev' \in Nat /\ set_rtimer' \in Seq(SetReq)
      /\ stopped' \subseteq Session
  <2>1. rtimer_cur \in Nat /\ Skip \in Nat /\ s \in Nat
    BY <1>1, ConstantFacts DEF RetransInv, RetransTypeOK, Session
  <2>2. rtimer_cur' = rtimer_cur + Skip \/ rtimer_cur' = rtimer_cur
    BY DEF SetTimer
  <2>3. rtimer_prev' = s /\ set_rtimer' = Tail(set_rtimer) /\ stopped' = stopped \ {s}
    BY DEF SetTimer, SetsLeft
  <2> QED BY <1>1, <2>1, <2>2, <2>3 DEF RetransInv, RetransTypeOK
<1> QED BY <1>5, <1>6, <1>7 DEF RetransInv, RetransTypeOK, SetTimer, outs, env

LEMMA VisitStep ==
  ASSUME RetransInv, RetransVisit
  PROVE  RetransInv'
<1> DEFINE i == rtimer_cur
           a == Alias(i)
           e == retrans_timer_table[a]
<1>1. /\ i \in Nat /\ a \in Session /\ retrans_timer_table \in [Session -> Entry]
      /\ e \in Entry /\ fired \in [Session -> Nat] /\ e.retries = fired[a]
  BY AliasFacts DEF RetransInv, RetransTypeOK, CountsAgree
<1>2. rtimer_cur' \in Nat /\ rtimer_prev' \in Nat
  <2>1. rtimer_cur' = NextRtimerId(i) /\ rtimer_prev' = i
    BY DEF RetransVisit
  <2> QED BY <1>1, <2>1 DEF NextRtimerId
<1>3. MaxRetx \in Nat
  BY ConstantFacts
<1>4. UNCHANGED <<clear_reg, stopped, clear_rtimer, set_rtimer, env>>
  BY DEF RetransVisit
<1>9. strayed' \subseteq Session
  <2>1. strayed \subseteq Session /\ Strays(i, a) \subseteq Session
    BY <1>1 DEF Strays, RetransInv, RetransTypeOK
  <2>2. strayed' = strayed \/ strayed' = strayed \cup Strays(i, a)
    BY DEF RetransVisit
  <2> QED BY <2>1, <2>2
<1>5. CASE UNCHANGED <<retrans_timer_table, fired, outs>>
  BY <1>2, <1>4, <1>5, <1>9 DEF RetransInv, RetransTypeOK, CountsAgree, outs, env
<1>6. CASE /\ e.active /\ e.time > 0
           /\ retrans_timer_table' = [retrans_timer_table EXCEPT ![a].time = @ - 1]
           /\ UNCHANGED <<fired, outs>>
  <2>1. [e EXCEPT !.time = @ - 1] \in Entry /\ [e EXCEPT !.time = @ - 1].retries = e.retries
    BY <1>1, <1>6 DEF Entry
  <2>2. retrans_timer_table' = [retrans_timer_table EXCEPT ![a] = [e EXCEPT !.time = @ - 1]]
    BY <1>6, <1>1
  <2>3. retrans_timer_table' \in [Session -> Entry] /\ CountsAgree'
    BY <1>1, <1>6, <2>1, <2>2 DEF CountsAgree, RetransInv
  <2> QED BY <1>2, <1>4, <1>9, <1>6, <2>3 DEF RetransInv, RetransTypeOK, outs, env
<1>7. CASE /\ RetriesLeft(e)
           /\ retrans_timer_table' =
                [retrans_timer_table EXCEPT ![a].active = FALSE, ![a].retries = @ + 1]
           /\ event_req' = Append(event_req, [session_id |-> i, type |-> e.type,
                                              retrans_cnt |-> e.retries + 1])
           /\ fired' = [fired EXCEPT ![a] = @ + 1]
           /\ UNCHANGED <<release_req, app_notify, open_rsp>>
  <2> DEFINE e1 == [e EXCEPT !.active = FALSE, !.retries = @ + 1]
             ev == [session_id |-> i, type |-> e.type, retrans_cnt |-> e.retries + 1]
  <2>1. e1 \in Entry /\ e1.retries = e.retries + 1 /\ e.retries + 1 \in 1 .. MaxRetx
    BY <1>1, <1>3, <1>7 DEF Entry, RetriesLeft
  <2>2. retrans_timer_table' = [retrans_timer_table EXCEPT ![a] = e1]
    BY <1>7, <1>1
  <2>3. retrans_timer_table' \in [Session -> Entry] /\ fired' \in [Session -> Nat]
    BY <1>1, <1>7, <2>1, <2>2
  <2>4. CountsAgree'
    BY <1>1, <1>7, <2>1, <2>2 DEF CountsAgree, RetransInv
  <2>5. ev \in [session_id : Nat, type : Types, retrans_cnt : 1 .. MaxRetx]
    BY <1>1, <2>1 DEF Entry
  <2>6. event_req' \in Seq([session_id : Nat, type : Types, retrans_cnt : 1 .. MaxRetx])
    BY <1>7, <2>5, TakeAny, PutAny DEF RetransInv, RetransTypeOK
  <2> QED BY <1>2, <1>4, <1>9, <1>7, <2>3, <2>4, <2>6 DEF RetransInv, RetransTypeOK, env
<1>8. CASE /\ retrans_timer_table' =
                [retrans_timer_table EXCEPT ![a].active = FALSE, ![a].retries = 0]
           /\ release_req' = Append(release_req, i)
           /\ \/ open_rsp' = Append(open_rsp, i) /\ UNCHANGED app_notify
              \/ app_notify' = Append(app_notify, i) /\ UNCHANGED open_rsp
           /\ fired' = [fired EXCEPT ![a] = 0]
           /\ UNCHANGED event_req
  <2> DEFINE e1 == [e EXCEPT !.active = FALSE, !.retries = 0]
  <2>1. e1 \in Entry /\ e1.retries = 0
    <3>1. FALSE \in BOOLEAN /\ 0 \in 0 .. MaxRetx /\ 0 \in Nat
      BY <1>3
    <3> QED BY <1>1, <3>1, EntryUpdate, Zenon
  <2>2. retrans_timer_table' = [retrans_timer_table EXCEPT ![a] = e1]
    BY <1>8, <1>1
  <2>3. retrans_timer_table' \in [Session -> Entry] /\ fired' \in [Session -> Nat]
    BY <1>1, <1>8, <2>1, <2>2
  <2>4. CountsAgree'
    BY <1>1, <1>8, <2>1, <2>2 DEF CountsAgree, RetransInv
  <2>5. release_req' \in Seq(Nat) /\ app_notify' \in Seq(Nat) /\ open_rsp' \in Seq(Nat)
    <3>1. release_req \in Seq(Nat) /\ app_notify \in Seq(Nat) /\ open_rsp \in Seq(Nat)
      BY DEF RetransInv, RetransTypeOK
    <3>2. /\ Append(release_req, i) \in Seq(Nat) /\ Append(app_notify, i) \in Seq(Nat)
          /\ Append(open_rsp, i) \in Seq(Nat)
      BY <1>1, <3>1, PutAny
    <3> QED BY <1>8, <3>1, <3>2
  <2> QED BY <1>2, <1>4, <1>9, <1>8, <2>3, <2>4, <2>5 DEF RetransInv, RetransTypeOK, env
<1> QED BY <1>5, <1>6, <1>7, <1>8 DEF RetransVisit
-----------------------------------------------------------------------------
(* The theorem.                                                             *)

LEMMA RetransInitially ==
  ASSUME RetransInit
  PROVE  RetransInv
<1> DEFINE e == [time |-> 0, retries |-> 0, active |-> FALSE, type |-> "RT"]
<1>1. e \in Entry /\ e.retries = 0
  BY ConstantFacts DEF Entry, Types
<1>2. retrans_timer_table \in [Session -> Entry] /\ fired \in [Session -> Nat] /\ CountsAgree
  BY <1>1 DEF RetransInit, CountsAgree
<1> QED BY <1>2 DEF RetransInit, RetransInv, RetransTypeOK

LEMMA RetransInvStep ==
  ASSUME RetransInv, [RetransNext]_rt_vars
  PROVE  RetransInv'
<1>1. CASE ClearWrite
  BY <1>1, ClearWriteStep
<1>2. CASE ClearRead
  <2>1. clear_reg' \in ClearReq /\ clear_rtimer' \in Seq(ClearReq)
    BY <1>2, TakeAny, PutAny DEF ClearRead, RetransInv, RetransTypeOK
  <2> QED BY <1>2, <2>1 DEF ClearRead, RetransInv, RetransTypeOK, CountsAgree, outs, env
<1>3. CASE SetTimer
  BY <1>3, SetTimerStep
<1>4. CASE RetransVisit
  BY <1>4, VisitStep
<1>5. CASE Retransmit
  <2> DEFINE ev == Head(event_req)
             EventReq == [session_id : Nat, type : Types, retrans_cnt : 1 .. MaxRetx]
  <2>1. ev \in EventReq /\ event_req' \in Seq(EventReq)
    <3>1. event_req \in Seq(EventReq) /\ event_req # <<>> /\ event_req' = Tail(event_req)
      BY <1>5 DEF Retransmit, RetransInv, RetransTypeOK
    <3> HIDE DEF EventReq
    <3> QED BY <3>1, TakeAny
  <2>2. CASE UNCHANGED set_rtimer
    BY <1>5, <2>1, <2>2 DEF Retransmit, RetransInv, RetransTypeOK, CountsAgree, rt_regs, env
  <2>3. CASE /\ ev.session_id \in Session
             /\ set_rtimer' = Append(set_rtimer, [session_id |-> ev.session_id, type |-> ev.type])
    <3>1. [session_id |-> ev.session_id, type |-> ev.type] \in SetReq
      BY <2>1, <2>3 DEF SetReq
    <3>2. set_rtimer' \in Seq(SetReq)
      BY <3>1, <2>3, TakeAny, PutAny DEF RetransInv, RetransTypeOK
    <3> QED BY <1>5, <2>1, <3>2 DEF Retransmit, RetransInv, RetransTypeOK, CountsAgree, rt_regs, env
  <2> QED BY <1>5, <2>2, <2>3 DEF Retransmit
<1>6. CASE WriteClear
  <2>1. clear_rtimer' \in Seq(ClearReq)
    BY <1>6, TakeAny, PutAny DEF WriteClear, RetransInv, RetransTypeOK
  <2> QED BY <1>6, <2>1 DEF WriteClear, RetransInv, RetransTypeOK, CountsAgree, rt_regs, outs
<1>7. CASE RetransRelease
  <2>1. release_req' \in Seq(Nat)
    BY <1>7, TakeAny, PutAny DEF RetransRelease, RetransInv, RetransTypeOK
  <2> QED BY <1>7, <2>1 DEF RetransRelease, RetransInv, RetransTypeOK, CountsAgree, rt_regs
<1>8. CASE TakeNotify
  <2>1. app_notify' \in Seq(Nat) /\ open_rsp' \in Seq(Nat)
    BY <1>8, TakeAny, PutAny DEF TakeNotify, RetransInv, RetransTypeOK
  <2> QED BY <1>8, <2>1 DEF TakeNotify, RetransInv, RetransTypeOK, CountsAgree, rt_regs, env
<1>9. CASE \E s \in Used : SendSyn(s) \/ SendData(s)
  <2>1. PICK s \in Used : SendSyn(s) \/ SendData(s)
    BY <1>9
  <2>2. PICK t \in Types : set_rtimer' = Append(set_rtimer, [session_id |-> s, type |-> t])
    BY <2>1 DEF SendSyn, SendData, Types
  <2>3. s \in Session
    BY ConstantFacts
  <2>4. [session_id |-> s, type |-> t] \in SetReq
    BY <2>3 DEF SetReq
  <2>5. set_rtimer' \in Seq(SetReq)
    BY <2>2, <2>4, TakeAny, PutAny DEF RetransInv, RetransTypeOK
  <2> QED BY <2>1, <2>3, <2>5, SMTT(30)
          DEF SendSyn, SendData, RetransInv, RetransTypeOK, CountsAgree, rt_regs, outs
<1>10. CASE \E s \in Used : \E all \in BOOLEAN : TakeAck(s, all)
  <2>1. PICK s \in Used, all \in BOOLEAN : TakeAck(s, all)
    BY <1>10
  <2>2. rx_ack' \in ClearReq
    BY <2>1, ConstantFacts DEF TakeAck, ClearReq
  <2> QED BY <2>1, <2>2 DEF TakeAck, RetransInv, RetransTypeOK, CountsAgree, rt_regs, outs
<1>11. CASE UNCHANGED rt_vars
  BY <1>11 DEF rt_vars, RetransInv, RetransTypeOK, CountsAgree, rt_regs, outs, env
<1> QED BY <1>1, <1>2, <1>3, <1>4, <1>5, <1>6, <1>7, <1>8, <1>9, <1>10, <1>11
       DEF RetransNext, RetransTimer

\* Only a visit that finds no retries left writes a release request.
LEMMA ReleaseStep ==
  ASSUME RetransInv, [RetransNext]_rt_vars, NEW s \in Session, release_req' = Append(release_req, s)
  PROVE  fired[s] = MaxRetx
<1>1. release_req \in Seq(Nat) /\ s \in Nat
  BY ConstantFacts DEF RetransInv, RetransTypeOK, Session
<1>2. release_req' # release_req
  BY <1>1, PutSeen
<1>3. ~(release_req # <<>> /\ release_req' = Tail(release_req))
  BY <1>1, PutSeen
<1>4. RetransVisit
  BY <1>2, <1>3 DEF RetransNext, RetransTimer, ClearWrite, ClearRead, SetTimer, Retransmit, WriteClear,
     RetransRelease, TakeNotify, SendSyn, SendData, TakeAck, rt_vars, outs
<1>5. /\ release_req' = Append(release_req, rtimer_cur)
      /\ ~RetriesLeft(retrans_timer_table[Alias(rtimer_cur)])
  BY <1>2, <1>4 DEF RetransVisit, outs
<1>6. rtimer_cur \in Nat
  BY DEF RetransInv, RetransTypeOK
<1>7. rtimer_cur = s
  BY <1>1, <1>5, <1>6, PutSeen
<1>8. Alias(rtimer_cur) = s
  BY <1>6, <1>7, AliasFacts
<1>9. retrans_timer_table[s].retries \in 0 .. MaxRetx /\ retrans_timer_table[s].retries = fired[s]
  BY DEF RetransInv, RetransTypeOK, CountsAgree, Entry
<1> QED BY <1>5, <1>8, <1>9, ConstantFacts DEF RetriesLeft

\* retransmit_timer() gives a session up after MaxRetx timeouts in a row and not before, in
\* every behaviour of the timer, the two engines and the state table.
THEOREM RetriesAreExact == RetransSpec => RetriesExact
<1>1. RetransInit => RetransInv
  BY RetransInitially
<1>2. RetransInv /\ [RetransNext]_rt_vars => RetransInv'
  BY RetransInvStep
<1>3. RetransInv => RetransTypeOK
  BY DEF RetransInv
<1>4. RetransInv /\ [RetransNext]_rt_vars
        => [\A s \in Session : release_req' = Append(release_req, s) => fired[s] = MaxRetx]_rt_vars
  BY ReleaseStep
<1> QED BY <1>1, <1>2, <1>3, <1>4, PTL DEF RetransSpec, RetriesExact, AbortedAfterRetries
-----------------------------------------------------------------------------
(* The event path.                                                          *)

\* EventTypeOK and CountersExact are inductive together: with the bounds of the
\* FIFOs no sum in CountersExact reaches twice the modulus of the counters.
EventInv == EventTypeOK /\ CountersExact
-----------------------------------------------------------------------------
(* Counters that wrap.                                                      *)

\* A sum of a counter and a fill level below the modulus wraps at most once.
LEMMA WrapOnce ==
  ASSUME NEW M \in Nat, NEW x \in Nat, x < M + M
  PROVE  x % M = IF x < M THEN x ELSE x - M
OBVIOUS

\* Two such sums have the same residue when they are equal up to one wrap.
LEMMA ResidueArith ==
  ASSUME NEW M \in Nat, NEW x \in Nat, NEW y \in Nat, x < M + M, y < M + M,
         NEW p, p = IF x < M THEN x ELSE x - M,
         NEW q, q = IF y < M THEN y ELSE y - M
  PROVE  p = q <=> (x = y \/ x = y + M \/ y = x + M)
OBVIOUS

LEMMA SameResidue ==
  ASSUME NEW M \in Nat, NEW x \in Nat, NEW y \in Nat, x < M + M, y < M + M
  PROVE  x % M = y % M <=> (x = y \/ x = y + M \/ y = x + M)
<1> DEFINE p == x % M
           q == y % M
<1>1. p = (IF x < M THEN x ELSE x - M) /\ q = (IF y < M THEN y ELSE y - M)
  BY WrapOnce
<1> HIDE DEF p, q
<1>2. p = q <=> (x = y \/ x = y + M \/ y = x + M)
  BY <1>1, ResidueArith
<1> QED BY <1>2 DEF p, q

\* Inc stays in the range of the counters.
LEMMA IncType ==
  ASSUME NEW c \in Counter
  PROVE  Inc(c) \in Counter /\ Inc(c) = IF c + 1 = CounterMod THEN 0 ELSE c + 1
<1>1. CounterMod \in Nat /\ CounterMod > 1
  BY CounterModAssumption, DepthAssumption
<1> DEFINE x == c + 1
<1>2. x \in Nat /\ x < CounterMod + CounterMod /\ x <= CounterMod /\ c \in Nat
  BY <1>1 DEF Counter
<1> HIDE DEF x
<1>3. x % CounterMod = IF x < CounterMod THEN x ELSE x - CounterMod
  BY <1>1, <1>2, WrapOnce
<1>4. Inc(c) = IF x < CounterMod THEN x ELSE x - CounterMod
  BY <1>3 DEF Inc, x
<1> QED BY <1>1, <1>2, <1>4 DEF Counter, x

\* The head of a non-empty FIFO is one of its elements; lengths and types of FIFOs
\* that are read and written.
LEMMA FifoType ==
  ASSUME NEW S, NEW q \in Seq(S), NEW e \in S
  PROVE  /\ Append(q, e) \in Seq(S) /\ Len(Append(q, e)) = Len(q) + 1
         /\ Len(q) \in Nat
         /\ q # <<>> => /\ Head(q) \in S /\ Tail(q) \in Seq(S)
                        /\ Len(Tail(q)) = Len(q) - 1 /\ Len(q) > 0
OBVIOUS

\* Two sums with the same residue, without the modulus.
Near(x, y) == x = y \/ x = y + CounterMod \/ y = x + CounterMod

\* CountersExact without the modulus: the two are the same within the bounds.
Balanced ==
  /\ Near(ack_delay_read_count + read_tokens + Len(delay_ev), write_event_count)
  /\ Near(tx_eng_read_count + tx_tokens + Len(tx_ev), ack_delay_write_count + write_tokens)

\* A sum that wraps keeps its value or drops by the modulus.
Wrapped(new, old) == new = old \/ new = old - CounterMod

\* Two sums that grow by the same amount, each wrapping or not, stay in step.
LEMMA NearKeeps ==
  ASSUME NEW x \in Nat, NEW y \in Nat, NEW x1 \in Nat, NEW y1 \in Nat, NEW d \in Int,
         x1 < CounterMod + CounterMod, y1 < CounterMod + CounterMod,
         Near(x, y), Wrapped(x1, x + d), Wrapped(y1, y + d)
  PROVE  Near(x1, y1)
BY CounterModAssumption DEF Near, Wrapped
-----------------------------------------------------------------------------
(* The actions.                                                             *)

\* One token moves into its counter.
LEMMA CountOne ==
  ASSUME NEW D \in Nat, NEW n \in 0 .. D, NEW c \in Counter, NEW n1, NEW c1,
         IF n > 0 THEN n1 = n - 1 /\ c1 = Inc(c) ELSE n1 = n /\ c1 = c
  PROVE  n1 \in 0 .. D /\ c1 \in Counter /\ Wrapped(c1 + n1, c + n)
<1>1. CounterMod \in Nat
  BY CounterModAssumption
<1>2. CASE n > 0
  <2> DEFINE d == Inc(c)
  <2>1. d \in Counter /\ d = IF c + 1 = CounterMod THEN 0 ELSE c + 1
    BY IncType
  <2>2. n1 = n - 1 /\ c1 = d
    BY <1>2
  <2> HIDE DEF d
  <2> QED BY <1>1, <2>1, <2>2 DEF Counter, Wrapped
<1>3. CASE n = 0
  BY <1>1, <1>3 DEF Counter, Wrapped
<1> QED BY <1>2, <1>3

\* CountTokens moves tokens into the counters and loses none.
LEMMA CountTokensKeeps ==
  ASSUME EventTypeOK, CountTokens
  PROVE  /\ read_tokens' \in 0 .. TokenDepth /\ write_tokens' \in 0 .. TokenDepth
         /\ tx_tokens' \in 0 .. TxTokenDepth
         /\ ack_delay_read_count' \in Counter /\ ack_delay_write_count' \in Counter
         /\ tx_eng_read_count' \in Counter
         /\ Wrapped(ack_delay_read_count' + read_tokens', ack_delay_read_count + read_tokens)
         /\ Wrapped(ack_delay_write_count' + write_tokens', ack_delay_write_count + write_tokens)
         /\ Wrapped(tx_eng_read_count' + tx_tokens', tx_eng_read_count + tx_tokens)
<1>1. /\ TokenDepth \in Nat /\ TxTokenDepth \in Nat
      /\ read_tokens \in 0 .. TokenDepth /\ write_tokens \in 0 .. TokenDepth
      /\ tx_tokens \in 0 .. TxTokenDepth
      /\ ack_delay_read_count \in Counter /\ ack_delay_write_count \in Counter
      /\ tx_eng_read_count \in Counter
  BY DepthAssumption DEF EventTypeOK
<1>2. /\ read_tokens' \in 0 .. TokenDepth /\ ack_delay_read_count' \in Counter
      /\ Wrapped(ack_delay_read_count' + read_tokens', ack_delay_read_count + read_tokens)
  <2>1. IF read_tokens > 0
        THEN read_tokens' = read_tokens - 1 /\ ack_delay_read_count' = Inc(ack_delay_read_count)
        ELSE read_tokens' = read_tokens /\ ack_delay_read_count' = ack_delay_read_count
    BY DEF CountTokens
  <2> QED BY <1>1, <2>1, CountOne
<1>3. /\ write_tokens' \in 0 .. TokenDepth /\ ack_delay_write_count' \in Counter
      /\ Wrapped(ack_delay_write_count' + write_tokens', ack_delay_write_count + write_tokens)
  <2>1. IF write_tokens > 0
        THEN write_tokens' = write_tokens - 1 /\ ack_delay_write_count' = Inc(ack_delay_write_count)
        ELSE write_tokens' = write_tokens /\ ack_delay_write_count' = ack_delay_write_count
    BY DEF CountTokens
  <2> QED BY <1>1, <2>1, CountOne
<1>4. /\ tx_tokens' \in 0 .. TxTokenDepth /\ tx_eng_read_count' \in Counter
      /\ Wrapped(tx_eng_read_count' + tx_tokens', tx_eng_read_count + tx_tokens)
  <2>1. IF tx_tokens > 0
        THEN tx_tokens' = tx_tokens - 1 /\ tx_eng_read_count' = Inc(tx_eng_read_count)
        ELSE tx_tokens' = tx_tokens /\ tx_eng_read_count' = tx_eng_read_count
    BY DEF CountTokens
  <2> QED BY <1>1, <2>1, CountOne
<1> QED BY <1>2, <1>3, <1>4

\* The sums of Balanced are small enough to wrap once only.
LEMMA SmallCount ==
  ASSUME NEW c \in Counter, NEW T \in Nat, NEW t \in 0 .. T, CounterMod > T
  PROVE  /\ c \in Nat /\ c < CounterMod + CounterMod
         /\ c + t \in Nat /\ c + t < CounterMod + CounterMod
BY CounterModAssumption DEF Counter

LEMMA SmallSum ==
  ASSUME NEW c \in Counter, NEW T \in Nat, NEW t \in 0 .. T,
         NEW L \in Nat, NEW q \in Seq(Event), Len(q) <= L, CounterMod > L + T
  PROVE  c + t + Len(q) \in Nat /\ c + t + Len(q) < CounterMod + CounterMod
<1>1. Len(q) \in Nat
  OBVIOUS
<1> QED BY <1>1, CounterModAssumption DEF Counter

LEMMA Small ==
  ASSUME EventTypeOK
  PROVE  /\ ack_delay_read_count + read_tokens + Len(delay_ev) \in Nat
         /\ ack_delay_read_count + read_tokens + Len(delay_ev) < CounterMod + CounterMod
         /\ write_event_count \in Nat /\ write_event_count < CounterMod + CounterMod
         /\ tx_eng_read_count + tx_tokens + Len(tx_ev) \in Nat
         /\ tx_eng_read_count + tx_tokens + Len(tx_ev) < CounterMod + CounterMod
         /\ ack_delay_write_count + write_tokens \in Nat
         /\ ack_delay_write_count + write_tokens < CounterMod + CounterMod
<1>1. /\ CounterMod \in Nat /\ CounterMod > EventDepth + TokenDepth
      /\ CounterMod > TxDepth + TxTokenDepth /\ CounterMod > TokenDepth
      /\ EventDepth \in Nat /\ TokenDepth \in Nat /\ TxDepth \in Nat /\ TxTokenDepth \in Nat
  BY CounterModAssumption, DepthAssumption
<1>2. /\ delay_ev \in Seq(Event) /\ Len(delay_ev) <= EventDepth
      /\ tx_ev \in Seq(Event) /\ Len(tx_ev) <= TxDepth
      /\ read_tokens \in 0 .. TokenDepth /\ write_tokens \in 0 .. TokenDepth
      /\ tx_tokens \in 0 .. TxTokenDepth
      /\ write_event_count \in Counter /\ ack_delay_read_count \in Counter
      /\ ack_delay_write_count \in Counter /\ tx_eng_read_count \in Counter
  BY DEF EventTypeOK
<1> QED BY <1>1, <1>2, SmallSum, SmallCount

LEMMA SmallPrime ==
  ASSUME EventTypeOK'
  PROVE  /\ ack_delay_read_count' + read_tokens' + Len(delay_ev') \in Nat
         /\ ack_delay_read_count' + read_tokens' + Len(delay_ev') < CounterMod + CounterMod
         /\ write_event_count' \in Nat /\ write_event_count' < CounterMod + CounterMod
         /\ tx_eng_read_count' + tx_tokens' + Len(tx_ev') \in Nat
         /\ tx_eng_read_count' + tx_tokens' + Len(tx_ev') < CounterMod + CounterMod
         /\ ack_delay_write_count' + write_tokens' \in Nat
         /\ ack_delay_write_count' + write_tokens' < CounterMod + CounterMod
<1>1. /\ CounterMod \in Nat /\ CounterMod > EventDepth + TokenDepth
      /\ CounterMod > TxDepth + TxTokenDepth /\ CounterMod > TokenDepth
      /\ EventDepth \in Nat /\ TokenDepth \in Nat /\ TxDepth \in Nat /\ TxTokenDepth \in Nat
  BY CounterModAssumption, DepthAssumption
<1>2. /\ delay_ev' \in Seq(Event) /\ Len(delay_ev') <= EventDepth
      /\ tx_ev' \in Seq(Event) /\ Len(tx_ev') <= TxDepth
      /\ read_tokens' \in 0 .. TokenDepth /\ write_tokens' \in 0 .. TokenDepth
      /\ tx_tokens' \in 0 .. TxTokenDepth
      /\ write_event_count' \in Counter /\ ack_delay_read_count' \in Counter
      /\ ack_delay_write_count' \in Counter /\ tx_eng_read_count' \in Counter
  BY DEF EventTypeOK
<1> QED BY <1>1, <1>2, SmallSum, SmallCount

LEMMA ExactIsBalanced ==
  ASSUME EventTypeOK
  PROVE  CountersExact <=> Balanced
<1> DEFINE a == ack_delay_read_count + read_tokens + Len(delay_ev)
           b == tx_eng_read_count + tx_tokens + Len(tx_ev)
           c == ack_delay_write_count + write_tokens
<1>1. CounterMod \in Nat
  BY CounterModAssumption
<1>2. /\ a \in Nat /\ a < CounterMod + CounterMod
      /\ b \in Nat /\ b < CounterMod + CounterMod
      /\ c \in Nat /\ c < CounterMod + CounterMod
      /\ write_event_count \in Nat /\ write_event_count < CounterMod + CounterMod
  BY Small
<1>3. write_event_count % CounterMod = write_event_count
  <2>1. write_event_count \in 0 .. CounterMod - 1
    BY DEF EventTypeOK, Counter
  <2>2. write_event_count < CounterMod
    BY <1>1, <2>1
  <2> QED BY <1>1, <1>2, <2>2, WrapOnce
<1> HIDE DEF a, b, c
<1>4. a % CounterMod = write_event_count % CounterMod <=> Near(a, write_event_count)
  BY <1>1, <1>2, SameResidue DEF Near
<1>5. b % CounterMod = c % CounterMod <=> Near(b, c)
  BY <1>1, <1>2, SameResidue DEF Near
<1>6. Balanced <=> Near(a, write_event_count) /\ Near(b, c)
  BY DEF Balanced, a, b, c
<1>7. CountersExact <=> a % CounterMod = write_event_count /\ b % CounterMod = c % CounterMod
  BY DEF CountersExact, a, b, c
<1> QED BY <1>3, <1>4, <1>5, <1>6, <1>7

\* A step that moves each pair of sums by the same amount keeps them balanced.
LEMMA BalancedKeeps ==
  ASSUME EventTypeOK, EventTypeOK', Balanced, NEW d \in Int, NEW e \in Int,
         Wrapped(ack_delay_read_count' + read_tokens' + Len(delay_ev'),
                 ack_delay_read_count + read_tokens + Len(delay_ev) + d),
         Wrapped(write_event_count', write_event_count + d),
         Wrapped(tx_eng_read_count' + tx_tokens' + Len(tx_ev'),
                 tx_eng_read_count + tx_tokens + Len(tx_ev) + e),
         Wrapped(ack_delay_write_count' + write_tokens',
                 ack_delay_write_count + write_tokens + e)
  PROVE  Balanced'
<1> DEFINE x  == ack_delay_read_count + read_tokens + Len(delay_ev)
           x1 == ack_delay_read_count' + read_tokens' + Len(delay_ev')
           y  == tx_eng_read_count + tx_tokens + Len(tx_ev)
           y1 == tx_eng_read_count' + tx_tokens' + Len(tx_ev')
           z  == ack_delay_write_count + write_tokens
           z1 == ack_delay_write_count' + write_tokens'
<1>1. /\ x \in Nat /\ y \in Nat /\ z \in Nat /\ write_event_count \in Nat
      /\ Near(x, write_event_count) /\ Near(y, z)
  BY Small DEF Balanced
<1>2. /\ x1 \in Nat /\ y1 \in Nat /\ z1 \in Nat /\ write_event_count' \in Nat
      /\ x1 < CounterMod + CounterMod /\ y1 < CounterMod + CounterMod
      /\ z1 < CounterMod + CounterMod /\ write_event_count' < CounterMod + CounterMod
  BY SmallPrime
<1>3. /\ Wrapped(x1, x + d) /\ Wrapped(write_event_count', write_event_count + d)
      /\ Wrapped(y1, y + e) /\ Wrapped(z1, z + e)
  OBVIOUS
<1>4. Balanced' <=> Near(x1, write_event_count') /\ Near(y1, z1)
  BY DEF Balanced, Near
<1> HIDE DEF x, y, z, x1, y1, z1
<1>5. Near(x1, write_event_count') /\ Near(y1, z1)
  BY <1>1, <1>2, <1>3, NearKeeps
<1> QED BY <1>4, <1>5

-----------------------------------------------------------------------------
(* Every step keeps the types.                                              *)

\* A run of event_engine that forwards an event.
LEMMA ForwardType ==
  ASSUME EventTypeOK, NEW ev \in Event, Forward(ev),
         rx_ev' \in Seq(Event), timer_ev' \in Seq(Event), app_ev' \in Seq(Event)
  PROVE  EventTypeOK'
<1>1. /\ delay_ev \in Seq(Event) /\ delay_ev' = Append(delay_ev, ev)
      /\ write_event_count \in Counter /\ Len(delay_ev) < EventDepth
      /\ write_event_count' = Inc(write_event_count)
  BY DEF EventTypeOK, Forward
<1>2. delay_ev' \in Seq(Event) /\ Len(delay_ev') = Len(delay_ev) + 1 /\ Len(delay_ev) \in Nat
  BY <1>1, FifoType
<1>3. Len(delay_ev') <= EventDepth
  BY <1>1, <1>2, DepthAssumption
<1>4. write_event_count' \in Counter
  BY <1>1, IncType
<1>5. CountTokens /\ UNCHANGED <<rx_meta_ev, rx_fsm_ev, tx_ev, delay, tx_fsm, ev_inputs>>
  BY DEF Forward
<1> QED BY <1>2, <1>3, <1>4, <1>5, CountTokensKeeps DEF EventTypeOK, delay

LEMMA TypeStep ==
  ASSUME EventTypeOK, [EventNext]_ev_vars
  PROVE  EventTypeOK'
<1>0. /\ InDepth \in Nat /\ EventDepth \in Nat /\ TxDepth \in Nat /\ TokenDepth \in Nat
      /\ TxTokenDepth \in Nat /\ AckDelay \in Nat \ {0} /\ NumSessions \in Nat \ {0}
  BY DepthAssumption, AckDelayAssumption, SessionsAssumption
<1>q. /\ rx_meta_ev \in Seq(Event) /\ rx_fsm_ev \in Seq(Event) /\ rx_ev \in Seq(Event)
      /\ timer_ev \in Seq(Event) /\ app_ev \in Seq(Event)
      /\ delay_ev \in Seq(Event) /\ tx_ev \in Seq(Event)
      /\ ack_table \in [Session -> 0 .. AckDelay] /\ ack_delay_cur_session_id \in Session
      /\ Len(delay_ev) <= EventDepth /\ Len(tx_ev) <= TxDepth
  BY DEF EventTypeOK
<1>h. \A q \in Seq(Event) : q # <<>> => Head(q) \in Event /\ Tail(q) \in Seq(Event)
  BY FifoType
<1>a. \A q \in Seq(Event), e \in Event : Append(q, e) \in Seq(Event)
  BY FifoType
<1>1. CASE MergeRx
  <2>1. /\ rx_ev' \in Seq(Event) /\ rx_meta_ev' \in Seq(Event) /\ rx_fsm_ev' \in Seq(Event)
    BY <1>1, <1>q, <1>h, <1>a DEF MergeRx
  <2> QED BY <1>1, <2>1 DEF MergeRx, EventTypeOK, tokens, counters, delay
<1>2. CASE ForwardRx
  <2>1. Head(rx_ev) \in Event /\ rx_ev' \in Seq(Event) /\ timer_ev' \in Seq(Event)
        /\ app_ev' \in Seq(Event)
    BY <1>2, <1>q, <1>h DEF ForwardRx
  <2> QED BY <1>2, <2>1, ForwardType DEF ForwardRx
<1>3. CASE ForwardTimer
  <2>1. Head(timer_ev) \in Event /\ rx_ev' \in Seq(Event) /\ timer_ev' \in Seq(Event)
        /\ app_ev' \in Seq(Event)
    BY <1>3, <1>q, <1>h DEF ForwardTimer
  <2> QED BY <1>3, <2>1, ForwardType DEF ForwardTimer
<1>4. CASE ForwardTxApp
  <2>1. Head(app_ev) \in Event /\ rx_ev' \in Seq(Event) /\ timer_ev' \in Seq(Event)
        /\ app_ev' \in Seq(Event)
    BY <1>4, <1>q, <1>h DEF ForwardTxApp
  <2> QED BY <1>4, <2>1, ForwardType DEF ForwardTxApp
<1>5. CASE ForwardNothing
  <2>1. CountTokens /\ UNCHANGED <<in_ev, delay_ev, tx_ev, write_event_count, delay, tx_fsm, ev_inputs>>
    BY <1>5 DEF ForwardNothing
  <2> QED BY <2>1, CountTokensKeeps DEF EventTypeOK, in_ev, delay
<1>6. CASE HoldBack
  <2>1. /\ delay_ev' \in Seq(Event) /\ Len(delay_ev') <= EventDepth
        /\ Head(delay_ev).session_id \in Session
    <3>1. /\ Head(delay_ev) \in Event /\ delay_ev' = Tail(delay_ev)
          /\ Tail(delay_ev) \in Seq(Event) /\ Len(delay_ev) \in Nat
          /\ Len(Tail(delay_ev)) = Len(delay_ev) - 1
      BY <1>6, <1>q, FifoType DEF HoldBack
    <3> QED BY <3>1, <1>q, <1>0 DEF Event
  <2>2. read_tokens' \in 0 .. TokenDepth
    <3>1. read_tokens' = read_tokens + 1 /\ read_tokens < TokenDepth
      BY <1>6 DEF HoldBack
    <3>2. read_tokens \in 0 .. TokenDepth
      BY DEF EventTypeOK
    <3> QED BY <1>0, <3>1, <3>2
  <2>3. ack_table' \in [Session -> 0 .. AckDelay]
    BY <1>6, <1>0, <1>q, <2>1 DEF HoldBack
  <2> QED BY <1>6, <2>1, <2>2, <2>3 DEF HoldBack, EventTypeOK, in_ev, counters
<1>7. CASE PassOn
  <2>1. /\ delay_ev' \in Seq(Event) /\ Len(delay_ev') <= EventDepth
        /\ Head(delay_ev).session_id \in Session
        /\ tx_ev' \in Seq(Event) /\ Len(tx_ev') <= TxDepth
    <3>1. /\ Head(delay_ev) \in Event /\ delay_ev' = Tail(delay_ev)
          /\ Tail(delay_ev) \in Seq(Event) /\ Len(delay_ev) \in Nat
          /\ Len(Tail(delay_ev)) = Len(delay_ev) - 1
      BY <1>7, <1>q, FifoType DEF PassOn
    <3>2. /\ tx_ev' = Append(tx_ev, Head(delay_ev)) /\ Len(tx_ev) < TxDepth
          /\ tx_ev' \in Seq(Event) /\ Len(tx_ev) \in Nat /\ Len(tx_ev') = Len(tx_ev) + 1
      BY <1>7, <1>q, <3>1, FifoType DEF PassOn
    <3>3. Len(delay_ev') <= EventDepth /\ Len(tx_ev') <= TxDepth
      BY <3>1, <3>2, <1>q, <1>0
    <3> QED BY <3>1, <3>2, <3>3 DEF Event
  <2>2. read_tokens' \in 0 .. TokenDepth /\ write_tokens' \in 0 .. TokenDepth
    <3>1. /\ read_tokens' = read_tokens + 1 /\ read_tokens < TokenDepth
          /\ write_tokens' = write_tokens + 1 /\ write_tokens < TokenDepth
      BY <1>7 DEF PassOn
    <3>2. read_tokens \in 0 .. TokenDepth /\ write_tokens \in 0 .. TokenDepth
      BY DEF EventTypeOK
    <3> QED BY <1>0, <3>1, <3>2
  <2>3. ack_table' \in [Session -> 0 .. AckDelay]
    BY <1>7, <1>0, <1>q, <2>1 DEF PassOn
  <2> QED BY <1>7, <2>1, <2>2, <2>3 DEF PassOn, EventTypeOK, in_ev, counters
<1>8. CASE ScanVisit
  <2> DEFINE s == ack_delay_cur_session_id
             e == [type |-> "ACK", session_id |-> s]
             run == ack_table[s] > 0 /\ Len(tx_ev) < TxDepth
  <2>1. e \in Event /\ s \in Session
    BY <1>q DEF Event
  <2>2. ack_delay_cur_session_id' \in Session
    BY <1>8, <1>0, <1>q DEF ScanVisit, Session
  <2>3. ack_table' \in [Session -> 0 .. AckDelay]
    <3>1. ack_table[s] \in 0 .. AckDelay
      BY <1>q
    <3>2. ack_table' = IF run THEN [ack_table EXCEPT ![s] = ack_table[s] - 1] ELSE ack_table
      BY <1>8 DEF ScanVisit
    <3> QED BY <3>1, <3>2, <1>0, <1>q
  <2>4. /\ tx_ev' \in Seq(Event) /\ Len(tx_ev') <= TxDepth /\ write_tokens' \in 0 .. TokenDepth
    <3>1. CASE run /\ Expires(s)
      <4>1. /\ tx_ev' = Append(tx_ev, e) /\ Len(tx_ev) < TxDepth
            /\ write_tokens < TokenDepth /\ write_tokens' = write_tokens + 1
        BY <1>8, <3>1 DEF ScanVisit
      <4>2. tx_ev' \in Seq(Event) /\ Len(tx_ev) \in Nat /\ Len(tx_ev') = Len(tx_ev) + 1
        BY <4>1, <1>q, <2>1, FifoType
      <4> QED BY <4>1, <4>2, <1>0 DEF EventTypeOK
    <3>2. CASE ~(run /\ Expires(s))
      BY <1>8, <3>2 DEF ScanVisit, EventTypeOK
    <3> QED BY <3>1, <3>2
  <2> QED BY <1>8, <2>2, <2>3, <2>4 DEF ScanVisit, EventTypeOK, in_ev, counters
<1>9. CASE TxEngLoad
  <2>1. /\ Head(tx_ev) \in Event /\ tx_ev' = Tail(tx_ev)
        /\ Tail(tx_ev) \in Seq(Event) /\ Len(tx_ev) \in Nat
        /\ Len(Tail(tx_ev)) = Len(tx_ev) - 1
    BY <1>9, <1>q, FifoType DEF TxEngLoad
  <2>2. tx_tokens' \in 0 .. TxTokenDepth
    BY <1>9, <1>0 DEF TxEngLoad, EventTypeOK
  <2>3. Len(tx_ev') <= TxDepth
    BY <2>1, <1>0, <1>q
  <2> QED BY <1>9, <2>1, <2>2, <2>3 DEF TxEngLoad, EventTypeOK, in_ev, counters, delay
<1>10. CASE TxEngDone
  BY <1>10 DEF TxEngDone, EventTypeOK, in_ev, tokens, counters, delay
<1>11. CASE Inputs
  <2>1. RstEvent \in Event
    BY <1>0 DEF RstEvent, Event, Session
  <2>2. \A t \in {"ACK", "TX"}, s \in Session : [type |-> t, session_id |-> s] \in Event
    BY DEF Event
  <2>3. /\ rx_meta_ev' \in Seq(Event) /\ rx_fsm_ev' \in Seq(Event)
        /\ rx_ev' \in Seq(Event) /\ timer_ev' \in Seq(Event) /\ app_ev' \in Seq(Event)
        /\ ev_inputs' = ev_inputs + 1 /\ UNCHANGED OtherInputs
    BY <1>11, <2>1, <2>2, <1>q, <1>a DEF Inputs, ClosedPort, RxFsmEvent, TimerEvent, TxAppEvent
  <2> QED BY <2>3 DEF OtherInputs, EventTypeOK, tokens, counters, delay
<1>12. CASE UNCHANGED ev_vars
  BY <1>12 DEF ev_vars, EventTypeOK, in_ev, tokens, counters, delay
<1> QED BY <1>1, <1>2, <1>3, <1>4, <1>5, <1>6, <1>7, <1>8, <1>9, <1>10, <1>11, <1>12
        DEF EventNext, EventEngine, AckDelayStep
-----------------------------------------------------------------------------
(* Every step keeps the counters exact.                                     *)

\* The two sides of the event path, as the steps change them.
ReadSum  == ack_delay_read_count + read_tokens + Len(delay_ev)
TxSum    == tx_eng_read_count + tx_tokens + Len(tx_ev)
WriteSum == ack_delay_write_count + write_tokens

LEMMA SumTypes ==
  ASSUME EventTypeOK
  PROVE  /\ ack_delay_read_count \in Nat /\ read_tokens \in Nat /\ Len(delay_ev) \in Nat
         /\ tx_eng_read_count \in Nat /\ tx_tokens \in Nat /\ Len(tx_ev) \in Nat
         /\ ack_delay_write_count \in Nat /\ write_tokens \in Nat
         /\ write_event_count \in Nat /\ CounterMod \in Nat
         /\ delay_ev \in Seq(Event) /\ tx_ev \in Seq(Event)
<1>1. /\ CounterMod \in Nat /\ TokenDepth \in Nat /\ TxTokenDepth \in Nat
  BY CounterModAssumption, DepthAssumption
<1> QED BY <1>1 DEF EventTypeOK, Counter

\* The tokens that event_engine takes: the sums keep their value up to a wrap.
LEMMA CountTokensSums ==
  ASSUME EventTypeOK, EventTypeOK', CountTokens, tx_ev' = tx_ev,
         NEW d \in Nat, Len(delay_ev') = Len(delay_ev) + d
  PROVE  /\ Wrapped(ReadSum', ReadSum + d)
         /\ Wrapped(TxSum', TxSum + 0) /\ Wrapped(WriteSum', WriteSum + 0)
<1>1. /\ Wrapped(ack_delay_read_count' + read_tokens', ack_delay_read_count + read_tokens)
      /\ Wrapped(ack_delay_write_count' + write_tokens', ack_delay_write_count + write_tokens)
      /\ Wrapped(tx_eng_read_count' + tx_tokens', tx_eng_read_count + tx_tokens)
  BY CountTokensKeeps
<1>2. /\ ack_delay_read_count + read_tokens \in Nat /\ Len(delay_ev) \in Nat
      /\ tx_eng_read_count + tx_tokens \in Nat /\ Len(tx_ev) \in Nat
      /\ ack_delay_write_count + write_tokens \in Nat /\ CounterMod \in Nat
  BY SumTypes, SMTT(30)
<1> DEFINE r == ack_delay_read_count + read_tokens
           t == tx_eng_read_count + tx_tokens
           w == ack_delay_write_count + write_tokens
           r1 == ack_delay_read_count' + read_tokens'
           t1 == tx_eng_read_count' + tx_tokens'
           w1 == ack_delay_write_count' + write_tokens'
<1>3. /\ ReadSum = r + Len(delay_ev) /\ ReadSum' = r1 + Len(delay_ev')
      /\ TxSum = t + Len(tx_ev) /\ TxSum' = t1 + Len(tx_ev)
      /\ WriteSum = w /\ WriteSum' = w1
  BY DEF ReadSum, TxSum, WriteSum
<1>4. /\ r \in Nat /\ t \in Nat /\ w \in Nat
      /\ Wrapped(r1, r) /\ Wrapped(t1, t) /\ Wrapped(w1, w)
  BY <1>1, <1>2
<1> HIDE DEF r, t, w, r1, t1, w1
<1>5. r1 \in Int /\ t1 \in Int /\ w1 \in Int
  BY <1>2, <1>4 DEF Wrapped
<1>6. Wrapped(r1 + Len(delay_ev'), r + Len(delay_ev) + d)
  BY <1>2, <1>4, <1>5 DEF Wrapped
<1>7. Wrapped(t1 + Len(tx_ev), t + Len(tx_ev) + 0) /\ Wrapped(w1, w + 0)
  BY <1>2, <1>4, <1>5 DEF Wrapped
<1> QED BY <1>3, <1>6, <1>7

\* A step that changes the sums by the same amounts keeps them balanced.
LEMMA SumsKeep ==
  ASSUME EventTypeOK, EventTypeOK', Balanced, NEW d \in Int, NEW e \in Int,
         Wrapped(ReadSum', ReadSum + d), Wrapped(write_event_count', write_event_count + d),
         Wrapped(TxSum', TxSum + e), Wrapped(WriteSum', WriteSum + e)
  PROVE  Balanced'
BY BalancedKeeps DEF ReadSum, TxSum, WriteSum

\* A run of event_engine that forwards an event.
LEMMA ForwardBalanced ==
  ASSUME EventTypeOK, EventTypeOK', Balanced, NEW ev \in Event, Forward(ev)
  PROVE  Balanced'
<1>1. /\ delay_ev \in Seq(Event) /\ delay_ev' = Append(delay_ev, ev)
      /\ write_event_count \in Counter /\ write_event_count' = Inc(write_event_count)
      /\ CountTokens /\ tx_ev' = tx_ev
  BY DEF EventTypeOK, Forward
<1>2. Len(delay_ev') = Len(delay_ev) + 1
  BY <1>1, FifoType
<1>3. Wrapped(write_event_count', write_event_count + 1)
  <2> DEFINE w == Inc(write_event_count)
  <2>1. w = IF write_event_count + 1 = CounterMod THEN 0 ELSE write_event_count + 1
    BY <1>1, IncType
  <2> HIDE DEF w
  <2>2. Wrapped(w, write_event_count + 1)
    BY <2>1, SumTypes DEF Wrapped
  <2> QED BY <2>2, <1>1 DEF w
<1>4. /\ Wrapped(ReadSum', ReadSum + 1)
      /\ Wrapped(TxSum', TxSum + 0) /\ Wrapped(WriteSum', WriteSum + 0)
  BY <1>1, <1>2, CountTokensSums
<1> QED BY <1>3, <1>4, SumsKeep

LEMMA BalancedStep ==
  ASSUME EventTypeOK, EventTypeOK', Balanced, [EventNext]_ev_vars
  PROVE  Balanced'
<1>0. /\ ack_delay_read_count \in Nat /\ read_tokens \in Nat /\ Len(delay_ev) \in Nat
      /\ tx_eng_read_count \in Nat /\ tx_tokens \in Nat /\ Len(tx_ev) \in Nat
      /\ ack_delay_write_count \in Nat /\ write_tokens \in Nat
      /\ write_event_count \in Nat /\ CounterMod \in Nat
      /\ delay_ev \in Seq(Event) /\ tx_ev \in Seq(Event)
  BY SumTypes
<1>h. \A q \in Seq(Event) : q # <<>> => Head(q) \in Event
  BY FifoType
<1>1. CASE ForwardRx \/ ForwardTimer \/ ForwardTxApp
  <2>1. PICK ev \in Event : Forward(ev)
    BY <1>1, <1>h DEF ForwardRx, ForwardTimer, ForwardTxApp, EventTypeOK
  <2> QED BY <2>1, ForwardBalanced
<1>2. CASE ForwardNothing
  <2>1. CountTokens /\ delay_ev' = delay_ev /\ tx_ev' = tx_ev
        /\ write_event_count' = write_event_count
    BY <1>2 DEF ForwardNothing
  <2>2. Len(delay_ev') = Len(delay_ev) + 0
    BY <2>1, <1>0
  <2>3. /\ Wrapped(ReadSum', ReadSum + 0)
        /\ Wrapped(TxSum', TxSum + 0) /\ Wrapped(WriteSum', WriteSum + 0)
    BY <2>1, <2>2, CountTokensSums
  <2>4. Wrapped(write_event_count', write_event_count + 0)
    BY <2>1, <1>0 DEF Wrapped
  <2> QED BY <2>3, <2>4, SumsKeep
<1>3. CASE HoldBack
  <2>1. /\ Len(delay_ev') = Len(delay_ev) - 1 /\ read_tokens' = read_tokens + 1
        /\ UNCHANGED <<tx_ev, write_tokens, tx_tokens, counters>>
    BY <1>3, <1>0, FifoType DEF HoldBack
  <2>2. /\ ReadSum' = ReadSum + 0 /\ write_event_count' = write_event_count + 0
        /\ TxSum' = TxSum + 0 /\ WriteSum' = WriteSum + 0
    BY <2>1, <1>0 DEF ReadSum, TxSum, WriteSum, counters
  <2> QED BY <2>2, SumsKeep DEF Wrapped
<1>4. CASE PassOn
  <2>1. /\ Len(delay_ev') = Len(delay_ev) - 1 /\ read_tokens' = read_tokens + 1
        /\ Len(tx_ev') = Len(tx_ev) + 1 /\ write_tokens' = write_tokens + 1
        /\ UNCHANGED <<tx_tokens, counters>>
    BY <1>4, <1>0, FifoType DEF PassOn
  <2>2. /\ ReadSum' = ReadSum + 0 /\ write_event_count' = write_event_count + 0
        /\ TxSum' = TxSum + 1 /\ WriteSum' = WriteSum + 1
    BY <2>1, <1>0 DEF ReadSum, TxSum, WriteSum, counters
  <2> QED BY <2>2, SumsKeep DEF Wrapped
<1>5. CASE ScanVisit
  <2>1. UNCHANGED <<delay_ev, read_tokens, tx_tokens, counters>>
    BY <1>5 DEF ScanVisit
  <2>2. CASE UNCHANGED <<tx_ev, write_tokens>>
    <3>1. /\ ReadSum' = ReadSum + 0 /\ write_event_count' = write_event_count + 0
          /\ TxSum' = TxSum + 0 /\ WriteSum' = WriteSum + 0
      BY <2>1, <2>2, <1>0 DEF ReadSum, TxSum, WriteSum, counters
    <3> QED BY <3>1, SumsKeep DEF Wrapped
  <2>3. CASE /\ tx_ev' = Append(tx_ev, [type |-> "ACK", session_id |-> ack_delay_cur_session_id])
             /\ write_tokens' = write_tokens + 1
    <3>1. [type |-> "ACK", session_id |-> ack_delay_cur_session_id] \in Event
      BY DEF EventTypeOK, Event
    <3>2. Len(tx_ev') = Len(tx_ev) + 1
      BY <2>3, <3>1, <1>0, FifoType
    <3>3. /\ ReadSum' = ReadSum + 0 /\ write_event_count' = write_event_count + 0
          /\ TxSum' = TxSum + 1 /\ WriteSum' = WriteSum + 1
      BY <2>1, <2>3, <3>2, <1>0 DEF ReadSum, TxSum, WriteSum, counters
    <3> QED BY <3>3, SumsKeep DEF Wrapped
  <2> QED BY <1>5, <2>2, <2>3 DEF ScanVisit
<1>6. CASE TxEngLoad
  <2>1. /\ Len(tx_ev') = Len(tx_ev) - 1 /\ tx_tokens' = tx_tokens + 1
        /\ UNCHANGED <<delay_ev, read_tokens, write_tokens, counters>>
    BY <1>6, <1>0, FifoType DEF TxEngLoad
  <2>2. /\ ReadSum' = ReadSum + 0 /\ write_event_count' = write_event_count + 0
        /\ TxSum' = TxSum + 0 /\ WriteSum' = WriteSum + 0
    BY <2>1, <1>0 DEF ReadSum, TxSum, WriteSum, counters
  <2> QED BY <2>2, SumsKeep DEF Wrapped
<1>7. CASE UNCHANGED <<delay_ev, tx_ev, tokens, counters>>
  BY <1>7 DEF Balanced, Near, tokens, counters
<1>8. MergeRx \/ TxEngDone \/ Inputs \/ UNCHANGED ev_vars
        => UNCHANGED <<delay_ev, tx_ev, tokens, counters>>
  BY DEF MergeRx, TxEngDone, Inputs, ClosedPort, RxFsmEvent, TimerEvent, TxAppEvent,
         OtherInputs, ev_vars
<1> QED BY <1>1, <1>2, <1>3, <1>4, <1>5, <1>6, <1>7, <1>8 DEF EventNext, EventEngine, AckDelayStep
-----------------------------------------------------------------------------
(* The theorem.                                                             *)

\* Exact counters that agree leave nothing in ack_delay's input.
LEMMA DrainedRoom ==
  ASSUME EventTypeOK, Balanced
  PROVE  DrainedMeansRoom
<1>1. SUFFICES ASSUME Drained
               PROVE  delay_ev = <<>> /\ Len(tx_ev) <= TokenDepth
  BY DEF DrainedMeansRoom
<1>2. /\ CounterMod \in Nat /\ CounterMod > EventDepth + TokenDepth
      /\ CounterMod > TxDepth + TxTokenDepth /\ CounterMod > TokenDepth
      /\ EventDepth \in Nat /\ TokenDepth \in Nat /\ TxDepth \in Nat /\ TxTokenDepth \in Nat
  BY CounterModAssumption, DepthAssumption
<1>3. /\ Len(delay_ev) \in 0 .. EventDepth /\ Len(tx_ev) \in 0 .. TxDepth
      /\ read_tokens \in 0 .. TokenDepth /\ write_tokens \in 0 .. TokenDepth
      /\ tx_tokens \in 0 .. TxTokenDepth
      /\ ack_delay_read_count \in 0 .. CounterMod - 1
      /\ tx_eng_read_count \in 0 .. CounterMod - 1
  BY DEF EventTypeOK, Counter
<1>4. /\ Near(ack_delay_read_count + read_tokens + Len(delay_ev), ack_delay_read_count)
      /\ Near(tx_eng_read_count + tx_tokens + Len(tx_ev), tx_eng_read_count + write_tokens)
  BY <1>1 DEF Drained, Balanced
<1>5. Len(delay_ev) = 0
  BY <1>2, <1>3, <1>4 DEF Near
<1>6. Len(tx_ev) <= TokenDepth
  BY <1>2, <1>3, <1>4 DEF Near
<1> QED BY <1>5, <1>6 DEF EventTypeOK

\* TokensExact holds in every reachable state: for every number of sessions, every
\* depth of the FIFOs and every modulus of the counters above the sums of the depths,
\* event_engine's counters account for all events and tokens under way, and its gate
\* for timer and application events opens only on an empty path.
THEOREM TokensAreExact == EventSpec => []TokensExact
<1>1. EventInit => EventInv
  <2> SUFFICES ASSUME EventInit PROVE EventInv
    OBVIOUS
  <2>1. EventTypeOK
    <3>1. 0 \in Session /\ 0 \in Counter /\ 0 \in 0 .. TokenDepth /\ 0 \in 0 .. TxTokenDepth
          /\ 0 \in 0 .. AckDelay /\ 0 <= EventDepth /\ 0 <= TxDepth
      BY SessionsAssumption, CounterModAssumption, DepthAssumption, AckDelayAssumption
         DEF Session, Counter
    <3>2. <<>> \in Seq(Event) /\ Len(<<>>) = 0
      OBVIOUS
    <3> QED BY <3>1, <3>2 DEF EventInit, EventTypeOK
  <2>2. Balanced
    BY DEF EventInit, Balanced, Near
  <2> QED BY <2>1, <2>2, ExactIsBalanced DEF EventInv
<1>2. EventInv /\ [EventNext]_ev_vars => EventInv'
  <2> SUFFICES ASSUME EventInv, [EventNext]_ev_vars PROVE EventInv'
    OBVIOUS
  <2>1. EventTypeOK /\ Balanced
    BY ExactIsBalanced DEF EventInv
  <2>2. EventTypeOK'
    BY <2>1, TypeStep
  <2>3. Balanced'
    BY <2>1, <2>2, BalancedStep
  <2>4. (EventTypeOK => (CountersExact <=> Balanced))'
    BY ExactIsBalanced, PTL
  <2> QED BY <2>2, <2>3, <2>4 DEF EventInv
<1>3. EventInv => TokensExact
  BY ExactIsBalanced, DrainedRoom DEF EventInv, TokensExact
<1> QED BY <1>1, <1>2, <1>3, PTL DEF EventSpec
=============================================================================
