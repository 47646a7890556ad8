-------------------------- MODULE StateTableProofs --------------------------
(***************************************************************************)
(* Proofs about StateTable: type correctness, mutual exclusion of the two  *)
(* session locks, freshness of every state that was read and not yet       *)
(* written back, no mutual wait, and that states change along the diagram. *)
(* The inductive invariant says where the one outstanding request of each  *)
(* client can be.                                                          *)
(***************************************************************************)
EXTENDS StateTable, SequenceTheorems, TLAPS

USE DEF LockAfter

\* A write of the rx engine: the engine holds the lock of its session and the
\* state it was computed from is still in the table.
RxWrite(r) ==
  /\ r.write
  /\ rx_lock = r.session_id
  /\ state_table[r.session_id] = r.basis

\* The rx FSM is in LOAD: nothing is outstanding, or its last write is queued.
RxIdle ==
  /\ rx_fsm = NoReq
  /\ rx_rsp = <<>> /\ rx_parked = NoReq
  /\ Len(rx_req) <= 1
  /\ Len(rx_req) = 1 => RxWrite(rx_req[1])

\* The read of the segment in TRANSITION is queued, perhaps behind the write for
\* the segment before.
RxQueued ==
  /\ rx_fsm # NoReq
  /\ rx_rsp = <<>> /\ rx_parked = NoReq
  /\ Len(rx_req) \in {1, 2}
  /\ Len(rx_req) = 2 => RxWrite(rx_req[1])
  /\ ~rx_req[Len(rx_req)].write
  /\ rx_req[Len(rx_req)].session_id = rx_fsm.session_id

\* The read is parked.
RxParked ==
  /\ rx_fsm # NoReq
  /\ rx_rsp = <<>> /\ rx_req = <<>>
  /\ rx_parked # NoReq
  /\ ~rx_parked.write
  /\ rx_parked.session_id = rx_fsm.session_id

\* The read is answered: the session is locked and the answer still holds.
RxAnswered ==
  /\ rx_fsm # NoReq
  /\ rx_req = <<>> /\ rx_parked = NoReq
  /\ Len(rx_rsp) = 1
  /\ rx_lock = rx_fsm.session_id
  /\ state_table[rx_fsm.session_id] = rx_rsp[1]

\* As long as no lock was left behind the rx engine holds one only between the
\* answer to its read and its write.
RxLockHeld ==
  rx_lock # NoReq => RxAnswered \/ (Len(rx_req) > 0 /\ RxWrite(rx_req[1]))

RxInv == (RxIdle \/ RxQueued \/ RxParked \/ RxAnswered) /\ (Healthy => RxLockHeld)

\* The connection handler is in IDLE: everything it has queued is a write.
TxIdle ==
  /\ tx_fsm = NoReq
  /\ tx_rsp = <<>>
  /\ \A i \in 1 .. Len(tx_req) : tx_req[i].write
  /\ tx_parked # NoReq => tx_parked.write

\* close() waits: its read is the last request, behind writes only.
TxQueued ==
  /\ tx_fsm # NoReq
  /\ tx_rsp = <<>>
  /\ Len(tx_req) > 0
  /\ \A i \in 1 .. Len(tx_req) : tx_req[i].write <=> i # Len(tx_req)
  /\ tx_req[Len(tx_req)].session_id = tx_fsm
  /\ tx_parked # NoReq => tx_parked.write

TxParked ==
  /\ tx_fsm # NoReq
  /\ tx_rsp = <<>> /\ tx_req = <<>>
  /\ tx_parked # NoReq
  /\ ~tx_parked.write
  /\ tx_parked.session_id = tx_fsm

TxAnswered ==
  /\ tx_fsm # NoReq
  /\ tx_req = <<>> /\ tx_parked = NoReq
  /\ Len(tx_rsp) = 1
  /\ tx_lock = tx_fsm
  /\ state_table[tx_fsm] = tx_rsp[1]

\* A lock of the tx side is held from the answer until the write at the head of
\* the queue is served.
TxLockHeld ==
  tx_lock # NoReq =>
    \/ TxAnswered
    \/ /\ tx_parked = NoReq
       /\ Len(tx_req) > 0
       /\ tx_req[1].write /\ tx_req[1].session_id = tx_lock

TxInv == (TxIdle \/ TxQueued \/ TxParked \/ TxAnswered) /\ TxLockHeld

IInv == TypeOK /\ LockExclusion /\ RxInv /\ TxInv
-----------------------------------------------------------------------------
(* The operators the actions are built from.                                *)

\* What the rx engine writes is a session state, whatever the segment.
LEMMA RxOutcomesType ==
  ASSUME NEW kind \in Kinds, NEW st \in SessionState
  PROVE  RxOutcomes(kind, st) \subseteq SessionState
BY DEF RxOutcomes

\* What close() writes is a session state.
LEMMA TxOutcomeType ==
  ASSUME NEW st \in SessionState
  PROVE  TxOutcome(st) \in SessionState
BY DEF TxOutcome, SessionState

\* The requests are well-formed.
LEMMA ReqType ==
  ASSUME NEW s \in Sessions, NEW new \in SessionState, NEW old \in SessionState
  PROVE  ReadReq(s) \in StateTableReq /\ WriteReq(s, new, old) \in StateTableReq
BY DEF ReadReq, WriteReq, StateTableReq, SessionState

\* The head of a non-empty FIFO is one of its elements, and a FIFO keeps its type
\* when it is read or written.
LEMMA FifoType ==
  ASSUME NEW S, NEW q \in Seq(S), NEW e \in S
  PROVE  /\ Append(q, e) \in Seq(S)
         /\ q # <<>> => Head(q) \in S /\ Tail(q) \in Seq(S)
OBVIOUS

-----------------------------------------------------------------------------
(* Type correctness.                                                        *)

LEMMA TypeInit == Init => TypeOK
BY DEF Init, TypeOK, SessionState

\* Serving a request keeps the types of the table, the locks and the FIFOs.
LEMMA ServeType ==
  ASSUME TypeOK
  PROVE  /\ \A r \in StateTableReq :
              ServeTx(r) => /\ state_table' \in [Sessions -> SessionState]
                            /\ tx_lock' \in Sessions \cup {NoReq}
                            /\ tx_rsp' \in Seq(SessionState)
         /\ \A r \in StateTableReq :
              ServeRx(r) => /\ state_table' \in [Sessions -> SessionState]
                            /\ rx_lock' \in Sessions \cup {NoReq}
                            /\ rx_rsp' \in Seq(SessionState)
                            /\ release_req' \in Seq(Sessions)
         /\ \A s \in Sessions :
              ServeTimer(s) => /\ state_table' \in [Sessions -> SessionState]
                               /\ release_req' \in Seq(Sessions)
<1>1. ASSUME NEW r \in StateTableReq, ServeTx(r)
      PROVE  /\ state_table' \in [Sessions -> SessionState]
             /\ tx_lock' \in Sessions \cup {NoReq}
             /\ tx_rsp' \in Seq(SessionState)
  <2>1. /\ r.session_id \in Sessions /\ r.state \in SessionState
        /\ state_table[r.session_id] \in SessionState
    BY DEF TypeOK, StateTableReq
  <2>2. CASE r.write
    BY <1>1, <2>1, <2>2 DEF ServeTx, TypeOK
  <2>3. CASE ~r.write
    <3>1. Append(tx_rsp, state_table[r.session_id]) \in Seq(SessionState)
      BY <2>1, FifoType DEF TypeOK
    <3> QED BY <1>1, <2>1, <2>3, <3>1 DEF ServeTx, TypeOK
  <2> QED BY <2>2, <2>3
<1>2. ASSUME NEW r \in StateTableReq, ServeRx(r)
      PROVE  /\ state_table' \in [Sessions -> SessionState]
             /\ rx_lock' \in Sessions \cup {NoReq}
             /\ rx_rsp' \in Seq(SessionState)
             /\ release_req' \in Seq(Sessions)
  <2>1. /\ r.session_id \in Sessions /\ r.state \in SessionState
        /\ state_table[r.session_id] \in SessionState
    BY DEF TypeOK, StateTableReq
  <2>2. CASE r.write
    <3>1. Append(release_req, r.session_id) \in Seq(Sessions)
      BY <2>1, FifoType DEF TypeOK
    <3> QED BY <1>2, <2>1, <2>2, <3>1 DEF ServeRx, TypeOK
  <2>3. CASE ~r.write
    <3>1. Append(rx_rsp, state_table[r.session_id]) \in Seq(SessionState)
      BY <2>1, FifoType DEF TypeOK
    <3> QED BY <1>2, <2>1, <2>3, <3>1 DEF ServeRx, TypeOK
  <2> QED BY <2>2, <2>3
<1>3. ASSUME NEW s \in Sessions, ServeTimer(s)
      PROVE  /\ state_table' \in [Sessions -> SessionState]
             /\ release_req' \in Seq(Sessions)
  BY <1>3 DEF ServeTimer, TypeOK, SessionState
<1> QED BY <1>1, <1>2, <1>3

LEMMA TypeNext == TypeOK /\ [Next]_vars => TypeOK'
<1> SUFFICES ASSUME TypeOK, [Next]_vars PROVE TypeOK'
  OBVIOUS
<1>1. CASE TxAppReq
  <2>1. Head(tx_req) \in StateTableReq /\ Tail(tx_req) \in Seq(StateTableReq)
    BY <1>1 DEF TypeOK, TxAppReq, TxPending
  <2> QED BY <1>1, <2>1, ServeType DEF TypeOK, TxAppReq, ServeTx, rsps, fsms
<1>2. CASE TxAppLookup
  <2>1. Head(lup_req) \in Sessions /\ Tail(lup_req) \in Seq(Sessions)
    BY <1>2 DEF TypeOK, TxAppLookup, LupPending
  <2> QED BY <1>2, <2>1 DEF TypeOK, TxAppLookup, regs, fsms
<1>3. CASE RxEngReq
  <2>1. Head(rx_req) \in StateTableReq /\ Tail(rx_req) \in Seq(StateTableReq)
    BY <1>3 DEF TypeOK, RxEngReq, RxPending
  <2> QED BY <1>3, <2>1, ServeType DEF TypeOK, RxEngReq, ServeRx, rsps, fsms
<1>4. CASE TimerRelease
  <2>1. Head(timer_req) \in Sessions /\ Tail(timer_req) \in Seq(Sessions)
    BY <1>4 DEF TypeOK, TimerRelease, TimerPending
  <2> QED BY <1>4, <2>1, ServeType DEF TypeOK, TimerRelease, ServeTimer, rsps, fsms
<1>5. CASE RetryTx
  <2>1. tx_parked \in StateTableReq
    BY <1>5 DEF TypeOK, RetryTx
  <2> QED BY <1>5, <2>1, ServeType DEF TypeOK, RetryTx, ServeTx, fsms
<1>6. CASE RetryRx
  <2>1. rx_parked \in StateTableReq
    BY <1>6 DEF TypeOK, RetryRx
  <2> QED BY <1>6, <2>1, ServeType DEF TypeOK, RetryRx, ServeRx, fsms
<1>7. CASE RetryTimer
  <2>1. timer_parked \in Sessions
    BY <1>7 DEF TypeOK, RetryTimer
  <2> QED BY <1>7, <2>1, ServeType DEF TypeOK, RetryTimer, ServeTimer, rsps, fsms
<1>8. CASE RxLoad
  <2>1. Head(rx_meta) \in Segments /\ Tail(rx_meta) \in Seq(Segments)
    BY <1>8 DEF TypeOK, RxLoad
  <2>2. ReadReq(Head(rx_meta).session_id) \in StateTableReq
    BY <2>1 DEF Segments, ReadReq, StateTableReq, SessionState
  <2> QED BY <1>8, <2>1, <2>2 DEF TypeOK, RxLoad, table_vars, regs, rsps
<1>9. CASE RxTransition
  <2>1. Head(rx_rsp) \in SessionState /\ Tail(rx_rsp) \in Seq(SessionState)
    BY <1>9 DEF TypeOK, RxTransition
  <2>2. rx_fsm \in Segments
    BY <1>9 DEF TypeOK, RxTransition
  <2>3. PICK new \in RxOutcomes(rx_fsm.kind, Head(rx_rsp)) :
          rx_req' = Append(rx_req, WriteReq(rx_fsm.session_id, new, Head(rx_rsp)))
    BY <1>9 DEF RxTransition
  <2>4. new \in SessionState
    BY <2>1, <2>2, <2>3, RxOutcomesType DEF Segments
  <2>5. WriteReq(rx_fsm.session_id, new, Head(rx_rsp)) \in StateTableReq
    BY <2>1, <2>2, <2>4, ReqType DEF Segments
  <2> QED BY <1>9, <2>1, <2>3, <2>5 DEF TypeOK, RxTransition, table_vars, regs
<1>10. CASE RxTransitionNoWrite
  <2>1. Tail(rx_rsp) \in Seq(SessionState)
    BY <1>10 DEF TypeOK, RxTransitionNoWrite
  <2> QED BY <1>10, <2>1 DEF TypeOK, RxTransitionNoWrite, table_vars, regs, reqs
<1>11. CASE CloseConnRsp
  <2>1. Head(tx_rsp) \in SessionState /\ Tail(tx_rsp) \in Seq(SessionState)
    BY <1>11 DEF TypeOK, CloseConnRsp
  <2>2. tx_fsm \in Sessions
    BY <1>11 DEF TypeOK, CloseConnRsp
  <2>3. WriteReq(tx_fsm, TxOutcome(Head(tx_rsp)), Head(tx_rsp)) \in StateTableReq
    BY <2>1, <2>2, TxOutcomeType, ReqType
  <2> QED BY <1>11, <2>1, <2>3 DEF TypeOK, CloseConnRsp, table_vars, regs
<1>12. CASE DataLookupRsp
  <2>1. Tail(lup_rsp) \in Seq(SessionState)
    BY <1>12 DEF TypeOK, DataLookupRsp
  <2> QED BY <1>12, <2>1 DEF TypeOK, DataLookupRsp, table_vars, regs, reqs, fsms
<1>13. CASE SlookupRelease
  <2>1. Head(release_req) \in Sessions /\ Tail(release_req) \in Seq(Sessions)
    BY <1>13 DEF TypeOK, SlookupRelease
  <2> QED BY <1>13, <2>1 DEF TypeOK, SlookupRelease, table_vars, regs, reqs, rsps, fsms
<1>14. ASSUME NEW s \in Sessions, ActiveOpen(s) PROVE TypeOK'
  <2>1. WriteReq(s, "SYN_SENT", "SYN_SENT") \in StateTableReq
    BY DEF WriteReq, StateTableReq, SessionState
  <2> QED BY <1>14, <2>1 DEF TypeOK, ActiveOpen, table_vars, regs, rsps, fsms
<1>15. ASSUME NEW s \in Sessions, CloseConn(s) PROVE TypeOK'
  <2>1. ReadReq(s) \in StateTableReq
    BY DEF ReadReq, StateTableReq, SessionState
  <2> QED BY <1>15, <2>1 DEF TypeOK, CloseConn, table_vars, regs, rsps
<1>16. ASSUME NEW s \in Sessions, DataLookup(s) PROVE TypeOK'
  BY <1>16 DEF TypeOK, DataLookup, table_vars, regs, rsps, fsms
<1>17. ASSUME NEW s \in Sessions, Timeout(s) PROVE TypeOK'
  BY <1>17 DEF TypeOK, Timeout, table_vars, regs, rsps, fsms
<1>18. ASSUME NEW s \in Sessions, NEW kind \in Kinds, Segment(s, kind) PROVE TypeOK'
  <2>1. [session_id |-> s, kind |-> kind] \in Segments
    BY DEF Segments
  <2> QED BY <1>18, <2>1 DEF TypeOK, Segment, table_vars, regs, reqs, rsps
<1>19. CASE UNCHANGED vars
  BY <1>19 DEF TypeOK, vars, regs, reqs, rsps, fsms
<1> QED
  BY <1>1, <1>2, <1>3, <1>4, <1>5, <1>6, <1>7, <1>8, <1>9, <1>10, <1>11, <1>12, <1>13,
     <1>14, <1>15, <1>16, <1>17, <1>18, <1>19 DEF Next, Table, Clients, Inputs

\* TypeOK: every variable keeps its type for any set of sessions and any FIFO depth.
THEOREM TypeCorrect == Spec => []TypeOK
<1>1. TypeOK /\ [Next]_vars => TypeOK'
  BY TypeNext
<1> QED BY <1>1, TypeInit, PTL DEF Spec
-----------------------------------------------------------------------------
(* The locks and the freshness of what was read.                            *)

USE DEF ReadReq, WriteReq

LEMMA InvInit == Init => IInv
<1> SUFFICES ASSUME Init PROVE IInv
  OBVIOUS
<1>1. TypeOK
  BY TypeInit
<1>2. RxIdle
  BY DEF Init, RxIdle
<1>3. TxIdle /\ TxLockHeld
  BY DEF Init, TxIdle, TxLockHeld
<1> QED BY <1>1, <1>2, <1>3 DEF IInv, LockExclusion, RxInv, RxLockHeld, TxInv, Init

\* What is left of a FIFO when its head is taken.
LEMMA TailFacts ==
  ASSUME NEW S, NEW q \in Seq(S), q # <<>>
  PROVE  /\ Len(q) \in Nat /\ Len(q) > 0
         /\ Head(q) = q[1] /\ q[1] \in S
         /\ Tail(q) \in Seq(S)
         /\ Len(Tail(q)) = Len(q) - 1
         /\ \A i \in 1 .. Len(Tail(q)) : Tail(q)[i] = q[i + 1] /\ i + 1 \in 1 .. Len(q)
         /\ Tail(q) = <<>> <=> Len(q) = 1
<1>1. Len(q) \in Nat /\ Len(q) > 0 /\ Head(q) = q[1] /\ q[1] \in S
  OBVIOUS
<1>2. Tail(q) \in Seq(S) /\ Len(Tail(q)) = Len(q) - 1
  OBVIOUS
<1>3. \A i \in 1 .. Len(Tail(q)) : Tail(q)[i] = q[i + 1] /\ i + 1 \in 1 .. Len(q)
  BY <1>1, <1>2
<1>4. Tail(q) = <<>> <=> Len(q) = 1
  BY <1>1, <1>2
<1> QED BY <1>1, <1>2, <1>3, <1>4

\* A FIFO after one more element is put into it.
LEMMA AppendFacts ==
  ASSUME NEW S, NEW q \in Seq(S), NEW e \in S
  PROVE  /\ Len(q) \in Nat /\ Len(Append(q, e)) = Len(q) + 1
         /\ Append(q, e)[Len(q) + 1] = e
         /\ \A i \in 1 .. Len(q) : Append(q, e)[i] = q[i]
         /\ Len(q) > 0 => Append(q, e)[1] = q[1]
OBVIOUS

\* A step that leaves the rx side alone, and the state of the session the rx side
\* has locked, keeps the rx side's invariant.
LEMMA RxKeep ==
  ASSUME TypeOK, RxInv,
         UNCHANGED <<rx_fsm, rx_rsp, rx_parked, rx_req, rx_lock, deviation>>,
         rx_lock # NoReq => state_table'[rx_lock] = state_table[rx_lock]
  PROVE  RxInv'
<1>1. \A s \in Sessions : s # NoReq
  BY NoReqAssumption
<1>2. \A q \in StateTableReq : RxWrite(q) => RxWrite(q)'
  BY <1>1 DEF RxWrite, StateTableReq
<1>3. rx_req \in Seq(StateTableReq)
  BY DEF TypeOK
<1>4. Len(rx_req) > 0 /\ RxWrite(rx_req[1]) => RxWrite(rx_req[1])'
  <2>1. Len(rx_req) > 0 => rx_req[1] \in StateTableReq
    BY <1>3
  <2> QED BY <1>2, <2>1
<1>5. RxIdle => RxIdle'
  BY <1>4 DEF RxIdle
<1>6. RxQueued => RxQueued'
  BY <1>4 DEF RxQueued
<1>7. RxParked => RxParked'
  BY DEF RxParked
<1>8. RxAnswered => RxAnswered'
  <2>1. RxAnswered => rx_fsm.session_id # NoReq
    BY <1>1 DEF RxAnswered, TypeOK, Segments
  <2> QED BY <2>1 DEF RxAnswered
<1>9. RxLockHeld => RxLockHeld'
  BY <1>4, <1>8 DEF RxLockHeld
<1> QED BY <1>5, <1>6, <1>7, <1>8, <1>9 DEF RxInv, Healthy

\* The same for the tx side.
LEMMA TxKeep ==
  ASSUME TxInv,
         UNCHANGED <<tx_fsm, tx_rsp, tx_parked, tx_req, tx_lock>>,
         tx_lock # NoReq => state_table'[tx_lock] = state_table[tx_lock]
  PROVE  TxInv'
<1>1. CASE TxIdle
  BY <1>1 DEF TxIdle, TxInv, TxLockHeld, TxAnswered
<1>2. CASE TxQueued
  BY <1>2 DEF TxQueued, TxInv, TxLockHeld, TxAnswered
<1>3. CASE TxParked
  BY <1>3 DEF TxParked, TxInv, TxLockHeld, TxAnswered
<1>4. CASE TxAnswered
  <2>1. TxAnswered'
    BY <1>4 DEF TxAnswered
  <2> QED BY <2>1 DEF TxInv, TxLockHeld
<1> QED BY <1>1, <1>2, <1>3, <1>4 DEF TxInv

\* The state table serves a request of the tx side, taken from the queue.
LEMMA InvTxAppReq == IInv /\ TxAppReq => LockExclusion' /\ RxInv' /\ TxInv'
<1> SUFFICES ASSUME IInv, TxAppReq PROVE LockExclusion' /\ RxInv' /\ TxInv'
  OBVIOUS
<1> DEFINE r == tx_req[1]
           n == Len(tx_req)
<1>1. /\ tx_req \in Seq(StateTableReq) /\ tx_req # <<>> /\ tx_parked = NoReq
      /\ tx_req' = Tail(tx_req)
  BY DEF IInv, TypeOK, TxAppReq, TxPending
<1>2. /\ n \in Nat /\ n > 0 /\ Head(tx_req) = r /\ r \in StateTableReq
      /\ Len(tx_req') = n - 1
      /\ \A i \in 1 .. Len(tx_req') : tx_req'[i] = tx_req[i + 1] /\ i + 1 \in 1 .. n
      /\ tx_req' = <<>> <=> n = 1
  BY <1>1, TailFacts
<1>3. r.session_id \in Sessions /\ r.session_id # NoReq /\ r # NoReq
  BY <1>2, NoReqAssumption DEF StateTableReq
<1>4. ~TxAnswered /\ ~TxParked
  BY <1>1 DEF TxAnswered, TxParked
<1>5. ASSUME TxIdle PROVE r.write /\ \A i \in 1 .. Len(tx_req') : tx_req'[i].write
  BY <1>2, <1>5 DEF TxIdle
<1>6. ASSUME TxQueued
      PROVE  /\ r.write <=> n # 1
             /\ \A i \in 1 .. Len(tx_req') : tx_req'[i].write <=> i # Len(tx_req')
             /\ n # 1 => tx_req'[Len(tx_req')].session_id = tx_fsm
             /\ r.write \/ r.session_id = tx_fsm
  <2>1. \A i \in 1 .. n : tx_req[i].write <=> i # n
    BY <1>6 DEF TxQueued
  <2>2. 1 \in 1 .. n
    BY <1>2
  <2>3. r.write <=> n # 1
    BY <2>1, <2>2
  <2>4. \A i \in 1 .. Len(tx_req') : tx_req'[i].write <=> i # Len(tx_req')
    BY <2>1, <1>2
  <2>5. n # 1 => tx_req'[Len(tx_req')].session_id = tx_fsm
    <3>1. n # 1 => Len(tx_req') \in 1 .. Len(tx_req') /\ Len(tx_req') + 1 = n
      BY <1>2
    <3> QED BY <1>2, <1>6, <3>1 DEF TxQueued
  <2> QED BY <1>6, <2>3, <2>4, <2>5 DEF TxQueued
<1>7. CASE r.session_id = rx_lock
  <2>1. /\ tx_parked' = r
        /\ UNCHANGED <<state_table, rx_lock, tx_lock, rx_parked, rx_req, rx_rsp, tx_rsp,
                       rx_fsm, tx_fsm, deviation>>
    BY <1>2, <1>7 DEF TxAppReq, rsps, fsms
  <2>2. LockExclusion'
    BY <2>1 DEF IInv, LockExclusion
  <2>3. RxInv'
    BY <2>1, RxKeep DEF IInv
  <2>4. tx_lock = NoReq
    BY <1>3, <1>4, <1>7 DEF IInv, TxInv, TxLockHeld, LockExclusion
  <2>5. CASE TxIdle
    <3>1. TxIdle'
      BY <1>5, <2>1, <2>5 DEF TxIdle
    <3> QED BY <2>1, <2>2, <2>3, <2>4, <3>1 DEF TxInv, TxLockHeld
  <2>6. CASE TxQueued /\ n = 1
    <3>1. ~r.write /\ r.session_id = tx_fsm
      BY <1>6, <2>6
    <3>2. TxParked'
      BY <1>2, <1>3, <2>1, <2>6, <3>1 DEF TxQueued, TxParked
    <3> QED BY <2>1, <2>2, <2>3, <2>4, <3>2 DEF TxInv, TxLockHeld
  <2>7. CASE TxQueued /\ n # 1
    <3>1. r.write /\ Len(tx_req') > 0
      BY <1>2, <1>6, <2>7
    <3>2. TxQueued'
      BY <1>6, <2>1, <2>7, <3>1 DEF TxQueued
    <3> QED BY <2>1, <2>2, <2>3, <2>4, <3>2 DEF TxInv, TxLockHeld
  <2> QED BY <1>4, <2>5, <2>6, <2>7 DEF IInv, TxInv
<1>8. CASE r.session_id # rx_lock
  <2>1. /\ ServeTx(r) /\ tx_parked' = NoReq
        /\ UNCHANGED <<rx_lock, rx_parked, rx_req, rx_rsp, rx_fsm, tx_fsm, deviation>>
    BY <1>1, <1>2, <1>8 DEF TxAppReq, ServeTx, fsms
  <2>2. rx_lock # NoReq => state_table'[rx_lock] = state_table[rx_lock]
    BY <1>3, <1>8, <2>1 DEF ServeTx, IInv, TypeOK
  <2>3. RxInv'
    BY <2>1, <2>2, RxKeep DEF IInv
  <2>4. CASE r.write
    <3>1. tx_lock' = NoReq /\ tx_rsp' = tx_rsp
      BY <2>1, <2>4 DEF ServeTx
    <3>2. CASE TxIdle
      <4>1. TxIdle'
        BY <1>5, <2>1, <3>1, <3>2 DEF TxIdle
      <4> QED BY <4>1, <3>1, <2>3 DEF TxInv, TxLockHeld, LockExclusion
    <3>3. CASE TxQueued
      <4>1. n # 1 /\ Len(tx_req') > 0
        BY <1>2, <1>6, <2>4, <3>3
      <4>2. TxQueued'
        BY <1>6, <2>1, <3>1, <3>3, <4>1 DEF TxQueued
      <4> QED BY <4>2, <3>1, <2>3 DEF TxInv, TxLockHeld, LockExclusion
    <3> QED BY <1>4, <3>2, <3>3 DEF IInv, TxInv
  <2>5. CASE ~r.write
    <3>1. /\ tx_lock' = r.session_id /\ tx_rsp' = Append(tx_rsp, state_table[r.session_id])
          /\ state_table' = state_table
      BY <2>1, <2>5 DEF ServeTx
    <3>2. TxQueued
      BY <1>4, <1>5, <2>5 DEF IInv, TxInv
    <3>3. n = 1 /\ r.session_id = tx_fsm
      BY <1>6, <2>5, <3>2
    <3>4. TxAnswered'
      <4>1. tx_rsp' = <<state_table[r.session_id]>>
        BY <3>1, <3>2 DEF TxQueued
      <4> QED BY <1>2, <1>3, <2>1, <3>1, <3>2, <3>3, <4>1 DEF TxQueued, TxAnswered
    <3>5. LockExclusion'
      BY <1>3, <1>8, <2>1, <3>1 DEF LockExclusion
    <3> QED BY <2>3, <3>4, <3>5 DEF TxInv, TxLockHeld
  <2> QED BY <2>4, <2>5
<1> QED BY <1>7, <1>8

\* The state table serves a parked request of the tx side.
LEMMA InvRetryTx == IInv /\ RetryTx => LockExclusion' /\ RxInv' /\ TxInv'
<1> SUFFICES ASSUME IInv, RetryTx PROVE LockExclusion' /\ RxInv' /\ TxInv'
  OBVIOUS
<1> DEFINE r == tx_parked
<1>0. /\ r \in StateTableReq /\ r.session_id \in Sessions /\ r.session_id # NoReq
      /\ r # NoReq /\ r.session_id # rx_lock
      /\ ServeTx(r) /\ tx_parked' = NoReq /\ tx_req' = tx_req
      /\ UNCHANGED <<rx_lock, rx_parked, rx_req, rx_rsp, rx_fsm, tx_fsm, deviation>>
  BY NoReqAssumption DEF IInv, TypeOK, RetryTx, ServeTx, fsms, StateTableReq
<1>1. rx_lock # NoReq => state_table'[rx_lock] = state_table[rx_lock]
  BY <1>0 DEF ServeTx, IInv, TypeOK
<1>2. RxInv'
  BY <1>0, <1>1, RxKeep DEF IInv
<1>3. ~TxAnswered
  BY <1>0 DEF TxAnswered
<1>4. CASE r.write
  <2>0. tx_lock' = NoReq /\ tx_rsp' = tx_rsp
    BY <1>0, <1>4 DEF ServeTx
  <2>1. TxIdle \/ TxQueued
    BY <1>0, <1>3, <1>4 DEF IInv, TxInv, TxParked
  <2>2. TxIdle' \/ TxQueued'
    BY <1>0, <2>0, <2>1 DEF TxIdle, TxQueued
  <2> QED BY <1>2, <2>0, <2>2 DEF TxInv, TxLockHeld, LockExclusion
<1>5. CASE ~r.write
  <2>0. /\ tx_lock' = r.session_id /\ tx_rsp' = Append(tx_rsp, state_table[r.session_id])
        /\ state_table' = state_table
    BY <1>0, <1>5 DEF ServeTx
  <2>1. TxParked
    BY <1>0, <1>3, <1>5 DEF IInv, TxInv, TxIdle, TxQueued
  <2>2. TxAnswered'
    BY <1>0, <2>0, <2>1 DEF TxParked, TxAnswered
  <2> QED BY <1>0, <1>2, <2>0, <2>2 DEF TxInv, TxLockHeld, LockExclusion
<1> QED BY <1>4, <1>5

\* The state table serves a request of the rx side, taken from the queue.
LEMMA InvRxEngReq == IInv /\ RxEngReq => LockExclusion' /\ RxInv' /\ TxInv'
<1> SUFFICES ASSUME IInv, RxEngReq PROVE LockExclusion' /\ RxInv' /\ TxInv'
  OBVIOUS
<1> DEFINE r == rx_req[1]
           n == Len(rx_req)
<1>1. /\ rx_req \in Seq(StateTableReq) /\ rx_req # <<>> /\ rx_parked = NoReq
      /\ rx_req' = Tail(rx_req)
  BY DEF IInv, TypeOK, RxEngReq, RxPending
<1>2. /\ n \in Nat /\ n > 0 /\ Head(rx_req) = r /\ r \in StateTableReq
      /\ Len(rx_req') = n - 1
      /\ \A i \in 1 .. Len(rx_req') : rx_req'[i] = rx_req[i + 1] /\ i + 1 \in 1 .. n
      /\ rx_req' = <<>> <=> n = 1
  BY <1>1, TailFacts
<1>3. r.session_id \in Sessions /\ r.session_id # NoReq /\ r # NoReq
  BY <1>2, NoReqAssumption DEF StateTableReq
<1>4. ~RxAnswered /\ ~RxParked
  BY <1>1 DEF RxAnswered, RxParked
<1>5. CASE r.session_id = tx_lock
  <2>1. /\ rx_parked' = r
        /\ UNCHANGED <<state_table, rx_lock, tx_lock, tx_parked, tx_req, rx_rsp, tx_rsp,
                       rx_fsm, tx_fsm, deviation>>
    BY <1>2, <1>5 DEF RxEngReq, rsps, fsms
  <2>2. LockExclusion' /\ TxInv'
    BY <2>1, TxKeep DEF IInv, LockExclusion
  <2>3. ~RxWrite(r)
    BY <1>3, <1>5 DEF IInv, LockExclusion, RxWrite
  <2>4. RxQueued /\ n = 1
    BY <1>2, <1>4, <2>3 DEF IInv, RxInv, RxIdle, RxQueued
  <2>5. RxParked'
    BY <1>2, <1>3, <2>1, <2>4 DEF RxQueued, RxParked
  <2>6. RxLockHeld => rx_lock = NoReq
    BY <1>4, <2>3 DEF RxLockHeld
  <2> QED BY <2>1, <2>2, <2>5, <2>6 DEF IInv, RxInv, RxLockHeld, Healthy
<1>6. CASE r.session_id # tx_lock
  <2>1. /\ ServeRx(r) /\ rx_parked' = NoReq
        /\ UNCHANGED <<tx_lock, tx_parked, tx_req, tx_rsp, rx_fsm, tx_fsm>>
    BY <1>1, <1>2, <1>6 DEF RxEngReq, ServeRx, fsms
  <2>2. tx_lock # NoReq => state_table'[tx_lock] = state_table[tx_lock]
    BY <1>3, <1>6, <2>1 DEF ServeRx, IInv, TypeOK
  <2>3. TxInv'
    BY <2>1, <2>2, TxKeep DEF IInv
  <2>4. CASE r.write
    <3>1. rx_lock' = NoReq /\ rx_rsp' = rx_rsp
      BY <2>1, <2>4 DEF ServeRx
    <3>2. CASE RxIdle
      <4>1. Len(rx_req') = 0
        BY <1>2, <3>2 DEF RxIdle
      <4>2. RxIdle'
        BY <2>1, <3>1, <3>2, <4>1 DEF RxIdle
      <4> QED BY <2>3, <3>1, <4>2 DEF RxInv, RxLockHeld, LockExclusion
    <3>3. CASE RxQueued
      <4>1. n = 2
        BY <1>2, <2>4, <3>3 DEF RxQueued
      <4>2. Len(rx_req') = 1 /\ rx_req'[1] = rx_req[2]
        BY <1>2, <4>1
      <4>3. RxQueued'
        BY <2>1, <3>1, <3>3, <4>1, <4>2 DEF RxQueued
      <4> QED BY <2>3, <3>1, <4>3 DEF RxInv, RxLockHeld, LockExclusion
    <3> QED BY <1>4, <3>2, <3>3 DEF IInv, RxInv
  <2>5. CASE ~r.write
    <3>1. /\ rx_lock' = r.session_id /\ rx_rsp' = Append(rx_rsp, state_table[r.session_id])
          /\ state_table' = state_table
      BY <2>1, <2>5 DEF ServeRx
    <3>2. RxQueued /\ n = 1
      BY <1>2, <1>4, <2>5 DEF IInv, RxInv, RxIdle, RxQueued, RxWrite
    <3>3. rx_rsp' = <<state_table[r.session_id]>>
      BY <3>1, <3>2 DEF RxQueued
    <3>4. RxAnswered'
      BY <1>2, <2>1, <3>1, <3>2, <3>3 DEF RxQueued, RxAnswered
    <3>5. LockExclusion'
      BY <1>3, <1>6, <2>1, <3>1 DEF LockExclusion
    <3> QED BY <2>3, <3>4, <3>5 DEF RxInv, RxLockHeld
  <2> QED BY <2>4, <2>5
<1> QED BY <1>5, <1>6

\* The state table serves a parked request of the rx side.
LEMMA InvRetryRx == IInv /\ RetryRx => LockExclusion' /\ RxInv' /\ TxInv'
<1> SUFFICES ASSUME IInv, RetryRx PROVE LockExclusion' /\ RxInv' /\ TxInv'
  OBVIOUS
<1> DEFINE r == rx_parked
<1>1. /\ r \in StateTableReq /\ r.session_id \in Sessions /\ r.session_id # NoReq
      /\ r # NoReq /\ r.session_id # tx_lock
      /\ ServeRx(r) /\ rx_parked' = NoReq /\ rx_req' = rx_req
      /\ UNCHANGED <<tx_lock, tx_parked, tx_req, tx_rsp, rx_fsm, tx_fsm>>
  BY NoReqAssumption DEF IInv, TypeOK, RetryRx, ServeRx, fsms, StateTableReq
<1>2. RxParked
  BY <1>1 DEF IInv, RxInv, RxIdle, RxQueued, RxAnswered
<1>3. /\ rx_lock' = r.session_id /\ rx_rsp' = Append(rx_rsp, state_table[r.session_id])
      /\ state_table' = state_table
  BY <1>1, <1>2 DEF ServeRx, RxParked
<1>4. rx_rsp' = <<state_table[r.session_id]>>
  BY <1>2, <1>3 DEF RxParked
<1>5. RxAnswered'
  BY <1>1, <1>2, <1>3, <1>4 DEF RxParked, RxAnswered
<1>6. TxInv'
  BY <1>1, <1>3, TxKeep DEF IInv
<1>7. LockExclusion'
  BY <1>1, <1>3 DEF LockExclusion
<1> QED BY <1>5, <1>6, <1>7 DEF RxInv, RxLockHeld

\* A timer's release leaves both sides alone, and the sessions they have locked.
LEMMA InvTimer ==
  IInv /\ (TimerRelease \/ RetryTimer) => LockExclusion' /\ RxInv' /\ TxInv'
<1> SUFFICES ASSUME IInv, TimerRelease \/ RetryTimer
             PROVE  LockExclusion' /\ RxInv' /\ TxInv'
  OBVIOUS
<1>1. UNCHANGED <<rx_fsm, rx_rsp, rx_parked, rx_req, rx_lock,
                  tx_fsm, tx_rsp, tx_parked, tx_req, tx_lock, deviation>>
  BY DEF TimerRelease, RetryTimer, ServeTimer, rsps, fsms
<1>2. \A s : s \notin {rx_lock, tx_lock} /\ ServeTimer(s)
               => /\ rx_lock # NoReq => state_table'[rx_lock] = state_table[rx_lock]
                  /\ tx_lock # NoReq => state_table'[tx_lock] = state_table[tx_lock]
  BY DEF ServeTimer, IInv, TypeOK
<1>3. /\ rx_lock # NoReq => state_table'[rx_lock] = state_table[rx_lock]
      /\ tx_lock # NoReq => state_table'[tx_lock] = state_table[tx_lock]
  <2>1. CASE TimerRelease
    BY <1>2, <2>1 DEF TimerRelease
  <2>2. CASE RetryTimer
    BY <1>2, <2>2 DEF RetryTimer
  <2> QED BY <2>1, <2>2
<1>4. RxInv'
  BY <1>1, <1>3, RxKeep DEF IInv
<1>5. TxInv'
  BY <1>1, <1>3, TxKeep DEF IInv
<1> QED BY <1>1, <1>4, <1>5 DEF IInv, LockExclusion

\* The rx FSM queues its read in LOAD, and its write in TRANSITION.
LEMMA InvRx ==
  IInv /\ (RxLoad \/ RxTransition \/ RxTransitionNoWrite)
    => LockExclusion' /\ RxInv' /\ TxInv'
<1> SUFFICES ASSUME IInv, RxLoad \/ RxTransition \/ RxTransitionNoWrite
             PROVE  LockExclusion' /\ RxInv' /\ TxInv'
  OBVIOUS
<1>1. UNCHANGED <<state_table, rx_lock, rx_parked, tx_fsm, tx_rsp, tx_parked, tx_req, tx_lock>>
  BY DEF RxLoad, RxTransition, RxTransitionNoWrite, table_vars, regs, reqs, rsps
<1>2. TxInv' /\ LockExclusion'
  BY <1>1, TxKeep DEF IInv, LockExclusion
<1>3. /\ rx_req \in Seq(StateTableReq) /\ rx_rsp \in Seq(SessionState)
      /\ rx_fsm # NoReq => rx_fsm \in Segments
      /\ rx_meta \in Seq(Segments)
  BY DEF IInv, TypeOK
<1>4. CASE RxLoad
  <2> DEFINE r == ReadReq(Head(rx_meta).session_id)
  <2>1. /\ rx_req' = Append(rx_req, r) /\ rx_rsp' = rx_rsp
        /\ rx_fsm' = Head(rx_meta) /\ rx_fsm = NoReq /\ rx_meta # <<>>
    BY <1>4 DEF RxLoad, rsps
  <2>2. Head(rx_meta) \in Segments /\ rx_fsm' # NoReq
    BY <1>3, <2>1, NoReqAssumption
  <2>3. RxIdle
    BY <2>1 DEF IInv, RxInv, RxQueued, RxParked, RxAnswered, RxIdle
  <2>4. r \in StateTableReq
    BY <2>2 DEF StateTableReq, Segments, SessionState
  <2>5. /\ Len(rx_req') = Len(rx_req) + 1 /\ rx_req'[Len(rx_req) + 1] = r
        /\ Len(rx_req) = 1 => rx_req'[1] = rx_req[1]
    BY <1>3, <2>1, <2>4, AppendFacts
  <2>6. Len(rx_req) \in {0, 1}
    <3>1. Len(rx_req) \in Nat
      BY <1>3
    <3>2. Len(rx_req) <= 1
      BY <2>3 DEF RxIdle
    <3>3. \A k \in Nat : k <= 1 => k \in {0, 1}
      OBVIOUS
    <3> QED BY <3>1, <3>2, <3>3
  <2>7. Len(rx_req') = 2 => RxWrite(rx_req[1])'
    <3>1. Len(rx_req') = 2 => Len(rx_req) = 1
      <4>1. Len(rx_req') = Len(rx_req) + 1
        BY <2>5
      <4> QED BY <2>6, <4>1
    <3>2. Len(rx_req) = 1 => RxWrite(rx_req[1]) /\ rx_req'[1] = rx_req[1]
      BY <2>3, <2>5 DEF RxIdle
    <3> QED BY <1>1, <3>1, <3>2 DEF RxWrite
  <2>8. RxQueued'
    BY <1>1, <2>1, <2>2, <2>3, <2>5, <2>6, <2>7 DEF RxIdle, RxQueued
  <2>9. RxLockHeld => RxLockHeld'
    <3>1. RxLockHeld => rx_lock = NoReq \/ (Len(rx_req) = 1 /\ RxWrite(rx_req[1]))
      BY <2>1, <2>6 DEF RxLockHeld, RxAnswered
    <3>2. Len(rx_req) = 1 => Len(rx_req') = 2
      <4>1. Len(rx_req') = Len(rx_req) + 1
        BY <2>5
      <4> QED BY <4>1
    <3> QED BY <1>1, <2>7, <3>1, <3>2 DEF RxLockHeld
  <2>10. deviation' = deviation
    BY <1>4 DEF RxLoad
  <2> QED BY <1>2, <2>8, <2>9, <2>10 DEF IInv, RxInv, Healthy
<1>5. CASE RxTransition \/ RxTransitionNoWrite
  <2>1. rx_fsm # NoReq /\ rx_rsp # <<>> /\ rx_rsp' = Tail(rx_rsp) /\ rx_fsm' = NoReq
    BY <1>5 DEF RxTransition, RxTransitionNoWrite
  <2>2. RxAnswered
    BY <2>1 DEF IInv, RxInv, RxIdle, RxQueued, RxParked
  <2>3. rx_rsp' = <<>> /\ Head(rx_rsp) = rx_rsp[1]
    BY <1>3, <2>1, <2>2 DEF RxAnswered
  <2>4. CASE RxTransition
    <3>1. PICK new \in RxOutcomes(rx_fsm.kind, Head(rx_rsp)) :
            rx_req' = Append(rx_req, WriteReq(rx_fsm.session_id, new, Head(rx_rsp)))
      BY <2>4 DEF RxTransition
    <3> DEFINE w == WriteReq(rx_fsm.session_id, new, rx_rsp[1])
    <3>2. rx_req' = <<w>>
      BY <2>2, <2>3, <3>1 DEF RxAnswered
    <3>3. Len(rx_req') = 1 /\ rx_req'[1] = w
      BY <3>2
    <3>5. RxWrite(rx_req[1])'
      BY <1>1, <2>2, <3>3 DEF RxAnswered, RxWrite
    <3>4. RxIdle'
      BY <1>1, <2>1, <2>2, <2>3, <3>3, <3>5 DEF RxAnswered, RxIdle
    <3> QED BY <1>2, <3>3, <3>4, <3>5 DEF RxInv, RxLockHeld
  <2>5. CASE RxTransitionNoWrite
    <3>1. rx_req' = rx_req
      BY <2>5 DEF RxTransitionNoWrite, reqs
    <3>2. RxIdle'
      BY <1>1, <2>1, <2>2, <2>3, <3>1 DEF RxAnswered, RxIdle
    <3>3. ~Healthy'
      BY <2>5 DEF RxTransitionNoWrite, Healthy
    <3> QED BY <1>2, <3>2, <3>3 DEF RxInv
  <2> QED BY <1>5, <2>4, <2>5
<1> QED BY <1>4, <1>5

\* The connection handler writes SYN_SENT, queues the read of close(), and writes
\* back what the read gave.
LEMMA InvTx ==
  IInv /\ (CloseConnRsp \/ \E s \in Sessions : ActiveOpen(s) \/ CloseConn(s))
    => LockExclusion' /\ RxInv' /\ TxInv'
<1> SUFFICES ASSUME IInv, CloseConnRsp \/ \E s \in Sessions : ActiveOpen(s) \/ CloseConn(s)
             PROVE  LockExclusion' /\ RxInv' /\ TxInv'
  OBVIOUS
<1> DEFINE n == Len(tx_req)
<1>1. UNCHANGED <<state_table, tx_lock, tx_parked, rx_fsm, rx_rsp, rx_parked, rx_req, rx_lock,
                deviation>>
  BY DEF CloseConnRsp, ActiveOpen, CloseConn, table_vars, regs, reqs, rsps, fsms
<1>2. RxInv' /\ LockExclusion'
  BY <1>1, RxKeep DEF IInv, LockExclusion
<1>3. /\ tx_req \in Seq(StateTableReq) /\ tx_rsp \in Seq(SessionState)
      /\ tx_fsm # NoReq => tx_fsm \in Sessions
  BY DEF IInv, TypeOK
<1>4. n \in Nat
  BY <1>3
<1>5. ASSUME NEW r \in StateTableReq, tx_req' = Append(tx_req, r)
      PROVE  /\ Len(tx_req') = n + 1 /\ tx_req'[n + 1] = r
             /\ \A i \in 1 .. n : tx_req'[i] = tx_req[i]
             /\ n > 0 => tx_req'[1] = tx_req[1]
  BY <1>3, <1>5, AppendFacts
<1>6. ASSUME tx_fsm = NoReq, NEW r \in StateTableReq, tx_req' = Append(tx_req, r)
      PROVE  /\ TxIdle /\ tx_rsp = <<>>
             /\ \A i \in 1 .. n : tx_req'[i].write
             /\ tx_parked' # NoReq => tx_parked'.write
             /\ tx_lock' # NoReq => /\ tx_parked' = NoReq
                                    /\ Len(tx_req') > 0
                                    /\ tx_req'[1].write /\ tx_req'[1].session_id = tx_lock'
  <2>1. TxIdle /\ ~TxAnswered
    BY <1>6 DEF IInv, TxInv, TxQueued, TxParked, TxAnswered
  <2>2. \A i \in 1 .. n : tx_req'[i].write
    BY <1>5, <1>6, <2>1 DEF TxIdle
  <2>3. tx_lock # NoReq => /\ tx_parked = NoReq /\ n > 0
                           /\ tx_req[1].write /\ tx_req[1].session_id = tx_lock
    BY <2>1 DEF IInv, TxInv, TxLockHeld
  <2>4. Len(tx_req') > 0 /\ (n > 0 => tx_req'[1] = tx_req[1])
    BY <1>4, <1>5, <1>6
  <2> QED BY <1>1, <2>1, <2>2, <2>3, <2>4 DEF TxIdle
<1>7. CASE \E s \in Sessions : ActiveOpen(s)
  <2>1. PICK s \in Sessions : ActiveOpen(s)
    BY <1>7
  <2> DEFINE r == WriteReq(s, "SYN_SENT", "SYN_SENT")
  <2>2. tx_req' = Append(tx_req, r) /\ tx_fsm = NoReq /\ tx_fsm' = tx_fsm /\ tx_rsp' = tx_rsp
    BY <2>1 DEF ActiveOpen, fsms, rsps
  <2>3. r \in StateTableReq /\ r.write
    BY DEF StateTableReq, SessionState
  <2>4. \A i \in 1 .. Len(tx_req') : tx_req'[i].write
    <3>1. Len(tx_req') = n + 1 /\ tx_req'[n + 1] = r /\ \A i \in 1 .. n : tx_req'[i].write
      BY <1>5, <1>6, <2>2, <2>3
    <3>2. \A i \in 1 .. n + 1 : i \in 1 .. n \/ i = n + 1
      BY <1>4
    <3> QED BY <2>3, <3>1, <3>2
  <2>5. TxIdle' /\ TxLockHeld'
    BY <1>6, <2>2, <2>3, <2>4 DEF TxIdle, TxLockHeld
  <2> QED BY <1>2, <2>5 DEF TxInv
<1>8. CASE \E s \in Sessions : CloseConn(s)
  <2>1. PICK s \in Sessions : CloseConn(s)
    BY <1>8
  <2> DEFINE r == ReadReq(s)
  <2>2. tx_req' = Append(tx_req, r) /\ tx_fsm = NoReq /\ tx_fsm' = s /\ tx_rsp' = tx_rsp
    BY <2>1 DEF CloseConn, rsps
  <2>3. r \in StateTableReq /\ ~r.write /\ r.session_id = s /\ s # NoReq
    BY NoReqAssumption DEF StateTableReq, SessionState
  <2>4. /\ Len(tx_req') = n + 1 /\ tx_req'[n + 1] = r
        /\ \A i \in 1 .. n : tx_req'[i].write
    BY <1>5, <1>6, <2>2, <2>3
  <2>5. \A i \in 1 .. Len(tx_req') : tx_req'[i].write <=> i # Len(tx_req')
    <3>1. \A i \in 1 .. n + 1 : (i \in 1 .. n /\ i # n + 1) \/ i = n + 1
      BY <1>4
    <3> QED BY <2>3, <2>4, <3>1
  <2>6. Len(tx_req') > 0
    BY <1>4, <2>4
  <2>7. TxQueued' /\ TxLockHeld'
    BY <1>6, <2>2, <2>3, <2>4, <2>5, <2>6 DEF TxQueued, TxLockHeld
  <2> QED BY <1>2, <2>7 DEF TxInv
<1>9. CASE CloseConnRsp
  <2> DEFINE r == WriteReq(tx_fsm, TxOutcome(Head(tx_rsp)), Head(tx_rsp))
  <2>1. /\ tx_fsm # NoReq /\ tx_rsp # <<>> /\ tx_req' = Append(tx_req, r)
        /\ tx_rsp' = Tail(tx_rsp) /\ tx_fsm' = NoReq
    BY <1>9 DEF CloseConnRsp
  <2>2. TxAnswered
    BY <2>1 DEF IInv, TxInv, TxIdle, TxQueued, TxParked
  <2>3. tx_rsp' = <<>>
    BY <1>3, <2>1, <2>2 DEF TxAnswered
  <2>4. tx_req' = <<r>>
    BY <2>1, <2>2 DEF TxAnswered
  <2>5. Len(tx_req') = 1 /\ tx_req'[1] = r /\ r.write /\ r.session_id = tx_fsm
    BY <2>4
  <2>6. \A i \in 1 .. Len(tx_req') : tx_req'[i].write
    BY <2>5
  <2>7. TxIdle'
    BY <1>1, <2>1, <2>2, <2>3, <2>6 DEF TxIdle, TxAnswered
  <2>8. TxLockHeld'
    BY <1>1, <2>2, <2>5 DEF TxLockHeld, TxAnswered
  <2> QED BY <1>2, <2>7, <2>8 DEF TxInv
<1> QED BY <1>7, <1>8, <1>9

\* Every step keeps the invariant.
LEMMA InvNext == IInv /\ [Next]_vars => IInv'
<1> SUFFICES ASSUME IInv, [Next]_vars PROVE IInv'
  OBVIOUS
<1>1. TypeOK'
  BY TypeNext DEF IInv
<1>2. ASSUME UNCHANGED <<state_table, rx_lock, tx_lock, rx_parked, tx_parked, rx_req, tx_req,
                         rx_rsp, tx_rsp, rx_fsm, tx_fsm, deviation>>
      PROVE  LockExclusion' /\ RxInv' /\ TxInv'
  BY <1>2, RxKeep, TxKeep DEF IInv, LockExclusion
<1>3. ASSUME TxAppLookup \/ DataLookupRsp \/ SlookupRelease
      PROVE  LockExclusion' /\ RxInv' /\ TxInv'
  BY <1>2, <1>3 DEF TxAppLookup, DataLookupRsp, SlookupRelease, table_vars, regs, reqs,
                    rsps, fsms
<1>4. ASSUME NEW s \in Sessions,
             DataLookup(s) \/ Timeout(s) \/ \E kind \in Kinds : Segment(s, kind)
      PROVE  LockExclusion' /\ RxInv' /\ TxInv'
  BY <1>2, <1>4 DEF DataLookup, Timeout, Segment, table_vars, regs, reqs, rsps, fsms
<1>5. ASSUME UNCHANGED vars PROVE LockExclusion' /\ RxInv' /\ TxInv'
  BY <1>2, <1>5 DEF vars, regs, reqs, rsps, fsms
<1>6. LockExclusion' /\ RxInv' /\ TxInv'
  BY <1>3, <1>4, <1>5, InvTxAppReq, InvRetryTx, InvRxEngReq, InvRetryRx, InvTimer, InvRx, InvTx
     DEF Next, Table, Clients, Inputs
<1> QED BY <1>1, <1>6 DEF IInv

\* The invariant holds in every reachable state.
LEMMA InvCorrect == Spec => []IInv
<1>1. IInv /\ [Next]_vars => IInv'
  BY InvNext
<1> QED BY <1>1, InvInit, PTL DEF Spec

\* LockExclusion: for any number of sessions, any FIFO depth and any interleaving of
\* the engines, the application and the timers, state_table never lets the rx
\* engine and the tx application interface lock the same session.
THEOREM LocksExclusive == Spec => []LockExclusion
<1>1. IInv => LockExclusion
  BY DEF IInv
<1> QED BY <1>1, InvCorrect, PTL

\* ReadsStayFresh: a state that was read from state_table is still the state in
\* the table when the write computed from it is queued.
THEOREM ReadsFresh == Spec => []ReadsStayFresh
<1>1. ASSUME IInv PROVE ReadsStayFresh
  <2>1. rx_req \in Seq(StateTableReq) /\ rx_rsp \in Seq(SessionState) /\ tx_rsp \in Seq(SessionState)
    BY <1>1 DEF IInv, TypeOK
  <2>2. rx_fsm # NoReq /\ rx_rsp # <<>> => state_table[rx_fsm.session_id] = Head(rx_rsp)
    <3>1. rx_fsm # NoReq /\ rx_rsp # <<>> => RxAnswered
      BY <1>1 DEF IInv, RxInv, RxIdle, RxQueued, RxParked
    <3>2. rx_rsp # <<>> => Head(rx_rsp) = rx_rsp[1]
      BY <2>1
    <3> QED BY <3>1, <3>2 DEF RxAnswered
  <2>3. tx_fsm # NoReq /\ tx_rsp # <<>> => state_table[tx_fsm] = Head(tx_rsp)
    <3>1. tx_fsm # NoReq /\ tx_rsp # <<>> => TxAnswered
      BY <1>1 DEF IInv, TxInv, TxIdle, TxQueued, TxParked
    <3>2. tx_rsp # <<>> => Head(tx_rsp) = tx_rsp[1]
      BY <2>1
    <3> QED BY <3>1, <3>2 DEF TxAnswered
  <2>4. ASSUME NEW i \in DOMAIN rx_req, rx_req[i].write
        PROVE  state_table[rx_req[i].session_id] = rx_req[i].basis
    <3>1. i \in 1 .. Len(rx_req) /\ Len(rx_req) \in Nat /\ Len(rx_req) # 0
      BY <2>1
    <3>2. RxIdle \/ RxQueued
      BY <1>1, <3>1 DEF IInv, RxInv, RxParked, RxAnswered
    <3>3. CASE RxIdle
      <4>1. i = 1 /\ Len(rx_req) = 1
        <5>1. Len(rx_req) <= 1
          BY <3>3 DEF RxIdle
        <5>2. \A k \in Nat : \A j \in 1 .. k : k <= 1 => j = 1 /\ k = 1
          OBVIOUS
        <5> QED BY <3>1, <5>1, <5>2
      <4> QED BY <3>3, <4>1 DEF RxIdle, RxWrite
    <3>4. CASE RxQueued
      <4>1. i = 1 /\ Len(rx_req) = 2
        BY <2>4, <3>1, <3>4 DEF RxQueued
      <4> QED BY <3>4, <4>1 DEF RxQueued, RxWrite
    <3> QED BY <3>2, <3>3, <3>4
  <2> QED BY <2>2, <2>3, <2>4 DEF ReadsStayFresh
<1> QED BY <1>1, InvCorrect, PTL

\* NoMutualWait: as long as no ACK outside the send window has left a lock behind,
\* state_table never parks a request of the rx engine while a parked request of the
\* application waits for the rx engine's lock.
THEOREM NoDeadlock == Spec => []NoMutualWait
<1>1. ASSUME IInv PROVE NoMutualWait
  <2>1. Healthy /\ rx_parked # NoReq => rx_lock = NoReq
    BY <1>1 DEF IInv, RxInv, RxIdle, RxQueued, RxParked, RxAnswered, RxLockHeld
  <2>2. tx_parked # NoReq => tx_parked.session_id # NoReq
    BY <1>1, NoReqAssumption DEF IInv, TypeOK, StateTableReq
  <2> QED BY <2>1, <2>2 DEF NoMutualWait
<1> QED BY <1>1, InvCorrect, PTL
-----------------------------------------------------------------------------
(* Every change of a state is a step of the connection diagram: what the     *)
(* queued writes were decided on.                                           *)

\* A write of the rx engine is one of its outcomes for the state it has read.
RxReqs ==
  {r \in StateTableReq : r.write => \E kind \in Kinds : r.state \in RxOutcomes(kind, r.basis)}

\* The write of a close, whose session is locked and has the state it was read in.
ClosingWrite(r) ==
  tx_lock = r.session_id /\ state_table[r.session_id] = r.basis /\ r.state = TxOutcome(r.basis)

\* A write of the connection handler opens a connection, or it is the write of a close:
\* then it is the next request the table takes.
TxWrites ==
  /\ \A i \in 1 .. Len(tx_req) :
       tx_req[i].write => \/ tx_req[i].state = "SYN_SENT"
                          \/ i = 1 /\ tx_parked = NoReq /\ ClosingWrite(tx_req[i])
  /\ tx_parked # NoReq /\ tx_parked.write => tx_parked.state = "SYN_SENT"

DInv == IInv /\ rx_req \in Seq(RxReqs) /\ TxWrites

\* What the step of StepsFollowDiagram says.
DiagramStep ==
  \A s \in Sessions :
    state_table'[s] # state_table[s] => Diagram(state_table[s], state_table'[s])

\* A step that leaves the requests of the connection handler alone, and the state of the
\* session it has locked.
LEMMA TxWritesKeep ==
  ASSUME IInv, TxWrites, UNCHANGED <<tx_req, tx_parked, tx_lock>>,
         tx_lock # NoReq => state_table'[tx_lock] = state_table[tx_lock]
  PROVE  TxWrites'
<1>1. /\ tx_req \in Seq(StateTableReq)
      /\ \A r \in StateTableReq : r.session_id # NoReq
  BY NoReqAssumption DEF IInv, TypeOK, StateTableReq
<1>2. \A i \in 1 .. Len(tx_req) : tx_req[i].session_id # NoReq
  BY <1>1
<1>3. \A i \in 1 .. Len(tx_req) : ClosingWrite(tx_req[i]) => ClosingWrite(tx_req[i])'
  BY <1>2 DEF ClosingWrite
<1> QED BY <1>3 DEF TxWrites

\* One entry of the table is written.
LEMMA OneEntry ==
  ASSUME TypeOK, NEW x \in Sessions, NEW st \in SessionState,
         state_table' = [state_table EXCEPT ![x] = st],
         st # state_table[x] => Diagram(state_table[x], st)
  PROVE  DiagramStep
BY DEF TypeOK, DiagramStep

LEMMA SameTable == ASSUME UNCHANGED state_table PROVE DiagramStep
BY DEF DiagramStep

\* The table serves a request of the connection handler.
LEMMA ServeTxDiagram ==
  ASSUME IInv, NEW r \in StateTableReq, ServeTx(r),
         r.write => r.state = "SYN_SENT" \/ ClosingWrite(r)
  PROVE  DiagramStep
<1>1. r.session_id \in Sessions /\ r.state \in SessionState
  BY DEF StateTableReq
<1>2. CASE r.write
  <2>1. state_table' = [state_table EXCEPT ![r.session_id] = r.state]
    BY <1>2 DEF ServeTx
  <2>2. r.state # state_table[r.session_id] => Diagram(state_table[r.session_id], r.state)
    BY <1>2 DEF Diagram, ClosingWrite, TxOutcome
  <2> QED BY <1>1, <2>1, <2>2, OneEntry DEF IInv
<1>3. CASE ~r.write
  BY <1>3, SameTable DEF ServeTx
<1> QED BY <1>2, <1>3

LEMMA TxAppReqDiagram ==
  ASSUME DInv, TxAppReq
  PROVE  rx_req' \in Seq(RxReqs) /\ TxWrites' /\ DiagramStep
<1> DEFINE r == tx_req[1]
           n == Len(tx_req)
<1>1. /\ tx_req \in Seq(StateTableReq) /\ tx_req # <<>> /\ tx_parked = NoReq
      /\ tx_req' = Tail(tx_req) /\ rx_req \in Seq(RxReqs)
  BY DEF DInv, IInv, TypeOK, TxAppReq, TxPending
<1>2. /\ n \in Nat /\ n > 0 /\ Head(tx_req) = r /\ r \in StateTableReq
      /\ \A i \in 1 .. Len(tx_req') : tx_req'[i] = tx_req[i + 1] /\ i + 1 \in 1 .. n
  BY <1>1, TailFacts
<1>3. r.session_id \in Sessions /\ r.session_id # NoReq
  BY <1>2, NoReqAssumption DEF StateTableReq
<1>4. r.write => r.state = "SYN_SENT" \/ ClosingWrite(r)
  <2>1. 1 \in 1 .. n
    BY <1>2
  <2> QED BY <2>1 DEF DInv, TxWrites
<1>5. \A i \in 1 .. Len(tx_req') : tx_req'[i].write => tx_req'[i].state = "SYN_SENT"
  <2>1. \A i \in 1 .. Len(tx_req') : i + 1 # 1
    OBVIOUS
  <2> QED BY <1>2, <2>1 DEF DInv, TxWrites
<1>6. CASE r.session_id = rx_lock
  <2>1. tx_parked' = r /\ UNCHANGED <<state_table, rx_req>>
    BY <1>2, <1>6 DEF TxAppReq
  <2>2. r.write => r.state = "SYN_SENT"
    BY <1>3, <1>4, <1>6 DEF ClosingWrite, DInv, IInv, LockExclusion
  <2> QED BY <1>1, <1>5, <2>1, <2>2, SameTable DEF TxWrites
<1>7. CASE r.session_id # rx_lock
  <2>1. ServeTx(r) /\ tx_parked' = tx_parked
    BY <1>2, <1>7 DEF TxAppReq
  <2>2. rx_req' = rx_req
    BY <2>1 DEF ServeTx
  <2>3. DiagramStep
    BY <1>2, <1>4, <2>1, ServeTxDiagram DEF DInv
  <2> QED BY <1>1, <1>5, <2>1, <2>2, <2>3 DEF TxWrites
<1> QED BY <1>6, <1>7

LEMMA RetryTxDiagram ==
  ASSUME DInv, RetryTx
  PROVE  rx_req' \in Seq(RxReqs) /\ TxWrites' /\ DiagramStep
<1>1. /\ tx_parked \in StateTableReq /\ tx_parked # NoReq /\ ServeTx(tx_parked)
      /\ tx_parked' = NoReq /\ tx_req' = tx_req
  BY DEF DInv, IInv, TypeOK, RetryTx
<1>2. rx_req' = rx_req
  BY <1>1 DEF ServeTx
<1>3. \A i \in 1 .. Len(tx_req) : tx_req[i].write => tx_req[i].state = "SYN_SENT"
  BY <1>1 DEF DInv, TxWrites
<1>4. TxWrites'
  BY <1>1, <1>3 DEF TxWrites
<1>5. DiagramStep
  BY <1>1, ServeTxDiagram DEF DInv, TxWrites
<1> QED BY <1>2, <1>4, <1>5 DEF DInv

\* The table serves a request of the rx engine whose session is not locked by the
\* connection handler.
LEMMA ServeRxDiagram ==
  ASSUME DInv, NEW r \in StateTableReq, ServeRx(r), r.session_id # tx_lock,
         UNCHANGED <<tx_req, tx_parked>>, r.write => r \in RxReqs /\ RxWrite(r)
  PROVE  TxWrites' /\ DiagramStep
<1>1. r.session_id \in Sessions /\ r.state \in SessionState
  BY DEF StateTableReq
<1>2. tx_lock' = tx_lock /\ (tx_lock # NoReq => tx_lock \in Sessions)
  BY DEF ServeRx, DInv, IInv, TypeOK
<1>3. state_table \in [Sessions -> SessionState]
  BY DEF DInv, IInv, TypeOK
<1>4. CASE r.write
  <2>1. state_table' = [state_table EXCEPT ![r.session_id] = r.state]
    BY <1>4 DEF ServeRx
  <2>2. Diagram(state_table[r.session_id], r.state)
    BY <1>4 DEF Diagram, RxWrite, RxReqs
  <2>3. tx_lock # NoReq => state_table'[tx_lock] = state_table[tx_lock]
    BY <1>1, <1>2, <1>3, <2>1
  <2>4. DiagramStep
    BY <1>1, <2>1, <2>2, OneEntry DEF DInv, IInv
  <2> QED BY <1>2, <2>3, <2>4, TxWritesKeep DEF DInv
<1>5. CASE ~r.write
  <2>1. state_table' = state_table
    BY <1>5 DEF ServeRx
  <2> QED BY <1>2, <2>1, TxWritesKeep, SameTable DEF DInv
<1> QED BY <1>4, <1>5

LEMMA RxEngReqDiagram ==
  ASSUME DInv, RxEngReq
  PROVE  rx_req' \in Seq(RxReqs) /\ TxWrites' /\ DiagramStep
<1> DEFINE r == rx_req[1]
<1>1. /\ rx_req \in Seq(RxReqs) /\ rx_req # <<>> /\ rx_parked = NoReq
      /\ rx_req' = Tail(rx_req)
  BY DEF DInv, RxEngReq, RxPending
<1>2. Head(rx_req) = r /\ r \in RxReqs /\ rx_req' \in Seq(RxReqs) /\ Len(rx_req) > 0
  BY <1>1, TailFacts
<1>3. r \in StateTableReq
  BY <1>2 DEF RxReqs
<1>4. r.write => RxWrite(r)
  <2>1. RxIdle \/ RxQueued
    BY <1>1 DEF DInv, IInv, RxInv, RxParked, RxAnswered
  <2>2. Len(rx_req) \in Nat /\ Len(rx_req) # 0
    BY <1>1, TailFacts
  <2>3. CASE RxIdle
    <3>1. Len(rx_req) <= 1
      BY <2>3 DEF RxIdle
    <3>2. Len(rx_req) = 1
      <4>1. \A k \in Nat : k # 0 /\ k <= 1 => k = 1
        OBVIOUS
      <4> QED BY <2>2, <3>1, <4>1
    <3> QED BY <2>3, <3>2 DEF RxIdle
  <2>4. CASE RxQueued
    BY <2>4 DEF RxQueued
  <2> QED BY <2>1, <2>3, <2>4
<1>5. CASE r.session_id = tx_lock
  <2>1. UNCHANGED <<state_table, tx_req, tx_parked, tx_lock>>
    BY <1>2, <1>5 DEF RxEngReq
  <2> QED BY <1>2, <2>1, TxWritesKeep, SameTable DEF DInv
<1>6. CASE r.session_id # tx_lock
  <2>1. ServeRx(r)
    BY <1>2, <1>6 DEF RxEngReq
  <2>2. UNCHANGED <<tx_req, tx_parked>>
    BY <2>1 DEF ServeRx
  <2> QED BY <1>2, <1>3, <1>4, <1>6, <2>1, <2>2, ServeRxDiagram
<1> QED BY <1>5, <1>6

LEMMA RetryRxDiagram ==
  ASSUME DInv, RetryRx
  PROVE  rx_req' \in Seq(RxReqs) /\ TxWrites' /\ DiagramStep
<1>1. /\ rx_parked \in StateTableReq /\ ServeRx(rx_parked) /\ rx_parked.session_id # tx_lock
      /\ UNCHANGED <<rx_req, tx_req, tx_parked>>
  BY DEF DInv, IInv, TypeOK, RetryRx, ServeRx
<1>2. ~rx_parked.write
  BY DEF DInv, IInv, RxInv, RxIdle, RxQueued, RxParked, RxAnswered, RetryRx
<1> QED BY <1>1, <1>2, ServeRxDiagram DEF DInv

\* The timers close a session nobody has locked.
LEMMA TimerDiagram ==
  ASSUME DInv, TimerRelease \/ RetryTimer
  PROVE  rx_req' \in Seq(RxReqs) /\ TxWrites' /\ DiagramStep
<1>1. UNCHANGED <<rx_req, tx_req, tx_parked, tx_lock>>
  BY DEF TimerRelease, RetryTimer, ServeTimer
<1>2. ASSUME NEW s \in Sessions, ServeTimer(s), s # tx_lock PROVE TxWrites' /\ DiagramStep
  <2>1. /\ state_table' = [state_table EXCEPT ![s] = "CLOSED"] /\ "CLOSED" \in SessionState
        /\ state_table \in [Sessions -> SessionState]
        /\ tx_lock # NoReq => tx_lock \in Sessions
    BY <1>2 DEF ServeTimer, DInv, IInv, TypeOK, SessionState
  <2>2. tx_lock # NoReq => state_table'[tx_lock] = state_table[tx_lock]
    BY <1>2, <2>1
  <2>3. Diagram(state_table[s], "CLOSED")
    BY DEF Diagram
  <2> QED BY <1>1, <2>1, <2>2, <2>3, OneEntry, TxWritesKeep DEF DInv, IInv
<1>3. CASE TimerRelease
  <2>1. Head(timer_req) \in Sessions
    BY <1>3 DEF TimerRelease, TimerPending, DInv, IInv, TypeOK
  <2>2. CASE Head(timer_req) \in {rx_lock, tx_lock}
    <3>1. UNCHANGED state_table
      BY <1>3, <2>2 DEF TimerRelease
    <3> QED BY <1>1, <3>1, TxWritesKeep, SameTable DEF DInv
  <2>3. CASE Head(timer_req) \notin {rx_lock, tx_lock}
    <3>1. ServeTimer(Head(timer_req)) /\ Head(timer_req) # tx_lock
      BY <1>3, <2>3 DEF TimerRelease
    <3> QED BY <1>1, <1>2, <2>1, <3>1 DEF DInv
  <2> QED BY <2>2, <2>3
<1>4. CASE RetryTimer
  <2>1. timer_parked \in Sessions /\ ServeTimer(timer_parked) /\ timer_parked # tx_lock
    BY <1>4 DEF RetryTimer, DInv, IInv, TypeOK
  <2> QED BY <1>1, <1>2, <2>1 DEF DInv
<1> QED BY <1>3, <1>4

\* The rx engine queues its read and the outcome of its segment.
LEMMA RxDiagram ==
  ASSUME DInv, RxLoad \/ RxTransition \/ RxTransitionNoWrite
  PROVE  rx_req' \in Seq(RxReqs) /\ TxWrites' /\ DiagramStep
<1> SUFFICES rx_req' \in Seq(RxReqs)
  <2>1. UNCHANGED <<state_table, tx_req, tx_parked, tx_lock>>
    BY DEF RxLoad, RxTransition, RxTransitionNoWrite, table_vars, regs, reqs
  <2> QED BY <2>1, TxWritesKeep, SameTable DEF DInv
<1>2. /\ rx_req \in Seq(RxReqs) /\ rx_rsp \in Seq(SessionState) /\ rx_meta \in Seq(Segments)
      /\ rx_fsm # NoReq => rx_fsm \in Segments
  BY DEF DInv, IInv, TypeOK
<1>3. CASE RxLoad
  <2>1. Head(rx_meta) \in Segments
    BY <1>2, <1>3 DEF RxLoad
  <2>2. PICK r : r = ReadReq(Head(rx_meta).session_id)
    OBVIOUS
  <2>3. Head(rx_meta).session_id \in Sessions /\ "CLOSED" \in SessionState
    BY <2>1 DEF Segments, SessionState
  <2>4. r \in StateTableReq /\ ~r.write
    BY <2>2, <2>3, ReqType DEF ReadReq
  <2>5. r \in RxReqs
    BY <2>4 DEF RxReqs
  <2> QED BY <1>2, <1>3, <2>2, <2>5 DEF RxLoad
<1>4. CASE RxTransition
  <2>1. PICK new \in RxOutcomes(rx_fsm.kind, Head(rx_rsp)) :
          rx_req' = Append(rx_req, WriteReq(rx_fsm.session_id, new, Head(rx_rsp)))
    BY <1>4 DEF RxTransition
  <2>2. /\ rx_fsm.session_id \in Sessions /\ rx_fsm.kind \in Kinds
        /\ Head(rx_rsp) \in SessionState
    BY <1>2, <1>4 DEF RxTransition, Segments
  <2>3. PICK r : r = WriteReq(rx_fsm.session_id, new, Head(rx_rsp))
    OBVIOUS
  <2>4. r \in StateTableReq
    BY <2>1, <2>2, <2>3, ReqType, RxOutcomesType
  <2>5. r.state = new /\ r.basis = Head(rx_rsp)
    BY <2>3 DEF WriteReq
  <2>6. r \in RxReqs
    BY <2>1, <2>2, <2>4, <2>5 DEF RxReqs
  <2> QED BY <1>2, <2>1, <2>3, <2>6
<1>5. CASE RxTransitionNoWrite
  BY <1>2, <1>5 DEF RxTransitionNoWrite, reqs
<1> QED BY <1>3, <1>4, <1>5

\* The connection handler opens, reads for a close and writes what the close makes of it.
LEMMA TxDiagram ==
  ASSUME DInv, CloseConnRsp \/ \E s \in Sessions : ActiveOpen(s) \/ CloseConn(s)
  PROVE  rx_req' \in Seq(RxReqs) /\ TxWrites' /\ DiagramStep
<1>1. UNCHANGED <<state_table, tx_lock, tx_parked, rx_req>>
  BY DEF CloseConnRsp, ActiveOpen, CloseConn, table_vars, regs
<1>2. tx_req \in Seq(StateTableReq) /\ Len(tx_req) \in Nat
  BY DEF DInv, IInv, TypeOK
<1>3. ASSUME NEW r \in StateTableReq, tx_req' = Append(tx_req, r),
             r.write => r.state = "SYN_SENT"
      PROVE  TxWrites'
  <2> DEFINE n == Len(tx_req)
  <2>1. /\ Len(tx_req') = n + 1 /\ tx_req'[n + 1] = r
        /\ \A i \in 1 .. n : tx_req'[i] = tx_req[i]
    BY <1>2, <1>3, AppendFacts
  <2>2. \A i \in 1 .. n + 1 : i \in 1 .. n \/ i = n + 1
    BY <1>2
  <2>3. \A i \in 1 .. n : ClosingWrite(tx_req[i]) => ClosingWrite(tx_req[i])'
    BY <1>1, <2>1 DEF ClosingWrite
  <2>4. ASSUME NEW i \in 1 .. Len(tx_req'), tx_req'[i].write
        PROVE  \/ tx_req'[i].state = "SYN_SENT"
               \/ i = 1 /\ tx_parked' = NoReq /\ ClosingWrite(tx_req[i])'
    <3>1. i \in 1 .. n \/ i = n + 1
      BY <2>1, <2>2
    <3>2. CASE i = n + 1
      BY <1>3, <2>1, <2>4, <3>2
    <3>3. CASE i \in 1 .. n
      BY <1>1, <2>1, <2>3, <2>4, <3>3 DEF DInv, TxWrites
    <3> QED BY <3>1, <3>2, <3>3
  <2> QED BY <1>1, <2>4 DEF DInv, TxWrites
<1>4. CASE \E s \in Sessions : ActiveOpen(s)
  <2>1. PICK s \in Sessions : ActiveOpen(s)
    BY <1>4
  <2>2. PICK r : r = WriteReq(s, "SYN_SENT", "SYN_SENT")
    OBVIOUS
  <2>3. r \in StateTableReq
    BY <2>2, ReqType DEF SessionState
  <2>4. r.state = "SYN_SENT" /\ tx_req' = Append(tx_req, r)
    BY <2>1, <2>2 DEF WriteReq, ActiveOpen
  <2> QED BY <1>1, <1>3, <2>3, <2>4, SameTable DEF DInv
<1>5. CASE \E s \in Sessions : CloseConn(s)
  <2>1. PICK s \in Sessions : CloseConn(s)
    BY <1>5
  <2>2. PICK r : r = ReadReq(s)
    OBVIOUS
  <2>3. r \in StateTableReq
    BY <2>2, ReqType DEF SessionState
  <2>4. ~r.write /\ tx_req' = Append(tx_req, r)
    BY <2>1, <2>2 DEF ReadReq, CloseConn
  <2> QED BY <1>1, <1>3, <2>3, <2>4, SameTable DEF DInv
<1>6. CASE CloseConnRsp
  <2>1. PICK st : st = Head(tx_rsp)
    OBVIOUS
  <2>2. PICK r : r = WriteReq(tx_fsm, TxOutcome(st), st)
    OBVIOUS
  <2>3. tx_fsm # NoReq /\ tx_rsp # <<>> /\ tx_req' = Append(tx_req, r)
    BY <1>6, <2>1, <2>2 DEF CloseConnRsp
  <2>4. TxAnswered
    BY <2>3 DEF DInv, IInv, TxInv, TxIdle, TxQueued, TxParked
  <2>5. tx_req' = <<r>> /\ st = tx_rsp[1]
    BY <2>1, <2>3, <2>4 DEF TxAnswered, DInv, IInv, TypeOK
  <2>6. r.session_id = tx_fsm /\ r.state = TxOutcome(st) /\ r.basis = st
    BY <2>2 DEF WriteReq
  <2>7. ClosingWrite(r)'
    BY <1>1, <2>4, <2>5, <2>6 DEF ClosingWrite, TxAnswered
  <2>8. Len(tx_req') = 1 /\ tx_req'[1] = r
    BY <2>5
  <2>9. tx_parked' = NoReq
    BY <1>1, <2>4 DEF TxAnswered
  <2>10. \A i \in 1 .. Len(tx_req') : i = 1 /\ tx_req'[i] = r
    BY <2>8
  <2>11. TxWrites'
    BY <2>7, <2>9, <2>10 DEF TxWrites, ClosingWrite
  <2> QED BY <1>1, <2>11, SameTable DEF DInv
<1> QED BY <1>4, <1>5, <1>6

LEMMA DInvNext == DInv /\ [Next]_vars => DInv' /\ DiagramStep
<1> SUFFICES ASSUME DInv, [Next]_vars PROVE DInv' /\ DiagramStep
  OBVIOUS
<1>1. IInv'
  BY InvNext DEF DInv
<1>2. ASSUME UNCHANGED <<state_table, rx_req, tx_req, tx_parked, tx_lock>>
      PROVE  rx_req' \in Seq(RxReqs) /\ TxWrites' /\ DiagramStep
  BY <1>2, TxWritesKeep, SameTable DEF DInv
<1>3. ASSUME TxAppLookup \/ DataLookupRsp \/ SlookupRelease
      PROVE  rx_req' \in Seq(RxReqs) /\ TxWrites' /\ DiagramStep
  BY <1>2, <1>3 DEF TxAppLookup, DataLookupRsp, SlookupRelease, table_vars, regs, reqs
<1>4. ASSUME NEW s \in Sessions,
             DataLookup(s) \/ Timeout(s) \/ \E kind \in Kinds : Segment(s, kind)
      PROVE  rx_req' \in Seq(RxReqs) /\ TxWrites' /\ DiagramStep
  BY <1>2, <1>4 DEF DataLookup, Timeout, Segment, table_vars, regs, reqs
<1>5. ASSUME UNCHANGED vars PROVE rx_req' \in Seq(RxReqs) /\ TxWrites' /\ DiagramStep
  BY <1>2, <1>5 DEF vars, regs, reqs
<1>6. rx_req' \in Seq(RxReqs) /\ TxWrites' /\ DiagramStep
  BY <1>3, <1>4, <1>5, TxAppReqDiagram, RetryTxDiagram, RxEngReqDiagram, RetryRxDiagram,
     TimerDiagram, RxDiagram, TxDiagram DEF Next, Table, Clients, Inputs
<1> QED BY <1>1, <1>6 DEF DInv

\* StepsFollowDiagram: though state_table writes blindly what a client decided on cycles
\* earlier, every change of an entry is a step of the connection diagram from the state the
\* entry has at that moment.
THEOREM DiagramFollowed == Spec => StepsFollowDiagram
<1>1. Init => DInv
  <2>1. ASSUME Init PROVE rx_req \in Seq(RxReqs) /\ TxWrites
    BY <2>1 DEF Init, TxWrites
  <2> QED BY <2>1, InvInit DEF DInv
<1>2. DInv /\ [Next]_vars => DInv'
  BY DInvNext
<1>3. DInv /\ [Next]_vars => [DiagramStep]_vars
  BY DInvNext
<1> QED BY <1>1, <1>2, <1>3, PTL DEF Spec, StepsFollowDiagram, DiagramStep
=============================================================================
