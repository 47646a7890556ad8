------------------------------ MODULE StateTable ------------------------------
(***************************************************************************)
(* state_table.cpp: the connection state of every session, read and        *)
(* written by three processes.  The rx engine and the connection handler   *)
(* of the tx application interface do a read-modify-write: a read locks    *)
(* the session, the write that follows unlocks it.  The timers force a     *)
(* session to CLOSED.  A request for a session the other side has locked   *)
(* is parked in a register and retried.                                    *)
(*                                                                         *)
(* The clients are modelled as far as the table sees them: what the rx     *)
(* engine's FSM writes after it has read a state (RxOutcomes), what the    *)
(* connection handler writes, and the session lookup controller that hands *)
(* out session ids and takes back the released ones.  Every process runs   *)
(* in every clock cycle; a step of one process is one action.              *)
(***************************************************************************)
EXTENDS Naturals, Sequences, FiniteSets

CONSTANTS
  Sessions,        \* session ids (TCP_MAX_SESSIONS of them)
  NoReq,           \* an empty register
  Depth,           \* capacity of every FIFO (toe.cpp: 4)
  MaxInputs        \* bound on the number of inputs from outside

ASSUME DepthAssumption == Depth \in Nat \ {0}
ASSUME MaxInputsAssumption == MaxInputs \in Nat

\* SessionState of toe_conn.hpp; CLOSE_WAIT and FIN_WAIT_2 are never written.
SessionState == {"CLOSED", "SYN_SENT", "SYN_RECEIVED", "ESTABLISHED",
                 "FIN_WAIT_1", "CLOSING", "TIME_WAIT", "LAST_ACK"}

\* StateTableReq.  The field basis is not in the code: it records the state a
\* write was computed from (for a read, and for the blind SYN_SENT write, the
\* field repeats the state of the request).
StateTableReq ==
  [session_id : Sessions, write : BOOLEAN, state : SessionState, basis : SessionState]
ReadReq(s) == [session_id |-> s, write |-> FALSE, state |-> "CLOSED", basis |-> "CLOSED"]
WriteReq(s, new, old) == [session_id |-> s, write |-> TRUE, state |-> new, basis |-> old]

\* The segment kinds RxEngTcpFsm tells apart by its control bits; OTHER is RST
\* and every combination without a case of its own.
Kinds == {"ACK", "SYN", "SYN_ACK", "FIN_ACK", "OTHER"}
Segments == [session_id : Sessions, kind : Kinds]

ASSUME NoReqAssumption == NoReq \notin Sessions \cup StateTableReq \cup Segments

\* What RxEngTcpFsm may write for a session it has read in state st when it
\* handles a segment, over all sequence and acknowledgement numbers: the state
\* it read, unless the segment always moves the session on, or one of the edges.
AckEdges    == {<<"ACK", "SYN_RECEIVED", "ESTABLISHED">>, <<"ACK", "CLOSING", "TIME_WAIT">>,
                <<"ACK", "LAST_ACK", "CLOSED">>}
SynEdges    == {<<"SYN", "CLOSED", "SYN_RECEIVED">>, <<"SYN", "SYN_SENT", "SYN_RECEIVED">>,
                <<"SYN", "SYN_RECEIVED", "CLOSED">>}
SynAckEdges == {<<"SYN_ACK", "SYN_SENT", "ESTABLISHED">>, <<"SYN_ACK", "SYN_SENT", "CLOSED">>}
FinAckEdges == {<<"FIN_ACK", "ESTABLISHED", "LAST_ACK">>, <<"FIN_ACK", "FIN_WAIT_1", "TIME_WAIT">>,
                <<"FIN_ACK", "FIN_WAIT_1", "CLOSING">>}
RstEdges    == {<<"OTHER", st, "CLOSED">> : st \in SessionState}
RxEdges     == AckEdges \cup SynEdges \cup SynAckEdges \cup FinAckEdges \cup RstEdges
RxMoves == {<<"SYN", "CLOSED">>, <<"SYN", "SYN_SENT">>, <<"SYN_ACK", "SYN_SENT">>}
RxOutcomes(kind, st) ==
  {new \in SessionState :
     <<kind, st, new>> \in RxEdges \/ (new = st /\ <<kind, st>> \notin RxMoves)}

\* The states in which an ACK outside [perv_ack, next_byte] makes the rx FSM
\* return without any write to the state table.
RxSkipStates == {"ESTABLISHED", "SYN_RECEIVED", "FIN_WAIT_1", "CLOSING", "LAST_ACK"}

\* What the connection handler writes after close() has read state st.
TxOutcomeUnknown(st) == IF st = "ESTABLISHED" THEN "FIN_WAIT_2" ELSE st   \* mutant: wrong state
TxOutcomeAlways(st) == "FIN_WAIT_1"                                 \* mutant: state not tested
TxOutcome(st) == IF st \in {"ESTABLISHED", "FIN_WAIT_1"} THEN "FIN_WAIT_1" ELSE st

-----------------------------------------------------------------------------
VARIABLES
  state_table,   \* [Sessions -> SessionState]
  rx_lock,       \* rx_eng_rw_req_session_id if rx_eng_rw_req_session_id_locked, else NoReq
  tx_lock,       \* tx_app_rw_req_session_id if tx_app_rw_req_session_id_locked, else NoReq
  rx_parked,     \* rx_eng_rw_req if rx_eng_rw_locked, else NoReq
  tx_parked,     \* tx_app_rw_req if tx_app_rw_locked, else NoReq
  timer_parked,  \* timer_release_req_session_id if timer_release_locked, else NoReq
  rx_req, tx_req, lup_req, timer_req,   \* request FIFOs
  rx_rsp, tx_rsp, lup_rsp,              \* response FIFOs
  release_req,   \* sttable_to_slookup_release_req
  rx_meta,       \* segments looked up and waiting for the rx FSM
  rx_fsm,        \* the segment in TRANSITION, NoReq in LOAD
  tx_fsm,        \* session in CLOSE_CONN, NoReq in IDLE
  free,          \* ids the session lookup controller can hand out
  inputs,        \* number of inputs taken from outside so far
  deviation      \* "none", or "lock_leaked": the rx FSM is back in LOAD, its session locked

regs  == <<rx_lock, tx_lock, rx_parked, tx_parked, timer_parked>>
reqs  == <<rx_req, tx_req, lup_req, timer_req>>
rsps  == <<rx_rsp, tx_rsp, lup_rsp>>
fsms  == <<rx_meta, rx_fsm, tx_fsm>>
vars  == <<state_table, regs, reqs, rsps, release_req, fsms, free, inputs, deviation>>

TypeOK ==
  /\ state_table \in [Sessions -> SessionState]
  /\ rx_lock \in Sessions \cup {NoReq}
  /\ tx_lock \in Sessions \cup {NoReq}
  /\ rx_parked \in StateTableReq \cup {NoReq}
  /\ tx_parked \in StateTableReq \cup {NoReq}
  /\ timer_parked \in Sessions \cup {NoReq}
  /\ rx_req \in Seq(StateTableReq) /\ tx_req \in Seq(StateTableReq)
  /\ lup_req \in Seq(Sessions) /\ timer_req \in Seq(Sessions)
  /\ rx_rsp \in Seq(SessionState) /\ tx_rsp \in Seq(SessionState)
  /\ lup_rsp \in Seq(SessionState)
  /\ release_req \in Seq(Sessions) /\ rx_meta \in Seq(Segments)
  /\ rx_fsm \in Segments \cup {NoReq} /\ tx_fsm \in Sessions \cup {NoReq}
  /\ free \subseteq Sessions
  /\ inputs \in Nat
  /\ deviation \in {"none", "lock_leaked"}

Init ==
  /\ state_table = [s \in Sessions |-> "CLOSED"]
  /\ rx_lock = NoReq /\ tx_lock = NoReq
  /\ rx_parked = NoReq /\ tx_parked = NoReq /\ timer_parked = NoReq
  /\ rx_req = <<>> /\ tx_req = <<>> /\ lup_req = <<>> /\ timer_req = <<>>
  /\ rx_rsp = <<>> /\ tx_rsp = <<>> /\ lup_rsp = <<>>
  /\ release_req = <<>>
  /\ rx_meta = <<>> /\ rx_fsm = NoReq /\ tx_fsm = NoReq
  /\ free = Sessions
  /\ inputs = 0
  /\ deviation = "none"

Room(fifo) == Len(fifo) < Depth
Healthy == deviation = "none"

-----------------------------------------------------------------------------
(* The state table process: one if / else-if chain, so a branch is taken     *)
(* only when the conditions before it are false.                            *)

TxPending    == tx_req # <<>> /\ tx_parked = NoReq
LupPending   == lup_req # <<>>
RxPending    == rx_req # <<>> /\ rx_parked = NoReq
TimerPending == timer_req # <<>> /\ timer_parked = NoReq

\* A read locks its session, a write unlocks it.
LockKept(r) == r.session_id                                         \* mutant: no unlock
LockAfter(r) == IF r.write THEN NoReq ELSE r.session_id

\* A read or write of the tx application interface that is not blocked.
ServeTx(r) ==
  /\ \/ /\ r.write
        /\ state_table' = [state_table EXCEPT ![r.session_id] = r.state]
        /\ UNCHANGED tx_rsp
     \/ /\ ~r.write
        /\ Room(tx_rsp)
        /\ tx_rsp' = Append(tx_rsp, state_table[r.session_id])
        /\ UNCHANGED state_table
  /\ tx_lock' = LockAfter(r)
  /\ UNCHANGED <<rx_lock, rx_parked, timer_parked, rx_req, lup_req, timer_req,
                 rx_rsp, lup_rsp, release_req, fsms, free, inputs, deviation>>

\* A read or write of the rx engine that is not blocked: writing CLOSED
\* releases the session.
ServeRx(r) ==
  /\ \/ /\ r.write
        /\ IF r.state = "CLOSED"
           THEN /\ Room(release_req)
                /\ release_req' = Append(release_req, r.session_id)
           ELSE UNCHANGED release_req
        /\ state_table' = [state_table EXCEPT ![r.session_id] = r.state]
        /\ UNCHANGED rx_rsp
     \/ /\ ~r.write
        /\ Room(rx_rsp)
        /\ rx_rsp' = Append(rx_rsp, state_table[r.session_id])
        /\ UNCHANGED <<state_table, release_req>>
  /\ rx_lock' = LockAfter(r)
  /\ UNCHANGED <<tx_lock, tx_parked, timer_parked, tx_req, lup_req, timer_req,
                 tx_rsp, lup_rsp, fsms, free, inputs, deviation>>

ServeTimer(s) ==
  /\ Room(release_req)
  /\ release_req' = Append(release_req, s)
  /\ state_table' = [state_table EXCEPT ![s] = "CLOSED"]
  /\ UNCHANGED <<rx_lock, tx_lock, rx_parked, tx_parked, rx_req, tx_req, lup_req,
                 rsps, fsms, free, inputs, deviation>>

TxAppReq ==
  /\ TxPending
  /\ tx_req' = Tail(tx_req)
  /\ LET r == Head(tx_req) IN
     IF r.session_id = rx_lock
     THEN /\ tx_parked' = r
          /\ UNCHANGED <<state_table, rx_lock, tx_lock, rx_parked, timer_parked, rx_req,
                         lup_req, timer_req, rsps, release_req, fsms, free, inputs, deviation>>
     ELSE ServeTx(r) /\ UNCHANGED tx_parked

TxAppLookup ==
  /\ ~TxPending /\ LupPending
  /\ Room(lup_rsp)
  /\ lup_req' = Tail(lup_req)
  /\ lup_rsp' = Append(lup_rsp, state_table[Head(lup_req)])
  /\ UNCHANGED <<state_table, regs, rx_req, tx_req, timer_req, rx_rsp, tx_rsp,
                 release_req, fsms, free, inputs, deviation>>

RxEngReq ==
  /\ ~TxPending /\ ~LupPending /\ RxPending
  /\ rx_req' = Tail(rx_req)
  /\ LET r == Head(rx_req) IN
     IF r.session_id = tx_lock
     THEN /\ rx_parked' = r
          /\ UNCHANGED <<state_table, rx_lock, tx_lock, tx_parked, timer_parked, tx_req,
                         lup_req, timer_req, rsps, release_req, fsms, free, inputs, deviation>>
     ELSE ServeRx(r) /\ UNCHANGED rx_parked

TimerRelease ==
  /\ ~TxPending /\ ~LupPending /\ ~RxPending /\ TimerPending
  /\ timer_req' = Tail(timer_req)
  /\ LET s == Head(timer_req) IN
     IF s \in {rx_lock, tx_lock}
     THEN /\ timer_parked' = s
          /\ UNCHANGED <<state_table, rx_lock, tx_lock, rx_parked, tx_parked, rx_req,
                         tx_req, lup_req, rsps, release_req, fsms, free, inputs, deviation>>
     ELSE ServeTimer(s) /\ UNCHANGED timer_parked

NothingPending == ~TxPending /\ ~LupPending /\ ~RxPending /\ ~TimerPending

\* The retry branches.  The chain looks at the first parked request only: a
\* parked tx request that is still blocked hides a parked rx request.
RetryTx ==
  /\ NothingPending
  /\ tx_parked # NoReq
  /\ tx_parked.session_id # rx_lock
  /\ ServeTx(tx_parked)
  /\ tx_parked' = NoReq
  /\ UNCHANGED tx_req

\* Mutant: the retry does not look at the lock again.
RetryRxUnchecked ==
  /\ NothingPending
  /\ tx_parked = NoReq
  /\ rx_parked # NoReq
  /\ ServeRx(rx_parked)
  /\ rx_parked' = NoReq
  /\ UNCHANGED rx_req

RetryRx ==
  /\ NothingPending
  /\ tx_parked = NoReq
  /\ rx_parked # NoReq
  /\ rx_parked.session_id # tx_lock
  /\ ServeRx(rx_parked)
  /\ rx_parked' = NoReq
  /\ UNCHANGED rx_req

\* Mutant: the retry looks at the rx engine's lock only.
RetryTimerHalfChecked ==
  /\ NothingPending
  /\ tx_parked = NoReq /\ rx_parked = NoReq
  /\ timer_parked # NoReq
  /\ timer_parked # rx_lock
  /\ ServeTimer(timer_parked)
  /\ timer_parked' = NoReq
  /\ UNCHANGED timer_req

RetryTimer ==
  /\ NothingPending
  /\ tx_parked = NoReq /\ rx_parked = NoReq
  /\ timer_parked # NoReq
  /\ timer_parked \notin {rx_lock, tx_lock}
  /\ ServeTimer(timer_parked)
  /\ timer_parked' = NoReq
  /\ UNCHANGED timer_req

Table ==
  \/ TxAppReq \/ TxAppLookup \/ RxEngReq \/ TimerRelease
  \/ RetryTx \/ RetryRx \/ RetryTimer

-----------------------------------------------------------------------------
(* The clients.                                                             *)

table_vars == <<state_table, regs>>

\* RxEngTcpFsm, LOAD: read the state of the segment's session.
RxLoad ==
  /\ rx_fsm = NoReq
  /\ rx_meta # <<>>
  /\ Room(rx_req)
  /\ rx_fsm' = Head(rx_meta)
  /\ rx_meta' = Tail(rx_meta)
  /\ rx_req' = Append(rx_req, ReadReq(Head(rx_meta).session_id))
  /\ UNCHANGED <<table_vars, tx_req, lup_req, timer_req, rsps, release_req,
                 tx_fsm, free, inputs, deviation>>

\* RxEngTcpFsm, TRANSITION: write the next state, which unlocks the session.
RxTransition ==
  /\ rx_fsm # NoReq
  /\ rx_rsp # <<>>
  /\ Room(rx_req)
  /\ \E new \in RxOutcomes(rx_fsm.kind, Head(rx_rsp)) :
       rx_req' = Append(rx_req, WriteReq(rx_fsm.session_id, new, Head(rx_rsp)))
  /\ rx_rsp' = Tail(rx_rsp)
  /\ rx_fsm' = NoReq
  /\ UNCHANGED <<table_vars, tx_req, lup_req, timer_req, tx_rsp, lup_rsp,
                 release_req, rx_meta, tx_fsm, free, inputs, deviation>>

\* RxEngTcpFsm, TRANSITION with an ACK outside the send window: back to LOAD
\* without a write, so that the session stays locked.
RxTransitionNoWrite ==
  /\ rx_fsm # NoReq
  /\ rx_rsp # <<>>
  /\ rx_fsm.kind = "ACK"
  /\ Head(rx_rsp) \in RxSkipStates
  /\ rx_rsp' = Tail(rx_rsp)
  /\ rx_fsm' = NoReq
  /\ deviation' = "lock_leaked"
  /\ UNCHANGED <<table_vars, reqs, tx_rsp, lup_rsp, release_req, rx_meta, tx_fsm,
                 free, inputs>>

\* TxAppConnectionHandler, IDLE: the lookup controller created a session for an
\* active open; the handler writes SYN_SENT without reading first.
ActiveOpen(s) ==
  /\ inputs < MaxInputs
  /\ s \in free
  /\ tx_fsm = NoReq
  /\ Room(tx_req)
  /\ free' = free \ {s}
  /\ tx_req' = Append(tx_req, WriteReq(s, "SYN_SENT", "SYN_SENT"))
  /\ inputs' = inputs + 1
  /\ UNCHANGED <<table_vars, rx_req, lup_req, timer_req, rsps, release_req, fsms, deviation>>

\* TxAppConnectionHandler, IDLE: a close request of the application.
CloseConn(s) ==
  /\ inputs < MaxInputs
  /\ tx_fsm = NoReq
  /\ Room(tx_req)
  /\ tx_fsm' = s
  /\ tx_req' = Append(tx_req, ReadReq(s))
  /\ inputs' = inputs + 1
  /\ UNCHANGED <<table_vars, rx_req, lup_req, timer_req, rsps, release_req,
                 rx_meta, rx_fsm, free, deviation>>

\* TxAppConnectionHandler, CLOSE_CONN.
CloseConnRsp ==
  /\ tx_fsm # NoReq
  /\ tx_rsp # <<>>
  /\ Room(tx_req)
  /\ tx_req' = Append(tx_req, WriteReq(tx_fsm, TxOutcome(Head(tx_rsp)), Head(tx_rsp)))
  /\ tx_rsp' = Tail(tx_rsp)
  /\ tx_fsm' = NoReq
  /\ UNCHANGED <<table_vars, rx_req, lup_req, timer_req, rx_rsp, lup_rsp,
                 release_req, rx_meta, rx_fsm, free, inputs, deviation>>

\* TxAppTableInterface: the state of a session the application wants to send on.
DataLookup(s) ==
  /\ inputs < MaxInputs
  /\ Room(lup_req)
  /\ lup_req' = Append(lup_req, s)
  /\ inputs' = inputs + 1
  /\ UNCHANGED <<table_vars, rx_req, tx_req, timer_req, rsps, release_req, fsms, free, deviation>>

DataLookupRsp ==
  /\ lup_rsp # <<>>
  /\ lup_rsp' = Tail(lup_rsp)
  /\ UNCHANGED <<table_vars, reqs, rx_rsp, tx_rsp, release_req, fsms, free, inputs, deviation>>

\* A timer gives up on a session (close timer, or retransmissions exhausted); the
\* session may have been closed meanwhile.
Timeout(s) ==
  /\ inputs < MaxInputs
  /\ Room(timer_req)
  /\ timer_req' = Append(timer_req, s)
  /\ inputs' = inputs + 1
  /\ UNCHANGED <<table_vars, rx_req, tx_req, lup_req, rsps, release_req, fsms, free, deviation>>

\* A segment was looked up: it belongs to a session in use, or it is a SYN or a
\* SYN+ACK for an open port and a new session is created for it.
Segment(s, kind) ==
  /\ inputs < MaxInputs
  /\ s \in free => kind \in {"SYN", "SYN_ACK"}
  /\ Room(rx_meta)
  /\ rx_meta' = Append(rx_meta, [session_id |-> s, kind |-> kind])
  /\ free' = free \ {s}
  /\ inputs' = inputs + 1
  /\ UNCHANGED <<table_vars, reqs, rsps, release_req, rx_fsm, tx_fsm, deviation>>

\* The lookup controller takes a released session back.
SlookupRelease ==
  /\ release_req # <<>>
  /\ free' = free \cup {Head(release_req)}
  /\ release_req' = Tail(release_req)
  /\ UNCHANGED <<table_vars, reqs, rsps, fsms, inputs, deviation>>

Clients == RxLoad \/ RxTransition \/ RxTransitionNoWrite \/ CloseConnRsp
           \/ DataLookupRsp \/ SlookupRelease

Inputs ==
  \E s \in Sessions :
     ActiveOpen(s) \/ CloseConn(s) \/ DataLookup(s) \/ Timeout(s)
     \/ \E kind \in Kinds : Segment(s, kind)

Next == Table \/ Clients \/ Inputs

Spec == Init /\ [][Next]_vars

\* Every process runs in every cycle: a step that stays possible is taken.
Fairness ==
  /\ WF_vars(Table)
  /\ WF_vars(RxLoad) /\ WF_vars(RxTransition \/ RxTransitionNoWrite)
  /\ WF_vars(CloseConnRsp) /\ WF_vars(DataLookupRsp) /\ WF_vars(SlookupRelease)

FairSpec == Spec /\ Fairness
-----------------------------------------------------------------------------
(* Properties.                                                              *)

\* The rx engine and the tx application interface never hold the lock of the
\* same session (the two locked flags of state_table and their checks).
LockExclusion == rx_lock = tx_lock => rx_lock = NoReq

\* A state that a client has read and not yet written back is still the state
\* in the table: whatever the two engines and the timers interleave, the value
\* a read-modify-write of the session is computed from has not gone stale.
ReadsStayFresh ==
  /\ rx_fsm # NoReq /\ rx_rsp # <<>> => state_table[rx_fsm.session_id] = Head(rx_rsp)
  /\ tx_fsm # NoReq /\ tx_rsp # <<>> => state_table[tx_fsm] = Head(tx_rsp)
  /\ \A i \in DOMAIN rx_req :
       rx_req[i].write => state_table[rx_req[i].session_id] = rx_req[i].basis

\* Every change of a session's state is one step of the connection diagram from
\* the state in the table at that moment, though the writer decided on it
\* several cycles earlier.  SYN_SENT is written without a read.
Diagram(old, new) ==
  \/ new = "CLOSED"
  \/ new = "FIN_WAIT_1" /\ old = "ESTABLISHED"
  \/ \E kind \in Kinds : new \in RxOutcomes(kind, old)
  \/ new = "SYN_SENT"

StepsFollowDiagram ==
  [][\A s \in Sessions :
       state_table'[s] # state_table[s] => Diagram(state_table[s], state_table'[s])]_vars

\* The two engines never wait for each other: a parked tx request blocked by the
\* rx engine's lock hides a parked rx request from the retry branches, so with
\* both parked neither would ever be served again.  A lock left behind by an ACK
\* outside the send window is the one way to get there.
NoMutualWait ==
  ~(/\ Healthy
    /\ tx_parked # NoReq /\ tx_parked.session_id = rx_lock
    /\ rx_parked # NoReq)

\* A close request of the application is answered: the handler gets the state
\* of the session and returns to IDLE, where it accepts the next request, unless
\* a lock has been left behind.
CloseAnswered == (tx_fsm # NoReq) ~> (tx_fsm = NoReq \/ ~Healthy)

\* The rx engine gets the state of every segment's session and goes back to
\* LOAD for the next segment, unless a lock has been left behind.
SegmentHandled == (rx_fsm # NoReq) ~> (rx_fsm = NoReq \/ ~Healthy)

\* Both clients that wait at the state table come back, the connection handler from a close and
\* the rx engine from a segment, whatever is parked, unless a lock has been left behind.
ClientsAnswered == CloseAnswered /\ SegmentHandled
=============================================================================
