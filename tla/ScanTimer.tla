------------------------------ MODULE ScanTimer ------------------------------
(***************************************************************************)
(* close_timer.cpp and probe_timer.cpp: two timers of one design.  A set   *)
(* request starts a session's table entry; in a cycle without a request    *)
(* the next entry is visited and counted down, and one whose time is used  *)
(* up is reported.  The close timer reports to the state table, which      *)
(* closes and releases a session in TIME_WAIT.  The probe timer sends the  *)
(* tx engine a TX event for a session whose bytes did not fit the peer's   *)
(* window; the rx engine can clear it, which sends the event at once.      *)
(*                                                                         *)
(* A behaviour is of one of the two timers.  Around the close timer, the   *)
(* connection that owns a session id enters TIME_WAIT, may be reset by its *)
(* peer in any state, and once it is closed the id goes to the next one.   *)
(* Around the probe timer are the tx engine and the rx engine.             *)
(***************************************************************************)
EXTENDS Sessions, Sequences

CONSTANTS
  IdMod,         \* 2^16: a TcpSessionID wraps
  Interval,      \* TIME_60s or TIME_50ms, in visits
  Depth          \* capacity of the FIFOs

Conn == {"CLOSED", "OPEN", "TIME_WAIT"}

ASSUME ScanSessionAssumption == IdMod \in Nat /\ IdMod >= NumSessions
ASSUME IntervalAssumption == Interval \in Nat /\ Depth \in Nat \ {0}

VARIABLES
  timer,           \* "close" or "probe"
  table,           \* close_timer_table, probe_timer_table: [Session -> [time, active]]
  cur_session_id,  \* cur_check_session_id in the probe timer
  set_session_id, prev_session_id, wait_for_write,
  set_req,         \* rx_eng_to_timer_set_ctimer, tx_eng_to_timer_set_ptimer
  clear_req,       \* rx_eng_to_timer_clear_ptimer
  expired,         \* ctimer_to_sttable_release_state, ptimer_to_event_eng_set_event
  conn,            \* close: state of the connection that owns the id
  stale,           \* close: ids of connections reset in TIME_WAIT, the timer still running
  blocked,         \* probe: sessions whose bytes wait for the window to open
  visits,          \* count-downs of the entry since it was last set
  inputs

regs == <<table, cur_session_id, set_session_id, prev_session_id, wait_for_write, visits>>
users == <<conn, stale, blocked>>
vars == <<timer, regs, set_req, clear_req, expired, users, inputs>>

ScanTypeOK ==
  /\ timer \in {"close", "probe"}
  /\ table \in [Session -> [time : 0 .. Interval, active : BOOLEAN]]
  /\ cur_session_id \in Session /\ set_session_id \in Session
  /\ prev_session_id \in 0 .. IdMod - 1 /\ wait_for_write \in BOOLEAN
  /\ \A fifo \in {set_req, clear_req, expired} : fifo \in Seq(Session) /\ Len(fifo) <= Depth
  /\ conn \in [Session -> Conn] /\ stale \subseteq Session /\ blocked \subseteq Session
  /\ visits \in [Session -> Nat] /\ inputs \in Nat

Stopped == [time |-> 0, active |-> FALSE]

Init ==
  /\ timer \in {"close", "probe"}
  /\ table = [s \in Session |-> Stopped]
  /\ cur_session_id = 0 /\ set_session_id = 0 /\ prev_session_id = 0
  /\ wait_for_write = FALSE
  /\ set_req = <<>> /\ clear_req = <<>> /\ expired = <<>>
  /\ conn = [s \in Session |-> "CLOSED"] /\ stale = {} /\ blocked = {}
  /\ visits = [s \in Session |-> 0]
  /\ inputs = 0

Room(fifo) == Len(fifo) < Depth

-----------------------------------------------------------------------------
(* The timer: one branch per cycle.                                         *)

StartedShort == [time |-> Interval - 1, active |-> TRUE]   \* mutant: one short
Started == [time |-> Interval, active |-> TRUE]

PrevStays == prev_session_id                   \* mutant: the wait never ends
PrevBack == (prev_session_id - 1) % IdMod

\* The entry is written unless it is the one visited last; then it waits a cycle.
WriteEntry ==
  /\ wait_for_write
  /\ prev_session_id' = PrevBack
  /\ IF set_session_id # prev_session_id
     THEN /\ table' = [table EXCEPT ![set_session_id] = Started]
          /\ visits' = [visits EXCEPT ![set_session_id] = 0]
          /\ wait_for_write' = FALSE
     ELSE UNCHANGED <<table, visits, wait_for_write>>
  /\ UNCHANGED <<timer, cur_session_id, set_session_id, set_req, clear_req, expired, users, inputs>>

ReadSet ==
  /\ ~wait_for_write /\ set_req # <<>>
  /\ set_session_id' = Head(set_req)
  /\ set_req' = Tail(set_req)
  /\ wait_for_write' = TRUE
  /\ UNCHANGED <<timer, table, cur_session_id, prev_session_id, visits, clear_req, expired,
                 users, inputs>>

StoppedRestarts(s) == [table[s] EXCEPT !.time = 0]   \* mutant: the entry stays active
AfterExpiry(s) == Stopped

CountDown(s) ==
  /\ table' = [table EXCEPT ![s].time = @ - 1]
  /\ visits' = [visits EXCEPT ![s] = @ + 1]
  /\ UNCHANGED expired

Expire(s) ==
  /\ table' = [table EXCEPT ![s] = AfterExpiry(s)]
  /\ expired' = Append(expired, s)
  /\ UNCHANGED visits

Pass == UNCHANGED <<table, visits, expired>>

\* The close timer counts an active entry down, or reports it once there is room.
CheckClose(s) ==
  LET e == table[s] IN
  \/ ~e.active /\ Pass
  \/ e.active /\ e.time > 0 /\ CountDown(s)
  \/ e.active /\ e.time = 0 /\ Room(expired) /\ Expire(s)

\* The probe timer does nothing while the event FIFO is full, and a clear request
\* is used up all the same.
CheckProbe(s, clear) ==
  LET e == table[s] IN
  \/ (~e.active \/ ~Room(expired)) /\ Pass
  \/ e.active /\ Room(expired) /\ (e.time = 0 \/ clear) /\ Expire(s)
  \/ e.active /\ Room(expired) /\ e.time # 0 /\ ~clear /\ CountDown(s)

Clear ==
  /\ timer = "probe"
  /\ ~wait_for_write /\ set_req = <<>> /\ clear_req # <<>>
  /\ prev_session_id' = cur_session_id
  /\ clear_req' = Tail(clear_req)
  /\ CheckProbe(Head(clear_req), TRUE)
  /\ UNCHANGED <<timer, cur_session_id, set_session_id, wait_for_write, set_req, users, inputs>>

NextId(s) == IF s + 1 = NumSessions THEN 0 ELSE s + 1

Visit ==
  /\ ~wait_for_write /\ set_req = <<>> /\ clear_req = <<>>
  /\ \/ timer = "close" /\ CheckClose(cur_session_id)
     \/ timer = "probe" /\ CheckProbe(cur_session_id, FALSE)
  /\ prev_session_id' = cur_session_id
  /\ cur_session_id' = NextId(cur_session_id)
  /\ UNCHANGED <<timer, set_session_id, wait_for_write, set_req, clear_req, users, inputs>>

Timer == WriteEntry \/ ReadSet \/ Clear \/ Visit

-----------------------------------------------------------------------------
(* The connections around the close timer.                                  *)

Input(kind) == timer = kind /\ inputs < MaxInputs /\ inputs' = inputs + 1

Establish(s) ==
  /\ Input("close") /\ conn[s] = "CLOSED"
  /\ conn' = [conn EXCEPT ![s] = "OPEN"]
  /\ UNCHANGED <<timer, regs, set_req, clear_req, expired, stale, blocked>>

\* RxEngTcpFsm: the last segment of an active close.
EnterTimeWait(s) ==
  /\ Input("close") /\ conn[s] = "OPEN" /\ Room(set_req)
  /\ set_req' = Append(set_req, s)
  /\ conn' = [conn EXCEPT ![s] = "TIME_WAIT"]
  /\ UNCHANGED <<timer, regs, clear_req, expired, stale, blocked>>

\* RxEngTcpFsm: a valid RST closes the session; no close timer is cleared.
Reset(s) ==
  /\ Input("close") /\ conn[s] # "CLOSED"
  /\ conn' = [conn EXCEPT ![s] = "CLOSED"]
  /\ stale' = IF conn[s] = "TIME_WAIT" THEN stale \cup {s} ELSE stale
  /\ UNCHANGED <<timer, regs, set_req, clear_req, expired, blocked>>

\* state_table: the timer's release closes the session in whatever state it is.
ReleaseState ==
  /\ timer = "close" /\ expired # <<>>
  /\ conn' = [conn EXCEPT ![Head(expired)] = "CLOSED"]
  /\ expired' = Tail(expired)
  /\ UNCHANGED <<timer, regs, set_req, clear_req, stale, blocked, inputs>>

-----------------------------------------------------------------------------
(* The engines around the probe timer.                                      *)

\* TxEngTcpFsm, TX: the bytes do not fit the window; try again later.
SendBlocked(s) ==
  /\ Input("probe") /\ Room(set_req)
  /\ blocked' = blocked \cup {s}
  /\ set_req' = Append(set_req, s)
  /\ UNCHANGED <<timer, regs, clear_req, expired, conn, stale>>

\* TxEngTcpFsm, TX: the timer's event; the bytes go out, or the timer is set again.
TryAgain ==
  /\ timer = "probe" /\ expired # <<>>
  /\ expired' = Tail(expired)
  /\ \/ /\ blocked' = blocked \ {Head(expired)}
        /\ UNCHANGED <<set_req, inputs>>
     \/ /\ Input("probe") /\ Room(set_req)
        /\ set_req' = Append(set_req, Head(expired))
        /\ UNCHANGED blocked
  /\ UNCHANGED <<timer, regs, clear_req, conn, stale>>

\* RxEngTcpFsm: a new acknowledgement clears the timer.
NewAck(s) ==
  /\ Input("probe") /\ Room(clear_req)
  /\ clear_req' = Append(clear_req, s)
  /\ UNCHANGED <<timer, regs, set_req, expired, users>>

Next ==
  \/ Timer \/ ReleaseState \/ TryAgain
  \/ \E s \in Session :
       Establish(s) \/ EnterTimeWait(s) \/ Reset(s) \/ SendBlocked(s) \/ NewAck(s)

Spec == Init /\ [][Next]_vars
FairSpec == Spec /\ WF_vars(Timer) /\ WF_vars(ReleaseState) /\ WF_vars(TryAgain)
-----------------------------------------------------------------------------
(* Properties.                                                              *)

\* A session is reported only after its entry has been counted down Interval
\* times since the last set, unless an acknowledgement brought the probe forward:
\* a set that arrives while the entry is about to expire starts the wait again.
ExpiresAfterInterval ==
  [][\A s \in Session :
       expired' = Append(expired, s) /\ clear_req' = clear_req => visits[s] >= Interval]_vars

\* The close timer closes the connection it was set for: it finds an open one
\* only under an id whose earlier connection was reset in TIME_WAIT, which does
\* not stop the timer.
ReleasesItsOwn ==
  [][\A s \in Session :
       ReleaseState /\ s = Head(expired) /\ conn[s] = "OPEN" => s \in stale]_vars

\* TIME_WAIT ends: the entry is set although the timer is busy with other
\* sessions, it expires and the session is closed.
TimeWaitEnds == \A s \in Session : (conn[s] = "TIME_WAIT") ~> (conn[s] # "TIME_WAIT")

\* Bytes held back by the window are tried again: a clear that is lost, or that
\* overtakes the set request, never leaves a session without its event.
BlockedTriedAgain == \A s \in Session : (s \in blocked) ~> (s \notin blocked)

\* No wait lasts for ever, neither TIME_WAIT at the close timer nor a closed window at the
\* probe timer, although sets, clears and the scan race for the entry.
WaitsEnd == TimeWaitEnds /\ BlockedTriedAgain

\* The scan and its registers stay inside the table, and no entry expires before its time.
ExpiryExact == []ScanTypeOK /\ ExpiresAfterInterval
=============================================================================
