--------------------------- MODULE RetransmitTimer ---------------------------
(***************************************************************************)
(* retransmit_timer.cpp in the loop it works in: the tx engine sets the    *)
(* timer when it sends, an expired timer sends an event back to the tx     *)
(* engine, which sends again; the rx engine clears the timer when an       *)
(* acknowledgement arrives; after MaxRetx events in a row the session is   *)
(* released and the application is told.                                   *)
(***************************************************************************)
EXTENDS Sessions, Sequences

CONSTANTS
  Used,          \* the session ids that have a connection in the instance
  NoReq,         \* an empty register
  RetransTime,   \* [0 .. 4 -> Nat]: TIME_1s, 5s, 10s, 15s, 30s, in visits
  MaxRetx,       \* TCP_MAX_RETX_ATTEMPTS
  Skip,          \* 5: how far a set moves the scan past the session
  RetransDepth   \* capacity of the FIFOs

Types   == {"RT", "SYN"}
Entry   == [time : Nat, retries : 0 .. MaxRetx, active : BOOLEAN, type : Types]
SetReq  == [session_id : Session, type : Types]
ClearReq == [session_id : Session, stop : BOOLEAN]

ASSUME RetransSessionAssumption ==
  Used \subseteq Session /\ NoReq \notin ClearReq
ASSUME RetransAssumption ==
  /\ RetransTime \in [0 .. 4 -> Nat] /\ MaxRetx \in Nat
  /\ Skip \in Nat \ {0} /\ RetransDepth \in Nat \ {0}

VARIABLES
  retrans_timer_table,   \* [Session -> Entry]
  rtimer_cur,            \* rtimer_cur_session_id, which may leave the table
  rtimer_prev,           \* rtimer_prev_session_id
  clear_reg,             \* rx_eng_req if rtimer_wait_for_write, else NoReq
  clear_rtimer,          \* rx_eng_to_timer_clear_rtimer
  set_rtimer,            \* tx_eng_to_timer_set_rtimer
  event_req,             \* rtimer_to_event_eng_set_event
  release_req,           \* rtimer_to_state_table_release_state
  app_notify, open_rsp,  \* rtimer_to_rx_app_notification, rtimer_to_tx_app_notification
  open,                  \* the ids whose connection is open
  unacked,               \* the ids with bytes in the tx SAR table that are sent and not acked
  rx_ack,                \* the clear request the rx engine is about to write, or NoReq
  stopped,               \* the ids whose timer was stopped while bytes were outstanding
  strayed,               \* the ids whose timer fired under an id outside the table
  fired,                 \* timeouts of the session in a row, as its peer would count them
  rt_inputs

rt_regs == <<retrans_timer_table, rtimer_cur, rtimer_prev, clear_reg, fired, stopped, strayed>>
outs    == <<event_req, release_req, app_notify, open_rsp>>
env     == <<open, unacked, rx_ack, rt_inputs>>
rt_vars == <<rt_regs, clear_rtimer, set_rtimer, outs, env>>

RetransTypeOK ==
  /\ retrans_timer_table \in [Session -> Entry]
  /\ rtimer_cur \in Nat /\ rtimer_prev \in Nat
  /\ clear_reg \in ClearReq \cup {NoReq} /\ rx_ack \in ClearReq \cup {NoReq}
  /\ clear_rtimer \in Seq(ClearReq) /\ set_rtimer \in Seq(SetReq)
  /\ event_req \in Seq([session_id : Nat, type : Types, retrans_cnt : 1 .. MaxRetx])
  /\ release_req \in Seq(Nat) /\ app_notify \in Seq(Nat) /\ open_rsp \in Seq(Nat)
  /\ open \subseteq Session /\ unacked \subseteq Session
  /\ fired \in [Session -> Nat] /\ stopped \subseteq Session /\ strayed \subseteq Session
  /\ rt_inputs \in Nat

RetransInit ==
  /\ retrans_timer_table =
       [s \in Session |-> [time |-> 0, retries |-> 0, active |-> FALSE, type |-> "RT"]]
  /\ rtimer_cur = 0 /\ rtimer_prev = 0 /\ clear_reg = NoReq
  /\ clear_rtimer = <<>> /\ set_rtimer = <<>> /\ event_req = <<>>
  /\ release_req = <<>> /\ app_notify = <<>> /\ open_rsp = <<>>
  /\ open = {} /\ unacked = {} /\ rx_ack = NoReq
  /\ fired = [s \in Session |-> 0] /\ stopped = {} /\ strayed = {}
  /\ rt_inputs = 0

RetransRoom(fifo) == Len(fifo) < RetransDepth

-----------------------------------------------------------------------------
(* retransmit_timer: one branch per cycle.                                  *)

\* A clear that was read is applied, but not in the cycle after its session's
\* entry was written.
CanWrite == clear_reg # NoReq /\ clear_reg.session_id # rtimer_prev

\* An acknowledgement of everything stops the timer, another one restarts it.
ClearedKeepsCount(e, stop) ==                                  \* mutant: retries not reset
  [e EXCEPT !.time = IF stop THEN 0 ELSE RetransTime[0], !.active = ~stop /\ @]
ClearedStops(e, stop) ==                                       \* mutant: always stops
  [e EXCEPT !.time = 0, !.active = FALSE, !.retries = 0]
Cleared(e, stop) ==
  [e EXCEPT !.time = IF stop THEN 0 ELSE RetransTime[0], !.active = ~stop /\ @, !.retries = 0]

ClearWrite ==
  /\ CanWrite
  /\ LET s == clear_reg.session_id IN
     /\ retrans_timer_table' = [retrans_timer_table EXCEPT ![s] = Cleared(@, clear_reg.stop)]
     /\ fired' = [fired EXCEPT ![s] = 0]
     /\ stopped' = IF clear_reg.stop /\ s \in unacked THEN stopped \cup {s} ELSE stopped
  /\ clear_reg' = NoReq
  /\ UNCHANGED <<rtimer_cur, rtimer_prev, strayed, clear_rtimer, set_rtimer, outs, env>>

ClearRead ==
  /\ clear_reg = NoReq /\ clear_rtimer # <<>>
  /\ clear_reg' = Head(clear_rtimer)
  /\ clear_rtimer' = Tail(clear_rtimer)
  /\ UNCHANGED <<retrans_timer_table, rtimer_cur, rtimer_prev, fired, stopped, strayed, set_rtimer,
                 outs, env>>

\* Neither of the two branches above is taken.
Otherwise == ~CanWrite /\ (clear_reg = NoReq => clear_rtimer = <<>>)

\* The time-out depends on how often the session has timed out before.
IntervalOf(retries) == RetransTime[IF retries < 4 THEN retries ELSE 4]

SetsLeftAll == set_rtimer                                         \* mutant: looked at, not read
SetsLeft == Tail(set_rtimer)

SetTimer ==
  /\ Otherwise /\ set_rtimer # <<>>
  /\ LET r == Head(set_rtimer)
         e == retrans_timer_table[r.session_id] IN
     /\ rtimer_cur' = IF r.session_id - 3 < rtimer_cur /\ rtimer_cur <= r.session_id
                      THEN rtimer_cur + Skip ELSE rtimer_cur
     /\ retrans_timer_table' =
          [retrans_timer_table EXCEPT ![r.session_id] =
             [e EXCEPT !.type = r.type, !.active = TRUE,
                       !.time = IF e.active THEN @ ELSE IntervalOf(e.retries)]]
     /\ rtimer_prev' = r.session_id
     /\ stopped' = stopped \ {r.session_id}
     /\ strayed' = strayed \ {r.session_id}
  /\ set_rtimer' = SetsLeft
  /\ UNCHANGED <<clear_reg, fired, clear_rtimer, outs, env>>

\* A set near the end of the table moves the scan past it: the next visit works on the
\* entry the index addresses modulo the size of the RAM, under an id that is no session's.
Alias(i) == i % NumSessions
Strays(i, a) == IF i # a THEN {a} ELSE {}

\* The scan starts again at the end of the table.
NextRtimerId(i) == IF i + 1 >= NumSessions THEN 0 ELSE i + 1

RetriesLeft(e) == e.retries < MaxRetx

\* One visit of the scan.  An expired entry waits for room in the event FIFO.
RetransVisit ==
  /\ Otherwise /\ set_rtimer = <<>>
  /\ LET i == rtimer_cur
         a == Alias(i)
         e == retrans_timer_table[a] IN
     /\ rtimer_cur' = NextRtimerId(i)
     /\ rtimer_prev' = i
     /\ \/ /\ ~e.active \/ (e.time = 0 /\ ~RetransRoom(event_req))
           /\ UNCHANGED <<retrans_timer_table, fired, strayed, outs>>
        \/ /\ e.active /\ e.time > 0
           /\ retrans_timer_table' = [retrans_timer_table EXCEPT ![a].time = @ - 1]
           /\ UNCHANGED <<fired, strayed, outs>>
        \/ /\ e.active /\ e.time = 0 /\ RetransRoom(event_req)
           /\ RetriesLeft(e)
           /\ retrans_timer_table' =
                [retrans_timer_table EXCEPT ![a].active = FALSE, ![a].retries = @ + 1]
           /\ event_req' = Append(event_req, [session_id |-> i, type |-> e.type,
                                              retrans_cnt |-> e.retries + 1])
           /\ fired' = [fired EXCEPT ![a] = @ + 1]
           /\ strayed' = strayed \cup Strays(i, a)
           /\ UNCHANGED <<release_req, app_notify, open_rsp>>
        \/ /\ e.active /\ e.time = 0 /\ RetransRoom(event_req)
           /\ ~RetriesLeft(e)
           /\ RetransRoom(release_req)
           /\ retrans_timer_table' =
                [retrans_timer_table EXCEPT ![a].active = FALSE, ![a].retries = 0]
           /\ release_req' = Append(release_req, i)
           /\ IF e.type = "SYN"
              THEN /\ RetransRoom(open_rsp)
                   /\ open_rsp' = Append(open_rsp, i) /\ UNCHANGED app_notify
              ELSE /\ RetransRoom(app_notify)
                   /\ app_notify' = Append(app_notify, i) /\ UNCHANGED open_rsp
           /\ fired' = [fired EXCEPT ![a] = 0]
           /\ strayed' = strayed \cup Strays(i, a)
           /\ UNCHANGED event_req
  /\ UNCHANGED <<clear_reg, stopped, clear_rtimer, set_rtimer, env>>

RetransTimer == ClearWrite \/ ClearRead \/ SetTimer \/ RetransVisit

-----------------------------------------------------------------------------
(* The tx engine, the rx engine, the state table and the application.       *)

\* TxEngTcpFsm handles a timer event: a SYN is always sent again, RT only when
\* bytes are outstanding; what is sent sets the timer.
Retransmit ==
  /\ event_req # <<>>
  /\ LET ev == Head(event_req) IN
     IF ev.session_id \in Session /\ (ev.type = "SYN" \/ ev.session_id \in unacked)
     THEN /\ RetransRoom(set_rtimer)
          /\ set_rtimer' = Append(set_rtimer, [session_id |-> ev.session_id, type |-> ev.type])
     ELSE UNCHANGED set_rtimer
  /\ event_req' = Tail(event_req)
  /\ UNCHANGED <<rt_regs, clear_rtimer, release_req, app_notify, open_rsp, env>>

\* The tx engine sends the SYN of a new connection.
SendSyn(s) ==
  /\ rt_inputs < MaxInputs /\ rt_inputs' = rt_inputs + 1
  /\ s \notin open /\ RetransRoom(set_rtimer)
  /\ open' = open \cup {s} /\ unacked' = unacked \cup {s}
  /\ set_rtimer' = Append(set_rtimer, [session_id |-> s, type |-> "SYN"])
  /\ UNCHANGED <<rt_regs, clear_rtimer, outs, rx_ack>>

\* The tx engine sends data of an open connection.
SendData(s) ==
  /\ rt_inputs < MaxInputs /\ rt_inputs' = rt_inputs + 1
  /\ s \in open /\ RetransRoom(set_rtimer)
  /\ unacked' = unacked \cup {s}
  /\ set_rtimer' = Append(set_rtimer, [session_id |-> s, type |-> "RT"])
  /\ UNCHANGED <<rt_regs, clear_rtimer, outs, open, rx_ack>>

\* RxEngTcpFsm takes an acknowledgement of some or all outstanding bytes: it has
\* compared the number with next_byte and will write the clear request.
TakeAck(s, all) ==
  /\ rt_inputs < MaxInputs /\ rt_inputs' = rt_inputs + 1
  /\ s \in open /\ s \in unacked /\ rx_ack = NoReq
  /\ unacked' = IF all THEN unacked \ {s} ELSE unacked
  /\ rx_ack' = [session_id |-> s, stop |-> all]
  /\ UNCHANGED <<rt_regs, clear_rtimer, set_rtimer, outs, open>>

WriteClear ==
  /\ rx_ack # NoReq /\ RetransRoom(clear_rtimer)
  /\ clear_rtimer' = Append(clear_rtimer, rx_ack)
  /\ rx_ack' = NoReq
  /\ UNCHANGED <<rt_regs, set_rtimer, outs, open, unacked, rt_inputs>>

\* state_table closes the session the timer gave up on; the tx SAR entry stays.
RetransRelease ==
  /\ release_req # <<>>
  /\ open' = open \ {Head(release_req)}
  /\ release_req' = Tail(release_req)
  /\ UNCHANGED <<rt_regs, clear_rtimer, set_rtimer, event_req, app_notify, open_rsp, unacked,
                 rx_ack, rt_inputs>>

TakeNotify ==
  \/ /\ app_notify # <<>> /\ app_notify' = Tail(app_notify)
     /\ UNCHANGED <<rt_regs, clear_rtimer, set_rtimer, event_req, release_req, open_rsp, env>>
  \/ /\ open_rsp # <<>> /\ open_rsp' = Tail(open_rsp)
     /\ UNCHANGED <<rt_regs, clear_rtimer, set_rtimer, event_req, release_req, app_notify, env>>

RetransNext ==
  \/ RetransTimer \/ Retransmit \/ WriteClear \/ RetransRelease \/ TakeNotify
  \/ \E s \in Used : SendSyn(s) \/ SendData(s) \/ \E all \in BOOLEAN : TakeAck(s, all)

RetransSpec == RetransInit /\ [][RetransNext]_rt_vars

RetransFairness ==
  /\ WF_rt_vars(RetransTimer) /\ WF_rt_vars(Retransmit) /\ WF_rt_vars(WriteClear)
  /\ WF_rt_vars(RetransRelease) /\ WF_rt_vars(TakeNotify)

RetransFairSpec == RetransSpec /\ RetransFairness
-----------------------------------------------------------------------------
(* Properties.                                                              *)

\* A session is given up only after MaxRetx timeouts in a row: an
\* acknowledgement in between starts the count again, however it interleaves
\* with sets, timeouts and the scan.
AbortedAfterRetries ==
  [][\A s \in Session :
       release_req' = Append(release_req, s) => fired[s] = MaxRetx]_rt_vars

\* Outstanding bytes are acknowledged or the connection is aborted: as long as
\* bytes are outstanding the timer, an event or a set request is under way.  The
\* exceptions are a stop the rx engine decided on before these bytes were sent (stopped)
\* and an expiry of the entry that a scan beyond the table reports under another id
\* (strayed): each leaves the timer off until the session sends again.
OutstandingResolved ==
  \A s \in Used :
    (s \in open \cap unacked) ~> (s \notin open \cap unacked \/ s \in stopped \cup strayed)

\* The timer takes every set request of the tx engine: the two never block each
\* other, though each writes to a FIFO the other one empties.
SetsTaken == (set_rtimer # <<>>) ~> (set_rtimer = <<>>)

\* The retries a session gets are exact: never more than MaxRetx are counted, and the
\* session is given up after them and not before.
RetriesExact == []RetransTypeOK /\ AbortedAfterRetries
=============================================================================
