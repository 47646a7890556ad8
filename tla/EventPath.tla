------------------------------ MODULE EventPath ------------------------------
(***************************************************************************)
(* The way of an event to the tx engine: RxEngEventMerger, event_engine    *)
(* and ack_delay.  Events of the rx engine are forwarded at once; events   *)
(* of the timers and of the tx application interface only when four 8-bit  *)
(* counters say that the events forwarded before have drained.  The        *)
(* counters are fed by one-bit tokens that ack_delay and the tx engine     *)
(* write into FIFOs.  ack_delay holds the first ACK of a session back; the *)
(* next event of that session, or a timeout, takes its place.              *)
(***************************************************************************)
EXTENDS Sessions, Sequences

CONSTANTS
  NoEvent,         \* the tx engine is in LOAD
  AckDelay,        \* TIME_64us, in visits of the scan
  CounterMod,      \* 2^8: the counters are ap_uint<8>
  InDepth,         \* capacity of the FIFOs into the event engine
  EventDepth,      \* capacity of event_eng_to_ack_delay_event
  TxDepth,         \* capacity of ack_delay_to_tx_eng_event
  TokenDepth,      \* capacity of the token FIFOs written by ack_delay
  TxTokenDepth     \* capacity of tx_eng_read_count_fifo

\* Three kinds of event are told apart: an ACK, a RST for a tuple without a
\* session (its session_id is 0), and all others, here called TX.
Event == [type : {"ACK", "TX", "RST"}, session_id : Session]
RstEvent == [type |-> "RST", session_id |-> 0]

ASSUME AckDelayAssumption == AckDelay \in Nat \ {0}
ASSUME DepthAssumption ==
  /\ InDepth \in Nat \ {0} /\ EventDepth \in Nat \ {0} /\ TxDepth \in Nat \ {0}
  /\ TokenDepth \in Nat \ {0} /\ TxTokenDepth \in Nat \ {0}
\* "depends on FIFO depth": a counter must tell every fill level apart.
ASSUME CounterModAssumption ==
  /\ CounterMod \in Nat
  /\ CounterMod > EventDepth + TokenDepth
  /\ CounterMod > TxDepth + TxTokenDepth
  /\ CounterMod > TokenDepth
ASSUME NoEventAssumption == NoEvent \notin Event

VARIABLES
  rx_meta_ev, rx_fsm_ev,        \* rx_eng_meta_set_event_fifo, rx_eng_fsm_set_event_fifo
  rx_ev, timer_ev, app_ev,      \* the three inputs of the event engine
  delay_ev,                     \* event_eng_to_ack_delay_event
  tx_ev,                        \* ack_delay_to_tx_eng_event
  read_tokens, write_tokens,    \* fill of ack_delay_read_cnt_fifo, ack_delay_write_cnt_fifo
  tx_tokens,                    \* fill of tx_eng_read_count_fifo
  write_event_count, ack_delay_read_count, ack_delay_write_count, tx_eng_read_count,
  ack_table, ack_delay_cur_session_id,   \* ack_delay's table and the place of its scan
  ack_dropped,                  \* has a RST without a session ended session 0's wait?
  tx_fsm,                       \* the event the tx engine works on, or NoEvent
  ev_inputs

counters == <<write_event_count, ack_delay_read_count, ack_delay_write_count, tx_eng_read_count>>
tokens   == <<read_tokens, write_tokens, tx_tokens>>
in_ev    == <<rx_meta_ev, rx_fsm_ev, rx_ev, timer_ev, app_ev>>
delay    == <<ack_table, ack_delay_cur_session_id, ack_dropped>>
ev_vars  == <<in_ev, delay_ev, tx_ev, tokens, counters, delay, tx_fsm, ev_inputs>>

Counter == 0 .. CounterMod - 1

EventTypeOK ==
  /\ rx_meta_ev \in Seq(Event) /\ rx_fsm_ev \in Seq(Event)
  /\ rx_ev \in Seq(Event) /\ timer_ev \in Seq(Event) /\ app_ev \in Seq(Event)
  /\ delay_ev \in Seq(Event) /\ Len(delay_ev) <= EventDepth
  /\ tx_ev \in Seq(Event) /\ Len(tx_ev) <= TxDepth
  /\ read_tokens \in 0 .. TokenDepth /\ write_tokens \in 0 .. TokenDepth
  /\ tx_tokens \in 0 .. TxTokenDepth
  /\ write_event_count \in Counter /\ ack_delay_read_count \in Counter
  /\ ack_delay_write_count \in Counter /\ tx_eng_read_count \in Counter
  /\ ack_table \in [Session -> 0 .. AckDelay]
  /\ ack_delay_cur_session_id \in Session /\ ack_dropped \in BOOLEAN
  /\ tx_fsm \in Event \cup {NoEvent}
  /\ ev_inputs \in Nat

EventInit ==
  /\ rx_meta_ev = <<>> /\ rx_fsm_ev = <<>>
  /\ rx_ev = <<>> /\ timer_ev = <<>> /\ app_ev = <<>>
  /\ delay_ev = <<>> /\ tx_ev = <<>>
  /\ read_tokens = 0 /\ write_tokens = 0 /\ tx_tokens = 0
  /\ write_event_count = 0 /\ ack_delay_read_count = 0
  /\ ack_delay_write_count = 0 /\ tx_eng_read_count = 0
  /\ ack_table = [s \in Session |-> 0] /\ ack_delay_cur_session_id = 0 /\ ack_dropped = FALSE
  /\ tx_fsm = NoEvent
  /\ ev_inputs = 0

-----------------------------------------------------------------------------
(* RxEngEventMerger: the meta handler's events go first.                    *)

MergeRx ==
  /\ Len(rx_ev) < InDepth
  /\ \/ /\ rx_meta_ev # <<>>
        /\ rx_ev' = Append(rx_ev, Head(rx_meta_ev))
        /\ rx_meta_ev' = Tail(rx_meta_ev)
        /\ UNCHANGED rx_fsm_ev
     \/ /\ rx_meta_ev = <<>> /\ rx_fsm_ev # <<>>
        /\ rx_ev' = Append(rx_ev, Head(rx_fsm_ev))
        /\ rx_fsm_ev' = Tail(rx_fsm_ev)
        /\ UNCHANGED rx_meta_ev
  /\ UNCHANGED <<timer_ev, app_ev, delay_ev, tx_ev, tokens, counters, delay, tx_fsm, ev_inputs>>

-----------------------------------------------------------------------------
(* event_engine: one run of the function forwards at most one event and     *)
(* takes at most one token from each token FIFO.                            *)

Inc(c) == (c + 1) % CounterMod

\* The last part of the function.  A run blocked on a full output FIFO does
\* not get here.
CountTokens ==
  /\ IF read_tokens > 0
     THEN read_tokens' = read_tokens - 1 /\ ack_delay_read_count' = Inc(ack_delay_read_count)
     ELSE UNCHANGED <<read_tokens, ack_delay_read_count>>
  /\ IF write_tokens > 0
     THEN write_tokens' = write_tokens - 1 /\ ack_delay_write_count' = Inc(ack_delay_write_count)
     ELSE UNCHANGED <<write_tokens, ack_delay_write_count>>
  /\ IF tx_tokens > 0
     THEN tx_tokens' = tx_tokens - 1 /\ tx_eng_read_count' = Inc(tx_eng_read_count)
     ELSE UNCHANGED <<tx_tokens, tx_eng_read_count>>

\* The condition under which a timer or application event may be forwarded.
DrainedHalf == ack_delay_write_count = tx_eng_read_count   \* mutant: half the condition
Drained ==
  /\ write_event_count = ack_delay_read_count
  /\ ack_delay_write_count = tx_eng_read_count

Forward(ev) ==
  /\ Len(delay_ev) < EventDepth
  /\ delay_ev' = Append(delay_ev, ev)
  /\ write_event_count' = Inc(write_event_count)
  /\ CountTokens
  /\ UNCHANGED <<rx_meta_ev, rx_fsm_ev, tx_ev, delay, tx_fsm, ev_inputs>>

ForwardRx ==
  /\ rx_ev # <<>>
  /\ Forward(Head(rx_ev))
  /\ rx_ev' = Tail(rx_ev)
  /\ UNCHANGED <<timer_ev, app_ev>>

ForwardTimer ==
  /\ rx_ev = <<>> /\ Drained
  /\ timer_ev # <<>>
  /\ Forward(Head(timer_ev))
  /\ timer_ev' = Tail(timer_ev)
  /\ UNCHANGED <<rx_ev, app_ev>>

ForwardTxApp ==
  /\ rx_ev = <<>> /\ Drained
  /\ timer_ev = <<>> /\ app_ev # <<>>
  /\ Forward(Head(app_ev))
  /\ app_ev' = Tail(app_ev)
  /\ UNCHANGED <<rx_ev, timer_ev>>

ForwardNothing ==
  /\ rx_ev = <<>>
  /\ ~Drained \/ (timer_ev = <<>> /\ app_ev = <<>>)
  /\ CountTokens
  /\ UNCHANGED <<in_ev, delay_ev, tx_ev, write_event_count, delay, tx_fsm, ev_inputs>>

EventEngine == ForwardRx \/ ForwardTimer \/ ForwardTxApp \/ ForwardNothing

-----------------------------------------------------------------------------
(* ack_delay: an event, or else one visit of the scan over the table.       *)

HoldBack ==
  /\ delay_ev # <<>>
  /\ Head(delay_ev).type = "ACK" /\ ack_table[Head(delay_ev).session_id] = 0
  /\ read_tokens < TokenDepth
  /\ read_tokens' = read_tokens + 1
  /\ ack_table' = [ack_table EXCEPT ![Head(delay_ev).session_id] = AckDelay]
  /\ delay_ev' = Tail(delay_ev)
  /\ UNCHANGED <<in_ev, tx_ev, write_tokens, tx_tokens, counters, ack_delay_cur_session_id,
                 ack_dropped, tx_fsm, ev_inputs>>

\* "Assumption no SYN/RST": the RST of a tuple without a session has id 0 and ends the
\* wait of session 0, whose held-back ACK is lost.
PassOn ==
  /\ delay_ev # <<>>
  /\ Head(delay_ev).type # "ACK" \/ ack_table[Head(delay_ev).session_id] > 0
  /\ read_tokens < TokenDepth /\ Len(tx_ev) < TxDepth /\ write_tokens < TokenDepth
  /\ read_tokens' = read_tokens + 1
  /\ write_tokens' = write_tokens + 1
  /\ ack_table' = [ack_table EXCEPT ![Head(delay_ev).session_id] = 0]
  /\ ack_dropped' = (ack_dropped \/ (Head(delay_ev) = RstEvent /\ ack_table[0] > 0))
  /\ tx_ev' = Append(tx_ev, Head(delay_ev))
  /\ delay_ev' = Tail(delay_ev)
  /\ UNCHANGED <<in_ev, tx_tokens, counters, ack_delay_cur_session_id, tx_fsm, ev_inputs>>

\* The visit that sends the ACK is the one that counts down to zero.
ExpiresLate(s) == ack_table[s] = 0                    \* mutant: off by one
Expires(s) == ack_table[s] = 1

ScanVisit ==
  /\ delay_ev = <<>>
  /\ LET s   == ack_delay_cur_session_id
         run == ack_table[s] > 0 /\ Len(tx_ev) < TxDepth IN
     /\ IF run /\ Expires(s)
        THEN /\ write_tokens < TokenDepth
             /\ tx_ev' = Append(tx_ev, [type |-> "ACK", session_id |-> s])
             /\ write_tokens' = write_tokens + 1
        ELSE UNCHANGED <<tx_ev, write_tokens>>
     /\ ack_table' = IF run THEN [ack_table EXCEPT ![s] = @ - 1] ELSE ack_table
     /\ ack_delay_cur_session_id' = IF s + 1 = NumSessions THEN 0 ELSE s + 1
  /\ UNCHANGED <<in_ev, delay_ev, read_tokens, tx_tokens, counters, ack_dropped, tx_fsm, ev_inputs>>

AckDelayStep == HoldBack \/ PassOn \/ ScanVisit

-----------------------------------------------------------------------------
(* The tx engine and the sources of events.                                 *)

\* Mutant: no token.
TxEngLoadSilent ==
  /\ tx_fsm = NoEvent
  /\ tx_ev # <<>>
  /\ tx_fsm' = Head(tx_ev)
  /\ tx_ev' = Tail(tx_ev)
  /\ UNCHANGED <<in_ev, delay_ev, tokens, counters, delay, ev_inputs>>

\* TxEngTcpFsm, LOAD: take an event and write a token.
TxEngLoad ==
  /\ tx_fsm = NoEvent
  /\ tx_ev # <<>>
  /\ tx_tokens < TxTokenDepth
  /\ tx_fsm' = Head(tx_ev)
  /\ tx_ev' = Tail(tx_ev)
  /\ tx_tokens' = tx_tokens + 1
  /\ UNCHANGED <<in_ev, delay_ev, read_tokens, write_tokens, counters, delay, ev_inputs>>

\* TxEngTcpFsm, TRANSITION: back to LOAD.
TxEngDone ==
  /\ tx_fsm # NoEvent
  /\ tx_fsm' = NoEvent
  /\ UNCHANGED <<in_ev, delay_ev, tx_ev, tokens, counters, delay, ev_inputs>>

OtherInputs == <<delay_ev, tx_ev, tokens, counters, delay, tx_fsm>>

\* RxEngTcpMetaHandler: a segment for a port that is not open.
ClosedPort ==
  /\ ev_inputs < MaxInputs /\ ev_inputs' = ev_inputs + 1
  /\ Len(rx_meta_ev) < InDepth
  /\ rx_meta_ev' = Append(rx_meta_ev, RstEvent)
  /\ UNCHANGED <<rx_fsm_ev, rx_ev, timer_ev, app_ev, OtherInputs>>

RxFsmEvent(ev) ==
  /\ ev_inputs < MaxInputs /\ ev_inputs' = ev_inputs + 1
  /\ Len(rx_fsm_ev) < InDepth
  /\ rx_fsm_ev' = Append(rx_fsm_ev, ev)
  /\ UNCHANGED <<rx_meta_ev, rx_ev, timer_ev, app_ev, OtherInputs>>

TimerEvent(ev) ==
  /\ ev_inputs < MaxInputs /\ ev_inputs' = ev_inputs + 1
  /\ Len(timer_ev) < InDepth
  /\ timer_ev' = Append(timer_ev, ev)
  /\ UNCHANGED <<rx_meta_ev, rx_fsm_ev, rx_ev, app_ev, OtherInputs>>

TxAppEvent(ev) ==
  /\ ev_inputs < MaxInputs /\ ev_inputs' = ev_inputs + 1
  /\ Len(app_ev) < InDepth
  /\ app_ev' = Append(app_ev, ev)
  /\ UNCHANGED <<rx_meta_ev, rx_fsm_ev, rx_ev, timer_ev, OtherInputs>>

Inputs ==
  \/ ClosedPort
  \/ \E s \in Session :
       \/ \E t \in {"ACK", "TX"} : RxFsmEvent([type |-> t, session_id |-> s])
       \/ TimerEvent([type |-> "TX", session_id |-> s])
       \/ TxAppEvent([type |-> "TX", session_id |-> s])

EventNext == MergeRx \/ EventEngine \/ AckDelayStep \/ TxEngLoad \/ TxEngDone \/ Inputs

EventSpec == EventInit /\ [][EventNext]_ev_vars

\* Every process runs in every cycle.
EventFairness ==
  /\ WF_ev_vars(MergeRx) /\ WF_ev_vars(EventEngine) /\ WF_ev_vars(AckDelayStep)
  /\ WF_ev_vars(TxEngLoad) /\ WF_ev_vars(TxEngDone)

EventFairSpec == EventSpec /\ EventFairness
-----------------------------------------------------------------------------
(* Properties.                                                              *)

\* The event engine's four wrapping counters account for every event in the two
\* FIFOs and every token under way: none is lost or counted twice, whatever the
\* order in which the three processes run.
CountersExact ==
  /\ (ack_delay_read_count + read_tokens + Len(delay_ev)) % CounterMod = write_event_count
  /\ (tx_eng_read_count + tx_tokens + Len(tx_ev)) % CounterMod
       = (ack_delay_write_count + write_tokens) % CounterMod

\* When the counters let a timer or application event through, ack_delay's input
\* is empty and its output holds no more events than there are tokens under way:
\* those events never crowd out the rx engine's, though the counters wrap.
DrainedMeansRoom ==
  Drained => delay_ev = <<>> /\ Len(tx_ev) <= TokenDepth

\* A held-back ACK is followed by an event of its own session at the tx engine; a RST of a
\* tuple without a session, which carries id 0, is no event of session 0.
\* Only session 0 may lose its ACK, and only to such a RST (ack_dropped).
HeldAckSent ==
  \A s \in Session :
    (ack_table[s] > 0) ~> \/ tx_fsm \in {e \in Event : e # RstEvent /\ e.session_id = s}
                          \/ s = 0 /\ ack_dropped

\* The gate opens again after every burst: events of the application are forwarded.
TxAppForwarded == (app_ev # <<>>) ~> (app_ev = <<>>)

\* The token accounting of the event path: the counters are exact, and what the event
\* engine concludes from them about the FIFOs is true.
TokensExact == EventTypeOK /\ CountersExact /\ DrainedMeansRoom
=============================================================================
