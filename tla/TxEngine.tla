------------------------------ MODULE TxEngine ------------------------------
(***************************************************************************)
(* tx_engine.cpp (TxEngTcpFsm) and tx_sar_table.cpp for one session: the   *)
(* events that make the engine send, and the send window in the table,     *)
(* which three processes change without a lock.  The tx engine computes a  *)
(* whole burst from one answer of the table and writes not_ackd back when  *)
(* the burst ends; the tx application interface advances app_written; the  *)
(* rx engine reads the entry and later writes ackd.                        *)
(*                                                                         *)
(* Around them: the application; the network, which loses segments; the    *)
(* peer, whose acknowledgements come late and out of order; the probe and  *)
(* the retransmit timer, reduced to "set" and "expires".  Sequence numbers *)
(* wrap; Off(x) is the distance of x from the initial one.                 *)
(***************************************************************************)
EXTENDS Integers, Sequences, FiniteSetsExt

CONSTANTS
  SeqMod,      \* 2^32: sequence numbers
  BufMod,      \* BUFFER_SIZE = 2^WINDOW_BITS: buffer addresses, lengths, windows
  LenMod,      \* 2^16: next_curr_length and next_used_length
  MSS,         \* TCP_MSS
  InitCong,    \* TCP_MSS_TEN_TIMES
  CongMax,     \* CONGESTION_WINDOW_MAX
  MaxRtSegs,   \* the value of retrans_seg_cnt that ends a retransmission (3)
  Isn,         \* RandomVal(), the initial sequence number
  Windows,     \* windows the peer advertises, scaled
  Writes,      \* lengths of the application's writes
  MaxWritten,  \* bound on the bytes the application writes
  Depth        \* capacity of the event FIFO

ASSUME SeqAssumption == SeqMod \in Nat /\ BufMod \in Nat \ {0} /\ SeqMod % BufMod = 0
ASSUME LenAssumption == LenMod \in 1 .. BufMod /\ MSS \in 1 .. LenMod - 1
ASSUME CongAssumption == InitCong \in 1 .. BufMod - 1 /\ CongMax \in 1 .. BufMod - 2
ASSUME IsnAssumption == Isn \in 0 .. SeqMod - 1
ASSUME WindowsAssumption == Windows \subseteq 0 .. BufMod - 1 /\ Writes \subseteq 1 .. BufMod - 1
ASSUME BoundsAssumption == MaxWritten \in Nat /\ Depth \in Nat \ {0} /\ MaxRtSegs \in Nat
\* No two sequence numbers of a behaviour share an offset.
ASSUME OffsetAssumption == MaxWritten + BufMod + 2 < SeqMod

VARIABLES
  sar,       \* the session's TxSarTableEntry
  sar_req,   \* tx_eng_to_tx_sar_req
  sar_rsp,   \* tx_sar_to_tx_eng_rsp
  events,    \* ack_delay_to_tx_eng_event
  fsm,       \* state and registers of TxEngTcpFsm
  seg,       \* the segment handed to the packet pipeline in this step, or NoSeg
  rx,        \* RxEngTcpFsm between its read and its write of the entry, or NoRx
  ptimer,    \* is the probe timer set?
  rtimer,    \* the retransmit timer
  sent,      \* offset after the last byte (SYN, FIN) ever sent
  rcvd,      \* offset after the last byte the peer has received in order
  written,   \* bytes of the application that are in the buffer
  conn,      \* see Conns
  deviation  \* what first went wrong (see the actions that set it), or "none"

sar_vars == <<sar, sar_req, sar_rsp>>
timers   == <<ptimer, rtimer>>
world    == <<rcvd, written, conn>>
vars     == <<sar_vars, events, fsm, seg, rx, timers, sent, world, deviation>>

Low(x) == x % BufMod
Off(x) == (x - Isn) % SeqMod
Plus(x, n) == (x + n) % SeqMod
Room(fifo) == Len(fifo) < Depth
NoSeg == [type |-> "none"]
NoRx == [ack |-> -1]
Healthy == deviation = "none"

\* The connection: ESTABLISHED is OPEN; CLOSING once the application has closed
\* (FIN_WAIT_1); SHUT once the peer's FIN is taken (LAST_ACK, CLOSING); then DONE.
Conns == {"OPENING", "OPEN", "CLOSING", "SHUT", "DONE"}
Ended == {"CLOSING", "SHUT", "DONE"}

EventTypes == {"TX", "RT", "ACK", "SYN", "SYN_ACK", "FIN", "RST", "RST_NO_SESSION"}
Ev(type, cnt) == [type |-> type, cnt |-> cnt]
TimerOff == [type |-> "off", cnt |-> 0]

-----------------------------------------------------------------------------
(* tx_sar_table: one request per cycle, the tx engine's first.              *)

ReadReq == [kind |-> "read"]
WriteReq(n, fin_ready, fin_sent) ==
  [kind |-> "write", not_ackd |-> n, fin_is_ready |-> fin_ready, fin_is_sent |-> fin_sent]
InitReq(n) == [kind |-> "init", not_ackd |-> n]
RetransReq(threshold) == [kind |-> "retrans", threshold |-> threshold]

\* The answer to the tx engine's read; lengths are modulo the buffer size.
MinWindowCong(e) == e.cong_window                \* mutant: the peer's window ignored
MinWindow(e) == Min({e.cong_window, e.recv_window})
UsedLength(e) == Low(Low(e.not_ackd) - e.ackd)
CurrLength(e) == Low(e.app_written - Low(e.not_ackd))
UsableWindow(e) == IF MinWindow(e) > UsedLength(e) THEN MinWindow(e) - UsedLength(e) ELSE 0
TxSarToTxEngRsp(e) ==
  [ackd |-> e.ackd, not_ackd |-> e.not_ackd, app_written |-> e.app_written,
   fin_is_ready |-> e.fin_is_ready, fin_is_sent |-> e.fin_is_sent,
   curr_length |-> CurrLength(e), used_length |-> UsedLength(e),
   used_length_rst |-> Low(UsedLength(e) - (IF e.fin_is_sent THEN 1 ELSE 0)),
   usable_window |-> UsableWindow(e), min_window |-> MinWindow(e),
   ackd_eq_not_ackd |-> e.ackd = e.not_ackd,
   not_ackd_short |-> Plus(e.not_ackd, CurrLength(e))]

\* What a write of the tx engine makes of the entry; the FIN flags are only ever
\* set, and cleared by the initialisation for the next connection.
Written(e, r) ==
  CASE r.kind = "write" ->
         [e EXCEPT !.not_ackd = r.not_ackd, !.fin_is_ready = @ \/ r.fin_is_ready,
                   !.fin_is_sent = @ \/ r.fin_is_sent]
    [] r.kind = "init" ->
         [e EXCEPT !.not_ackd = r.not_ackd, !.app_written = Low(r.not_ackd),
                   !.ackd = Plus(r.not_ackd, -1), !.cong_window = InitCong,
                   !.slowstart_threshold = BufMod - 1,
                   !.fin_is_ready = FALSE, !.fin_is_sent = FALSE]
    [] r.kind = "retrans" ->
         [e EXCEPT !.slowstart_threshold = r.threshold, !.cong_window = InitCong]

SarTxEng ==
  /\ sar_req # <<>>
  /\ sar_req' = Tail(sar_req)
  /\ LET r == Head(sar_req) IN
     \/ /\ r.kind = "read" /\ Room(sar_rsp)
        /\ sar_rsp' = Append(sar_rsp, TxSarToTxEngRsp(sar))
        /\ UNCHANGED sar
     \/ /\ r.kind # "read"
        /\ sar' = Written(sar, r)
        /\ UNCHANGED sar_rsp
  /\ seg' = NoSeg
  /\ UNCHANGED <<events, fsm, rx, timers, sent, world, deviation>>

-----------------------------------------------------------------------------
(* TxEngTcpFsm.                                                             *)

NoRsp == [none |-> TRUE]
Load == [type |-> "LOAD", cnt |-> 0, loaded |-> FALSE, segs |-> 0,
         curr |-> 0, used |-> 0, usable |-> 0, rsp |-> NoRsp]

\* LOAD asks for the entry, except for a first SYN and a RST without a session.
AsksSar(e) == e.type \in {"TX", "RT", "ACK", "SYN_ACK", "FIN", "RST"} \/ (e.type = "SYN" /\ e.cnt # 0)

TxEngLoad ==
  /\ fsm.type = "LOAD" /\ events # <<>>
  /\ events' = Tail(events)
  /\ LET e == Head(events) IN
     /\ fsm' = [Load EXCEPT !.type = e.type, !.cnt = e.cnt]
     /\ IF AsksSar(e)
        THEN Room(sar_req) /\ sar_req' = Append(sar_req, ReadReq)
        ELSE UNCHANGED sar_req
  /\ seg' = NoSeg
  /\ UNCHANGED <<sar, sar_rsp, rx, timers, sent, world, deviation>>

\* The answer a handler works with: the one it has kept, or the next one.
Answer == IF fsm.loaded THEN fsm.rsp ELSE Head(sar_rsp)
Answered(type) == fsm.type = type /\ (fsm.loaded \/ sar_rsp # <<>>)
TakeAnswer == sar_rsp' = IF fsm.loaded THEN sar_rsp ELSE Tail(sar_rsp)

\* A segment leaves: n counts its bytes, or its SYN or FIN.
Emit(s, n) ==
  /\ seg' = s
  /\ sent' = Max({sent, Off(s.seq) + n})
NoEmit == seg' = NoSeg /\ UNCHANGED sent

\* Data leaves and the retransmit timer is started, if there is any data.
EmitData(type, seq, len, addr) ==
  IF len # 0
  THEN /\ Emit([type |-> type, seq |-> seq, len |-> len, addr |-> addr], len)
       /\ rtimer' = [rtimer EXCEPT !.type = "RT"]
  ELSE NoEmit /\ UNCHANGED rtimer

\* TX: everything between not_ackd and app_written that fits the window, in
\* segments of MSS bytes.  A full segment keeps the engine in TX; the last one
\* writes not_ackd back.  What does not fit waits for the probe timer.
SegLen(curr, usable) == Min({curr, usable, MSS})
BurstEnd(r, len) == Plus(r.not_ackd, len)
NextUsed(used) == (used + MSS) % LenMod
Remaining(r, used) == IF r.min_window >= used THEN r.min_window - used ELSE 0
ProbesNever(fits, r) == FALSE                    \* mutant: no probe timer
Probes(fits, r) == fits => ~r.ackd_eq_not_ackd
SendsFin(fits, r, curr) == fits /\ r.fin_is_ready /\ (r.ackd_eq_not_ackd \/ curr = 0)
\* The registers for the rest of the burst are narrower than the lengths of the answer.
CutsLength(curr, used, len) == len = MSS /\ (curr - MSS >= LenMod \/ used + MSS >= LenMod)

TxData ==
  /\ Answered("TX") /\ Room(sar_req)
  /\ LET r == Answer
         curr == IF fsm.loaded THEN fsm.curr ELSE r.curr_length
         used == IF fsm.loaded THEN fsm.used ELSE r.used_length
         usable == IF fsm.loaded THEN fsm.usable ELSE r.usable_window
         fits == curr <= usable
         len == SegLen(curr, usable)
         end == IF fits /\ len < MSS /\ r.ackd_eq_not_ackd THEN r.not_ackd_short
                ELSE BurstEnd(r, len) IN
     /\ EmitData("TX", r.not_ackd, len, Low(r.not_ackd))
     /\ deviation' = IF ~Healthy THEN deviation
                     ELSE IF r.fin_is_sent THEN "tx_after_fin"
                     ELSE IF CutsLength(curr, used, len) THEN "length_cut" ELSE "none"
     /\ \/ /\ len = MSS
           /\ fsm' = [fsm EXCEPT !.loaded = TRUE, !.curr = (curr - MSS) % LenMod,
                                 !.used = NextUsed(used), !.usable = Remaining(r, NextUsed(used)),
                                 !.rsp = [r EXCEPT !.not_ackd = end]]
           /\ UNCHANGED <<sar_req, ptimer>>
        \/ /\ len < MSS
           /\ sar_req' = Append(sar_req, WriteReq(end, FALSE, FALSE))
           /\ ptimer' = (ptimer \/ Probes(fits, r))
           /\ fsm' = IF SendsFin(fits, r, curr)
                     THEN [fsm EXCEPT !.type = "FIN", !.loaded = TRUE, !.curr = 0, !.used = 0,
                                      !.usable = 0, !.rsp = [r EXCEPT !.not_ackd = end]]
                     ELSE Load
  /\ TakeAnswer
  /\ UNCHANGED <<sar, events, rx, world>>

\* RT and RT_CONT: everything from ackd to not_ackd again, MSS bytes at a time and
\* at most MaxRtSegs + 1 times, without a look at the window.  RT_CONT takes the
\* address from the answer's fresh copy, whose ackd is 0.
HalfFlight(len) == (IF len > 4 * MSS THEN len \div 2 ELSE 2 * MSS) % LenMod
RtLenAll(r) == r.used_length                     \* mutant: the FIN counts as a byte
RtLen(r) == r.used_length_rst
RtAddr(r) == IF fsm.type = "RT" THEN Low(r.ackd) ELSE 0

TxRetransmit ==
  /\ Answered("RT") \/ fsm.type = "RT_CONT"
  /\ Room(sar_req)
  /\ LET r == Answer
         all == RtLen(r)
         len == Min({all, MSS}) IN
     /\ EmitData(fsm.type, r.ackd, len, RtAddr(r))
     /\ deviation' = IF Healthy /\ r.fin_is_sent /\ r.ackd_eq_not_ackd /\ fsm.type = "RT"
                     THEN "rt_after_fin" ELSE deviation
     /\ sar_req' = IF ~fsm.loaded /\ fsm.cnt = 1
                   THEN Append(sar_req, RetransReq(HalfFlight(all))) ELSE sar_req
     /\ \/ /\ all > MSS
           /\ fsm' = IF fsm.segs = MaxRtSegs THEN Load
                     ELSE [fsm EXCEPT !.type = "RT_CONT", !.loaded = TRUE, !.segs = @ + 1,
                             !.rsp = [r EXCEPT !.ackd = Plus(@, MSS), !.used_length_rst = Low(@ - MSS)]]
        \/ /\ all <= MSS
           /\ fsm' = IF r.fin_is_sent
                     THEN [fsm EXCEPT !.type = "FIN", !.loaded = TRUE, !.segs = 0, !.rsp = r]
                     ELSE Load
  /\ TakeAnswer
  /\ UNCHANGED <<sar, events, rx, ptimer, world>>

\* ACK, ACK_NODELAY: an empty segment.
TxAck ==
  /\ Answered("ACK")
  /\ Emit([type |-> "ACK", seq |-> Answer.not_ackd], 0)
  /\ TakeAnswer
  /\ fsm' = Load
  /\ UNCHANGED <<sar, sar_req, events, rx, timers, world, deviation>>

\* SYN, SYN_ACK: the first one initialises the entry, a repeated one (cnt # 0)
\* takes the sequence number from it: a late one, of a SYN that has been
\* acknowledged, leaves with the first byte's number and turns the timer to SYN.
TxSyn ==
  /\ fsm.type \in {"SYN", "SYN_ACK"}
  /\ AsksSar(fsm) => sar_rsp # <<>>
  /\ Emit([type |-> fsm.type, seq |-> IF fsm.cnt # 0 THEN Head(sar_rsp).ackd ELSE Isn], 1)
  /\ sar_rsp' = IF AsksSar(fsm) THEN Tail(sar_rsp) ELSE sar_rsp
  /\ IF fsm.cnt = 0
     THEN Room(sar_req) /\ sar_req' = Append(sar_req, InitReq(Plus(Isn, 1)))
     ELSE UNCHANGED sar_req
  /\ rtimer' = [rtimer EXCEPT !.type = fsm.type]
  /\ deviation' = IF Healthy /\ fsm.cnt # 0 /\ Head(sar_rsp).ackd # Isn THEN "late_syn" ELSE deviation
  /\ fsm' = Load
  /\ UNCHANGED <<sar, events, rx, ptimer, world>>

\* FIN: sent when all data has been sent; a first FIN that comes too early is
\* noted in the entry and sent by a later TX event.
FinSeq(r) == IF fsm.cnt # 0 THEN Plus(r.not_ackd, -1) ELSE r.not_ackd
AllSent(r, n) == Low(n) = r.app_written

TxFin ==
  /\ Answered("FIN") /\ Room(sar_req)
  /\ LET r == Answer
         done == AllSent(r, r.not_ackd) IN
     /\ sar_req' = IF fsm.cnt # 0 THEN sar_req
                   ELSE Append(sar_req, WriteReq(IF done THEN Plus(r.not_ackd, 1) ELSE r.not_ackd,
                                                 TRUE, done))
     /\ IF AllSent(r, FinSeq(r))
        THEN /\ Emit([type |-> "FIN", seq |-> FinSeq(r)], 1)
             /\ rtimer' = [rtimer EXCEPT !.type = "RT"]
        ELSE NoEmit /\ UNCHANGED rtimer
  /\ TakeAnswer
  /\ fsm' = Load
  /\ UNCHANGED <<sar, events, rx, ptimer, world, deviation>>

\* RST: with a session the answer is used if it is there already; the engine does
\* not wait for it, and an answer that comes later meets the next event.
TxRst ==
  /\ fsm.type \in {"RST", "RST_NO_SESSION"}
  /\ IF fsm.type = "RST" /\ sar_rsp = <<>>
     THEN /\ NoEmit
          /\ deviation' = IF Healthy THEN "answer_left" ELSE deviation
          /\ UNCHANGED sar_rsp
     ELSE /\ seg' = [type |-> "RST", seq |-> IF fsm.type = "RST" THEN Head(sar_rsp).not_ackd ELSE 0]
          /\ UNCHANGED sent
          /\ sar_rsp' = IF fsm.type = "RST" THEN Tail(sar_rsp) ELSE sar_rsp
          /\ UNCHANGED deviation
  /\ fsm' = Load
  /\ UNCHANGED <<sar, sar_req, events, rx, timers, world>>

TxEngTcpFsm == TxEngLoad \/ TxData \/ TxRetransmit \/ TxAck \/ TxSyn \/ TxFin \/ TxRst

-----------------------------------------------------------------------------
(* RxEngTcpFsm: an acknowledgement is judged by the entry as it was read; the *)
(* table serves the rx engine only when the tx engine asks for nothing.      *)

\* The peer acknowledges a prefix of what it has received.  As a bound: all of it,
\* what the entry has already (a duplicate), or the SYN only (late and reordered).
Acks == {1, Off(sar.ackd), rcvd} \cap 1 .. rcvd
RxRead(a) ==
  /\ rx = NoRx /\ sar_req = <<>> /\ Healthy /\ conn # "DONE"
  /\ a \in Acks
  /\ rx' = [ack |-> Plus(Isn, a), perv_ack |-> sar.ackd,
            next_byte |-> sar.not_ackd, cong_window |-> sar.cong_window,
            slowstart_threshold |-> sar.slowstart_threshold]
  /\ seg' = NoSeg
  /\ UNCHANGED <<sar_vars, events, fsm, timers, sent, world, deviation>>

\* perv_ack <= ack_number <= next_byte, also when the numbers wrap in between.
InWindowAny(s) == TRUE                                                \* mutant: not checked
InWindow(s) ==
  \/ s.perv_ack <= s.ack /\ s.ack <= s.next_byte
  \/ (s.perv_ack <= s.ack \/ s.ack <= s.next_byte) /\ s.next_byte < s.perv_ack

OldAck(s) == s.ack = s.perv_ack /\ s.perv_ack # s.next_byte
CongGrown(s) ==
  IF OldAck(s) THEN s.cong_window
  ELSE IF s.cong_window <= s.slowstart_threshold - MSS THEN Low(s.cong_window + MSS)
  ELSE IF s.cong_window <= CongMax THEN s.cong_window + 1 ELSE s.cong_window

\* The peer never takes back window it has granted with an earlier ACK.
KeepsGrant(win) ==
  \/ Off(rx.ack) < Off(sar.ackd)
  \/ Off(rx.ack) + win >= Off(sar.ackd) + sar.recv_window

\* The ACK branch.  An acknowledgement of next_byte stops the retransmit timer,
\* any other one restarts its count.  A segment with data makes the tx engine
\* acknowledge it, or retransmit if it is one of too many old ACKs; as a bound, it
\* comes before the close.  (The probe timer's event, which a new ACK brings
\* forward, may come at any time here.)
StopTimer == rtimer' = IF rx.ack = rx.next_byte THEN TimerOff ELSE [rtimer EXCEPT !.cnt = 0]
StaleStop == rx.ack = rx.next_byte /\ sent > Off(rx.ack) /\ rtimer.type # "off"
\* The connection ends (CLOSED, TIME_WAIT) although our FIN has not been acknowledged.
ClosedEarly(c) == c = "DONE" /\ Off(rx.ack) # written + 2
RxDeviates(c) ==
  deviation' = IF ~Healthy THEN deviation
               ELSE IF ClosedEarly(c) THEN "closed_early"
               ELSE IF StaleStop THEN "stale_stop" ELSE "none"
AckedConn ==
  CASE rx.ack # rx.next_byte -> conn
    [] rx.ack = rx.next_byte /\ conn = "OPENING" -> "OPEN"
    [] rx.ack = rx.next_byte /\ conn = "SHUT" -> "DONE"
    [] OTHER -> conn

RxWrite(win, data) ==
  /\ rx # NoRx /\ sar_req = <<>>
  /\ data => conn = "OPEN"
  /\ KeepsGrant(win)
  /\ StopTimer
  /\ IF InWindow(rx)
     THEN /\ sar' = [sar EXCEPT !.ackd = rx.ack, !.recv_window = win, !.cong_window = CongGrown(rx)]
          /\ conn' = AckedConn
          /\ RxDeviates(AckedConn)
          /\ IF data
             THEN /\ Room(events)
                  /\ \E e \in {"ACK"} \cup (IF OldAck(rx) THEN {"RT"} ELSE {}) :
                       events' = Append(events, Ev(e, 0))
             ELSE UNCHANGED events
     ELSE RxDeviates(conn) /\ UNCHANGED <<sar, conn, events>>
  /\ rx' = NoRx
  /\ seg' = NoSeg
  /\ UNCHANGED <<sar_req, sar_rsp, fsm, ptimer, sent, rcvd, written>>

\* The FIN+ACK branch.  The peer's FIN in order, from a peer whose FIN has not been
\* taken, writes ackd and the window whatever they are: an acknowledgement that came
\* late, or during a burst, moves ackd out of the window.  An open connection answers
\* with its own FIN.
OutOfWindow == Off(rx.ack) < Off(sar.ackd) \/ Off(rx.ack) > Off(sar.not_ackd)
FinConn == IF conn = "CLOSING" /\ rx.ack = rx.next_byte THEN "DONE" ELSE "SHUT"
RxFinTaken(win) ==
  /\ rx # NoRx /\ sar_req = <<>> /\ conn \in {"OPEN", "CLOSING"}
  /\ KeepsGrant(win) /\ Room(events)
  /\ StopTimer
  /\ sar' = [sar EXCEPT !.ackd = rx.ack, !.recv_window = win, !.cong_window = rx.cong_window]
  /\ conn' = FinConn
  /\ IF Healthy /\ OutOfWindow THEN deviation' = "unchecked_ack" ELSE RxDeviates(FinConn)
  /\ events' = Append(events, Ev(IF conn = "OPEN" THEN "FIN" ELSE "ACK", 0))
  /\ rx' = NoRx
  /\ seg' = NoSeg
  /\ UNCHANGED <<sar_req, sar_rsp, fsm, ptimer, sent, rcvd, written>>

\* A FIN out of order, or one again, only stops the timer and is acknowledged.
RxFinRefused ==
  /\ rx # NoRx /\ sar_req = <<>> /\ Room(events)
  /\ StopTimer /\ RxDeviates(conn)
  /\ events' = Append(events, Ev("ACK", 0))
  /\ rx' = NoRx
  /\ seg' = NoSeg
  /\ UNCHANGED <<sar_vars, fsm, ptimer, sent, world>>

-----------------------------------------------------------------------------
(* The application, the timers and the network.  Once the engine has left the *)
(* rails (deviation) nothing new comes in.                                   *)

\* tx_app_intf: bytes are in the buffer, app_written is advanced and then a TX
\* event is set; the table takes the new app_written before the event has passed
\* event engine and ack delay.
SpaceLeft == Low(sar.ackd - sar.app_written - 1)
AppWrite(n) ==
  /\ conn = "OPEN" /\ Healthy
  /\ n <= SpaceLeft /\ written + n <= MaxWritten
  /\ sar_req = <<>> /\ Room(events)
  /\ sar' = [sar EXCEPT !.app_written = Low(@ + n)]
  /\ written' = written + n
  /\ events' = Append(events, Ev("TX", 0))
  /\ seg' = NoSeg
  /\ UNCHANGED <<sar_req, sar_rsp, fsm, rx, timers, sent, rcvd, conn, deviation>>

AppClose ==
  /\ conn = "OPEN" /\ Healthy /\ Room(events)
  /\ conn' = "CLOSING"
  /\ events' = Append(events, Ev("FIN", 0))
  /\ seg' = NoSeg
  /\ UNCHANGED <<sar_vars, fsm, rx, timers, sent, rcvd, written, deviation>>

ProbeExpires ==
  /\ ptimer /\ Healthy /\ Room(events)
  /\ ptimer' = FALSE
  /\ events' = Append(events, Ev("TX", 0))
  /\ seg' = NoSeg
  /\ UNCHANGED <<sar_vars, fsm, rx, rtimer, sent, world, deviation>>

\* The engine tells a first expiry from later ones only.
RetransExpires ==
  /\ rtimer.type # "off" /\ Healthy /\ Room(events)
  /\ LET n == Min({rtimer.cnt + 1, 2}) IN
     /\ events' = Append(events, Ev(rtimer.type, n))
     /\ rtimer' = [type |-> "off", cnt |-> n]
  /\ seg' = NoSeg
  /\ UNCHANGED <<sar_vars, fsm, rx, ptimer, sent, world, deviation>>

\* RxEngTcpFsm, RxEngTcpMetaHandler: an old SYN+ACK, or a segment that fits no
\* connection, is reset.
ResetEvent(type) ==
  /\ conn = "OPENING" /\ Healthy /\ Room(events)
  /\ events' = Append(events, Ev(type, 0))
  /\ seg' = NoSeg
  /\ UNCHANGED <<sar_vars, fsm, rx, timers, sent, world, deviation>>

\* The peer gets a segment that continues what it has; it is lost otherwise.
SegEnd == Off(seg.seq) + (IF "len" \in DOMAIN seg THEN seg.len ELSE 1)
Deliver ==
  /\ seg.type \notin {"none", "ACK", "RST"} /\ Healthy
  /\ Off(seg.seq) <= rcvd /\ SegEnd > rcvd
  /\ rcvd' = SegEnd
  /\ seg' = NoSeg
  /\ UNCHANGED <<sar_vars, events, fsm, rx, timers, sent, written, conn, deviation>>

Init ==
  /\ sar = [ackd |-> 0, not_ackd |-> 0, app_written |-> 0, recv_window |-> 0, cong_window |-> 0,
            slowstart_threshold |-> 0, fin_is_ready |-> FALSE, fin_is_sent |-> FALSE]
  /\ sar_req = <<>> /\ sar_rsp = <<>>
  /\ \E type \in {"SYN", "SYN_ACK"} : events = <<Ev(type, 0)>>
  /\ fsm = Load /\ seg = NoSeg /\ rx = NoRx
  /\ ptimer = FALSE /\ rtimer = TimerOff
  /\ sent = 0 /\ rcvd = 0 /\ written = 0 /\ conn = "OPENING"
  /\ deviation = "none"

Rx ==
  \/ \E a \in Acks : RxRead(a)
  \/ \E win \in Windows, data \in BOOLEAN : RxWrite(win, data)
  \/ \E win \in Windows : RxFinTaken(win)
  \/ RxFinRefused
App == AppClose \/ \E n \in Writes : AppWrite(n)
Reset == \E type \in {"RST", "RST_NO_SESSION"} : ResetEvent(type)
Next ==
  \/ SarTxEng \/ TxEngTcpFsm \/ Rx \/ App \/ ProbeExpires \/ RetransExpires
  \/ Reset \/ Deliver

Spec == Init /\ [][Next]_vars

\* The processes and the timers run for ever; a segment sent again and again gets
\* through; the peer acknowledges what it has, and in the end opens its window.
Fairness ==
  /\ WF_vars(SarTxEng) /\ WF_vars(TxEngTcpFsm)
  /\ SF_vars(ProbeExpires) /\ SF_vars(RetransExpires) /\ SF_vars(Deliver)
  /\ SF_vars(RxRead(rcvd))
  /\ SF_vars(rx.ack = Plus(Isn, rcvd) /\ RxWrite(Max(Windows), FALSE))
  /\ SF_vars(\E win \in Windows : RxWrite(win, FALSE))
FairSpec == Spec /\ Fairness
-----------------------------------------------------------------------------
(* Properties.  They hold until the engine leaves the rails: see deviation.   *)

TxEngTypeOK ==
  /\ sar \in [ackd : 0 .. SeqMod - 1, not_ackd : 0 .. SeqMod - 1, app_written : 0 .. BufMod - 1,
              recv_window : Windows \cup {0}, cong_window : 0 .. BufMod - 1,
              slowstart_threshold : 0 .. BufMod - 1, fin_is_ready : BOOLEAN, fin_is_sent : BOOLEAN]
  /\ Len(sar_req) <= Depth /\ Len(sar_rsp) <= Depth /\ Len(events) <= Depth
  /\ fsm.type \in {"LOAD", "RT_CONT"} \cup EventTypes /\ fsm.cnt \in 0 .. 2
  /\ fsm.curr \in 0 .. BufMod - 1 /\ fsm.usable \in 0 .. BufMod - 1
  /\ ptimer \in BOOLEAN /\ rtimer \in [type : {"off", "SYN", "SYN_ACK", "RT"}, cnt : 0 .. 2]
  /\ written \in 0 .. MaxWritten /\ sent \in Nat /\ rcvd \in 0 .. sent
  /\ conn \in Conns

\* A burst is computed from one answer while app_written and ackd move on: still
\* every data segment, sent first or again, holds bytes the application wrote.
SentIsWritten ==
  Healthy /\ seg.type \in {"TX", "RT", "RT_CONT"} =>
    Off(seg.seq) >= 1 /\ Off(seg.seq) + seg.len <= written + 1

\* A burst is computed from one answer, and the windows move while it is sent: still
\* no new byte leaves beyond the edge the peer has granted.
WithinWindow ==
  Healthy /\ seg.type = "TX" => Off(seg.seq) + seg.len <= Off(sar.ackd) + sar.recv_window

\* No byte is skipped: the table never says a byte was sent that was not, and a
\* segment never starts beyond what was sent before it.
NoByteSkipped ==
  [][Healthy /\ conn # "OPENING" =>
       /\ Off(sar.not_ackd) <= sent
       /\ seg'.type \notin {"none", "RST"} => Off(seg'.seq) <= sent]_vars

\* A FIN follows the last byte the application wrote, whether the application or the
\* peer closes, and whether it is sent at once, by a later TX event, or again by the
\* retransmit timer.
FinIsLast ==
  Healthy /\ seg.type = "FIN" => conn \in Ended /\ Off(seg.seq) = written + 1

\* Old and reordered acknowledgements never move the send window back, and the window
\* stays in order, but for the acknowledgement of a FIN, which is not checked.
AckdAdvances ==
  [][Healthy /\ conn # "OPENING" /\ deviation' # "unchecked_ack" =>
       /\ Off(sar'.ackd) >= Off(sar.ackd)
       /\ Off(sar'.ackd) <= Off(sar'.not_ackd)]_vars

\* What the application has written, and the FIN of a close, is acknowledged in the end,
\* although segments and acknowledgements are lost, the window closes at times and
\* every process works on answers that are out of date.
AllAcked ==
  (conn \in Ended \/ written = MaxWritten) ~>
    (~Healthy \/ Off(sar.ackd) = written + (IF conn \in Ended THEN 2 ELSE 1))

\* What leaves the engine is legal: data segments hold written bytes only, and a FIN stands
\* behind all of them.
SegmentsLegal == TxEngTypeOK /\ SentIsWritten /\ FinIsLast

\* The send window stays in order: ackd, not_ackd and the segments follow the bytes that
\* were really sent, in steps of three processes that hold no lock on the table.
WindowInOrder == NoByteSkipped /\ AckdAdvances
=============================================================================
