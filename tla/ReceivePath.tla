----------------------------- MODULE ReceivePath -----------------------------
(***************************************************************************)
(* From an accepted segment to the application and back: rx_sar_table, the *)
(* notification and data handlers of rx_app_intf, the reading half of      *)
(* memory_access, and the application that is kept with the engine, the    *)
(* echo server.                                                            *)
(*                                                                         *)
(* rx_sar_table keeps recvd and app_read for a session; the rx engine      *)
(* accepts a segment by comparing them, the tx engine advertises the       *)
(* difference as its window, and rx_app_intf moves app_read when the       *)
(* application asks for bytes.  The bytes themselves go through a ring in  *)
(* the memory, and nothing but the order of the notifications says where   *)
(* they are.                                                               *)
(*                                                                         *)
(* A byte of a session is known by its number, counted from the start.     *)
(* The rx engine and the tx application interface have modules of their    *)
(* own (RxEngine, TxApp); here they take part with what they do to these   *)
(* tables.                                                                 *)
(***************************************************************************)
EXTENDS Integers, Sequences

CONSTANTS
  Sessions,
  SeqMod,      \* 2^32
  BufMod,      \* BUFFER_SIZE = 2^WINDOW_BITS, divides SeqMod
  WordBytes,   \* bytes of a word, 64
  WinMod,      \* 2^16, the window field of a header
  Scales,      \* 2^win_shift of a connection, as the peer announces it
  Isn,         \* first byte of the peer, modulo SeqMod
  SegLengths,  \* lengths of segments
  Depth,       \* capacity of the FIFOs
  EchoRoom,    \* bytes the send buffer and the peer's window take unacknowledged
  MaxBeyond,   \* bound on the bytes a segment exceeds the window by
  MaxBytes,    \* bound on the bytes of a session
  MaxConns     \* bound on the connections

ASSUME RcvModAssumption ==
  /\ BufMod \in Nat \ {0, 1} /\ SeqMod \in Nat \ {0} /\ SeqMod % BufMod = 0
  /\ Isn \in 0 .. SeqMod - 1 /\ {WinMod, WordBytes} \subseteq Nat \ {0} /\ Scales \subseteq Nat \ {0}
ASSUME RcvLengthsAssumption == SegLengths \subseteq 1 .. BufMod
ASSUME RcvBoundsAssumption ==
  Depth \in Nat \ {0, 1} /\ {EchoRoom, MaxBeyond, MaxBytes, MaxConns} \subseteq Nat

VARIABLES
  rx_sar_table,  \* [Sessions -> [recvd, app_read, scale]]
  app_req, app_rsp,    \* rx_app_to_rx_sar_req, rx_sar_to_rx_app_rsp
  eng_req, eng_rsp,    \* rx_eng_to_rx_sar_req, rx_sar_to_rx_eng_rsp
  eng,           \* RxEngTcpFsm: the segment in TRANSITION, or Nothing
  store,         \* accepted payloads and notices that wait for the data mover
  rx_notice, rt_notice,  \* notifications of rx engine and retransmit timer
  notices,       \* rx_app_notification_no_tdest
  notify_reg,    \* NetAppNotificationTdestHandler: notify_reg, or Nothing
  net_notice,    \* net_app_notification
  read_req, read_rsp,    \* net_app_recv_data_req, net_app_recv_data_rsp
  fsm,           \* RxAppDataHandler
  blocks, read_data,     \* accesses of the data mover, and the data they returned
  app,           \* EchoServerReceiveData
  echo_meta, echo_data,  \* echo_server_meta_fifo, net_app_rxtx_data_fifo
  echo_tx,       \* EchoServerTransmitData
  mem,           \* [Sessions -> [0 .. BufMod - 1 -> byte]]: the receive buffers
  conn,          \* [Sessions -> {"CLOSED", "OPEN"}], OPEN in ESTABLISHED only
  unacked,       \* echoed bytes the rx engine has seen no acknowledgement of
  base,          \* sequence number of byte 0
  edge,          \* bytes the peer may send, from the windows advertised
  accepted, stored, announced, freed, echoed,   \* bytes since the start
  deviation,     \* what first went wrong, or "none"
  conns

sar     == <<rx_sar_table, app_req, app_rsp, eng_req, eng_rsp>>
notify  == <<rx_notice, rt_notice, notices, notify_reg, net_notice>>
reader  == <<read_req, read_rsp, fsm, blocks, read_data>>
echo    == <<app, echo_meta, echo_data, echo_tx>>
history == <<base, edge, accepted, stored, announced, freed, echoed>>
vars    == <<sar, eng, store, notify, reader, echo, mem, conn, unacked, history, deviation, conns>>

Low(x) == x % BufMod
SeqNo(x) == x % SeqMod
Room(fifo) == Len(fifo) < Depth
Nothing == [none |-> TRUE]
Empty == -1
Zero == [s \in Sessions |-> 0]
Healthy == deviation = "none"
Deviate(cond, what) == deviation' = IF Healthy /\ cond THEN what ELSE deviation

-----------------------------------------------------------------------------
(* rx_sar_table: tx engine before application before rx engine.              *)

\* One byte stays free, so that a full buffer differs from an empty one.
FreeSpace(e) == Low(e.app_read - e.recvd - 1)

AdvertisedUp(e) == (FreeSpace(e) + e.scale - 1) \div e.scale   \* mutant: rounded up
Advertised(e) == (FreeSpace(e) \div e.scale) % WinMod
\* The byte that follows what the entry says has been received.
NextByte(s, e) == accepted[s] - SeqNo(base[s] + accepted[s] - e.recvd)

\* The tx engine asks for every segment it sends, from the SYN+ACK on (whose event is on
\* its way for longer than the write that initialises the entry), and is served first.
\* The segment tells the peer how far it may send.
SarTxLookup(s) ==
  /\ conn[s] = "OPEN"
  /\ \A i \in 1 .. Len(eng_req) : ~(eng_req[i].write /\ eng_req[i].init)
  /\ LET e == rx_sar_table[s] IN
     edge' = [edge EXCEPT ![s] = NextByte(s, e) + Advertised(e) * e.scale]
  /\ UNCHANGED <<sar, eng, store, notify, reader, echo, mem, conn, unacked, base, accepted, stored,
                 announced, freed, echoed, deviation, conns>>

SarApp ==
  /\ app_req # <<>>
  /\ LET r == Head(app_req)
         s == r.id IN
     IF r.write
     THEN /\ rx_sar_table' = [rx_sar_table EXCEPT ![s].app_read = r.app_read]
          /\ freed' = [freed EXCEPT ![s] = @ + Low(r.app_read - rx_sar_table[s].app_read)]
          /\ UNCHANGED app_rsp
     ELSE /\ Room(app_rsp)
          /\ app_rsp' = Append(app_rsp, [id |-> s, app_read |-> rx_sar_table[s].app_read])
          /\ UNCHANGED <<rx_sar_table, freed>>
  /\ app_req' = Tail(app_req)
  /\ UNCHANGED <<eng_req, eng_rsp, eng, store, notify, reader, echo, mem, conn, unacked, base,
                 edge, accepted, stored, announced, echoed, deviation, conns>>

Read(s) == [id |-> s, write |-> FALSE]
WriteRecvd(s, n) == [id |-> s, write |-> TRUE, init |-> FALSE, recvd |-> SeqNo(n)]
InitRecvd(s, n, scale) ==
  [id |-> s, write |-> TRUE, init |-> TRUE, recvd |-> SeqNo(n), scale |-> scale]

Written(e, r) ==
  IF r.init THEN [recvd |-> r.recvd, app_read |-> Low(r.recvd), scale |-> r.scale]
  ELSE [e EXCEPT !.recvd = r.recvd]

SarEng ==
  /\ app_req = <<>> /\ eng_req # <<>>
  /\ LET r == Head(eng_req) IN
     IF r.write
     THEN /\ rx_sar_table' = [rx_sar_table EXCEPT ![r.id] = Written(@, r)]
          /\ UNCHANGED eng_rsp
     ELSE /\ Room(eng_rsp)
          /\ eng_rsp' = Append(eng_rsp, rx_sar_table[r.id])
          /\ UNCHANGED rx_sar_table
  /\ eng_req' = Tail(eng_req)
  /\ UNCHANGED <<app_req, app_rsp, eng, store, notify, reader, echo, mem, conn, unacked,
                 history, deviation, conns>>

-----------------------------------------------------------------------------
(* RxEngTcpFsm: segments with data, with the peer's FIN, and acknowledgements. *)

\* LOAD: a segment in order, a duplicate, or one after a loss; the peer may exceed the
\* window it was told, by MaxBeyond bytes.
Load(s, at, n, fin) ==
  /\ conn[s] = "OPEN" /\ eng = Nothing /\ Room(eng_req)
  /\ at >= 0 /\ at + n <= MaxBytes /\ at + n <= edge[s] + MaxBeyond
  /\ eng_req' = Append(eng_req, Read(s))
  /\ eng' = [id |-> s, at |-> at, len |-> n, fin |-> fin, fits |-> at + n <= edge[s], acks |-> 0]
  /\ UNCHANGED <<rx_sar_table, app_req, app_rsp, eng_rsp, store, notify, reader, echo,
                 mem, conn, unacked, history, deviation, conns>>

\* LOAD: as a bound, what was echoed is acknowledged by a segment of its own, all at once.
LoadAck(s) ==
  /\ conn[s] = "OPEN" /\ eng = Nothing /\ Room(eng_req) /\ unacked[s] > 0
  /\ eng_req' = Append(eng_req, Read(s))
  /\ eng' = [id |-> s, at |-> accepted[s], len |-> 0, fin |-> FALSE, fits |-> FALSE,
             acks |-> unacked[s]]
  /\ UNCHANGED <<rx_sar_table, app_req, app_rsp, eng_rsp, store, notify, reader, echo,
                 mem, conn, unacked, history, deviation, conns>>

AcceptsAlways(e, seq, n) == seq = e.recvd                     \* mutant: no room needed
Accepts(e, seq, n) == seq = e.recvd /\ FreeSpace(e) > n
\* A FIN counts as a byte; the bytes before it are taken without a look at the free space.
AcceptsFin(e, seq) == seq = e.recvd
Phantom(seg) == IF seg.fin THEN 1 ELSE 0
Takes(seg, e, seq) ==
  /\ conn[seg.id] = "OPEN"
  /\ \/ seg.fin /\ AcceptsFin(e, seq)
     \/ ~seg.fin /\ seg.len # 0 /\ Accepts(e, seq, seg.len)

\* TRANSITION.  The lock of the state table keeps the state from the answer to the write.
\* With its FIN the connection goes to LAST_ACK: nothing more is received or echoed in it.
Transition ==
  /\ eng # Nothing /\ eng_rsp # <<>>
  /\ LET s == eng.id
         e == Head(eng_rsp)
         seq == SeqNo(base[s] + eng.at) IN
     /\ IF Takes(eng, e, seq)
        THEN /\ Room(eng_req) /\ Room(store)
             /\ eng_req' = Append(eng_req, WriteRecvd(s, seq + eng.len + Phantom(eng)))
             /\ store' = Append(store, [id |-> s, addr |-> Low(seq), at |-> eng.at, len |-> eng.len])
             /\ accepted' = [accepted EXCEPT ![s] = @ + eng.len]
             /\ conn' = IF eng.fin THEN [conn EXCEPT ![s] = "CLOSED"] ELSE conn
             /\ Deviate(eng.fin /\ FreeSpace(e) < eng.len, "fin_overrun")
        ELSE UNCHANGED <<eng_req, store, accepted, conn, deviation>>
     /\ unacked' = IF conn[s] = "OPEN" THEN [unacked EXCEPT ![s] = @ - eng.acks] ELSE unacked
  /\ eng_rsp' = Tail(eng_rsp)
  /\ eng' = Nothing
  /\ UNCHANGED <<rx_sar_table, app_req, app_rsp, notify, reader, echo, mem, base, edge, stored,
                 announced, freed, echoed, conns>>

\* A notice for the application: len bytes from byte number at on, which only the
\* specification knows; no guard reads it.
Notice(s, n, at) == [id |-> s, len |-> n, at |-> at]

\* The data mover's status for the payload: only a write that succeeded is announced; the
\* notice of a FIN without payload needs none.
\* After a failed one the application takes what is announced from the wrong place.
\* The memory is slower than rx_sar_table, which has taken the new recvd by then.
Cells(j) == {Low(j.addr + i) : i \in 0 .. j.len - 1}
Overwrites(j) == \E k \in 1 .. Len(blocks) : blocks[k].id = j.id /\ Cells(blocks[k]) \cap Cells(j) # {}

Store(okay) ==
  /\ store # <<>> /\ Room(rx_notice) /\ (Head(store).len = 0 => okay)
  /\ \A i \in 1 .. Len(eng_req) : ~eng_req[i].write
  /\ LET j == Head(store) IN
     /\ mem' = IF okay
               THEN [mem EXCEPT ![j.id] = [a \in 0 .. BufMod - 1 |->
                       IF a \in Cells(j) THEN j.at + Low(a - j.addr) ELSE @[a]]]
               ELSE mem
     /\ stored' = IF okay THEN [stored EXCEPT ![j.id] = @ + j.len] ELSE stored
     /\ rx_notice' = IF okay THEN Append(rx_notice, Notice(j.id, j.len, j.at)) ELSE rx_notice
     /\ deviation' = IF ~Healthy THEN deviation
                     ELSE IF ~okay THEN "write_failed"
                     ELSE IF Overwrites(j) THEN "overwritten" ELSE deviation
  /\ store' = Tail(store)
  /\ UNCHANGED <<sar, eng, rt_notice, notices, notify_reg, net_notice, reader, echo, conn, unacked,
                 base, edge, accepted, announced, freed, echoed, conns>>

\* Nothing of the session is under way.
Quiet(s) ==
  /\ eng_req = <<>> /\ app_req = <<>> /\ echoed[s] = accepted[s]
  /\ rx_notice = <<>> /\ rt_notice = <<>> /\ notices = <<>> /\ notify_reg = Nothing

\* A SYN: recvd and app_read start anew, whatever the application still reads; the window
\* is scaled if the peer announces that it understands it.
Establish(s, scale) ==
  /\ conn[s] = "CLOSED" /\ conns < MaxConns /\ eng = Nothing /\ Room(eng_req)
  /\ conn' = [conn EXCEPT ![s] = "OPEN"]
  /\ eng_req' = Append(eng_req, InitRecvd(s, Isn, scale))
  /\ base' = [base EXCEPT ![s] = SeqNo(Isn - accepted[s])]
  /\ edge' = [edge EXCEPT ![s] = accepted[s]]
  /\ unacked' = [unacked EXCEPT ![s] = 0]
  /\ Deviate(~Quiet(s), "reused")
  /\ conns' = conns + 1
  /\ UNCHANGED <<rx_sar_table, app_req, app_rsp, eng_rsp, eng, store, notify, reader,
                 echo, mem, accepted, stored, announced, freed, echoed>>

\* The retransmit timer gives up and tells the application.
Abort(s) ==
  /\ conn[s] = "OPEN" /\ Room(rt_notice)
  /\ conn' = [conn EXCEPT ![s] = "CLOSED"]
  /\ rt_notice' = Append(rt_notice, Notice(s, 0, 0))
  /\ UNCHANGED <<sar, eng, store, rx_notice, notices, notify_reg, net_notice, reader, echo, mem,
                 unacked, history, deviation, conns>>

-----------------------------------------------------------------------------
(* rx_app_intf: notifications.                                              *)

\* AxiStreamMerger: the rx engine's first.
MergeNotice ==
  /\ Room(notices)
  /\ \/ /\ rx_notice # <<>>
        /\ notices' = Append(notices, Head(rx_notice))
        /\ rx_notice' = Tail(rx_notice)
        /\ UNCHANGED rt_notice
     \/ /\ rx_notice = <<>> /\ rt_notice # <<>>
        /\ notices' = Append(notices, Head(rt_notice))
        /\ rt_notice' = Tail(rt_notice)
        /\ UNCHANGED rx_notice
  /\ UNCHANGED <<sar, eng, store, notify_reg, net_notice, reader, echo, mem, conn, unacked, history,
                 deviation, conns>>

\* NetAppNotificationTdestHandler: the role is asked for, then the notice is sent.
NotifyLookup ==
  /\ notify_reg = Nothing /\ notices # <<>>
  /\ notify_reg' = Head(notices)
  /\ notices' = Tail(notices)
  /\ UNCHANGED <<sar, eng, store, rx_notice, rt_notice, net_notice, reader, echo, mem, conn, unacked,
                 history, deviation, conns>>

NotifySend ==
  /\ notify_reg # Nothing /\ Room(net_notice)
  /\ net_notice' = Append(net_notice, notify_reg)
  /\ announced' = [announced EXCEPT ![notify_reg.id] = @ + notify_reg.len]
  /\ notify_reg' = Nothing
  /\ UNCHANGED <<sar, eng, store, rx_notice, rt_notice, notices, reader, echo, mem, conn, unacked, base,
                 edge, accepted, stored, freed, echoed, deviation, conns>>

-----------------------------------------------------------------------------
(* RxAppDataHandler and the data mover's reads.                              *)

Idle == [state |-> "WAIT_NET_APP_DATA_REQ"]

\* WAIT_NET_APP_DATA_REQ.  A request for no bytes is dropped; the echo server sends none.
DataReq ==
  /\ fsm = Idle /\ read_req # <<>> /\ Room(app_req)
  /\ app_req' = Append(app_req, Read(Head(read_req).id))
  /\ fsm' = [state |-> "WAIT_SAR_RSP", len |-> Head(read_req).len]
  /\ read_req' = Tail(read_req)
  /\ UNCHANGED <<rx_sar_table, app_rsp, eng_req, eng_rsp, eng, store, notify, read_rsp,
                 blocks, read_data, echo, mem, conn, unacked, history, deviation, conns>>

\* ReadDataSendCmd: a read that reaches the end of the ring is broken down; if it
\* ends there the second access has no bytes.
SecondAddr(addr) == 0
Accesses(s, addr, n) ==
  LET first == BufMod - addr IN
  IF addr + n >= BufMod
  THEN <<[id |-> s, addr |-> addr, len |-> first],
         [id |-> s, addr |-> SecondAddr(addr), len |-> n - first]>>
  ELSE <<[id |-> s, addr |-> addr, len |-> n]>>

AfterRead(p, n) == Low(p + n)

\* WAIT_SAR_RSP: the room is given back before the bytes have been read.
SarRsp ==
  /\ fsm.state = "WAIT_SAR_RSP" /\ app_rsp # <<>> /\ Room(app_req) /\ Room(read_rsp)
  /\ LET r == Head(app_rsp) IN
     /\ read_rsp' = Append(read_rsp, r.id)
     /\ app_req' = Append(app_req, [id |-> r.id, write |-> TRUE,
                                      app_read |-> AfterRead(r.app_read, fsm.len)])
     /\ blocks' = Accesses(r.id, r.app_read, fsm.len)
     /\ fsm' = [state |-> "WAIT_DATA", parts |-> Len(blocks')]
     /\ Deviate(blocks'[Len(blocks')].len = 0, "empty_access")
  /\ app_rsp' = Tail(app_rsp)
  /\ UNCHANGED <<rx_sar_table, eng_req, eng_rsp, eng, store, notify, read_req, read_data,
                 echo, mem, conn, unacked, history, conns>>

\* The data mover returns the bytes of an access; it does not come back from an empty one.
MoverRead ==
  /\ blocks # <<>> /\ Head(blocks).len > 0
  /\ LET b == Head(blocks) IN
     read_data' = Append(read_data, [i \in 1 .. b.len |-> mem[b.id][b.addr + i - 1]])
  /\ blocks' = Tail(blocks)
  /\ UNCHANGED <<sar, eng, store, notify, read_req, read_rsp, fsm, echo, mem, conn, unacked, history,
                 deviation, conns>>

\* ReadDataFromMem: of the first access of two only the last word is passed on.
LastWord(b) ==
  LET n == Len(b) % WordBytes
      w == IF n = 0 THEN WordBytes ELSE n IN
  SubSeq(b, Len(b) - w + 1, Len(b))
JoinedLast(parts) == parts[Len(parts)]                        \* mutant: the carried word is lost
Joined(parts) == IF Len(parts) = 1 THEN parts[1] ELSE LastWord(parts[1]) \o parts[2]

AfterDataWaits == fsm                                         \* mutant: the last word is missed
AfterData == Idle

\* WAIT_DATA, and FORWARD_DATA of the echo server: up to the last word.
Deliver ==
  /\ fsm.state = "WAIT_DATA" /\ Len(read_data) = fsm.parts
  /\ app.state = "FORWARD_DATA" /\ Room(echo_data)
  /\ echo_data' = Append(echo_data, Joined(read_data))
  /\ Deviate(Len(read_data) = 2 /\ Len(read_data[1]) > WordBytes, "words_lost")
  /\ read_data' = <<>>
  /\ fsm' = AfterData
  /\ app' = [state |-> "GET_DATA_NOTY"]
  /\ UNCHANGED <<sar, eng, store, notify, read_req, read_rsp, blocks, echo_meta, echo_tx, mem,
                 conn, unacked, history, conns>>

-----------------------------------------------------------------------------
(* The echo server.                                                         *)

GetDataNoty ==
  /\ app.state = "GET_DATA_NOTY" /\ net_notice # <<>>
  /\ LET n == Head(net_notice) IN
     IF n.len # 0
     THEN /\ Room(read_req)
          /\ read_req' = Append(read_req, n)
          /\ app' = [state |-> "WAIT_SESSION_ID", notice |-> n]
     ELSE UNCHANGED <<read_req, app>>
  /\ net_notice' = Tail(net_notice)
  /\ UNCHANGED <<sar, eng, store, rx_notice, rt_notice, notices, notify_reg, read_rsp, fsm,
                 blocks, read_data, echo_meta, echo_data, echo_tx, mem, conn, unacked, history, deviation,
                 conns>>

WaitSessionId ==
  /\ app.state = "WAIT_SESSION_ID" /\ read_rsp # <<>> /\ Room(echo_meta)
  /\ echo_meta' = Append(echo_meta, app.notice)
  /\ read_rsp' = Tail(read_rsp)
  /\ app' = [state |-> "FORWARD_DATA"]
  /\ UNCHANGED <<sar, eng, store, notify, read_req, fsm, blocks, read_data, echo_data, echo_tx,
                 mem, conn, unacked, history, deviation, conns>>

\* READ_META: ask tx_app_intf for room.
EchoRequest ==
  /\ echo_tx.state = "READ_META" /\ echo_meta # <<>>
  /\ echo_tx' = [state |-> "WAIT_RESPONSE", meta |-> Head(echo_meta)]
  /\ echo_meta' = Tail(echo_meta)
  /\ UNCHANGED <<sar, eng, store, notify, reader, app, echo_data, mem, conn, unacked, history, deviation,
                 conns>>

\* tx_app_intf accepts only for an established connection, and what has room beside the
\* bytes that are not acknowledged.
Granted(m) == conn[m.id] = "OPEN" /\ unacked[m.id] + m.len <= EchoRoom

\* WAIT_RESPONSE
EchoGranted ==
  /\ echo_tx.state = "WAIT_RESPONSE" /\ Granted(echo_tx.meta)
  /\ echo_tx' = [echo_tx EXCEPT !.state = "FORWARD_DATA"]
  /\ UNCHANGED <<sar, eng, store, notify, reader, app, echo_meta, echo_data, mem, conn, unacked,
                 history, deviation, conns>>

\* No room, or no connection: both are tried again after a pause, without end.
EchoRefused ==
  /\ echo_tx.state = "WAIT_RESPONSE" /\ ~Granted(echo_tx.meta)
  /\ echo_tx' = [echo_tx EXCEPT !.state = "WAIT_CYCLES"]
  /\ Deviate(conn[echo_tx.meta.id] = "CLOSED", "closed_retry")
  /\ UNCHANGED <<sar, eng, store, notify, reader, app, echo_meta, echo_data, mem, conn, unacked,
                 history, conns>>

EchoAgain ==
  /\ echo_tx.state = "WAIT_CYCLES"
  /\ echo_tx' = [echo_tx EXCEPT !.state = "WAIT_RESPONSE"]
  /\ UNCHANGED <<sar, eng, store, notify, reader, app, echo_meta, echo_data, mem, conn, unacked, history,
                 deviation, conns>>

EchoForward ==
  /\ echo_tx.state = "FORWARD_DATA" /\ echo_data # <<>>
  /\ echoed' = [echoed EXCEPT ![echo_tx.meta.id] = @ + echo_tx.meta.len]
  /\ unacked' = [unacked EXCEPT ![echo_tx.meta.id] = @ + echo_tx.meta.len]
  /\ echo_data' = Tail(echo_data)
  /\ echo_tx' = [state |-> "READ_META"]
  /\ UNCHANGED <<sar, eng, store, notify, reader, app, echo_meta, mem, conn, base, edge,
                 accepted, stored, announced, freed, deviation, conns>>

-----------------------------------------------------------------------------
Init ==
  /\ rx_sar_table = [s \in Sessions |-> [recvd |-> 0, app_read |-> 0, scale |-> 1]]
  /\ app_req = <<>> /\ app_rsp = <<>> /\ eng_req = <<>> /\ eng_rsp = <<>>
  /\ eng = Nothing /\ store = <<>>
  /\ rx_notice = <<>> /\ rt_notice = <<>> /\ notices = <<>> /\ notify_reg = Nothing
  /\ net_notice = <<>> /\ read_req = <<>> /\ read_rsp = <<>> /\ fsm = Idle
  /\ blocks = <<>> /\ read_data = <<>>
  /\ app = [state |-> "GET_DATA_NOTY"] /\ echo_meta = <<>> /\ echo_data = <<>>
  /\ echo_tx = [state |-> "READ_META"]
  /\ mem = [s \in Sessions |-> [a \in 0 .. BufMod - 1 |-> Empty]]
  /\ conn = [s \in Sessions |-> "CLOSED"] /\ unacked = Zero
  /\ base = Zero /\ edge = Zero
  /\ accepted = Zero /\ stored = Zero /\ announced = Zero /\ freed = Zero /\ echoed = Zero
  /\ deviation = "none" /\ conns = 0

Sar == SarApp \/ SarEng
DataHandler == DataReq \/ SarRsp \/ Deliver
EchoReceive == GetDataNoty \/ WaitSessionId
EchoTransmit == EchoRequest \/ EchoGranted \/ EchoRefused \/ EchoAgain \/ EchoForward
Inputs ==
  \E s \in Sessions :
    \/ SarTxLookup(s) \/ Abort(s) \/ LoadAck(s) \/ \E scale \in Scales : Establish(s, scale)
    \/ \E n \in SegLengths, d \in -1 .. 1 : Load(s, accepted[s] + d, n, FALSE)
    \/ \E n \in SegLengths \cup {0} : Load(s, accepted[s], n, TRUE)
Next ==
  \/ Sar \/ Transition \/ MergeNotice \/ NotifyLookup \/ NotifySend
  \/ DataHandler \/ MoverRead \/ EchoReceive \/ EchoTransmit
  \/ Inputs \/ \E okay \in BOOLEAN : Store(okay)

Spec == Init /\ [][Next]_vars

\* A bound for TLC: behaviours are followed up to the first deviation.
UpToDeviation == Healthy

\* Every process runs for ever and the data mover answers.  The peer acknowledges what was
\* sent to it again and again until the rx engine takes an acknowledgement.
Fairness ==
  /\ WF_vars(Sar) /\ WF_vars(Transition)
  /\ WF_vars(MergeNotice) /\ WF_vars(NotifyLookup) /\ WF_vars(NotifySend)
  /\ WF_vars(DataHandler) /\ WF_vars(MoverRead) /\ WF_vars(EchoReceive)
  /\ WF_vars(EchoTransmit) /\ WF_vars(\E okay \in BOOLEAN : Store(okay))
  /\ \A s \in Sessions : SF_vars(LoadAck(s))
FairSpec == Spec /\ Fairness
-----------------------------------------------------------------------------
(* Properties.                                                              *)

Count == 0 .. MaxBytes
ReceiveTypeOK ==
  /\ rx_sar_table \in [Sessions -> [recvd : 0 .. SeqMod - 1, app_read : 0 .. BufMod - 1,
                                    scale : Scales \cup {1}]]
  /\ {Len(app_req), Len(app_rsp), Len(eng_req), Len(eng_rsp), Len(store), Len(rx_notice),
      Len(rt_notice), Len(notices), Len(net_notice), Len(read_req), Len(read_rsp),
      Len(echo_meta), Len(echo_data), Len(blocks), Len(read_data)} \subseteq 0 .. Depth
  /\ fsm.state \in {"WAIT_NET_APP_DATA_REQ", "WAIT_SAR_RSP", "WAIT_DATA"}
  /\ app.state \in {"GET_DATA_NOTY", "WAIT_SESSION_ID", "FORWARD_DATA"}
  /\ echo_tx.state \in {"READ_META", "WAIT_RESPONSE", "WAIT_CYCLES", "FORWARD_DATA"}
  /\ mem \in [Sessions -> [0 .. BufMod - 1 -> Count \cup {Empty}]]
  /\ {base[s] : s \in Sessions} \subseteq 0 .. SeqMod - 1

\* recvd and app_read, which wrap and of which each engine sees a late copy, implement
\* a ring that is never overrun: a segment is accepted only into room given back, and
\* only stored bytes are announced.
Ring == INSTANCE RingBuffer WITH
          Capacity <- BufMod - 1, reserved <- accepted, published <- announced,
          acked <- freed, failed <- ~Healthy
ImplementsRing == Ring!Spec

\* The echo server sends back the bytes that were received, each once and in order, although
\* notifications, requests, memory accesses and data meet by their order only.
EchoExact ==
  [][EchoForward /\ Healthy
       => LET m == echo_tx.meta IN
          Head(echo_data) = [i \in 1 .. m.len |-> echoed[m.id] + i - 1]]_vars

\* A segment in order that ends inside the window its sender had been told finds the room,
\* whatever the application and the engines have done since; it is accepted while the
\* connection is open, but for one: the segment that fills the room to the last byte, which
\* is advertised, is refused.
WindowHonest ==
  [][Transition /\ Healthy /\ conn[eng.id] = "OPEN" /\ eng.len # 0
       /\ eng.fits /\ eng.at = accepted[eng.id]
       => LET room == FreeSpace(Head(eng_rsp)) IN
          room >= eng.len /\ (room # eng.len => accepted'[eng.id] = accepted[eng.id] + eng.len)]_vars

\* A window once told is not taken back, but for the rounding of the window scale, as long
\* as the window fits its field of the header; without scaling it does not (WinMod).
EdgeKept ==
  [][\A s \in Sessions :
       LET e == rx_sar_table[s] IN
       Healthy /\ SarTxLookup(s) /\ FreeSpace(e) < WinMod * e.scale
         => edge'[s] + e.scale > edge[s]]_vars

\* Everybody waits: the echo server for the acknowledgement of what it has sent, which is
\* behind a segment whose notice finds no room in front of the echo server.
Stalled ==
  /\ eng # Nothing /\ ~Room(store) /\ ~Room(rx_notice) /\ ~Room(notices)
  /\ notify_reg # Nothing /\ ~Room(net_notice) /\ app.state # "GET_DATA_NOTY"
  /\ echo_tx.state \in {"WAIT_RESPONSE", "WAIT_CYCLES"}

\* Every byte that was accepted comes back, as long as the connection is there, although the
\* acknowledgements that make room for it come through the same rx engine.
AllEchoed ==
  \A s \in Sessions :
    (echoed[s] < accepted[s]) ~>
      (echoed[s] = accepted[s] \/ conn[s] = "CLOSED" \/ Stalled \/ ~Healthy)

\* The window told to the peer is a promise: computed from pointers that wrap, it is honoured,
\* and not taken back.
WindowKept == []ReceiveTypeOK /\ WindowHonest /\ EdgeKept
=============================================================================
