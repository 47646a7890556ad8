-------------------------------- MODULE TxApp --------------------------------
(***************************************************************************)
(* tx_app_intf.cpp, the data path: TxAppDataHandler takes a write request, *)
(* compares it with its copy of the send window (TxAppTableInterface) and  *)
(* sends command and data to the memory and a TX event to the merger;      *)
(* TxAppRspHandler holds the event until the data mover has reported the   *)
(* write's status, or both, and only then tells tx_sar_table and the event *)
(* engine.  A FIN of the connection handler takes the same way.            *)
(*                                                                         *)
(* Events, double-access flags and statuses meet in FIFO order only: no    *)
(* identifier ties a status to its event.                                  *)
(***************************************************************************)
EXTENDS Integers, Sequences, FiniteSets

CONSTANTS
  Sessions,
  BufMod,      \* BUFFER_SIZE = 2^WINDOW_BITS
  Isn,         \* initial sequence number, modulo BufMod
  Lengths,     \* lengths of write requests
  Depth,       \* capacity of the FIFOs
  CacheDepth,  \* capacity of tx_app_to_event_eng_cache
  MaxReqs,     \* bound on the number of requests of the application
  MaxFails     \* bound on the number of writes that fail

ASSUME BufAssumption == BufMod \in Nat \ {0, 1} /\ Isn \in 0 .. BufMod - 1
ASSUME LengthsAssumption == Lengths \subseteq 1 .. BufMod
ASSUME DepthAssumption == Depth \in Nat \ {0, 1} /\ CacheDepth \in Nat \ {0}
ASSUME TxAppBoundsAssumption == MaxReqs \in Nat /\ MaxFails \in Nat

VARIABLES
  tx_app_table,  \* [Sessions -> [ackd, app_written_ideal]]
  table_req, table_rsp,  \* tx_app_to_tx_app_table_req, tx_app_table_to_tx_app_rsp
  upd_req,       \* tx_sar_to_tx_app_upd_req
  fsm,           \* TxAppDataHandler: state, request, session state when it came
  data_ev, conn_ev, cache,  \* event FIFOs before and after TxAppEventMerger
  mem_cmd, mem_data,        \* tx_app_to_mem_write_cmd_fifo, ..._write_data_fifo
  writer,        \* WriteDataToMem: the command it works on, or Nothing
  flags, jobs, statuses,    \* double-access flags, data mover commands and statuses
  rsp,           \* TxAppRspHandler: state and event
  sar_upd,       \* tx_app_to_tx_sar_upd_req
  set_event,     \* tx_app_to_event_eng_set_event
  sar,           \* [Sessions -> [ackd, app_written]]: part of tx_sar_table
  conn,          \* [Sessions -> {"CLOSED", "ESTABLISHED", "FIN_WAIT_1"}]
  reserved, stored, published, acked,  \* bytes since the connection began
  closed_at,     \* bytes accepted when the application closed
  accepted,      \* the writes accepted so far, in order, as the handler sent them
  bad,           \* the numbers of the writes of which a part failed
  deviation,     \* what first went wrong, or "none"
  reqs

handler  == <<table_req, fsm, data_ev, mem_cmd, mem_data>>
memory   == <<writer, flags, jobs, statuses>>
out      == <<sar_upd, set_event>>
history  == <<reserved, stored, published, acked, closed_at, accepted, bad>>
vars     == <<tx_app_table, table_rsp, upd_req, handler, conn_ev, cache, memory, rsp, out,
              sar, conn, history, deviation, reqs>>

Low(x) == x % BufMod
NextPtr(p, n) == Low(p + n)
Room(fifo) == Len(fifo) < Depth
Nothing == [none |-> TRUE]
Healthy == deviation = "none"
Zero == [s \in Sessions |-> 0]
Failed == bad # {} \/ ~Healthy

-----------------------------------------------------------------------------
(* TxAppTableInterface: tx_sar_table's updates before the data handler.      *)

TableUpdate ==
  /\ upd_req # <<>>
  /\ LET r == Head(upd_req) IN
     tx_app_table' =
       [tx_app_table EXCEPT ![r.id] =
          IF r.init THEN [ackd |-> Low(r.ackd - 1), app_written_ideal |-> r.ackd]
          ELSE [@ EXCEPT !.ackd = r.ackd]]
  /\ upd_req' = Tail(upd_req)
  /\ UNCHANGED <<table_rsp, handler, conn_ev, cache, memory, rsp, out, sar, conn, history,
                 deviation, reqs>>

ReadReq(s) == [id |-> s, write |-> FALSE]
WriteReq(s, ideal) == [id |-> s, write |-> TRUE, app_written_ideal |-> ideal]

TableAccess ==
  /\ upd_req = <<>> /\ table_req # <<>>
  /\ LET r == Head(table_req) IN
     IF r.write
     THEN /\ tx_app_table' = [tx_app_table EXCEPT ![r.id].app_written_ideal = r.app_written_ideal]
          /\ UNCHANGED table_rsp
     ELSE /\ Room(table_rsp)
          /\ table_rsp' = Append(table_rsp, tx_app_table[r.id])
          /\ UNCHANGED tx_app_table
  /\ table_req' = Tail(table_req)
  /\ UNCHANGED <<upd_req, fsm, data_ev, mem_cmd, mem_data, conn_ev, cache, memory, rsp, out,
                 sar, conn, history, deviation, reqs>>

-----------------------------------------------------------------------------
(* TxAppDataHandler.                                                        *)

Idle == [state |-> "READ_REQUEST"]
TxEvent(s, addr, len, at, no) ==
  [type |-> "TX", id |-> s, addr |-> addr, len |-> len, at |-> at, no |-> no]
FinEvent(s) == [type |-> "FIN", id |-> s]

\* READ_REQUEST: ask for the session's state and its table entry.
ReadRequest(s, n) ==
  /\ fsm = Idle /\ reqs < MaxReqs /\ Room(table_req) /\ conn[s] # "CLOSED"
  /\ table_req' = Append(table_req, ReadReq(s))
  /\ fsm' = [state |-> "READ_META", id |-> s, len |-> n, est |-> conn[s] = "ESTABLISHED"]
  /\ reqs' = reqs + 1
  /\ UNCHANGED <<tx_app_table, table_rsp, upd_req, data_ev, mem_cmd, mem_data, conn_ev, cache,
                 memory, rsp, out, sar, conn, history, deviation>>

\* One byte stays free, so that a full buffer differs from an empty one.
MaxWriteOneMore(e) == Low(e.ackd - e.app_written_ideal - 1) + 1   \* mutant: no byte kept free
MaxWriteLength(e) == Low(e.ackd - e.app_written_ideal - 1)

AfterRefusal == Idle

\* READ_META: the state was read at some moment since the request.
Refuse ==
  /\ fsm.state = "READ_META" /\ table_rsp # <<>>
  /\ \/ ~fsm.est \/ conn[fsm.id] # "ESTABLISHED"
     \/ fsm.len > MaxWriteLength(Head(table_rsp))
  /\ table_rsp' = Tail(table_rsp)
  /\ fsm' = AfterRefusal
  /\ UNCHANGED <<tx_app_table, upd_req, table_req, data_ev, mem_cmd, mem_data, conn_ev, cache,
                 memory, rsp, out, sar, conn, history, deviation, reqs>>

Accept ==
  /\ fsm.state = "READ_META" /\ table_rsp # <<>>
  /\ fsm.est
  /\ LET e  == Head(table_rsp)
         s  == fsm.id
         ev == TxEvent(s, e.app_written_ideal, fsm.len, reserved[s], Len(accepted) + 1) IN
     /\ fsm.len <= MaxWriteLength(e)
     /\ Room(mem_cmd) /\ Room(data_ev) /\ Room(table_req)
     /\ mem_cmd' = Append(mem_cmd, ev)
     /\ data_ev' = Append(data_ev, ev)
     /\ accepted' = Append(accepted, ev)
     /\ table_req' = Append(table_req, WriteReq(s, NextPtr(e.app_written_ideal, fsm.len)))
     /\ reserved' = [reserved EXCEPT ![s] = @ + fsm.len]
     /\ deviation' = IF Healthy /\ conn[s] # "ESTABLISHED" THEN "late_data" ELSE deviation
  /\ table_rsp' = Tail(table_rsp)
  /\ fsm' = [state |-> "READ_DATA"]
  /\ UNCHANGED <<tx_app_table, upd_req, mem_data, conn_ev, cache, memory, rsp, out, sar, conn,
                 stored, published, acked, closed_at, bad, reqs>>

\* READ_DATA: the words of the payload, up to the last one.
ReadData ==
  /\ fsm.state = "READ_DATA" /\ Room(mem_data)
  /\ mem_data' = Append(mem_data, "payload")
  /\ fsm' = Idle
  /\ UNCHANGED <<tx_app_table, table_rsp, upd_req, table_req, data_ev, mem_cmd, conn_ev, cache,
                 memory, rsp, out, sar, conn, history, deviation, reqs>>

-----------------------------------------------------------------------------
(* WriteDataToMem and the data mover: a write that reaches the end of the    *)
(* ring is broken down into two; if it ends there the second has no bytes.  *)

Breaks(c) == c.addr + c.len >= BufMod

WriterCmd ==
  /\ writer = Nothing /\ mem_cmd # <<>> /\ Room(flags)
  /\ writer' = Head(mem_cmd)
  /\ mem_cmd' = Tail(mem_cmd)
  /\ flags' = Append(flags, Breaks(Head(mem_cmd)))
  /\ UNCHANGED <<tx_app_table, table_rsp, upd_req, table_req, fsm, data_ev, mem_data, conn_ev,
                 cache, jobs, statuses, rsp, out, sar, conn, history, deviation, reqs>>

WriterData ==
  /\ writer # Nothing /\ mem_data # <<>> /\ jobs = <<>>
  /\ LET first == BufMod - writer.addr
         job(part, n) == [id |-> writer.id, no |-> writer.no, part |-> part, len |-> n] IN
     jobs' = IF Breaks(writer) THEN <<job(1, first), job(2, writer.len - first)>>
             ELSE <<job(2, writer.len)>>
  /\ deviation' = IF Healthy /\ writer.addr + writer.len = BufMod THEN "empty_write" ELSE deviation
  /\ mem_data' = Tail(mem_data)
  /\ writer' = Nothing
  /\ UNCHANGED <<tx_app_table, table_rsp, upd_req, table_req, fsm, data_ev, mem_cmd, conn_ev,
                 cache, flags, statuses, rsp, out, sar, conn, history, reqs>>

\* The data mover reports every write; it does not come back from an empty one.
Mover(okay) ==
  /\ jobs # <<>> /\ Head(jobs).len > 0 /\ Room(statuses)
  /\ okay \/ Cardinality(bad) < MaxFails
  /\ LET j == Head(jobs) IN
     /\ stored' = IF okay THEN [stored EXCEPT ![j.id] = @ + j.len] ELSE stored
     /\ bad' = IF okay THEN bad ELSE bad \cup {j.no}
     /\ statuses' = Append(statuses, [no |-> j.no, part |-> j.part, okay |-> okay])
  /\ jobs' = Tail(jobs)
  /\ UNCHANGED <<tx_app_table, table_rsp, upd_req, handler, conn_ev, cache, writer, flags, rsp,
                 out, sar, conn, reserved, published, acked, closed_at, accepted, deviation, reqs>>

-----------------------------------------------------------------------------
(* TxAppEventMerger: the connection handler's events first.  It runs every   *)
(* cycle, so an event waits before it only while the cache is full; then a   *)
(* FIN overtakes the TX events of data the application wrote before.         *)

MergeConn ==
  /\ conn_ev # <<>> /\ Len(cache) < CacheDepth
  /\ cache' = Append(cache, Head(conn_ev))
  /\ conn_ev' = Tail(conn_ev)
  /\ deviation' = IF Healthy /\ \E i \in 1 .. Len(data_ev) : data_ev[i].id = Head(conn_ev).id
                  THEN "fin_overtakes" ELSE deviation
  /\ UNCHANGED <<tx_app_table, table_rsp, upd_req, handler, memory, rsp, out, sar, conn, history, reqs>>

MergeData ==
  /\ conn_ev = <<>> /\ data_ev # <<>> /\ Len(cache) < CacheDepth
  /\ cache' = Append(cache, Head(data_ev))
  /\ data_ev' = Tail(data_ev)
  /\ UNCHANGED <<tx_app_table, table_rsp, upd_req, table_req, fsm, mem_cmd, mem_data, conn_ev,
                 memory, rsp, out, sar, conn, history, deviation, reqs>>

-----------------------------------------------------------------------------
(* TxAppRspHandler.                                                         *)

ReadEvent == [state |-> "READ_EV"]

\* READ_EV: a TX event waits for its status, any other passes.
TakeTx ==
  /\ rsp = ReadEvent /\ cache # <<>> /\ Head(cache).type = "TX"
  /\ rsp' = [state |-> "READ_STATUS_1", ev |-> Head(cache)]
  /\ cache' = Tail(cache)
  /\ UNCHANGED <<tx_app_table, table_rsp, upd_req, handler, conn_ev, memory, out, sar, conn,
                 history, deviation, reqs>>

\* Mutant: a FIN does not wait for the TX event before it.
PassFinEarly ==
  /\ cache # <<>> /\ Head(cache).type = "FIN" /\ Room(set_event)
  /\ set_event' = Append(set_event, Head(cache))
  /\ cache' = Tail(cache)
  /\ UNCHANGED <<tx_app_table, table_rsp, upd_req, handler, conn_ev, memory, rsp, sar_upd, sar,
                 conn, history, deviation, reqs>>

PassFin ==
  /\ rsp = ReadEvent /\ cache # <<>> /\ Head(cache).type = "FIN" /\ Room(set_event)
  /\ set_event' = Append(set_event, Head(cache))
  /\ cache' = Tail(cache)
  /\ UNCHANGED <<tx_app_table, table_rsp, upd_req, handler, conn_ev, memory, rsp, sar_upd, sar,
                 conn, history, deviation, reqs>>

\* The bytes are in the memory: tell tx_sar_table, then the event engine.
Tell(ev) ==
  /\ Room(sar_upd) /\ Room(set_event)
  /\ sar_upd' = Append(sar_upd, [id |-> ev.id, app_written |-> NextPtr(ev.addr, ev.len), no |-> ev.no])
  /\ set_event' = Append(set_event, ev)

SecondPartNever(flag) == FALSE                                \* mutant: one status is enough
SecondPartAlways(flag) == TRUE                                \* mutant: always two
SecondPart(flag) == flag

\* READ_STATUS_1: a failed first part leaves the second part's status behind.
Status1 ==
  /\ rsp.state = "READ_STATUS_1" /\ flags # <<>> /\ statuses # <<>>
  /\ \/ /\ Head(statuses).okay /\ SecondPart(Head(flags))
        /\ rsp' = [rsp EXCEPT !.state = "READ_STATUS_2"]
        /\ UNCHANGED <<out, deviation>>
     \/ /\ Head(statuses).okay /\ ~SecondPart(Head(flags))
        /\ rsp' = ReadEvent
        /\ Tell(rsp.ev)
        /\ UNCHANGED deviation
     \/ /\ ~Head(statuses).okay
        /\ rsp' = ReadEvent
        /\ deviation' = IF Healthy /\ Head(flags) THEN "status_left" ELSE deviation
        /\ UNCHANGED out
  /\ flags' = Tail(flags) /\ statuses' = Tail(statuses)
  /\ UNCHANGED <<tx_app_table, table_rsp, upd_req, handler, conn_ev, cache, writer, jobs, sar,
                 conn, history, reqs>>

Status2 ==
  /\ rsp.state = "READ_STATUS_2" /\ statuses # <<>>
  /\ IF Head(statuses).okay THEN Tell(rsp.ev) ELSE UNCHANGED out
  /\ rsp' = ReadEvent
  /\ statuses' = Tail(statuses)
  /\ UNCHANGED <<tx_app_table, table_rsp, upd_req, handler, conn_ev, cache, writer, flags, jobs,
                 sar, conn, history, deviation, reqs>>

-----------------------------------------------------------------------------
(* tx_sar_table, the engines and the application's other calls.              *)

\* tx_sar_table takes the new app_written.
SarWritten ==
  /\ sar_upd # <<>>
  /\ LET r == Head(sar_upd) IN
     /\ sar' = [sar EXCEPT ![r.id].app_written = r.app_written]
     /\ published' = [published EXCEPT ![r.id] = @ + Low(r.app_written - sar[r.id].app_written)]
  /\ sar_upd' = Tail(sar_upd)
  /\ UNCHANGED <<tx_app_table, table_rsp, upd_req, handler, conn_ev, cache, memory, rsp,
                 set_event, conn, reserved, stored, acked, closed_at, accepted, bad, deviation, reqs>>

\* The rx engine writes a new ackd, which tx_sar_table passes on.
Acked(s, n) ==
  /\ Room(upd_req) /\ acked[s] + n <= published[s]
  /\ sar' = [sar EXCEPT ![s].ackd = Low(@ + n)]
  /\ upd_req' = Append(upd_req, [id |-> s, ackd |-> Low(sar[s].ackd + n), init |-> FALSE])
  /\ acked' = [acked EXCEPT ![s] = @ + n]
  /\ UNCHANGED <<tx_app_table, table_rsp, handler, conn_ev, cache, memory, rsp, out, conn,
                 reserved, stored, published, closed_at, accepted, bad, deviation, reqs>>

EventTaken ==
  /\ set_event # <<>>
  /\ set_event' = Tail(set_event)
  /\ UNCHANGED <<tx_app_table, table_rsp, upd_req, handler, conn_ev, cache, memory, rsp, sar_upd,
                 sar, conn, history, deviation, reqs>>

\* A connection is established: the entries were initialised with the SYN, whose
\* acknowledgement follows.
Establish(s) ==
  /\ conn[s] = "CLOSED" /\ Len(upd_req) + 2 <= Depth
  /\ upd_req' = upd_req \o <<[id |-> s, ackd |-> Low(Isn + 1), init |-> TRUE],
                             [id |-> s, ackd |-> Low(Isn + 1), init |-> FALSE]>>
  /\ sar' = [sar EXCEPT ![s] = [ackd |-> Low(Isn + 1), app_written |-> Low(Isn + 1)]]
  /\ conn' = [conn EXCEPT ![s] = "ESTABLISHED"]
  /\ UNCHANGED <<tx_app_table, table_rsp, handler, conn_ev, cache, memory, rsp, out, history,
                 deviation, reqs>>

\* TxAppConnectionHandler, CLOSE_CONN.
Close(s) ==
  /\ conn[s] = "ESTABLISHED" /\ reqs < MaxReqs /\ Room(conn_ev)
  /\ conn_ev' = Append(conn_ev, FinEvent(s))
  /\ conn' = [conn EXCEPT ![s] = "FIN_WAIT_1"]
  /\ closed_at' = [closed_at EXCEPT ![s] = reserved[s]]
  /\ reqs' = reqs + 1
  /\ UNCHANGED <<tx_app_table, table_rsp, upd_req, handler, cache, memory, rsp, out, sar,
                 reserved, stored, published, acked, accepted, bad, deviation>>

Init ==
  /\ tx_app_table = [s \in Sessions |-> [ackd |-> 0, app_written_ideal |-> 0]]
  /\ table_req = <<>> /\ table_rsp = <<>> /\ upd_req = <<>>
  /\ fsm = Idle /\ data_ev = <<>> /\ conn_ev = <<>> /\ cache = <<>>
  /\ mem_cmd = <<>> /\ mem_data = <<>> /\ writer = Nothing
  /\ flags = <<>> /\ jobs = <<>> /\ statuses = <<>>
  /\ rsp = ReadEvent /\ sar_upd = <<>> /\ set_event = <<>>
  /\ sar = [s \in Sessions |-> [ackd |-> 0, app_written |-> 0]]
  /\ conn = [s \in Sessions |-> "CLOSED"]
  /\ reserved = Zero /\ stored = Zero /\ published = Zero /\ acked = Zero
  /\ closed_at = Zero /\ accepted = <<>> /\ bad = {} /\ deviation = "none" /\ reqs = 0

DataHandler == Refuse \/ Accept \/ ReadData
Table == TableUpdate \/ TableAccess
Writer == WriterCmd \/ WriterData
Merger == MergeConn \/ MergeData
RspHandler == TakeTx \/ PassFin \/ Status1 \/ Status2
Inputs ==
  \E s \in Sessions :
    \/ Establish(s) \/ Close(s)
    \/ \E n \in Lengths : ReadRequest(s, n) \/ Acked(s, n)
Next ==
  \/ DataHandler \/ Table \/ Writer \/ Merger \/ RspHandler
  \/ SarWritten \/ EventTaken \/ Inputs \/ \E okay \in BOOLEAN : Mover(okay)

Spec == Init /\ [][Next]_vars

\* Every process runs for ever, and the data mover reports every write but an empty one.
Fairness ==
  /\ WF_vars(DataHandler) /\ WF_vars(Table) /\ WF_vars(Writer) /\ WF_vars(Merger)
  /\ WF_vars(RspHandler) /\ WF_vars(SarWritten) /\ WF_vars(EventTaken)
  /\ WF_vars(\E okay \in BOOLEAN : Mover(okay))
FairSpec == Spec /\ Fairness
-----------------------------------------------------------------------------
(* Properties.                                                              *)

Ptr == 0 .. BufMod - 1
TxAppTypeOK ==
  /\ tx_app_table \in [Sessions -> [ackd : Ptr, app_written_ideal : Ptr]]
  /\ sar \in [Sessions -> [ackd : Ptr, app_written : Ptr]]
  /\ fsm.state \in {"READ_REQUEST", "READ_META", "READ_DATA"}
  /\ rsp.state \in {"READ_EV", "READ_STATUS_1", "READ_STATUS_2"}
  /\ {Len(table_req), Len(table_rsp), Len(upd_req), Len(data_ev), Len(conn_ev), Len(mem_cmd),
      Len(mem_data), Len(flags), Len(statuses), Len(sar_upd), Len(set_event)} \subseteq 0 .. Depth
  /\ Len(cache) <= CacheDepth /\ Len(jobs) <= 2
  /\ conn \in [Sessions -> {"CLOSED", "ESTABLISHED", "FIN_WAIT_1"}]

\* The pointers, which wrap, and the copies of ackd, which are late, implement a
\* ring that is never overrun and of which the tx engine sees stored bytes only.
Ring == INSTANCE RingBuffer WITH Capacity <- BufMod - 1, failed <- Failed
ImplementsRing == Ring!Spec

\* A TX event goes on only if the data mover stored all of its own bytes, although
\* nothing but the order of three FIFOs ties the statuses to the event.
EventHasItsBytes ==
  [][Healthy /\ set_event' # set_event /\ Len(set_event') > Len(set_event)
       => LET ev == set_event'[Len(set_event')] IN
          ev.type = "TX" => ev.no \notin bad]_vars

\* A close takes effect after the data that was accepted before it: when the FIN
\* goes on, tx_sar_table has or gets an app_written that covers that data.
Told(s) == published[s] + (IF \E i \in 1 .. Len(sar_upd) : sar_upd[i].id = s
                           THEN Low(sar_upd[CHOOSE i \in 1 .. Len(sar_upd) :
                                              /\ sar_upd[i].id = s
                                              /\ \A j \in i + 1 .. Len(sar_upd) : sar_upd[j].id # s].app_written
                                    - sar[s].app_written)
                           ELSE 0)
FinAfterData ==
  [][PassFin /\ ~Failed => Told(Head(cache).id) >= closed_at[Head(cache).id]]_vars

\* Every request is answered and its payload taken: the handler comes back, unless an empty
\* write has stopped the data mover behind it.
RequestsServed == (fsm # Idle) ~> (fsm = Idle \/ deviation = "empty_write")

\* What was accepted reaches the tx engine, unless the memory failed, and the handler comes
\* back for the next request: neither the space accounting nor the four FIFOs it fills stop it.
AcceptedPublished ==
  /\ RequestsServed
  /\ \A s \in Sessions :
       (published[s] < reserved[s]) ~> (published[s] = reserved[s] \/ Failed)

\* Events, flags and statuses, which meet by order only, stay in their bounds and in step.
EventsExact == []TxAppTypeOK /\ EventHasItsBytes
=============================================================================
