------------------------------- MODULE RxEngine -------------------------------
(***************************************************************************)
(* rx_engine.cpp: the way of a segment through the receive pipeline.  The  *)
(* words of a packet go to the checksum and to the parser; the parser      *)
(* splits the header (meta) from the payload, which waits in a FIFO until  *)
(* three processes one after the other have decided what happens to it:    *)
(* the checksum, the port and session lookup, and the TCP state machine.   *)
(* An accepted payload is written to memory by WriteDataToMem, in two      *)
(* accesses if it wraps around the end of the session's buffer, and the    *)
(* application is notified when the data mover has confirmed the write.    *)
(*                                                                         *)
(* All these streams are matched by their order alone.  The tags in the    *)
(* entries (seg, access) are not in the code: they say which segment, and  *)
(* which of the accesses of its write, an entry is about.  What the header *)
(* says, what the tables answer and where a payload wraps is chosen at the *)
(* step in which the code reads it.                                        *)
(***************************************************************************)
EXTENDS Naturals, Sequences, FiniteSets

CONSTANTS
  MaxSegments,     \* bound on the number of segments that arrive
  MaxWords,        \* the longest packet, in words of 64 bytes
  None,            \* an empty register
  Depth,           \* capacity of the FIFOs between the processes (16)
  PayloadDepth     \* capacity of tcp_payload_fifo (512 words)

ASSUME RxBoundAssumption == MaxSegments \in Nat /\ MaxWords \in Nat \ {0}
ASSUME RxDepthAssumption == Depth \in Nat \ {0} /\ PayloadDepth \in Nat
\* The checksum of a packet is known after its last word only, so its payload must fit.
ASSUME PayloadFitsAssumption == PayloadDepth >= MaxWords

\* A segment: its number, the words of its packet, and whether it has a payload.
Segment == [id : 1 .. MaxSegments, words : 1 .. MaxWords, payload : BOOLEAN]
Word == [seg : Segment, last : BOOLEAN]
Decision == [seg : Segment, drop : BOOLEAN]

\* An access of the data mover, its words and its status.  A write is done in one access,
\* or in two if it wraps; the one that ends it is part 2.
Access == [seg : Segment, part : {1, 2}]
AccessWord == [access : Access, last : BOOLEAN]
Status == [access : Access, okay : BOOLEAN]

ASSUME RxNoneAssumption == None \notin Segment /\ None \notin [seg : Segment, left : 1 .. MaxWords]

VARIABLES
  arriving,      \* the packet under way into the engine and the words left, or None
  arrived,       \* number of packets that have arrived
  sum_words,     \* tcp_pseudo_packet_for_checksum_fifo
  parse_words,   \* tcp_pseudo_packet_for_rx_eng_fifo
  checksums,     \* tcp_pseudo_packet_checksum_fifo
  parse_fsm,     \* FIRST_WORD, REMAINING_WORDS or EXTRA_WORD
  parse_seg,     \* the segment of prev_word
  meta,          \* tcp_pseudo_header_meta(_parsed)_fifo
  payload,       \* tcp_payload_fifo
  verify_reg,    \* RxEngVerifyChecksumAndPort: the segment in READ_CHECKSUM, or None
  meta_valid,    \* tcp_pseudo_header_meta_valid_fifo
  meta_reg,      \* RxEngTcpMetaHandler: the segment in LOOKUP, or None
  fsm_meta,      \* rx_eng_fsm_meta_data_fifo
  fsm_reg,       \* RxEngTcpFsm: the segment in TRANSITION, or None
  drop_sum,      \* payload_dropped_by_checksum_fifo
  drop_meta,     \* payload_dropped_by_port_session_fifo and tcp_payload_tdest_fifo
  drop_fsm,      \* payload_dropped_by_rx_fsm_fifo
  dropper,       \* state of RxEngTcpPayloadDropper
  decided,       \* the segment the last decision the dropper has read was about, or None
  mem_cmd,       \* rx_eng_to_mem_write_cmd_fifo
  mem_data,      \* rx_eng_to_mem_write_data_fifo
  writer,        \* state of WriteDataToMem
  writer_seg,    \* the segment of inner_cmd
  mover_cmd, mover_data,   \* to the data mover: accesses and their words
  status,        \* mover_to_rx_eng_write_status
  double_flag,   \* mem_buffer_double_access_flag_fifo: [seg, double]
  notify_cache,  \* rx_eng_to_rx_app_notification_cache_fifo: [seg, data]
  notify_fsm,    \* READ_NOTIFY, READ_STATUS_1 or READ_STATUS_2
  notify_reg,    \* app_notificaion_reg1/2
  notified,      \* segments whose data the application was told about
  stored,        \* segments whose payload is in memory
  failed,        \* segments of which a write failed
  deviation      \* "undecided" once the FSM has left a payload without a decision

input   == <<arriving, arrived>>
front   == <<sum_words, parse_words, checksums, parse_fsm, parse_seg>>
checks  == <<verify_reg, meta_valid, meta_reg, fsm_meta, fsm_reg>>
drops   == <<drop_sum, drop_meta, drop_fsm>>
drop    == <<dropper, decided>>
memory  == <<writer, writer_seg, mover_cmd, mover_data>>
results == <<stored, failed, deviation>>
notify  == <<notify_cache, notify_fsm, notify_reg, notified>>
vars    == <<input, front, meta, payload, checks, drops, drop, mem_cmd, mem_data, memory,
             status, double_flag, notify, results>>

RxTypeOK ==
  /\ arriving \in [seg : Segment, left : 1 .. MaxWords] \cup {None}
  /\ arrived \in 0 .. MaxSegments
  /\ sum_words \in Seq(Word) /\ parse_words \in Seq(Word) /\ checksums \in Seq(Segment)
  /\ parse_fsm \in {"FIRST_WORD", "REMAINING_WORDS", "EXTRA_WORD"}
  /\ parse_seg \in Segment \cup {None}
  /\ meta \in Seq(Segment) /\ payload \in Seq(Word) /\ Len(payload) <= PayloadDepth
  /\ {verify_reg, meta_reg, fsm_reg, decided, writer_seg} \subseteq Segment \cup {None}
  /\ meta_valid \in Seq(Segment) /\ fsm_meta \in Seq(Segment)
  /\ drop_sum \in Seq(Decision) /\ drop_meta \in Seq(Decision) /\ drop_fsm \in Seq(Decision)
  /\ dropper \in {"RD_VERIFY_CHECKSUM", "RD_META_HANDLER", "RD_FSM_DROP", "FWD", "DROP"}
  /\ mem_cmd \in Seq(Segment) /\ mem_data \in Seq(Word)
  /\ writer \in {"WAIT_CMD", "FWD_NO_BREAKDOWN", "FWD_BREAKDOWN_0", "FWD_BREAKDOWN_1",
                 "FWD_EXTRA"}
  /\ mover_cmd \in Seq(Access) /\ mover_data \in Seq(AccessWord)
  /\ status \in Seq(Status) /\ double_flag \in Seq([seg : Segment, double : BOOLEAN])
  /\ notify_cache \in Seq([seg : Segment, data : BOOLEAN])
  /\ notify_fsm \in {"READ_NOTIFY", "READ_STATUS_1", "READ_STATUS_2"}
  /\ notify_reg \in Segment \cup {None}
  /\ notified \subseteq Segment /\ stored \subseteq Segment
  /\ failed \subseteq Segment /\ deviation \in {"none", "undecided"}

Init ==
  /\ arriving = None /\ arrived = 0
  /\ sum_words = <<>> /\ parse_words = <<>> /\ checksums = <<>>
  /\ parse_fsm = "FIRST_WORD" /\ parse_seg = None
  /\ meta = <<>> /\ payload = <<>>
  /\ verify_reg = None /\ meta_valid = <<>> /\ meta_reg = None
  /\ fsm_meta = <<>> /\ fsm_reg = None
  /\ drop_sum = <<>> /\ drop_meta = <<>> /\ drop_fsm = <<>>
  /\ dropper = "RD_VERIFY_CHECKSUM" /\ decided = None
  /\ mem_cmd = <<>> /\ mem_data = <<>>
  /\ writer = "WAIT_CMD" /\ writer_seg = None
  /\ mover_cmd = <<>> /\ mover_data = <<>> /\ status = <<>> /\ double_flag = <<>>
  /\ notify_cache = <<>> /\ notify_fsm = "READ_NOTIFY" /\ notify_reg = None
  /\ notified = {} /\ stored = {} /\ failed = {} /\ deviation = "none"

Room(fifo) == Len(fifo) < Depth
\* Append x to a FIFO with room if the condition holds.
Put(fifo, cond, x) == IF cond THEN Room(fifo) /\ fifo' = Append(fifo, x) ELSE UNCHANGED fifo

-----------------------------------------------------------------------------
(* The front end: every word of a packet goes two ways.                     *)

\* A packet arrives.  One of two words or more may have no payload only if the
\* header options fill the first word; such packets are left out.
Arrive(n, pay) ==
  /\ arriving = None /\ arrived < MaxSegments
  /\ n > 1 => pay
  /\ arrived' = arrived + 1
  /\ arriving' = [seg |-> [id |-> arrived + 1, words |-> n, payload |-> pay], left |-> n]
  /\ UNCHANGED <<front, meta, payload, checks, drops, drop, mem_cmd, mem_data, memory,
                 status, double_flag, notify, results>>

\* RxEngTcpPseudoHeaderInsert: a word with the pseudo header is written to both FIFOs.
PseudoHeaderInsert ==
  /\ arriving # None
  /\ Room(sum_words) /\ Room(parse_words)
  /\ LET w == [seg |-> arriving.seg, last |-> arriving.left = 1] IN
     /\ sum_words' = Append(sum_words, w)
     /\ parse_words' = Append(parse_words, w)
     /\ arriving' = IF w.last THEN None ELSE [arriving EXCEPT !.left = @ - 1]
  /\ UNCHANGED <<arrived, checksums, parse_fsm, parse_seg, meta, payload, checks, drops, drop,
                 mem_cmd, mem_data, memory, status, double_flag, notify, results>>

\* ComputeSubChecksum and CheckChecksum: the sum is known after the last word.
SumWord ==
  /\ sum_words # <<>>
  /\ Put(checksums, Head(sum_words).last, Head(sum_words).seg)
  /\ sum_words' = Tail(sum_words)
  /\ UNCHANGED <<input, parse_words, parse_fsm, parse_seg, meta, payload, checks, drops, drop,
                 mem_cmd, mem_data, memory, status, double_flag, notify, results>>

PutPayload(cond, w) ==
  IF cond THEN Len(payload) < PayloadDepth /\ payload' = Append(payload, w)
          ELSE UNCHANGED payload

\* RxEngParseTcpHeader, FIRST_WORD: a packet of one word has its payload in it.
ParseFirst ==
  /\ parse_fsm = "FIRST_WORD" /\ parse_words # <<>>
  /\ Room(meta)
  /\ LET w == Head(parse_words) IN
     /\ meta' = Append(meta, w.seg)
     /\ PutPayload(w.last /\ w.seg.payload, w)
     /\ parse_fsm' = IF ~w.last /\ w.seg.payload THEN "REMAINING_WORDS" ELSE "FIRST_WORD"
     /\ parse_seg' = w.seg
  /\ parse_words' = Tail(parse_words)
  /\ UNCHANGED <<input, sum_words, checksums, checks, drops, drop, mem_cmd, mem_data, memory,
                 status, double_flag, notify, results>>

\* REMAINING_WORDS: the words are shifted by the length of the header, so what
\* is left of the last one may need an extra word.
ParseRemaining(extra) ==
  /\ parse_fsm = "REMAINING_WORDS" /\ parse_words # <<>>
  /\ LET w == Head(parse_words) IN
     /\ extra => w.last
     /\ PutPayload(TRUE, [w EXCEPT !.last = @ /\ ~extra])
     /\ parse_fsm' = IF ~w.last THEN "REMAINING_WORDS"
                     ELSE IF extra THEN "EXTRA_WORD" ELSE "FIRST_WORD"
     /\ parse_seg' = w.seg
  /\ parse_words' = Tail(parse_words)
  /\ UNCHANGED <<input, sum_words, checksums, meta, checks, drops, drop, mem_cmd, mem_data,
                 memory, status, double_flag, notify, results>>

ParseExtra ==
  /\ parse_fsm = "EXTRA_WORD"
  /\ PutPayload(TRUE, [seg |-> parse_seg, last |-> TRUE])
  /\ parse_fsm' = "FIRST_WORD"
  /\ UNCHANGED <<input, sum_words, parse_words, checksums, parse_seg, meta, checks, drops, drop,
                 mem_cmd, mem_data, memory, status, double_flag, notify, results>>

Parse == ParseFirst \/ (\E extra \in BOOLEAN : ParseRemaining(extra)) \/ ParseExtra

-----------------------------------------------------------------------------
(* The decisions.                                                           *)

\* RxEngVerifyChecksumAndPort, READ_META_INFO.
VerifyMeta ==
  /\ verify_reg = None /\ meta # <<>>
  /\ verify_reg' = Head(meta)
  /\ meta' = Tail(meta)
  /\ UNCHANGED <<input, front, payload, meta_valid, meta_reg, fsm_meta, fsm_reg, drops, drop,
                 mem_cmd, mem_data, memory, status, double_flag, notify, results>>

VerifyDecides(seg, valid) == seg.payload

\* READ_CHECKSUM: a valid segment goes on, and its port is looked up.
VerifyChecksum(valid) ==
  /\ verify_reg # None /\ checksums # <<>>
  /\ Put(meta_valid, valid, verify_reg)
  /\ Put(drop_sum, VerifyDecides(verify_reg, valid), [seg |-> verify_reg, drop |-> ~valid])
  /\ checksums' = Tail(checksums)
  /\ verify_reg' = None
  /\ UNCHANGED <<input, sum_words, parse_words, parse_fsm, parse_seg, meta, payload, meta_reg,
                 fsm_meta, fsm_reg, drop_meta, drop_fsm, drop, mem_cmd, mem_data, memory,
                 status, double_flag, notify, results>>

\* RxEngTcpMetaHandler, META: the answer of the port table is read.
CheckPort(is_open) ==
  /\ meta_reg = None /\ meta_valid # <<>>
  /\ Put(drop_meta, ~is_open /\ Head(meta_valid).payload,
         [seg |-> Head(meta_valid), drop |-> TRUE])
  /\ meta_reg' = IF is_open THEN Head(meta_valid) ELSE None
  /\ meta_valid' = Tail(meta_valid)
  /\ UNCHANGED <<input, front, meta, payload, verify_reg, fsm_meta, fsm_reg, drop_sum, drop_fsm,
                 drop, mem_cmd, mem_data, memory, status, double_flag, notify, results>>

\* LOOKUP: the answer of the session lookup is read.
LookupRsp(hit) ==
  /\ meta_reg # None
  /\ Put(fsm_meta, hit, meta_reg)
  /\ Put(drop_meta, meta_reg.payload, [seg |-> meta_reg, drop |-> ~hit])
  /\ meta_reg' = None
  /\ UNCHANGED <<input, front, meta, payload, verify_reg, meta_valid, fsm_reg, drop_sum, drop_fsm,
                 drop, mem_cmd, mem_data, memory, status, double_flag, notify, results>>

\* RxEngTcpFsm, LOAD.
FsmLoad ==
  /\ fsm_reg = None /\ fsm_meta # <<>>
  /\ fsm_reg' = Head(fsm_meta)
  /\ fsm_meta' = Tail(fsm_meta)
  /\ UNCHANGED <<input, front, meta, payload, verify_reg, meta_valid, meta_reg, drops, drop,
                 mem_cmd, mem_data, memory, status, double_flag, notify, results>>

\* RxEngTcpFsm, TRANSITION, as far as the payload is concerned.  An ACK or FIN+ACK
\* that is in order, and fits, is accepted; another one is refused.
FsmAccept ==
  /\ fsm_reg # None /\ fsm_reg.payload
  /\ Put(mem_cmd, TRUE, fsm_reg)
  /\ Put(notify_cache, TRUE, [seg |-> fsm_reg, data |-> TRUE])
  /\ Put(drop_fsm, TRUE, [seg |-> fsm_reg, drop |-> FALSE])
  /\ fsm_reg' = None
  /\ UNCHANGED <<input, front, meta, payload, verify_reg, meta_valid, meta_reg, fsm_meta,
                 drop_sum, drop_meta, drop, mem_data, memory, status, double_flag, notify_fsm,
                 notify_reg, notified, results>>

FsmRefuse ==
  /\ fsm_reg # None /\ fsm_reg.payload
  /\ Put(drop_fsm, TRUE, [seg |-> fsm_reg, drop |-> TRUE])
  /\ fsm_reg' = None
  /\ UNCHANGED <<input, front, meta, payload, verify_reg, meta_valid, meta_reg, fsm_meta,
                 drop_sum, drop_meta, drop, mem_cmd, mem_data, memory, status, double_flag,
                 notify, results>>

\* A segment for which nothing is decided: one without a payload, and also an ACK
\* outside the send window, a SYN, a SYN+ACK, a RST or other control bits, with or
\* without a payload.  A payload then stays in its FIFO without a decision and the
\* dropper applies the next segment's one to it.  A FIN or RST may tell the
\* application (closed).
FsmSilent(closed) ==
  /\ fsm_reg # None
  /\ Put(notify_cache, closed, [seg |-> fsm_reg, data |-> FALSE])
  /\ fsm_reg' = None
  /\ deviation' = IF fsm_reg.payload THEN "undecided" ELSE deviation
  /\ UNCHANGED <<input, front, meta, payload, verify_reg, meta_valid, meta_reg, fsm_meta, drops,
                 drop, mem_cmd, mem_data, memory, status, double_flag, notify_fsm, notify_reg,
                 notified, stored, failed>>

Fsm == FsmLoad \/ FsmAccept \/ FsmRefuse \/ \E closed \in BOOLEAN : FsmSilent(closed)

-----------------------------------------------------------------------------
(* RxEngTcpPayloadDropper: three decisions, then the words of the payload.   *)

DropperRest == <<input, front, meta, checks, mem_cmd, memory, status, double_flag, notify, results>>

\* Mutant: a refused port is not noticed at once.
AfterMetaGoesOn(drp) == "RD_FSM_DROP"
AfterMeta(drp) == IF drp THEN "DROP" ELSE "RD_FSM_DROP"

ReadDropSum ==
  /\ dropper = "RD_VERIFY_CHECKSUM" /\ drop_sum # <<>>
  /\ dropper' = IF Head(drop_sum).drop THEN "DROP" ELSE "RD_META_HANDLER"
  /\ decided' = Head(drop_sum).seg
  /\ drop_sum' = Tail(drop_sum)
  /\ UNCHANGED <<payload, drop_meta, drop_fsm, mem_data, DropperRest>>

ReadDropMeta ==
  /\ dropper = "RD_META_HANDLER" /\ drop_meta # <<>>
  /\ dropper' = AfterMeta(Head(drop_meta).drop)
  /\ decided' = Head(drop_meta).seg
  /\ drop_meta' = Tail(drop_meta)
  /\ UNCHANGED <<payload, drop_sum, drop_fsm, mem_data, DropperRest>>

ReadDropFsm ==
  /\ dropper = "RD_FSM_DROP" /\ drop_fsm # <<>>
  /\ dropper' = IF Head(drop_fsm).drop THEN "DROP" ELSE "FWD"
  /\ decided' = Head(drop_fsm).seg
  /\ drop_fsm' = Tail(drop_fsm)
  /\ UNCHANGED <<payload, drop_sum, drop_meta, mem_data, DropperRest>>

MoveWord ==
  /\ dropper \in {"FWD", "DROP"} /\ payload # <<>>
  /\ Put(mem_data, dropper = "FWD", Head(payload))
  /\ dropper' = IF Head(payload).last THEN "RD_VERIFY_CHECKSUM" ELSE dropper
  /\ payload' = Tail(payload)
  /\ UNCHANGED <<decided, drops, DropperRest>>

PayloadDropper == ReadDropSum \/ ReadDropMeta \/ ReadDropFsm \/ MoveWord

-----------------------------------------------------------------------------
(* WriteDataToMem and the data mover.                                       *)

WriterRest == <<input, front, meta, payload, checks, drops, drop, notify>>

\* The data mover works on the first command, behind it there is a FIFO.
PutCmd(cond, c) == IF cond THEN Len(mover_cmd) <= Depth /\ mover_cmd' = Append(mover_cmd, c)
                           ELSE UNCHANGED mover_cmd

\* WAIT_CMD: the flag and the first command; a write that passes the end of the
\* session's buffer is broken down.
WriterCmd(breakdown) ==
  /\ writer = "WAIT_CMD" /\ mem_cmd # <<>>
  /\ Put(double_flag, TRUE, [seg |-> Head(mem_cmd), double |-> breakdown])
  /\ PutCmd(TRUE, [seg |-> Head(mem_cmd), part |-> IF breakdown THEN 1 ELSE 2])
  /\ writer' = IF breakdown THEN "FWD_BREAKDOWN_0" ELSE "FWD_NO_BREAKDOWN"
  /\ writer_seg' = Head(mem_cmd)
  /\ mem_cmd' = Tail(mem_cmd)
  /\ UNCHANGED <<WriterRest, mem_data, mover_data, status, results>>

\* A word of one of the accesses for segment seg.
Tagged(seg, part, last) == [access |-> [seg |-> seg, part |-> part], last |-> last]

WriterWhole ==
  /\ writer = "FWD_NO_BREAKDOWN" /\ mem_data # <<>>
  /\ Put(mover_data, TRUE, Tagged(Head(mem_data).seg, 2, Head(mem_data).last))
  /\ writer' = IF Head(mem_data).last THEN "WAIT_CMD" ELSE writer
  /\ mem_data' = Tail(mem_data)
  /\ UNCHANGED <<WriterRest, mem_cmd, writer_seg, mover_cmd, status, double_flag, results>>

\* FWD_BREAKDOWN_0: the word in which the buffer ends (split) closes the first
\* access and starts the second; at the latest it is the last word.
WriterFirst(split) ==
  /\ writer = "FWD_BREAKDOWN_0" /\ mem_data # <<>>
  /\ LET w == Head(mem_data) IN
     /\ w.last => split
     /\ Put(mover_data, TRUE, Tagged(w.seg, 1, split))
     /\ PutCmd(split, [seg |-> writer_seg, part |-> 2])
     /\ writer' = IF ~split THEN writer ELSE IF w.last THEN "FWD_EXTRA" ELSE "FWD_BREAKDOWN_1"
  /\ mem_data' = Tail(mem_data)
  /\ UNCHANGED <<WriterRest, mem_cmd, writer_seg, status, double_flag, results>>

\* FWD_BREAKDOWN_1: realigned words, the last of which may need an extra word.
WriterSecond(extra) ==
  /\ writer = "FWD_BREAKDOWN_1" /\ mem_data # <<>>
  /\ LET w == Head(mem_data) IN
     /\ extra => w.last
     /\ Put(mover_data, TRUE, Tagged(w.seg, 2, w.last /\ ~extra))
     /\ writer' = IF ~w.last THEN writer ELSE IF extra THEN "FWD_EXTRA" ELSE "WAIT_CMD"
  /\ mem_data' = Tail(mem_data)
  /\ UNCHANGED <<WriterRest, mem_cmd, writer_seg, mover_cmd, status, double_flag, results>>

WriterExtra ==
  /\ writer = "FWD_EXTRA"
  /\ Put(mover_data, TRUE, Tagged(writer_seg, 2, TRUE))
  /\ writer' = "WAIT_CMD"
  /\ UNCHANGED <<WriterRest, mem_cmd, mem_data, writer_seg, mover_cmd, status, double_flag,
                 results>>

WriteDataToMem ==
  \/ WriterWhole \/ WriterExtra
  \/ \E b \in BOOLEAN : WriterCmd(b) \/ WriterFirst(b) \/ WriterSecond(b)

\* The data mover (external) takes the words of a command and reports.
Mover(okay) ==
  /\ mover_cmd # <<>> /\ mover_data # <<>>
  /\ LET c    == Head(mover_cmd)
         last == Head(mover_data).last IN
     /\ ~last => okay
     /\ Put(status, last, [access |-> c, okay |-> okay])
     /\ mover_cmd' = IF last THEN Tail(mover_cmd) ELSE mover_cmd
     /\ failed' = IF okay THEN failed ELSE failed \cup {c.seg}
     /\ stored' = IF last /\ c.part = 2 /\ c.seg \notin failed' THEN stored \cup {c.seg} ELSE stored
  /\ mover_data' = Tail(mover_data)
  /\ UNCHANGED <<WriterRest, mem_cmd, mem_data, writer, writer_seg, double_flag, deviation>>

-----------------------------------------------------------------------------
(* RxEngNotificaionHandler.                                                 *)

NotifyRest == <<input, front, meta, payload, checks, drops, drop, mem_cmd, mem_data, memory,
                results>>

\* A notification without data is passed on at once.
ReadNotify ==
  /\ notify_fsm = "READ_NOTIFY" /\ notify_cache # <<>>
  /\ notify_fsm' = IF Head(notify_cache).data THEN "READ_STATUS_1" ELSE notify_fsm
  /\ notify_reg' = Head(notify_cache).seg
  /\ notify_cache' = Tail(notify_cache)
  /\ UNCHANGED <<NotifyRest, notified, status, double_flag>>

\* What follows the first status: a second one if the write was broken down.
AfterStatusOnce(okay, double) == "READ_NOTIFY"             \* mutant: one status per write
AfterStatusTwice(okay, double) == IF okay THEN "READ_STATUS_2" ELSE "READ_NOTIFY"   \* mutant: always two
AfterStatus(okay, double) == IF okay /\ double THEN "READ_STATUS_2" ELSE "READ_NOTIFY"

ReadStatus1 ==
  /\ notify_fsm = "READ_STATUS_1" /\ double_flag # <<>> /\ status # <<>>
  /\ notify_fsm' = AfterStatus(Head(status).okay, Head(double_flag).double)
  /\ notified' = IF Head(status).okay /\ notify_fsm' = "READ_NOTIFY"
                 THEN notified \cup {notify_reg} ELSE notified
  /\ double_flag' = Tail(double_flag)
  /\ status' = Tail(status)
  /\ UNCHANGED <<NotifyRest, notify_cache, notify_reg>>

ReadStatus2 ==
  /\ notify_fsm = "READ_STATUS_2" /\ status # <<>>
  /\ notify_fsm' = "READ_NOTIFY"
  /\ notified' = IF Head(status).okay THEN notified \cup {notify_reg} ELSE notified
  /\ status' = Tail(status)
  /\ UNCHANGED <<NotifyRest, notify_cache, notify_reg, double_flag>>

NotificationHandler == ReadNotify \/ ReadStatus1 \/ ReadStatus2

-----------------------------------------------------------------------------
Verify      == VerifyMeta \/ \E valid \in BOOLEAN : VerifyChecksum(valid)
MetaHandler == \E yes \in BOOLEAN : CheckPort(yes) \/ LookupRsp(yes)
DataMover   == \E okay \in BOOLEAN : Mover(okay)

Next ==
  \/ PseudoHeaderInsert \/ SumWord \/ Parse \/ Verify \/ MetaHandler \/ Fsm
  \/ PayloadDropper \/ WriteDataToMem \/ DataMover \/ NotificationHandler
  \/ \E n \in 1 .. MaxWords, pay \in BOOLEAN : Arrive(n, pay)

Spec == Init /\ [][Next]_vars

\* Every process runs in every cycle, the tables answer and the data mover works.
Fairness ==
  /\ WF_vars(PseudoHeaderInsert) /\ WF_vars(SumWord) /\ WF_vars(Parse) /\ WF_vars(Verify)
  /\ WF_vars(MetaHandler) /\ WF_vars(Fsm) /\ WF_vars(PayloadDropper)
  /\ WF_vars(WriteDataToMem) /\ WF_vars(DataMover) /\ WF_vars(NotificationHandler)

FairSpec == Spec /\ Fairness
-----------------------------------------------------------------------------
(* Properties.  They are about the behaviours in which every payload that     *)
(* reaches the FSM is decided on: after an undecided one the streams are out  *)
(* of step for good.  TLC stops at that step (UpToDeviation).                 *)

Healthy == deviation = "none"
UpToDeviation == Healthy

\* The payload the dropper moves belongs to the segment its decisions were about:
\* three FIFOs of decisions, written by three processes at different times, stay
\* in step with the payloads.
DecisionsMatch ==
  Healthy /\ dropper \in {"FWD", "DROP"} /\ payload # <<>> => Head(payload).seg = decided

\* The words the data mover writes are those of the segment its command was made
\* for, and of that access of it when the write was broken down.
WritesMatch ==
  Healthy /\ mover_cmd # <<>> /\ mover_data # <<>>
    => Head(mover_data).access = Head(mover_cmd)

\* "Delays the notifications to the application until the data is actually
\* written to memory": as long as no write has failed, what the application is
\* told about is in memory completely.
NotifiedIsStored == Healthy /\ failed = {} => notified \subseteq stored

\* Every payload leaves the FIFO, forwarded or dropped: a packet waits for its
\* checksum while its payload is still arriving, and nobody waits for ever.
PayloadLeaves == (payload # <<>>) ~> (payload = <<>> \/ ~Healthy)

\* The data of an accepted segment is announced unless a write fails.
DataAnnounced ==
  \A i \in 1 .. MaxSegments :
    (\E k \in DOMAIN notify_cache : notify_cache[k].seg.id = i /\ notify_cache[k].data)
      ~> (~Healthy \/ failed # {} \/ \E seg \in notified : seg.id = i)

\* Decisions, commands and words that travel on FIFOs of their own stay in step: what is
\* decided, and what is written, is about the segment whose words are moved.
StreamsInStep == RxTypeOK /\ DecisionsMatch /\ WritesMatch

\* Every payload comes to its end: dropped, or stored and announced.
PayloadsHandled == PayloadLeaves /\ DataAnnounced
=============================================================================
