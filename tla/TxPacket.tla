------------------------------- MODULE TxPacket -------------------------------
(***************************************************************************)
(* tx_engine.cpp, behind the FSM: how a segment becomes an IP packet.  For *)
(* every segment the FSM writes meta data, length and the source of the    *)
(* four tuple, and asks the reverse table and the memory; a pipeline of    *)
(* processes puts the answers together: TCP header with pseudo header,     *)
(* payload behind it, checksum over both, pseudo header removed, IP header *)
(* in front, checksum inserted.  The parts travel on FIFOs of their own    *)
(* and carry no identification: they meet again only by their order.       *)
(*                                                                         *)
(* Packets are words of W lanes.  A lane is 4 bytes, the unit of every     *)
(* header and of every offset the processes shift by; a length in lanes is *)
(* rounded up.  A lane names the part it is and the segment it is from:    *)
(* every segment has a connection of its own here, so that a mix-up shows. *)
(***************************************************************************)
EXTENDS Integers, Sequences

CONSTANTS
  Payloads,      \* payload lengths of the data segments, in lanes
  MaxSegments,   \* bound on the number of segments
  Depth,         \* capacity of the FIFOs between FSM and header construction
  WordDepth      \* capacity of the FIFOs of packet words (tx_engine: 512)

W == 16          \* lanes of a word (64 bytes)
PseudoLanes == 3
TcpLanes == 5
IpLanes == 5

ASSUME PayloadsAssumption == Payloads \subseteq Nat \ {0}
ASSUME PacketBoundsAssumption == MaxSegments \in Nat /\ Depth \in Nat \ {0}
\* A packet waits for its checksum, which its last word completes.
ASSUME WordDepthAssumption ==
  WordDepth \in Nat /\ \A n \in Payloads : WordDepth * W >= PseudoLanes + TcpLanes + n + W

\* The segments the FSM emits: data, ACK or FIN or RST of a session (length 0), SYN
\* with one or two lanes of options, and a RST without a session, whose four
\* tuple comes from the event.
Seg(syn, session, length) == [syn |-> syn, session |-> session, length |-> length]
Shapes ==
  {Seg(FALSE, TRUE, n) : n \in Payloads \cup {0}}
    \cup {Seg(TRUE, TRUE, n) : n \in {1, 2}} \cup {Seg(FALSE, FALSE, 0)}

VARIABLES
  segs,          \* the segments emitted so far
  meta,          \* tx_eng_fsm_meta_data_fifo: the number of the segment
  length,        \* tx_tcp_payload_length_fifo
  source,        \* tx_four_tuple_source_fifo: from the reverse table?
  rev_req, rev_rsp, fsm_tuple, mem_cmd,
  tuple_fsm,     \* TxEngFourTupleHandler: "load", "slookup" or "fsm"
  tcp_tuple, ip_pair,
  read,          \* lanes of the payload at Head(mem_cmd) read so far
  payload,       \* tx_eng_read_tcp_payload_fifo
  header,        \* tx_tcp_pseudo_full_header_fifo, tx_tcp_packet_contains_payload_fifo
  pseudo_fsm, pseudo_prev,    \* TxEngConstructPseudoPacket
  pkt_tx, pkt_sum,            \* tx_tcp_pseudo_packet_for_tx_eng / _for_checksum
  sum,           \* tcp_checksums: the lanes added up so far
  checksum,      \* tcp_pseudo_packet_checksum_fifo
  remove_fsm, remove_prev,    \* TxEngRemovePseudoHeader
  tcp_packet, ip_header,
  ip_fsm, ip_prev,            \* TxEngConstructIpv4Packet
  wire,          \* lanes of the packets that left, the last one may be unfinished
  done,          \* number of packets finished
  halved,        \* segments whose payload was put together wrongly
  deviation      \* "none", or "cut": a packet lost its last word and its end

fsm_out == <<segs, meta, length, source, rev_req, fsm_tuple>>
tuples == <<rev_rsp, tuple_fsm, tcp_tuple, ip_pair>>
reader == <<mem_cmd, read, payload>>
pseudo == <<header, pseudo_fsm, pseudo_prev, pkt_tx, pkt_sum, halved>>
sums == <<sum, checksum>>
remover == <<remove_fsm, remove_prev, tcp_packet>>
ip == <<ip_header, ip_fsm, ip_prev, wire, done, deviation>>
vars == <<fsm_out, tuples, reader, pseudo, sums, remover, ip>>

Room(fifo) == Len(fifo) < Depth
WordRoom(fifo) == Len(fifo) < WordDepth
Healthy == deviation = "none"

-----------------------------------------------------------------------------
(* Lanes and words.                                                         *)

Lane(part, i, k) == <<part, i, k>>
Lanes(part, i, n) == [k \in 1 .. n |-> Lane(part, i, k)]
Word(lanes, last) == [lanes |-> lanes, last |-> last]
Low(lanes, k) == SubSeq(lanes, 1, IF k < Len(lanes) THEN k ELSE Len(lanes))
High(lanes, k) == SubSeq(lanes, k + 1, Len(lanes))

\* ConcatTwoWords: the tail of prev, then the head of cur.
ConcatTwoWords(cur, prev, k) == High(prev, k) \o Low(cur, k)
\* MergeTwoWordsHead: the head of prev, then the head of cur.
MergeTwoWordsHead(cur, prev, k) == Low(prev, k) \o Low(cur, W - k)
\* keep.bit(k) of the last word: more than k lanes are left over.
Reaches(cur, k) == Len(cur) > k

\* TxEngPseudoFullHeaderConstruct: pseudo header, TCP header, options of a SYN.
\* The addresses and ports are those of tuple t, the rest is from meta data m.
FullHeader(t, m) ==
  Lanes("address", t, 2) \o Lanes("tcp_length", m, 1) \o Lanes("ports", t, 1)
    \o Lanes("tcp", m, 3) \o <<Lane("checksum", 0, <<>>)>>
    \o (IF segs[m].syn THEN Lanes("options", m, segs[m].length) ELSE <<>>)
\* The payload is not needed if the length is 0 or for a SYN.
ContainsPayload(m) == segs[m].length # 0 /\ ~segs[m].syn

\* TxEngConstructIpv4Header: length l, addresses of t.
IpHeader(l, t) == Lanes("ip_length", l, 1) \o Lanes("ip_fixed", 0, 2) \o Lanes("address", t, 2)
ChecksumLane == IpLanes + TcpLanes

-----------------------------------------------------------------------------
Init ==
  /\ segs = <<>> /\ meta = <<>> /\ length = <<>> /\ source = <<>>
  /\ rev_req = <<>> /\ rev_rsp = <<>> /\ fsm_tuple = <<>> /\ mem_cmd = <<>>
  /\ tuple_fsm = "load" /\ tcp_tuple = <<>> /\ ip_pair = <<>>
  /\ read = 0 /\ payload = <<>> /\ header = <<>>
  /\ pseudo_fsm = "READ_PSEUDO" /\ pseudo_prev = <<>> /\ pkt_tx = <<>> /\ pkt_sum = <<>>
  /\ sum = <<>> /\ checksum = <<>>
  /\ remove_fsm = "READ" /\ remove_prev = <<>> /\ tcp_packet = <<>>
  /\ ip_header = <<>> /\ ip_fsm = "READ_FIRST" /\ ip_prev = <<>>
  /\ wire = <<>> /\ done = 0 /\ halved = {} /\ deviation = "none"

\* TxEngTcpFsm: what it writes for a segment.
Emit(s) ==
  LET i == Len(segs) + 1 IN
  /\ Len(segs) < MaxSegments
  /\ Room(meta) /\ Room(length) /\ Room(source)
  /\ s.session => Room(rev_req)
  /\ ~s.session => Room(fsm_tuple)
  /\ s.length # 0 /\ ~s.syn => Room(mem_cmd)
  /\ segs' = Append(segs, s)
  /\ meta' = Append(meta, i) /\ length' = Append(length, i)
  /\ source' = Append(source, s.session)
  /\ rev_req' = IF s.session THEN Append(rev_req, i) ELSE rev_req
  /\ fsm_tuple' = IF s.session THEN fsm_tuple ELSE Append(fsm_tuple, i)
  /\ mem_cmd' = IF s.length # 0 /\ ~s.syn THEN Append(mem_cmd, i) ELSE mem_cmd
  /\ UNCHANGED <<tuples, read, payload, pseudo, sums, remover, ip>>

\* The session lookup controller answers with the four tuple.
RevTableRsp ==
  /\ rev_req # <<>> /\ Room(rev_rsp)
  /\ rev_rsp' = Append(rev_rsp, Head(rev_req)) /\ rev_req' = Tail(rev_req)
  /\ UNCHANGED <<segs, meta, length, source, fsm_tuple, tuple_fsm, tcp_tuple, ip_pair,
                 reader, pseudo, sums, remover, ip>>

\* ReadDataSendCmd, the data mover and ReadDataFromMem (NO_BREAKDOWN): the payload,
\* a word at a time.
ReadPayload ==
  /\ mem_cmd # <<>> /\ WordRoom(payload)
  /\ LET i == Head(mem_cmd)
         all == Lanes("data", i, segs[i].length)
         upto == IF read + W < Len(all) THEN read + W ELSE Len(all)
         last == upto = Len(all)
     IN /\ payload' = Append(payload, Word(SubSeq(all, read + 1, upto), last))
        /\ read' = IF last THEN 0 ELSE upto
        /\ mem_cmd' = IF last THEN Tail(mem_cmd) ELSE mem_cmd
  /\ UNCHANGED <<fsm_out, tuples, pseudo, sums, remover, ip>>

-----------------------------------------------------------------------------
(* TxEngFourTupleHandler.                                                   *)

LoadTupleSrc ==
  /\ tuple_fsm = "load" /\ source # <<>>
  /\ tuple_fsm' = IF Head(source) THEN "slookup" ELSE "fsm"
  /\ source' = Tail(source)
  /\ UNCHANGED <<segs, meta, length, rev_req, fsm_tuple, rev_rsp, tcp_tuple, ip_pair,
                 reader, pseudo, sums, remover, ip>>

ForwardTuple(t) ==
  /\ Room(tcp_tuple) /\ Room(ip_pair)
  /\ tcp_tuple' = Append(tcp_tuple, t) /\ ip_pair' = Append(ip_pair, t)
  /\ tuple_fsm' = "load"
  /\ UNCHANGED <<segs, meta, length, source, rev_req, reader, pseudo, sums, remover, ip>>

TupleFromSlookup ==
  /\ tuple_fsm = "slookup" /\ rev_rsp # <<>>
  /\ ForwardTuple(Head(rev_rsp)) /\ rev_rsp' = Tail(rev_rsp) /\ UNCHANGED fsm_tuple

TupleFromFsmTcpOnly ==                             \* mutant: no address pair for a reset
  /\ tuple_fsm = "fsm" /\ fsm_tuple # <<>> /\ Room(tcp_tuple)
  /\ tcp_tuple' = Append(tcp_tuple, Head(fsm_tuple)) /\ fsm_tuple' = Tail(fsm_tuple)
  /\ tuple_fsm' = "load"
  /\ UNCHANGED <<segs, meta, length, source, rev_req, rev_rsp, ip_pair, reader, pseudo, sums,
                 remover, ip>>

TupleFromFsm ==
  /\ tuple_fsm = "fsm" /\ fsm_tuple # <<>>
  /\ ForwardTuple(Head(fsm_tuple)) /\ fsm_tuple' = Tail(fsm_tuple) /\ UNCHANGED rev_rsp

-----------------------------------------------------------------------------
(* Header and pseudo packet.                                                *)

PseudoFullHeader ==
  /\ tcp_tuple # <<>> /\ meta # <<>> /\ Room(header)
  /\ header' = Append(header, [lanes |-> FullHeader(Head(tcp_tuple), Head(meta)),
                               payload |-> ContainsPayload(Head(meta))])
  /\ tcp_tuple' = Tail(tcp_tuple) /\ meta' = Tail(meta)
  /\ UNCHANGED <<segs, length, source, rev_req, fsm_tuple, rev_rsp, tuple_fsm, ip_pair, reader,
                 pseudo_fsm, pseudo_prev, pkt_tx, pkt_sum, halved, sums, remover, ip>>

\* A word of the pseudo packet goes to the checksum and to the packet.
SendPseudo(word) ==
  /\ WordRoom(pkt_tx) /\ WordRoom(pkt_sum)
  /\ pkt_tx' = Append(pkt_tx, word) /\ pkt_sum' = Append(pkt_sum, word)

ReadPseudo ==
  /\ pseudo_fsm = "READ_PSEUDO" /\ header # <<>>
  /\ header' = Tail(header)
  /\ LET h == Head(header) IN
     \/ /\ ~h.payload
        /\ SendPseudo(Word(h.lanes, TRUE))
        /\ UNCHANGED <<pseudo_fsm, pseudo_prev>>
     \/ /\ h.payload
        /\ pseudo_fsm' = "READ_PAYLOAD" /\ pseudo_prev' = h.lanes
        /\ UNCHANGED <<pkt_tx, pkt_sum>>
  /\ UNCHANGED <<fsm_out, tuples, reader, halved, sums, remover, ip>>

\* The merge takes the head of the word before.  That is the whole header for the
\* first word of the payload; for a later one it is the half of the payload that
\* has been sent already, and the half that has not is dropped.
AppendPayload ==
  /\ pseudo_fsm = "READ_PAYLOAD" /\ payload # <<>>
  /\ LET cur == Head(payload)
         extra == cur.last /\ Reaches(cur.lanes, W - PseudoLanes - TcpLanes)
         first == pseudo_prev[1][1] = "address"
     IN /\ SendPseudo(Word(MergeTwoWordsHead(cur.lanes, pseudo_prev, PseudoLanes + TcpLanes),
                           cur.last /\ ~extra))
        /\ pseudo_fsm' = CASE extra -> "EXTRA_WORD" [] cur.last /\ ~extra -> "READ_PSEUDO"
                           [] OTHER -> "READ_PAYLOAD"
        /\ pseudo_prev' = cur.lanes
        /\ halved' = IF first THEN halved ELSE halved \cup {cur.lanes[1][2]}
  /\ payload' = Tail(payload)
  /\ UNCHANGED <<fsm_out, tuples, mem_cmd, read, header, sums, remover, ip>>

PseudoExtra ==
  /\ pseudo_fsm = "EXTRA_WORD"
  /\ SendPseudo(Word(ConcatTwoWords(<<>>, pseudo_prev, PseudoLanes + TcpLanes), TRUE))
  /\ pseudo_fsm' = "READ_PSEUDO"
  /\ UNCHANGED <<fsm_out, tuples, reader, header, pseudo_prev, halved, sums, remover, ip>>

\* ComputeSubChecksum and CheckChecksum: what has been added up is the checksum
\* once the last word is in.
SumKept(all, last) == all                          \* mutant: never reset
SumAfter(all, last) == IF last THEN <<>> ELSE all

AddUp ==
  /\ pkt_sum # <<>>
  /\ LET word == Head(pkt_sum)
         all == sum \o word.lanes
     IN /\ word.last => Room(checksum)
        /\ checksum' = IF word.last THEN Append(checksum, all) ELSE checksum
        /\ sum' = SumAfter(all, word.last)
  /\ pkt_sum' = Tail(pkt_sum)
  /\ UNCHANGED <<fsm_out, tuples, reader, header, pseudo_fsm, pseudo_prev, pkt_tx, halved,
                 remover, ip>>

-----------------------------------------------------------------------------
(* TxEngRemovePseudoHeader: every word moves by the length of the pseudo    *)
(* header.                                                                  *)

SendTcp(lanes, last) ==
  /\ WordRoom(tcp_packet) /\ tcp_packet' = Append(tcp_packet, Word(lanes, last))

RemoveFirst ==
  /\ remove_fsm = "READ" /\ pkt_tx # <<>>
  /\ pkt_tx' = Tail(pkt_tx)
  /\ LET cur == Head(pkt_tx) IN
     \/ /\ cur.last
        /\ SendTcp(ConcatTwoWords(<<>>, cur.lanes, PseudoLanes), TRUE)
        /\ UNCHANGED <<remove_fsm, remove_prev>>
     \/ /\ ~cur.last
        /\ remove_prev' = cur.lanes /\ remove_fsm' = "READ_MORE_PAYLOAD"
        /\ UNCHANGED tcp_packet
  /\ UNCHANGED <<fsm_out, tuples, reader, header, pseudo_fsm, pseudo_prev, pkt_sum, halved,
                 sums, ip>>

RemoveMore ==
  /\ remove_fsm = "READ_MORE_PAYLOAD" /\ pkt_tx # <<>>
  /\ pkt_tx' = Tail(pkt_tx)
  /\ LET cur == Head(pkt_tx)
         extra == cur.last /\ Reaches(cur.lanes, PseudoLanes)
     IN /\ SendTcp(ConcatTwoWords(cur.lanes, remove_prev, PseudoLanes), cur.last /\ ~extra)
        /\ remove_fsm' = CASE extra -> "EXTRA_WORD" [] cur.last /\ ~extra -> "READ"
                           [] OTHER -> "READ_MORE_PAYLOAD"
        /\ remove_prev' = cur.lanes
  /\ UNCHANGED <<fsm_out, tuples, reader, header, pseudo_fsm, pseudo_prev, pkt_sum, halved,
                 sums, ip>>

RemoveExtraOpen ==                                 \* mutant: the end is not marked
  /\ remove_fsm = "EXTRA_WORD"
  /\ SendTcp(ConcatTwoWords(<<>>, remove_prev, PseudoLanes), FALSE)
  /\ remove_fsm' = "READ"
  /\ UNCHANGED <<fsm_out, tuples, reader, pseudo, remove_prev, sums, ip>>

RemoveExtra ==
  /\ remove_fsm = "EXTRA_WORD"
  /\ SendTcp(ConcatTwoWords(<<>>, remove_prev, PseudoLanes), TRUE)
  /\ remove_fsm' = "READ"
  /\ UNCHANGED <<fsm_out, tuples, reader, pseudo, remove_prev, sums, ip>>

-----------------------------------------------------------------------------
(* The IP packet.                                                           *)

Ipv4Header ==
  /\ length # <<>> /\ ip_pair # <<>> /\ WordRoom(ip_header)
  /\ ip_header' = Append(ip_header, IpHeader(Head(length), Head(ip_pair)))
  /\ length' = Tail(length) /\ ip_pair' = Tail(ip_pair)
  /\ UNCHANGED <<segs, meta, source, rev_req, fsm_tuple, rev_rsp, tuple_fsm, tcp_tuple, reader,
                 pseudo, sums, remover, ip_fsm, ip_prev, wire, done, deviation>>

\* A word leaves: it opens a packet if every packet before is finished.
Out(lanes, last) ==
  /\ wire' = IF Len(wire) = done THEN Append(wire, lanes)
             ELSE [wire EXCEPT ![Len(wire)] = @ \o lanes]
  /\ done' = IF last THEN Len(wire') ELSE done

\* The checksum goes into the first word, behind the IP header.
PacketFirst ==
  /\ ip_fsm = "READ_FIRST" /\ ip_header # <<>> /\ tcp_packet # <<>> /\ checksum # <<>>
  /\ ip_header' = Tail(ip_header) /\ tcp_packet' = Tail(tcp_packet) /\ checksum' = Tail(checksum)
  /\ LET cur == Head(tcp_packet)
         extra == cur.last /\ Reaches(cur.lanes, W - IpLanes)
         joined == Head(ip_header) \o Low(cur.lanes, W - IpLanes)
     IN /\ Out([joined EXCEPT ![ChecksumLane] = Lane("checksum", 0, Head(checksum))],
               cur.last /\ ~extra)
        /\ ip_fsm' = CASE extra -> "EXTRA_WORD" [] cur.last /\ ~extra -> "READ_FIRST"
                       [] OTHER -> "READ_PAYLOAD"
        /\ ip_prev' = cur.lanes
  /\ UNCHANGED <<fsm_out, tuples, reader, pseudo, sum, remove_fsm, remove_prev, deviation>>

\* The braces are missing: after the last word the state is READ_FIRST in any case.
\* If lanes are left over they are lost, and no word has ended the packet.
PacketPayload ==
  /\ ip_fsm = "READ_PAYLOAD" /\ tcp_packet # <<>>
  /\ tcp_packet' = Tail(tcp_packet)
  /\ LET cur == Head(tcp_packet)
         extra == cur.last /\ Reaches(cur.lanes, W - IpLanes)
     IN /\ Out(ConcatTwoWords(cur.lanes, ip_prev, W - IpLanes), cur.last /\ ~extra)
        /\ ip_fsm' = IF cur.last THEN "READ_FIRST" ELSE "READ_PAYLOAD"
        /\ ip_prev' = cur.lanes
        /\ deviation' = IF extra THEN "cut" ELSE deviation
  /\ UNCHANGED <<fsm_out, tuples, reader, pseudo, sums, remove_fsm, remove_prev, ip_header>>

PacketExtra ==
  /\ ip_fsm = "EXTRA_WORD"
  /\ Out(ConcatTwoWords(<<>>, ip_prev, W - IpLanes), TRUE)
  /\ ip_fsm' = "READ_FIRST"
  /\ UNCHANGED <<fsm_out, tuples, reader, pseudo, sums, remover, ip_header, ip_prev, deviation>>

-----------------------------------------------------------------------------
TupleHandler == LoadTupleSrc \/ TupleFromSlookup \/ TupleFromFsm
PseudoPacket == ReadPseudo \/ AppendPayload \/ PseudoExtra
RemovePseudo == RemoveFirst \/ RemoveMore \/ RemoveExtra
IpPacket == PacketFirst \/ PacketPayload \/ PacketExtra

Next ==
  \/ \E s \in Shapes : Emit(s)
  \/ RevTableRsp \/ ReadPayload
  \/ TupleHandler \/ PseudoFullHeader \/ PseudoPacket \/ AddUp \/ RemovePseudo
  \/ Ipv4Header \/ IpPacket

Spec == Init /\ [][Next]_vars

\* Every process runs in every cycle; memory and reverse table answer.
Fairness ==
  /\ WF_vars(RevTableRsp) /\ WF_vars(ReadPayload)
  /\ WF_vars(TupleHandler) /\ WF_vars(PseudoFullHeader) /\ WF_vars(PseudoPacket)
  /\ WF_vars(AddUp) /\ WF_vars(RemovePseudo) /\ WF_vars(Ipv4Header) /\ WF_vars(IpPacket)

FairSpec == Spec /\ Fairness

\* Nothing is claimed about what follows a cut packet.
UpToDeviation == Healthy
-----------------------------------------------------------------------------
(* Properties.                                                              *)

\* One type invariant.  No word but the last of a packet is partly empty: the
\* shifts by 12, 32 and 44 bytes leave no hole.
FullUnlessLast(words) == \A i \in DOMAIN words : words[i].last \/ Len(words[i].lanes) = W
TxPktTypeOK ==
  /\ segs \in Seq(Shapes) /\ Len(segs) <= MaxSegments
  /\ \A fifo \in {meta, length, rev_req, rev_rsp, fsm_tuple, mem_cmd, tcp_tuple, ip_pair} :
       Len(fifo) <= Depth /\ \A i \in DOMAIN fifo : fifo[i] \in DOMAIN segs
  /\ tuple_fsm \in {"load", "slookup", "fsm"}
  /\ pseudo_fsm \in {"READ_PSEUDO", "READ_PAYLOAD", "EXTRA_WORD"}
  /\ remove_fsm \in {"READ", "READ_MORE_PAYLOAD", "EXTRA_WORD"}
  /\ ip_fsm \in {"READ_FIRST", "READ_PAYLOAD", "EXTRA_WORD"}
  /\ \A words \in {payload, pkt_tx, pkt_sum, tcp_packet} :
       Len(words) <= WordDepth /\ FullUnlessLast(words)
  /\ halved \subseteq DOMAIN segs /\ done <= Len(segs) /\ deviation \in {"none", "cut"}

\* The headers of packet i: all of its parts are those of segment i.
Headers(i) ==
  IpHeader(i, i) \o SubSeq(FullHeader(i, i), PseudoLanes + 1, Len(FullHeader(i, i)))
WithoutChecksum(packet) == [packet EXCEPT ![ChecksumLane] = Lane("checksum", 0, <<>>)]

\* A packet is put together from parts of one segment: lengths, addresses, TCP
\* header and payload that waited on FIFOs of their own meet again in every
\* interleaving of the processes, also when the four tuple comes from the event
\* of a RST instead of the reverse table, and the packet is as long as its IP
\* header says.
HeadersMatch ==
  Healthy => \A i \in 1 .. done :
    /\ Len(wire[i]) = Len(Headers(i)) + (IF ContainsPayload(i) THEN segs[i].length ELSE 0)
    /\ SubSeq(WithoutChecksum(wire[i]), 1, Len(Headers(i))) = Headers(i)
    /\ \A k \in Len(Headers(i)) + 1 .. Len(wire[i]) : SubSeq(wire[i][k], 1, 2) = <<"data", i>>

\* Every byte of the payload is in its place, in a packet whose payload fits a word.
PayloadExact ==
  Healthy => \A i \in 1 .. done \ halved :
    ContainsPayload(i) =>
      SubSeq(wire[i], Len(Headers(i)) + 1, Len(wire[i])) = Lanes("data", i, segs[i].length)

\* The checksum a packet carries was added up over its own pseudo header and
\* exactly what follows it on the wire, though it is computed beside the packet.
ChecksumCovers ==
  Healthy => \A i \in 1 .. done :
    wire[i][ChecksumLane][3] =
      SubSeq(FullHeader(i, i), 1, PseudoLanes)
        \o SubSeq(WithoutChecksum(wire[i]), IpLanes + 1, Len(wire[i]))

\* Every segment leaves: a packet waits for its checksum, the checksum for its
\* last word, and the words have to fit the FIFOs meanwhile.
AllLeave == \A i \in 1 .. MaxSegments : (Len(segs) >= i) ~> (done >= i \/ ~Healthy)

\* "It appends the pseudo TCP header with the corresponding payload stream." and
\* "The complete packet is then streamed out of the TCP engine."
CompletePacket ==
  \A i \in 1 .. done :
    ContainsPayload(i) =>
      SubSeq(wire[i], Len(Headers(i)) + 1, Len(wire[i])) = Lanes("data", i, segs[i].length)

\* The packet is exact: its words have no holes, its headers and its payload are those of one
\* segment, at their places.
PacketExact == TxPktTypeOK /\ HeadersMatch /\ PayloadExact
=============================================================================
