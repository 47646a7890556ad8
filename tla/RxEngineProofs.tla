---------------------------- MODULE RxEngineProofs ----------------------------
(***************************************************************************)
(* Proofs about RxEngine: the streams of decisions, commands, words and    *)
(* statuses, which the code matches by their order alone, stay in step,    *)
(* and nothing is announced before it is stored, for every number of       *)
(* segments, every packet length and every depth of the FIFOs.             *)
(***************************************************************************)
EXTENDS RxEngine, TLAPS

Elems(q) == {q[i] : i \in 1 .. Len(q)}
Has(q, s) == \E x \in Elems(q) : x.seg = s

-----------------------------------------------------------------------------
(* The types, with what the registers hold while they are in use, whether   *)
(* or not the streams are in step.                                          *)

ParseWord == {w \in Word : ~w.last => w.seg.payload}
Packet == {a \in [seg : Segment, left : 1 .. MaxWords] :
             a.left <= a.seg.words /\ (a.seg.words > 1 => a.seg.payload)}
Flag == [seg : Segment, double : BOOLEAN]
Notice == [seg : Segment, data : BOOLEAN]

TInput ==
  /\ arriving \in Packet \cup {None} /\ arrived \in 0 .. MaxSegments
  /\ sum_words \in Seq(Word) /\ checksums \in Seq(Segment)
TParse ==
  /\ parse_words \in Seq(ParseWord)
  /\ parse_fsm \in {"FIRST_WORD", "REMAINING_WORDS", "EXTRA_WORD"}
  /\ parse_seg \in Segment \cup {None}
  /\ parse_fsm # "FIRST_WORD" => parse_seg \in Segment
  /\ meta \in Seq(Segment) /\ payload \in Seq(Word) /\ Len(payload) <= PayloadDepth
TChecks ==
  /\ verify_reg \in Segment \cup {None} /\ meta_valid \in Seq(Segment)
  /\ meta_reg \in Segment \cup {None} /\ fsm_meta \in Seq(Segment)
  /\ fsm_reg \in Segment \cup {None}
TDrop ==
  /\ drop_sum \in Seq(Decision) /\ drop_meta \in Seq(Decision) /\ drop_fsm \in Seq(Decision)
  /\ dropper \in {"RD_VERIFY_CHECKSUM", "RD_META_HANDLER", "RD_FSM_DROP", "FWD", "DROP"}
  /\ decided \in Segment \cup {None} /\ (dropper # "RD_VERIFY_CHECKSUM" => decided \in Segment)
TMemory == mem_cmd \in Seq(Segment) /\ mem_data \in Seq(Word)
TWrite ==
  /\ writer \in {"WAIT_CMD", "FWD_NO_BREAKDOWN", "FWD_BREAKDOWN_0", "FWD_BREAKDOWN_1",
                 "FWD_EXTRA"}
  /\ writer_seg \in Segment \cup {None} /\ (writer # "WAIT_CMD" => writer_seg \in Segment)
  /\ mover_cmd \in Seq(Access) /\ mover_data \in Seq(AccessWord)
TFlag == double_flag \in Seq(Flag)
TStatus == status \in Seq(Status)
TNotify ==
  /\ notify_cache \in Seq(Notice)
  /\ notify_fsm \in {"READ_NOTIFY", "READ_STATUS_1", "READ_STATUS_2"}
  /\ notify_reg \in Segment \cup {None} /\ (notify_fsm # "READ_NOTIFY" => notify_reg \in Segment)
TResults ==
  /\ notified \subseteq Segment /\ stored \subseteq Segment /\ failed \subseteq Segment
  /\ deviation \in {"none", "undecided"}

TInv ==
  TInput /\ TParse /\ TChecks /\ TDrop /\ TMemory /\ TWrite /\ TFlag /\ TStatus /\ TNotify /\ TResults

\* What is under way in the middle of a packet, of a payload or of an access, if anything.
Parsing == IF parse_fsm = "FIRST_WORD" THEN {} ELSE {parse_seg}
Forwarding == IF dropper = "FWD" THEN {decided} ELSE {}
CurrentPart == IF writer = "FWD_BREAKDOWN_0" THEN 1 ELSE 2
Current == IF writer = "WAIT_CMD" THEN {} ELSE {[seg |-> writer_seg, part |-> CurrentPart]}

-----------------------------------------------------------------------------
(* The order of what is under way.  Every process handles the segments in    *)
(* the order of their numbers.  A mark is the number of the last segment     *)
(* that a process has taken or passed on: what is in a FIFO is in order and  *)
(* lies between the marks of its reader and of its writer.                   *)

\* p: parsed; vm, v: taken and decided by the checksum process; mc, m: the same of the meta
\* handler; fl, f: of the FSM; d1, d2, d3: the decisions the dropper has read; w: writes
\* begun; n, g: notifications and flags read; a, c, b: accesses asked for, done, reported.
MarkNames == {"p", "vm", "v", "mc", "m", "fl", "f", "d1", "d2", "d3", "w", "n", "g",
              "a", "c", "b"}
Marks == [MarkNames -> Nat]

\* A FIFO of segments, of entries about segments, and of accesses, in order.
RunS(q, lo, hi) ==
  /\ lo <= hi
  /\ \A x \in Elems(q) : lo < x.id /\ x.id <= hi
  /\ \A i, j \in 1 .. Len(q) : i < j => q[i].id < q[j].id
RunD(q, lo, hi) ==
  /\ lo <= hi
  /\ \A x \in Elems(q) : lo < x.seg.id /\ x.seg.id <= hi
  /\ \A i, j \in 1 .. Len(q) : i < j => q[i].seg.id < q[j].seg.id
\* The accesses of a segment come one after the other.
No(a) == 2 * a.seg.id + a.part
RunA(q, lo, hi) ==
  /\ lo <= hi
  /\ \A x \in Elems(q) : lo < No(x) /\ No(x) <= hi
  /\ \A i, j \in 1 .. Len(q) : i < j => No(q[i]) < No(q[j])
RunT(q, lo, hi) ==
  /\ lo <= hi
  /\ \A x \in Elems(q) : lo < No(x.access) /\ No(x.access) <= hi
  /\ \A i, j \in 1 .. Len(q) : i < j => No(q[i].access) < No(q[j].access)
\* A register.
RegIn(r, lo, hi) == lo <= hi /\ (r # None => lo < r.id /\ r.id <= hi)

\* A FIFO of words up to segment hi: those of a segment follow each other up to the last
\* one, except those of the segment that is still under way (cur).
Words(q, cur, hi) ==
  /\ \A x \in Elems(q) : x.seg.id <= hi
  /\ \A i, j \in 1 .. Len(q) :
       i < j => q[i].seg.id <= q[j].seg.id /\ (q[i].last => q[i].seg.id < q[j].seg.id)
  /\ \A s \in cur : s.id = hi /\ \A x \in Elems(q) : x.last => x.seg.id < hi
  /\ \A x \in Elems(q) : ~x.last => x.seg \in cur \/ \E y \in Elems(q) : y.last /\ y.seg = x.seg
\* The same for the words of accesses.
AccessWords(q, cur, hi) ==
  /\ \A x \in Elems(q) : No(x.access) <= hi
  /\ \A i, j \in 1 .. Len(q) :
       i < j => /\ No(q[i].access) <= No(q[j].access)
                /\ q[i].last => No(q[i].access) < No(q[j].access)
  /\ \A a \in cur : No(a) = hi /\ \A x \in Elems(q) : x.last => No(x.access) < hi
  /\ \A x \in Elems(q) :
       ~x.last => x.access \in cur \/ \E y \in Elems(q) : y.last /\ y.access = x.access

\* The words on their way to the parser: those of a packet follow each other up to the last
\* one, or to the packet that is arriving.
Packets(q, packet, hi) ==
  /\ \A x \in Elems(q) : x.seg.id <= hi
  /\ \A i, j \in 1 .. Len(q) :
       i < j => q[i].seg.id <= q[j].seg.id /\ (q[i].last => q[i].seg.id < q[j].seg.id)
  /\ \A i \in 1 .. Len(q) : ~q[i].last /\ i < Len(q) => q[i + 1].seg = q[i].seg
  /\ \A i \in 1 .. Len(q) :
       ~q[i].last /\ i = Len(q) => packet # None /\ packet.seg = q[i].seg
  /\ packet # None => packet.seg.id = hi /\ \A x \in Elems(q) : x.last => x.seg.id < hi
InPackets == Packets(parse_words, arriving, arrived)
\* The parser is at the beginning of a packet when it expects one.
Within(s) == /\ parse_words # <<>> => parse_words[1].seg = s
             /\ parse_words = <<>> => arriving # None /\ arriving.seg = s
Before(p) == /\ \A x \in Elems(parse_words) : p < x.seg.id
             /\ parse_words = <<>> /\ arriving # None => p < arriving.seg.id
AtPacket(p) == IF parse_fsm = "REMAINING_WORDS" THEN Within(parse_seg) ELSE Before(p)

OParse(k) == k.p <= arrived /\ AtPacket(k.p) /\ \A s \in Parsing : s.id = k.p /\ s.payload
OFront(k) == Words(payload, Parsing, k.p) /\ RunS(meta, k.vm, k.p)
OVerify(k) == RegIn(verify_reg, k.v, k.vm) /\ RunS(meta_valid, k.mc, k.v) /\ RunD(drop_sum, k.d1, k.v)
OMeta(k) == RegIn(meta_reg, k.m, k.mc) /\ RunS(fsm_meta, k.fl, k.m) /\ RunD(drop_meta, k.d2, k.m)
OFsm(k) ==
  /\ RegIn(fsm_reg, k.f, k.fl) /\ RunD(drop_fsm, k.d3, k.f)
  /\ RunS(mem_cmd, k.w, k.f) /\ RunD(notify_cache, k.n, k.f)
ODrop(k) ==
  /\ dropper # "RD_VERIFY_CHECKSUM" => decided.id = k.d1
  /\ dropper = "RD_FSM_DROP" => decided.id = k.d2
  /\ Words(mem_data, Forwarding, k.d3)
OWrite(k) ==
  /\ writer # "WAIT_CMD" => writer_seg.id = k.w
  /\ k.a <= 2 * k.w + 2
  /\ AccessWords(mover_data, Current, k.a)
OMover(k) == RunA(mover_cmd, k.c, k.a) /\ RunT(status, k.b, k.c)
ONotify(k) ==
  /\ RunD(double_flag, k.g, k.w)
  /\ notify_fsm # "READ_NOTIFY" => notify_reg.id = k.n
  /\ notify_fsm = "READ_STATUS_2" => notify_reg.id = k.g

Ordered(k) ==
  /\ OParse(k) /\ OFront(k) /\ OVerify(k) /\ OMeta(k) /\ OFsm(k) /\ ODrop(k) /\ OWrite(k)
  /\ OMover(k) /\ ONotify(k)

-----------------------------------------------------------------------------
(* What is matched by its order is about the same segments.                 *)

\* Payloads and the decisions about them.
Parsed(s)  == Has(payload, s) \/ s \in Parsing
ToDecide(s) == \/ dropper # "RD_VERIFY_CHECKSUM" /\ decided = s
               \/ Has(drop_sum, s)
               \/ s.payload /\ (verify_reg = s \/ s \in Elems(meta))
Kept(q, s) == \E d \in Elems(q) : d.seg = s /\ ~d.drop
\* Payloads the checksum process keeps, and the decisions of the meta handler.
KeptSum(s) == (dropper = "RD_META_HANDLER" /\ decided = s) \/ Kept(drop_sum, s)
ToLookup(s) == Has(drop_meta, s) \/ (s.payload /\ (meta_reg = s \/ s \in Elems(meta_valid)))
\* Payloads the meta handler keeps, and the decisions of the FSM.
KeptMeta(s) == (dropper = "RD_FSM_DROP" /\ decided = s) \/ Kept(drop_meta, s)
ToAccept(s) == Has(drop_fsm, s) \/ (s.payload /\ (fsm_reg = s \/ s \in Elems(fsm_meta)))
\* Payloads the FSM accepts, and the commands for them.
Accepted(s) == s \in Forwarding \/ Kept(drop_fsm, s) \/ Has(mem_data, s)
ToWrite(s) == (writer \notin {"WAIT_CMD", "FWD_EXTRA"} /\ writer_seg = s) \/ s \in Elems(mem_cmd)
\* Words of accesses, and the access that is being written.
HasWords(a) == a \in Current \/ \E x \in Elems(mover_data) : x.access = a
\* Notifications of data, and the flags of the writes.
Announced(s) == \/ notify_fsm = "READ_STATUS_1" /\ notify_reg = s
                \/ \E x \in Elems(notify_cache) : x.seg = s /\ x.data
Flagged(s) == s \in Elems(mem_cmd) \/ Has(double_flag, s)
\* Statuses expected, and those reported or to be reported.
Expected(a) == \/ notify_fsm = "READ_STATUS_2" /\ a.seg = notify_reg /\ a.part = 2
               \/ \E x \in Elems(double_flag) : x.seg = a.seg /\ (a.part = 2 \/ x.double)
Reported(a) == \/ a \in Elems(mover_cmd) \/ \E x \in Elems(status) : x.access = a
               \/ writer = "FWD_BREAKDOWN_0" /\ a.seg = writer_seg /\ a.part = 2

MatchSum    == \A s \in Segment : Parsed(s) <=> ToDecide(s)
MatchMeta   == \A s \in Segment : KeptSum(s) <=> ToLookup(s)
MatchFsm    == \A s \in Segment : KeptMeta(s) <=> ToAccept(s)
MatchWrite  == \A s \in Segment : Accepted(s) <=> ToWrite(s)
MatchMover  == \A a \in Access : a \in Elems(mover_cmd) <=> HasWords(a)
MatchNotify == \A s \in Segment : Announced(s) <=> Flagged(s)
MatchStatus == \A a \in Access : Expected(a) <=> Reported(a)
\* A status tells the truth.
StatusTrue == \A x \in Elems(status) : x.okay /\ (x.access.part = 2 => x.access.seg \in stored)
\* As long as no write has failed.
Truthful == failed = {} => MatchStatus /\ StatusTrue /\ notified \subseteq stored

Matches ==
  MatchSum /\ MatchMeta /\ MatchFsm /\ MatchWrite /\ MatchMover /\ MatchNotify /\ Truthful

Core == InPackets /\ Matches /\ \E k \in Marks : Ordered(k)

\* The inductive invariant.
IInv == TInv /\ (Healthy => Core)

-----------------------------------------------------------------------------
(* FIFOs.                                                                    *)

\* Reading a FIFO takes its first entry and leaves the others.
LEMMA Read ==
  ASSUME NEW T, NEW q \in Seq(T), q # <<>>
  PROVE  /\ Head(q) \in T /\ Tail(q) \in Seq(T)
         /\ Len(q) \in Nat \ {0} /\ Len(Tail(q)) = Len(q) - 1 /\ q[1] = Head(q)
         /\ Tail(q) = <<>> => Len(q) = 1
         /\ \A i \in 1 .. Len(Tail(q)) : i + 1 \in 1 .. Len(q) /\ Tail(q)[i] = q[i + 1]
         /\ \A x : x \in Elems(q) <=> x = Head(q) \/ x \in Elems(Tail(q))
<1>1. /\ Head(q) \in T /\ Tail(q) \in Seq(T) /\ q[1] = Head(q)
      /\ Len(q) \in Nat \ {0} /\ Len(Tail(q)) = Len(q) - 1
  OBVIOUS
<1>2. \A i \in 1 .. Len(Tail(q)) : i + 1 \in 1 .. Len(q) /\ Tail(q)[i] = q[i + 1]
  BY <1>1
<1>3. \A x : x = Head(q) \/ x \in Elems(Tail(q)) => x \in Elems(q)
  BY <1>1, <1>2 DEF Elems
<1>4. ASSUME NEW i \in 1 .. Len(q)  PROVE q[i] = Head(q) \/ q[i] \in Elems(Tail(q))
  <2>1. CASE i = 1
    BY <2>1, <1>1
  <2>2. CASE i # 1
    <3>1. i - 1 \in 1 .. Len(Tail(q)) /\ (i - 1) + 1 = i
      BY <2>2, <1>1
    <3> QED BY <3>1, <1>2 DEF Elems
  <2> QED BY <2>1, <2>2
<1>5. ASSUME Len(q) # 1  PROVE Tail(q) # <<>>
  <2>1. Len(Tail(q)) # 0
    BY <1>1, <1>5
  <2>2. \A s : s = <<>> => Len(s) = 0
    OBVIOUS
  <2> QED BY <2>1, <2>2
<1> QED BY <1>1, <1>2, <1>3, <1>4, <1>5 DEF Elems

\* Writing to a FIFO puts the entry behind the others.
LEMMA Write ==
  ASSUME NEW T, NEW q \in Seq(T), NEW e \in T
  PROVE  /\ Append(q, e) \in Seq(T) /\ Append(q, e) # <<>>
         /\ Len(q) \in Nat /\ Len(Append(q, e)) = Len(q) + 1 /\ Append(q, e)[Len(q) + 1] = e
         /\ \A i \in 1 .. Len(Append(q, e)) :
              \/ i \in 1 .. Len(q) /\ Append(q, e)[i] = q[i]
              \/ i = Len(q) + 1 /\ Append(q, e)[i] = e
         /\ \A x : x \in Elems(Append(q, e)) <=> x = e \/ x \in Elems(q)
<1>1. /\ Append(q, e) \in Seq(T) /\ Append(q, e) # <<>> /\ Append(q, e)[Len(q) + 1] = e
      /\ Len(q) \in Nat /\ Len(Append(q, e)) = Len(q) + 1
  OBVIOUS
<1>2. \A i \in 1 .. Len(q) : i \in 1 .. Len(Append(q, e)) /\ Append(q, e)[i] = q[i]
  BY <1>1
<1>3. \A i \in 1 .. Len(Append(q, e)) : i \in 1 .. Len(q) \/ i = Len(q) + 1
  BY <1>1
<1>4. \A x : x \in Elems(Append(q, e)) => x = e \/ x \in Elems(q)
  BY <1>1, <1>2, <1>3 DEF Elems
<1>5. e \in Elems(Append(q, e))
  BY <1>1 DEF Elems
<1>6. \A x : x \in Elems(q) => x \in Elems(Append(q, e))
  BY <1>1, <1>2 DEF Elems
<1> QED BY <1>1, <1>2, <1>3, <1>4, <1>5, <1>6

LEMMA Types ==
  ASSUME NEW T, NEW q \in Seq(T)
  PROVE  /\ Elems(q) \subseteq T /\ Len(q) \in Nat
         /\ \A i \in 1 .. Len(q) : q[i] \in Elems(q)
         /\ Elems(<<>>) = {}
BY DEF Elems

LEMMA Written ==
  ASSUME NEW T, NEW q \in Seq(T), NEW e \in T, NEW r, r \in {q, Append(q, e)}
  PROVE  r \in Seq(T)
BY Write

\* What the entries are made of.
LEMMA Fields ==
  /\ \A x \in Decision : x.seg \in Segment
  /\ \A x \in Word : x.seg \in Segment
  /\ \A x \in Flag : x.seg \in Segment
  /\ \A x \in Notice : x.seg \in Segment
  /\ \A x \in Access : x.seg \in Segment /\ x.part \in {1, 2}
  /\ \A x \in AccessWord : x.access \in Access
  /\ \A x \in Status : x.access \in Access
BY DEF Decision, Word, Flag, Notice, Access, AccessWord, Status

-----------------------------------------------------------------------------
(* Order.                                                                    *)

LEMMA KeyIsNat ==
  /\ \A x \in Segment : x.id \in Nat
  /\ \A x \in Access : No(x) \in Nat
  /\ \A x \in Word : x.seg \in Segment /\ x.seg.id \in Nat
  /\ \A x \in Decision : x.seg \in Segment /\ x.seg.id \in Nat
  /\ \A x \in Notice : x.seg \in Segment /\ x.seg.id \in Nat
  /\ \A x \in Flag : x.seg \in Segment /\ x.seg.id \in Nat
  /\ \A x \in AccessWord : x.access \in Access /\ No(x.access) \in Nat
  /\ \A x \in Status : x.access \in Access /\ No(x.access) \in Nat
<1>1. \A x \in Segment : x.id \in Nat
  BY RxBoundAssumption DEF Segment
<1>2. \A x \in Access : x.seg \in Segment /\ x.part \in Nat
  BY DEF Access
<1>3. \A x \in Access : No(x) \in Nat
  BY <1>1, <1>2 DEF No
<1> QED BY <1>1, <1>3, Fields

\* Segments: reading, writing, and a writer that goes on without writing.
LEMMA RunSRead ==
  ASSUME NEW q \in Seq(Segment), q # <<>>, NEW lo \in Nat, NEW hi \in Nat, RunS(q, lo, hi)
  PROVE  /\ lo < Head(q).id /\ Head(q).id <= hi
         /\ RunS(Tail(q), Head(q).id, hi)
<1> USE DEF RunS
<1>1. Head(q) \in Segment /\ Head(q) \in Elems(q)
  BY Read
<1>2. lo < Head(q).id /\ Head(q).id <= hi
  BY <1>1
<1>3. ASSUME NEW i \in 1 .. Len(Tail(q))
      PROVE  Head(q).id < Tail(q)[i].id /\ Tail(q)[i].id <= hi
  <2>1. 1 \in 1 .. Len(q) /\ i + 1 \in 1 .. Len(q) /\ 1 < i + 1 /\ Tail(q)[i] = q[i + 1] /\ q[1] = Head(q)
    BY Read
  <2>2. q[i + 1] \in Elems(q)
    BY <2>1 DEF Elems
  <2> QED BY <2>1, <2>2
<1>4. ASSUME NEW i \in 1 .. Len(Tail(q)), NEW j \in 1 .. Len(Tail(q)), i < j
      PROVE  Tail(q)[i].id < Tail(q)[j].id
  <2>1. /\ i + 1 \in 1 .. Len(q) /\ j + 1 \in 1 .. Len(q) /\ i + 1 < j + 1
        /\ Tail(q)[i] = q[i + 1] /\ Tail(q)[j] = q[j + 1]
    BY <1>4, Read
  <2> QED BY <2>1
<1> QED BY <1>1, <1>2, <1>3, <1>4, KeyIsNat DEF Elems

LEMMA RunSWrite ==
  ASSUME NEW q \in Seq(Segment), NEW e \in Segment, NEW lo \in Nat, NEW hi \in Nat, RunS(q, lo, hi),
         hi < e.id
  PROVE  RunS(Append(q, e), lo, e.id)
<1> USE DEF RunS
<1>1. \A x \in Elems(q) : x \in Segment /\ x.id <= hi /\ x.id \in Nat
  BY Types, KeyIsNat
<1>2. \A i \in 1 .. Len(q) : q[i] \in Elems(q)
  BY Types
<1>3. e.id \in Nat
  BY KeyIsNat
<1>4. ASSUME NEW i \in 1 .. Len(Append(q, e)), NEW j \in 1 .. Len(Append(q, e)), i < j
      PROVE  Append(q, e)[i].id < Append(q, e)[j].id
  <2>1. i \in 1 .. Len(q) /\ Append(q, e)[i] = q[i]
    BY <1>4, Write
  <2>2. CASE j \in 1 .. Len(q) /\ Append(q, e)[j] = q[j]
    BY <2>1, <2>2, <1>4
  <2>3. CASE Append(q, e)[j] = e
    BY <2>1, <2>3, <1>1, <1>2, <1>3
  <2> QED BY <2>2, <2>3, Write
<1>5. \A x \in Elems(Append(q, e)) : lo < x.id /\ x.id <= e.id
  BY <1>1, <1>3, Write
<1>6. lo <= e.id
  BY <1>3
<1> QED BY <1>4, <1>5, <1>6

LEMMA RunSSkip ==
  ASSUME NEW q \in Seq(Segment), NEW lo \in Nat, NEW hi \in Nat, RunS(q, lo, hi),
         NEW further \in Nat, hi <= further
  PROVE  RunS(q, lo, further)
BY Types, KeyIsNat DEF RunS

\* Entries about segments: reading, writing, and a writer that goes on without writing.
LEMMA RunDRead ==
  ASSUME NEW T, \A x \in T : x.seg.id \in Nat, NEW q \in Seq(T), q # <<>>, NEW lo \in Nat, NEW hi \in Nat, RunD(q, lo, hi)
  PROVE  /\ lo < Head(q).seg.id /\ Head(q).seg.id <= hi
         /\ RunD(Tail(q), Head(q).seg.id, hi)
<1> USE DEF RunD
<1>1. Head(q) \in T /\ Head(q) \in Elems(q)
  BY Read
<1>2. lo < Head(q).seg.id /\ Head(q).seg.id <= hi
  BY <1>1
<1>3. ASSUME NEW i \in 1 .. Len(Tail(q))
      PROVE  Head(q).seg.id < Tail(q)[i].seg.id /\ Tail(q)[i].seg.id <= hi
  <2>1. 1 \in 1 .. Len(q) /\ i + 1 \in 1 .. Len(q) /\ 1 < i + 1 /\ Tail(q)[i] = q[i + 1] /\ q[1] = Head(q)
    BY Read
  <2>2. q[i + 1] \in Elems(q)
    BY <2>1 DEF Elems
  <2> QED BY <2>1, <2>2
<1>4. ASSUME NEW i \in 1 .. Len(Tail(q)), NEW j \in 1 .. Len(Tail(q)), i < j
      PROVE  Tail(q)[i].seg.id < Tail(q)[j].seg.id
  <2>1. /\ i + 1 \in 1 .. Len(q) /\ j + 1 \in 1 .. Len(q) /\ i + 1 < j + 1
        /\ Tail(q)[i] = q[i + 1] /\ Tail(q)[j] = q[j + 1]
    BY <1>4, Read
  <2> QED BY <2>1
<1> QED BY <1>1, <1>2, <1>3, <1>4 DEF Elems

LEMMA RunDWrite ==
  ASSUME NEW T, \A x \in T : x.seg.id \in Nat, NEW q \in Seq(T), NEW e \in T, NEW lo \in Nat, NEW hi \in Nat, RunD(q, lo, hi),
         hi < e.seg.id
  PROVE  RunD(Append(q, e), lo, e.seg.id)
<1> USE DEF RunD
<1>1. \A x \in Elems(q) : x \in T /\ x.seg.id <= hi /\ x.seg.id \in Nat
  BY Types
<1>2. \A i \in 1 .. Len(q) : q[i] \in Elems(q)
  BY Types
<1>3. e.seg.id \in Nat
  OBVIOUS
<1>4. ASSUME NEW i \in 1 .. Len(Append(q, e)), NEW j \in 1 .. Len(Append(q, e)), i < j
      PROVE  Append(q, e)[i].seg.id < Append(q, e)[j].seg.id
  <2>1. i \in 1 .. Len(q) /\ Append(q, e)[i] = q[i]
    BY <1>4, Write
  <2>2. CASE j \in 1 .. Len(q) /\ Append(q, e)[j] = q[j]
    BY <2>1, <2>2, <1>4
  <2>3. CASE Append(q, e)[j] = e
    BY <2>1, <2>3, <1>1, <1>2, <1>3
  <2> QED BY <2>2, <2>3, Write
<1>5. \A x \in Elems(Append(q, e)) : lo < x.seg.id /\ x.seg.id <= e.seg.id
  BY <1>1, <1>3, Write
<1>6. lo <= e.seg.id
  BY <1>3
<1> QED BY <1>4, <1>5, <1>6

LEMMA RunDSkip ==
  ASSUME NEW T, \A x \in T : x.seg.id \in Nat, NEW q \in Seq(T), NEW lo \in Nat, NEW hi \in Nat, RunD(q, lo, hi),
         NEW further \in Nat, hi <= further
  PROVE  RunD(q, lo, further)
BY Types DEF RunD

\* Accesses: reading, writing, and a writer that goes on without writing.
LEMMA RunARead ==
  ASSUME NEW q \in Seq(Access), q # <<>>, NEW lo \in Nat, NEW hi \in Nat, RunA(q, lo, hi)
  PROVE  /\ lo < No(Head(q)) /\ No(Head(q)) <= hi
         /\ RunA(Tail(q), No(Head(q)), hi)
<1> USE DEF RunA
<1>1. Head(q) \in Access /\ Head(q) \in Elems(q)
  BY Read
<1>2. lo < No(Head(q)) /\ No(Head(q)) <= hi
  BY <1>1
<1>3. ASSUME NEW i \in 1 .. Len(Tail(q))
      PROVE  No(Head(q)) < No(Tail(q)[i]) /\ No(Tail(q)[i]) <= hi
  <2>1. 1 \in 1 .. Len(q) /\ i + 1 \in 1 .. Len(q) /\ 1 < i + 1 /\ Tail(q)[i] = q[i + 1] /\ q[1] = Head(q)
    BY Read
  <2>2. q[i + 1] \in Elems(q)
    BY <2>1 DEF Elems
  <2> QED BY <2>1, <2>2
<1>4. ASSUME NEW i \in 1 .. Len(Tail(q)), NEW j \in 1 .. Len(Tail(q)), i < j
      PROVE  No(Tail(q)[i]) < No(Tail(q)[j])
  <2>1. /\ i + 1 \in 1 .. Len(q) /\ j + 1 \in 1 .. Len(q) /\ i + 1 < j + 1
        /\ Tail(q)[i] = q[i + 1] /\ Tail(q)[j] = q[j + 1]
    BY <1>4, Read
  <2> QED BY <2>1
<1> QED BY <1>1, <1>2, <1>3, <1>4, KeyIsNat DEF Elems

LEMMA RunAWrite ==
  ASSUME NEW q \in Seq(Access), NEW e \in Access, NEW lo \in Nat, NEW hi \in Nat, RunA(q, lo, hi),
         hi < No(e)
  PROVE  RunA(Append(q, e), lo, No(e))
<1> USE DEF RunA
<1>1. \A x \in Elems(q) : x \in Access /\ No(x) <= hi /\ No(x) \in Nat
  BY Types, KeyIsNat
<1>2. \A i \in 1 .. Len(q) : q[i] \in Elems(q)
  BY Types
<1>3. No(e) \in Nat
  BY KeyIsNat
<1>4. ASSUME NEW i \in 1 .. Len(Append(q, e)), NEW j \in 1 .. Len(Append(q, e)), i < j
      PROVE  No(Append(q, e)[i]) < No(Append(q, e)[j])
  <2>1. i \in 1 .. Len(q) /\ Append(q, e)[i] = q[i]
    BY <1>4, Write
  <2>2. CASE j \in 1 .. Len(q) /\ Append(q, e)[j] = q[j]
    BY <2>1, <2>2, <1>4
  <2>3. CASE Append(q, e)[j] = e
    BY <2>1, <2>3, <1>1, <1>2, <1>3
  <2> QED BY <2>2, <2>3, Write
<1>5. \A x \in Elems(Append(q, e)) : lo < No(x) /\ No(x) <= No(e)
  BY <1>1, <1>3, Write
<1>6. lo <= No(e)
  BY <1>3
<1> QED BY <1>4, <1>5, <1>6

LEMMA RunASkip ==
  ASSUME NEW q \in Seq(Access), NEW lo \in Nat, NEW hi \in Nat, RunA(q, lo, hi),
         NEW further \in Nat, hi <= further
  PROVE  RunA(q, lo, further)
BY Types, KeyIsNat DEF RunA

\* Entries about accesses: reading, writing, and a writer that goes on without writing.
LEMMA RunTRead ==
  ASSUME NEW T, \A x \in T : No(x.access) \in Nat, NEW q \in Seq(T), q # <<>>, NEW lo \in Nat, NEW hi \in Nat, RunT(q, lo, hi)
  PROVE  /\ lo < No(Head(q).access) /\ No(Head(q).access) <= hi
         /\ RunT(Tail(q), No(Head(q).access), hi)
<1> USE DEF RunT
<1>1. Head(q) \in T /\ Head(q) \in Elems(q)
  BY Read
<1>2. lo < No(Head(q).access) /\ No(Head(q).access) <= hi
  BY <1>1
<1>3. ASSUME NEW i \in 1 .. Len(Tail(q))
      PROVE  No(Head(q).access) < No(Tail(q)[i].access) /\ No(Tail(q)[i].access) <= hi
  <2>1. 1 \in 1 .. Len(q) /\ i + 1 \in 1 .. Len(q) /\ 1 < i + 1 /\ Tail(q)[i] = q[i + 1] /\ q[1] = Head(q)
    BY Read
  <2>2. q[i + 1] \in Elems(q)
    BY <2>1 DEF Elems
  <2> QED BY <2>1, <2>2
<1>4. ASSUME NEW i \in 1 .. Len(Tail(q)), NEW j \in 1 .. Len(Tail(q)), i < j
      PROVE  No(Tail(q)[i].access) < No(Tail(q)[j].access)
  <2>1. /\ i + 1 \in 1 .. Len(q) /\ j + 1 \in 1 .. Len(q) /\ i + 1 < j + 1
        /\ Tail(q)[i] = q[i + 1] /\ Tail(q)[j] = q[j + 1]
    BY <1>4, Read
  <2> QED BY <2>1
<1> QED BY <1>1, <1>2, <1>3, <1>4 DEF Elems

LEMMA RunTWrite ==
  ASSUME NEW T, \A x \in T : No(x.access) \in Nat, NEW q \in Seq(T), NEW e \in T, NEW lo \in Nat, NEW hi \in Nat, RunT(q, lo, hi),
         hi < No(e.access)
  PROVE  RunT(Append(q, e), lo, No(e.access))
<1> USE DEF RunT
<1>1. \A x \in Elems(q) : x \in T /\ No(x.access) <= hi /\ No(x.access) \in Nat
  BY Types
<1>2. \A i \in 1 .. Len(q) : q[i] \in Elems(q)
  BY Types
<1>3. No(e.access) \in Nat
  OBVIOUS
<1>4. ASSUME NEW i \in 1 .. Len(Append(q, e)), NEW j \in 1 .. Len(Append(q, e)), i < j
      PROVE  No(Append(q, e)[i].access) < No(Append(q, e)[j].access)
  <2>1. i \in 1 .. Len(q) /\ Append(q, e)[i] = q[i]
    BY <1>4, Write
  <2>2. CASE j \in 1 .. Len(q) /\ Append(q, e)[j] = q[j]
    BY <2>1, <2>2, <1>4
  <2>3. CASE Append(q, e)[j] = e
    BY <2>1, <2>3, <1>1, <1>2, <1>3
  <2> QED BY <2>2, <2>3, Write
<1>5. \A x \in Elems(Append(q, e)) : lo < No(x.access) /\ No(x.access) <= No(e.access)
  BY <1>1, <1>3, Write
<1>6. lo <= No(e.access)
  BY <1>3
<1> QED BY <1>4, <1>5, <1>6

LEMMA RunTSkip ==
  ASSUME NEW T, \A x \in T : No(x.access) \in Nat, NEW q \in Seq(T), NEW lo \in Nat, NEW hi \in Nat, RunT(q, lo, hi),
         NEW further \in Nat, hi <= further
  PROVE  RunT(q, lo, further)
BY Types DEF RunT

\* Words: reading one, writing one of the segment under way, beginning with a segment, and
\* going on to a segment without words.
LEMMA WordsRead ==
  ASSUME NEW q \in Seq(Word), q # <<>>, NEW cur \in SUBSET Segment, NEW hi \in Nat,
         Words(q, cur, hi)
  PROVE  /\ Words(Tail(q), cur, hi)
         /\ Head(q).seg.id <= hi
         /\ \A x \in Elems(Tail(q)) : Head(q).seg.id <= x.seg.id
         /\ \A s \in cur : Head(q).seg.id <= s.id
         /\ Head(q).last => /\ \A x \in Elems(Tail(q)) : Head(q).seg.id < x.seg.id
                            /\ \A s \in cur : Head(q).seg.id < s.id
         /\ ~Head(q).last => Head(q).seg \in cur \/ Has(Tail(q), Head(q).seg)
<1> DEFINE h == Head(q)
           t == Tail(q)
<1>1. /\ h \in Word /\ h \in Elems(q) /\ Elems(t) \subseteq Elems(q) /\ t \in Seq(Word)
      /\ \A x \in Elems(q) : x = h \/ x \in Elems(t)
  BY Read
<1>2. \A x \in Elems(q) : x.seg.id \in Nat
  BY Types, KeyIsNat
<1>3. /\ \A x \in Elems(q) : x.seg.id <= hi
      /\ \A i, j \in 1 .. Len(q) :
           i < j => q[i].seg.id <= q[j].seg.id /\ (q[i].last => q[i].seg.id < q[j].seg.id)
      /\ \A s \in cur : s.id = hi /\ \A x \in Elems(q) : x.last => x.seg.id < hi
      /\ \A x \in Elems(q) :
           ~x.last => x.seg \in cur \/ \E y \in Elems(q) : y.last /\ y.seg = x.seg
  BY DEF Words
<1>4. ASSUME NEW x \in Elems(t)
      PROVE  h.seg.id <= x.seg.id /\ (h.last => h.seg.id < x.seg.id)
  <2>1. PICK i \in 1 .. Len(t) : x = t[i]
    BY DEF Elems
  <2>2. 1 \in 1 .. Len(q) /\ i + 1 \in 1 .. Len(q) /\ 1 < i + 1 /\ t[i] = q[i + 1] /\ q[1] = h
    BY Read
  <2> QED BY <2>1, <2>2, <1>3
<1>5. ASSUME NEW i \in 1 .. Len(t), NEW j \in 1 .. Len(t), i < j
      PROVE  t[i].seg.id <= t[j].seg.id /\ (t[i].last => t[i].seg.id < t[j].seg.id)
  <2>1. /\ i + 1 \in 1 .. Len(q) /\ j + 1 \in 1 .. Len(q) /\ i + 1 < j + 1
        /\ t[i] = q[i + 1] /\ t[j] = q[j + 1]
    BY <1>5, Read
  <2> QED BY <2>1, <1>3
<1>6. ASSUME NEW x \in Elems(t), ~x.last
      PROVE  x.seg \in cur \/ \E y \in Elems(t) : y.last /\ y.seg = x.seg
  <2>1. CASE x.seg \in cur
    BY <2>1
  <2>2. CASE \E y \in Elems(q) : y.last /\ y.seg = x.seg
    <3>1. PICK y \in Elems(q) : y.last /\ y.seg = x.seg
      BY <2>2
    <3>2. y # h
      BY <3>1, <1>4, <1>1, <1>2
    <3> QED BY <3>1, <3>2, <1>1
  <2> QED BY <2>1, <2>2, <1>6, <1>3, <1>1
<1>7. ~h.last => h.seg \in cur \/ \E y \in Elems(t) : y.seg = h.seg
  BY <1>1, <1>3
<1>8. Words(t, cur, hi)
  BY <1>1, <1>3, <1>5, <1>6 DEF Words
<1>9. h.seg.id <= hi /\ \A s \in cur : h.seg.id <= s.id /\ (h.last => h.seg.id < s.id)
  BY <1>1, <1>3
<1> QED BY <1>4, <1>7, <1>8, <1>9 DEF Has

LEMMA WordsWrite ==
  ASSUME NEW q \in Seq(Word), NEW e \in Word, NEW hi \in Nat, Words(q, {e.seg}, hi)
  PROVE  Words(Append(q, e), IF e.last THEN {} ELSE {e.seg}, hi)
<1> DEFINE a == Append(q, e)
           cur == IF e.last THEN {} ELSE {e.seg}
<1>1. /\ \A x \in Elems(q) : x.seg.id <= hi
      /\ \A i, j \in 1 .. Len(q) :
           i < j => q[i].seg.id <= q[j].seg.id /\ (q[i].last => q[i].seg.id < q[j].seg.id)
      /\ e.seg.id = hi /\ \A x \in Elems(q) : x.last => x.seg.id < hi
      /\ \A x \in Elems(q) :
           ~x.last => x.seg = e.seg \/ \E y \in Elems(q) : y.last /\ y.seg = x.seg
  BY DEF Words
<1>2. \A x : x \in Elems(a) <=> x = e \/ x \in Elems(q)
  BY Write
<1>3. ASSUME NEW i \in 1 .. Len(a), NEW j \in 1 .. Len(a), i < j
      PROVE  a[i].seg.id <= a[j].seg.id /\ (a[i].last => a[i].seg.id < a[j].seg.id)
  <2>1. i \in 1 .. Len(q) /\ a[i] = q[i] /\ q[i] \in Elems(q)
    BY <1>3, Write, Types
  <2>2. CASE j \in 1 .. Len(q) /\ a[j] = q[j]
    BY <2>1, <2>2, <1>1, <1>3
  <2>3. CASE a[j] = e
    BY <2>1, <2>3, <1>1
  <2> QED BY <2>2, <2>3, Write
<1>4. \A x \in Elems(a) : x.seg.id <= hi
  BY <1>1, <1>2
<1>5. \A s \in cur : s.id = hi /\ \A x \in Elems(a) : x.last => x.seg.id < hi
  BY <1>1, <1>2
<1>6. \A x \in Elems(a) : ~x.last => x.seg \in cur \/ \E y \in Elems(a) : y.last /\ y.seg = x.seg
  BY <1>1, <1>2
<1> QED BY <1>3, <1>4, <1>5, <1>6 DEF Words

LEMMA WordsBegin ==
  ASSUME NEW q \in Seq(Word), NEW hi \in Nat, Words(q, {}, hi), NEW s \in Segment, hi < s.id
  PROVE  Words(q, {s}, s.id)
BY Types, KeyIsNat DEF Words

LEMMA WordsSkip ==
  ASSUME NEW q \in Seq(Word), NEW hi \in Nat, Words(q, {}, hi), NEW further \in Nat, hi <= further
  PROVE  Words(q, {}, further)
BY Types, KeyIsNat DEF Words

\* The same for the words of accesses.
LEMMA AccessWordsRead ==
  ASSUME NEW q \in Seq(AccessWord), q # <<>>, NEW cur \in SUBSET Access, NEW hi \in Nat,
         AccessWords(q, cur, hi)
  PROVE  /\ AccessWords(Tail(q), cur, hi)
         /\ No(Head(q).access) <= hi
         /\ \A x \in Elems(Tail(q)) : No(Head(q).access) <= No(x.access)
         /\ \A s \in cur : No(Head(q).access) <= No(s)
         /\ Head(q).last => /\ \A x \in Elems(Tail(q)) : No(Head(q).access) < No(x.access)
                            /\ \A s \in cur : No(Head(q).access) < No(s)
         /\ ~Head(q).last => Head(q).access \in cur \/ \E x \in Elems(Tail(q)) : x.access = Head(q).access
<1> DEFINE h == Head(q)
           t == Tail(q)
<1>1. /\ h \in AccessWord /\ h \in Elems(q) /\ Elems(t) \subseteq Elems(q) /\ t \in Seq(AccessWord)
      /\ \A x \in Elems(q) : x = h \/ x \in Elems(t)
  BY Read
<1>2. \A x \in Elems(q) : No(x.access) \in Nat
  BY Types, KeyIsNat
<1>3. /\ \A x \in Elems(q) : No(x.access) <= hi
      /\ \A i, j \in 1 .. Len(q) :
           i < j => No(q[i].access) <= No(q[j].access) /\ (q[i].last => No(q[i].access) < No(q[j].access))
      /\ \A s \in cur : No(s) = hi /\ \A x \in Elems(q) : x.last => No(x.access) < hi
      /\ \A x \in Elems(q) :
           ~x.last => x.access \in cur \/ \E y \in Elems(q) : y.last /\ y.access = x.access
  BY DEF AccessWords
<1>4. ASSUME NEW x \in Elems(t)
      PROVE  No(h.access) <= No(x.access) /\ (h.last => No(h.access) < No(x.access))
  <2>1. PICK i \in 1 .. Len(t) : x = t[i]
    BY DEF Elems
  <2>2. 1 \in 1 .. Len(q) /\ i + 1 \in 1 .. Len(q) /\ 1 < i + 1 /\ t[i] = q[i + 1] /\ q[1] = h
    BY Read
  <2> QED BY <2>1, <2>2, <1>3
<1>5. ASSUME NEW i \in 1 .. Len(t), NEW j \in 1 .. Len(t), i < j
      PROVE  No(t[i].access) <= No(t[j].access) /\ (t[i].last => No(t[i].access) < No(t[j].access))
  <2>1. /\ i + 1 \in 1 .. Len(q) /\ j + 1 \in 1 .. Len(q) /\ i + 1 < j + 1
        /\ t[i] = q[i + 1] /\ t[j] = q[j + 1]
    BY <1>5, Read
  <2> QED BY <2>1, <1>3
<1>6. ASSUME NEW x \in Elems(t), ~x.last
      PROVE  x.access \in cur \/ \E y \in Elems(t) : y.last /\ y.access = x.access
  <2>1. CASE x.access \in cur
    BY <2>1
  <2>2. CASE \E y \in Elems(q) : y.last /\ y.access = x.access
    <3>1. PICK y \in Elems(q) : y.last /\ y.access = x.access
      BY <2>2
    <3>2. y # h
      BY <3>1, <1>4, <1>1, <1>2
    <3> QED BY <3>1, <3>2, <1>1
  <2> QED BY <2>1, <2>2, <1>6, <1>3, <1>1
<1>7. ~h.last => h.access \in cur \/ \E y \in Elems(t) : y.access = h.access
  BY <1>1, <1>3
<1>8. AccessWords(t, cur, hi)
  BY <1>1, <1>3, <1>5, <1>6 DEF AccessWords
<1>9. No(h.access) <= hi /\ \A s \in cur : No(h.access) <= No(s) /\ (h.last => No(h.access) < No(s))
  BY <1>1, <1>3
<1> QED BY <1>4, <1>7, <1>8, <1>9

LEMMA AccessWordsWrite ==
  ASSUME NEW q \in Seq(AccessWord), NEW e \in AccessWord, NEW hi \in Nat, AccessWords(q, {e.access}, hi)
  PROVE  AccessWords(Append(q, e), IF e.last THEN {} ELSE {e.access}, hi)
<1> DEFINE a == Append(q, e)
           cur == IF e.last THEN {} ELSE {e.access}
<1>1. /\ \A x \in Elems(q) : No(x.access) <= hi
      /\ \A i, j \in 1 .. Len(q) :
           i < j => No(q[i].access) <= No(q[j].access) /\ (q[i].last => No(q[i].access) < No(q[j].access))
      /\ No(e.access) = hi /\ \A x \in Elems(q) : x.last => No(x.access) < hi
      /\ \A x \in Elems(q) :
           ~x.last => x.access = e.access \/ \E y \in Elems(q) : y.last /\ y.access = x.access
  BY DEF AccessWords
<1>2. \A x : x \in Elems(a) <=> x = e \/ x \in Elems(q)
  BY Write
<1>3. ASSUME NEW i \in 1 .. Len(a), NEW j \in 1 .. Len(a), i < j
      PROVE  No(a[i].access) <= No(a[j].access) /\ (a[i].last => No(a[i].access) < No(a[j].access))
  <2>1. i \in 1 .. Len(q) /\ a[i] = q[i] /\ q[i] \in Elems(q)
    BY <1>3, Write, Types
  <2>2. CASE j \in 1 .. Len(q) /\ a[j] = q[j]
    BY <2>1, <2>2, <1>1, <1>3
  <2>3. CASE a[j] = e
    BY <2>1, <2>3, <1>1
  <2> QED BY <2>2, <2>3, Write
<1>4. \A x \in Elems(a) : No(x.access) <= hi
  BY <1>1, <1>2
<1>5. \A s \in cur : No(s) = hi /\ \A x \in Elems(a) : x.last => No(x.access) < hi
  BY <1>1, <1>2
<1>6. \A x \in Elems(a) : ~x.last => x.access \in cur \/ \E y \in Elems(a) : y.last /\ y.access = x.access
  BY <1>1, <1>2
<1> QED BY <1>3, <1>4, <1>5, <1>6 DEF AccessWords

LEMMA AccessWordsBegin ==
  ASSUME NEW q \in Seq(AccessWord), NEW hi \in Nat, AccessWords(q, {}, hi), NEW s \in Access, hi < No(s)
  PROVE  AccessWords(q, {s}, No(s))
BY Types, KeyIsNat DEF AccessWords

\* Words of packets: reading one and writing one of the packet that is arriving.
LEMMA PacketsRead ==
  ASSUME NEW q \in Seq(ParseWord), q # <<>>, NEW packet, NEW hi \in Nat, Packets(q, packet, hi)
  PROVE  /\ Packets(Tail(q), packet, hi)
         /\ Head(q).seg.id <= hi
         /\ Head(q).last => /\ \A x \in Elems(Tail(q)) : Head(q).seg.id < x.seg.id
                            /\ packet # None => Head(q).seg.id < packet.seg.id
         /\ ~Head(q).last => /\ Tail(q) # <<>> => Tail(q)[1].seg = Head(q).seg
                             /\ Tail(q) = <<>> => packet # None /\ packet.seg = Head(q).seg
<1> DEFINE t == Tail(q)
           h == Head(q)
<1>1. /\ h \in ParseWord /\ h \in Elems(q) /\ q[1] = h /\ Len(q) \in Nat \ {0} /\ Len(t) = Len(q) - 1
      /\ \A i \in 1 .. Len(t) : i + 1 \in 1 .. Len(q) /\ t[i] = q[i + 1]
      /\ Elems(t) \subseteq Elems(q) /\ t \in Seq(ParseWord)
  BY Read
<1>2. /\ \A x \in Elems(q) : x.seg.id <= hi
      /\ \A i, j \in 1 .. Len(q) :
           i < j => q[i].seg.id <= q[j].seg.id /\ (q[i].last => q[i].seg.id < q[j].seg.id)
      /\ \A i \in 1 .. Len(q) : ~q[i].last /\ i < Len(q) => q[i + 1].seg = q[i].seg
      /\ \A i \in 1 .. Len(q) :
           ~q[i].last /\ i = Len(q) => packet # None /\ packet.seg = q[i].seg
      /\ packet # None => packet.seg.id = hi /\ \A x \in Elems(q) : x.last => x.seg.id < hi
  BY DEF Packets
<1>3. ASSUME NEW x \in Elems(t), h.last  PROVE h.seg.id < x.seg.id
  <2>1. PICK i \in 1 .. Len(t) : x = t[i]
    BY DEF Elems
  <2>2. 1 \in 1 .. Len(q) /\ i + 1 \in 1 .. Len(q) /\ 1 < i + 1 /\ x = q[i + 1]
    BY <2>1, <1>1
  <2> QED BY <2>2, <1>1, <1>2, <1>3
<1>4. ASSUME ~h.last
      PROVE  /\ t # <<>> => t[1].seg = h.seg
             /\ t = <<>> => packet # None /\ packet.seg = h.seg
  <2>1. 1 \in 1 .. Len(q)
    BY <1>1
  <2>2. ASSUME t # <<>>  PROVE t[1].seg = h.seg
    <3>1. Len(t) \in Nat \ {0}
      BY <1>1, <2>2, Read
    <3>2. 1 \in 1 .. Len(t) /\ 1 < Len(q) /\ t[1] = q[1 + 1]
      BY <1>1, <3>1
    <3> QED BY <3>2, <2>1, <1>1, <1>2, <1>4
  <2>3. ASSUME t = <<>>  PROVE packet # None /\ packet.seg = h.seg
    <3>1. 1 = Len(q)
      BY <2>3, Read
    <3> QED BY <3>1, <2>1, <1>1, <1>2, <1>4
  <2> QED BY <2>2, <2>3
<1>5. ASSUME NEW i \in 1 .. Len(t), NEW j \in 1 .. Len(t), i < j
      PROVE  t[i].seg.id <= t[j].seg.id /\ (t[i].last => t[i].seg.id < t[j].seg.id)
  <2>1. /\ i + 1 \in 1 .. Len(q) /\ j + 1 \in 1 .. Len(q) /\ i + 1 < j + 1
        /\ t[i] = q[i + 1] /\ t[j] = q[j + 1]
    BY <1>5, <1>1
  <2> QED BY <2>1, <1>2
<1>6. ASSUME NEW i \in 1 .. Len(t), ~t[i].last
      PROVE  /\ i < Len(t) => t[i + 1].seg = t[i].seg
             /\ i = Len(t) => packet # None /\ packet.seg = t[i].seg
  <2>1. i + 1 \in 1 .. Len(q) /\ t[i] = q[i + 1]
    BY <1>1
  <2>2. ASSUME i < Len(t)  PROVE t[i + 1].seg = t[i].seg
    <3>1. i + 1 \in 1 .. Len(t) /\ i + 1 < Len(q)
      BY <2>2, <1>1
    <3>2. t[i + 1] = q[(i + 1) + 1]
      BY <3>1, <1>1
    <3> QED BY <2>1, <3>1, <3>2, <1>2, <1>6
  <2>3. ASSUME i = Len(t)  PROVE packet # None /\ packet.seg = t[i].seg
    <3>1. i + 1 = Len(q)
      BY <2>3, <1>1
    <3> QED BY <2>1, <3>1, <1>2, <1>6
  <2> QED BY <2>2, <2>3
<1>7. Packets(t, packet, hi)
  BY <1>1, <1>2, <1>5, <1>6 DEF Packets
<1>8. h.seg.id <= hi
  BY <1>1, <1>2
<1>9. ASSUME h.last, packet # None  PROVE h.seg.id < packet.seg.id
  <2>1. packet.seg.id = hi /\ h.seg.id < hi
    BY <1>1, <1>2, <1>9
  <2> QED BY <2>1
<1> QED BY <1>3, <1>4, <1>7, <1>8, <1>9

LEMMA PacketsWrite ==
  ASSUME NEW q \in Seq(ParseWord), NEW e \in ParseWord, NEW packet, packet # None, e.seg = packet.seg,
         NEW hi \in Nat, Packets(q, packet, hi),
         NEW rest, e.last => rest = None, ~e.last => rest # None /\ rest.seg = packet.seg
  PROVE  Packets(Append(q, e), rest, hi)
<1> DEFINE a == Append(q, e)
<1>1. /\ Len(q) \in Nat /\ Len(a) = Len(q) + 1 /\ a[Len(q) + 1] = e
      /\ \A i \in 1 .. Len(a) : \/ i \in 1 .. Len(q) /\ a[i] = q[i]
                                \/ i = Len(q) + 1 /\ a[i] = e
      /\ \A x : x \in Elems(a) <=> x = e \/ x \in Elems(q)
  BY Write
<1>2. /\ \A x \in Elems(q) : x.seg.id <= hi
      /\ \A i, j \in 1 .. Len(q) :
           i < j => q[i].seg.id <= q[j].seg.id /\ (q[i].last => q[i].seg.id < q[j].seg.id)
      /\ \A i \in 1 .. Len(q) : ~q[i].last /\ i < Len(q) => q[i + 1].seg = q[i].seg
      /\ \A i \in 1 .. Len(q) :
           ~q[i].last /\ i = Len(q) => packet # None /\ packet.seg = q[i].seg
      /\ packet.seg.id = hi /\ \A x \in Elems(q) : x.last => x.seg.id < hi
  BY DEF Packets
<1>3. \A i \in 1 .. Len(q) : q[i] \in Elems(q)
  BY Types
<1>4. ASSUME NEW i \in 1 .. Len(a), NEW j \in 1 .. Len(a), i < j
      PROVE  a[i].seg.id <= a[j].seg.id /\ (a[i].last => a[i].seg.id < a[j].seg.id)
  <2>1. i \in 1 .. Len(q)
    BY <1>1, <1>4
  <2>2. a[i] = q[i] /\ q[i] \in Elems(q)
    BY <2>1, <1>1, <1>3
  <2>3. CASE j \in 1 .. Len(q) /\ a[j] = q[j]
    BY <2>1, <2>2, <2>3, <1>2, <1>4
  <2>4. CASE a[j] = e
    BY <2>2, <2>4, <1>2
  <2> QED BY <2>3, <2>4, <1>1
<1>5. ASSUME NEW i \in 1 .. Len(a), ~a[i].last, i < Len(a)  PROVE a[i + 1].seg = a[i].seg
  <2>1. i \in 1 .. Len(q) /\ i + 1 \in 1 .. Len(a)
    BY <1>1, <1>5
  <2>2. a[i] = q[i]
    BY <2>1, <1>1
  <2>3. CASE i + 1 \in 1 .. Len(q) /\ a[i + 1] = q[i + 1]
    <3>1. i < Len(q)
      BY <2>1, <2>3, <1>1
    <3> QED BY <2>1, <2>2, <2>3, <3>1, <1>2, <1>5
  <2>4. CASE i + 1 = Len(q) + 1 /\ a[i + 1] = e
    <3>1. i = Len(q)
      BY <2>1, <2>4, <1>1
    <3> QED BY <2>1, <2>2, <2>4, <3>1, <1>2, <1>5
  <2> QED BY <2>1, <2>3, <2>4, <1>1
<1>6. ASSUME NEW i \in 1 .. Len(a), ~a[i].last, i = Len(a)  PROVE rest # None /\ rest.seg = a[i].seg
  <2>1. a[i] = e
    BY <1>1, <1>6
  <2> QED BY <2>1, <1>6
<1>7. rest # None => rest.seg.id = hi /\ \A x \in Elems(a) : x.last => x.seg.id < hi
  BY <1>1, <1>2
<1>8. \A x \in Elems(a) : x.seg.id <= hi
  BY <1>1, <1>2
<1> QED BY <1>4, <1>5, <1>6, <1>7, <1>8 DEF Packets

-----------------------------------------------------------------------------
(* The types are preserved by every step, in step or not.                    *)

LEMMA TypeNext == TInv /\ [Next]_vars => TInv'
<1> SUFFICES ASSUME TInv, [Next]_vars  PROVE TInv'
  OBVIOUS
<1> USE RxBoundAssumption DEF TInv
<1>1. ASSUME NEW n \in 1 .. MaxWords, NEW pay \in BOOLEAN, Arrive(n, pay)  PROVE TInv'
  <2> USE <1>1 DEF Arrive
  <2>1. TParse' /\ TChecks' /\ TDrop' /\ TMemory' /\ TWrite' /\ TFlag' /\ TStatus' /\ TNotify' /\
         TResults'
    BY SMTT(30) DEF checks, drop, drops, front, memory, notify, results, TParse, TChecks, TDrop, TMemory,
           TWrite, TFlag, TStatus, TNotify, TResults
  <2>2. TInput'
    BY DEF checks, drop, drops, front, memory, notify, results, TInput, Packet, Segment
  <2> QED BY <2>1, <2>2
<1>2. ASSUME PseudoHeaderInsert  PROVE TInv'
  <2> USE <1>2 DEF PseudoHeaderInsert
  <2>1. TChecks' /\ TDrop' /\ TMemory' /\ TWrite' /\ TFlag' /\ TStatus' /\ TNotify' /\ TResults'
    BY SMTT(30) DEF checks, drop, drops, memory, notify, results, TChecks, TDrop, TMemory, TWrite, TFlag,
           TStatus, TNotify, TResults
  <2>2. arriving.seg \in Segment /\ (arriving.left # 1 => arriving.seg.payload)
    <3>1. arriving \in Packet
      BY DEF TInput
    <3>2. /\ arriving.seg \in Segment /\ arriving.left \in 1 .. MaxWords
          /\ arriving.left <= arriving.seg.words /\ (arriving.seg.words > 1 => arriving.seg.payload)
      BY <3>1 DEF Packet
    <3>3. arriving.seg.words \in Nat
      BY <3>2 DEF Segment
    <3> QED BY <3>2, <3>3
  <2>3. /\ sum_words \in Seq(Word)
       /\ sum_words' \in {sum_words, Append(sum_words, [seg |-> arriving.seg, last |-> arriving.left = 1])}
    BY DEF TInput
  <2>4. [seg |-> arriving.seg, last |-> arriving.left = 1] \in Word
    BY <2>2 DEF Word
  <2>5. sum_words' \in Seq(Word)
    BY <2>3, <2>4, Written
  <2>6. /\ parse_words \in Seq(ParseWord)
       /\ parse_words' \in {parse_words, Append(parse_words, [seg |-> arriving.seg, last |-> arriving.left = 1])}
    BY DEF TParse
  <2>7. [seg |-> arriving.seg, last |-> arriving.left = 1] \in ParseWord
    BY <2>2 DEF ParseWord, Word
  <2>8. parse_words' \in Seq(ParseWord)
    BY <2>6, <2>7, Written
  <2>9. TInput'
    <3>1. arriving \in Packet /\ arriving.seg.words \in Nat
      BY DEF TInput, Packet, Segment
    <3>2. arriving.left # 1 => [arriving EXCEPT !.left = @ - 1] \in Packet
      <4> SUFFICES ASSUME arriving.left # 1  PROVE [arriving EXCEPT !.left = @ - 1] \in Packet
        OBVIOUS
      <4>1. PICK n \in 1 .. MaxWords : n = arriving.left
        BY <3>1 DEF Packet
      <4>2. n - 1 \in 1 .. MaxWords /\ n - 1 <= n
        BY <4>1
      <4>3. PICK r : r = [arriving EXCEPT !.left = @ - 1]
        OBVIOUS
      <4>4. r \in [seg : Segment, left : 1 .. MaxWords] /\ r.seg = arriving.seg /\ r.left = n - 1
        BY <3>1, <4>1, <4>2, <4>3 DEF Packet
      <4>5. r.left <= r.seg.words /\ (r.seg.words > 1 => r.seg.payload)
        BY <3>1, <4>1, <4>4 DEF Packet
      <4> QED BY <4>3, <4>4, <4>5 DEF Packet
    <3>3. arriving' \in Packet \cup {None}
      BY <3>2
    <3> QED BY <2>5, <3>3 DEF checks, TInput
  <2>10. TParse'
    BY <2>2, <2>5, <2>8 DEF checks, drop, drops, memory, notify, results, TParse
  <2> QED BY <2>1, <2>9, <2>10
<1>3. ASSUME SumWord  PROVE TInv'
  <2> USE <1>3 DEF SumWord
  <2>1. TParse' /\ TChecks' /\ TDrop' /\ TMemory' /\ TWrite' /\ TFlag' /\ TStatus' /\ TNotify' /\
         TResults'
    BY SMTT(30) DEF checks, drop, drops, input, memory, notify, results, TParse, TChecks, TDrop, TMemory,
           TWrite, TFlag, TStatus, TNotify, TResults
  <2>2. sum_words # <<>> /\ sum_words \in Seq(Word)
    BY DEF TInput
  <2>3. Head(sum_words) \in Word /\ Tail(sum_words) \in Seq(Word) /\ Head(sum_words).seg \in Segment
    BY <2>2, Read, Fields
  <2>4. /\ checksums \in Seq(Segment)
       /\ checksums' \in {checksums, Append(checksums, Head(sum_words).seg)}
    BY DEF TInput, Put, Room
  <2>5. Head(sum_words).seg \in Segment
    BY <2>3
  <2>6. checksums' \in Seq(Segment)
    BY <2>4, <2>5, Written
  <2>7. TInput'
    BY <2>3, <2>6 DEF checks, drop, drops, input, memory, notify, results, TInput
  <2> QED BY <2>1, <2>7
<1>4. ASSUME ParseFirst  PROVE TInv'
  <2> USE <1>4 DEF ParseFirst
  <2>1. TInput' /\ TChecks' /\ TDrop' /\ TMemory' /\ TWrite' /\ TFlag' /\ TStatus' /\ TNotify' /\
         TResults'
    BY SMTT(30) DEF checks, drop, drops, input, memory, notify, results, TInput, TChecks, TDrop, TMemory,
           TWrite, TFlag, TStatus, TNotify, TResults
  <2>2. parse_words # <<>> /\ parse_words \in Seq(ParseWord)
    BY DEF TParse
  <2>3. Head(parse_words) \in ParseWord /\ Tail(parse_words) \in Seq(ParseWord) /\ Head(parse_words).seg \in Segment
    BY <2>2, Read, Fields DEF ParseWord
  <2>4. /\ meta \in Seq(Segment)
       /\ meta' \in {meta, Append(meta, Head(parse_words).seg)}
    BY DEF TParse
  <2>5. Head(parse_words).seg \in Segment
    BY <2>3
  <2>6. meta' \in Seq(Segment)
    BY <2>4, <2>5, Written
  <2>7. /\ payload \in Seq(Word)
       /\ payload' \in {payload, Append(payload, Head(parse_words))}
    BY DEF TParse, PutPayload
  <2>8. Head(parse_words) \in Word
    BY <2>3 DEF ParseWord, Word
  <2>9. payload' \in Seq(Word)
    BY <2>7, <2>8, Written
  <2>10. Len(payload') <= PayloadDepth
    BY <2>7, <2>8, Write, RxDepthAssumption DEF PutPayload, TParse
  <2>11. TParse'
    BY <2>3, <2>6, <2>9, <2>10 DEF checks, drop, drops, input, memory, notify, results, TParse
  <2> QED BY <2>1, <2>11
<1>5. ASSUME NEW extra \in BOOLEAN, ParseRemaining(extra)  PROVE TInv'
  <2> USE <1>5 DEF ParseRemaining
  <2>1. TInput' /\ TChecks' /\ TDrop' /\ TMemory' /\ TWrite' /\ TFlag' /\ TStatus' /\ TNotify' /\
         TResults'
    BY SMTT(30) DEF checks, drop, drops, input, memory, notify, results, TInput, TChecks, TDrop, TMemory,
           TWrite, TFlag, TStatus, TNotify, TResults
  <2>2. parse_words # <<>> /\ parse_words \in Seq(ParseWord)
    BY DEF TParse
  <2>3. Head(parse_words) \in ParseWord /\ Tail(parse_words) \in Seq(ParseWord) /\ Head(parse_words).seg \in Segment
    BY <2>2, Read, Fields DEF ParseWord
  <2>4. /\ payload \in Seq(Word)
       /\ payload' \in {payload, Append(payload, [Head(parse_words) EXCEPT !.last = @ /\ ~extra])}
    BY DEF TParse, PutPayload
  <2>5. [Head(parse_words) EXCEPT !.last = @ /\ ~extra] \in Word
    BY <2>3 DEF ParseWord, Word
  <2>6. payload' \in Seq(Word)
    BY <2>4, <2>5, Written
  <2>7. Len(payload') <= PayloadDepth
    BY <2>4, <2>5, Write, RxDepthAssumption DEF PutPayload, TParse
  <2>8. TParse'
    BY <2>3, <2>6, <2>7 DEF checks, drop, drops, input, memory, notify, results, TParse, ParseWord,
           Word
  <2> QED BY <2>1, <2>8
<1>6. ASSUME ParseExtra  PROVE TInv'
  <2> USE <1>6 DEF ParseExtra
  <2>1. TInput' /\ TChecks' /\ TDrop' /\ TMemory' /\ TWrite' /\ TFlag' /\ TStatus' /\ TNotify' /\
         TResults'
    BY SMTT(30) DEF checks, drop, drops, input, memory, notify, results, TInput, TChecks, TDrop, TMemory,
           TWrite, TFlag, TStatus, TNotify, TResults
  <2>2. parse_seg \in Segment
    BY DEF TParse
  <2>3. /\ payload \in Seq(Word)
       /\ payload' \in {payload, Append(payload, [seg |-> parse_seg, last |-> TRUE])}
    BY DEF TParse, PutPayload
  <2>4. [seg |-> parse_seg, last |-> TRUE] \in Word
    BY <2>2 DEF Word
  <2>5. payload' \in Seq(Word)
    BY <2>3, <2>4, Written
  <2>6. Len(payload') <= PayloadDepth
    BY <2>3, <2>4, Write, RxDepthAssumption DEF PutPayload, TParse
  <2>7. TParse'
    BY <2>2, <2>5, <2>6 DEF checks, drop, drops, input, memory, notify, results, TParse
  <2> QED BY <2>1, <2>7
<1>7. ASSUME VerifyMeta  PROVE TInv'
  <2> USE <1>7 DEF VerifyMeta
  <2>1. TInput' /\ TDrop' /\ TMemory' /\ TWrite' /\ TFlag' /\ TStatus' /\ TNotify' /\ TResults'
    BY SMTT(30) DEF drop, drops, front, input, memory, notify, results, TInput, TDrop, TMemory, TWrite,
           TFlag, TStatus, TNotify, TResults
  <2>2. meta # <<>> /\ meta \in Seq(Segment)
    BY DEF TParse
  <2>3. Head(meta) \in Segment /\ Tail(meta) \in Seq(Segment)
    BY <2>2, Read, Fields
  <2>4. TParse'
    BY <2>3 DEF drop, drops, front, input, memory, notify, results, TParse
  <2>5. TChecks'
    BY <2>3 DEF drop, drops, front, input, memory, notify, results, TChecks
  <2> QED BY <2>1, <2>4, <2>5
<1>8. ASSUME NEW valid \in BOOLEAN, VerifyChecksum(valid)  PROVE TInv'
  <2> USE <1>8 DEF VerifyChecksum
  <2>1. TParse' /\ TMemory' /\ TWrite' /\ TFlag' /\ TStatus' /\ TNotify' /\ TResults'
    BY SMTT(30) DEF drop, input, memory, notify, results, TParse, TMemory, TWrite, TFlag, TStatus, TNotify,
           TResults
  <2>2. checksums # <<>> /\ checksums \in Seq(Segment)
    BY DEF TInput
  <2>3. Head(checksums) \in Segment /\ Tail(checksums) \in Seq(Segment)
    BY <2>2, Read, Fields
  <2>4. verify_reg \in Segment
    BY DEF TChecks
  <2>5. /\ meta_valid \in Seq(Segment)
       /\ meta_valid' \in {meta_valid, Append(meta_valid, verify_reg)}
    BY DEF TChecks, Put, Room
  <2>6. verify_reg \in Segment
    BY <2>3, <2>4
  <2>7. meta_valid' \in Seq(Segment)
    BY <2>5, <2>6, Written
  <2>8. /\ drop_sum \in Seq(Decision)
       /\ drop_sum' \in {drop_sum, Append(drop_sum, [seg |-> verify_reg, drop |-> ~valid])}
    BY DEF TDrop, Put, Room, VerifyDecides
  <2>9. [seg |-> verify_reg, drop |-> ~valid] \in Decision
    BY <2>3, <2>4 DEF Decision
  <2>10. drop_sum' \in Seq(Decision)
    BY <2>8, <2>9, Written
  <2>11. TInput'
    BY <2>3, <2>4, <2>7, <2>10 DEF drop, input, memory, notify, results, TInput
  <2>12. TChecks'
    BY <2>3, <2>4, <2>7, <2>10 DEF drop, input, memory, notify, results, TChecks
  <2>13. TDrop'
    BY <2>3, <2>4, <2>7, <2>10 DEF drop, input, memory, notify, results, TDrop
  <2> QED BY <2>1, <2>11, <2>12, <2>13
<1>9. ASSUME NEW yes \in BOOLEAN, CheckPort(yes)  PROVE TInv'
  <2> USE <1>9 DEF CheckPort
  <2>1. TInput' /\ TParse' /\ TMemory' /\ TWrite' /\ TFlag' /\ TStatus' /\ TNotify' /\ TResults'
    BY SMTT(30) DEF drop, front, input, memory, notify, results, TInput, TParse, TMemory, TWrite, TFlag,
           TStatus, TNotify, TResults
  <2>2. meta_valid # <<>> /\ meta_valid \in Seq(Segment)
    BY DEF TChecks
  <2>3. Head(meta_valid) \in Segment /\ Tail(meta_valid) \in Seq(Segment)
    BY <2>2, Read, Fields
  <2>4. /\ drop_meta \in Seq(Decision)
       /\ drop_meta' \in {drop_meta, Append(drop_meta, [seg |-> Head(meta_valid), drop |-> TRUE])}
    BY DEF TDrop, Put, Room
  <2>5. [seg |-> Head(meta_valid), drop |-> TRUE] \in Decision
    BY <2>3 DEF Decision
  <2>6. drop_meta' \in Seq(Decision)
    BY <2>4, <2>5, Written
  <2>7. TChecks'
    BY <2>3, <2>6 DEF drop, front, input, memory, notify, results, TChecks
  <2>8. TDrop'
    BY <2>3, <2>6 DEF drop, front, input, memory, notify, results, TDrop
  <2> QED BY <2>1, <2>7, <2>8
<1>10. ASSUME NEW yes \in BOOLEAN, LookupRsp(yes)  PROVE TInv'
  <2> USE <1>10 DEF LookupRsp
  <2>1. TInput' /\ TParse' /\ TMemory' /\ TWrite' /\ TFlag' /\ TStatus' /\ TNotify' /\ TResults'
    BY SMTT(30) DEF drop, front, input, memory, notify, results, TInput, TParse, TMemory, TWrite, TFlag,
           TStatus, TNotify, TResults
  <2>2. meta_reg \in Segment
    BY DEF TChecks
  <2>3. /\ fsm_meta \in Seq(Segment)
       /\ fsm_meta' \in {fsm_meta, Append(fsm_meta, meta_reg)}
    BY DEF TChecks, Put, Room
  <2>4. meta_reg \in Segment
    BY <2>2
  <2>5. fsm_meta' \in Seq(Segment)
    BY <2>3, <2>4, Written
  <2>6. /\ drop_meta \in Seq(Decision)
       /\ drop_meta' \in {drop_meta, Append(drop_meta, [seg |-> meta_reg, drop |-> ~yes])}
    BY DEF TDrop, Put, Room
  <2>7. [seg |-> meta_reg, drop |-> ~yes] \in Decision
    BY <2>2 DEF Decision
  <2>8. drop_meta' \in Seq(Decision)
    BY <2>6, <2>7, Written
  <2>9. TChecks'
    BY <2>2, <2>5, <2>8 DEF drop, front, input, memory, notify, results, TChecks
  <2>10. TDrop'
    BY <2>2, <2>5, <2>8 DEF drop, front, input, memory, notify, results, TDrop
  <2> QED BY <2>1, <2>9, <2>10
<1>11. ASSUME FsmLoad  PROVE TInv'
  <2> USE <1>11 DEF FsmLoad
  <2>1. TInput' /\ TParse' /\ TDrop' /\ TMemory' /\ TWrite' /\ TFlag' /\ TStatus' /\ TNotify' /\
         TResults'
    BY SMTT(30) DEF drop, drops, front, input, memory, notify, results, TInput, TParse, TDrop, TMemory,
           TWrite, TFlag, TStatus, TNotify, TResults
  <2>2. fsm_meta # <<>> /\ fsm_meta \in Seq(Segment)
    BY DEF TChecks
  <2>3. Head(fsm_meta) \in Segment /\ Tail(fsm_meta) \in Seq(Segment)
    BY <2>2, Read, Fields
  <2>4. TChecks'
    BY <2>3 DEF drop, drops, front, input, memory, notify, results, TChecks
  <2> QED BY <2>1, <2>4
<1>12. ASSUME FsmAccept  PROVE TInv'
  <2> USE <1>12 DEF FsmAccept
  <2>1. TInput' /\ TParse' /\ TWrite' /\ TFlag' /\ TStatus' /\ TResults'
    BY SMTT(30) DEF drop, front, input, memory, results, TInput, TParse, TWrite, TFlag, TStatus, TResults
  <2>2. fsm_reg \in Segment
    BY DEF TChecks
  <2>3. /\ mem_cmd \in Seq(Segment)
       /\ mem_cmd' \in {mem_cmd, Append(mem_cmd, fsm_reg)}
    BY DEF TMemory, Put, Room
  <2>4. fsm_reg \in Segment
    BY <2>2
  <2>5. mem_cmd' \in Seq(Segment)
    BY <2>3, <2>4, Written
  <2>6. /\ notify_cache \in Seq(Notice)
       /\ notify_cache' \in {notify_cache, Append(notify_cache, [seg |-> fsm_reg, data |-> TRUE])}
    BY DEF TNotify, Put, Room
  <2>7. [seg |-> fsm_reg, data |-> TRUE] \in Notice
    BY <2>2 DEF Notice
  <2>8. notify_cache' \in Seq(Notice)
    BY <2>6, <2>7, Written
  <2>9. /\ drop_fsm \in Seq(Decision)
       /\ drop_fsm' \in {drop_fsm, Append(drop_fsm, [seg |-> fsm_reg, drop |-> FALSE])}
    BY DEF TDrop, Put, Room
  <2>10. [seg |-> fsm_reg, drop |-> FALSE] \in Decision
    BY <2>2 DEF Decision
  <2>11. drop_fsm' \in Seq(Decision)
    BY <2>9, <2>10, Written
  <2>12. TChecks'
    BY <2>2, <2>5, <2>8, <2>11 DEF drop, front, input, memory, results, TChecks
  <2>13. TDrop'
    BY <2>2, <2>5, <2>8, <2>11 DEF drop, front, input, memory, results, TDrop
  <2>14. TMemory'
    BY <2>2, <2>5, <2>8, <2>11 DEF drop, front, input, memory, results, TMemory
  <2>15. TNotify'
    BY <2>2, <2>5, <2>8, <2>11 DEF drop, front, input, memory, results, TNotify
  <2> QED BY <2>1, <2>12, <2>13, <2>14, <2>15
<1>13. ASSUME FsmRefuse  PROVE TInv'
  <2> USE <1>13 DEF FsmRefuse
  <2>1. TInput' /\ TParse' /\ TMemory' /\ TWrite' /\ TFlag' /\ TStatus' /\ TNotify' /\ TResults'
    BY SMTT(30) DEF drop, front, input, memory, notify, results, TInput, TParse, TMemory, TWrite, TFlag,
           TStatus, TNotify, TResults
  <2>2. fsm_reg \in Segment
    BY DEF TChecks
  <2>3. /\ drop_fsm \in Seq(Decision)
       /\ drop_fsm' \in {drop_fsm, Append(drop_fsm, [seg |-> fsm_reg, drop |-> TRUE])}
    BY DEF TDrop, Put, Room
  <2>4. [seg |-> fsm_reg, drop |-> TRUE] \in Decision
    BY <2>2 DEF Decision
  <2>5. drop_fsm' \in Seq(Decision)
    BY <2>3, <2>4, Written
  <2>6. TChecks'
    BY <2>2, <2>5 DEF drop, front, input, memory, notify, results, TChecks
  <2>7. TDrop'
    BY <2>2, <2>5 DEF drop, front, input, memory, notify, results, TDrop
  <2> QED BY <2>1, <2>6, <2>7
<1>14. ASSUME NEW closed \in BOOLEAN, FsmSilent(closed)  PROVE TInv'
  <2> USE <1>14 DEF FsmSilent
  <2>1. TInput' /\ TParse' /\ TDrop' /\ TMemory' /\ TWrite' /\ TFlag' /\ TStatus'
    BY SMTT(30) DEF drop, drops, front, input, memory, TInput, TParse, TDrop, TMemory, TWrite, TFlag, TStatus
  <2>2. fsm_reg \in Segment
    BY DEF TChecks
  <2>3. /\ notify_cache \in Seq(Notice)
       /\ notify_cache' \in {notify_cache, Append(notify_cache, [seg |-> fsm_reg, data |-> FALSE])}
    BY DEF TNotify, Put, Room
  <2>4. [seg |-> fsm_reg, data |-> FALSE] \in Notice
    BY <2>2 DEF Notice
  <2>5. notify_cache' \in Seq(Notice)
    BY <2>3, <2>4, Written
  <2>6. TChecks'
    BY <2>2, <2>5 DEF drop, drops, front, input, memory, TChecks
  <2>7. TNotify'
    BY <2>2, <2>5 DEF drop, drops, front, input, memory, TNotify
  <2>8. TResults'
    BY <2>2, <2>5 DEF drop, drops, front, input, memory, TResults
  <2> QED BY <2>1, <2>6, <2>7, <2>8
<1>15. ASSUME ReadDropSum  PROVE TInv'
  <2> USE <1>15 DEF ReadDropSum
  <2>1. TInput' /\ TParse' /\ TChecks' /\ TMemory' /\ TWrite' /\ TFlag' /\ TStatus' /\ TNotify' /\
         TResults'
    BY SMTT(30) DEF DropperRest, checks, front, input, memory, notify, results, TInput, TParse, TChecks,
           TMemory, TWrite, TFlag, TStatus, TNotify, TResults
  <2>2. drop_sum # <<>> /\ drop_sum \in Seq(Decision)
    BY DEF TDrop
  <2>3. Head(drop_sum) \in Decision /\ Tail(drop_sum) \in Seq(Decision) /\ Head(drop_sum).seg \in Segment
    BY <2>2, Read, Fields
  <2>4. TDrop'
    BY <2>3 DEF DropperRest, checks, front, input, memory, notify, results, TDrop
  <2> QED BY <2>1, <2>4
<1>16. ASSUME ReadDropMeta  PROVE TInv'
  <2> USE <1>16 DEF ReadDropMeta
  <2>1. TInput' /\ TParse' /\ TChecks' /\ TMemory' /\ TWrite' /\ TFlag' /\ TStatus' /\ TNotify' /\
         TResults'
    BY SMTT(30) DEF DropperRest, checks, front, input, memory, notify, results, TInput, TParse, TChecks,
           TMemory, TWrite, TFlag, TStatus, TNotify, TResults
  <2>2. drop_meta # <<>> /\ drop_meta \in Seq(Decision)
    BY DEF TDrop
  <2>3. Head(drop_meta) \in Decision /\ Tail(drop_meta) \in Seq(Decision) /\ Head(drop_meta).seg \in Segment
    BY <2>2, Read, Fields
  <2>4. TDrop'
    BY <2>3 DEF DropperRest, checks, front, input, memory, notify, results, TDrop, AfterMeta
  <2> QED BY <2>1, <2>4
<1>17. ASSUME ReadDropFsm  PROVE TInv'
  <2> USE <1>17 DEF ReadDropFsm
  <2>1. TInput' /\ TParse' /\ TChecks' /\ TMemory' /\ TWrite' /\ TFlag' /\ TStatus' /\ TNotify' /\
         TResults'
    BY SMTT(30) DEF DropperRest, checks, front, input, memory, notify, results, TInput, TParse, TChecks,
           TMemory, TWrite, TFlag, TStatus, TNotify, TResults
  <2>2. drop_fsm # <<>> /\ drop_fsm \in Seq(Decision)
    BY DEF TDrop
  <2>3. Head(drop_fsm) \in Decision /\ Tail(drop_fsm) \in Seq(Decision) /\ Head(drop_fsm).seg \in Segment
    BY <2>2, Read, Fields
  <2>4. TDrop'
    BY <2>3 DEF DropperRest, checks, front, input, memory, notify, results, TDrop
  <2> QED BY <2>1, <2>4
<1>18. ASSUME MoveWord  PROVE TInv'
  <2> USE <1>18 DEF MoveWord
  <2>1. TInput' /\ TChecks' /\ TWrite' /\ TFlag' /\ TStatus' /\ TNotify' /\ TResults'
    BY SMTT(30) DEF DropperRest, checks, drops, front, input, memory, notify, results, TInput, TChecks,
           TWrite, TFlag, TStatus, TNotify, TResults
  <2>2. payload # <<>> /\ payload \in Seq(Word)
    BY DEF TParse
  <2>3. Head(payload) \in Word /\ Tail(payload) \in Seq(Word) /\ Head(payload).seg \in Segment
    BY <2>2, Read, Fields
  <2>4. /\ mem_data \in Seq(Word)
       /\ mem_data' \in {mem_data, Append(mem_data, Head(payload))}
    BY DEF TMemory, Put, Room
  <2>5. Head(payload) \in Word
    BY <2>3 DEF Word
  <2>6. mem_data' \in Seq(Word)
    BY <2>4, <2>5, Written
  <2>7. TParse'
    BY <2>3, <2>6, RxDepthAssumption, Read DEF DropperRest, checks, drops, front, input, memory,
           notify, results, TParse
  <2>8. TDrop'
    BY <2>3, <2>6 DEF DropperRest, checks, drops, front, input, memory, notify, results, TDrop
  <2>9. TMemory'
    BY <2>3, <2>6 DEF DropperRest, checks, drops, front, input, memory, notify, results, TMemory
  <2> QED BY <2>1, <2>7, <2>8, <2>9
<1>19. ASSUME NEW b \in BOOLEAN, WriterCmd(b)  PROVE TInv'
  <2> USE <1>19 DEF WriterCmd
  <2>1. TInput' /\ TParse' /\ TChecks' /\ TDrop' /\ TStatus' /\ TNotify' /\ TResults'
    BY SMTT(30) DEF WriterRest, checks, drop, drops, front, input, notify, results, TInput, TParse, TChecks,
           TDrop, TStatus, TNotify, TResults
  <2>2. mem_cmd # <<>> /\ mem_cmd \in Seq(Segment)
    BY DEF TMemory
  <2>3. Head(mem_cmd) \in Segment /\ Tail(mem_cmd) \in Seq(Segment)
    BY <2>2, Read, Fields
  <2>4. /\ double_flag \in Seq(Flag)
       /\ double_flag' \in {double_flag, Append(double_flag, [seg |-> Head(mem_cmd), double |-> b])}
    BY DEF TFlag, Put, Room
  <2>5. [seg |-> Head(mem_cmd), double |-> b] \in Flag
    BY <2>3 DEF Flag
  <2>6. double_flag' \in Seq(Flag)
    BY <2>4, <2>5, Written
  <2>7. /\ mover_cmd \in Seq(Access)
       /\ mover_cmd' \in {mover_cmd, Append(mover_cmd, [seg |-> Head(mem_cmd), part |-> IF b THEN 1 ELSE 2])}
    BY DEF TWrite, PutCmd
  <2>8. [seg |-> Head(mem_cmd), part |-> IF b THEN 1 ELSE 2] \in Access
    BY <2>3 DEF Access
  <2>9. mover_cmd' \in Seq(Access)
    BY <2>7, <2>8, Written
  <2>10. TMemory'
    BY <2>3, <2>6, <2>9 DEF WriterRest, checks, drop, drops, front, input, notify, results, TMemory
  <2>11. TWrite'
    BY <2>3, <2>6, <2>9 DEF WriterRest, checks, drop, drops, front, input, notify, results, TWrite
  <2>12. TFlag'
    BY <2>3, <2>6, <2>9 DEF WriterRest, checks, drop, drops, front, input, notify, results, TFlag
  <2> QED BY <2>1, <2>10, <2>11, <2>12
<1>20. ASSUME WriterWhole  PROVE TInv'
  <2> USE <1>20 DEF WriterWhole
  <2>1. TInput' /\ TParse' /\ TChecks' /\ TDrop' /\ TFlag' /\ TStatus' /\ TNotify' /\ TResults'
    BY SMTT(30) DEF WriterRest, checks, drop, drops, front, input, notify, results, TInput, TParse, TChecks,
           TDrop, TFlag, TStatus, TNotify, TResults
  <2>2. mem_data # <<>> /\ mem_data \in Seq(Word)
    BY DEF TMemory
  <2>3. Head(mem_data) \in Word /\ Tail(mem_data) \in Seq(Word) /\ Head(mem_data).seg \in Segment
    BY <2>2, Read, Fields
  <2>4. /\ mover_data \in Seq(AccessWord)
       /\ mover_data' \in {mover_data, Append(mover_data, Tagged(Head(mem_data).seg, 2, Head(mem_data).last))}
    BY DEF TWrite, Put, Room
  <2>5. Tagged(Head(mem_data).seg, 2, Head(mem_data).last) \in AccessWord
    BY <2>3 DEF Tagged, Access, AccessWord, Word
  <2>6. mover_data' \in Seq(AccessWord)
    BY <2>4, <2>5, Written
  <2>7. TMemory'
    BY <2>3, <2>6 DEF WriterRest, checks, drop, drops, front, input, notify, results, TMemory
  <2>8. TWrite'
    BY <2>3, <2>6 DEF WriterRest, checks, drop, drops, front, input, notify, results, TWrite
  <2> QED BY <2>1, <2>7, <2>8
<1>21. ASSUME NEW b \in BOOLEAN, WriterFirst(b)  PROVE TInv'
  <2> USE <1>21 DEF WriterFirst
  <2>1. TInput' /\ TParse' /\ TChecks' /\ TDrop' /\ TFlag' /\ TStatus' /\ TNotify' /\ TResults'
    BY SMTT(30) DEF WriterRest, checks, drop, drops, front, input, notify, results, TInput, TParse, TChecks,
           TDrop, TFlag, TStatus, TNotify, TResults
  <2>2. mem_data # <<>> /\ mem_data \in Seq(Word)
    BY DEF TMemory
  <2>3. Head(mem_data) \in Word /\ Tail(mem_data) \in Seq(Word) /\ Head(mem_data).seg \in Segment
    BY <2>2, Read, Fields
  <2>4. writer_seg \in Segment
    BY DEF TWrite
  <2>5. /\ mover_data \in Seq(AccessWord)
       /\ mover_data' \in {mover_data, Append(mover_data, Tagged(Head(mem_data).seg, 1, b))}
    BY DEF TWrite, Put, Room
  <2>6. Tagged(Head(mem_data).seg, 1, b) \in AccessWord
    BY <2>3, <2>4 DEF Tagged, Access, AccessWord
  <2>7. mover_data' \in Seq(AccessWord)
    BY <2>5, <2>6, Written
  <2>8. /\ mover_cmd \in Seq(Access)
       /\ mover_cmd' \in {mover_cmd, Append(mover_cmd, [seg |-> writer_seg, part |-> 2])}
    BY DEF TWrite, PutCmd
  <2>9. [seg |-> writer_seg, part |-> 2] \in Access
    BY <2>3, <2>4 DEF Access
  <2>10. mover_cmd' \in Seq(Access)
    BY <2>8, <2>9, Written
  <2>11. TMemory'
    BY <2>3, <2>4, <2>7, <2>10 DEF WriterRest, checks, drop, drops, front, input, notify, results,
           TMemory
  <2>12. TWrite'
    BY <2>3, <2>4, <2>7, <2>10 DEF WriterRest, checks, drop, drops, front, input, notify, results,
           TWrite
  <2> QED BY <2>1, <2>11, <2>12
<1>22. ASSUME NEW b \in BOOLEAN, WriterSecond(b)  PROVE TInv'
  <2> USE <1>22 DEF WriterSecond
  <2>1. TInput' /\ TParse' /\ TChecks' /\ TDrop' /\ TFlag' /\ TStatus' /\ TNotify' /\ TResults'
    BY SMTT(30) DEF WriterRest, checks, drop, drops, front, input, notify, results, TInput, TParse, TChecks,
           TDrop, TFlag, TStatus, TNotify, TResults
  <2>2. mem_data # <<>> /\ mem_data \in Seq(Word)
    BY DEF TMemory
  <2>3. Head(mem_data) \in Word /\ Tail(mem_data) \in Seq(Word) /\ Head(mem_data).seg \in Segment
    BY <2>2, Read, Fields
  <2>4. /\ mover_data \in Seq(AccessWord)
       /\ mover_data' \in {mover_data, Append(mover_data, Tagged(Head(mem_data).seg, 2, Head(mem_data).last /\ ~b))}
    BY DEF TWrite, Put, Room
  <2>5. Tagged(Head(mem_data).seg, 2, Head(mem_data).last /\ ~b) \in AccessWord
    BY <2>3 DEF Tagged, Access, AccessWord, Word
  <2>6. mover_data' \in Seq(AccessWord)
    BY <2>4, <2>5, Written
  <2>7. TMemory'
    BY <2>3, <2>6 DEF WriterRest, checks, drop, drops, front, input, notify, results, TMemory
  <2>8. TWrite'
    BY <2>3, <2>6 DEF WriterRest, checks, drop, drops, front, input, notify, results, TWrite
  <2> QED BY <2>1, <2>7, <2>8
<1>23. ASSUME WriterExtra  PROVE TInv'
  <2> USE <1>23 DEF WriterExtra
  <2>1. TInput' /\ TParse' /\ TChecks' /\ TDrop' /\ TMemory' /\ TFlag' /\ TStatus' /\ TNotify' /\
         TResults'
    BY SMTT(30) DEF WriterRest, checks, drop, drops, front, input, notify, results, TInput, TParse, TChecks,
           TDrop, TMemory, TFlag, TStatus, TNotify, TResults
  <2>2. writer_seg \in Segment
    BY DEF TWrite
  <2>3. /\ mover_data \in Seq(AccessWord)
       /\ mover_data' \in {mover_data, Append(mover_data, Tagged(writer_seg, 2, TRUE))}
    BY DEF TWrite, Put, Room
  <2>4. Tagged(writer_seg, 2, TRUE) \in AccessWord
    BY <2>2 DEF Tagged, Access, AccessWord
  <2>5. mover_data' \in Seq(AccessWord)
    BY <2>3, <2>4, Written
  <2>6. TWrite'
    BY <2>2, <2>5 DEF WriterRest, checks, drop, drops, front, input, notify, results, TWrite
  <2> QED BY <2>1, <2>6
<1>24. ASSUME NEW okay \in BOOLEAN, Mover(okay)  PROVE TInv'
  <2> USE <1>24 DEF Mover
  <2>1. TInput' /\ TParse' /\ TChecks' /\ TDrop' /\ TMemory' /\ TFlag' /\ TNotify'
    BY SMTT(30) DEF WriterRest, checks, drop, drops, front, input, notify, TInput, TParse, TChecks, TDrop,
           TMemory, TFlag, TNotify
  <2>2. mover_cmd # <<>> /\ mover_cmd \in Seq(Access) /\ mover_data # <<>> /\ mover_data \in Seq(AccessWord)
    BY DEF TWrite
  <2>3. /\ Head(mover_cmd) \in Access /\ Tail(mover_cmd) \in Seq(Access)
       /\ Head(mover_data) \in AccessWord /\ Tail(mover_data) \in Seq(AccessWord)
    BY <2>2, Read, Fields
  <2>4. /\ status \in Seq(Status)
       /\ status' \in {status, Append(status, [access |-> Head(mover_cmd), okay |-> okay])}
    BY DEF TStatus, Put, Room
  <2>5. [access |-> Head(mover_cmd), okay |-> okay] \in Status
    BY <2>3 DEF Status
  <2>6. status' \in Seq(Status)
    BY <2>4, <2>5, Written
  <2>7. TWrite'
    BY <2>3, <2>6 DEF WriterRest, checks, drop, drops, front, input, notify, TWrite
  <2>8. TStatus'
    BY <2>3, <2>6 DEF WriterRest, checks, drop, drops, front, input, notify, TStatus
  <2>9. TResults'
    BY <2>3, <2>6, Fields DEF WriterRest, checks, drop, drops, front, input, notify, TResults
  <2> QED BY <2>1, <2>7, <2>8, <2>9
<1>25. ASSUME ReadNotify  PROVE TInv'
  <2> USE <1>25 DEF ReadNotify
  <2>1. TInput' /\ TParse' /\ TChecks' /\ TDrop' /\ TMemory' /\ TWrite' /\ TFlag' /\ TStatus' /\
         TResults'
    BY SMTT(30) DEF NotifyRest, checks, drop, drops, front, input, memory, results, TInput, TParse, TChecks,
           TDrop, TMemory, TWrite, TFlag, TStatus, TResults
  <2>2. notify_cache # <<>> /\ notify_cache \in Seq(Notice)
    BY DEF TNotify
  <2>3. Head(notify_cache) \in Notice /\ Tail(notify_cache) \in Seq(Notice) /\ Head(notify_cache).seg \in Segment
    BY <2>2, Read, Fields
  <2>4. TNotify'
    BY <2>3 DEF NotifyRest, checks, drop, drops, front, input, memory, results, TNotify
  <2> QED BY <2>1, <2>4
<1>26. ASSUME ReadStatus1  PROVE TInv'
  <2> USE <1>26 DEF ReadStatus1
  <2>1. TInput' /\ TParse' /\ TChecks' /\ TDrop' /\ TMemory' /\ TWrite'
    BY SMTT(30) DEF NotifyRest, checks, drop, drops, front, input, memory, results, TInput, TParse, TChecks,
           TDrop, TMemory, TWrite
  <2>2. double_flag # <<>> /\ double_flag \in Seq(Flag) /\ status # <<>> /\ status \in Seq(Status)
    BY DEF TFlag, TStatus
  <2>3. /\ Head(double_flag) \in Flag /\ Tail(double_flag) \in Seq(Flag) /\ Head(double_flag).seg \in Segment
       /\ Head(status) \in Status /\ Tail(status) \in Seq(Status)
    BY <2>2, Read, Fields
  <2>4. TFlag'
    BY <2>3 DEF NotifyRest, checks, drop, drops, front, input, memory, results, TFlag
  <2>5. TStatus'
    BY <2>3 DEF NotifyRest, checks, drop, drops, front, input, memory, results, TStatus
  <2>6. TNotify'
    BY <2>3 DEF NotifyRest, checks, drop, drops, front, input, memory, results, TNotify, AfterStatus
  <2>7. TResults'
    BY <2>3 DEF NotifyRest, checks, drop, drops, front, input, memory, results, TResults, TNotify
  <2> QED BY <2>1, <2>4, <2>5, <2>6, <2>7
<1>27. ASSUME ReadStatus2  PROVE TInv'
  <2> USE <1>27 DEF ReadStatus2
  <2>1. TInput' /\ TParse' /\ TChecks' /\ TDrop' /\ TMemory' /\ TWrite' /\ TFlag'
    BY SMTT(30) DEF NotifyRest, checks, drop, drops, front, input, memory, results, TInput, TParse, TChecks,
           TDrop, TMemory, TWrite, TFlag
  <2>2. status # <<>> /\ status \in Seq(Status)
    BY DEF TStatus
  <2>3. Head(status) \in Status /\ Tail(status) \in Seq(Status)
    BY <2>2, Read, Fields
  <2>4. TStatus'
    BY <2>3 DEF NotifyRest, checks, drop, drops, front, input, memory, results, TStatus
  <2>5. TNotify'
    BY <2>3 DEF NotifyRest, checks, drop, drops, front, input, memory, results, TNotify
  <2>6. TResults'
    BY <2>3 DEF NotifyRest, checks, drop, drops, front, input, memory, results, TResults, TNotify
  <2> QED BY <2>1, <2>4, <2>5, <2>6
<1>28. CASE UNCHANGED vars
  BY <1>28, SMTT(30) DEF vars, input, front, checks, drops, drop, memory, results, notify, TInput, TParse,
         TChecks, TDrop, TMemory, TWrite, TFlag, TStatus, TNotify, TResults
<1> QED BY <1>1, <1>2, <1>3, <1>4, <1>5, <1>6, <1>7, <1>8, <1>9, <1>10, <1>11, <1>12, <1>13, <1>14,
           <1>15, <1>16, <1>17, <1>18, <1>19, <1>20, <1>21, <1>22, <1>23, <1>24, <1>25, <1>26,
           <1>27, <1>28
  DEF Next, Parse, Verify, MetaHandler, Fsm, PayloadDropper, WriteDataToMem, DataMover,
      NotificationHandler

-----------------------------------------------------------------------------
(* The order and the matches are preserved by the steps of each process.     *)

\* One mark moves, the others stay.
LEMMA Move ==
  ASSUME NEW k \in Marks, NEW y \in MarkNames, NEW v \in Nat
  PROVE  \E j \in Marks : j[y] = v /\ \A z \in MarkNames \ {y} : j[z] = k[z]
<1>1. [k EXCEPT ![y] = v] \in Marks
  BY DEF Marks
<1> WITNESS [k EXCEPT ![y] = v] \in Marks
<1> QED BY DEF Marks

LEMMA MarksAreNat ==
  ASSUME NEW k \in Marks
  PROVE  /\ k.p \in Nat /\ k.vm \in Nat /\ k.v \in Nat /\ k.mc \in Nat /\ k.m \in Nat
         /\ k.fl \in Nat /\ k.f \in Nat /\ k.d1 \in Nat /\ k.d2 \in Nat /\ k.d3 \in Nat
         /\ k.w \in Nat /\ k.n \in Nat /\ k.g \in Nat /\ k.a \in Nat /\ k.c \in Nat /\ k.b \in Nat
BY DEF Marks, MarkNames

LEMMA MoveTwo ==
  ASSUME NEW k \in Marks, NEW y \in MarkNames, NEW z \in MarkNames, y # z, NEW u \in Nat, NEW v \in Nat
  PROVE  \E j \in Marks : j[y] = u /\ j[z] = v /\ \A x \in MarkNames \ {y, z} : j[x] = k[x]
<1>1. [k EXCEPT ![y] = u, ![z] = v] \in Marks
  BY DEF Marks
<1> WITNESS [k EXCEPT ![y] = u, ![z] = v] \in Marks
<1> QED BY DEF Marks

LEMMA RegTakes ==
  ASSUME NEW r \in Segment, NEW lo \in Nat, NEW hi \in Nat, lo <= hi, hi < r.id
  PROVE  RegIn(r, lo, r.id)
BY KeyIsNat DEF RegIn

\* A packet arrives.
LEMMA DoArrive ==
  ASSUME TInv, InPackets, Matches, NEW k \in Marks, Ordered(k), NEW n \in 1 .. MaxWords,
         NEW pay \in BOOLEAN, Arrive(n, pay)
  PROVE  Core'
<1>1. arrived \in Nat /\ k.p \in Nat /\ \A x \in Elems(parse_words) : x.seg.id \in Nat
  BY MarksAreNat, RxBoundAssumption, Types, KeyIsNat DEF TInv, TInput, TParse, ParseWord
<1>2. OFront(k)' /\ OVerify(k)' /\ OMeta(k)' /\ OFsm(k)' /\ ODrop(k)' /\ OWrite(k)' /\
     OMover(k)' /\ ONotify(k)' /\ MatchSum' /\ MatchMeta' /\ MatchFsm' /\ MatchWrite' /\
     MatchMover' /\ MatchNotify' /\ Truthful'
  BY DEF Arrive, Matches, Ordered, OFront, OVerify, OMeta, OFsm, ODrop, OWrite, OMover, ONotify,
         MatchSum, MatchMeta, MatchFsm, MatchWrite, MatchMover, MatchNotify, Truthful, Parsing,
         Forwarding, Current, CurrentPart, Parsed, ToDecide, KeptSum, ToLookup, KeptMeta, ToAccept,
         Accepted, ToWrite, HasWords, Announced, Flagged, MatchStatus, StatusTrue, Expected,
         Reported, checks, drop, drops, front, memory, notify, results
<1>3. InPackets'
  BY <1>1 DEF Arrive, InPackets, Packets, front
<1>4. OParse(k)'
  <2>1. k.p <= arrived /\ AtPacket(k.p) /\ \A s \in Parsing : s.id = k.p /\ s.payload
    BY DEF Ordered, OParse
  <2>2. k.p < arrived + 1
    BY <2>1, <1>1
  <2>3. AtPacket(k.p)'
    BY <2>1, <2>2 DEF Arrive, AtPacket, Within, Before, front
  <2> QED BY <2>1, <2>2, <2>3, <1>1 DEF Arrive, OParse, Parsing, front
<1> QED BY <1>2, <1>3, <1>4 DEF Core, Matches, Ordered

\* The words of a packet on their way to the checksum and to the parser.
LEMMA DoSumWord ==
  ASSUME TInv, InPackets, Matches, NEW k \in Marks, Ordered(k), SumWord
  PROVE  Core'
<1>1. InPackets' /\ OParse(k)' /\ OFront(k)' /\ OVerify(k)' /\ OMeta(k)' /\ OFsm(k)' /\
     ODrop(k)' /\ OWrite(k)' /\ OMover(k)' /\ ONotify(k)' /\ MatchSum' /\ MatchMeta' /\
     MatchFsm' /\ MatchWrite' /\ MatchMover' /\ MatchNotify' /\ Truthful'
  BY DEF SumWord, Matches, Ordered, InPackets, OParse, OFront, OVerify, OMeta, OFsm, ODrop, OWrite,
         OMover, ONotify, MatchSum, MatchMeta, MatchFsm, MatchWrite, MatchMover, MatchNotify,
         Truthful, AtPacket, Within, Before, Parsing, Forwarding, Current, CurrentPart, Parsed,
         ToDecide, KeptSum, ToLookup, KeptMeta, ToAccept, Accepted, ToWrite, HasWords, Announced,
         Flagged, MatchStatus, StatusTrue, Expected, Reported, checks, drop, drops, input, memory,
         notify, results
<1> QED BY <1>1 DEF Core, Matches, Ordered

LEMMA DoPseudoHeaderInsert ==
  ASSUME TInv, InPackets, Matches, NEW k \in Marks, Ordered(k), PseudoHeaderInsert
  PROVE  Core'
<1>1. PICK e : e = [seg |-> arriving.seg, last |-> arriving.left = 1]
  OBVIOUS
<1>2. /\ arriving \in Packet /\ arriving # None /\ parse_words \in Seq(ParseWord)
      /\ arriving.seg \in Segment /\ arriving.left \in 1 .. MaxWords /\ arrived \in Nat
  BY RxBoundAssumption DEF PseudoHeaderInsert, TInv, TInput, TParse, Packet
<1>3. arriving.seg.id \in Nat /\ e.seg = arriving.seg /\ (e.last <=> arriving.left = 1)
  BY <1>1, <1>2, KeyIsNat
<1>4. e \in ParseWord
  <2>1. arriving.left # 1 => arriving.seg.payload
    <3>1. arriving.seg.words \in Nat
      BY <1>2 DEF Segment
    <3> QED BY <1>2, <3>1, RxBoundAssumption DEF Packet
  <2> QED BY <1>1, <1>2, <1>3, <2>1 DEF ParseWord, Word
<1>5. parse_words' = Append(parse_words, e) /\ arrived' = arrived /\ parse_fsm' = parse_fsm /\ parse_seg' = parse_seg
  BY <1>1 DEF PseudoHeaderInsert
<1>6. PICK rest : /\ rest = arriving' /\ (e.last => rest = None)
                  /\ (~e.last => rest # None /\ rest.seg = arriving.seg)
  <2>1. PICK r : r = [arriving EXCEPT !.left = @ - 1]
    OBVIOUS
  <2>2. arriving.left # 1 => arriving.left - 1 \in 1 .. MaxWords
    BY <1>2, RxBoundAssumption
  <2>3. arriving.left # 1 => r \in [seg : Segment, left : 1 .. MaxWords] /\ r.seg = arriving.seg
    BY <2>1, <2>2, <1>2 DEF Packet
  <2>4. e.last => arriving' = None
    BY <1>3 DEF PseudoHeaderInsert
  <2>5. ~e.last => arriving' = r
    BY <1>3, <2>1 DEF PseudoHeaderInsert
  <2> QED BY <2>3, <2>4, <2>5, <1>3, RxNoneAssumption
<1>7. /\ parse_words' # <<>> /\ \A x : x \in Elems(parse_words') <=> x = e \/ x \in Elems(parse_words)
      /\ parse_words = <<>> => parse_words'[1] = e
      /\ parse_words # <<>> => parse_words'[1] = parse_words[1] /\ parse_words[1] \in Elems(parse_words)
  <2> DEFINE q == parse_words
  <2>1. \A a : a = Append(q, e) =>
          /\ a # <<>> /\ \A x : x \in Elems(a) <=> x = e \/ x \in Elems(q)
          /\ q = <<>> => a[1] = e
          /\ q # <<>> => a[1] = q[1] /\ q[1] \in Elems(q)
    <3>1. Append(q, e) # <<>> /\ \A x : x \in Elems(Append(q, e)) <=> x = e \/ x \in Elems(q)
      BY <1>2, <1>4, Write
    <3>2. q = <<>> => Append(q, e)[1] = e
      BY <1>2
    <3>3. q # <<>> => Append(q, e)[1] = q[1] /\ q[1] \in Elems(q)
      BY <1>2, <1>4, Read
    <3> QED BY <3>1, <3>2, <3>3
  <2> QED BY <2>1, <1>5
<1>8. OFront(k)' /\ OVerify(k)' /\ OMeta(k)' /\ OFsm(k)' /\ ODrop(k)' /\ OWrite(k)' /\
     OMover(k)' /\ ONotify(k)' /\ MatchSum' /\ MatchMeta' /\ MatchFsm' /\ MatchWrite' /\
     MatchMover' /\ MatchNotify' /\ Truthful'
  BY DEF PseudoHeaderInsert, Matches, Ordered, OFront, OVerify, OMeta, OFsm, ODrop, OWrite, OMover,
         ONotify, MatchSum, MatchMeta, MatchFsm, MatchWrite, MatchMover, MatchNotify, Truthful,
         Parsing, Forwarding, Current, CurrentPart, Parsed, ToDecide, KeptSum, ToLookup, KeptMeta,
         ToAccept, Accepted, ToWrite, HasWords, Announced, Flagged, MatchStatus, StatusTrue,
         Expected, Reported, checks, drop, drops, memory, notify, results
<1>9. InPackets'
  <2>1. Packets(Append(parse_words, e), rest, arrived)
    BY <1>2, <1>4, <1>3, <1>6, PacketsWrite DEF InPackets
  <2> QED BY <2>1, <1>5, <1>6 DEF InPackets
<1>10. OParse(k)'
  <2>1. k.p <= arrived /\ AtPacket(k.p) /\ (\A s \in Parsing : s.id = k.p /\ s.payload) /\ k.p \in Nat
    BY MarksAreNat DEF Ordered, OParse
  <2>2. AtPacket(k.p)'
    <3>1. CASE parse_fsm = "REMAINING_WORDS"
      <4>1. Within(parse_seg)
        BY <2>1, <3>1 DEF AtPacket
      <4>2. parse_words'[1].seg = parse_seg
        BY <4>1, <1>7, <1>3 DEF Within
      <4> QED BY <4>2, <3>1, <1>7, <1>5 DEF AtPacket, Within
    <3>2. CASE parse_fsm # "REMAINING_WORDS"
      <4>1. Before(k.p)
        BY <2>1, <3>2 DEF AtPacket
      <4>2. k.p < e.seg.id
        <5>1. CASE parse_words = <<>>
          BY <5>1, <4>1, <1>2, <1>3 DEF Before
        <5>2. CASE parse_words # <<>>
          <6>1. parse_words[1] \in Elems(parse_words) /\ parse_words[1].seg.id \in Nat
            BY <5>2, <1>7, <1>2, Types, KeyIsNat DEF ParseWord
          <6>2. arriving.seg.id = arrived /\ parse_words[1].seg.id <= arrived
            BY <6>1, <1>2 DEF InPackets, Packets
          <6> QED BY <6>1, <6>2, <4>1, <2>1, <1>2, <1>3 DEF Before
        <5> QED BY <5>1, <5>2
      <4>3. \A x \in Elems(parse_words') : x = e \/ x \in Elems(parse_words)
        BY <1>7
      <4>4. \A x \in Elems(parse_words') : k.p < x.seg.id
        BY <4>1, <4>2, <4>3 DEF Before
      <4>5. Before(k.p)'
        BY <4>4, <1>7 DEF Before
      <4> QED BY <4>5, <3>2, <1>5 DEF AtPacket
    <3> QED BY <3>1, <3>2
  <2> QED BY <2>1, <2>2, <1>5 DEF OParse, Parsing
<1> QED BY <1>8, <1>9, <1>10 DEF Core, Matches, Ordered

\* The parser takes a word.
LEMMA TakeWord ==
  ASSUME TInv, InPackets, parse_words # <<>>, parse_words' = Tail(parse_words),
         arriving' = arriving, arrived' = arrived, NEW h, h = Head(parse_words)
  PROVE  /\ InPackets'
         /\ h \in Word /\ h.seg \in Segment /\ h.seg.id \in Nat /\ (~h.last => h.seg.payload)
         /\ h.seg.id <= arrived /\ h \in Elems(parse_words) /\ parse_words[1] = h
         /\ h.last => Before(h.seg.id)'
         /\ ~h.last => Within(h.seg)'
<1>1. parse_words \in Seq(ParseWord) /\ arrived \in Nat /\ Packets(parse_words, arriving, arrived)
  BY RxBoundAssumption DEF TInv, TInput, TParse, InPackets
<1>2. /\ h \in ParseWord /\ h \in Elems(parse_words) /\ parse_words[1] = h
  BY <1>1, Read
<1>3. h \in Word /\ h.seg \in Segment /\ h.seg.id \in Nat /\ (~h.last => h.seg.payload)
  BY <1>2, KeyIsNat DEF ParseWord
<1>4. PICK t : t = Tail(parse_words)
  OBVIOUS
<1>5. /\ Packets(t, arriving, arrived) /\ h.seg.id <= arrived
      /\ h.last => (\A x \in Elems(t) : h.seg.id < x.seg.id)
                   /\ (arriving # None => h.seg.id < arriving.seg.id)
      /\ ~h.last => (t # <<>> => t[1].seg = h.seg)
                    /\ (t = <<>> => arriving # None /\ arriving.seg = h.seg)
  BY <1>1, <1>4, PacketsRead
<1>6. InPackets'
  BY <1>4, <1>5 DEF InPackets
<1>7. h.last => Before(h.seg.id)'
  BY <1>4, <1>5 DEF Before
<1>8. ~h.last => Within(h.seg)'
  BY <1>4, <1>5 DEF Within
<1> QED BY <1>2, <1>3, <1>5, <1>6, <1>7, <1>8

LEMMA DoParseFirst ==
  ASSUME TInv, InPackets, Matches, NEW k \in Marks, Ordered(k), ParseFirst
  PROVE  Core'
<1>1. PICK h : h = Head(parse_words)
  OBVIOUS
<1>2. /\ InPackets' /\ h \in Word /\ h.seg \in Segment /\ h.seg.id \in Nat
      /\ ~h.last => h.seg.payload
      /\ h.seg.id <= arrived /\ h \in Elems(parse_words) /\ parse_words[1] = h
      /\ h.last => Before(h.seg.id)'
      /\ ~h.last => Within(h.seg)'
  BY <1>1, TakeWord DEF ParseFirst, input
<1>3. payload \in Seq(Word) /\ meta \in Seq(Segment) /\ k.p \in Nat /\ k.vm \in Nat
  BY MarksAreNat DEF TInv, TParse
<1>4. /\ k.p <= arrived /\ (\A s \in Parsing : s.id = k.p /\ s.payload)
      /\ Words(payload, Parsing, k.p) /\ RunS(meta, k.vm, k.p)
  BY DEF Ordered, OParse, OFront
<1>5. /\ parse_fsm = "FIRST_WORD" /\ Parsing = {} /\ parse_seg' = h.seg /\ arrived' = arrived
      /\ meta' = Append(meta, h.seg)
      /\ h.last /\ h.seg.payload => payload' = Append(payload, h)
      /\ ~(h.last /\ h.seg.payload) => payload' = payload
      /\ parse_fsm' = IF h.last THEN "FIRST_WORD" ELSE "REMAINING_WORDS"
  BY <1>1, <1>2 DEF ParseFirst, PutPayload, Parsing, input
<1>6. k.p < h.seg.id
  BY <1>5, <1>2 DEF Ordered, OParse, AtPacket, Before
<1>7. h.seg.id \in Nat
  BY <1>2
<1>8. Parsing' = IF h.last THEN {} ELSE {h.seg}
  BY <1>5 DEF Parsing
<1>9. PICK j \in Marks : j["p"] = h.seg.id /\ \A z \in MarkNames \ {"p"} : j[z] = k[z]
  <2>1. "p" \in MarkNames
    BY DEF MarkNames
  <2> QED BY <2>1, Move, <1>7
<1>10. j.p = h.seg.id /\ j.vm = k.vm /\ j.v = k.v /\ j.mc = k.mc /\ j.m = k.m /\ j.fl = k.fl /\
      j.f = k.f /\ j.d1 = k.d1 /\ j.d2 = k.d2 /\ j.d3 = k.d3 /\ j.w = k.w /\ j.n = k.n /\
      j.g = k.g /\ j.a = k.a /\ j.c = k.c /\ j.b = k.b
  BY <1>9 DEF MarkNames
<1>11. OVerify(j)' /\ OMeta(j)' /\ OFsm(j)' /\ ODrop(j)' /\ OWrite(j)' /\ OMover(j)' /\
      ONotify(j)' /\ MatchMeta' /\ MatchFsm' /\ MatchWrite' /\ MatchMover' /\ MatchNotify' /\
      Truthful'
  BY <1>10 DEF ParseFirst, Matches, Ordered, OVerify, OMeta, OFsm, ODrop, OWrite, OMover, ONotify,
         MatchMeta, MatchFsm, MatchWrite, MatchMover, MatchNotify, Truthful, Forwarding, Current,
         CurrentPart, KeptSum, ToLookup, KeptMeta, ToAccept, Accepted, ToWrite, HasWords, Announced,
         Flagged, MatchStatus, StatusTrue, Expected, Reported, checks, drop, drops, input, memory,
         notify, results
<1>12. InPackets'
  BY <1>2
<1>13. OParse(j)'
  <2>1. AtPacket(h.seg.id)'
    BY <1>2, <1>5 DEF AtPacket
  <2>2. h.seg.id <= arrived' /\ \A s \in Parsing' : s.id = h.seg.id /\ s.payload
    BY <1>2, <1>5, <1>8
  <2> QED BY <2>1, <2>2, <1>10 DEF OParse
<1>14. OFront(j)'
  <2>1. Words(payload, {h.seg}, h.seg.id) /\ Words(payload, {}, h.seg.id)
    <3>1. Words(payload, {}, k.p) /\ k.p <= h.seg.id
      BY <1>4, <1>5, <1>6, <1>3, <1>2
    <3>2. Words(payload, {h.seg}, h.seg.id)
      BY <3>1, <1>6, <1>2, <1>3, WordsBegin
    <3>3. Words(payload, {}, h.seg.id)
      BY <3>1, <1>2, <1>3, WordsSkip
    <3> QED BY <3>2, <3>3
  <2>2. h.last => Words(Append(payload, h), {}, h.seg.id)
    BY <2>1, <1>2, <1>3, WordsWrite
  <2>3. Words(payload', Parsing', h.seg.id)
    BY <2>1, <2>2, <1>5, <1>8, <1>2
  <2>4. RunS(meta', k.vm, h.seg.id)
    BY <1>4, <1>6, <1>2, <1>3, <1>5, RunSWrite
  <2> QED BY <2>3, <2>4, <1>10 DEF OFront
<1>15. MatchSum'
  <2>1. \A s : s \in Elems(meta') <=> s = h.seg \/ s \in Elems(meta)
    BY <1>3, <1>2, <1>5, Write
  <2>2. ASSUME h.last /\ h.seg.payload
        PROVE  \A x : x \in Elems(payload') <=> x = h \/ x \in Elems(payload)
    <3>1. payload' = Append(payload, h)
      BY <2>2, <1>5
    <3> QED BY <3>1, <1>3, <1>2, Write
  <2>3. ASSUME NEW s \in Segment  PROVE Parsed(s)' <=> Parsed(s) \/ (s = h.seg /\ s.payload)
    <3>1. CASE h.last /\ h.seg.payload
      BY <3>1, <2>2, <1>8, <1>5 DEF Parsed, Has
    <3>2. CASE ~(h.last /\ h.seg.payload)
      BY <3>2, <1>8, <1>5, <1>2 DEF Parsed, Has
    <3> QED BY <3>1, <3>2
  <2>4. ASSUME NEW s \in Segment  PROVE ToDecide(s)' <=> ToDecide(s) \/ (s = h.seg /\ s.payload)
    BY <2>1 DEF ToDecide, Has, ParseFirst, checks, drop, drops
  <2> QED BY <2>3, <2>4 DEF Matches, MatchSum
<1> QED BY <1>11, <1>12, <1>13, <1>14, <1>15 DEF Core, Matches, Ordered

LEMMA DoParseRemaining ==
  ASSUME TInv, InPackets, Matches, NEW k \in Marks, Ordered(k), NEW extra \in BOOLEAN,
         ParseRemaining(extra)
  PROVE  Core'
<1>1. PICK h : h = Head(parse_words)
  OBVIOUS
<1>2. /\ InPackets' /\ h \in Word /\ h.seg \in Segment /\ h.seg.id \in Nat
      /\ ~h.last => h.seg.payload
      /\ h.seg.id <= arrived /\ h \in Elems(parse_words) /\ parse_words[1] = h
      /\ h.last => Before(h.seg.id)'
      /\ ~h.last => Within(h.seg)'
  BY <1>1, TakeWord DEF ParseRemaining, input
<1>3. payload \in Seq(Word) /\ meta \in Seq(Segment) /\ k.p \in Nat /\ k.vm \in Nat
  BY MarksAreNat DEF TInv, TParse
<1>4. /\ k.p <= arrived /\ (\A s \in Parsing : s.id = k.p /\ s.payload)
      /\ Words(payload, Parsing, k.p) /\ RunS(meta, k.vm, k.p)
  BY DEF Ordered, OParse, OFront
<1>5. /\ parse_fsm = "REMAINING_WORDS" /\ Parsing = {parse_seg} /\ parse_seg' = h.seg
      /\ arrived' = arrived /\ meta' = meta
      /\ parse_fsm' = IF ~h.last THEN "REMAINING_WORDS" ELSE IF extra THEN "EXTRA_WORD" ELSE "FIRST_WORD"
  BY <1>1, <1>2 DEF ParseRemaining, Parsing, input
<1>6. PICK v \in Word : /\ payload' = Append(payload, v) /\ v.seg = h.seg
                        /\ v.last <=> h.last /\ ~extra
  <2>1. PICK v : v = [h EXCEPT !.last = @ /\ ~extra]
    OBVIOUS
  <2>2. v \in Word /\ v.seg = h.seg /\ (v.last <=> h.last /\ ~extra)
    BY <2>1, <1>2 DEF Word
  <2>3. payload' = Append(payload, v)
    BY <2>1, <1>1 DEF ParseRemaining, PutPayload
  <2> QED BY <2>2, <2>3
<1>7. h.seg = parse_seg /\ h.seg.id = k.p /\ h.seg.payload
  BY <1>5, <1>2, <1>4, <1>1 DEF Ordered, OParse, AtPacket, Within, ParseRemaining
<1>8. Parsing' = IF v.last THEN {} ELSE {h.seg}
  <2>1. parse_fsm' = "FIRST_WORD" <=> v.last
    BY <1>5, <1>6 DEF ParseRemaining
  <2> QED BY <2>1, <1>5 DEF Parsing
<1>9. OVerify(k)' /\ OMeta(k)' /\ OFsm(k)' /\ ODrop(k)' /\ OWrite(k)' /\ OMover(k)' /\
     ONotify(k)' /\ MatchMeta' /\ MatchFsm' /\ MatchWrite' /\ MatchMover' /\ MatchNotify' /\
     Truthful'
  BY DEF ParseRemaining, Matches, Ordered, OVerify, OMeta, OFsm, ODrop, OWrite, OMover, ONotify,
         MatchMeta, MatchFsm, MatchWrite, MatchMover, MatchNotify, Truthful, Forwarding, Current,
         CurrentPart, KeptSum, ToLookup, KeptMeta, ToAccept, Accepted, ToWrite, HasWords, Announced,
         Flagged, MatchStatus, StatusTrue, Expected, Reported, checks, drop, drops, input, memory,
         notify, results
<1>10. InPackets'
  BY <1>2
<1>11. OParse(k)'
  <2>1. AtPacket(k.p)'
    BY <1>2, <1>5, <1>7 DEF AtPacket
  <2>2. k.p <= arrived' /\ \A s \in Parsing' : s.id = k.p /\ s.payload
    BY <1>4, <1>7, <1>5, <1>8
  <2> QED BY <2>1, <2>2 DEF OParse
<1>12. OFront(k)'
  <2>1. Words(payload, {v.seg}, k.p)
    BY <1>4, <1>5, <1>7, <1>6
  <2>2. Words(Append(payload, v), IF v.last THEN {} ELSE {v.seg}, k.p)
    BY <2>1, <1>6, <1>3, WordsWrite
  <2>3. Words(payload', Parsing', k.p)
    BY <2>2, <1>6, <1>8
  <2> QED BY <2>3, <1>4, <1>5 DEF OFront
<1>13. MatchSum'
  <2>1. \A x : x \in Elems(payload') <=> x = v \/ x \in Elems(payload)
    BY <1>3, <1>6, Write
  <2>2. ASSUME NEW s \in Segment  PROVE Parsed(s)' <=> Parsed(s)
    BY <2>1, <1>8, <1>5, <1>7, <1>6 DEF Parsed, Has
  <2>3. ASSUME NEW s \in Segment  PROVE ToDecide(s)' <=> ToDecide(s)
    BY <1>5 DEF ToDecide, ParseRemaining, checks, drop, drops
  <2> QED BY <2>2, <2>3 DEF Matches, MatchSum
<1> QED BY <1>9, <1>10, <1>11, <1>12, <1>13 DEF Core, Matches, Ordered

LEMMA DoParseExtra ==
  ASSUME TInv, InPackets, Matches, NEW k \in Marks, Ordered(k), ParseExtra
  PROVE  Core'
<1>1. PICK v : v = [seg |-> parse_seg, last |-> TRUE]
  OBVIOUS
<1>2. /\ payload \in Seq(Word) /\ meta \in Seq(Segment) /\ k.p \in Nat /\ parse_seg \in Segment
      /\ parse_fsm = "EXTRA_WORD" /\ parse_fsm' = "FIRST_WORD" /\ payload' = Append(payload, v)
      /\ parse_words' = parse_words /\ arriving' = arriving /\ arrived' = arrived /\ meta' = meta
  BY <1>1, MarksAreNat DEF TInv, TParse, ParseExtra, PutPayload, input
<1>3. v \in Word /\ v.seg = parse_seg /\ v.last
  BY <1>1, <1>2 DEF Word
<1>4. /\ k.p <= arrived /\ Before(k.p) /\ parse_seg.id = k.p
      /\ Words(payload, {parse_seg}, k.p) /\ RunS(meta, k.vm, k.p)
  BY <1>2 DEF Ordered, OParse, OFront, AtPacket, Parsing
<1>5. Parsing = {parse_seg} /\ Parsing' = {}
  BY <1>2 DEF Parsing
<1>6. InPackets' /\ OVerify(k)' /\ OMeta(k)' /\ OFsm(k)' /\ ODrop(k)' /\ OWrite(k)' /\
     OMover(k)' /\ ONotify(k)' /\ MatchMeta' /\ MatchFsm' /\ MatchWrite' /\ MatchMover' /\
     MatchNotify' /\ Truthful'
  BY DEF ParseExtra, Matches, Ordered, InPackets, OVerify, OMeta, OFsm, ODrop, OWrite, OMover,
         ONotify, MatchMeta, MatchFsm, MatchWrite, MatchMover, MatchNotify, Truthful, Forwarding,
         Current, CurrentPart, KeptSum, ToLookup, KeptMeta, ToAccept, Accepted, ToWrite, HasWords,
         Announced, Flagged, MatchStatus, StatusTrue, Expected, Reported, checks, drop, drops,
         input, memory, notify, results
<1>7. OParse(k)'
  <2>1. AtPacket(k.p)'
    BY <1>4, <1>2 DEF AtPacket, Before
  <2> QED BY <2>1, <1>4, <1>2, <1>5 DEF OParse
<1>8. OFront(k)'
  <2>1. Words(Append(payload, v), {}, k.p)
    BY <1>4, <1>2, <1>3, WordsWrite
  <2> QED BY <2>1, <1>4, <1>2, <1>5 DEF OFront
<1>9. MatchSum'
  <2>1. \A x : x \in Elems(payload') <=> x = v \/ x \in Elems(payload)
    BY <1>2, <1>3, Write
  <2>2. ASSUME NEW s \in Segment  PROVE Parsed(s)' <=> Parsed(s)
    BY <2>1, <1>5, <1>3 DEF Parsed, Has
  <2>3. ASSUME NEW s \in Segment  PROVE ToDecide(s)' <=> ToDecide(s)
    BY <1>2 DEF ToDecide, ParseExtra, checks, drop, drops
  <2> QED BY <2>2, <2>3 DEF Matches, MatchSum
<1> QED BY <1>6, <1>7, <1>8, <1>9 DEF Core, Matches, Ordered

\* The checksum process.
LEMMA DoVerifyMeta ==
  ASSUME TInv, InPackets, Matches, NEW k \in Marks, Ordered(k), VerifyMeta
  PROVE  Core'
<1>1. /\ meta # <<>> /\ meta \in Seq(Segment) /\ verify_reg = None
      /\ verify_reg' = Head(meta) /\ meta' = Tail(meta)
      /\ k.v \in Nat /\ k.vm \in Nat /\ k.p \in Nat
  BY MarksAreNat DEF VerifyMeta, TInv, TParse
<1>2. Head(meta) \in Segment /\ Head(meta).id \in Nat
  BY <1>1, Read, KeyIsNat
<1>3. PICK j \in Marks : j["vm"] = Head(meta).id /\ \A z \in MarkNames \ {"vm"} : j[z] = k[z]
  <2>1. "vm" \in MarkNames
    BY DEF MarkNames
  <2> QED BY <2>1, Move, <1>2
<1>4. j.vm = Head(meta).id /\ j.p = k.p /\ j.v = k.v /\ j.mc = k.mc /\ j.m = k.m /\ j.fl = k.fl /\
     j.f = k.f /\ j.d1 = k.d1 /\ j.d2 = k.d2 /\ j.d3 = k.d3 /\ j.w = k.w /\ j.n = k.n /\
     j.g = k.g /\ j.a = k.a /\ j.c = k.c /\ j.b = k.b
  BY <1>3 DEF MarkNames
<1>5. InPackets' /\ OParse(j)' /\ OMeta(j)' /\ OFsm(j)' /\ ODrop(j)' /\ OWrite(j)' /\
     OMover(j)' /\ ONotify(j)' /\ MatchMeta' /\ MatchFsm' /\ MatchWrite' /\ MatchMover' /\
     MatchNotify' /\ Truthful'
  BY <1>4 DEF VerifyMeta, Matches, Ordered, InPackets, OParse, OMeta, OFsm, ODrop, OWrite, OMover,
         ONotify, MatchMeta, MatchFsm, MatchWrite, MatchMover, MatchNotify, Truthful, AtPacket,
         Within, Before, Parsing, Forwarding, Current, CurrentPart, KeptSum, ToLookup, KeptMeta,
         ToAccept, Accepted, ToWrite, HasWords, Announced, Flagged, MatchStatus, StatusTrue,
         Expected, Reported, drop, drops, front, input, memory, notify, results
<1>6. /\ k.vm < Head(meta).id /\ Head(meta).id <= k.p /\ RunS(meta', Head(meta).id, k.p)
      /\ \A s : s \in Elems(meta) <=> s = Head(meta) \/ s \in Elems(meta')
  BY <1>1, RunSRead, Read DEF Ordered, OFront
<1>7. OFront(j)'
  BY <1>4, <1>6 DEF VerifyMeta, Ordered, OFront, Parsing, front
<1>8. OVerify(j)'
  <2>1. RegIn(verify_reg, k.v, k.vm) /\ RunS(meta_valid, k.mc, k.v) /\ RunD(drop_sum, k.d1, k.v)
    BY DEF Ordered, OVerify
  <2>2. k.v <= Head(meta).id - 1 /\ Head(meta).id - 1 < Head(meta).id /\ Head(meta).id - 1 \in Nat
    BY <2>1, <1>1, <1>2, <1>6 DEF RegIn
  <2>3. k.v < Head(meta).id
    BY <2>2, <1>1, <1>2
  <2>4. RegIn(Head(meta), k.v, Head(meta).id)
    BY <2>3, <1>1, <1>2, RegTakes
  <2> QED BY <2>1, <2>4, <1>4, <1>1 DEF VerifyMeta, OVerify, drops
<1>9. MatchSum'
  BY <1>6, <1>1, <1>2, RxNoneAssumption
  DEF VerifyMeta, Matches, MatchSum, Parsed, Parsing, ToDecide, Has, front, drop, drops
<1> QED BY <1>5, <1>7, <1>8, <1>9 DEF Core, Matches, Ordered

LEMMA DoVerifyChecksum ==
  ASSUME TInv, InPackets, Matches, NEW k \in Marks, Ordered(k), NEW valid \in BOOLEAN,
         VerifyChecksum(valid)
  PROVE  Core'
<1>1. PICK d : d = [seg |-> verify_reg, drop |-> ~valid]
  OBVIOUS
<1>2. /\ verify_reg \in Segment /\ meta_valid \in Seq(Segment) /\ drop_sum \in Seq(Decision)
      /\ k.v \in Nat /\ k.vm \in Nat /\ k.mc \in Nat /\ k.d1 \in Nat
  BY MarksAreNat DEF VerifyChecksum, TInv, TChecks, TDrop
<1>3. d \in Decision /\ d.seg = verify_reg /\ (d.drop <=> ~valid)
  BY <1>2, <1>1 DEF Decision
<1>4. /\ valid => meta_valid' = Append(meta_valid, verify_reg)
      /\ ~valid => meta_valid' = meta_valid
      /\ verify_reg.payload => drop_sum' = Append(drop_sum, d)
      /\ ~verify_reg.payload => drop_sum' = drop_sum
      /\ verify_reg' = None
  BY <1>1 DEF VerifyChecksum, VerifyDecides, Put
<1>5. verify_reg.id \in Nat
  BY <1>2, KeyIsNat
<1>6. PICK j \in Marks : j["v"] = verify_reg.id /\ \A z \in MarkNames \ {"v"} : j[z] = k[z]
  <2>1. "v" \in MarkNames
    BY DEF MarkNames
  <2> QED BY <2>1, Move, <1>5
<1>7. j.v = verify_reg.id /\ j.p = k.p /\ j.vm = k.vm /\ j.mc = k.mc /\ j.m = k.m /\ j.fl = k.fl /\
     j.f = k.f /\ j.d1 = k.d1 /\ j.d2 = k.d2 /\ j.d3 = k.d3 /\ j.w = k.w /\ j.n = k.n /\
     j.g = k.g /\ j.a = k.a /\ j.c = k.c /\ j.b = k.b
  BY <1>6 DEF MarkNames
<1>8. InPackets' /\ OParse(j)' /\ OFront(j)' /\ OMeta(j)' /\ OFsm(j)' /\ ODrop(j)' /\
     OWrite(j)' /\ OMover(j)' /\ ONotify(j)' /\ MatchFsm' /\ MatchWrite' /\ MatchMover' /\
     MatchNotify' /\ Truthful'
  BY <1>7 DEF VerifyChecksum, Matches, Ordered, InPackets, OParse, OFront, OMeta, OFsm, ODrop, OWrite,
         OMover, ONotify, MatchFsm, MatchWrite, MatchMover, MatchNotify, Truthful, AtPacket, Within,
         Before, Parsing, Forwarding, Current, CurrentPart, KeptMeta, ToAccept, Accepted, ToWrite,
         HasWords, Announced, Flagged, MatchStatus, StatusTrue, Expected, Reported, drop, input,
         memory, notify, results
<1>9. /\ k.v < verify_reg.id /\ verify_reg.id <= k.vm /\ k.v <= verify_reg.id
      /\ RunS(meta_valid, k.mc, k.v) /\ RunD(drop_sum, k.d1, k.v)
  BY <1>2, <1>5, RxNoneAssumption DEF Ordered, OVerify, RegIn
<1>10. \A s : s \in Elems(meta_valid') <=> s \in Elems(meta_valid) \/ (valid /\ s = verify_reg)
  <2>1. CASE valid
    BY <2>1, <1>4, <1>2, Write
  <2>2. CASE ~valid
    BY <2>2, <1>4
  <2> QED BY <2>1, <2>2
<1>11. \A x : x \in Elems(drop_sum') <=> x \in Elems(drop_sum) \/ (verify_reg.payload /\ x = d)
  <2>1. CASE verify_reg.payload
    BY <2>1, <1>4, <1>2, <1>3, Write
  <2>2. CASE ~verify_reg.payload
    BY <2>2, <1>4
  <2> QED BY <2>1, <2>2
<1>12. OVerify(j)'
  <2>1. RunS(meta_valid', k.mc, verify_reg.id)
    <3>1. CASE valid
      BY <3>1, <1>4, <1>2, <1>9, <1>5, RunSWrite
    <3>2. CASE ~valid
      BY <3>2, <1>4, <1>2, <1>9, <1>5, RunSSkip
    <3> QED BY <3>1, <3>2
  <2>2. RunD(drop_sum', k.d1, verify_reg.id)
    <3>1. CASE verify_reg.payload
      BY <3>1, <1>4, <1>2, <1>3, <1>9, <1>5, RunDWrite, KeyIsNat
    <3>2. CASE ~verify_reg.payload
      BY <3>2, <1>4, <1>2, <1>9, <1>5, RunDSkip, KeyIsNat
    <3> QED BY <3>1, <3>2
  <2>3. RegIn(verify_reg', verify_reg.id, k.vm)
    BY <1>4, <1>9 DEF RegIn
  <2> QED BY <2>1, <2>2, <2>3, <1>7 DEF OVerify
<1>13. MatchSum'
  <2>1. ASSUME NEW s \in Segment  PROVE Parsed(s)' <=> Parsed(s)
    BY DEF VerifyChecksum, Parsed, Parsing
  <2>2. ASSUME NEW s \in Segment  PROVE ToDecide(s)' <=> ToDecide(s)
    BY <1>11, <1>3, <1>4, <1>2, RxNoneAssumption DEF VerifyChecksum, ToDecide, Has, drop
  <2> QED BY <2>1, <2>2 DEF Matches, MatchSum
<1>14. MatchMeta'
  <2>1. ASSUME NEW s \in Segment
        PROVE  KeptSum(s)' <=> KeptSum(s) \/ (s = verify_reg /\ s.payload /\ valid)
    BY <1>11, <1>3 DEF VerifyChecksum, KeptSum, Kept, drop
  <2>2. ASSUME NEW s \in Segment
        PROVE  ToLookup(s)' <=> ToLookup(s) \/ (s = verify_reg /\ s.payload /\ valid)
    BY <1>10 DEF VerifyChecksum, ToLookup, Has
  <2> QED BY <2>1, <2>2 DEF Matches, MatchMeta
<1> QED BY <1>8, <1>12, <1>13, <1>14 DEF Core, Matches, Ordered

\* The meta handler.
LEMMA DoCheckPort ==
  ASSUME TInv, InPackets, Matches, NEW k \in Marks, Ordered(k), NEW yes \in BOOLEAN, CheckPort(yes)
  PROVE  Core'
<1>1. PICK h : h = Head(meta_valid)
  OBVIOUS
<1>2. PICK d : d = [seg |-> h, drop |-> TRUE]
  OBVIOUS
<1>3. /\ meta_valid # <<>> /\ meta_valid \in Seq(Segment) /\ drop_meta \in Seq(Decision)
      /\ k.v \in Nat /\ k.m \in Nat /\ k.mc \in Nat /\ k.d2 \in Nat /\ k.fl \in Nat
      /\ fsm_meta \in Seq(Segment) /\ meta_reg = None
  BY MarksAreNat DEF CheckPort, TInv, TChecks, TDrop
<1>4. /\ h \in Segment /\ h.id \in Nat
      /\ k.mc < h.id /\ h.id <= k.v /\ RunS(Tail(meta_valid), h.id, k.v)
      /\ \A s : s \in Elems(meta_valid) <=> s = h \/ s \in Elems(Tail(meta_valid))
  BY <1>1, <1>3, Read, KeyIsNat, RunSRead DEF Ordered, OVerify
<1>5. d \in Decision /\ d.seg = h /\ d.drop
  BY <1>4, <1>2 DEF Decision
<1>6. /\ ~yes /\ h.payload => drop_meta' = Append(drop_meta, d)
      /\ ~(~yes /\ h.payload) => drop_meta' = drop_meta
      /\ yes => meta_reg' = h
      /\ ~yes => meta_reg' = None
      /\ meta_valid' = Tail(meta_valid) /\ fsm_meta' = fsm_meta
  BY <1>2, <1>1 DEF CheckPort, Put
<1>7. /\ k.m <= k.mc /\ k.m <= h.id /\ k.m < h.id
      /\ RunS(fsm_meta, k.fl, k.m) /\ RunD(drop_meta, k.d2, k.m)
  BY <1>3, <1>4 DEF Ordered, OMeta, RegIn
<1>8. PICK m \in Nat : (yes => m = k.m) /\ (~yes => m = h.id)
  BY <1>3, <1>4
<1>9. h.id \in Nat /\ m \in Nat
  BY <1>4
<1>10. PICK j \in Marks : /\ j["mc"] = h.id /\ j["m"] = m
                      /\ \A z \in MarkNames \ {"mc", "m"} : j[z] = k[z]
  <2>1. "mc" \in MarkNames /\ "m" \in MarkNames /\ "mc" # "m"
    BY DEF MarkNames
  <2> QED BY <2>1, MoveTwo, <1>9
<1>11. j.mc = h.id /\ j.m = m /\ j.p = k.p /\ j.vm = k.vm /\ j.v = k.v /\ j.fl = k.fl /\
      j.f = k.f /\ j.d1 = k.d1 /\ j.d2 = k.d2 /\ j.d3 = k.d3 /\ j.w = k.w /\ j.n = k.n /\
      j.g = k.g /\ j.a = k.a /\ j.c = k.c /\ j.b = k.b
  BY <1>10 DEF MarkNames
<1>12. InPackets' /\ OParse(j)' /\ OFront(j)' /\ OFsm(j)' /\ ODrop(j)' /\ OWrite(j)' /\
      OMover(j)' /\ ONotify(j)' /\ MatchSum' /\ MatchWrite' /\ MatchMover' /\ MatchNotify' /\
      Truthful'
  BY <1>11 DEF CheckPort, Matches, Ordered, InPackets, OParse, OFront, OFsm, ODrop, OWrite, OMover,
         ONotify, MatchSum, MatchWrite, MatchMover, MatchNotify, Truthful, AtPacket, Within, Before,
         Parsing, Forwarding, Current, CurrentPart, Parsed, ToDecide, Accepted, ToWrite, HasWords,
         Announced, Flagged, MatchStatus, StatusTrue, Expected, Reported, drop, front, input,
         memory, notify, results
<1>13. \A x : x \in Elems(drop_meta') <=> x \in Elems(drop_meta) \/ (~yes /\ h.payload /\ x = d)
  <2>1. CASE ~yes /\ h.payload
    <3>1. drop_meta \in Seq(Decision) /\ d \in Decision
      BY <1>3, <1>5
    <3>2. \A x : x \in Elems(Append(drop_meta, d)) <=> x = d \/ x \in Elems(drop_meta)
      BY <3>1, Write
    <3> QED BY <2>1, <1>6, <3>2
  <2>2. CASE ~(~yes /\ h.payload)
    BY <2>2, <1>6
  <2> QED BY <2>1, <2>2
<1>14. OVerify(j)'
  BY <1>4, <1>6, <1>11 DEF CheckPort, Ordered, OVerify
<1>15. OMeta(j)'
  <2>1. CASE yes
    <3>1. RegIn(meta_reg', m, h.id)
      BY <2>1, <1>8, <1>6, <1>7, <1>3, <1>4, RegTakes
    <3>2. RunS(fsm_meta', k.fl, m) /\ RunD(drop_meta', k.d2, m)
      BY <2>1, <1>8, <1>6, <1>7
    <3> QED BY <3>1, <3>2, <1>11 DEF OMeta
  <2>2. CASE ~yes
    <3>1. RegIn(meta_reg', m, h.id)
      BY <2>2, <1>8, <1>6 DEF RegIn
    <3>2. RunS(fsm_meta', k.fl, m)
      BY <2>2, <1>8, <1>6, <1>7, <1>3, RunSSkip
    <3>3. RunD(drop_meta', k.d2, h.id)
      <4>1. CASE h.payload
        BY <2>2, <4>1, <1>6, <1>7, <1>3, <1>5, <1>4, RunDWrite, KeyIsNat
      <4>2. CASE ~h.payload
        BY <2>2, <4>2, <1>6, <1>7, <1>3, <1>4, RunDSkip, KeyIsNat
      <4> QED BY <4>1, <4>2
    <3> QED BY <2>2, <3>1, <3>2, <3>3, <1>8, <1>11 DEF OMeta
  <2> QED BY <2>1, <2>2
<1>16. MatchMeta'
  <2>1. ASSUME NEW s \in Segment  PROVE KeptSum(s)' <=> KeptSum(s)
    BY DEF CheckPort, KeptSum, drop
  <2>2. ASSUME NEW s \in Segment  PROVE ToLookup(s)' <=> ToLookup(s)
    BY <1>13, <1>5, <1>6, <1>4, <1>3, RxNoneAssumption DEF ToLookup, Has
  <2> QED BY <2>1, <2>2 DEF Matches, MatchMeta
<1>17. MatchFsm'
  <2>1. ASSUME NEW s \in Segment  PROVE KeptMeta(s)' <=> KeptMeta(s)
    BY <1>13, <1>5 DEF CheckPort, KeptMeta, Kept, drop
  <2>2. ASSUME NEW s \in Segment  PROVE ToAccept(s)' <=> ToAccept(s)
    BY DEF CheckPort, ToAccept
  <2> QED BY <2>1, <2>2 DEF Matches, MatchFsm
<1> QED BY <1>12, <1>14, <1>15, <1>16, <1>17 DEF Core, Matches, Ordered

LEMMA DoLookupRsp ==
  ASSUME TInv, InPackets, Matches, NEW k \in Marks, Ordered(k), NEW yes \in BOOLEAN, LookupRsp(yes)
  PROVE  Core'
<1>1. PICK d : d = [seg |-> meta_reg, drop |-> ~yes]
  OBVIOUS
<1>2. /\ meta_reg \in Segment /\ fsm_meta \in Seq(Segment) /\ drop_meta \in Seq(Decision)
      /\ k.m \in Nat /\ k.mc \in Nat /\ k.d2 \in Nat /\ k.fl \in Nat
  BY MarksAreNat DEF LookupRsp, TInv, TChecks, TDrop
<1>3. d \in Decision /\ d.seg = meta_reg /\ (d.drop <=> ~yes)
  BY <1>2, <1>1 DEF Decision
<1>4. /\ yes => fsm_meta' = Append(fsm_meta, meta_reg)
      /\ ~yes => fsm_meta' = fsm_meta
      /\ meta_reg.payload => drop_meta' = Append(drop_meta, d)
      /\ ~meta_reg.payload => drop_meta' = drop_meta
      /\ meta_reg' = None
  BY <1>1 DEF LookupRsp, Put
<1>5. meta_reg.id \in Nat
  BY <1>2, KeyIsNat
<1>6. PICK j \in Marks : j["m"] = meta_reg.id /\ \A z \in MarkNames \ {"m"} : j[z] = k[z]
  <2>1. "m" \in MarkNames
    BY DEF MarkNames
  <2> QED BY <2>1, Move, <1>5
<1>7. j.m = meta_reg.id /\ j.p = k.p /\ j.vm = k.vm /\ j.v = k.v /\ j.mc = k.mc /\ j.fl = k.fl /\
     j.f = k.f /\ j.d1 = k.d1 /\ j.d2 = k.d2 /\ j.d3 = k.d3 /\ j.w = k.w /\ j.n = k.n /\
     j.g = k.g /\ j.a = k.a /\ j.c = k.c /\ j.b = k.b
  BY <1>6 DEF MarkNames
<1>8. InPackets' /\ OParse(j)' /\ OFront(j)' /\ OVerify(j)' /\ OFsm(j)' /\ ODrop(j)' /\
     OWrite(j)' /\ OMover(j)' /\ ONotify(j)' /\ MatchSum' /\ MatchWrite' /\ MatchMover' /\
     MatchNotify' /\ Truthful'
  BY <1>7 DEF LookupRsp, Matches, Ordered, InPackets, OParse, OFront, OVerify, OFsm, ODrop, OWrite,
         OMover, ONotify, MatchSum, MatchWrite, MatchMover, MatchNotify, Truthful, AtPacket, Within,
         Before, Parsing, Forwarding, Current, CurrentPart, Parsed, ToDecide, Accepted, ToWrite,
         HasWords, Announced, Flagged, MatchStatus, StatusTrue, Expected, Reported, drop, front,
         input, memory, notify, results
<1>9. /\ k.m < meta_reg.id /\ meta_reg.id <= k.mc /\ k.m <= meta_reg.id
      /\ RunS(fsm_meta, k.fl, k.m) /\ RunD(drop_meta, k.d2, k.m)
  BY <1>2, <1>5, RxNoneAssumption DEF Ordered, OMeta, RegIn
<1>10. \A s : s \in Elems(fsm_meta') <=> s \in Elems(fsm_meta) \/ (yes /\ s = meta_reg)
  <2>1. CASE yes
    BY <2>1, <1>4, <1>2, Write
  <2>2. CASE ~yes
    BY <2>2, <1>4
  <2> QED BY <2>1, <2>2
<1>11. \A x : x \in Elems(drop_meta') <=> x \in Elems(drop_meta) \/ (meta_reg.payload /\ x = d)
  <2>1. CASE meta_reg.payload
    BY <2>1, <1>4, <1>2, <1>3, Write
  <2>2. CASE ~meta_reg.payload
    BY <2>2, <1>4
  <2> QED BY <2>1, <2>2
<1>12. OMeta(j)'
  <2>1. RunS(fsm_meta', k.fl, meta_reg.id)
    <3>1. CASE yes
      BY <3>1, <1>4, <1>2, <1>9, <1>5, RunSWrite
    <3>2. CASE ~yes
      BY <3>2, <1>4, <1>2, <1>9, <1>5, RunSSkip
    <3> QED BY <3>1, <3>2
  <2>2. RunD(drop_meta', k.d2, meta_reg.id)
    <3>1. CASE meta_reg.payload
      BY <3>1, <1>4, <1>2, <1>3, <1>9, <1>5, RunDWrite, KeyIsNat
    <3>2. CASE ~meta_reg.payload
      BY <3>2, <1>4, <1>2, <1>9, <1>5, RunDSkip, KeyIsNat
    <3> QED BY <3>1, <3>2
  <2>3. RegIn(meta_reg', meta_reg.id, k.mc)
    BY <1>4, <1>9 DEF RegIn
  <2> QED BY <2>1, <2>2, <2>3, <1>7 DEF OMeta
<1>13. MatchMeta'
  <2>1. ASSUME NEW s \in Segment  PROVE KeptSum(s)' <=> KeptSum(s)
    BY DEF LookupRsp, KeptSum, drop
  <2>2. ASSUME NEW s \in Segment  PROVE ToLookup(s)' <=> ToLookup(s)
    BY <1>11, <1>3, <1>4, <1>2, RxNoneAssumption DEF LookupRsp, ToLookup, Has
  <2> QED BY <2>1, <2>2 DEF Matches, MatchMeta
<1>14. MatchFsm'
  <2>1. ASSUME NEW s \in Segment
        PROVE  KeptMeta(s)' <=> KeptMeta(s) \/ (s = meta_reg /\ s.payload /\ yes)
    BY <1>11, <1>3 DEF LookupRsp, KeptMeta, Kept, drop
  <2>2. ASSUME NEW s \in Segment
        PROVE  ToAccept(s)' <=> ToAccept(s) \/ (s = meta_reg /\ s.payload /\ yes)
    BY <1>10 DEF LookupRsp, ToAccept, Has
  <2> QED BY <2>1, <2>2 DEF Matches, MatchFsm
<1> QED BY <1>8, <1>12, <1>13, <1>14 DEF Core, Matches, Ordered

\* The state machine.
LEMMA DoFsmLoad ==
  ASSUME TInv, InPackets, Matches, NEW k \in Marks, Ordered(k), FsmLoad
  PROVE  Core'
<1>1. PICK h : h = Head(fsm_meta)
  OBVIOUS
<1>2. /\ fsm_meta # <<>> /\ fsm_meta \in Seq(Segment) /\ fsm_reg = None
      /\ fsm_reg' = h /\ fsm_meta' = Tail(fsm_meta)
      /\ k.f \in Nat /\ k.fl \in Nat /\ k.m \in Nat
  BY <1>1, MarksAreNat DEF FsmLoad, TInv, TChecks
<1>3. /\ h \in Segment /\ h.id \in Nat /\ k.fl < h.id /\ h.id <= k.m
      /\ RunS(Tail(fsm_meta), h.id, k.m)
      /\ \A s : s \in Elems(fsm_meta) <=> s = h \/ s \in Elems(Tail(fsm_meta))
  BY <1>1, <1>2, Read, KeyIsNat, RunSRead DEF Ordered, OMeta
<1>4. h.id \in Nat
  BY <1>3
<1>5. PICK j \in Marks : j["fl"] = h.id /\ \A z \in MarkNames \ {"fl"} : j[z] = k[z]
  <2>1. "fl" \in MarkNames
    BY DEF MarkNames
  <2> QED BY <2>1, Move, <1>4
<1>6. j.fl = h.id /\ j.p = k.p /\ j.vm = k.vm /\ j.v = k.v /\ j.mc = k.mc /\ j.m = k.m /\
     j.f = k.f /\ j.d1 = k.d1 /\ j.d2 = k.d2 /\ j.d3 = k.d3 /\ j.w = k.w /\ j.n = k.n /\
     j.g = k.g /\ j.a = k.a /\ j.c = k.c /\ j.b = k.b
  BY <1>5 DEF MarkNames
<1>7. InPackets' /\ OParse(j)' /\ OFront(j)' /\ OVerify(j)' /\ ODrop(j)' /\ OWrite(j)' /\
     OMover(j)' /\ ONotify(j)' /\ MatchSum' /\ MatchMeta' /\ MatchWrite' /\ MatchMover' /\
     MatchNotify' /\ Truthful'
  BY <1>6 DEF FsmLoad, Matches, Ordered, InPackets, OParse, OFront, OVerify, ODrop, OWrite, OMover,
         ONotify, MatchSum, MatchMeta, MatchWrite, MatchMover, MatchNotify, Truthful, AtPacket,
         Within, Before, Parsing, Forwarding, Current, CurrentPart, Parsed, ToDecide, KeptSum,
         ToLookup, Accepted, ToWrite, HasWords, Announced, Flagged, MatchStatus, StatusTrue,
         Expected, Reported, drop, drops, front, input, memory, notify, results
<1>8. OMeta(j)'
  BY <1>3, <1>2, <1>6 DEF FsmLoad, Ordered, OMeta, drops
<1>9. OFsm(j)'
  <2>1. /\ RegIn(fsm_reg, k.f, k.fl) /\ RunD(drop_fsm, k.d3, k.f)
        /\ RunS(mem_cmd, k.w, k.f) /\ RunD(notify_cache, k.n, k.f)
    BY DEF Ordered, OFsm
  <2>2. k.f <= h.id - 1 /\ h.id - 1 < h.id /\ h.id - 1 \in Nat
    BY <2>1, <1>2, <1>3 DEF RegIn
  <2>3. RegIn(h, k.f, h.id)
    BY <2>2, <1>2, <1>3, RegTakes
  <2> QED BY <2>1, <2>3, <1>6, <1>2 DEF FsmLoad, OFsm, drops, notify
<1>10. MatchFsm'
  <2>1. ASSUME NEW s \in Segment  PROVE KeptMeta(s)' <=> KeptMeta(s)
    BY DEF FsmLoad, KeptMeta, drop, drops
  <2>2. ASSUME NEW s \in Segment  PROVE ToAccept(s)' <=> ToAccept(s)
    BY <1>3, <1>2, RxNoneAssumption DEF FsmLoad, ToAccept, Has, drops
  <2> QED BY <2>1, <2>2 DEF Matches, MatchFsm
<1> QED BY <1>7, <1>8, <1>9, <1>10 DEF Core, Matches, Ordered

LEMMA DoFsmAccept ==
  ASSUME TInv, InPackets, Matches, NEW k \in Marks, Ordered(k), FsmAccept
  PROVE  Core'
<1>1. PICK d : d = [seg |-> fsm_reg, drop |-> FALSE]
  OBVIOUS
<1>2. PICK e : e = [seg |-> fsm_reg, data |-> TRUE]
  OBVIOUS
<1>3. /\ fsm_reg \in Segment /\ drop_fsm \in Seq(Decision) /\ mem_cmd \in Seq(Segment)
      /\ notify_cache \in Seq(Notice)
      /\ k.f \in Nat /\ k.fl \in Nat /\ k.d3 \in Nat /\ k.w \in Nat /\ k.n \in Nat
  BY MarksAreNat DEF FsmAccept, TInv, TChecks, TDrop, TMemory, TNotify
<1>4. fsm_reg.id \in Nat
  BY <1>3, KeyIsNat
<1>5. /\ d \in Decision /\ d.seg = fsm_reg /\ ~d.drop
      /\ e \in Notice /\ e.seg = fsm_reg /\ e.data
  BY <1>3, <1>1, <1>2 DEF Decision, Notice
<1>6. /\ mem_cmd' = Append(mem_cmd, fsm_reg) /\ notify_cache' = Append(notify_cache, e)
      /\ drop_fsm' = Append(drop_fsm, d) /\ fsm_reg' = None /\ fsm_reg.payload
  BY <1>1, <1>2 DEF FsmAccept, Put
<1>7. PICK j \in Marks : j["f"] = fsm_reg.id /\ \A z \in MarkNames \ {"f"} : j[z] = k[z]
  <2>1. "f" \in MarkNames
    BY DEF MarkNames
  <2> QED BY <2>1, Move, <1>4
<1>8. j.f = fsm_reg.id /\ j.p = k.p /\ j.vm = k.vm /\ j.v = k.v /\ j.mc = k.mc /\ j.m = k.m /\
     j.fl = k.fl /\ j.d1 = k.d1 /\ j.d2 = k.d2 /\ j.d3 = k.d3 /\ j.w = k.w /\ j.n = k.n /\
     j.g = k.g /\ j.a = k.a /\ j.c = k.c /\ j.b = k.b
  BY <1>7 DEF MarkNames
<1>9. InPackets' /\ OParse(j)' /\ OFront(j)' /\ OVerify(j)' /\ OMeta(j)' /\ ODrop(j)' /\
     OWrite(j)' /\ OMover(j)' /\ ONotify(j)' /\ MatchSum' /\ MatchMeta' /\ MatchMover' /\
     Truthful'
  BY <1>8 DEF FsmAccept, Matches, Ordered, InPackets, OParse, OFront, OVerify, OMeta, ODrop, OWrite,
         OMover, ONotify, MatchSum, MatchMeta, MatchMover, Truthful, AtPacket, Within, Before,
         Parsing, Forwarding, Current, CurrentPart, Parsed, ToDecide, KeptSum, ToLookup, HasWords,
         MatchStatus, StatusTrue, Expected, Reported, drop, front, input, memory, results
<1>10. /\ k.f < fsm_reg.id /\ fsm_reg.id <= k.fl /\ k.f <= fsm_reg.id
       /\ RunD(drop_fsm, k.d3, k.f) /\ RunS(mem_cmd, k.w, k.f) /\ RunD(notify_cache, k.n, k.f)
  BY <1>3, <1>4, RxNoneAssumption DEF Ordered, OFsm, RegIn
<1>11. /\ \A x : x \in Elems(drop_fsm') <=> x = d \/ x \in Elems(drop_fsm)
       /\ \A x : x \in Elems(mem_cmd') <=> x = fsm_reg \/ x \in Elems(mem_cmd)
       /\ \A x : x \in Elems(notify_cache') <=> x = e \/ x \in Elems(notify_cache)
  BY <1>6, <1>3, <1>5, Write
<1>12. OFsm(j)'
  <2>1. RunD(drop_fsm', k.d3, fsm_reg.id) /\ RunD(notify_cache', k.n, fsm_reg.id)
    BY <1>6, <1>3, <1>5, <1>10, <1>4, RunDWrite, KeyIsNat
  <2>2. RunS(mem_cmd', k.w, fsm_reg.id)
    BY <1>6, <1>3, <1>10, <1>4, RunSWrite
  <2>3. RegIn(fsm_reg', fsm_reg.id, k.fl)
    BY <1>6, <1>10 DEF RegIn
  <2> QED BY <2>1, <2>2, <2>3, <1>8 DEF OFsm
<1>13. MatchFsm'
  <2>1. ASSUME NEW s \in Segment  PROVE KeptMeta(s)' <=> KeptMeta(s)
    BY DEF FsmAccept, KeptMeta, drop
  <2>2. ASSUME NEW s \in Segment  PROVE ToAccept(s)' <=> ToAccept(s)
    BY <1>11, <1>5, <1>6, <1>3, RxNoneAssumption DEF FsmAccept, ToAccept, Has
  <2> QED BY <2>1, <2>2 DEF Matches, MatchFsm
<1>14. MatchWrite'
  <2>1. ASSUME NEW s \in Segment  PROVE Accepted(s)' <=> Accepted(s) \/ s = fsm_reg
    BY <1>11, <1>5 DEF FsmAccept, Accepted, Kept, Has, Forwarding, drop
  <2>2. ASSUME NEW s \in Segment  PROVE ToWrite(s)' <=> ToWrite(s) \/ s = fsm_reg
    BY <1>11 DEF FsmAccept, ToWrite, memory
  <2> QED BY <2>1, <2>2 DEF Matches, MatchWrite
<1>15. MatchNotify'
  <2>1. ASSUME NEW s \in Segment  PROVE Announced(s)' <=> Announced(s) \/ s = fsm_reg
    BY <1>11, <1>5 DEF FsmAccept, Announced
  <2>2. ASSUME NEW s \in Segment  PROVE Flagged(s)' <=> Flagged(s) \/ s = fsm_reg
    BY <1>11 DEF FsmAccept, Flagged, Has
  <2> QED BY <2>1, <2>2 DEF Matches, MatchNotify
<1> QED BY <1>9, <1>12, <1>13, <1>14, <1>15 DEF Core, Matches, Ordered

LEMMA DoFsmRefuse ==
  ASSUME TInv, InPackets, Matches, NEW k \in Marks, Ordered(k), FsmRefuse
  PROVE  Core'
<1>1. PICK d : d = [seg |-> fsm_reg, drop |-> TRUE]
  OBVIOUS
<1>2. /\ fsm_reg \in Segment /\ drop_fsm \in Seq(Decision) /\ mem_cmd \in Seq(Segment)
      /\ notify_cache \in Seq(Notice)
      /\ k.f \in Nat /\ k.fl \in Nat /\ k.d3 \in Nat /\ k.w \in Nat /\ k.n \in Nat
  BY MarksAreNat DEF FsmRefuse, TInv, TChecks, TDrop, TMemory, TNotify
<1>3. fsm_reg.id \in Nat
  BY <1>2, KeyIsNat
<1>4. d \in Decision /\ d.seg = fsm_reg /\ d.drop
  BY <1>2, <1>1 DEF Decision
<1>5. drop_fsm' = Append(drop_fsm, d) /\ fsm_reg' = None /\ fsm_reg.payload
  BY <1>1 DEF FsmRefuse, Put
<1>6. PICK j \in Marks : j["f"] = fsm_reg.id /\ \A z \in MarkNames \ {"f"} : j[z] = k[z]
  <2>1. "f" \in MarkNames
    BY DEF MarkNames
  <2> QED BY <2>1, Move, <1>3
<1>7. j.f = fsm_reg.id /\ j.p = k.p /\ j.vm = k.vm /\ j.v = k.v /\ j.mc = k.mc /\ j.m = k.m /\
     j.fl = k.fl /\ j.d1 = k.d1 /\ j.d2 = k.d2 /\ j.d3 = k.d3 /\ j.w = k.w /\ j.n = k.n /\
     j.g = k.g /\ j.a = k.a /\ j.c = k.c /\ j.b = k.b
  BY <1>6 DEF MarkNames
<1>8. InPackets' /\ OParse(j)' /\ OFront(j)' /\ OVerify(j)' /\ OMeta(j)' /\ ODrop(j)' /\
     OWrite(j)' /\ OMover(j)' /\ ONotify(j)' /\ MatchSum' /\ MatchMeta' /\ MatchMover' /\
     MatchNotify' /\ Truthful'
  BY <1>7 DEF FsmRefuse, Matches, Ordered, InPackets, OParse, OFront, OVerify, OMeta, ODrop, OWrite,
         OMover, ONotify, MatchSum, MatchMeta, MatchMover, MatchNotify, Truthful, AtPacket, Within,
         Before, Parsing, Forwarding, Current, CurrentPart, Parsed, ToDecide, KeptSum, ToLookup,
         HasWords, Announced, Flagged, MatchStatus, StatusTrue, Expected, Reported, drop, front,
         input, memory, notify, results
<1>9. /\ k.f < fsm_reg.id /\ fsm_reg.id <= k.fl /\ k.f <= fsm_reg.id
      /\ RunD(drop_fsm, k.d3, k.f) /\ RunS(mem_cmd, k.w, k.f) /\ RunD(notify_cache, k.n, k.f)
  BY <1>2, <1>3, RxNoneAssumption DEF Ordered, OFsm, RegIn
<1>10. \A x : x \in Elems(drop_fsm') <=> x = d \/ x \in Elems(drop_fsm)
  BY <1>5, <1>2, <1>4, Write
<1>11. OFsm(j)'
  <2>1. RunD(drop_fsm', k.d3, fsm_reg.id)
    BY <1>5, <1>2, <1>4, <1>9, <1>3, RunDWrite, KeyIsNat
  <2>2. RunS(mem_cmd, k.w, fsm_reg.id)
    BY <1>2, <1>9, <1>3, RunSSkip
  <2>3. RunD(notify_cache, k.n, fsm_reg.id)
    BY <1>2, <1>9, <1>3, RunDSkip, KeyIsNat
  <2>4. RegIn(fsm_reg', fsm_reg.id, k.fl)
    BY <1>5, <1>9 DEF RegIn
  <2> QED BY <2>1, <2>2, <2>3, <2>4, <1>7 DEF FsmRefuse, OFsm, notify
<1>12. MatchFsm'
  <2>1. ASSUME NEW s \in Segment  PROVE KeptMeta(s)' <=> KeptMeta(s)
    BY DEF FsmRefuse, KeptMeta, drop
  <2>2. ASSUME NEW s \in Segment  PROVE ToAccept(s)' <=> ToAccept(s)
    BY <1>10, <1>4, <1>5, <1>2, RxNoneAssumption DEF FsmRefuse, ToAccept, Has
  <2> QED BY <2>1, <2>2 DEF Matches, MatchFsm
<1>13. MatchWrite'
  <2>1. ASSUME NEW s \in Segment  PROVE Accepted(s)' <=> Accepted(s)
    BY <1>10, <1>4 DEF FsmRefuse, Accepted, Kept, Has, Forwarding, drop
  <2>2. ASSUME NEW s \in Segment  PROVE ToWrite(s)' <=> ToWrite(s)
    BY DEF FsmRefuse, ToWrite, memory
  <2> QED BY <2>1, <2>2 DEF Matches, MatchWrite
<1> QED BY <1>8, <1>11, <1>12, <1>13 DEF Core, Matches, Ordered

\* A segment without a decision has no payload, as long as the streams are in step.
LEMMA DoFsmSilent ==
  ASSUME TInv, InPackets, Matches, NEW k \in Marks, Ordered(k), NEW closed \in BOOLEAN,
         FsmSilent(closed), Healthy'
  PROVE  Core'
<1>1. PICK e : e = [seg |-> fsm_reg, data |-> FALSE]
  OBVIOUS
<1>2. /\ fsm_reg \in Segment /\ drop_fsm \in Seq(Decision) /\ mem_cmd \in Seq(Segment)
      /\ notify_cache \in Seq(Notice)
      /\ k.f \in Nat /\ k.fl \in Nat /\ k.d3 \in Nat /\ k.w \in Nat /\ k.n \in Nat
  BY MarksAreNat DEF FsmSilent, TInv, TChecks, TDrop, TMemory, TNotify
<1>3. fsm_reg.id \in Nat
  BY <1>2, KeyIsNat
<1>4. e \in Notice /\ e.seg = fsm_reg /\ ~e.data
  BY <1>2, <1>1 DEF Notice
<1>5. /\ closed => notify_cache' = Append(notify_cache, e)
      /\ ~closed => notify_cache' = notify_cache
      /\ fsm_reg' = None /\ ~fsm_reg.payload
  BY <1>1 DEF FsmSilent, Put, Healthy
<1>6. PICK j \in Marks : j["f"] = fsm_reg.id /\ \A z \in MarkNames \ {"f"} : j[z] = k[z]
  <2>1. "f" \in MarkNames
    BY DEF MarkNames
  <2> QED BY <2>1, Move, <1>3
<1>7. j.f = fsm_reg.id /\ j.p = k.p /\ j.vm = k.vm /\ j.v = k.v /\ j.mc = k.mc /\ j.m = k.m /\
     j.fl = k.fl /\ j.d1 = k.d1 /\ j.d2 = k.d2 /\ j.d3 = k.d3 /\ j.w = k.w /\ j.n = k.n /\
     j.g = k.g /\ j.a = k.a /\ j.c = k.c /\ j.b = k.b
  BY <1>6 DEF MarkNames
<1>8. InPackets' /\ OParse(j)' /\ OFront(j)' /\ OVerify(j)' /\ OMeta(j)' /\ ODrop(j)' /\
     OWrite(j)' /\ OMover(j)' /\ ONotify(j)' /\ MatchSum' /\ MatchMeta' /\ MatchWrite' /\
     MatchMover' /\ Truthful'
  BY <1>7 DEF FsmSilent, Matches, Ordered, InPackets, OParse, OFront, OVerify, OMeta, ODrop, OWrite,
         OMover, ONotify, MatchSum, MatchMeta, MatchWrite, MatchMover, Truthful, AtPacket, Within,
         Before, Parsing, Forwarding, Current, CurrentPart, Parsed, ToDecide, KeptSum, ToLookup,
         Accepted, ToWrite, HasWords, MatchStatus, StatusTrue, Expected, Reported, drop, drops,
         front, input, memory
<1>9. /\ k.f < fsm_reg.id /\ fsm_reg.id <= k.fl /\ k.f <= fsm_reg.id
      /\ RunD(drop_fsm, k.d3, k.f) /\ RunS(mem_cmd, k.w, k.f) /\ RunD(notify_cache, k.n, k.f)
  BY <1>2, <1>3, RxNoneAssumption DEF Ordered, OFsm, RegIn
<1>10. \A x : x \in Elems(notify_cache') <=> x \in Elems(notify_cache) \/ (closed /\ x = e)
  <2>1. CASE closed
    <3>1. notify_cache \in Seq(Notice) /\ e \in Notice
      BY <1>2, <1>4
    <3>2. \A x : x \in Elems(Append(notify_cache, e)) <=> x = e \/ x \in Elems(notify_cache)
      BY <3>1, Write
    <3> QED BY <2>1, <1>5, <3>2
  <2>2. CASE ~closed
    BY <2>2, <1>5
  <2> QED BY <2>1, <2>2
<1>11. OFsm(j)'
  <2>1. RunD(drop_fsm, k.d3, fsm_reg.id)
    BY <1>2, <1>9, <1>3, RunDSkip, KeyIsNat
  <2>2. RunS(mem_cmd, k.w, fsm_reg.id)
    BY <1>2, <1>9, <1>3, RunSSkip
  <2>3. RunD(notify_cache', k.n, fsm_reg.id)
    <3>1. CASE closed
      BY <3>1, <1>5, <1>2, <1>4, <1>9, <1>3, RunDWrite, KeyIsNat
    <3>2. CASE ~closed
      BY <3>2, <1>5, <1>2, <1>9, <1>3, RunDSkip, KeyIsNat
    <3> QED BY <3>1, <3>2
  <2>4. RegIn(fsm_reg', fsm_reg.id, k.fl)
    BY <1>5, <1>9 DEF RegIn
  <2> QED BY <2>1, <2>2, <2>3, <2>4, <1>7 DEF FsmSilent, OFsm, drops
<1>12. MatchFsm'
  <2>1. ASSUME NEW s \in Segment  PROVE KeptMeta(s)' <=> KeptMeta(s)
    BY DEF FsmSilent, KeptMeta, drop, drops
  <2>2. ASSUME NEW s \in Segment  PROVE ToAccept(s)' <=> ToAccept(s)
    BY <1>5, <1>2, RxNoneAssumption DEF FsmSilent, ToAccept, drops
  <2> QED BY <2>1, <2>2 DEF Matches, MatchFsm
<1>13. MatchNotify'
  <2>1. ASSUME NEW s \in Segment  PROVE Announced(s)' <=> Announced(s)
    BY <1>10, <1>4 DEF FsmSilent, Announced
  <2>2. ASSUME NEW s \in Segment  PROVE Flagged(s)' <=> Flagged(s)
    BY DEF FsmSilent, Flagged
  <2> QED BY <2>1, <2>2 DEF Matches, MatchNotify
<1> QED BY <1>8, <1>11, <1>12, <1>13 DEF Core, Matches, Ordered

\* The dropper reads the first decision about a payload.
LEMMA DoReadDropSum ==
  ASSUME TInv, InPackets, Matches, NEW k \in Marks, Ordered(k), ReadDropSum
  PROVE  Core'
<1>1. PICK h : h = Head(drop_sum)
  OBVIOUS
<1>2. /\ drop_sum # <<>> /\ drop_sum \in Seq(Decision) /\ dropper = "RD_VERIFY_CHECKSUM"
      /\ dropper' \in {"DROP", "RD_META_HANDLER"} /\ (dropper' = "RD_META_HANDLER" <=> ~h.drop)
      /\ decided' = h.seg /\ drop_sum' = Tail(drop_sum)
      /\ k.d1 \in Nat /\ k.v \in Nat /\ mem_data' = mem_data
  BY <1>1, MarksAreNat DEF ReadDropSum, TInv, TDrop
<1>3. /\ h \in Decision /\ h.seg \in Segment /\ h.seg.id \in Nat
      /\ RunD(drop_sum', h.seg.id, k.v)
      /\ \A x : x \in Elems(drop_sum) <=> x = h \/ x \in Elems(drop_sum')
  BY <1>1, <1>2, Read, KeyIsNat, RunDRead DEF Ordered, OVerify
<1>4. h.seg.id \in Nat
  BY <1>3
<1>5. Forwarding = {} /\ Forwarding' = {}
  BY <1>2 DEF Forwarding
<1>6. PICK j \in Marks : j["d1"] = h.seg.id /\ \A z \in MarkNames \ {"d1"} : j[z] = k[z]
  <2>1. "d1" \in MarkNames
    BY DEF MarkNames
  <2> QED BY <2>1, Move, <1>4
<1>7. j.d1 = h.seg.id /\ j.p = k.p /\ j.vm = k.vm /\ j.v = k.v /\ j.mc = k.mc /\ j.m = k.m /\
     j.fl = k.fl /\ j.f = k.f /\ j.d2 = k.d2 /\ j.d3 = k.d3 /\ j.w = k.w /\ j.n = k.n /\
     j.g = k.g /\ j.a = k.a /\ j.c = k.c /\ j.b = k.b
  BY <1>6 DEF MarkNames
<1>8. InPackets' /\ OParse(j)' /\ OFront(j)' /\ OMeta(j)' /\ OFsm(j)' /\ OWrite(j)' /\
     OMover(j)' /\ ONotify(j)' /\ MatchMover' /\ MatchNotify' /\ Truthful'
  BY <1>7 DEF ReadDropSum, Matches, Ordered, InPackets, OParse, OFront, OMeta, OFsm, OWrite, OMover,
         ONotify, MatchMover, MatchNotify, Truthful, AtPacket, Within, Before, Parsing, Current,
         CurrentPart, HasWords, Announced, Flagged, MatchStatus, StatusTrue, Expected, Reported,
         DropperRest, checks, front, input, memory, notify, results
<1>9. OVerify(j)'
  BY <1>3, <1>2, <1>7 DEF ReadDropSum, Ordered, OVerify, checks, DropperRest
<1>10. ODrop(j)'
  BY <1>2, <1>5, <1>7 DEF Ordered, ODrop
<1>11. MatchSum'
  <2>1. ASSUME NEW s \in Segment  PROVE Parsed(s)' <=> Parsed(s)
    BY DEF ReadDropSum, Parsed, Parsing, DropperRest, front
  <2>2. ASSUME NEW s \in Segment  PROVE ToDecide(s)' <=> ToDecide(s)
    BY <1>3, <1>2 DEF ReadDropSum, ToDecide, Has, DropperRest, checks
  <2> QED BY <2>1, <2>2 DEF Matches, MatchSum
<1>12. MatchMeta'
  <2>1. ASSUME NEW s \in Segment  PROVE KeptSum(s)' <=> KeptSum(s)
    BY <1>3, <1>2 DEF KeptSum, Kept
  <2>2. ASSUME NEW s \in Segment  PROVE ToLookup(s)' <=> ToLookup(s)
    BY DEF ReadDropSum, ToLookup, DropperRest, checks
  <2> QED BY <2>1, <2>2 DEF Matches, MatchMeta
<1>13. MatchFsm'
  <2>1. ASSUME NEW s \in Segment  PROVE KeptMeta(s)' <=> KeptMeta(s)
    BY <1>2 DEF ReadDropSum, KeptMeta
  <2>2. ASSUME NEW s \in Segment  PROVE ToAccept(s)' <=> ToAccept(s)
    BY DEF ReadDropSum, ToAccept, DropperRest, checks
  <2> QED BY <2>1, <2>2 DEF Matches, MatchFsm
<1>14. MatchWrite'
  <2>1. ASSUME NEW s \in Segment  PROVE Accepted(s)' <=> Accepted(s)
    BY <1>5, <1>2 DEF ReadDropSum, Accepted
  <2>2. ASSUME NEW s \in Segment  PROVE ToWrite(s)' <=> ToWrite(s)
    BY DEF ReadDropSum, ToWrite, DropperRest, memory
  <2> QED BY <2>1, <2>2 DEF Matches, MatchWrite
<1> QED BY <1>8, <1>9, <1>10, <1>11, <1>12, <1>13, <1>14 DEF Core, Matches, Ordered

\* The second decision is about the same payload: it is the first one that is kept.
LEMMA DoReadDropMeta ==
  ASSUME TInv, InPackets, Matches, NEW k \in Marks, Ordered(k), ReadDropMeta
  PROVE  Core'
<1>1. PICK h : h = Head(drop_meta)
  OBVIOUS
<1>2. /\ drop_meta # <<>> /\ drop_meta \in Seq(Decision) /\ dropper = "RD_META_HANDLER"
      /\ dropper' \in {"DROP", "RD_FSM_DROP"} /\ (dropper' = "RD_FSM_DROP" <=> ~h.drop)
      /\ decided' = h.seg /\ drop_meta' = Tail(drop_meta)
      /\ k.d1 \in Nat /\ k.d2 \in Nat /\ k.m \in Nat /\ k.mc \in Nat /\ k.v \in Nat
      /\ mem_data' = mem_data /\ decided \in Segment /\ decided.id \in Nat
      /\ drop_sum \in Seq(Decision) /\ meta_valid \in Seq(Segment) /\ meta_reg \in Segment \cup {None}
  BY <1>1, MarksAreNat, KeyIsNat DEF ReadDropMeta, AfterMeta, TInv, TDrop, TChecks
<1>3. /\ h \in Decision /\ h.seg \in Segment /\ h.seg.id \in Nat
      /\ RunD(drop_meta', h.seg.id, k.m) /\ h.seg.id <= k.m
      /\ \A x : x \in Elems(drop_meta) <=> x = h \/ x \in Elems(drop_meta')
  BY <1>1, <1>2, Read, KeyIsNat, RunDRead DEF Ordered, OMeta
<1>4. h.seg.id \in Nat
  BY <1>3
<1>5. KeptSum(decided) /\ \A d \in Elems(drop_sum) : d.seg.id > decided.id
  BY <1>2, KeyIsNat, Types DEF Ordered, OVerify, ODrop, RunD, KeptSum
<1>6. /\ ToLookup(h.seg)
      /\ \A d \in Elems(drop_meta') : d.seg.id > h.seg.id
      /\ meta_reg # None => meta_reg.id > h.seg.id
      /\ \A s \in Elems(meta_valid) : s.id > h.seg.id
  <2>1. k.m <= k.mc /\ (meta_reg # None => k.m < meta_reg.id /\ meta_reg.id \in Nat)
    BY <1>2, KeyIsNat DEF Ordered, OMeta, RegIn
  <2>2. \A s \in Elems(meta_valid) : k.mc < s.id /\ s.id \in Nat
    BY <1>2, KeyIsNat, Types DEF Ordered, OVerify, RunS
  <2>3. \A d \in Elems(drop_meta') : d.seg.id > h.seg.id
    BY <1>3, <1>2 DEF RunD
  <2>4. ToLookup(h.seg)
    BY <1>3 DEF ToLookup, Has
  <2>5. k.m \in Nat /\ k.mc \in Nat /\ h.seg.id \in Nat /\ h.seg.id <= k.m /\ k.m <= k.mc
    BY <2>1, <1>3, <1>2
  <2>6. meta_reg # None => meta_reg.id > h.seg.id
    BY <2>1, <2>5
  <2>7. \A s \in Elems(meta_valid) : s.id > h.seg.id
    BY <2>2, <2>5
  <2> QED BY <2>3, <2>4, <2>6, <2>7
<1>7. h.seg = decided
  <2>1. h.seg = decided \/ h.seg.id > decided.id
    BY <1>5, <1>6, <1>3 DEF Matches, MatchMeta, KeptSum, Kept
  <2>2. decided = h.seg \/ decided.id > h.seg.id
    BY <1>5, <1>6, <1>3, <1>2, RxNoneAssumption DEF Matches, MatchMeta, ToLookup, Has
  <2>3. ~(h.seg.id > decided.id /\ decided.id > h.seg.id)
    BY <1>3, <1>2
  <2> QED BY <2>1, <2>2, <2>3
<1>8. Forwarding = {} /\ Forwarding' = {}
  BY <1>2 DEF Forwarding
<1>9. PICK j \in Marks : j["d2"] = h.seg.id /\ \A z \in MarkNames \ {"d2"} : j[z] = k[z]
  <2>1. "d2" \in MarkNames
    BY DEF MarkNames
  <2> QED BY <2>1, Move, <1>4
<1>10. j.d2 = h.seg.id /\ j.p = k.p /\ j.vm = k.vm /\ j.v = k.v /\ j.mc = k.mc /\ j.m = k.m /\
      j.fl = k.fl /\ j.f = k.f /\ j.d1 = k.d1 /\ j.d3 = k.d3 /\ j.w = k.w /\ j.n = k.n /\
      j.g = k.g /\ j.a = k.a /\ j.c = k.c /\ j.b = k.b
  BY <1>9 DEF MarkNames
<1>11. InPackets' /\ OParse(j)' /\ OFront(j)' /\ OVerify(j)' /\ OFsm(j)' /\ OWrite(j)' /\
      OMover(j)' /\ ONotify(j)' /\ MatchMover' /\ MatchNotify' /\ Truthful'
  BY <1>10 DEF ReadDropMeta, Matches, Ordered, InPackets, OParse, OFront, OVerify, OFsm, OWrite,
         OMover, ONotify, MatchMover, MatchNotify, Truthful, AtPacket, Within, Before, Parsing,
         Current, CurrentPart, HasWords, Announced, Flagged, MatchStatus, StatusTrue, Expected,
         Reported, DropperRest, checks, front, input, memory, notify, results
<1>12. OMeta(j)'
  BY <1>3, <1>2, <1>10 DEF ReadDropMeta, Ordered, OMeta, checks, DropperRest
<1>13. ODrop(j)'
  BY <1>2, <1>8, <1>10, <1>7 DEF Ordered, ODrop
<1>14. MatchSum'
  <2>1. ASSUME NEW s \in Segment  PROVE Parsed(s)' <=> Parsed(s)
    BY DEF ReadDropMeta, Parsed, Parsing, DropperRest, front
  <2>2. ASSUME NEW s \in Segment  PROVE ToDecide(s)' <=> ToDecide(s)
    BY <1>7, <1>2 DEF ReadDropMeta, ToDecide, Has, DropperRest, checks
  <2> QED BY <2>1, <2>2 DEF Matches, MatchSum
<1>15. MatchMeta'
  <2>1. ASSUME NEW s \in Segment  PROVE KeptSum(s)' <=> KeptSum(s) /\ s # decided
    <3>1. ~Kept(drop_sum, decided)
      BY <1>5, <1>2 DEF Kept
    <3> QED BY <3>1, <1>2 DEF ReadDropMeta, KeptSum
  <2>2. ASSUME NEW s \in Segment  PROVE ToLookup(s)' <=> ToLookup(s) /\ s # decided
    <3>1. /\ ~Has(drop_meta', decided) /\ meta_reg # decided
          /\ decided \notin Elems(meta_valid)
      BY <1>6, <1>7, <1>2, RxNoneAssumption DEF Has
    <3>2. Has(drop_meta, s) <=> s = decided \/ Has(drop_meta', s)
      BY <1>3, <1>7 DEF Has
    <3> QED BY <3>1, <3>2 DEF ReadDropMeta, ToLookup, DropperRest, checks
  <2> QED BY <2>1, <2>2 DEF Matches, MatchMeta
<1>16. MatchFsm'
  <2>1. ASSUME NEW s \in Segment  PROVE KeptMeta(s)' <=> KeptMeta(s)
    BY <1>2, <1>3 DEF KeptMeta, Kept
  <2>2. ASSUME NEW s \in Segment  PROVE ToAccept(s)' <=> ToAccept(s)
    BY DEF ReadDropMeta, ToAccept, DropperRest, checks
  <2> QED BY <2>1, <2>2 DEF Matches, MatchFsm
<1>17. MatchWrite'
  <2>1. ASSUME NEW s \in Segment  PROVE Accepted(s)' <=> Accepted(s)
    BY <1>8, <1>2 DEF ReadDropMeta, Accepted
  <2>2. ASSUME NEW s \in Segment  PROVE ToWrite(s)' <=> ToWrite(s)
    BY DEF ReadDropMeta, ToWrite, DropperRest, memory
  <2> QED BY <2>1, <2>2 DEF Matches, MatchWrite
<1> QED BY <1>11, <1>12, <1>13, <1>14, <1>15, <1>16, <1>17 DEF Core, Matches, Ordered

\* The same of the third one.
LEMMA DoReadDropFsm ==
  ASSUME TInv, InPackets, Matches, NEW k \in Marks, Ordered(k), ReadDropFsm
  PROVE  Core'
<1>1. PICK h : h = Head(drop_fsm)
  OBVIOUS
<1>2. /\ drop_fsm # <<>> /\ drop_fsm \in Seq(Decision) /\ dropper = "RD_FSM_DROP"
      /\ dropper' \in {"DROP", "FWD"} /\ (dropper' = "FWD" <=> ~h.drop)
      /\ decided' = h.seg /\ drop_fsm' = Tail(drop_fsm)
      /\ k.d2 \in Nat /\ k.d3 \in Nat /\ k.f \in Nat /\ k.fl \in Nat /\ k.m \in Nat
      /\ mem_data' = mem_data /\ decided \in Segment /\ decided.id \in Nat
      /\ drop_meta \in Seq(Decision) /\ fsm_meta \in Seq(Segment) /\ fsm_reg \in Segment \cup {None}
      /\ mem_data \in Seq(Word)
  BY <1>1, MarksAreNat, KeyIsNat DEF ReadDropFsm, TInv, TDrop, TChecks, TMemory
<1>3. /\ h \in Decision /\ h.seg \in Segment /\ h.seg.id \in Nat
      /\ RunD(drop_fsm', h.seg.id, k.f) /\ h.seg.id <= k.f /\ k.d3 < h.seg.id
      /\ \A x : x \in Elems(drop_fsm) <=> x = h \/ x \in Elems(drop_fsm')
  BY <1>1, <1>2, Read, KeyIsNat, RunDRead DEF Ordered, OFsm
<1>4. h.seg.id \in Nat
  BY <1>3
<1>5. KeptMeta(decided) /\ \A d \in Elems(drop_meta) : d.seg.id > decided.id
  BY <1>2, KeyIsNat, Types DEF Ordered, OMeta, ODrop, RunD, KeptMeta
<1>6. /\ ToAccept(h.seg)
      /\ \A d \in Elems(drop_fsm') : d.seg.id > h.seg.id
      /\ fsm_reg # None => fsm_reg.id > h.seg.id
      /\ \A s \in Elems(fsm_meta) : s.id > h.seg.id
  <2>1. k.f <= k.fl /\ (fsm_reg # None => k.f < fsm_reg.id /\ fsm_reg.id \in Nat)
    BY <1>2, KeyIsNat DEF Ordered, OFsm, RegIn
  <2>2. \A s \in Elems(fsm_meta) : k.fl < s.id /\ s.id \in Nat
    BY <1>2, KeyIsNat, Types DEF Ordered, OMeta, RunS
  <2>3. \A d \in Elems(drop_fsm') : d.seg.id > h.seg.id
    BY <1>3, <1>2 DEF RunD
  <2>4. ToAccept(h.seg)
    BY <1>3 DEF ToAccept, Has
  <2>5. k.f \in Nat /\ k.fl \in Nat /\ h.seg.id \in Nat /\ h.seg.id <= k.f /\ k.f <= k.fl
    BY <2>1, <1>3, <1>2
  <2>6. fsm_reg # None => fsm_reg.id > h.seg.id
    BY <2>1, <2>5
  <2>7. \A s \in Elems(fsm_meta) : s.id > h.seg.id
    BY <2>2, <2>5
  <2> QED BY <2>3, <2>4, <2>6, <2>7
<1>7. h.seg = decided
  <2>1. h.seg = decided \/ h.seg.id > decided.id
    BY <1>5, <1>6, <1>3 DEF Matches, MatchFsm, KeptMeta, Kept
  <2>2. decided = h.seg \/ decided.id > h.seg.id
    BY <1>5, <1>6, <1>3, <1>2, RxNoneAssumption DEF Matches, MatchFsm, ToAccept, Has
  <2>3. ~(h.seg.id > decided.id /\ decided.id > h.seg.id)
    BY <1>3, <1>2
  <2> QED BY <2>1, <2>2, <2>3
<1>8. Forwarding = {} /\ Forwarding' = IF h.drop THEN {} ELSE {h.seg}
  BY <1>2 DEF Forwarding
<1>9. PICK j \in Marks : j["d3"] = h.seg.id /\ \A z \in MarkNames \ {"d3"} : j[z] = k[z]
  <2>1. "d3" \in MarkNames
    BY DEF MarkNames
  <2> QED BY <2>1, Move, <1>4
<1>10. j.d3 = h.seg.id /\ j.p = k.p /\ j.vm = k.vm /\ j.v = k.v /\ j.mc = k.mc /\ j.m = k.m /\
      j.fl = k.fl /\ j.f = k.f /\ j.d1 = k.d1 /\ j.d2 = k.d2 /\ j.w = k.w /\ j.n = k.n /\
      j.g = k.g /\ j.a = k.a /\ j.c = k.c /\ j.b = k.b
  BY <1>9 DEF MarkNames
<1>11. InPackets' /\ OParse(j)' /\ OFront(j)' /\ OVerify(j)' /\ OMeta(j)' /\ OWrite(j)' /\
      OMover(j)' /\ ONotify(j)' /\ MatchMover' /\ MatchNotify' /\ Truthful'
  BY <1>10 DEF ReadDropFsm, Matches, Ordered, InPackets, OParse, OFront, OVerify, OMeta, OWrite,
         OMover, ONotify, MatchMover, MatchNotify, Truthful, AtPacket, Within, Before, Parsing,
         Current, CurrentPart, HasWords, Announced, Flagged, MatchStatus, StatusTrue, Expected,
         Reported, DropperRest, checks, front, input, memory, notify, results
<1>12. OFsm(j)'
  BY <1>3, <1>2, <1>10 DEF ReadDropFsm, Ordered, OFsm, checks, notify, DropperRest
<1>13. ODrop(j)'
  <2>1. Words(mem_data, {}, k.d3) /\ k.d3 <= h.seg.id
    BY <1>8, <1>3, <1>2 DEF Ordered, ODrop
  <2>2. Words(mem_data, {}, h.seg.id)
    BY <2>1, <1>2, <1>3, WordsSkip
  <2>3. Words(mem_data, {h.seg}, h.seg.id)
    BY <2>1, <1>2, <1>3, WordsBegin
  <2>4. decided.id = k.d1
    BY <1>2 DEF Ordered, ODrop
  <2> QED BY <2>2, <2>3, <2>4, <1>2, <1>8, <1>10, <1>7 DEF ODrop
<1>14. MatchSum'
  <2>1. ASSUME NEW s \in Segment  PROVE Parsed(s)' <=> Parsed(s)
    BY DEF ReadDropFsm, Parsed, Parsing, DropperRest, front
  <2>2. ASSUME NEW s \in Segment  PROVE ToDecide(s)' <=> ToDecide(s)
    BY <1>7, <1>2 DEF ReadDropFsm, ToDecide, Has, DropperRest, checks
  <2> QED BY <2>1, <2>2 DEF Matches, MatchSum
<1>15. MatchMeta'
  <2>1. ASSUME NEW s \in Segment  PROVE KeptSum(s)' <=> KeptSum(s)
    BY <1>2 DEF ReadDropFsm, KeptSum
  <2>2. ASSUME NEW s \in Segment  PROVE ToLookup(s)' <=> ToLookup(s)
    BY DEF ReadDropFsm, ToLookup, DropperRest, checks
  <2> QED BY <2>1, <2>2 DEF Matches, MatchMeta
<1>16. MatchFsm'
  <2>1. ASSUME NEW s \in Segment  PROVE KeptMeta(s)' <=> KeptMeta(s) /\ s # decided
    <3>1. ~Kept(drop_meta, decided)
      BY <1>5, <1>2 DEF Kept
    <3> QED BY <3>1, <1>2 DEF ReadDropFsm, KeptMeta
  <2>2. ASSUME NEW s \in Segment  PROVE ToAccept(s)' <=> ToAccept(s) /\ s # decided
    <3>1. /\ ~Has(drop_fsm', decided) /\ fsm_reg # decided
          /\ decided \notin Elems(fsm_meta)
      BY <1>6, <1>7, <1>2, RxNoneAssumption DEF Has
    <3>2. Has(drop_fsm, s) <=> s = decided \/ Has(drop_fsm', s)
      BY <1>3, <1>7 DEF Has
    <3> QED BY <3>1, <3>2 DEF ReadDropFsm, ToAccept, DropperRest, checks
  <2> QED BY <2>1, <2>2 DEF Matches, MatchFsm
<1>17. MatchWrite'
  <2>1. ASSUME NEW s \in Segment  PROVE Accepted(s)' <=> Accepted(s)
    BY <1>8, <1>2, <1>3 DEF Accepted, Kept
  <2>2. ASSUME NEW s \in Segment  PROVE ToWrite(s)' <=> ToWrite(s)
    BY DEF ReadDropFsm, ToWrite, DropperRest, memory
  <2> QED BY <2>1, <2>2 DEF Matches, MatchWrite
<1> QED BY <1>11, <1>12, <1>13, <1>14, <1>15, <1>16, <1>17 DEF Core, Matches, Ordered

\* The payload that is moved is the one that was decided on: it is the first in its FIFO, and
\* the other segments to decide on come later.
LEMMA DecidedFirst ==
  ASSUME TInv, Matches, NEW k \in Marks, Ordered(k), dropper \in {"FWD", "DROP"}, payload # <<>>,
         NEW h, h = Head(payload)
  PROVE  /\ h.seg = decided
         /\ ~Has(drop_sum, decided) /\ verify_reg # decided /\ decided \notin Elems(meta)
<1>1. /\ payload \in Seq(Word) /\ drop_sum \in Seq(Decision) /\ meta \in Seq(Segment)
      /\ verify_reg \in Segment \cup {None} /\ decided \in Segment /\ decided.id \in Nat
      /\ k.d1 \in Nat /\ k.v \in Nat /\ k.vm \in Nat /\ k.p \in Nat
      /\ Parsing \subseteq Segment
  BY MarksAreNat, KeyIsNat DEF TInv, TParse, TChecks, TDrop, Parsing
<1>2. /\ h \in Word /\ h.seg \in Segment /\ h.seg.id \in Nat
      /\ \A x : x \in Elems(payload) <=> x = h \/ x \in Elems(Tail(payload))
  BY <1>1, Read, KeyIsNat
<1>3. /\ \A x \in Elems(Tail(payload)) : h.seg.id <= x.seg.id
      /\ \A s \in Parsing : h.seg.id <= s.id
  BY <1>1, WordsRead DEF Ordered, OFront
<1>4. decided.id = k.d1 /\ k.d1 <= k.v /\ k.v <= k.vm
  BY DEF Ordered, ODrop, OVerify, RunD, RegIn
<1>5. /\ \A d \in Elems(drop_sum) : d.seg.id > decided.id
      /\ verify_reg # None => verify_reg.id > decided.id
      /\ \A s \in Elems(meta) : s.id > decided.id
  <2>1. \A d \in Elems(drop_sum) : d.seg.id > k.d1
    BY <1>1, KeyIsNat, Types DEF Ordered, OVerify, RunD
  <2>2. verify_reg # None => verify_reg.id > k.v /\ verify_reg.id \in Nat
    BY <1>1, KeyIsNat DEF Ordered, OVerify, RegIn
  <2>3. \A s \in Elems(meta) : s.id > k.vm /\ s.id \in Nat
    BY <1>1, KeyIsNat, Types DEF Ordered, OFront, RunS
  <2> QED BY <2>1, <2>2, <2>3, <1>1, <1>4
<1>6. h.seg = decided \/ h.seg.id > decided.id
  <2>1. ToDecide(h.seg)
    BY <1>2 DEF Matches, MatchSum, Parsed, Has
  <2> QED BY <2>1, <1>5, <1>2, RxNoneAssumption DEF ToDecide, Has
<1>7. decided = h.seg \/ decided.id >= h.seg.id
  <2>1. Parsed(decided)
    BY <1>1 DEF Matches, MatchSum, ToDecide
  <2> QED BY <2>1, <1>1, <1>2, <1>3 DEF Parsed, Has
<1>8. ~(h.seg.id > decided.id /\ decided.id >= h.seg.id)
  BY <1>1, <1>2
<1>9. ~Has(drop_sum, decided) /\ verify_reg # decided /\ decided \notin Elems(meta)
  BY <1>1, <1>5, RxNoneAssumption DEF Has
<1> QED BY <1>6, <1>7, <1>8, <1>9

LEMMA DoMoveWord ==
  ASSUME TInv, InPackets, Matches, NEW k \in Marks, Ordered(k), MoveWord
  PROVE  Core'
<1>1. PICK h : h = Head(payload)
  OBVIOUS
<1>2. /\ payload # <<>> /\ payload \in Seq(Word) /\ dropper \in {"FWD", "DROP"}
      /\ dropper' = IF h.last THEN "RD_VERIFY_CHECKSUM" ELSE dropper
      /\ decided' = decided /\ payload' = Tail(payload) /\ mem_data \in Seq(Word)
      /\ dropper = "FWD" => mem_data' = Append(mem_data, h)
      /\ dropper = "DROP" => mem_data' = mem_data
      /\ decided \in Segment /\ k.p \in Nat /\ k.d3 \in Nat /\ Parsing \subseteq Segment
      /\ Parsing' = Parsing
  BY <1>1, MarksAreNat DEF MoveWord, Put, TInv, TDrop, TParse, TMemory, Parsing, DropperRest, front
<1>3. h.seg = decided /\ ~Has(drop_sum, decided) /\ verify_reg # decided /\ decided \notin Elems(meta)
  BY <1>1, <1>2, DecidedFirst
<1>4. /\ h \in Word /\ h.seg \in Segment /\ h.seg.id \in Nat
      /\ \A x : x \in Elems(payload) <=> x = h \/ x \in Elems(payload')
  BY <1>1, <1>2, Read, KeyIsNat
<1>5. /\ Words(payload', Parsing', k.p)
      /\ h.last => /\ \A x \in Elems(payload') : h.seg.id < x.seg.id
                   /\ \A s \in Parsing : h.seg.id < s.id
      /\ ~h.last => h.seg \in Parsing \/ Has(payload', h.seg)
  BY <1>1, <1>2, WordsRead DEF Ordered, OFront
<1>6. /\ dropper = "FWD" => Forwarding = {h.seg} /\ Forwarding' = IF h.last THEN {} ELSE {h.seg}
      /\ dropper = "DROP" => Forwarding = {} /\ Forwarding' = {}
  BY <1>2, <1>3 DEF Forwarding
<1>7. InPackets' /\ OParse(k)' /\ OVerify(k)' /\ OMeta(k)' /\ OFsm(k)' /\ OWrite(k)' /\
     OMover(k)' /\ ONotify(k)' /\ MatchMover' /\ MatchNotify' /\ Truthful'
  BY DEF MoveWord, Matches, Ordered, InPackets, OParse, OVerify, OMeta, OFsm, OWrite, OMover,
         ONotify, MatchMover, MatchNotify, Truthful, AtPacket, Within, Before, Parsing, Current,
         CurrentPart, HasWords, Announced, Flagged, MatchStatus, StatusTrue, Expected, Reported,
         DropperRest, checks, drops, front, input, memory, notify, results
<1>8. OFront(k)'
  BY <1>5 DEF MoveWord, Ordered, OFront, DropperRest
<1>9. ODrop(k)'
  <2>1. Words(mem_data', Forwarding', k.d3)
    <3>1. CASE dropper = "FWD"
      <4>1. Words(mem_data, {h.seg}, k.d3)
        BY <3>1, <1>6 DEF Ordered, ODrop
      <4>2. Words(Append(mem_data, h), IF h.last THEN {} ELSE {h.seg}, k.d3)
        BY <4>1, <1>2, <1>4, WordsWrite
      <4> QED BY <3>1, <4>2, <1>2, <1>6
    <3>2. CASE dropper = "DROP"
      BY <3>2, <1>2, <1>6 DEF Ordered, ODrop
    <3> QED BY <3>1, <3>2, <1>2
  <2>2. decided.id = k.d1
    BY <1>2 DEF Ordered, ODrop
  <2> QED BY <2>1, <2>2, <1>2 DEF ODrop
<1>10. MatchSum'
  <2>1. ASSUME NEW s \in Segment  PROVE Parsed(s)' <=> Parsed(s) /\ ~(h.last /\ s = h.seg)
    <3>1. Has(payload, s) <=> s = h.seg \/ Has(payload', s)
      BY <1>4 DEF Has
    <3>2. h.last => ~Has(payload', h.seg) /\ h.seg \notin Parsing
      BY <1>5, <1>4 DEF Has
    <3> QED BY <3>1, <3>2, <1>5, <1>2 DEF Parsed
  <2>2. ASSUME NEW s \in Segment  PROVE ToDecide(s)' <=> ToDecide(s) /\ ~(h.last /\ s = h.seg)
    BY <1>3, <1>2 DEF MoveWord, ToDecide, DropperRest, checks, drops
  <2> QED BY <2>1, <2>2 DEF Matches, MatchSum
<1>11. MatchMeta'
  <2>1. ASSUME NEW s \in Segment  PROVE KeptSum(s)' <=> KeptSum(s)
    BY <1>2 DEF MoveWord, KeptSum, drops
  <2>2. ASSUME NEW s \in Segment  PROVE ToLookup(s)' <=> ToLookup(s)
    BY DEF MoveWord, ToLookup, DropperRest, checks, drops
  <2> QED BY <2>1, <2>2 DEF Matches, MatchMeta
<1>12. MatchFsm'
  <2>1. ASSUME NEW s \in Segment  PROVE KeptMeta(s)' <=> KeptMeta(s)
    BY <1>2 DEF MoveWord, KeptMeta, drops
  <2>2. ASSUME NEW s \in Segment  PROVE ToAccept(s)' <=> ToAccept(s)
    BY DEF MoveWord, ToAccept, DropperRest, checks, drops
  <2> QED BY <2>1, <2>2 DEF Matches, MatchFsm
<1>13. MatchWrite'
  <2>1. ASSUME NEW s \in Segment  PROVE Accepted(s)' <=> Accepted(s)
    <3>1. CASE dropper = "FWD"
      <4>1. \A x : x \in Elems(mem_data') <=> x = h \/ x \in Elems(mem_data)
        BY <3>1, <1>2, <1>4, Write
      <4> QED BY <3>1, <4>1, <1>6 DEF MoveWord, Accepted, Has, drops
    <3>2. CASE dropper = "DROP"
      BY <3>2, <1>6, <1>2 DEF MoveWord, Accepted, drops
    <3> QED BY <3>1, <3>2, <1>2
  <2>2. ASSUME NEW s \in Segment  PROVE ToWrite(s)' <=> ToWrite(s)
    BY DEF MoveWord, ToWrite, DropperRest, memory
  <2> QED BY <2>1, <2>2 DEF Matches, MatchWrite
<1> QED BY <1>7, <1>8, <1>9, <1>10, <1>11, <1>12, <1>13 DEF Core, Matches, Ordered

\* The writer.
LEMMA AccessIs ==
  ASSUME NEW a \in Access, NEW c \in Access
  PROVE  a = c <=> a.seg = c.seg /\ a.part = c.part
BY DEF Access

\* The words the writer takes are those of the segment its command is about: they are the first
\* in their FIFO, and the other commands are about later segments.
LEMMA WriterTakes ==
  ASSUME TInv, Matches, NEW k \in Marks, Ordered(k), writer \notin {"WAIT_CMD", "FWD_EXTRA"},
         mem_data # <<>>, NEW h, h = Head(mem_data)
  PROVE  /\ h \in Word /\ h.seg = writer_seg /\ writer_seg \in Segment
         /\ writer_seg \notin Elems(mem_cmd)
         /\ Words(Tail(mem_data), Forwarding, k.d3)
         /\ \A s \in Segment : (s \in Forwarding \/ Kept(drop_fsm, s) \/ Has(Tail(mem_data), s))
                                 <=> Accepted(s) /\ ~(h.last /\ s = h.seg)
<1>1. /\ mem_data \in Seq(Word) /\ drop_fsm \in Seq(Decision) /\ mem_cmd \in Seq(Segment)
      /\ writer_seg \in Segment /\ writer_seg.id \in Nat
      /\ k.w \in Nat /\ k.d3 \in Nat /\ k.f \in Nat /\ Forwarding \subseteq Segment
  BY MarksAreNat, KeyIsNat DEF TInv, TMemory, TDrop, TWrite, Forwarding
<1>2. /\ h \in Word /\ h.seg \in Segment /\ h.seg.id \in Nat
      /\ \A x : x \in Elems(mem_data) <=> x = h \/ x \in Elems(Tail(mem_data))
  BY <1>1, Read, KeyIsNat
<1>3. /\ Words(Tail(mem_data), Forwarding, k.d3) /\ h.seg.id <= k.d3
      /\ \A x \in Elems(Tail(mem_data)) : h.seg.id <= x.seg.id
      /\ \A s \in Forwarding : h.seg.id <= s.id
      /\ h.last => /\ \A x \in Elems(Tail(mem_data)) : h.seg.id < x.seg.id
                   /\ \A s \in Forwarding : h.seg.id < s.id
      /\ ~h.last => h.seg \in Forwarding \/ Has(Tail(mem_data), h.seg)
  BY <1>1, WordsRead DEF Ordered, ODrop
<1>4. writer_seg.id = k.w /\ \A s \in Elems(mem_cmd) : k.w < s.id
  BY DEF Ordered, OFsm, OWrite, RunS
<1>5. \A d \in Elems(drop_fsm) : h.seg.id < d.seg.id /\ d.seg.id \in Nat
  <2>1. \A d \in Elems(drop_fsm) : k.d3 < d.seg.id /\ d.seg.id \in Nat
    BY <1>1, KeyIsNat, Types DEF Ordered, OFsm, RunD
  <2> QED BY <2>1, <1>1, <1>2, <1>3
<1>6. writer_seg \notin Elems(mem_cmd)
  BY <1>1, <1>4
<1>7. h.seg = writer_seg
  <2>1. h.seg = writer_seg \/ h.seg.id > writer_seg.id
    <3>1. Accepted(h.seg)
      BY <1>2 DEF Accepted, Has
    <3> QED BY <3>1, <1>1, <1>2, <1>4 DEF Matches, MatchWrite, ToWrite
  <2>2. h.seg = writer_seg \/ h.seg.id <= writer_seg.id
    <3>1. Accepted(writer_seg)
      BY <1>1 DEF Matches, MatchWrite, ToWrite
    <3>2. Kept(drop_fsm, writer_seg) => h.seg.id <= writer_seg.id
      BY <1>1, <1>2, <1>5 DEF Kept
    <3>3. Has(mem_data, writer_seg) => h.seg = writer_seg \/ h.seg.id <= writer_seg.id
      BY <1>2, <1>3 DEF Has
    <3> QED BY <3>1, <3>2, <3>3, <1>3 DEF Accepted
  <2> QED BY <2>1, <2>2, <1>1, <1>2
<1>8. ASSUME NEW s \in Segment
      PROVE  (s \in Forwarding \/ Kept(drop_fsm, s) \/ Has(Tail(mem_data), s))
               <=> Accepted(s) /\ ~(h.last /\ s = h.seg)
  <2>1. Has(mem_data, s) <=> s = h.seg \/ Has(Tail(mem_data), s)
    BY <1>2 DEF Has
  <2>2. h.last => h.seg \notin Forwarding /\ ~Has(Tail(mem_data), h.seg)
    BY <1>2, <1>3 DEF Has
  <2>3. ~Kept(drop_fsm, h.seg)
    BY <1>2, <1>5 DEF Kept
  <2> QED BY <2>1, <2>2, <2>3, <1>3 DEF Accepted
<1> QED BY <1>1, <1>2, <1>3, <1>6, <1>7, <1>8

LEMMA DoWriterCmd ==
  ASSUME TInv, InPackets, Matches, NEW k \in Marks, Ordered(k), NEW b \in BOOLEAN, WriterCmd(b)
  PROVE  Core'
<1>1. PICK h : h = Head(mem_cmd)
  OBVIOUS
<1>2. PICK c : c = [seg |-> h, part |-> IF b THEN 1 ELSE 2]
  OBVIOUS
<1>3. PICK f : f = [seg |-> h, double |-> b]
  OBVIOUS
<1>4. /\ mem_cmd # <<>> /\ mem_cmd \in Seq(Segment) /\ mem_cmd' = Tail(mem_cmd)
      /\ writer = "WAIT_CMD" /\ writer_seg' = h
      /\ writer' = IF b THEN "FWD_BREAKDOWN_0" ELSE "FWD_NO_BREAKDOWN"
      /\ double_flag' = Append(double_flag, f) /\ double_flag \in Seq(Flag)
      /\ mover_cmd' = Append(mover_cmd, c) /\ mover_cmd \in Seq(Access)
      /\ mover_data' = mover_data /\ mover_data \in Seq(AccessWord)
      /\ k.w \in Nat /\ k.a \in Nat /\ k.f \in Nat /\ k.c \in Nat /\ k.g \in Nat
  BY <1>1, <1>2, <1>3, MarksAreNat DEF WriterCmd, Put, PutCmd, TInv, TMemory, TWrite, TFlag
<1>5. /\ h \in Segment /\ h.id \in Nat /\ k.w < h.id /\ RunS(mem_cmd', h.id, k.f)
      /\ \A s : s \in Elems(mem_cmd) <=> s = h \/ s \in Elems(mem_cmd')
  BY <1>1, <1>4, Read, KeyIsNat, RunSRead DEF Ordered, OFsm
<1>6. /\ c \in Access /\ c.seg = h /\ c.part = IF b THEN 1 ELSE 2
      /\ No(c) \in Nat /\ No(c) = 2 * h.id + c.part
      /\ f \in Flag /\ f.seg = h /\ f.double = b
  BY <1>2, <1>3, <1>5, KeyIsNat DEF Access, Flag, No
<1>7. h.id \in Nat /\ No(c) \in Nat
  BY <1>5, <1>6
<1>8. k.a < No(c) /\ No(c) <= 2 * h.id + 2
  <2>1. k.a <= 2 * k.w + 2
    BY DEF Ordered, OWrite
  <2>2. No(c) = 2 * h.id + 1 \/ No(c) = 2 * h.id + 2
    BY <1>6
  <2>3. h.id \in Nat /\ k.w \in Nat /\ k.w + 1 <= h.id /\ k.a \in Nat
    BY <1>5, <1>4
  <2> QED BY <2>1, <2>2, <2>3
<1>9. Current = {} /\ Current' = {c}
  BY <1>4, <1>2 DEF Current, CurrentPart
<1>10. PICK j \in Marks : /\ j["w"] = h.id /\ j["a"] = No(c)
                      /\ \A z \in MarkNames \ {"w", "a"} : j[z] = k[z]
  <2>1. "w" \in MarkNames /\ "a" \in MarkNames /\ "w" # "a"
    BY DEF MarkNames
  <2> QED BY <2>1, MoveTwo, <1>7
<1>11. j.w = h.id /\ j.a = No(c) /\ j.p = k.p /\ j.vm = k.vm /\ j.v = k.v /\ j.mc = k.mc /\
      j.m = k.m /\ j.fl = k.fl /\ j.f = k.f /\ j.d1 = k.d1 /\ j.d2 = k.d2 /\ j.d3 = k.d3 /\
      j.n = k.n /\ j.g = k.g /\ j.c = k.c /\ j.b = k.b
  BY <1>10 DEF MarkNames
<1>12. InPackets' /\ OParse(j)' /\ OFront(j)' /\ OVerify(j)' /\ OMeta(j)' /\ ODrop(j)' /\
      MatchSum' /\ MatchMeta' /\ MatchFsm'
  BY <1>11 DEF WriterCmd, Matches, Ordered, InPackets, OParse, OFront, OVerify, OMeta, ODrop, MatchSum,
         MatchMeta, MatchFsm, AtPacket, Within, Before, Parsing, Forwarding, Parsed, ToDecide,
         KeptSum, ToLookup, KeptMeta, ToAccept, WriterRest, checks, drop, drops, front, input,
         notify, results
<1>13. OFsm(j)'
  BY <1>5, <1>4, <1>11 DEF WriterCmd, Ordered, OFsm, WriterRest, checks, drops, notify
<1>14. OWrite(j)'
  <2>1. AccessWords(mover_data, {c}, No(c))
    BY <1>4, <1>6, <1>8, <1>9, AccessWordsBegin DEF Ordered, OWrite
  <2> QED BY <2>1, <1>9, <1>4, <1>8, <1>11 DEF OWrite
<1>15. OMover(j)'
  <2>1. RunA(mover_cmd', k.c, No(c))
    BY <1>4, <1>6, <1>8, RunAWrite DEF Ordered, OMover
  <2> QED BY <2>1, <1>11 DEF WriterCmd, Ordered, OMover
<1>16. ONotify(j)'
  <2>1. RunD(double_flag', k.g, h.id)
    BY <1>4, <1>6, <1>5, RunDWrite, KeyIsNat DEF Ordered, ONotify
  <2> QED BY <2>1, <1>11 DEF WriterCmd, Ordered, ONotify, WriterRest, notify
<1>17. MatchWrite'
  <2>1. ASSUME NEW s \in Segment  PROVE Accepted(s)' <=> Accepted(s)
    BY DEF WriterCmd, Accepted, Forwarding, WriterRest, drop, drops
  <2>2. ASSUME NEW s \in Segment  PROVE ToWrite(s)' <=> ToWrite(s)
    BY <1>4, <1>5 DEF ToWrite
  <2> QED BY <2>1, <2>2 DEF Matches, MatchWrite
<1>18. MatchMover'
  <2>1. \A x : x \in Elems(mover_cmd') <=> x = c \/ x \in Elems(mover_cmd)
    BY <1>4, <1>6, Write
  <2>2. ASSUME NEW x \in Access  PROVE HasWords(x)' <=> x = c \/ HasWords(x)
    BY <1>9, <1>4 DEF HasWords
  <2> QED BY <2>1, <2>2 DEF Matches, MatchMover
<1>19. MatchNotify'
  <2>1. ASSUME NEW s \in Segment  PROVE Announced(s)' <=> Announced(s)
    BY DEF WriterCmd, Announced, WriterRest, notify
  <2>2. ASSUME NEW s \in Segment  PROVE Flagged(s)' <=> Flagged(s)
    <3>1. \A x : x \in Elems(double_flag') <=> x = f \/ x \in Elems(double_flag)
      BY <1>4, <1>6, Write
    <3> QED BY <3>1, <1>5, <1>6 DEF Flagged, Has
  <2> QED BY <2>1, <2>2 DEF Matches, MatchNotify
<1>20. Truthful'
  <2> SUFFICES ASSUME failed = {}  PROVE MatchStatus' /\ StatusTrue' /\ notified' \subseteq stored'
    BY DEF WriterCmd, results, Truthful
  <2>1. StatusTrue' /\ notified' \subseteq stored'
    BY DEF WriterCmd, WriterRest, notify, results, Matches, Truthful, StatusTrue
  <2>2. ASSUME NEW x \in Access
        PROVE  Expected(x)' <=> Expected(x) \/ (x.seg = h /\ (x.part = 2 \/ b))
    <3>1. \A y : y \in Elems(double_flag') <=> y = f \/ y \in Elems(double_flag)
      BY <1>4, <1>6, Write
    <3> QED BY <3>1, <1>6 DEF WriterCmd, Expected, WriterRest, notify
  <2>3. ASSUME NEW x \in Access
        PROVE  Reported(x)' <=> Reported(x) \/ x = c \/ (b /\ x.seg = h /\ x.part = 2)
    <3>1. \A y : y \in Elems(mover_cmd') <=> y = c \/ y \in Elems(mover_cmd)
      BY <1>4, <1>6, Write
    <3> QED BY <3>1, <1>4 DEF WriterCmd, Reported
  <2>4. ASSUME NEW x \in Access
        PROVE  x.seg = h /\ (x.part = 2 \/ b) <=> x = c \/ (b /\ x.seg = h /\ x.part = 2)
    <3>1. x = c <=> x.seg = h /\ x.part = c.part
      BY <1>6, AccessIs
    <3>2. x.part \in {1, 2}
      BY Fields
    <3> QED BY <3>1, <3>2, <1>6
  <2> QED BY <2>1, <2>2, <2>3, <2>4 DEF Matches, Truthful, MatchStatus
<1> QED BY <1>12, <1>13, <1>14, <1>15, <1>16, <1>17, <1>18, <1>19,
           <1>20 DEF Core, Matches, Ordered

LEMMA DoWriterWhole ==
  ASSUME TInv, InPackets, Matches, NEW k \in Marks, Ordered(k), WriterWhole
  PROVE  Core'
<1>1. PICK h : h = Head(mem_data)
  OBVIOUS
<1>2. /\ mem_data # <<>> /\ mem_data \in Seq(Word) /\ mem_data' = Tail(mem_data)
      /\ writer = "FWD_NO_BREAKDOWN" /\ writer_seg' = writer_seg
      /\ writer' = IF h.last THEN "WAIT_CMD" ELSE writer
      /\ mover_data \in Seq(AccessWord)
      /\ mover_cmd' = mover_cmd
      /\ k.a \in Nat
  BY <1>1, MarksAreNat DEF WriterWhole, TInv, TMemory, TWrite
<1>3. /\ h \in Word /\ h.seg = writer_seg /\ writer_seg \in Segment
      /\ writer_seg \notin Elems(mem_cmd)
      /\ Words(mem_data', Forwarding, k.d3)
      /\ \A s \in Segment : (s \in Forwarding \/ Kept(drop_fsm, s) \/ Has(mem_data', s))
                              <=> Accepted(s) /\ ~(h.last /\ s = h.seg)
  BY <1>1, <1>2, WriterTakes
<1>4. PICK c : c = [seg |-> writer_seg, part |-> 2]
  OBVIOUS
<1>5. PICK e : e = [access |-> c, last |-> h.last]
  OBVIOUS
<1>6. /\ c \in Access /\ c.seg = writer_seg /\ c.part = 2 /\ No(c) \in Nat
      /\ e \in AccessWord /\ e.access = c /\ e.last = h.last
  BY <1>4, <1>5, <1>3, KeyIsNat DEF Access, AccessWord, Word
<1>7. mover_data' = Append(mover_data, e)
  BY <1>1, <1>4, <1>5, <1>3 DEF WriterWhole, Put, Tagged
<1>8. \A y : y \in Elems(mover_data') <=> y = e \/ y \in Elems(mover_data)
  BY <1>7, <1>6, <1>2, Write
<1>9. Current = {c} /\ Current' = IF e.last THEN {} ELSE {c}
  BY <1>2, <1>4, <1>6 DEF Current, CurrentPart
<1>10. InPackets' /\ OParse(k)' /\ OFront(k)' /\ OVerify(k)' /\ OMeta(k)' /\ OFsm(k)' /\
      OMover(k)' /\ ONotify(k)' /\ MatchSum' /\ MatchMeta' /\ MatchFsm' /\ MatchNotify'
  BY DEF WriterWhole, Matches, Ordered, InPackets, OParse, OFront, OVerify, OMeta, OFsm, OMover,
         ONotify, MatchSum, MatchMeta, MatchFsm, MatchNotify, AtPacket, Within, Before, Parsing,
         Parsed, ToDecide, KeptSum, ToLookup, KeptMeta, ToAccept, Announced, Flagged, WriterRest,
         checks, drop, drops, front, input, notify, results
<1>11. ODrop(k)'
  BY <1>3, <1>2 DEF WriterWhole, Ordered, ODrop, Forwarding, WriterRest, drop
<1>12. OWrite(k)'
  <2>1. AccessWords(mover_data', Current', k.a)
    BY <1>7, <1>6, <1>2, <1>9, AccessWordsWrite DEF Ordered, OWrite
  <2> QED BY <2>1, <1>2 DEF Ordered, OWrite
<1>13. MatchMover'
  <2>1. ASSUME NEW a \in Access  PROVE HasWords(a)' <=> HasWords(a)
    BY <1>8, <1>9, <1>6 DEF HasWords
  <2> QED BY <2>1, <1>2 DEF Matches, MatchMover
<1>14. MatchWrite'
  <2>1. ASSUME NEW s \in Segment  PROVE Accepted(s)' <=> Accepted(s) /\ ~(h.last /\ s = h.seg)
    BY <1>3 DEF WriterWhole, Accepted, Forwarding, WriterRest, drop, drops
  <2>2. ASSUME NEW s \in Segment  PROVE ToWrite(s)' <=> ToWrite(s) /\ ~(h.last /\ s = h.seg)
    BY <1>2, <1>3 DEF WriterWhole, ToWrite
  <2> QED BY <2>1, <2>2 DEF Matches, MatchWrite
<1>15. Truthful'
  <2>1. ASSUME NEW a \in Access  PROVE Reported(a)' <=> Reported(a)
    BY <1>2 DEF WriterWhole, Reported
  <2>2. ASSUME NEW a \in Access  PROVE Expected(a)' <=> Expected(a)
    BY DEF WriterWhole, Expected, WriterRest, notify
  <2>3. StatusTrue' <=> StatusTrue
    BY DEF WriterWhole, StatusTrue, results
  <2> QED BY <2>1, <2>2, <2>3 DEF WriterWhole, Matches, Truthful, MatchStatus, WriterRest, notify, results
<1> QED BY <1>10, <1>11, <1>12, <1>14, <1>13, <1>15 DEF Core, Matches, Ordered

LEMMA DoWriterSecond ==
  ASSUME TInv, InPackets, Matches, NEW k \in Marks, Ordered(k), NEW b \in BOOLEAN, WriterSecond(b)
  PROVE  Core'
<1>1. PICK h : h = Head(mem_data)
  OBVIOUS
<1>2. /\ mem_data # <<>> /\ mem_data \in Seq(Word) /\ mem_data' = Tail(mem_data)
      /\ writer = "FWD_BREAKDOWN_1" /\ writer_seg' = writer_seg
      /\ writer' = IF ~h.last THEN writer ELSE IF b THEN "FWD_EXTRA" ELSE "WAIT_CMD"
      /\ mover_data \in Seq(AccessWord)
      /\ mover_cmd' = mover_cmd /\ (b => h.last)
      /\ k.a \in Nat
  BY <1>1, MarksAreNat DEF WriterSecond, TInv, TMemory, TWrite
<1>3. /\ h \in Word /\ h.seg = writer_seg /\ writer_seg \in Segment
      /\ writer_seg \notin Elems(mem_cmd)
      /\ Words(mem_data', Forwarding, k.d3)
      /\ \A s \in Segment : (s \in Forwarding \/ Kept(drop_fsm, s) \/ Has(mem_data', s))
                              <=> Accepted(s) /\ ~(h.last /\ s = h.seg)
  BY <1>1, <1>2, WriterTakes
<1>4. PICK c : c = [seg |-> writer_seg, part |-> 2]
  OBVIOUS
<1>5. PICK e : e = [access |-> c, last |-> (h.last /\ ~b)]
  OBVIOUS
<1>6. /\ c \in Access /\ c.seg = writer_seg /\ c.part = 2 /\ No(c) \in Nat
      /\ e \in AccessWord /\ e.access = c /\ e.last = (h.last /\ ~b)
  BY <1>4, <1>5, <1>3, KeyIsNat DEF Access, AccessWord, Word
<1>7. mover_data' = Append(mover_data, e)
  BY <1>1, <1>4, <1>5, <1>3 DEF WriterSecond, Put, Tagged
<1>8. \A y : y \in Elems(mover_data') <=> y = e \/ y \in Elems(mover_data)
  BY <1>7, <1>6, <1>2, Write
<1>9. Current = {c} /\ Current' = IF e.last THEN {} ELSE {c}
  BY <1>2, <1>4, <1>6 DEF Current, CurrentPart
<1>10. InPackets' /\ OParse(k)' /\ OFront(k)' /\ OVerify(k)' /\ OMeta(k)' /\ OFsm(k)' /\
      OMover(k)' /\ ONotify(k)' /\ MatchSum' /\ MatchMeta' /\ MatchFsm' /\ MatchNotify'
  BY DEF WriterSecond, Matches, Ordered, InPackets, OParse, OFront, OVerify, OMeta, OFsm, OMover,
         ONotify, MatchSum, MatchMeta, MatchFsm, MatchNotify, AtPacket, Within, Before, Parsing,
         Parsed, ToDecide, KeptSum, ToLookup, KeptMeta, ToAccept, Announced, Flagged, WriterRest,
         checks, drop, drops, front, input, notify, results
<1>11. ODrop(k)'
  BY <1>3, <1>2 DEF WriterSecond, Ordered, ODrop, Forwarding, WriterRest, drop
<1>12. OWrite(k)'
  <2>1. AccessWords(mover_data', Current', k.a)
    BY <1>7, <1>6, <1>2, <1>9, AccessWordsWrite DEF Ordered, OWrite
  <2> QED BY <2>1, <1>2 DEF Ordered, OWrite
<1>13. MatchMover'
  <2>1. ASSUME NEW a \in Access  PROVE HasWords(a)' <=> HasWords(a)
    BY <1>8, <1>9, <1>6 DEF HasWords
  <2> QED BY <2>1, <1>2 DEF Matches, MatchMover
<1>14. MatchWrite'
  <2>1. ASSUME NEW s \in Segment  PROVE Accepted(s)' <=> Accepted(s) /\ ~(h.last /\ s = h.seg)
    BY <1>3 DEF WriterSecond, Accepted, Forwarding, WriterRest, drop, drops
  <2>2. ASSUME NEW s \in Segment  PROVE ToWrite(s)' <=> ToWrite(s) /\ ~(h.last /\ s = h.seg)
    BY <1>2, <1>3 DEF WriterSecond, ToWrite
  <2> QED BY <2>1, <2>2 DEF Matches, MatchWrite
<1>15. Truthful'
  <2>1. ASSUME NEW a \in Access  PROVE Reported(a)' <=> Reported(a)
    BY <1>2 DEF WriterSecond, Reported
  <2>2. ASSUME NEW a \in Access  PROVE Expected(a)' <=> Expected(a)
    BY DEF WriterSecond, Expected, WriterRest, notify
  <2>3. StatusTrue' <=> StatusTrue
    BY DEF WriterSecond, StatusTrue, results
  <2> QED BY <2>1, <2>2, <2>3 DEF WriterSecond, Matches, Truthful, MatchStatus, WriterRest, notify, results
<1> QED BY <1>10, <1>11, <1>12, <1>14, <1>13, <1>15 DEF Core, Matches, Ordered

LEMMA DoWriterFirst ==
  ASSUME TInv, InPackets, Matches, NEW k \in Marks, Ordered(k), NEW b \in BOOLEAN, WriterFirst(b)
  PROVE  Core'
<1>1. PICK h : h = Head(mem_data)
  OBVIOUS
<1>2. /\ mem_data # <<>> /\ mem_data \in Seq(Word) /\ mem_data' = Tail(mem_data)
      /\ writer = "FWD_BREAKDOWN_0" /\ writer_seg' = writer_seg
      /\ writer' = IF ~b THEN writer ELSE IF h.last THEN "FWD_EXTRA" ELSE "FWD_BREAKDOWN_1"
      /\ mover_data \in Seq(AccessWord)
      /\ mover_cmd \in Seq(Access) /\ (h.last => b)
      /\ ~b => mover_cmd' = mover_cmd
      /\ k.a \in Nat /\ k.c \in Nat /\ k.w \in Nat
  BY <1>1, MarksAreNat DEF WriterFirst, PutCmd, TInv, TMemory, TWrite
<1>3. /\ h \in Word /\ h.seg = writer_seg /\ writer_seg \in Segment
      /\ writer_seg \notin Elems(mem_cmd)
      /\ Words(mem_data', Forwarding, k.d3)
      /\ \A s \in Segment : (s \in Forwarding \/ Kept(drop_fsm, s) \/ Has(mem_data', s))
                              <=> Accepted(s) /\ ~(h.last /\ s = h.seg)
  BY <1>1, <1>2, WriterTakes
<1>4. PICK c : c = [seg |-> writer_seg, part |-> 1]
  OBVIOUS
<1>5. PICK e : e = [access |-> c, last |-> b]
  OBVIOUS
<1>6. /\ c \in Access /\ c.seg = writer_seg /\ c.part = 1 /\ No(c) \in Nat
      /\ e \in AccessWord /\ e.access = c /\ e.last = b
  BY <1>4, <1>5, <1>3, KeyIsNat DEF Access, AccessWord, Word
<1>7. mover_data' = Append(mover_data, e)
  BY <1>1, <1>4, <1>5, <1>3 DEF WriterFirst, Put, Tagged
<1>8. \A y : y \in Elems(mover_data') <=> y = e \/ y \in Elems(mover_data)
  BY <1>7, <1>6, <1>2, Write
<1>9. PICK s2 : s2 = [seg |-> writer_seg, part |-> 2]
  OBVIOUS
<1>10. /\ s2 \in Access /\ s2.seg = writer_seg /\ s2.part = 2 /\ No(s2) \in Nat /\ No(c) < No(s2)
       /\ No(s2) = 2 * writer_seg.id + 2 /\ writer_seg.id \in Nat
       /\ b => mover_cmd' = Append(mover_cmd, s2)
  BY <1>9, <1>6, <1>3, KeyIsNat DEF WriterFirst, PutCmd, Access, No
<1>11. (IF b THEN No(s2) ELSE k.a) \in Nat
  BY <1>10, <1>2
<1>12. Current = {c} /\ Current' = IF b THEN {s2} ELSE {c}
  BY <1>2, <1>4, <1>9 DEF Current, CurrentPart
<1>13. /\ k.a = No(c) /\ writer_seg.id = k.w
       /\ AccessWords(mover_data', IF b THEN {} ELSE {c}, k.a)
  <2>1. AccessWords(mover_data, {c}, k.a) /\ writer_seg.id = k.w
    BY <1>12, <1>2 DEF Ordered, OWrite
  <2>2. k.a = No(c)
    BY <2>1 DEF AccessWords
  <2> QED BY <2>1, <2>2, <1>7, <1>6, <1>2, AccessWordsWrite
<1>14. PICK j \in Marks : j["a"] = (IF b THEN No(s2) ELSE k.a) /\ \A z \in MarkNames \ {"a"} : j[z] = k[z]
  <2>1. "a" \in MarkNames
    BY DEF MarkNames
  <2> QED BY <2>1, Move, <1>11
<1>15. j.a = (IF b THEN No(s2) ELSE k.a) /\ j.p = k.p /\ j.vm = k.vm /\ j.v = k.v /\ j.mc = k.mc /\
      j.m = k.m /\ j.fl = k.fl /\ j.f = k.f /\ j.d1 = k.d1 /\ j.d2 = k.d2 /\ j.d3 = k.d3 /\
      j.w = k.w /\ j.n = k.n /\ j.g = k.g /\ j.c = k.c /\ j.b = k.b
  BY <1>14 DEF MarkNames
<1>16. InPackets' /\ OParse(j)' /\ OFront(j)' /\ OVerify(j)' /\ OMeta(j)' /\ OFsm(j)' /\
      ONotify(j)' /\ MatchSum' /\ MatchMeta' /\ MatchFsm' /\ MatchNotify'
  BY <1>15 DEF WriterFirst, Matches, Ordered, InPackets, OParse, OFront, OVerify, OMeta, OFsm, ONotify,
         MatchSum, MatchMeta, MatchFsm, MatchNotify, AtPacket, Within, Before, Parsing, Parsed,
         ToDecide, KeptSum, ToLookup, KeptMeta, ToAccept, Announced, Flagged, WriterRest, checks,
         drop, drops, front, input, notify, results
<1>17. ODrop(j)'
  BY <1>3, <1>15 DEF WriterFirst, Ordered, ODrop, Forwarding, WriterRest, drop
<1>18. OWrite(j)'
  <2>1. AccessWords(mover_data', Current', j.a)
    <3>1. CASE b
      <4>1. mover_data' \in Seq(AccessWord)
        BY <1>7, <1>6, <1>2, Write
      <4>2. AccessWords(mover_data', {s2}, No(s2))
        BY <3>1, <4>1, <1>13, <1>10, <1>2, AccessWordsBegin
      <4> QED BY <3>1, <4>2, <1>12, <1>15
    <3>2. CASE ~b
      BY <3>2, <1>13, <1>12, <1>15
    <3> QED BY <3>1, <3>2
  <2>2. j.a <= 2 * j.w + 2
    BY <1>10, <1>13, <1>15, <1>2 DEF Ordered, OWrite
  <2> QED BY <2>1, <2>2, <1>2, <1>13, <1>15 DEF OWrite
<1>19. OMover(j)'
  <2>1. RunA(mover_cmd', k.c, j.a)
    <3>1. RunA(mover_cmd, k.c, k.a)
      BY DEF Ordered, OMover
    <3>2. CASE b
      <4>1. RunA(Append(mover_cmd, s2), k.c, No(s2))
        BY <3>1, <1>10, <1>13, <1>2, RunAWrite
      <4> QED BY <4>1, <3>2, <1>10, <1>15
    <3>3. CASE ~b
      BY <3>1, <3>3, <1>2, <1>15
    <3> QED BY <3>2, <3>3
  <2> QED BY <2>1, <1>15 DEF WriterFirst, Ordered, OMover
<1>20. MatchWrite'
  <2>1. ASSUME NEW s \in Segment  PROVE Accepted(s)' <=> Accepted(s) /\ ~(h.last /\ s = h.seg)
    BY <1>3 DEF WriterFirst, Accepted, Forwarding, WriterRest, drop, drops
  <2>2. ASSUME NEW s \in Segment  PROVE ToWrite(s)' <=> ToWrite(s) /\ ~(h.last /\ s = h.seg)
    BY <1>2, <1>3 DEF WriterFirst, ToWrite
  <2> QED BY <2>1, <2>2 DEF Matches, MatchWrite
<1>21. \A y : y \in Elems(mover_cmd') <=> (b /\ y = s2) \/ y \in Elems(mover_cmd)
  BY <1>2, <1>10, Write
<1>22. MatchMover'
  <2>1. ASSUME NEW a \in Access  PROVE HasWords(a)' <=> (b /\ a = s2) \/ HasWords(a)
    BY <1>8, <1>12, <1>6 DEF HasWords
  <2> QED BY <2>1, <1>21 DEF Matches, MatchMover
<1>23. Truthful'
  <2>1. ASSUME NEW a \in Access  PROVE Reported(a)' <=> Reported(a)
    <3>1. a = s2 <=> a.seg = writer_seg /\ a.part = 2
      BY <1>10, AccessIs
    <3>2. /\ b => writer' # "FWD_BREAKDOWN_0"
          /\ ~b => writer' = "FWD_BREAKDOWN_0"
      BY <1>2
    <3>3. status' = status
      BY DEF WriterFirst
    <3> QED BY <3>1, <3>2, <3>3, <1>21, <1>2 DEF Reported
  <2>2. ASSUME NEW a \in Access  PROVE Expected(a)' <=> Expected(a)
    BY DEF WriterFirst, Expected, WriterRest, notify
  <2>3. StatusTrue' <=> StatusTrue
    BY DEF WriterFirst, StatusTrue, results
  <2> QED BY <2>1, <2>2, <2>3 DEF WriterFirst, Matches, Truthful, MatchStatus, WriterRest, notify, results
<1> QED BY <1>16, <1>17, <1>18, <1>19, <1>20, <1>22, <1>23 DEF Core, Matches, Ordered

LEMMA DoWriterExtra ==
  ASSUME TInv, InPackets, Matches, NEW k \in Marks, Ordered(k), WriterExtra
  PROVE  Core'
<1>1. /\ writer = "FWD_EXTRA" /\ writer' = "WAIT_CMD" /\ writer_seg' = writer_seg
      /\ mover_data \in Seq(AccessWord) /\ mover_cmd' = mover_cmd
      /\ writer_seg \in Segment /\ k.a \in Nat
  BY MarksAreNat DEF WriterExtra, TInv, TWrite
<1>2. PICK c : c = [seg |-> writer_seg, part |-> 2]
  OBVIOUS
<1>3. PICK e : e = [access |-> c, last |-> TRUE]
  OBVIOUS
<1>4. /\ c \in Access /\ c.seg = writer_seg /\ c.part = 2 /\ No(c) \in Nat
      /\ e \in AccessWord /\ e.access = c /\ e.last
  BY <1>2, <1>3, <1>1, KeyIsNat DEF Access, AccessWord
<1>5. mover_data' = Append(mover_data, e)
  BY <1>2, <1>3 DEF WriterExtra, Put, Tagged
<1>6. \A y : y \in Elems(mover_data') <=> y = e \/ y \in Elems(mover_data)
  BY <1>5, <1>4, <1>1, Write
<1>7. Current = {c} /\ Current' = IF e.last THEN {} ELSE {c}
  BY <1>1, <1>2, <1>4 DEF Current, CurrentPart
<1>8. InPackets' /\ OParse(k)' /\ OFront(k)' /\ OVerify(k)' /\ OMeta(k)' /\ OFsm(k)' /\
     ODrop(k)' /\ OMover(k)' /\ ONotify(k)' /\ MatchSum' /\ MatchMeta' /\ MatchFsm' /\
     MatchNotify'
  BY DEF WriterExtra, Matches, Ordered, InPackets, OParse, OFront, OVerify, OMeta, OFsm, ODrop,
         OMover, ONotify, MatchSum, MatchMeta, MatchFsm, MatchNotify, AtPacket, Within, Before,
         Parsing, Forwarding, Parsed, ToDecide, KeptSum, ToLookup, KeptMeta, ToAccept, Announced,
         Flagged, WriterRest, checks, drop, drops, front, input, notify, results
<1>9. OWrite(k)'
  <2>1. AccessWords(mover_data', Current', k.a)
    BY <1>5, <1>4, <1>1, <1>7, AccessWordsWrite DEF Ordered, OWrite
  <2> QED BY <2>1, <1>1 DEF Ordered, OWrite
<1>10. MatchMover'
  <2>1. ASSUME NEW a \in Access  PROVE HasWords(a)' <=> HasWords(a)
    BY <1>6, <1>7, <1>4 DEF HasWords
  <2> QED BY <2>1, <1>1 DEF Matches, MatchMover
<1>11. MatchWrite'
  <2>1. ASSUME NEW s \in Segment  PROVE Accepted(s)' <=> Accepted(s)
    BY DEF WriterExtra, Accepted, Forwarding, WriterRest, drop, drops
  <2>2. ASSUME NEW s \in Segment  PROVE ToWrite(s)' <=> ToWrite(s)
    BY <1>1 DEF WriterExtra, ToWrite
  <2> QED BY <2>1, <2>2 DEF Matches, MatchWrite
<1>12. Truthful'
  <2>1. ASSUME NEW a \in Access  PROVE Reported(a)' <=> Reported(a)
    BY <1>1 DEF WriterExtra, Reported
  <2>2. ASSUME NEW a \in Access  PROVE Expected(a)' <=> Expected(a)
    BY DEF WriterExtra, Expected, WriterRest, notify
  <2>3. StatusTrue' <=> StatusTrue
    BY DEF WriterExtra, StatusTrue, results
  <2> QED BY <2>1, <2>2, <2>3 DEF WriterExtra, Matches, Truthful, MatchStatus, WriterRest, notify, results
<1> QED BY <1>8, <1>9, <1>11, <1>10, <1>12 DEF Core, Matches, Ordered

\* The words the data mover takes are those of its first command: they are the first in their
\* FIFO, and the other commands are about later accesses.
LEMMA MoverTakes ==
  ASSUME TInv, Matches, NEW k \in Marks, Ordered(k), mover_cmd # <<>>, mover_data # <<>>,
         NEW h, h = Head(mover_data), NEW cmd, cmd = Head(mover_cmd)
  PROVE  /\ h \in AccessWord /\ cmd \in Access /\ h.access = cmd
         /\ AccessWords(Tail(mover_data), Current, k.a)
         /\ cmd \notin Elems(Tail(mover_cmd))
         /\ \A a \in Access : (a \in Current \/ \E x \in Elems(Tail(mover_data)) : x.access = a)
                                <=> HasWords(a) /\ ~(h.last /\ a = cmd)
<1>1. /\ mover_data \in Seq(AccessWord) /\ mover_cmd \in Seq(Access)
      /\ k.a \in Nat /\ k.c \in Nat /\ Current \subseteq Access
  BY MarksAreNat DEF TInv, TWrite, Current, CurrentPart, Access
<1>2. /\ h \in AccessWord /\ h.access \in Access /\ No(h.access) \in Nat
      /\ \A x : x \in Elems(mover_data) <=> x = h \/ x \in Elems(Tail(mover_data))
  BY <1>1, Read, KeyIsNat
<1>3. /\ AccessWords(Tail(mover_data), Current, k.a) /\ No(h.access) <= k.a
      /\ \A x \in Elems(Tail(mover_data)) : No(h.access) <= No(x.access)
      /\ \A a \in Current : No(h.access) <= No(a)
      /\ h.last => /\ \A x \in Elems(Tail(mover_data)) : No(h.access) < No(x.access)
                   /\ \A a \in Current : No(h.access) < No(a)
      /\ ~h.last => \/ h.access \in Current
                    \/ \E x \in Elems(Tail(mover_data)) : x.access = h.access
  BY <1>1, AccessWordsRead DEF Ordered, OWrite
<1>4. /\ cmd \in Access /\ No(cmd) \in Nat /\ Tail(mover_cmd) \in Seq(Access)
      /\ \A a : a \in Elems(mover_cmd) <=> a = cmd \/ a \in Elems(Tail(mover_cmd))
  BY <1>1, Read, KeyIsNat
<1>5. \A a \in Elems(Tail(mover_cmd)) : No(cmd) < No(a)
  BY <1>1, RunARead DEF Ordered, OMover, RunA
<1>6. cmd \notin Elems(Tail(mover_cmd))
  BY <1>4, <1>5
<1>7. h.access = cmd
  <2>1. h.access = cmd \/ No(cmd) < No(h.access)
    <3>1. HasWords(h.access)
      BY <1>2 DEF HasWords
    <3>2. h.access \in Elems(mover_cmd)
      BY <3>1, <1>2 DEF Matches, MatchMover
    <3> QED BY <3>2, <1>4, <1>5
  <2>2. h.access = cmd \/ No(h.access) <= No(cmd)
    <3>1. HasWords(cmd)
      BY <1>4 DEF Matches, MatchMover
    <3> QED BY <3>1, <1>2, <1>3 DEF HasWords
  <2> QED BY <2>1, <2>2, <1>2, <1>4
<1>8. ASSUME NEW a \in Access
      PROVE  (a \in Current \/ \E x \in Elems(Tail(mover_data)) : x.access = a)
               <=> HasWords(a) /\ ~(h.last /\ a = cmd)
  <2>1. HasWords(a) <=> \/ a \in Current \/ a = cmd
                        \/ \E x \in Elems(Tail(mover_data)) : x.access = a
    BY <1>2, <1>7 DEF HasWords
  <2>2. h.last => /\ cmd \notin Current
                  /\ ~ \E x \in Elems(Tail(mover_data)) : x.access = cmd
    BY <1>2, <1>3, <1>7
  <2> QED BY <2>1, <2>2, <1>3, <1>7
<1> QED BY <1>2, <1>3, <1>4, <1>6, <1>7, <1>8

\* The data mover.
LEMMA DoMover ==
  ASSUME TInv, InPackets, Matches, NEW k \in Marks, Ordered(k), NEW okay \in BOOLEAN, Mover(okay)
  PROVE  Core'
<1>1. PICK h : h = Head(mover_data)
  OBVIOUS
<1>2. PICK cmd : cmd = Head(mover_cmd)
  OBVIOUS
<1>3. /\ mover_cmd # <<>> /\ mover_data # <<>>
      /\ mover_cmd \in Seq(Access) /\ mover_data \in Seq(AccessWord) /\ status \in Seq(Status)
      /\ mover_data' = Tail(mover_data)
      /\ mover_cmd' = IF h.last THEN Tail(mover_cmd) ELSE mover_cmd
      /\ k.a \in Nat /\ k.b \in Nat /\ k.c \in Nat
  BY <1>1, <1>2, MarksAreNat DEF Mover, TInv, TWrite, TStatus
<1>4. /\ h \in AccessWord /\ cmd \in Access /\ h.access = cmd
      /\ AccessWords(mover_data', Current, k.a)
      /\ cmd \notin Elems(Tail(mover_cmd))
      /\ \A a \in Access : (a \in Current \/ \E x \in Elems(mover_data') : x.access = a)
                             <=> HasWords(a) /\ ~(h.last /\ a = cmd)
  BY <1>1, <1>2, <1>3, MoverTakes
<1>5. /\ No(cmd) \in Nat /\ cmd.seg \in Segment /\ k.c < No(cmd)
      /\ RunA(Tail(mover_cmd), No(cmd), k.a)
      /\ \A a : a \in Elems(mover_cmd) <=> a = cmd \/ a \in Elems(Tail(mover_cmd))
  BY <1>2, <1>3, <1>4, Read, KeyIsNat, Fields, RunARead DEF Ordered, OMover
<1>6. PICK s : s = [access |-> cmd, okay |-> okay]
  OBVIOUS
<1>7. s \in Status /\ s.access = cmd /\ s.okay = okay
  BY <1>6, <1>4 DEF Status
<1>8. /\ h.last => status' = Append(status, s)
      /\ ~h.last => status' = status
      /\ failed' = IF okay THEN failed ELSE failed \cup {cmd.seg}
      /\ stored' = IF h.last /\ cmd.part = 2 /\ cmd.seg \notin failed'
                   THEN stored \cup {cmd.seg} ELSE stored
  BY <1>1, <1>2, <1>6 DEF Mover, Put
<1>9. (IF h.last THEN No(cmd) ELSE k.c) \in Nat
  BY <1>5, <1>3
<1>10. PICK j \in Marks : j["c"] = (IF h.last THEN No(cmd) ELSE k.c) /\ \A z \in MarkNames \ {"c"} : j[z] = k[z]
  <2>1. "c" \in MarkNames
    BY DEF MarkNames
  <2> QED BY <2>1, Move, <1>9
<1>11. j.c = (IF h.last THEN No(cmd) ELSE k.c) /\ j.p = k.p /\ j.vm = k.vm /\ j.v = k.v /\
      j.mc = k.mc /\ j.m = k.m /\ j.fl = k.fl /\ j.f = k.f /\ j.d1 = k.d1 /\ j.d2 = k.d2 /\
      j.d3 = k.d3 /\ j.w = k.w /\ j.n = k.n /\ j.g = k.g /\ j.a = k.a /\ j.b = k.b
  BY <1>10 DEF MarkNames
<1>12. InPackets' /\ OParse(j)' /\ OFront(j)' /\ OVerify(j)' /\ OMeta(j)' /\ OFsm(j)' /\
      ODrop(j)' /\ ONotify(j)' /\ MatchSum' /\ MatchMeta' /\ MatchFsm' /\ MatchWrite' /\
      MatchNotify'
  BY <1>11 DEF Mover, Matches, Ordered, InPackets, OParse, OFront, OVerify, OMeta, OFsm, ODrop,
         ONotify, MatchSum, MatchMeta, MatchFsm, MatchWrite, MatchNotify, AtPacket, Within, Before,
         Parsing, Forwarding, Parsed, ToDecide, KeptSum, ToLookup, KeptMeta, ToAccept, Accepted,
         ToWrite, Announced, Flagged, WriterRest, checks, drop, drops, front, input, notify
<1>13. OWrite(j)'
  <2>1. Current' = Current
    BY DEF Mover, Current, CurrentPart
  <2> QED BY <2>1, <1>4, <1>11 DEF Mover, Ordered, OWrite
<1>14. OMover(j)'
  <2>1. RunA(mover_cmd, k.c, k.a) /\ RunT(status, k.b, k.c)
    BY DEF Ordered, OMover
  <2>2. CASE h.last
    <3>1. RunT(Append(status, s), k.b, No(cmd))
      BY <2>1, <1>7, <1>5, <1>3, RunTWrite, KeyIsNat
    <3>2. j.c = No(cmd) /\ mover_cmd' = Tail(mover_cmd) /\ status' = Append(status, s)
      BY <2>2, <1>11, <1>3, <1>8
    <3> QED BY <3>1, <3>2, <1>5, <1>11 DEF OMover
  <2>3. CASE ~h.last
    BY <2>1, <2>3, <1>3, <1>8, <1>11 DEF OMover
  <2> QED BY <2>2, <2>3
<1>15. \A a : a \in Elems(mover_cmd') <=> a \in Elems(mover_cmd) /\ ~(h.last /\ a = cmd)
  BY <1>3, <1>5, <1>4
<1>16. MatchMover'
  <2>1. Current' = Current
    BY DEF Mover, Current, CurrentPart
  <2>2. ASSUME NEW a \in Access  PROVE HasWords(a)' <=> HasWords(a) /\ ~(h.last /\ a = cmd)
    BY <2>1, <1>4 DEF HasWords
  <2> QED BY <2>2, <1>15 DEF Matches, MatchMover
<1>17. Truthful'
  <2> SUFFICES ASSUME failed' = {}  PROVE MatchStatus' /\ StatusTrue' /\ notified' \subseteq stored'
    BY DEF Truthful
  <2>1. failed = {} /\ okay /\ MatchStatus /\ StatusTrue /\ notified \subseteq stored
    BY <1>8 DEF Matches, Truthful
  <2>2. \A x : x \in Elems(status') <=> (h.last /\ x = s) \/ x \in Elems(status)
    <3>1. \A x : x \in Elems(Append(status, s)) <=> x = s \/ x \in Elems(status)
      BY <1>3, <1>7, Write
    <3> QED BY <1>8, <3>1
  <2>3. stored \subseteq stored' /\ (h.last /\ cmd.part = 2 => cmd.seg \in stored')
    BY <1>8
  <2>4. StatusTrue'
    BY <2>1, <2>2, <2>3, <1>7 DEF StatusTrue
  <2>5. ASSUME NEW a \in Access  PROVE Reported(a)' <=> Reported(a)
    <3>1. (\E x \in Elems(status') : x.access = a)
            <=> (h.last /\ a = cmd) \/ \E x \in Elems(status) : x.access = a
      BY <2>2, <1>7
    <3>2. cmd \in Elems(mover_cmd)
      BY <1>5
    <3> QED BY <3>1, <3>2, <1>15 DEF Mover, Reported
  <2>6. ASSUME NEW a \in Access  PROVE Expected(a)' <=> Expected(a)
    BY DEF Mover, Expected, WriterRest, notify
  <2>7. notified' = notified
    BY DEF Mover, WriterRest, notify
  <2> QED BY <2>1, <2>3, <2>4, <2>5, <2>6, <2>7 DEF MatchStatus
<1> QED BY <1>12, <1>13, <1>14, <1>16, <1>17 DEF Core, Matches, Ordered

\* The notifications.
LEMMA DoReadNotify ==
  ASSUME TInv, InPackets, Matches, NEW k \in Marks, Ordered(k), ReadNotify
  PROVE  Core'
<1>1. PICK h : h = Head(notify_cache)
  OBVIOUS
<1>2. /\ notify_cache # <<>> /\ notify_cache \in Seq(Notice) /\ notify_cache' = Tail(notify_cache)
      /\ notify_fsm = "READ_NOTIFY" /\ notify_reg' = h.seg
      /\ notify_fsm' = IF h.data THEN "READ_STATUS_1" ELSE "READ_NOTIFY"
      /\ k.n \in Nat /\ k.f \in Nat
  BY <1>1, MarksAreNat DEF ReadNotify, TInv, TNotify
<1>3. /\ h \in Notice /\ h.seg \in Segment /\ h.seg.id \in Nat
      /\ RunD(notify_cache', h.seg.id, k.f)
      /\ \A x : x \in Elems(notify_cache) <=> x = h \/ x \in Elems(notify_cache')
  BY <1>1, <1>2, Read, KeyIsNat, RunDRead DEF Ordered, OFsm
<1>4. h.seg.id \in Nat
  BY <1>3
<1>5. PICK j \in Marks : j["n"] = h.seg.id /\ \A z \in MarkNames \ {"n"} : j[z] = k[z]
  <2>1. "n" \in MarkNames
    BY DEF MarkNames
  <2> QED BY <2>1, Move, <1>4
<1>6. j.n = h.seg.id /\ j.p = k.p /\ j.vm = k.vm /\ j.v = k.v /\ j.mc = k.mc /\ j.m = k.m /\
     j.fl = k.fl /\ j.f = k.f /\ j.d1 = k.d1 /\ j.d2 = k.d2 /\ j.d3 = k.d3 /\ j.w = k.w /\
     j.g = k.g /\ j.a = k.a /\ j.c = k.c /\ j.b = k.b
  BY <1>5 DEF MarkNames
<1>7. InPackets' /\ OParse(j)' /\ OFront(j)' /\ OVerify(j)' /\ OMeta(j)' /\ ODrop(j)' /\
     OWrite(j)' /\ OMover(j)' /\ MatchSum' /\ MatchMeta' /\ MatchFsm' /\ MatchWrite' /\
     MatchMover'
  BY <1>6 DEF ReadNotify, Matches, Ordered, InPackets, OParse, OFront, OVerify, OMeta, ODrop, OWrite,
         OMover, MatchSum, MatchMeta, MatchFsm, MatchWrite, MatchMover, AtPacket, Within, Before,
         Parsing, Forwarding, Current, CurrentPart, Parsed, ToDecide, KeptSum, ToLookup, KeptMeta,
         ToAccept, Accepted, ToWrite, HasWords, NotifyRest, checks, drop, drops, front, input,
         memory, results
<1>8. OFsm(j)'
  BY <1>3, <1>6 DEF ReadNotify, Ordered, OFsm, NotifyRest, checks, drops
<1>9. ONotify(j)'
  BY <1>2, <1>6 DEF ReadNotify, Ordered, ONotify
<1>10. MatchNotify'
  <2>1. ASSUME NEW s \in Segment  PROVE Announced(s)' <=> Announced(s)
    BY <1>2, <1>3 DEF Announced
  <2>2. ASSUME NEW s \in Segment  PROVE Flagged(s)' <=> Flagged(s)
    BY DEF ReadNotify, Flagged, NotifyRest
  <2> QED BY <2>1, <2>2 DEF Matches, MatchNotify
<1>11. Truthful'
  <2>1. ASSUME NEW a \in Access  PROVE Reported(a)' <=> Reported(a)
    BY DEF ReadNotify, Reported, NotifyRest, memory
  <2>2. ASSUME NEW a \in Access  PROVE Expected(a)' <=> Expected(a)
    <3>1. notify_fsm # "READ_STATUS_2" /\ notify_fsm' # "READ_STATUS_2"
      BY <1>2
    <3> QED BY <3>1 DEF ReadNotify, Expected
  <2>3. StatusTrue' <=> StatusTrue
    BY DEF ReadNotify, StatusTrue, NotifyRest, results
  <2> QED BY <2>1, <2>2, <2>3 DEF ReadNotify, Matches, Truthful, MatchStatus, NotifyRest, results
<1> QED BY <1>7, <1>8, <1>9, <1>10, <1>11 DEF Core, Matches, Ordered

\* The first status is about the first access that is reported or still to be reported.
LEMMA StatusRead ==
  ASSUME TInv, NEW k \in Marks, Ordered(k), status # <<>>, NEW s, s = Head(status)
  PROVE  /\ s \in Status /\ s.access \in Access /\ No(s.access) \in Nat
         /\ RunT(Tail(status), No(s.access), k.c)
         /\ \A x : x \in Elems(status) <=> x = s \/ x \in Elems(Tail(status))
         /\ Reported(s.access)
         /\ \A a \in Access : Reported(a) => a = s.access \/ No(s.access) < No(a)
         /\ \A a \in Access :
              (\/ a \in Elems(mover_cmd) \/ \E x \in Elems(Tail(status)) : x.access = a
               \/ writer = "FWD_BREAKDOWN_0" /\ a.seg = writer_seg /\ a.part = 2)
                <=> Reported(a) /\ a # s.access
<1>1. /\ status \in Seq(Status) /\ mover_cmd \in Seq(Access)
      /\ k.a \in Nat /\ k.b \in Nat /\ k.c \in Nat
      /\ writer = "FWD_BREAKDOWN_0" => writer_seg \in Segment
  BY MarksAreNat DEF TInv, TWrite, TStatus
<1>2. /\ s \in Status /\ s.access \in Access /\ No(s.access) \in Nat
      /\ Tail(status) \in Seq(Status)
      /\ \A x : x \in Elems(status) <=> x = s \/ x \in Elems(Tail(status))
  BY <1>1, Read, KeyIsNat
<1>3. RunT(Tail(status), No(s.access), k.c) /\ No(s.access) <= k.c
  BY <1>1, RunTRead, KeyIsNat DEF Ordered, OMover
<1>4. ASSUME NEW x \in Elems(Tail(status))  PROVE x.access \in Access /\ No(s.access) < No(x.access)
  BY <1>2, <1>3, Types, Fields DEF RunT
<1>5. ASSUME NEW a \in Elems(mover_cmd)  PROVE No(s.access) < No(a)
  <2>1. k.c < No(a) /\ a \in Access
    BY <1>1, Types DEF Ordered, OMover, RunA
  <2> QED BY <2>1, <1>1, <1>2, <1>3, KeyIsNat
<1>6. ASSUME NEW a \in Access, writer = "FWD_BREAKDOWN_0", a.seg = writer_seg, a.part = 2
      PROVE  No(s.access) < No(a)
  <2>1. PICK c : c = [seg |-> writer_seg, part |-> 1]
    OBVIOUS
  <2>2. Current = {c}
    BY <2>1, <1>6 DEF Current, CurrentPart
  <2>3. No(c) = k.a
    BY <2>2 DEF Ordered, OWrite, AccessWords
  <2>4. No(c) = 2 * writer_seg.id + 1
    BY <2>1 DEF No
  <2>5. No(a) = 2 * writer_seg.id + 2 /\ writer_seg.id \in Nat
    BY <1>1, <1>6, KeyIsNat DEF No
  <2>6. k.c <= k.a
    BY DEF Ordered, OMover, RunA
  <2> QED BY <2>3, <2>4, <2>5, <2>6, <1>1, <1>2, <1>3
<1>7. Reported(s.access)
  BY <1>2 DEF Reported
<1>8. ASSUME NEW a \in Access, \/ a \in Elems(mover_cmd)
                               \/ \E x \in Elems(Tail(status)) : x.access = a
                               \/ writer = "FWD_BREAKDOWN_0" /\ a.seg = writer_seg /\ a.part = 2
      PROVE  No(s.access) < No(a) /\ a # s.access
  <2>1. No(s.access) < No(a)
    BY <1>4, <1>5, <1>6, <1>8
  <2> QED BY <2>1, <1>2
<1>9. ASSUME NEW a \in Access
      PROVE  Reported(a) <=> \/ a = s.access \/ a \in Elems(mover_cmd)
                             \/ \E x \in Elems(Tail(status)) : x.access = a
                             \/ writer = "FWD_BREAKDOWN_0" /\ a.seg = writer_seg /\ a.part = 2
  BY <1>2 DEF Reported
<1> QED BY <1>2, <1>3, <1>7, <1>8, <1>9

\* The first flag is about the write that is waited for, and the other commands and
\* notifications are about later ones.
LEMMA FlagRead ==
  ASSUME TInv, Matches, NEW k \in Marks, Ordered(k), notify_fsm = "READ_STATUS_1",
         double_flag # <<>>, NEW f, f = Head(double_flag)
  PROVE  /\ f \in Flag /\ f.seg = notify_reg /\ notify_reg \in Segment /\ notify_reg.id \in Nat
         /\ RunD(Tail(double_flag), f.seg.id, k.w)
         /\ \A x : x \in Elems(double_flag) <=> x = f \/ x \in Elems(Tail(double_flag))
         /\ \A x \in Elems(Tail(double_flag)) : x.seg \in Segment /\ notify_reg.id < x.seg.id
         /\ notify_reg \notin Elems(mem_cmd)
         /\ \A x \in Elems(notify_cache) : x.seg # notify_reg
<1>1. /\ double_flag \in Seq(Flag) /\ notify_cache \in Seq(Notice) /\ mem_cmd \in Seq(Segment)
      /\ notify_reg \in Segment /\ notify_reg.id \in Nat
      /\ k.g \in Nat /\ k.w \in Nat /\ k.n \in Nat
  BY MarksAreNat, KeyIsNat DEF TInv, TFlag, TNotify, TMemory
<1>2. /\ f \in Flag /\ f.seg \in Segment /\ f.seg.id \in Nat /\ Tail(double_flag) \in Seq(Flag)
      /\ \A x : x \in Elems(double_flag) <=> x = f \/ x \in Elems(Tail(double_flag))
  BY <1>1, Read, KeyIsNat
<1>3. RunD(Tail(double_flag), f.seg.id, k.w) /\ f.seg.id <= k.w
  BY <1>1, RunDRead, KeyIsNat DEF Ordered, ONotify
<1>4. ASSUME NEW x \in Elems(Tail(double_flag))
      PROVE  x.seg \in Segment /\ x.seg.id \in Nat /\ f.seg.id < x.seg.id
  BY <1>2, <1>3, Types, KeyIsNat DEF RunD
<1>5. ASSUME NEW s \in Elems(mem_cmd)  PROVE s.id \in Nat /\ f.seg.id < s.id
  <2>1. k.w < s.id /\ s \in Segment
    BY <1>1, Types DEF Ordered, OFsm, RunS
  <2> QED BY <2>1, <1>1, <1>2, <1>3, KeyIsNat
<1>6. ASSUME NEW x \in Elems(notify_cache)  PROVE x.seg.id \in Nat /\ notify_reg.id < x.seg.id
  BY <1>1, Types, KeyIsNat DEF Ordered, OFsm, ONotify, RunD
<1>7. f.seg = notify_reg
  <2>1. f.seg = notify_reg \/ f.seg.id < notify_reg.id
    <3>1. Announced(notify_reg)
      BY DEF Announced
    <3>2. Flagged(notify_reg)
      BY <3>1, <1>1 DEF Matches, MatchNotify
    <3> QED BY <3>2, <1>2, <1>4, <1>5 DEF Flagged, Has
  <2>2. f.seg = notify_reg \/ notify_reg.id < f.seg.id
    <3>1. Flagged(f.seg)
      BY <1>2 DEF Flagged, Has
    <3>2. Announced(f.seg)
      BY <3>1, <1>2 DEF Matches, MatchNotify
    <3> QED BY <3>2, <1>6 DEF Announced
  <2> QED BY <2>1, <2>2, <1>1, <1>2
<1>8. notify_reg \notin Elems(mem_cmd) /\ \A x \in Elems(notify_cache) : x.seg # notify_reg
  BY <1>1, <1>5, <1>6, <1>7
<1> QED BY <1>1, <1>2, <1>3, <1>4, <1>7, <1>8

LEMMA DoReadStatus1 ==
  ASSUME TInv, InPackets, Matches, NEW k \in Marks, Ordered(k), ReadStatus1
  PROVE  Core'
<1>1. PICK f : f = Head(double_flag)
  OBVIOUS
<1>2. PICK s : s = Head(status)
  OBVIOUS
<1>3. /\ double_flag # <<>> /\ double_flag' = Tail(double_flag)
      /\ status # <<>> /\ status' = Tail(status)
      /\ notify_fsm = "READ_STATUS_1"
      /\ notify_fsm' = IF s.okay /\ f.double THEN "READ_STATUS_2" ELSE "READ_NOTIFY"
      /\ notify_reg' = notify_reg /\ notify_cache' = notify_cache
      /\ mem_cmd' = mem_cmd /\ mover_cmd' = mover_cmd
      /\ writer' = writer /\ writer_seg' = writer_seg
      /\ failed' = failed /\ stored' = stored
  BY <1>1, <1>2 DEF ReadStatus1, AfterStatus, NotifyRest, memory, results
<1>4. notified' = IF s.okay /\ notify_fsm' = "READ_NOTIFY" THEN notified \cup {notify_reg} ELSE notified
  BY <1>2 DEF ReadStatus1
<1>5. /\ f \in Flag /\ f.seg = notify_reg /\ notify_reg \in Segment /\ notify_reg.id \in Nat
      /\ RunD(double_flag', notify_reg.id, k.w)
      /\ \A x : x \in Elems(double_flag) <=> x = f \/ x \in Elems(double_flag')
      /\ \A x \in Elems(double_flag') : x.seg \in Segment /\ notify_reg.id < x.seg.id
      /\ notify_reg \notin Elems(mem_cmd)
      /\ \A x \in Elems(notify_cache) : x.seg # notify_reg
  BY <1>1, <1>3, FlagRead
<1>6. /\ s \in Status /\ s.access \in Access /\ No(s.access) \in Nat
      /\ RunT(status', No(s.access), k.c)
      /\ \A x : x \in Elems(status) <=> x = s \/ x \in Elems(status')
      /\ Reported(s.access)
      /\ \A a \in Access : Reported(a) => a = s.access \/ No(s.access) < No(a)
      /\ \A a \in Access :
           (\/ a \in Elems(mover_cmd) \/ \E x \in Elems(status') : x.access = a
            \/ writer = "FWD_BREAKDOWN_0" /\ a.seg = writer_seg /\ a.part = 2)
             <=> Reported(a) /\ a # s.access
  BY <1>2, <1>3, StatusRead
<1>7. PICK u : u = notify_reg.id
  OBVIOUS
<1>8. PICK v : v = No(s.access)
  OBVIOUS
<1>9. u \in Nat /\ v \in Nat
  BY <1>5, <1>6, <1>7, <1>8
<1>10. PICK j \in Marks : /\ j["g"] = u /\ j["b"] = v
                      /\ \A z \in MarkNames \ {"g", "b"} : j[z] = k[z]
  <2>1. "g" \in MarkNames /\ "b" \in MarkNames /\ "g" # "b"
    BY DEF MarkNames
  <2> QED BY <2>1, MoveTwo, <1>9
<1>11. j.g = u /\ j.b = v /\ j.p = k.p /\ j.vm = k.vm /\ j.v = k.v /\ j.mc = k.mc /\ j.m = k.m /\
      j.fl = k.fl /\ j.f = k.f /\ j.d1 = k.d1 /\ j.d2 = k.d2 /\ j.d3 = k.d3 /\ j.w = k.w /\
      j.n = k.n /\ j.a = k.a /\ j.c = k.c
  BY <1>10 DEF MarkNames
<1>12. InPackets' /\ OParse(j)' /\ OFront(j)' /\ OVerify(j)' /\ OMeta(j)' /\ OFsm(j)' /\
      ODrop(j)' /\ OWrite(j)' /\ MatchSum' /\ MatchMeta' /\ MatchFsm' /\ MatchWrite' /\
      MatchMover'
  BY <1>11 DEF ReadStatus1, Matches, Ordered, InPackets, OParse, OFront, OVerify, OMeta, OFsm, ODrop,
         OWrite, MatchSum, MatchMeta, MatchFsm, MatchWrite, MatchMover, AtPacket, Within, Before,
         Parsing, Forwarding, Current, CurrentPart, Parsed, ToDecide, KeptSum, ToLookup, KeptMeta,
         ToAccept, Accepted, ToWrite, HasWords, NotifyRest, checks, drop, drops, front, input,
         memory, results
<1>13. OMover(j)'
  BY <1>6, <1>3, <1>11, <1>8 DEF Ordered, OMover
<1>14. ONotify(j)'
  BY <1>5, <1>3, <1>11, <1>7 DEF Ordered, ONotify
<1>15. MatchNotify'
  <2>1. ASSUME NEW x \in Segment  PROVE Announced(x)' <=> Announced(x) /\ x # notify_reg
    BY <1>3, <1>5 DEF Announced
  <2>2. ASSUME NEW x \in Segment  PROVE Flagged(x)' <=> Flagged(x) /\ x # notify_reg
    BY <1>3, <1>5 DEF Flagged, Has
  <2> QED BY <2>1, <2>2 DEF Matches, MatchNotify
<1>16. Truthful'
  <2> SUFFICES ASSUME failed = {}  PROVE MatchStatus' /\ StatusTrue' /\ notified' \subseteq stored'
    BY <1>3 DEF Truthful
  <2>1. MatchStatus /\ StatusTrue /\ notified \subseteq stored
    BY DEF Matches, Truthful
  <2>2. s.okay /\ (s.access.part = 2 => s.access.seg \in stored)
    BY <2>1, <1>6 DEF StatusTrue
  <2>3. PICK x0 : x0 = [seg |-> notify_reg, part |-> IF f.double THEN 1 ELSE 2]
    OBVIOUS
  <2>4. /\ x0 \in Access /\ x0.seg = notify_reg /\ x0.part = IF f.double THEN 1 ELSE 2
        /\ No(x0) = 2 * notify_reg.id + x0.part /\ No(x0) \in Nat
    BY <2>3, <1>5, KeyIsNat DEF Access, No
  <2>5. ASSUME NEW a \in Access
        PROVE  Expected(a) <=> \/ a.seg = notify_reg /\ (a.part = 2 \/ f.double)
                               \/ \E x \in Elems(double_flag') : x.seg = a.seg /\ (a.part = 2 \/ x.double)
    BY <1>3, <1>5 DEF Expected
  <2>6. s.access = x0
    <3>1. Expected(x0)
      BY <2>4, <2>5
    <3>2. x0 = s.access \/ No(s.access) < No(x0)
      BY <3>1, <2>1, <2>4, <1>6 DEF MatchStatus
    <3>3. x0 = s.access \/ No(x0) <= No(s.access)
      <4>1. Expected(s.access)
        BY <2>1, <1>6 DEF MatchStatus
      <4>2. /\ No(s.access) = 2 * s.access.seg.id + s.access.part
            /\ s.access.part \in {1, 2} /\ s.access.seg \in Segment /\ s.access.seg.id \in Nat
        BY <1>6, Fields, KeyIsNat DEF No
      <4>3. CASE s.access.seg = notify_reg /\ (s.access.part = 2 \/ f.double)
        <5>1. x0.part <= s.access.part
          BY <4>2, <4>3, <2>4
        <5>2. x0.part \in Nat /\ s.access.part \in Nat
          BY <4>2, <2>4, Fields
        <5> QED BY <5>1, <5>2, <4>2, <4>3, <2>4, <1>5
      <4>4. CASE \E x \in Elems(double_flag') : x.seg = s.access.seg
        <5>1. notify_reg.id < s.access.seg.id
          BY <4>4, <1>5
        <5>2. x0.part = 1 \/ x0.part = 2
          BY <2>4
        <5>3. notify_reg.id \in Nat
          BY <1>5
        <5>4. No(x0) = 2 * notify_reg.id + x0.part
          BY <2>4
        <5> QED BY <5>1, <5>2, <5>3, <5>4, <4>2
      <4> QED BY <4>1, <4>3, <4>4, <2>5, <1>6
    <3> QED BY <3>2, <3>3, <2>4, <1>6
  <2>7. ASSUME NEW a \in Access  PROVE Expected(a)' <=> Expected(a) /\ a # x0
    <3>1. a = x0 <=> a.seg = notify_reg /\ a.part = x0.part
      BY <2>4, AccessIs
    <3>2. a.part \in {1, 2}
      BY Fields
    <3>3. ~ \E x \in Elems(double_flag') : x.seg = notify_reg
      BY <1>5
    <3>4. Expected(a)' <=> \/ f.double /\ a.seg = notify_reg /\ a.part = 2
                           \/ \E x \in Elems(double_flag') : x.seg = a.seg /\ (a.part = 2 \/ x.double)
      BY <2>2, <1>3 DEF Expected
    <3>5. CASE a.seg = notify_reg
      BY <3>1, <3>2, <3>3, <3>4, <3>5, <2>4, <2>5
    <3>6. CASE a.seg # notify_reg
      BY <3>1, <3>4, <3>6, <2>5
    <3> QED BY <3>5, <3>6
  <2>8. ASSUME NEW a \in Access  PROVE Reported(a)' <=> Reported(a) /\ a # x0
    BY <2>6, <1>6, <1>3 DEF Reported
  <2>9. StatusTrue'
    BY <2>1, <1>6, <1>3 DEF StatusTrue
  <2>10. notified' \subseteq stored'
    <3>1. notify_fsm' = "READ_NOTIFY" => notify_reg \in stored
      BY <2>2, <2>4, <2>6, <1>3
    <3> QED BY <3>1, <2>1, <1>4, <1>3
  <2> QED BY <2>1, <2>7, <2>8, <2>9, <2>10 DEF MatchStatus
<1> QED BY <1>12, <1>13, <1>14, <1>15, <1>16 DEF Core, Matches, Ordered

LEMMA DoReadStatus2 ==
  ASSUME TInv, InPackets, Matches, NEW k \in Marks, Ordered(k), ReadStatus2
  PROVE  Core'
<1>1. PICK s : s = Head(status)
  OBVIOUS
<1>2. /\ status # <<>> /\ status' = Tail(status)
      /\ notify_fsm = "READ_STATUS_2" /\ notify_fsm' = "READ_NOTIFY"
      /\ notified' = IF s.okay THEN notified \cup {notify_reg} ELSE notified
      /\ notify_reg' = notify_reg /\ notify_cache' = notify_cache
      /\ double_flag' = double_flag /\ double_flag \in Seq(Flag)
      /\ mem_cmd' = mem_cmd /\ mover_cmd' = mover_cmd
      /\ writer' = writer /\ writer_seg' = writer_seg
      /\ failed' = failed /\ stored' = stored
      /\ notify_reg \in Segment /\ notify_reg.id \in Nat
  BY <1>1, KeyIsNat DEF ReadStatus2, NotifyRest, memory, results, TInv, TNotify, TFlag
<1>3. /\ s \in Status /\ s.access \in Access /\ No(s.access) \in Nat
      /\ RunT(status', No(s.access), k.c)
      /\ \A x : x \in Elems(status) <=> x = s \/ x \in Elems(status')
      /\ Reported(s.access)
      /\ \A a \in Access : Reported(a) => a = s.access \/ No(s.access) < No(a)
      /\ \A a \in Access :
           (\/ a \in Elems(mover_cmd) \/ \E x \in Elems(status') : x.access = a
            \/ writer = "FWD_BREAKDOWN_0" /\ a.seg = writer_seg /\ a.part = 2)
             <=> Reported(a) /\ a # s.access
  BY <1>1, <1>2, StatusRead
<1>4. \A x \in Elems(double_flag) : x.seg \in Segment /\ x.seg.id \in Nat /\ notify_reg.id < x.seg.id
  BY <1>2, Types, KeyIsNat DEF Ordered, ONotify, RunD
<1>5. No(s.access) \in Nat
  BY <1>3
<1>6. PICK j \in Marks : j["b"] = No(s.access) /\ \A z \in MarkNames \ {"b"} : j[z] = k[z]
  <2>1. "b" \in MarkNames
    BY DEF MarkNames
  <2> QED BY <2>1, Move, <1>5
<1>7. j.b = No(s.access) /\ j.p = k.p /\ j.vm = k.vm /\ j.v = k.v /\ j.mc = k.mc /\ j.m = k.m /\
     j.fl = k.fl /\ j.f = k.f /\ j.d1 = k.d1 /\ j.d2 = k.d2 /\ j.d3 = k.d3 /\ j.w = k.w /\
     j.n = k.n /\ j.g = k.g /\ j.a = k.a /\ j.c = k.c
  BY <1>6 DEF MarkNames
<1>8. InPackets' /\ OParse(j)' /\ OFront(j)' /\ OVerify(j)' /\ OMeta(j)' /\ OFsm(j)' /\
     ODrop(j)' /\ OWrite(j)' /\ MatchSum' /\ MatchMeta' /\ MatchFsm' /\ MatchWrite' /\
     MatchMover'
  BY <1>7 DEF ReadStatus2, Matches, Ordered, InPackets, OParse, OFront, OVerify, OMeta, OFsm, ODrop,
         OWrite, MatchSum, MatchMeta, MatchFsm, MatchWrite, MatchMover, AtPacket, Within, Before,
         Parsing, Forwarding, Current, CurrentPart, Parsed, ToDecide, KeptSum, ToLookup, KeptMeta,
         ToAccept, Accepted, ToWrite, HasWords, NotifyRest, checks, drop, drops, front, input,
         memory, results
<1>9. OMover(j)'
  BY <1>3, <1>2, <1>7 DEF Ordered, OMover
<1>10. ONotify(j)'
  BY <1>2, <1>7 DEF ReadStatus2, NotifyRest, Ordered, ONotify
<1>11. MatchNotify'
  <2>1. ASSUME NEW x \in Segment  PROVE Announced(x)' <=> Announced(x)
    BY <1>2 DEF Announced
  <2>2. ASSUME NEW x \in Segment  PROVE Flagged(x)' <=> Flagged(x)
    BY <1>2 DEF Flagged, Has
  <2> QED BY <2>1, <2>2 DEF Matches, MatchNotify
<1>12. Truthful'
  <2> SUFFICES ASSUME failed = {}  PROVE MatchStatus' /\ StatusTrue' /\ notified' \subseteq stored'
    BY <1>2 DEF Truthful
  <2>1. MatchStatus /\ StatusTrue /\ notified \subseteq stored
    BY DEF Matches, Truthful
  <2>2. s.okay /\ (s.access.part = 2 => s.access.seg \in stored)
    BY <2>1, <1>3 DEF StatusTrue
  <2>3. PICK x0 : x0 = [seg |-> notify_reg, part |-> 2]
    OBVIOUS
  <2>4. /\ x0 \in Access /\ x0.seg = notify_reg /\ x0.part = 2
        /\ No(x0) = 2 * notify_reg.id + 2 /\ No(x0) \in Nat
    BY <2>3, <1>2, KeyIsNat DEF Access, No
  <2>5. ASSUME NEW a \in Access
        PROVE  Expected(a) <=> \/ a.seg = notify_reg /\ a.part = 2
                               \/ \E x \in Elems(double_flag) : x.seg = a.seg /\ (a.part = 2 \/ x.double)
    BY <1>2 DEF Expected
  <2>6. s.access = x0
    <3>1. Expected(x0)
      BY <2>4, <2>5
    <3>2. x0 = s.access \/ No(s.access) < No(x0)
      BY <3>1, <2>1, <2>4, <1>3 DEF MatchStatus
    <3>3. x0 = s.access \/ No(x0) <= No(s.access)
      <4>1. Expected(s.access)
        BY <2>1, <1>3 DEF MatchStatus
      <4>2. /\ No(s.access) = 2 * s.access.seg.id + s.access.part
            /\ s.access.part \in {1, 2} /\ s.access.seg \in Segment /\ s.access.seg.id \in Nat
        BY <1>3, Fields, KeyIsNat DEF No
      <4>3. CASE s.access.seg = notify_reg /\ s.access.part = 2
        BY <4>3, <2>4, <1>3, AccessIs
      <4>4. CASE \E x \in Elems(double_flag) : x.seg = s.access.seg
        <5>1. notify_reg.id < s.access.seg.id
          BY <4>4, <1>4
        <5>2. notify_reg.id \in Nat /\ No(x0) = 2 * notify_reg.id + 2
          BY <2>4, <1>2
        <5> QED BY <5>1, <5>2, <4>2
      <4> QED BY <4>1, <4>3, <4>4, <2>5, <1>3
    <3> QED BY <3>2, <3>3, <2>4, <1>3
  <2>7. ASSUME NEW a \in Access  PROVE Expected(a)' <=> Expected(a) /\ a # x0
    <3>1. a = x0 <=> a.seg = notify_reg /\ a.part = 2
      BY <2>4, AccessIs
    <3>2. ~ \E x \in Elems(double_flag) : x.seg = notify_reg
      BY <1>4, <1>2
    <3>3. Expected(a)' <=> \E x \in Elems(double_flag) : x.seg = a.seg /\ (a.part = 2 \/ x.double)
      BY <1>2 DEF Expected
    <3> QED BY <3>1, <3>2, <3>3, <2>5
  <2>8. ASSUME NEW a \in Access  PROVE Reported(a)' <=> Reported(a) /\ a # x0
    BY <2>6, <1>3, <1>2 DEF Reported
  <2>9. StatusTrue'
    BY <2>1, <1>3, <1>2 DEF StatusTrue
  <2>10. notified' \subseteq stored'
    BY <2>1, <2>2, <2>4, <2>6, <1>2
  <2> QED BY <2>1, <2>7, <2>8, <2>9, <2>10 DEF MatchStatus
<1> QED BY <1>8, <1>9, <1>10, <1>11, <1>12 DEF Core, Matches, Ordered

-----------------------------------------------------------------------------
(* The invariant.                                                            *)

\* A payload without a decision is never made good again.
LEMMA HealthyBefore == [Next]_vars /\ Healthy' => Healthy
<1> SUFFICES ASSUME [Next]_vars, Healthy'  PROVE Healthy
  OBVIOUS
<1> USE DEF Healthy
<1>1. ASSUME NEW n \in 1 .. MaxWords, NEW pay \in BOOLEAN, Arrive(n, pay)  PROVE Healthy
  BY <1>1 DEF Arrive, results
<1>2. ASSUME PseudoHeaderInsert  PROVE Healthy
  BY <1>2 DEF PseudoHeaderInsert, results
<1>3. ASSUME SumWord  PROVE Healthy
  BY <1>3 DEF SumWord, results
<1>4. ASSUME ParseFirst  PROVE Healthy
  BY <1>4 DEF ParseFirst, results
<1>5. ASSUME NEW extra \in BOOLEAN, ParseRemaining(extra)  PROVE Healthy
  BY <1>5 DEF ParseRemaining, results
<1>6. ASSUME ParseExtra  PROVE Healthy
  BY <1>6 DEF ParseExtra, results
<1>7. ASSUME VerifyMeta  PROVE Healthy
  BY <1>7 DEF VerifyMeta, results
<1>8. ASSUME NEW valid \in BOOLEAN, VerifyChecksum(valid)  PROVE Healthy
  BY <1>8 DEF VerifyChecksum, results
<1>9. ASSUME NEW yes \in BOOLEAN, CheckPort(yes)  PROVE Healthy
  BY <1>9 DEF CheckPort, results
<1>10. ASSUME NEW yes \in BOOLEAN, LookupRsp(yes)  PROVE Healthy
  BY <1>10 DEF LookupRsp, results
<1>11. ASSUME FsmLoad  PROVE Healthy
  BY <1>11 DEF FsmLoad, results
<1>12. ASSUME FsmAccept  PROVE Healthy
  BY <1>12 DEF FsmAccept, results
<1>13. ASSUME FsmRefuse  PROVE Healthy
  BY <1>13 DEF FsmRefuse, results
<1>14. ASSUME NEW closed \in BOOLEAN, FsmSilent(closed)  PROVE Healthy
  BY <1>14 DEF FsmSilent
<1>15. ASSUME ReadDropSum  PROVE Healthy
  BY <1>15 DEF ReadDropSum, DropperRest, results
<1>16. ASSUME ReadDropMeta  PROVE Healthy
  BY <1>16 DEF ReadDropMeta, DropperRest, results
<1>17. ASSUME ReadDropFsm  PROVE Healthy
  BY <1>17 DEF ReadDropFsm, DropperRest, results
<1>18. ASSUME MoveWord  PROVE Healthy
  BY <1>18 DEF MoveWord, DropperRest, results
<1>19. ASSUME NEW b \in BOOLEAN, WriterCmd(b)  PROVE Healthy
  BY <1>19 DEF WriterCmd, WriterRest, results
<1>20. ASSUME WriterWhole  PROVE Healthy
  BY <1>20 DEF WriterWhole, WriterRest, results
<1>21. ASSUME NEW b \in BOOLEAN, WriterFirst(b)  PROVE Healthy
  BY <1>21 DEF WriterFirst, WriterRest, results
<1>22. ASSUME NEW b \in BOOLEAN, WriterSecond(b)  PROVE Healthy
  BY <1>22 DEF WriterSecond, WriterRest, results
<1>23. ASSUME WriterExtra  PROVE Healthy
  BY <1>23 DEF WriterExtra, WriterRest, results
<1>24. ASSUME NEW okay \in BOOLEAN, Mover(okay)  PROVE Healthy
  BY <1>24 DEF Mover, WriterRest
<1>25. ASSUME ReadNotify  PROVE Healthy
  BY <1>25 DEF ReadNotify, NotifyRest, results
<1>26. ASSUME ReadStatus1  PROVE Healthy
  BY <1>26 DEF ReadStatus1, NotifyRest, results
<1>27. ASSUME ReadStatus2  PROVE Healthy
  BY <1>27 DEF ReadStatus2, NotifyRest, results
<1>28. CASE UNCHANGED vars
  BY <1>28 DEF vars, results
<1> QED BY <1>1, <1>2, <1>3, <1>4, <1>5, <1>6, <1>7, <1>8, <1>9, <1>10, <1>11, <1>12, <1>13, <1>14,
           <1>15, <1>16, <1>17, <1>18, <1>19, <1>20, <1>21, <1>22, <1>23, <1>24, <1>25, <1>26,
           <1>27, <1>28
  DEF Next, Parse, Verify, MetaHandler, Fsm, PayloadDropper, WriteDataToMem, DataMover,
      NotificationHandler

LEMMA CoreNext == TInv /\ Core /\ [Next]_vars /\ Healthy' => Core'
<1> SUFFICES ASSUME TInv, Core, [Next]_vars, Healthy'  PROVE Core'
  OBVIOUS
<1>k. PICK k \in Marks : InPackets /\ Matches /\ Ordered(k)
  BY DEF Core
<1>1. ASSUME NEW n \in 1 .. MaxWords, NEW pay \in BOOLEAN, Arrive(n, pay)  PROVE Core'
  BY <1>k, <1>1, DoArrive
<1>2. ASSUME PseudoHeaderInsert  PROVE Core'
  BY <1>k, <1>2, DoPseudoHeaderInsert
<1>3. ASSUME SumWord  PROVE Core'
  BY <1>k, <1>3, DoSumWord
<1>4. ASSUME ParseFirst  PROVE Core'
  BY <1>k, <1>4, DoParseFirst
<1>5. ASSUME NEW extra \in BOOLEAN, ParseRemaining(extra)  PROVE Core'
  BY <1>k, <1>5, DoParseRemaining
<1>6. ASSUME ParseExtra  PROVE Core'
  BY <1>k, <1>6, DoParseExtra
<1>7. ASSUME VerifyMeta  PROVE Core'
  BY <1>k, <1>7, DoVerifyMeta
<1>8. ASSUME NEW valid \in BOOLEAN, VerifyChecksum(valid)  PROVE Core'
  BY <1>k, <1>8, DoVerifyChecksum
<1>9. ASSUME NEW yes \in BOOLEAN, CheckPort(yes)  PROVE Core'
  BY <1>k, <1>9, DoCheckPort
<1>10. ASSUME NEW yes \in BOOLEAN, LookupRsp(yes)  PROVE Core'
  BY <1>k, <1>10, DoLookupRsp
<1>11. ASSUME FsmLoad  PROVE Core'
  BY <1>k, <1>11, DoFsmLoad
<1>12. ASSUME FsmAccept  PROVE Core'
  BY <1>k, <1>12, DoFsmAccept
<1>13. ASSUME FsmRefuse  PROVE Core'
  BY <1>k, <1>13, DoFsmRefuse
<1>14. ASSUME NEW closed \in BOOLEAN, FsmSilent(closed)  PROVE Core'
  BY <1>k, <1>14, DoFsmSilent
<1>15. ASSUME ReadDropSum  PROVE Core'
  BY <1>k, <1>15, DoReadDropSum
<1>16. ASSUME ReadDropMeta  PROVE Core'
  BY <1>k, <1>16, DoReadDropMeta
<1>17. ASSUME ReadDropFsm  PROVE Core'
  BY <1>k, <1>17, DoReadDropFsm
<1>18. ASSUME MoveWord  PROVE Core'
  BY <1>k, <1>18, DoMoveWord
<1>19. ASSUME NEW b \in BOOLEAN, WriterCmd(b)  PROVE Core'
  BY <1>k, <1>19, DoWriterCmd
<1>20. ASSUME WriterWhole  PROVE Core'
  BY <1>k, <1>20, DoWriterWhole
<1>21. ASSUME NEW b \in BOOLEAN, WriterFirst(b)  PROVE Core'
  BY <1>k, <1>21, DoWriterFirst
<1>22. ASSUME NEW b \in BOOLEAN, WriterSecond(b)  PROVE Core'
  BY <1>k, <1>22, DoWriterSecond
<1>23. ASSUME WriterExtra  PROVE Core'
  BY <1>k, <1>23, DoWriterExtra
<1>24. ASSUME NEW okay \in BOOLEAN, Mover(okay)  PROVE Core'
  BY <1>k, <1>24, DoMover
<1>25. ASSUME ReadNotify  PROVE Core'
  BY <1>k, <1>25, DoReadNotify
<1>26. ASSUME ReadStatus1  PROVE Core'
  BY <1>k, <1>26, DoReadStatus1
<1>27. ASSUME ReadStatus2  PROVE Core'
  BY <1>k, <1>27, DoReadStatus2
<1>28. CASE UNCHANGED vars
  <2> USE <1>28 DEF vars, input, front, checks, drops, drop, memory, notify, results
  <2>1. InPackets'
    BY <1>k DEF InPackets
  <2>2. OParse(k)'
    BY <1>k DEF Ordered, OParse, AtPacket, Within, Before, Parsing
  <2>3. OFront(k)'
    BY <1>k DEF Ordered, OFront, Parsing
  <2>4. OVerify(k)'
    BY <1>k DEF Ordered, OVerify
  <2>5. OMeta(k)'
    BY <1>k DEF Ordered, OMeta
  <2>6. OFsm(k)'
    BY <1>k DEF Ordered, OFsm
  <2>7. ODrop(k)'
    BY <1>k DEF Ordered, ODrop, Forwarding
  <2>8. OWrite(k)'
    BY <1>k DEF Ordered, OWrite, Current, CurrentPart
  <2>9. OMover(k)'
    BY <1>k DEF Ordered, OMover
  <2>10. ONotify(k)'
    BY <1>k DEF Ordered, ONotify
  <2>11. MatchSum'
    BY <1>k DEF Matches, MatchSum, Parsed, Parsing, ToDecide
  <2>12. MatchMeta'
    BY <1>k DEF Matches, MatchMeta, KeptSum, ToLookup
  <2>13. MatchFsm'
    BY <1>k DEF Matches, MatchFsm, KeptMeta, ToAccept
  <2>14. MatchWrite'
    BY <1>k DEF Matches, MatchWrite, Accepted, Forwarding, ToWrite
  <2>15. MatchMover'
    BY <1>k DEF Matches, MatchMover, HasWords, Current, CurrentPart
  <2>16. MatchNotify'
    BY <1>k DEF Matches, MatchNotify, Announced, Flagged
  <2>17. Truthful'
    BY <1>k DEF Matches, Truthful, MatchStatus, StatusTrue, Expected, Reported
  <2> QED BY <1>k, <2>1, <2>2, <2>3, <2>4, <2>5, <2>6, <2>7, <2>8, <2>9, <2>10, <2>11, <2>12, <2>13,
             <2>14, <2>15, <2>16, <2>17 DEF Core, Matches, Ordered
<1> QED BY <1>1, <1>2, <1>3, <1>4, <1>5, <1>6, <1>7, <1>8, <1>9, <1>10, <1>11, <1>12, <1>13, <1>14,
           <1>15, <1>16, <1>17, <1>18, <1>19, <1>20, <1>21, <1>22, <1>23, <1>24, <1>25, <1>26,
           <1>27, <1>28
  DEF Next, Parse, Verify, MetaHandler, Fsm, PayloadDropper, WriteDataToMem, DataMover,
      NotificationHandler

THEOREM Inductive == Spec => []IInv
<1>1. Init => IInv
  <2> SUFFICES ASSUME Init  PROVE TInv /\ Core
    BY DEF IInv
  <2>1. TInv
    BY RxBoundAssumption, RxDepthAssumption
       DEF Init, TInv, TInput, TParse, TChecks, TDrop, TMemory, TWrite, TFlag, TStatus, TNotify, TResults
  <2>2. Elems(<<>>) = {} /\ Len(<<>>) = 0
    BY DEF Elems
  <2>3. PICK k \in Marks : \A y \in MarkNames : k[y] = 0
    <3>1. [y \in MarkNames |-> 0] \in Marks
      BY DEF Marks
    <3> QED BY <3>1
  <2>4. /\ k.p = 0 /\ k.vm = 0 /\ k.v = 0 /\ k.mc = 0 /\ k.m = 0 /\ k.fl = 0 /\ k.f = 0 /\ k.d1 = 0
        /\ k.d2 = 0 /\ k.d3 = 0 /\ k.w = 0 /\ k.n = 0 /\ k.g = 0 /\ k.a = 0 /\ k.c = 0 /\ k.b = 0
    BY <2>3 DEF MarkNames
  <2>5. /\ RunS(<<>>, 0, 0) /\ RunD(<<>>, 0, 0) /\ RunA(<<>>, 0, 0) /\ RunT(<<>>, 0, 0)
        /\ RegIn(None, 0, 0) /\ Words(<<>>, {}, 0) /\ AccessWords(<<>>, {}, 0)
    BY <2>2 DEF RunS, RunD, RunA, RunT, RegIn, Words, AccessWords
  <2>6. Parsing = {} /\ Forwarding = {} /\ Current = {}
    BY DEF Init, Parsing, Forwarding, Current
  <2>7. InPackets /\ AtPacket(0)
    BY <2>2 DEF Init, InPackets, Packets, AtPacket, Before
  <2>8. Ordered(k)
    BY <2>4, <2>5, <2>6, <2>7 DEF Init, Ordered, OParse, OFront, OVerify, OMeta, OFsm, ODrop, OWrite,
       OMover, ONotify
  <2>9. MatchSum /\ MatchMeta /\ MatchFsm
    BY <2>2, <2>6, RxNoneAssumption DEF Init, MatchSum, Parsed, ToDecide, MatchMeta, KeptSum, ToLookup, MatchFsm,
       KeptMeta, ToAccept, Kept, Has
  <2>10. MatchWrite /\ MatchMover /\ MatchNotify
    BY <2>2, <2>6 DEF Init, MatchWrite, Accepted, ToWrite, MatchMover, HasWords, MatchNotify,
       Announced, Flagged, Kept, Has
  <2>11. Truthful
    BY <2>2 DEF Init, Truthful, MatchStatus, StatusTrue, Expected, Reported
  <2> QED BY <2>1, <2>7, <2>8, <2>9, <2>10, <2>11 DEF Core, Matches
<1>2. IInv /\ [Next]_vars => IInv'
  BY TypeNext, HealthyBefore, CoreNext DEF IInv
<1> QED BY <1>1, <1>2, PTL DEF Spec

-----------------------------------------------------------------------------
(* Results.                                                                  *)

\* The FIFOs of the receive engine are matched by order only, and stay matched as long as every
\* payload that reaches the state machine is decided on: the payload that the dropper moves is
\* the one its three decisions were about, and the words that the data mover writes are those
\* of the access it was told to do (RxEngTcpPayloadDropper, WriteDataToMem).
THEOREM StreamsStayInStep == Spec => []StreamsInStep
<1>1. IInv => RxTypeOK
  BY SMTT(30) DEF IInv, TInv, TInput, TParse, TChecks, TDrop, TMemory, TWrite, TFlag, TStatus, TNotify,
     TResults, RxTypeOK, Packet, Flag, Notice, ParseWord
<1>2. IInv => DecisionsMatch
  BY DecidedFirst DEF IInv, Core, DecisionsMatch
<1>3. IInv => WritesMatch
  BY MoverTakes DEF IInv, Core, WritesMatch
<1>4. IInv => StreamsInStep
  BY <1>1, <1>2, <1>3 DEF StreamsInStep
<1> QED BY Inductive, <1>4, PTL

\* "Delays the notifications to the application until the data is actually written to memory":
\* what the application has been told about is in memory, all of it, as long as no write has
\* failed and every payload was decided on (RxEngNotificaionHandler, WriteDataToMem).
THEOREM NotifiedStaysStored == Spec => []NotifiedIsStored
<1>1. IInv => NotifiedIsStored
  BY DEF IInv, Core, Matches, Truthful, NotifiedIsStored
<1> QED BY Inductive, <1>1, PTL
=============================================================================
