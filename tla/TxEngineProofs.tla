--------------------------- MODULE TxEngineProofs ---------------------------
(***************************************************************************)
(* Proofs about TxEngine: what leaves the engine is legal, no new byte     *)
(* leaves beyond the peer's window, and the send window stays in order,    *)
(* for every modulus, segment size, window, write and depth of the FIFOs.  *)
(*                                                                         *)
(* The code counts modulo 2^32 and modulo the buffer size; the invariant   *)
(* speaks of offsets from the initial sequence number, which do not wrap   *)
(* (OffsetAssumption), and the first lemmas say what the residues tell     *)
(* about them.                                                             *)
(***************************************************************************)
EXTENDS TxEngine, TLAPS

-----------------------------------------------------------------------------
(* The types.                                                               *)

Seqs == 0 .. SeqMod - 1
Lens == 0 .. BufMod - 1
Syns == {"SYN", "SYN_ACK"}
Rsts == {"RST", "RST_NO_SESSION"}
Datas == {"TX", "RT", "RT_CONT"}

Entry ==
  [ackd : Seqs, not_ackd : Seqs, app_written : Lens, recv_window : Windows \cup {0},
   cong_window : Lens, slowstart_threshold : Lens, fin_is_ready : BOOLEAN, fin_is_sent : BOOLEAN]
WriteReqs == [kind : {"write"}, not_ackd : Seqs, fin_is_ready : BOOLEAN, fin_is_sent : BOOLEAN]
InitReqs == {InitReq(Plus(Isn, 1))}
RetransReqs == [kind : {"retrans"}, threshold : Lens]
Requests == {ReadReq} \cup WriteReqs \cup InitReqs \cup RetransReqs
Answers ==
  [ackd : Seqs, not_ackd : Seqs, app_written : Lens, fin_is_ready : BOOLEAN,
   fin_is_sent : BOOLEAN, curr_length : Lens, used_length : Lens, used_length_rst : Lens,
   usable_window : Lens, min_window : Lens, ackd_eq_not_ackd : BOOLEAN, not_ackd_short : Seqs]
Events == [type : EventTypes, cnt : 0 .. 2]
FsmTypes == {"LOAD", "RT_CONT"} \cup EventTypes
Fsms ==
  [type : FsmTypes, cnt : 0 .. 2, loaded : BOOLEAN, segs : Nat,
   curr : Lens, used : Lens, usable : Lens, rsp : Answers \cup {NoRsp}]
RxReads ==
  [ack : Seqs, perv_ack : Seqs, next_byte : Seqs, cong_window : Lens, slowstart_threshold : Lens]
DataSegs == [type : Datas, seq : Seqs, len : Lens, addr : Lens]
FlagSegs == [type : {"ACK", "SYN", "SYN_ACK", "FIN", "RST"}, seq : Seqs]

TSar ==
  /\ sar \in Entry
  /\ sar_req \in Seq(Requests) /\ Len(sar_req) <= Depth
  /\ sar_rsp \in Seq(Answers) /\ Len(sar_rsp) <= Depth
TFsm ==
  /\ fsm \in Fsms
  /\ fsm.loaded => fsm.rsp \in Answers /\ fsm.type \in {"TX", "RT_CONT", "FIN"}
  /\ fsm.type = "RT_CONT" => fsm.loaded
TRest ==
  /\ events \in Seq(Events) /\ Len(events) <= Depth
  /\ rx \in RxReads \cup {NoRx}
  /\ ptimer \in BOOLEAN /\ rtimer \in [type : {"off", "SYN", "SYN_ACK", "RT"}, cnt : 0 .. 2]
  /\ written \in 0 .. MaxWritten /\ conn \in Conns
\* A segment that can be delivered ends where something was sent.
TSeg ==
  /\ seg \in {NoSeg} \cup DataSegs \cup FlagSegs
  /\ sent \in Nat /\ rcvd \in 0 .. sent
  /\ seg.type \notin {"none", "ACK", "RST"} => SegEnd <= sent

TInv == TSar /\ TFsm /\ TRest /\ TSeg

-----------------------------------------------------------------------------
(* Numbers.                                                                 *)

LEMMA Sizes ==
  /\ SeqMod \in Nat /\ BufMod \in Nat /\ LenMod \in Nat /\ MSS \in Nat /\ Isn \in Int
  /\ 1 <= MSS /\ MSS < LenMod /\ LenMod <= BufMod /\ 2 <= BufMod /\ BufMod < SeqMod
  /\ 0 <= Isn /\ Isn < SeqMod /\ MaxWritten \in Nat /\ MaxWritten + BufMod + 2 < SeqMod
  /\ SeqMod \in Nat \ {0} /\ BufMod \in Nat \ {0} /\ LenMod \in Nat \ {0}
BY SeqAssumption, LenAssumption, IsnAssumption, BoundsAssumption, OffsetAssumption

LEMMA ModDivides ==
  ASSUME NEW m \in Nat \ {0}, NEW x \in Int
  PROVE  /\ x % m \in 0 .. m - 1 /\ x % m \in Int
         /\ \E q \in Int : x = m * q + (x % m)
<1>1. x = m * (x \div m) + (x % m) /\ (x \div m) \in Int /\ (x % m) \in 0 .. m - 1
  OBVIOUS
<1>2. (x % m) \in Int
  OBVIOUS
<1>3. \E q \in Int : x = m * q + (x % m)
  BY <1>1
<1> QED BY <1>1, <1>2, <1>3

\* A number has one residue.
LEMMA ModUnique ==
  ASSUME NEW m \in Nat \ {0}, NEW q \in Int, NEW r \in 0 .. m - 1
  PROVE  (m * q + r) % m = r
<1> DEFINE x == m * q + r
<1>1. m \in Nat /\ m > 0 /\ r \in Int /\ 0 <= r /\ r < m
  OBVIOUS
<1>2. x \in Int
  BY <1>1
<1>3. PICK p \in Int : x = m * p + (x % m)
  BY <1>2, ModDivides
<1>4. (x % m) \in Int /\ 0 <= (x % m) /\ (x % m) < m
  BY <1>2, <1>1, ModDivides
<1>5. PICK d \in Int : d = p - q
  OBVIOUS
<1>6. m * d = r - (x % m)
  <2>1. m * d = m * p - m * q
    BY <1>1, <1>5
  <2>2. m * p \in Int /\ m * q \in Int
    BY <1>1
  <2> QED BY <2>1, <2>2, <1>1, <1>3, <1>4
<1>7. d = 0
  <2>1. ASSUME d >= 1  PROVE FALSE
    <3>1. m * d >= m
      BY <1>1, <2>1
    <3> QED BY <3>1, <1>1, <1>4, <1>6
  <2>2. ASSUME d <= -1  PROVE FALSE
    <3>1. m * d <= -m
      BY <1>1, <2>2
    <3> QED BY <3>1, <1>1, <1>4, <1>6
  <2> QED BY <2>1, <2>2
<1>8. m * d = 0
  BY <1>1, <1>7
<1> QED BY <1>8, <1>6, <1>4, <1>1

LEMMA ModSmall ==
  ASSUME NEW m \in Nat \ {0}, NEW x \in Int
  PROVE  /\ 0 <= x /\ x < m => x % m = x
         /\ -m <= x /\ x < 0 => x % m = x + m
<1>2. m * 0 = 0 /\ m * (-1) = -m
  OBVIOUS
<1>3. ASSUME 0 <= x, x < m  PROVE x % m = x
  <2>1. x \in 0 .. m - 1
    BY <1>3
  <2>2. (m * 0 + x) % m = x
    BY <2>1, ModUnique
  <2> QED BY <2>2, <1>2
<1>4. ASSUME -m <= x, x < 0  PROVE x % m = x + m
  <2>1. x + m \in 0 .. m - 1
    BY <1>4
  <2>2. (m * (-1) + (x + m)) % m = x + m
    BY <2>1, ModUnique
  <2>3. m * (-1) + (x + m) = x
    BY <1>2
  <2> QED BY <2>2, <2>3
<1> QED BY <1>3, <1>4

\* Numbers that differ by a multiple of m have the same residue.
LEMMA ModShift ==
  ASSUME NEW m \in Nat \ {0}, NEW x \in Int, NEW q \in Int
  PROVE  (x + m * q) % m = x % m
<1>1. PICK p \in Int : x = m * p + (x % m)
  BY ModDivides
<1>2. x % m \in 0 .. m - 1 /\ x % m \in Int
  BY ModDivides
<1>3. x + m * q = m * (p + q) + (x % m)
  <2>1. m * (p + q) = m * p + m * q
    OBVIOUS
  <2>2. m * p \in Int /\ m * q \in Int
    OBVIOUS
  <2> QED BY <2>1, <2>2, <1>1, <1>2
<1>4. p + q \in Int
  OBVIOUS
<1> QED BY <1>2, <1>3, <1>4, ModUnique

\* Computing with residues is computing with the numbers.
LEMMA ModAdd ==
  ASSUME NEW m \in Nat \ {0}, NEW x \in Int, NEW y \in Int
  PROVE  /\ ((x % m) + y) % m = (x + y) % m
         /\ (x - (y % m)) % m = (x - y) % m
<1>1. PICK p \in Int : x = m * p + (x % m)
  BY ModDivides
<1>2. PICK q \in Int : y = m * q + (y % m)
  BY ModDivides
<1>3. x % m \in Int /\ y % m \in Int
  BY ModDivides
<1>4. PICK u \in Int, v \in Int : u = (x % m) + y /\ v = x - y
  BY <1>3
<1>5. x + y = u + m * p
  <2>1. m * p \in Int
    OBVIOUS
  <2> QED BY <2>1, <1>1, <1>3, <1>4
<1>6. x - (y % m) = v + m * q
  <2>1. PICK z \in Int, w \in Int : z = m * q /\ w = y % m
    BY <1>3
  <2>2. y = z + w
    BY <2>1, <1>2
  <2>3. x - w = v + z
    BY <2>2, <1>4
  <2> QED BY <2>1, <2>3
<1>7. (u + m * p) % m = u % m /\ (v + m * q) % m = v % m
  BY ModShift
<1> QED BY <1>4, <1>5, <1>6, <1>7

LEMMA ModMod ==
  ASSUME NEW m \in Nat \ {0}, NEW k \in Nat \ {0}, k % m = 0, NEW x \in Int
  PROVE  (x % k) % m = x % m
<1>1. PICK p \in Int : k = m * p
  <2>0. k \in Int
    OBVIOUS
  <2>1. PICK p \in Int : k = m * p + (k % m)
    BY <2>0, ModDivides
  <2>2. m * p \in Int
    OBVIOUS
  <2> QED BY <2>1, <2>2
<1>2. PICK q \in Int : x = k * q + (x % k)
  BY ModDivides
<1>3. x % k \in Int
  BY ModDivides
<1>4. PICK r \in Int : r = p * q
  OBVIOUS
<1>5. k * q = m * r
  <2>1. (m * p) * q = m * (p * q)
    OBVIOUS
  <2> QED BY <2>1, <1>1, <1>4
<1>6. x = (x % k) + m * r
  <2>1. m * r \in Int
    OBVIOUS
  <2> QED BY <2>1, <1>2, <1>3, <1>5
<1>7. ((x % k) + m * r) % m = (x % k) % m
  BY <1>3, <1>4, ModShift
<1> QED BY <1>6, <1>7

LEMMA LowRange == ASSUME NEW x \in Int  PROVE Low(x) \in Lens /\ Low(x) \in Int
BY Sizes, ModDivides DEF Low, Lens

LEMMA PlusRange == ASSUME NEW x \in Int, NEW n \in Int  PROVE Plus(x, n) \in Seqs /\ Plus(x, n) \in Int
BY Sizes, ModDivides DEF Plus, Seqs

LEMMA Ints ==
  /\ \A x \in Seqs : x \in Nat /\ x \in Int /\ 0 <= x /\ x < SeqMod
  /\ \A x \in Lens : x \in Nat /\ x \in Int /\ 0 <= x /\ x < BufMod
  /\ 0 \in Lens /\ 0 \in Seqs /\ Isn \in Seqs /\ MSS \in Lens /\ Isn \in Int /\ 1 \in Int
BY Sizes DEF Seqs, Lens

\* Offsets and sequence numbers are the same thing seen from another zero.
LEMMA OffFacts ==
  ASSUME NEW x \in Seqs
  PROVE  /\ Off(x) \in Nat /\ Off(x) \in Int /\ 0 <= Off(x) /\ Off(x) < SeqMod
         /\ Off(x) = IF x >= Isn THEN x - Isn ELSE x - Isn + SeqMod
<1>1. x \in Int /\ 0 <= x /\ x < SeqMod
  BY Ints
<1>2. x - Isn \in Int
  BY <1>1, Sizes
<1>3. CASE x >= Isn
  <2>1. 0 <= x - Isn /\ x - Isn < SeqMod
    BY <1>1, <1>3, Sizes
  <2>2. Off(x) = x - Isn
    BY <2>1, <1>2, ModSmall, Sizes DEF Off
  <2> QED BY <2>1, <2>2, <1>2, <1>3
<1>4. CASE ~(x >= Isn)
  <2>1. -SeqMod <= x - Isn /\ x - Isn < 0
    BY <1>1, <1>4, Sizes
  <2>2. Off(x) = x - Isn + SeqMod
    BY <2>1, <1>2, ModSmall, Sizes DEF Off
  <2> QED BY <2>1, <2>2, <1>2, <1>4, Sizes
<1> QED BY <1>3, <1>4

LEMMA OffEq == ASSUME NEW x \in Seqs, NEW y \in Seqs, Off(x) = Off(y)  PROVE x = y
BY OffFacts, Ints, Sizes

LEMMA OffPlus ==
  ASSUME NEW x \in Seqs, NEW n \in Int, 0 <= Off(x) + n, Off(x) + n < SeqMod
  PROVE  Off(Plus(x, n)) = Off(x) + n
<1>1. x \in Int /\ Off(x) \in Int /\ x + n \in Int /\ x - Isn \in Int /\ -Isn \in Int
  BY Ints, OffFacts, Sizes
<1>2. (((x + n) % SeqMod) + (-Isn)) % SeqMod = (x + n + (-Isn)) % SeqMod
  BY <1>1, ModAdd, Sizes
<1>3. (((x - Isn) % SeqMod) + n) % SeqMod = (x - Isn + n) % SeqMod
  BY <1>1, ModAdd, Sizes
<1>4. x + n + (-Isn) = (x - Isn) + n /\ ((x + n) % SeqMod) + (-Isn) = ((x + n) % SeqMod) - Isn
  <2>1. (x + n) % SeqMod \in Int
    BY <1>1, ModDivides, Sizes
  <2> QED BY <2>1, <1>1, Sizes
<1>5. Off(Plus(x, n)) = (Off(x) + n) % SeqMod
  BY <1>2, <1>3, <1>4 DEF Off, Plus
<1>6. Off(x) + n \in Int
  BY <1>1
<1> QED BY <1>5, <1>6, ModSmall, Sizes

LEMMA OffIsn ==
  /\ Off(Isn) = 0
  /\ \A n \in Nat : n < SeqMod => Off(Plus(Isn, n)) = n
<1>1. Off(Isn) = 0
  BY OffFacts, Ints, Sizes
<1>2. ASSUME NEW n \in Nat, n < SeqMod  PROVE Off(Plus(Isn, n)) = n
  BY <1>1, <1>2, OffPlus, Ints, Sizes
<1> QED BY <1>1, <1>2

\* The low bits of a sequence number are those of its offset.
LEMMA LowOff ==
  ASSUME NEW x \in Seqs
  PROVE  Low(x) = Low(Isn + Off(x)) /\ Low(x) \in Lens /\ Low(x) \in Int /\ Isn + Off(x) \in Int
<1>1. x \in Int /\ Off(x) \in Int /\ Isn + Off(x) \in Int
  BY Ints, OffFacts, Sizes
<1>2. x = (Isn + Off(x)) % SeqMod
  <2>1. CASE x >= Isn
    <3>1. Isn + Off(x) = x /\ 0 <= x /\ x < SeqMod
      BY <2>1, <1>1, OffFacts, Ints, Sizes
    <3> QED BY <3>1, <1>1, ModSmall, Sizes
  <2>2. CASE ~(x >= Isn)
    <3>1. Isn + Off(x) = x + SeqMod * 1
      BY <2>2, <1>1, OffFacts, Ints, Sizes
    <3>2. (x + SeqMod * 1) % SeqMod = x % SeqMod
      <4>1. SeqMod \in Nat \ {0} /\ 1 \in Int
        BY Sizes
      <4> QED BY <4>1, <1>1, ModShift
    <3>3. x % SeqMod = x
      BY <1>1, Ints, ModSmall, Sizes
    <3> QED BY <3>1, <3>2, <3>3
  <2> QED BY <2>1, <2>2
<1>3. ((Isn + Off(x)) % SeqMod) % BufMod = (Isn + Off(x)) % BufMod
  BY <1>1, ModMod, Sizes, SeqAssumption
<1> QED BY <1>1, <1>2, <1>3, LowRange DEF Low

\* The difference of two residues is the distance of the offsets, if it is below the modulus.
LEMMA LowDiff ==
  ASSUME NEW u \in Int, NEW v \in Int
  PROVE  /\ Low(Low(u) - Low(v)) = Low(u - v)
         /\ Low(Low(u) - v) = Low(u - v)
         /\ 0 <= u - v /\ u - v < BufMod => Low(u - v) = u - v
         /\ -BufMod <= u - v /\ u - v < 0 => Low(u - v) = u - v + BufMod
<1>1. Low(u) \in Int /\ Low(v) \in Int /\ u - v \in Int /\ -v \in Int /\ -Low(v) \in Int
  BY LowRange
<1>2. Low(Low(u) - Low(v)) = Low(Low(u) - v)
  BY <1>1, ModAdd, Sizes DEF Low
<1>3. Low(Low(u) - v) = Low(u - v)
  <2>1. ((u % BufMod) + (-v)) % BufMod = (u + (-v)) % BufMod
    BY <1>1, ModAdd, Sizes
  <2>2. u + (-v) = u - v /\ (u % BufMod) + (-v) = (u % BufMod) - v
    BY <1>1 DEF Low
  <2> QED BY <2>1, <2>2 DEF Low
<1>4. 0 <= u - v /\ u - v < BufMod => Low(u - v) = u - v
  BY <1>1, ModSmall, Sizes DEF Low
<1>5. -BufMod <= u - v /\ u - v < 0 => Low(u - v) = u - v + BufMod
  BY <1>1, ModSmall, Sizes DEF Low
<1> QED BY <1>2, <1>3, <1>4, <1>5

LEMMA LowAdd == ASSUME NEW u \in Int, NEW n \in Int  PROVE Low(Low(u) + n) = Low(u + n)
BY ModAdd, Sizes DEF Low

\* Two offsets that are close and have the same residue are equal.
LEMMA LowEq ==
  ASSUME NEW u \in Int, NEW v \in Int, Low(u) = Low(v), -BufMod < u - v, u - v < BufMod
  PROVE  u = v
<1>1. Low(u - v) = Low(Low(u) - Low(u))
  BY LowDiff
<1>2. Low(u) - Low(u) = 0
  BY LowRange
<1>3. Low(0) = 0
  BY ModSmall, Sizes DEF Low
<1>4. Low(u - v) = 0
  BY <1>1, <1>2, <1>3
<1>5. PICK d \in Int : d = u - v
  OBVIOUS
<1>6. (0 <= d => d = 0) /\ (d < 0 => 0 = d + BufMod)
  <2>1. /\ 0 <= u - v /\ u - v < BufMod => Low(u - v) = u - v
        /\ -BufMod <= u - v /\ u - v < 0 => Low(u - v) = u - v + BufMod
    BY LowDiff
  <2>2. -BufMod <= u - v /\ u - v < BufMod
    BY Sizes
  <2> QED BY <2>1, <2>2, <1>4, <1>5
<1> QED BY <1>5, <1>6, Sizes

LEMMA Smallest ==
  /\ \A x, y \in Int : Min({x, y}) \in {x, y} /\ Min({x, y}) <= x /\ Min({x, y}) <= y
  /\ \A x, y \in Int : Max({x, y}) \in {x, y} /\ Max({x, y}) >= x /\ Max({x, y}) >= y
  /\ \A x, y, z \in Int : /\ Min({x, y, z}) \in {x, y, z}
                          /\ Min({x, y, z}) <= x /\ Min({x, y, z}) <= y /\ Min({x, y, z}) <= z
<1>1. ASSUME NEW x \in Int, NEW y \in Int
      PROVE  Min({x, y}) \in {x, y} /\ Min({x, y}) <= x /\ Min({x, y}) <= y
  <2>1. \E m \in {x, y} : \A n \in {x, y} : m <= n
    OBVIOUS
  <2> QED BY <2>1 DEF Min
<1>2. ASSUME NEW x \in Int, NEW y \in Int
      PROVE  Max({x, y}) \in {x, y} /\ Max({x, y}) >= x /\ Max({x, y}) >= y
  <2>1. \E m \in {x, y} : \A n \in {x, y} : m >= n
    OBVIOUS
  <2> QED BY <2>1 DEF Max
<1>3. ASSUME NEW x \in Int, NEW y \in Int, NEW z \in Int
      PROVE  /\ Min({x, y, z}) \in {x, y, z}
             /\ Min({x, y, z}) <= x /\ Min({x, y, z}) <= y /\ Min({x, y, z}) <= z
  <2>1. \E m \in {x, y, z} : \A n \in {x, y, z} : m <= n
    OBVIOUS
  <2> QED BY <2>1 DEF Min
<1> QED BY <1>1, <1>2, <1>3

\* The test for the window is the one on the offsets.
LEMMA InWindowOff ==
  ASSUME NEW s \in RxReads, Off(s.perv_ack) <= Off(s.next_byte)
  PROVE  InWindow(s) <=> Off(s.perv_ack) <= Off(s.ack) /\ Off(s.ack) <= Off(s.next_byte)
<1>1. s.perv_ack \in Seqs /\ s.ack \in Seqs /\ s.next_byte \in Seqs
  BY DEF RxReads
<1>2. PICK p \in Seqs, a \in Seqs, n \in Seqs : p = s.perv_ack /\ a = s.ack /\ n = s.next_byte
  BY <1>1
<1>3. Off(p) <= Off(n)
  BY <1>2
<1>4. /\ Off(p) = (IF p >= Isn THEN p - Isn ELSE p - Isn + SeqMod)
      /\ Off(a) = (IF a >= Isn THEN a - Isn ELSE a - Isn + SeqMod)
      /\ Off(n) = (IF n >= Isn THEN n - Isn ELSE n - Isn + SeqMod)
  BY OffFacts
<1>5. /\ p \in Int /\ a \in Int /\ n \in Int /\ Isn \in Int /\ SeqMod \in Int
      /\ 0 <= p /\ p < SeqMod /\ 0 <= a /\ a < SeqMod /\ 0 <= n /\ n < SeqMod
      /\ 0 <= Isn /\ Isn < SeqMod
  BY Ints, Sizes
<1>6. (p <= a /\ a <= n) \/ ((p <= a \/ a <= n) /\ n < p) <=> Off(p) <= Off(a) /\ Off(a) <= Off(n)
  BY <1>3, <1>4, <1>5
<1> QED BY <1>2, <1>6 DEF InWindow

-----------------------------------------------------------------------------
(* FIFOs and records.                                                        *)

\* A FIFO after its head was read, and after an entry was written.
Takes(q, r) == /\ Len(q) > 0 /\ Len(r) = Len(q) - 1
               /\ \A i \in 1 .. Len(r) : r[i] = q[i + 1]
Grows(q, r, e) == /\ Len(r) = Len(q) + 1 /\ r[Len(q) + 1] = e
                  /\ \A i \in 1 .. Len(q) : r[i] = q[i]

LEMMA In ==
  ASSUME NEW T, NEW q \in Seq(T)
  PROVE  /\ Len(q) \in Nat /\ (Len(q) = 0 <=> q = <<>>)
         /\ \A i \in 1 .. Len(q) : q[i] \in T
<1>1. Len(q) \in Nat /\ (\A i \in 1 .. Len(q) : q[i] \in T)
  OBVIOUS
<1>2. Len(q) = 0 => q = <<>>
  OBVIOUS
<1>3. \A r : r = <<>> => Len(r) = 0
  OBVIOUS
<1> QED BY <1>1, <1>2, <1>3

LEMMA Rd ==
  ASSUME NEW T, NEW q \in Seq(T), q # <<>>
  PROVE  /\ Head(q) \in T /\ Head(q) = q[1] /\ Tail(q) \in Seq(T)
         /\ Takes(q, Tail(q)) /\ Len(Tail(q)) \in Nat /\ Len(q) \in Nat
<1>1. /\ Head(q) \in T /\ Tail(q) \in Seq(T) /\ Head(q) = q[1]
      /\ Len(q) \in Nat /\ Len(q) > 0 /\ Len(Tail(q)) = Len(q) - 1 /\ Len(Tail(q)) \in Nat
      /\ \A i \in 1 .. Len(q) - 1 : Tail(q)[i] = q[i + 1]
  OBVIOUS
<1> QED BY <1>1 DEF Takes

LEMMA Wr ==
  ASSUME NEW T, NEW q \in Seq(T), NEW e \in T
  PROVE  /\ Append(q, e) \in Seq(T) /\ Grows(q, Append(q, e), e)
         /\ Len(q) \in Nat /\ Len(Append(q, e)) = Len(q) + 1
<1>1. /\ Append(q, e) \in Seq(T) /\ Len(q) \in Nat /\ Len(Append(q, e)) = Len(q) + 1
      /\ Append(q, e)[Len(q) + 1] = e
      /\ \A i \in 1 .. Len(q) : Append(q, e)[i] = q[i]
  OBVIOUS
<1> QED BY <1>1 DEF Grows

LEMMA RequestKinds ==
  /\ \A q \in Requests : q.kind \in {"read", "write", "init", "retrans"}
  /\ \A q \in Requests : q.kind = "write" =>
       /\ q.not_ackd \in Seqs /\ q.fin_is_ready \in BOOLEAN /\ q.fin_is_sent \in BOOLEAN
  /\ \A q \in Requests : q.kind = "init" => q.not_ackd = Plus(Isn, 1)
  /\ \A q \in Requests : q.kind = "retrans" => q.threshold \in Lens
  /\ \A n \in Seqs, a, b \in BOOLEAN :
       LET q == WriteReq(n, a, b) IN
       /\ q \in Requests /\ q.kind = "write" /\ q.not_ackd = n
       /\ q.fin_is_ready = a /\ q.fin_is_sent = b
  /\ \A n \in Lens : RetransReq(n) \in Requests /\ RetransReq(n).kind = "retrans"
  /\ ReadReq \in Requests /\ ReadReq.kind = "read"
  /\ InitReq(Plus(Isn, 1)) \in Requests /\ InitReq(Plus(Isn, 1)).kind = "init"
<1>1. \A q \in WriteReqs : q.kind = "write"
  BY DEF WriteReqs
<1>2. \A q \in InitReqs : q.kind = "init" /\ q.not_ackd = Plus(Isn, 1)
  BY DEF InitReqs, InitReq
<1>3. \A q \in RetransReqs : q.kind = "retrans"
  BY DEF RetransReqs
<1>4. ReadReq.kind = "read"
  BY DEF ReadReq
<1>5. \A q \in Requests : q = ReadReq \/ q \in WriteReqs \/ q \in InitReqs \/ q \in RetransReqs
  BY DEF Requests
<1>6. \A q \in Requests : q.kind \in {"read", "write", "init", "retrans"}
  BY <1>1, <1>2, <1>3, <1>4, <1>5
<1>7. \A q \in Requests : q.kind = "write" =>
        /\ q.not_ackd \in Seqs /\ q.fin_is_ready \in BOOLEAN /\ q.fin_is_sent \in BOOLEAN
  <2> SUFFICES ASSUME NEW q \in Requests, q.kind = "write"  PROVE q \in WriteReqs
    BY DEF WriteReqs
  <2> QED BY <1>2, <1>3, <1>4, <1>5
<1>8. \A q \in Requests : q.kind = "init" => q.not_ackd = Plus(Isn, 1)
  BY <1>1, <1>2, <1>3, <1>4, <1>5
<1>9. \A q \in Requests : q.kind = "retrans" => q.threshold \in Lens
  <2> SUFFICES ASSUME NEW q \in Requests, q.kind = "retrans"  PROVE q \in RetransReqs
    BY DEF RetransReqs
  <2> QED BY <1>1, <1>2, <1>4, <1>5
<1>10. \A n \in Seqs, a, b \in BOOLEAN :
        LET q == WriteReq(n, a, b) IN
        /\ q \in Requests /\ q.kind = "write" /\ q.not_ackd = n
        /\ q.fin_is_ready = a /\ q.fin_is_sent = b
  BY DEF WriteReq, Requests, WriteReqs
<1>11. \A n \in Lens : RetransReq(n) \in Requests /\ RetransReq(n).kind = "retrans"
  BY DEF RetransReq, Requests, RetransReqs
<1>12. ReadReq \in Requests /\ InitReq(Plus(Isn, 1)) \in Requests
  BY DEF Requests, InitReqs
<1>13. InitReq(Plus(Isn, 1)).kind = "init"
  BY DEF InitReq
<1> QED BY <1>4, <1>6, <1>7, <1>8, <1>9, <1>10, <1>11, <1>12, <1>13

LEMMA RecordKinds ==
  /\ \A r \in Answers :
       /\ r.ackd \in Seqs /\ r.not_ackd \in Seqs /\ r.app_written \in Lens
       /\ r.fin_is_ready \in BOOLEAN /\ r.fin_is_sent \in BOOLEAN /\ r.curr_length \in Lens
       /\ r.used_length \in Lens /\ r.used_length_rst \in Lens /\ r.usable_window \in Lens
       /\ r.min_window \in Lens /\ r.ackd_eq_not_ackd \in BOOLEAN /\ r.not_ackd_short \in Seqs
  /\ \A e \in Events : e.type \in EventTypes /\ e.cnt \in 0 .. 2
  /\ \A t \in EventTypes, c \in 0 .. 2 :
       Ev(t, c) \in Events /\ Ev(t, c).type = t /\ Ev(t, c).cnt = c
  /\ \A r \in RxReads :
       /\ r.ack \in Seqs /\ r.perv_ack \in Seqs /\ r.next_byte \in Seqs
       /\ r.cong_window \in Lens /\ r.slowstart_threshold \in Lens
  /\ NoRx \notin RxReads
  /\ \A s \in DataSegs : s.type \in Datas /\ s.seq \in Seqs /\ s.len \in Lens
  /\ \A s \in FlagSegs : s.type \in {"ACK", "SYN", "SYN_ACK", "FIN", "RST"} /\ s.seq \in Seqs
  /\ \A e \in Entry :
       /\ e.ackd \in Seqs /\ e.not_ackd \in Seqs /\ e.app_written \in Lens
       /\ e.recv_window \in Windows \cup {0} /\ e.cong_window \in Lens
       /\ e.slowstart_threshold \in Lens /\ e.fin_is_ready \in BOOLEAN /\ e.fin_is_sent \in BOOLEAN
<1>1. NoRx \notin RxReads
  <2> SUFFICES ASSUME NEW x \in RxReads, x = NoRx  PROVE FALSE
    OBVIOUS
  <2>1. "perv_ack" \in DOMAIN x
    BY DEF RxReads
  <2>2. DOMAIN NoRx = {"ack"}
    BY DEF NoRx
  <2> QED BY <2>1, <2>2
<1>2. \A r \in Answers :
       /\ r.ackd \in Seqs /\ r.not_ackd \in Seqs /\ r.app_written \in Lens
       /\ r.fin_is_ready \in BOOLEAN /\ r.fin_is_sent \in BOOLEAN /\ r.curr_length \in Lens
       /\ r.used_length \in Lens /\ r.used_length_rst \in Lens /\ r.usable_window \in Lens
       /\ r.min_window \in Lens /\ r.ackd_eq_not_ackd \in BOOLEAN /\ r.not_ackd_short \in Seqs
  BY DEF Answers
<1>3. /\ \A e \in Events : e.type \in EventTypes /\ e.cnt \in 0 .. 2
      /\ \A t \in EventTypes, c \in 0 .. 2 :
           Ev(t, c) \in Events /\ Ev(t, c).type = t /\ Ev(t, c).cnt = c
  BY DEF Events, Ev
<1>4. \A r \in RxReads :
       /\ r.ack \in Seqs /\ r.perv_ack \in Seqs /\ r.next_byte \in Seqs
       /\ r.cong_window \in Lens /\ r.slowstart_threshold \in Lens
  BY DEF RxReads
<1>5. /\ \A s \in DataSegs : s.type \in Datas /\ s.seq \in Seqs /\ s.len \in Lens
      /\ \A s \in FlagSegs : s.type \in {"ACK", "SYN", "SYN_ACK", "FIN", "RST"} /\ s.seq \in Seqs
  BY DEF DataSegs, FlagSegs
<1>6. \A e \in Entry :
       /\ e.ackd \in Seqs /\ e.not_ackd \in Seqs /\ e.app_written \in Lens
       /\ e.recv_window \in Windows \cup {0} /\ e.cong_window \in Lens
       /\ e.slowstart_threshold \in Lens /\ e.fin_is_ready \in BOOLEAN /\ e.fin_is_sent \in BOOLEAN
  BY DEF Entry
<1> QED BY <1>1, <1>2, <1>3, <1>4, <1>5, <1>6

LEMMA WindowInts == \A w \in Windows \cup {0} : w \in Lens /\ w \in Nat /\ w \in Int /\ w < BufMod
BY WindowsAssumption, Sizes DEF Lens

-----------------------------------------------------------------------------
(* What a step does with the segment and the registers of the engine.        *)

LEMMA NoSegment ==
  ASSUME TInv, seg' = NoSeg, sent' = sent, rcvd' \in 0 .. sent
  PROVE  TSeg'
BY DEF TInv, TSeg, NoSeg

LEMMA SegmentLeaves ==
  ASSUME TInv, NEW s \in DataSegs \cup FlagSegs, NEW n \in Nat, Emit(s, n), rcvd' = rcvd,
         s \in DataSegs => n = s.len, s.type \in {"SYN", "SYN_ACK", "FIN"} => n = 1
  PROVE  /\ TSeg' /\ seg' = s
         /\ sent' >= sent /\ sent' >= Off(s.seq) + n /\ sent' \in {sent, Off(s.seq) + n}
<1>1. s.seq \in Seqs
  BY RecordKinds
<1>2. Off(s.seq) \in Int /\ Off(s.seq) \in Nat /\ sent \in Nat /\ rcvd \in 0 .. sent
  BY <1>1, OffFacts DEF TInv, TSeg
<1>3. PICK k \in Int : k = Off(s.seq) + n
  BY <1>2
<1>4. sent' = Max({sent, k}) /\ seg' = s
  BY <1>3 DEF Emit
<1>5. sent' >= sent /\ sent' >= k /\ sent' \in {sent, k} /\ sent' \in Int
  <2>1. sent \in Int
    BY <1>2
  <2>2. Max({sent, k}) \in {sent, k} /\ Max({sent, k}) >= sent /\ Max({sent, k}) >= k
    BY <2>1, <1>3, Smallest
  <2> QED BY <2>1, <2>2, <1>3, <1>4
<1>6. sent' \in Nat /\ rcvd' \in 0 .. sent'
  BY <1>2, <1>5
<1>7. ASSUME s.type \notin {"none", "ACK", "RST"}  PROVE SegEnd' <= sent'
  <2>1. CASE s \in DataSegs
    <3>1. "len" \in DOMAIN s
      BY <2>1 DEF DataSegs
    <3>2. SegEnd' = Off(s.seq) + s.len
      BY <3>1, <1>4 DEF SegEnd
    <3> QED BY <3>2, <2>1, <1>3, <1>5
  <2>2. CASE s \in FlagSegs
    <3>1. "len" \notin DOMAIN s /\ s.type \in {"SYN", "SYN_ACK", "FIN"}
      BY <2>2, <1>7 DEF FlagSegs
    <3>2. SegEnd' = Off(s.seq) + 1
      BY <3>1, <1>4 DEF SegEnd
    <3> QED BY <3>1, <3>2, <1>3, <1>5
  <2> QED BY <2>1, <2>2
<1> QED BY <1>3, <1>4, <1>5, <1>6, <1>7 DEF TSeg

LEMMA DataLeaves ==
  ASSUME TInv, NEW type \in Datas, NEW seq \in Seqs, NEW len \in Lens, NEW addr \in Lens,
         EmitData(type, seq, len, addr), rcvd' = rcvd
  PROVE  /\ TSeg' /\ rtimer' \in [type : {"off", "SYN", "SYN_ACK", "RT"}, cnt : 0 .. 2]
         /\ len = 0 => seg' = NoSeg /\ sent' = sent /\ rtimer' = rtimer
         /\ len # 0 => /\ seg' = [type |-> type, seq |-> seq, len |-> len, addr |-> addr]
                       /\ sent' >= sent /\ sent' >= Off(seq) + len
                       /\ sent' \in {sent, Off(seq) + len} /\ rtimer'.type = "RT"
<1>1. CASE len = 0
  <2>1. seg' = NoSeg /\ sent' = sent /\ rtimer' = rtimer
    BY <1>1 DEF EmitData, NoEmit
  <2>2. rtimer \in [type : {"off", "SYN", "SYN_ACK", "RT"}, cnt : 0 .. 2] /\ rcvd \in 0 .. sent
    BY DEF TInv, TRest, TSeg
  <2>3. TSeg'
    BY <2>1, <2>2, NoSegment
  <2> QED BY <2>1, <2>2, <2>3, <1>1
<1>2. CASE len # 0
  <2>1. PICK s : s = [type |-> type, seq |-> seq, len |-> len, addr |-> addr]
    OBVIOUS
  <2>2. s \in DataSegs /\ s.type = type /\ s.seq = seq /\ s.len = len
    BY <2>1 DEF DataSegs
  <2>3. Emit(s, len) /\ rtimer' = [rtimer EXCEPT !.type = "RT"]
    BY <1>2, <2>1 DEF EmitData
  <2>4. len \in Nat /\ type \notin {"SYN", "SYN_ACK", "FIN"}
    BY Ints DEF Datas
  <2>5. TSeg' /\ seg' = s /\ sent' >= sent /\ sent' >= Off(s.seq) + len
        /\ sent' \in {sent, Off(s.seq) + len}
    BY <2>2, <2>3, <2>4, SegmentLeaves
  <2>6. rtimer \in [type : {"off", "SYN", "SYN_ACK", "RT"}, cnt : 0 .. 2]
    BY DEF TInv, TRest
  <2>7. rtimer' \in [type : {"off", "SYN", "SYN_ACK", "RT"}, cnt : 0 .. 2] /\ rtimer'.type = "RT"
    BY <2>3, <2>6
  <2> QED BY <2>1, <2>2, <2>5, <2>7, <1>2
<1> QED BY <1>1, <1>2

LEMMA LoadFacts ==
  /\ Load \in Fsms /\ Load.type = "LOAD" /\ Load.cnt = 0 /\ ~Load.loaded
  /\ \A f \in Fsms :
       /\ f.type \in FsmTypes /\ f.cnt \in 0 .. 2 /\ f.loaded \in BOOLEAN /\ f.segs \in Nat
       /\ f.curr \in Lens /\ f.used \in Lens /\ f.usable \in Lens
  /\ \A t \in EventTypes, c \in 0 .. 2 :
       LET f == [Load EXCEPT !.type = t, !.cnt = c] IN
       f \in Fsms /\ f.type = t /\ f.cnt = c /\ ~f.loaded
<1>1. 0 \in Lens /\ 0 \in Nat /\ 0 \in 0 .. 2
  BY Ints
<1>2. Load \in Fsms /\ Load.type = "LOAD" /\ Load.cnt = 0 /\ ~Load.loaded
  BY <1>1 DEF Load, Fsms, FsmTypes, EventTypes
<1>3. \A f \in Fsms :
       /\ f.type \in FsmTypes /\ f.cnt \in 0 .. 2 /\ f.loaded \in BOOLEAN /\ f.segs \in Nat
       /\ f.curr \in Lens /\ f.used \in Lens /\ f.usable \in Lens
  BY DEF Fsms
<1>4. ASSUME NEW t \in EventTypes, NEW c \in 0 .. 2
      PROVE  LET f == [Load EXCEPT !.type = t, !.cnt = c] IN
             f \in Fsms /\ f.type = t /\ f.cnt = c /\ ~f.loaded
  <2>1. t \in FsmTypes
    BY DEF FsmTypes
  <2> QED BY <1>1, <2>1 DEF Load, Fsms
<1> QED BY <1>2, <1>3, <1>4

-----------------------------------------------------------------------------
(* The types are kept.                                                       *)

LEMMA AnswerType ==
  ASSUME NEW e \in Entry
  PROVE  /\ TxSarToTxEngRsp(e) \in Answers
         /\ MinWindow(e) \in Lens /\ MinWindow(e) <= e.recv_window
         /\ UsedLength(e) \in Lens /\ CurrLength(e) \in Lens /\ UsableWindow(e) \in Lens
<1>1. /\ e.ackd \in Seqs /\ e.not_ackd \in Seqs /\ e.app_written \in Lens
      /\ e.recv_window \in Lens /\ e.cong_window \in Lens
      /\ e.fin_is_ready \in BOOLEAN /\ e.fin_is_sent \in BOOLEAN
  BY RecordKinds, WindowInts
<1>2. /\ e.ackd \in Int /\ e.not_ackd \in Int /\ e.app_written \in Int
      /\ e.recv_window \in Int /\ e.cong_window \in Int
  BY <1>1, Ints
<1>3. MinWindow(e) \in Lens /\ MinWindow(e) <= e.recv_window
  <2>1. PICK x \in Lens, y \in Lens : x = e.cong_window /\ y = e.recv_window
    BY <1>1
  <2>2. x \in Int /\ y \in Int
    BY Ints
  <2>3. Min({x, y}) \in {x, y} /\ Min({x, y}) <= y
    BY <2>2, Smallest
  <2> QED BY <2>1, <2>3 DEF MinWindow
<1>4. UsedLength(e) \in Lens /\ CurrLength(e) \in Lens
  <2>1. Low(e.not_ackd) \in Int
    BY <1>2, LowRange
  <2> QED BY <2>1, <1>2, LowRange DEF UsedLength, CurrLength
<1>5. UsableWindow(e) \in Lens
  <2>1. PICK m \in Lens, u \in Lens : m = MinWindow(e) /\ u = UsedLength(e)
    BY <1>3, <1>4
  <2>2. m > u => m - u \in Lens
    BY Sizes DEF Lens
  <2> QED BY <2>1, <2>2, Ints DEF UsableWindow
<1>6. Low(UsedLength(e) - (IF e.fin_is_sent THEN 1 ELSE 0)) \in Lens
  <2>1. UsedLength(e) - (IF e.fin_is_sent THEN 1 ELSE 0) \in Int
    BY <1>4, Ints
  <2> QED BY <2>1, LowRange
<1>7. Plus(e.not_ackd, CurrLength(e)) \in Seqs
  BY <1>2, <1>4, Ints, PlusRange
<1>8. (e.ackd = e.not_ackd) \in BOOLEAN
  OBVIOUS
<1> QED BY <1>1, <1>3, <1>4, <1>5, <1>6, <1>7, <1>8 DEF TxSarToTxEngRsp, Answers

LEMMA WrittenType ==
  ASSUME NEW e \in Entry, NEW r \in Requests
  PROVE  /\ r.kind # "read" => Written(e, r) \in Entry
         /\ r.kind = "write" =>
              Written(e, r) = [e EXCEPT !.not_ackd = r.not_ackd, !.fin_is_ready = @ \/ r.fin_is_ready,
                                        !.fin_is_sent = @ \/ r.fin_is_sent]
         /\ r.kind = "init" =>
              Written(e, r) = [e EXCEPT !.not_ackd = r.not_ackd, !.app_written = Low(r.not_ackd),
                                        !.ackd = Plus(r.not_ackd, -1), !.cong_window = InitCong,
                                        !.slowstart_threshold = BufMod - 1,
                                        !.fin_is_ready = FALSE, !.fin_is_sent = FALSE]
         /\ r.kind = "retrans" =>
              Written(e, r) = [e EXCEPT !.slowstart_threshold = r.threshold, !.cong_window = InitCong]
<1>1. InitCong \in Lens /\ BufMod - 1 \in Lens
  BY CongAssumption, Sizes DEF Lens
<1>2. ASSUME r.kind = "write"
      PROVE  Written(e, r) \in Entry
             /\ Written(e, r) =
                  [e EXCEPT !.not_ackd = r.not_ackd, !.fin_is_ready = @ \/ r.fin_is_ready,
                            !.fin_is_sent = @ \/ r.fin_is_sent]
  <2>1. Written(e, r) =
          [e EXCEPT !.not_ackd = r.not_ackd, !.fin_is_ready = @ \/ r.fin_is_ready,
                    !.fin_is_sent = @ \/ r.fin_is_sent]
    BY <1>2 DEF Written
  <2>2. r.not_ackd \in Seqs
    BY <1>2, RequestKinds
  <2>3. PICK a \in BOOLEAN, b \in BOOLEAN :
          a = (e.fin_is_ready \/ r.fin_is_ready) /\ b = (e.fin_is_sent \/ r.fin_is_sent)
    OBVIOUS
  <2>4. [e EXCEPT !.not_ackd = r.not_ackd, !.fin_is_ready = a, !.fin_is_sent = b] \in Entry
    BY <2>2 DEF Entry
  <2> QED BY <2>1, <2>3, <2>4
<1>3. ASSUME r.kind = "init"
      PROVE  Written(e, r) \in Entry
             /\ Written(e, r) =
                  [e EXCEPT !.not_ackd = r.not_ackd, !.app_written = Low(r.not_ackd),
                            !.ackd = Plus(r.not_ackd, -1), !.cong_window = InitCong,
                            !.slowstart_threshold = BufMod - 1,
                            !.fin_is_ready = FALSE, !.fin_is_sent = FALSE]
  <2>1. r.not_ackd \in Seqs
    <3>1. Plus(Isn, 1) \in Seqs
      BY Ints, PlusRange
    <3>2. r.not_ackd = Plus(Isn, 1)
      BY <1>3, RequestKinds
    <3> QED BY <3>1, <3>2
  <2>2. Low(r.not_ackd) \in Lens /\ Plus(r.not_ackd, -1) \in Seqs
    <3>1. r.not_ackd \in Int
      BY <2>1, Ints
    <3>2. -1 \in Int
      OBVIOUS
    <3> QED BY <3>1, <3>2, LowRange, PlusRange
  <2> QED BY <1>1, <1>3, <2>1, <2>2 DEF Written, Entry
<1>4. ASSUME r.kind = "retrans"
      PROVE  Written(e, r) \in Entry
             /\ Written(e, r) =
                  [e EXCEPT !.slowstart_threshold = r.threshold, !.cong_window = InitCong]
  <2>1. r.threshold \in Lens
    BY <1>4, RequestKinds
  <2> QED BY <1>1, <1>4, <2>1 DEF Written, Entry
<1>5. r.kind \in {"read", "write", "init", "retrans"}
  BY RequestKinds
<1> QED BY <1>2, <1>3, <1>4, <1>5

\* The rest of the types, when most of it does not change.

\* The fields a write of the table leaves behind, for each kind of request.
LEMMA WrittenFields ==
  ASSUME NEW e \in Entry, NEW r \in Requests
  PROVE  /\ r.kind = "write" =>
              /\ Written(e, r).not_ackd = r.not_ackd
              /\ Written(e, r).app_written = e.app_written /\ Written(e, r).ackd = e.ackd
              /\ Written(e, r).recv_window = e.recv_window
              /\ (Written(e, r).fin_is_ready <=> e.fin_is_ready \/ r.fin_is_ready)
              /\ (Written(e, r).fin_is_sent <=> e.fin_is_sent \/ r.fin_is_sent)
         /\ r.kind = "init" =>
              /\ Written(e, r).not_ackd = r.not_ackd
              /\ Written(e, r).app_written = Low(r.not_ackd)
              /\ Written(e, r).ackd = Plus(r.not_ackd, -1)
              /\ ~Written(e, r).fin_is_ready /\ ~Written(e, r).fin_is_sent
         /\ r.kind = "retrans" =>
              /\ Written(e, r).not_ackd = e.not_ackd
              /\ Written(e, r).app_written = e.app_written /\ Written(e, r).ackd = e.ackd
              /\ Written(e, r).recv_window = e.recv_window
              /\ Written(e, r).fin_is_ready = e.fin_is_ready
              /\ Written(e, r).fin_is_sent = e.fin_is_sent
<1>1. ASSUME r.kind = "write"
      PROVE  /\ Written(e, r).not_ackd = r.not_ackd
             /\ Written(e, r).app_written = e.app_written /\ Written(e, r).ackd = e.ackd
             /\ Written(e, r).recv_window = e.recv_window
             /\ (Written(e, r).fin_is_ready <=> e.fin_is_ready \/ r.fin_is_ready)
             /\ (Written(e, r).fin_is_sent <=> e.fin_is_sent \/ r.fin_is_sent)
  <2>1. Written(e, r) =
          [e EXCEPT !.not_ackd = r.not_ackd, !.fin_is_ready = @ \/ r.fin_is_ready,
                    !.fin_is_sent = @ \/ r.fin_is_sent]
    BY <1>1, WrittenType
  <2> QED BY <2>1 DEF Entry
<1>2. ASSUME r.kind = "init"
      PROVE  /\ Written(e, r).not_ackd = r.not_ackd
             /\ Written(e, r).app_written = Low(r.not_ackd)
             /\ Written(e, r).ackd = Plus(r.not_ackd, -1)
             /\ ~Written(e, r).fin_is_ready /\ ~Written(e, r).fin_is_sent
  <2>1. Written(e, r) =
          [e EXCEPT !.not_ackd = r.not_ackd, !.app_written = Low(r.not_ackd),
                    !.ackd = Plus(r.not_ackd, -1), !.cong_window = InitCong,
                    !.slowstart_threshold = BufMod - 1,
                    !.fin_is_ready = FALSE, !.fin_is_sent = FALSE]
    BY <1>2, WrittenType
  <2> QED BY <2>1 DEF Entry
<1>3. ASSUME r.kind = "retrans"
      PROVE  /\ Written(e, r).not_ackd = e.not_ackd
             /\ Written(e, r).app_written = e.app_written /\ Written(e, r).ackd = e.ackd
             /\ Written(e, r).recv_window = e.recv_window
             /\ Written(e, r).fin_is_ready = e.fin_is_ready
             /\ Written(e, r).fin_is_sent = e.fin_is_sent
  <2>1. Written(e, r) = [e EXCEPT !.slowstart_threshold = r.threshold, !.cong_window = InitCong]
    BY <1>3, WrittenType
  <2> QED BY <2>1 DEF Entry
<1> QED BY <1>1, <1>2, <1>3

LEMMA RestSame ==
  ASSUME TRest, UNCHANGED <<events, rx, timers, written, conn>>  PROVE TRest'
BY DEF TRest, timers

LEMMA TypeSarTxEng == TInv /\ SarTxEng => TInv'
<1> SUFFICES ASSUME TInv, SarTxEng  PROVE TInv'
  OBVIOUS
<1>1. /\ sar \in Entry /\ sar_req \in Seq(Requests) /\ sar_rsp \in Seq(Answers)
      /\ Len(sar_req) <= Depth /\ Len(sar_rsp) <= Depth /\ sar_req # <<>>
  BY DEF TInv, TSar, SarTxEng
<1>2. /\ sar_req' = Tail(sar_req) /\ seg' = NoSeg
      /\ UNCHANGED <<events, fsm, rx, timers, sent, written, rcvd, conn>>
  BY DEF SarTxEng, world
<1>3. Head(sar_req) \in Requests /\ Tail(sar_req) \in Seq(Requests) /\ Len(Tail(sar_req)) <= Depth
  BY <1>1, Rd, BoundsAssumption DEF Takes
<1>4. sar' \in Entry /\ sar_rsp' \in Seq(Answers) /\ Len(sar_rsp') <= Depth
  <2>1. CASE Head(sar_req).kind = "read"
    <3>1. sar' = sar /\ sar_rsp' = Append(sar_rsp, TxSarToTxEngRsp(sar)) /\ Len(sar_rsp) < Depth
      BY <2>1 DEF SarTxEng, Room
    <3>2. TxSarToTxEngRsp(sar) \in Answers
      BY <1>1, AnswerType
    <3> QED BY <1>1, <3>1, <3>2, Wr, BoundsAssumption
  <2>2. CASE Head(sar_req).kind # "read"
    <3>1. sar' = Written(sar, Head(sar_req)) /\ sar_rsp' = sar_rsp
      BY <2>2 DEF SarTxEng
    <3> QED BY <1>1, <1>3, <2>2, <3>1, WrittenType
  <2> QED BY <2>1, <2>2
<1>5. TSar'
  BY <1>2, <1>3, <1>4 DEF TSar
<1>6. TFsm'
  BY <1>2 DEF TInv, TFsm
<1>7. TRest'
  BY <1>2, RestSame DEF TInv
<1>8. TSeg'
  BY <1>2, NoSegment DEF TInv, TSeg
<1> QED BY <1>5, <1>6, <1>7, <1>8 DEF TInv

LEMMA TypeLoad == TInv /\ TxEngLoad => TInv'
<1> SUFFICES ASSUME TInv, TxEngLoad  PROVE TInv'
  OBVIOUS
<1>1. events \in Seq(Events) /\ events # <<>> /\ Len(events) <= Depth
  BY DEF TInv, TRest, TxEngLoad
<1>2. Head(events) \in Events /\ Tail(events) \in Seq(Events) /\ Len(Tail(events)) <= Depth
  BY <1>1, Rd, BoundsAssumption DEF Takes
<1>3. Head(events).type \in EventTypes /\ Head(events).cnt \in 0 .. 2
  BY <1>2, RecordKinds
<1>4. /\ events' = Tail(events) /\ seg' = NoSeg
      /\ fsm' = [Load EXCEPT !.type = Head(events).type, !.cnt = Head(events).cnt]
      /\ UNCHANGED <<sar, sar_rsp, rx, timers, sent, rcvd, written, conn>>
  BY DEF TxEngLoad, world
<1>5. TFsm'
  <2>1. fsm' \in Fsms /\ fsm'.type = Head(events).type /\ ~fsm'.loaded
    BY <1>3, <1>4, LoadFacts
  <2>2. fsm'.type # "RT_CONT"
    BY <1>3, <2>1 DEF EventTypes
  <2> QED BY <2>1, <2>2 DEF TFsm
<1>6. TSar'
  <2>1. sar_req' = sar_req \/ (Len(sar_req) < Depth /\ sar_req' = Append(sar_req, ReadReq))
    BY DEF TxEngLoad, Room
  <2>2. sar_req \in Seq(Requests) /\ Len(sar_req) <= Depth
    BY DEF TInv, TSar
  <2>3. sar_req' \in Seq(Requests) /\ Len(sar_req') <= Depth
    BY <2>1, <2>2, Wr, RequestKinds, BoundsAssumption
  <2> QED BY <2>3, <1>4 DEF TInv, TSar
<1>7. TRest'
  BY <1>2, <1>4 DEF TInv, TRest, timers
<1>8. TSeg'
  BY <1>4, NoSegment DEF TInv, TSeg
<1> QED BY <1>5, <1>6, <1>7, <1>8 DEF TInv

\* The answer a handler works with.
LEMMA AnswerIn ==
  ASSUME TInv, fsm.loaded \/ sar_rsp # <<>>
  PROVE  /\ Answer \in Answers
         /\ TakeAnswer => sar_rsp' \in Seq(Answers) /\ Len(sar_rsp') <= Depth
<1>1. sar_rsp \in Seq(Answers) /\ Len(sar_rsp) <= Depth
  BY DEF TInv, TSar
<1>2. CASE fsm.loaded
  BY <1>1, <1>2 DEF Answer, TakeAnswer, TInv, TFsm
<1>3. CASE ~fsm.loaded
  <2>1. Head(sar_rsp) \in Answers /\ Tail(sar_rsp) \in Seq(Answers) /\ Len(Tail(sar_rsp)) <= Depth
    BY <1>1, <1>3, Rd, BoundsAssumption DEF Takes
  <2> QED BY <2>1, <1>3 DEF Answer, TakeAnswer
<1> QED BY <1>2, <1>3

LEMMA Asked ==
  ASSUME TInv, NEW q \in Requests, sar_req' = Append(sar_req, q), Len(sar_req) < Depth
  PROVE  sar_req' \in Seq(Requests) /\ Len(sar_req') <= Depth /\ Grows(sar_req, sar_req', q)
<1>1. sar_req \in Seq(Requests)
  BY DEF TInv, TSar
<1>2. sar_req' \in Seq(Requests) /\ Grows(sar_req, sar_req', q) /\ Len(sar_req') = Len(sar_req) + 1
      /\ Len(sar_req) \in Nat
  BY <1>1, Wr
<1> QED BY <1>2, BoundsAssumption

\* Half of what is in flight, a bound on the threshold.
LEMMA HalfFlightType == ASSUME NEW n \in Lens  PROVE HalfFlight(n) \in Lens
<1>1. n \in Nat /\ n \div 2 \in Int /\ 2 * MSS \in Int
  BY Ints, Sizes
<1>2. PICK h \in Int : h = IF n > 4 * MSS THEN n \div 2 ELSE 2 * MSS
  BY <1>1
<1>3. h % LenMod \in 0 .. LenMod - 1
  BY Sizes, ModDivides
<1>4. h % LenMod \in Lens
  BY <1>3, Sizes DEF Lens
<1> QED BY <1>2, <1>4 DEF HalfFlight

\* The registers of a burst: what is left of the lengths after a full segment.
CurrAfter(curr) == (curr - MSS) % LenMod
BurstRegs(r, end, curr, used) ==
  [fsm EXCEPT !.loaded = TRUE, !.curr = CurrAfter(curr), !.used = NextUsed(used),
              !.usable = Remaining(r, NextUsed(used)), !.rsp = [r EXCEPT !.not_ackd = end]]
FinRegs(r, end) ==
  [fsm EXCEPT !.type = "FIN", !.loaded = TRUE, !.curr = 0, !.used = 0,
              !.usable = 0, !.rsp = [r EXCEPT !.not_ackd = end]]
\* The answer, the lengths and the end of the segment in TX, as the handler computes them.
Curr == IF fsm.loaded THEN fsm.curr ELSE Answer.curr_length
Used == IF fsm.loaded THEN fsm.used ELSE Answer.used_length
Usable == IF fsm.loaded THEN fsm.usable ELSE Answer.usable_window
Fits == Curr <= Usable
SegSize == SegLen(Curr, Usable)
SegTo == IF Fits /\ SegSize < MSS /\ Answer.ackd_eq_not_ackd THEN Answer.not_ackd_short
         ELSE BurstEnd(Answer, SegSize)

LEMMA TxDataFacts ==
  ASSUME TInv, TxData
  PROVE  /\ Answer \in Answers /\ fsm.type = "TX" /\ (fsm.loaded \/ sar_rsp # <<>>)
         /\ Curr \in Lens /\ Used \in Lens /\ Usable \in Lens
         /\ SegSize \in Lens /\ SegSize <= Curr /\ SegSize <= Usable /\ SegSize <= MSS
         /\ SegSize \in {Curr, Usable, MSS} /\ SegTo \in Seqs
         /\ EmitData("TX", Answer.not_ackd, SegSize, Low(Answer.not_ackd))
         /\ \/ /\ SegSize = MSS /\ fsm' = BurstRegs(Answer, SegTo, Curr, Used)
               /\ UNCHANGED <<sar_req, ptimer>>
            \/ /\ SegSize < MSS /\ Len(sar_req) < Depth
               /\ sar_req' = Append(sar_req, WriteReq(SegTo, FALSE, FALSE))
               /\ ptimer' = (ptimer \/ Probes(Fits, Answer))
               /\ fsm' = IF SendsFin(Fits, Answer, Curr) THEN FinRegs(Answer, SegTo) ELSE Load
         /\ TakeAnswer
         /\ UNCHANGED <<sar, events, rx, rcvd, written, conn>>
         /\ deviation' = IF ~Healthy THEN deviation
                         ELSE IF Answer.fin_is_sent THEN "tx_after_fin"
                         ELSE IF CutsLength(Curr, Used, SegSize) THEN "length_cut" ELSE "none"
<1>1. fsm.type = "TX" /\ (fsm.loaded \/ sar_rsp # <<>>)
  BY DEF TxData, Answered
<1>2. Answer \in Answers
  BY <1>1, AnswerIn
<1>3. Curr \in Lens /\ Used \in Lens /\ Usable \in Lens
  <2>1. fsm.curr \in Lens /\ fsm.used \in Lens /\ fsm.usable \in Lens
    BY LoadFacts DEF TInv, TFsm
  <2> QED BY <2>1, <1>2, RecordKinds DEF Curr, Used, Usable
<1>4. /\ SegSize \in Lens /\ SegSize <= Curr /\ SegSize <= Usable /\ SegSize <= MSS
      /\ SegSize \in {Curr, Usable, MSS}
  <2>1. PICK x \in Lens, y \in Lens : x = Curr /\ y = Usable
    BY <1>3
  <2>2. x \in Int /\ y \in Int /\ MSS \in Int /\ MSS \in Lens
    BY Ints, Sizes
  <2>3. /\ Min({x, y, MSS}) \in {x, y, MSS}
        /\ Min({x, y, MSS}) <= x /\ Min({x, y, MSS}) <= y /\ Min({x, y, MSS}) <= MSS
    BY <2>2, Smallest
  <2> QED BY <2>1, <2>2, <2>3 DEF SegSize, SegLen
<1>5. SegTo \in Seqs
  <2>1. Answer.not_ackd \in Seqs /\ Answer.not_ackd_short \in Seqs
    BY <1>2, RecordKinds
  <2>2. Answer.not_ackd \in Int /\ SegSize \in Int
    BY <2>1, <1>4, Ints
  <2>3. BurstEnd(Answer, SegSize) \in Seqs
    BY <2>2, PlusRange DEF BurstEnd
  <2> QED BY <2>1, <2>3 DEF SegTo
<1>6. /\ EmitData("TX", Answer.not_ackd, SegSize, Low(Answer.not_ackd))
      /\ deviation' = IF ~Healthy THEN deviation
                      ELSE IF Answer.fin_is_sent THEN "tx_after_fin"
                      ELSE IF CutsLength(Curr, Used, SegSize) THEN "length_cut" ELSE "none"
  BY DEF TxData, Curr, Used, Usable, SegSize
<1>7. \/ /\ SegSize = MSS /\ fsm' = BurstRegs(Answer, SegTo, Curr, Used)
         /\ UNCHANGED <<sar_req, ptimer>>
      \/ /\ SegSize < MSS /\ Len(sar_req) < Depth
         /\ sar_req' = Append(sar_req, WriteReq(SegTo, FALSE, FALSE))
         /\ ptimer' = (ptimer \/ Probes(Fits, Answer))
         /\ fsm' = IF SendsFin(Fits, Answer, Curr) THEN FinRegs(Answer, SegTo) ELSE Load
  BY DEF TxData, Curr, Used, Usable, SegSize, Fits, SegTo, CurrAfter, BurstRegs, FinRegs, Room
<1>8. TakeAnswer /\ UNCHANGED <<sar, events, rx, rcvd, written, conn>>
  BY DEF TxData, world
<1> QED BY <1>1, <1>2, <1>3, <1>4, <1>5, <1>6, <1>7, <1>8

LEMMA BurstRegsType ==
  ASSUME NEW r \in Answers, NEW end \in Seqs, NEW curr \in Lens, NEW used \in Lens, fsm \in Fsms
  PROVE  /\ LET f == BurstRegs(r, end, curr, used) IN
            /\ f \in Fsms /\ f.type = fsm.type /\ f.cnt = fsm.cnt /\ f.loaded
            /\ f.curr = CurrAfter(curr) /\ f.used = NextUsed(used)
            /\ f.usable = Remaining(r, NextUsed(used)) /\ f.rsp = [r EXCEPT !.not_ackd = end]
            /\ f.rsp \in Answers
         /\ LET f == FinRegs(r, end) IN
            /\ f \in Fsms /\ f.type = "FIN" /\ f.cnt = fsm.cnt /\ f.loaded
            /\ f.rsp = [r EXCEPT !.not_ackd = end] /\ f.rsp \in Answers
         /\ [r EXCEPT !.not_ackd = end] \in Answers
<1>1. [r EXCEPT !.not_ackd = end] \in Answers
  BY DEF Answers
<1>2. CurrAfter(curr) \in Lens /\ NextUsed(used) \in Lens
  <2>1. curr - MSS \in Int /\ used + MSS \in Int
    BY Ints, Sizes
  <2>2. CurrAfter(curr) \in 0 .. LenMod - 1 /\ NextUsed(used) \in 0 .. LenMod - 1
    BY <2>1, ModDivides, Sizes DEF NextUsed, CurrAfter
  <2> QED BY <2>2, Sizes DEF Lens
<1>3. Remaining(r, NextUsed(used)) \in Lens
  <2>1. PICK m \in Lens, u \in Lens : m = r.min_window /\ u = NextUsed(used)
    BY <1>2, RecordKinds
  <2>2. m >= u => m - u \in Lens
    BY Sizes DEF Lens
  <2> QED BY <2>1, <2>2, Ints DEF Remaining
<1>4. PICK c \in Lens, u \in Lens, w \in Lens, a \in Answers :
        /\ c = CurrAfter(curr) /\ u = NextUsed(used)
        /\ w = Remaining(r, NextUsed(used)) /\ a = [r EXCEPT !.not_ackd = end]
  BY <1>1, <1>2, <1>3
<1>5. LET f == [fsm EXCEPT !.loaded = TRUE, !.curr = c, !.used = u, !.usable = w, !.rsp = a] IN
      /\ f \in Fsms /\ f.type = fsm.type /\ f.cnt = fsm.cnt /\ f.loaded
      /\ f.curr = c /\ f.used = u /\ f.usable = w /\ f.rsp = a
  BY DEF Fsms
<1>6. LET f == [fsm EXCEPT !.type = "FIN", !.loaded = TRUE, !.curr = 0, !.used = 0,
                           !.usable = 0, !.rsp = a] IN
      /\ f \in Fsms /\ f.type = "FIN" /\ f.cnt = fsm.cnt /\ f.loaded /\ f.rsp = a
  <2>1. 0 \in Lens /\ "FIN" \in FsmTypes
    BY Ints DEF FsmTypes, EventTypes
  <2> QED BY <2>1 DEF Fsms
<1> QED BY <1>1, <1>4, <1>5, <1>6 DEF BurstRegs, FinRegs

LEMMA TypeTxData == TInv /\ TxData => TInv'
<1> SUFFICES ASSUME TInv, TxData  PROVE TInv'
  OBVIOUS
<1>1. /\ Answer \in Answers /\ fsm.type = "TX" /\ (fsm.loaded \/ sar_rsp # <<>>)
      /\ Curr \in Lens /\ Used \in Lens /\ SegSize \in Lens /\ SegTo \in Seqs
      /\ EmitData("TX", Answer.not_ackd, SegSize, Low(Answer.not_ackd))
      /\ TakeAnswer /\ UNCHANGED <<sar, events, rx, rcvd, written, conn>>
  BY TxDataFacts
<1>2. fsm \in Fsms /\ sar_req \in Seq(Requests) /\ Len(sar_req) <= Depth
  BY DEF TInv, TFsm, TSar
<1>3. sar_rsp' \in Seq(Answers) /\ Len(sar_rsp') <= Depth
  BY <1>1, AnswerIn
<1>4. TSeg' /\ rtimer' \in [type : {"off", "SYN", "SYN_ACK", "RT"}, cnt : 0 .. 2]
  <2>1. Answer.not_ackd \in Seqs /\ "TX" \in Datas
    BY <1>1, RecordKinds DEF Datas
  <2>2. Low(Answer.not_ackd) \in Lens
    BY <2>1, Ints, LowRange
  <2> QED BY <2>1, <2>2, <1>1, DataLeaves
<1>5. CASE /\ SegSize = MSS /\ fsm' = BurstRegs(Answer, SegTo, Curr, Used)
           /\ UNCHANGED <<sar_req, ptimer>>
  <2>1. fsm' \in Fsms /\ fsm'.type = "TX" /\ fsm'.loaded /\ fsm'.rsp \in Answers
    <3>1. BurstRegs(Answer, SegTo, Curr, Used) \in Fsms
      BY <1>1, <1>2, BurstRegsType
    <3>2. BurstRegs(Answer, SegTo, Curr, Used).type = fsm.type
      BY <1>2 DEF BurstRegs, Fsms
    <3>3. BurstRegs(Answer, SegTo, Curr, Used).loaded
      BY <1>1, <1>2, BurstRegsType
    <3>4. BurstRegs(Answer, SegTo, Curr, Used).rsp \in Answers
      BY <1>1, <1>2, BurstRegsType
    <3> QED BY <3>1, <3>2, <3>3, <3>4, <1>1, <1>5
  <2>2. TFsm'
    BY <2>1 DEF TFsm
  <2>3. TSar'
    BY <1>1, <1>2, <1>3, <1>5 DEF TInv, TSar
  <2>4. TRest'
    BY <1>1, <1>4, <1>5 DEF TInv, TRest
  <2> QED BY <2>2, <2>3, <2>4, <1>4 DEF TInv
<1>6. CASE /\ SegSize < MSS /\ Len(sar_req) < Depth
           /\ sar_req' = Append(sar_req, WriteReq(SegTo, FALSE, FALSE))
           /\ ptimer' = (ptimer \/ Probes(Fits, Answer))
           /\ fsm' = IF SendsFin(Fits, Answer, Curr) THEN FinRegs(Answer, SegTo) ELSE Load
  <2>1. TFsm'
    <3>1. CASE SendsFin(Fits, Answer, Curr)
      <4>1. fsm' \in Fsms /\ fsm'.type = "FIN" /\ fsm'.loaded /\ fsm'.rsp \in Answers
        BY <1>1, <1>2, <1>6, <3>1, BurstRegsType
      <4> QED BY <4>1 DEF TFsm
    <3>2. CASE ~SendsFin(Fits, Answer, Curr)
      BY <1>6, <3>2, LoadFacts DEF TFsm
    <3> QED BY <3>1, <3>2
  <2>2. sar_req' \in Seq(Requests) /\ Len(sar_req') <= Depth
    <3>1. WriteReq(SegTo, FALSE, FALSE) \in Requests
      BY <1>1, RequestKinds
    <3> QED BY <3>1, <1>6, Asked
  <2>3. TSar'
    BY <1>1, <2>2, <1>3, <1>6 DEF TInv, TSar
  <2>4. ptimer' \in BOOLEAN
    <3>1. PICK b \in BOOLEAN : b = (ptimer \/ Probes(Fits, Answer))
      OBVIOUS
    <3> QED BY <3>1, <1>6
  <2>5. TRest'
    BY <1>1, <1>4, <2>4 DEF TInv, TRest
  <2> QED BY <2>1, <2>3, <2>5, <1>4 DEF TInv
<1> QED BY <1>5, <1>6, TxDataFacts

\* The registers of a retransmission after a segment, and of the FIN behind it.
ContRsp(r) == [r EXCEPT !.ackd = Plus(@, MSS), !.used_length_rst = Low(@ - MSS)]
ContRegs(r) ==
  [fsm EXCEPT !.type = "RT_CONT", !.loaded = TRUE, !.segs = @ + 1, !.rsp = ContRsp(r)]
FinAgain(r) == [fsm EXCEPT !.type = "FIN", !.loaded = TRUE, !.segs = 0, !.rsp = r]
RtSize == Min({RtLen(Answer), MSS})

LEMMA TxRetransmitFacts ==
  ASSUME TInv, TxRetransmit
  PROVE  /\ Answer \in Answers /\ fsm.type \in {"RT", "RT_CONT"} /\ (fsm.loaded \/ sar_rsp # <<>>)
         /\ (fsm.type = "RT_CONT" <=> fsm.loaded)
         /\ RtLen(Answer) = Answer.used_length_rst /\ RtLen(Answer) \in Lens
         /\ RtSize \in Lens /\ RtSize <= RtLen(Answer) /\ RtSize <= MSS
         /\ RtSize \in {RtLen(Answer), MSS}
         /\ EmitData(fsm.type, Answer.ackd, RtSize, RtAddr(Answer)) /\ RtAddr(Answer) \in Lens
         /\ \/ sar_req' = sar_req
            \/ /\ ~fsm.loaded /\ Len(sar_req) < Depth
               /\ sar_req' = Append(sar_req, RetransReq(HalfFlight(RtLen(Answer))))
         /\ HalfFlight(RtLen(Answer)) \in Lens
         /\ \/ RtLen(Answer) > MSS /\ fsm' = Load
            \/ RtLen(Answer) > MSS /\ fsm' = ContRegs(Answer)
            \/ RtLen(Answer) <= MSS /\ ~Answer.fin_is_sent /\ fsm' = Load
            \/ RtLen(Answer) <= MSS /\ Answer.fin_is_sent /\ fsm' = FinAgain(Answer)
         /\ TakeAnswer
         /\ UNCHANGED <<sar, events, rx, ptimer, rcvd, written, conn>>
         /\ deviation' = IF Healthy /\ Answer.fin_is_sent /\ Answer.ackd_eq_not_ackd /\ fsm.type = "RT"
                         THEN "rt_after_fin" ELSE deviation
<1>1. /\ fsm.type \in {"RT", "RT_CONT"} /\ (fsm.loaded \/ sar_rsp # <<>>)
      /\ (fsm.type = "RT_CONT" <=> fsm.loaded)
  <2>1. (fsm.type = "RT" /\ (fsm.loaded \/ sar_rsp # <<>>)) \/ fsm.type = "RT_CONT"
    BY DEF TxRetransmit, Answered
  <2>2. fsm.type = "RT_CONT" => fsm.loaded
    BY DEF TInv, TFsm
  <2>3. fsm.loaded => fsm.type # "RT"
    BY DEF TInv, TFsm
  <2> QED BY <2>1, <2>2, <2>3
<1>2. Answer \in Answers
  BY <1>1, AnswerIn
<1>3. Answer.ackd \in Seqs /\ Answer.ackd \in Int /\ RtLen(Answer) = Answer.used_length_rst /\ RtLen(Answer) \in Lens
  BY <1>2, RecordKinds, Ints DEF RtLen
<1>4. /\ RtSize \in Lens /\ RtSize <= RtLen(Answer) /\ RtSize <= MSS
      /\ RtSize \in {RtLen(Answer), MSS}
  <2>1. PICK x \in Lens : x = RtLen(Answer)
    BY <1>3
  <2>2. x \in Int /\ MSS \in Int /\ MSS \in Lens
    BY Ints, Sizes
  <2>3. Min({x, MSS}) \in {x, MSS} /\ Min({x, MSS}) <= x /\ Min({x, MSS}) <= MSS
    BY <2>2, Smallest
  <2> QED BY <2>1, <2>2, <2>3 DEF RtSize
<1>5. RtAddr(Answer) \in Lens
  BY <1>3, LowRange, Ints DEF RtAddr
<1>6. HalfFlight(RtLen(Answer)) \in Lens
  BY <1>3, HalfFlightType
<1>7. EmitData(fsm.type, Answer.ackd, RtSize, RtAddr(Answer)) /\ Len(sar_req) < Depth
  BY DEF TxRetransmit, RtSize, Room
<1>8. sar_req' = IF ~fsm.loaded /\ fsm.cnt = 1
                 THEN Append(sar_req, RetransReq(HalfFlight(RtLen(Answer)))) ELSE sar_req
  BY DEF TxRetransmit
<1>9. \/ /\ RtLen(Answer) > MSS
         /\ fsm' = IF fsm.segs = MaxRtSegs THEN Load ELSE ContRegs(Answer)
      \/ /\ RtLen(Answer) <= MSS
         /\ fsm' = IF Answer.fin_is_sent THEN FinAgain(Answer) ELSE Load
  BY DEF TxRetransmit, ContRegs, ContRsp, FinAgain
<1>10. TakeAnswer /\ UNCHANGED <<sar, events, rx, ptimer, rcvd, written, conn>>
  BY DEF TxRetransmit, world
<1>11. deviation' = IF Healthy /\ Answer.fin_is_sent /\ Answer.ackd_eq_not_ackd /\ fsm.type = "RT"
                    THEN "rt_after_fin" ELSE deviation
  BY DEF TxRetransmit
<1>12. \/ RtLen(Answer) > MSS /\ fsm' = Load
       \/ RtLen(Answer) > MSS /\ fsm' = ContRegs(Answer)
       \/ RtLen(Answer) <= MSS /\ ~Answer.fin_is_sent /\ fsm' = Load
       \/ RtLen(Answer) <= MSS /\ Answer.fin_is_sent /\ fsm' = FinAgain(Answer)
  BY <1>9
<1>13. \/ sar_req' = sar_req
       \/ /\ ~fsm.loaded /\ Len(sar_req) < Depth
          /\ sar_req' = Append(sar_req, RetransReq(HalfFlight(RtLen(Answer))))
  BY <1>7, <1>8
<1> QED BY <1>1, <1>2, <1>3, <1>4, <1>5, <1>6, <1>7, <1>10, <1>11, <1>12, <1>13

LEMMA RtRegsType ==
  ASSUME NEW r \in Answers, fsm \in Fsms
  PROVE  /\ ContRsp(r) \in Answers
         /\ ContRsp(r).ackd = Plus(r.ackd, MSS) /\ ContRsp(r).used_length_rst = Low(r.used_length_rst - MSS)
         /\ ContRsp(r).not_ackd = r.not_ackd /\ ContRsp(r).app_written = r.app_written
         /\ ContRsp(r).fin_is_sent = r.fin_is_sent
         /\ ContRegs(r) \in Fsms /\ ContRegs(r).type = "RT_CONT" /\ ContRegs(r).loaded
         /\ ContRegs(r).rsp = ContRsp(r)
         /\ FinAgain(r) \in Fsms /\ FinAgain(r).type = "FIN" /\ FinAgain(r).loaded
         /\ FinAgain(r).rsp = r
<1>1. Plus(r.ackd, MSS) \in Seqs /\ Low(r.used_length_rst - MSS) \in Lens
  <2>1. PICK x \in Seqs, y \in Lens : x = r.ackd /\ y = r.used_length_rst
    BY RecordKinds
  <2>2. x \in Int /\ MSS \in Int /\ y - MSS \in Int
    BY Ints, Sizes
  <2> QED BY <2>1, <2>2, PlusRange, LowRange
<1>2. PICK a \in Seqs, u \in Lens : a = Plus(r.ackd, MSS) /\ u = Low(r.used_length_rst - MSS)
  BY <1>1
<1>3. LET c == [r EXCEPT !.ackd = a, !.used_length_rst = u] IN
      /\ c \in Answers /\ c.ackd = a /\ c.used_length_rst = u /\ c.not_ackd = r.not_ackd
      /\ c.app_written = r.app_written /\ c.fin_is_sent = r.fin_is_sent
  BY DEF Answers
<1>4. ContRsp(r) = [r EXCEPT !.ackd = a, !.used_length_rst = u]
  BY <1>2 DEF ContRsp
<1>5. ContRsp(r) \in Answers
  BY <1>3, <1>4
<1>6. ContRegs(r) \in Fsms /\ ContRegs(r).type = "RT_CONT" /\ ContRegs(r).loaded
      /\ ContRegs(r).rsp = ContRsp(r)
  <2>1. PICK n \in Nat, c \in Answers : n = fsm.segs + 1 /\ c = ContRsp(r)
    <3>1. fsm.segs \in Nat
      BY LoadFacts
    <3> QED BY <3>1, <1>5
  <2>2. LET f == [fsm EXCEPT !.type = "RT_CONT", !.loaded = TRUE, !.segs = n, !.rsp = c] IN
        f \in Fsms /\ f.type = "RT_CONT" /\ f.loaded /\ f.rsp = c
    BY DEF Fsms, FsmTypes
  <2> QED BY <2>1, <2>2 DEF ContRegs
<1>7. FinAgain(r) \in Fsms /\ FinAgain(r).type = "FIN" /\ FinAgain(r).loaded
      /\ FinAgain(r).rsp = r
  BY DEF FinAgain, Fsms, FsmTypes, EventTypes
<1> QED BY <1>2, <1>3, <1>4, <1>5, <1>6, <1>7

LEMMA TypeTxRetransmit == TInv /\ TxRetransmit => TInv'
<1> SUFFICES ASSUME TInv, TxRetransmit  PROVE TInv'
  OBVIOUS
<1>1. /\ Answer \in Answers /\ fsm.type \in {"RT", "RT_CONT"} /\ (fsm.loaded \/ sar_rsp # <<>>)
      /\ RtSize \in Lens /\ RtAddr(Answer) \in Lens
      /\ EmitData(fsm.type, Answer.ackd, RtSize, RtAddr(Answer))
      /\ TakeAnswer /\ UNCHANGED <<sar, events, rx, ptimer, rcvd, written, conn>>
  BY TxRetransmitFacts
<1>2. fsm \in Fsms /\ sar_req \in Seq(Requests) /\ Len(sar_req) <= Depth
  BY DEF TInv, TFsm, TSar
<1>3. sar_rsp' \in Seq(Answers) /\ Len(sar_rsp') <= Depth
  BY <1>1, AnswerIn
<1>4. TSeg' /\ rtimer' \in [type : {"off", "SYN", "SYN_ACK", "RT"}, cnt : 0 .. 2]
  <2>1. Answer.ackd \in Seqs /\ fsm.type \in Datas
    BY <1>1, RecordKinds DEF Datas
  <2> QED BY <2>1, <1>1, DataLeaves
<1>5. sar_req' \in Seq(Requests) /\ Len(sar_req') <= Depth
  <2>1. RetransReq(HalfFlight(RtLen(Answer))) \in Requests
    BY TxRetransmitFacts, RequestKinds
  <2> QED BY <2>1, <1>2, TxRetransmitFacts, Asked
<1>6. TFsm'
  <2>1. CASE fsm' = Load
    BY <2>1, LoadFacts DEF TFsm
  <2>2. CASE fsm' = ContRegs(Answer)
    <3>1. /\ ContRegs(Answer) \in Fsms /\ ContRegs(Answer).type = "RT_CONT" /\ ContRegs(Answer).loaded
          /\ ContRegs(Answer).rsp \in Answers
      BY <1>1, <1>2, RtRegsType
    <3> QED BY <3>1, <2>2 DEF TFsm
  <2>3. CASE fsm' = FinAgain(Answer)
    <3>1. /\ FinAgain(Answer) \in Fsms /\ FinAgain(Answer).type = "FIN" /\ FinAgain(Answer).loaded
          /\ FinAgain(Answer).rsp \in Answers
      BY <1>1, <1>2, RtRegsType
    <3> QED BY <3>1, <2>3 DEF TFsm
  <2> QED BY <2>1, <2>2, <2>3, TxRetransmitFacts
<1>7. TSar'
  BY <1>1, <1>3, <1>5 DEF TInv, TSar
<1>8. TRest'
  BY <1>1, <1>4 DEF TInv, TRest
<1> QED BY <1>4, <1>6, <1>7, <1>8 DEF TInv

LEMMA LoadType == fsm' = Load => TFsm'
BY LoadFacts DEF TFsm

LEMMA TypeTxAck == TInv /\ TxAck => TInv'
<1> SUFFICES ASSUME TInv, TxAck  PROVE TInv'
  OBVIOUS
<1>1. /\ fsm.loaded \/ sar_rsp # <<>>
      /\ Emit([type |-> "ACK", seq |-> Answer.not_ackd], 0)
      /\ TakeAnswer /\ fsm' = Load
      /\ UNCHANGED <<sar, sar_req, events, rx, timers, rcvd, written, conn>>
  BY DEF TxAck, Answered, world
<1>2. Answer \in Answers /\ sar_rsp' \in Seq(Answers) /\ Len(sar_rsp') <= Depth
  BY <1>1, AnswerIn
<1>3. TSeg'
  <2>1. PICK s : s = [type |-> "ACK", seq |-> Answer.not_ackd]
    OBVIOUS
  <2>2. Answer.not_ackd \in Seqs
    BY <1>2, RecordKinds
  <2>3. s \in FlagSegs /\ s \notin DataSegs /\ s.type = "ACK"
    BY <2>1, <2>2 DEF FlagSegs, DataSegs, Datas
  <2> QED BY <2>1, <2>3, <1>1, SegmentLeaves
<1>4. TSar'
  BY <1>1, <1>2 DEF TInv, TSar
<1>5. TRest'
  BY <1>1, RestSame DEF TInv
<1> QED BY <1>1, <1>3, <1>4, <1>5, LoadType DEF TInv

LEMMA TypeTxSyn == TInv /\ TxSyn => TInv'
<1> SUFFICES ASSUME TInv, TxSyn  PROVE TInv'
  OBVIOUS
<1> DEFINE seq == IF fsm.cnt # 0 THEN Head(sar_rsp).ackd ELSE Isn
<1>1. /\ fsm.type \in {"SYN", "SYN_ACK"} /\ (AsksSar(fsm) => sar_rsp # <<>>)
      /\ Emit([type |-> fsm.type, seq |-> seq], 1)
      /\ sar_rsp' = (IF AsksSar(fsm) THEN Tail(sar_rsp) ELSE sar_rsp)
      /\ rtimer' = [rtimer EXCEPT !.type = fsm.type] /\ fsm' = Load
      /\ UNCHANGED <<sar, events, rx, ptimer, rcvd, written, conn>>
  BY DEF TxSyn, world
<1>2. sar_rsp \in Seq(Answers) /\ Len(sar_rsp) <= Depth
  BY DEF TInv, TSar
<1>3. sar_rsp # <<>> => /\ Head(sar_rsp) \in Answers /\ Tail(sar_rsp) \in Seq(Answers)
                        /\ Len(Tail(sar_rsp)) <= Depth
  BY <1>2, Rd, BoundsAssumption DEF Takes
<1>4. fsm.cnt # 0 => AsksSar(fsm)
  BY <1>1 DEF AsksSar
<1>5. seq \in Seqs
  BY <1>1, <1>3, <1>4, RecordKinds, Ints
<1>6. TSeg'
  <2>1. PICK s : s = [type |-> fsm.type, seq |-> seq]
    OBVIOUS
  <2>2. s \in FlagSegs /\ s \notin DataSegs
    BY <2>1, <1>1, <1>5 DEF FlagSegs, DataSegs, Datas
  <2>3. Emit(s, 1) /\ 1 \in Nat
    BY <1>1, <2>1
  <2> QED BY <2>2, <2>3, <1>1, SegmentLeaves
<1>7. TSar'
  <2>1. sar_req' = sar_req \/ (Len(sar_req) < Depth /\ sar_req' = Append(sar_req, InitReq(Plus(Isn, 1))))
    BY DEF TxSyn, Room
  <2>2. sar_req' \in Seq(Requests) /\ Len(sar_req') <= Depth
    BY <2>1, Asked, RequestKinds DEF TInv, TSar
  <2>3. sar_rsp' \in Seq(Answers) /\ Len(sar_rsp') <= Depth
    BY <1>1, <1>2, <1>3
  <2> QED BY <1>1, <2>2, <2>3 DEF TInv, TSar
<1>8. TRest'
  <2>1. rtimer \in [type : {"off", "SYN", "SYN_ACK", "RT"}, cnt : 0 .. 2]
    BY DEF TInv, TRest
  <2>2. rtimer' \in [type : {"off", "SYN", "SYN_ACK", "RT"}, cnt : 0 .. 2]
    BY <1>1, <2>1
  <2> QED BY <1>1, <2>2 DEF TInv, TRest
<1> QED BY <1>1, <1>6, <1>7, <1>8, LoadType DEF TInv

LEMMA TypeTxFin == TInv /\ TxFin => TInv'
<1> SUFFICES ASSUME TInv, TxFin  PROVE TInv'
  OBVIOUS
<1> DEFINE r == Answer
           done == AllSent(r, r.not_ackd)
           next == IF done THEN Plus(r.not_ackd, 1) ELSE r.not_ackd
<1>1. /\ fsm.loaded \/ sar_rsp # <<>>
      /\ Len(sar_req) < Depth
      /\ sar_req' = (IF fsm.cnt # 0 THEN sar_req ELSE Append(sar_req, WriteReq(next, TRUE, done)))
      /\ IF AllSent(r, FinSeq(r))
         THEN /\ Emit([type |-> "FIN", seq |-> FinSeq(r)], 1)
              /\ rtimer' = [rtimer EXCEPT !.type = "RT"]
         ELSE NoEmit /\ UNCHANGED rtimer
      /\ TakeAnswer /\ fsm' = Load
      /\ UNCHANGED <<sar, events, rx, ptimer, rcvd, written, conn>>
  BY DEF TxFin, Answered, world, Room
<1>2. r \in Answers /\ sar_rsp' \in Seq(Answers) /\ Len(sar_rsp') <= Depth
  BY <1>1, AnswerIn
<1>3. r.not_ackd \in Seqs /\ r.not_ackd \in Int
  BY <1>2, RecordKinds, Ints
<1>4. next \in Seqs /\ FinSeq(r) \in Seqs
  <2>1. 1 \in Int /\ -1 \in Int
    OBVIOUS
  <2>2. Plus(r.not_ackd, 1) \in Seqs /\ Plus(r.not_ackd, -1) \in Seqs
    BY <2>1, <1>3, PlusRange
  <2> QED BY <2>2, <1>3 DEF FinSeq
<1>5. done \in BOOLEAN
  BY DEF AllSent
<1>6. WriteReq(next, TRUE, done) \in Requests
  BY <1>4, <1>5, RequestKinds
<1>7. sar_req' \in Seq(Requests) /\ Len(sar_req') <= Depth
  BY <1>1, <1>6, Asked DEF TInv, TSar
<1>8. TSar'
  BY <1>1, <1>2, <1>7 DEF TInv, TSar
<1>9. rtimer \in [type : {"off", "SYN", "SYN_ACK", "RT"}, cnt : 0 .. 2]
  BY DEF TInv, TRest
<1>10. rtimer' \in [type : {"off", "SYN", "SYN_ACK", "RT"}, cnt : 0 .. 2]
  <2>1. rtimer' = rtimer \/ rtimer' = [rtimer EXCEPT !.type = "RT"]
    BY <1>1
  <2> QED BY <2>1, <1>9
<1>11. TRest'
  BY <1>1, <1>10 DEF TInv, TRest
<1>12. TSeg'
  <2>1. CASE AllSent(r, FinSeq(r))
    <3>1. PICK s : s = [type |-> "FIN", seq |-> FinSeq(r)]
      OBVIOUS
    <3>2. s \in FlagSegs /\ s \notin DataSegs
      BY <3>1, <1>4 DEF FlagSegs, DataSegs, Datas
    <3>3. Emit(s, 1) /\ 1 \in Nat
      BY <1>1, <2>1, <3>1
    <3> QED BY <3>2, <3>3, <1>1, SegmentLeaves
  <2>2. CASE ~AllSent(r, FinSeq(r))
    <3>1. seg' = NoSeg /\ sent' = sent
      BY <1>1, <2>2 DEF NoEmit
    <3> QED BY <3>1, <1>1, NoSegment DEF TInv, TSeg
  <2> QED BY <2>1, <2>2
<1> QED BY <1>1, <1>8, <1>11, <1>12, LoadType DEF TInv

LEMMA TypeTxRst == TInv /\ TxRst => TInv'
<1> SUFFICES ASSUME TInv, TxRst  PROVE TInv'
  OBVIOUS
<1>1. fsm' = Load /\ UNCHANGED <<sar, sar_req, events, rx, timers, rcvd, written, conn>>
  BY DEF TxRst, world
<1>2. sar_rsp \in Seq(Answers) /\ Len(sar_rsp) <= Depth
  BY DEF TInv, TSar
<1>3. sar_rsp # <<>> => /\ Head(sar_rsp) \in Answers /\ Tail(sar_rsp) \in Seq(Answers)
                        /\ Len(Tail(sar_rsp)) <= Depth
  BY <1>2, Rd, BoundsAssumption DEF Takes
<1>4. sar_rsp' \in Seq(Answers) /\ Len(sar_rsp') <= Depth /\ TSeg'
  <2>1. CASE fsm.type = "RST" /\ sar_rsp = <<>>
    <3>1. seg' = NoSeg /\ sent' = sent /\ sar_rsp' = sar_rsp
      BY <2>1 DEF TxRst, NoEmit
    <3>2. TSeg'
      BY <3>1, <1>1, NoSegment DEF TInv, TSeg
    <3> QED BY <3>1, <3>2, <1>2
  <2>2. CASE ~(fsm.type = "RST" /\ sar_rsp = <<>>)
    <3>1. PICK q : q = IF fsm.type = "RST" THEN Head(sar_rsp).not_ackd ELSE 0
      OBVIOUS
    <3>2. /\ seg' = [type |-> "RST", seq |-> q] /\ sent' = sent
          /\ sar_rsp' = (IF fsm.type = "RST" THEN Tail(sar_rsp) ELSE sar_rsp)
      BY <2>2, <3>1 DEF TxRst
    <3>3. q \in Seqs
      BY <2>2, <3>1, <1>3, RecordKinds, Ints
    <3>4. seg' \in FlagSegs /\ seg'.type = "RST"
      BY <3>2, <3>3 DEF FlagSegs
    <3>5. TSeg'
      BY <3>2, <3>4, <1>1 DEF TInv, TSeg
    <3> QED BY <2>2, <3>2, <3>5, <1>2, <1>3
  <2> QED BY <2>1, <2>2
<1>5. TSar'
  BY <1>1, <1>4 DEF TInv, TSar
<1>6. TRest'
  BY <1>1, RestSame DEF TInv
<1> QED BY <1>1, <1>4, <1>5, <1>6, LoadType DEF TInv

LEMMA TypeRxRead == ASSUME NEW a \in Acks  PROVE TInv /\ RxRead(a) => TInv'
<1> SUFFICES ASSUME TInv, RxRead(a)  PROVE TInv'
  OBVIOUS
<1>1. /\ rx' = [ack |-> Plus(Isn, a), perv_ack |-> sar.ackd,
                next_byte |-> sar.not_ackd, cong_window |-> sar.cong_window,
                slowstart_threshold |-> sar.slowstart_threshold]
      /\ seg' = NoSeg
      /\ UNCHANGED <<sar, sar_req, sar_rsp, events, fsm, timers, sent, rcvd, written, conn>>
  BY DEF RxRead, world, sar_vars
<1>2. rcvd \in Nat /\ a \in Int
  BY DEF TInv, TSeg, Acks
<1>3. Plus(Isn, a) \in Seqs
  BY <1>2, PlusRange, Sizes
<1>4. rx' \in RxReads
  BY <1>1, <1>3 DEF TInv, TSar, Entry, RxReads
<1>5. TRest'
  BY <1>1, <1>4 DEF TInv, TRest, timers
<1>6. TSar' /\ TFsm'
  BY <1>1 DEF TInv, TSar, TFsm
<1>7. TSeg'
  BY <1>1, NoSegment DEF TInv, TSeg
<1> QED BY <1>5, <1>6, <1>7 DEF TInv

LEMMA CongType == ASSUME NEW s \in RxReads  PROVE CongGrown(s) \in Lens
<1>1. PICK c \in Lens, t \in Lens : c = s.cong_window /\ t = s.slowstart_threshold
  BY RecordKinds
<1>2. c \in Int /\ t \in Int /\ c + MSS \in Int
  BY Ints, Sizes
<1>3. Low(c + MSS) \in Lens
  BY <1>2, LowRange
<1>4. c <= CongMax => c + 1 \in Lens
  BY <1>2, CongAssumption, Sizes DEF Lens
<1> QED BY <1>1, <1>3, <1>4 DEF CongGrown

LEMMA StopType ==
  ASSUME TInv, StopTimer
  PROVE  /\ rtimer' \in [type : {"off", "SYN", "SYN_ACK", "RT"}, cnt : 0 .. 2]
         /\ rtimer'.type \in {rtimer.type, "off"}
<1>1. rtimer \in [type : {"off", "SYN", "SYN_ACK", "RT"}, cnt : 0 .. 2]
  BY DEF TInv, TRest
<1>2. rtimer' = TimerOff \/ rtimer' = [rtimer EXCEPT !.cnt = 0]
  BY DEF StopTimer
<1> QED BY <1>1, <1>2 DEF TimerOff

LEMMA TypeRxWrite ==
  ASSUME NEW win \in Windows, NEW data \in BOOLEAN  PROVE TInv /\ RxWrite(win, data) => TInv'
<1> SUFFICES ASSUME TInv, RxWrite(win, data)  PROVE TInv'
  OBVIOUS
<1>1. /\ rx # NoRx /\ rx' = NoRx /\ seg' = NoSeg
      /\ rtimer' = (IF rx.ack = rx.next_byte THEN TimerOff ELSE [rtimer EXCEPT !.cnt = 0])
      /\ UNCHANGED <<sar_req, sar_rsp, fsm, ptimer, sent, rcvd, written>>
  BY DEF RxWrite, StopTimer
<1>2. rx \in RxReads
  BY <1>1 DEF TInv, TRest
<1>3. sar' \in Entry
  <2>1. sar \in Entry /\ rx.ack \in Seqs /\ CongGrown(rx) \in Lens /\ win \in Windows \cup {0}
    BY <1>2, RecordKinds, CongType DEF TInv, TSar
  <2>2. \/ sar' = sar
        \/ sar' = [sar EXCEPT !.ackd = rx.ack, !.recv_window = win, !.cong_window = CongGrown(rx)]
    BY DEF RxWrite
  <2> QED BY <2>1, <2>2 DEF Entry
<1>4. conn' \in Conns
  <2>1. conn' \in {conn, "OPEN", "DONE"}
    BY DEF RxWrite, AckedConn
  <2> QED BY <2>1 DEF TInv, TRest, Conns
<1>5. events' \in Seq(Events) /\ Len(events') <= Depth
  <2>1. events \in Seq(Events) /\ Len(events) <= Depth
    BY DEF TInv, TRest
  <2>2. CASE events' = events
    BY <2>1, <2>2
  <2>3. CASE Room(events) /\ \E e \in {"ACK"} \cup (IF OldAck(rx) THEN {"RT"} ELSE {}) :
               events' = Append(events, Ev(e, 0))
    <3>1. PICK e \in {"ACK", "RT"} : events' = Append(events, Ev(e, 0))
      BY <2>3
    <3>2. Ev(e, 0) \in Events
      BY RecordKinds DEF EventTypes
    <3> QED BY <2>1, <2>3, <3>1, <3>2, Wr, BoundsAssumption DEF Room
  <2> QED BY <2>2, <2>3 DEF RxWrite
<1>6. rtimer' \in [type : {"off", "SYN", "SYN_ACK", "RT"}, cnt : 0 .. 2]
  BY StopType DEF RxWrite
<1>7. TRest'
  BY <1>1, <1>4, <1>5, <1>6 DEF TInv, TRest
<1>8. TSar' /\ TFsm'
  BY <1>1, <1>3 DEF TInv, TSar, TFsm
<1>9. TSeg'
  BY <1>1, NoSegment DEF TInv, TSeg
<1> QED BY <1>7, <1>8, <1>9 DEF TInv

\* The steps that set an event and leave the engine alone.
LEMMA EventSet ==
  ASSUME TInv, NEW t \in EventTypes, NEW c \in 0 .. 2, Room(events),
         events' = Append(events, Ev(t, c))
  PROVE  events' \in Seq(Events) /\ Len(events') <= Depth /\ Grows(events, events', Ev(t, c))
<1>1. events \in Seq(Events) /\ Len(events) < Depth
  BY DEF TInv, TRest, Room
<1>2. Ev(t, c) \in Events
  BY RecordKinds
<1>3. /\ events' \in Seq(Events) /\ Grows(events, events', Ev(t, c))
      /\ Len(events') = Len(events) + 1 /\ Len(events) \in Nat
  BY <1>1, <1>2, Wr
<1> QED BY <1>1, <1>3, BoundsAssumption

LEMMA TypeRxFin ==
  ASSUME TInv, RxFinRefused \/ \E win \in Windows : RxFinTaken(win)  PROVE TInv'
<1>1. PICK t \in {"FIN", "ACK"} : Room(events) /\ events' = Append(events, Ev(t, 0))
  BY DEF RxFinRefused, RxFinTaken
<1>2. /\ rx # NoRx /\ rx' = NoRx /\ seg' = NoSeg /\ StopTimer
      /\ UNCHANGED <<sar_req, sar_rsp, fsm, ptimer, sent, rcvd, written>>
  BY DEF RxFinRefused, RxFinTaken, sar_vars, world
<1>3. rx \in RxReads
  BY <1>2 DEF TInv, TRest
<1>4. sar' \in Entry
  <2>1. sar \in Entry /\ rx.ack \in Seqs /\ rx.cong_window \in Lens
    BY <1>3, RecordKinds DEF TInv, TSar
  <2>2. \/ sar' = sar
        \/ \E win \in Windows \cup {0} :
             sar' = [sar EXCEPT !.ackd = rx.ack, !.recv_window = win, !.cong_window = rx.cong_window]
    BY DEF RxFinRefused, RxFinTaken, sar_vars
  <2> QED BY <2>1, <2>2 DEF Entry
<1>5. conn' \in Conns
  <2>1. conn' \in {conn, "SHUT", "DONE"}
    BY DEF RxFinRefused, RxFinTaken, FinConn, world
  <2> QED BY <2>1 DEF TInv, TRest, Conns
<1>6. events' \in Seq(Events) /\ Len(events') <= Depth
  <2>1. t \in EventTypes /\ 0 \in 0 .. 2
    BY DEF EventTypes
  <2> QED BY <2>1, <1>1, EventSet
<1>7. rtimer' \in [type : {"off", "SYN", "SYN_ACK", "RT"}, cnt : 0 .. 2]
  BY <1>2, StopType
<1>8. TRest'
  BY <1>2, <1>5, <1>6, <1>7 DEF TInv, TRest
<1>9. TSar' /\ TFsm'
  BY <1>2, <1>4 DEF TInv, TSar, TFsm
<1>10. TSeg'
  BY <1>2, NoSegment DEF TInv, TSeg
<1> QED BY <1>8, <1>9, <1>10 DEF TInv

LEMMA TypeAppWrite == ASSUME NEW n \in Writes  PROVE TInv /\ AppWrite(n) => TInv'
<1> SUFFICES ASSUME TInv, AppWrite(n)  PROVE TInv'
  OBVIOUS
<1>1. /\ Room(events) /\ events' = Append(events, Ev("TX", 0)) /\ seg' = NoSeg
      /\ sar' = [sar EXCEPT !.app_written = Low(@ + n)]
      /\ written' = written + n /\ written + n <= MaxWritten
      /\ UNCHANGED <<sar_req, sar_rsp, fsm, rx, ptimer, rtimer, sent, rcvd, conn>>
  BY DEF AppWrite, timers
<1>2. events' \in Seq(Events) /\ Len(events') <= Depth
  <2>1. "TX" \in EventTypes /\ 0 \in 0 .. 2
    BY DEF EventTypes
  <2> QED BY <2>1, <1>1, EventSet
<1>3. n \in Nat /\ written \in Nat
  BY WindowsAssumption, Sizes DEF TInv, TRest
<1>4. sar' \in Entry
  <2>1. sar \in Entry /\ sar.app_written \in Lens
    BY RecordKinds DEF TInv, TSar
  <2>2. sar.app_written + n \in Int
    BY <2>1, <1>3, Ints
  <2>3. PICK k \in Lens : k = Low(sar.app_written + n)
    BY <2>2, LowRange
  <2>4. sar' = [sar EXCEPT !.app_written = k]
    BY <2>3, <1>1
  <2> QED BY <2>1, <2>4 DEF Entry
<1>5. TRest'
  BY <1>1, <1>2, <1>3 DEF TInv, TRest
<1>6. TSar' /\ TFsm'
  BY <1>1, <1>4 DEF TInv, TSar, TFsm
<1>7. TSeg'
  BY <1>1, NoSegment DEF TInv, TSeg
<1> QED BY <1>5, <1>6, <1>7 DEF TInv

LEMMA TypeQuiet == TInv /\ (AppClose \/ ProbeExpires \/ Reset) => TInv'
<1> SUFFICES ASSUME TInv, AppClose \/ ProbeExpires \/ Reset  PROVE TInv'
  OBVIOUS
<1>1. PICK t \in {"FIN", "TX", "RST", "RST_NO_SESSION"} :
        Room(events) /\ events' = Append(events, Ev(t, 0))
  BY DEF AppClose, ProbeExpires, Reset, ResetEvent
<1>2. /\ seg' = NoSeg /\ ptimer' \in BOOLEAN /\ conn' \in Conns
      /\ UNCHANGED <<sar, sar_req, sar_rsp, fsm, rx, rtimer, sent, rcvd, written>>
  BY DEF AppClose, ProbeExpires, Reset, ResetEvent, timers, world, sar_vars, TInv, TRest, Conns
<1>3. events' \in Seq(Events) /\ Len(events') <= Depth
  <2>1. t \in EventTypes /\ 0 \in 0 .. 2
    BY DEF EventTypes
  <2> QED BY <2>1, <1>1, EventSet
<1>4. TRest'
  BY <1>2, <1>3 DEF TInv, TRest
<1>5. TSar' /\ TFsm'
  BY <1>2 DEF TInv, TSar, TFsm
<1>6. TSeg'
  BY <1>2, NoSegment DEF TInv, TSeg
<1> QED BY <1>4, <1>5, <1>6 DEF TInv

\* A timer counts to two: the engine tells a first expiry from later ones.
LEMMA ExpiryFacts ==
  ASSUME TInv, RetransExpires
  PROVE  \E n \in {1, 2} :
           /\ rtimer.type \in {"SYN", "SYN_ACK", "RT"} /\ Room(events)
           /\ events' = Append(events, Ev(rtimer.type, n)) /\ rtimer' = [type |-> "off", cnt |-> n]
           /\ seg' = NoSeg /\ Healthy
           /\ UNCHANGED <<sar, sar_req, sar_rsp, fsm, rx, ptimer, sent, rcvd, written, conn, deviation>>
<1>1. PICK n : n = Min({rtimer.cnt + 1, 2})
  OBVIOUS
<1>2. rtimer.cnt \in 0 .. 2 /\ rtimer.type \in {"off", "SYN", "SYN_ACK", "RT"}
  BY DEF TInv, TRest
<1>3. n \in {1, 2}
  <2>1. PICK k \in Int : k = rtimer.cnt + 1 /\ 1 <= k
    BY <1>2
  <2>2. Min({k, 2}) \in {k, 2} /\ Min({k, 2}) <= 2 /\ Min({k, 2}) <= k
    BY Smallest
  <2>3. n = Min({k, 2})
    BY <2>1, <1>1
  <2> QED BY <2>1, <2>2, <2>3
<1>4. /\ rtimer.type # "off" /\ Room(events)
      /\ events' = Append(events, Ev(rtimer.type, n)) /\ rtimer' = [type |-> "off", cnt |-> n]
      /\ seg' = NoSeg /\ Healthy
      /\ UNCHANGED <<sar, sar_req, sar_rsp, fsm, rx, ptimer, sent, rcvd, written, conn, deviation>>
  BY <1>1 DEF RetransExpires, world, sar_vars
<1> QED BY <1>2, <1>3, <1>4

LEMMA TypeRetransExpires == TInv /\ RetransExpires => TInv'
<1> SUFFICES ASSUME TInv, RetransExpires  PROVE TInv'
  OBVIOUS
<1>1. PICK n \in {1, 2} :
        /\ rtimer.type \in {"SYN", "SYN_ACK", "RT"} /\ Room(events)
        /\ events' = Append(events, Ev(rtimer.type, n)) /\ rtimer' = [type |-> "off", cnt |-> n]
        /\ seg' = NoSeg /\ Healthy
        /\ UNCHANGED <<sar, sar_req, sar_rsp, fsm, rx, ptimer, sent, rcvd, written, conn, deviation>>
  BY ExpiryFacts
<1>2. events' \in Seq(Events) /\ Len(events') <= Depth
  <2>1. rtimer.type \in EventTypes /\ n \in 0 .. 2
    BY <1>1 DEF EventTypes
  <2> QED BY <2>1, <1>1, EventSet
<1>3. TRest'
  BY <1>1, <1>2 DEF TInv, TRest
<1>4. TSar' /\ TFsm'
  BY <1>1 DEF TInv, TSar, TFsm
<1>5. TSeg'
  BY <1>1, NoSegment DEF TInv, TSeg
<1> QED BY <1>3, <1>4, <1>5 DEF TInv

LEMMA TypeDeliver == TInv /\ Deliver => TInv'
<1> SUFFICES ASSUME TInv, Deliver  PROVE TInv'
  OBVIOUS
<1>1. /\ seg.type \notin {"none", "ACK", "RST"} /\ rcvd' = SegEnd /\ SegEnd > rcvd /\ seg' = NoSeg
      /\ UNCHANGED <<sar, sar_req, sar_rsp, events, fsm, rx, timers, sent, written, conn>>
  BY DEF Deliver, sar_vars
<1>2. rcvd' \in 0 .. sent
  <2>1. SegEnd <= sent /\ rcvd \in Nat /\ sent \in Nat
    BY <1>1 DEF TInv, TSeg
  <2>2. SegEnd \in Int
    <3>1. seg \in DataSegs \cup FlagSegs
      BY <1>1 DEF TInv, TSeg, NoSeg
    <3>2. seg.seq \in Seqs /\ ("len" \in DOMAIN seg => seg.len \in Lens)
      <4>1. seg \in FlagSegs => "len" \notin DOMAIN seg
        BY DEF FlagSegs
      <4> QED BY <3>1, <4>1, RecordKinds
    <3>3. Off(seg.seq) \in Int
      BY <3>2, OffFacts
    <3>4. PICK k \in Int : k = IF "len" \in DOMAIN seg THEN seg.len ELSE 1
      BY <3>2, Ints
    <3> QED BY <3>3, <3>4 DEF SegEnd
  <2> QED BY <2>1, <2>2, <1>1
<1>3. TRest'
  BY <1>1, RestSame DEF TInv
<1>4. TSar' /\ TFsm'
  BY <1>1 DEF TInv, TSar, TFsm
<1>5. TSeg'
  BY <1>1, <1>2, NoSegment
<1> QED BY <1>3, <1>4, <1>5 DEF TInv

LEMMA TypeInit == Init => TInv
<1> SUFFICES ASSUME Init  PROVE TInv
  OBVIOUS
<1>1. TSar
  BY Ints, BoundsAssumption DEF Init, TSar, Entry
<1>2. TFsm
  BY LoadFacts DEF Init, TFsm
<1>3. TRest
  <2>1. PICK t \in {"SYN", "SYN_ACK"} : events = <<Ev(t, 0)>>
    BY DEF Init
  <2>2. Ev(t, 0) \in Events
    BY RecordKinds DEF EventTypes
  <2>3. events \in Seq(Events) /\ Len(events) = 1
    BY <2>1, <2>2
  <2>4. Len(events) <= Depth /\ 0 \in 0 .. MaxWritten
    BY <2>3, BoundsAssumption
  <2>5. rtimer \in [type : {"off", "SYN", "SYN_ACK", "RT"}, cnt : 0 .. 2]
    BY DEF Init, TimerOff
  <2>6. rx = NoRx /\ ptimer = FALSE /\ written = 0 /\ conn = "OPENING"
    BY DEF Init
  <2> QED BY <2>3, <2>4, <2>5, <2>6 DEF TRest, Conns
<1>4. TSeg
  BY DEF Init, TSeg, NoSeg
<1> QED BY <1>1, <1>2, <1>3, <1>4 DEF TInv

LEMMA TypeNext == TInv /\ [Next]_vars => TInv'
<1> SUFFICES ASSUME TInv, [Next]_vars  PROVE TInv'
  OBVIOUS
<1>1. CASE UNCHANGED vars
  BY <1>1 DEF vars, sar_vars, timers, world, TInv, TSar, TFsm, TRest, TSeg, SegEnd
<1>2. CASE TxEngTcpFsm
  BY <1>2, TypeLoad, TypeTxData, TypeTxRetransmit, TypeTxAck, TypeTxSyn, TypeTxFin, TypeTxRst
     DEF TxEngTcpFsm
<1>3. CASE Rx
  BY <1>3, TypeRxRead, TypeRxWrite, TypeRxFin DEF Rx
<1>4. CASE App
  BY <1>4, TypeQuiet, TypeAppWrite DEF App
<1>5. CASE SarTxEng \/ ProbeExpires \/ RetransExpires \/ Reset \/ Deliver
  BY <1>5, TypeSarTxEng, TypeQuiet, TypeRetransExpires, TypeDeliver
<1> QED BY <1>1, <1>2, <1>3, <1>4, <1>5 DEF Next

LEMMA TypesSuffice == TInv => TxEngTypeOK
<1> SUFFICES ASSUME TInv  PROVE TxEngTypeOK
  OBVIOUS
<1>1. sar \in [ackd : 0 .. SeqMod - 1, not_ackd : 0 .. SeqMod - 1, app_written : 0 .. BufMod - 1,
               recv_window : Windows \cup {0}, cong_window : 0 .. BufMod - 1,
               slowstart_threshold : 0 .. BufMod - 1, fin_is_ready : BOOLEAN, fin_is_sent : BOOLEAN]
  BY DEF TInv, TSar, Entry, Seqs, Lens
<1>2. /\ fsm.type \in {"LOAD", "RT_CONT"} \cup EventTypes /\ fsm.cnt \in 0 .. 2
      /\ fsm.curr \in 0 .. BufMod - 1 /\ fsm.usable \in 0 .. BufMod - 1
  BY LoadFacts DEF TInv, TFsm, FsmTypes, Lens
<1> QED BY <1>1, <1>2 DEF TInv, TSar, TRest, TSeg, TxEngTypeOK

\* The table, the FIFOs, the registers and what the peer has are always of their types: at any
\* depth of the FIFOs, and also after the engine has left the rails.
THEOREM TypeCorrect == Spec => []TInv
<1> QED BY TypeInit, TypeNext, PTL DEF Spec

-----------------------------------------------------------------------------
(* The invariant, as long as the engine is on the rails.                     *)

AckedTo   == Off(sar.ackd)       \* the peer has all before it
NotedTo   == Off(sar.not_ackd)   \* all before it has been sent, as the table has it
WrittenTo == written + 1         \* the application has written all before it; a FIN stands here
FinOf(r) == IF r.fin_is_sent THEN 1 ELSE 0
Opening == conn = "OPENING"
Waiting == AsksSar(fsm) /\ ~fsm.loaded
InitPending == \E i \in 1 .. Len(sar_req) : sar_req[i].kind = "init"
Ready == sent >= 1 /\ ~InitPending

\* The engine asks once for an event: a read is the last request, and its answer the only one.
QueueInv ==
  /\ \A i \in 1 .. Len(sar_req) :
       /\ sar_req[i].kind = "read" => i = Len(sar_req) /\ Waiting /\ sar_rsp = <<>>
       /\ sar_req[i].kind = "init" => Opening
       /\ sar_req[i].kind \in {"write", "retrans"} => ~Opening
  /\ sar_rsp # <<>> => Len(sar_rsp) = 1 /\ sar_req = <<>> /\ Waiting

\* While the connection opens there are SYNs and resets only, and a SYN is repeated only after
\* the first one was sent.
EventOK(e, c) ==
  /\ e.type \in {"TX", "FIN"} => e.cnt = 0
  /\ c = "OPENING" => e.type \in Syns \cup Rsts \cup {"ACK"}
  /\ e.type = "FIN" => c \in Ended
EventInv ==
  /\ \A i \in 1 .. Len(events) :
       /\ EventOK(events[i], conn)
       /\ events[i].type \in Syns /\ events[i].cnt = 0 => sent = 0 /\ i = 1 /\ fsm.type = "LOAD"
  /\ fsm.type = "LOAD" \/ fsm.loaded \/ EventOK(fsm, conn)
  /\ fsm.loaded => ~Opening
  /\ fsm.type = "TX" => fsm.cnt = 0
  /\ fsm.type \in Syns /\ fsm.cnt = 0 => sent = 0
  /\ rtimer.type = "RT" \/ ptimer => ~Opening
StartInv == sent = 0 =>
  /\ Opening /\ rcvd = 0 /\ rx = NoRx /\ rtimer.type = "off"
  /\ \A i \in 1 .. Len(sar_req) : sar_req[i].kind = "read"
  /\ \/ fsm.type = "LOAD" /\ events # <<>> /\ events[1].type \in Syns /\ events[1].cnt = 0
     \/ fsm.type \in Syns /\ fsm.cnt = 0

\* The send window: acknowledged, sent and written, in this order, and no more than the buffer.
WindowInv ==
  /\ sent <= WrittenTo + 1
  /\ Opening => written = 0
  /\ ~Opening => sent >= 1 /\ AckedTo >= 1
  /\ sar.fin_is_ready \/ sar.fin_is_sent => conn \in Ended
  /\ Ready =>
       /\ AckedTo <= NotedTo /\ 1 <= NotedTo /\ NotedTo <= sent
       /\ NotedTo <= WrittenTo + FinOf(sar) /\ (sar.fin_is_sent => NotedTo = WrittenTo + 1)
       /\ WrittenTo - AckedTo <= BufMod - 1
       /\ sar.app_written = Low(Isn + WrittenTo)

\* The writes of not_ackd under way go forward, and with the FIN over it.
PendingOK(r) ==
  /\ NotedTo <= Off(r.not_ackd) /\ Off(r.not_ackd) <= sent
  /\ r.fin_is_ready \/ r.fin_is_sent => conn \in Ended
  /\ r.fin_is_sent => Off(r.not_ackd) = WrittenTo + 1
  /\ Off(r.not_ackd) <= WrittenTo \/ sar.fin_is_sent \/ r.fin_is_sent
PendingInv ==
  /\ \A i \in 1 .. Len(sar_req) : sar_req[i].kind = "write" => PendingOK(sar_req[i])
  /\ \A i, j \in 1 .. Len(sar_req) :
       i < j /\ sar_req[i].kind = "write" /\ sar_req[j].kind = "write" =>
         Off(sar_req[i].not_ackd) <= Off(sar_req[j].not_ackd)

\* What an answer says stays good for the burst: its window lies within the peer's,
WindowOf(r) ==
  /\ Off(r.ackd) <= AckedTo
  /\ Off(r.ackd) + r.min_window <= AckedTo + sar.recv_window
  /\ r.fin_is_ready => conn \in Ended
\* the registers count what is in flight and what fits,
Budget(r, used, usable) ==
  /\ used = Off(r.not_ackd) - Off(r.ackd)
  /\ usable > 0 => used + usable = r.min_window
\* and what is left of the bytes that were written when the table answered.
Unsent(r, curr) ==
  /\ Off(r.not_ackd) + curr <= WrittenTo
  /\ r.app_written = Low(Isn + (Off(r.not_ackd) + curr))
  /\ r.fin_is_ready => Off(r.not_ackd) + curr = WrittenTo
  /\ r.ackd_eq_not_ackd => Off(r.not_ackd_short) = Off(r.not_ackd) + curr
\* What is sent again lies before not_ackd, without the FIN.
Again(r) ==
  /\ Off(r.ackd) >= 1
  /\ Off(r.ackd) + r.used_length_rst = NotedTo - FinOf(r)
Same(r) ==
  /\ r.not_ackd = sar.not_ackd /\ r.fin_is_sent = sar.fin_is_sent
  /\ r.fin_is_sent => r.app_written = Low(Isn + WrittenTo)

Fresh(r) ==
  /\ Same(r) /\ WindowOf(r)
  /\ (r.ackd_eq_not_ackd <=> r.ackd = r.not_ackd)
  /\ ~r.fin_is_sent =>
       /\ Budget(r, r.used_length, r.usable_window)
       /\ Unsent(r, r.curr_length)
       /\ fsm.type = "FIN" => Off(r.not_ackd) + r.curr_length = WrittenTo
  /\ fsm.type = "RT" /\ ~(r.fin_is_sent /\ r.ackd_eq_not_ackd) => Again(r)
FreshInv == sar_rsp # <<>> /\ sent >= 1 => Fresh(sar_rsp[1])

\* A TX burst under way: nobody else moves not_ackd before it writes it back.
Burst(r) ==
  /\ sar_req = <<>> /\ ~r.fin_is_sent /\ ~sar.fin_is_sent
  /\ WindowOf(r)
  /\ Budget(r, fsm.used, fsm.usable)
  /\ Unsent(r, fsm.curr)
  /\ NotedTo <= Off(r.not_ackd) /\ Off(r.not_ackd) <= sent
BurstInv == fsm.type = "TX" /\ fsm.loaded => Burst(fsm.rsp)

\* A FIN that follows a burst, or a retransmission of one that was sent.
Closing(r) ==
  /\ conn \in Ended /\ r.app_written = Low(Isn + WrittenTo)
  /\ NotedTo <= Off(r.not_ackd) /\ Off(r.not_ackd) <= sent
  /\ \/ Off(r.not_ackd) = WrittenTo /\ fsm.cnt = 0
     \/ Off(r.not_ackd) = WrittenTo + 1 /\ sar.fin_is_sent
  /\ \A i \in 1 .. Len(sar_req) :
       sar_req[i].kind = "write" => Off(sar_req[i].not_ackd) <= Off(r.not_ackd)
FinInv == fsm.type = "FIN" /\ fsm.loaded => Closing(fsm.rsp)

\* A retransmission under way.
RtInv == fsm.type = "RT_CONT" =>
  /\ Same(fsm.rsp) /\ Again(fsm.rsp)
  /\ \A i \in 1 .. Len(sar_req) : sar_req[i].kind = "retrans"

\* What the rx engine has read of the entry, and the acknowledgement it judges by it.
RxInv == rx # NoRx =>
  /\ ~InitPending
  /\ rx.perv_ack = sar.ackd
  /\ AckedTo <= Off(rx.next_byte) /\ Off(rx.next_byte) <= NotedTo
  /\ 1 <= Off(rx.ack) /\ Off(rx.ack) <= rcvd

SegInv == SentIsWritten /\ WithinWindow /\ FinIsLast

Core ==
  /\ QueueInv /\ EventInv /\ StartInv /\ WindowInv /\ PendingInv
  /\ FreshInv /\ BurstInv /\ FinInv /\ RtInv /\ RxInv /\ SegInv

\* The inductive invariant.
IInv == TInv /\ (Healthy => Core)

-----------------------------------------------------------------------------
(* Steps that leave the table and the engine alone.                          *)

LEMMA EntryOffs ==
  ASSUME NEW e \in Entry
  PROVE  /\ Off(e.ackd) \in Nat /\ Off(e.not_ackd) \in Nat
         /\ Off(e.ackd) < SeqMod /\ Off(e.not_ackd) < SeqMod
         /\ e.recv_window \in Nat /\ e.app_written \in Nat
BY RecordKinds, OffFacts, WindowInts, Ints

LEMMA Offsets ==
  ASSUME TInv
  PROVE  /\ AckedTo \in Nat /\ NotedTo \in Nat /\ WrittenTo \in Nat /\ sar.recv_window \in Nat
         /\ sent \in Nat /\ rcvd \in Nat /\ rcvd <= sent /\ written \in Nat
         /\ WrittenTo <= MaxWritten + 1 /\ WrittenTo + BufMod + 1 < SeqMod
         /\ FinOf(sar) \in {0, 1}
<1>1. sar \in Entry /\ written \in 0 .. MaxWritten /\ sent \in Nat /\ rcvd \in 0 .. sent
  BY DEF TInv, TSar, TRest, TSeg
<1>2. AckedTo \in Nat /\ NotedTo \in Nat /\ sar.recv_window \in Nat
  BY <1>1, EntryOffs DEF AckedTo, NotedTo
<1>3. written \in Nat /\ WrittenTo = written + 1 /\ WrittenTo \in Nat /\ WrittenTo <= MaxWritten + 1
  BY <1>1, Sizes DEF WrittenTo
<1>4. WrittenTo + BufMod + 1 < SeqMod
  BY <1>3, Sizes
<1> QED BY <1>1, <1>2, <1>3, <1>4 DEF FinOf

\* The connection opens and ends, and never opens again.
Onward ==
  conn' = conn \/ (conn = "OPENING" /\ conn' = "OPEN") \/ (conn # "OPENING" /\ conn' \in Ended)

LEMMA EventKept ==
  ASSUME Onward, NEW e, EventOK(e, conn)  PROVE EventOK(e, conn')
BY DEF Onward, EventOK, Ended

LEMMA EventsGrow ==
  ASSUME TInv, EventInv, fsm' = fsm, sent' = sent, Onward,
         rtimer'.type \in {rtimer.type, "off"}, ptimer' => ptimer,
         \/ events' = events
         \/ \E e \in Events : /\ Grows(events, events', e) /\ EventOK(e, conn')
                              /\ ~(e.type \in Syns /\ e.cnt = 0)
  PROVE  EventInv'
<1>1. events \in Seq(Events) /\ Len(events) \in Nat
  BY In DEF TInv, TRest
<1>2. ASSUME NEW i \in 1 .. Len(events)
      PROVE  /\ EventOK(events[i], conn')
             /\ events[i].type \in Syns /\ events[i].cnt = 0 => sent = 0 /\ i = 1 /\ fsm.type = "LOAD"
  BY EventKept DEF EventInv
<1>3. \A i \in 1 .. Len(events') :
        /\ EventOK(events'[i], conn')
        /\ events'[i].type \in Syns /\ events'[i].cnt = 0 => sent' = 0 /\ i = 1 /\ fsm'.type = "LOAD"
  <2>1. CASE events' = events
    BY <1>2, <2>1
  <2>2. CASE events' # events
    <3>1. PICK e \in Events : /\ Grows(events, events', e) /\ EventOK(e, conn')
                              /\ ~(e.type \in Syns /\ e.cnt = 0)
      BY <2>2
    <3> SUFFICES ASSUME NEW i \in 1 .. Len(events')
                 PROVE  /\ EventOK(events'[i], conn')
                        /\ events'[i].type \in Syns /\ events'[i].cnt = 0 => sent' = 0 /\ i = 1 /\ fsm'.type = "LOAD"
      OBVIOUS
    <3>2. CASE i \in 1 .. Len(events)
      <4>1. events'[i] = events[i]
        BY <3>1, <3>2 DEF Grows
      <4> QED BY <4>1, <3>2, <1>2
    <3>3. CASE i \notin 1 .. Len(events)
      <4>1. events'[i] = e
        BY <3>1, <3>3, <1>1 DEF Grows
      <4> QED BY <4>1, <3>1
    <3> QED BY <3>2, <3>3
  <2> QED BY <2>1, <2>2
<1>4. /\ fsm.type = "LOAD" \/ fsm.loaded \/ EventOK(fsm, conn')
      /\ fsm.loaded => ~Opening'
      /\ rtimer'.type = "RT" \/ ptimer' => ~Opening'
  BY EventKept DEF EventInv, Onward, Opening, Ended
<1> QED BY <1>3, <1>4 DEF EventInv

LEMMA NoSegmentLegal == seg' = NoSeg => SegInv'
BY DEF SegInv, SentIsWritten, WithinWindow, FinIsLast, NoSeg

LEMMA QuietStep ==
  ASSUME TInv, TInv', Core, UNCHANGED <<sar, sar_req, sar_rsp, fsm, sent, written>>,
         conn' = conn \/ (conn # "OPENING" /\ conn' \in Ended),
         rtimer'.type \in {rtimer.type, "off"}, ptimer' => ptimer,
         \/ events' = events
         \/ \E e \in Events : /\ Grows(events, events', e) /\ EventOK(e, conn')
                              /\ ~(e.type \in Syns /\ e.cnt = 0),
         rx' = rx \/ (sent >= 1 /\ RxInv'), rcvd' >= rcvd, SegInv'
  PROVE  Core'
<1>1. /\ AckedTo' = AckedTo /\ NotedTo' = NotedTo /\ WrittenTo' = WrittenTo
      /\ Opening' = Opening /\ Waiting' = Waiting /\ InitPending' = InitPending /\ Ready' = Ready
  <2>1. AckedTo' = AckedTo /\ NotedTo' = NotedTo /\ WrittenTo' = WrittenTo
    BY DEF AckedTo, NotedTo, WrittenTo
  <2>2. InitPending' = InitPending /\ Ready' = Ready
    BY DEF InitPending, Ready
  <2>3. Opening' = Opening /\ Waiting' = Waiting
    BY DEF Opening, Waiting, Ended
  <2> QED BY <2>1, <2>2, <2>3
<1>2. QueueInv'
  BY <1>1 DEF Core, QueueInv
<1>3. EventInv'
  <2>1. Onward /\ EventInv
    BY DEF Onward, Core
  <2> QED BY <2>1, EventsGrow
<1>4. StartInv'
  <2> SUFFICES ASSUME sent = 0
      PROVE  /\ Opening' /\ rcvd' = 0 /\ rx' = NoRx /\ rtimer'.type = "off"
             /\ \A i \in 1 .. Len(sar_req') : sar_req'[i].kind = "read"
             /\ \/ fsm'.type = "LOAD" /\ events' # <<>> /\ events'[1].type \in Syns /\ events'[1].cnt = 0
                \/ fsm'.type \in Syns /\ fsm'.cnt = 0
    BY DEF StartInv
  <2>1. /\ Opening /\ rx = NoRx /\ rtimer.type = "off"
        /\ \A i \in 1 .. Len(sar_req) : sar_req[i].kind = "read"
        /\ \/ fsm.type = "LOAD" /\ events # <<>> /\ events[1].type \in Syns /\ events[1].cnt = 0
           \/ fsm.type \in Syns /\ fsm.cnt = 0
    BY DEF Core, StartInv
  <2>2. rcvd' = 0
    BY DEF TInv, TSeg
  <2>3. ASSUME events # <<>>  PROVE events' # <<>> /\ events'[1] = events[1]
    <3>1. CASE events' = events
      BY <3>1, <2>3
    <3>2. CASE \E e \in Events : Grows(events, events', e)
      <4>1. Len(events) \in Nat /\ Len(events) # 0
        BY <2>3, In DEF TInv, TRest
      <4>2. events'[1] = events[1] /\ Len(events') = Len(events) + 1
        BY <3>2, <4>1 DEF Grows
      <4>3. \A r : r = <<>> => Len(r) = 0
        OBVIOUS
      <4> QED BY <4>1, <4>2, <4>3
    <3> QED BY <3>1, <3>2
  <2> QED BY <1>1, <2>1, <2>2, <2>3
<1>5. WindowInv'
  BY <1>1 DEF Core, WindowInv, Opening
<1>6. PendingInv'
  <2>1. ASSUME NEW i \in 1 .. Len(sar_req), sar_req[i].kind = "write"
        PROVE PendingOK(sar_req[i])'
    <3>1. PendingOK(sar_req[i])
      BY <2>1 DEF Core, PendingInv
    <3> QED BY <1>1, <3>1 DEF PendingOK
  <2>2. \A i, j \in 1 .. Len(sar_req) :
          i < j /\ sar_req[i].kind = "write" /\ sar_req[j].kind = "write" =>
            Off(sar_req[i].not_ackd) <= Off(sar_req[j].not_ackd)
    BY DEF Core, PendingInv
  <2> QED BY <2>1, <2>2 DEF PendingInv
<1>7. FreshInv'
  BY <1>1 DEF Core, FreshInv, Fresh, Same, WindowOf, Budget, Unsent, Again, FinOf
<1>8. BurstInv'
  BY <1>1 DEF Core, BurstInv, Burst, WindowOf, Budget, Unsent
<1>9. FinInv'
  BY <1>1 DEF Core, FinInv, Closing
<1>10. RtInv'
  BY <1>1 DEF Core, RtInv, Same, Again, FinOf
<1>11. RxInv'
  <2>1. CASE rx' = rx
    <3>1. rcvd \in Int /\ rcvd' \in Int
      BY DEF TInv, TSeg
    <3>2. ASSUME rx # NoRx  PROVE Off(rx.ack) <= rcvd'
      <4>1. rx \in RxReads
        BY <3>2 DEF TInv, TRest
      <4>2. Off(rx.ack) \in Int
        BY <4>1, RecordKinds, OffFacts
      <4> QED BY <3>1, <3>2, <4>2 DEF Core, RxInv
    <3> QED BY <1>1, <2>1, <3>2 DEF Core, RxInv
  <2> QED BY <2>1
<1> QED BY <1>2, <1>3, <1>4, <1>5, <1>6, <1>7, <1>8, <1>9, <1>10, <1>11 DEF Core

LEMMA CoreStutter == TInv /\ Core /\ UNCHANGED vars => Core'
<1> SUFFICES ASSUME TInv, Core, UNCHANGED vars  PROVE Core'
  OBVIOUS
<1>1. UNCHANGED <<sar, sar_req, sar_rsp, fsm, sent, written, conn, rtimer, events, rx, rcvd, seg, ptimer, deviation>>
  BY DEF vars, sar_vars, timers, world
<1>2. TInv'
  BY TypeNext
<1>3. SegInv'
  BY <1>1 DEF Core, SegInv, SentIsWritten, WithinWindow, FinIsLast, Healthy
<1>4. rcvd' >= rcvd
  BY <1>1 DEF TInv, TSeg
<1>5. rtimer'.type \in {rtimer.type, "off"} /\ (ptimer' => ptimer)
  BY <1>1
<1> QED BY <1>1, <1>2, <1>3, <1>4, <1>5, QuietStep

LEMMA CoreQuiet ==
  ASSUME TInv, Core, AppClose \/ ProbeExpires \/ Reset \/ RetransExpires \/ Deliver
  PROVE  Core'
<1>1. TInv'
  BY TypeQuiet, TypeRetransExpires, TypeDeliver
<1>2. /\ UNCHANGED <<sar, sar_req, sar_rsp, fsm, sent, written, rx>> /\ seg' = NoSeg
      /\ conn' = conn \/ (conn # "OPENING" /\ conn' \in Ended)
  BY DEF AppClose, ProbeExpires, Reset, ResetEvent, RetransExpires, Deliver, timers, world, sar_vars, Ended
<1>3. rcvd' >= rcvd
  <2>1. CASE rcvd' = rcvd
    BY <2>1 DEF TInv, TSeg
  <2>2. CASE Deliver
    <3>1. rcvd' > rcvd /\ rcvd' \in Int /\ rcvd \in Int
      BY <2>2, <1>1 DEF Deliver, TInv, TSeg
    <3> QED BY <3>1
  <2> QED BY <2>1, <2>2 DEF AppClose, ProbeExpires, Reset, ResetEvent, RetransExpires, world
<1>4. rtimer'.type \in {rtimer.type, "off"}
  <2>1. rtimer' = rtimer \/ rtimer'.type = "off"
    BY ExpiryFacts DEF AppClose, ProbeExpires, Reset, ResetEvent, Deliver, timers
  <2> QED BY <2>1
<1>5. \/ events' = events
      \/ \E e \in Events : /\ Grows(events, events', e) /\ EventOK(e, conn')
                           /\ ~(e.type \in Syns /\ e.cnt = 0)
  <2>1. CASE AppClose
    <3>1. Room(events) /\ events' = Append(events, Ev("FIN", 0)) /\ conn' \in Ended
      BY <2>1 DEF AppClose, Ended
    <3>2. Grows(events, events', Ev("FIN", 0)) /\ Ev("FIN", 0) \in Events
      BY <3>1, EventSet, RecordKinds DEF EventTypes
    <3>3. EventOK(Ev("FIN", 0), conn') /\ Ev("FIN", 0).type = "FIN"
      BY <3>1 DEF EventOK, Ev, Ended
    <3> QED BY <3>2, <3>3 DEF Syns
  <2>2. CASE ProbeExpires
    <3>1. Room(events) /\ events' = Append(events, Ev("TX", 0)) /\ conn' = conn /\ ptimer
      BY <2>2 DEF ProbeExpires, world
    <3>2. Grows(events, events', Ev("TX", 0)) /\ Ev("TX", 0) \in Events
      BY <3>1, EventSet, RecordKinds DEF EventTypes
    <3>3. conn # "OPENING"
      BY <3>1 DEF Core, EventInv, Opening
    <3>4. EventOK(Ev("TX", 0), conn') /\ Ev("TX", 0).type = "TX"
      BY <3>1, <3>3 DEF EventOK, Ev
    <3> QED BY <3>2, <3>4 DEF Syns
  <2>3. CASE Reset
    <3>1. PICK t \in {"RST", "RST_NO_SESSION"} :
            Room(events) /\ events' = Append(events, Ev(t, 0)) /\ conn' = conn /\ conn = "OPENING"
      BY <2>3 DEF Reset, ResetEvent, world
    <3>2. Grows(events, events', Ev(t, 0)) /\ Ev(t, 0) \in Events
      BY <3>1, EventSet, RecordKinds DEF EventTypes
    <3>3. EventOK(Ev(t, 0), conn') /\ Ev(t, 0).type = t
      BY <3>1 DEF EventOK, Ev, Rsts
    <3> QED BY <3>1, <3>2, <3>3 DEF Syns
  <2>4. CASE RetransExpires
    <3>1. PICK n \in {1, 2} :
            /\ rtimer.type \in {"SYN", "SYN_ACK", "RT"} /\ Room(events)
            /\ events' = Append(events, Ev(rtimer.type, n)) /\ conn' = conn
      BY <2>4, ExpiryFacts
    <3>2. PICK t \in EventTypes : t = rtimer.type
      BY <3>1 DEF EventTypes
    <3>3. Grows(events, events', Ev(t, n)) /\ Ev(t, n) \in Events
      BY <3>1, <3>2, EventSet, RecordKinds
    <3>4. Ev(t, n).type = t /\ Ev(t, n).cnt = n
      BY DEF Ev
    <3>5. t = "RT" => conn # "OPENING"
      BY <3>2 DEF Core, EventInv, Opening
    <3>6. EventOK(Ev(t, n), conn')
      BY <3>1, <3>2, <3>4, <3>5 DEF EventOK, Syns
    <3> QED BY <3>3, <3>4, <3>6
  <2>5. CASE Deliver
    BY <2>5 DEF Deliver
  <2> QED BY <2>1, <2>2, <2>3, <2>4, <2>5
<1>6. SegInv'
  BY <1>2, NoSegmentLegal
<1>7. ptimer' => ptimer
  BY ExpiryFacts DEF AppClose, ProbeExpires, Reset, ResetEvent, Deliver, timers
<1> QED BY <1>1, <1>2, <1>3, <1>4, <1>5, <1>6, <1>7, QuietStep

-----------------------------------------------------------------------------
(* Steps of the engine.                                                      *)

\* Once the connection is open the entry is initialised, and its offsets are in order.
LEMMA Running ==
  ASSUME TInv, Core, sent >= 1, ~InitPending
  PROVE  /\ AckedTo <= NotedTo /\ 1 <= NotedTo /\ NotedTo <= sent /\ sent <= WrittenTo + 1
         /\ NotedTo <= WrittenTo + FinOf(sar) /\ (sar.fin_is_sent => NotedTo = WrittenTo + 1)
         /\ WrittenTo - AckedTo <= BufMod - 1 /\ sar.app_written = Low(Isn + WrittenTo)
         /\ sar.fin_is_ready \/ sar.fin_is_sent => conn \in Ended
BY DEF Core, WindowInv, Ready

LEMMA IsOpen ==
  ASSUME TInv, Core, ~Opening  PROVE sent >= 1 /\ AckedTo >= 1 /\ ~InitPending
BY DEF Core, WindowInv, QueueInv, InitPending

\* A handler works with the answer to its own question.
LEMMA Asking ==
  ASSUME TInv, Core, fsm.loaded \/ sar_rsp # <<>>, TakeAnswer
  PROVE  /\ sar_rsp' = <<>> /\ fsm.type # "LOAD"
         /\ \A i \in 1 .. Len(sar_req) : sar_req[i].kind # "read"
         /\ ~fsm.loaded => /\ sar_req = <<>> /\ ~InitPending /\ Waiting
                           /\ Answer = sar_rsp[1] /\ (sent >= 1 => Fresh(Answer))
<1>1. sar_rsp \in Seq(Answers) /\ sar_req \in Seq(Requests)
  BY DEF TInv, TSar
<1>2. /\ \A i \in 1 .. Len(sar_req) : sar_req[i].kind = "read" => Waiting /\ sar_rsp = <<>>
      /\ sar_rsp # <<>> => Len(sar_rsp) = 1 /\ sar_req = <<>> /\ Waiting
  BY DEF Core, QueueInv
<1>3. CASE fsm.loaded
  <2>1. ~Waiting
    BY <1>3 DEF Waiting
  <2>2. fsm.type # "LOAD"
    BY <1>3 DEF TInv, TFsm
  <2>3. sar_rsp' = sar_rsp
    BY <1>3 DEF TakeAnswer
  <2> QED BY <2>1, <2>2, <2>3, <1>2, <1>3
<1>4. CASE ~fsm.loaded
  <2>1. Len(sar_rsp) = 1 /\ sar_req = <<>> /\ Waiting /\ sar_rsp # <<>>
    BY <1>2, <1>4
  <2>2. fsm.type # "LOAD"
    BY <2>1 DEF Waiting, AsksSar
  <2>3. sar_rsp' = Tail(sar_rsp) /\ Answer = Head(sar_rsp)
    BY <1>4 DEF TakeAnswer, Answer
  <2>4. Len(sar_rsp') = 0 /\ sar_rsp' \in Seq(Answers) /\ Answer = sar_rsp[1]
    BY <1>1, <2>1, <2>3, Rd DEF Takes
  <2>5. sar_rsp' = <<>>
    BY <2>4, In
  <2>6. Len(sar_req) = 0
    BY <1>1, <2>1, In
  <2>7. ~InitPending
    BY <2>6 DEF InitPending
  <2>8. sent >= 1 => Fresh(Answer)
    BY <2>1, <2>4 DEF Core, FreshInv
  <2>9. \A i \in 1 .. Len(sar_req) : sar_req[i].kind # "read"
    BY <2>6
  <2> QED BY <2>1, <2>2, <2>4, <2>5, <2>7, <2>8, <2>9, <1>4
<1> QED BY <1>3, <1>4

\* What a handler leaves as it is, and what is left to show of the rest.
LEMMA HandlerStep ==
  ASSUME TInv, TInv', Core, UNCHANGED <<sar, events, rx, rcvd, written, conn>>,
         fsm.type # "LOAD", sent >= 1, sent' >= sent, sent' <= WrittenTo + 1,
         sar_rsp' = <<>>, \A i \in 1 .. Len(sar_req) : sar_req[i].kind # "read",
         \/ sar_req' = sar_req
         \/ \E q \in Requests :
              /\ Grows(sar_req, sar_req', q) /\ ~Opening
              /\ \/ q.kind = "retrans"
                 \/ /\ q.kind = "write" /\ PendingOK(q)'
                    /\ \A i \in 1 .. Len(sar_req) :
                         sar_req[i].kind = "write" => Off(sar_req[i].not_ackd) <= Off(q.not_ackd),
         rtimer'.type = "RT" \/ ptimer' \/ fsm'.loaded => ~Opening,
         fsm'.type = "LOAD" \/ fsm'.loaded, fsm'.type = "TX" => fsm'.cnt = 0,
         BurstInv', FinInv', RtInv', SegInv'
  PROVE  Core'
<1>1. /\ AckedTo' = AckedTo /\ NotedTo' = NotedTo /\ WrittenTo' = WrittenTo /\ Opening' = Opening
      /\ AckedTo \in Nat /\ NotedTo \in Nat /\ WrittenTo \in Nat /\ sent \in Nat
  BY Offsets DEF AckedTo, NotedTo, WrittenTo, Opening
<1>2. sent' \in Nat /\ sent' >= 1
  BY <1>1 DEF TInv, TSeg
<1>3. sar_req \in Seq(Requests) /\ Len(sar_req) \in Nat
  BY In DEF TInv, TSar
<1>4. \/ sar_req' = sar_req
      \/ \E q \in Requests :
           /\ Grows(sar_req, sar_req', q) /\ ~Opening /\ q.kind \in {"write", "retrans"}
           /\ q.kind = "write" =>
                /\ PendingOK(q)'
                /\ \A i \in 1 .. Len(sar_req) :
                     sar_req[i].kind = "write" => Off(sar_req[i].not_ackd) <= Off(q.not_ackd)
  BY Zenon
<1>5. /\ \A i \in 1 .. Len(sar_req) :
           /\ sar_req[i].kind # "read"
           /\ sar_req[i].kind = "init" => Opening
           /\ sar_req[i].kind \in {"write", "retrans"} => ~Opening
      /\ \A q \in Requests, i \in 1 .. Len(sar_req) :
           sar_req[i] = q /\ q.kind = "write" => PendingOK(q)'
  <2> SUFFICES ASSUME NEW q \in Requests, NEW i \in 1 .. Len(sar_req), sar_req[i] = q, q.kind = "write"
               PROVE  PendingOK(q)'
    BY DEF Core, QueueInv
  <2>1. PendingOK(q)
    BY DEF Core, PendingInv
  <2>2. PICK n \in Nat : n = Off(q.not_ackd)
    BY RequestKinds, OffFacts
  <2>3. n <= sent'
    BY <2>1, <2>2, <1>1, <1>2 DEF PendingOK
  <2> QED BY <2>1, <2>2, <2>3, <1>1 DEF PendingOK
<1>6. /\ \A i \in 1 .. Len(sar_req') :
           /\ sar_req'[i].kind # "read"
           /\ sar_req'[i].kind = "init" => Opening
           /\ sar_req'[i].kind \in {"write", "retrans"} => ~Opening
      /\ \A q \in Requests, i \in 1 .. Len(sar_req') :
           sar_req'[i] = q /\ q.kind = "write" => PendingOK(q)'
  <2>1. CASE sar_req' = sar_req
    BY <1>5, <2>1
  <2>2. CASE sar_req' # sar_req
    <3>1. PICK q \in Requests :
           /\ Grows(sar_req, sar_req', q) /\ ~Opening /\ q.kind \in {"write", "retrans"}
           /\ q.kind = "write" => PendingOK(q)'
      BY <2>2, <1>4
    <3>2. \A i \in 1 .. Len(sar_req') :
            IF i \in 1 .. Len(sar_req) THEN sar_req'[i] = sar_req[i] ELSE sar_req'[i] = q
      BY <3>1, <1>3 DEF Grows
    <3> QED BY <3>1, <3>2, <1>5
  <2> QED BY <2>1, <2>2
<1>7. InitPending' <=> InitPending
  <2>1. CASE sar_req' = sar_req
    BY <2>1 DEF InitPending
  <2>2. CASE sar_req' # sar_req
    <3>1. ~Opening
      BY <2>2, <1>4
    <3> QED BY <3>1, <1>5, <1>6 DEF InitPending
  <2> QED BY <2>1, <2>2
<1>8. QueueInv'
  BY <1>1, <1>6 DEF QueueInv
<1>9. EventInv'
  <2>1. \A i \in 1 .. Len(events) :
          EventOK(events[i], conn) /\ ~(events[i].type \in Syns /\ events[i].cnt = 0)
    BY DEF Core, EventInv
  <2>2. fsm'.type \notin Syns
    <3>1. fsm'.loaded => fsm'.type \in {"TX", "RT_CONT", "FIN"}
      BY DEF TInv, TFsm
    <3> QED BY <3>1 DEF Syns
  <2> QED BY <2>1, <2>2, <1>1 DEF EventInv
<1>10. StartInv'
  BY <1>2 DEF StartInv
<1>11. WindowInv'
  <2>1. FinOf(sar)' = FinOf(sar) /\ FinOf(sar) \in {0, 1}
    BY Offsets DEF FinOf
  <2>2. Ready' => Ready
    BY <1>7 DEF Ready
  <2>3. ASSUME Ready  PROVE NotedTo <= sent'
    <3>1. NotedTo <= sent
      BY <2>3 DEF Core, WindowInv
    <3> QED BY <3>1, <1>1, <1>2
  <2> QED BY <2>1, <2>2, <2>3, <1>1, <1>2 DEF Core, WindowInv
<1>12. PendingInv'
  <2>1. ASSUME NEW i \in 1 .. Len(sar_req'), NEW j \in 1 .. Len(sar_req'), i < j,
               sar_req'[i].kind = "write", sar_req'[j].kind = "write"
        PROVE  Off(sar_req'[i].not_ackd) <= Off(sar_req'[j].not_ackd)
    <3>1. ASSUME NEW m \in 1 .. Len(sar_req), NEW n \in 1 .. Len(sar_req), m < n,
                 sar_req[m].kind = "write", sar_req[n].kind = "write"
          PROVE  Off(sar_req[m].not_ackd) <= Off(sar_req[n].not_ackd)
      BY <3>1 DEF Core, PendingInv
    <3>2. CASE sar_req' = sar_req
      BY <3>1, <3>2, <2>1
    <3>3. CASE sar_req' # sar_req
      <4>1. PICK q \in Requests :
             /\ Grows(sar_req, sar_req', q)
             /\ q.kind = "write" =>
                  \A m \in 1 .. Len(sar_req) :
                    sar_req[m].kind = "write" => Off(sar_req[m].not_ackd) <= Off(q.not_ackd)
        BY <3>3, <1>4
      <4>2. i \in 1 .. Len(sar_req) /\ sar_req'[i] = sar_req[i]
        BY <4>1, <2>1, <1>3 DEF Grows
      <4>3. CASE j \in 1 .. Len(sar_req)
        <5>1. sar_req'[j] = sar_req[j]
          BY <4>1, <4>3 DEF Grows
        <5> QED BY <5>1, <4>2, <4>3, <3>1, <2>1
      <4>4. CASE j \notin 1 .. Len(sar_req)
        <5>1. sar_req'[j] = q
          BY <4>1, <4>4, <2>1, <1>3 DEF Grows
        <5> QED BY <5>1, <4>1, <4>2, <2>1
      <4> QED BY <4>3, <4>4
    <3> QED BY <3>2, <3>3
  <2>2. \A i \in 1 .. Len(sar_req') : sar_req'[i].kind = "write" => PendingOK(sar_req[i])'
    <3> SUFFICES ASSUME NEW i \in 1 .. Len(sar_req'), sar_req'[i].kind = "write"
                 PROVE  PendingOK(sar_req[i])'
      OBVIOUS
    <3>1. sar_req'[i] \in Requests
      BY In DEF TInv, TSar
    <3>2. PICK q \in Requests : q = sar_req'[i]
      BY <3>1
    <3>3. PendingOK(q)'
      BY <3>2, <1>6
    <3> QED BY <3>2, <3>3 DEF PendingOK
  <2> QED BY <2>1, <2>2 DEF PendingInv
<1>13. FreshInv'
  BY DEF FreshInv
<1>14. RxInv'
  BY <1>1, <1>7 DEF Core, RxInv
<1> QED BY <1>8, <1>9, <1>10, <1>11, <1>12, <1>13, <1>14 DEF Core

\* With the registers cleared there is no burst and nothing to repeat.
LEMMA Done == fsm' = Load => /\ BurstInv' /\ FinInv' /\ RtInv' /\ fsm'.type = "LOAD" /\ ~fsm'.loaded
BY LoadFacts DEF BurstInv, FinInv, RtInv

-----------------------------------------------------------------------------
(* Steps of the rx engine and the application.                               *)

\* Nothing is asked of the table.
LEMMA Idle ==
  ASSUME TInv, Core, sar_req = <<>>
  PROVE  Len(sar_req) = 0 /\ ~InitPending
<1>1. Len(sar_req) = 0
  BY In DEF TInv, TSar
<1> QED BY <1>1 DEF InitPending

LEMMA CoreRxRead == ASSUME NEW a \in Acks, TInv, Core, RxRead(a)  PROVE Core'
<1>1. TInv'
  BY TypeRxRead
<1>2. /\ UNCHANGED <<sar, sar_req, sar_rsp, fsm, sent, written, conn, rtimer, ptimer, events, rcvd>>
      /\ seg' = NoSeg /\ sar_req = <<>>
      /\ rx' = [ack |-> Plus(Isn, a), perv_ack |-> sar.ackd,
                next_byte |-> sar.not_ackd, cong_window |-> sar.cong_window,
                slowstart_threshold |-> sar.slowstart_threshold]
  BY DEF RxRead, timers, world, sar_vars
<1>3. a \in Nat /\ 1 <= a /\ a <= rcvd /\ rcvd <= sent /\ sent \in Nat /\ rcvd \in Nat
  BY Offsets DEF Acks
<1>4. ~InitPending /\ sent >= 1
  BY <1>2, <1>3, Idle
<1>5. AckedTo <= NotedTo /\ sent <= WrittenTo + 1
  BY <1>4, Running
<1>6. a < SeqMod
  BY <1>3, <1>5, Offsets, Sizes
<1>7. Off(Plus(Isn, a)) = a
  BY <1>3, <1>6, OffIsn
<1>8. RxInv'
  <2>1. rx'.ack = Plus(Isn, a) /\ rx'.perv_ack = sar.ackd /\ rx'.next_byte = sar.not_ackd
    BY <1>2
  <2>2. Off(rx'.ack) = a /\ Off(rx'.next_byte) = NotedTo
    BY <2>1, <1>7 DEF NotedTo
  <2>3. AckedTo' = AckedTo /\ NotedTo' = NotedTo /\ (InitPending' <=> InitPending)
    BY <1>2 DEF AckedTo, NotedTo, InitPending
  <2>4. NotedTo \in Nat
    BY Offsets
  <2> QED BY <2>1, <2>2, <2>3, <2>4, <1>2, <1>3, <1>4, <1>5 DEF RxInv
<1>9. SegInv'
  BY <1>2, NoSegmentLegal
<1>10. rcvd' >= rcvd /\ rtimer'.type \in {rtimer.type, "off"} /\ (ptimer' => ptimer)
  BY <1>2, <1>3
<1> QED BY <1>1, <1>2, <1>4, <1>8, <1>9, <1>10, QuietStep

\* An acknowledgement is taken between what was acknowledged before and not_ackd.
LEMMA AckFacts ==
  ASSUME NEW win \in Windows, NEW data \in BOOLEAN, TInv, Core, RxWrite(win, data)
  PROVE  /\ rx \in RxReads /\ sar_req = <<>> /\ sent >= 1 /\ ~InitPending
         /\ rx' = NoRx /\ seg' = NoSeg
         /\ UNCHANGED <<sar_req, sar_rsp, fsm, ptimer, sent, rcvd, written>>
         /\ rtimer'.type \in {rtimer.type, "off"}
         /\ ~InWindow(rx) => UNCHANGED <<sar, conn, events>>
         /\ InWindow(rx) =>
              /\ sar' = [sar EXCEPT !.ackd = rx.ack, !.recv_window = win, !.cong_window = CongGrown(rx)]
              /\ Onward
              /\ AckedTo <= Off(rx.ack) /\ Off(rx.ack) <= NotedTo /\ 1 <= Off(rx.ack)
              /\ Off(rx.ack) \in Nat
              /\ AckedTo + sar.recv_window <= Off(rx.ack) + win
              /\ \/ events' = events
                 \/ \E e \in Events : /\ Grows(events, events', e) /\ EventOK(e, conn')
                                      /\ ~(e.type \in Syns /\ e.cnt = 0)
<1>1. rx # NoRx /\ sar_req = <<>> /\ rx' = NoRx /\ seg' = NoSeg
      /\ UNCHANGED <<sar_req, sar_rsp, fsm, ptimer, sent, rcvd, written>> /\ KeepsGrant(win)
  BY DEF RxWrite
<1>2. rx \in RxReads
  BY <1>1 DEF TInv, TRest
<1>3. sent >= 1
  <2>1. sent # 0
    BY <1>1 DEF Core, StartInv
  <2> QED BY <2>1, Offsets
<1>4. rx.perv_ack = sar.ackd /\ AckedTo <= Off(rx.next_byte) /\ Off(rx.next_byte) <= NotedTo
      /\ 1 <= Off(rx.ack)
  BY <1>1 DEF Core, RxInv
<1>5. rtimer'.type \in {rtimer.type, "off"}
  BY StopType DEF RxWrite
<1>6. ~InWindow(rx) => UNCHANGED <<sar, conn, events>>
  BY DEF RxWrite
<1>7. ASSUME InWindow(rx)
      PROVE  /\ sar' = [sar EXCEPT !.ackd = rx.ack, !.recv_window = win, !.cong_window = CongGrown(rx)]
             /\ Onward
             /\ AckedTo <= Off(rx.ack) /\ Off(rx.ack) <= NotedTo /\ Off(rx.ack) \in Nat
             /\ AckedTo + sar.recv_window <= Off(rx.ack) + win
             /\ \/ events' = events
                \/ \E e \in Events : /\ Grows(events, events', e) /\ EventOK(e, conn')
                                     /\ ~(e.type \in Syns /\ e.cnt = 0)
  <2>1. /\ sar' = [sar EXCEPT !.ackd = rx.ack, !.recv_window = win, !.cong_window = CongGrown(rx)]
        /\ conn' = AckedConn
        /\ data => conn = "OPEN"
        /\ IF data
           THEN /\ Room(events)
                /\ \E e \in {"ACK"} \cup (IF OldAck(rx) THEN {"RT"} ELSE {}) :
                     events' = Append(events, Ev(e, 0))
           ELSE UNCHANGED events
    BY <1>7 DEF RxWrite
  <2>2. Onward /\ (conn = "OPEN" => conn' = "OPEN")
    BY <2>1 DEF AckedConn, Onward, Ended
  <2>3. PICK a \in Nat, n \in Nat : a = Off(rx.ack) /\ n = Off(rx.next_byte)
    BY <1>2, RecordKinds, OffFacts
  <2>4. AckedTo <= a /\ a <= n
    <3>1. Off(rx.perv_ack) = AckedTo
      BY <1>4 DEF AckedTo
    <3> QED BY <3>1, <2>3, <1>2, <1>4, <1>7, InWindowOff
  <2>5. AckedTo \in Nat /\ NotedTo \in Nat /\ sar.recv_window \in Nat /\ win \in Nat
    BY Offsets, WindowInts
  <2>6. a <= NotedTo
    BY <2>3, <2>4, <2>5, <1>4
  <2>7. AckedTo + sar.recv_window <= a + win
    <3>1. a < AckedTo \/ a + win >= AckedTo + sar.recv_window
      BY <1>1, <2>3 DEF KeepsGrant, AckedTo
    <3> QED BY <3>1, <2>4, <2>5, <2>3
  <2>8. \/ events' = events
        \/ \E e \in Events : /\ Grows(events, events', e) /\ EventOK(e, conn')
                             /\ ~(e.type \in Syns /\ e.cnt = 0)
    <3>1. CASE ~data
      BY <2>1, <3>1
    <3>2. CASE data
      <4>1. PICK t \in {"ACK", "RT"} : events' = Append(events, Ev(t, 0))
        BY <2>1, <3>2
      <4>2. t \in EventTypes /\ 0 \in 0 .. 2 /\ Room(events) /\ conn' = "OPEN"
        BY <4>1, <2>1, <2>2, <3>2 DEF EventTypes
      <4>3. Grows(events, events', Ev(t, 0)) /\ Ev(t, 0) \in Events /\ Ev(t, 0).type = t
        BY <4>1, <4>2, EventSet, RecordKinds
      <4>4. EventOK(Ev(t, 0), conn') /\ Ev(t, 0).type \notin Syns
        BY <4>1, <4>2, <4>3 DEF EventOK, Syns
      <4> QED BY <4>3, <4>4
    <3> QED BY <3>1, <3>2
  <2> QED BY <2>1, <2>2, <2>3, <2>4, <2>6, <2>7, <2>8
<1>8. ~InitPending
  BY <1>1, Idle
<1> QED BY <1>1, <1>2, <1>3, <1>4, <1>5, <1>6, <1>7, <1>8

\* An acknowledgement in the window is written to the entry.
LEMMA AckTaken ==
  ASSUME NEW win \in Windows, NEW c, TInv, TInv', Core,
         sent >= 1, ~InitPending, sar_req = <<>>, rx' = NoRx, seg' = NoSeg,
         UNCHANGED <<sar_req, sar_rsp, fsm, ptimer, sent, rcvd, written>>,
         rtimer'.type \in {rtimer.type, "off"},
         sar' = [sar EXCEPT !.ackd = rx.ack, !.recv_window = win, !.cong_window = c],
         Onward,
         AckedTo <= Off(rx.ack), Off(rx.ack) <= NotedTo, 1 <= Off(rx.ack), Off(rx.ack) \in Nat,
         AckedTo + sar.recv_window <= Off(rx.ack) + win,
         \/ events' = events
         \/ \E e \in Events : /\ Grows(events, events', e) /\ EventOK(e, conn')
                              /\ ~(e.type \in Syns /\ e.cnt = 0)
  PROVE  Core'
<1>1. /\ sar' = [sar EXCEPT !.ackd = rx.ack, !.recv_window = win, !.cong_window = c]
      /\ Onward
      /\ AckedTo <= Off(rx.ack) /\ Off(rx.ack) <= NotedTo /\ 1 <= Off(rx.ack)
      /\ Off(rx.ack) \in Nat
      /\ AckedTo + sar.recv_window <= Off(rx.ack) + win
      /\ \/ events' = events
         \/ \E e \in Events : /\ Grows(events, events', e) /\ EventOK(e, conn')
                              /\ ~(e.type \in Syns /\ e.cnt = 0)
  OBVIOUS
<1>15. RxInv' /\ SegInv'
  BY NoSegmentLegal DEF RxInv
<1>16. conn \in Ended => conn' \in Ended
  BY DEF Onward, Ended
<1>2. sar'.ackd = rx.ack /\ sar'.not_ackd = sar.not_ackd /\ sar'.app_written = sar.app_written
      /\ sar'.recv_window = win /\ sar'.fin_is_ready = sar.fin_is_ready
      /\ sar'.fin_is_sent = sar.fin_is_sent
  <2>1. sar \in Entry
    BY DEF TInv, TSar
  <2> QED BY <1>1, <2>1 DEF Entry
<1>3. /\ AckedTo' = Off(rx.ack) /\ NotedTo' = NotedTo /\ WrittenTo' = WrittenTo
      /\ (Waiting' <=> Waiting) /\ ~InitPending' /\ Len(sar_req) = 0 /\ FinOf(sar)' = FinOf(sar)
      /\ (Opening' => Opening)
  BY <1>1, <1>2, Idle DEF AckedTo, NotedTo, WrittenTo, Waiting, InitPending, FinOf, Opening, Onward,
                                Ended
<1>4. /\ AckedTo \in Nat /\ NotedTo \in Nat /\ WrittenTo \in Nat /\ win \in Nat
      /\ AckedTo <= AckedTo' /\ AckedTo' <= NotedTo /\ 1 <= AckedTo'
      /\ AckedTo + sar.recv_window <= AckedTo' + sar'.recv_window
      /\ AckedTo' \in Nat /\ sar.recv_window \in Nat /\ FinOf(sar) \in {0, 1}
  BY <1>1, <1>2, <1>3, Offsets, WindowInts
<1>5. QueueInv'
  BY <1>3 DEF Core, QueueInv
<1>6. EventInv'
  <2>1. Onward /\ EventInv
    BY DEF Core
  <2> QED BY <2>1, <1>1, EventsGrow
<1>7. StartInv'
  BY Offsets DEF StartInv
<1>8. WindowInv'
  <2>1. /\ AckedTo <= NotedTo /\ 1 <= NotedTo /\ NotedTo <= sent /\ sent <= WrittenTo + 1
        /\ NotedTo <= WrittenTo + FinOf(sar) /\ (sar.fin_is_sent => NotedTo = WrittenTo + 1)
        /\ WrittenTo - AckedTo <= BufMod - 1 /\ sar.app_written = Low(Isn + WrittenTo)
        /\ sar.fin_is_ready \/ sar.fin_is_sent => conn \in Ended
    BY Running
  <2>2. WrittenTo - AckedTo' <= BufMod - 1
    <3>1. PICK a \in Nat, w \in Nat, b \in Nat : a = AckedTo /\ w = WrittenTo /\ b = AckedTo'
      BY <1>4
    <3>2. w - a <= BufMod - 1 /\ a <= b
      BY <3>1, <2>1, <1>4
    <3>3. w - b <= BufMod - 1
      BY <3>2, Sizes
    <3> QED BY <3>1, <3>3
  <2>3. sar'.fin_is_ready \/ sar'.fin_is_sent => conn' \in Ended
    BY <2>1, <1>2, <1>16
  <2>4. Opening' => written' = 0
    BY <1>3 DEF Core, WindowInv
  <2> QED BY <2>1, <2>2, <2>3, <2>4, <1>2, <1>3, <1>4 DEF WindowInv
<1>9. PendingInv'
  BY <1>3 DEF PendingInv
<1>10. ASSUME NEW r \in Answers, WindowOf(r)  PROVE WindowOf(r)'
  <2>1. PICK a \in Nat, m \in Nat : a = Off(r.ackd) /\ m = r.min_window
    BY RecordKinds, OffFacts, Ints
  <2>2. a <= AckedTo /\ a + m <= AckedTo + sar.recv_window /\ (r.fin_is_ready => conn \in Ended)
    BY <1>10, <2>1 DEF WindowOf
  <2>3. a <= AckedTo' /\ a + m <= AckedTo' + sar'.recv_window
    BY <2>2, <1>2, <1>4
  <2>4. r.fin_is_ready => conn' \in Ended
    BY <2>2, <1>16
  <2> QED BY <2>1, <2>3, <2>4 DEF WindowOf
<1>11. FreshInv'
  <2> SUFFICES ASSUME sar_rsp # <<>>  PROVE Fresh(sar_rsp[1])'
    BY DEF FreshInv
  <2>1. PICK r \in Answers : r = sar_rsp[1]
    BY Rd DEF TInv, TSar
  <2>2. Fresh(r)
    BY <2>1 DEF Core, FreshInv
  <2>3. Same(r)' /\ WindowOf(r)' /\ (Again(r) => Again(r)')
    BY <2>2, <1>2, <1>3, <1>10 DEF Fresh, Same, Again, FinOf
  <2>4. Fresh(r)'
    BY <2>2, <2>3, <1>3 DEF Fresh, Budget, Unsent
  <2> QED BY <2>1, <2>4
<1>12. BurstInv'
  <2> SUFFICES ASSUME fsm.type = "TX", fsm.loaded  PROVE Burst(fsm.rsp)'
    BY DEF BurstInv
  <2>1. PICK r \in Answers : r = fsm.rsp
    BY DEF TInv, TFsm
  <2>2. Burst(r)
    BY <2>1 DEF Core, BurstInv
  <2>3. WindowOf(r)'
    BY <2>2, <1>10 DEF Burst
  <2>4. Burst(r)'
    BY <2>2, <2>3, <1>2, <1>3 DEF Burst, Budget, Unsent
  <2> QED BY <2>1, <2>4
<1>13. FinInv'
  BY <1>1, <1>16, <1>2, <1>3 DEF Core, FinInv, Closing
<1>14. RtInv'
  BY <1>2, <1>3 DEF Core, RtInv, Same, Again, FinOf
<1> QED BY <1>15, <1>5, <1>6, <1>7, <1>8, <1>9, <1>11, <1>12, <1>13, <1>14 DEF Core

LEMMA CoreRxWrite ==
  ASSUME NEW win \in Windows, NEW data \in BOOLEAN, TInv, Core, RxWrite(win, data)  PROVE Core'
<1>1. TInv'
  BY TypeRxWrite
<1>2. /\ rx \in RxReads /\ sar_req = <<>> /\ sent >= 1 /\ ~InitPending
      /\ rx' = NoRx /\ seg' = NoSeg
      /\ UNCHANGED <<sar_req, sar_rsp, fsm, ptimer, sent, rcvd, written>>
      /\ rtimer'.type \in {rtimer.type, "off"}
      /\ ~InWindow(rx) => UNCHANGED <<sar, conn, events>>
  BY AckFacts
<1>3. RxInv' /\ SegInv'
  BY <1>2, NoSegmentLegal DEF RxInv
<1>4. CASE ~InWindow(rx)
  <2>1. rcvd' >= rcvd
    BY <1>2, Offsets
  <2> QED BY <2>1, <1>1, <1>2, <1>3, <1>4, QuietStep
<1>5. CASE InWindow(rx)
  <2>1. /\ sar' = [sar EXCEPT !.ackd = rx.ack, !.recv_window = win, !.cong_window = CongGrown(rx)]
        /\ Onward
        /\ AckedTo <= Off(rx.ack) /\ Off(rx.ack) <= NotedTo /\ 1 <= Off(rx.ack)
        /\ Off(rx.ack) \in Nat
        /\ AckedTo + sar.recv_window <= Off(rx.ack) + win
        /\ \/ events' = events
           \/ \E e \in Events : /\ Grows(events, events', e) /\ EventOK(e, conn')
                                /\ ~(e.type \in Syns /\ e.cnt = 0)
    BY <1>5, AckFacts
  <2> QED BY <2>1, <1>1, <1>2, AckTaken
<1> QED BY <1>4, <1>5

\* The peer's FIN writes ackd without a look at the window; on the rails it is inside.
LEMMA FinFacts ==
  ASSUME NEW win \in Windows, TInv, Core, Healthy, deviation' # "unchecked_ack", RxFinTaken(win)
  PROVE  /\ sent >= 1 /\ ~InitPending /\ sar_req = <<>> /\ rx' = NoRx /\ seg' = NoSeg
         /\ UNCHANGED <<sar_req, sar_rsp, fsm, ptimer, sent, rcvd, written>>
         /\ rtimer'.type \in {rtimer.type, "off"}
         /\ sar' = [sar EXCEPT !.ackd = rx.ack, !.recv_window = win, !.cong_window = rx.cong_window]
         /\ Onward
         /\ AckedTo <= Off(rx.ack) /\ Off(rx.ack) <= NotedTo /\ 1 <= Off(rx.ack)
         /\ Off(rx.ack) \in Nat
         /\ AckedTo + sar.recv_window <= Off(rx.ack) + win
         /\ \E e \in Events : /\ Grows(events, events', e) /\ EventOK(e, conn')
                              /\ ~(e.type \in Syns /\ e.cnt = 0)
<1>1. /\ rx # NoRx /\ sar_req = <<>> /\ rx' = NoRx /\ seg' = NoSeg /\ conn \in {"OPEN", "CLOSING"}
      /\ UNCHANGED <<sar_req, sar_rsp, fsm, ptimer, sent, rcvd, written>> /\ KeepsGrant(win)
      /\ sar' = [sar EXCEPT !.ackd = rx.ack, !.recv_window = win, !.cong_window = rx.cong_window]
      /\ conn' = FinConn /\ StopTimer /\ Room(events)
      /\ events' = Append(events, Ev(IF conn = "OPEN" THEN "FIN" ELSE "ACK", 0))
  BY DEF RxFinTaken
<1>2. ~OutOfWindow
  BY DEF RxFinTaken
<1>3. Onward /\ conn' \in Ended
  BY <1>1 DEF FinConn, Onward, Ended
<1>4. rx \in RxReads /\ 1 <= Off(rx.ack)
  BY <1>1 DEF TInv, TRest, Core, RxInv
<1>5. PICK a \in Nat : a = Off(rx.ack)
  BY <1>4, RecordKinds, OffFacts
<1>6. AckedTo \in Nat /\ NotedTo \in Nat /\ sar.recv_window \in Nat /\ win \in Nat
  BY Offsets, WindowInts
<1>7. AckedTo <= a /\ a <= NotedTo
  BY <1>2, <1>5, <1>6 DEF OutOfWindow, AckedTo, NotedTo
<1>8. AckedTo + sar.recv_window <= a + win
  <2>1. a < AckedTo \/ a + win >= AckedTo + sar.recv_window
    BY <1>1, <1>5 DEF KeepsGrant, AckedTo
  <2> QED BY <2>1, <1>5, <1>6, <1>7
<1>9. sent >= 1 /\ ~InitPending
  BY <1>1, IsOpen DEF Opening
<1>10. \E e \in Events : /\ Grows(events, events', e) /\ EventOK(e, conn')
                         /\ ~(e.type \in Syns /\ e.cnt = 0)
  <2>1. PICK t \in {"FIN", "ACK"} : events' = Append(events, Ev(t, 0))
    BY <1>1
  <2>2. t \in EventTypes /\ 0 \in 0 .. 2
    BY DEF EventTypes
  <2>3. Grows(events, events', Ev(t, 0)) /\ Ev(t, 0) \in Events /\ Ev(t, 0).type = t /\ Ev(t, 0).cnt = 0
    BY <2>1, <2>2, <1>1, EventSet, RecordKinds DEF Ev
  <2>4. EventOK(Ev(t, 0), conn') /\ t \notin Syns
    BY <2>3, <1>3 DEF EventOK, Ended, Syns
  <2> QED BY <2>3, <2>4
<1>11. rtimer'.type \in {rtimer.type, "off"}
  BY <1>1, StopType
<1> QED BY <1>1, <1>3, <1>4, <1>5, <1>7, <1>8, <1>9, <1>10, <1>11

LEMMA CoreRxFin ==
  ASSUME TInv, Core, Healthy, Healthy', RxFinRefused \/ \E win \in Windows : RxFinTaken(win)
  PROVE  Core'
<1>1. TInv'
  BY TypeRxFin
<1>2. ASSUME NEW win \in Windows, RxFinTaken(win)  PROVE Core'
  <2>1. deviation' # "unchecked_ack"
    BY DEF Healthy
  <2>2. PICK c : c = rx.cong_window
    OBVIOUS
  <2>3. /\ sent >= 1 /\ ~InitPending /\ sar_req = <<>> /\ rx' = NoRx /\ seg' = NoSeg
        /\ UNCHANGED <<sar_req, sar_rsp, fsm, ptimer, sent, rcvd, written>>
        /\ rtimer'.type \in {rtimer.type, "off"}
        /\ sar' = [sar EXCEPT !.ackd = rx.ack, !.recv_window = win, !.cong_window = c]
        /\ Onward
        /\ AckedTo <= Off(rx.ack) /\ Off(rx.ack) <= NotedTo /\ 1 <= Off(rx.ack)
        /\ Off(rx.ack) \in Nat
        /\ AckedTo + sar.recv_window <= Off(rx.ack) + win
        /\ \E e \in Events : /\ Grows(events, events', e) /\ EventOK(e, conn')
                             /\ ~(e.type \in Syns /\ e.cnt = 0)
    BY <2>1, <2>2, <1>2, FinFacts
  <2> QED BY <2>3, <1>1, AckTaken
<1>3. CASE RxFinRefused
  <2>1. /\ rx # NoRx /\ sar_req = <<>> /\ rx' = NoRx /\ seg' = NoSeg /\ StopTimer /\ Room(events)
        /\ UNCHANGED <<sar, sar_req, sar_rsp, fsm, ptimer, sent, rcvd, written, conn>>
        /\ events' = Append(events, Ev("ACK", 0))
    BY <1>3 DEF RxFinRefused, sar_vars, world
  <2>2. Grows(events, events', Ev("ACK", 0)) /\ Ev("ACK", 0) \in Events
    BY <2>1, EventSet, RecordKinds DEF EventTypes
  <2>3. EventOK(Ev("ACK", 0), conn') /\ Ev("ACK", 0).type \notin Syns
    BY DEF EventOK, Ev, Syns
  <2>4. rtimer'.type \in {rtimer.type, "off"} /\ rcvd' >= rcvd
    BY <2>1, StopType, Offsets
  <2>5. SegInv' /\ RxInv'
    BY <2>1, NoSegmentLegal DEF RxInv
  <2>6. sent >= 1
    <3>1. sent # 0
      BY <2>1 DEF Core, StartInv
    <3> QED BY <3>1, Offsets
  <2> QED BY <2>1, <2>2, <2>3, <2>4, <2>5, <2>6, <1>1, QuietStep
<1> QED BY <1>2, <1>3

LEMMA CoreAppWrite == ASSUME NEW n \in Writes, TInv, Core, AppWrite(n)  PROVE Core'
<1>1. TInv'
  BY TypeAppWrite
<1>2. /\ conn = "OPEN" /\ n <= SpaceLeft /\ sar_req = <<>> /\ Room(events)
      /\ sar' = [sar EXCEPT !.app_written = Low(@ + n)] /\ written' = written + n
      /\ events' = Append(events, Ev("TX", 0)) /\ seg' = NoSeg
      /\ UNCHANGED <<sar_req, sar_rsp, fsm, rx, rtimer, ptimer, sent, rcvd, conn>>
  BY DEF AppWrite, timers
<1>3. sar'.ackd = sar.ackd /\ sar'.not_ackd = sar.not_ackd /\ sar'.app_written = Low(sar.app_written + n)
      /\ sar'.recv_window = sar.recv_window /\ sar'.fin_is_ready = sar.fin_is_ready
      /\ sar'.fin_is_sent = sar.fin_is_sent /\ sar \in Entry
  <2>1. sar \in Entry
    BY DEF TInv, TSar
  <2> QED BY <1>2, <2>1 DEF Entry
<1>4. ~Opening /\ sent >= 1 /\ ~InitPending /\ Len(sar_req) = 0
  BY <1>2, Idle, IsOpen DEF Opening
<1>5. n \in Nat /\ n \in Int
  BY WindowsAssumption, Sizes
<1>6. /\ AckedTo' = AckedTo /\ NotedTo' = NotedTo /\ WrittenTo' = WrittenTo + n
      /\ (Waiting' <=> Waiting) /\ (InitPending' <=> InitPending) /\ FinOf(sar)' = FinOf(sar)
      /\ (Opening' <=> Opening)
  <2>1. written \in Int
    BY Offsets
  <2>2. WrittenTo' = WrittenTo + n
    BY <2>1, <1>2, <1>5 DEF WrittenTo
  <2> QED BY <2>2, <1>2, <1>3 DEF AckedTo, NotedTo, Waiting, InitPending, FinOf, Opening
<1>7. /\ AckedTo \in Nat /\ NotedTo \in Nat /\ WrittenTo \in Nat /\ FinOf(sar) \in {0, 1} /\ sent \in Nat
      /\ AckedTo <= NotedTo /\ 1 <= NotedTo /\ NotedTo <= sent /\ sent <= WrittenTo + 1
      /\ WrittenTo - AckedTo <= BufMod - 1 /\ sar.app_written = Low(Isn + WrittenTo)
      /\ ~sar.fin_is_ready /\ ~sar.fin_is_sent /\ NotedTo <= WrittenTo
  <2>1. ~sar.fin_is_ready /\ ~sar.fin_is_sent /\ NotedTo <= WrittenTo + FinOf(sar)
    BY <1>2, <1>4, Running DEF Ended
  <2>2. FinOf(sar) = 0
    BY <2>1 DEF FinOf
  <2>3. NotedTo <= WrittenTo
    BY <2>1, <2>2, Offsets
  <2> QED BY <2>1, <2>3, <1>4, Running, Offsets
<1>8. WrittenTo + n - AckedTo <= BufMod - 1
  <2>1. SpaceLeft = Low(AckedTo - WrittenTo - 1)
    <3>0. Isn + AckedTo \in Int /\ Isn + WrittenTo \in Int
          /\ sar.ackd \in Seqs /\ sar.app_written \in Int
      <4>1. sar.ackd \in Seqs /\ sar.app_written \in Int
        BY <1>3, RecordKinds, Ints
      <4> QED BY <4>1, <1>7, Sizes
    <3>1. PICK a \in Int, w \in Int, x \in Seqs, y \in Int :
            a = Isn + AckedTo /\ w = Isn + WrittenTo /\ x = sar.ackd /\ y = sar.app_written
      BY <3>0
    <3>2. Low(x) = Low(a) /\ y = Low(w) /\ x \in Int /\ Low(a) \in Int /\ Low(w) \in Int
      BY <3>1, <1>7, LowOff, LowRange, Ints DEF AckedTo
    <3>3. PICK z \in Int : z = Low(w) + 1
      BY <3>2
    <3>4. Low(x - z) = Low(Low(x) - z)
      BY <3>2, LowDiff
    <3>5. Low(Low(a) - z) = Low(a - z)
      BY LowDiff
    <3>6. a - z = (a - 1) - Low(w) /\ a - 1 \in Int
      BY <3>3, <3>2
    <3>7. Low((a - 1) - Low(w)) = Low((a - 1) - w)
      BY <3>6, ModAdd, Sizes DEF Low
    <3>8. (a - 1) - w = AckedTo - WrittenTo - 1
      BY <3>1, <1>7, Sizes
    <3>9. x - z = sar.ackd - sar.app_written - 1
      BY <3>1, <3>2, <3>3
    <3> QED BY <3>2, <3>4, <3>5, <3>6, <3>7, <3>8, <3>9 DEF SpaceLeft
  <2>2. PICK d \in Int : d = AckedTo - WrittenTo - 1
    BY <1>7
  <2>3. -BufMod <= d /\ d < 0
    BY <2>2, <1>7, Sizes
  <2>4. Low(d) = d + BufMod
    BY <2>3, ModSmall, Sizes DEF Low
  <2>5. n <= d + BufMod
    BY <2>1, <2>2, <2>4, <1>2
  <2> QED BY <2>2, <2>5, <1>5, <1>7, Sizes
<1>9. sar'.app_written = Low(Isn + WrittenTo')
  <2>1. PICK w \in Int : w = Isn + WrittenTo
    BY <1>7, Sizes
  <2>2. Low(Low(w) + n) = Low(w + n)
    BY <1>5, LowAdd
  <2>3. w + n = Isn + WrittenTo'
    BY <2>1, <1>5, <1>6, <1>7, Sizes
  <2> QED BY <2>1, <2>2, <2>3, <1>3, <1>7
<1>10. QueueInv'
  BY <1>2, <1>4, <1>6 DEF Core, QueueInv
<1>11. EventInv'
  <2>1. "TX" \in EventTypes /\ 0 \in 0 .. 2
    BY DEF EventTypes
  <2>2. Grows(events, events', Ev("TX", 0)) /\ Ev("TX", 0) \in Events /\ Ev("TX", 0).type = "TX"
        /\ Ev("TX", 0).cnt = 0
    BY <2>1, <1>2, EventSet, RecordKinds
  <2>3. EventOK(Ev("TX", 0), conn') /\ Ev("TX", 0).type \notin Syns
    BY <2>2, <1>2 DEF EventOK, Syns
  <2>4. Onward /\ EventInv /\ rtimer'.type \in {rtimer.type, "off"} /\ (ptimer' => ptimer)
    BY <1>2 DEF Onward, Core
  <2> QED BY <2>2, <2>3, <2>4, <1>2, EventsGrow
<1>12. StartInv'
  BY <1>2, <1>4, Offsets DEF StartInv
<1>13. WindowInv'
  <2>1. AckedTo >= 1
    BY <1>4, IsOpen
  <2>2. NotedTo <= WrittenTo' + FinOf(sar)' /\ sent' <= WrittenTo' + 1 /\ NotedTo <= sent'
    BY <1>2, <1>5, <1>6, <1>7
  <2>3. WrittenTo' - AckedTo <= BufMod - 1
    BY <1>5, <1>6, <1>7, <1>8, Sizes
  <2> QED BY <2>1, <2>2, <2>3, <1>2, <1>3, <1>4, <1>6, <1>7, <1>9 DEF WindowInv
<1>14. PendingInv'
  BY <1>4, <1>2 DEF PendingInv
<1>15. ASSUME NEW r \in Answers, WindowOf(r)  PROVE WindowOf(r)'
  BY <1>15, <1>2, <1>3, <1>6 DEF WindowOf
<1>16. ASSUME NEW r \in Answers, NEW k \in Lens, Unsent(r, k), ~r.fin_is_ready  PROVE Unsent(r, k)'
  <2>0. Off(r.not_ackd) \in Nat /\ k \in Nat
    BY RecordKinds, OffFacts, Ints
  <2>1. PICK m \in Nat : m = Off(r.not_ackd) + k
    BY <2>0
  <2>2. m <= WrittenTo'
    BY <2>1, <1>16, <1>5, <1>6, <1>7 DEF Unsent
  <2> QED BY <2>1, <2>2, <1>16 DEF Unsent
<1>17. FreshInv'
  <2> SUFFICES ASSUME sar_rsp # <<>>  PROVE Fresh(sar_rsp[1])'
    BY <1>2 DEF FreshInv
  <2>1. PICK r \in Answers : r = sar_rsp[1]
    BY Rd DEF TInv, TSar
  <2>2. Fresh(r)
    BY <2>1, <1>4 DEF Core, FreshInv
  <2>3. ~r.fin_is_ready /\ ~r.fin_is_sent
    BY <2>2, <1>2, <1>7 DEF Fresh, WindowOf, Same, Ended
  <2>4. Waiting
    BY DEF Core, QueueInv
  <2>5. fsm.type # "FIN"
    <3>1. fsm.type # "LOAD" /\ ~fsm.loaded
      BY <2>4 DEF Waiting, AsksSar
    <3>2. EventOK(fsm, conn)
      BY <3>1 DEF Core, EventInv
    <3> QED BY <3>2, <1>2 DEF EventOK, Ended
  <2>6. Same(r)'
    BY <2>2, <2>3, <1>3 DEF Fresh, Same
  <2>7. WindowOf(r)'
    BY <2>2, <1>15 DEF Fresh
  <2>8. Unsent(r, r.curr_length)'
    BY <2>2, <2>3, <1>16, RecordKinds DEF Fresh
  <2>9. Again(r) => Again(r)'
    BY <1>6 DEF Again
  <2>10. Fresh(r)'
    BY <2>2, <2>3, <2>5, <2>6, <2>7, <2>8, <2>9, <1>2 DEF Fresh, Budget
  <2> QED BY <2>1, <2>10, <1>2
<1>18. BurstInv'
  <2> SUFFICES ASSUME fsm.type = "TX", fsm.loaded  PROVE Burst(fsm.rsp)'
    BY <1>2 DEF BurstInv
  <2>1. PICK r \in Answers, k \in Lens : r = fsm.rsp /\ k = fsm.curr
    BY LoadFacts DEF TInv, TFsm
  <2>2. Burst(r)
    BY <2>1 DEF Core, BurstInv
  <2>3. ~r.fin_is_ready
    BY <2>2, <1>2 DEF Burst, WindowOf, Ended
  <2>4. WindowOf(r)' /\ Unsent(r, k)'
    BY <2>1, <2>2, <2>3, <1>15, <1>16 DEF Burst
  <2>5. Burst(r)'
    BY <2>1, <2>2, <2>4, <1>2, <1>3, <1>6 DEF Burst, Budget
  <2> QED BY <2>1, <2>5, <1>2
<1>19. FinInv'
  <2>1. ~(fsm.type = "FIN" /\ fsm.loaded)
    BY <1>2 DEF Core, FinInv, Closing, Ended
  <2> QED BY <2>1, <1>2 DEF FinInv
<1>20. RtInv'
  <2>1. fsm.type = "RT_CONT" => ~fsm.rsp.fin_is_sent
    BY <1>7 DEF Core, RtInv, Same
  <2> QED BY <2>1, <1>2, <1>3, <1>6 DEF Core, RtInv, Same, Again
<1>21. RxInv'
  BY <1>2, <1>3, <1>6 DEF Core, RxInv
<1>22. SegInv'
  BY <1>2, NoSegmentLegal
<1> QED BY <1>10, <1>11, <1>12, <1>13, <1>14, <1>17, <1>18, <1>19, <1>20, <1>21, <1>22 DEF Core

-----------------------------------------------------------------------------
(* Steps of the table and LOAD.                                              *)

\* The lengths of an answer are the distances of the offsets.
LEMMA AnswerLengths ==
  ASSUME NEW e \in Entry, NEW a \in Nat, NEW n \in Nat, NEW w \in Nat,
         a = Off(e.ackd), n = Off(e.not_ackd), e.app_written = Low(Isn + w),
         a <= n, n <= w + 1, w - a <= BufMod - 1
  PROVE  /\ n <= w => UsedLength(e) = n - a /\ CurrLength(e) = w - n
         /\ n - a < BufMod => UsedLength(e) = n - a
         /\ n = w + 1 /\ a <= w => Low(UsedLength(e) - 1) = w - a
<1>1. Isn + a \in Int /\ Isn + n \in Int /\ Isn + w \in Int /\ e.ackd \in Int
      /\ e.ackd \in Seqs /\ e.not_ackd \in Seqs /\ BufMod \in Nat
  <2>1. e.ackd \in Seqs /\ e.not_ackd \in Seqs
    BY RecordKinds
  <2>2. e.ackd \in Int
    BY <2>1, Ints
  <2>3. Isn + a \in Int /\ Isn + n \in Int /\ Isn + w \in Int /\ BufMod \in Nat
    BY Sizes
  <2> QED BY <2>1, <2>2, <2>3
<1>2. Low(e.ackd) = Low(Isn + a) /\ Low(e.not_ackd) = Low(Isn + n)
  BY <1>1, LowOff
<1>3. PICK u \in Int, v \in Int, z \in Int : u = Isn + n /\ v = Isn + a /\ z = Isn + w
  BY <1>1
<1>4. u - v = n - a /\ z - u = w - n /\ Low(u) \in Int /\ Low(v) \in Int /\ n - a \in Int /\ w - n \in Int
  BY <1>3, Sizes, LowRange
<1>5. UsedLength(e) = Low(n - a)
  <2>1. Low(Low(u) - e.ackd) = Low(Low(u) - Low(e.ackd))
    <3>1. PICK x \in Int, y \in Int : x = e.ackd /\ y = Low(u)
      BY <1>1, <1>4
    <3>2. (y - (x % BufMod)) % BufMod = (y - x) % BufMod
      BY ModAdd, Sizes
    <3> QED BY <3>1, <3>2 DEF Low
  <2>2. Low(Low(u) - Low(v)) = Low(u - v)
    BY LowDiff
  <2> QED BY <2>1, <2>2, <1>2, <1>3, <1>4 DEF UsedLength
<1>6. CurrLength(e) = Low(w - n)
  <2>1. Low(Low(z) - Low(u)) = Low(z - u)
    BY LowDiff
  <2> QED BY <2>1, <1>2, <1>3, <1>4 DEF CurrLength
<1>7. n - a < BufMod => UsedLength(e) = n - a
  <2>1. 0 <= n - a
    OBVIOUS
  <2> QED BY <2>1, <1>4, <1>5, ModSmall, Sizes DEF Low
<1>8. n <= w => n - a < BufMod /\ CurrLength(e) = w - n
  <2> SUFFICES ASSUME n <= w  PROVE n - a < BufMod /\ CurrLength(e) = w - n
    OBVIOUS
  <2>1. n - a < BufMod /\ 0 <= w - n /\ w - n < BufMod
    BY <1>1
  <2> QED BY <2>1, <1>4, <1>6, ModSmall, Sizes DEF Low
<1>9. ASSUME n = w + 1, a <= w  PROVE Low(UsedLength(e) - 1) = w - a
  <2>1. PICK d \in Int : d = n - a
    BY <1>4
  <2>2. Low(Low(d) + (-1)) = Low(d + (-1))
    <3>1. -1 \in Int
      OBVIOUS
    <3> QED BY <3>1, LowAdd
  <2>3. d + (-1) = w - a /\ 0 <= w - a /\ w - a < BufMod /\ w - a \in Int
    BY <2>1, <1>9, <1>1
  <2>4. Low(w - a) = w - a
    BY <2>3, ModSmall, Sizes DEF Low
  <2>5. Low(d) + (-1) = Low(d) - 1
    BY LowRange
  <2> QED BY <2>1, <2>2, <2>3, <2>4, <2>5, <1>5
<1> QED BY <1>7, <1>8, <1>9

\* The answer the table gives is fresh.
LEMMA AnswerFresh ==
  ASSUME TInv, Core, sent >= 1, ~InitPending, fsm.type = "RT" => ~Opening
  PROVE  Fresh(TxSarToTxEngRsp(sar))
<1>1. sar \in Entry
  BY DEF TInv, TSar
<1>2. PICK a \in Nat, n \in Nat, w \in Nat : a = AckedTo /\ n = NotedTo /\ w = WrittenTo
  BY Offsets
<1>3. /\ a = Off(sar.ackd) /\ n = Off(sar.not_ackd) /\ w + BufMod + 1 < SeqMod
  BY <1>2, Offsets DEF AckedTo, NotedTo
<1>4. /\ a <= n /\ 1 <= n /\ n <= w + FinOf(sar) /\ (sar.fin_is_sent => n = w + 1)
      /\ w - a <= BufMod - 1 /\ sar.app_written = Low(Isn + w)
      /\ sar.fin_is_ready \/ sar.fin_is_sent => conn \in Ended
  BY <1>2, Running
<1>5. (~sar.fin_is_sent => n <= w) /\ n <= w + 1
  BY <1>4 DEF FinOf
<1>6. /\ n <= w => UsedLength(sar) = n - a /\ CurrLength(sar) = w - n
      /\ n - a < BufMod => UsedLength(sar) = n - a
      /\ n = w + 1 /\ a <= w => Low(UsedLength(sar) - 1) = w - a
  BY <1>1, <1>3, <1>4, <1>5, AnswerLengths
<1>7. PICK r : r = TxSarToTxEngRsp(sar)
  OBVIOUS
<1>8. /\ r.ackd = sar.ackd /\ r.not_ackd = sar.not_ackd /\ r.app_written = sar.app_written
      /\ r.fin_is_ready = sar.fin_is_ready /\ r.fin_is_sent = sar.fin_is_sent
      /\ r.curr_length = CurrLength(sar) /\ r.used_length = UsedLength(sar)
      /\ r.used_length_rst = Low(UsedLength(sar) - FinOf(sar))
      /\ r.usable_window = UsableWindow(sar) /\ r.min_window = MinWindow(sar)
      /\ (r.ackd_eq_not_ackd <=> sar.ackd = sar.not_ackd)
      /\ r.not_ackd_short = Plus(sar.not_ackd, CurrLength(sar))
  BY <1>7 DEF TxSarToTxEngRsp, FinOf
<1>9. /\ MinWindow(sar) \in Nat /\ MinWindow(sar) <= sar.recv_window
      /\ UsedLength(sar) \in Nat /\ CurrLength(sar) \in Nat /\ UsableWindow(sar) \in Nat
      /\ sar.recv_window \in Nat
  BY <1>1, AnswerType, Ints, Offsets
<1>10. Same(r)
  BY <1>2, <1>4, <1>8 DEF Same
<1>11. WindowOf(r)
  <2>1. Off(r.ackd) = a
    BY <1>3, <1>8
  <2>2. a + r.min_window <= a + sar.recv_window
    BY <1>8, <1>9
  <2> QED BY <2>1, <2>2, <1>2, <1>4, <1>8 DEF WindowOf
<1>12. r.ackd_eq_not_ackd <=> r.ackd = r.not_ackd
  BY <1>8
<1>13. ASSUME ~r.fin_is_sent
       PROVE  /\ Budget(r, r.used_length, r.usable_window)
              /\ Unsent(r, r.curr_length)
              /\ Off(r.not_ackd) + r.curr_length = WrittenTo
  <2>1. n <= w /\ UsedLength(sar) = n - a /\ CurrLength(sar) = w - n
    BY <1>13, <1>5, <1>6, <1>8
  <2>2. Off(r.ackd) = a /\ Off(r.not_ackd) = n
    BY <1>3, <1>8
  <2>3. Budget(r, r.used_length, r.usable_window)
    <3>1. PICK m \in Nat, u \in Nat : m = MinWindow(sar) /\ u = UsedLength(sar)
      BY <1>9
    <3>2. r.usable_window = IF m > u THEN m - u ELSE 0
      BY <3>1, <1>8 DEF UsableWindow
    <3>3. r.usable_window > 0 => u + r.usable_window = m
      BY <3>2
    <3> QED BY <3>1, <3>3, <2>1, <2>2, <1>8 DEF Budget
  <2>4. n + CurrLength(sar) = w
    BY <2>1
  <2>5. Off(Plus(sar.not_ackd, CurrLength(sar))) = w
    <3>1. sar.not_ackd \in Seqs
      BY <1>1, RecordKinds
    <3>2. PICK k \in Int : k = CurrLength(sar)
      BY <1>9
    <3>3. 0 <= Off(sar.not_ackd) + k /\ Off(sar.not_ackd) + k < SeqMod
      BY <3>2, <2>4, <1>3, Sizes
    <3> QED BY <3>1, <3>2, <3>3, <2>4, <1>3, OffPlus
  <2>6. Unsent(r, r.curr_length)
    BY <2>2, <2>4, <2>5, <1>2, <1>4, <1>8 DEF Unsent
  <2> QED BY <2>2, <2>3, <2>4, <2>6, <1>2, <1>8
<1>14. ASSUME fsm.type = "RT", ~(r.fin_is_sent /\ r.ackd_eq_not_ackd)  PROVE Again(r)
  <2>1. a >= 1
    BY <1>14, <1>2, IsOpen
  <2>2. CASE ~sar.fin_is_sent
    <3>1. FinOf(sar) = 0 /\ FinOf(r) = 0
      BY <2>2, <1>8 DEF FinOf
    <3>2. UsedLength(sar) = n - a /\ UsedLength(sar) \in Lens
      BY <2>2, <1>1, <1>5, <1>6, AnswerType
    <3>3. PICK u \in Lens : u = UsedLength(sar)
      BY <3>2
    <3>4. Low(u - 0) = u
      <4>1. u - 0 = u /\ u \in Int /\ 0 <= u /\ u < BufMod
        BY Ints
      <4> QED BY <4>1, ModSmall, Sizes DEF Low
    <3>5. a + u = n - 0
      BY <3>2, <3>3
    <3> QED BY <2>1, <3>1, <3>3, <3>4, <3>5, <1>2, <1>3, <1>8 DEF Again
  <2>3. CASE sar.fin_is_sent
    <3>1. FinOf(sar) = 1 /\ FinOf(r) = 1 /\ n = w + 1
      BY <2>3, <1>4, <1>8 DEF FinOf
    <3>2. a # n
      <4>1. sar.ackd # sar.not_ackd /\ sar.ackd \in Seqs /\ sar.not_ackd \in Seqs
        BY <2>3, <1>1, <1>8, <1>14, RecordKinds
      <4> QED BY <4>1, <1>3, OffEq
    <3>3. a <= w
      BY <3>1, <3>2, <1>4
    <3>4. r.used_length_rst = w - a
      BY <3>1, <3>3, <1>6, <1>8
    <3>5. a + (w - a) = n - 1
      BY <3>1
    <3> QED BY <2>1, <3>1, <3>4, <3>5, <1>2, <1>3, <1>8 DEF Again
  <2> QED BY <2>2, <2>3
<1> QED BY <1>7, <1>10, <1>11, <1>12, <1>13, <1>14 DEF Fresh

\* The table answers.
LEMMA CoreAnswer ==
  ASSUME TInv, Core, SarTxEng, Head(sar_req).kind = "read"  PROVE Core'
<1>1. TInv'
  BY TypeSarTxEng
<1>2. sar_req # <<>> /\ sar_req' = Tail(sar_req) /\ seg' = NoSeg
      /\ sar_rsp' = Append(sar_rsp, TxSarToTxEngRsp(sar))
      /\ UNCHANGED <<sar, events, fsm, rx, rtimer, ptimer, sent, rcvd, written, conn>>
  BY DEF SarTxEng, timers, world
<1>3. sar_req \in Seq(Requests) /\ sar_req[1].kind = "read" /\ Takes(sar_req, sar_req')
      /\ Len(sar_req) \in Nat /\ 1 \in 1 .. Len(sar_req)
  <2>1. sar_req \in Seq(Requests)
    BY DEF TInv, TSar
  <2>2. Head(sar_req) = sar_req[1] /\ Takes(sar_req, sar_req') /\ Len(sar_req) \in Nat
    BY <2>1, <1>2, Rd
  <2> QED BY <2>1, <2>2 DEF Takes
<1>4. Len(sar_req) = 1 /\ Waiting /\ sar_rsp = <<>>
  BY <1>3 DEF Core, QueueInv
<1>5. Len(sar_req') = 0 /\ ~InitPending /\ ~InitPending' /\ sar_req' = <<>>
  <2>1. Len(sar_req') = 0
    BY <1>3, <1>4 DEF Takes
  <2>2. ~InitPending
    BY <1>3, <1>4 DEF InitPending
  <2>3. ~InitPending'
    BY <2>1 DEF InitPending
  <2>4. sar_req' = <<>>
    BY <2>1, <1>1, In DEF TInv, TSar
  <2> QED BY <2>1, <2>2, <2>3, <2>4
<1>6. Len(sar_rsp') = 1 /\ sar_rsp'[1] = TxSarToTxEngRsp(sar)
  BY <1>2, <1>4
<1>7. /\ AckedTo' = AckedTo /\ NotedTo' = NotedTo /\ WrittenTo' = WrittenTo
      /\ (Opening' <=> Opening) /\ (Waiting' <=> Waiting)
  BY <1>2 DEF AckedTo, NotedTo, WrittenTo, Opening, Waiting
<1>8. ~fsm.loaded /\ fsm.type # "LOAD" /\ EventOK(fsm, conn)
  <2>1. ~fsm.loaded /\ fsm.type # "LOAD"
    BY <1>4 DEF Waiting, AsksSar
  <2> QED BY <2>1 DEF Core, EventInv
<1>9. QueueInv'
  BY <1>4, <1>5, <1>6, <1>7 DEF QueueInv
<1>10. EventInv'
  BY <1>2, <1>7 DEF Core, EventInv
<1>11. StartInv'
  BY <1>2, <1>5, <1>7 DEF Core, StartInv
<1>12. WindowInv'
  BY <1>2, <1>5, <1>7 DEF Core, WindowInv, Ready, FinOf
<1>13. PendingInv'
  BY <1>5 DEF PendingInv
<1>14. FreshInv'
  <2> SUFFICES ASSUME sent >= 1  PROVE Fresh(sar_rsp[1])'
    BY <1>2 DEF FreshInv
  <2>1. fsm.type = "RT" => ~Opening
    BY <1>8 DEF EventOK, Opening, Syns, Rsts
  <2>2. PICK r : r = TxSarToTxEngRsp(sar)
    OBVIOUS
  <2>3. Fresh(r)
    BY <2>1, <2>2, <1>5, AnswerFresh
  <2>4. Fresh(r)'
    BY <2>3, <1>2, <1>7 DEF Fresh, Same, WindowOf, Budget, Unsent, Again, FinOf
  <2> QED BY <2>2, <2>4, <1>6
<1>15. BurstInv' /\ FinInv'
  BY <1>2, <1>8 DEF BurstInv, FinInv
<1>16. RtInv'
  BY <1>2, <1>8 DEF RtInv, TInv, TFsm
<1>17. RxInv'
  BY <1>2, <1>5, <1>7 DEF Core, RxInv
<1>18. SegInv'
  BY <1>2, NoSegmentLegal
<1> QED BY <1>9, <1>10, <1>11, <1>12, <1>13, <1>14, <1>15, <1>16, <1>17, <1>18 DEF Core

\* The table takes a write: the requests behind it move up.
LEMMA TableWrites ==
  ASSUME TInv, Core, SarTxEng, Head(sar_req).kind # "read"
  PROVE  /\ \E h \in Requests :
              /\ h = sar_req[1] /\ 1 \in 1 .. Len(sar_req) /\ sar' = Written(sar, h)
              /\ h.kind \in {"write", "init", "retrans"}
         /\ \A i \in 1 .. Len(sar_req') : i + 1 \in 1 .. Len(sar_req) /\ sar_req'[i] = sar_req[i + 1]
         /\ UNCHANGED <<sar_rsp, events, fsm, rx, rtimer, ptimer, sent, rcvd, written, conn>>
         /\ sent >= 1 /\ (InitPending' => InitPending)
         /\ QueueInv' /\ EventInv' /\ StartInv' /\ FreshInv' /\ BurstInv' /\ SegInv'
<1>1. sar_req # <<>> /\ sar_req' = Tail(sar_req) /\ seg' = NoSeg /\ sar' = Written(sar, Head(sar_req))
      /\ UNCHANGED <<sar_rsp, events, fsm, rx, rtimer, ptimer, sent, rcvd, written, conn>>
  BY DEF SarTxEng, timers, world
<1>2. sar_req \in Seq(Requests) /\ Head(sar_req) = sar_req[1] /\ Head(sar_req) \in Requests
      /\ Len(sar_req) \in Nat /\ Takes(sar_req, sar_req')
  <2>1. sar_req \in Seq(Requests)
    BY DEF TInv, TSar
  <2> QED BY <2>1, <1>1, Rd
<1>3. 1 \in 1 .. Len(sar_req) /\ Len(sar_req') = Len(sar_req) - 1
      /\ \A i \in 1 .. Len(sar_req') : i + 1 \in 1 .. Len(sar_req) /\ sar_req'[i] = sar_req[i + 1]
  BY <1>2 DEF Takes
<1>4. Head(sar_req).kind \in {"write", "init", "retrans"}
  BY <1>2, RequestKinds
<1>5. sar_rsp = <<>>
  BY <1>1 DEF Core, QueueInv
<1>6. sent >= 1
  <2>1. sent # 0
    BY <1>2, <1>3 DEF Core, StartInv
  <2> QED BY <2>1, Offsets
<1>7. InitPending' => InitPending
  BY <1>3 DEF InitPending
<1>8. QueueInv'
  <2>1. (Opening' <=> Opening) /\ (Waiting' <=> Waiting)
    BY <1>1 DEF Opening, Waiting
  <2>2. \A i \in 1 .. Len(sar_req) :
          /\ sar_req[i].kind = "read" => i = Len(sar_req) /\ Waiting
          /\ sar_req[i].kind = "init" => Opening
          /\ sar_req[i].kind \in {"write", "retrans"} => ~Opening
    BY DEF Core, QueueInv
  <2>3. ASSUME NEW i \in 1 .. Len(sar_req')
        PROVE  /\ sar_req'[i].kind = "read" => i = Len(sar_req') /\ Waiting
               /\ sar_req'[i].kind = "init" => Opening
               /\ sar_req'[i].kind \in {"write", "retrans"} => ~Opening
    <3>1. PICK j \in 1 .. Len(sar_req) : j = i + 1 /\ sar_req'[i] = sar_req[j]
      BY <1>3
    <3>2. j = Len(sar_req) => i = Len(sar_req')
      BY <3>1, <1>2, <1>3
    <3> QED BY <3>1, <3>2, <2>2
  <2> QED BY <2>1, <2>3, <1>1, <1>5 DEF QueueInv
<1>9. EventInv'
  BY <1>1 DEF Core, EventInv, Opening
<1>10. StartInv'
  BY <1>1, <1>6, Offsets DEF StartInv
<1>11. FreshInv'
  BY <1>1, <1>5 DEF FreshInv
<1>12. BurstInv'
  <2>1. ~(fsm.type = "TX" /\ fsm.loaded)
    BY <1>1 DEF Core, BurstInv, Burst
  <2> QED BY <2>1, <1>1 DEF BurstInv
<1>13. SegInv'
  BY <1>1, NoSegmentLegal
<1> QED BY <1>1, <1>2, <1>3, <1>4, <1>6, <1>7, <1>8, <1>9, <1>10, <1>11, <1>12, <1>13

LEMMA CoreTableInit ==
  ASSUME TInv, Core, SarTxEng, Head(sar_req).kind # "read", sar_req[1].kind = "init"
  PROVE  Core'
<1>1. PICK h \in Requests :
        h = sar_req[1] /\ 1 \in 1 .. Len(sar_req) /\ sar' = Written(sar, h) /\ h.kind = "init"
  BY TableWrites
<1>2. /\ \A i \in 1 .. Len(sar_req') : i + 1 \in 1 .. Len(sar_req) /\ sar_req'[i] = sar_req[i + 1]
      /\ UNCHANGED <<sar_rsp, events, fsm, rx, rtimer, ptimer, sent, rcvd, written, conn>>
      /\ sent >= 1
      /\ QueueInv' /\ EventInv' /\ StartInv' /\ FreshInv' /\ BurstInv' /\ SegInv'
  BY TableWrites
<1>3. sar'.not_ackd = Plus(Isn, 1) /\ sar'.app_written = Low(Plus(Isn, 1))
      /\ sar'.ackd = Plus(Plus(Isn, 1), -1) /\ ~sar'.fin_is_ready /\ ~sar'.fin_is_sent
  <2>1. sar \in Entry
    BY DEF TInv, TSar
  <2>2. h.not_ackd = Plus(Isn, 1)
    BY <1>1, RequestKinds
  <2> QED BY <2>1, <2>2, <1>1, WrittenFields
<1>4. Opening /\ InitPending
  BY <1>1 DEF Core, QueueInv, InitPending
<1>5. rx = NoRx
  BY <1>4 DEF Core, RxInv
<1>6. ~fsm.loaded
  BY <1>4 DEF Core, EventInv
<1>7. written = 0 /\ WrittenTo = 1 /\ WrittenTo' = 1
  <2>1. written = 0
    BY <1>4 DEF Core, WindowInv
  <2> QED BY <2>1, <1>2 DEF WrittenTo
<1>8. NotedTo' = 1 /\ AckedTo' = 0 /\ sar'.app_written = Low(Isn + 1)
  <2>1. 1 < SeqMod /\ 1 \in Nat /\ -1 \in Int
    BY Sizes
  <2>2. Off(Plus(Isn, 1)) = 1
    BY <2>1, OffIsn
  <2>3. PICK x \in Seqs : x = Plus(Isn, 1)
    BY PlusRange, Sizes
  <2>4. Off(Plus(x, -1)) = 0
    <3>1. 0 <= Off(x) + (-1) /\ Off(x) + (-1) < SeqMod /\ Off(x) + (-1) = 0
      BY <2>2, <2>3, Sizes
    <3> QED BY <3>1, <2>1, OffPlus
  <2>5. Low(x) = Low(Isn + 1)
    BY <2>2, <2>3, LowOff
  <2> QED BY <2>2, <2>3, <2>4, <2>5, <1>3 DEF NotedTo, AckedTo
<1>9. WindowInv'
  <2>1. FinOf(sar)' = 0
    BY <1>3 DEF FinOf
  <2>2. sent <= WrittenTo + 1
    BY DEF Core, WindowInv
  <2> QED BY <2>1, <2>2, <1>2, <1>3, <1>4, <1>7, <1>8, Sizes DEF WindowInv, Opening
<1>10. PendingInv'
  <2>1. \A i \in 1 .. Len(sar_req') : sar_req'[i].kind # "write"
    BY <1>2, <1>4 DEF Core, QueueInv
  <2> QED BY <2>1 DEF PendingInv
<1>11. FinInv' /\ RtInv' /\ RxInv'
  BY <1>2, <1>5, <1>6 DEF FinInv, RtInv, RxInv, TInv, TFsm
<1> QED BY <1>2, <1>9, <1>10, <1>11 DEF Core

LEMMA CoreTableWrite ==
  ASSUME TInv, Core, SarTxEng, Head(sar_req).kind # "read", sar_req[1].kind = "write"
  PROVE  Core'
<1>0. TInv'
  BY TypeSarTxEng
<1>1. PICK h \in Requests :
        h = sar_req[1] /\ 1 \in 1 .. Len(sar_req) /\ sar' = Written(sar, h) /\ h.kind = "write"
  BY TableWrites
<1>2. /\ \A i \in 1 .. Len(sar_req') : i + 1 \in 1 .. Len(sar_req) /\ sar_req'[i] = sar_req[i + 1]
      /\ UNCHANGED <<sar_rsp, events, fsm, rx, rtimer, ptimer, sent, rcvd, written, conn>>
      /\ sent >= 1 /\ (InitPending' => InitPending)
      /\ QueueInv' /\ EventInv' /\ StartInv' /\ FreshInv' /\ BurstInv' /\ SegInv'
  BY TableWrites
<1>3. h.not_ackd \in Seqs /\ h.fin_is_ready \in BOOLEAN /\ h.fin_is_sent \in BOOLEAN
  BY <1>1, RequestKinds
<1>4. /\ sar'.not_ackd = h.not_ackd /\ sar'.app_written = sar.app_written /\ sar'.ackd = sar.ackd
      /\ sar'.recv_window = sar.recv_window
      /\ (sar'.fin_is_ready <=> sar.fin_is_ready \/ h.fin_is_ready)
      /\ (sar'.fin_is_sent <=> sar.fin_is_sent \/ h.fin_is_sent)
  <2>1. sar \in Entry
    BY DEF TInv, TSar
  <2> QED BY <2>1, <1>1, WrittenFields
<1>5. ~Opening /\ ~InitPending
  <2>1. ~Opening
    BY <1>1 DEF Core, QueueInv
  <2> QED BY <2>1, IsOpen
<1>6. PendingOK(h)
  BY <1>1 DEF Core, PendingInv
<1>7. /\ AckedTo <= NotedTo /\ 1 <= NotedTo /\ sent <= WrittenTo + 1
      /\ (sar.fin_is_sent => NotedTo = WrittenTo + 1)
      /\ WrittenTo - AckedTo <= BufMod - 1 /\ sar.app_written = Low(Isn + WrittenTo)
      /\ sar.fin_is_ready \/ sar.fin_is_sent => conn \in Ended
      /\ 1 <= AckedTo
  BY <1>2, <1>5, Running, IsOpen
<1>8. /\ AckedTo' = AckedTo /\ NotedTo' = Off(h.not_ackd) /\ WrittenTo' = WrittenTo
      /\ (Opening' <=> Opening)
  BY <1>2, <1>4 DEF AckedTo, NotedTo, WrittenTo, Opening
<1>9. PICK a \in Nat, n \in Nat, m \in Nat, w \in Nat, s \in Nat :
        a = AckedTo /\ n = NotedTo /\ m = NotedTo' /\ w = WrittenTo /\ s = sent
  <2>1. NotedTo' \in Nat
    BY <1>3, <1>8, OffFacts
  <2> QED BY <2>1, Offsets
<1>10. /\ a <= n /\ 1 <= n /\ n <= m /\ m <= s /\ s <= w + 1 /\ w - a <= BufMod - 1
       /\ m <= w \/ sar.fin_is_sent \/ h.fin_is_sent
       /\ h.fin_is_sent => m = w + 1
       /\ sar.fin_is_sent => n = w + 1
       /\ h.fin_is_ready \/ h.fin_is_sent => conn \in Ended
  BY <1>6, <1>7, <1>8, <1>9 DEF PendingOK
<1>11. sar'.fin_is_sent => m = w + 1
  <2>1. CASE h.fin_is_sent
    BY <2>1, <1>10
  <2>2. CASE sar.fin_is_sent
    BY <2>2, <1>10
  <2> QED BY <2>1, <2>2, <1>4
<1>12. ~sar'.fin_is_sent => m <= w
  BY <1>4, <1>10
<1>13. WindowInv'
  <2>1. m <= w + FinOf(sar)'
    <3>1. CASE sar'.fin_is_sent
      <4>1. FinOf(sar)' = 1
        BY <3>1 DEF FinOf
      <4> QED BY <4>1, <3>1, <1>11
    <3>2. CASE ~sar'.fin_is_sent
      <4>1. FinOf(sar)' = 0
        BY <3>2 DEF FinOf
      <4> QED BY <4>1, <3>2, <1>12
    <3> QED BY <3>1, <3>2
  <2>2. a <= m /\ 1 <= m
    BY <1>10
  <2>3. sar'.fin_is_ready \/ sar'.fin_is_sent => conn' \in Ended
    BY <1>2, <1>4, <1>7, <1>10
  <2> QED BY <2>1, <2>2, <2>3, <1>2, <1>4, <1>5, <1>7, <1>8, <1>9, <1>10, <1>11 DEF WindowInv
<1>14. \A i \in 1 .. Len(sar_req') :
         sar_req'[i].kind = "write" => NotedTo' <= Off(sar_req'[i].not_ackd)
  <2> SUFFICES ASSUME NEW i \in 1 .. Len(sar_req'), sar_req'[i].kind = "write"
               PROVE  NotedTo' <= Off(sar_req'[i].not_ackd)
    OBVIOUS
  <2>1. PICK j \in 1 .. Len(sar_req) : j = i + 1 /\ sar_req'[i] = sar_req[j]
    BY <1>2
  <2>2. 1 < j
    BY <2>1
  <2> QED BY <2>1, <2>2, <1>1, <1>8 DEF Core, PendingInv
<1>15. PendingInv'
  <2>1. ASSUME NEW q \in Requests, NEW i \in 1 .. Len(sar_req'), sar_req'[i] = q, q.kind = "write"
        PROVE  PendingOK(q)'
    <3>1. PendingOK(q)
      BY <2>1, <1>2 DEF Core, PendingInv
    <3>2. NotedTo' <= Off(q.not_ackd)
      BY <2>1, <1>14
    <3> QED BY <3>1, <3>2, <1>2, <1>4, <1>8 DEF PendingOK
  <2>2. \A i \in 1 .. Len(sar_req') : sar_req'[i].kind = "write" => PendingOK(sar_req[i])'
    <3> SUFFICES ASSUME NEW i \in 1 .. Len(sar_req'), sar_req'[i].kind = "write"
                 PROVE  PendingOK(sar_req[i])'
      OBVIOUS
    <3>1. sar_req'[i] \in Requests
      BY <1>0, In DEF TInv, TSar
    <3>2. PICK q \in Requests : q = sar_req'[i]
      BY <3>1
    <3>3. PendingOK(q)'
      BY <3>2, <2>1
    <3> QED BY <3>2, <3>3 DEF PendingOK
  <2>3. ASSUME NEW i \in 1 .. Len(sar_req'), NEW j \in 1 .. Len(sar_req'), i < j,
               sar_req'[i].kind = "write", sar_req'[j].kind = "write"
        PROVE  Off(sar_req'[i].not_ackd) <= Off(sar_req'[j].not_ackd)
    <3>1. i + 1 \in 1 .. Len(sar_req) /\ j + 1 \in 1 .. Len(sar_req) /\ i + 1 < j + 1
          /\ sar_req'[i] = sar_req[i + 1] /\ sar_req'[j] = sar_req[j + 1]
      BY <2>3, <1>2
    <3> QED BY <3>1, <2>3 DEF Core, PendingInv
  <2> QED BY <2>2, <2>3 DEF PendingInv
<1>16. FinInv'
  <2> SUFFICES ASSUME fsm.type = "FIN", fsm.loaded  PROVE Closing(fsm.rsp)'
    BY <1>2 DEF FinInv
  <2>1. PICK r : r = fsm.rsp
    OBVIOUS
  <2>2. Closing(r)
    BY <2>1 DEF Core, FinInv
  <2>3. NotedTo' <= Off(r.not_ackd)
    BY <2>2, <1>1, <1>8 DEF Closing
  <2>4. \A i \in 1 .. Len(sar_req') :
          sar_req'[i].kind = "write" => Off(sar_req'[i].not_ackd) <= Off(r.not_ackd)
    BY <2>2, <1>2 DEF Closing
  <2>5. Closing(r)'
    BY <2>2, <2>3, <2>4, <1>2, <1>4, <1>8 DEF Closing
  <2> QED BY <2>1, <2>5, <1>2
<1>17. RtInv'
  <2>1. fsm.type # "RT_CONT"
    BY <1>1 DEF Core, RtInv
  <2> QED BY <2>1, <1>2 DEF RtInv
<1>18. RxInv'
  <2> SUFFICES ASSUME rx # NoRx  PROVE Off(rx.next_byte) <= m
    BY <1>2, <1>4, <1>5, <1>8, <1>9 DEF Core, RxInv
  <2>1. rx \in RxReads
    BY DEF TInv, TRest
  <2>2. PICK k \in Nat : k = Off(rx.next_byte)
    BY <2>1, RecordKinds, OffFacts
  <2>3. k <= n
    BY <2>2, <1>9 DEF Core, RxInv
  <2> QED BY <2>2, <2>3, <1>10
<1> QED BY <1>2, <1>13, <1>15, <1>16, <1>17, <1>18 DEF Core

LEMMA CoreTableRetrans ==
  ASSUME TInv, Core, SarTxEng, Head(sar_req).kind # "read", sar_req[1].kind = "retrans"
  PROVE  Core'
<1>0. TInv'
  BY TypeSarTxEng
<1>1. PICK h \in Requests :
        h = sar_req[1] /\ 1 \in 1 .. Len(sar_req) /\ sar' = Written(sar, h) /\ h.kind = "retrans"
  BY TableWrites
<1>2. /\ \A i \in 1 .. Len(sar_req') : i + 1 \in 1 .. Len(sar_req) /\ sar_req'[i] = sar_req[i + 1]
      /\ UNCHANGED <<sar_rsp, events, fsm, rx, rtimer, ptimer, sent, rcvd, written, conn>>
      /\ sent >= 1 /\ (InitPending' => InitPending)
      /\ QueueInv' /\ EventInv' /\ StartInv' /\ FreshInv' /\ BurstInv' /\ SegInv'
  BY TableWrites
<1>3. /\ sar'.not_ackd = sar.not_ackd /\ sar'.app_written = sar.app_written /\ sar'.ackd = sar.ackd
      /\ sar'.recv_window = sar.recv_window
      /\ sar'.fin_is_ready = sar.fin_is_ready /\ sar'.fin_is_sent = sar.fin_is_sent
  <2>1. sar \in Entry
    BY DEF TInv, TSar
  <2> QED BY <2>1, <1>1, WrittenFields
<1>4. ~Opening /\ ~InitPending
  <2>1. ~Opening
    BY <1>1 DEF Core, QueueInv
  <2> QED BY <2>1, IsOpen
<1>5. /\ AckedTo' = AckedTo /\ NotedTo' = NotedTo /\ WrittenTo' = WrittenTo
      /\ (Opening' <=> Opening) /\ FinOf(sar)' = FinOf(sar)
  BY <1>2, <1>3 DEF AckedTo, NotedTo, WrittenTo, Opening, FinOf
<1>6. WindowInv'
  BY <1>2, <1>3, <1>4, <1>5 DEF Core, WindowInv, Ready
<1>7. PendingInv'
  <2>1. ASSUME NEW q \in Requests, NEW i \in 1 .. Len(sar_req'), sar_req'[i] = q, q.kind = "write"
        PROVE  PendingOK(q)'
    <3>1. PendingOK(q)
      BY <2>1, <1>2 DEF Core, PendingInv
    <3> QED BY <3>1, <1>2, <1>3, <1>5 DEF PendingOK
  <2>2. \A i \in 1 .. Len(sar_req') : sar_req'[i].kind = "write" => PendingOK(sar_req[i])'
    <3> SUFFICES ASSUME NEW i \in 1 .. Len(sar_req'), sar_req'[i].kind = "write"
                 PROVE  PendingOK(sar_req[i])'
      OBVIOUS
    <3>1. sar_req'[i] \in Requests
      BY <1>0, In DEF TInv, TSar
    <3>2. PICK q \in Requests : q = sar_req'[i]
      BY <3>1
    <3>3. PendingOK(q)'
      BY <3>2, <2>1
    <3> QED BY <3>2, <3>3 DEF PendingOK
  <2>3. ASSUME NEW i \in 1 .. Len(sar_req'), NEW j \in 1 .. Len(sar_req'), i < j,
               sar_req'[i].kind = "write", sar_req'[j].kind = "write"
        PROVE  Off(sar_req'[i].not_ackd) <= Off(sar_req'[j].not_ackd)
    <3>1. i + 1 \in 1 .. Len(sar_req) /\ j + 1 \in 1 .. Len(sar_req) /\ i + 1 < j + 1
          /\ sar_req'[i] = sar_req[i + 1] /\ sar_req'[j] = sar_req[j + 1]
      BY <2>3, <1>2
    <3> QED BY <3>1, <2>3 DEF Core, PendingInv
  <2> QED BY <2>2, <2>3 DEF PendingInv
<1>8. FinInv'
  <2> SUFFICES ASSUME fsm.type = "FIN", fsm.loaded  PROVE Closing(fsm.rsp)'
    BY <1>2 DEF FinInv
  <2>1. PICK r : r = fsm.rsp
    OBVIOUS
  <2>2. Closing(r)
    BY <2>1 DEF Core, FinInv
  <2>3. \A i \in 1 .. Len(sar_req') :
          sar_req'[i].kind = "write" => Off(sar_req'[i].not_ackd) <= Off(r.not_ackd)
    BY <2>2, <1>2 DEF Closing
  <2>4. Closing(r)'
    BY <2>2, <2>3, <1>2, <1>3, <1>5 DEF Closing
  <2> QED BY <2>1, <2>4, <1>2
<1>9. RtInv'
  <2>1. fsm.type = "RT_CONT" => \A i \in 1 .. Len(sar_req') : sar_req'[i].kind = "retrans"
    BY <1>2 DEF Core, RtInv
  <2> QED BY <2>1, <1>2, <1>3, <1>5 DEF Core, RtInv, Same, Again, FinOf
<1>10. RxInv'
  BY <1>2, <1>3, <1>4, <1>5 DEF Core, RxInv
<1> QED BY <1>2, <1>6, <1>7, <1>8, <1>9, <1>10 DEF Core

LEMMA CoreSarTxEng == ASSUME TInv, Core, SarTxEng  PROVE Core'
<1>1. CASE Head(sar_req).kind = "read"
  BY <1>1, CoreAnswer
<1>2. CASE Head(sar_req).kind # "read"
  <2>1. sar_req[1].kind \in {"write", "init", "retrans"}
    BY <1>2, TableWrites
  <2> QED BY <2>1, <1>2, CoreTableInit, CoreTableWrite, CoreTableRetrans
<1> QED BY <1>1, <1>2

-----------------------------------------------------------------------------
(* LOAD, and the handlers of segments without data.                          *)

LEMMA CoreLoad == ASSUME TInv, Core, TxEngLoad  PROVE Core'
<1>0. TInv'
  BY TypeLoad
<1>1. PICK e \in Events :
        /\ e = events[1] /\ 1 \in 1 .. Len(events)
        /\ fsm' = [Load EXCEPT !.type = e.type, !.cnt = e.cnt]
        /\ \A i \in 1 .. Len(events') : i + 1 \in 1 .. Len(events) /\ events'[i] = events[i + 1]
        /\ IF AsksSar(e)
           THEN Room(sar_req) /\ sar_req' = Append(sar_req, ReadReq)
           ELSE UNCHANGED sar_req
  <2>1. events \in Seq(Events) /\ events # <<>> /\ events' = Tail(events)
    BY DEF TInv, TRest, TxEngLoad
  <2>2. Head(events) \in Events /\ Head(events) = events[1] /\ Takes(events, events') /\ Len(events) \in Nat
    BY <2>1, Rd
  <2>3. 1 \in 1 .. Len(events)
        /\ \A i \in 1 .. Len(events') : i + 1 \in 1 .. Len(events) /\ events'[i] = events[i + 1]
    BY <2>2 DEF Takes
  <2> QED BY <2>2, <2>3 DEF TxEngLoad
<1>2. /\ fsm.type = "LOAD" /\ seg' = NoSeg
      /\ UNCHANGED <<sar, sar_rsp, rx, rtimer, ptimer, sent, rcvd, written, conn>>
  BY DEF TxEngLoad, timers, world
<1>3. e.type \in EventTypes /\ e.cnt \in 0 .. 2 /\ fsm'.type = e.type /\ fsm'.cnt = e.cnt /\ ~fsm'.loaded
  <2>1. e.type \in EventTypes /\ e.cnt \in 0 .. 2
    BY RecordKinds
  <2>2. PICK t \in EventTypes, c \in 0 .. 2 : t = e.type /\ c = e.cnt
    BY <2>1
  <2>3. fsm' = [Load EXCEPT !.type = t, !.cnt = c]
    BY <2>2, <1>1
  <2>4. fsm'.type = t /\ fsm'.cnt = c /\ ~fsm'.loaded
    BY <2>3, LoadFacts
  <2> QED BY <2>1, <2>2, <2>4
<1>4. ~fsm.loaded /\ ~Waiting
  <2>1. ~fsm.loaded
    BY <1>2 DEF TInv, TFsm
  <2> QED BY <2>1, <1>2 DEF Waiting, AsksSar
<1>5. /\ \A i \in 1 .. Len(sar_req) :
           /\ sar_req[i].kind # "read"
           /\ sar_req[i].kind = "init" => Opening
           /\ sar_req[i].kind \in {"write", "retrans"} => ~Opening
      /\ sar_rsp = <<>>
  BY <1>4 DEF Core, QueueInv
<1>6. (Waiting' <=> AsksSar(e)) /\ (Opening' <=> Opening)
      /\ AckedTo' = AckedTo /\ NotedTo' = NotedTo /\ WrittenTo' = WrittenTo /\ FinOf(sar)' = FinOf(sar)
  BY <1>2, <1>3 DEF Waiting, AsksSar, Opening, AckedTo, NotedTo, WrittenTo, FinOf
<1>7. \A i \in 1 .. Len(sar_req') :
        \/ i \in 1 .. Len(sar_req) /\ sar_req'[i] = sar_req[i]
        \/ i = Len(sar_req') /\ sar_req'[i].kind = "read" /\ AsksSar(e)
  <2>1. CASE ~AsksSar(e)
    BY <1>1, <2>1
  <2>2. CASE AsksSar(e)
    <3>1. sar_req \in Seq(Requests) /\ ReadReq \in Requests /\ ReadReq.kind = "read"
      BY RequestKinds DEF TInv, TSar
    <3>2. sar_req' = Append(sar_req, ReadReq)
      BY <2>2, <1>1
    <3>3. Grows(sar_req, sar_req', ReadReq) /\ Len(sar_req) \in Nat /\ Len(sar_req') = Len(sar_req) + 1
      BY <3>1, <3>2, Wr
    <3> QED BY <2>2, <3>1, <3>3 DEF Grows
  <2> QED BY <2>1, <2>2
<1>8. \A i \in 1 .. Len(sar_req) : i \in 1 .. Len(sar_req') /\ sar_req'[i] = sar_req[i]
  <2>1. CASE ~AsksSar(e)
    BY <1>1, <2>1
  <2>2. CASE AsksSar(e)
    <3>1. sar_req \in Seq(Requests) /\ ReadReq \in Requests
      BY RequestKinds DEF TInv, TSar
    <3>2. sar_req' = Append(sar_req, ReadReq)
      BY <2>2, <1>1
    <3>3. Grows(sar_req, sar_req', ReadReq) /\ Len(sar_req) \in Nat /\ Len(sar_req') = Len(sar_req) + 1
      BY <3>1, <3>2, Wr
    <3> QED BY <3>3 DEF Grows
  <2> QED BY <2>1, <2>2
<1>9. InitPending' <=> InitPending
  <2>1. InitPending' => InitPending
    BY <1>7 DEF InitPending
  <2>2. InitPending => InitPending'
    BY <1>8 DEF InitPending
  <2> QED BY <2>1, <2>2
<1>10. QueueInv'
  <2>1. \A i \in 1 .. Len(sar_req') :
          /\ sar_req'[i].kind = "read" => i = Len(sar_req') /\ AsksSar(e)
          /\ sar_req'[i].kind = "init" => Opening
          /\ sar_req'[i].kind \in {"write", "retrans"} => ~Opening
    BY <1>5, <1>7
  <2> QED BY <2>1, <1>2, <1>5, <1>6 DEF QueueInv
<1>11. EventInv'
  <2>1. \A i \in 1 .. Len(events) :
          /\ EventOK(events[i], conn)
          /\ events[i].type \in Syns /\ events[i].cnt = 0 => sent = 0 /\ i = 1
    BY DEF Core, EventInv
  <2>2. \A i \in 1 .. Len(events') :
          EventOK(events'[i], conn) /\ ~(events'[i].type \in Syns /\ events'[i].cnt = 0)
    <3> SUFFICES ASSUME NEW i \in 1 .. Len(events')
                 PROVE  EventOK(events'[i], conn) /\ ~(events'[i].type \in Syns /\ events'[i].cnt = 0)
      OBVIOUS
    <3>1. PICK j \in 1 .. Len(events) : j = i + 1 /\ events'[i] = events[j]
      BY <1>1
    <3>2. j # 1
      BY <3>1
    <3> QED BY <3>1, <3>2, <2>1
  <2>3. EventOK(e, conn) /\ (e.type \in Syns /\ e.cnt = 0 => sent = 0)
    BY <2>1, <1>1
  <2>4. EventOK(fsm', conn)
    BY <2>3, <1>3 DEF EventOK
  <2>5. fsm'.type = "TX" => fsm'.cnt = 0
    BY <2>3, <1>3 DEF EventOK
  <2>6. rtimer'.type = "RT" \/ ptimer' => ~Opening'
    BY <1>2, <1>6 DEF Core, EventInv
  <2> QED BY <2>2, <2>3, <2>4, <2>5, <2>6, <1>2, <1>3 DEF EventInv
<1>12. StartInv'
  <2> SUFFICES ASSUME sent = 0  PROVE StartInv'
    BY <1>2 DEF StartInv
  <2>1. Opening /\ rcvd = 0 /\ rx = NoRx /\ rtimer.type = "off"
        /\ (\A i \in 1 .. Len(sar_req) : sar_req[i].kind = "read")
        /\ events[1].type \in Syns /\ events[1].cnt = 0
    BY <1>2 DEF Core, StartInv, Syns
  <2>2. \A i \in 1 .. Len(sar_req') : sar_req'[i].kind = "read"
    BY <2>1, <1>7
  <2> QED BY <2>1, <2>2, <1>1, <1>2, <1>3, <1>6 DEF StartInv
<1>13. WindowInv'
  BY <1>2, <1>6, <1>9 DEF Core, WindowInv, Ready
<1>14. PendingInv'
  <2>1. \A i \in 1 .. Len(sar_req') : sar_req'[i].kind = "write" =>
          i \in 1 .. Len(sar_req) /\ sar_req'[i] = sar_req[i]
    BY <1>7
  <2>2. ASSUME NEW q \in Requests, NEW i \in 1 .. Len(sar_req), sar_req[i] = q, q.kind = "write"
        PROVE  PendingOK(q)'
    <3>1. PendingOK(q)
      BY <2>2 DEF Core, PendingInv
    <3> QED BY <3>1, <1>2, <1>6 DEF PendingOK
  <2>3. \A i \in 1 .. Len(sar_req') : sar_req'[i].kind = "write" => PendingOK(sar_req[i])'
    <3> SUFFICES ASSUME NEW i \in 1 .. Len(sar_req'), sar_req'[i].kind = "write"
                 PROVE  PendingOK(sar_req[i])'
      OBVIOUS
    <3>1. sar_req'[i] \in Requests
      BY <1>0, In DEF TInv, TSar
    <3>2. PICK q \in Requests : q = sar_req'[i]
      BY <3>1
    <3>3. PendingOK(q)'
      BY <3>2, <2>1, <2>2
    <3> QED BY <3>2, <3>3 DEF PendingOK
  <2>4. ASSUME NEW i \in 1 .. Len(sar_req'), NEW j \in 1 .. Len(sar_req'), i < j,
               sar_req'[i].kind = "write", sar_req'[j].kind = "write"
        PROVE  Off(sar_req'[i].not_ackd) <= Off(sar_req'[j].not_ackd)
    <3>1. i \in 1 .. Len(sar_req) /\ j \in 1 .. Len(sar_req)
          /\ sar_req'[i] = sar_req[i] /\ sar_req'[j] = sar_req[j]
      BY <2>4, <2>1
    <3> QED BY <3>1, <2>4 DEF Core, PendingInv
  <2> QED BY <2>3, <2>4 DEF PendingInv
<1>15. FreshInv'
  BY <1>2, <1>5 DEF FreshInv
<1>16. BurstInv' /\ FinInv' /\ RtInv'
  BY <1>3, <1>0 DEF BurstInv, FinInv, RtInv, TInv, TFsm
<1>17. RxInv'
  BY <1>2, <1>6, <1>9 DEF Core, RxInv
<1>18. SegInv'
  BY <1>2, NoSegmentLegal
<1> QED BY <1>10, <1>11, <1>12, <1>13, <1>14, <1>15, <1>16, <1>17, <1>18 DEF Core

\* A handler that clears the registers and asks for nothing.
LEMMA HandlerDone ==
  ASSUME TInv, TInv', Core, UNCHANGED <<sar, sar_req, events, rx, rcvd, written, conn>>,
         fsm.type # "LOAD", sent >= 1, sent' >= sent, sent' <= WrittenTo + 1, sar_rsp' = <<>>,
         \A i \in 1 .. Len(sar_req) : sar_req[i].kind # "read",
         rtimer'.type = "RT" \/ ptimer' => ~Opening, fsm' = Load, SegInv'
  PROVE  Core'
<1>1. BurstInv' /\ FinInv' /\ RtInv' /\ fsm'.type = "LOAD" /\ ~fsm'.loaded
  BY Done
<1> QED BY <1>1, HandlerStep

LEMMA FlagSegmentLegal ==
  ASSUME seg'.type \in {"ACK", "SYN", "SYN_ACK", "RST", "none"}  PROVE SegInv'
BY DEF SegInv, SentIsWritten, WithinWindow, FinIsLast

\* What a handler other than LOAD and the first SYN starts from.
LEMMA Started ==
  ASSUME TInv, Core, fsm.type # "LOAD", fsm.type \in Syns => fsm.cnt # 0  PROVE sent >= 1
<1>1. sent # 0
  BY DEF Core, StartInv
<1> QED BY <1>1, Offsets

LEMMA CoreTxAck == ASSUME TInv, Core, TxAck  PROVE Core'
<1>1. TInv'
  BY TypeTxAck
<1>2. /\ fsm.type = "ACK" /\ (fsm.loaded \/ sar_rsp # <<>>) /\ TakeAnswer
      /\ Emit([type |-> "ACK", seq |-> Answer.not_ackd], 0) /\ fsm' = Load
      /\ UNCHANGED <<sar, sar_req, events, rx, rtimer, ptimer, rcvd, written, conn>>
  BY DEF TxAck, Answered, timers, world
<1>3. ~fsm.loaded
  BY <1>2 DEF TInv, TFsm
<1>4. /\ sar_rsp' = <<>> /\ (\A i \in 1 .. Len(sar_req) : sar_req[i].kind # "read")
      /\ ~InitPending /\ (sent >= 1 => Fresh(Answer))
  BY <1>2, <1>3, Asking
<1>5. sent >= 1 /\ Answer \in Answers
  BY <1>2, Started, AnswerIn DEF Syns
<1>6. NotedTo <= sent /\ sent <= WrittenTo + 1
  BY <1>4, <1>5, Running
<1>7. PICK s : s = [type |-> "ACK", seq |-> Answer.not_ackd]
  OBVIOUS
<1>8. s \in FlagSegs /\ s.type = "ACK" /\ s.seq = Answer.not_ackd
  BY <1>5, <1>7, RecordKinds DEF FlagSegs
<1>9. seg' = s /\ sent' >= sent /\ sent' \in {sent, Off(s.seq) + 0}
  <2>1. s \notin DataSegs /\ 0 \in Nat
    BY <1>8 DEF DataSegs, Datas
  <2> QED BY <2>1, <1>2, <1>7, <1>8, SegmentLeaves
<1>10. sent' = sent
  <2>1. Off(s.seq) = NotedTo
    BY <1>4, <1>5, <1>8 DEF Fresh, Same, NotedTo
  <2>2. NotedTo \in Nat /\ sent \in Nat
    BY Offsets
  <2>3. Off(s.seq) + 0 = NotedTo
    BY <2>1, <2>2
  <2> QED BY <2>2, <2>3, <1>6, <1>9
<1>11. SegInv'
  BY <1>8, <1>9, FlagSegmentLegal
<1>12. rtimer'.type = "RT" \/ ptimer' => ~Opening
  BY <1>2 DEF Core, EventInv
<1> QED BY <1>1, <1>2, <1>4, <1>5, <1>6, <1>9, <1>10, <1>11, <1>12, HandlerDone

LEMMA CoreTxRst == ASSUME TInv, Core, TxRst, Healthy, Healthy'  PROVE Core'
<1>1. TInv'
  BY TypeTxRst
<1>2. /\ fsm.type \in {"RST", "RST_NO_SESSION"} /\ fsm' = Load
      /\ UNCHANGED <<sar, sar_req, events, rx, rtimer, ptimer, rcvd, written, conn>>
  BY DEF TxRst, timers, world
<1>3. ~(fsm.type = "RST" /\ sar_rsp = <<>>)
  BY DEF TxRst, Healthy
<1>4. /\ sent' = sent /\ seg'.type = "RST"
      /\ sar_rsp' = IF fsm.type = "RST" THEN Tail(sar_rsp) ELSE sar_rsp
  BY <1>3 DEF TxRst
<1>5. ~fsm.loaded
  BY <1>2 DEF TInv, TFsm
<1>6. sar_rsp' = <<>> /\ \A i \in 1 .. Len(sar_req) : sar_req[i].kind # "read"
  <2>1. CASE fsm.type = "RST"
    <3>1. TakeAnswer /\ sar_rsp # <<>>
      BY <2>1, <1>3, <1>4, <1>5 DEF TakeAnswer
    <3> QED BY <3>1, Asking
  <2>2. CASE fsm.type # "RST"
    <3>1. ~Waiting
      BY <2>2, <1>2 DEF Waiting, AsksSar
    <3> QED BY <3>1, <2>2, <1>4 DEF Core, QueueInv
  <2> QED BY <2>1, <2>2
<1>7. sent >= 1 /\ sent \in Nat /\ sent <= WrittenTo + 1
  BY <1>2, Started, Offsets DEF Syns, Core, WindowInv
<1>8. SegInv'
  BY <1>4, FlagSegmentLegal
<1>9. rtimer'.type = "RT" \/ ptimer' => ~Opening
  BY <1>2 DEF Core, EventInv
<1>10. sent' >= sent /\ sent' <= WrittenTo + 1
  BY <1>4, <1>7
<1> QED BY <1>1, <1>2, <1>6, <1>7, <1>8, <1>9, <1>10, HandlerDone

\* A SYN leaves with the initial sequence number, and the timer is a SYN's.
LEMMA SynFacts ==
  ASSUME TInv, TxSyn, Healthy, Healthy'
  PROVE  /\ fsm.type \in Syns /\ ~fsm.loaded /\ (AsksSar(fsm) => sar_rsp # <<>>)
         /\ seg'.type = fsm.type /\ sent' >= sent /\ sent' \in {sent, 1} /\ sent' >= 1
         /\ sar_rsp' = IF AsksSar(fsm) THEN Tail(sar_rsp) ELSE sar_rsp
         /\ IF fsm.cnt = 0
            THEN Len(sar_req) < Depth /\ sar_req' = Append(sar_req, InitReq(Plus(Isn, 1)))
            ELSE UNCHANGED sar_req
         /\ rtimer'.type = fsm.type /\ fsm' = Load
         /\ UNCHANGED <<sar, events, rx, ptimer, rcvd, written, conn>>
<1>1. /\ fsm.type \in Syns /\ (AsksSar(fsm) => sar_rsp # <<>>)
      /\ Emit([type |-> fsm.type, seq |-> IF fsm.cnt # 0 THEN Head(sar_rsp).ackd ELSE Isn], 1)
      /\ sar_rsp' = IF AsksSar(fsm) THEN Tail(sar_rsp) ELSE sar_rsp
      /\ IF fsm.cnt = 0
         THEN Len(sar_req) < Depth /\ sar_req' = Append(sar_req, InitReq(Plus(Isn, 1)))
         ELSE UNCHANGED sar_req
      /\ rtimer' = [rtimer EXCEPT !.type = fsm.type] /\ fsm' = Load
      /\ UNCHANGED <<sar, events, rx, ptimer, rcvd, written, conn>>
  BY DEF TxSyn, Room, Syns, world
<1>2. fsm.cnt # 0 => Head(sar_rsp).ackd = Isn
  BY DEF TxSyn, Healthy
<1>3. ~fsm.loaded
  BY <1>1 DEF TInv, TFsm, Syns
<1>4. PICK s : s = [type |-> fsm.type, seq |-> Isn]
  OBVIOUS
<1>5. s \in FlagSegs /\ s.type = fsm.type /\ s.seq = Isn
  BY <1>1, <1>4, Ints DEF FlagSegs, Syns
<1>6. Emit(s, 1)
  BY <1>1, <1>2, <1>4
<1>7. seg' = s /\ sent' >= sent /\ sent' >= Off(Isn) + 1 /\ sent' \in {sent, Off(Isn) + 1}
  <2>1. s \notin DataSegs /\ 1 \in Nat
    BY <1>1, <1>5 DEF DataSegs, Datas, Syns
  <2> QED BY <2>1, <1>1, <1>5, <1>6, SegmentLeaves
<1>8. Off(Isn) + 1 = 1
  BY OffIsn
<1>9. rtimer'.type = fsm.type
  <2>1. rtimer \in [type : {"off", "SYN", "SYN_ACK", "RT"}, cnt : 0 .. 2]
    BY DEF TInv, TRest
  <2> QED BY <2>1, <1>1
<1> QED BY <1>1, <1>3, <1>5, <1>7, <1>8, <1>9

LEMMA CoreTxSyn == ASSUME TInv, Core, TxSyn, Healthy, Healthy'  PROVE Core'
<1>1. TInv'
  BY TypeTxSyn
<1>2. /\ fsm.type \in Syns /\ ~fsm.loaded /\ (AsksSar(fsm) => sar_rsp # <<>>)
      /\ seg'.type = fsm.type /\ sent' >= sent /\ sent' \in {sent, 1} /\ sent' >= 1
      /\ sar_rsp' = IF AsksSar(fsm) THEN Tail(sar_rsp) ELSE sar_rsp
      /\ IF fsm.cnt = 0
         THEN Len(sar_req) < Depth /\ sar_req' = Append(sar_req, InitReq(Plus(Isn, 1)))
         ELSE UNCHANGED sar_req
      /\ rtimer'.type = fsm.type /\ fsm' = Load
      /\ UNCHANGED <<sar, events, rx, ptimer, rcvd, written, conn>>
  BY SynFacts
<1>3. SegInv'
  BY <1>2, FlagSegmentLegal DEF Syns
<1>4. CASE fsm.cnt # 0
  <2>0. sent >= 1
    BY <1>2, <1>4, Started DEF Syns
  <2>1. CASE AsksSar(fsm)
    <3>1. sar_rsp # <<>> /\ TakeAnswer
      BY <2>1, <1>2 DEF TakeAnswer
    <3>2. sar_rsp' = <<>> /\ ~InitPending /\ \A i \in 1 .. Len(sar_req) : sar_req[i].kind # "read"
      BY <3>1, <1>2, Asking
    <3>3. sent <= WrittenTo + 1 /\ 1 <= sent /\ sent \in Nat
      BY <2>0, Offsets DEF Core, WindowInv
    <3>4. sent' <= WrittenTo + 1
      BY <3>3, <1>2, Offsets
    <3>5. rtimer'.type = "RT" \/ ptimer' => ~Opening
      BY <1>2 DEF Core, EventInv, Syns
    <3> QED BY <2>0, <3>2, <3>4, <3>5, <1>1, <1>2, <1>3, <1>4, HandlerDone DEF Syns
  <2>2. CASE ~AsksSar(fsm)
    BY <2>2, <1>2, <1>4 DEF AsksSar, Syns
  <2> QED BY <2>1, <2>2
<1>5. CASE fsm.cnt = 0
  <2>1. sent = 0
    BY <1>2, <1>5 DEF Core, EventInv
  <2>2. Opening /\ rcvd = 0 /\ rx = NoRx /\ rtimer.type = "off"
        /\ \A i \in 1 .. Len(sar_req) : sar_req[i].kind = "read"
    BY <2>1 DEF Core, StartInv
  <2>3. sent' = 1
    BY <2>1, <1>2
  <2>4. sar_rsp' = <<>> /\ \A i \in 1 .. Len(sar_req) : sar_req[i].kind # "read"
    <3>1. CASE AsksSar(fsm)
      <4>1. sar_rsp # <<>> /\ TakeAnswer
        BY <3>1, <1>2 DEF TakeAnswer
      <4> QED BY <4>1, Asking
    <3>2. CASE ~AsksSar(fsm)
      <4>1. ~Waiting
        BY <3>2 DEF Waiting
      <4> QED BY <4>1, <3>2, <1>2 DEF Core, QueueInv
    <3> QED BY <3>1, <3>2
  <2>5. Len(sar_req') = 1 /\ sar_req'[1].kind = "init"
    <3>1. sar_req \in Seq(Requests) /\ Len(sar_req) \in Nat
      BY In DEF TInv, TSar
    <3>2. Len(sar_req) = 0
      BY <2>2, <2>4, <3>1
    <3>3. InitReq(Plus(Isn, 1)) \in Requests /\ InitReq(Plus(Isn, 1)).kind = "init"
      BY RequestKinds
    <3>4. Grows(sar_req, sar_req', InitReq(Plus(Isn, 1)))
      BY <3>1, <3>3, <1>2, <1>5, Wr
    <3> QED BY <3>2, <3>3, <3>4 DEF Grows
  <2>6. InitPending' /\ Opening'
    BY <2>2, <2>5, <1>2 DEF InitPending, Opening
  <2>7. QueueInv'
    BY <2>4, <2>5, <2>6 DEF QueueInv
  <2>8. EventInv'
    <3>1. \A i \in 1 .. Len(events) :
            EventOK(events[i], conn) /\ ~(events[i].type \in Syns /\ events[i].cnt = 0)
      BY <1>2 DEF Core, EventInv, Syns
    <3>2. ~ptimer /\ rtimer'.type # "RT"
      BY <2>2, <1>2 DEF Core, EventInv, Syns
    <3> QED BY <3>1, <3>2, <1>2, LoadFacts DEF EventInv, Syns
  <2>9. StartInv'
    BY <2>3 DEF StartInv
  <2>10. WindowInv'
    <3>1. written = 0 /\ (sar.fin_is_ready \/ sar.fin_is_sent => conn \in Ended)
      BY <2>2 DEF Core, WindowInv
    <3>2. WrittenTo' = 1 /\ ~Ready'
      BY <3>1, <2>6, <1>2 DEF WrittenTo, Ready
    <3> QED BY <3>1, <3>2, <2>3, <2>6, <1>2 DEF WindowInv
  <2>11. PendingInv'
    BY <2>5 DEF PendingInv
  <2>12. FreshInv' /\ RxInv'
    BY <2>2, <2>4, <1>2 DEF FreshInv, RxInv
  <2>13. BurstInv' /\ FinInv' /\ RtInv'
    BY <1>2, Done
  <2> QED BY <1>3, <2>7, <2>8, <2>9, <2>10, <2>11, <2>12, <2>13 DEF Core
<1> QED BY <1>4, <1>5

-----------------------------------------------------------------------------
(* FIN.                                                                      *)

\* Comparing the low bits tells whether all has been sent.
LEMMA AllSentOff ==
  ASSUME NEW r \in Answers, NEW n \in Seqs, NEW w \in Nat, r.app_written = Low(Isn + w),
         -BufMod < Off(n) - w, Off(n) - w < BufMod
  PROVE  AllSent(r, n) <=> Off(n) = w
<1>1. PICK m \in Nat : m = Off(n)
  BY OffFacts
<1>2. PICK u \in Int, v \in Int : u = Isn + m /\ v = Isn + w
  BY Sizes
<1>3. Low(n) = Low(u)
  BY <1>1, <1>2, LowOff
<1>4. -BufMod < u - v /\ u - v < BufMod /\ (u = v <=> m = w)
  <2>1. u - v = m - w
    BY <1>2, Sizes
  <2> QED BY <2>1, <1>1, <1>2, Sizes
<1>5. Low(u) = Low(v) => u = v
  BY <1>4, LowEq
<1> QED BY <1>1, <1>2, <1>3, <1>4, <1>5 DEF AllSent

\* Where the FIN state stands: before the end of what was written, at it, or behind a FIN that
\* was sent.
LEMMA FinReady ==
  ASSUME TInv, Core, TxFin
  PROVE  /\ Answer \in Answers /\ conn \in Ended /\ sent >= 1 /\ sar_rsp' = <<>>
         /\ fsm.type = "FIN"
         /\ \A i \in 1 .. Len(sar_req) : sar_req[i].kind # "read"
         /\ Answer.app_written = Low(Isn + WrittenTo)
         /\ NotedTo <= Off(Answer.not_ackd) /\ Off(Answer.not_ackd) <= sent
         /\ WrittenTo - Off(Answer.not_ackd) < BufMod
         /\ \/ Off(Answer.not_ackd) <= WrittenTo /\ fsm.cnt = 0
            \/ Off(Answer.not_ackd) = WrittenTo + 1 /\ sar.fin_is_sent
         /\ \A i \in 1 .. Len(sar_req) :
              sar_req[i].kind = "write" => Off(sar_req[i].not_ackd) <= Off(Answer.not_ackd)
<1>1. fsm.type = "FIN" /\ (fsm.loaded \/ sar_rsp # <<>>) /\ TakeAnswer
  BY DEF TxFin, Answered
<1>2. PICK r \in Answers : r = Answer
  BY <1>1, AnswerIn
<1>3. sent >= 1
  BY <1>1, Started DEF Syns
<1>4. /\ sar_rsp' = <<>> /\ (\A i \in 1 .. Len(sar_req) : sar_req[i].kind # "read")
      /\ ~fsm.loaded => sar_req = <<>> /\ ~InitPending /\ Fresh(r)
  BY <1>1, <1>2, <1>3, Asking
<1>5. PICK k \in Nat : k = Off(r.not_ackd)
  BY RecordKinds, OffFacts
<1>6. conn \in Ended /\ ~InitPending
  <2>1. CASE fsm.loaded
    <3>1. conn \in Ended
      BY <2>1, <1>1 DEF Core, FinInv, Closing
    <3>2. ~Opening
      BY <3>1 DEF Opening, Ended
    <3> QED BY <3>1, <3>2, IsOpen
  <2>2. CASE ~fsm.loaded
    <3>1. EventOK(fsm, conn)
      BY <2>2, <1>1 DEF Core, EventInv
    <3> QED BY <3>1, <2>2, <1>1, <1>4 DEF EventOK
  <2> QED BY <2>1, <2>2
<1>7. /\ AckedTo <= NotedTo /\ NotedTo <= sent /\ NotedTo <= WrittenTo + FinOf(sar)
      /\ (sar.fin_is_sent => NotedTo = WrittenTo + 1) /\ WrittenTo - AckedTo <= BufMod - 1
  BY <1>3, <1>6, Running
<1>8. /\ r.app_written = Low(Isn + WrittenTo) /\ NotedTo <= k /\ k <= sent
      /\ \/ k <= WrittenTo /\ fsm.cnt = 0
         \/ k = WrittenTo + 1 /\ sar.fin_is_sent
      /\ \A i \in 1 .. Len(sar_req) : sar_req[i].kind = "write" => Off(sar_req[i].not_ackd) <= k
  <2>1. CASE fsm.loaded
    <3>1. Closing(r)
      BY <2>1, <1>1, <1>2 DEF Core, FinInv, Answer
    <3>2. k = WrittenTo => k <= WrittenTo
      BY <1>5
    <3> QED BY <3>1, <3>2, <1>5 DEF Closing
  <2>2. CASE ~fsm.loaded
    <3>1. sar_req = <<>> /\ Fresh(r)
      BY <2>2, <1>4
    <3>2. r.not_ackd = sar.not_ackd /\ r.fin_is_sent = sar.fin_is_sent /\ k = NotedTo
          /\ (r.fin_is_sent => r.app_written = Low(Isn + WrittenTo))
      BY <3>1, <1>5 DEF Fresh, Same, NotedTo
    <3>3. Len(sar_req) = 0
      BY <3>1, Idle
    <3>4. fsm.cnt = 0
      <4>1. EventOK(fsm, conn)
        BY <2>2, <1>1 DEF Core, EventInv
      <4> QED BY <4>1, <1>1 DEF EventOK
    <3>5. CASE r.fin_is_sent
      BY <3>2, <3>3, <3>5, <1>5, <1>7
    <3>6. CASE ~r.fin_is_sent
      <4>1. Unsent(r, r.curr_length) /\ k + r.curr_length = WrittenTo
        BY <3>1, <3>6, <1>1, <1>5 DEF Fresh
      <4>2. r.app_written = Low(Isn + WrittenTo)
        BY <4>1, <1>5 DEF Unsent
      <4>3. k <= WrittenTo
        <5>1. r.curr_length \in Nat
          BY RecordKinds, Ints
        <5> QED BY <5>1, <4>1, <1>5
      <4> QED BY <4>2, <4>3, <3>2, <3>3, <3>4, <1>5, <1>7
    <3> QED BY <3>5, <3>6
  <2> QED BY <2>1, <2>2
<1>9. WrittenTo - k < BufMod
  <2>1. PICK a \in Nat, n \in Nat, w \in Nat : a = AckedTo /\ n = NotedTo /\ w = WrittenTo
    BY Offsets
  <2>2. a <= n /\ n <= k /\ w - a <= BufMod - 1
    BY <2>1, <1>7, <1>8
  <2>3. w - k < BufMod
    BY <2>2, <1>5, Sizes
  <2> QED BY <2>1, <2>3
<1> QED BY <1>1, <1>2, <1>3, <1>4, <1>5, <1>6, <1>8, <1>9

LEMMA CoreTxFin == ASSUME TInv, Core, TxFin  PROVE Core'
<1>0. TInv'
  BY TypeTxFin
<1>1. /\ Answer \in Answers /\ conn \in Ended /\ sent >= 1 /\ sar_rsp' = <<>>
      /\ fsm.type = "FIN"
      /\ \A i \in 1 .. Len(sar_req) : sar_req[i].kind # "read"
      /\ Answer.app_written = Low(Isn + WrittenTo)
      /\ NotedTo <= Off(Answer.not_ackd) /\ Off(Answer.not_ackd) <= sent
      /\ WrittenTo - Off(Answer.not_ackd) < BufMod
      /\ \/ Off(Answer.not_ackd) <= WrittenTo /\ fsm.cnt = 0
         \/ Off(Answer.not_ackd) = WrittenTo + 1 /\ sar.fin_is_sent
      /\ \A i \in 1 .. Len(sar_req) :
           sar_req[i].kind = "write" => Off(sar_req[i].not_ackd) <= Off(Answer.not_ackd)
  BY FinReady
<1>2. PICK r \in Answers, x \in Seqs, k \in Nat, w \in Nat :
        r = Answer /\ x = r.not_ackd /\ k = Off(x) /\ w = WrittenTo
  BY <1>1, RecordKinds, OffFacts, Offsets
<1>3. PICK done \in BOOLEAN : done = AllSent(r, x)
  BY DEF AllSent
<1>4. PICK next : next = IF done THEN Plus(x, 1) ELSE x
  OBVIOUS
<1>5. /\ sar_req' = (IF fsm.cnt # 0 THEN sar_req ELSE Append(sar_req, WriteReq(next, TRUE, done)))
      /\ IF AllSent(r, FinSeq(r))
         THEN /\ Emit([type |-> "FIN", seq |-> FinSeq(r)], 1)
              /\ rtimer' = [rtimer EXCEPT !.type = "RT"]
         ELSE NoEmit /\ UNCHANGED rtimer
      /\ fsm' = Load
      /\ UNCHANGED <<sar, events, rx, ptimer, rcvd, written, conn>>
  BY <1>2, <1>3, <1>4 DEF TxFin, world
<1>6. /\ k <= sent /\ w - k < BufMod /\ (k <= w \/ k = w + 1) /\ sent \in Nat /\ sent <= w + 1
      /\ NotedTo <= k /\ NotedTo \in Nat /\ w + BufMod + 1 < SeqMod
  BY <1>1, <1>2, Offsets DEF Core, WindowInv
<1>7. done <=> k = w
  <2>1. -BufMod < k - w /\ k - w < BufMod
    BY <1>6, Sizes
  <2> QED BY <2>1, <1>1, <1>2, <1>3, AllSentOff
<1>8. Off(Plus(x, 1)) = k + 1 /\ (k >= 1 => Off(Plus(x, -1)) = k - 1)
      /\ Plus(x, 1) \in Seqs /\ Plus(x, -1) \in Seqs
  <2>1. 1 \in Int /\ -1 \in Int /\ x \in Int
    BY Ints
  <2>2. k + 1 < SeqMod /\ 0 <= k + 1 /\ k + (-1) < SeqMod /\ (k >= 1 => 0 <= k + (-1))
    BY <1>6, Sizes
  <2>3. Off(Plus(x, 1)) = k + 1
    BY <2>1, <2>2, <1>2, OffPlus
  <2>4. k >= 1 => Off(Plus(x, -1)) = k + (-1)
    BY <2>1, <2>2, <1>2, OffPlus
  <2>5. k + (-1) = k - 1
    OBVIOUS
  <2> QED BY <2>1, <2>3, <2>4, <2>5, PlusRange
<1>9. FinSeq(r) \in Seqs /\ (AllSent(r, FinSeq(r)) <=> Off(FinSeq(r)) = w)
      /\ (Off(FinSeq(r)) = w => k = w \/ sar.fin_is_sent)
  <2>1. CASE fsm.cnt = 0
    <3>1. FinSeq(r) = x
      BY <2>1, <1>2 DEF FinSeq
    <3> QED BY <3>1, <1>2, <1>3, <1>7
  <2>2. CASE fsm.cnt # 0
    <3>1. k = w + 1 /\ sar.fin_is_sent
      BY <2>2, <1>1, <1>2
    <3>2. FinSeq(r) = Plus(x, -1)
      BY <2>2, <1>2 DEF FinSeq
    <3>3. Off(FinSeq(r)) = w
      BY <3>1, <3>2, <1>8
    <3>4. -BufMod < Off(FinSeq(r)) - w /\ Off(FinSeq(r)) - w < BufMod
      BY <3>3, Sizes
    <3>5. AllSent(r, FinSeq(r)) <=> Off(FinSeq(r)) = w
      BY <3>2, <3>4, <1>1, <1>2, <1>8, AllSentOff
    <3> QED BY <3>1, <3>2, <3>5, <1>8
  <2> QED BY <2>1, <2>2
<1>10. /\ sent' >= sent /\ sent' <= w + 1 /\ sent' \in Nat
       /\ AllSent(r, FinSeq(r)) => /\ seg' = [type |-> "FIN", seq |-> FinSeq(r)]
                                   /\ Off(FinSeq(r)) = w /\ sent' >= w + 1
       /\ ~AllSent(r, FinSeq(r)) => seg' = NoSeg
  <2>1. CASE AllSent(r, FinSeq(r))
    <3>1. PICK s : s = [type |-> "FIN", seq |-> FinSeq(r)]
      OBVIOUS
    <3>2. s \in FlagSegs /\ s.type = "FIN" /\ s.seq = FinSeq(r) /\ s \notin DataSegs
      BY <3>1, <1>9 DEF FlagSegs, DataSegs, Datas
    <3>3. Emit(s, 1) /\ 1 \in Nat
      BY <2>1, <3>1, <1>5
    <3>4. seg' = s /\ sent' >= sent /\ sent' >= Off(s.seq) + 1 /\ sent' \in {sent, Off(s.seq) + 1}
      BY <3>2, <3>3, <1>5, SegmentLeaves
    <3>5. Off(s.seq) = w
      BY <2>1, <3>2, <1>9
    <3>6. sent' \in {sent, w + 1} /\ sent' >= w + 1
      BY <3>4, <3>5
    <3>7. sent' <= w + 1 /\ sent' \in Nat
      BY <3>6, <1>6
    <3> QED BY <2>1, <3>1, <3>2, <3>4, <3>5, <3>6, <3>7
  <2>2. CASE ~AllSent(r, FinSeq(r))
    <3>1. seg' = NoSeg /\ sent' = sent
      BY <2>2, <1>5 DEF NoEmit
    <3>2. sent <= w + 1
      BY <1>6
    <3> QED BY <2>2, <3>1, <3>2, <1>6
  <2> QED BY <2>1, <2>2
<1>11. SegInv'
  <2>1. CASE AllSent(r, FinSeq(r))
    <3>1. seg'.type = "FIN" /\ seg'.seq = FinSeq(r) /\ Off(FinSeq(r)) = w
      BY <2>1, <1>10
    <3>2. Off(seg'.seq) = written' + 1 /\ conn' \in Ended
      BY <3>1, <1>1, <1>2, <1>5 DEF WrittenTo
    <3> QED BY <3>1, <3>2 DEF SegInv, SentIsWritten, WithinWindow, FinIsLast
  <2>2. CASE ~AllSent(r, FinSeq(r))
    BY <2>2, <1>10, NoSegmentLegal
  <2> QED BY <2>1, <2>2
<1>12. NotedTo' = NotedTo /\ WrittenTo' = w
  BY <1>2, <1>5 DEF NotedTo, WrittenTo
<1>13. \/ sar_req' = sar_req
       \/ \E q \in Requests :
            /\ Grows(sar_req, sar_req', q) /\ ~Opening
            /\ \/ q.kind = "retrans"
               \/ /\ q.kind = "write" /\ PendingOK(q)'
                  /\ \A i \in 1 .. Len(sar_req) :
                       sar_req[i].kind = "write" => Off(sar_req[i].not_ackd) <= Off(q.not_ackd)
  <2>1. CASE fsm.cnt # 0
    BY <2>1, <1>5
  <2>2. CASE fsm.cnt = 0
    <3>1. next \in Seqs
      BY <1>2, <1>4, <1>8
    <3>2. PICK q \in Requests : q = WriteReq(next, TRUE, done)
      BY <3>1, <1>3, RequestKinds
    <3>3. q.kind = "write" /\ q.not_ackd = next /\ q.fin_is_ready /\ q.fin_is_sent = done
      BY <3>2 DEF WriteReq
    <3>4. Grows(sar_req, sar_req', q)
      <4>1. sar_req \in Seq(Requests)
        BY DEF TInv, TSar
      <4> QED BY <4>1, <2>2, <3>2, <1>5, Wr
    <3>5. ~Opening
      BY <1>1 DEF Opening, Ended
    <3>6. PICK m \in Nat : m = Off(next)
      BY <3>1, OffFacts
    <3>7. m = (IF done THEN k + 1 ELSE k) /\ k <= m
      BY <3>6, <1>2, <1>4, <1>8
    <3>8. NotedTo <= m
      BY <3>7, <1>6
    <3>9. m <= sent'
      <4>1. CASE done
        <5>1. AllSent(r, FinSeq(r))
          BY <4>1, <2>2, <1>2, <1>3 DEF FinSeq
        <5> QED BY <5>1, <4>1, <3>7, <1>7, <1>10
      <4>2. CASE ~done
        BY <4>2, <3>7, <1>6, <1>10
      <4> QED BY <4>1, <4>2
    <3>10. done => m = w + 1
      BY <3>7, <1>7
    <3>11. m <= w \/ sar.fin_is_sent \/ done
      BY <3>7, <1>1, <1>2
    <3>12. PendingOK(q)'
      BY <3>3, <3>6, <3>8, <3>9, <3>10, <3>11, <1>1, <1>5, <1>12 DEF PendingOK
    <3>13. ASSUME NEW i \in 1 .. Len(sar_req), sar_req[i].kind = "write"
           PROVE  Off(sar_req[i].not_ackd) <= Off(q.not_ackd)
      <4>1. sar_req[i] \in Requests
        BY In DEF TInv, TSar
      <4>2. PICK p \in Nat : p = Off(sar_req[i].not_ackd)
        BY <4>1, <3>13, RequestKinds, OffFacts
      <4>3. p <= k
        BY <4>2, <3>13, <1>1, <1>2
      <4> QED BY <4>2, <4>3, <3>3, <3>6, <3>7
    <3> QED BY <3>3, <3>4, <3>5, <3>12, <3>13
  <2> QED BY <2>1, <2>2
<1>14. BurstInv' /\ FinInv' /\ RtInv' /\ fsm'.type = "LOAD" /\ ~fsm'.loaded
  BY <1>5, Done
<1>15. ~Opening /\ sent' <= WrittenTo + 1 /\ fsm.type # "LOAD"
  BY <1>1, <1>2, <1>10 DEF Opening, Ended
<1> QED BY <1>0, <1>1, <1>5, <1>10, <1>11, <1>13, <1>14, <1>15, HandlerStep

-----------------------------------------------------------------------------
(* RT and RT_CONT.                                                           *)

LEMMA CoreTxRetransmit == ASSUME TInv, Core, TxRetransmit, Healthy, Healthy'  PROVE Core'
<1>0. TInv'
  BY TypeTxRetransmit
<1>1. /\ Answer \in Answers /\ fsm.type \in {"RT", "RT_CONT"} /\ (fsm.loaded \/ sar_rsp # <<>>)
      /\ (fsm.type = "RT_CONT" <=> fsm.loaded)
      /\ RtLen(Answer) = Answer.used_length_rst /\ RtLen(Answer) \in Lens
      /\ RtSize \in Lens /\ RtSize <= RtLen(Answer) /\ RtSize <= MSS
      /\ EmitData(fsm.type, Answer.ackd, RtSize, RtAddr(Answer)) /\ RtAddr(Answer) \in Lens
      /\ TakeAnswer
      /\ UNCHANGED <<sar, events, rx, ptimer, rcvd, written, conn>>
  BY TxRetransmitFacts
<1>2. \/ sar_req' = sar_req
      \/ /\ ~fsm.loaded
         /\ sar_req' = Append(sar_req, RetransReq(HalfFlight(RtLen(Answer))))
         /\ HalfFlight(RtLen(Answer)) \in Lens
  BY TxRetransmitFacts
<1>3. \/ fsm' = Load
      \/ RtLen(Answer) > MSS /\ fsm' = ContRegs(Answer)
      \/ Answer.fin_is_sent /\ fsm' = FinAgain(Answer)
  BY TxRetransmitFacts
<1>4. fsm.type = "RT" => ~(Answer.fin_is_sent /\ Answer.ackd_eq_not_ackd)
  BY TxRetransmitFacts DEF Healthy
<1>5. PICK r \in Answers, x \in Seqs, a \in Nat, len \in Lens, all \in Nat, addr \in Lens :
        /\ r = Answer /\ x = r.ackd /\ a = Off(x) /\ len = RtSize /\ all = RtLen(Answer)
        /\ addr = RtAddr(Answer)
  <2>1. Answer.ackd \in Seqs /\ RtLen(Answer) \in Nat
    BY <1>1, RecordKinds, Ints
  <2>2. Off(Answer.ackd) \in Nat
    BY <2>1, OffFacts
  <2> QED BY <2>1, <2>2, <1>1
<1>6. sent >= 1
  BY <1>1, Started DEF Syns
<1>7. /\ sar_rsp' = <<>> /\ (\A i \in 1 .. Len(sar_req) : sar_req[i].kind # "read")
      /\ ~fsm.loaded => sar_req = <<>> /\ Fresh(r)
  BY <1>1, <1>5, <1>6, Asking
<1>8. ~Opening /\ ~InitPending
  <2>1. ~Opening
    <3>1. CASE fsm.loaded
      BY <3>1 DEF Core, EventInv
    <3>2. CASE ~fsm.loaded
      <4>1. EventOK(fsm, conn)
        BY <3>2, <1>1 DEF Core, EventInv
      <4> QED BY <4>1, <1>1 DEF EventOK, Opening, Syns, Rsts
    <3> QED BY <3>1, <3>2
  <2> QED BY <2>1, IsOpen
<1>9. Same(r) /\ Again(r)
  <2>1. CASE fsm.loaded
    <3>1. r = fsm.rsp /\ fsm.type = "RT_CONT"
      BY <2>1, <1>1, <1>5 DEF Answer
    <3> QED BY <3>1 DEF Core, RtInv
  <2>2. CASE ~fsm.loaded
    <3>1. fsm.type = "RT" /\ Fresh(r)
      BY <2>2, <1>1, <1>7
    <3>2. ~(r.fin_is_sent /\ r.ackd_eq_not_ackd)
      BY <3>1, <1>4, <1>5
    <3> QED BY <3>1, <3>2 DEF Fresh
  <2> QED BY <2>1, <2>2
<1>10. PICK n \in Nat, w \in Nat, f \in {0, 1} : n = NotedTo /\ w = WrittenTo /\ f = FinOf(sar)
  BY Offsets
<1>11. FinOf(r) = f
  BY <1>9, <1>10 DEF Same, FinOf
<1>12. a >= 1 /\ a + all = n - f /\ len <= all /\ len \in Nat
  <2>1. r.used_length_rst = all
    BY <1>1, <1>5
  <2>2. len <= all /\ len \in Nat
    BY <1>1, <1>5, Ints
  <2> QED BY <2>1, <2>2, <1>5, <1>9, <1>10, <1>11 DEF Again
<1>13. n <= sent /\ sent <= w + 1 /\ n <= w + f /\ sent \in Nat /\ w + BufMod + 1 < SeqMod
       /\ (sar.fin_is_sent => n = w + 1) /\ (sar.fin_is_sent => conn \in Ended)
  BY <1>6, <1>8, <1>10, Running, Offsets
<1>14. a + len <= w /\ a + len <= sent
  BY <1>12, <1>13
<1>15. fsm.type \in Datas /\ EmitData(fsm.type, x, len, addr)
  BY <1>1, <1>5 DEF Datas
<1>16. /\ len = 0 => seg' = NoSeg /\ sent' = sent /\ rtimer' = rtimer
       /\ len # 0 => /\ seg' = [type |-> fsm.type, seq |-> x, len |-> len, addr |-> addr]
                     /\ sent' \in {sent, a + len} /\ sent' >= sent
  BY <1>1, <1>5, <1>15, DataLeaves
<1>17. sent' = sent
  BY <1>12, <1>13, <1>14, <1>16
<1>18. SegInv'
  <2>1. CASE len = 0
    BY <2>1, <1>16, NoSegmentLegal
  <2>2. CASE len # 0
    <3>1. seg'.type \in {"RT", "RT_CONT"} /\ seg'.seq = x /\ seg'.len = len
      BY <2>2, <1>1, <1>16
    <3>2. written' + 1 = w
      BY <1>1, <1>10 DEF WrittenTo
    <3>3. Off(seg'.seq) >= 1 /\ Off(seg'.seq) + seg'.len <= written' + 1
      BY <3>1, <3>2, <1>5, <1>12, <1>14
    <3> QED BY <3>1, <3>3 DEF SegInv, SentIsWritten, WithinWindow, FinIsLast
  <2> QED BY <2>1, <2>2
<1>19. \/ sar_req' = sar_req
       \/ \E q \in Requests : Grows(sar_req, sar_req', q) /\ ~Opening /\ q.kind = "retrans"
  <2>1. CASE sar_req' = sar_req
    BY <2>1
  <2>2. CASE sar_req' # sar_req
    <3>1. PICK h \in Lens : sar_req' = Append(sar_req, RetransReq(h))
      BY <2>2, <1>2
    <3>2. RetransReq(h) \in Requests /\ RetransReq(h).kind = "retrans"
      BY RequestKinds
    <3>3. sar_req \in Seq(Requests)
      BY DEF TInv, TSar
    <3>4. Grows(sar_req, sar_req', RetransReq(h))
      BY <3>1, <3>2, <3>3, Wr
    <3> QED BY <3>2, <3>4, <1>8
  <2> QED BY <2>1, <2>2
<1>20. \A i \in 1 .. Len(sar_req') : sar_req'[i].kind = "retrans"
  <2>1. CASE fsm.loaded
    <3>1. sar_req' = sar_req /\ fsm.type = "RT_CONT"
      BY <2>1, <1>1, <1>2
    <3> QED BY <3>1 DEF Core, RtInv
  <2>2. CASE ~fsm.loaded
    <3>1. Len(sar_req) = 0
      BY <2>2, <1>7, Idle
    <3> QED BY <3>1, <1>19 DEF Grows
  <2> QED BY <2>1, <2>2
<1>21. NotedTo' = n /\ WrittenTo' = w /\ sar' = sar
  BY <1>1, <1>10 DEF NotedTo, WrittenTo
<1>22. /\ BurstInv' /\ FinInv' /\ RtInv' /\ (fsm'.type = "LOAD" \/ fsm'.loaded)
       /\ fsm'.type # "TX"
  <2>1. CASE fsm' = Load
    BY <2>1, Done
  <2>2. CASE RtLen(Answer) > MSS /\ fsm' = ContRegs(Answer)
    <3>1. fsm \in Fsms
      BY DEF TInv, TFsm
    <3>2. PICK c \in Answers : c = ContRsp(r)
      BY <3>1, RtRegsType
    <3>3. /\ c.ackd = Plus(x, MSS) /\ c.used_length_rst = Low(all - MSS)
          /\ c.not_ackd = r.not_ackd /\ c.app_written = r.app_written /\ c.fin_is_sent = r.fin_is_sent
      BY <3>1, <3>2, <1>1, <1>5, RtRegsType
    <3>4. fsm'.type = "RT_CONT" /\ fsm'.loaded /\ fsm'.rsp = c
      BY <2>2, <3>1, <3>2, <1>5, RtRegsType
    <3>5. Same(c)'
      BY <3>3, <1>1, <1>9, <1>10, <1>21 DEF Same
    <3>6. all > MSS /\ all < BufMod
      BY <2>2, <1>1, <1>5, Ints
    <3>7. Off(Plus(x, MSS)) = a + MSS
      <4>1. 0 <= a + MSS /\ a + MSS < SeqMod
        BY <3>6, <1>12, <1>13, Sizes
      <4> QED BY <4>1, <1>5, OffPlus, Sizes
    <3>8. Low(all - MSS) = all - MSS
      <4>1. 0 <= all - MSS /\ all - MSS < BufMod /\ all - MSS \in Int
        BY <3>6, Sizes
      <4> QED BY <4>1, ModSmall, Sizes DEF Low
    <3>9. a + MSS >= 1 /\ (a + MSS) + (all - MSS) = n - f
      BY <1>12, Sizes
    <3>10. FinOf(c) = f
      BY <3>3, <1>11 DEF FinOf
    <3>11. Again(c)'
      BY <3>3, <3>7, <3>8, <3>9, <3>10, <1>21 DEF Again, FinOf
    <3> QED BY <3>4, <3>5, <3>11, <1>20 DEF BurstInv, FinInv, RtInv
  <2>3. CASE Answer.fin_is_sent /\ fsm' = FinAgain(Answer)
    <3>1. fsm \in Fsms
      BY DEF TInv, TFsm
    <3>2. fsm'.type = "FIN" /\ fsm'.loaded /\ fsm'.rsp = r
      BY <2>3, <3>1, <1>5, RtRegsType
    <3>3. sar.fin_is_sent /\ r.app_written = Low(Isn + WrittenTo) /\ Off(r.not_ackd) = n
      BY <2>3, <1>5, <1>9, <1>10 DEF Same, NotedTo
    <3>4. n = w + 1 /\ conn \in Ended
      BY <3>3, <1>13
    <3>5. Closing(r)'
      BY <3>3, <3>4, <1>1, <1>10, <1>13, <1>17, <1>20, <1>21 DEF Closing
    <3> QED BY <3>2, <3>5 DEF BurstInv, FinInv, RtInv
  <2> QED BY <2>1, <2>2, <2>3, <1>3
<1>23. fsm.type # "LOAD" /\ sent' >= sent /\ sent' <= WrittenTo + 1
  BY <1>1, <1>10, <1>13, <1>17
<1>24. \/ sar_req' = sar_req
       \/ \E q \in Requests :
            /\ Grows(sar_req, sar_req', q) /\ ~Opening
            /\ \/ q.kind = "retrans"
               \/ /\ q.kind = "write" /\ PendingOK(q)'
                  /\ \A i \in 1 .. Len(sar_req) :
                       sar_req[i].kind = "write" => Off(sar_req[i].not_ackd) <= Off(q.not_ackd)
  BY <1>19, Zenon
<1> QED BY <1>0, <1>1, <1>6, <1>7, <1>8, <1>18, <1>22, <1>23, <1>24, HandlerStep

-----------------------------------------------------------------------------
(* TX.                                                                       *)

\* Where a burst stands: what the answer or the registers say.
LEMMA BurstReady ==
  ASSUME TInv, Core, TxData, Healthy, Healthy'
  PROVE  /\ Answer \in Answers /\ fsm.type = "TX" /\ fsm.cnt = 0 /\ ~Opening /\ sent >= 1
         /\ sar_req = <<>> /\ sar_rsp' = <<>>
         /\ ~Answer.fin_is_sent /\ ~sar.fin_is_sent
         /\ WindowOf(Answer) /\ Budget(Answer, Used, Usable) /\ Unsent(Answer, Curr)
         /\ NotedTo <= Off(Answer.not_ackd) /\ Off(Answer.not_ackd) <= sent /\ 1 <= NotedTo
         /\ SegSize = MSS => Curr - MSS < LenMod /\ Used + MSS < LenMod
<1>1. /\ Answer \in Answers /\ fsm.type = "TX" /\ (fsm.loaded \/ sar_rsp # <<>>) /\ TakeAnswer
      /\ Curr \in Lens /\ Used \in Lens
      /\ deviation' = IF ~Healthy THEN deviation
                      ELSE IF Answer.fin_is_sent THEN "tx_after_fin"
                      ELSE IF CutsLength(Curr, Used, SegSize) THEN "length_cut" ELSE "none"
  BY TxDataFacts
<1>2. ~Answer.fin_is_sent /\ ~CutsLength(Curr, Used, SegSize)
  BY <1>1 DEF Healthy
<1>3. SegSize = MSS => Curr - MSS < LenMod /\ Used + MSS < LenMod
  <2>1. PICK c \in Int, u \in Int : c = Curr /\ u = Used
    BY <1>1, Ints
  <2>2. SegSize = MSS => ~(c - MSS >= LenMod) /\ ~(u + MSS >= LenMod)
    BY <2>1, <1>2 DEF CutsLength
  <2> QED BY <2>1, <2>2, Sizes
<1>4. sent >= 1
  BY <1>1, Started DEF Syns
<1>5. sar_rsp' = <<>> /\ (~fsm.loaded => sar_req = <<>> /\ Fresh(Answer))
  BY <1>1, <1>4, Asking
<1>6. fsm.cnt = 0
  BY <1>1 DEF Core, EventInv
<1>7. ~Opening
  <2>1. CASE fsm.loaded
    BY <2>1 DEF Core, EventInv
  <2>2. CASE ~fsm.loaded
    <3>1. EventOK(fsm, conn)
      BY <2>2, <1>1 DEF Core, EventInv
    <3> QED BY <3>1, <1>1 DEF EventOK, Opening, Syns, Rsts
  <2> QED BY <2>1, <2>2
<1>8. 1 <= NotedTo /\ NotedTo <= sent
  BY <1>4, <1>7, IsOpen, Running
<1>9. /\ sar_req = <<>> /\ ~sar.fin_is_sent /\ WindowOf(Answer)
      /\ Budget(Answer, Used, Usable) /\ Unsent(Answer, Curr)
      /\ NotedTo <= Off(Answer.not_ackd) /\ Off(Answer.not_ackd) <= sent
  <2>1. CASE fsm.loaded
    <3>1. Answer = fsm.rsp /\ Curr = fsm.curr /\ Used = fsm.used /\ Usable = fsm.usable
      BY <2>1 DEF Answer, Curr, Used, Usable
    <3> QED BY <2>1, <3>1, <1>1 DEF Core, BurstInv, Burst
  <2>2. CASE ~fsm.loaded
    <3>1. Curr = Answer.curr_length /\ Used = Answer.used_length /\ Usable = Answer.usable_window
      BY <2>2 DEF Curr, Used, Usable
    <3>2. Fresh(Answer) /\ sar_req = <<>>
      BY <2>2, <1>5
    <3>3. ~sar.fin_is_sent /\ Off(Answer.not_ackd) = NotedTo
      BY <3>2, <1>2 DEF Fresh, Same, NotedTo
    <3>4. NotedTo <= NotedTo
      BY Offsets
    <3> QED BY <3>1, <3>2, <3>3, <3>4, <1>2, <1>8 DEF Fresh
  <2> QED BY <2>1, <2>2
<1> QED BY <1>1, <1>2, <1>3, <1>4, <1>5, <1>6, <1>7, <1>8, <1>9

\* A segment of a burst, as numbers.
LEMMA BurstSegment ==
  ASSUME TInv, Core, TxData, Healthy, Healthy',
         NEW k \in Nat, NEW w \in Nat, k = Off(Answer.not_ackd), w = WrittenTo
  PROVE  /\ SegTo \in Seqs /\ Off(SegTo) = k + SegSize
         /\ SegSize \in Nat /\ Curr \in Nat /\ SegSize <= Curr /\ k + Curr <= w
         /\ Fits /\ SegSize < MSS => SegSize = Curr
         /\ sent' >= sent /\ sent' >= k + SegSize /\ sent' <= w + 1 /\ sent' \in Nat
         /\ SegInv'
<1>1. /\ Answer \in Answers /\ fsm.type = "TX"
      /\ Curr \in Lens /\ Used \in Lens /\ Usable \in Lens
      /\ SegSize \in Lens /\ SegSize <= Curr /\ SegSize <= Usable /\ SegSize <= MSS
      /\ SegSize \in {Curr, Usable, MSS} /\ SegTo \in Seqs
      /\ EmitData("TX", Answer.not_ackd, SegSize, Low(Answer.not_ackd))
      /\ UNCHANGED <<sar, events, rx, rcvd, written, conn>>
  BY TxDataFacts
<1>2. /\ WindowOf(Answer) /\ Budget(Answer, Used, Usable) /\ Unsent(Answer, Curr)
      /\ NotedTo <= k /\ k <= sent /\ 1 <= NotedTo
  BY BurstReady
<1>3. PICK r \in Answers, x \in Seqs, c \in Nat, v \in Nat, len \in Nat, u \in Nat :
        /\ r = Answer /\ x = r.not_ackd /\ c = Curr /\ v = Usable /\ len = SegSize /\ u = Used
  <2>1. Curr \in Nat /\ Usable \in Nat /\ SegSize \in Nat /\ Used \in Nat
    BY <1>1, Ints
  <2>2. Answer.not_ackd \in Seqs
    BY <1>1, RecordKinds
  <2> QED BY <2>1, <2>2, <1>1
<1>4. /\ k = Off(x) /\ k >= 1 /\ k + c <= w /\ len <= c /\ len <= v /\ len <= MSS /\ len \in {c, v, MSS}
      /\ k <= sent /\ sent \in Nat /\ sent <= w + 1 /\ w + BufMod + 1 < SeqMod
      /\ (r.ackd_eq_not_ackd => Off(r.not_ackd_short) = k + c)
  <2>1. NotedTo \in Nat /\ sent \in Nat /\ w + BufMod + 1 < SeqMod /\ sent <= w + 1
    BY Offsets DEF Core, WindowInv
  <2>2. k >= 1
    BY <2>1, <1>2
  <2>3. Unsent(r, c) /\ k = Off(r.not_ackd)
    BY <1>2, <1>3
  <2>4. k + c <= w /\ (r.ackd_eq_not_ackd => Off(r.not_ackd_short) = k + c)
    BY <2>3 DEF Unsent
  <2> QED BY <2>1, <2>2, <2>4, <1>1, <1>2, <1>3
<1>5. Fits /\ SegSize < MSS => len = c
  <2>1. c <= v /\ len < MSS => len = c
    BY <1>4, Sizes
  <2> QED BY <2>1, <1>3 DEF Fits
<1>6. Off(SegTo) = k + len
  <2>1. Off(Plus(x, len)) = k + len
    <3>1. 0 <= k + len /\ k + len < SeqMod
      BY <1>4, Sizes
    <3> QED BY <3>1, <1>4, OffPlus
  <2>2. CASE Fits /\ SegSize < MSS /\ r.ackd_eq_not_ackd
    <3>1. SegTo = r.not_ackd_short
      BY <2>2, <1>3 DEF SegTo
    <3> QED BY <2>2, <3>1, <1>4, <1>5
  <2>3. CASE ~(Fits /\ SegSize < MSS /\ r.ackd_eq_not_ackd)
    <3>1. SegTo = Plus(x, len)
      BY <2>3, <1>3 DEF SegTo, BurstEnd
    <3> QED BY <2>1, <3>1
  <2> QED BY <2>2, <2>3
<1>7. PICK addr \in Lens : addr = Low(x)
  BY LowOff
<1>8. EmitData("TX", x, len, addr) /\ "TX" \in Datas /\ len \in Lens
  BY <1>1, <1>3, <1>7 DEF Datas
<1>9. /\ len = 0 => seg' = NoSeg /\ sent' = sent
      /\ len # 0 => /\ seg' = [type |-> "TX", seq |-> x, len |-> len, addr |-> addr]
                    /\ sent' >= sent /\ sent' >= k + len /\ sent' \in {sent, k + len}
  BY <1>1, <1>4, <1>8, DataLeaves
<1>10. sent' >= sent /\ sent' >= k + len /\ sent' <= w + 1 /\ sent' \in Nat
  <2>1. CASE len = 0
    BY <2>1, <1>4, <1>9
  <2>2. CASE len # 0
    <3>1. k + len <= w + 1 /\ k + len \in Nat
      BY <1>4
    <3> QED BY <2>2, <3>1, <1>4, <1>9
  <2> QED BY <2>1, <2>2
<1>11. SegInv'
  <2>1. CASE len = 0
    BY <2>1, <1>9, NoSegmentLegal
  <2>2. CASE len # 0
    <3>1. seg'.type = "TX" /\ seg'.seq = x /\ seg'.len = len
      BY <2>2, <1>9
    <3>2. written' + 1 = w /\ sar' = sar
      BY <1>1 DEF WrittenTo
    <3>3. Off(seg'.seq) >= 1 /\ Off(seg'.seq) + seg'.len <= written' + 1
      BY <3>1, <3>2, <1>4
    <3>4. k + len <= Off(sar.ackd) + sar.recv_window
      <4>1. PICK a \in Nat, m \in Nat : a = Off(r.ackd) /\ m = r.min_window
        BY RecordKinds, OffFacts, Ints
      <4>2. PICK g \in Nat, b \in Nat : g = AckedTo /\ b = sar.recv_window
        BY Offsets
      <4>3. a + m <= g + b
        BY <4>1, <4>2, <1>2, <1>3 DEF WindowOf
      <4>4. u = k - a /\ (v > 0 => u + v = m)
        BY <4>1, <1>2, <1>3, <1>4 DEF Budget
      <4>5. v > 0
        BY <2>2, <1>4
      <4>6. k + len <= g + b
        BY <4>3, <4>4, <4>5, <1>4
      <4> QED BY <4>2, <4>6 DEF AckedTo
    <3>5. Off(seg'.seq) + seg'.len <= Off(sar'.ackd) + sar'.recv_window
      BY <3>1, <3>2, <3>4, <1>4
    <3> QED BY <3>1, <3>3, <3>5 DEF SegInv, SentIsWritten, WithinWindow, FinIsLast
  <2> QED BY <2>1, <2>2
<1> QED BY <1>1, <1>3, <1>4, <1>5, <1>6, <1>10, <1>11

LEMMA CoreTxData == ASSUME TInv, Core, TxData, Healthy, Healthy'  PROVE Core'
<1>0. TInv'
  BY TypeTxData
<1>1. /\ Answer \in Answers /\ fsm.type = "TX" /\ fsm.cnt = 0 /\ ~Opening /\ sent >= 1
      /\ sar_req = <<>> /\ sar_rsp' = <<>>
      /\ ~Answer.fin_is_sent /\ ~sar.fin_is_sent
      /\ WindowOf(Answer) /\ Budget(Answer, Used, Usable) /\ Unsent(Answer, Curr)
      /\ NotedTo <= Off(Answer.not_ackd) /\ Off(Answer.not_ackd) <= sent /\ 1 <= NotedTo
      /\ SegSize = MSS => Curr - MSS < LenMod /\ Used + MSS < LenMod
  BY BurstReady
<1>2. PICK r \in Answers, k \in Nat, w \in Nat, n \in Nat :
        r = Answer /\ k = Off(r.not_ackd) /\ w = WrittenTo /\ n = NotedTo
  BY <1>1, RecordKinds, OffFacts, Offsets
<1>3. /\ SegTo \in Seqs /\ Off(SegTo) = k + SegSize
      /\ SegSize \in Nat /\ Curr \in Nat /\ SegSize <= Curr /\ k + Curr <= w
      /\ Fits /\ SegSize < MSS => SegSize = Curr
      /\ sent' >= sent /\ sent' >= k + SegSize /\ sent' <= w + 1 /\ sent' \in Nat
      /\ SegInv'
  BY <1>2, BurstSegment
<1>4. /\ Curr \in Lens /\ Used \in Lens /\ Usable \in Lens
      /\ UNCHANGED <<sar, events, rx, rcvd, written, conn>>
  BY TxDataFacts
<1>5. NotedTo' = n /\ WrittenTo' = w /\ AckedTo' = AckedTo /\ sar' = sar
  BY <1>2, <1>4 DEF NotedTo, WrittenTo, AckedTo
<1>6. PICK c \in Nat, u \in Nat, len \in Nat, to \in Seqs :
        c = Curr /\ u = Used /\ len = SegSize /\ to = SegTo
  BY <1>3, <1>4, Ints
<1>7. Off(to) = k + len /\ len <= c /\ k + c <= w /\ n <= k /\ n <= k + len
      /\ sent' >= k + len /\ k + len <= w
  BY <1>1, <1>2, <1>3, <1>6
<1>8. fsm \in Fsms /\ Len(sar_req) = 0
  BY <1>1, Idle DEF TInv, TFsm
<1>9. PICK b \in Answers : b = [r EXCEPT !.not_ackd = to]
  BY <1>4, <1>8, BurstRegsType
<1>10. /\ b.not_ackd = to /\ b.ackd = r.ackd /\ b.app_written = r.app_written
       /\ b.fin_is_ready = r.fin_is_ready /\ b.fin_is_sent = r.fin_is_sent
       /\ b.min_window = r.min_window /\ b.ackd_eq_not_ackd = r.ackd_eq_not_ackd
       /\ b.not_ackd_short = r.not_ackd_short
  BY <1>9 DEF Answers
<1>11. Unsent(r, c) /\ WindowOf(r)
  BY <1>1, <1>2, <1>6
<1>12. WindowOf(b)'
  BY <1>4, <1>5, <1>10, <1>11 DEF WindowOf
<1>13. CASE SegSize = MSS /\ fsm' = BurstRegs(Answer, SegTo, Curr, Used) /\ sar_req' = sar_req /\ ptimer' = ptimer
  <2>1. fsm' = BurstRegs(r, to, c, u) /\ c \in Lens /\ u \in Lens
    BY <1>2, <1>4, <1>6, <1>13
  <2>2. /\ fsm'.type = "TX" /\ fsm'.cnt = 0 /\ fsm'.loaded
        /\ fsm'.curr = CurrAfter(c) /\ fsm'.used = NextUsed(u)
        /\ fsm'.usable = Remaining(r, NextUsed(u)) /\ fsm'.rsp = b
    BY <2>1, <1>1, <1>8, <1>9, BurstRegsType
  <2>3. len = MSS /\ c - MSS < LenMod /\ u + MSS < LenMod /\ len <= c
    BY <1>1, <1>3, <1>6, <1>13
  <2>4. CurrAfter(c) = c - MSS
    <3>1. 0 <= c - MSS /\ c - MSS \in Int
      BY <2>3, Sizes
    <3> QED BY <2>3, <3>1, ModSmall, Sizes DEF CurrAfter
  <2>5. NextUsed(u) = u + MSS
    <3>1. 0 <= u + MSS /\ u + MSS \in Int
      BY Sizes
    <3> QED BY <2>3, <3>1, ModSmall, Sizes DEF NextUsed
  <2>6. PICK a \in Nat, m \in Nat : a = Off(r.ackd) /\ m = r.min_window
    BY RecordKinds, OffFacts, Ints
  <2>7. u = k - a
    BY <2>6, <1>1, <1>2, <1>6 DEF Budget
  <2>8. Budget(b, fsm'.used, fsm'.usable)
    <3>1. fsm'.used = (k + len) - a
      BY <2>2, <2>3, <2>5, <2>7, Sizes
    <3>2. fsm'.usable = IF m >= u + MSS THEN m - (u + MSS) ELSE 0
      BY <2>2, <2>5, <2>6 DEF Remaining
    <3>3. fsm'.usable > 0 => fsm'.used + fsm'.usable = m
      BY <2>2, <2>5, <3>2, Sizes
    <3> QED BY <3>1, <3>3, <2>6, <1>7, <1>10 DEF Budget
  <2>9. Unsent(b, fsm'.curr)
    <3>1. fsm'.curr = c - MSS /\ (k + len) + (c - MSS) = k + c
      BY <2>2, <2>3, <2>4, Sizes
    <3> QED BY <3>1, <1>2, <1>7, <1>10, <1>11 DEF Unsent
  <2>10. PICK z : z = fsm'.curr
    OBVIOUS
  <2>11. BurstInv'
    <3>1. Unsent(b, z)'
      BY <2>9, <2>10, <1>2, <1>5 DEF Unsent
    <3>2. sar_req' = <<>> /\ ~b.fin_is_sent /\ ~sar'.fin_is_sent
      BY <1>1, <1>2, <1>4, <1>10, <1>13
    <3>3. NotedTo' <= Off(b.not_ackd) /\ Off(b.not_ackd) <= sent'
      BY <1>5, <1>7, <1>10
    <3> QED BY <2>2, <2>8, <2>10, <3>1, <3>2, <3>3, <1>12 DEF BurstInv, Burst, Budget
  <2>12. FinInv' /\ RtInv'
    BY <2>2 DEF FinInv, RtInv
  <2>13. sent' <= WrittenTo + 1 /\ fsm.type # "LOAD"
    BY <1>1, <1>2, <1>3
  <2>14. \A i \in 1 .. Len(sar_req) : sar_req[i].kind # "read"
    BY <1>8
  <2> QED BY <1>0, <1>1, <1>3, <1>4, <1>13, <2>2, <2>11, <2>12, <2>13, <2>14, HandlerStep
<1>14. CASE SegSize < MSS /\ sar_req' = Append(sar_req, WriteReq(SegTo, FALSE, FALSE))
            /\ fsm' = IF SendsFin(Fits, Answer, Curr) THEN FinRegs(Answer, SegTo) ELSE Load
  <2>1. PICK q \in Requests : q = WriteReq(to, FALSE, FALSE)
    BY RequestKinds
  <2>2. q.kind = "write" /\ q.not_ackd = to /\ ~q.fin_is_ready /\ ~q.fin_is_sent
    BY <2>1 DEF WriteReq
  <2>3. Grows(sar_req, sar_req', q)
    <3>1. sar_req \in Seq(Requests)
      BY DEF TInv, TSar
    <3> QED BY <3>1, <2>1, <1>6, <1>14, Wr
  <2>4. PendingOK(q)'
    BY <2>2, <1>5, <1>7 DEF PendingOK
  <2>5. \A i \in 1 .. Len(sar_req') : sar_req'[i] = q
    BY <2>3, <1>8 DEF Grows
  <2>6. /\ BurstInv' /\ FinInv' /\ RtInv' /\ (fsm'.type = "LOAD" \/ fsm'.loaded) /\ fsm'.type # "TX"
    <3>1. CASE ~SendsFin(Fits, Answer, Curr)
      <4>1. fsm' = Load
        BY <3>1, <1>14
      <4> QED BY <4>1, Done
    <3>2. CASE SendsFin(Fits, Answer, Curr)
      <4>1. fsm' = FinRegs(r, to)
        BY <3>2, <1>2, <1>6, <1>14
      <4>2. fsm'.type = "FIN" /\ fsm'.cnt = 0 /\ fsm'.loaded /\ fsm'.rsp = b
        BY <4>1, <1>1, <1>4, <1>8, <1>9, BurstRegsType
      <4>3. Fits /\ r.fin_is_ready
        BY <3>2, <1>2 DEF SendsFin
      <4>4. len = c
        BY <4>3, <1>3, <1>6, <1>14
      <4>5. k + len = w /\ r.app_written = Low(Isn + w) /\ conn \in Ended
        BY <4>3, <4>4, <1>2, <1>11 DEF Unsent, WindowOf
      <4>6. Off(b.not_ackd) = w
        BY <4>5, <1>7, <1>10
      <4>7. \A i \in 1 .. Len(sar_req') : Off(sar_req'[i].not_ackd) <= w
        BY <2>2, <2>5, <4>5, <1>7
      <4>8. Closing(b)'
        BY <4>2, <4>5, <4>6, <4>7, <1>4, <1>5, <1>7, <1>10 DEF Closing
      <4> QED BY <4>2, <4>8 DEF BurstInv, FinInv, RtInv
    <3> QED BY <3>1, <3>2
  <2>7. sent' <= WrittenTo + 1 /\ fsm.type # "LOAD"
    BY <1>1, <1>2, <1>3
  <2>8. \A i \in 1 .. Len(sar_req) :
          sar_req[i].kind # "read" /\ Off(sar_req[i].not_ackd) <= Off(q.not_ackd)
    BY <1>8
  <2> QED BY <1>0, <1>1, <1>3, <1>4, <2>2, <2>3, <2>4, <2>6, <2>7, <2>8, HandlerStep
<1>15. \/ SegSize = MSS /\ fsm' = BurstRegs(Answer, SegTo, Curr, Used) /\ sar_req' = sar_req /\ ptimer' = ptimer
       \/ SegSize < MSS /\ sar_req' = Append(sar_req, WriteReq(SegTo, FALSE, FALSE))
            /\ fsm' = IF SendsFin(Fits, Answer, Curr) THEN FinRegs(Answer, SegTo) ELSE Load
  <2>1. \/ /\ SegSize = MSS /\ fsm' = BurstRegs(Answer, SegTo, Curr, Used)
           /\ UNCHANGED <<sar_req, ptimer>>
        \/ /\ SegSize < MSS /\ Len(sar_req) < Depth
           /\ sar_req' = Append(sar_req, WriteReq(SegTo, FALSE, FALSE))
           /\ ptimer' = (ptimer \/ Probes(Fits, Answer))
           /\ fsm' = IF SendsFin(Fits, Answer, Curr) THEN FinRegs(Answer, SegTo) ELSE Load
    BY TxDataFacts
  <2> QED BY <2>1, Zenon
<1> QED BY <1>13, <1>14, <1>15

-----------------------------------------------------------------------------
(* The invariant holds, and what follows from it.                            *)

LEMMA CoreInit == Init => Core
<1> SUFFICES ASSUME Init  PROVE Core
  OBVIOUS
<1>1. PICK t \in Syns : events = <<Ev(t, 0)>>
  BY DEF Init, Syns
<1>2. Len(events) = 1 /\ events[1] = Ev(t, 0) /\ events # <<>> /\ Ev(t, 0).type = t /\ Ev(t, 0).cnt = 0
  BY <1>1 DEF Ev
<1>3. /\ sar.ackd = 0 /\ sar.not_ackd = 0 /\ ~sar.fin_is_ready /\ ~sar.fin_is_sent
      /\ sar_req = <<>> /\ sar_rsp = <<>> /\ fsm = Load /\ seg = NoSeg /\ rx = NoRx
      /\ ptimer = FALSE /\ rtimer.type = "off" /\ sent = 0 /\ rcvd = 0 /\ written = 0 /\ conn = "OPENING"
  BY DEF Init, TimerOff
<1>4. Len(sar_req) = 0
  BY <1>3
<1>5. fsm.type = "LOAD" /\ ~fsm.loaded
  BY <1>3, LoadFacts
<1>6. QueueInv
  BY <1>3, <1>4 DEF QueueInv
<1>7. EventInv
  <2>1. \A i \in 1 .. Len(events) : i = 1
    BY <1>2
  <2>2. EventOK(events[1], conn)
    BY <1>2, <1>3 DEF EventOK, Syns
  <2> QED BY <2>1, <2>2, <1>3, <1>5 DEF EventInv, Syns
<1>8. StartInv
  BY <1>2, <1>3, <1>4, <1>5 DEF StartInv, Opening
<1>9. WindowInv
  BY <1>3 DEF WindowInv, WrittenTo, Opening, Ready
<1>10. PendingInv
  BY <1>4 DEF PendingInv
<1>11. FreshInv /\ BurstInv /\ FinInv /\ RtInv /\ RxInv
  BY <1>3, <1>5 DEF FreshInv, BurstInv, FinInv, RtInv, RxInv
<1>12. SegInv
  BY <1>3 DEF SegInv, SentIsWritten, WithinWindow, FinIsLast, NoSeg
<1> QED BY <1>6, <1>7, <1>8, <1>9, <1>10, <1>11, <1>12 DEF Core

\* What went wrong first stays noted.
LEMMA HealthyBefore == [Next]_vars /\ Healthy' => Healthy
<1> SUFFICES ASSUME [Next]_vars, ~Healthy  PROVE deviation' = deviation
  BY DEF Healthy
<1>1. CASE UNCHANGED vars
  BY <1>1 DEF vars
<1>2. CASE TxEngTcpFsm
  <2>1. CASE TxEngLoad \/ TxAck \/ TxFin
    BY <2>1 DEF TxEngLoad, TxAck, TxFin
  <2>2. CASE TxData
    BY <2>2, TxDataFacts DEF TxData, Healthy
  <2>3. CASE TxRetransmit \/ TxSyn \/ TxRst
    BY <2>3 DEF TxRetransmit, TxSyn, TxRst, Healthy
  <2> QED BY <2>1, <2>2, <2>3, <1>2 DEF TxEngTcpFsm
<1>3. CASE Rx \/ App \/ SarTxEng \/ ProbeExpires \/ RetransExpires \/ Reset \/ Deliver
  BY <1>3 DEF Rx, RxRead, RxWrite, RxDeviates, RxFinTaken, RxFinRefused, App, AppClose, AppWrite, SarTxEng, ProbeExpires, RetransExpires,
              Reset, ResetEvent, Deliver, Healthy
<1> QED BY <1>1, <1>2, <1>3 DEF Next

LEMMA CoreNext == ASSUME TInv, Core, Healthy, Healthy', [Next]_vars  PROVE Core'
<1>1. CASE UNCHANGED vars
  BY <1>1, CoreStutter
<1>2. CASE TxEngTcpFsm
  BY <1>2, CoreLoad, CoreTxData, CoreTxRetransmit, CoreTxAck, CoreTxSyn, CoreTxFin, CoreTxRst
     DEF TxEngTcpFsm
<1>3. CASE Rx
  BY <1>3, CoreRxRead, CoreRxWrite, CoreRxFin DEF Rx
<1>4. CASE App
  BY <1>4, CoreQuiet, CoreAppWrite DEF App
<1>5. CASE SarTxEng \/ ProbeExpires \/ RetransExpires \/ Reset \/ Deliver
  BY <1>5, CoreSarTxEng, CoreQuiet
<1> QED BY <1>1, <1>2, <1>3, <1>4, <1>5 DEF Next

LEMMA InvNext == IInv /\ [Next]_vars => IInv'
<1> SUFFICES ASSUME IInv, [Next]_vars  PROVE IInv'
  OBVIOUS
<1>1. TInv /\ TInv' /\ (Healthy => Core)
  BY TypeNext DEF IInv
<1>2. ASSUME Healthy'  PROVE Core'
  <2>1. Healthy
    BY <1>2, HealthyBefore
  <2> QED BY <2>1, <1>1, <1>2, CoreNext
<1> QED BY <1>1, <1>2 DEF IInv

\* The inductive invariant: the types always, and the order of the window with what every process
\* knows of it as long as the engine is on the rails.
THEOREM InvariantHolds == Spec => []IInv
<1>1. Init => IInv
  BY TypeInit, CoreInit DEF IInv
<1> QED BY <1>1, InvNext, PTL DEF Spec

\* TxEngTcpFsm computes a burst, a retransmission and a FIN from one answer of the table while
\* the application and the acknowledgements change the entry: still every data segment holds
\* bytes the application wrote, and a FIN stands behind all of them.
THEOREM SegmentsAreLegal == Spec => []SegmentsLegal
<1>1. IInv => SegmentsLegal
  <2> SUFFICES ASSUME IInv  PROVE SegmentsLegal
    OBVIOUS
  <2>1. TxEngTypeOK
    BY TypesSuffice DEF IInv
  <2>2. Healthy => SentIsWritten /\ FinIsLast
    BY DEF IInv, Core, SegInv
  <2>3. SentIsWritten /\ FinIsLast
    BY <2>2 DEF SentIsWritten, FinIsLast
  <2> QED BY <2>1, <2>3 DEF SegmentsLegal
<1> QED BY <1>1, InvariantHolds, PTL

\* The usable window is read once for a burst, and the peer's window and ackd move while it is
\* sent: no new byte leaves beyond the edge the peer has granted.
THEOREM StaysWithinWindow == Spec => []WithinWindow
<1>1. IInv => WithinWindow
  <2>1. IInv /\ Healthy => WithinWindow
    BY DEF IInv, Core, SegInv
  <2> QED BY <2>1 DEF WithinWindow
<1> QED BY <1>1, InvariantHolds, PTL

-----------------------------------------------------------------------------
(* The send window moves in order.                                           *)

\* An answer never points behind what was sent.
LEMMA AnswerNoted ==
  ASSUME TInv, Core, ~Opening, fsm.loaded \/ sar_rsp # <<>>, TakeAnswer
  PROVE  /\ ~fsm.loaded => Off(Answer.not_ackd) <= sent /\ Off(Answer.ackd) <= sent
         /\ fsm.type = "TX" /\ fsm.loaded => Off(Answer.not_ackd) <= sent
         /\ fsm.type = "RT_CONT" => Off(Answer.ackd) <= sent
<1>1. PICK r \in Answers : r = Answer
  BY AnswerIn
<1>2. PICK m \in Nat, a \in Nat : m = Off(r.not_ackd) /\ a = Off(r.ackd)
  BY RecordKinds, OffFacts
<1>3. PICK b \in Nat, n \in Nat, s \in Nat, f \in {0, 1} : b = AckedTo /\ n = NotedTo /\ s = sent /\ f = FinOf(r)
  BY Offsets DEF FinOf
<1>4. b <= n /\ n <= s
  BY <1>3, IsOpen, Running
<1>5. ASSUME ~fsm.loaded  PROVE m <= s /\ a <= s
  <2>1. Fresh(r)
    BY <1>1, <1>5, IsOpen, Asking
  <2>2. m = n /\ a <= b
    BY <2>1, <1>2, <1>3 DEF Fresh, Same, WindowOf, NotedTo
  <2> QED BY <2>2, <1>4
<1>6. ASSUME fsm.type = "TX", fsm.loaded  PROVE m <= s
  BY <1>1, <1>2, <1>3, <1>6 DEF Core, BurstInv, Burst, Answer
<1>7. ASSUME fsm.type = "RT_CONT"  PROVE a <= s
  <2>1. fsm.loaded
    BY <1>7 DEF TInv, TFsm
  <2>2. Again(r)
    BY <2>1, <1>1, <1>7 DEF Core, RtInv, Answer
  <2>3. PICK k \in Nat : k = r.used_length_rst
    BY RecordKinds, Ints
  <2>4. a + k = n - f
    BY <2>2, <2>3, <1>2, <1>3 DEF Again
  <2> QED BY <2>4, <1>4
<1> QED BY <1>1, <1>2, <1>3, <1>5, <1>6, <1>7

LEMMA SegmentsInOrder ==
  ASSUME TInv, Core, ~Opening, TxEngTcpFsm, seg'.type \notin {"none", "RST"}
  PROVE  Off(seg'.seq) <= sent
<1>1. CASE TxEngLoad
  BY <1>1 DEF TxEngLoad, NoSeg
<1>2. CASE TxData
  <2>1. /\ fsm.type = "TX" /\ (fsm.loaded \/ sar_rsp # <<>>) /\ TakeAnswer
        /\ EmitData("TX", Answer.not_ackd, SegSize, Low(Answer.not_ackd))
    BY <1>2, TxDataFacts
  <2>2. seg'.seq = Answer.not_ackd
    BY <2>1 DEF EmitData, Emit, NoEmit, NoSeg
  <2> QED BY <2>1, <2>2, AnswerNoted
<1>3. CASE TxRetransmit
  <2>1. /\ (fsm.loaded \/ sar_rsp # <<>>) /\ TakeAnswer /\ (fsm.type = "RT_CONT" <=> fsm.loaded)
        /\ EmitData(fsm.type, Answer.ackd, RtSize, RtAddr(Answer))
    BY <1>3, TxRetransmitFacts
  <2>2. seg'.seq = Answer.ackd
    BY <2>1 DEF EmitData, Emit, NoEmit, NoSeg
  <2> QED BY <2>1, <2>2, AnswerNoted
<1>4. CASE TxAck
  <2>1. /\ fsm.type = "ACK" /\ (fsm.loaded \/ sar_rsp # <<>>) /\ TakeAnswer
        /\ seg' = [type |-> "ACK", seq |-> Answer.not_ackd]
    BY <1>4 DEF TxAck, Answered, Emit
  <2>2. ~fsm.loaded
    BY <2>1 DEF TInv, TFsm
  <2> QED BY <2>1, <2>2, AnswerNoted
<1>5. CASE TxSyn
  <2>1. /\ fsm.type \in Syns /\ (AsksSar(fsm) => sar_rsp # <<>>)
        /\ seg' = [type |-> fsm.type, seq |-> IF fsm.cnt # 0 THEN Head(sar_rsp).ackd ELSE Isn]
        /\ sar_rsp' = IF AsksSar(fsm) THEN Tail(sar_rsp) ELSE sar_rsp
    BY <1>5 DEF TxSyn, Emit, Syns
  <2>2. sent >= 1 /\ sent \in Nat /\ fsm.cnt # 0
    BY <2>1, IsOpen, Offsets DEF Core, EventInv
  <2>3. ~fsm.loaded /\ AsksSar(fsm)
    BY <2>1, <2>2 DEF TInv, TFsm, Syns, AsksSar
  <2>4. sar_rsp # <<>> /\ TakeAnswer /\ Answer = Head(sar_rsp)
    BY <2>1, <2>3 DEF TakeAnswer, Answer
  <2>5. seg'.seq = Answer.ackd
    BY <2>1, <2>2, <2>4
  <2> QED BY <2>3, <2>4, <2>5, AnswerNoted
<1>6. CASE TxFin
  <2>1. /\ Answer \in Answers /\ Off(Answer.not_ackd) <= sent
        /\ (Off(Answer.not_ackd) <= WrittenTo /\ fsm.cnt = 0) \/ Off(Answer.not_ackd) = WrittenTo + 1
    BY <1>6, FinReady
  <2>2. seg' = [type |-> "FIN", seq |-> FinSeq(Answer)]
    BY <1>6 DEF TxFin, Emit, NoEmit, NoSeg
  <2>3. PICK x \in Seqs, k \in Nat, w \in Nat, s \in Nat :
          x = Answer.not_ackd /\ k = Off(x) /\ w = WrittenTo /\ s = sent
    BY <2>1, RecordKinds, OffFacts, Offsets
  <2>4. CASE fsm.cnt = 0
    BY <2>1, <2>2, <2>3, <2>4 DEF FinSeq
  <2>5. CASE fsm.cnt # 0
    <3>1. k = w + 1 /\ k <= s /\ k < SeqMod
      BY <2>1, <2>3, <2>5, OffFacts
    <3>2. 0 <= k + (-1) /\ k + (-1) < SeqMod /\ -1 \in Int
      BY <3>1, Sizes
    <3>3. Off(Plus(x, -1)) = k + (-1)
      BY <3>2, <2>3, OffPlus
    <3>4. k + (-1) <= s
      BY <3>1
    <3> QED BY <3>3, <3>4, <2>2, <2>3, <2>5 DEF FinSeq
  <2> QED BY <2>4, <2>5
<1>7. CASE TxRst
  BY <1>7 DEF TxRst, NoEmit, NoSeg
<1> QED BY <1>1, <1>2, <1>3, <1>4, <1>5, <1>6, <1>7 DEF TxEngTcpFsm

LEMMA AckdStep ==
  ASSUME TInv, Core, ~Opening, Healthy, deviation' # "unchecked_ack", Next
  PROVE  AckedTo' >= AckedTo /\ AckedTo' <= NotedTo'
<1>1. AckedTo <= NotedTo /\ AckedTo \in Nat /\ NotedTo \in Nat /\ sent >= 1 /\ ~InitPending
  BY IsOpen, Running, Offsets
<1>2. CASE sar' = sar
  BY <1>1, <1>2 DEF AckedTo, NotedTo
<1>3. CASE SarTxEng
  <2>1. Core' /\ TInv'
    BY <1>3, CoreSarTxEng, TypeSarTxEng
  <2>2. conn' = conn
    BY <1>3 DEF SarTxEng, world
  <2>3. ~Opening'
    BY <2>2 DEF Opening
  <2>4. AckedTo' <= NotedTo'
    <3>1. sent' >= 1 /\ ~InitPending'
      BY <2>1, <2>3 DEF Core, WindowInv, QueueInv, InitPending
    <3> QED BY <2>1, <3>1 DEF Core, WindowInv, Ready
  <2>5. sar'.ackd = sar.ackd
    <3>1. CASE Head(sar_req).kind = "read"
      BY <3>1, <1>3 DEF SarTxEng
    <3>2. CASE Head(sar_req).kind # "read"
      <4>1. PICK h \in Requests :
              /\ h = sar_req[1] /\ 1 \in 1 .. Len(sar_req) /\ sar' = Written(sar, h)
              /\ h.kind \in {"write", "init", "retrans"}
        BY <3>2, <1>3, TableWrites
      <4>2. h.kind # "init"
        BY <4>1, <1>1 DEF InitPending
      <4>3. sar \in Entry
        BY DEF TInv, TSar
      <4> QED BY <4>1, <4>2, <4>3, WrittenFields
    <3> QED BY <3>1, <3>2
  <2>6. AckedTo' = AckedTo
    BY <2>5 DEF AckedTo
  <2> QED BY <2>4, <2>6, <1>1
<1>4. ASSUME NEW win \in Windows, NEW data \in BOOLEAN, RxWrite(win, data)
      PROVE  AckedTo' >= AckedTo /\ AckedTo' <= NotedTo'
  <2>1. CASE ~InWindow(rx)
    BY <2>1, <1>2, <1>4, AckFacts
  <2>2. CASE InWindow(rx)
    <3>1. /\ sar' = [sar EXCEPT !.ackd = rx.ack, !.recv_window = win, !.cong_window = CongGrown(rx)]
          /\ AckedTo <= Off(rx.ack) /\ Off(rx.ack) <= NotedTo /\ Off(rx.ack) \in Nat
      BY <2>2, <1>4, AckFacts
    <3>2. sar \in Entry
      BY DEF TInv, TSar
    <3>3. sar'.ackd = rx.ack /\ sar'.not_ackd = sar.not_ackd
      BY <3>1, <3>2 DEF Entry
    <3> QED BY <3>1, <3>3, <1>1 DEF AckedTo, NotedTo
  <2> QED BY <2>1, <2>2
<1>5. ASSUME NEW n \in Writes, AppWrite(n)  PROVE AckedTo' >= AckedTo /\ AckedTo' <= NotedTo'
  <2>1. sar \in Entry
    BY DEF TInv, TSar
  <2>2. sar'.ackd = sar.ackd /\ sar'.not_ackd = sar.not_ackd
    BY <2>1, <1>5 DEF AppWrite, Entry
  <2> QED BY <2>2, <1>1 DEF AckedTo, NotedTo
<1>6. CASE TxEngTcpFsm
  <2>1. sar' = sar
    BY <1>6 DEF TxEngTcpFsm, TxEngLoad, TxData, TxRetransmit, TxAck, TxSyn, TxFin, TxRst
  <2> QED BY <2>1, <1>2
<1>7. CASE \/ AppClose \/ ProbeExpires \/ RetransExpires \/ Reset \/ Deliver \/ RxFinRefused
           \/ \E a \in Acks : RxRead(a)
  <2>1. sar' = sar
    BY <1>7 DEF AppClose, ProbeExpires, RetransExpires, Reset, ResetEvent, Deliver, RxRead,
                RxFinRefused, sar_vars
  <2> QED BY <2>1, <1>2
<1>8. ASSUME NEW win \in Windows, RxFinTaken(win)
      PROVE  AckedTo' >= AckedTo /\ AckedTo' <= NotedTo'
  <2>1. /\ sar' = [sar EXCEPT !.ackd = rx.ack, !.recv_window = win, !.cong_window = rx.cong_window]
        /\ AckedTo <= Off(rx.ack) /\ Off(rx.ack) <= NotedTo /\ Off(rx.ack) \in Nat
    BY <1>8, FinFacts
  <2>2. sar \in Entry
    BY DEF TInv, TSar
  <2>3. sar'.ackd = rx.ack /\ sar'.not_ackd = sar.not_ackd
    BY <2>1, <2>2 DEF Entry
  <2> QED BY <2>1, <2>3, <1>1 DEF AckedTo, NotedTo
<1> QED BY <1>3, <1>4, <1>5, <1>6, <1>7, <1>8 DEF Next, Rx, App

LEMMA NoSkip ==
  ASSUME TInv, Core, ~Opening, Next
  PROVE  NotedTo <= sent /\ (seg'.type \notin {"none", "RST"} => Off(seg'.seq) <= sent)
<1>1. NotedTo <= sent
  BY IsOpen, Running
<1>2. CASE TxEngTcpFsm
  BY <1>1, <1>2, SegmentsInOrder
<1>3. CASE ~TxEngTcpFsm
  <2>1. seg' = NoSeg
    BY <1>3 DEF Next, SarTxEng, Rx, RxRead, RxWrite, RxFinTaken, RxFinRefused, App, AppClose, AppWrite, ProbeExpires,
                RetransExpires, Reset, ResetEvent, Deliver
  <2> QED BY <2>1, <1>1 DEF NoSeg
<1> QED BY <1>2, <1>3

\* The tx engine, the rx engine and the application change the entry without a lock, and judge
\* by answers that are out of date: still ackd never moves back nor beyond not_ackd, not_ackd
\* never beyond what was sent, and no segment starts behind a gap.  The steps that take the engine
\* off the rails are among them, but for a FIN whose acknowledgement lies outside the window.
THEOREM WindowStaysInOrder == Spec => WindowInOrder
<1>1. IInv /\ [Next]_vars =>
        [Healthy /\ conn # "OPENING" =>
           /\ Off(sar.not_ackd) <= sent
           /\ seg'.type \notin {"none", "RST"} => Off(seg'.seq) <= sent]_vars
  BY NoSkip DEF IInv, Opening, NotedTo
<1>2. IInv /\ [Next]_vars =>
        [Healthy /\ conn # "OPENING" /\ deviation' # "unchecked_ack" =>
           /\ Off(sar'.ackd) >= Off(sar.ackd)
           /\ Off(sar'.ackd) <= Off(sar'.not_ackd)]_vars
  BY AckdStep DEF IInv, Opening, AckedTo, NotedTo
<1> QED BY <1>1, <1>2, InvariantHolds, PTL DEF Spec, WindowInOrder, NoByteSkipped, AckdAdvances
=============================================================================
