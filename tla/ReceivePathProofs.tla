-------------------------- MODULE ReceivePathProofs --------------------------
(***************************************************************************)
(* Proofs about ReceivePath: it implements the abstract ring, the window   *)
(* told to the peer is kept, and the echo is exact, for every set of       *)
(* sessions, every buffer size, word size, segment length and depth of the *)
(* FIFOs.                                                                  *)
(*                                                                         *)
(* What waits between two processes is a chain of notices: each begins     *)
(* with the byte behind the last one of its session.  Four chains, one     *)
(* behind the other, cover the bytes from the echoed to the accepted ones. *)
(***************************************************************************)
EXTENDS ReceivePath, TLAPS

-----------------------------------------------------------------------------
(* The types.                                                               *)

Addrs == 0 .. BufMod - 1
Seqs == 0 .. SeqMod - 1
Lens == 1 .. BufMod
Entry == [recvd : Seqs, app_read : Addrs, scale : Scales \cup {1}]
ReadReqs == [id : Sessions, write : {FALSE}]
AppWrites == [id : Sessions, write : {TRUE}, app_read : Addrs]
RecvdWrites == [id : Sessions, write : {TRUE}, init : {FALSE}, recvd : Seqs]
InitWrites == [id : Sessions, write : {TRUE}, init : {TRUE}, recvd : Seqs, scale : Scales]
AppReqs == ReadReqs \cup AppWrites
EngReqs == ReadReqs \cup RecvdWrites \cup InitWrites
AppRsps == [id : Sessions, app_read : Addrs]
Segments == [id : Sessions, at : Nat, len : 0 .. BufMod, fin : BOOLEAN, fits : BOOLEAN, acks : Int]
Jobs == [id : Sessions, addr : Addrs, at : Nat, len : 0 .. BufMod]
Notices == [id : Sessions, len : 0 .. BufMod, at : Nat]
DataNotices == [id : Sessions, len : Lens, at : Nat]
EndNotices == [id : Sessions, len : {0}, at : Nat]
Blocks == [id : Sessions, addr : Addrs, len : 0 .. BufMod]
Bytes == Seq(Int)
Fsms == {Idle} \cup [state : {"WAIT_SAR_RSP"}, len : Lens] \cup [state : {"WAIT_DATA"}, parts : {1, 2}]
Apps ==
  {[state |-> "GET_DATA_NOTY"]} \cup [state : {"WAIT_SESSION_ID"}, notice : DataNotices]
    \cup {[state |-> "FORWARD_DATA"]}
EchoTxs ==
  {[state |-> "READ_META"]}
    \cup [state : {"WAIT_RESPONSE", "WAIT_CYCLES", "FORWARD_DATA"}, meta : DataNotices]

\* A FIFO of the given elements that is not over its depth.
Fifo(q, T) == q \in Seq(T) /\ Len(q) <= Depth

TSar ==
  /\ rx_sar_table \in [Sessions -> Entry]
  /\ Fifo(app_req, AppReqs) /\ Fifo(app_rsp, AppRsps)
  /\ Fifo(eng_req, EngReqs) /\ eng_rsp \in Seq(Entry) /\ Len(eng_rsp) <= Depth
TEng ==
  /\ eng \in Segments \cup {Nothing} /\ Fifo(store, Jobs)
  /\ eng # Nothing /\ eng.len > 0 => eng.at + eng.len <= MaxBytes
  /\ \A i \in 1 .. Len(store) : store[i].len > 0 => store[i].at + store[i].len <= MaxBytes
TNotify ==
  /\ Fifo(rx_notice, Notices) /\ Fifo(rt_notice, EndNotices) /\ Fifo(notices, Notices)
  /\ notify_reg \in Notices \cup {Nothing} /\ Fifo(net_notice, Notices)
TReader ==
  /\ Fifo(read_req, DataNotices) /\ Fifo(read_rsp, Sessions) /\ fsm \in Fsms
  /\ blocks \in Seq(Blocks) /\ read_data \in Seq(Bytes)
  /\ \A i \in 1 .. Len(blocks) : blocks[i].addr + blocks[i].len <= BufMod
  /\ \A i \in 1 .. Len(read_data) : Len(read_data[i]) >= 1
  /\ Len(read_data) + Len(blocks) = IF fsm.state = "WAIT_DATA" THEN fsm.parts ELSE 0
TEcho ==
  /\ app \in Apps /\ Fifo(echo_meta, DataNotices) /\ Fifo(echo_data, Bytes) /\ echo_tx \in EchoTxs
TRest ==
  /\ mem \in [Sessions -> [Addrs -> (0 .. MaxBytes) \cup {Empty}]]
  /\ conn \in [Sessions -> {"CLOSED", "OPEN"}] /\ unacked \in [Sessions -> Int]
  /\ base \in [Sessions -> Seqs]
  /\ edge \in [Sessions -> Int] /\ accepted \in [Sessions -> Nat] /\ stored \in [Sessions -> Nat]
  /\ announced \in [Sessions -> Nat] /\ freed \in [Sessions -> Nat] /\ echoed \in [Sessions -> Nat]
  /\ conns \in Nat

TInv == TSar /\ TEng /\ TNotify /\ TReader /\ TEcho /\ TRest
-----------------------------------------------------------------------------
(* The invariant, until the first deviation.                                 *)

\* The bytes of each session from lo on up to hi, in order and without a gap; notices of
\* no bytes (a connection that was given up) may be in between.
End(n) == n.at + n.len
Within(q, lo, hi) ==
  \A i \in 1 .. Len(q) : q[i].len > 0 => lo[q[i].id] <= q[i].at /\ End(q[i]) <= hi[q[i].id]
InOrder(q) ==
  \A i, j \in 1 .. Len(q) :
    i < j /\ q[i].len > 0 /\ q[j].len > 0 /\ q[i].id = q[j].id => End(q[i]) <= q[j].at
Covers(q, lo, hi) ==
  \A s \in Sessions, b \in Nat : lo[s] <= b /\ b < hi[s] =>
    \E i \in 1 .. Len(q) : q[i].id = s /\ q[i].at <= b /\ b < End(q[i])
Linked(q, lo, hi) == Within(q, lo, hi) /\ InOrder(q) /\ Covers(q, lo, hi)

\* The write of app_read under way gives room back; ReadTo is how far the bytes were asked for.
Giving(s) == app_req # <<>> /\ app_req[1].write /\ app_req[1].id = s
Given(s) == IF Giving(s) THEN Low(app_req[1].app_read - rx_sar_table[s].app_read) ELSE 0
ReadTo == [s \in Sessions |-> freed[s] + Given(s)]

\* The notice the application has taken: before its bytes are asked for, and after.
Asking == app.state = "WAIT_SESSION_ID" /\ fsm.state # "WAIT_DATA"
Asked == app.state = "WAIT_SESSION_ID" /\ fsm.state = "WAIT_DATA"
Metas == IF echo_tx.state = "READ_META" THEN echo_meta ELSE <<echo_tx.meta>> \o echo_meta
Taken == IF Asked THEN Append(Metas, app.notice) ELSE Metas
Todo == IF Asking THEN <<app.notice>> \o net_notice ELSE net_notice
Told == (IF notify_reg = Nothing THEN notices ELSE <<notify_reg>> \o notices) \o rx_notice

TakenInv == Linked(Taken, echoed, ReadTo)
TodoInv == Linked(Todo, ReadTo, announced)
ToldInv == Linked(Told, announced, stored)
KeptInv == Linked(store, stored, accepted)
OrderInv == \A s \in Sessions :
  /\ echoed[s] <= ReadTo[s] /\ ReadTo[s] <= announced[s]
  /\ announced[s] <= stored[s] /\ stored[s] <= accepted[s]

\* Where a read is: application, data handler, table and data mover take turns.
AppInv ==
  /\ read_req # <<>> => Len(read_req) = 1 /\ fsm = Idle /\ Asking /\ read_req[1] = app.notice
  /\ read_rsp # <<>> => Len(read_rsp) = 1 /\ Asked /\ read_rsp[1] = app.notice.id
  /\ app.state = "GET_DATA_NOTY" => fsm = Idle
  /\ app.state = "FORWARD_DATA" => fsm.state = "WAIT_DATA"
  /\ Asking => read_req # <<>> \/ fsm.state = "WAIT_SAR_RSP"
  /\ Asked => read_rsp # <<>>
  /\ fsm.state = "WAIT_SAR_RSP" => Asking /\ fsm.len = app.notice.len
ReqInv ==
  /\ \A i \in 1 .. Len(app_req) :
       /\ app_req[i].write => i = 1
       /\ ~app_req[i].write =>
            /\ i = Len(app_req) /\ fsm.state = "WAIT_SAR_RSP" /\ app_rsp = <<>>
            /\ app_req[i].id = app.notice.id
  /\ app_rsp # <<>> =>
       /\ Len(app_rsp) = 1 /\ app_req = <<>> /\ fsm.state = "WAIT_SAR_RSP"
       /\ app_rsp[1].id = app.notice.id
       /\ app_rsp[1].app_read = rx_sar_table[app.notice.id].app_read

\* The rx engine's accesses: at most one write, and behind it the read of the next segment.
EngInv ==
  /\ \A i \in 1 .. Len(eng_req) :
       /\ eng_req[i].write => i = 1
       /\ ~eng_req[i].write =>
            i = Len(eng_req) /\ eng # Nothing /\ eng_req[i].id = eng.id /\ eng_rsp = <<>>
  /\ eng_rsp # <<>> => Len(eng_rsp) = 1 /\ eng_req = <<>> /\ eng # Nothing
  /\ eng # Nothing => eng_rsp # <<>> \/ \E i \in 1 .. Len(eng_req) : ~eng_req[i].write

\* The bytes in the buffer, and the window told to the peer, leave one byte free.
SpaceInv == \A s \in Sessions :
  accepted[s] - freed[s] <= BufMod - 1 /\ edge[s] <= freed[s] + BufMod - 1

\* A write of recvd under way, and a session that starts anew.
Writing(s) == eng_req # <<>> /\ eng_req[1].write /\ eng_req[1].id = s
Starting(s) == Writing(s) /\ eng_req[1].init

\* The entry's app_read stands for the bytes given back; its recvd for those accepted, up
\* to a write under way, as long as the peer has not sent its FIN, which counts as one more.
Entered(s, r) ==
  /\ rx_sar_table[s].recvd = SeqNo(base[s] + r)
  /\ stored[s] <= r /\ r <= accepted[s] /\ (~Writing(s) => r = accepted[s])
TableInv == \A s \in Sessions :
  /\ Writing(s) /\ (conn[s] = "OPEN" \/ Starting(s))
       => eng_req[1].recvd = SeqNo(base[s] + accepted[s])
  /\ Starting(s) => echoed[s] = accepted[s] /\ ~Giving(s)
  /\ ~Starting(s) => /\ rx_sar_table[s].app_read = Low(base[s] + freed[s])
                     /\ conn[s] = "OPEN" => \E r \in Nat : Entered(s, r)

\* The segment in TRANSITION, and the entry it is judged by, which knows of f bytes given
\* back: more may have been given back since.
Judged(e, f) ==
  /\ e.recvd = SeqNo(base[eng.id] + accepted[eng.id]) /\ e.app_read = Low(base[eng.id] + f)
  /\ f <= freed[eng.id] /\ accepted[eng.id] - f <= BufMod - 1
  /\ eng.fits => eng.at + eng.len <= f + BufMod - 1
SegInv == eng # Nothing =>
  /\ accepted[eng.id] - 1 <= eng.at /\ eng.at <= accepted[eng.id] + 1
  /\ eng.fits => eng.at + eng.len <= freed[eng.id] + BufMod - 1
  /\ eng_rsp # <<>> /\ conn[eng.id] = "OPEN" => \E f \in Nat : Judged(eng_rsp[1], f)

\* The payloads wait for the data mover at their places.
PlaceInv == \A i \in 1 .. Len(store) :
  store[i].len > 0 => store[i].addr = Low(base[store[i].id] + store[i].at)

\* The bytes that were stored and not asked for are in the memory.
MemInv == \A s \in Sessions : \A b \in Nat :
  ReadTo[s] <= b /\ b < stored[s] => mem[s][Low(base[s] + b)] = b

\* What the mover reads and has read, in one access or two, is what the notice is about.
Numbers(from, n) == [i \in 1 .. n |-> from + i - 1]
Holds(b, from) == \A i \in 0 .. b.len - 1 : mem[b.id][b.addr + i] = from + i
UnderWay == Taken[Len(Taken)]
\* The access k of the notice, read or not, has the bytes from number a up to c.
Part(k, a, c) ==
  IF k <= Len(read_data) THEN read_data[k] = Numbers(a, c - a)
  ELSE LET b == blocks[k - Len(read_data)] IN b.len = c - a /\ Holds(b, a)
DataInv == fsm.state = "WAIT_DATA" =>
  /\ Taken # <<>>
  /\ \/ fsm.parts = 1 /\ Part(1, UnderWay.at, End(UnderWay))
     \/ fsm.parts = 2 /\ \E c \in Nat :
          /\ UnderWay.at < c /\ c < End(UnderWay)
          /\ Part(1, UnderWay.at, c) /\ Part(2, c, End(UnderWay))

\* The data the echo server holds, and the notices it goes with.
EchoInv ==
  /\ Len(Metas) = Len(echo_data) + (IF app.state = "FORWARD_DATA" THEN 1 ELSE 0)
  /\ \A i \in 1 .. Len(echo_data) : echo_data[i] = Numbers(Metas[i].at, Metas[i].len)

ChainInv == TakenInv /\ TodoInv /\ ToldInv /\ KeptInv /\ OrderInv
ReadInv == AppInv /\ ReqInv
RcvInv == EngInv /\ SpaceInv /\ TableInv /\ SegInv /\ PlaceInv
ByteInv == MemInv /\ DataInv /\ EchoInv
Core == ChainInv /\ ReadInv /\ RcvInv /\ ByteInv

\* The inductive invariant.
IInv == TInv /\ (Healthy => Core)
-----------------------------------------------------------------------------
(* Numbers that wrap.                                                        *)

LEMMA Modulus ==
  /\ BufMod \in Nat /\ BufMod > 1 /\ SeqMod \in Nat /\ SeqMod > 0 /\ SeqMod % BufMod = 0
  /\ Isn \in Int /\ WinMod \in Nat /\ WinMod > 0 /\ WordBytes \in Nat /\ WordBytes > 0
  /\ \A k \in Scales \cup {1} : k \in Nat /\ k > 0
BY RcvModAssumption

\* Two numbers that differ by a multiple of M.
Same(M, x, y) == \E q \in Int : x = y + M * q

LEMMA ModIsSame ==
  ASSUME NEW M \in Nat, M > 0, NEW x \in Int
  PROVE  /\ x % M \in Int /\ 0 <= x % M /\ x % M < M
         /\ Same(M, x % M, x) /\ Same(M, x, x % M)
<1>1. /\ x = M * (x \div M) + (x % M) /\ (x \div M) \in Int
      /\ (x % M) \in 0 .. M - 1
  OBVIOUS
<1>2. PICK q \in Int, r \in Int : q = x \div M /\ r = x % M
  BY <1>1
<1>3. x = M * q + r /\ M * q \in Int /\ M * (-q) = -(M * q) /\ -q \in Int
  BY <1>1, <1>2
<1>4. r = x + M * (-q) /\ x = r + M * q
  BY <1>3
<1>5. Same(M, r, x) /\ Same(M, x, r)
  BY <1>3, <1>4 DEF Same
<1> QED BY <1>1, <1>2, <1>5

\* Two numbers that are the same modulo M and less than M apart are equal.
LEMMA SameNear ==
  ASSUME NEW M \in Nat, M > 0, NEW x \in Int, NEW y \in Int, Same(M, x, y),
         x - y < M, y - x < M
  PROVE  x = y
<1>1. PICK q \in Int : x = y + M * q
  BY DEF Same
<1>2. q >= 1 => M * q >= M
  OBVIOUS
<1>3. q <= -1 => M * q <= -M
  OBVIOUS
<1>4. q = 0
  BY <1>1, <1>2, <1>3
<1>5. M * q = 0
  BY <1>4
<1> QED BY <1>1, <1>5

LEMMA SameArith ==
  ASSUME NEW M \in Nat, NEW x \in Int, NEW y \in Int, NEW z \in Int, NEW w \in Int,
         Same(M, x, y), Same(M, z, w)
  PROVE  /\ Same(M, x + z, y + w) /\ Same(M, x - z, y - w) /\ Same(M, y, x)
         /\ y = z => Same(M, x, w)
<1>1. PICK p \in Int : x = y + M * p
  BY DEF Same
<1>2. PICK q \in Int : z = w + M * q
  BY DEF Same
<1>3. /\ M * p \in Int /\ M * q \in Int /\ M * (p + q) = M * p + M * q
      /\ M * (p - q) = M * p - M * q /\ M * (-p) = -(M * p)
      /\ p + q \in Int /\ p - q \in Int /\ -p \in Int
  OBVIOUS
<1>4. x + z = (y + w) + M * (p + q)
  BY <1>1, <1>2, <1>3
<1>5. x - z = (y - w) + M * (p - q)
  BY <1>1, <1>2, <1>3
<1>6. y = x + M * (-p)
  BY <1>1, <1>3
<1>7. y = z => x = w + M * (p + q)
  BY <1>1, <1>2, <1>3
<1> QED BY <1>3, <1>4, <1>5, <1>6, <1>7 DEF Same

LEMMA SameSelf ==
  ASSUME NEW M \in Nat, NEW x \in Int
  PROVE  Same(M, x, x) /\ Same(M, x + M, x)
<1>1. M * 0 = 0 /\ M * 1 = M
  OBVIOUS
<1> QED BY <1>1 DEF Same

\* Equal residues, and the residue of a number in the range.
LEMMA SameMod ==
  ASSUME NEW M \in Nat, M > 0, NEW x \in Int, NEW y \in Int
  PROVE  Same(M, x, y) <=> x % M = y % M
<1>1. PICK a \in Int, b \in Int : a = x % M /\ b = y % M
  BY ModIsSame
<1>2. /\ 0 <= a /\ a < M /\ 0 <= b /\ b < M
      /\ Same(M, a, x) /\ Same(M, x, a) /\ Same(M, b, y) /\ Same(M, y, b)
  BY <1>1, ModIsSame
<1>3. ASSUME Same(M, x, y)  PROVE a = b
  <2>1. Same(M, a, y)
    BY <1>2, <1>3, SameArith
  <2>2. Same(M, a, b)
    BY <1>2, <2>1, SameArith
  <2>3. a - b < M /\ b - a < M
    BY <1>2
  <2> QED BY <2>2, <2>3, SameNear
<1>4. ASSUME a = b  PROVE Same(M, x, y)
  BY <1>2, <1>4, SameArith
<1> QED BY <1>1, <1>3, <1>4

LEMMA LowFacts ==
  ASSUME NEW x \in Int
  PROVE  /\ Low(x) \in Addrs /\ Low(x) \in Int /\ 0 <= Low(x) /\ Low(x) < BufMod
         /\ Same(BufMod, Low(x), x)
         /\ \A y \in Int : Same(BufMod, x, y) <=> Low(x) = Low(y)
         /\ \A y \in 0 .. BufMod - 1 : Same(BufMod, x, y) => Low(x) = y
<1>1. BufMod \in Nat /\ BufMod > 0
  BY Modulus
<1>2. /\ Low(x) \in Int /\ 0 <= Low(x) /\ Low(x) < BufMod /\ Same(BufMod, Low(x), x)
  BY <1>1, ModIsSame DEF Low
<1>3. Low(x) \in Addrs
  BY <1>1, <1>2 DEF Addrs
<1>4. \A y \in Int : Same(BufMod, x, y) <=> Low(x) = Low(y)
  BY <1>1, SameMod DEF Low
<1>5. ASSUME NEW y \in 0 .. BufMod - 1, Same(BufMod, x, y)  PROVE Low(x) = y
  <2>1. y \in Int /\ 0 <= y /\ y < BufMod
    BY <1>1
  <2>2. Same(BufMod, Low(x), y)
    BY <1>1, <1>2, <1>5, <2>1, SameArith
  <2>3. PICK u \in Int : u = Low(x)
    BY <1>2
  <2>4. u - y < BufMod /\ y - u < BufMod
    BY <1>1, <1>2, <2>1, <2>3
  <2> QED BY <1>1, <2>1, <2>2, <2>3, <2>4, SameNear
<1> QED BY <1>2, <1>3, <1>4, <1>5

LEMMA SeqFacts ==
  ASSUME NEW x \in Int
  PROVE  /\ SeqNo(x) \in Seqs /\ SeqNo(x) \in Int /\ 0 <= SeqNo(x) /\ SeqNo(x) < SeqMod
         /\ Same(SeqMod, SeqNo(x), x)
         /\ \A y \in Int : Same(SeqMod, x, y) <=> SeqNo(x) = SeqNo(y)
         /\ \A y \in 0 .. SeqMod - 1 : Same(SeqMod, x, y) => SeqNo(x) = y
<1>1. SeqMod \in Nat /\ SeqMod > 0
  BY Modulus
<1>2. /\ SeqNo(x) \in Int /\ 0 <= SeqNo(x) /\ SeqNo(x) < SeqMod /\ Same(SeqMod, SeqNo(x), x)
  BY <1>1, ModIsSame DEF SeqNo
<1>3. SeqNo(x) \in Seqs
  BY <1>1, <1>2 DEF Seqs
<1>4. \A y \in Int : Same(SeqMod, x, y) <=> SeqNo(x) = SeqNo(y)
  BY <1>1, SameMod DEF SeqNo
<1>5. ASSUME NEW y \in 0 .. SeqMod - 1, Same(SeqMod, x, y)  PROVE SeqNo(x) = y
  <2>1. y \in Int /\ 0 <= y /\ y < SeqMod
    BY <1>1
  <2>2. Same(SeqMod, SeqNo(x), y)
    BY <1>1, <1>2, <1>5, <2>1, SameArith
  <2>3. PICK u \in Int : u = SeqNo(x)
    BY <1>2
  <2>4. u - y < SeqMod /\ y - u < SeqMod
    BY <1>1, <1>2, <2>1, <2>3
  <2> QED BY <1>1, <2>1, <2>2, <2>3, <2>4, SameNear
<1> QED BY <1>2, <1>3, <1>4, <1>5

\* Sequence numbers wrap at a multiple of the buffer, which is not 1.
LEMMA SeqIsLow ==
  /\ SeqMod > 1
  /\ \A x, y \in Int : Same(SeqMod, x, y) => Same(BufMod, x, y)
<1>1. BufMod \in Nat /\ BufMod > 1 /\ SeqMod \in Nat /\ SeqMod > 0 /\ SeqMod % BufMod = 0
  BY Modulus
<1>2. Same(BufMod, SeqMod, 0)
  <2>1. Same(BufMod, SeqMod, SeqMod % BufMod)
    BY <1>1, ModIsSame
  <2> QED BY <2>1, <1>1
<1>3. PICK m \in Int : SeqMod = BufMod * m
  BY <1>1, <1>2 DEF Same
<1>4. SeqMod > 1
  <2>1. m <= 0 => BufMod * m <= 0
    BY <1>1
  <2>2. m >= 1 => BufMod * m >= BufMod
    BY <1>1
  <2> QED BY <2>1, <2>2, <1>1, <1>3
<1>5. ASSUME NEW x \in Int, NEW y \in Int, Same(SeqMod, x, y)  PROVE Same(BufMod, x, y)
  <2>1. PICK q \in Int : x = y + SeqMod * q
    BY <1>5 DEF Same
  <2>2. SeqMod * q = BufMod * (m * q) /\ m * q \in Int
    BY <1>1, <1>3
  <2>3. x = y + BufMod * (m * q)
    BY <2>1, <2>2
  <2> QED BY <2>2, <2>3 DEF Same
<1> QED BY <1>4, <1>5

\* What the entry of the table says of the room: r bytes received, f of them given back.
LEMMA SpaceFacts ==
  ASSUME NEW b \in Int, NEW r \in Int, NEW f \in Int, f <= r, r - f <= BufMod - 1
  PROVE  Low(Low(b + f) - SeqNo(b + r) - 1) = f - r + BufMod - 1
<1>1. BufMod \in Nat /\ BufMod > 1
  BY Modulus
<1>2. PICK x \in Int, y \in Int : x = b + r /\ y = b + f
  OBVIOUS
<1>3. PICK u \in Int, v \in Int : u = Low(y) /\ v = SeqNo(x)
  BY LowFacts, SeqFacts
<1>4. Same(BufMod, u, y) /\ Same(BufMod, v, x)
  BY <1>2, <1>3, LowFacts, SeqFacts, SeqIsLow
<1>5. Same(BufMod, u - v, y - x)
  BY <1>1, <1>4, SameArith
<1>6. PICK d \in Int, e \in Int, g \in Int : d = u - v /\ e = y - x /\ g = f - r + BufMod - 1
  BY <1>1
<1>7. Same(BufMod, 1, 1) /\ Same(BufMod, g, e - 1)
  <2>1. g = (e - 1) + BufMod
    BY <1>1, <1>2, <1>6
  <2>2. e - 1 \in Int /\ 1 \in Int
    OBVIOUS
  <2> QED BY <2>1, <2>2, <1>1, SameSelf
<1>8. Same(BufMod, d - 1, e - 1)
  BY <1>1, <1>5, <1>6, <1>7, SameArith
<1>9. Same(BufMod, d - 1, g)
  <2>1. Same(BufMod, e - 1, g)
    BY <1>1, <1>7, SameArith
  <2> QED BY <1>1, <1>8, <2>1, SameArith
<1>10. g \in 0 .. BufMod - 1
  BY <1>1, <1>6
<1>11. Low(d - 1) = g
  BY <1>9, <1>10, LowFacts
<1> QED BY <1>2, <1>3, <1>6, <1>11

\* A difference of sequence numbers is the distance of the bytes.
LEMMA NextFacts ==
  ASSUME NEW b \in Int, NEW a \in Int, NEW r \in Int, r <= a, a - r < SeqMod
  PROVE  SeqNo(b + a - SeqNo(b + r)) = a - r
<1>1. SeqMod \in Nat /\ SeqMod > 0
  BY Modulus
<1>2. PICK x \in Int, y \in Int, d \in Int : x = b + r /\ y = b + a /\ d = a - r
  OBVIOUS
<1>3. PICK v \in Int : v = SeqNo(x)
  BY SeqFacts
<1>4. Same(SeqMod, v, x) /\ Same(SeqMod, y, y)
  BY <1>1, <1>3, SeqFacts, SameSelf
<1>5. Same(SeqMod, y - v, y - x)
  BY <1>1, <1>4, SameArith
<1>6. y - x = d /\ d \in 0 .. SeqMod - 1 /\ y - v \in Int
  BY <1>1, <1>2
<1>7. SeqNo(y - v) = d
  BY <1>5, <1>6, SeqFacts
<1> QED BY <1>2, <1>3, <1>7

\* Adding to a residue; the distance of two residues.
LEMMA LowStep ==
  ASSUME NEW x \in Int, NEW n \in Int
  PROVE  /\ Low(Low(x) + n) = Low(x + n)
         /\ 0 <= n /\ n < BufMod => Low(Low(x + n) - Low(x)) = n
<1>1. BufMod \in Nat /\ BufMod > 1
  BY Modulus
<1>2. PICK u \in Int, y \in Int, v \in Int : u = Low(x) /\ y = x + n /\ v = Low(y)
  BY LowFacts
<1>3. Same(BufMod, u, x) /\ Same(BufMod, v, y) /\ Same(BufMod, n, n)
  BY <1>1, <1>2, LowFacts, SameSelf
<1>4. Same(BufMod, u + n, y) /\ Same(BufMod, v - u, y - x)
  BY <1>1, <1>2, <1>3, SameArith
<1>5. Low(u + n) = Low(y)
  BY <1>4, LowFacts
<1>6. ASSUME 0 <= n, n < BufMod  PROVE Low(v - u) = n
  <2>1. y - x = n /\ n \in 0 .. BufMod - 1 /\ v - u \in Int
    BY <1>1, <1>2, <1>6
  <2> QED BY <2>1, <1>4, LowFacts
<1> QED BY <1>2, <1>5, <1>6

\* Bytes that are less than the buffer apart have different places.
LEMMA LowApart ==
  ASSUME NEW x \in Int, NEW y \in Int, Low(x) = Low(y), x - y < BufMod, y - x < BufMod
  PROVE  x = y
<1>1. BufMod \in Nat /\ BufMod > 1
  BY Modulus
<1>2. Same(BufMod, x, y)
  BY LowFacts
<1> QED BY <1>1, <1>2, SameNear

\* The same for sequence numbers, which are told apart by the byte before and behind.
LEMMA SeqApart ==
  ASSUME NEW b \in Int, NEW x \in Int, NEW y \in Int, SeqNo(b + x) = SeqNo(b + y),
         x - y <= 1, y - x <= 1
  PROVE  x = y
<1>1. SeqMod \in Nat /\ SeqMod > 1 /\ SeqMod > 0
  BY Modulus, SeqIsLow
<1>2. PICK u \in Int, v \in Int : u = b + x /\ v = b + y
  OBVIOUS
<1>3. Same(SeqMod, u, v)
  BY <1>2, SeqFacts
<1>5. u - v < SeqMod /\ v - u < SeqMod
  BY <1>1, <1>2
<1>4. u = v
  BY <1>1, <1>3, <1>5, SameNear
<1> QED BY <1>2, <1>4

\* A sequence number stands for the byte also at its place in the buffer and after n more.
LEMMA SeqStep ==
  ASSUME NEW x \in Int, NEW n \in Int
  PROVE  /\ Low(SeqNo(x)) = Low(x) /\ SeqNo(SeqNo(x) + n) = SeqNo(x + n)
         /\ SeqNo(SeqNo(n - x) + x) = SeqNo(n) /\ Low(SeqNo(n - x) + x) = Low(n)
<1>1. BufMod \in Nat /\ BufMod > 1 /\ SeqMod \in Nat /\ SeqMod > 1
  BY Modulus, SeqIsLow
<1>2. PICK u \in Int, y \in Int, z \in Int, w \in Int :
        u = SeqNo(x) /\ y = x + n /\ z = n - x /\ w = SeqNo(z)
  BY SeqFacts
<1>3. Same(SeqMod, u, x) /\ Same(SeqMod, w, z) /\ Same(SeqMod, n, n) /\ Same(SeqMod, x, x)
  BY <1>1, <1>2, SeqFacts, SameSelf
<1>4. Same(SeqMod, u + n, y) /\ Same(SeqMod, w + x, z + x)
  BY <1>1, <1>2, <1>3, SameArith
<1>5. z + x = n /\ w + x \in Int /\ u + n \in Int
  BY <1>2
<1>6. SeqNo(u + n) = SeqNo(y) /\ SeqNo(w + x) = SeqNo(n)
  BY <1>4, <1>5, SeqFacts
<1>7. Low(u) = Low(x) /\ Low(w + x) = Low(n)
  BY <1>2, <1>3, <1>4, <1>5, SeqIsLow, LowFacts
<1> QED BY <1>2, <1>6, <1>7

\* Rounding down to a scale loses less than one unit.
LEMMA DivFacts ==
  ASSUME NEW k \in Nat, k > 0, NEW n \in Nat
  PROVE  n \div k \in Nat /\ (n \div k) * k <= n /\ n < (n \div k) * k + k
<1>1. n = k * (n \div k) + (n % k) /\ (n \div k) \in Int /\ (n % k) \in 0 .. k - 1
  OBVIOUS
<1>2. PICK q \in Int, r \in Int : q = n \div k /\ r = n % k
  BY <1>1
<1>3. n = k * q + r /\ 0 <= r /\ r < k /\ q * k = k * q /\ k * q \in Int
  BY <1>1, <1>2
<1>4. q >= 0
  <2>1. q <= -1 => k * q <= -k
    OBVIOUS
  <2> QED BY <2>1, <1>3
<1> QED BY <1>2, <1>3, <1>4
-----------------------------------------------------------------------------
(* FIFOs.                                                                    *)

LEMMA DepthFacts == Depth \in Nat /\ Depth >= 2 /\ MaxBytes \in Nat
BY RcvBoundsAssumption

LEMMA SeqSame ==
  ASSUME NEW T, NEW a \in Seq(T), NEW b \in Seq(T), Len(a) = Len(b),
         \A i \in 1 .. Len(a) : a[i] = b[i]
  PROVE  a = b
OBVIOUS

LEMMA NoElement ==
  ASSUME NEW T, NEW q \in Seq(T), Len(q) = 0
  PROVE  q = <<>>
OBVIOUS

LEMMA Popped ==
  ASSUME NEW T, NEW q \in Seq(T), q # <<>>
  PROVE  /\ Head(q) \in T /\ Tail(q) \in Seq(T) /\ Head(q) = q[1]
         /\ Len(q) \in Nat /\ Len(q) >= 1 /\ Len(Tail(q)) = Len(q) - 1
         /\ \A i \in 1 .. Len(q) - 1 : Tail(q)[i] = q[i + 1]
OBVIOUS

LEMMA Puts ==
  ASSUME NEW T, NEW q \in Seq(T), NEW e \in T
  PROVE  /\ Append(q, e) \in Seq(T) /\ Len(q) \in Nat /\ Len(Append(q, e)) = Len(q) + 1
         /\ Append(q, e)[Len(q) + 1] = e /\ Append(q, e) # <<>>
         /\ \A i \in 1 .. Len(q) : Append(q, e)[i] = q[i]
OBVIOUS

LEMMA Element ==
  ASSUME NEW T, NEW q \in Seq(T), NEW i \in 1 .. Len(q)
  PROVE  q[i] \in T
OBVIOUS

LEMMA OneLeft ==
  ASSUME NEW T, NEW q \in Seq(T), Len(q) = 1
  PROVE  Tail(q) = <<>> /\ q # <<>>
<1>1. q # <<>>
  <2> SUFFICES ASSUME q = <<>>  PROVE FALSE
    OBVIOUS
  <2>1. Len(q) = 0
    OBVIOUS
  <2> QED BY <2>1
<1>2. Tail(q) \in Seq(T) /\ Len(Tail(q)) = 0
  BY <1>1, Popped
<1> QED BY <1>1, <1>2, NoElement

LEMMA FifoRead ==
  ASSUME NEW T, NEW q, Fifo(q, T), q # <<>>
  PROVE  Fifo(Tail(q), T) /\ Head(q) \in T /\ Head(q) = q[1]
<1>1. q \in Seq(T) /\ Len(q) <= Depth
  BY DEF Fifo
<1> QED BY <1>1, Popped, DepthFacts DEF Fifo

LEMMA FifoWrite ==
  ASSUME NEW T, NEW q, Fifo(q, T), Room(q), NEW e \in T
  PROVE  Fifo(Append(q, e), T)
<1>1. q \in Seq(T) /\ Len(q) < Depth
  BY DEF Fifo, Room
<1> QED BY <1>1, Puts, DepthFacts DEF Fifo

LEMMA CatType ==
  ASSUME NEW T, NEW a \in Seq(T), NEW b \in Seq(T)
  PROVE  /\ a \o b \in Seq(T) /\ Len(a) \in Nat /\ Len(b) \in Nat /\ Len(a \o b) = Len(a) + Len(b)
         /\ \A i \in 1 .. Len(a) : (a \o b)[i] = a[i]
         /\ \A i \in 1 .. Len(b) : (a \o b)[Len(a) + i] = b[i]
         /\ \A i \in Len(a) + 1 .. Len(a) + Len(b) : (a \o b)[i] = b[i - Len(a)]
OBVIOUS

\* One element in front of a FIFO.
LEMMA CatOne ==
  ASSUME NEW T, NEW e \in T, NEW q \in Seq(T)
  PROVE  /\ <<e>> \o q \in Seq(T) /\ Len(q) \in Nat /\ Len(<<e>> \o q) = Len(q) + 1
         /\ (<<e>> \o q)[1] = e /\ \A i \in 1 .. Len(q) : (<<e>> \o q)[i + 1] = q[i]
         /\ Head(<<e>> \o q) = e /\ Tail(<<e>> \o q) = q /\ <<e>> \o q # <<>>
<1>1. <<e>> \in Seq(T) /\ Len(<<e>>) = 1 /\ <<e>>[1] = e
  OBVIOUS
<1>2. /\ <<e>> \o q \in Seq(T) /\ Len(q) \in Nat /\ Len(<<e>> \o q) = Len(q) + 1
      /\ (<<e>> \o q)[1] = e /\ \A i \in 1 .. Len(q) : (<<e>> \o q)[i + 1] = q[i]
  <2> DEFINE c == <<e>> \o q
  <2>1. /\ c \in Seq(T) /\ Len(q) \in Nat /\ Len(c) = 1 + Len(q) /\ c[1] = <<e>>[1]
        /\ \A i \in 1 .. Len(q) : c[1 + i] = q[i]
    BY <1>1, CatType
  <2> HIDE DEF c
  <2>2. \A i \in 1 .. Len(q) : c[i + 1] = q[i]
    <3> SUFFICES ASSUME NEW i \in 1 .. Len(q)  PROVE c[i + 1] = q[i]
      OBVIOUS
    <3>1. 1 + i = i + 1
      BY <2>1
    <3> QED BY <2>1, <3>1
  <2> QED BY <2>1, <2>2, <1>1 DEF c
<1>3. <<e>> \o q # <<>>
  BY <1>2
<1> DEFINE c == <<e>> \o q
<1>4. c \in Seq(T) /\ c # <<>> /\ Len(c) = Len(q) + 1 /\ c[1] = e /\ \A i \in 1 .. Len(q) : c[i + 1] = q[i]
  BY <1>2, <1>3
<1> HIDE DEF c
<1>5. Head(c) = e /\ Tail(c) = q
  <2>1. /\ Head(c) = c[1] /\ Tail(c) \in Seq(T) /\ Len(Tail(c)) = Len(c) - 1
        /\ \A i \in 1 .. Len(c) - 1 : Tail(c)[i] = c[i + 1]
    BY <1>4, Popped
  <2>2. Len(c) - 1 = Len(q)
    BY <1>2, <1>4
  <2> QED BY <1>4, <2>1, <2>2, SeqSame
<1> QED BY <1>2, <1>3, <1>5 DEF c

\* The head of a FIFO, taken out and put in front of it.
LEMMA CatHead ==
  ASSUME NEW T, NEW q \in Seq(T), q # <<>>
  PROVE  <<Head(q)>> \o Tail(q) = q
<1> DEFINE c == <<Head(q)>> \o Tail(q)
<1>1. /\ Head(q) \in T /\ Tail(q) \in Seq(T) /\ Head(q) = q[1] /\ Len(q) \in Nat /\ Len(q) >= 1
      /\ Len(Tail(q)) = Len(q) - 1 /\ \A i \in 1 .. Len(q) - 1 : Tail(q)[i] = q[i + 1]
  BY Popped
<1>2. /\ c \in Seq(T) /\ Len(c) = Len(Tail(q)) + 1 /\ c[1] = Head(q)
      /\ \A i \in 1 .. Len(Tail(q)) : c[i + 1] = Tail(q)[i]
  BY <1>1, CatOne
<1> HIDE DEF c
<1>3. ASSUME NEW i \in 1 .. Len(c)  PROVE c[i] = q[i]
  <2>1. CASE i = 1
    BY <1>1, <1>2, <2>1
  <2>2. CASE i # 1
    <3>1. PICK j \in 1 .. Len(q) - 1 : i = j + 1
      <4>1. i - 1 \in 1 .. Len(q) - 1 /\ i = (i - 1) + 1
        BY <1>1, <1>2, <2>2
      <4> QED BY <4>1
    <3>2. c[j + 1] = Tail(q)[j] /\ Tail(q)[j] = q[j + 1]
      BY <1>1, <1>2, <3>1
    <3> QED BY <3>1, <3>2
  <2> QED BY <2>1, <2>2
<1>4. Len(c) = Len(q)
  BY <1>1, <1>2
<1>5. c = q
  BY <1>2, <1>3, <1>4, SeqSame
<1> QED BY <1>5 DEF c

\* A write at the end of the second of two FIFOs.
LEMMA CatPush ==
  ASSUME NEW T, NEW a \in Seq(T), NEW b \in Seq(T), NEW e \in T
  PROVE  a \o Append(b, e) = Append(a \o b, e)
<1> DEFINE d == Append(b, e)
           c == a \o b
           u == a \o d
           v == Append(c, e)
<1>2. /\ c \in Seq(T) /\ Len(c) = Len(a) + Len(b) /\ \A i \in 1 .. Len(a) : c[i] = a[i]
      /\ \A i \in Len(a) + 1 .. Len(a) + Len(b) : c[i] = b[i - Len(a)]
  BY CatType
<1>1. /\ d \in Seq(T) /\ Len(a) \in Nat /\ Len(b) \in Nat /\ Len(d) = Len(b) + 1 /\ d[Len(b) + 1] = e
      /\ \A i \in 1 .. Len(b) : d[i] = b[i]
  <2>1. Len(a) \in Nat
    OBVIOUS
  <2> QED BY <2>1, Puts
<1> HIDE DEF c, d
<1>3. /\ u \in Seq(T) /\ Len(u) = Len(a) + Len(d) /\ \A i \in 1 .. Len(a) : u[i] = a[i]
      /\ \A i \in Len(a) + 1 .. Len(a) + Len(d) : u[i] = d[i - Len(a)]
  <2>1. d \in Seq(T)
    BY <1>1
  <2> QED BY <2>1, CatType
<1>4. /\ v \in Seq(T) /\ Len(v) = Len(c) + 1 /\ v[Len(c) + 1] = e
      /\ \A i \in 1 .. Len(c) : v[i] = c[i]
  <2>1. c \in Seq(T)
    BY <1>2
  <2> QED BY <2>1, Puts
<1> HIDE DEF u, v
<1>5. Len(u) = Len(v)
  BY <1>1, <1>2, <1>3, <1>4
<1>6. ASSUME NEW i \in 1 .. Len(u)  PROVE u[i] = v[i]
  <2>0. i \in Nat /\ Len(u) = Len(a) + Len(b) + 1
    BY <1>1, <1>3
  <2>1. CASE i \in 1 .. Len(a)
    <3>1. i \in 1 .. Len(c)
      BY <1>1, <1>2, <2>1
    <3> QED BY <1>2, <1>3, <1>4, <2>1, <3>1
  <2>2. CASE i \in Len(a) + 1 .. Len(a) + Len(b)
    <3>1. i \in 1 .. Len(c) /\ i - Len(a) \in 1 .. Len(b) /\ i \in Len(a) + 1 .. Len(a) + Len(d)
      BY <1>1, <1>2, <2>2
    <3> QED BY <1>1, <1>2, <1>3, <1>4, <2>2, <3>1
  <2>3. CASE i = Len(a) + Len(b) + 1
    <3>1. i - Len(a) = Len(b) + 1 /\ i \in Len(a) + 1 .. Len(a) + Len(d) /\ i = Len(c) + 1
      BY <1>1, <1>2, <2>3
    <3> QED BY <1>1, <1>3, <1>4, <3>1
  <2>4. \/ i \in 1 .. Len(a) \/ i \in Len(a) + 1 .. Len(a) + Len(b)
        \/ i = Len(a) + Len(b) + 1
    <3>1. i >= 1 /\ i <= Len(a) + Len(b) + 1
      BY <2>0
    <3> QED BY <1>1, <2>0, <3>1
  <2> QED BY <2>1, <2>2, <2>3, <2>4, Zenon
<1>7. u = v
  BY <1>3, <1>4, <1>5, <1>6, SeqSame
<1> QED BY <1>7 DEF u, v, c, d

\* An element that moves from the second of two FIFOs to the first.
LEMMA CatShift ==
  ASSUME NEW T, NEW a \in Seq(T), NEW b \in Seq(T), b # <<>>
  PROVE  Append(a, Head(b)) \o Tail(b) = a \o b
<1> DEFINE h == Append(a, Head(b))
           t == Tail(b)
           u == h \o t
           v == a \o b
<1>1. /\ Head(b) \in T /\ t \in Seq(T) /\ Head(b) = b[1] /\ Len(b) \in Nat /\ Len(b) >= 1
      /\ Len(t) = Len(b) - 1 /\ \A i \in 1 .. Len(b) - 1 : t[i] = b[i + 1]
  BY Popped
<1>2. /\ h \in Seq(T) /\ Len(a) \in Nat /\ Len(h) = Len(a) + 1 /\ h[Len(a) + 1] = Head(b)
      /\ \A i \in 1 .. Len(a) : h[i] = a[i]
  BY <1>1, Puts
<1> HIDE DEF h, t
<1>3. /\ u \in Seq(T) /\ Len(u) = Len(h) + Len(t) /\ \A i \in 1 .. Len(h) : u[i] = h[i]
      /\ \A i \in Len(h) + 1 .. Len(h) + Len(t) : u[i] = t[i - Len(h)]
  <2>1. h \in Seq(T) /\ t \in Seq(T)
    BY <1>1, <1>2
  <2> QED BY <2>1, CatType
<1>4. /\ v \in Seq(T) /\ Len(v) = Len(a) + Len(b) /\ \A i \in 1 .. Len(a) : v[i] = a[i]
      /\ \A i \in Len(a) + 1 .. Len(a) + Len(b) : v[i] = b[i - Len(a)]
  BY CatType
<1> HIDE DEF u, v
<1>5. Len(u) = Len(v)
  BY <1>1, <1>2, <1>3, <1>4
<1>6. ASSUME NEW i \in 1 .. Len(u)  PROVE u[i] = v[i]
  <2>0. i \in Nat /\ Len(u) = Len(a) + Len(b)
    BY <1>1, <1>2, <1>3
  <2>1. CASE i \in 1 .. Len(a)
    <3>1. i \in 1 .. Len(h)
      BY <1>2, <2>1
    <3> QED BY <1>2, <1>3, <1>4, <2>1, <3>1
  <2>2. CASE i = Len(a) + 1
    <3>1. i \in 1 .. Len(h) /\ i \in Len(a) + 1 .. Len(a) + Len(b) /\ i - Len(a) = 1
      BY <1>1, <1>2, <2>2
    <3> QED BY <1>1, <1>2, <1>3, <1>4, <2>2, <3>1
  <2>3. CASE i \in Len(a) + 2 .. Len(a) + Len(b)
    <3>1. PICK j \in 1 .. Len(b) - 1 : i = Len(a) + 1 + j
      <4>1. i - Len(a) - 1 \in 1 .. Len(b) - 1 /\ i = Len(a) + 1 + (i - Len(a) - 1)
        BY <1>1, <1>2, <2>3
      <4> QED BY <4>1
    <3>2. /\ i \in Len(h) + 1 .. Len(h) + Len(t) /\ i - Len(h) = j
          /\ i \in Len(a) + 1 .. Len(a) + Len(b) /\ i - Len(a) = j + 1
      BY <1>1, <1>2, <3>1
    <3>3. u[i] = t[j] /\ v[i] = b[j + 1] /\ t[j] = b[j + 1]
      BY <1>1, <1>3, <1>4, <3>1, <3>2
    <3> QED BY <3>3
  <2> QED BY <1>1, <1>2, <2>0, <2>1, <2>2, <2>3
<1>7. u = v
  BY <1>3, <1>4, <1>5, <1>6, SeqSame
<1> QED BY <1>7 DEF u, v, h, t

-----------------------------------------------------------------------------
(* Chains.                                                                   *)

\* What a chain is made of.
Links(T) == \A x \in T : x.id \in Sessions /\ x.len \in Nat /\ x.at \in Nat
Counts == [Sessions -> Nat]
Below(lo, hi) == \A s \in Sessions : lo[s] <= hi[s]
Moved(f, g, e) == g[e.id] = f[e.id] + e.len /\ \A s \in Sessions : s # e.id => g[s] = f[s]

LEMMA LinkFacts == Links(Notices) /\ Links(DataNotices) /\ Links(Jobs)
<1>1. BufMod \in Nat
  BY Modulus
<1> QED BY <1>1 DEF Links, Notices, DataNotices, Jobs, Lens

\* A notice is put at the end.
LEMMA LinkedPush ==
  ASSUME NEW T, Links(T), NEW q \in Seq(T), NEW lo \in Counts, NEW hi \in Counts,
         Linked(q, lo, hi), Below(lo, hi), NEW e \in T, e.len > 0 => e.at = hi[e.id],
         NEW up \in Counts, Moved(hi, up, e)
  PROVE  Linked(Append(q, e), lo, up) /\ Below(lo, up)
<1> DEFINE c == Append(q, e)
<1>1. /\ c \in Seq(T) /\ Len(q) \in Nat /\ Len(c) = Len(q) + 1 /\ c[Len(q) + 1] = e
      /\ \A i \in 1 .. Len(q) : c[i] = q[i]
  BY Puts
<1> HIDE DEF c
<1>2. e.id \in Sessions /\ e.len \in Nat /\ e.at \in Nat
  BY DEF Links
<1>3. \A i \in 1 .. Len(q) : q[i].id \in Sessions /\ q[i].len \in Nat /\ q[i].at \in Nat
  <2> TAKE i \in 1 .. Len(q)
  <2>1. q[i] \in T
    BY Element
  <2> QED BY <2>1 DEF Links
<1>4. /\ \A s \in Sessions : lo[s] \in Nat /\ hi[s] \in Nat /\ lo[s] <= hi[s] /\ up[s] \in Nat
      /\ \A s \in Sessions : hi[s] <= up[s] /\ (s # e.id => up[s] = hi[s])
      /\ up[e.id] = hi[e.id] + e.len
  BY <1>2 DEF Counts, Below, Moved
<1>5. up \in Counts /\ Below(lo, up)
  BY <1>2, <1>4 DEF Counts, Below
<1>6. \A i \in 1 .. Len(q) : q[i].len > 0 => lo[q[i].id] <= q[i].at /\ End(q[i]) <= hi[q[i].id]
  BY DEF Linked, Within
<1>7. \A i, j \in 1 .. Len(q) :
        i < j /\ q[i].len > 0 /\ q[j].len > 0 /\ q[i].id = q[j].id => End(q[i]) <= q[j].at
  BY DEF Linked, InOrder
<1>8. Within(c, lo, up)
  <2> SUFFICES ASSUME NEW i \in 1 .. Len(c), c[i].len > 0
               PROVE  lo[c[i].id] <= c[i].at /\ End(c[i]) <= up[c[i].id]
    BY DEF Within
  <2>1. CASE i \in 1 .. Len(q)
    <3>1. c[i] = q[i] /\ q[i].id \in Sessions /\ q[i].len \in Nat /\ q[i].at \in Nat
      BY <1>1, <1>3, <2>1
    <3>2. lo[q[i].id] <= q[i].at /\ End(q[i]) <= hi[q[i].id] /\ hi[q[i].id] <= up[q[i].id]
          /\ hi[q[i].id] \in Nat /\ up[q[i].id] \in Nat
      BY <1>4, <1>6, <2>1, <3>1
    <3>3. End(q[i]) \in Nat
      BY <3>1 DEF End
    <3> QED BY <3>1, <3>2, <3>3
  <2>2. CASE i = Len(q) + 1
    BY <1>1, <1>2, <1>4, <2>2 DEF End
  <2> QED BY <1>1, <2>1, <2>2
<1>9. InOrder(c)
  <2> SUFFICES ASSUME NEW i \in 1 .. Len(c), NEW j \in 1 .. Len(c), i < j,
                      c[i].len > 0, c[j].len > 0, c[i].id = c[j].id
               PROVE  End(c[i]) <= c[j].at
    BY DEF InOrder
  <2>0. i \in 1 .. Len(q)
    BY <1>1
  <2>1. CASE j \in 1 .. Len(q)
    BY <1>1, <1>7, <2>0, <2>1
  <2>2. CASE j = Len(q) + 1
    BY <1>1, <1>2, <1>6, <2>0, <2>2
  <2> QED BY <1>1, <2>1, <2>2
<1>10. Covers(c, lo, up)
  <2> SUFFICES ASSUME NEW s \in Sessions, NEW b \in Nat, lo[s] <= b, b < up[s]
               PROVE  \E i \in 1 .. Len(c) : c[i].id = s /\ c[i].at <= b /\ b < End(c[i])
    BY DEF Covers
  <2>1. CASE b < hi[s]
    <3>1. PICK i \in 1 .. Len(q) : q[i].id = s /\ q[i].at <= b /\ b < End(q[i])
      BY <2>1 DEF Linked, Covers
    <3> QED BY <1>1, <3>1
  <2>2. CASE ~(b < hi[s])
    <3>1. s = e.id /\ e.len > 0
      BY <1>2, <1>4, <2>2
    <3>2. e.at = hi[s] /\ End(e) = up[s] /\ Len(q) + 1 \in 1 .. Len(c)
      BY <1>1, <1>2, <1>4, <3>1 DEF End
    <3>3. e.at <= b
      BY <1>2, <1>4, <2>2, <3>2
    <3> QED BY <1>1, <3>1, <3>2, <3>3
  <2> QED BY <2>1, <2>2
<1> QED BY <1>5, <1>8, <1>9, <1>10 DEF Linked, c

\* The first notice is where the chain begins, and is taken out.
LEMMA LinkedPop ==
  ASSUME NEW T, Links(T), NEW q \in Seq(T), q # <<>>, NEW lo \in Counts, NEW hi \in Counts,
         Linked(q, lo, hi), Below(lo, hi), NEW e, e = q[1],
         NEW up \in Counts, Moved(lo, up, e)
  PROVE  /\ Linked(Tail(q), up, hi) /\ Below(up, hi)
         /\ e.len > 0 => e.at = lo[e.id] /\ End(e) <= hi[e.id]
         /\ e.len > 0 => up[e.id] = End(e)
<1> DEFINE c == Tail(q)
<1>1. /\ c \in Seq(T) /\ Len(q) \in Nat /\ Len(q) >= 1 /\ Len(c) = Len(q) - 1
      /\ \A i \in 1 .. Len(q) - 1 : c[i] = q[i + 1]
  BY Popped
<1> HIDE DEF c
<1>3. \A i \in 1 .. Len(q) : q[i].id \in Sessions /\ q[i].len \in Nat /\ q[i].at \in Nat
  <2> TAKE i \in 1 .. Len(q)
  <2>1. q[i] \in T
    BY Element
  <2> QED BY <2>1 DEF Links
<1>2. e.id \in Sessions /\ e.len \in Nat /\ e.at \in Nat
  BY <1>1, <1>3
<1>4. /\ \A s \in Sessions : lo[s] \in Nat /\ hi[s] \in Nat /\ lo[s] <= hi[s] /\ up[s] \in Nat
      /\ \A s \in Sessions : lo[s] <= up[s] /\ (s # e.id => up[s] = lo[s])
      /\ up[e.id] = lo[e.id] + e.len
  BY <1>2 DEF Counts, Below, Moved
<1>6. \A i \in 1 .. Len(q) : q[i].len > 0 => lo[q[i].id] <= q[i].at /\ End(q[i]) <= hi[q[i].id]
  BY DEF Linked, Within
<1>7. \A i, j \in 1 .. Len(q) :
        i < j /\ q[i].len > 0 /\ q[j].len > 0 /\ q[i].id = q[j].id => End(q[i]) <= q[j].at
  BY DEF Linked, InOrder
<1>5. e.len > 0 => e.at = lo[e.id] /\ End(e) <= hi[e.id] /\ up[e.id] = End(e)
  <2> SUFFICES ASSUME e.len > 0  PROVE e.at = lo[e.id] /\ End(e) <= hi[e.id] /\ up[e.id] = End(e)
    OBVIOUS
  <2>1. lo[e.id] <= e.at /\ End(e) <= hi[e.id] /\ End(e) = e.at + e.len
    BY <1>1, <1>6 DEF End
  <2>2. ASSUME lo[e.id] # e.at  PROVE FALSE
    <3>1. PICK b \in Nat : b = lo[e.id]
      BY <1>2, <1>4, <2>2
    <3>2. b < e.at /\ b < hi[e.id]
      BY <1>2, <1>4, <2>1, <2>2, <3>1
    <3>6. lo[e.id] <= b /\ b < hi[e.id] /\ e.id \in Sessions
      BY <1>2, <3>1, <3>2
    <3>3. PICK i \in 1 .. Len(q) : q[i].id = e.id /\ q[i].at <= b /\ b < End(q[i])
      BY <3>6 DEF Linked, Covers
    <3>4. i # 1 /\ q[i].len > 0
      BY <1>3, <3>2, <3>3 DEF End
    <3>5. End(e) <= q[i].at
      BY <1>1, <1>7, <3>3, <3>4
    <3> QED BY <1>2, <1>3, <2>1, <3>2, <3>3, <3>5
  <2> QED BY <1>2, <1>4, <2>1, <2>2
<1>8. Below(up, hi)
  <2> SUFFICES ASSUME NEW s \in Sessions  PROVE up[s] <= hi[s]
    BY DEF Below
  <2>1. CASE s # e.id \/ e.len = 0
    BY <1>2, <1>4, <2>1
  <2>2. CASE s = e.id /\ e.len # 0
    BY <1>2, <1>5, <2>2
  <2> QED BY <2>1, <2>2
<1>9. \A i \in 1 .. Len(c) : i + 1 \in 1 .. Len(q) /\ i + 1 # 1 /\ c[i] = q[i + 1] /\ 1 < i + 1
  BY <1>1
<1>10. Within(c, up, hi)
  <2> SUFFICES ASSUME NEW i \in 1 .. Len(c), c[i].len > 0
               PROVE  up[c[i].id] <= c[i].at /\ End(c[i]) <= hi[c[i].id]
    BY DEF Within
  <2>1. PICK k \in 1 .. Len(q) : k = i + 1 /\ 1 < k /\ c[i] = q[k]
    BY <1>9
  <2>2. lo[q[k].id] <= q[k].at /\ End(q[k]) <= hi[q[k].id] /\ q[k].id \in Sessions
    BY <1>3, <1>6, <2>1
  <2>3. CASE q[k].id # e.id \/ e.len = 0
    BY <1>2, <1>4, <2>1, <2>2, <2>3
  <2>4. CASE q[k].id = e.id /\ e.len > 0
    <3>1. End(e) <= q[k].at
      BY <1>1, <1>7, <2>1, <2>4
    <3> QED BY <1>5, <2>1, <2>2, <2>4, <3>1
  <2> QED BY <1>2, <2>1, <2>3, <2>4
<1>11. InOrder(c)
  <2> SUFFICES ASSUME NEW i \in 1 .. Len(c), NEW j \in 1 .. Len(c), i < j,
                      c[i].len > 0, c[j].len > 0, c[i].id = c[j].id
               PROVE  End(c[i]) <= c[j].at
    BY DEF InOrder
  <2>1. i + 1 < j + 1
    BY <1>1
  <2> QED BY <1>7, <1>9, <2>1
<1>12. Covers(c, up, hi)
  <2> SUFFICES ASSUME NEW s \in Sessions, NEW b \in Nat, up[s] <= b, b < hi[s]
               PROVE  \E i \in 1 .. Len(c) : c[i].id = s /\ c[i].at <= b /\ b < End(c[i])
    BY DEF Covers
  <2>1. PICK k \in 1 .. Len(q) : q[k].id = s /\ q[k].at <= b /\ b < End(q[k])
    <3>1. lo[s] <= b
      BY <1>4
    <3> QED BY <3>1 DEF Linked, Covers
  <2>2. k # 1
    <3> SUFFICES ASSUME k = 1  PROVE FALSE
      OBVIOUS
    <3>1. e.id = s /\ e.at <= b /\ b < End(e)
      BY <2>1
    <3>2. e.len > 0
      BY <1>2, <3>1 DEF End
    <3> QED BY <1>2, <1>5, <3>1, <3>2 DEF End
  <2>3. PICK i \in 1 .. Len(c) : k = i + 1
    <3>1. k - 1 \in 1 .. Len(c) /\ k = (k - 1) + 1
      BY <1>1, <2>2
    <3> QED BY <3>1
  <2> QED BY <1>9, <2>1, <2>3
<1> QED BY <1>5, <1>8, <1>10, <1>11, <1>12 DEF Linked, c

\* A session without bytes between the ends has none in the chain.
LEMMA LinkedNone ==
  ASSUME NEW T, Links(T), NEW q \in Seq(T), NEW lo \in Counts, NEW hi \in Counts,
         Linked(q, lo, hi), NEW i \in 1 .. Len(q), lo[q[i].id] = hi[q[i].id]
  PROVE  q[i].len = 0
<1>1. q[i] \in T
  BY Element
<1>2. q[i].id \in Sessions /\ q[i].len \in Nat /\ q[i].at \in Nat
  BY <1>1 DEF Links
<1>3. lo[q[i].id] \in Nat
  BY <1>2 DEF Counts
<1>4. q[i].len > 0 => lo[q[i].id] <= q[i].at /\ q[i].at + q[i].len <= lo[q[i].id]
  BY DEF Linked, Within, End
<1> QED BY <1>2, <1>3, <1>4

LEMMA LinkedEmpty ==
  ASSUME NEW lo \in Counts
  PROVE  Linked(<<>>, lo, lo) /\ Below(lo, lo)
<1>1. \A s \in Sessions : lo[s] \in Nat
  BY DEF Counts
<1> QED BY <1>1 DEF Linked, Within, InOrder, Covers, Below

-----------------------------------------------------------------------------
(* Type correctness.                                                         *)

LEMMA RecordFacts ==
  /\ \A x \in DataNotices : x.id \in Sessions /\ x.len \in Nat /\ x.at \in Nat /\ x.len >= 1 /\ x.len <= BufMod
                            /\ x \in Notices
  /\ \A x \in EndNotices : x.id \in Sessions /\ x.len = 0 /\ x.at \in Nat /\ x \in Notices
  /\ \A x \in Notices : x.id \in Sessions /\ x.len \in Nat /\ x.at \in Nat /\ x # Nothing
                        /\ (x.len # 0 => x \in DataNotices)
  /\ \A x \in Segments : x.id \in Sessions /\ x.len \in Nat /\ x.at \in Nat /\ x.fits \in BOOLEAN
                         /\ x.fin \in BOOLEAN /\ x.acks \in Int /\ x.len <= BufMod /\ x # Nothing
  /\ \A x \in Jobs : x.id \in Sessions /\ x.len \in Nat /\ x.at \in Nat /\ x.addr \in Addrs
                     /\ x.len <= BufMod
  /\ \A x \in Blocks : x.id \in Sessions /\ x.len \in Nat /\ x.addr \in Addrs
  /\ \A x \in AppRsps : x.id \in Sessions /\ x.app_read \in Addrs
  /\ \A x \in AppReqs : x.id \in Sessions /\ x.write \in BOOLEAN /\ (x.write => x.app_read \in Addrs)
  /\ \A x \in EngReqs : x.id \in Sessions /\ x.write \in BOOLEAN
                        /\ (x.write => x.recvd \in Seqs /\ x.init \in BOOLEAN /\ (x.init => x.scale \in Scales))
  /\ \A x \in Entry : x.recvd \in Seqs /\ x.app_read \in Addrs /\ x.scale \in Nat /\ x.scale >= 1
                      /\ x.scale \in Scales \cup {1}
<1>1. BufMod \in Nat /\ \A k \in Scales \cup {1} : k \in Nat /\ k > 0
  BY Modulus
<1>2. \A x \in DataNotices : x.id \in Sessions /\ x.len \in Nat /\ x.at \in Nat /\ x.len >= 1 /\ x.len <= BufMod
                            /\ x \in Notices
  BY <1>1 DEF DataNotices, Notices, Lens
<1>3. \A x \in EndNotices : x.id \in Sessions /\ x.len = 0 /\ x.at \in Nat /\ x \in Notices
  BY <1>1 DEF EndNotices, Notices
<1>4. \A x \in Notices : x.id \in Sessions /\ x.len \in Nat /\ x.at \in Nat /\ (x.len # 0 => x \in DataNotices)
  BY <1>1 DEF DataNotices, Notices, Lens
<1>5. \A x \in Segments : x.id \in Sessions /\ x.len \in Nat /\ x.at \in Nat /\ x.fits \in BOOLEAN
                         /\ x.fin \in BOOLEAN /\ x.acks \in Int /\ x.len <= BufMod
  BY <1>1 DEF Segments
<1>6. \A x \in Jobs : x.id \in Sessions /\ x.len \in Nat /\ x.at \in Nat /\ x.addr \in Addrs
                     /\ x.len <= BufMod
  BY <1>1 DEF Jobs
<1>7. \A x \in Blocks : x.id \in Sessions /\ x.len \in Nat /\ x.addr \in Addrs
  BY <1>1 DEF Blocks
<1>8. \A x \in AppReqs : x.id \in Sessions /\ x.write \in BOOLEAN /\ (x.write => x.app_read \in Addrs)
  BY DEF AppReqs, ReadReqs, AppWrites
<1>9. \A x \in EngReqs : x.id \in Sessions /\ x.write \in BOOLEAN
                        /\ (x.write => x.recvd \in Seqs /\ x.init \in BOOLEAN /\ (x.init => x.scale \in Scales))
  BY DEF EngReqs, ReadReqs, RecvdWrites, InitWrites
<1>10. \A x \in Entry : x.recvd \in Seqs /\ x.app_read \in Addrs /\ x.scale \in Nat /\ x.scale >= 1
                      /\ x.scale \in Scales \cup {1}
  BY <1>1 DEF Entry
<1>11. DOMAIN Nothing = {"none"} /\ "id" \notin {"none"}
  BY DEF Nothing
<1>12. ASSUME NEW x \in Notices  PROVE x # Nothing
  <2>1. "id" \in DOMAIN x
    BY DEF Notices
  <2> QED BY <2>1, <1>11
<1>13. ASSUME NEW x \in Segments  PROVE x # Nothing
  <2>1. "id" \in DOMAIN x
    BY DEF Segments
  <2> QED BY <2>1, <1>11
<1>14. \A x \in AppRsps : x.id \in Sessions /\ x.app_read \in Addrs
  BY DEF AppRsps
<1> QED BY <1>2, <1>3, <1>4, <1>5, <1>6, <1>7, <1>8, <1>9, <1>10, <1>12, <1>13, <1>14

LEMMA States ==
  ASSUME TInv
  PROVE  /\ app.state \in {"GET_DATA_NOTY", "WAIT_SESSION_ID", "FORWARD_DATA"}
         /\ app.state = "WAIT_SESSION_ID" => app.notice \in DataNotices
         /\ fsm.state \in {"WAIT_NET_APP_DATA_REQ", "WAIT_SAR_RSP", "WAIT_DATA"}
         /\ fsm.state = "WAIT_SAR_RSP" => fsm.len \in Lens
         /\ fsm.state = "WAIT_DATA" => fsm.parts \in {1, 2}
         /\ fsm = Idle <=> fsm.state = "WAIT_NET_APP_DATA_REQ"
         /\ echo_tx.state \in {"READ_META", "WAIT_RESPONSE", "WAIT_CYCLES", "FORWARD_DATA"}
         /\ echo_tx.state # "READ_META" =>
              /\ echo_tx.meta \in DataNotices
              /\ echo_tx = [state |-> echo_tx.state, meta |-> echo_tx.meta]
<1>1. app \in Apps /\ fsm \in Fsms /\ echo_tx \in EchoTxs
  BY DEF TInv, TReader, TEcho
<1>2. /\ app.state \in {"GET_DATA_NOTY", "WAIT_SESSION_ID", "FORWARD_DATA"}
      /\ app.state = "WAIT_SESSION_ID" => app.notice \in DataNotices
  BY <1>1 DEF Apps
<1>3. /\ fsm.state \in {"WAIT_NET_APP_DATA_REQ", "WAIT_SAR_RSP", "WAIT_DATA"}
      /\ fsm.state = "WAIT_SAR_RSP" => fsm.len \in Lens
      /\ fsm.state = "WAIT_DATA" => fsm.parts \in {1, 2}
      /\ fsm = Idle <=> fsm.state = "WAIT_NET_APP_DATA_REQ"
  BY <1>1 DEF Fsms, Idle
<1>4. /\ echo_tx.state \in {"READ_META", "WAIT_RESPONSE", "WAIT_CYCLES", "FORWARD_DATA"}
      /\ echo_tx.state # "READ_META" =>
              /\ echo_tx.meta \in DataNotices
              /\ echo_tx = [state |-> echo_tx.state, meta |-> echo_tx.meta]
  BY <1>1 DEF EchoTxs
<1> QED BY <1>2, <1>3, <1>4

LEMMA TypeSame ==
  /\ TSar /\ UNCHANGED sar => TSar'
  /\ TEng /\ UNCHANGED <<eng, store>> => TEng'
  /\ TNotify /\ UNCHANGED notify => TNotify'
  /\ TReader /\ UNCHANGED reader => TReader'
  /\ TEcho /\ UNCHANGED echo => TEcho'
  /\ TRest /\ UNCHANGED <<mem, conn, unacked, history, conns>> => TRest'
<1>1. TSar /\ UNCHANGED sar => TSar'
  BY DEF TSar, sar, Fifo
<1>2. TEng /\ UNCHANGED <<eng, store>> => TEng'
  BY DEF TEng, Fifo
<1>3. TNotify /\ UNCHANGED notify => TNotify'
  BY DEF TNotify, notify, Fifo
<1>4. TReader /\ UNCHANGED reader => TReader'
  BY DEF TReader, reader, Fifo
<1>5. TEcho /\ UNCHANGED echo => TEcho'
  BY DEF TEcho, echo, Fifo
<1>6. TRest /\ UNCHANGED <<mem, conn, unacked, history, conns>> => TRest'
  BY DEF TRest, history
<1> QED BY <1>1, <1>2, <1>3, <1>4, <1>5, <1>6

LEMMA TypeInit == Init => TInv
<1> SUFFICES ASSUME Init  PROVE TInv
  OBVIOUS
<1>1. /\ BufMod \in Nat /\ BufMod > 1 /\ SeqMod \in Nat /\ SeqMod > 0 /\ Depth \in Nat
      /\ 0 \in Seqs /\ 0 \in Addrs
  BY Modulus, DepthFacts DEF Seqs, Addrs
<1>2. TSar
  BY <1>1 DEF Init, TSar, Entry, Fifo
<1>3. TEng
  BY <1>1 DEF Init, TEng, Fifo
<1>4. TNotify
  BY <1>1 DEF Init, TNotify, Fifo
<1>5. TReader
  BY <1>1 DEF Init, TReader, Fifo, Fsms, Idle
<1>6. TEcho
  BY <1>1 DEF Init, TEcho, Fifo, Apps, EchoTxs
<1>7. TRest
  BY <1>1 DEF Init, TRest, Addrs, Zero
<1> QED BY <1>2, <1>3, <1>4, <1>5, <1>6, <1>7 DEF TInv

\* The numbers that the state consists of.
LEMMA Counters ==
  ASSUME TInv
  PROVE  /\ accepted \in Counts /\ stored \in Counts /\ announced \in Counts /\ freed \in Counts
         /\ echoed \in Counts
         /\ \A s \in Sessions :
              /\ accepted[s] \in Nat /\ stored[s] \in Nat /\ announced[s] \in Nat /\ freed[s] \in Nat
              /\ echoed[s] \in Nat /\ base[s] \in Nat /\ edge[s] \in Int
              /\ rx_sar_table[s] \in Entry /\ rx_sar_table[s].recvd \in Nat
              /\ rx_sar_table[s].app_read \in Nat /\ rx_sar_table[s].scale \in Nat
              /\ rx_sar_table[s].app_read \in Addrs /\ rx_sar_table[s].recvd \in Seqs
              /\ rx_sar_table[s].scale >= 1
<1>1. BufMod \in Nat /\ SeqMod \in Nat
  BY Modulus
<1>2. /\ accepted \in Counts /\ stored \in Counts /\ announced \in Counts /\ freed \in Counts
      /\ echoed \in Counts /\ base \in [Sessions -> Seqs] /\ edge \in [Sessions -> Int]
      /\ rx_sar_table \in [Sessions -> Entry]
  BY DEF TInv, TRest, TSar, Counts
<1>3. Seqs \subseteq Nat /\ Addrs \subseteq Nat
  BY <1>1 DEF Seqs, Addrs
<1>4. ASSUME NEW s \in Sessions  PROVE rx_sar_table[s] \in Entry /\ base[s] \in Seqs /\ edge[s] \in Int
  BY <1>2
<1>5. ASSUME NEW s \in Sessions  PROVE /\ accepted[s] \in Nat /\ stored[s] \in Nat /\ announced[s] \in Nat
                                       /\ freed[s] \in Nat /\ echoed[s] \in Nat
  BY <1>2 DEF Counts
<1> QED BY <1>2, <1>3, <1>4, <1>5, RecordFacts

LEMMA TypeSarApp == ASSUME TInv, SarApp  PROVE TInv'
<1> DEFINE r == Head(app_req)
           s == r.id
<1>1. TSar /\ Fifo(app_req, AppReqs) /\ app_req # <<>> /\ Fifo(app_rsp, AppRsps)
      /\ rx_sar_table \in [Sessions -> Entry]
  BY DEF TInv, TSar, SarApp
<1>2. Fifo(Tail(app_req), AppReqs) /\ r \in AppReqs
  BY <1>1, FifoRead
<1>3. s \in Sessions /\ r.write \in BOOLEAN /\ (r.write => r.app_read \in Addrs) /\ rx_sar_table[s] \in Entry
      /\ rx_sar_table[s].app_read \in Addrs
  BY <1>1, <1>2, RecordFacts
<1>4. CASE r.write
  <2>1. /\ rx_sar_table' = [rx_sar_table EXCEPT ![s].app_read = r.app_read]
        /\ freed' = [freed EXCEPT ![s] = @ + Low(r.app_read - rx_sar_table[s].app_read)]
        /\ UNCHANGED <<app_rsp, eng_req, eng_rsp>> /\ app_req' = Tail(app_req)
    BY <1>4 DEF SarApp
  <2>2. rx_sar_table' \in [Sessions -> Entry]
    BY <1>1, <1>3, <1>4, <2>1 DEF Entry
  <2>3. TSar'
    BY <1>1, <1>2, <2>1, <2>2 DEF TSar, Fifo
  <2>4. Low(r.app_read - rx_sar_table[s].app_read) \in Nat
    <3>1. r.app_read - rx_sar_table[s].app_read \in Int
      BY <1>3, <1>4, Modulus DEF Addrs
    <3> QED BY <3>1, LowFacts, Modulus
  <2>5. freed' \in [Sessions -> Nat]
    BY <1>3, <2>1, <2>4 DEF TInv, TRest
  <2>6. UNCHANGED <<eng, store, notify, reader, echo, mem, conn, unacked, base, edge, accepted, stored,
                    announced, echoed, conns>>
    BY DEF SarApp
  <2>7. TRest'
    BY <2>5, <2>6 DEF TInv, TRest
  <2> QED BY <2>3, <2>6, <2>7, TypeSame DEF TInv
<1>5. CASE ~r.write
  <2>1. /\ Room(app_rsp) /\ app_rsp' = Append(app_rsp, [id |-> s, app_read |-> rx_sar_table[s].app_read])
        /\ UNCHANGED <<rx_sar_table, freed, eng_req, eng_rsp>> /\ app_req' = Tail(app_req)
    BY <1>5 DEF SarApp
  <2>2. [id |-> s, app_read |-> rx_sar_table[s].app_read] \in AppRsps
    BY <1>3 DEF AppRsps
  <2>3. Fifo(app_rsp', AppRsps)
    BY <1>1, <2>1, <2>2, FifoWrite
  <2>4. TSar'
    BY <1>1, <1>2, <2>1, <2>3 DEF TSar, Fifo
  <2>5. UNCHANGED <<eng, store, notify, reader, echo, mem, conn, unacked, history, conns>>
    BY <2>1 DEF SarApp, history
  <2> QED BY <2>4, <2>5, TypeSame DEF TInv
<1> QED BY <1>3, <1>4, <1>5

LEMMA TypeSarEng == ASSUME TInv, SarEng  PROVE TInv'
<1> DEFINE r == Head(eng_req)
<1>1. TSar /\ Fifo(eng_req, EngReqs) /\ eng_req # <<>> /\ eng_rsp \in Seq(Entry) /\ Len(eng_rsp) <= Depth
      /\ rx_sar_table \in [Sessions -> Entry]
  BY DEF TInv, TSar, SarEng
<1>2. Fifo(Tail(eng_req), EngReqs) /\ r \in EngReqs
  BY <1>1, FifoRead
<1>3. /\ r.id \in Sessions /\ r.write \in BOOLEAN /\ rx_sar_table[r.id] \in Entry
      /\ r.write => r.recvd \in Seqs /\ r.init \in BOOLEAN /\ (r.init => r.scale \in Scales)
  BY <1>1, <1>2, RecordFacts
<1>4. UNCHANGED <<app_req, app_rsp, eng, store, notify, reader, echo, mem, conn, unacked, history, conns>>
      /\ eng_req' = Tail(eng_req)
  BY DEF SarEng
<1>5. CASE r.write
  <2>1. rx_sar_table' = [rx_sar_table EXCEPT ![r.id] = Written(@, r)] /\ UNCHANGED eng_rsp
    BY <1>5 DEF SarEng
  <2>2. Written(rx_sar_table[r.id], r) \in Entry
    <3>1. CASE r.init
      <4>1. Low(r.recvd) \in Addrs
        BY <1>3, <1>5, LowFacts, Modulus DEF Seqs
      <4> QED BY <1>3, <1>5, <3>1, <4>1 DEF Written, Entry
    <3>2. CASE ~r.init
      BY <1>3, <1>5, <3>2 DEF Written, Entry
    <3> QED BY <3>1, <3>2
  <2>3. rx_sar_table' \in [Sessions -> Entry]
    BY <1>1, <1>3, <2>1, <2>2
  <2>4. TSar'
    BY <1>1, <1>2, <1>4, <2>1, <2>3 DEF TSar, Fifo
  <2> QED BY <1>4, <2>4, TypeSame DEF TInv
<1>6. CASE ~r.write
  <2>1. Room(eng_rsp) /\ eng_rsp' = Append(eng_rsp, rx_sar_table[r.id]) /\ UNCHANGED rx_sar_table
    BY <1>6 DEF SarEng
  <2>2. Fifo(eng_rsp', Entry)
    BY <1>1, <1>3, <2>1, FifoWrite DEF Fifo
  <2>3. TSar'
    BY <1>1, <1>2, <1>4, <2>1, <2>2 DEF TSar, Fifo
  <2> QED BY <1>4, <2>3, TypeSame DEF TInv
<1> QED BY <1>3, <1>5, <1>6

LEMMA TypeLoad ==
  ASSUME TInv, NEW s \in Sessions, NEW n \in SegLengths \cup {0}, NEW at \in Int, NEW fin \in BOOLEAN,
         Load(s, at, n, fin)
  PROVE  TInv'
<1>1. n \in 0 .. BufMod /\ n \in Nat /\ at \in Nat /\ at + n <= MaxBytes
  BY RcvLengthsAssumption, Modulus DEF Load
<1>2. /\ Room(eng_req) /\ eng_req' = Append(eng_req, Read(s))
      /\ eng' = [id |-> s, at |-> at, len |-> n, fin |-> fin, fits |-> at + n <= edge[s], acks |-> 0]
      /\ UNCHANGED <<rx_sar_table, app_req, app_rsp, eng_rsp, store, notify, reader, echo, mem, conn, unacked,
                     history, conns>>
  BY DEF Load
<1>3. Read(s) \in EngReqs
  BY DEF Read, EngReqs, ReadReqs
<1>4. Fifo(eng_req', EngReqs)
  BY <1>2, <1>3, FifoWrite DEF TInv, TSar
<1>5. TSar'
  BY <1>2, <1>4 DEF TInv, TSar, Fifo
<1>6. eng' \in Segments /\ eng'.at = at /\ eng'.len = n
  BY <1>1, <1>2 DEF Segments
<1>7. TEng'
  BY <1>1, <1>2, <1>6 DEF TInv, TEng, Fifo
<1> QED BY <1>2, <1>5, <1>7, TypeSame DEF TInv

LEMMA TypeLoadAck == ASSUME TInv, NEW s \in Sessions, LoadAck(s)  PROVE TInv'
<1>1. accepted[s] \in Nat /\ unacked[s] \in Int
  BY Counters DEF TInv, TRest
<1>2. /\ Room(eng_req) /\ eng_req' = Append(eng_req, Read(s))
      /\ eng' = [id |-> s, at |-> accepted[s], len |-> 0, fin |-> FALSE, fits |-> FALSE, acks |-> unacked[s]]
      /\ UNCHANGED <<rx_sar_table, app_req, app_rsp, eng_rsp, store, notify, reader, echo, mem, conn,
                     unacked, history, conns>>
  BY DEF LoadAck
<1>3. Read(s) \in EngReqs
  BY DEF Read, EngReqs, ReadReqs
<1>4. Fifo(eng_req', EngReqs)
  BY <1>2, <1>3, FifoWrite DEF TInv, TSar
<1>5. TSar'
  BY <1>2, <1>4 DEF TInv, TSar, Fifo
<1>6. eng' \in Segments /\ eng'.at = accepted[s] /\ eng'.len = 0
  BY <1>1, <1>2, Modulus DEF Segments
<1>7. TEng'
  BY <1>1, <1>2, <1>6 DEF TInv, TEng, Fifo
<1> QED BY <1>2, <1>5, <1>7, TypeSame DEF TInv

\* What the rx engine writes when it takes a segment, and the numbers it keeps.
LEMMA TransitionNumbers ==
  ASSUME TInv, Transition
  PROVE  LET s == eng.id
             seq == SeqNo(base[s] + eng.at) IN
         /\ eng \in Segments /\ s \in Sessions /\ eng.len \in Nat /\ eng.at \in Nat /\ eng.len <= BufMod
         /\ eng.acks \in Int /\ eng.fin \in BOOLEAN /\ eng.fits \in BOOLEAN
         /\ base[s] \in Nat /\ accepted[s] \in Nat
         /\ seq \in Nat /\ Low(seq) \in Addrs /\ Phantom(eng) \in Nat
         /\ (~eng.fin => Phantom(eng) = 0)
         /\ SeqNo(seq + eng.len + Phantom(eng)) \in Seqs
         /\ unacked' \in [Sessions -> Int]
<1> DEFINE s == eng.id
           seq == SeqNo(base[s] + eng.at)
<1>1. eng \in Segments /\ s \in Sessions /\ eng.len \in Nat /\ eng.at \in Nat /\ eng.len <= BufMod
      /\ eng.acks \in Int /\ eng.fin \in BOOLEAN /\ eng.fits \in BOOLEAN
      /\ base[s] \in Nat /\ accepted[s] \in Nat
  BY RecordFacts, Counters DEF Transition, TInv, TEng
<1>2. seq \in Nat
  <2>1. PICK x \in Int : x = base[s] + eng.at
    BY <1>1
  <2> QED BY <2>1, SeqFacts
<1>3. Phantom(eng) \in Nat /\ (~eng.fin => Phantom(eng) = 0)
  BY DEF Phantom
<1>4. Low(seq) \in Addrs /\ SeqNo(seq + eng.len + Phantom(eng)) \in Seqs
  <2>1. PICK x \in Int, y \in Int : x = seq /\ y = seq + eng.len + Phantom(eng)
    BY <1>1, <1>2, <1>3
  <2> QED BY <2>1, LowFacts, SeqFacts
<1>5. unacked' \in [Sessions -> Int]
  <2>1. unacked \in [Sessions -> Int]
    BY DEF TInv, TRest
  <2>2. PICK x \in Int : x = unacked[s] - eng.acks
    BY <1>1, <2>1
  <2>3. unacked' = [unacked EXCEPT ![s] = x] \/ unacked' = unacked
    BY <2>2 DEF Transition
  <2> QED BY <2>1, <2>3
<1> QED BY <1>1, <1>2, <1>3, <1>4, <1>5

LEMMA TypeTransition == ASSUME TInv, Transition  PROVE TInv'
<1> DEFINE s == eng.id
           e == Head(eng_rsp)
           seq == SeqNo(base[s] + eng.at)
           n == seq + eng.len + Phantom(eng)
           j == [id |-> s, addr |-> Low(seq), at |-> eng.at, len |-> eng.len]
<1>1. eng \in Segments /\ s \in Sessions /\ eng.len \in Nat /\ eng.at \in Nat /\ eng.len <= BufMod
      /\ accepted[s] \in Nat /\ (eng.len > 0 => eng.at + eng.len <= MaxBytes)
      /\ Low(seq) \in Addrs /\ SeqNo(n) \in Seqs /\ unacked' \in [Sessions -> Int]
  BY TransitionNumbers, RecordFacts DEF TInv, TEng
<1>2. eng_rsp # <<>> /\ eng_rsp' = Tail(eng_rsp) /\ eng' = Nothing
      /\ UNCHANGED <<rx_sar_table, app_req, app_rsp, notify, reader, echo, mem, base, edge,
                     stored, announced, freed, echoed, conns>>
  BY DEF Transition
<1>3. Fifo(eng_rsp', Entry)
  BY <1>2, FifoRead DEF TInv, TSar, Fifo
<1>4. CASE Takes(eng, e, seq)
  <2>1. /\ Room(eng_req) /\ Room(store) /\ eng_req' = Append(eng_req, WriteRecvd(s, n))
        /\ store' = Append(store, j) /\ accepted' = [accepted EXCEPT ![s] = @ + eng.len]
        /\ conn' = IF eng.fin THEN [conn EXCEPT ![s] = "CLOSED"] ELSE conn
    BY <1>4 DEF Transition
  <2>4. WriteRecvd(s, n) \in EngReqs
    BY <1>1 DEF WriteRecvd, EngReqs, RecvdWrites
  <2>5. Fifo(eng_req', EngReqs)
    BY <2>1, <2>4, FifoWrite DEF TInv, TSar
  <2>6. TSar'
    BY <1>2, <1>3, <2>5 DEF TInv, TSar, Fifo
  <2>7. j \in Jobs /\ (j.len > 0 => j.at + j.len <= MaxBytes)
    <3>1. eng.len \in 0 .. BufMod
      BY <1>1, Modulus
    <3> QED BY <1>1, <3>1 DEF Jobs
  <2> HIDE DEF j
  <2>8. Fifo(store, Jobs) /\ store \in Seq(Jobs) /\ Fifo(store', Jobs)
    BY <2>1, <2>7, FifoWrite DEF TInv, TEng, Fifo
  <2>9. /\ Len(store) \in Nat /\ Len(store') = Len(store) + 1 /\ store'[Len(store) + 1] = j
        /\ \A i \in 1 .. Len(store) : store'[i] = store[i]
    BY <2>1, <2>7, <2>8, Puts
  <2>10. \A i \in 1 .. Len(store') : store'[i].len > 0 => store'[i].at + store'[i].len <= MaxBytes
    <3> SUFFICES ASSUME NEW i \in 1 .. Len(store')
                 PROVE  store'[i].len > 0 => store'[i].at + store'[i].len <= MaxBytes
      OBVIOUS
    <3>1. CASE i \in 1 .. Len(store)
      BY <2>9, <3>1 DEF TInv, TEng
    <3>2. CASE i = Len(store) + 1
      BY <2>7, <2>9, <3>2
    <3>3. i \in 1 .. Len(store) \/ i = Len(store) + 1
      BY <2>9
    <3> QED BY <3>1, <3>2, <3>3, Zenon
  <2>11. TEng'
    <3>1. eng' = Nothing
      BY <1>2
    <3> QED BY <2>8, <2>10, <3>1 DEF TEng
  <2>12. accepted' \in [Sessions -> Nat]
    <3>1. accepted \in [Sessions -> Nat]
      BY DEF TInv, TRest
    <3>2. accepted[s] + eng.len \in Nat
      BY <1>1
    <3>3. accepted' = [accepted EXCEPT ![s] = accepted[s] + eng.len]
      BY <2>1
    <3> HIDE DEF s
    <3> QED BY <1>1, <3>1, <3>2, <3>3
  <2>13. conn' \in [Sessions -> {"CLOSED", "OPEN"}]
    <3>1. conn \in [Sessions -> {"CLOSED", "OPEN"}]
      BY DEF TInv, TRest
    <3> QED BY <2>1, <3>1
  <2>14. TRest'
    BY <1>1, <1>2, <2>12, <2>13 DEF TInv, TRest
  <2> QED BY <1>2, <2>6, <2>11, <2>14, TypeSame DEF TInv
<1>5. CASE ~Takes(eng, e, seq)
  <2>1. UNCHANGED <<eng_req, store, accepted, conn>>
    BY <1>5 DEF Transition
  <2>2. TSar'
    BY <1>2, <1>3, <2>1 DEF TInv, TSar, Fifo
  <2>3. TEng'
    BY <1>2, <2>1 DEF TInv, TEng, Fifo
  <2>4. TRest'
    BY <1>1, <1>2, <2>1 DEF TInv, TRest
  <2> QED BY <1>2, <2>2, <2>3, <2>4, TypeSame DEF TInv
<1> QED BY <1>4, <1>5

LEMMA TypeStore == ASSUME TInv, NEW okay \in BOOLEAN, Store(okay)  PROVE TInv'
<1> DEFINE j == Head(store)
<1>1. TEng /\ Fifo(store, Jobs) /\ store \in Seq(Jobs) /\ store # <<>> /\ Room(rx_notice)
  BY DEF TInv, TEng, Fifo, Store
<1>2. /\ Fifo(Tail(store), Jobs) /\ j \in Jobs /\ j = store[1] /\ Len(store) \in Nat /\ Len(store) >= 1
      /\ Len(Tail(store)) = Len(store) - 1 /\ \A i \in 1 .. Len(store) - 1 : Tail(store)[i] = store[i + 1]
  BY <1>1, FifoRead, Popped
<1>3. /\ j.id \in Sessions /\ j.len \in Nat /\ j.len <= BufMod /\ j.at \in Nat /\ j.addr \in Addrs
      /\ j.len > 0 => j.at + j.len <= MaxBytes
  BY <1>1, <1>2, RecordFacts DEF TEng
<1>4. /\ store' = Tail(store)
      /\ UNCHANGED <<sar, eng, rt_notice, notices, notify_reg, net_notice, reader, echo, conn, unacked, base,
                     edge, accepted, announced, freed, echoed, conns>>
  BY DEF Store
<1>5. \A i \in 1 .. Len(store') : store'[i].len > 0 => store'[i].at + store'[i].len <= MaxBytes
  <2> SUFFICES ASSUME NEW i \in 1 .. Len(store')
               PROVE  store'[i].len > 0 => store'[i].at + store'[i].len <= MaxBytes
    OBVIOUS
  <2>1. i + 1 \in 1 .. Len(store) /\ store'[i] = store[i + 1]
    BY <1>2, <1>4
  <2> QED BY <1>1, <2>1 DEF TEng
<1>6. TEng'
  BY <1>1, <1>2, <1>4, <1>5 DEF TEng
<1>7. CASE okay
  <2>1. /\ mem' = [mem EXCEPT ![j.id] = [a \in 0 .. BufMod - 1 |->
                       IF a \in Cells(j) THEN j.at + Low(a - j.addr) ELSE @[a]]]
        /\ stored' = [stored EXCEPT ![j.id] = @ + j.len]
        /\ rx_notice' = Append(rx_notice, Notice(j.id, j.len, j.at))
    BY <1>7 DEF Store
  <2>2. Notice(j.id, j.len, j.at) \in Notices
    BY <1>3, Modulus DEF Notice, Notices
  <2>3. Fifo(rx_notice', Notices)
    BY <1>1, <2>1, <2>2, FifoWrite DEF TInv, TNotify
  <2>4. TNotify'
    BY <1>4, <2>3 DEF TInv, TNotify, Fifo
  <2>5. stored' \in [Sessions -> Nat]
    BY <1>3, <2>1 DEF TInv, TRest
  <2>6. ASSUME NEW a \in Addrs, a \in Cells(j)  PROVE j.at + Low(a - j.addr) \in 0 .. MaxBytes
    <3>1. PICK i \in 0 .. j.len - 1 : a = Low(j.addr + i)
      BY <2>6 DEF Cells
    <3>2. PICK x \in Int : x = j.addr
      BY <1>3, Modulus DEF Addrs
    <3>3. 0 <= x /\ x < BufMod
      BY <1>3, <3>2, Modulus DEF Addrs
    <3>4. Low(x) = x
      <4>1. Same(BufMod, x, x) /\ x \in 0 .. BufMod - 1
        BY <3>3, Modulus, SameSelf
      <4> QED BY <4>1, LowFacts
    <3>5. i \in Int /\ 0 <= i /\ i < j.len /\ i < BufMod /\ j.len > 0
      BY <1>3, Modulus
    <3>6. Low(Low(x + i) - Low(x)) = i
      BY <3>5, LowStep
    <3>7. Low(a - j.addr) = i
      BY <3>1, <3>2, <3>4, <3>6
    <3> QED BY <1>3, <3>5, <3>7, DepthFacts
  <2>7. mem' \in [Sessions -> [Addrs -> (0 .. MaxBytes) \cup {Empty}]]
    <3>1. mem \in [Sessions -> [Addrs -> (0 .. MaxBytes) \cup {Empty}]]
      BY DEF TInv, TRest
    <3>2. [a \in Addrs |-> IF a \in Cells(j) THEN j.at + Low(a - j.addr) ELSE mem[j.id][a]]
             \in [Addrs -> (0 .. MaxBytes) \cup {Empty}]
      BY <1>3, <2>6, <3>1
    <3> QED BY <1>3, <2>1, <3>1, <3>2 DEF Addrs
  <2>8. TRest'
    BY <1>4, <2>5, <2>7 DEF TInv, TRest
  <2> QED BY <1>4, <1>6, <2>4, <2>8, TypeSame DEF TInv
<1>8. CASE ~okay
  <2>1. UNCHANGED <<mem, stored, rx_notice>>
    BY <1>8 DEF Store
  <2>2. UNCHANGED notify
    BY <1>4, <2>1 DEF notify
  <2>3. TRest'
    BY <1>4, <2>1 DEF TInv, TRest
  <2> QED BY <1>4, <1>6, <2>2, <2>3, TypeSame DEF TInv
<1> QED BY <1>7, <1>8

LEMMA TypeEstablish ==
  ASSUME TInv, NEW s \in Sessions, NEW scale \in Scales, Establish(s, scale)  PROVE TInv'
<1>1. /\ Room(eng_req) /\ eng_req' = Append(eng_req, InitRecvd(s, Isn, scale))
      /\ conn' = [conn EXCEPT ![s] = "OPEN"]
      /\ base' = [base EXCEPT ![s] = SeqNo(Isn - accepted[s])]
      /\ edge' = [edge EXCEPT ![s] = accepted[s]] /\ conns' = conns + 1
      /\ unacked' = [unacked EXCEPT ![s] = 0]
      /\ UNCHANGED <<rx_sar_table, app_req, app_rsp, eng_rsp, eng, store, notify, reader,
                     echo, mem, accepted, stored, announced, freed, echoed>>
  BY DEF Establish
<1>2. accepted[s] \in Nat /\ Isn \in Int
  BY Counters, Modulus
<1>3. SeqNo(Isn) \in Seqs /\ SeqNo(Isn - accepted[s]) \in Seqs
  BY <1>2, SeqFacts
<1>4. InitRecvd(s, Isn, scale) \in EngReqs
  BY <1>3 DEF InitRecvd, EngReqs, InitWrites
<1>5. Fifo(eng_req', EngReqs)
  BY <1>1, <1>4, FifoWrite DEF TInv, TSar
<1>6. TSar'
  BY <1>1, <1>5 DEF TInv, TSar, Fifo
<1>7. TRest'
  BY <1>1, <1>2, <1>3 DEF TInv, TRest
<1> QED BY <1>1, <1>6, <1>7, TypeSame DEF TInv

LEMMA TypeAbort == ASSUME TInv, NEW s \in Sessions, Abort(s)  PROVE TInv'
<1>1. /\ Room(rt_notice) /\ rt_notice' = Append(rt_notice, Notice(s, 0, 0))
      /\ conn' = [conn EXCEPT ![s] = "CLOSED"]
      /\ UNCHANGED <<sar, eng, store, rx_notice, notices, notify_reg, net_notice, reader, echo, mem,
                     unacked, history, conns>>
  BY DEF Abort
<1>2. Notice(s, 0, 0) \in EndNotices
  BY DEF Notice, EndNotices
<1>3. Fifo(rt_notice', EndNotices)
  BY <1>1, <1>2, FifoWrite DEF TInv, TNotify
<1>4. TNotify'
  BY <1>1, <1>3 DEF TInv, TNotify, Fifo
<1>5. TRest'
  BY <1>1 DEF TInv, TRest, history
<1> QED BY <1>1, <1>4, <1>5, TypeSame DEF TInv

LEMMA TypeSarTxLookup == ASSUME TInv, NEW s \in Sessions, SarTxLookup(s)  PROVE TInv'
<1> DEFINE e == rx_sar_table[s]
<1>1. /\ edge' = [edge EXCEPT ![s] = NextByte(s, e) + Advertised(e) * e.scale]
      /\ UNCHANGED <<sar, eng, store, notify, reader, echo, mem, conn, unacked, base, accepted, stored,
                     announced, freed, echoed, conns>>
  BY DEF SarTxLookup
<1>2. accepted[s] \in Nat /\ base[s] \in Nat /\ e.recvd \in Nat /\ e.app_read \in Nat
      /\ e.scale \in Nat /\ e.scale >= 1
  BY Counters
<1>3. NextByte(s, e) \in Int
  <2>1. SeqNo(base[s] + accepted[s] - e.recvd) \in Int
    BY <1>2, SeqFacts
  <2> QED BY <1>2, <2>1 DEF NextByte
<1>4. Advertised(e) \in Nat
  <2>1. FreeSpace(e) \in Nat
    <3>1. e.app_read - e.recvd - 1 \in Int
      BY <1>2
    <3> QED BY <3>1, LowFacts, Modulus DEF FreeSpace
  <2>2. FreeSpace(e) \div e.scale \in Nat
    BY <1>2, <2>1, DivFacts
  <2>3. WinMod \in Nat /\ WinMod > 0
    BY Modulus
  <2> QED BY <2>2, <2>3, ModIsSame DEF Advertised
<1>5. Advertised(e) * e.scale \in Int
  <2>1. PICK n \in Nat, k \in Nat : n = Advertised(e) /\ k = e.scale
    BY <1>2, <1>4
  <2> QED BY <2>1
<1>6. edge' \in [Sessions -> Int]
  <2>1. NextByte(s, e) + Advertised(e) * e.scale \in Int
    BY <1>3, <1>5
  <2> QED BY <1>1, <2>1 DEF TInv, TRest
<1>7. TRest'
  BY <1>1, <1>6 DEF TInv, TRest
<1> QED BY <1>1, <1>7, TypeSame DEF TInv

LEMMA TypeMergeNotice == ASSUME TInv, MergeNotice  PROVE TInv'
<1>1. /\ Room(notices) /\ UNCHANGED <<sar, eng, store, notify_reg, net_notice, reader, echo, mem, conn, unacked,
                                     history, conns>>
  BY DEF MergeNotice
<1>2. ASSUME rx_notice # <<>>, notices' = Append(notices, Head(rx_notice)), rx_notice' = Tail(rx_notice),
             UNCHANGED rt_notice
      PROVE  TNotify'
  <2>1. Fifo(Tail(rx_notice), Notices) /\ Head(rx_notice) \in Notices
    BY <1>2, FifoRead DEF TInv, TNotify
  <2>2. Fifo(notices', Notices)
    BY <1>1, <1>2, <2>1, FifoWrite DEF TInv, TNotify
  <2> QED BY <1>1, <1>2, <2>1, <2>2 DEF TInv, TNotify, Fifo
<1>3. ASSUME rt_notice # <<>>, notices' = Append(notices, Head(rt_notice)), rt_notice' = Tail(rt_notice),
             UNCHANGED rx_notice
      PROVE  TNotify'
  <2>1. Fifo(Tail(rt_notice), EndNotices) /\ Head(rt_notice) \in Notices
    BY <1>3, FifoRead, RecordFacts DEF TInv, TNotify
  <2>2. Fifo(notices', Notices)
    BY <1>1, <1>3, <2>1, FifoWrite DEF TInv, TNotify
  <2> QED BY <1>1, <1>3, <2>1, <2>2 DEF TInv, TNotify, Fifo
<1>4. TNotify'
  BY <1>2, <1>3, Zenon DEF MergeNotice
<1> QED BY <1>1, <1>4, TypeSame DEF TInv

LEMMA TypeNotifyLookup == ASSUME TInv, NotifyLookup  PROVE TInv'
<1>1. /\ notices # <<>> /\ notify_reg' = Head(notices) /\ notices' = Tail(notices)
      /\ UNCHANGED <<sar, eng, store, rx_notice, rt_notice, net_notice, reader, echo, mem, conn, unacked,
                     history, conns>>
  BY DEF NotifyLookup
<1>2. Fifo(notices', Notices) /\ notify_reg' \in Notices
  BY <1>1, FifoRead DEF TInv, TNotify
<1>3. TNotify'
  BY <1>1, <1>2 DEF TInv, TNotify, Fifo
<1> QED BY <1>1, <1>3, TypeSame DEF TInv

LEMMA TypeNotifySend == ASSUME TInv, NotifySend  PROVE TInv'
<1>1. /\ Room(net_notice) /\ net_notice' = Append(net_notice, notify_reg) /\ notify_reg' = Nothing
      /\ announced' = [announced EXCEPT ![notify_reg.id] = @ + notify_reg.len]
      /\ UNCHANGED <<sar, eng, store, rx_notice, rt_notice, notices, reader, echo, mem, conn, unacked, base,
                     edge, accepted, stored, freed, echoed, conns>>
  BY DEF NotifySend
<1>2. notify_reg \in Notices /\ notify_reg.id \in Sessions /\ notify_reg.len \in Nat
  BY RecordFacts DEF TInv, TNotify, NotifySend
<1>3. Fifo(net_notice', Notices)
  BY <1>1, <1>2, FifoWrite DEF TInv, TNotify
<1>4. TNotify'
  BY <1>1, <1>3 DEF TInv, TNotify, Fifo
<1>5. announced' \in [Sessions -> Nat]
  BY <1>1, <1>2 DEF TInv, TRest
<1>6. TRest'
  BY <1>1, <1>5 DEF TInv, TRest
<1> QED BY <1>1, <1>4, <1>6, TypeSame DEF TInv

LEMMA TypeDataReq == ASSUME TInv, DataReq  PROVE TInv'
<1>1. /\ fsm = Idle /\ read_req # <<>> /\ Room(app_req) /\ app_req' = Append(app_req, Read(Head(read_req).id))
      /\ fsm' = [state |-> "WAIT_SAR_RSP", len |-> Head(read_req).len] /\ read_req' = Tail(read_req)
      /\ UNCHANGED <<rx_sar_table, app_rsp, eng_req, eng_rsp, eng, store, notify, read_rsp,
                     blocks, read_data, echo, mem, conn, unacked, history, conns>>
  BY DEF DataReq
<1>2. Fifo(Tail(read_req), DataNotices) /\ Head(read_req) \in DataNotices
  BY <1>1, FifoRead DEF TInv, TReader
<1>3. Head(read_req).id \in Sessions /\ Head(read_req).len \in Lens
  BY <1>2 DEF DataNotices
<1>4. Read(Head(read_req).id) \in AppReqs
  BY <1>3 DEF Read, AppReqs, ReadReqs
<1>5. Fifo(app_req', AppReqs)
  BY <1>1, <1>4, FifoWrite DEF TInv, TSar
<1>6. TSar'
  BY <1>1, <1>5 DEF TInv, TSar, Fifo
<1>7. fsm' \in Fsms /\ fsm'.state = "WAIT_SAR_RSP" /\ fsm.state # "WAIT_DATA"
  BY <1>1, <1>3 DEF Fsms, Idle
<1>8. TReader'
  BY <1>1, <1>2, <1>7 DEF TInv, TReader, Fifo
<1> QED BY <1>1, <1>6, <1>8, TypeSame DEF TInv

\* The accesses of a read: one, or two that meet at the end of the ring.
LEMMA AccessFacts ==
  ASSUME NEW s \in Sessions, NEW p \in Addrs, NEW n \in Lens
  PROVE  LET q == Accesses(s, p, n)
             first == BufMod - p
             lo == [id |-> s, addr |-> p, len |-> first]
             hi == [id |-> s, addr |-> 0, len |-> n - first]
             all == [id |-> s, addr |-> p, len |-> n] IN
         /\ q \in Seq(Blocks)
         /\ p + n < BufMod => /\ q = <<all>> /\ Len(q) = 1 /\ q[1] = all
         /\ p + n >= BufMod => /\ q = <<lo, hi>> /\ Len(q) = 2 /\ q[1] = lo /\ q[2] = hi
         /\ \A i \in 1 .. Len(q) : q[i].addr + q[i].len <= BufMod
<1>1. PICK a \in Nat, k \in Nat : a = p /\ k = n /\ a < BufMod /\ k >= 1 /\ k <= BufMod
  BY Modulus DEF Addrs, Lens
<1>2. BufMod \in Nat /\ BufMod > 1
  BY Modulus
<1> DEFINE first == BufMod - p
           lo == [id |-> s, addr |-> p, len |-> first]
           hi == [id |-> s, addr |-> 0, len |-> n - first]
           all == [id |-> s, addr |-> p, len |-> n]
<1>3. CASE p + n < BufMod
  <2>1. Accesses(s, p, n) = <<all>>
    BY <1>1, <1>2, <1>3 DEF Accesses
  <2>2. all \in Blocks /\ all.addr + all.len <= BufMod
    BY <1>1, <1>2, <1>3 DEF Blocks
  <2>3. ~(p + n >= BufMod)
    BY <1>1, <1>2, <1>3
  <2> HIDE DEF all, lo, hi
  <2>4. <<all>> \in Seq(Blocks) /\ Len(<<all>>) = 1 /\ <<all>>[1] = all
    BY <2>2
  <2>5. \A i \in 1 .. Len(<<all>>) : <<all>>[i].addr + <<all>>[i].len <= BufMod
    BY <2>2, <2>4
  <2> QED BY <2>1, <2>3, <2>4, <2>5 DEF all, lo, hi
<1>4. CASE p + n >= BufMod
  <2>1. Accesses(s, p, n) = <<lo, hi>>
    BY <1>1, <1>2, <1>4 DEF Accesses, SecondAddr
  <2>2. /\ lo \in Blocks /\ lo.addr + lo.len <= BufMod
        /\ hi \in Blocks /\ hi.addr + hi.len <= BufMod
    BY <1>1, <1>2, <1>4 DEF Blocks, Addrs
  <2>3. ~(p + n < BufMod)
    BY <1>1, <1>2, <1>4
  <2> HIDE DEF all, lo, hi
  <2>4. <<lo, hi>> \in Seq(Blocks) /\ Len(<<lo, hi>>) = 2 /\ <<lo, hi>>[1] = lo /\ <<lo, hi>>[2] = hi
    BY <2>2
  <2>5. \A i \in 1 .. Len(<<lo, hi>>) : <<lo, hi>>[i].addr + <<lo, hi>>[i].len <= BufMod
    <3> TAKE i \in 1 .. Len(<<lo, hi>>)
    <3>1. i = 1 \/ i = 2
      BY <2>4
    <3> QED BY <2>2, <2>4, <3>1
  <2> QED BY <2>1, <2>3, <2>4, <2>5 DEF all, lo, hi
<1>5. p + n < BufMod \/ p + n >= BufMod
  BY <1>1, <1>2
<1> QED BY <1>3, <1>4, <1>5

LEMMA TypeSarRsp == ASSUME TInv, SarRsp  PROVE TInv'
<1> DEFINE r == Head(app_rsp)
<1>1. /\ fsm.state = "WAIT_SAR_RSP" /\ app_rsp # <<>> /\ Room(app_req) /\ Room(read_rsp)
      /\ read_rsp' = Append(read_rsp, r.id)
      /\ app_req' = Append(app_req, [id |-> r.id, write |-> TRUE, app_read |-> AfterRead(r.app_read, fsm.len)])
      /\ blocks' = Accesses(r.id, r.app_read, fsm.len)
      /\ fsm' = [state |-> "WAIT_DATA", parts |-> Len(blocks')] /\ app_rsp' = Tail(app_rsp)
      /\ UNCHANGED <<rx_sar_table, eng_req, eng_rsp, eng, store, notify, read_req, read_data,
                     echo, mem, conn, unacked, history, conns>>
  BY DEF SarRsp
<1>2. Fifo(app_rsp', AppRsps) /\ r \in AppRsps
  BY <1>1, FifoRead DEF TInv, TSar
<1>3. r.id \in Sessions /\ r.app_read \in Addrs /\ fsm.len \in Lens
  BY <1>1, <1>2, RecordFacts, States
<1>4. AfterRead(r.app_read, fsm.len) \in Addrs
  <2>1. r.app_read + fsm.len \in Int
    BY <1>3, Modulus DEF Addrs, Lens
  <2> QED BY <2>1, LowFacts DEF AfterRead
<1>5. [id |-> r.id, write |-> TRUE, app_read |-> AfterRead(r.app_read, fsm.len)] \in AppReqs
  BY <1>3, <1>4 DEF AppReqs, AppWrites
<1>6. Fifo(app_req', AppReqs) /\ Fifo(read_rsp', Sessions)
  BY <1>1, <1>3, <1>5, FifoWrite DEF TInv, TSar, TReader
<1>7. TSar'
  BY <1>1, <1>2, <1>6 DEF TInv, TSar, Fifo
<1>8. /\ blocks' \in Seq(Blocks) /\ Len(blocks') \in {1, 2}
      /\ \A i \in 1 .. Len(blocks') : blocks'[i].addr + blocks'[i].len <= BufMod
  <2>1. r.app_read + fsm.len < BufMod \/ r.app_read + fsm.len >= BufMod
    BY <1>3, Modulus DEF Addrs, Lens
  <2>2. PICK s, p, n : s = r.id /\ p = r.app_read /\ n = fsm.len
    OBVIOUS
  <2> QED BY <1>1, <1>3, <2>1, <2>2, AccessFacts
<1>9. fsm' \in Fsms /\ fsm'.state = "WAIT_DATA" /\ fsm'.parts = Len(blocks')
  BY <1>1, <1>8 DEF Fsms
<1>10. Len(read_data) + Len(blocks) = 0 /\ read_data \in Seq(Bytes) /\ blocks \in Seq(Blocks)
  BY <1>1 DEF TInv, TReader
<1>11. Len(read_data') = 0
  BY <1>1, <1>10
<1>12. TReader'
  BY <1>1, <1>6, <1>8, <1>9, <1>11 DEF TInv, TReader, Fifo
<1> QED BY <1>1, <1>7, <1>12, TypeSame DEF TInv

LEMMA TypeMoverRead == ASSUME TInv, MoverRead  PROVE TInv'
<1> DEFINE b == Head(blocks)
           d == [i \in 1 .. b.len |-> mem[b.id][b.addr + i - 1]]
<1>1. /\ blocks # <<>> /\ b.len > 0 /\ read_data' = Append(read_data, d) /\ blocks' = Tail(blocks)
      /\ UNCHANGED <<sar, eng, store, notify, read_req, read_rsp, fsm, echo, mem, conn, unacked, history, conns>>
  BY DEF MoverRead
<1>2. blocks \in Seq(Blocks) /\ read_data \in Seq(Bytes)
  BY DEF TInv, TReader
<1>3. /\ b \in Blocks /\ Tail(blocks) \in Seq(Blocks) /\ b = blocks[1] /\ Len(blocks) \in Nat /\ Len(blocks) >= 1
      /\ Len(Tail(blocks)) = Len(blocks) - 1
      /\ \A i \in 1 .. Len(blocks) - 1 : Tail(blocks)[i] = blocks[i + 1]
  BY <1>1, <1>2, Popped
<1>4. b.id \in Sessions /\ b.len \in Nat /\ b.addr \in Addrs /\ b.addr + b.len <= BufMod
  BY <1>3, RecordFacts DEF TInv, TReader
<1>5. d \in Bytes /\ Len(d) = b.len
  <2>1. ASSUME NEW i \in 1 .. b.len  PROVE mem[b.id][b.addr + i - 1] \in Int
    <3>1. b.addr + i - 1 \in Addrs
      BY <1>4, Modulus DEF Addrs
    <3>2. mem[b.id][b.addr + i - 1] \in (0 .. MaxBytes) \cup {Empty}
      BY <1>4, <3>1 DEF TInv, TRest
    <3> QED BY <3>2, DepthFacts DEF Empty
  <2> QED BY <1>4, <2>1 DEF Bytes
<1> HIDE DEF d
<1>6. /\ read_data' \in Seq(Bytes) /\ Len(read_data) \in Nat /\ Len(read_data') = Len(read_data) + 1
      /\ read_data'[Len(read_data) + 1] = d /\ \A i \in 1 .. Len(read_data) : read_data'[i] = read_data[i]
  BY <1>1, <1>2, <1>5, Puts
<1>7. \A i \in 1 .. Len(read_data') : Len(read_data'[i]) >= 1
  <2> SUFFICES ASSUME NEW i \in 1 .. Len(read_data')  PROVE Len(read_data'[i]) >= 1
    OBVIOUS
  <2>1. CASE i \in 1 .. Len(read_data)
    BY <1>6, <2>1 DEF TInv, TReader
  <2>2. CASE i = Len(read_data) + 1
    BY <1>1, <1>4, <1>5, <1>6, <2>2
  <2> QED BY <1>6, <2>1, <2>2
<1>8. \A i \in 1 .. Len(blocks') : blocks'[i].addr + blocks'[i].len <= BufMod
  <2> SUFFICES ASSUME NEW i \in 1 .. Len(blocks')  PROVE blocks'[i].addr + blocks'[i].len <= BufMod
    OBVIOUS
  <2>1. i + 1 \in 1 .. Len(blocks) /\ blocks'[i] = blocks[i + 1]
    BY <1>1, <1>3
  <2> QED BY <2>1 DEF TInv, TReader
<1>9. Len(read_data') + Len(blocks') = Len(read_data) + Len(blocks)
  BY <1>1, <1>3, <1>6
<1>10. TReader'
  BY <1>1, <1>3, <1>6, <1>7, <1>8, <1>9 DEF TInv, TReader, Fifo
<1> QED BY <1>1, <1>10, TypeSame DEF TInv

\* The bytes in the last word.
LEMMA WordFacts ==
  ASSUME NEW n \in Nat, n >= 1
  PROVE  \E w \in Nat : /\ w = IF n % WordBytes = 0 THEN WordBytes ELSE n % WordBytes
                        /\ 1 <= w /\ w <= n /\ (n <= WordBytes => w = n)
<1>1. WordBytes \in Nat /\ WordBytes > 0
  BY Modulus
<1>2. n = WordBytes * (n \div WordBytes) + (n % WordBytes) /\ (n \div WordBytes) \in Int
      /\ (n % WordBytes) \in 0 .. WordBytes - 1
  BY <1>1
<1>3. PICK q \in Int, r \in Int : q = n \div WordBytes /\ r = n % WordBytes
  BY <1>2
<1>4. n = WordBytes * q + r /\ 0 <= r /\ r < WordBytes /\ WordBytes * q \in Int
  BY <1>1, <1>2, <1>3
<1>5. /\ q <= -1 => WordBytes * q <= -WordBytes
      /\ q = 0 => WordBytes * q = 0
      /\ q = 1 => WordBytes * q = WordBytes
      /\ q >= 2 => WordBytes * q >= 2 * WordBytes
  BY <1>1
<1>6. CASE r = 0
  <2>1. q >= 1 /\ WordBytes <= n /\ (n <= WordBytes => WordBytes = n)
    BY <1>1, <1>4, <1>5, <1>6
  <2> QED BY <1>1, <1>3, <1>6, <2>1
<1>7. CASE r # 0
  <2>1. r >= 1 /\ r <= n /\ (n <= WordBytes => r = n) /\ r \in Nat
    BY <1>1, <1>4, <1>5, <1>7
  <2> QED BY <1>3, <1>7, <2>1
<1> QED BY <1>6, <1>7

LEMMA LastWordType ==
  ASSUME NEW b \in Seq(Int), Len(b) >= 1
  PROVE  LastWord(b) \in Seq(Int) /\ (Len(b) <= WordBytes => LastWord(b) = b)
<1>1. Len(b) \in Nat
  OBVIOUS
<1>2. PICK w \in Nat : /\ w = IF Len(b) % WordBytes = 0 THEN WordBytes ELSE Len(b) % WordBytes
                       /\ 1 <= w /\ w <= Len(b) /\ (Len(b) <= WordBytes => w = Len(b))
  BY <1>1, WordFacts
<1>3. LastWord(b) = SubSeq(b, Len(b) - w + 1, Len(b))
  BY <1>2 DEF LastWord
<1>4. SubSeq(b, Len(b) - w + 1, Len(b)) \in Seq(Int)
  BY <1>1, <1>2
<1>5. SubSeq(b, 1, Len(b)) = b
  BY <1>1
<1>6. ASSUME Len(b) <= WordBytes  PROVE LastWord(b) = b
  <2>1. Len(b) - w + 1 = 1
    BY <1>1, <1>2, <1>6
  <2> QED BY <1>3, <1>5, <2>1
<1>7. LastWord(b) \in Seq(Int)
  BY <1>3, <1>4
<1> QED BY <1>6, <1>7

\* What is passed on of two accesses is a sequence of bytes, too.
LEMMA JoinedType ==
  ASSUME NEW parts \in Seq(Bytes), Len(parts) \in {1, 2}, \A i \in 1 .. Len(parts) : Len(parts[i]) >= 1
  PROVE  Joined(parts) \in Bytes
<1>1. CASE Len(parts) = 1
  <2>1. 1 \in 1 .. Len(parts)
    BY <1>1
  <2>2. parts[1] \in Bytes
    BY <2>1, Element
  <2> QED BY <1>1, <2>2 DEF Joined
<1>2. CASE Len(parts) = 2
  <2>1. 1 \in 1 .. Len(parts) /\ 2 \in 1 .. Len(parts)
    BY <1>2
  <2>2. parts[1] \in Bytes /\ parts[2] \in Bytes /\ Len(parts[1]) >= 1
    BY <2>1, Element
  <2>3. LastWord(parts[1]) \in Seq(Int) /\ parts[2] \in Seq(Int)
    BY <2>2, LastWordType DEF Bytes
  <2>4. LastWord(parts[1]) \o parts[2] \in Seq(Int)
    BY <2>3, CatType
  <2> QED BY <1>2, <2>4 DEF Joined, Bytes
<1> QED BY <1>1, <1>2

LEMMA TypeDeliver == ASSUME TInv, Deliver  PROVE TInv'
<1>1. /\ fsm.state = "WAIT_DATA" /\ Len(read_data) = fsm.parts /\ Room(echo_data)
      /\ echo_data' = Append(echo_data, Joined(read_data)) /\ read_data' = <<>>
      /\ fsm' = Idle /\ app' = [state |-> "GET_DATA_NOTY"]
      /\ UNCHANGED <<sar, eng, store, notify, read_req, read_rsp, blocks, echo_meta, echo_tx, mem,
                     conn, unacked, history, conns>>
  BY DEF Deliver, AfterData
<1>2. /\ fsm.parts \in {1, 2} /\ read_data \in Seq(Bytes) /\ blocks \in Seq(Blocks)
      /\ \A i \in 1 .. Len(read_data) : Len(read_data[i]) >= 1
      /\ Len(read_data) + Len(blocks) = fsm.parts
  BY <1>1, States DEF TInv, TReader
<1>3. Joined(read_data) \in Bytes
  BY <1>1, <1>2, JoinedType
<1>4. Fifo(echo_data', Bytes)
  BY <1>1, <1>3, FifoWrite DEF TInv, TEcho
<1>5. TEcho'
  BY <1>1, <1>4 DEF TInv, TEcho, Fifo, Apps
<1>6. Len(blocks') = 0
  BY <1>1, <1>2
<1>7. fsm' \in Fsms /\ fsm'.state # "WAIT_DATA" /\ read_data' \in Seq(Bytes) /\ Len(read_data') = 0
  BY <1>1 DEF Fsms, Idle
<1>8. TReader'
  BY <1>1, <1>6, <1>7 DEF TInv, TReader, Fifo
<1> QED BY <1>1, <1>5, <1>8, TypeSame DEF TInv

LEMMA TypeGetDataNoty == ASSUME TInv, GetDataNoty  PROVE TInv'
<1> DEFINE n == Head(net_notice)
<1>1. /\ net_notice # <<>> /\ net_notice' = Tail(net_notice)
      /\ UNCHANGED <<sar, eng, store, rx_notice, rt_notice, notices, notify_reg, read_rsp, fsm,
                     blocks, read_data, echo_meta, echo_data, echo_tx, mem, conn, unacked, history, conns>>
      /\ IF n.len # 0
         THEN /\ Room(read_req) /\ read_req' = Append(read_req, n)
              /\ app' = [state |-> "WAIT_SESSION_ID", notice |-> n]
         ELSE UNCHANGED <<read_req, app>>
  BY DEF GetDataNoty
<1>2. Fifo(Tail(net_notice), Notices) /\ n \in Notices
  BY <1>1, FifoRead DEF TInv, TNotify
<1>3. TNotify'
  BY <1>1, <1>2 DEF TInv, TNotify, Fifo
<1>4. CASE n.len # 0
  <2>1. n \in DataNotices
    BY <1>2, <1>4, RecordFacts
  <2>2. Fifo(read_req', DataNotices)
    BY <1>1, <1>4, <2>1, FifoWrite DEF TInv, TReader
  <2>4. app' \in Apps
    BY <1>1, <1>4, <2>1 DEF Apps
  <2>3. TReader' /\ TEcho'
    BY <1>1, <2>2, <2>4 DEF TInv, TReader, TEcho, Fifo
  <2> QED BY <1>1, <1>3, <2>3, TypeSame DEF TInv
<1>5. CASE ~(n.len # 0)
  <2>1. UNCHANGED <<reader, echo>>
    BY <1>1, <1>5 DEF reader, echo
  <2> QED BY <1>1, <1>3, <2>1, TypeSame DEF TInv
<1> QED BY <1>4, <1>5

LEMMA TypeWaitSessionId == ASSUME TInv, WaitSessionId  PROVE TInv'
<1>1. /\ app.state = "WAIT_SESSION_ID" /\ read_rsp # <<>> /\ Room(echo_meta)
      /\ echo_meta' = Append(echo_meta, app.notice) /\ read_rsp' = Tail(read_rsp)
      /\ app' = [state |-> "FORWARD_DATA"]
      /\ UNCHANGED <<sar, eng, store, notify, read_req, fsm, blocks, read_data, echo_data, echo_tx,
                     mem, conn, unacked, history, conns>>
  BY DEF WaitSessionId
<1>2. Fifo(read_rsp', Sessions)
  BY <1>1, FifoRead DEF TInv, TReader
<1>3. Fifo(echo_meta', DataNotices)
  BY <1>1, States, FifoWrite DEF TInv, TEcho
<1>4. TReader' /\ TEcho'
  BY <1>1, <1>2, <1>3 DEF TInv, TReader, TEcho, Fifo, Apps
<1> QED BY <1>1, <1>4, TypeSame DEF TInv

LEMMA TypeEcho ==
  ASSUME TInv, EchoRequest \/ EchoGranted \/ EchoRefused \/ EchoAgain \/ EchoForward
  PROVE  TInv'
<1>1. ASSUME EchoRequest  PROVE TInv'
  <2>1. /\ echo_meta # <<>> /\ echo_tx' = [state |-> "WAIT_RESPONSE", meta |-> Head(echo_meta)]
        /\ echo_meta' = Tail(echo_meta)
        /\ UNCHANGED <<sar, eng, store, notify, reader, app, echo_data, mem, conn, unacked, history, conns>>
    BY <1>1 DEF EchoRequest
  <2>2. Fifo(echo_meta', DataNotices) /\ Head(echo_meta) \in DataNotices
    BY <2>1, FifoRead DEF TInv, TEcho
  <2>3. TEcho'
    BY <2>1, <2>2 DEF TInv, TEcho, Fifo, EchoTxs
  <2> QED BY <2>1, <2>3, TypeSame DEF TInv
<1>2. ASSUME EchoGranted \/ EchoRefused \/ EchoAgain  PROVE TInv'
  <2>1. /\ echo_tx.state # "READ_META"
        /\ \E x \in {"WAIT_RESPONSE", "WAIT_CYCLES", "FORWARD_DATA"} : echo_tx' = [echo_tx EXCEPT !.state = x]
        /\ UNCHANGED <<sar, eng, store, notify, reader, app, echo_meta, echo_data, mem, conn, unacked, history, conns>>
    BY <1>2 DEF EchoGranted, EchoRefused, EchoAgain
  <2>2. PICK x \in {"WAIT_RESPONSE", "WAIT_CYCLES", "FORWARD_DATA"} : echo_tx' = [echo_tx EXCEPT !.state = x]
    BY <2>1
  <2>3. echo_tx' = [state |-> x, meta |-> echo_tx.meta] /\ echo_tx.meta \in DataNotices
    BY <2>1, <2>2, States
  <2>4. TEcho'
    BY <2>1, <2>3 DEF TInv, TEcho, Fifo, EchoTxs
  <2> QED BY <2>1, <2>4, TypeSame DEF TInv
<1>3. ASSUME EchoForward  PROVE TInv'
  <2>1. /\ echo_tx.state = "FORWARD_DATA" /\ echo_data # <<>>
        /\ echoed' = [echoed EXCEPT ![echo_tx.meta.id] = @ + echo_tx.meta.len]
        /\ unacked' = [unacked EXCEPT ![echo_tx.meta.id] = @ + echo_tx.meta.len]
        /\ echo_data' = Tail(echo_data) /\ echo_tx' = [state |-> "READ_META"]
        /\ UNCHANGED <<sar, eng, store, notify, reader, app, echo_meta, mem, conn, base, edge,
                       accepted, stored, announced, freed, conns>>
    BY <1>3 DEF EchoForward
  <2>2. Fifo(echo_data', Bytes)
    BY <2>1, FifoRead DEF TInv, TEcho
  <2>3. TEcho'
    BY <2>1, <2>2 DEF TInv, TEcho, Fifo, EchoTxs
  <2>4. echo_tx.meta.id \in Sessions /\ echo_tx.meta.len \in Nat
    BY <2>1, States, RecordFacts
  <2>5. echoed' \in [Sessions -> Nat] /\ unacked' \in [Sessions -> Int]
    <3>1. PICK t \in Sessions, l \in Nat : t = echo_tx.meta.id /\ l = echo_tx.meta.len
      BY <2>4
    <3>2. echoed' = [echoed EXCEPT ![t] = @ + l] /\ echoed \in [Sessions -> Nat]
      BY <2>1, <3>1 DEF TInv, TRest
    <3>3. unacked' = [unacked EXCEPT ![t] = @ + l] /\ unacked \in [Sessions -> Int]
      BY <2>1, <3>1 DEF TInv, TRest
    <3> QED BY <3>2, <3>3
  <2>6. TRest'
    BY <2>1, <2>5 DEF TInv, TRest
  <2> QED BY <2>1, <2>3, <2>6, TypeSame DEF TInv
<1> QED BY <1>1, <1>2, <1>3

LEMMA TypeNext == TInv /\ [Next]_vars => TInv'
<1> SUFFICES ASSUME TInv, [Next]_vars  PROVE TInv'
  OBVIOUS
<1>1. ASSUME UNCHANGED vars  PROVE TInv'
  <2>1. UNCHANGED <<sar, eng, store, notify, reader, echo, mem, conn, unacked, history, conns>>
    BY <1>1 DEF vars
  <2> QED BY <2>1, TypeSame DEF TInv
<1>2. ASSUME NEW s \in Sessions, SarTxLookup(s) \/ Abort(s) \/ LoadAck(s)  PROVE TInv'
  BY <1>2, TypeSarTxLookup, TypeAbort, TypeLoadAck
<1>3. ASSUME NEW s \in Sessions, NEW scale \in Scales, Establish(s, scale)  PROVE TInv'
  BY <1>3, TypeEstablish
<1>4. ASSUME NEW s \in Sessions, NEW n \in SegLengths, NEW d \in -1 .. 1, Load(s, accepted[s] + d, n, FALSE)
      PROVE  TInv'
  <2>1. accepted[s] + d \in Int
    BY Counters
  <2> QED BY <1>4, <2>1, TypeLoad
<1>9. ASSUME NEW s \in Sessions, NEW n \in SegLengths \cup {0}, Load(s, accepted[s], n, TRUE)
      PROVE  TInv'
  <2>1. accepted[s] \in Int
    BY Counters
  <2> QED BY <1>9, <2>1, TypeLoad
<1>5. ASSUME Inputs  PROVE TInv'
  BY <1>2, <1>3, <1>4, <1>5, <1>9 DEF Inputs
<1>6. ASSUME Sar \/ Transition \/ MergeNotice \/ NotifyLookup \/ NotifySend  PROVE TInv'
  BY <1>6, TypeSarApp, TypeSarEng, TypeTransition, TypeMergeNotice, TypeNotifyLookup, TypeNotifySend
  DEF Sar
<1>7. ASSUME DataHandler \/ MoverRead \/ EchoReceive \/ EchoTransmit  PROVE TInv'
  BY <1>7, TypeDataReq, TypeSarRsp, TypeDeliver, TypeMoverRead, TypeGetDataNoty, TypeWaitSessionId, TypeEcho
  DEF DataHandler, EchoReceive, EchoTransmit
<1>8. ASSUME NEW okay \in BOOLEAN, Store(okay)  PROVE TInv'
  BY <1>8, TypeStore
<1> QED BY <1>1, <1>5, <1>6, <1>7, <1>8, Zenon DEF Next

-----------------------------------------------------------------------------
(* What the invariant is about.                                              *)

LEMMA GivenFacts ==
  ASSUME TInv
  PROVE  /\ \A s \in Sessions : Given(s) \in Nat
         /\ ReadTo \in Counts
         /\ \A s \in Sessions : ReadTo[s] = freed[s] + Given(s) /\ ReadTo[s] \in Nat
<1>1. ASSUME NEW s \in Sessions  PROVE Given(s) \in Nat
  <2>1. CASE Giving(s)
    <3>1. 1 \in 1 .. Len(app_req) /\ app_req \in Seq(AppReqs)
      BY <2>1 DEF TInv, TSar, Fifo, Giving
    <3>2. app_req[1] \in AppReqs
      BY <3>1, Element
    <3>3. app_req[1].app_read \in Addrs
      BY <2>1, <3>2, RecordFacts DEF Giving
    <3>4. PICK x \in Int : x = app_req[1].app_read - rx_sar_table[s].app_read
      BY <3>3, Counters, Modulus DEF Addrs
    <3>5. Low(x) \in Nat
      BY LowFacts, Modulus
    <3> QED BY <2>1, <3>4, <3>5 DEF Given
  <2>2. CASE ~Giving(s)
    BY <2>2 DEF Given
  <2> QED BY <2>1, <2>2
<1>2. \A s \in Sessions : ReadTo[s] = freed[s] + Given(s)
  BY DEF ReadTo
<1>3. \A s \in Sessions : freed[s] \in Nat
  BY Counters
<1>4. ReadTo \in Counts
  <2>1. \A s \in Sessions : freed[s] + Given(s) \in Nat
    <3> TAKE s \in Sessions
    <3>1. PICK x \in Nat, y \in Nat : x = freed[s] /\ y = Given(s)
      BY <1>1, <1>3
    <3> QED BY <3>1
  <2> QED BY <2>1 DEF ReadTo, Counts
<1>5. \A s \in Sessions : ReadTo[s] \in Nat
  BY <1>4 DEF Counts
<1> QED BY <1>1, <1>2, <1>4, <1>5

LEMMA ChainTypes ==
  ASSUME TInv
  PROVE  /\ Metas \in Seq(DataNotices) /\ Metas \in Seq(Notices) /\ Taken \in Seq(DataNotices)
         /\ Taken \in Seq(Notices)
         /\ Todo \in Seq(Notices) /\ Told \in Seq(Notices) /\ store \in Seq(Jobs)
         /\ rx_notice \in Seq(Notices) /\ notices \in Seq(Notices) /\ net_notice \in Seq(Notices)
         /\ echo_meta \in Seq(DataNotices)
         /\ notify_reg # Nothing => notify_reg \in Notices
<1>1. /\ echo_meta \in Seq(DataNotices) /\ store \in Seq(Jobs) /\ rx_notice \in Seq(Notices)
      /\ notices \in Seq(Notices) /\ net_notice \in Seq(Notices) /\ notify_reg \in Notices \cup {Nothing}
  BY DEF TInv, TEcho, TEng, TNotify, Fifo
<1>2. DataNotices \subseteq Notices
  BY RecordFacts
<1>3. \A q \in Seq(DataNotices) : q \in Seq(Notices)
  BY <1>2
<1>4. Metas \in Seq(DataNotices)
  <2>1. CASE echo_tx.state = "READ_META"
    BY <1>1, <2>1 DEF Metas
  <2>2. CASE echo_tx.state # "READ_META"
    <3>1. <<echo_tx.meta>> \o echo_meta \in Seq(DataNotices)
      BY <1>1, <2>2, States, CatOne
    <3> QED BY <2>2, <3>1 DEF Metas
  <2> QED BY <2>1, <2>2
<1>5. Taken \in Seq(DataNotices)
  <2>1. CASE Asked
    <3>1. app.notice \in DataNotices
      BY <2>1, States DEF Asked
    <3>2. Append(Metas, app.notice) \in Seq(DataNotices)
      BY <1>4, <3>1, Puts
    <3> QED BY <2>1, <3>2 DEF Taken
  <2>2. CASE ~Asked
    BY <1>4, <2>2 DEF Taken
  <2> QED BY <2>1, <2>2
<1>6. Todo \in Seq(Notices)
  <2>1. CASE Asking
    <3>1. app.notice \in Notices
      BY <2>1, <1>2, States DEF Asking
    <3>2. <<app.notice>> \o net_notice \in Seq(Notices)
      BY <1>1, <3>1, CatOne
    <3> QED BY <2>1, <3>2 DEF Todo
  <2>2. CASE ~Asking
    BY <1>1, <2>2 DEF Todo
  <2> QED BY <2>1, <2>2
<1>7. Told \in Seq(Notices)
  <2>1. PICK q \in Seq(Notices) : q = IF notify_reg = Nothing THEN notices ELSE <<notify_reg>> \o notices
    <3>1. notify_reg # Nothing => <<notify_reg>> \o notices \in Seq(Notices)
      BY <1>1, CatOne
    <3> QED BY <1>1, <3>1
  <2>2. q \o rx_notice \in Seq(Notices)
    BY <1>1, <1>3, CatType
  <2> QED BY <2>1, <2>2 DEF Told
<1> QED BY <1>1, <1>3, <1>4, <1>5, <1>6, <1>7

\* The order of the stages.
LEMMA Stages ==
  ASSUME TInv, OrderInv
  PROVE  /\ Below(echoed, ReadTo) /\ Below(ReadTo, announced) /\ Below(announced, stored)
         /\ Below(stored, accepted)
         /\ \A s \in Sessions : /\ freed[s] <= ReadTo[s] /\ echoed[s] <= ReadTo[s] /\ ReadTo[s] <= announced[s]
                                /\ announced[s] <= stored[s] /\ stored[s] <= accepted[s]
<1>1. \A s \in Sessions : freed[s] <= ReadTo[s]
  <2> TAKE s \in Sessions
  <2>1. freed[s] \in Nat /\ Given(s) \in Nat /\ ReadTo[s] = freed[s] + Given(s)
    BY Counters, GivenFacts
  <2> QED BY <2>1
<1> QED BY <1>1 DEF OrderInv, Below

\* What a step leaves alone.
LEMMA SameFuns ==
  /\ UNCHANGED <<echo_tx, echo_meta>> => Metas' = Metas
  /\ UNCHANGED <<app, fsm, echo_tx, echo_meta>> => Taken' = Taken
  /\ UNCHANGED <<app, fsm, net_notice>> => Todo' = Todo
  /\ UNCHANGED <<notify_reg, notices, rx_notice>> => Told' = Told
  /\ UNCHANGED <<freed, app_req, rx_sar_table>> => ReadTo' = ReadTo
<1>1. UNCHANGED <<echo_tx, echo_meta>> => Metas' = Metas
  BY DEF Metas
<1>2. UNCHANGED <<app, fsm>> => Asked' = Asked /\ Asking' = Asking
  BY DEF Asked, Asking
<1>3. UNCHANGED <<app, fsm, echo_tx, echo_meta>> => Taken' = Taken
  BY <1>1, <1>2 DEF Taken
<1>4. UNCHANGED <<app, fsm, net_notice>> => Todo' = Todo
  BY <1>2 DEF Todo
<1>5. UNCHANGED <<notify_reg, notices, rx_notice>> => Told' = Told
  BY DEF Told
<1>6. UNCHANGED <<freed, app_req, rx_sar_table>> => ReadTo' = ReadTo
  BY DEF ReadTo, Given, Giving
<1> QED BY <1>1, <1>3, <1>4, <1>5, <1>6

LEMMA ChainSame ==
  /\ TakenInv /\ Taken' = Taken /\ echoed' = echoed /\ ReadTo' = ReadTo => TakenInv'
  /\ TodoInv /\ Todo' = Todo /\ ReadTo' = ReadTo /\ announced' = announced => TodoInv'
  /\ ToldInv /\ Told' = Told /\ announced' = announced /\ stored' = stored => ToldInv'
  /\ KeptInv /\ UNCHANGED <<store, stored, accepted>> => KeptInv'
  /\ OrderInv /\ ReadTo' = ReadTo /\ UNCHANGED <<echoed, announced, stored, accepted>> => OrderInv'
<1>1. TakenInv /\ Taken' = Taken /\ echoed' = echoed /\ ReadTo' = ReadTo => TakenInv'
  BY DEF TakenInv
<1>2. TodoInv /\ Todo' = Todo /\ ReadTo' = ReadTo /\ announced' = announced => TodoInv'
  BY DEF TodoInv
<1>3. ToldInv /\ Told' = Told /\ announced' = announced /\ stored' = stored => ToldInv'
  BY DEF ToldInv
<1>4. KeptInv /\ UNCHANGED <<store, stored, accepted>> => KeptInv'
  BY DEF KeptInv
<1>5. OrderInv /\ ReadTo' = ReadTo /\ UNCHANGED <<echoed, announced, stored, accepted>> => OrderInv'
  BY DEF OrderInv
<1> QED BY <1>1, <1>2, <1>3, <1>4, <1>5

LEMMA PartsSame ==
  /\ AppInv /\ UNCHANGED <<read_req, read_rsp, fsm, app>> => AppInv'
  /\ ReqInv /\ UNCHANGED <<app_req, app_rsp, fsm, app, rx_sar_table>> => ReqInv'
  /\ EngInv /\ UNCHANGED <<eng_req, eng_rsp, eng>> => EngInv'
  /\ SpaceInv /\ UNCHANGED <<accepted, freed, edge>> => SpaceInv'
  /\ TableInv /\ UNCHANGED <<conn, eng_req, base, accepted, echoed, app_req, rx_sar_table, freed, stored>>
       => TableInv'
  /\ SegInv /\ UNCHANGED <<conn, eng, eng_rsp, accepted, freed, base>> => SegInv'
  /\ PlaceInv /\ UNCHANGED <<store, base>> => PlaceInv'
  /\ MemInv /\ ReadTo' = ReadTo /\ UNCHANGED <<stored, mem, base>> => MemInv'
  /\ DataInv /\ Taken' = Taken /\ UNCHANGED <<fsm, read_data, blocks, mem>> => DataInv'
  /\ EchoInv /\ Metas' = Metas /\ UNCHANGED <<echo_data, app>> => EchoInv'
<1>1. AppInv /\ UNCHANGED <<read_req, read_rsp, fsm, app>> => AppInv'
  BY DEF AppInv, Asking, Asked
<1>2. ReqInv /\ UNCHANGED <<app_req, app_rsp, fsm, app, rx_sar_table>> => ReqInv'
  BY DEF ReqInv
<1>3. EngInv /\ UNCHANGED <<eng_req, eng_rsp, eng>> => EngInv'
  BY DEF EngInv
<1>4. SpaceInv /\ UNCHANGED <<accepted, freed, edge>> => SpaceInv'
  BY DEF SpaceInv
<1>5. TableInv /\ UNCHANGED <<conn, eng_req, base, accepted, echoed, app_req, rx_sar_table, freed, stored>> => TableInv'
  BY DEF TableInv, Entered, Starting, Writing, Giving
<1>6. SegInv /\ UNCHANGED <<conn, eng, eng_rsp, accepted, freed, base>> => SegInv'
  BY DEF SegInv, Judged
<1>7. PlaceInv /\ UNCHANGED <<store, base>> => PlaceInv'
  BY DEF PlaceInv
<1>8. MemInv /\ ReadTo' = ReadTo /\ UNCHANGED <<stored, mem, base>> => MemInv'
  BY DEF MemInv
<1>9. DataInv /\ Taken' = Taken /\ UNCHANGED <<fsm, read_data, blocks, mem>> => DataInv'
  BY DEF DataInv, UnderWay, Part, Holds
<1>10. EchoInv /\ Metas' = Metas /\ UNCHANGED <<echo_data, app>> => EchoInv'
  BY DEF EchoInv
<1> QED BY <1>1, <1>2, <1>3, <1>4, <1>5, <1>6, <1>7, <1>8, <1>9, <1>10

-----------------------------------------------------------------------------
(* The steps of rx_sar_table.                                                *)

\* A session that starts anew has no bytes on their way.
LEMMA StartFacts ==
  ASSUME TInv, OrderInv, TableInv, NEW s \in Sessions, Starting(s)
  PROVE  /\ freed[s] = accepted[s] /\ echoed[s] = accepted[s] /\ ReadTo[s] = accepted[s]
         /\ announced[s] = accepted[s] /\ stored[s] = accepted[s]
<1>1. echoed[s] = accepted[s] /\ ~Giving(s)
  BY DEF TableInv
<1>2. /\ freed[s] \in Nat /\ ReadTo[s] = freed[s] + 0 /\ announced[s] \in Nat /\ stored[s] \in Nat
      /\ accepted[s] \in Nat
  BY <1>1, Counters, GivenFacts DEF Given
<1>3. /\ echoed[s] <= ReadTo[s] /\ ReadTo[s] <= announced[s]
      /\ announced[s] <= stored[s] /\ stored[s] <= accepted[s]
  BY DEF OrderInv
<1> QED BY <1>1, <1>2, <1>3

\* The free space of the table, and the next byte that it knows of.
LEMMA TableFacts ==
  ASSUME TInv, OrderInv, SpaceInv, TableInv, NEW s \in Sessions, ~Starting(s), conn[s] = "OPEN"
  PROVE  \E r \in Nat :
           /\ Entered(s, r) /\ freed[s] <= r /\ r <= accepted[s]
           /\ FreeSpace(rx_sar_table[s]) = freed[s] - r + BufMod - 1
           /\ NextByte(s, rx_sar_table[s]) = r
<1>1. PICK r \in Nat : Entered(s, r)
  BY DEF TableInv
<1>2. /\ rx_sar_table[s].recvd = SeqNo(base[s] + r) /\ stored[s] <= r /\ r <= accepted[s]
      /\ rx_sar_table[s].app_read = Low(base[s] + freed[s])
  BY <1>1 DEF Entered, TableInv
<1>3. PICK b \in Nat, f \in Nat, a \in Nat, d \in Nat :
        b = base[s] /\ f = freed[s] /\ a = accepted[s] /\ d = stored[s]
  BY Counters
<1>4. f <= d /\ d <= r /\ r <= a /\ a - f <= BufMod - 1
  <2>1. freed[s] <= ReadTo[s] /\ ReadTo[s] <= announced[s] /\ announced[s] <= stored[s] /\ ReadTo[s] \in Nat
        /\ announced[s] \in Nat
    BY Stages, GivenFacts, Counters
  <2> QED BY <1>2, <1>3, <2>1 DEF SpaceInv
<1>5. BufMod \in Nat /\ BufMod > 1 /\ SeqMod \in Nat /\ BufMod <= SeqMod
  <2>1. SeqMod \in Nat /\ SeqMod > 0 /\ BufMod \in Nat /\ BufMod > 1
    BY Modulus
  <2>2. PICK q \in Int : SeqMod = BufMod * q
    <3>1. Same(BufMod, SeqMod, 0)
      <4>1. Same(SeqMod, SeqMod, 0)
        BY <2>1, SameSelf
      <4> QED BY <2>1, <4>1, SeqIsLow
    <3>2. PICK q \in Int : SeqMod = 0 + BufMod * q
      BY <3>1 DEF Same
    <3> QED BY <2>1, <3>2
  <2>3. q <= 0 => BufMod * q <= 0
    BY <2>1
  <2>4. q >= 1 => BufMod * q >= BufMod
    BY <2>1
  <2> QED BY <2>1, <2>2, <2>3, <2>4
<1>6. f <= r /\ r - f <= BufMod - 1 /\ r <= a /\ a - r < SeqMod
  BY <1>3, <1>4, <1>5
<1>7. Low(Low(b + f) - SeqNo(b + r) - 1) = f - r + BufMod - 1
  BY <1>3, <1>6, SpaceFacts
<1>8. SeqNo(b + a - SeqNo(b + r)) = a - r
  BY <1>3, <1>6, NextFacts
<1>9. FreeSpace(rx_sar_table[s]) = freed[s] - r + BufMod - 1
  BY <1>2, <1>3, <1>7 DEF FreeSpace
<1>10. NextByte(s, rx_sar_table[s]) = r
  <2>1. NextByte(s, rx_sar_table[s]) = a - (a - r)
    BY <1>2, <1>3, <1>8 DEF NextByte
  <2> QED BY <1>3, <2>1
<1> QED BY <1>1, <1>2, <1>3, <1>6, <1>9, <1>10

\* A window that is scaled and put into its field: rounded down, and cut.
LEMMA RoundDown ==
  ASSUME NEW k \in Nat, k > 0, NEW n \in Nat
  PROVE  \E w \in Nat, p \in Nat : /\ w = (n \div k) % WinMod /\ p = w * k /\ p <= n
                                   /\ n < WinMod * k => n < p + k
<1>1. WinMod \in Nat /\ WinMod > 0
  BY Modulus
<1>2. PICK q \in Nat : q = n \div k /\ q * k <= n /\ n < q * k + k
  BY DivFacts
<1>3. q = WinMod * (q \div WinMod) + (q % WinMod) /\ (q \div WinMod) \in Int /\ (q % WinMod) \in 0 .. WinMod - 1
  BY <1>1
<1>4. PICK z \in Int, w \in Int : z = q \div WinMod /\ w = q % WinMod
  BY <1>3
<1>5. q = WinMod * z + w /\ 0 <= w /\ w < WinMod /\ WinMod * z \in Int
  BY <1>1, <1>3, <1>4
<1>6. /\ z <= -1 => WinMod * z <= -WinMod
      /\ z = 0 => WinMod * z = 0
      /\ z >= 1 => WinMod * z >= WinMod
  BY <1>1
<1>7. w \in Nat /\ w <= q /\ (q < WinMod => w = q)
  BY <1>1, <1>5, <1>6
<1>8. PICK d \in Nat : q = w + d
  <2>1. q - w \in Nat /\ q = w + (q - w)
    BY <1>7
  <2> QED BY <2>1
<1>9. PICK p \in Nat, x \in Nat, y \in Nat : p = w * k /\ x = d * k /\ y = q * k /\ y = p + x
  <2>1. (w + d) * k = w * k + d * k /\ w * k \in Nat /\ d * k \in Nat
    BY <1>7
  <2> QED BY <1>8, <2>1
<1>10. p <= n
  BY <1>2, <1>9
<1>11. ASSUME n < WinMod * k  PROVE n < p + k
  <2>1. q < WinMod
    <3> SUFFICES ASSUME ~(q < WinMod)  PROVE FALSE
      OBVIOUS
    <3>1. PICK c \in Nat : q = WinMod + c
      <4>1. q - WinMod \in Nat /\ q = WinMod + (q - WinMod)
        BY <1>1
      <4> QED BY <4>1
    <3>2. (WinMod + c) * k = WinMod * k + c * k /\ c * k \in Nat /\ WinMod * k \in Nat
      BY <1>1
    <3> QED BY <1>2, <1>11, <3>1, <3>2
  <2>2. w = q
    BY <1>7, <2>1
  <2> QED BY <1>2, <1>9, <2>2
<1> QED BY <1>2, <1>4, <1>7, <1>9, <1>10, <1>11

\* What the window of a segment tells.
LEMMA LookupFacts ==
  ASSUME TInv, Core, NEW s \in Sessions, SarTxLookup(s)
  PROVE  /\ edge' = [edge EXCEPT ![s] = edge'[s]] /\ edge'[s] \in Int
         /\ edge'[s] <= freed[s] + BufMod - 1
         /\ FreeSpace(rx_sar_table[s]) < WinMod * rx_sar_table[s].scale
              => edge'[s] + rx_sar_table[s].scale > freed[s] + BufMod - 1
<1> DEFINE e == rx_sar_table[s]
<1>1. edge' = [edge EXCEPT ![s] = NextByte(s, e) + Advertised(e) * e.scale] /\ conn[s] = "OPEN"
      /\ \A i \in 1 .. Len(eng_req) : ~(eng_req[i].write /\ eng_req[i].init)
  BY DEF SarTxLookup
<1>2. ~Starting(s)
  <2> SUFFICES ASSUME Starting(s)  PROVE FALSE
    OBVIOUS
  <2>1. 1 \in 1 .. Len(eng_req)
    BY DEF Starting, Writing, TInv, TSar, Fifo
  <2> QED BY <1>1, <2>1 DEF Starting, Writing
<1>3. PICK r \in Nat : /\ freed[s] <= r /\ FreeSpace(e) = freed[s] - r + BufMod - 1 /\ NextByte(s, e) = r
                       /\ r <= accepted[s]
  BY <1>1, <1>2, TableFacts DEF Core, ChainInv, RcvInv
<1>4. PICK f \in Nat, k \in Nat, n \in Nat : f = freed[s] /\ k = e.scale /\ k > 0 /\ n = FreeSpace(e)
                                             /\ n = f - r + BufMod - 1
  <2>1. freed[s] \in Nat /\ e.scale \in Nat /\ e.scale >= 1 /\ accepted[s] \in Nat
    BY Counters
  <2>2. e.app_read - e.recvd - 1 \in Int
    BY Counters
  <2>3. FreeSpace(e) \in Nat
    BY <2>2, LowFacts, Modulus DEF FreeSpace
  <2> QED BY <1>3, <2>1, <2>3
<1>5. PICK w \in Nat, p \in Nat : w = (n \div k) % WinMod /\ p = w * k /\ p <= n
                                  /\ (n < WinMod * k => n < p + k)
  BY <1>4, RoundDown
<1>8. edge'[s] = r + p
  <2>1. Advertised(e) = w
    BY <1>4, <1>5 DEF Advertised
  <2>2. edge \in [Sessions -> Int]
    BY DEF TInv, TRest
  <2>3. NextByte(s, e) + Advertised(e) * e.scale = r + p
    BY <1>3, <1>4, <1>5, <2>1
  <2> QED BY <1>1, <2>2, <2>3
<1>10. edge'[s] <= f + BufMod - 1
  BY <1>3, <1>4, <1>5, <1>8, Modulus
<1>11. ASSUME n < WinMod * k  PROVE edge'[s] + k > f + BufMod - 1
  BY <1>3, <1>4, <1>5, <1>8, <1>11, Modulus
<1>12. edge' = [edge EXCEPT ![s] = edge'[s]]
  BY <1>1 DEF TInv, TRest
<1>13. edge'[s] \in Int
  BY <1>8
<1> QED BY <1>4, <1>10, <1>11, <1>12, <1>13

LEMMA CoreSarTxLookup ==
  ASSUME TInv, Core, NEW s \in Sessions, SarTxLookup(s)
  PROVE  Core'
<1>1. UNCHANGED <<sar, eng, store, notify, reader, echo, mem, conn, unacked, base, accepted, stored,
                  announced, freed, echoed>>
  BY DEF SarTxLookup
<1>2. UNCHANGED <<rx_sar_table, app_req, app_rsp, eng_req, eng_rsp, rx_notice, rt_notice, notices, notify_reg,
                  net_notice, read_req, read_rsp, fsm, blocks, read_data, app, echo_meta, echo_data, echo_tx>>
  BY <1>1 DEF sar, notify, reader, echo
<1>3. Metas' = Metas /\ Taken' = Taken /\ Todo' = Todo /\ Told' = Told /\ ReadTo' = ReadTo
  BY <1>1, <1>2, SameFuns
<1>4. ChainInv'
  BY <1>1, <1>3, ChainSame DEF Core, ChainInv
<1>5. ReadInv'
  BY <1>2, PartsSame DEF Core, ReadInv
<1>6. ByteInv'
  BY <1>1, <1>2, <1>3, PartsSame DEF Core, ByteInv
<1>7. SpaceInv'
  <2> SUFFICES ASSUME NEW t \in Sessions
               PROVE  accepted'[t] - freed'[t] <= BufMod - 1 /\ edge'[t] <= freed'[t] + BufMod - 1
    BY DEF SpaceInv
  <2>1. accepted[t] - freed[t] <= BufMod - 1 /\ edge[t] <= freed[t] + BufMod - 1
    BY DEF Core, RcvInv, SpaceInv
  <2>2. edge' = [edge EXCEPT ![s] = edge'[s]] /\ edge'[s] <= freed[s] + BufMod - 1
    BY LookupFacts
  <2>3. t # s => edge'[t] = edge[t]
    BY <2>2 DEF TInv, TRest
  <2> QED BY <1>1, <2>1, <2>2, <2>3
<1>8. RcvInv'
  BY <1>1, <1>2, <1>7, PartsSame DEF Core, RcvInv
<1> QED BY <1>4, <1>5, <1>6, <1>8 DEF Core

\* The requests behind the one that is served.
LEMMA AppReqFacts ==
  ASSUME TInv, ReqInv, app_req # <<>>
  PROVE  /\ app_req[1] \in AppReqs /\ Head(app_req) = app_req[1] /\ 1 \in 1 .. Len(app_req)
         /\ Tail(app_req) \in Seq(AppReqs)
         /\ \A i \in 1 .. Len(Tail(app_req)) : Tail(app_req)[i] = app_req[i + 1] /\ i + 1 \in 1 .. Len(app_req)
         /\ \A i \in 1 .. Len(Tail(app_req)) : ~Tail(app_req)[i].write
         /\ ~app_req[1].write => Tail(app_req) = <<>>
         /\ app_rsp = <<>>
<1>1. /\ app_req \in Seq(AppReqs)
  BY DEF TInv, TSar, Fifo
<1>2. /\ Head(app_req) \in AppReqs /\ Head(app_req) = app_req[1] /\ Tail(app_req) \in Seq(AppReqs)
      /\ Len(app_req) \in Nat /\ Len(app_req) >= 1 /\ Len(Tail(app_req)) = Len(app_req) - 1
      /\ \A i \in 1 .. Len(app_req) - 1 : Tail(app_req)[i] = app_req[i + 1]
  BY <1>1, Popped
<1>3. \A i \in 1 .. Len(Tail(app_req)) : Tail(app_req)[i] = app_req[i + 1] /\ i + 1 \in 1 .. Len(app_req) /\ i + 1 # 1
  BY <1>2
<1>4. \A i \in 1 .. Len(app_req) : (app_req[i].write => i = 1) /\ (~app_req[i].write => i = Len(app_req))
  BY DEF ReqInv
<1>5. 1 \in 1 .. Len(app_req)
  BY <1>2
<1>6. ASSUME ~app_req[1].write  PROVE Tail(app_req) = <<>>
  <2>1. 1 = Len(app_req)
    BY <1>4, <1>5, <1>6
  <2> QED BY <1>1, <2>1, OneLeft
<1>7. \A i \in 1 .. Len(Tail(app_req)) : ~Tail(app_req)[i].write
  BY <1>3, <1>4
<1>8. app_rsp = <<>>
  BY DEF ReqInv
<1> QED BY <1>2, <1>3, <1>5, <1>6, <1>7, <1>8

\* A pointer that is replaced moves by the distance of the two.
LEMMA LowReplaced ==
  ASSUME NEW x \in Int, NEW p \in Addrs
  PROVE  Low(x + Low(p - Low(x))) = p
<1>1. BufMod \in Nat /\ BufMod > 1
  BY Modulus
<1>2. PICK u \in Int, y \in Int : u = Low(x) /\ y = p
  BY <1>1, LowFacts DEF Addrs
<1>3. PICK v \in Int : v = Low(y - u)
  BY <1>2, LowFacts
<1>4. Same(BufMod, u, x) /\ Same(BufMod, v, y - u) /\ Same(BufMod, x, u)
  BY <1>1, <1>2, <1>3, LowFacts, SameArith
<1>5. Same(BufMod, x + v, u + (y - u))
  BY <1>1, <1>2, <1>4, SameArith
<1>6. u + (y - u) = y /\ x + v \in Int /\ y \in 0 .. BufMod - 1
  BY <1>2 DEF Addrs
<1>7. Same(BufMod, x + v, y)
  BY <1>5, <1>6
<1>8. Low(x + v) = y
  BY <1>6, <1>7, LowFacts
<1> QED BY <1>2, <1>3, <1>8

\* app_read is written: the bytes that were asked for are given back.
LEMMA GiveFacts ==
  ASSUME TInv, TInv', Core, SarApp, app_req[1].write
  PROVE  LET s == app_req[1].id IN
         /\ s \in Sessions /\ Giving(s) /\ ~Starting(s)
         /\ freed'[s] = ReadTo[s] /\ freed' = [freed EXCEPT ![s] = freed'[s]]
         /\ \A t \in Sessions : t # s => freed'[t] = freed[t] /\ rx_sar_table'[t] = rx_sar_table[t]
         /\ \A t \in Sessions : freed[t] <= freed'[t]
         /\ ReadTo' = ReadTo /\ \A t \in Sessions : ~Giving(t)'
         /\ \A t \in Sessions : rx_sar_table'[t].recvd = rx_sar_table[t].recvd
         /\ rx_sar_table'[s].app_read = app_req[1].app_read
         /\ Low(base[s] + freed'[s]) = app_req[1].app_read
         /\ app_req' = Tail(app_req) /\ app_rsp' = <<>> /\ app_rsp = <<>>
         /\ \A i \in 1 .. Len(app_req') : ~app_req'[i].write
<1> DEFINE s == app_req[1].id
           p == app_req[1].app_read
<1>1. ReqInv /\ TableInv /\ app_req # <<>>
  BY DEF Core, ReadInv, RcvInv, SarApp
<1>2. /\ app_req[1] \in AppReqs /\ Head(app_req) = app_req[1] /\ app_rsp = <<>>
      /\ \A i \in 1 .. Len(Tail(app_req)) : ~Tail(app_req)[i].write
      /\ Tail(app_req) \in Seq(AppReqs)
  BY <1>1, AppReqFacts
<1>3. s \in Sessions /\ p \in Addrs
  BY <1>2, RecordFacts
<1>4. /\ rx_sar_table' = [rx_sar_table EXCEPT ![s].app_read = p]
      /\ freed' = [freed EXCEPT ![s] = @ + Low(p - rx_sar_table[s].app_read)]
      /\ app_req' = Tail(app_req) /\ UNCHANGED app_rsp
  BY <1>2 DEF SarApp
<1>5. Giving(s) /\ \A t \in Sessions : t # s => ~Giving(t)
  BY <1>1 DEF Giving
<1>6. ~Starting(s)
  BY <1>1, <1>3, <1>5 DEF TableInv
<1>7. freed \in [Sessions -> Nat] /\ rx_sar_table \in [Sessions -> Entry]
  BY DEF TInv, TRest, TSar
<1>8. Given(s) = Low(p - rx_sar_table[s].app_read)
  BY <1>5 DEF Given
<1>9. PICK g \in Nat : g = Given(s)
  BY <1>3, GivenFacts
<1>10. /\ freed'[s] = freed[s] + g /\ freed' = [freed EXCEPT ![s] = freed'[s]]
       /\ \A t \in Sessions : t # s => freed'[t] = freed[t]
  BY <1>3, <1>4, <1>7, <1>8, <1>9
<1>11. /\ \A t \in Sessions : t # s => rx_sar_table'[t] = rx_sar_table[t]
       /\ \A t \in Sessions : rx_sar_table'[t].recvd = rx_sar_table[t].recvd
       /\ rx_sar_table'[s].app_read = p
  BY <1>3, <1>4, <1>7 DEF Entry
<1>12. freed'[s] = ReadTo[s]
  BY <1>3, <1>9, <1>10, GivenFacts
<1>13. \A t \in Sessions : ~Giving(t)'
  <2> SUFFICES ASSUME NEW t \in Sessions, Giving(t)'  PROVE FALSE
    OBVIOUS
  <2>1. app_req' # <<>> /\ app_req'[1].write
    BY DEF Giving
  <2>2. 1 \in 1 .. Len(Tail(app_req))
    BY <1>2, <1>4, <2>1
  <2> QED BY <1>2, <1>4, <2>1, <2>2
<1>14. ReadTo' = ReadTo
  <2>1. ASSUME NEW t \in Sessions  PROVE freed'[t] + Given(t)' = freed[t] + Given(t)
    <3>1. Given(t)' = 0
      BY <1>13 DEF Given
    <3>2. freed[t] \in Nat /\ freed'[t] \in Nat
      BY <1>7 DEF TInv, TRest
    <3>3. CASE t = s
      BY <1>9, <1>10, <3>1, <3>2, <3>3
    <3>4. CASE t # s
      <4>1. Given(t) = 0
        BY <1>5, <3>4 DEF Given
      <4> QED BY <1>10, <3>1, <3>2, <3>4, <4>1
    <3> QED BY <3>3, <3>4
  <2>2. ReadTo' = [t \in Sessions |-> freed'[t] + Given(t)'] /\ ReadTo = [t \in Sessions |-> freed[t] + Given(t)]
    BY DEF ReadTo
  <2> QED BY <2>1, <2>2
<1>15. Low(base[s] + freed'[s]) = p
  <2>1. rx_sar_table[s].app_read = Low(base[s] + freed[s])
    BY <1>1, <1>3, <1>6 DEF TableInv
  <2>2. PICK x \in Int : x = base[s] + freed[s]
    BY <1>3, Counters
  <2>3. Low(x + Low(p - Low(x))) = p
    BY <1>3, LowReplaced
  <2>4. base[s] + freed'[s] = x + g
    BY <1>3, <1>10, <2>2, Counters
  <2> QED BY <1>8, <1>9, <2>1, <2>2, <2>3, <2>4
<1>16. \A t \in Sessions : freed[t] <= freed'[t]
  <2> TAKE t \in Sessions
  <2>1. freed[t] \in Nat
    BY <1>7
  <2> QED BY <1>3, <1>9, <1>10, <2>1
<1> QED BY <1>2, <1>3, <1>4, <1>5, <1>6, <1>10, <1>11, <1>12, <1>13, <1>14, <1>15, <1>16

LEMMA CoreSarAppWrite ==
  ASSUME TInv, TInv', Core, SarApp, app_req[1].write
  PROVE  Core'
<1>1. UNCHANGED <<eng_req, eng_rsp, eng, store, notify, reader, echo, mem, conn, unacked, base,
                  edge, accepted, stored, announced, echoed>>
  BY DEF SarApp
<1>2. UNCHANGED <<rx_notice, rt_notice, notices, notify_reg,
                  net_notice, read_req, read_rsp, fsm, blocks, read_data, app, echo_meta, echo_data, echo_tx>>
  BY <1>1 DEF notify, reader, echo
<1>3. PICK s \in Sessions : s = app_req[1].id
  BY GiveFacts
<1>4. /\ Giving(s) /\ ~Starting(s) /\ freed'[s] = ReadTo[s]
      /\ \A t \in Sessions : t # s => freed'[t] = freed[t] /\ rx_sar_table'[t] = rx_sar_table[t]
      /\ \A t \in Sessions : freed[t] <= freed'[t]
      /\ ReadTo' = ReadTo /\ \A t \in Sessions : ~Giving(t)'
      /\ \A t \in Sessions : rx_sar_table'[t].recvd = rx_sar_table[t].recvd
      /\ rx_sar_table'[s].app_read = app_req[1].app_read
      /\ Low(base[s] + freed'[s]) = app_req[1].app_read
      /\ app_rsp' = <<>> /\ \A i \in 1 .. Len(app_req') : ~app_req'[i].write
      /\ app_req' = Tail(app_req)
  BY <1>3, GiveFacts
<1>5. Metas' = Metas /\ Taken' = Taken /\ Todo' = Todo /\ Told' = Told
  BY <1>2, SameFuns
<1>6. ChainInv'
  BY <1>1, <1>4, <1>5, ChainSame DEF Core, ChainInv
<1>7. AppInv' /\ EngInv' /\ PlaceInv'
  BY <1>1, <1>2, PartsSame DEF Core, ReadInv, RcvInv
<1>8. ByteInv'
  BY <1>1, <1>2, <1>4, <1>5, PartsSame DEF Core, ByteInv
<1>9. ReqInv'
  <2>1. app_req # <<>> /\ ReqInv
    BY DEF SarApp, Core, ReadInv
  <2>2. /\ \A i \in 1 .. Len(app_req') : app_req'[i] = app_req[i + 1] /\ i + 1 \in 1 .. Len(app_req)
        /\ Len(app_req') = Len(app_req) - 1 /\ Len(app_req) \in Nat
    BY <1>4, <2>1, AppReqFacts DEF TInv, TSar, Fifo
  <2>3. ASSUME NEW i \in 1 .. Len(app_req')
        PROVE  /\ ~app_req'[i].write /\ i = Len(app_req') /\ fsm'.state = "WAIT_SAR_RSP" /\ app_rsp' = <<>>
               /\ app_req'[i].id = app'.notice.id
    <3>1. PICK k \in 1 .. Len(app_req) : k = i + 1 /\ app_req'[i] = app_req[k]
      BY <2>2
    <3>2. k = Len(app_req) /\ fsm.state = "WAIT_SAR_RSP" /\ app_req[k].id = app.notice.id
      BY <1>4, <2>1, <3>1 DEF ReqInv
    <3> QED BY <1>2, <1>4, <2>2, <3>1, <3>2
  <2> QED BY <1>4, <2>3 DEF ReqInv
<1>10. SpaceInv'
  <2> SUFFICES ASSUME NEW t \in Sessions
               PROVE  accepted'[t] - freed'[t] <= BufMod - 1 /\ edge'[t] <= freed'[t] + BufMod - 1
    BY DEF SpaceInv
  <2>1. accepted[t] - freed[t] <= BufMod - 1 /\ edge[t] <= freed[t] + BufMod - 1
    BY DEF Core, RcvInv, SpaceInv
  <2>2. accepted[t] \in Nat /\ freed[t] \in Nat /\ freed'[t] \in Nat /\ edge[t] \in Int /\ freed[t] <= freed'[t]
    BY <1>4, Counters DEF TInv, TRest
  <2> QED BY <1>1, <2>1, <2>2, Modulus
<1>11. TableInv'
  <2>0. \A t \in Sessions : (Writing(t)' <=> Writing(t)) /\ (Starting(t)' <=> Starting(t))
    BY <1>1 DEF Writing, Starting
  <2> SUFFICES ASSUME NEW t \in Sessions
               PROVE  /\ Writing(t)' /\ (conn'[t] = "OPEN" \/ Starting(t)')
                           => eng_req'[1].recvd = SeqNo(base'[t] + accepted'[t])
                      /\ Starting(t)' => echoed'[t] = accepted'[t] /\ ~Giving(t)'
                      /\ ~Starting(t)' => /\ rx_sar_table'[t].app_read = Low(base'[t] + freed'[t])
                                          /\ conn'[t] = "OPEN" => \E r \in Nat : Entered(t, r)'
    BY DEF TableInv
  <2>1. /\ Writing(t) /\ (conn[t] = "OPEN" \/ Starting(t))
             => eng_req[1].recvd = SeqNo(base[t] + accepted[t])
        /\ Starting(t) => echoed[t] = accepted[t]
        /\ ~Starting(t) => /\ rx_sar_table[t].app_read = Low(base[t] + freed[t])
                           /\ conn[t] = "OPEN" => \E r \in Nat : Entered(t, r)
    BY DEF Core, RcvInv, TableInv
  <2>2. \A r \in Nat : Entered(t, r) => Entered(t, r)'
    BY <1>1, <1>4, <2>0 DEF Entered
  <2>3. ~Starting(t) => rx_sar_table'[t].app_read = Low(base'[t] + freed'[t])
    BY <1>1, <1>4, <2>1
  <2> QED BY <1>1, <1>4, <2>0, <2>1, <2>2, <2>3
<1>12. SegInv'
  <2> SUFFICES ASSUME eng' # Nothing
               PROVE  /\ accepted'[eng'.id] - 1 <= eng'.at /\ eng'.at <= accepted'[eng'.id] + 1
                      /\ eng'.fits => eng'.at + eng'.len <= freed'[eng'.id] + BufMod - 1
                      /\ eng_rsp' # <<>> /\ conn'[eng'.id] = "OPEN" => \E f \in Nat : Judged(eng_rsp[1], f)'
    BY DEF SegInv
  <2>1. /\ accepted[eng.id] - 1 <= eng.at /\ eng.at <= accepted[eng.id] + 1
        /\ eng.fits => eng.at + eng.len <= freed[eng.id] + BufMod - 1
        /\ eng_rsp # <<>> /\ conn[eng.id] = "OPEN" => \E f \in Nat : Judged(eng_rsp[1], f)
    BY <1>1 DEF Core, RcvInv, SegInv
  <2>2. eng.id \in Sessions /\ eng.at \in Nat /\ eng.len \in Nat
    BY <1>1, RecordFacts DEF TInv, TEng
  <2>3. freed[eng.id] <= freed'[eng.id] /\ freed[eng.id] \in Nat /\ freed'[eng.id] \in Nat
    BY <1>4, <2>2 DEF TInv, TRest
  <2>4. \A f \in Nat : Judged(eng_rsp[1], f) => Judged(eng_rsp[1], f)'
    BY <1>1, <2>3 DEF Judged
  <2> QED BY <1>1, <2>1, <2>2, <2>3, <2>4, Modulus
<1> QED BY <1>6, <1>7, <1>8, <1>9, <1>10, <1>11, <1>12 DEF Core, ReadInv, RcvInv

LEMMA CoreSarAppRead ==
  ASSUME TInv, TInv', Core, SarApp, ~app_req[1].write
  PROVE  Core'
<1>1. UNCHANGED <<eng_req, eng_rsp, eng, store, notify, reader, echo, mem, conn, unacked, base,
                  edge, accepted, stored, announced, echoed>>
  BY DEF SarApp
<1>2. UNCHANGED <<rx_notice, rt_notice, notices, notify_reg,
                  net_notice, read_req, read_rsp, fsm, blocks, read_data, app, echo_meta, echo_data, echo_tx>>
  BY <1>1 DEF notify, reader, echo
<1>3. /\ app_req # <<>> /\ Head(app_req) = app_req[1] /\ 1 \in 1 .. Len(app_req)
      /\ Tail(app_req) = <<>> /\ app_rsp = <<>>
  <2>1. app_req # <<>> /\ ReqInv
    BY DEF SarApp, Core, ReadInv
  <2> QED BY <2>1, AppReqFacts
<1>4. /\ app_req' = <<>> /\ UNCHANGED <<rx_sar_table, freed>>
      /\ app_rsp' = Append(<<>>, [id |-> app_req[1].id, app_read |-> rx_sar_table[app_req[1].id].app_read])
  BY <1>3 DEF SarApp
<1>5. \A t \in Sessions : ~Giving(t) /\ ~Giving(t)'
  BY <1>4 DEF Giving
<1>6. ReadTo' = ReadTo
  BY <1>4, <1>5 DEF ReadTo, Given
<1>7. Metas' = Metas /\ Taken' = Taken /\ Todo' = Todo /\ Told' = Told
  BY <1>2, SameFuns
<1>8. ChainInv'
  BY <1>1, <1>6, <1>7, ChainSame DEF Core, ChainInv
<1>9. AppInv' /\ EngInv' /\ PlaceInv' /\ SpaceInv' /\ SegInv'
  BY <1>1, <1>2, <1>4, PartsSame DEF Core, ReadInv, RcvInv
<1>10. ByteInv'
  BY <1>1, <1>2, <1>6, <1>7, PartsSame DEF Core, ByteInv
<1>11. ReqInv'
  <2>1. fsm.state = "WAIT_SAR_RSP" /\ app_req[1].id = app.notice.id
    BY <1>3 DEF Core, ReadInv, ReqInv
  <2>2. /\ Len(app_rsp') = 1 /\ app_rsp'[1].id = app_req[1].id
        /\ app_rsp'[1].app_read = rx_sar_table[app_req[1].id].app_read
    BY <1>4
  <2> QED BY <1>2, <1>4, <2>1, <2>2 DEF ReqInv
<1>12. TableInv'
  <2>1. \A t \in Sessions : (Writing(t)' <=> Writing(t)) /\ (Starting(t)' <=> Starting(t))
    BY <1>1 DEF Writing, Starting
  <2>2. \A t \in Sessions, r \in Nat : Entered(t, r)' <=> Entered(t, r)
    BY <1>1, <1>4, <2>1 DEF Entered
  <2> QED BY <1>1, <1>4, <1>5, <2>1, <2>2 DEF Core, RcvInv, TableInv
<1> QED BY <1>8, <1>9, <1>10, <1>11, <1>12 DEF Core, ReadInv, RcvInv

\* The accesses of the rx engine, behind the one that is served.
LEMMA EngReqFacts ==
  ASSUME TInv, EngInv, eng_req # <<>>
  PROVE  /\ eng_req[1] \in EngReqs /\ Head(eng_req) = eng_req[1] /\ 1 \in 1 .. Len(eng_req)
         /\ Tail(eng_req) \in Seq(EngReqs)
         /\ \A i \in 1 .. Len(Tail(eng_req)) : Tail(eng_req)[i] = eng_req[i + 1] /\ i + 1 \in 1 .. Len(eng_req)
         /\ \A i \in 1 .. Len(Tail(eng_req)) : ~Tail(eng_req)[i].write
         /\ Len(Tail(eng_req)) = Len(eng_req) - 1 /\ Len(eng_req) \in Nat
         /\ ~eng_req[1].write => Tail(eng_req) = <<>> /\ Len(eng_req) = 1
         /\ eng_rsp = <<>>
<1>1. eng_req \in Seq(EngReqs)
  BY DEF TInv, TSar, Fifo
<1>2. /\ Head(eng_req) \in EngReqs /\ Head(eng_req) = eng_req[1] /\ Tail(eng_req) \in Seq(EngReqs)
      /\ Len(eng_req) \in Nat /\ Len(eng_req) >= 1 /\ Len(Tail(eng_req)) = Len(eng_req) - 1
      /\ \A i \in 1 .. Len(eng_req) - 1 : Tail(eng_req)[i] = eng_req[i + 1]
  BY <1>1, Popped
<1>3. \A i \in 1 .. Len(Tail(eng_req)) : Tail(eng_req)[i] = eng_req[i + 1] /\ i + 1 \in 1 .. Len(eng_req) /\ i + 1 # 1
  BY <1>2
<1>4. \A i \in 1 .. Len(eng_req) : (eng_req[i].write => i = 1) /\ (~eng_req[i].write => i = Len(eng_req))
  BY DEF EngInv
<1>5. 1 \in 1 .. Len(eng_req)
  BY <1>2
<1>6. ASSUME ~eng_req[1].write  PROVE Tail(eng_req) = <<>> /\ Len(eng_req) = 1
  <2>1. 1 = Len(eng_req)
    BY <1>4, <1>5, <1>6
  <2> QED BY <1>1, <2>1, OneLeft
<1>7. \A i \in 1 .. Len(Tail(eng_req)) : ~Tail(eng_req)[i].write
  BY <1>3, <1>4
<1>8. eng_rsp = <<>>
  BY DEF EngInv
<1> QED BY <1>2, <1>3, <1>5, <1>6, <1>7, <1>8

LEMMA CoreSarEngWrite ==
  ASSUME TInv, TInv', Core, SarEng, eng_req[1].write
  PROVE  Core'
<1> DEFINE r == eng_req[1]
           s == eng_req[1].id
<1>1. UNCHANGED <<app_req, app_rsp, eng, store, notify, reader, echo, mem, conn, unacked, base, edge, accepted,
                  stored, announced, freed, echoed>> /\ app_req = <<>> /\ eng_req # <<>>
  BY DEF SarEng, history
<1>2. UNCHANGED <<rx_notice, rt_notice, notices, notify_reg,
                  net_notice, read_req, read_rsp, fsm, blocks, read_data, app, echo_meta, echo_data, echo_tx>>
  BY <1>1 DEF notify, reader, echo
<1>3. EngInv /\ TableInv /\ OrderInv /\ ReqInv /\ AppInv /\ TodoInv /\ SegInv
  BY DEF Core, ChainInv, ReadInv, RcvInv
<1>4. /\ r \in EngReqs /\ Head(eng_req) = r /\ 1 \in 1 .. Len(eng_req) /\ Tail(eng_req) \in Seq(EngReqs)
      /\ \A i \in 1 .. Len(Tail(eng_req)) : Tail(eng_req)[i] = eng_req[i + 1] /\ i + 1 \in 1 .. Len(eng_req)
      /\ \A i \in 1 .. Len(Tail(eng_req)) : ~Tail(eng_req)[i].write
      /\ Len(Tail(eng_req)) = Len(eng_req) - 1 /\ Len(eng_req) \in Nat /\ eng_rsp = <<>>
  BY <1>1, <1>3, EngReqFacts
<1>5. s \in Sessions /\ r.recvd \in Seqs /\ r.init \in BOOLEAN
  BY <1>4, RecordFacts
<1>6. /\ rx_sar_table' = [rx_sar_table EXCEPT ![s] = Written(@, r)] /\ eng_rsp' = <<>> /\ eng_req' = Tail(eng_req)
  BY <1>4 DEF SarEng
<1>7. /\ \A t \in Sessions : t # s => rx_sar_table'[t] = rx_sar_table[t]
      /\ rx_sar_table'[s] = Written(rx_sar_table[s], r)
  BY <1>5, <1>6 DEF TInv, TSar
<1>8. \A t \in Sessions : ~Writing(t)' /\ ~Starting(t)' /\ ~Giving(t) /\ ~Giving(t)' /\ (Writing(t) <=> t = s)
  <2> TAKE t \in Sessions
  <2>1. ASSUME Writing(t)'  PROVE FALSE
    <3>1. eng_req' # <<>> /\ eng_req'[1].write
      BY <2>1 DEF Writing
    <3>2. 1 \in 1 .. Len(Tail(eng_req))
      BY <1>4, <1>6, <3>1
    <3> QED BY <1>4, <1>6, <3>1, <3>2
  <2>2. ~Giving(t) /\ ~Giving(t)'
    BY <1>1 DEF Giving
  <2>3. Writing(t) <=> t = s
    BY <1>1 DEF Writing
  <2> QED BY <2>1, <2>2, <2>3 DEF Starting
<1>9. ReadTo' = ReadTo
  BY <1>1, <1>8 DEF ReadTo, Given
<1>10. Metas' = Metas /\ Taken' = Taken /\ Todo' = Todo /\ Told' = Told
  BY <1>2, SameFuns
<1>11. ChainInv'
  BY <1>1, <1>9, <1>10, ChainSame DEF Core, ChainInv
<1>12. AppInv' /\ PlaceInv' /\ SpaceInv'
  BY <1>1, <1>2, PartsSame DEF Core, ReadInv, RcvInv
<1>13. ByteInv'
  BY <1>1, <1>2, <1>9, <1>10, PartsSame DEF Core, ByteInv
<1>14. /\ conn[s] = "OPEN" \/ r.init => r.recvd = SeqNo(base[s] + accepted[s])
       /\ (r.init => Starting(s)) /\ (~r.init => ~Starting(s))
  BY <1>1, <1>3, <1>5, <1>8 DEF TableInv, Starting
<1>15. rx_sar_table'[s].recvd = r.recvd
  BY <1>5, <1>7 DEF Written, TInv, TSar, Entry
<1>16. TableInv'
  <2> SUFFICES ASSUME NEW t \in Sessions
               PROVE  /\ rx_sar_table'[t].app_read = Low(base'[t] + freed'[t])
                      /\ conn'[t] = "OPEN" => \E x \in Nat : Entered(t, x)'
    BY <1>8 DEF TableInv
  <2>1. CASE t # s
    <3>1. ~Writing(t) /\ ~Starting(t)
      BY <1>8, <2>1 DEF Starting
    <3>2. /\ rx_sar_table[t].app_read = Low(base[t] + freed[t])
          /\ conn[t] = "OPEN" => \E x \in Nat : Entered(t, x)
      BY <1>3, <3>1 DEF TableInv
    <3>3. \A x \in Nat : Entered(t, x) => Entered(t, x)'
      BY <1>1, <1>7, <1>8, <2>1, <3>1 DEF Entered
    <3> QED BY <1>1, <1>7, <2>1, <3>2, <3>3
  <2>2. CASE t = s
    <3>1. ASSUME conn[t] = "OPEN"  PROVE Entered(t, accepted[t])'
      <4>1. stored[s] <= accepted[s] /\ accepted[s] \in Nat
        BY <1>3, <1>5, Counters DEF OrderInv
      <4> QED BY <1>1, <1>14, <1>15, <2>2, <3>1, <4>1 DEF Entered
    <3>2. rx_sar_table'[s].app_read = Low(base[s] + freed[s])
      <4>1. CASE r.init
        <5>1. freed[s] = accepted[s]
          BY <1>3, <1>5, <1>14, <4>1, StartFacts
        <5>2. rx_sar_table'[s].app_read = Low(SeqNo(base[s] + freed[s]))
          BY <1>7, <1>14, <4>1, <5>1 DEF Written
        <5>3. base[s] + freed[s] \in Int
          BY <1>5, Counters
        <5> QED BY <5>2, <5>3, SeqStep, Modulus
      <4>2. CASE ~r.init
        <5>1. rx_sar_table'[s].app_read = rx_sar_table[s].app_read
          BY <1>5, <1>7, <4>2 DEF Written, TInv, TSar, Entry
        <5> QED BY <1>3, <1>5, <1>14, <4>2, <5>1 DEF TableInv
      <4> QED BY <1>5, <4>1, <4>2
    <3>3. accepted[t] \in Nat
      BY Counters
    <3> QED BY <1>1, <2>2, <3>1, <3>2, <3>3
  <2> QED BY <2>1, <2>2
<1>17. EngInv'
  <2>1. ASSUME NEW i \in 1 .. Len(eng_req')
        PROVE  /\ ~eng_req'[i].write /\ i = Len(eng_req') /\ eng' # Nothing /\ eng_req'[i].id = eng'.id
               /\ eng_rsp' = <<>>
    <3>1. PICK k \in 1 .. Len(eng_req) : k = i + 1 /\ eng_req'[i] = eng_req[k]
      BY <1>4, <1>6
    <3>2. ~eng_req[k].write
      BY <1>4, <1>6, <3>1
    <3>3. k = Len(eng_req) /\ eng # Nothing /\ eng_req[k].id = eng.id
      BY <1>3, <3>2 DEF EngInv
    <3>4. i = Len(eng_req')
      <4>1. Len(eng_req') = Len(eng_req) - 1 /\ Len(eng_req) \in Nat /\ i \in Nat
        BY <1>4, <1>6
      <4> QED BY <3>1, <3>3, <4>1
    <3> QED BY <1>1, <1>6, <3>1, <3>2, <3>3, <3>4
  <2>2. ASSUME eng' # Nothing  PROVE \E i \in 1 .. Len(eng_req') : ~eng_req'[i].write
    <3>1. PICK k \in 1 .. Len(eng_req) : ~eng_req[k].write
      BY <1>1, <1>3, <1>4, <2>2 DEF EngInv
    <3>2. k # 1
      BY <3>1
    <3>3. k - 1 \in 1 .. Len(eng_req') /\ (k - 1) + 1 = k
      BY <1>4, <1>6, <3>2
    <3>4. eng_req'[k - 1] = eng_req[k]
      BY <1>4, <1>6, <3>3
    <3> QED BY <3>1, <3>3, <3>4
  <2> QED BY <1>6, <2>1, <2>2 DEF EngInv
<1>18. SegInv'
  BY <1>1, <1>3, <1>6 DEF SegInv
<1>19. ReqInv'
  <2>1. ASSUME app_rsp # <<>>  PROVE rx_sar_table'[app.notice.id].app_read = rx_sar_table[app.notice.id].app_read
    <3>1. fsm.state = "WAIT_SAR_RSP"
      BY <1>3, <2>1 DEF ReqInv
    <3>2. Asking
      BY <1>3, <3>1 DEF AppInv
    <3>3. app.notice \in DataNotices
      BY <3>2, States DEF Asking
    <3>4. app.notice.id \in Sessions /\ app.notice.len >= 1 /\ app.notice.len \in Nat /\ app.notice \in Notices
      BY <3>3, RecordFacts
    <3>5. CASE app.notice.id = s
      <4>1. CASE Starting(s)
        <5>1. ReadTo[s] = announced[s]
          BY <1>3, <1>5, <4>1, StartFacts
        <5>2. Todo \in Seq(Notices) /\ 1 \in 1 .. Len(Todo) /\ Todo[1] = app.notice
          BY <3>2, <3>4, ChainTypes, CatOne DEF Todo
        <5>3. Linked(Todo, ReadTo, announced) /\ ReadTo \in Counts /\ announced \in Counts
          BY <1>3, GivenFacts, Counters DEF TodoInv
        <5>4. Todo[1].len = 0
          BY <3>5, <5>1, <5>2, <5>3, LinkFacts, LinkedNone
        <5> QED BY <3>4, <5>2, <5>4
      <4>2. CASE ~Starting(s)
        BY <1>5, <1>7, <1>14, <3>5, <4>2 DEF Written, TInv, TSar, Entry
      <4> QED BY <4>1, <4>2
    <3>6. CASE app.notice.id # s
      BY <1>7, <3>4, <3>6
    <3> QED BY <3>5, <3>6
  <2> QED BY <1>1, <1>2, <1>3, <2>1 DEF ReqInv
<1> QED BY <1>11, <1>12, <1>13, <1>16, <1>17, <1>18, <1>19 DEF Core, ReadInv, RcvInv

LEMMA CoreSarEngRead ==
  ASSUME TInv, TInv', Core, SarEng, ~eng_req[1].write
  PROVE  Core'
<1>1. UNCHANGED <<app_req, app_rsp, eng, store, notify, reader, echo, mem, conn, unacked, base, edge, accepted,
                  stored, announced, freed, echoed>> /\ app_req = <<>> /\ eng_req # <<>>
  BY DEF SarEng, history
<1>2. UNCHANGED <<rx_notice, rt_notice, notices, notify_reg,
                  net_notice, read_req, read_rsp, fsm, blocks, read_data, app, echo_meta, echo_data, echo_tx>>
  BY <1>1 DEF notify, reader, echo
<1>3. EngInv /\ TableInv /\ OrderInv /\ SegInv /\ SpaceInv
  BY DEF Core, ChainInv, RcvInv
<1>4. /\ eng_req[1] \in EngReqs /\ Head(eng_req) = eng_req[1] /\ 1 \in 1 .. Len(eng_req)
      /\ Tail(eng_req) = <<>> /\ Len(eng_req) = 1 /\ eng_rsp = <<>>
  BY <1>1, <1>3, EngReqFacts
<1>5. PICK s \in Sessions : s = eng_req[1].id /\ s = eng.id /\ eng # Nothing
  BY <1>3, <1>4, RecordFacts DEF EngInv
<1>6. eng_rsp' = Append(<<>>, rx_sar_table[s]) /\ eng_req' = <<>> /\ UNCHANGED rx_sar_table
  BY <1>4, <1>5 DEF SarEng
<1>7. \A t \in Sessions : ~Writing(t) /\ ~Writing(t)' /\ ~Starting(t) /\ ~Starting(t)'
  BY <1>6 DEF Writing, Starting
<1>8. ReadTo' = ReadTo /\ Metas' = Metas /\ Taken' = Taken /\ Todo' = Todo /\ Told' = Told
  BY <1>1, <1>2, <1>6, SameFuns
<1>9. ChainInv'
  BY <1>1, <1>8, ChainSame DEF Core, ChainInv
<1>10. AppInv' /\ ReqInv' /\ PlaceInv' /\ SpaceInv'
  BY <1>1, <1>2, <1>6, PartsSame DEF Core, ReadInv, RcvInv
<1>11. ByteInv'
  BY <1>1, <1>2, <1>8, PartsSame DEF Core, ByteInv
<1>12. Len(eng_rsp') = 1 /\ eng_rsp'[1] = rx_sar_table[s] /\ eng_rsp' # <<>>
  BY <1>6
<1>13. EngInv'
  BY <1>1, <1>5, <1>6, <1>12 DEF EngInv
<1>14. TableInv'
  <2>1. \A t \in Sessions, r \in Nat : Entered(t, r) => Entered(t, r)'
    BY <1>1, <1>6, <1>7 DEF Entered
  <2> QED BY <1>1, <1>3, <1>6, <1>7, <2>1 DEF TableInv
<1>15. ASSUME conn[s] = "OPEN"  PROVE \E f \in Nat : Judged(eng_rsp[1], f)'
  <2>1. PICK r \in Nat : Entered(s, r)
    BY <1>3, <1>5, <1>7, <1>15 DEF TableInv
  <2>2. rx_sar_table[s].recvd = SeqNo(base[s] + accepted[s]) /\ rx_sar_table[s].app_read = Low(base[s] + freed[s])
    BY <1>3, <1>5, <1>7, <2>1 DEF TableInv, Entered
  <2>3. freed[s] \in Nat /\ accepted[s] - freed[s] <= BufMod - 1
    BY <1>3, <1>5, Counters DEF SpaceInv
  <2>4. eng.fits => eng.at + eng.len <= freed[s] + BufMod - 1
    BY <1>3, <1>5 DEF SegInv
  <2>5. PICK f \in Nat : f = freed[s]
    BY <2>3
  <2>6. Judged(eng_rsp[1], f)'
    BY <1>1, <1>5, <1>12, <2>2, <2>3, <2>4, <2>5 DEF Judged
  <2> QED BY <2>6
<1>16. SegInv'
  BY <1>1, <1>3, <1>5, <1>15 DEF SegInv
<1> QED BY <1>9, <1>10, <1>11, <1>13, <1>14, <1>16 DEF Core, ReadInv, RcvInv

-----------------------------------------------------------------------------
(* The steps of the rx engine.                                               *)

\* A segment is taken from the IP handler, for data, a FIN or an acknowledgement.
LEMMA CoreLoads ==
  ASSUME TInv, TInv', Core, NEW s \in Sessions, NEW at \in Int, NEW n \in Nat, NEW fits \in BOOLEAN,
         accepted[s] - 1 <= at, at <= accepted[s] + 1, fits => at + n <= edge[s],
         eng = Nothing, eng_req' = Append(eng_req, Read(s)), eng' # Nothing,
         eng'.id = s, eng'.at = at, eng'.len = n, eng'.fits = fits,
         UNCHANGED <<rx_sar_table, app_req, app_rsp, eng_rsp, store, notify, reader, echo,
                     mem, conn, unacked, base, edge, accepted, stored, announced, freed, echoed>>
  PROVE  Core'
<1>2. /\ eng = Nothing /\ eng_req' = Append(eng_req, Read(s))
      /\ UNCHANGED <<rx_sar_table, app_req, app_rsp, eng_rsp, store, notify, reader, echo,
                     mem, conn, unacked, base, edge, accepted, stored, announced, freed, echoed>>
  OBVIOUS
<1>3. UNCHANGED <<rx_notice, rt_notice, notices, notify_reg,
                  net_notice, read_req, read_rsp, fsm, blocks, read_data, app, echo_meta, echo_data, echo_tx>>
  BY <1>2 DEF notify, reader, echo
<1>4. EngInv /\ TableInv /\ SpaceInv
  BY DEF Core, RcvInv
<1>5. /\ eng_req \in Seq(EngReqs) /\ Read(s) \in EngReqs
      /\ Read(s).id = s /\ Read(s).write = FALSE
  BY DEF TInv, TSar, Fifo, Read, EngReqs, ReadReqs
<1>6. PICK rd : rd = Read(s)
  OBVIOUS
<1>7. /\ Len(eng_req) \in Nat /\ Len(eng_req') = Len(eng_req) + 1 /\ eng_req'[Len(eng_req) + 1] = rd
      /\ eng_req' # <<>> /\ \A i \in 1 .. Len(eng_req) : eng_req'[i] = eng_req[i]
  BY <1>2, <1>5, <1>6, Puts
<1>8. eng_rsp = <<>> /\ \A i \in 1 .. Len(eng_req) : eng_req[i].write /\ i = 1
  BY <1>2, <1>4 DEF EngInv
<1>9. (eng_req # <<>> => Len(eng_req) >= 1) /\ (eng_req = <<>> => Len(eng_req) = 0)
  BY <1>5
<1>10. /\ eng_req # <<>> => eng_req'[1] = eng_req[1]
       /\ eng_req = <<>> => ~eng_req'[1].write
  BY <1>5, <1>6, <1>7, <1>9
<1>11. \A t \in Sessions : (Writing(t)' <=> Writing(t)) /\ (Starting(t)' <=> Starting(t))
  BY <1>7, <1>10 DEF Writing, Starting
<1>12. ReadTo' = ReadTo /\ Metas' = Metas /\ Taken' = Taken /\ Todo' = Todo /\ Told' = Told
  BY <1>2, <1>3, SameFuns
<1>13. ChainInv'
  BY <1>2, <1>12, ChainSame DEF Core, ChainInv
<1>14. AppInv' /\ ReqInv' /\ PlaceInv' /\ SpaceInv'
  BY <1>2, <1>3, PartsSame DEF Core, ReadInv, RcvInv
<1>15. ByteInv'
  BY <1>2, <1>3, <1>12, PartsSame DEF Core, ByteInv
<1>16. eng' # Nothing /\ eng'.id = s /\ eng'.at = at /\ eng'.len = n /\ eng'.fits = fits
  OBVIOUS
<1>17. EngInv'
  <2>1. ASSUME NEW i \in 1 .. Len(eng_req')
        PROVE  /\ eng_req'[i].write => i = 1
               /\ ~eng_req'[i].write => i = Len(eng_req') /\ eng_req'[i].id = s
    <3>1. CASE i \in 1 .. Len(eng_req)
      BY <1>7, <1>8, <3>1
    <3>2. CASE i = Len(eng_req) + 1
      <4>1. eng_req'[i] = rd /\ i = Len(eng_req')
        BY <1>7, <3>2
      <4> QED BY <1>5, <1>6, <4>1
    <3> QED BY <1>7, <3>1, <3>2
  <2>2. \E i \in 1 .. Len(eng_req') : ~eng_req'[i].write
    <3>1. Len(eng_req) + 1 \in 1 .. Len(eng_req')
      BY <1>7
    <3> QED BY <1>5, <1>6, <1>7, <3>1
  <2> QED BY <1>2, <1>8, <1>16, <2>1, <2>2 DEF EngInv
<1>18. TableInv'
  <2>1. \A t \in Sessions, r \in Nat : Entered(t, r) => Entered(t, r)'
    BY <1>2, <1>11 DEF Entered
  <2>2. \A t \in Sessions : Giving(t)' <=> Giving(t)
    BY <1>2 DEF Giving
  <2>3. \A t \in Sessions : Writing(t) => eng_req'[1] = eng_req[1]
    BY <1>10 DEF Writing
  <2> QED BY <1>2, <1>4, <1>11, <2>1, <2>2, <2>3 DEF TableInv
<1>19. SegInv'
  <2>1. edge[s] <= freed[s] + BufMod - 1 /\ edge[s] \in Int /\ freed[s] \in Nat
    BY <1>4, Counters DEF SpaceInv
  <2>2. fits => at + n <= freed[s] + BufMod - 1
    BY <2>1, Modulus
  <2> QED BY <1>2, <1>8, <1>16, <2>2 DEF SegInv
<1> QED BY <1>13, <1>14, <1>15, <1>17, <1>18, <1>19 DEF Core, ReadInv, RcvInv

LEMMA CoreLoad ==
  ASSUME TInv, TInv', Core, NEW s \in Sessions, NEW n \in SegLengths \cup {0}, NEW d \in -1 .. 1,
         NEW fin \in BOOLEAN, Load(s, accepted[s] + d, n, fin)
  PROVE  Core'
<1>1. PICK at \in Int : at = accepted[s] + d /\ accepted[s] - 1 <= at /\ at <= accepted[s] + 1
  BY Counters
<1>2. n \in Nat /\ Load(s, at, n, fin)
  BY <1>1, RcvLengthsAssumption, Modulus
<1>3. /\ eng = Nothing /\ eng_req' = Append(eng_req, Read(s))
      /\ eng' = [id |-> s, at |-> at, len |-> n, fin |-> fin, fits |-> at + n <= edge[s], acks |-> 0]
      /\ UNCHANGED <<rx_sar_table, app_req, app_rsp, eng_rsp, store, notify, reader, echo,
                     mem, conn, unacked, base, edge, accepted, stored, announced, freed, echoed>>
  BY <1>2 DEF Load, history
<1>4. eng' # Nothing
  <2>1. "id" \in DOMAIN eng' /\ "id" \notin DOMAIN Nothing
    BY <1>3 DEF Nothing
  <2> QED BY <2>1
<1>5. PICK fits \in BOOLEAN : eng'.fits = fits
  BY <1>4 DEF TInv, TEng, Segments
<1>6. eng'.id = s /\ eng'.at = at /\ eng'.len = n /\ (eng'.fits <=> at + n <= edge[s])
  BY <1>3
<1>7. fits => at + n <= edge[s]
  BY <1>5, <1>6
<1> QED BY <1>1, <1>2, <1>3, <1>4, <1>5, <1>6, <1>7, CoreLoads

LEMMA CoreLoadAck ==
  ASSUME TInv, TInv', Core, NEW s \in Sessions, LoadAck(s)
  PROVE  Core'
<1>1. PICK at \in Nat : at = accepted[s] /\ accepted[s] - 1 <= at /\ at <= accepted[s] + 1
  BY Counters
<1>2. /\ eng = Nothing /\ eng_req' = Append(eng_req, Read(s))
      /\ eng' = [id |-> s, at |-> at, len |-> 0, fin |-> FALSE, fits |-> FALSE, acks |-> unacked[s]]
      /\ UNCHANGED <<rx_sar_table, app_req, app_rsp, eng_rsp, store, notify, reader, echo,
                     mem, conn, unacked, base, edge, accepted, stored, announced, freed, echoed>>
  BY <1>1 DEF LoadAck, history
<1>4. eng'.id = s /\ eng'.at = at /\ eng'.len = 0 /\ eng'.fits = FALSE /\ at \in Int /\ 0 \in Nat
  BY <1>2
<1>5. eng' # Nothing
  <2>1. "id" \in DOMAIN eng' /\ "id" \notin DOMAIN Nothing
    BY <1>2 DEF Nothing
  <2> QED BY <2>1
<1> QED BY <1>1, <1>2, <1>4, <1>5, CoreLoads

\* What the entry says about a segment: whether it is in order, and of the room.
LEMMA AcceptFacts ==
  ASSUME TInv, Core, eng # Nothing, eng_rsp # <<>>, conn[eng.id] = "OPEN"
  PROVE  LET s == eng.id
             e == Head(eng_rsp)
             seq == SeqNo(base[s] + eng.at) IN
         /\ e = eng_rsp[1] /\ FreeSpace(e) \in Int
         /\ seq = e.recvd => eng.at = accepted[s] /\ seq = SeqNo(base[s] + accepted[s])
         /\ eng.at = accepted[s] => seq = e.recvd
         /\ FreeSpace(e) >= eng.len => accepted[s] + eng.len - freed[s] <= BufMod - 1
         /\ eng.fits /\ eng.at = accepted[s] => FreeSpace(e) >= eng.len
<1> DEFINE e == Head(eng_rsp)
<1>1. eng \in Segments /\ eng.id \in Sessions /\ eng.at \in Nat /\ eng.len \in Nat
  BY RecordFacts DEF TInv, TEng
<1>2. e = eng_rsp[1]
  BY Popped DEF TInv, TSar
<1>3. PICK f \in Nat : Judged(eng_rsp[1], f)
  BY DEF Core, RcvInv, SegInv
<1>4. PICK s \in Sessions, b \in Nat, a \in Nat, g \in Nat, at \in Nat, l \in Nat :
        s = eng.id /\ b = base[s] /\ a = accepted[s] /\ g = freed[s] /\ at = eng.at /\ l = eng.len
  BY <1>1, Counters
<1>5. /\ e.recvd = SeqNo(b + a) /\ e.app_read = Low(b + f) /\ f <= g /\ a - f <= BufMod - 1
      /\ eng.fits => at + l <= f + BufMod - 1
  BY <1>2, <1>3, <1>4 DEF Judged
<1>6. a - 1 <= at /\ at <= a + 1
  BY <1>4 DEF Core, RcvInv, SegInv
<1>7. g <= a
  <2>1. freed[s] <= ReadTo[s] /\ ReadTo[s] <= announced[s] /\ announced[s] <= stored[s] /\ stored[s] <= accepted[s]
        /\ ReadTo[s] \in Nat /\ announced[s] \in Nat /\ stored[s] \in Nat
    BY Stages, GivenFacts, Counters DEF Core, ChainInv
  <2>2. PICK x \in Nat, y \in Nat, z \in Nat : g <= x /\ x <= y /\ y <= z /\ z <= a
    BY <1>4, <2>1
  <2> QED BY <2>2
<1>8. FreeSpace(e) = f - a + BufMod - 1
  <2>1. f <= a
    BY <1>5, <1>7
  <2>0. b \in Int /\ a \in Int /\ f \in Int /\ a - f <= BufMod - 1
    BY <1>5
  <2>2. Low(Low(b + f) - SeqNo(b + a) - 1) = f - a + BufMod - 1
    BY <2>0, <2>1, SpaceFacts
  <2> QED BY <1>5, <2>2 DEF FreeSpace
<1>9. ASSUME SeqNo(b + at) = e.recvd
      PROVE  at = a /\ SeqNo(b + at) = SeqNo(b + a)
  <2>1. SeqNo(b + at) = SeqNo(b + a)
    BY <1>5, <1>9
  <2>3. b \in Int /\ at \in Int /\ a \in Int /\ at - a <= 1 /\ a - at <= 1
    BY <1>6
  <2>2. at = a
    BY ONLY <2>1, <2>3, SeqApart
  <2> QED BY <2>1, <2>2
<1>10. at = a => SeqNo(b + at) = e.recvd
  BY <1>5
<1>11. PICK m \in Nat : m = BufMod
  BY Modulus
<1>12. f - a + m - 1 >= l => a + l - g <= m - 1
  BY <1>5
<1>13. ASSUME eng.fits, at = a  PROVE f - a + m - 1 >= l
  BY <1>5, <1>11, <1>13
<1>14. FreeSpace(e) = f - a + m - 1 /\ f - a + m - 1 \in Int
  BY <1>8, <1>11
<1> QED BY <1>2, <1>4, <1>9, <1>10, <1>11, <1>12, <1>13, <1>14

\* What is taken without a deviation has the room.
LEMMA TakenRoom ==
  ASSUME TInv, Core, Transition, Healthy', Takes(eng, Head(eng_rsp), SeqNo(base[eng.id] + eng.at))
  PROVE  FreeSpace(Head(eng_rsp)) >= eng.len
<1>1. eng # Nothing /\ eng_rsp # <<>> /\ conn[eng.id] = "OPEN"
  BY DEF Transition, Takes
<1>2. PICK room \in Int : room = FreeSpace(Head(eng_rsp))
  BY <1>1, AcceptFacts
<1>3. PICK l \in Nat : l = eng.len
  BY <1>1, RecordFacts DEF TInv, TEng
<1>4. CASE eng.fin
  <2>1. ~(room < l)
    BY <1>2, <1>3, <1>4 DEF Transition, Deviate, Healthy
  <2> QED BY <1>2, <1>3, <2>1
<1>5. CASE ~eng.fin
  BY <1>2, <1>3, <1>5 DEF Takes, Accepts
<1> QED BY <1>4, <1>5

LEMMA CoreTransition ==
  ASSUME TInv, TInv', Core, Transition, Healthy'
  PROVE  Core'
<1>1. /\ eng # Nothing /\ eng_rsp # <<>> /\ eng' = Nothing /\ eng_rsp' = Tail(eng_rsp)
      /\ UNCHANGED <<rx_sar_table, app_req, app_rsp, notify, reader, echo, mem, base,
                     edge, stored, announced, freed, echoed>>
  BY DEF Transition
<1>2. UNCHANGED <<rx_notice, rt_notice, notices, notify_reg,
                  net_notice, read_req, read_rsp, fsm, blocks, read_data, app, echo_meta, echo_data, echo_tx>>
  BY <1>1 DEF notify, reader, echo
<1>3. EngInv /\ TableInv /\ SpaceInv /\ OrderInv /\ KeptInv /\ PlaceInv
  BY DEF Core, ChainInv, RcvInv
<1>4. eng_req = <<>> /\ eng_rsp' = <<>>
  <2>1. Len(eng_rsp) = 1 /\ eng_req = <<>> /\ eng_rsp \in Seq(Entry)
    BY <1>1, <1>3 DEF EngInv, TInv, TSar
  <2> QED BY <1>1, <2>1, OneLeft
<1>5. \A t \in Sessions : ~Writing(t) /\ ~Starting(t)
  BY <1>4 DEF Writing, Starting
<1>6. ReadTo' = ReadTo /\ Metas' = Metas /\ Taken' = Taken /\ Todo' = Todo /\ Told' = Told
  BY <1>1, <1>2, SameFuns
<1>7. TakenInv' /\ TodoInv' /\ ToldInv'
  BY <1>1, <1>6, ChainSame DEF Core, ChainInv
<1>8. ReadInv'
  BY <1>1, <1>2, PartsSame DEF Core, ReadInv
<1>9. ByteInv'
  BY <1>1, <1>2, <1>6, PartsSame DEF Core, ByteInv
<1>10. PICK s \in Sessions, at \in Nat, l \in Nat, seq \in Nat, ph \in Nat :
         /\ s = eng.id /\ at = eng.at /\ l = eng.len /\ seq = SeqNo(base[s] + at) /\ ph = Phantom(eng)
         /\ (~eng.fin => ph = 0) /\ Low(seq) \in Addrs
  BY TransitionNumbers
<1>11. CASE ~Takes(eng, Head(eng_rsp), seq)
  <2>1. UNCHANGED <<eng_req, store, accepted, conn>>
    BY <1>10, <1>11 DEF Transition
  <2>2. KeptInv' /\ OrderInv' /\ PlaceInv' /\ SpaceInv'
    BY <1>1, <1>3, <1>6, <2>1, ChainSame, PartsSame
  <2>3. TableInv'
    BY <1>1, <1>3, <2>1, PartsSame
  <2>4. EngInv' /\ SegInv'
    BY <1>1, <1>4, <2>1 DEF EngInv, SegInv
  <2> QED BY <1>7, <1>8, <1>9, <2>2, <2>3, <2>4 DEF Core, ChainInv, RcvInv
<1>12. CASE Takes(eng, Head(eng_rsp), seq)
  <2>0. /\ conn[s] = "OPEN" /\ seq = Head(eng_rsp).recvd
        /\ (eng.fin \/ FreeSpace(Head(eng_rsp)) > l)
    BY <1>10, <1>12 DEF Takes, Accepts, AcceptsFin
  <2>18. FreeSpace(Head(eng_rsp)) >= l
    BY <1>10, <1>12, TakenRoom
  <2>1. at = accepted[s] /\ accepted[s] + l - freed[s] <= BufMod - 1 /\ seq = SeqNo(base[s] + accepted[s])
    BY <1>1, <1>10, <2>0, <2>18, AcceptFacts
  <2>2. PICK w : w = WriteRecvd(s, seq + l + ph)
    OBVIOUS
  <2>3. PICK j : j = [id |-> s, addr |-> Low(seq), at |-> at, len |-> l]
    OBVIOUS
  <2>4. eng_req' = Append(<<>>, w) /\ store' = Append(store, j) /\ accepted' = [accepted EXCEPT ![s] = @ + l]
        /\ conn' = IF eng.fin THEN [conn EXCEPT ![s] = "CLOSED"] ELSE conn
    BY <1>4, <1>10, <1>12, <2>2, <2>3 DEF Transition
  <2>19. /\ \A t \in Sessions : conn'[t] = "OPEN" => conn[t] = "OPEN"
         /\ conn'[s] = "OPEN" => ~eng.fin
    <3>1. conn \in [Sessions -> {"CLOSED", "OPEN"}]
      BY DEF TInv, TRest
    <3> QED BY <2>4, <3>1
  <2>5. /\ w.id = s /\ w.write = TRUE /\ w.init = FALSE /\ w.recvd = SeqNo(seq + l + ph)
        /\ j.id = s /\ j.addr = Low(seq) /\ j.at = at /\ j.len = l
    BY <2>2, <2>3 DEF WriteRecvd
  <2>6. Len(eng_req') = 1 /\ eng_req'[1] = w /\ eng_req' # <<>>
    BY <2>4
  <2>7. /\ accepted'[s] = accepted[s] + l /\ accepted[s] \in Nat
        /\ \A t \in Sessions : t # s => accepted'[t] = accepted[t]
    BY <2>4, Counters DEF Counts
  <2>8. /\ store \in Seq(Jobs) /\ j \in Jobs
    <3>2. l \in 0 .. BufMod
      BY <1>1, <1>10 DEF TInv, TEng, Segments
    <3> QED BY <1>10, <2>3, <3>2, ChainTypes DEF Jobs
  <2>9. Linked(store', stored, accepted') /\ Below(stored, accepted')
    <3>1. Linked(store, stored, accepted) /\ Below(stored, accepted) /\ stored \in Counts /\ accepted \in Counts
      BY <1>3, Stages, Counters DEF KeptInv
    <3>2. /\ accepted' \in Counts /\ Moved(accepted, accepted', j) /\ (j.len > 0 => j.at = accepted[j.id])
      BY <2>1, <2>4, <2>5, <2>7 DEF Moved, TInv, TRest, Counts
    <3>3. Linked(Append(store, j), stored, accepted') /\ Below(stored, accepted')
      <4>1. Links(Jobs)
        BY LinkFacts
      <4> QED BY <2>8, <3>1, <3>2, <4>1, LinkedPush
    <3> QED BY <2>4, <3>3
  <2>10. KeptInv'
    BY <1>1, <2>9 DEF KeptInv
  <2>11. OrderInv'
    BY <1>1, <1>3, <1>6, <2>9 DEF OrderInv, Below
  <2>12. SpaceInv'
    <3> SUFFICES ASSUME NEW t \in Sessions
                 PROVE  accepted'[t] - freed'[t] <= BufMod - 1 /\ edge'[t] <= freed'[t] + BufMod - 1
      BY DEF SpaceInv
    <3>1. accepted[t] - freed[t] <= BufMod - 1 /\ edge[t] <= freed[t] + BufMod - 1
      BY <1>3 DEF SpaceInv
    <3>2. CASE t = s
      <4>1. accepted'[s] - freed[s] = accepted[s] + l - freed[s]
        BY <2>7, Counters
      <4> QED BY <1>1, <2>1, <3>1, <3>2, <4>1
    <3>3. CASE t # s
      BY <1>1, <2>7, <3>1, <3>3
    <3> QED BY <3>2, <3>3
  <2>13. EngInv'
    <3>1. \A i \in 1 .. Len(eng_req') : i = 1 /\ eng_req'[i].write
      BY <2>5, <2>6
    <3> QED BY <1>1, <1>4, <3>1 DEF EngInv
  <2>14. SegInv'
    BY <1>1 DEF SegInv
  <2>15. PlaceInv'
    <3> SUFFICES ASSUME NEW i \in 1 .. Len(store'), store'[i].len > 0
                 PROVE  store'[i].addr = Low(base'[store'[i].id] + store'[i].at)
      BY DEF PlaceInv
    <3>1. /\ Len(store) \in Nat /\ Len(store') = Len(store) + 1 /\ store'[Len(store) + 1] = j
          /\ \A k \in 1 .. Len(store) : store'[k] = store[k]
      BY <2>4, <2>8, Puts
    <3>2. CASE i \in 1 .. Len(store)
      BY <1>1, <1>3, <3>1, <3>2 DEF PlaceInv
    <3>3. CASE i = Len(store) + 1
      <4>1. base[s] + at \in Int
        BY Counters
      <4>2. Low(seq) = Low(base[s] + at)
        BY <1>10, <4>1, SeqStep
      <4> QED BY <1>1, <2>5, <3>1, <3>3, <4>2
    <3> QED BY <3>1, <3>2, <3>3
  <2>16. \A t \in Sessions : (Writing(t)' <=> t = s) /\ ~Starting(t)' /\ (Giving(t)' <=> Giving(t))
    BY <1>1, <2>5, <2>6 DEF Writing, Starting, Giving
  <2>17. TableInv'
    <3> SUFFICES ASSUME NEW t \in Sessions
                 PROVE  /\ t = s /\ conn'[t] = "OPEN" => eng_req'[1].recvd = SeqNo(base'[t] + accepted'[t])
                        /\ rx_sar_table'[t].app_read = Low(base'[t] + freed'[t])
                        /\ conn'[t] = "OPEN" => \E r \in Nat : Entered(t, r)'
      BY <2>16 DEF TableInv
    <3>1. /\ rx_sar_table[t].app_read = Low(base[t] + freed[t])
          /\ conn[t] = "OPEN" => \E r \in Nat : Entered(t, r)
      BY <1>3, <1>5 DEF TableInv
    <3>3. ASSUME conn'[t] = "OPEN"  PROVE \E r \in Nat : Entered(t, r)'
      <4>3. PICK r \in Nat : Entered(t, r)
        BY <2>19, <3>1, <3>3
      <4>1. /\ rx_sar_table[t].recvd = SeqNo(base[t] + r) /\ stored[t] <= r /\ r = accepted[t]
        BY <1>5, <4>3 DEF Entered
      <4>2. r <= accepted'[t] /\ (t # s => r = accepted'[t])
        BY <2>7, <4>1
      <4> QED BY <1>1, <2>16, <4>1, <4>2 DEF Entered
    <3>4. SeqNo(seq + l) = SeqNo(base[s] + accepted'[s])
      <4>1. PICK x \in Int : x = base[s] + accepted[s]
        BY Counters
      <4>2. SeqNo(SeqNo(x) + l) = SeqNo(x + l)
        BY SeqStep
      <4>3. base[s] + accepted'[s] = x + l
        BY <2>7, <4>1, Counters
      <4> QED BY <2>1, <4>1, <4>2, <4>3
    <3>5. conn'[s] = "OPEN" => w.recvd = SeqNo(base[s] + accepted'[s])
      <4>1. conn'[s] = "OPEN" => seq + l + ph = seq + l
        BY <1>10, <2>19
      <4> QED BY <2>5, <3>4, <4>1
    <3> QED BY <1>1, <2>6, <3>1, <3>3, <3>5
  <2> QED BY <1>7, <1>8, <1>9, <2>10, <2>11, <2>12, <2>13, <2>14, <2>15, <2>17 DEF Core, ChainInv, RcvInv
<1> QED BY <1>11, <1>12

-----------------------------------------------------------------------------
(* The data mover's writes.                                                  *)

\* The payload at the head: it follows what is stored, at its place.
LEMMA PayloadFacts ==
  ASSUME TInv, Core, store # <<>>, store[1].len > 0
  PROVE  LET j == store[1] IN
         /\ j \in Jobs /\ Head(store) = j
         /\ j.at = stored[j.id] /\ End(j) <= accepted[j.id]
         /\ j.addr = Low(base[j.id] + j.at)
         /\ \A b \in Nat : ReadTo[j.id] <= b /\ b < stored[j.id] => Low(base[j.id] + b) \notin Cells(j)
         /\ \A b \in Nat : j.at <= b /\ b < End(j) =>
              /\ Low(base[j.id] + b) \in Cells(j)
              /\ Low(Low(base[j.id] + b) - j.addr) = b - j.at
<1>1. PICK j \in Jobs : j = store[1] /\ Head(store) = j /\ 1 \in 1 .. Len(store)
  BY ChainTypes, Popped
<1>2. j.id \in Sessions /\ j.len \in Nat /\ j.at \in Nat /\ j.len >= 1 /\ j.len <= BufMod
  BY <1>1, RecordFacts
<1>3. j.at = stored[j.id] /\ End(j) <= accepted[j.id]
  <2>1. Linked(store, stored, accepted) /\ Below(stored, accepted) /\ stored \in Counts /\ accepted \in Counts
    BY Stages, Counters DEF KeptInv, Core, ChainInv
  <2>2. PICK up \in Counts : Moved(stored, up, j)
    <3>1. [stored EXCEPT ![j.id] = @ + j.len] \in Counts
      BY <1>2, Counters DEF Counts
    <3>2. Moved(stored, [stored EXCEPT ![j.id] = @ + j.len], j)
      BY <1>2, Counters DEF Counts, Moved
    <3> QED BY <3>1, <3>2
  <2>3. store \in Seq(Jobs) /\ Links(Jobs)
    BY ChainTypes, LinkFacts
  <2> QED BY <1>1, <1>2, <2>1, <2>2, <2>3, LinkedPop
<1>4. j.addr = Low(base[j.id] + j.at)
  BY <1>1 DEF Core, RcvInv, PlaceInv
<1>50. PICK s \in Sessions, at \in Nat, l \in Nat : s = j.id /\ at = j.at /\ l = j.len
  BY <1>2
<1>51. PICK base_s \in Nat, f \in Nat, a \in Nat, r \in Nat :
         base_s = base[s] /\ f = freed[s] /\ a = accepted[s] /\ r = ReadTo[s]
  BY Counters, GivenFacts
<1>52. PICK x \in Int : x = base_s + at
  OBVIOUS
<1>5. /\ s = j.id /\ at = j.at /\ l = j.len /\ base_s = base[s] /\ f = freed[s] /\ a = accepted[s]
      /\ r = ReadTo[s] /\ x = base_s + at
  BY <1>50, <1>51, <1>52
<1>6. f <= r /\ at + l <= a /\ a - f <= BufMod - 1 /\ l <= BufMod /\ r <= at
  <2>1. freed[s] <= ReadTo[s] /\ ReadTo[s] <= announced[s] /\ announced[s] <= stored[s]
        /\ accepted[s] - freed[s] <= BufMod - 1 /\ announced[s] \in Nat
    BY Stages, Counters DEF Core, ChainInv, RcvInv, SpaceInv
  <2> QED BY <1>2, <1>3, <1>5, <2>1 DEF End
<1>7. BufMod \in Nat /\ BufMod > 1
  BY Modulus
<1>8. l < BufMod
  BY <1>6, <1>7
<1>9. \A i \in 0 .. l - 1 : Low(j.addr + i) = Low(x + i) /\ Low(Low(x + i) - j.addr) = i
  <2> TAKE i \in 0 .. l - 1
  <2>1. i \in Int /\ 0 <= i /\ i < BufMod
    BY <1>5, <1>7, <1>8
  <2>2. j.addr = Low(x)
    BY <1>4, <1>5
  <2> QED BY <2>1, <2>2, LowStep
<1>10. ASSUME NEW b \in Nat, r <= b, b < at  PROVE Low(base_s + b) \notin Cells(j)
  <2> SUFFICES ASSUME Low(base_s + b) \in Cells(j)  PROVE FALSE
    OBVIOUS
  <2>1. PICK i \in 0 .. l - 1 : Low(base_s + b) = Low(j.addr + i)
    BY <1>5 DEF Cells
  <2>2. Low(base_s + b) = Low(x + i)
    BY <1>9, <2>1
  <2>0. i \in Int /\ 0 <= i /\ i < l
    OBVIOUS
  <2>3. PICK y \in Int, z \in Int : y = base_s + b /\ z = x + i
    BY <2>0
  <2>4. y - z < BufMod /\ z - y < BufMod /\ y # z
    <3>1. z = base_s + at + i
      BY <1>52, <2>3
    <3>2. y < z
      BY <1>10, <2>0, <2>3, <3>1
    <3>3. z - y < at + l - r
      BY <1>10, <2>0, <2>3, <3>1
    <3>4. at + l - r < BufMod
      BY <1>6, <1>7
    <3>5. y - z < 0
      BY <3>2
    <3> QED BY <1>7, <3>2, <3>3, <3>4, <3>5
  <2>5. Low(y) = Low(z)
    BY <2>2, <2>3
  <2> QED BY <2>4, <2>5, LowApart
<1>11. ASSUME NEW b \in Nat, at <= b, b < at + l
       PROVE  Low(base_s + b) \in Cells(j) /\ Low(Low(base_s + b) - j.addr) = b - at
  <2>1. PICK i \in 0 .. l - 1 : i = b - at
    <3>1. b - at \in 0 .. l - 1
      BY <1>11
    <3> QED BY <3>1
  <2>2. base_s + b = x + i
    BY <1>52, <2>1
  <2>3. Low(x + i) = Low(j.addr + i)
    BY <1>9
  <2>4. Low(base_s + b) \in Cells(j)
    BY <1>5, <2>2, <2>3 DEF Cells
  <2>5. Low(Low(x + i) - j.addr) = i
    BY <1>9
  <2> QED BY <2>1, <2>2, <2>4, <2>5
<1>12. End(j) = at + l
  BY <1>5 DEF End
<1>13. \A b \in Nat : ReadTo[j.id] <= b /\ b < stored[j.id] => Low(base[j.id] + b) \notin Cells(j)
  BY <1>3, <1>5, <1>10
<1>14. \A b \in Nat : j.at <= b /\ b < End(j) =>
          /\ Low(base[j.id] + b) \in Cells(j)
          /\ Low(Low(base[j.id] + b) - j.addr) = b - j.at
  BY <1>5, <1>11, <1>12
<1> QED BY <1>1, <1>3, <1>4, <1>13, <1>14

\* The notice of a FIN without payload waits there, too, and writes nothing.
LEMMA JobFacts ==
  ASSUME TInv, Core, store # <<>>
  PROVE  LET j == store[1] IN
         /\ j \in Jobs /\ Head(store) = j
         /\ j.len > 0 => j.at = stored[j.id] /\ End(j) <= accepted[j.id]
         /\ \A b \in Nat : ReadTo[j.id] <= b /\ b < stored[j.id] => Low(base[j.id] + b) \notin Cells(j)
         /\ \A b \in Nat : j.at <= b /\ b < End(j) =>
              /\ Low(base[j.id] + b) \in Cells(j)
              /\ Low(Low(base[j.id] + b) - j.addr) = b - j.at
<1>1. PICK j \in Jobs : j = store[1] /\ Head(store) = j
  BY ChainTypes, Popped
<1>2. j.len \in Nat /\ j.at \in Nat
  BY RecordFacts
<1>3. CASE j.len > 0
  BY <1>1, <1>3, PayloadFacts
<1>4. CASE ~(j.len > 0)
  <2>1. j.len = 0 /\ End(j) = j.at
    BY <1>2, <1>4 DEF End
  <2>2. Cells(j) = {}
    <3>1. \A i \in 0 .. j.len - 1 : FALSE
      BY <2>1
    <3> QED BY <3>1 DEF Cells
  <2>3. \A b \in Nat : ~(j.at <= b /\ b < End(j))
    BY <1>2, <2>1
  <2> QED BY <1>1, <2>1, <2>2, <2>3
<1> QED BY <1>3, <1>4

LEMMA StoreFacts ==
  ASSUME TInv, NEW okay \in BOOLEAN, Store(okay), Healthy'
  PROVE  LET j == Head(store) IN
         /\ store # <<>> /\ ~Overwrites(j)
         /\ mem' = [mem EXCEPT ![j.id] = [a \in 0 .. BufMod - 1 |->
                       IF a \in Cells(j) THEN j.at + Low(a - j.addr) ELSE @[a]]]
         /\ stored' = [stored EXCEPT ![j.id] = @ + j.len]
         /\ rx_notice' = Append(rx_notice, Notice(j.id, j.len, j.at))
         /\ store' = Tail(store)
         /\ \A i \in 1 .. Len(eng_req) : ~eng_req[i].write
<1>1. deviation' = "none"
  BY DEF Healthy
<1>2. okay
  <2> SUFFICES ASSUME ~okay  PROVE FALSE
    OBVIOUS
  <2>1. deviation' = IF ~Healthy THEN deviation ELSE "write_failed"
    BY DEF Store
  <2> QED BY <1>1, <2>1 DEF Healthy
<1>3. ~Overwrites(Head(store))
  <2> SUFFICES ASSUME Overwrites(Head(store))  PROVE FALSE
    OBVIOUS
  <2>1. deviation' = IF ~Healthy THEN deviation ELSE "overwritten"
    BY <1>2 DEF Store
  <2> QED BY <1>1, <2>1 DEF Healthy
<1> QED BY <1>2, <1>3 DEF Store

LEMMA CoreStore ==
  ASSUME TInv, TInv', Core, NEW okay \in BOOLEAN, Store(okay), Healthy'
  PROVE  Core'
<1>1. UNCHANGED <<sar, eng, rt_notice, notices, notify_reg, net_notice, reader, echo, conn, unacked, base,
                  edge, accepted, announced, freed, echoed>>
  BY DEF Store
<1>2. UNCHANGED <<rx_sar_table, app_req, app_rsp, eng_req, eng_rsp, read_req, read_rsp, fsm, blocks,
                  read_data, app, echo_meta, echo_data, echo_tx>>
  BY <1>1 DEF sar, reader, echo
<1>3. TableInv /\ OrderInv /\ KeptInv /\ ToldInv /\ PlaceInv /\ MemInv /\ DataInv
  BY DEF Core, ChainInv, RcvInv, ByteInv
<1>4. PICK j : j = Head(store)
  OBVIOUS
<1>5. /\ store # <<>> /\ ~Overwrites(j)
      /\ mem' = [mem EXCEPT ![j.id] = [a \in 0 .. BufMod - 1 |->
                    IF a \in Cells(j) THEN j.at + Low(a - j.addr) ELSE @[a]]]
      /\ stored' = [stored EXCEPT ![j.id] = @ + j.len]
      /\ rx_notice' = Append(rx_notice, Notice(j.id, j.len, j.at))
      /\ store' = Tail(store)
      /\ \A i \in 1 .. Len(eng_req) : ~eng_req[i].write
  BY <1>4, StoreFacts
<1>6. /\ j = store[1] /\ j \in Jobs /\ (j.len > 0 => j.at = stored[j.id] /\ End(j) <= accepted[j.id])
      /\ \A b \in Nat : ReadTo[j.id] <= b /\ b < stored[j.id] => Low(base[j.id] + b) \notin Cells(j)
      /\ \A b \in Nat : j.at <= b /\ b < End(j) =>
              /\ Low(base[j.id] + b) \in Cells(j)
              /\ Low(Low(base[j.id] + b) - j.addr) = b - j.at
  BY <1>4, <1>5, JobFacts
<1>7. /\ j.id \in Sessions /\ j.len \in Nat /\ j.at \in Nat /\ j.len <= BufMod
  BY <1>6, RecordFacts
<1>8. /\ (j.len > 0 => stored'[j.id] = End(j)) /\ stored'[j.id] = stored[j.id] + j.len
      /\ \A t \in Sessions : t # j.id => stored'[t] = stored[t]
  BY <1>5, <1>6, <1>7, Counters DEF Counts, End
<1>9. /\ stored' \in Counts /\ Moved(stored, stored', j)
  BY <1>7, <1>8 DEF Moved, TInv, TRest, Counts
<1>10. ReadTo' = ReadTo /\ Metas' = Metas /\ Taken' = Taken /\ Todo' = Todo
  BY <1>1, <1>2, SameFuns
<1>11. TakenInv' /\ TodoInv'
  BY <1>1, <1>10, ChainSame DEF Core, ChainInv
<1>12. AppInv' /\ ReqInv' /\ EngInv' /\ SegInv' /\ SpaceInv' /\ EchoInv'
  BY <1>1, <1>2, <1>10, PartsSame DEF Core, ReadInv, RcvInv, ByteInv
<1>13. KeptInv' /\ \A t \in Sessions : stored'[t] <= accepted'[t]
  <2>1. Linked(store, stored, accepted) /\ Below(stored, accepted) /\ stored \in Counts /\ accepted \in Counts
    BY <1>3, Stages, Counters DEF KeptInv
  <2>2. store \in Seq(Jobs) /\ Links(Jobs)
    BY ChainTypes, LinkFacts
  <2>3. Linked(Tail(store), stored', accepted) /\ Below(stored', accepted)
    BY <1>5, <1>6, <1>9, <2>1, <2>2, LinkedPop
  <2> QED BY <1>1, <1>5, <2>3 DEF KeptInv, Below
<1>14. ToldInv' /\ \A t \in Sessions : announced'[t] <= stored'[t]
  <2>1. PICK n \in Notices : n = Notice(j.id, j.len, j.at)
    <3>1. j.len \in 0 .. BufMod
      BY <1>7, Modulus
    <3>2. Notice(j.id, j.len, j.at) \in Notices
      BY <1>7, <3>1 DEF Notice, Notices
    <3> QED BY <3>2
  <2>2. n.id = j.id /\ n.len = j.len /\ n.at = j.at
    BY <2>1 DEF Notice
  <2>3. Linked(Told, announced, stored) /\ Below(announced, stored) /\ stored \in Counts /\ announced \in Counts
    BY <1>3, Stages, Counters DEF ToldInv
  <2>4. Told \in Seq(Notices) /\ Links(Notices)
    BY ChainTypes, LinkFacts
  <2>5. Moved(stored, stored', n) /\ (n.len > 0 => n.at = stored[n.id])
    BY <1>6, <1>9, <2>2 DEF Moved
  <2>6. Linked(Append(Told, n), announced, stored') /\ Below(announced, stored')
    BY <1>9, <2>3, <2>4, <2>5, LinkedPush
  <2>7. Told' = Append(Told, n)
    <3>1. PICK q \in Seq(Notices) : q = IF notify_reg = Nothing THEN notices ELSE <<notify_reg>> \o notices
      <4>1. notify_reg # Nothing => <<notify_reg>> \o notices \in Seq(Notices)
        BY ChainTypes, CatOne
      <4> QED BY <4>1, ChainTypes
    <3>2. Told = q \o rx_notice /\ Told' = q \o Append(rx_notice, n)
      BY <1>1, <1>5, <2>1, <3>1 DEF Told
    <3>3. rx_notice \in Seq(Notices)
      BY ChainTypes
    <3> QED BY <3>2, <3>3, CatPush
  <2> QED BY <1>1, <2>6, <2>7 DEF ToldInv, Below
<1>15. OrderInv'
  BY <1>1, <1>3, <1>10, <1>13, <1>14 DEF OrderInv
<1>16. \A t \in Sessions : ~Writing(t) /\ ~Starting(t)
  <2> SUFFICES ASSUME NEW t \in Sessions, Writing(t)  PROVE FALSE
    BY DEF Starting
  <2>1. 1 \in 1 .. Len(eng_req)
    BY DEF Writing, TInv, TSar, Fifo
  <2> QED BY <1>5, <2>1 DEF Writing
<1>17. TableInv'
  <2>1. \A t \in Sessions : ~Writing(t)' /\ ~Starting(t)'
    BY <1>2, <1>16 DEF Writing, Starting
  <2>2. ASSUME NEW t \in Sessions, NEW r \in Nat, Entered(t, r)  PROVE Entered(t, r)'
    <3>1. rx_sar_table[t].recvd = SeqNo(base[t] + r) /\ r = accepted[t]
      BY <1>16, <2>2 DEF Entered
    <3> QED BY <1>1, <1>2, <1>13, <2>1, <3>1 DEF Entered
  <2> QED BY <1>1, <1>2, <1>3, <1>16, <2>1, <2>2 DEF TableInv
<1>18. PlaceInv'
  <2> SUFFICES ASSUME NEW i \in 1 .. Len(store'), store'[i].len > 0
               PROVE  store'[i].addr = Low(base'[store'[i].id] + store'[i].at)
    BY DEF PlaceInv
  <2>1. i + 1 \in 1 .. Len(store) /\ store'[i] = store[i + 1]
    BY <1>5, ChainTypes, Popped
  <2> QED BY <1>1, <1>3, <2>1 DEF PlaceInv
<1>19. mem \in [Sessions -> [0 .. BufMod - 1 -> (0 .. MaxBytes) \cup {Empty}]]
  BY DEF TInv, TRest, Addrs
<1>20. /\ \A t \in Sessions : t # j.id => mem'[t] = mem[t]
       /\ \A a \in 0 .. BufMod - 1 : a \in Cells(j) => mem'[j.id][a] = j.at + Low(a - j.addr)
       /\ \A a \in 0 .. BufMod - 1 : a \notin Cells(j) => mem'[j.id][a] = mem[j.id][a]
  BY <1>5, <1>7, <1>19
<1>21. MemInv'
  <2> SUFFICES ASSUME NEW t \in Sessions, NEW b \in Nat, ReadTo[t] <= b, b < stored'[t]
               PROVE  mem'[t][Low(base[t] + b)] = b
    BY <1>1, <1>10 DEF MemInv
  <2>1. Low(base[t] + b) \in 0 .. BufMod - 1
    BY Counters, LowFacts DEF Addrs
  <2>2. CASE t # j.id
    BY <1>3, <1>8, <1>20, <2>2 DEF MemInv
  <2>3. CASE t = j.id /\ b < stored[t]
    <3>1. mem[t][Low(base[t] + b)] = b
      BY <1>3, <2>3 DEF MemInv
    <3>2. Low(base[t] + b) \notin Cells(j)
      BY <1>6, <2>3
    <3> QED BY <1>20, <2>1, <2>3, <3>1, <3>2
  <2>4. CASE t = j.id /\ ~(b < stored[t])
    <3>0. j.len > 0
      <4>1. stored[t] \in Nat
        BY Counters
      <4> QED BY <1>7, <1>8, <2>4, <4>1
    <3>1. j.at <= b /\ b < End(j)
      BY <1>6, <1>7, <1>8, <2>4, <3>0
    <3>2. Low(base[t] + b) \in Cells(j) /\ Low(Low(base[t] + b) - j.addr) = b - j.at
      BY <1>6, <2>4, <3>1
    <3>3. mem'[t][Low(base[t] + b)] = j.at + (b - j.at)
      BY <1>20, <2>1, <2>4, <3>2
    <3> QED BY <1>7, <3>3
  <2> QED BY <2>2, <2>3, <2>4
<1>22. ASSUME NEW k \in 1 .. Len(blocks), NEW a \in Nat, Holds(blocks[k], a)
       PROVE  Holds(blocks[k], a)'
  <2>1. PICK c \in Blocks : c = blocks[k] /\ c.addr + c.len <= BufMod
    BY Element DEF TInv, TReader
  <2>2. c.id \in Sessions /\ c.len \in Nat /\ c.addr \in Addrs
    BY RecordFacts
  <2> SUFFICES ASSUME NEW i \in 0 .. c.len - 1
               PROVE  mem'[c.id][c.addr + i] = a + i
    BY <1>2, <2>1 DEF Holds
  <2>3. mem[c.id][c.addr + i] = a + i
    BY <1>22, <2>1 DEF Holds
  <2>4. c.addr + i \in 0 .. BufMod - 1 /\ c.addr + i \in Int
    <3>1. PICK x \in Int, y \in Int : x = c.addr /\ y = c.len /\ 0 <= x /\ x + y <= BufMod
      BY <2>1, <2>2 DEF Addrs
    <3>2. i \in Int /\ 0 <= i /\ i < y
      BY <2>2, <3>1
    <3>3. x + i \in Int /\ 0 <= x + i /\ x + i < BufMod
      BY <3>1, <3>2, Modulus
    <3> QED BY <3>1, <3>3, Modulus
  <2>5. CASE c.id # j.id
    BY <1>20, <2>2, <2>3, <2>5
  <2>6. CASE c.id = j.id
    <3>1. Low(c.addr + i) = c.addr + i
      <4>1. Same(BufMod, c.addr + i, c.addr + i)
        BY <2>4, SameSelf, Modulus
      <4> QED BY <2>4, <4>1, LowFacts
    <3>2. c.addr + i \in Cells(c)
      BY <3>1 DEF Cells
    <3>3. Cells(c) \cap Cells(j) = {}
      BY <1>5, <2>1, <2>6 DEF Overwrites
    <3>4. c.addr + i \notin Cells(j)
      BY <3>2, <3>3
    <3> QED BY <1>20, <2>3, <2>4, <2>6, <3>4
  <2> QED BY <2>5, <2>6
<1>23. ASSUME NEW k \in 1 .. 2, k <= Len(read_data) + Len(blocks), NEW a \in Nat, NEW c \in Nat, Part(k, a, c)
       PROVE  Part(k, a, c)'
  <2>1. CASE k <= Len(read_data)
    BY <1>2, <1>23, <2>1 DEF Part
  <2>2. CASE ~(k <= Len(read_data))
    <3>1. PICK m \in 1 .. Len(blocks) : m = k - Len(read_data)
      <4>1. read_data \in Seq(Bytes) /\ blocks \in Seq(Blocks)
        BY DEF TInv, TReader
      <4> QED BY <1>23, <2>2, <4>1
    <3>2. blocks[m].len = c - a /\ Holds(blocks[m], a)
      BY <1>23, <2>2, <3>1 DEF Part
    <3>3. Holds(blocks[m], a)'
      BY <1>22, <3>2
    <3> QED BY <1>2, <2>2, <3>1, <3>2, <3>3 DEF Part
  <2> QED BY <2>1, <2>2
<1>24. DataInv'
  <2> SUFFICES ASSUME fsm.state = "WAIT_DATA"
               PROVE  /\ Taken' # <<>>
                      /\ \/ fsm'.parts = 1 /\ Part(1, UnderWay.at, End(UnderWay))'
                         \/ fsm'.parts = 2 /\ \E c \in Nat :
                              /\ UnderWay'.at < c /\ c < End(UnderWay')
                              /\ Part(1, UnderWay.at, c)' /\ Part(2, c, End(UnderWay))'
    BY <1>2 DEF DataInv
  <2>1. Taken # <<>> /\ UnderWay' = UnderWay
    BY <1>3, <1>10 DEF DataInv, UnderWay
  <2>2. PICK u \in Nat, e \in Nat : u = UnderWay.at /\ e = End(UnderWay)
    <3>1. Taken \in Seq(Notices) /\ Len(Taken) \in 1 .. Len(Taken)
      BY <2>1, ChainTypes, Popped
    <3>2. UnderWay \in Notices
      BY <3>1, Element DEF UnderWay
    <3> QED BY <3>2, RecordFacts DEF End
  <2>3. UnderWay'.at = u /\ End(UnderWay') = e
    BY <2>1, <2>2
  <2>4. Len(read_data) + Len(blocks) = fsm.parts
    BY DEF TInv, TReader
  <2>5. CASE fsm.parts = 1 /\ Part(1, u, e)
    <3>1. Part(1, u, e)'
      BY <1>23, <2>4, <2>5
    <3> QED BY <1>2, <1>10, <2>1, <2>3, <2>5, <3>1
  <2>6. CASE fsm.parts = 2 /\ \E c \in Nat : u < c /\ c < e /\ Part(1, u, c) /\ Part(2, c, e)
    <3>1. PICK c \in Nat : u < c /\ c < e /\ Part(1, u, c) /\ Part(2, c, e)
      BY <2>6
    <3>2. Part(1, u, c)' /\ Part(2, c, e)'
      BY <1>23, <2>4, <2>6, <3>1
    <3> QED BY <1>2, <1>10, <2>1, <2>3, <2>6, <3>1, <3>2
  <2> QED BY <1>3, <2>2, <2>5, <2>6 DEF DataInv
<1> QED BY <1>11, <1>12, <1>13, <1>14, <1>15, <1>17, <1>18, <1>21, <1>24
        DEF Core, ChainInv, ReadInv, RcvInv, ByteInv

-----------------------------------------------------------------------------
(* The notifications.                                                        *)

\* A connection that is closed asks for less.
LEMMA ClosedSame ==
  ASSUME TInv, TableInv, SegInv, \A t \in Sessions : conn'[t] = "OPEN" => conn[t] = "OPEN",
         UNCHANGED <<eng, eng_req, eng_rsp, base, accepted, echoed, app_req, rx_sar_table, freed, stored>>
  PROVE  TableInv' /\ SegInv'
<1>1. TableInv'
  BY DEF TableInv, Entered, Starting, Writing, Giving
<1>2. eng # Nothing => eng.id \in Sessions
  BY RecordFacts DEF TInv, TEng
<1>3. SegInv'
  BY <1>2 DEF SegInv, Judged
<1> QED BY <1>1, <1>3

\* A step of the notifications leaves all but their chains alone.
LEMMA NotifyRest ==
  ASSUME Core, UNCHANGED <<sar, eng, store, reader, echo, mem, base, edge, accepted, stored, freed, echoed>>,
         TInv, \A t \in Sessions : conn'[t] = "OPEN" => conn[t] = "OPEN", ToldInv', TodoInv', OrderInv'
  PROVE  Core'
<1>1. UNCHANGED <<rx_sar_table, app_req, app_rsp, eng_req, eng_rsp, read_req, read_rsp, fsm, blocks,
                  read_data, app, echo_meta, echo_data, echo_tx>>
  BY DEF sar, reader, echo
<1>2. ReadTo' = ReadTo /\ Metas' = Metas /\ Taken' = Taken
  BY <1>1, SameFuns
<1>3. TakenInv' /\ KeptInv'
  BY <1>2, ChainSame DEF Core, ChainInv
<1>4. AppInv' /\ ReqInv' /\ EngInv' /\ SpaceInv' /\ PlaceInv'
  BY <1>1, PartsSame DEF Core, ReadInv, RcvInv
<1>5. MemInv' /\ DataInv' /\ EchoInv'
  BY <1>1, <1>2, PartsSame DEF Core, ByteInv
<1>6. TableInv' /\ SegInv'
  BY <1>1, ClosedSame DEF Core, RcvInv
<1> QED BY <1>3, <1>4, <1>5, <1>6 DEF Core, ChainInv, ReadInv, RcvInv, ByteInv

LEMMA CoreAbort ==
  ASSUME TInv, TInv', Core, NEW s \in Sessions, Abort(s)
  PROVE  Core'
<1>1. UNCHANGED <<sar, eng, store, rx_notice, notices, notify_reg, net_notice, reader, echo, mem, history>>
  BY DEF Abort
<1>2. UNCHANGED <<base, edge, accepted, stored, announced, freed, echoed>>
  BY <1>1 DEF history
<1>3. UNCHANGED <<rx_sar_table, app_req, fsm, app>>
  BY <1>1 DEF sar, reader, echo
<1>4. ReadTo' = ReadTo /\ Todo' = Todo /\ Told' = Told
  BY <1>1, <1>2, <1>3, SameFuns
<1>5. TodoInv' /\ ToldInv' /\ OrderInv'
  BY <1>2, <1>4, ChainSame DEF Core, ChainInv
<1>6. \A t \in Sessions : conn'[t] = "OPEN" => conn[t] = "OPEN"
  BY DEF Abort, TInv, TRest
<1> QED BY <1>1, <1>2, <1>5, <1>6, NotifyRest

\* What the FIFOs of the notifications hold, but for the rx engine's.
Ahead == IF notify_reg = Nothing THEN notices ELSE <<notify_reg>> \o notices

LEMMA AheadFacts ==
  ASSUME TInv
  PROVE  Ahead \in Seq(Notices) /\ Told = Ahead \o rx_notice /\ rx_notice \in Seq(Notices)
<1>1. notify_reg # Nothing => <<notify_reg>> \o notices \in Seq(Notices)
  BY ChainTypes, CatOne
<1> QED BY <1>1, ChainTypes DEF Ahead, Told

LEMMA AheadPush ==
  ASSUME TInv, NEW n \in Notices, notices' = Append(notices, n), notify_reg' = notify_reg
  PROVE  Ahead' = Append(Ahead, n)
<1>1. CASE notify_reg = Nothing
  BY <1>1 DEF Ahead
<1>2. CASE notify_reg # Nothing
  <2>1. <<notify_reg>> \in Seq(Notices) /\ notices \in Seq(Notices)
    BY <1>2, ChainTypes
  <2>2. <<notify_reg>> \o Append(notices, n) = Append(<<notify_reg>> \o notices, n)
    BY <2>1, CatPush
  <2> QED BY <1>2, <2>2 DEF Ahead
<1> QED BY <1>1, <1>2

LEMMA CoreMergeNotice ==
  ASSUME TInv, TInv', Core, MergeNotice
  PROVE  Core'
<1>1. UNCHANGED <<sar, eng, store, notify_reg, net_notice, reader, echo, mem, conn, history>>
  BY DEF MergeNotice
<1>2. UNCHANGED <<base, edge, accepted, stored, announced, freed, echoed>>
  BY <1>1 DEF history
<1>3. UNCHANGED <<rx_sar_table, app_req, fsm, app>>
  BY <1>1 DEF sar, reader, echo
<1>4. ReadTo' = ReadTo /\ Todo' = Todo
  BY <1>1, <1>2, <1>3, SameFuns
<1>5. TodoInv' /\ OrderInv'
  BY <1>2, <1>4, ChainSame DEF Core, ChainInv
<1>6. ToldInv'
  <2>1. CASE rx_notice # <<>> /\ notices' = Append(notices, Head(rx_notice)) /\ rx_notice' = Tail(rx_notice)
    <3>1. rx_notice \in Seq(Notices) /\ Head(rx_notice) \in Notices
      BY <2>1, ChainTypes, Popped
    <3>2. Ahead' = Append(Ahead, Head(rx_notice))
      BY <1>1, <2>1, <3>1, AheadPush
    <3>3. Told' = Ahead' \o rx_notice'
      BY DEF Told, Ahead
    <3>4. Append(Ahead, Head(rx_notice)) \o Tail(rx_notice) = Ahead \o rx_notice
      BY <2>1, AheadFacts, CatShift
    <3>5. Told' = Told
      BY <2>1, <3>2, <3>3, <3>4, AheadFacts
    <3> QED BY <1>2, <3>5, ChainSame DEF Core, ChainInv
  <2>2. CASE /\ rx_notice = <<>> /\ rt_notice # <<>> /\ notices' = Append(notices, Head(rt_notice))
             /\ rx_notice' = rx_notice
    <3>1. rt_notice \in Seq(EndNotices)
      BY DEF TInv, TNotify, Fifo
    <3>2. PICK n \in EndNotices : n = Head(rt_notice)
      BY <2>2, <3>1, Popped
    <3>3. n \in Notices /\ n.id \in Sessions /\ n.len = 0 /\ n.at \in Nat
      BY RecordFacts
    <3>4. Ahead' = Append(Ahead, n)
      BY <1>1, <2>2, <3>2, <3>3, AheadPush
    <3>5. Ahead \in Seq(Notices) /\ Append(Ahead, n) \in Seq(Notices)
      BY <3>3, AheadFacts, Puts
    <3>6. Ahead \o <<>> = Ahead /\ Append(Ahead, n) \o <<>> = Append(Ahead, n)
      BY <3>5
    <3>7. Told = Ahead
      BY <2>2, <3>6, AheadFacts
    <3>8. Told' = Append(Told, n)
      <4>1. Told' = Ahead' \o rx_notice'
        BY DEF Told, Ahead
      <4> QED BY <2>2, <3>4, <3>6, <3>7, <4>1
    <3>9. Linked(Told, announced, stored) /\ Below(announced, stored) /\ stored \in Counts /\ announced \in Counts
      BY Stages, Counters DEF ToldInv, Core, ChainInv
    <3>10. Moved(stored, stored, n)
      BY <3>3, <3>9 DEF Moved, Counts
    <3>11. ~(n.len > 0)
      BY <3>3
    <3>12. Told \in Seq(Notices) /\ Links(Notices)
      BY ChainTypes, LinkFacts
    <3>13. Linked(Append(Told, n), announced, stored)
      BY <3>3, <3>9, <3>10, <3>11, <3>12, LinkedPush
    <3> QED BY <1>2, <3>8, <3>13 DEF ToldInv
  <2> QED BY <2>1, <2>2 DEF MergeNotice
<1> QED BY <1>1, <1>2, <1>5, <1>6, NotifyRest

LEMMA CoreNotifyLookup ==
  ASSUME TInv, TInv', Core, NotifyLookup
  PROVE  Core'
<1>1. UNCHANGED <<sar, eng, store, rx_notice, net_notice, reader, echo, mem, conn, history>>
  BY DEF NotifyLookup
<1>2. UNCHANGED <<base, edge, accepted, stored, announced, freed, echoed>>
  BY <1>1 DEF history
<1>3. UNCHANGED <<rx_sar_table, app_req, fsm, app>>
  BY <1>1 DEF sar, reader, echo
<1>4. ReadTo' = ReadTo /\ Todo' = Todo
  BY <1>1, <1>2, <1>3, SameFuns
<1>5. TodoInv' /\ OrderInv'
  BY <1>2, <1>4, ChainSame DEF Core, ChainInv
<1>6. Told' = Told
  <2>1. notify_reg = Nothing /\ notices # <<>> /\ notify_reg' = Head(notices) /\ notices' = Tail(notices)
    BY DEF NotifyLookup
  <2>2. notices \in Seq(Notices) /\ Head(notices) \in Notices
    BY <2>1, ChainTypes, Popped
  <2>3. Head(notices) # Nothing
    BY <2>2, RecordFacts
  <2>4. <<Head(notices)>> \o Tail(notices) = notices
    BY <2>1, <2>2, CatHead
  <2> QED BY <1>1, <2>1, <2>3, <2>4 DEF Told
<1>7. ToldInv'
  BY <1>2, <1>6, ChainSame DEF Core, ChainInv
<1> QED BY <1>1, <1>2, <1>5, <1>7, NotifyRest

\* The first of three in front.
LEMMA CatTwice ==
  ASSUME NEW T, NEW e \in T, NEW a \in Seq(T), NEW b \in Seq(T)
  PROVE  (<<e>> \o a) \o b = <<e>> \o (a \o b)
<1>1. <<e>> \in Seq(T)
  OBVIOUS
<1>2. PICK l \in Seq(T) : l = (<<e>> \o a) \o b
  BY CatOne, CatType
<1>3. PICK r \in Seq(T) : r = <<e>> \o (a \o b)
  BY CatOne, CatType
<1>40. PICK m \in Seq(T) : m = <<e>> \o a
  BY CatOne
<1>4. m = <<e>> \o a /\ Len(m) = Len(a) + 1 /\ m[1] = e /\ \A i \in 1 .. Len(a) : m[i + 1] = a[i]
  BY <1>40, CatOne
<1>50. PICK n \in Seq(T) : n = a \o b
  BY CatType
<1>5. /\ n = a \o b /\ Len(n) = Len(a) + Len(b) /\ \A i \in 1 .. Len(a) : n[i] = a[i]
      /\ \A i \in Len(a) + 1 .. Len(a) + Len(b) : n[i] = b[i - Len(a)]
  BY <1>50, CatType
<1>6. /\ l = m \o b /\ Len(l) = Len(m) + Len(b) /\ \A i \in 1 .. Len(m) : l[i] = m[i]
      /\ \A i \in Len(m) + 1 .. Len(m) + Len(b) : l[i] = b[i - Len(m)]
  BY <1>2, <1>4, CatType
<1>7. /\ r = <<e>> \o n /\ Len(r) = Len(n) + 1 /\ r[1] = e /\ \A i \in 1 .. Len(n) : r[i + 1] = n[i]
  BY <1>3, <1>5, CatOne
<1>8. Len(a) \in Nat /\ Len(b) \in Nat /\ Len(m) \in Nat /\ Len(n) \in Nat
  OBVIOUS
<1>9. Len(l) = Len(r)
  BY <1>4, <1>5, <1>6, <1>7, <1>8
<1>10. ASSUME NEW i \in 1 .. Len(l)  PROVE l[i] = r[i]
  <2>1. i \in Int /\ 1 <= i /\ i <= Len(a) + Len(b) + 1
    BY <1>4, <1>6, <1>8, <1>10
  <2>2. CASE i = 1
    <3>1. 1 \in 1 .. Len(m)
      BY <1>4, <1>8
    <3> QED BY <1>4, <1>6, <1>7, <2>2, <3>1
  <2>3. CASE 1 < i /\ i <= Len(a) + 1
    <3>1. PICK k \in 1 .. Len(a) : i = k + 1
      <4>1. i - 1 \in 1 .. Len(a) /\ i = (i - 1) + 1
        BY <1>8, <2>1, <2>3
      <4> QED BY <4>1
    <3>2. i \in 1 .. Len(m) /\ k \in 1 .. Len(n)
      BY <1>4, <1>5, <1>8, <2>1, <2>3
    <3> QED BY <1>4, <1>5, <1>6, <1>7, <3>1, <3>2
  <2>4. CASE Len(a) + 1 < i
    <3>1. PICK k \in Len(a) + 1 .. Len(a) + Len(b) : i = k + 1
      <4>1. i - 1 \in Len(a) + 1 .. Len(a) + Len(b) /\ i = (i - 1) + 1
        BY <1>8, <2>1, <2>4
      <4> QED BY <4>1
    <3>2. i \in Len(m) + 1 .. Len(m) + Len(b) /\ k \in 1 .. Len(n) /\ i - Len(m) = k - Len(a)
      BY <1>4, <1>5, <1>8, <2>1, <2>4, <3>1
    <3> QED BY <1>5, <1>6, <1>7, <3>1, <3>2
  <2> QED BY <1>8, <2>1, <2>2, <2>3, <2>4
<1>11. l = r
  BY <1>9, <1>10, SeqSame
<1> QED BY <1>2, <1>3, <1>11

\* A notice sent: from what the handler was told to what the application has to do.
LEMMA SendFacts ==
  ASSUME TInv, NotifySend
  PROVE  /\ notify_reg \in Notices /\ Told # <<>> /\ Told[1] = notify_reg /\ Told' = Tail(Told)
         /\ Todo' = Append(Todo, notify_reg)
<1>1. /\ notify_reg # Nothing /\ net_notice' = Append(net_notice, notify_reg) /\ notify_reg' = Nothing
      /\ UNCHANGED <<notices, rx_notice, reader, echo>>
  BY DEF NotifySend
<1>2. notify_reg \in Notices /\ notices \in Seq(Notices) /\ rx_notice \in Seq(Notices)
      /\ net_notice \in Seq(Notices)
  BY <1>1, ChainTypes
<1>3. Told = <<notify_reg>> \o (notices \o rx_notice)
  <2>1. Told = (<<notify_reg>> \o notices) \o rx_notice
    BY <1>1 DEF Told
  <2>2. (<<notify_reg>> \o notices) \o rx_notice = <<notify_reg>> \o (notices \o rx_notice)
    BY <1>2, CatTwice
  <2> QED BY <2>1, <2>2
<1>4. Told' = notices \o rx_notice
  BY <1>1 DEF Told
<1>5. notices \o rx_notice \in Seq(Notices)
  BY <1>2, CatType
<1>6. Told # <<>> /\ Told[1] = notify_reg /\ Tail(Told) = notices \o rx_notice
  BY <1>2, <1>3, <1>5, CatOne
<1>7. UNCHANGED <<app, fsm>>
  BY <1>1 DEF reader, echo
<1>8. Asking' = Asking
  BY <1>7 DEF Asking
<1>9. Todo' = Append(Todo, notify_reg)
  <2>1. CASE ~Asking
    BY <1>1, <1>8, <2>1 DEF Todo
  <2>2. CASE Asking
    <3>1. app.notice \in Notices
      BY <2>2, States, RecordFacts DEF Asking
    <3>2. <<app.notice>> \in Seq(Notices)
      BY <3>1
    <3>3. <<app.notice>> \o Append(net_notice, notify_reg) = Append(<<app.notice>> \o net_notice, notify_reg)
      BY <1>2, <3>2, CatPush
    <3> QED BY <1>1, <1>7, <1>8, <2>2, <3>3 DEF Todo
  <2> QED BY <2>1, <2>2
<1> QED BY <1>2, <1>4, <1>6, <1>9

LEMMA CoreNotifySend ==
  ASSUME TInv, TInv', Core, NotifySend
  PROVE  Core'
<1>1. UNCHANGED <<sar, eng, store, rx_notice, notices, reader, echo, mem, conn, base, edge, accepted, stored, freed,
                  echoed>>
  BY DEF NotifySend
<1>2. UNCHANGED <<rx_sar_table, app_req, fsm, app>>
  BY <1>1 DEF sar, reader, echo
<1>3. ReadTo' = ReadTo
  BY <1>1, <1>2, SameFuns
<1>4. PICK n \in Notices : n = notify_reg
  BY SendFacts
<1>5. n.id \in Sessions /\ n.len \in Nat /\ n.at \in Nat
  BY RecordFacts
<1>6. /\ announced \in Counts /\ stored \in Counts /\ ReadTo \in Counts
      /\ Linked(Told, announced, stored) /\ Below(announced, stored)
      /\ Linked(Todo, ReadTo, announced) /\ Below(ReadTo, announced)
      /\ Told \in Seq(Notices) /\ Todo \in Seq(Notices) /\ Links(Notices)
  BY Counters, GivenFacts, Stages, ChainTypes, LinkFacts DEF Core, ChainInv, ToldInv, TodoInv
<1>7. announced' = [announced EXCEPT ![n.id] = @ + n.len]
  BY <1>4 DEF NotifySend
<1>8. announced' \in Counts
  BY DEF TInv, TRest, Counts
<1>9. Moved(announced, announced', n)
  BY <1>5, <1>6, <1>7 DEF Moved, Counts
<1>10. /\ Linked(Tail(Told), announced', stored) /\ Below(announced', stored)
       /\ n.len > 0 => n.at = announced[n.id]
  BY <1>4, <1>6, <1>8, <1>9, SendFacts, LinkedPop
<1>11. Linked(Append(Todo, n), ReadTo, announced') /\ Below(ReadTo, announced')
  BY <1>4, <1>6, <1>8, <1>9, <1>10, LinkedPush
<1>12. ToldInv' /\ TodoInv'
  BY <1>1, <1>3, <1>4, <1>10, <1>11, SendFacts DEF ToldInv, TodoInv
<1>13. OrderInv'
  BY <1>1, <1>3, <1>10, <1>11 DEF OrderInv, Below, Core, ChainInv
<1> QED BY <1>1, <1>12, <1>13, NotifyRest

-----------------------------------------------------------------------------
(* The application and the data handler.                                     *)

\* No read of app_read is under way, but while the data handler waits for it.
LEMMA NoReads ==
  ASSUME TInv, Core, fsm.state # "WAIT_SAR_RSP"
  PROVE  app_rsp = <<>> /\ \A i \in 1 .. Len(app_req) : app_req[i].write /\ i = 1
BY DEF Core, ReadInv, ReqInv

\* A step of the data handler or of the echo server leaves the rx engine's side alone.
LEMMA ReaderRest ==
  ASSUME Core, UNCHANGED <<eng, store, notify_reg, notices, rx_notice, rx_sar_table, eng_req, eng_rsp,
                           mem, conn, base, edge, accepted, stored, announced, freed>>
  PROVE  /\ ToldInv' /\ KeptInv' /\ EngInv' /\ SpaceInv' /\ SegInv' /\ PlaceInv'
         /\ ReadTo' = ReadTo => MemInv'
         /\ UNCHANGED <<app_req, echoed>> => TableInv'
<1>1. Told' = Told
  BY SameFuns
<1>2. ToldInv' /\ KeptInv'
  BY <1>1, ChainSame DEF Core, ChainInv
<1>3. EngInv' /\ SpaceInv' /\ SegInv' /\ PlaceInv' /\ (UNCHANGED <<app_req, echoed>> => TableInv')
  BY PartsSame DEF Core, RcvInv
<1>4. ReadTo' = ReadTo => MemInv'
  BY PartsSame DEF Core, ByteInv
<1> QED BY <1>2, <1>3, <1>4

LEMMA CoreDataReq ==
  ASSUME TInv, TInv', Core, DataReq
  PROVE  Core'
<1>1. /\ fsm = Idle /\ read_req # <<>>
      /\ app_req' = Append(app_req, Read(Head(read_req).id))
      /\ fsm' = [state |-> "WAIT_SAR_RSP", len |-> Head(read_req).len]
      /\ read_req' = Tail(read_req)
      /\ UNCHANGED <<rx_sar_table, app_rsp, eng_req, eng_rsp, eng, store, notify, read_rsp,
                     blocks, read_data, echo, mem, conn, unacked, history>>
  BY DEF DataReq
<1>2. UNCHANGED <<rx_notice, rt_notice, notices, notify_reg, net_notice, app, echo_meta, echo_data, echo_tx,
                  base, edge, accepted, stored, announced, freed, echoed>>
  BY <1>1 DEF notify, echo, history
<1>3. fsm.state = "WAIT_NET_APP_DATA_REQ" /\ fsm'.state = "WAIT_SAR_RSP" /\ fsm'.len = Head(read_req).len
  BY <1>1 DEF Idle
<1>4. /\ Len(read_req) = 1 /\ Asking /\ Head(read_req) = app.notice /\ read_rsp = <<>> /\ app.state = "WAIT_SESSION_ID"
      /\ read_req' = <<>>
  <2>1. Len(read_req) = 1 /\ Asking /\ read_req[1] = app.notice /\ (read_rsp # <<>> => Asked)
    BY <1>1 DEF Core, ReadInv, AppInv
  <2>2. read_req \in Seq(DataNotices)
    BY DEF TInv, TReader, Fifo
  <2>3. Head(read_req) = read_req[1] /\ Tail(read_req) = <<>>
    BY <1>1, <2>1, <2>2, OneLeft, Popped
  <2> QED BY <1>1, <1>3, <2>1, <2>3 DEF Asking, Asked
<1>5. ~Asked /\ ~Asked' /\ Asking'
  BY <1>2, <1>3, <1>4 DEF Asked, Asking
<1>6. Metas' = Metas /\ Taken' = Taken /\ Todo' = Todo
  <2>1. Metas' = Metas
    BY <1>2, SameFuns
  <2> QED BY <1>2, <1>4, <1>5, <2>1 DEF Taken, Todo
<1>7. PICK s \in Sessions, rd \in AppReqs :
        s = app.notice.id /\ rd = Read(s) /\ rd.id = s /\ rd.write = FALSE
  <2>1. app.notice.id \in Sessions
    BY <1>4, States, RecordFacts
  <2>2. Read(app.notice.id) \in AppReqs
    BY <2>1 DEF Read, AppReqs, ReadReqs
  <2>3. Read(app.notice.id).id = app.notice.id /\ Read(app.notice.id).write = FALSE
    BY DEF Read
  <2> QED BY <2>1, <2>2, <2>3
<1>8. /\ app_req \in Seq(AppReqs) /\ app_req' = Append(app_req, rd)
      /\ Len(app_req) \in Nat /\ Len(app_req') = Len(app_req) + 1 /\ app_req'[Len(app_req) + 1] = rd
      /\ app_req' # <<>> /\ \A i \in 1 .. Len(app_req) : app_req'[i] = app_req[i]
  <2>1. app_req \in Seq(AppReqs)
    BY DEF TInv, TSar, Fifo
  <2> QED BY <1>1, <1>4, <1>7, <2>1, Puts
<1>9. app_rsp = <<>> /\ \A i \in 1 .. Len(app_req) : app_req[i].write /\ i = 1
  BY <1>3, NoReads
<1>10. /\ app_req # <<>> => app_req'[1] = app_req[1]
       /\ app_req = <<>> => ~app_req'[1].write
  <2>1. (app_req # <<>> => Len(app_req) >= 1) /\ (app_req = <<>> => Len(app_req) = 0)
    BY <1>8
  <2> QED BY <1>7, <1>8, <2>1
<1>11. \A t \in Sessions : Giving(t)' <=> Giving(t)
  BY <1>8, <1>10 DEF Giving
<1>12. ReadTo' = ReadTo
  <2>1. \A t \in Sessions : Given(t)' = Given(t)
    BY <1>1, <1>10, <1>11 DEF Given, Giving
  <2> QED BY <1>2, <2>1 DEF ReadTo
<1>13. TakenInv' /\ TodoInv' /\ OrderInv'
  BY <1>2, <1>6, <1>12, ChainSame DEF Core, ChainInv
<1>14. ToldInv' /\ KeptInv' /\ EngInv' /\ SpaceInv' /\ SegInv' /\ PlaceInv' /\ MemInv'
  BY <1>1, <1>2, <1>12, ReaderRest
<1>15. AppInv'
  BY <1>1, <1>2, <1>3, <1>4, <1>5 DEF AppInv
<1>16. ReqInv'
  <2>1. ASSUME NEW i \in 1 .. Len(app_req')
        PROVE  /\ app_req'[i].write => i = 1
               /\ ~app_req'[i].write => i = Len(app_req') /\ app_req'[i].id = s
    <3>1. CASE i \in 1 .. Len(app_req)
      BY <1>8, <1>9, <3>1
    <3>2. CASE i = Len(app_req) + 1
      <4>1. app_req'[i] = rd /\ i = Len(app_req')
        BY <1>8, <3>2
      <4> QED BY <1>7, <4>1
    <3> QED BY <1>8, <3>1, <3>2
  <2> QED BY <1>1, <1>2, <1>3, <1>7, <1>9, <2>1 DEF ReqInv
<1>17. TableInv'
  <2>1. TableInv
    BY DEF Core, RcvInv
  <2>2. \A t \in Sessions : (Starting(t)' <=> Starting(t)) /\ (Writing(t)' <=> Writing(t))
    BY <1>1 DEF Starting, Writing
  <2>3. \A t \in Sessions, r \in Nat : Entered(t, r) => Entered(t, r)'
    BY <1>1, <1>2, <2>2 DEF Entered
  <2> QED BY <1>1, <1>2, <1>11, <2>1, <2>2, <2>3 DEF TableInv
<1>18. DataInv'
  BY <1>3 DEF DataInv
<1>19. EchoInv'
  BY <1>2, <1>6, PartsSame DEF Core, ByteInv
<1> QED BY <1>13, <1>14, <1>15, <1>16, <1>17, <1>18, <1>19 DEF Core, ChainInv, ReadInv, RcvInv, ByteInv

LEMMA CoreGetDataNoty ==
  ASSUME TInv, TInv', Core, GetDataNoty
  PROVE  Core'
<1>1. /\ app.state = "GET_DATA_NOTY" /\ net_notice # <<>> /\ net_notice' = Tail(net_notice)
      /\ UNCHANGED <<sar, eng, store, rx_notice, rt_notice, notices, notify_reg, read_rsp, fsm,
                     blocks, read_data, echo_meta, echo_data, echo_tx, mem, conn, unacked, history>>
  BY DEF GetDataNoty
<1>2. UNCHANGED <<rx_sar_table, app_req, app_rsp, eng_req, eng_rsp,
                  base, edge, accepted, stored, announced, freed, echoed>>
  BY <1>1 DEF sar, history
<1>3. /\ fsm = Idle /\ fsm.state = "WAIT_NET_APP_DATA_REQ" /\ ~Asking /\ ~Asked /\ read_req = <<>> /\ read_rsp = <<>>
  BY <1>1 DEF Core, ReadInv, AppInv, Asking, Asked, Idle
<1>4. net_notice \in Seq(Notices) /\ Todo = net_notice
  BY <1>3, ChainTypes DEF Todo
<1>5. PICK n \in Notices : n = Head(net_notice) /\ n = net_notice[1]
  BY <1>1, <1>4, Popped
<1>6. n.id \in Sessions /\ n.len \in Nat /\ n.at \in Nat
  BY RecordFacts
<1>7. ReadTo' = ReadTo /\ Metas' = Metas
  BY <1>1, <1>2, SameFuns
<1>8. app'.state # "FORWARD_DATA" /\ ~Asked' /\ ~(app'.state = "WAIT_SESSION_ID" /\ fsm'.state = "WAIT_DATA")
  BY <1>1, <1>3 DEF GetDataNoty, Asked
<1>9. Taken' = Taken
  BY <1>3, <1>7, <1>8 DEF Taken
<1>10. TakenInv' /\ OrderInv'
  BY <1>2, <1>7, <1>9, ChainSame DEF Core, ChainInv
<1>11. ToldInv' /\ KeptInv' /\ EngInv' /\ SpaceInv' /\ SegInv' /\ PlaceInv' /\ MemInv' /\ TableInv'
  BY <1>1, <1>2, <1>7, ReaderRest
<1>12. DataInv'
  BY <1>1, <1>3 DEF DataInv
<1>13. EchoInv'
  BY <1>1, <1>7, <1>8 DEF EchoInv, Core, ByteInv
<1>14. ReqInv'
  BY <1>1, <1>2, <1>3, NoReads DEF ReqInv, Core, ReadInv
<1>15. TodoInv' /\ AppInv'
  <2>1. CASE n.len # 0
    <3>1. read_req' = Append(read_req, n) /\ app' = [state |-> "WAIT_SESSION_ID", notice |-> n]
      BY <1>5, <2>1 DEF GetDataNoty
    <3>2. read_req' = <<n>> /\ Len(read_req') = 1 /\ read_req'[1] = n /\ read_req' # <<>>
      BY <1>3, <3>1
    <3>3. Asking' /\ app'.notice = n /\ app'.state = "WAIT_SESSION_ID"
      BY <1>1, <1>3, <3>1 DEF Asking
    <3>4. Todo' = <<n>> \o Tail(net_notice)
      BY <1>1, <3>3 DEF Todo
    <3>5. <<n>> \o Tail(net_notice) = net_notice
      BY <1>1, <1>4, <1>5, CatHead
    <3>6. Todo' = Todo
      BY <1>4, <3>4, <3>5
    <3>7. TodoInv'
      BY <1>2, <1>7, <3>6, ChainSame DEF Core, ChainInv
    <3>8. AppInv'
      BY <1>1, <1>3, <1>8, <3>2, <3>3 DEF AppInv
    <3> QED BY <3>7, <3>8
  <2>2. CASE n.len = 0
    <3>1. UNCHANGED <<read_req, app>>
      BY <1>5, <2>2 DEF GetDataNoty
    <3>2. ~Asking'
      BY <1>1, <3>1 DEF Asking
    <3>3. Todo' = Tail(Todo)
      BY <1>1, <1>4, <3>2 DEF Todo
    <3>4. /\ ReadTo \in Counts /\ announced \in Counts /\ Linked(Todo, ReadTo, announced) /\ Below(ReadTo, announced)
      BY GivenFacts, Counters, Stages DEF Core, ChainInv, TodoInv
    <3>5. Moved(ReadTo, ReadTo, n)
      BY <1>6, <2>2, <3>4 DEF Moved, Counts
    <3>6. Linked(Tail(Todo), ReadTo, announced)
      BY <1>1, <1>4, <1>5, <3>4, <3>5, LinkFacts, LinkedPop
    <3>7. TodoInv'
      BY <1>2, <1>7, <3>3, <3>6 DEF TodoInv
    <3>8. AppInv'
      BY <1>1, <3>1, PartsSame DEF Core, ReadInv
    <3> QED BY <3>7, <3>8
  <2> QED BY <2>1, <2>2
<1> QED BY <1>10, <1>11, <1>12, <1>13, <1>14, <1>15 DEF Core, ChainInv, ReadInv, RcvInv, ByteInv

LEMMA CoreWaitSessionId ==
  ASSUME TInv, TInv', Core, WaitSessionId
  PROVE  Core'
<1>1. /\ app.state = "WAIT_SESSION_ID" /\ read_rsp # <<>> /\ echo_meta' = Append(echo_meta, app.notice)
      /\ read_rsp' = Tail(read_rsp) /\ app' = [state |-> "FORWARD_DATA"]
      /\ UNCHANGED <<sar, eng, store, notify, read_req, fsm, blocks, read_data, echo_data, echo_tx,
                     mem, conn, unacked, history>>
  BY DEF WaitSessionId
<1>2. UNCHANGED <<rx_sar_table, app_req, app_rsp, eng_req, eng_rsp,
                  rx_notice, rt_notice, notices, notify_reg, net_notice,
                  base, edge, accepted, stored, announced, freed, echoed>>
  BY <1>1 DEF sar, notify, history
<1>3. /\ Len(read_rsp) = 1 /\ Asked /\ ~Asking /\ fsm.state = "WAIT_DATA" /\ read_req = <<>>
  BY <1>1 DEF Core, ReadInv, AppInv, Asked, Asking
<1>4. read_rsp' = <<>>
  BY <1>1, <1>3, OneLeft DEF TInv, TReader, Fifo
<1>5. app'.state = "FORWARD_DATA" /\ ~Asked' /\ ~Asking'
  BY <1>1 DEF Asked, Asking
<1>6. PICK n \in DataNotices : n = app.notice
  BY <1>1, States
<1>7. Metas \in Seq(DataNotices) /\ echo_meta \in Seq(DataNotices)
  BY ChainTypes
<1>8. Metas' = Append(Metas, n)
  <2>1. CASE echo_tx.state = "READ_META"
    BY <1>1, <1>6, <2>1 DEF Metas
  <2>2. CASE echo_tx.state # "READ_META"
    <3>1. <<echo_tx.meta>> \in Seq(DataNotices)
      BY <2>2, States
    <3>2. <<echo_tx.meta>> \o Append(echo_meta, n) = Append(<<echo_tx.meta>> \o echo_meta, n)
      BY <1>7, <3>1, CatPush
    <3> QED BY <1>1, <1>6, <2>2, <3>2 DEF Metas
  <2> QED BY <2>1, <2>2
<1>9. Taken' = Taken
  BY <1>3, <1>5, <1>6, <1>8 DEF Taken
<1>10. ReadTo' = ReadTo /\ Todo' = Todo
  <2>1. ReadTo' = ReadTo
    BY <1>1, <1>2, SameFuns
  <2> QED BY <1>2, <1>3, <1>5, <2>1 DEF Todo
<1>11. TakenInv' /\ TodoInv' /\ OrderInv'
  BY <1>2, <1>9, <1>10, ChainSame DEF Core, ChainInv
<1>12. ToldInv' /\ KeptInv' /\ EngInv' /\ SpaceInv' /\ SegInv' /\ PlaceInv' /\ MemInv' /\ TableInv'
  BY <1>1, <1>2, <1>10, ReaderRest
<1>13. AppInv'
  BY <1>1, <1>3, <1>4, <1>5 DEF AppInv
<1>14. ReqInv'
  BY <1>1, <1>2, <1>3, NoReads DEF ReqInv
<1>15. DataInv'
  BY <1>1, <1>9, PartsSame DEF Core, ByteInv
<1>16. EchoInv'
  <2>1. Len(Metas) = Len(echo_data) /\ \A i \in 1 .. Len(echo_data) : echo_data[i] = Numbers(Metas[i].at, Metas[i].len)
    BY <1>1, <1>7 DEF EchoInv, Core, ByteInv, TInv, TEcho, Fifo
  <2>2. Len(Metas') = Len(Metas) + 1 /\ \A i \in 1 .. Len(Metas) : Metas'[i] = Metas[i]
    BY <1>7, <1>8, Puts
  <2>3. \A i \in 1 .. Len(echo_data') : echo_data'[i] = Numbers(Metas'[i].at, Metas'[i].len)
    BY <1>1, <2>1, <2>2
  <2> QED BY <1>1, <1>5, <2>1, <2>2, <2>3 DEF EchoInv
<1> QED BY <1>11, <1>12, <1>13, <1>14, <1>15, <1>16 DEF Core, ChainInv, ReadInv, RcvInv, ByteInv

-----------------------------------------------------------------------------
(* The echo server's answers.                                                *)

\* A step of the answering side leaves all but its chain alone.
LEMMA AnswerRest ==
  ASSUME Core, UNCHANGED <<sar, eng, store, notify, reader, app, mem, conn, base, edge, accepted,
                            stored, announced, freed>>
  PROVE  /\ ReadTo' = ReadTo /\ Todo' = Todo
         /\ TodoInv' /\ ToldInv' /\ KeptInv' /\ AppInv' /\ ReqInv' /\ EngInv' /\ SpaceInv' /\ SegInv'
         /\ PlaceInv' /\ MemInv' /\ (echoed' = echoed => TableInv')
<1>1. UNCHANGED <<rx_sar_table, app_req, app_rsp, eng_req, eng_rsp, read_req, read_rsp, fsm, blocks, read_data,
                  rx_notice, rt_notice, notices, notify_reg, net_notice>>
  BY DEF sar, reader, notify
<1>2. ReadTo' = ReadTo /\ Todo' = Todo
  BY <1>1, SameFuns
<1>3. ToldInv' /\ KeptInv' /\ EngInv' /\ SpaceInv' /\ SegInv' /\ PlaceInv' /\ MemInv' /\ (echoed' = echoed => TableInv')
  BY <1>1, <1>2, ReaderRest
<1>4. TodoInv'
  BY <1>2, ChainSame DEF Core, ChainInv
<1>5. AppInv' /\ ReqInv'
  BY <1>1, PartsSame DEF Core, ReadInv
<1> QED BY <1>2, <1>3, <1>4, <1>5

LEMMA CoreEchoMeta ==
  ASSUME TInv, TInv', Core, EchoRequest \/ EchoGranted \/ EchoRefused \/ EchoAgain
  PROVE  Core'
<1>1. UNCHANGED <<sar, eng, store, notify, reader, app, echo_data, mem, conn, history>>
  BY DEF EchoRequest, EchoGranted, EchoRefused, EchoAgain
<1>2. UNCHANGED <<base, edge, accepted, stored, announced, freed, echoed, fsm, blocks, read_data>>
  BY <1>1 DEF history, reader
<1>3. Metas' = Metas
  <2>1. CASE EchoRequest
    <3>1. /\ echo_tx.state = "READ_META" /\ echo_meta # <<>> /\ echo_meta' = Tail(echo_meta)
          /\ echo_tx' = [state |-> "WAIT_RESPONSE", meta |-> Head(echo_meta)]
      BY <2>1 DEF EchoRequest
    <3>2. echo_tx'.state = "WAIT_RESPONSE" /\ echo_tx'.meta = Head(echo_meta)
      BY <3>1
    <3>3. <<Head(echo_meta)>> \o Tail(echo_meta) = echo_meta
      BY <3>1, ChainTypes, CatHead
    <3> QED BY <3>1, <3>2, <3>3 DEF Metas
  <2>2. ASSUME NEW x \in {"WAIT_RESPONSE", "WAIT_CYCLES", "FORWARD_DATA"}, echo_tx.state # "READ_META",
               echo_tx' = [echo_tx EXCEPT !.state = x], echo_meta' = echo_meta
        PROVE  Metas' = Metas
    <3>1. PICK v, m : echo_tx = [state |-> v, meta |-> m]
      BY <2>2, States
    <3>2. echo_tx' = [state |-> x, meta |-> m]
      BY <2>2, <3>1
    <3>3. echo_tx'.state # "READ_META" /\ echo_tx'.meta = m /\ echo_tx.meta = m
      BY <3>1, <3>2
    <3> QED BY <2>2, <3>3 DEF Metas
  <2>3. CASE EchoGranted
    <3>1. echo_tx.state # "READ_META" /\ echo_tx' = [echo_tx EXCEPT !.state = "FORWARD_DATA"] /\ echo_meta' = echo_meta
      BY <2>3 DEF EchoGranted
    <3> QED BY <2>2, <3>1
  <2>4. CASE EchoRefused
    <3>1. echo_tx.state # "READ_META" /\ echo_tx' = [echo_tx EXCEPT !.state = "WAIT_CYCLES"] /\ echo_meta' = echo_meta
      BY <2>4 DEF EchoRefused
    <3> QED BY <2>2, <3>1
  <2>5. CASE EchoAgain
    <3>1. echo_tx.state # "READ_META" /\ echo_tx' = [echo_tx EXCEPT !.state = "WAIT_RESPONSE"] /\ echo_meta' = echo_meta
      BY <2>5 DEF EchoAgain
    <3> QED BY <2>2, <3>1
  <2> QED BY <2>1, <2>3, <2>4, <2>5
<1>4. Taken' = Taken
  BY <1>1, <1>2, <1>3 DEF Taken, Asked
<1>5. /\ ReadTo' = ReadTo
      /\ TodoInv' /\ ToldInv' /\ KeptInv' /\ AppInv' /\ ReqInv' /\ EngInv' /\ SpaceInv' /\ SegInv'
      /\ PlaceInv' /\ MemInv' /\ TableInv'
  BY <1>1, <1>2, AnswerRest
<1>6. TakenInv' /\ OrderInv'
  BY <1>2, <1>4, <1>5, ChainSame DEF Core, ChainInv
<1>7. DataInv' /\ EchoInv'
  BY <1>1, <1>2, <1>3, <1>4, PartsSame DEF Core, ByteInv
<1> QED BY <1>5, <1>6, <1>7 DEF Core, ChainInv, ReadInv, RcvInv, ByteInv

\* The notice whose data are sent back: the oldest one that was taken.
LEMMA ForwardFacts ==
  ASSUME TInv, TInv', Core, EchoForward
  PROVE  LET m == echo_tx.meta IN
         /\ m \in DataNotices /\ m.id \in Sessions /\ m.len \in Nat /\ m.at \in Nat
         /\ Metas \in Seq(DataNotices) /\ Metas # <<>> /\ Metas[1] = m /\ Metas' = Tail(Metas)
         /\ Taken # <<>> /\ Taken[1] = m /\ Taken' = Tail(Taken)
         /\ Asked' = Asked
         /\ m.at = echoed[m.id]
         /\ echo_data # <<>> /\ Head(echo_data) = Numbers(m.at, m.len)
         /\ Linked(Taken', echoed', ReadTo) /\ Below(echoed', ReadTo)
         /\ \A t \in Sessions : echoed[t] <= echoed'[t]
<1>1. /\ echo_tx.state = "FORWARD_DATA" /\ echo_data # <<>> /\ echo_data' = Tail(echo_data)
      /\ echoed' = [echoed EXCEPT ![echo_tx.meta.id] = @ + echo_tx.meta.len]
      /\ echo_tx' = [state |-> "READ_META"]
      /\ UNCHANGED <<sar, eng, store, notify, reader, app, echo_meta, mem, conn, base, edge,
                     accepted, stored, announced, freed>>
  BY DEF EchoForward
<1>2. PICK m \in DataNotices : m = echo_tx.meta
  BY <1>1, States
<1>3. m.id \in Sessions /\ m.len \in Nat /\ m.at \in Nat /\ m.len >= 1 /\ m \in Notices
  BY RecordFacts
<1>4. echo_meta \in Seq(DataNotices)
  BY ChainTypes
<1>5. Metas = <<m>> \o echo_meta /\ Metas' = echo_meta
  <2>1. echo_tx'.state = "READ_META"
    BY <1>1
  <2> QED BY <1>1, <1>2, <2>1 DEF Metas
<1>6. Metas \in Seq(DataNotices) /\ Metas # <<>> /\ Metas[1] = m /\ Metas' = Tail(Metas)
  BY <1>4, <1>5, CatOne
<1>7. UNCHANGED <<app, fsm>>
  BY <1>1 DEF reader
<1>8. Asked' = Asked
  BY <1>7 DEF Asked
<1>9. Taken # <<>> /\ Taken[1] = m /\ Taken' = Tail(Taken)
  <2>1. CASE ~Asked
    BY <1>6, <1>8, <2>1 DEF Taken
  <2>2. CASE Asked
    <3>1. PICK n \in DataNotices : n = app.notice
      BY <2>2, States DEF Asked
    <3>2. Taken = Append(Metas, n) /\ Taken' = Append(echo_meta, n)
      BY <1>5, <1>7, <1>8, <2>2, <3>1 DEF Taken
    <3>3. <<m>> \in Seq(DataNotices)
      OBVIOUS
    <3>4. Append(<<m>> \o echo_meta, n) = <<m>> \o Append(echo_meta, n)
      BY <1>4, <3>1, <3>3, CatPush
    <3>5. Append(echo_meta, n) \in Seq(DataNotices)
      BY <1>4, <3>1, Puts
    <3>6. Taken = <<m>> \o Append(echo_meta, n)
      BY <1>5, <3>2, <3>4
    <3> QED BY <3>2, <3>5, <3>6, CatOne
  <2> QED BY <2>1, <2>2
<1>10. /\ echoed \in Counts /\ ReadTo \in Counts /\ Linked(Taken, echoed, ReadTo) /\ Below(echoed, ReadTo)
       /\ Taken \in Seq(DataNotices) /\ Links(DataNotices)
  BY GivenFacts, Counters, Stages, ChainTypes, LinkFacts DEF Core, ChainInv, TakenInv
<1>11. echoed' \in Counts
  BY DEF TInv, TRest, Counts
<1>12. Moved(echoed, echoed', m)
  BY <1>1, <1>2, <1>3, <1>10 DEF Moved, Counts
<1>13. /\ Linked(Tail(Taken), echoed', ReadTo) /\ Below(echoed', ReadTo)
       /\ m.len > 0 => m.at = echoed[m.id]
  BY <1>9, <1>10, <1>11, <1>12, LinkedPop
<1>14. m.at = echoed[m.id]
  BY <1>3, <1>13
<1>15. ASSUME NEW t \in Sessions  PROVE echoed[t] <= echoed'[t]
  <2>1. PICK x \in Nat, l \in Nat : x = echoed[t] /\ l = m.len
    BY <1>3, <1>10 DEF Counts
  <2>2. echoed'[t] = x + l \/ echoed'[t] = x
    BY <1>12, <2>1 DEF Moved
  <2> QED BY <2>1, <2>2
<1>16. Head(echo_data) = Numbers(m.at, m.len)
  <2>1. 1 \in 1 .. Len(echo_data) /\ Head(echo_data) = echo_data[1]
    BY <1>1, Popped DEF TInv, TEcho, Fifo
  <2> QED BY <1>6, <2>1 DEF Core, ByteInv, EchoInv
<1> QED BY <1>1, <1>2, <1>3, <1>6, <1>8, <1>9, <1>13, <1>14, <1>15, <1>16

LEMMA CoreEchoForward ==
  ASSUME TInv, TInv', Core, EchoForward
  PROVE  Core'
<1>1. /\ echo_data # <<>> /\ echo_data' = Tail(echo_data)
      /\ UNCHANGED <<sar, eng, store, notify, reader, app, echo_meta, mem, conn, base, edge,
                     accepted, stored, announced, freed>>
  BY DEF EchoForward
<1>2. UNCHANGED <<rx_sar_table, app_req, eng_req, fsm, blocks, read_data>>
  BY <1>1 DEF sar, reader
<1>3. PICK m \in DataNotices :
         /\ m = echo_tx.meta
         /\ Metas \in Seq(DataNotices) /\ Metas # <<>> /\ Metas[1] = m /\ Metas' = Tail(Metas)
         /\ Taken # <<>> /\ Taken[1] = m /\ Taken' = Tail(Taken)
         /\ Asked' = Asked
         /\ Linked(Taken', echoed', ReadTo) /\ Below(echoed', ReadTo)
         /\ \A t \in Sessions : echoed[t] <= echoed'[t]
  BY ForwardFacts
<1>4. /\ ReadTo' = ReadTo
      /\ TodoInv' /\ ToldInv' /\ KeptInv' /\ AppInv' /\ ReqInv' /\ EngInv' /\ SpaceInv' /\ SegInv'
      /\ PlaceInv' /\ MemInv'
  BY <1>1, AnswerRest
<1>5. TakenInv'
  BY <1>3, <1>4 DEF TakenInv
<1>6. OrderInv'
  BY <1>1, <1>3, <1>4 DEF OrderInv, Below, Core, ChainInv
<1>7. TableInv'
  <2>1. TableInv
    BY DEF Core, RcvInv
  <2>2. \A t \in Sessions : (Starting(t)' <=> Starting(t)) /\ (Writing(t)' <=> Writing(t)) /\ (Giving(t)' <=> Giving(t))
    BY <1>2 DEF Starting, Writing, Giving
  <2>3. \A t \in Sessions, r \in Nat : Entered(t, r) => Entered(t, r)'
    BY <1>1, <1>2, <2>2 DEF Entered
  <2>4. ASSUME NEW t \in Sessions, echoed[t] = accepted[t]  PROVE echoed'[t] = accepted[t]
    <3>1. /\ echoed'[t] <= ReadTo[t] /\ ReadTo[t] <= announced[t] /\ announced[t] <= stored[t]
          /\ stored[t] <= accepted[t] /\ echoed[t] <= echoed'[t]
      BY <1>3, Stages DEF Below, Core, ChainInv
    <3>2. ReadTo[t] \in Nat /\ announced[t] \in Nat /\ stored[t] \in Nat /\ accepted[t] \in Nat /\ echoed'[t] \in Nat
      BY Counters, GivenFacts DEF TInv, TRest
    <3> QED BY <2>4, <3>1, <3>2
  <2> QED BY <1>1, <1>2, <2>1, <2>2, <2>3, <2>4 DEF TableInv
<1>8. echo_data \in Seq(Bytes) /\ Len(echo_data) \in Nat /\ Len(echo_data) >= 1 /\ Len(echo_data') = Len(echo_data) - 1
      /\ \A i \in 1 .. Len(echo_data) - 1 : echo_data'[i] = echo_data[i + 1]
  BY <1>1, Popped DEF TInv, TEcho, Fifo
<1>9. Len(Metas) \in Nat /\ Len(Metas) >= 1 /\ Len(Metas') = Len(Metas) - 1
      /\ \A i \in 1 .. Len(Metas) - 1 : Metas'[i] = Metas[i + 1]
  BY <1>3, Popped
<1>10. /\ Len(Metas) = Len(echo_data) + (IF app.state = "FORWARD_DATA" THEN 1 ELSE 0)
       /\ \A i \in 1 .. Len(echo_data) : echo_data[i] = Numbers(Metas[i].at, Metas[i].len)
  BY DEF Core, ByteInv, EchoInv
<1>11. EchoInv'
  <2>1. Len(Metas') = Len(echo_data') + (IF app'.state = "FORWARD_DATA" THEN 1 ELSE 0)
    BY <1>1, <1>8, <1>9, <1>10
  <2>2. ASSUME NEW i \in 1 .. Len(echo_data')
        PROVE  echo_data'[i] = Numbers(Metas'[i].at, Metas'[i].len)
    <3>1. i \in 1 .. Len(echo_data) - 1 /\ i + 1 \in 1 .. Len(echo_data) /\ i \in 1 .. Len(Metas) - 1
      BY <1>8, <1>9, <1>10
    <3>2. echo_data'[i] = echo_data[i + 1] /\ Metas'[i] = Metas[i + 1]
      BY <1>8, <1>9, <3>1
    <3> QED BY <1>10, <3>1, <3>2
  <2> QED BY <2>1, <2>2 DEF EchoInv
<1>12. DataInv'
  <2> SUFFICES ASSUME fsm.state = "WAIT_DATA"  PROVE DataInv'
    BY <1>2 DEF DataInv
  <2>1. Taken \in Seq(DataNotices) /\ Len(Taken) \in Nat /\ Len(Taken') = Len(Taken) - 1
        /\ \A i \in 1 .. Len(Taken) - 1 : Taken'[i] = Taken[i + 1]
    BY <1>3, ChainTypes, Popped
  <2>2. Len(Taken) >= 2
    <3>1. CASE Asked
      <4>1. PICK n \in DataNotices : n = app.notice
        BY <3>1, States DEF Asked
      <4>2. Len(Taken) = Len(Metas) + 1
        BY <1>3, <3>1, <4>1, Puts DEF Taken
      <4> QED BY <1>9, <4>2
    <3>2. CASE ~Asked
      <4>1. app.state = "FORWARD_DATA"
        BY <3>2, States DEF Core, ReadInv, AppInv, Asked, Idle
      <4>2. Taken = Metas
        BY <3>2 DEF Taken
      <4> QED BY <1>8, <1>10, <4>1, <4>2
    <3> QED BY <3>1, <3>2
  <2>3. Taken' # <<>> /\ UnderWay' = UnderWay
    <3>1. Len(Taken') \in 1 .. Len(Taken) - 1 /\ Len(Taken') + 1 = Len(Taken)
      BY <2>1, <2>2
    <3>2. Taken'[Len(Taken')] = Taken[Len(Taken)]
      BY <2>1, <3>1
    <3>3. Taken' # <<>>
      <4>1. Len(Taken') # 0
        BY <2>1, <2>2
      <4> QED BY <4>1
    <3> QED BY <3>2, <3>3 DEF UnderWay
  <2>4. DataInv
    BY DEF Core, ByteInv
  <2> QED BY <1>1, <1>2, <2>3, <2>4 DEF DataInv, Part, Holds
<1> QED BY <1>4, <1>5, <1>6, <1>7, <1>11, <1>12 DEF Core, ChainInv, ReadInv, RcvInv, ByteInv

-----------------------------------------------------------------------------
(* The reads of the data mover.                                              *)

LEMMA CoreMoverRead ==
  ASSUME TInv, TInv', Core, MoverRead
  PROVE  Core'
<1>1. /\ blocks # <<>> /\ blocks' = Tail(blocks)
      /\ UNCHANGED <<sar, eng, store, notify, read_req, read_rsp, fsm, echo, mem, conn, unacked, history>>
  BY DEF MoverRead
<1>2. UNCHANGED <<rx_sar_table, app_req, app_rsp, eng_req, eng_rsp, rx_notice, rt_notice, notices, notify_reg, net_notice,
                  app, echo_meta, echo_data, echo_tx, base, edge, accepted, stored, announced, freed, echoed>>
  BY <1>1 DEF sar, notify, echo, history
<1>3. ReadTo' = ReadTo /\ Metas' = Metas /\ Taken' = Taken /\ Todo' = Todo /\ Told' = Told
  BY <1>1, <1>2, SameFuns
<1>4. ChainInv'
  BY <1>1, <1>2, <1>3, ChainSame DEF Core, ChainInv
<1>5. AppInv' /\ ReqInv' /\ RcvInv'
  BY <1>1, <1>2, PartsSame DEF Core, ReadInv, RcvInv
<1>6. MemInv' /\ EchoInv'
  BY <1>1, <1>2, <1>3, PartsSame DEF Core, ByteInv
<1>7. PICK b \in Blocks : b = Head(blocks) /\ b = blocks[1]
  BY <1>1, Popped DEF TInv, TReader
<1>8. b.id \in Sessions /\ b.len \in Nat /\ b.addr \in Addrs
  BY RecordFacts
<1>9. PICK d : d = [i \in 1 .. b.len |-> mem[b.id][b.addr + i - 1]]
  OBVIOUS
<1>10. d \in Bytes
  <2>1. read_data' = Append(read_data, d) /\ read_data' \in Seq(Bytes) /\ read_data \in Seq(Bytes)
    BY <1>7, <1>9 DEF MoverRead, TInv, TReader
  <2>2. \A i \in 1 .. b.len : mem[b.id][b.addr + i - 1] \in Int
    <3> TAKE i \in 1 .. b.len
    <3>1. b.addr + b.len <= BufMod
      <4>1. 1 \in 1 .. Len(blocks)
        BY <1>1 DEF TInv, TReader
      <4> QED BY <1>7, <4>1 DEF TInv, TReader
    <3>2. b.addr + i - 1 \in Addrs
      BY <1>8, <3>1, Modulus DEF Addrs
    <3>3. mem[b.id][b.addr + i - 1] \in (0 .. MaxBytes) \cup {Empty}
      BY <1>8, <3>2 DEF TInv, TRest
    <3> QED BY <3>3, DepthFacts DEF Empty
  <2> QED BY <1>8, <1>9, <2>2 DEF Bytes
<1>11. /\ read_data \in Seq(Bytes) /\ Len(read_data) \in Nat /\ Len(read_data') = Len(read_data) + 1
       /\ read_data'[Len(read_data) + 1] = d /\ \A i \in 1 .. Len(read_data) : read_data'[i] = read_data[i]
  <2>1. read_data' = Append(read_data, d) /\ read_data \in Seq(Bytes)
    BY <1>7, <1>9 DEF MoverRead, TInv, TReader
  <2> QED BY <1>10, <2>1, Puts
<1>12. /\ blocks \in Seq(Blocks) /\ Len(blocks) \in Nat /\ Len(blocks) >= 1
       /\ \A i \in 1 .. Len(blocks) - 1 : blocks'[i] = blocks[i + 1]
  BY <1>1, Popped DEF TInv, TReader
<1>13. ASSUME NEW k \in 1 .. 2, k <= Len(read_data) + Len(blocks), NEW a \in Nat, NEW c \in Nat, Part(k, a, c)
       PROVE  Part(k, a, c)'
  <2>1. CASE k <= Len(read_data)
    <3>1. k \in 1 .. Len(read_data) /\ k <= Len(read_data')
      BY <1>11, <2>1
    <3>2. read_data[k] = Numbers(a, c - a)
      BY <1>13, <2>1 DEF Part
    <3> QED BY <1>11, <3>1, <3>2 DEF Part
  <2>2. CASE k = Len(read_data) + 1
    <3>1. ~(k <= Len(read_data)) /\ k - Len(read_data) = 1 /\ k <= Len(read_data')
      BY <1>11, <2>2
    <3>2. b.len = c - a /\ Holds(b, a)
      BY <1>7, <1>13, <3>1 DEF Part
    <3>3. d = Numbers(a, c - a)
      <4>1. ASSUME NEW i \in 1 .. b.len  PROVE mem[b.id][b.addr + i - 1] = a + i - 1
        <5>1. PICK j \in 0 .. b.len - 1 : j = i - 1
          <6>1. i - 1 \in 0 .. b.len - 1
            BY <1>8
          <6> QED BY <6>1
        <5>2. mem[b.id][b.addr + j] = a + j
          BY <3>2 DEF Holds
        <5>3. b.addr + j = b.addr + i - 1 /\ a + j = a + i - 1
          BY <1>8, <5>1 DEF Addrs
        <5> QED BY <5>2, <5>3
      <4> QED BY <1>9, <3>2, <4>1 DEF Numbers
    <3>4. read_data'[k] = Numbers(a, c - a)
      BY <1>11, <2>2, <3>3
    <3> QED BY <3>1, <3>4 DEF Part
  <2>3. CASE k > Len(read_data) + 1
    <3>1. PICK m \in 1 .. Len(blocks) - 1 : m = k - Len(read_data) - 1
      <4>1. k - Len(read_data) - 1 \in 1 .. Len(blocks) - 1
        BY <1>11, <1>12, <1>13, <2>3
      <4> QED BY <4>1
    <3>2. ~(k <= Len(read_data)) /\ ~(k <= Len(read_data')) /\ k - Len(read_data) = m + 1 /\ k - Len(read_data') = m
      BY <1>11, <2>3, <3>1
    <3>3. blocks[m + 1].len = c - a /\ Holds(blocks[m + 1], a)
      BY <1>13, <3>2 DEF Part
    <3>4. blocks'[m] = blocks[m + 1]
      BY <1>12
    <3>5. blocks'[k - Len(read_data')].len = c - a /\ Holds(blocks'[k - Len(read_data')], a)
      BY <3>2, <3>3, <3>4
    <3>6. Holds(blocks[k - Len(read_data)], a)'
      BY <1>1, <3>5 DEF Holds
    <3> QED BY <3>2, <3>5, <3>6 DEF Part
  <2> QED BY <1>11, <2>1, <2>2, <2>3
<1>14. DataInv'
  <2> SUFFICES ASSUME fsm.state = "WAIT_DATA"  PROVE DataInv'
    BY <1>1 DEF DataInv
  <2>1. Taken # <<>> /\ UnderWay' = UnderWay
    BY <1>3 DEF Core, ByteInv, DataInv, UnderWay
  <2>2. PICK u \in Nat, e \in Nat : u = UnderWay.at /\ e = End(UnderWay)
    <3>1. Taken \in Seq(Notices) /\ Len(Taken) \in 1 .. Len(Taken)
      BY <2>1, ChainTypes, Popped
    <3>2. UnderWay \in Notices
      BY <3>1, Element DEF UnderWay
    <3> QED BY <3>2, RecordFacts DEF End
  <2>3. UnderWay'.at = u /\ End(UnderWay') = e
    BY <2>1, <2>2
  <2>4. Len(read_data) + Len(blocks) = fsm.parts
    BY DEF TInv, TReader
  <2>5. CASE fsm.parts = 1 /\ Part(1, u, e)
    <3>1. Part(1, u, e)'
      BY <1>13, <2>4, <2>5
    <3> QED BY <1>1, <1>3, <2>1, <2>3, <2>5, <3>1 DEF DataInv
  <2>6. CASE fsm.parts = 2 /\ \E c \in Nat : u < c /\ c < e /\ Part(1, u, c) /\ Part(2, c, e)
    <3>1. PICK c \in Nat : u < c /\ c < e /\ Part(1, u, c) /\ Part(2, c, e)
      BY <2>6
    <3>2. Part(1, u, c)' /\ Part(2, c, e)'
      BY <1>13, <2>4, <2>6, <3>1
    <3> QED BY <1>1, <1>3, <2>1, <2>3, <2>6, <3>1, <3>2 DEF DataInv
  <2> QED BY <2>2, <2>5, <2>6 DEF Core, ByteInv, DataInv
<1> QED BY <1>4, <1>5, <1>6, <1>14 DEF Core, ReadInv, ByteInv

\* Two runs of numbers, one behind the other.
LEMMA NumbersJoin ==
  ASSUME NEW a \in Nat, NEW n \in Nat, NEW m \in Nat
  PROVE  /\ Numbers(a, n) \in Seq(Int) /\ Len(Numbers(a, n)) = n
         /\ Numbers(a, n) \o Numbers(a + n, m) = Numbers(a, n + m)
<1>1. \A b \in Nat, k \in Nat : /\ Numbers(b, k) \in Seq(Int) /\ Len(Numbers(b, k)) = k
                                /\ \A i \in 1 .. k : Numbers(b, k)[i] = b + i - 1
  BY DEF Numbers
<1>20. a + n \in Nat /\ n + m \in Nat
  OBVIOUS
<1>21. PICK x \in Seq(Int), y \in Seq(Int), z \in Seq(Int) :
         x = Numbers(a, n) /\ y = Numbers(a + n, m) /\ z = Numbers(a, n + m)
  BY <1>1, <1>20
<1>22. Len(x) = n /\ \A i \in 1 .. n : x[i] = a + i - 1
  BY <1>1, <1>21
<1>23. Len(y) = m /\ \A i \in 1 .. m : y[i] = (a + n) + i - 1
  BY <1>1, <1>20, <1>21
<1>24. Len(z) = n + m /\ \A i \in 1 .. n + m : z[i] = a + i - 1
  BY <1>1, <1>20, <1>21
<1>3. /\ x \o y \in Seq(Int) /\ Len(x \o y) = n + m
      /\ \A i \in 1 .. n : (x \o y)[i] = x[i]
      /\ \A i \in n + 1 .. n + m : (x \o y)[i] = y[i - n]
  <2>1. /\ x \o y \in Seq(Int) /\ Len(x \o y) = Len(x) + Len(y)
        /\ \A i \in 1 .. Len(x) : (x \o y)[i] = x[i]
        /\ \A i \in Len(x) + 1 .. Len(x) + Len(y) : (x \o y)[i] = y[i - Len(x)]
    BY CatType
  <2>2. Len(x) = n /\ Len(y) = m
    BY <1>22, <1>23
  <2> QED BY <2>1, <2>2
<1>4. ASSUME NEW i \in 1 .. n + m  PROVE (x \o y)[i] = z[i]
  <2>1. CASE i <= n
    <3>1. i \in 1 .. n
      BY <2>1
    <3> QED BY <1>3, <1>22, <1>24, <3>1
  <2>2. CASE n < i
    <3>1. PICK k \in 1 .. m : k = i - n
      <4>1. i - n \in 1 .. m
        BY <2>2
      <4> QED BY <4>1
    <3>2. i \in n + 1 .. n + m
      BY <2>2
    <3>3. (x \o y)[i] = y[k]
      BY <1>3, <3>1, <3>2
    <3>4. y[k] = (a + n) + k - 1 /\ z[i] = a + i - 1
      BY <1>23, <1>24
    <3>5. i \in Int /\ k \in Int
      OBVIOUS
    <3>6. (a + n) + k - 1 = a + i - 1
      BY <3>1, <3>5
    <3> QED BY <3>3, <3>4, <3>6
  <2>3. i \in Int
    OBVIOUS
  <2>4. i <= n \/ n < i
    BY <2>3
  <2> QED BY <2>1, <2>2, <2>4, Zenon
<1>5. x \o y = z
  <2>1. Len(x \o y) = Len(z)
    BY <1>3, <1>24
  <2>2. \A i \in 1 .. Len(x \o y) : (x \o y)[i] = z[i]
    BY <1>3, <1>4
  <2> QED BY <1>3, <2>1, <2>2, SeqSame
<1> QED BY <1>1, <1>5, <1>21

\* The data handed to the echo server are the bytes of the notice.
LEMMA JoinedFacts ==
  ASSUME TInv, Core, fsm.state = "WAIT_DATA", Len(read_data) = fsm.parts,
         ~(Len(read_data) = 2 /\ Len(read_data[1]) > WordBytes)
  PROVE  Joined(read_data) = Numbers(UnderWay.at, UnderWay.len)
<1>1. Taken # <<>>
  BY DEF Core, ByteInv, DataInv
<1>2. PICK n \in Notices : n = UnderWay
  <2>1. Taken \in Seq(Notices) /\ Len(Taken) \in 1 .. Len(Taken)
    BY <1>1, ChainTypes, Popped
  <2> QED BY <2>1, Element DEF UnderWay
<1>3. PICK u \in Nat, l \in Nat : u = n.at /\ l = n.len
  BY RecordFacts
<1>4. PICK e \in Nat : e = u + l /\ e = End(n)
  <2>1. u + l \in Nat
    OBVIOUS
  <2> QED BY <1>3, <2>1 DEF End
<1>5. CASE fsm.parts = 1 /\ Part(1, u, e)
  <2>1. read_data[1] = Numbers(u, e - u)
    BY <1>5 DEF Part
  <2>2. e - u = l
    BY <1>4
  <2> QED BY <1>2, <1>3, <1>5, <2>1, <2>2 DEF Joined
<1>6. CASE fsm.parts = 2 /\ \E c \in Nat : u < c /\ c < e /\ Part(1, u, c) /\ Part(2, c, e)
  <2>1. PICK c \in Nat : u < c /\ c < e /\ Part(1, u, c) /\ Part(2, c, e)
    BY <1>6
  <2>2. read_data[1] = Numbers(u, c - u) /\ read_data[2] = Numbers(c, e - c)
    BY <1>6, <2>1 DEF Part
  <2>3. PICK p \in Nat, q \in Nat : p = c - u /\ q = e - c /\ p >= 1
    <3>1. c - u \in Nat /\ e - c \in Nat /\ c - u >= 1
      BY <2>1
    <3> QED BY <3>1
  <2>4. c = u + p /\ p + q = l
    BY <1>4, <2>3
  <2>5. Numbers(u, p) \in Seq(Int) /\ Len(Numbers(u, p)) = p /\ Numbers(u, p) \o Numbers(u + p, q) = Numbers(u, p + q)
    BY NumbersJoin
  <2>6. p <= WordBytes
    BY <1>6, <2>2, <2>3, <2>5, Modulus
  <2>7. LastWord(Numbers(u, p)) = Numbers(u, p)
    BY <2>3, <2>5, <2>6, LastWordType
  <2>8. Joined(read_data) = LastWord(Numbers(u, p)) \o Numbers(u + p, q)
    BY <1>6, <2>2, <2>3, <2>4 DEF Joined
  <2> QED BY <1>2, <1>3, <2>4, <2>5, <2>7, <2>8
<1> QED BY <1>2, <1>3, <1>4, <1>5, <1>6 DEF Core, ByteInv, DataInv

LEMMA CoreDeliver ==
  ASSUME TInv, TInv', Core, Deliver, Healthy'
  PROVE  Core'
<1>1. /\ fsm.state = "WAIT_DATA" /\ Len(read_data) = fsm.parts /\ app.state = "FORWARD_DATA"
      /\ echo_data' = Append(echo_data, Joined(read_data)) /\ read_data' = <<>>
      /\ fsm' = Idle /\ app' = [state |-> "GET_DATA_NOTY"]
      /\ UNCHANGED <<sar, eng, store, notify, read_req, read_rsp, blocks, echo_meta, echo_tx, mem,
                     conn, unacked, history>>
  BY DEF Deliver, AfterData
<1>2. UNCHANGED <<rx_sar_table, app_req, app_rsp, eng_req, eng_rsp,
                  rx_notice, rt_notice, notices, notify_reg, net_notice,
                  base, edge, accepted, stored, announced, freed, echoed>>
  BY <1>1 DEF sar, notify, history
<1>3. ~(Len(read_data) = 2 /\ Len(read_data[1]) > WordBytes)
  <2>1. deviation' = IF Healthy /\ Len(read_data) = 2 /\ Len(read_data[1]) > WordBytes THEN "words_lost" ELSE deviation
    BY DEF Deliver, Deviate
  <2>2. deviation' = "none"
    BY DEF Healthy
  <2> QED BY <2>1, <2>2 DEF Healthy
<1>4. /\ ~Asking /\ ~Asked /\ ~Asking' /\ ~Asked' /\ fsm'.state = "WAIT_NET_APP_DATA_REQ"
      /\ app'.state = "GET_DATA_NOTY"
  BY <1>1 DEF Asking, Asked, Idle
<1>5. read_req = <<>> /\ read_rsp = <<>>
  BY <1>4 DEF Core, ReadInv, AppInv
<1>6. ReadTo' = ReadTo /\ Metas' = Metas /\ Taken' = Taken /\ Todo' = Todo
  <2>1. ReadTo' = ReadTo /\ Metas' = Metas
    BY <1>1, <1>2, SameFuns
  <2> QED BY <1>2, <1>4, <2>1 DEF Taken, Todo
<1>7. TakenInv' /\ TodoInv' /\ OrderInv'
  BY <1>2, <1>6, ChainSame DEF Core, ChainInv
<1>8. ToldInv' /\ KeptInv' /\ EngInv' /\ SpaceInv' /\ SegInv' /\ PlaceInv' /\ MemInv' /\ TableInv'
  BY <1>1, <1>2, <1>6, ReaderRest
<1>9. AppInv'
  BY <1>1, <1>4, <1>5 DEF AppInv
<1>10. ReqInv'
  BY <1>1, <1>2, NoReads DEF ReqInv
<1>11. DataInv'
  BY <1>4 DEF DataInv
<1>12. EchoInv'
  <2>1. Joined(read_data) = Numbers(UnderWay.at, UnderWay.len)
    BY <1>1, <1>3, JoinedFacts
  <2>2. Taken = Metas
    BY <1>4 DEF Taken
  <2>3. echo_data \in Seq(Bytes) /\ Joined(read_data) \in Bytes
    <3>1. read_data \in Seq(Bytes) /\ Len(read_data) \in {1, 2}
          /\ \A i \in 1 .. Len(read_data) : Len(read_data[i]) >= 1
      BY <1>1, States DEF TInv, TReader
    <3>2. Joined(read_data) \in Bytes
      BY <3>1, JoinedType
    <3> QED BY <3>2 DEF TInv, TEcho, Fifo
  <2>4. /\ Len(echo_data) \in Nat /\ Len(echo_data') = Len(echo_data) + 1
        /\ echo_data'[Len(echo_data) + 1] = Joined(read_data)
        /\ \A i \in 1 .. Len(echo_data) : echo_data'[i] = echo_data[i]
    BY <1>1, <2>3, Puts
  <2>5. Len(Metas) = Len(echo_data) + 1 /\ \A i \in 1 .. Len(echo_data) : echo_data[i] = Numbers(Metas[i].at, Metas[i].len)
    BY <1>1 DEF Core, ByteInv, EchoInv
  <2>6. ASSUME NEW i \in 1 .. Len(echo_data')  PROVE echo_data'[i] = Numbers(Metas'[i].at, Metas'[i].len)
    <3>1. CASE i \in 1 .. Len(echo_data)
      BY <1>6, <2>4, <2>5, <3>1
    <3>2. CASE i = Len(echo_data) + 1
      <4>1. UnderWay = Metas[i]
        BY <2>2, <2>5, <3>2 DEF UnderWay
      <4> QED BY <1>6, <2>1, <2>4, <3>2, <4>1
    <3> QED BY <2>4, <3>1, <3>2
  <2>7. Len(Metas') = Len(echo_data') + 0
    BY <1>6, <2>4, <2>5
  <2> QED BY <1>4, <2>6, <2>7 DEF EchoInv
<1> QED BY <1>7, <1>8, <1>9, <1>10, <1>11, <1>12 DEF Core, ChainInv, ReadInv, RcvInv, ByteInv

-----------------------------------------------------------------------------
(* The data are asked for, and their room is given back.                      *)

\* The request that was answered, and what is known of it.
LEMMA AnswerFacts ==
  ASSUME TInv, Core, fsm.state = "WAIT_SAR_RSP", app_rsp # <<>>
  PROVE  LET n == app.notice IN
         /\ n \in DataNotices /\ n.id \in Sessions /\ n.len \in Nat /\ n.at \in Nat /\ n.len >= 1
         /\ Asking /\ app.state = "WAIT_SESSION_ID" /\ fsm.len = n.len /\ read_req = <<>> /\ read_rsp = <<>>
         /\ app_req = <<>> /\ Tail(app_rsp) = <<>>
         /\ Head(app_rsp).id = n.id /\ Head(app_rsp).app_read = rx_sar_table[n.id].app_read
         /\ Todo = <<n>> \o net_notice /\ Taken = Metas
         /\ \A t \in Sessions : ReadTo[t] = freed[t]
         /\ n.at = freed[n.id] /\ End(n) <= announced[n.id] /\ n.len < BufMod
         /\ ~Starting(n.id) /\ rx_sar_table[n.id].app_read = Low(base[n.id] + freed[n.id])
<1>1. Asking /\ app.state = "WAIT_SESSION_ID" /\ fsm.len = app.notice.len /\ read_req = <<>> /\ read_rsp = <<>>
  BY DEF Core, ReadInv, AppInv, Idle, Asking, Asked
<1>2. PICK n \in DataNotices : n = app.notice
  BY <1>1, States
<1>3. n.id \in Sessions /\ n.len \in Nat /\ n.at \in Nat /\ n.len >= 1 /\ n \in Notices
  BY RecordFacts
<1>4. /\ Len(app_rsp) = 1 /\ app_req = <<>> /\ app_rsp[1].id = n.id
      /\ app_rsp[1].app_read = rx_sar_table[n.id].app_read
  BY <1>2 DEF Core, ReadInv, ReqInv
<1>5. Head(app_rsp) = app_rsp[1] /\ Tail(app_rsp) = <<>>
  BY <1>4, OneLeft, Popped DEF TInv, TSar, Fifo
<1>6. Todo = <<n>> \o net_notice /\ Taken = Metas
  BY <1>1, <1>2 DEF Todo, Taken, Asking, Asked
<1>7. \A t \in Sessions : ReadTo[t] = freed[t]
  <2>1. \A t \in Sessions : Given(t) = 0
    BY <1>4 DEF Given, Giving
  <2>2. \A t \in Sessions : freed[t] \in Nat /\ ReadTo[t] = freed[t] + 0
    BY <2>1, GivenFacts, Counters
  <2>3. ASSUME NEW t \in Sessions  PROVE ReadTo[t] = freed[t]
    <3>1. PICK x \in Nat : x = freed[t]
      BY <2>2
    <3>2. ReadTo[t] = x + 0
      BY <2>2, <3>1
    <3> QED BY <3>1, <3>2
  <2> QED BY <2>3
<1>8. n.at = ReadTo[n.id] /\ End(n) <= announced[n.id]
  <2>1. /\ ReadTo \in Counts /\ announced \in Counts /\ Linked(Todo, ReadTo, announced) /\ Below(ReadTo, announced)
        /\ Todo \in Seq(Notices) /\ Links(Notices)
    BY GivenFacts, Counters, Stages, ChainTypes, LinkFacts DEF Core, ChainInv, TodoInv
  <2>2. Todo # <<>> /\ Todo[1] = n
    BY <1>3, <1>6, ChainTypes, CatOne
  <2>3. PICK up \in Counts : Moved(ReadTo, up, n)
    <3>1. [ReadTo EXCEPT ![n.id] = @ + n.len] \in Counts
      BY <1>3, <2>1 DEF Counts
    <3>2. Moved(ReadTo, [ReadTo EXCEPT ![n.id] = @ + n.len], n)
      BY <1>3, <2>1 DEF Counts, Moved
    <3> QED BY <3>1, <3>2
  <2>4. n.len > 0 => n.at = ReadTo[n.id] /\ End(n) <= announced[n.id]
    BY <2>1, <2>2, <2>3, LinkedPop
  <2> QED BY <1>3, <2>4
<1>9. PICK f \in Nat, a \in Nat, l \in Nat, h \in Nat :
         f = freed[n.id] /\ a = accepted[n.id] /\ l = n.len /\ h = announced[n.id]
  BY <1>3, Counters
<1>10. f + l <= h /\ h <= a /\ a - f <= BufMod - 1
  <2>1. announced[n.id] <= stored[n.id] /\ stored[n.id] <= accepted[n.id] /\ stored[n.id] \in Nat
        /\ accepted[n.id] - freed[n.id] <= BufMod - 1
    BY <1>3, Stages, Counters DEF Core, ChainInv, RcvInv, SpaceInv
  <2>2. End(n) = f + l
    <3>1. n.at = freed[n.id]
      BY <1>3, <1>7, <1>8
    <3> QED BY <1>9, <3>1 DEF End
  <2>3. f + l <= h
    BY <1>8, <1>9, <2>2
  <2>4. PICK w \in Nat : h <= w /\ w <= a
    BY <1>9, <2>1
  <2> QED BY <1>9, <2>1, <2>3, <2>4
<1>11. n.len < BufMod
  <2>1. l <= a - f
    BY <1>10
  <2> QED BY <1>9, <1>10, <2>1, Modulus
<1>12. ~Starting(n.id)
  <2> SUFFICES ASSUME Starting(n.id)  PROVE FALSE
    OBVIOUS
  <2>1. freed[n.id] = accepted[n.id]
    BY <1>3, StartFacts DEF Core, ChainInv, RcvInv
  <2> QED BY <1>3, <1>9, <1>10, <2>1
<1>13. rx_sar_table[n.id].app_read = Low(base[n.id] + freed[n.id])
  BY <1>3, <1>12 DEF Core, RcvInv, TableInv
<1> QED BY <1>1, <1>2, <1>3, <1>4, <1>5, <1>6, <1>7, <1>8, <1>11, <1>12, <1>13

\* The bytes the accesses will find.
LEMMA AccessData ==
  ASSUME TInv, Core, NEW s \in Sessions, NEW n \in Lens, n < BufMod, NEW p \in Addrs, NEW f \in Nat,
         f = freed[s], ReadTo[s] = f, f + n <= stored[s], p = Low(base[s] + f)
  PROVE  LET q == Accesses(s, p, n) IN
         /\ q \in Seq(Blocks)
         /\ p + n < BufMod => Len(q) = 1 /\ q[1].len = n /\ Holds(q[1], f)
         /\ p + n >= BufMod =>
              /\ Len(q) = 2 /\ q[1].len = BufMod - p /\ q[2].len = n - (BufMod - p)
              /\ Holds(q[1], f) /\ Holds(q[2], f + (BufMod - p))
<1>1. PICK b \in Nat, u \in Nat : b = base[s] /\ u = stored[s]
  BY Counters
<1>2. BufMod \in Nat /\ BufMod > 1 /\ p \in Int /\ 0 <= p /\ p < BufMod /\ n \in Int /\ 1 <= n
  BY Modulus DEF Addrs, Lens
<1>3. ASSUME NEW i \in Int, 0 <= i, i < n
      PROVE  mem[s][Low(p + i)] = f + i
  <2>1. PICK x \in Nat : x = f + i /\ f <= x /\ x < u
    <3>1. f + i \in Nat /\ f <= f + i /\ f + i < f + n /\ f + n <= u
      BY <1>1, <1>2, <1>3
    <3> QED BY <1>1, <1>2, <1>3, <3>1
  <2>2. mem[s][Low(b + x)] = x
    BY <1>1, <2>1 DEF Core, ByteInv, MemInv
  <2>3. PICK y \in Int : y = b + f
    OBVIOUS
  <2>4. Low(Low(y) + i) = Low(y + i)
    BY LowStep
  <2>5. y + i = b + x
    BY <2>1, <2>3
  <2>6. Low(p + i) = Low(b + x)
    BY <1>1, <2>3, <2>4, <2>5
  <2> QED BY <2>1, <2>2, <2>6
<1>4. ASSUME NEW i \in Int, 0 <= i, i < BufMod  PROVE Low(i) = i /\ Low(BufMod + i) = i
  <2>1. i \in 0 .. BufMod - 1
    BY <1>2, <1>4
  <2>2. Same(BufMod, i, i) /\ Same(BufMod, i + BufMod, i)
    BY <1>2, SameSelf
  <2>3. PICK z \in Int : z = BufMod + i
    BY <1>2
  <2>4. z = i + BufMod
    BY <1>2, <2>3
  <2>5. Low(i) = i
    BY <2>1, <2>2, LowFacts
  <2>6. Low(z) = i
    BY <2>1, <2>2, <2>4, LowFacts
  <2> QED BY <2>3, <2>5, <2>6
<1> DEFINE q == Accesses(s, p, n)
<1>5. PICK first \in Nat : first = BufMod - p /\ first >= 1
  <2>1. BufMod - p \in Nat /\ BufMod - p >= 1
    BY <1>2
  <2> QED BY <2>1
<1>6. CASE p + n < BufMod
  <2>1. PICK c : c = [id |-> s, addr |-> p, len |-> n]
    OBVIOUS
  <2>2. q \in Seq(Blocks) /\ Len(q) = 1 /\ q[1] = c
    BY <1>6, <2>1, AccessFacts
  <2>3. Holds(c, f)
    <3> SUFFICES ASSUME NEW i \in 0 .. n - 1  PROVE mem[s][p + i] = f + i
      BY <2>1 DEF Holds
    <3>1. i \in Int /\ 0 <= i /\ i < n
      BY <1>2
    <3>2. PICK z \in Int : z = p + i /\ 0 <= z /\ z < BufMod
      <4>1. p + i \in Int /\ 0 <= p + i /\ p + i < BufMod
        BY <1>2, <1>6, <3>1
      <4> QED BY <4>1
    <3>3. Low(z) = z
      BY <1>4, <3>2
    <3> QED BY <1>3, <3>1, <3>2, <3>3
  <2>4. ~(p + n >= BufMod)
    BY <1>2, <1>6
  <2>5. q[1].len = n /\ Holds(q[1], f)
    BY <2>1, <2>2, <2>3
  <2> QED BY <2>2, <2>4, <2>5
<1>7. CASE ~(p + n < BufMod)
  <2>0. p + n >= BufMod
    BY <1>2, <1>7
  <2>1. PICK c, d : c = [id |-> s, addr |-> p, len |-> first] /\ d = [id |-> s, addr |-> 0, len |-> n - first]
    OBVIOUS
  <2>2. q \in Seq(Blocks) /\ Len(q) = 2 /\ q[1] = c /\ q[2] = d
    BY <1>5, <2>0, <2>1, AccessFacts
  <2>3. Holds(c, f)
    <3> SUFFICES ASSUME NEW i \in 0 .. first - 1  PROVE mem[s][p + i] = f + i
      BY <2>1 DEF Holds
    <3>1. i \in Int /\ 0 <= i /\ i < first
      BY <1>5
    <3>2. i < n
      BY <1>2, <1>5, <2>0, <3>1
    <3>3. PICK z \in Int : z = p + i /\ 0 <= z /\ z < BufMod
      <4>1. p + i \in Int /\ 0 <= p + i /\ p + i < BufMod
        BY <1>2, <1>5, <3>1
      <4> QED BY <4>1
    <3>4. Low(z) = z
      BY <1>4, <3>3
    <3> QED BY <1>3, <3>1, <3>2, <3>3, <3>4
  <2>4. Holds(d, f + first)
    <3> SUFFICES ASSUME NEW i \in 0 .. (n - first) - 1  PROVE mem[s][0 + i] = (f + first) + i
      BY <2>1 DEF Holds
    <3>1. i \in Int /\ 0 <= i /\ i < n - first
      BY <1>2, <1>5
    <3>2. PICK k \in Int : k = first + i /\ 0 <= k /\ k < n
      <4>1. first + i \in Int /\ 0 <= first + i /\ first + i < n
        BY <1>2, <1>5, <3>1
      <4> QED BY <4>1
    <3>3. i < BufMod
      BY <1>2, <1>5, <3>1
    <3>4. p + k = BufMod + i
      BY <1>2, <1>5, <3>1, <3>2
    <3>5. Low(p + k) = i
      BY <1>4, <3>1, <3>3, <3>4
    <3>6. mem[s][i] = f + k
      BY <1>3, <3>2, <3>5
    <3>7. f + k = (f + first) + i /\ 0 + i = i
      BY <3>1, <3>2
    <3> QED BY <3>6, <3>7
  <2> QED BY <1>5, <1>7, <2>0, <2>1, <2>2, <2>3, <2>4
<1> QED BY <1>6, <1>7

LEMMA CoreSarRsp ==
  ASSUME TInv, TInv', Core, SarRsp, Healthy'
  PROVE  Core'
<1> DEFINE r == Head(app_rsp)
<1>1. /\ fsm.state = "WAIT_SAR_RSP" /\ app_rsp # <<>> /\ app_rsp' = Tail(app_rsp)
      /\ read_rsp' = Append(read_rsp, r.id)
      /\ app_req' = Append(app_req, [id |-> r.id, write |-> TRUE, app_read |-> AfterRead(r.app_read, fsm.len)])
      /\ blocks' = Accesses(r.id, r.app_read, fsm.len)
      /\ fsm' = [state |-> "WAIT_DATA", parts |-> Len(blocks')]
      /\ UNCHANGED <<rx_sar_table, eng_req, eng_rsp, eng, store, notify, read_req, read_data,
                     echo, mem, conn, unacked, history>>
  BY DEF SarRsp
<1>2. UNCHANGED <<rx_notice, rt_notice, notices, notify_reg, net_notice, app, echo_meta, echo_data, echo_tx,
                  base, edge, accepted, stored, announced, freed, echoed>>
  BY <1>1 DEF notify, echo, history
<1>3. PICK n \in DataNotices, p \in Addrs, s \in Sessions, l \in Nat, f \in Nat :
         /\ n = app.notice /\ s = n.id /\ l = n.len /\ l >= 1 /\ l < BufMod /\ n.at = f /\ f = freed[s]
         /\ p = rx_sar_table[s].app_read /\ p = Low(base[s] + f) /\ fsm.len = l /\ r.id = s /\ r.app_read = p
  <2>1. /\ app.notice \in DataNotices /\ app.notice.id \in Sessions /\ app.notice.len \in Nat
        /\ freed[app.notice.id] \in Nat /\ rx_sar_table[app.notice.id].app_read \in Addrs
    BY <1>1, AnswerFacts, Counters
  <2> QED BY <1>1, <2>1, AnswerFacts
<1>4. /\ Asking /\ app.state = "WAIT_SESSION_ID" /\ read_req = <<>> /\ read_rsp = <<>>
      /\ app_req = <<>> /\ app_rsp' = <<>>
      /\ Todo = <<n>> \o net_notice /\ Taken = Metas
      /\ \A t \in Sessions : ReadTo[t] = freed[t]
      /\ End(n) <= announced[s] /\ ~Starting(s)
  BY <1>1, <1>3, AnswerFacts
<1>5. PICK w : w = [id |-> s, write |-> TRUE, app_read |-> Low(p + l)]
  OBVIOUS
<1>6. app_req' = <<w>> /\ Len(app_req') = 1 /\ app_req'[1] = w /\ app_req' # <<>>
  <2>1. AfterRead(p, l) = Low(p + l)
    BY DEF AfterRead
  <2>2. app_req' = Append(<<>>, w)
    BY <1>1, <1>3, <1>4, <1>5, <2>1
  <2>3. app_req' = <<w>>
    BY <2>2
  <2> QED BY <2>3
<1>7. read_rsp' = <<s>> /\ Len(read_rsp') = 1 /\ read_rsp'[1] = s /\ read_rsp' # <<>>
  BY <1>1, <1>3, <1>4
<1>8. fsm'.state = "WAIT_DATA" /\ fsm'.parts = Len(blocks') /\ Asked' /\ ~Asking'
  BY <1>1, <1>2, <1>4 DEF Asked, Asking
<1>9. Metas' = Metas /\ Todo' = net_notice /\ Taken' = Append(Metas, n)
  <2>1. Metas' = Metas
    BY <1>2, SameFuns
  <2> QED BY <1>2, <1>3, <1>8, <2>1 DEF Todo, Taken
<1>10. \A t \in Sessions : Giving(t)' <=> t = s
  BY <1>3, <1>5, <1>6 DEF Giving
<1>11. ReadTo'[s] = f + l /\ \A t \in Sessions : t # s => ReadTo'[t] = ReadTo[t]
  <2>1. Low(Low(p + l) - p) = l
    <3>1. p \in Int /\ p \in 0 .. BufMod - 1
      BY Modulus DEF Addrs
    <3>2. Low(p) = p
      <4>1. Same(BufMod, p, p)
        BY <3>1, SameSelf, Modulus
      <4> QED BY <3>1, <4>1, LowFacts
    <3>3. Low(Low(p + l) - Low(p)) = l
      <4>1. l \in Int /\ 0 <= l /\ l < BufMod
        BY <1>3
      <4> QED BY <3>1, <4>1, LowStep
    <3> QED BY <3>2, <3>3
  <2>2. Given(s)' = l
    BY <1>1, <1>3, <1>5, <1>6, <1>10, <2>1 DEF Given
  <2>3. \A t \in Sessions : t # s => Given(t)' = 0
    BY <1>10 DEF Given
  <2>4. \A t \in Sessions : ReadTo'[t] = freed[t] + Given(t)'
    BY <1>2 DEF ReadTo
  <2>5. ReadTo'[s] = f + l
    BY <1>3, <2>2, <2>4
  <2>6. \A t \in Sessions : t # s => ReadTo'[t] = freed[t] + 0
    BY <2>3, <2>4
  <2>7. \A t \in Sessions : freed[t] \in Nat
    BY Counters
  <2>8. \A t \in Sessions : t # s => ReadTo'[t] = ReadTo[t]
    BY <1>4, <2>6, <2>7
  <2> QED BY <2>5, <2>8
<1>12. ReadTo' \in Counts
  <2>1. \A t \in Sessions : ReadTo'[t] \in Nat
    <3> TAKE t \in Sessions
    <3>1. f + l \in Nat
      OBVIOUS
    <3>2. ReadTo[t] \in Nat
      BY GivenFacts
    <3> QED BY <1>11, <3>1, <3>2
  <2>2. ReadTo' = [t \in Sessions |-> ReadTo'[t]]
    BY DEF ReadTo
  <2> QED BY <2>1, <2>2 DEF Counts
<1>13. Moved(ReadTo, ReadTo', n)
  BY <1>3, <1>4, <1>11 DEF Moved
<1>14. /\ ReadTo \in Counts /\ announced \in Counts /\ echoed \in Counts
       /\ Linked(Todo, ReadTo, announced) /\ Below(ReadTo, announced)
       /\ Linked(Taken, echoed, ReadTo) /\ Below(echoed, ReadTo)
       /\ Todo \in Seq(Notices) /\ Taken \in Seq(DataNotices) /\ Links(Notices) /\ Links(DataNotices)
  BY GivenFacts, Counters, Stages, ChainTypes, LinkFacts DEF Core, ChainInv, TodoInv, TakenInv
<1>15. n \in Notices /\ n.len > 0 /\ n.at = ReadTo[n.id]
  BY <1>3, <1>4, RecordFacts
<1>16. TodoInv' /\ \A t \in Sessions : ReadTo'[t] <= announced[t]
  <2>1. Todo # <<>> /\ Todo[1] = n /\ Tail(Todo) = net_notice
    <3>1. net_notice \in Seq(Notices) /\ n \in Notices
      BY <1>15, ChainTypes
    <3> QED BY <1>4, <3>1, CatOne
  <2>3. PICK m \in Notices, lo \in Counts, up \in Counts, hi \in Counts, q \in Seq(Notices) :
          /\ m = n /\ lo = ReadTo /\ up = ReadTo' /\ hi = announced /\ q = Todo
    BY <1>12, <1>14, <1>15
  <2>4. q # <<>> /\ m = q[1] /\ Linked(q, lo, hi) /\ Below(lo, hi) /\ Moved(lo, up, m) /\ Links(Notices)
    BY <1>13, <1>14, <2>1, <2>3
  <2>5. Linked(Tail(q), up, hi) /\ Below(up, hi)
    BY <2>4, LinkedPop
  <2>2. Linked(Tail(Todo), ReadTo', announced) /\ Below(ReadTo', announced)
    BY <2>3, <2>5
  <2> QED BY <1>2, <1>9, <2>1, <2>2 DEF TodoInv, Below
<1>17. TakenInv' /\ \A t \in Sessions : echoed[t] <= ReadTo'[t]
  <2>1. Linked(Append(Taken, n), echoed, ReadTo') /\ Below(echoed, ReadTo')
    BY <1>12, <1>13, <1>14, <1>15, LinkedPush
  <2> QED BY <1>2, <1>4, <1>9, <2>1 DEF TakenInv, Below
<1>18. OrderInv'
  BY <1>2, <1>16, <1>17 DEF OrderInv, Core, ChainInv
<1>19. ToldInv' /\ KeptInv' /\ EngInv' /\ SpaceInv' /\ SegInv' /\ PlaceInv'
  BY <1>1, <1>2, ReaderRest
<1>20. AppInv'
  BY <1>1, <1>2, <1>3, <1>4, <1>7, <1>8 DEF AppInv
<1>21. ReqInv'
  BY <1>4, <1>5, <1>6 DEF ReqInv
<1>22. TableInv'
  <2>1. TableInv
    BY DEF Core, RcvInv
  <2>2. \A t \in Sessions : (Starting(t)' <=> Starting(t)) /\ (Writing(t)' <=> Writing(t))
    BY <1>1 DEF Starting, Writing
  <2>3. \A t \in Sessions, k \in Nat : Entered(t, k) => Entered(t, k)'
    BY <1>1, <1>2, <2>2 DEF Entered
  <2>4. \A t \in Sessions : Starting(t) => ~Giving(t)'
    BY <1>4, <1>10
  <2> QED BY <1>1, <1>2, <2>1, <2>2, <2>3, <2>4 DEF TableInv
<1>23. MemInv'
  <2> SUFFICES ASSUME NEW t \in Sessions, NEW b \in Nat, ReadTo'[t] <= b, b < stored[t]
               PROVE  mem[t][Low(base[t] + b)] = b
    BY <1>1, <1>2 DEF MemInv
  <2>2. ReadTo[t] \in Nat /\ ReadTo'[t] \in Nat
    BY <1>12, GivenFacts DEF Counts
  <2>1. ReadTo[t] <= ReadTo'[t]
    <3>1. CASE t = s
      <4>1. ReadTo[t] = f /\ ReadTo'[t] = f + l
        BY <1>3, <1>4, <1>11, <3>1
      <4> QED BY <4>1
    <3>2. CASE t # s
      BY <1>11, <2>2, <3>2
    <3> QED BY <3>1, <3>2
  <2>3. ReadTo[t] <= b
    BY <2>1, <2>2
  <2> QED BY <2>3 DEF Core, ByteInv, MemInv
<1>24. read_data' = <<>> /\ Len(read_data') = 0
  <2>1. read_data \in Seq(Bytes) /\ blocks \in Seq(Blocks) /\ Len(read_data) + Len(blocks) = 0
    BY <1>1 DEF TInv, TReader
  <2>2. Len(read_data) = 0
    BY <2>1
  <2> QED BY <1>1, <2>1, <2>2, NoElement
<1>25. /\ blocks' \in Seq(Blocks)
       /\ p + l < BufMod => Len(blocks') = 1 /\ blocks'[1].len = l /\ Holds(blocks'[1], f)
       /\ p + l >= BufMod =>
            /\ Len(blocks') = 2 /\ blocks'[1].len = BufMod - p /\ blocks'[2].len = l - (BufMod - p)
            /\ Holds(blocks'[1], f) /\ Holds(blocks'[2], f + (BufMod - p))
  <2>1. l \in Lens
    BY <1>3, Modulus DEF Lens
  <2>2. f + l <= stored[s]
    <3>1. announced[s] <= stored[s] /\ announced[s] \in Nat /\ stored[s] \in Nat
      BY Stages, Counters DEF Core, ChainInv
    <3>2. End(n) = f + l
      BY <1>3 DEF End
    <3> QED BY <1>4, <3>1, <3>2
  <2>3. ReadTo[s] = f
    BY <1>3, <1>4
  <2>4. blocks' = Accesses(s, p, l)
    BY <1>1, <1>3
  <2> QED BY <1>3, <2>1, <2>2, <2>3, <2>4, AccessData
<1>27. Taken' # <<>> /\ UnderWay' = n
  <2>1. Metas \in Seq(DataNotices)
    BY ChainTypes
  <2>2. Len(Append(Metas, n)) = Len(Metas) + 1 /\ Append(Metas, n)[Len(Metas) + 1] = n /\ Append(Metas, n) # <<>>
    BY <2>1, Puts
  <2> QED BY <1>9, <2>2 DEF UnderWay
<1>28. PICK e \in Nat : e = f + l /\ e = End(n) /\ f = n.at
  <2>1. f + l \in Nat
    OBVIOUS
  <2> QED BY <1>3, <2>1 DEF End
<1>29. ASSUME NEW k \in 1 .. Len(blocks'), NEW a \in Nat, NEW c \in Nat, blocks'[k].len = c - a, Holds(blocks'[k], a)
       PROVE  Part(k, a, c)'
  <2>1. k \in Int /\ k >= 1 /\ ~(k <= Len(read_data')) /\ k - Len(read_data') = k
    BY <1>24, <1>25
  <2>3. blocks'[k - Len(read_data')].len = c - a
    BY <1>29, <2>1
  <2>4. \A i \in 0 .. blocks'[k].len - 1 : mem'[blocks'[k].id][blocks'[k].addr + i] = a + i
    BY <1>1, <1>29 DEF Holds
  <2> QED BY <2>1, <2>3, <2>4 DEF Part, Holds
<1>30. DataInv'
  <2>1. CASE p + l < BufMod
    <3>4. Len(blocks') = 1 /\ blocks'[1].len = l /\ Holds(blocks'[1], f)
      BY <1>25, <2>1
    <3>5. l = e - f
      BY <1>28
    <3>1. Len(blocks') = 1 /\ blocks'[1].len = e - f /\ Holds(blocks'[1], f) /\ 1 \in 1 .. Len(blocks')
      BY <3>4, <3>5
    <3>2. Part(1, f, e)'
      BY <1>29, <3>1
    <3>3. Part(1, UnderWay.at, End(UnderWay))'
      BY <1>27, <1>28, <3>2
    <3> QED BY <1>8, <1>27, <3>1, <3>3 DEF DataInv
  <2>2. CASE ~(p + l < BufMod)
    <3>1. p \in Int /\ BufMod \in Int /\ p + l >= BufMod /\ p < BufMod
      BY <2>2, Modulus DEF Addrs
    <3>2. blocks'[2].len # 0
      <4>1. deviation' = IF Healthy /\ blocks'[Len(blocks')].len = 0 THEN "empty_access" ELSE deviation
        BY DEF SarRsp, Deviate
      <4>2. deviation' = "none"
        BY DEF Healthy
      <4> QED BY <1>25, <3>1, <4>1, <4>2 DEF Healthy
    <3>3. PICK c \in Nat : c = f + (BufMod - p)
      <4>1. f + (BufMod - p) \in Nat
        BY <3>1
      <4> QED BY <4>1
    <3>4. /\ Len(blocks') = 2 /\ blocks'[1].len = BufMod - p /\ blocks'[2].len = l - (BufMod - p)
          /\ Holds(blocks'[1], f) /\ Holds(blocks'[2], c)
      BY <1>25, <3>1, <3>3
    <3>5. f < c /\ c < e /\ BufMod - p = c - f /\ l - (BufMod - p) = e - c
      BY <1>28, <3>1, <3>2, <3>3, <3>4
    <3>6. 1 \in 1 .. Len(blocks') /\ 2 \in 1 .. Len(blocks')
      BY <3>4
    <3>7. Part(1, f, c)' /\ Part(2, c, e)'
      BY <1>29, <3>4, <3>5, <3>6
    <3>8. UnderWay'.at < c /\ c < End(UnderWay') /\ Part(1, UnderWay.at, c)' /\ Part(2, c, End(UnderWay))'
      BY <1>27, <1>28, <3>5, <3>7
    <3> QED BY <1>8, <1>27, <3>4, <3>8 DEF DataInv
  <2> QED BY <2>1, <2>2
<1>31. EchoInv'
  BY <1>2, <1>9, PartsSame DEF Core, ByteInv
<1> QED BY <1>16, <1>17, <1>18, <1>19, <1>20, <1>21, <1>22, <1>23, <1>30, <1>31
        DEF Core, ChainInv, ReadInv, RcvInv, ByteInv

-----------------------------------------------------------------------------
(* A SYN.                                                                    *)

\* A session that is quiet has no bytes under way at any stage.
LEMMA QuietFacts ==
  ASSUME TInv, OrderInv, NEW s \in Sessions, Quiet(s)
  PROVE  /\ ReadTo[s] = accepted[s] /\ announced[s] = accepted[s] /\ stored[s] = accepted[s]
         /\ echoed[s] = accepted[s] /\ freed[s] = accepted[s] /\ ~Giving(s)
         /\ eng_req = <<>> /\ app_req = <<>>
<1>1. eng_req = <<>> /\ app_req = <<>> /\ echoed[s] = accepted[s]
  BY DEF Quiet
<1>2. ~Giving(s)
  BY <1>1 DEF Giving
<1>3. /\ echoed[s] <= ReadTo[s] /\ ReadTo[s] <= announced[s] /\ announced[s] <= stored[s] /\ stored[s] <= accepted[s]
      /\ ReadTo[s] \in Nat /\ announced[s] \in Nat /\ stored[s] \in Nat /\ accepted[s] \in Nat /\ freed[s] \in Nat
      /\ ReadTo[s] = freed[s] + Given(s)
  BY Stages, Counters, GivenFacts
<1>4. Given(s) = 0
  BY <1>2 DEF Given
<1>5. ReadTo[s] = accepted[s] /\ announced[s] = accepted[s] /\ stored[s] = accepted[s]
  BY <1>1, <1>3
<1>6. freed[s] = ReadTo[s]
  <2>1. PICK f \in Nat : f = freed[s]
    BY <1>3
  <2>2. ReadTo[s] = f + 0
    BY <1>3, <1>4, <2>1
  <2> QED BY <2>1, <2>2
<1> QED BY <1>1, <1>2, <1>5, <1>6

LEMMA CoreEstablish ==
  ASSUME TInv, TInv', Core, NEW s \in Sessions, NEW scale \in Scales, Establish(s, scale), Healthy'
  PROVE  Core'
<1>1. /\ eng = Nothing /\ eng_req' = Append(eng_req, InitRecvd(s, Isn, scale))
      /\ base' = [base EXCEPT ![s] = SeqNo(Isn - accepted[s])]
      /\ edge' = [edge EXCEPT ![s] = accepted[s]]
      /\ UNCHANGED <<rx_sar_table, app_req, app_rsp, eng_rsp, eng, store, notify, reader,
                     echo, mem, accepted, stored, announced, freed, echoed>>
  BY DEF Establish
<1>2. UNCHANGED <<rx_notice, rt_notice, notices, notify_reg, net_notice, read_req, read_rsp, fsm, blocks,
                  read_data, app, echo_meta, echo_data, echo_tx>>
  BY <1>1 DEF notify, reader, echo
<1>3. Quiet(s)
  <2>1. deviation' = IF Healthy /\ ~Quiet(s) THEN "reused" ELSE deviation
    BY DEF Establish, Deviate
  <2>2. deviation' = "none"
    BY DEF Healthy
  <2> QED BY <2>1, <2>2 DEF Healthy
<1>4. /\ ReadTo[s] = accepted[s] /\ announced[s] = accepted[s] /\ stored[s] = accepted[s]
      /\ echoed[s] = accepted[s] /\ freed[s] = accepted[s] /\ ~Giving(s)
      /\ eng_req = <<>> /\ app_req = <<>>
  BY <1>3, QuietFacts DEF Core, ChainInv
<1>5. PICK w : w = InitRecvd(s, Isn, scale)
  OBVIOUS
<1>6. w.id = s /\ w.write = TRUE /\ w.init = TRUE /\ w.recvd = SeqNo(Isn)
  BY <1>5 DEF InitRecvd
<1>7. eng_req' = <<w>>
  <2>1. eng_req' = Append(<<>>, w)
    BY <1>1, <1>4, <1>5
  <2> QED BY <2>1
<1>8. Len(eng_req') = 1 /\ eng_req'[1] = w /\ eng_req' # <<>>
  BY <1>7
<1>9. eng_rsp = <<>>
  BY <1>1 DEF Core, RcvInv, EngInv
<1>10. ReadTo' = ReadTo /\ Metas' = Metas /\ Taken' = Taken /\ Todo' = Todo /\ Told' = Told
  BY <1>1, <1>2, SameFuns
<1>11. ChainInv'
  BY <1>1, <1>10, ChainSame DEF Core, ChainInv
<1>12. ReadInv' /\ DataInv' /\ EchoInv'
  BY <1>1, <1>2, <1>10, PartsSame DEF Core, ReadInv, ByteInv
<1>13. \A t \in Sessions : t # s => base'[t] = base[t] /\ edge'[t] = edge[t]
  BY <1>1 DEF TInv, TRest
<1>14. base'[s] = SeqNo(Isn - accepted[s]) /\ edge'[s] = accepted[s]
  BY <1>1 DEF TInv, TRest
<1>15. \A t \in Sessions : (Writing(t)' <=> t = s) /\ (Starting(t)' <=> t = s) /\ ~Writing(t) /\ ~Starting(t)
  BY <1>4, <1>6, <1>8 DEF Writing, Starting
<1>16. EngInv'
  BY <1>1, <1>6, <1>8, <1>9 DEF EngInv
<1>17. SpaceInv'
  <2>1. \A t \in Sessions : accepted[t] - freed[t] <= BufMod - 1 /\ edge[t] <= freed[t] + BufMod - 1
    BY DEF Core, RcvInv, SpaceInv
  <2>2. edge'[s] <= freed[s] + BufMod - 1
    <3>1. PICK a \in Nat : a = accepted[s]
      BY Counters
    <3>2. a <= a + BufMod - 1
      BY Modulus
    <3> QED BY <1>4, <1>14, <3>1, <3>2
  <2>3. \A t \in Sessions : edge'[t] <= freed[t] + BufMod - 1
    BY <1>13, <2>1, <2>2
  <2> QED BY <1>1, <2>1, <2>3 DEF SpaceInv
<1>18. SegInv'
  BY <1>1 DEF SegInv
<1>19. TableInv'
  <2>1. w.recvd = SeqNo(base'[s] + accepted[s])
    <3>1. PICK a \in Int : a = accepted[s]
      BY Counters
    <3>2. SeqNo(SeqNo(Isn - a) + a) = SeqNo(Isn)
      BY SeqStep, Modulus
    <3> QED BY <1>6, <1>14, <3>1, <3>2
  <2>2. \A t \in Sessions : Giving(t)' <=> Giving(t)
    BY <1>1 DEF Giving
  <2>3. ASSUME NEW t \in Sessions
        PROVE  /\ Writing(t)' => eng_req'[1].recvd = SeqNo(base'[t] + accepted'[t])
               /\ Starting(t)' => echoed'[t] = accepted'[t] /\ ~Giving(t)'
               /\ ~Starting(t)' => /\ rx_sar_table'[t].app_read = Low(base'[t] + freed'[t])
                                   /\ conn'[t] = "OPEN" => \E r \in Nat : Entered(t, r)'
    <3>1. CASE t = s
      BY <1>1, <1>4, <1>8, <1>15, <2>1, <2>2, <3>1
    <3>2. CASE t # s
      <4>1. /\ rx_sar_table[t].app_read = Low(base[t] + freed[t])
            /\ conn[t] = "OPEN" => \E r \in Nat : Entered(t, r)
        BY <1>15 DEF Core, RcvInv, TableInv
      <4>2. \A r \in Nat : Entered(t, r) => Entered(t, r)'
        BY <1>1, <1>13, <1>15, <3>2 DEF Entered
      <4>3. conn'[t] = conn[t]
        BY <3>2 DEF Establish, TInv, TRest
      <4> QED BY <1>1, <1>13, <1>15, <3>2, <4>1, <4>2, <4>3
    <3> QED BY <3>1, <3>2
  <2> QED BY <2>3 DEF TableInv
<1>20. PlaceInv'
  <2> SUFFICES ASSUME NEW i \in 1 .. Len(store), store[i].len > 0
               PROVE  store[i].addr = Low(base'[store[i].id] + store[i].at)
    BY <1>1 DEF PlaceInv
  <2>1. store \in Seq(Jobs) /\ store[i] \in Jobs
    BY ChainTypes, Element
  <2>2. store[i].id \in Sessions /\ store[i].len >= 1
    BY <2>1, RecordFacts
  <2>3. store[i].id # s
    <3> SUFFICES ASSUME store[i].id = s  PROVE FALSE
      OBVIOUS
    <3>1. Linked(store, stored, accepted) /\ stored \in Counts /\ accepted \in Counts
      BY Counters DEF Core, ChainInv, KeptInv
    <3>2. stored[store[i].id] = accepted[store[i].id]
      BY <1>4
    <3>3. store[i].len = 0
      BY <2>1, <3>1, <3>2, LinkFacts, LinkedNone
    <3> QED BY <2>2, <3>3
  <2> QED BY <1>13, <2>2, <2>3 DEF Core, RcvInv, PlaceInv
<1>21. MemInv'
  <2> SUFFICES ASSUME NEW t \in Sessions, NEW b \in Nat, ReadTo[t] <= b, b < stored[t]
               PROVE  mem[t][Low(base'[t] + b)] = b
    BY <1>1, <1>10 DEF MemInv
  <2>1. t # s
    <3> SUFFICES ASSUME t = s  PROVE FALSE
      OBVIOUS
    <3>1. ReadTo[s] = stored[s] /\ ReadTo[s] \in Nat
      BY <1>4, GivenFacts
    <3> QED BY <3>1
  <2> QED BY <1>13, <2>1 DEF Core, ByteInv, MemInv
<1> QED BY <1>11, <1>12, <1>16, <1>17, <1>18, <1>19, <1>20, <1>21 DEF Core, RcvInv, ByteInv

-----------------------------------------------------------------------------
(* The invariant.                                                            *)

\* What went wrong once stays so.
LEMMA HealthyBefore == [Next]_vars /\ Healthy' => Healthy
<1> SUFFICES ASSUME [Next]_vars, deviation' = "none", deviation # "none"  PROVE FALSE
  BY DEF Healthy
<1>2. ASSUME deviation' = deviation  PROVE FALSE
  BY <1>2
<1>3. ~(SarApp \/ SarEng \/ MergeNotice \/ NotifyLookup \/ NotifySend)
  BY <1>2 DEF SarApp, SarEng, MergeNotice, NotifyLookup, NotifySend
<1>14. ~Transition
  BY DEF Transition, Deviate, Healthy
<1>4. ~(DataReq \/ MoverRead \/ GetDataNoty \/ WaitSessionId)
  BY <1>2 DEF DataReq, MoverRead, GetDataNoty, WaitSessionId
<1>5. ~(EchoRequest \/ EchoGranted \/ EchoAgain \/ EchoForward)
  BY <1>2 DEF EchoRequest, EchoGranted, EchoAgain, EchoForward
<1>6. ~SarRsp
  BY DEF SarRsp, Deviate, Healthy
<1>7. ~Deliver
  BY DEF Deliver, Deviate, Healthy
<1>8. ~EchoRefused
  BY DEF EchoRefused, Deviate, Healthy
<1>9. ~\E okay \in BOOLEAN : Store(okay)
  BY DEF Store, Healthy
<1>10. ~\E s \in Sessions : SarTxLookup(s) \/ Abort(s)
  BY <1>2 DEF SarTxLookup, Abort
<1>11. ~\E s \in Sessions, scale \in Scales : Establish(s, scale)
  BY DEF Establish, Deviate, Healthy
<1>12. ~\E s \in Sessions : \/ LoadAck(s)
                            \/ \E n \in SegLengths, d \in -1 .. 1 : Load(s, accepted[s] + d, n, FALSE)
                            \/ \E n \in SegLengths \cup {0} : Load(s, accepted[s], n, TRUE)
  BY <1>2 DEF Load, LoadAck
<1>13. ~UNCHANGED vars
  BY <1>2 DEF vars
<1> QED BY <1>3, <1>4, <1>5, <1>6, <1>7, <1>8, <1>9, <1>10, <1>11, <1>12, <1>13, <1>14
        DEF Next, Sar, DataHandler, EchoReceive, EchoTransmit, Inputs

LEMMA CoreStutter ==
  ASSUME Core, UNCHANGED vars
  PROVE  Core'
<1>1. UNCHANGED <<sar, eng, store, rx_notice, rt_notice, notices, notify_reg, net_notice, reader, echo, mem,
                  conn, history>>
  BY DEF vars, notify
<1>2. UNCHANGED <<rx_sar_table, app_req, app_rsp, eng_req, eng_rsp, read_req, read_rsp, fsm, blocks,
                  read_data, app, echo_meta, echo_data, echo_tx,
                  base, edge, accepted, stored, announced, freed, echoed>>
  BY <1>1 DEF sar, reader, echo, history
<1>3. ReadTo' = ReadTo /\ Metas' = Metas /\ Taken' = Taken /\ Todo' = Todo /\ Told' = Told
  BY <1>1, <1>2, SameFuns
<1>4. ChainInv'
  BY <1>1, <1>2, <1>3, ChainSame DEF Core, ChainInv
<1>5. ReadInv' /\ RcvInv' /\ ByteInv'
  BY <1>1, <1>2, <1>3, PartsSame DEF Core, ReadInv, RcvInv, ByteInv
<1> QED BY <1>4, <1>5 DEF Core

LEMMA CoreNext ==
  ASSUME TInv, TInv', Core, [Next]_vars, Healthy'
  PROVE  Core'
<1>1. ASSUME Sar  PROVE Core'
  BY <1>1, CoreSarAppWrite, CoreSarAppRead, CoreSarEngWrite, CoreSarEngRead DEF Sar
<1>2. ASSUME DataHandler \/ MoverRead  PROVE Core'
  BY <1>2, CoreDataReq, CoreSarRsp, CoreDeliver, CoreMoverRead DEF DataHandler
<1>3. ASSUME EchoReceive \/ EchoTransmit  PROVE Core'
  BY <1>3, CoreGetDataNoty, CoreWaitSessionId, CoreEchoMeta, CoreEchoForward DEF EchoReceive, EchoTransmit
<1>4. ASSUME MergeNotice \/ NotifyLookup \/ NotifySend \/ Transition  PROVE Core'
  BY <1>4, CoreMergeNotice, CoreNotifyLookup, CoreNotifySend, CoreTransition
<1>5. ASSUME NEW s \in Sessions, NEW n \in SegLengths, NEW d \in -1 .. 1, Load(s, accepted[s] + d, n, FALSE)
      PROVE  Core'
  BY <1>5, CoreLoad
<1>10. ASSUME NEW s \in Sessions, NEW n \in SegLengths \cup {0}, Load(s, accepted[s], n, TRUE)  PROVE Core'
  <2>1. accepted[s] + 0 = accepted[s] /\ 0 \in -1 .. 1
    BY Counters
  <2>2. Load(s, accepted[s] + 0, n, TRUE)
    BY <1>10, <2>1
  <2> QED BY <2>1, <2>2, CoreLoad
<1>11. ASSUME NEW s \in Sessions, LoadAck(s)  PROVE Core'
  BY <1>11, CoreLoadAck
<1>6. ASSUME NEW s \in Sessions, NEW scale \in Scales, Establish(s, scale)  PROVE Core'
  BY <1>6, CoreEstablish
<1>7. ASSUME NEW s \in Sessions, SarTxLookup(s) \/ Abort(s)  PROVE Core'
  BY <1>7, CoreSarTxLookup, CoreAbort
<1>8. ASSUME NEW okay \in BOOLEAN, Store(okay)  PROVE Core'
  BY <1>8, CoreStore
<1>9. ASSUME UNCHANGED vars  PROVE Core'
  BY <1>9, CoreStutter
<1> QED BY <1>1, <1>2, <1>3, <1>4, <1>5, <1>6, <1>7, <1>8, <1>9, <1>10, <1>11, Zenon DEF Next, Inputs

LEMMA IInvInit == Init => IInv
<1> SUFFICES ASSUME Init  PROVE IInv
  OBVIOUS
<1>1. TInv
  BY TypeInit
<1>2. /\ app_req = <<>> /\ app_rsp = <<>> /\ eng_req = <<>> /\ eng_rsp = <<>> /\ eng = Nothing /\ store = <<>>
      /\ rx_notice = <<>> /\ notices = <<>> /\ notify_reg = Nothing /\ net_notice = <<>>
      /\ read_req = <<>> /\ read_rsp = <<>> /\ fsm.state = "WAIT_NET_APP_DATA_REQ" /\ fsm = Idle
      /\ app.state = "GET_DATA_NOTY" /\ echo_meta = <<>> /\ echo_data = <<>> /\ echo_tx.state = "READ_META"
  BY DEF Init, Idle
<1>3. /\ accepted = Zero /\ stored = Zero /\ announced = Zero /\ freed = Zero /\ echoed = Zero
      /\ base = Zero /\ edge = Zero
      /\ \A s \in Sessions : rx_sar_table[s].recvd = 0 /\ rx_sar_table[s].app_read = 0
  BY DEF Init
<1>4. Zero \in Counts /\ \A s \in Sessions : Zero[s] = 0
  BY DEF Counts, Zero
<1>5. ReadTo = Zero
  <2>1. \A s \in Sessions : Given(s) = 0 /\ freed[s] = 0
    BY <1>2, <1>3, <1>4 DEF Given, Giving
  <2> QED BY <2>1 DEF ReadTo, Zero
<1>50. \A s \in Sessions :
         /\ accepted[s] = 0 /\ stored[s] = 0 /\ announced[s] = 0 /\ freed[s] = 0 /\ echoed[s] = 0
         /\ base[s] = 0 /\ edge[s] = 0 /\ ReadTo[s] = 0
  BY <1>3, <1>4, <1>5
<1>6. Metas = <<>> /\ Taken = <<>> /\ Todo = <<>> /\ Told = <<>>
  <2>1. <<>> \o <<>> = <<>>
    OBVIOUS
  <2> QED BY <1>2, <2>1 DEF Metas, Taken, Todo, Told, Asked, Asking
<1>7. Linked(<<>>, Zero, Zero)
  BY <1>4, LinkedEmpty
<1>8. ChainInv
  <2>1. OrderInv
    <3>1. ASSUME NEW s \in Sessions
          PROVE  /\ echoed[s] <= ReadTo[s] /\ ReadTo[s] <= announced[s]
                 /\ announced[s] <= stored[s] /\ stored[s] <= accepted[s]
      BY <1>50
    <3> QED BY <3>1 DEF OrderInv
  <2>2. TakenInv /\ TodoInv /\ ToldInv /\ KeptInv
    BY <1>2, <1>3, <1>5, <1>6, <1>7 DEF TakenInv, TodoInv, ToldInv, KeptInv
  <2> QED BY <2>1, <2>2 DEF ChainInv
<1>9. ReadInv
  <2>1. AppInv
    BY <1>2 DEF AppInv, Asking, Asked
  <2>2. ReqInv
    BY <1>2 DEF ReqInv
  <2> QED BY <2>1, <2>2 DEF ReadInv
<1>10. RcvInv
  <2>1. EngInv
    BY <1>2 DEF EngInv
  <2>2. SpaceInv
    <3>1. ASSUME NEW s \in Sessions
          PROVE  accepted[s] - freed[s] <= BufMod - 1 /\ edge[s] <= freed[s] + BufMod - 1
      <4>1. 0 - 0 <= BufMod - 1 /\ 0 <= 0 + BufMod - 1
        BY Modulus
      <4> QED BY <1>50, <4>1
    <3> QED BY <3>1 DEF SpaceInv
  <2>3. TableInv
    <3>1. 0 = SeqNo(0) /\ 0 = Low(0)
      <4>1. Same(SeqMod, 0, 0) /\ Same(BufMod, 0, 0) /\ 0 \in 0 .. SeqMod - 1 /\ 0 \in 0 .. BufMod - 1
        BY SameSelf, Modulus
      <4> QED BY <4>1, SeqFacts, LowFacts
    <3>2. \A s \in Sessions : ~Writing(s) /\ ~Starting(s)
      BY <1>2 DEF Writing, Starting
    <3>3. ASSUME NEW s \in Sessions
          PROVE  Entered(s, 0) /\ rx_sar_table[s].app_read = Low(base[s] + freed[s])
      <4>1. rx_sar_table[s].recvd = SeqNo(base[s] + 0) /\ rx_sar_table[s].app_read = Low(base[s] + freed[s])
        <5>1. 0 + 0 = 0
          OBVIOUS
        <5> QED BY <1>3, <1>50, <3>1, <5>1
      <4>2. stored[s] <= 0 /\ 0 <= accepted[s] /\ 0 = accepted[s]
        BY <1>50
      <4> QED BY <4>1, <4>2 DEF Entered
    <3>4. \A s \in Sessions : \E r \in Nat : Entered(s, r)
      BY <3>3
    <3> QED BY <3>2, <3>3, <3>4 DEF TableInv
  <2>4. SegInv
    BY <1>2 DEF SegInv
  <2>5. PlaceInv
    BY <1>2 DEF PlaceInv
  <2> QED BY <2>1, <2>2, <2>3, <2>4, <2>5 DEF RcvInv
<1>11. ByteInv
  <2>1. MemInv
    BY <1>3, <1>4, <1>5 DEF MemInv
  <2>2. DataInv
    BY <1>2 DEF DataInv
  <2>3. EchoInv
    BY <1>2, <1>6 DEF EchoInv
  <2> QED BY <2>1, <2>2, <2>3 DEF ByteInv
<1> QED BY <1>1, <1>8, <1>9, <1>10, <1>11 DEF IInv, Core

LEMMA IInvNext == IInv /\ [Next]_vars => IInv'
<1> SUFFICES ASSUME IInv, [Next]_vars  PROVE IInv'
  OBVIOUS
<1>1. TInv /\ TInv' /\ (Healthy => Core)
  BY TypeNext DEF IInv
<1>2. Healthy' => Core'
  BY <1>1, HealthyBefore, CoreNext
<1> QED BY <1>1, <1>2 DEF IInv

LEMMA IInvInvariant == Spec => []IInv
<1> QED BY IInvInit, IInvNext, PTL DEF Spec

-----------------------------------------------------------------------------
(* The ring.                                                                 *)

\* A table of which one entry changes.
LEMMA OneEntry ==
  ASSUME NEW f \in Counts, NEW g \in Counts, NEW s \in Sessions, \A t \in Sessions : t # s => g[t] = f[t]
  PROVE  g = [f EXCEPT ![s] = g[s]]
BY DEF Counts

LEMMA RingStep ==
  ASSUME IInv, [Next]_vars
  PROVE  [Ring!Next]_(Ring!vars)
<1>1. CASE ~Healthy'
  BY <1>1 DEF Ring!Next
<1>2. CASE Healthy'
  <2>1. TInv /\ TInv' /\ Healthy /\ Core
    BY <1>2, HealthyBefore, TypeNext DEF IInv
  <2>2. /\ accepted \in Counts /\ stored \in Counts /\ announced \in Counts /\ freed \in Counts
        /\ accepted' \in Counts /\ stored' \in Counts /\ announced' \in Counts /\ freed' \in Counts
    BY <2>1 DEF TInv, TRest, Counts
  <2>3. ASSUME UNCHANGED <<accepted, stored, announced, freed>>  PROVE [Ring!Next]_(Ring!vars)
    BY <1>2, <2>1, <2>3 DEF Ring!vars
  <2>4. ASSUME Transition  PROVE [Ring!Next]_(Ring!vars)
    <3>1. /\ eng # Nothing /\ eng_rsp # <<>> /\ UNCHANGED <<stored, announced, freed>>
      BY <2>4 DEF Transition
    <3>2. PICK s \in Sessions, l \in Nat, seq \in {SeqNo(base[eng.id] + eng.at)} : s = eng.id /\ l = eng.len
      BY <2>1, <3>1, RecordFacts DEF TInv, TEng
    <3>3. CASE Takes(eng, Head(eng_rsp), seq)
      <4>1. FreeSpace(Head(eng_rsp)) >= l
        BY <1>2, <2>1, <2>4, <3>1, <3>2, <3>3, TakenRoom
      <4>2. accepted' = [accepted EXCEPT ![s] = @ + l]
        BY <2>4, <3>2, <3>3 DEF Transition
      <4>3. accepted'[s] = accepted[s] + l /\ \A t \in Sessions : t # s => accepted'[t] = accepted[t]
        BY <2>2, <4>2 DEF Counts
      <4>4. accepted' = [accepted EXCEPT ![s] = accepted'[s]]
        BY <2>2, <4>3, OneEntry
      <4>5. CASE l = 0
        <5>1. accepted' = accepted
          BY <2>2, <4>2, <4>5 DEF Counts
        <5> QED BY <2>3, <3>1, <5>1
      <4>6. CASE l # 0
        <5>1. conn[s] = "OPEN" /\ accepted[s] + l - freed[s] <= BufMod - 1
          BY <2>1, <3>1, <3>2, <3>3, <4>1, AcceptFacts DEF Takes
        <5>2. accepted'[s] > accepted[s] /\ accepted'[s] - freed[s] <= BufMod - 1
          BY <2>2, <3>2, <4>3, <4>6, <5>1 DEF Counts
        <5>3. Ring!Reserve(s)
          BY <3>1, <4>4, <5>2 DEF Ring!Reserve
        <5> QED BY <1>2, <5>3 DEF Ring!Next
      <4> QED BY <4>5, <4>6
    <3>4. CASE ~Takes(eng, Head(eng_rsp), seq)
      <4>1. accepted' = accepted
        BY <2>4, <3>2, <3>4 DEF Transition
      <4> QED BY <2>3, <3>1, <4>1
    <3> QED BY <3>3, <3>4
  <2>5. ASSUME NEW okay \in BOOLEAN, Store(okay)  PROVE Ring!Next
    <3>1. PICK j : j = Head(store)
      OBVIOUS
    <3>2. store # <<>> /\ stored' = [stored EXCEPT ![j.id] = @ + j.len] /\ UNCHANGED <<accepted, announced, freed>>
      BY <1>2, <2>1, <2>5, <3>1, StoreFacts DEF Store
    <3>3. j \in Jobs /\ (j.len > 0 => j.at = stored[j.id] /\ End(j) <= accepted[j.id])
      BY <2>1, <3>1, <3>2, JobFacts
    <3>9. OrderInv
      BY <2>1 DEF Core, ChainInv
    <3>4. PICK s \in Sessions, l \in Nat : s = j.id /\ l = j.len
      BY <3>3, RecordFacts
    <3>5. stored'[s] = stored[s] + l /\ \A t \in Sessions : t # s => stored'[t] = stored[t]
      BY <2>2, <3>2, <3>4 DEF Counts
    <3>6. stored' = [stored EXCEPT ![s] = stored'[s]]
      BY <2>2, <3>5, OneEntry
    <3>7. stored'[s] >= stored[s] /\ stored'[s] <= accepted[s]
      BY <2>2, <3>3, <3>4, <3>5, <3>9 DEF Counts, End, OrderInv
    <3>8. Ring!Store(s)
      BY <3>2, <3>6, <3>7 DEF Ring!Store
    <3> QED BY <1>2, <3>8 DEF Ring!Next
  <2>6. ASSUME NotifySend  PROVE [Ring!Next]_(Ring!vars)
    <3>1. PICK n \in Notices : n = notify_reg
      BY <2>1, <2>6, SendFacts
    <3>2. PICK s \in Sessions, l \in Nat : s = n.id /\ l = n.len
      BY RecordFacts
    <3>3. announced' = [announced EXCEPT ![s] = @ + l] /\ UNCHANGED <<accepted, stored, freed>>
      BY <2>6, <3>1, <3>2 DEF NotifySend
    <3>4. announced'[s] = announced[s] + l /\ \A t \in Sessions : t # s => announced'[t] = announced[t]
      BY <2>2, <3>3 DEF Counts
    <3>5. CASE l = 0
      <4>1. announced' = announced
        BY <2>2, <3>3, <3>5 DEF Counts
      <4> QED BY <2>3, <3>3, <4>1
    <3>6. CASE l # 0
      <4>1. announced' = [announced EXCEPT ![s] = announced'[s]]
        BY <2>2, <3>4, OneEntry
      <4>2. announced'[s] > announced[s]
        BY <2>2, <3>4, <3>6 DEF Counts
      <4>3. announced'[s] <= stored[s]
        <5>1. OrderInv'
          BY <1>2, <2>1, <2>6, CoreNotifySend DEF Core, ChainInv
        <5> QED BY <3>3, <5>1 DEF OrderInv
      <4>4. Ring!Publish(s)
        BY <3>3, <4>1, <4>2, <4>3 DEF Ring!Publish
      <4> QED BY <1>2, <4>4 DEF Ring!Next
    <3> QED BY <3>5, <3>6
  <2>7. ASSUME SarApp  PROVE [Ring!Next]_(Ring!vars)
    <3>1. app_req # <<>> /\ Head(app_req) = app_req[1] /\ UNCHANGED <<accepted, stored, announced>>
      BY <2>1, <2>7, Popped DEF SarApp, TInv, TSar, Fifo
    <3>2. CASE ~app_req[1].write
      <4>1. freed' = freed
        BY <2>7, <3>1, <3>2 DEF SarApp
      <4> QED BY <2>3, <3>1, <4>1
    <3>3. CASE app_req[1].write
      <4>1. PICK s \in Sessions :
              /\ freed'[s] = ReadTo[s] /\ freed' = [freed EXCEPT ![s] = freed'[s]] /\ freed[s] <= freed'[s]
        BY <2>1, <2>7, <3>3, GiveFacts
      <4>2. freed'[s] <= announced[s]
        BY <2>1, <4>1, Stages DEF Core, ChainInv
      <4>3. CASE freed'[s] = freed[s]
        <5>1. freed' = freed
          BY <2>2, <4>1, <4>3 DEF Counts
        <5> QED BY <2>3, <3>1, <5>1
      <4>4. CASE freed'[s] # freed[s]
        <5>1. freed'[s] > freed[s]
          BY <2>2, <4>1, <4>4 DEF Counts
        <5>2. Ring!Ack(s)
          BY <3>1, <4>1, <4>2, <5>1 DEF Ring!Ack
        <5> QED BY <1>2, <5>2 DEF Ring!Next
      <4> QED BY <4>3, <4>4
    <3> QED BY <3>2, <3>3
  <2>8. ASSUME SarEng \/ MergeNotice \/ NotifyLookup \/ DataHandler \/ MoverRead \/ EchoReceive
        PROVE  UNCHANGED <<accepted, stored, announced, freed>>
    BY <2>8 DEF SarEng, MergeNotice, NotifyLookup, DataHandler, DataReq, SarRsp, Deliver, MoverRead, EchoReceive,
                GetDataNoty, WaitSessionId, history
  <2>9. ASSUME EchoTransmit
        PROVE  UNCHANGED <<accepted, stored, announced, freed>>
    BY <2>9 DEF EchoTransmit, EchoRequest, EchoRefused, EchoAgain, EchoForward, EchoGranted, history
  <2>10. ASSUME Inputs  PROVE UNCHANGED <<accepted, stored, announced, freed>>
    BY <2>10 DEF Inputs, SarTxLookup, Abort, Establish, Load, LoadAck, history
  <2>11. ASSUME UNCHANGED vars  PROVE UNCHANGED <<accepted, stored, announced, freed>>
    BY <2>11 DEF vars, history
  <2> QED BY <2>3, <2>4, <2>5, <2>6, <2>7, <2>8, <2>9, <2>10, <2>11, Zenon DEF Next, Sar
<1> QED BY <1>1, <1>2

LEMMA RingInit == Init => Ring!Init
<1> SUFFICES ASSUME Init  PROVE Ring!Init
  OBVIOUS
<1>1. Healthy
  BY DEF Init, Healthy
<1> QED BY <1>1 DEF Init, Zero, Ring!Init, Ring!Zero

\* recvd and app_read, which wrap and of which each engine sees a late copy, make a ring of the
\* receive buffer: a segment is accepted only into room that was given back, and the application
\* is told of stored bytes only, until the first deviation.
THEOREM RingImplemented == Spec => ImplementsRing
<1>1. Init => Ring!Init
  BY RingInit
<1>2. IInv /\ [Next]_vars => [Ring!Next]_(Ring!vars)
  BY RingStep
<1> QED BY <1>1, <1>2, IInvInvariant, PTL DEF Spec, ImplementsRing, Ring!Spec

-----------------------------------------------------------------------------
(* The echo.                                                                 *)

\* What echo_server sends back are the bytes it received, each once and in order, although
\* notices, requests, accesses and data meet by their order only.
THEOREM EchoIsExact == Spec => EchoExact
<1>1. ASSUME IInv, [Next]_vars, EchoForward, Healthy
      PROVE  LET m == echo_tx.meta IN Head(echo_data) = [i \in 1 .. m.len |-> echoed[m.id] + i - 1]
  <2>1. TInv /\ TInv' /\ Core
    BY <1>1, TypeNext DEF IInv
  <2>2. PICK m : m = echo_tx.meta
    OBVIOUS
  <2>3. m.at = echoed[m.id] /\ Head(echo_data) = Numbers(m.at, m.len)
    BY <1>1, <2>1, <2>2, ForwardFacts
  <2> QED BY <2>2, <2>3 DEF Numbers
<1>2. IInv /\ [Next]_vars =>
        [EchoForward /\ Healthy
           => LET m == echo_tx.meta IN Head(echo_data) = [i \in 1 .. m.len |-> echoed[m.id] + i - 1]]_vars
  BY <1>1
<1> QED BY <1>2, IInvInvariant, PTL DEF Spec, EchoExact

-----------------------------------------------------------------------------
(* The window.                                                               *)

LEMMA TypeHolds == TInv => ReceiveTypeOK
<1> SUFFICES ASSUME TInv  PROVE ReceiveTypeOK
  OBVIOUS
<1>1. rx_sar_table \in [Sessions -> [recvd : 0 .. SeqMod - 1, app_read : 0 .. BufMod - 1, scale : Scales \cup {1}]]
  BY DEF TInv, TSar, Entry, Seqs, Addrs
<1>2. \A T, q : Fifo(q, T) => Len(q) \in 0 .. Depth
  BY DepthFacts DEF Fifo
<1>3. /\ Len(app_req) \in 0 .. Depth /\ Len(app_rsp) \in 0 .. Depth /\ Len(eng_req) \in 0 .. Depth
      /\ Len(store) \in 0 .. Depth /\ Len(rx_notice) \in 0 .. Depth /\ Len(rt_notice) \in 0 .. Depth
      /\ Len(notices) \in 0 .. Depth /\ Len(net_notice) \in 0 .. Depth /\ Len(read_req) \in 0 .. Depth
      /\ Len(read_rsp) \in 0 .. Depth /\ Len(echo_meta) \in 0 .. Depth /\ Len(echo_data) \in 0 .. Depth
  BY <1>2 DEF TInv, TSar, TEng, TNotify, TReader, TEcho
<1>4. Len(eng_rsp) \in 0 .. Depth
  BY DepthFacts DEF TInv, TSar
<1>5. Len(blocks) \in 0 .. Depth /\ Len(read_data) \in 0 .. Depth
  <2>1. blocks \in Seq(Blocks) /\ read_data \in Seq(Bytes)
    BY DEF TInv, TReader
  <2>2. Len(read_data) + Len(blocks) <= 2
    BY States DEF TInv, TReader
  <2> QED BY <2>1, <2>2, DepthFacts
<1>6. /\ fsm.state \in {"WAIT_NET_APP_DATA_REQ", "WAIT_SAR_RSP", "WAIT_DATA"}
      /\ app.state \in {"GET_DATA_NOTY", "WAIT_SESSION_ID", "FORWARD_DATA"}
      /\ echo_tx.state \in {"READ_META", "WAIT_RESPONSE", "WAIT_CYCLES", "FORWARD_DATA"}
  BY States
<1>7. mem \in [Sessions -> [0 .. BufMod - 1 -> Count \cup {Empty}]]
  BY DEF TInv, TRest, Addrs, Count
<1>8. {base[s] : s \in Sessions} \subseteq 0 .. SeqMod - 1
  BY DEF TInv, TRest, Seqs
<1> QED BY <1>1, <1>3, <1>4, <1>5, <1>6, <1>7, <1>8 DEF ReceiveTypeOK

\* The window told to the peer is kept: a segment in order within it finds the room, whatever
\* has happened since, and is accepted unless it fills the room to the last byte; and no later
\* window takes it back, but for the rounding of its scale.
THEOREM WindowIsKept == Spec => WindowKept
<1>1. Spec => []ReceiveTypeOK
  <2>1. IInv => ReceiveTypeOK
    BY TypeHolds DEF IInv
  <2> QED BY <2>1, IInvInvariant, PTL
<1>2. Spec => WindowHonest
  <2>1. ASSUME IInv, [Next]_vars, Transition, Healthy, conn[eng.id] = "OPEN", eng.len # 0, eng.fits,
               eng.at = accepted[eng.id]
        PROVE  LET room == FreeSpace(Head(eng_rsp)) IN
               room >= eng.len /\ (room # eng.len => accepted'[eng.id] = accepted[eng.id] + eng.len)
    <3>1. TInv /\ Core /\ eng # Nothing /\ eng_rsp # <<>>
      BY <2>1 DEF IInv, Transition
    <3>2. PICK s \in Sessions, l \in Nat, seq \in {SeqNo(base[eng.id] + eng.at)} : s = eng.id /\ l = eng.len
      BY <3>1, RecordFacts DEF TInv, TEng
    <3>3. PICK room \in Int : room = FreeSpace(Head(eng_rsp)) /\ room >= l /\ seq = Head(eng_rsp).recvd
      BY <2>1, <3>1, <3>2, AcceptFacts
    <3>4. ASSUME room # l  PROVE accepted'[s] = accepted[s] + l
      <4>1. Takes(eng, Head(eng_rsp), seq)
        BY <2>1, <3>2, <3>3, <3>4 DEF Takes, Accepts, AcceptsFin
      <4>2. accepted' = [accepted EXCEPT ![s] = @ + l]
        BY <2>1, <3>2, <4>1 DEF Transition
      <4> QED BY <3>1, <4>2, Counters DEF TInv, TRest
    <3> QED BY <3>2, <3>3, <3>4
  <2>2. IInv /\ [Next]_vars =>
          [Transition /\ Healthy /\ conn[eng.id] = "OPEN" /\ eng.len # 0
             /\ eng.fits /\ eng.at = accepted[eng.id]
             => LET room == FreeSpace(Head(eng_rsp)) IN
                room >= eng.len /\ (room # eng.len => accepted'[eng.id] = accepted[eng.id] + eng.len)]_vars
    BY <2>1
  <2> QED BY <2>2, IInvInvariant, PTL DEF Spec, WindowHonest
<1>3. Spec => EdgeKept
  <2>1. ASSUME IInv, NEW s \in Sessions, Healthy, SarTxLookup(s),
               FreeSpace(rx_sar_table[s]) < WinMod * rx_sar_table[s].scale
        PROVE  edge'[s] + rx_sar_table[s].scale > edge[s]
    <3>1. TInv /\ Core
      BY <2>1 DEF IInv
    <3>2. edge'[s] \in Int /\ edge'[s] + rx_sar_table[s].scale > freed[s] + BufMod - 1
      BY <2>1, <3>1, LookupFacts
    <3>3. edge[s] <= freed[s] + BufMod - 1
      BY <3>1 DEF Core, RcvInv, SpaceInv
    <3>4. PICK x \in Int, y \in Int, z \in Int, f \in Nat, k \in Nat :
            x = edge'[s] /\ y = edge[s] /\ f = freed[s] /\ k = rx_sar_table[s].scale /\ z = f + BufMod - 1
      <4>1. edge[s] \in Int /\ freed[s] \in Nat /\ rx_sar_table[s].scale \in Nat
        BY <3>1, Counters
      <4>2. freed[s] + BufMod - 1 \in Int
        BY <4>1, Modulus
      <4> QED BY <3>2, <4>1, <4>2
    <3>5. x + k > z /\ y <= z
      BY <3>2, <3>3, <3>4
    <3>6. x + k > y
      BY <3>5
    <3> QED BY <3>4, <3>6
  <2>2. IInv /\ [Next]_vars =>
          [\A s \in Sessions :
             LET e == rx_sar_table[s] IN
             Healthy /\ SarTxLookup(s) /\ FreeSpace(e) < WinMod * e.scale => edge'[s] + e.scale > edge[s]]_vars
    BY <2>1
  <2> QED BY <2>2, IInvInvariant, PTL DEF Spec, EdgeKept
<1> QED BY <1>1, <1>2, <1>3 DEF WindowKept
=============================================================================
