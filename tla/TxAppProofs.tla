----------------------------- MODULE TxAppProofs -----------------------------
(***************************************************************************)
(* Proofs about TxApp: the pointers of the send buffer, which wrap, and    *)
(* their late copies implement the ring of RingBuffer, an event goes on    *)
(* only with its bytes stored although events, flags and statuses meet by  *)
(* order only, and a FIN goes behind the data accepted before it, for      *)
(* every size of the ring, number of sessions and depth of the FIFOs.      *)
(***************************************************************************)
EXTENDS TxApp, TLAPS

-----------------------------------------------------------------------------
(* The types.                                                               *)

WriteEv == [type : {"TX"}, id : Sessions, addr : Ptr, len : Lengths, at : Nat, no : Nat]
FinEv   == [type : {"FIN"}, id : Sessions]
Entry   == [ackd : Ptr, app_written_ideal : Ptr]
Reads   == [id : Sessions, write : {FALSE}]
Writes  == [id : Sessions, write : {TRUE}, app_written_ideal : Ptr]
Update  == [id : Sessions, ackd : Ptr, init : BOOLEAN]
Asking  == [state : {"READ_META"}, id : Sessions, len : Lengths, est : BOOLEAN]
Waiting == [state : {"READ_STATUS_1", "READ_STATUS_2"}, ev : WriteEv]
Job     == [id : Sessions, no : Nat, part : {1, 2}, len : Nat]
Status  == [no : Nat, part : {1, 2}, okay : BOOLEAN]
SarUpd  == [id : Sessions, app_written : Ptr, no : Nat]

Counts == [Sessions -> Nat]

TTable ==
  /\ tx_app_table \in [Sessions -> Entry]
  /\ table_req \in Seq(Reads \cup Writes) /\ Len(table_req) <= Depth
  /\ table_rsp \in Seq(Entry) /\ Len(table_rsp) <= Depth
  /\ upd_req \in Seq(Update) /\ Len(upd_req) <= Depth
TFsm ==
  /\ fsm \in {Idle, [state |-> "READ_DATA"]} \cup Asking
  /\ data_ev \in Seq(WriteEv) /\ Len(data_ev) <= Depth
  /\ mem_cmd \in Seq(WriteEv) /\ Len(mem_cmd) <= Depth
  /\ mem_data \in Seq({"payload"}) /\ Len(mem_data) <= Depth
TMerge ==
  /\ conn_ev \in Seq(FinEv) /\ Len(conn_ev) <= Depth
  /\ cache \in Seq(WriteEv \cup FinEv) /\ Len(cache) <= CacheDepth
TMemory ==
  /\ writer \in {Nothing} \cup WriteEv
  /\ flags \in Seq(BOOLEAN) /\ Len(flags) <= Depth
  /\ jobs \in Seq(Job) /\ Len(jobs) <= 2
  /\ statuses \in Seq(Status) /\ Len(statuses) <= Depth
TRsp ==
  /\ rsp \in {ReadEvent} \cup Waiting
  /\ sar_upd \in Seq(SarUpd) /\ Len(sar_upd) <= Depth
  /\ set_event \in Seq(WriteEv \cup FinEv) /\ Len(set_event) <= Depth
TSar ==
  /\ sar \in [Sessions -> [ackd : Ptr, app_written : Ptr]]
  /\ conn \in [Sessions -> {"CLOSED", "ESTABLISHED", "FIN_WAIT_1"}]
THistory ==
  /\ reserved \in Counts /\ stored \in Counts /\ published \in Counts /\ acked \in Counts
  /\ closed_at \in Counts /\ accepted \in Seq(WriteEv) /\ bad \subseteq Nat
  /\ deviation \in {"none", "late_data", "fin_overtakes", "status_left", "empty_write"} /\ reqs \in Nat

TInv == TTable /\ TFsm /\ TMerge /\ TMemory /\ TRsp /\ TSar /\ THistory

-----------------------------------------------------------------------------
(* The order of what is under way, as long as every status is read.  All    *)
(* that is under way is about the accepted writes in their order, so it is  *)
(* enough to say up to which of them each process has come.                 *)

Begun  == Len(accepted) - Len(mem_cmd)                        \* writes begun by the memory writer
Issued == IF writer = Nothing THEN Begun ELSE Begun - 1       \* ... and given to the data mover
Done   == Begun - Len(flags)                                  \* flags read by the handler
Merged == Len(accepted) - Len(data_ev)                        \* events merged into the cache
Taken  == IF rsp.state = "READ_STATUS_1" THEN Done + 1 ELSE Done   \* events taken from it
Finished == IF rsp.state = "READ_STATUS_2" THEN Done - 1 ELSE Done   \* ... and finished
FirstPart(n) == IF Breaks(accepted[n]) THEN 1 ELSE 2

OAccepted ==
  /\ \A i \in 1 .. Len(accepted) : accepted[i].no = i
  /\ 0 <= Finished /\ Done <= Issued /\ Taken <= Merged
\* What waits at the memory writer, and a flag for each write it has begun.
OWriter ==
  /\ \A i \in 1 .. Len(mem_cmd) : mem_cmd[i] = accepted[Begun + i]
  /\ \A i \in 1 .. Len(flags) : flags[i] = Breaks(accepted[Done + i])
  /\ writer # Nothing => writer = accepted[Begun]
\* The events, before and in the cache, where FINs are between them.
OEvents ==
  /\ \A i \in 1 .. Len(data_ev) : data_ev[i] = accepted[Merged + i]
  /\ \A i \in 1 .. Len(cache) : cache[i].type = "TX" =>
       /\ cache[i].no \in Taken + 1 .. Merged /\ cache[i] = accepted[cache[i].no]
       /\ \A j \in 1 .. Len(cache) : i < j /\ cache[j].type = "TX" => cache[i].no < cache[j].no
  /\ \A n \in Taken + 1 .. Merged :
       \E i \in 1 .. Len(cache) : cache[i].type = "TX" /\ cache[i].no = n
\* The event the handler works on.
ORsp ==
  /\ rsp.state = "READ_STATUS_1" => rsp.ev = accepted[Done + 1]
  /\ rsp.state = "READ_STATUS_2" => rsp.ev = accepted[Done]

\* The accesses of the data mover under way: those it has reported and those it has not.
\* They follow each other, from the one the handler expects to the last one issued.
Accesses == Len(statuses) + Len(jobs)
Item(i) == IF i <= Len(statuses) THEN <<statuses[i].no, statuses[i].part>>
           ELSE <<jobs[i - Len(statuses)].no, jobs[i - Len(statuses)].part>>
Follows(x, y) ==
  \/ x[2] = 1 /\ y = <<x[1], 2>>
  \/ x[2] = 2 /\ y = <<x[1] + 1, FirstPart(x[1] + 1)>>
Expected == IF rsp.state = "READ_STATUS_2" THEN <<Done, 2>> ELSE <<Done + 1, FirstPart(Done + 1)>>
OAccess ==
  /\ Accesses = 0 => Done = Issued /\ rsp.state # "READ_STATUS_2"
  /\ Accesses > 0 => Item(1) = Expected /\ Item(Accesses) = <<Issued, 2>>
  /\ \A i \in 1 .. Accesses : Item(i)[1] \in Done .. Issued
  /\ \A i \in 1 .. Accesses - 1 : Follows(Item(i), Item(i + 1))
  /\ \A i, j \in 1 .. Accesses :
       i < j => 2 * Item(i)[1] + Item(i)[2] < 2 * Item(j)[1] + Item(j)[2]

\* A write of which a part failed has a status that says so, until the handler has read it.
BadShown ==
  \A b \in bad : b > Finished =>
    \E i \in 1 .. Len(statuses) : statuses[i].no = b /\ ~statuses[i].okay

Order == OAccepted /\ OWriter /\ OEvents /\ ORsp /\ OAccess /\ BadShown

-----------------------------------------------------------------------------
(* The bytes, as long as no write has failed.                                *)

End(e) == e.at + e.len
Pointer(n) == Low(Isn + 1 + n)
Waits(n) == n > Finished \/ \E i \in 1 .. Len(sar_upd) : sar_upd[i].no = n

\* The accepted writes of a session lie one behind the other.
BWrites ==
  /\ \A i \in 1 .. Len(accepted) :
       /\ accepted[i].addr = Pointer(accepted[i].at) /\ End(accepted[i]) <= reserved[accepted[i].id]
       /\ \A j \in 1 .. Len(accepted) :
            i < j /\ accepted[i].id = accepted[j].id => End(accepted[i]) <= accepted[j].at
       /\ accepted[i].at # 0 =>
            \E j \in 1 .. i - 1 : accepted[j].id = accepted[i].id /\ End(accepted[j]) = accepted[i].at
  /\ \A s \in Sessions : reserved[s] # 0 =>
       \E i \in 1 .. Len(accepted) : accepted[i].id = s /\ End(accepted[i]) = reserved[s]
\* They are stored in this order; the accesses that wait are the rest of the last write issued.
BStored ==
  /\ \A n \in 1 .. Issued : n < Issued \/ jobs = <<>> => End(accepted[n]) <= stored[accepted[n].id]
  /\ \A n \in Issued + 1 .. Len(accepted) : stored[accepted[n].id] <= accepted[n].at
  /\ \A i \in 1 .. Len(jobs) :
       /\ jobs[i].no = Issued /\ jobs[i].id = accepted[Issued].id
       /\ jobs[i].part = IF i = Len(jobs) THEN 2 ELSE 1
  /\ Len(jobs) = 1 => stored[jobs[1].id] + jobs[1].len = End(accepted[Issued])
  /\ Len(jobs) = 2 => /\ jobs[1].len + jobs[2].len = accepted[Issued].len
                      /\ stored[jobs[1].id] = accepted[Issued].at
\* The tx engine is told of them in this order.
BTold ==
  /\ \A i \in 1 .. Len(sar_upd) :
       /\ sar_upd[i].no \in 1 .. Finished /\ sar_upd[i].id = accepted[sar_upd[i].no].id
       /\ sar_upd[i].app_written = Pointer(End(accepted[sar_upd[i].no]))
       /\ \A j \in 1 .. Len(sar_upd) : i < j => sar_upd[i].no < sar_upd[j].no
  /\ \A n \in 1 .. Len(accepted) :
       IF Waits(n) THEN published[accepted[n].id] <= accepted[n].at
       ELSE End(accepted[n]) <= published[accepted[n].id]

\* No status says that a write failed.
BOkay == \A i \in 1 .. Len(statuses) : statuses[i].okay

Bytes == BWrites /\ BStored /\ BTold /\ BOkay

-----------------------------------------------------------------------------
(* The room in the ring.                                                     *)

\* A connection that was never established has nothing under way.
RClosed ==
  \A s \in Sessions : conn[s] = "CLOSED" =>
    /\ reserved[s] = 0 /\ stored[s] = 0 /\ published[s] = 0 /\ acked[s] = 0 /\ closed_at[s] = 0
    /\ \A i \in 1 .. Len(upd_req) : upd_req[i].id # s
    /\ \A i \in 1 .. Len(table_req) : table_req[i].id # s
    /\ fsm.state = "READ_META" => fsm.id # s
RCounts ==
  \A s \in Sessions :
    /\ acked[s] <= published[s] /\ published[s] <= stored[s] /\ stored[s] <= reserved[s]
    /\ reserved[s] - acked[s] <= BufMod - 1
    /\ conn[s] # "CLOSED" => sar[s] = [ackd |-> Pointer(acked[s]), app_written |-> Pointer(published[s])]
\* One request at a time: its read waits at the table, behind the write of the request before,
\* or has been answered.
RRequest ==
  IF fsm.state = "READ_META"
  THEN IF table_rsp = <<>>
       THEN /\ Len(table_req) \in {1, 2} /\ table_req[Len(table_req)] = ReadReq(fsm.id)
            /\ Len(table_req) = 2 => table_req[1].write
       ELSE Len(table_rsp) = 1 /\ table_req = <<>>
  ELSE table_rsp = <<>> /\ Len(table_req) <= 1 /\ (table_req # <<>> => table_req[1].write)
\* The table has the last ackd of the session, or an update with it is under way.
RAckd ==
  \A s \in Sessions : conn[s] # "CLOSED" =>
    /\ (\A i \in 1 .. Len(upd_req) : upd_req[i].id # s) => tx_app_table[s].ackd = sar[s].ackd
    /\ \A i \in 1 .. Len(upd_req) :
         upd_req[i].id = s /\ (\A j \in i + 1 .. Len(upd_req) : upd_req[j].id # s)
           => upd_req[i].ackd = sar[s].ackd /\ ~upd_req[i].init
\* The first update of a connection comes before its first request is answered.
Inits(s) == \E i \in 1 .. Len(upd_req) : upd_req[i].id = s /\ upd_req[i].init
Asked(s) == fsm.state = "READ_META" /\ fsm.id = s
Writing(s) == \E i \in 1 .. Len(table_req) : table_req[i].id = s /\ table_req[i].write
RInits ==
  /\ \A i \in 1 .. Len(upd_req) : upd_req[i].init => upd_req[i].ackd = Pointer(0)
  /\ \A s \in Sessions : Inits(s) =>
       reserved[s] = 0 /\ ~Writing(s) /\ (Asked(s) => table_rsp = <<>>)
\* The table has the pointer behind the last accepted byte, or the write of it is under way.
RIdeal ==
  /\ \A s \in Sessions : conn[s] # "CLOSED" /\ ~Inits(s) /\ ~Writing(s) =>
       tx_app_table[s].app_written_ideal = Pointer(reserved[s])
  /\ \A i \in 1 .. Len(table_req) : table_req[i].write =>
       table_req[i].app_written_ideal = Pointer(reserved[table_req[i].id])
\* An answer knows all that was accepted, and the acknowledgements up to some moment.
RAnswer ==
  table_rsp # <<>> =>
    /\ table_rsp[1].app_written_ideal = Pointer(reserved[fsm.id])
    /\ \E a \in 0 .. acked[fsm.id] :
         table_rsp[1].ackd = Pointer(a) /\ reserved[fsm.id] - a <= BufMod - 1

Space == RClosed /\ RCounts /\ RRequest /\ RAckd /\ RInits /\ RIdeal /\ RAnswer

-----------------------------------------------------------------------------
(* The FINs.                                                                 *)

FClosed == \A s \in Sessions : conn[s] # "CLOSED" => closed_at[s] <= reserved[s]
FEvents ==
  /\ \A i \in 1 .. Len(conn_ev) : conn[conn_ev[i].id] = "FIN_WAIT_1"
  /\ \A i \in 1 .. Len(cache) : cache[i].type = "FIN" =>
       /\ conn[cache[i].id] = "FIN_WAIT_1"
       /\ \A j \in 1 .. Len(data_ev) : data_ev[j].id # cache[i].id
       /\ \A j \in i + 1 .. Len(cache) : cache[j].type = "TX" => cache[j].id # cache[i].id
Fins == FClosed /\ FEvents

\* The inductive invariant.
IInv == TInv /\ (Healthy => Order) /\ (~Failed => Bytes /\ Space /\ Fins)
-----------------------------------------------------------------------------
(* Pointers.                                                                *)

LEMMA Modulus == BufMod \in Nat /\ BufMod > 1 /\ Isn \in Ptr /\ \A n \in Lengths : n \in 1 .. BufMod
BY BufAssumption, LengthsAssumption DEF Ptr

LEMMA LowDivides ==
  ASSUME NEW x \in Int
  PROVE  /\ Low(x) \in Ptr /\ Low(x) \in Int
         /\ \E q \in Int : x = BufMod * q + Low(x)
<1>1. BufMod \in Nat /\ BufMod > 0
  BY Modulus
<1>2. x = BufMod * (x \div BufMod) + (x % BufMod) /\ (x \div BufMod) \in Int
      /\ (x % BufMod) \in 0 .. BufMod - 1
  BY <1>1
<1> QED BY <1>2 DEF Low, Ptr

\* A number has one residue.
LEMMA LowUnique ==
  ASSUME NEW q \in Int, NEW r \in Ptr
  PROVE  Low(BufMod * q + r) = r
<1> DEFINE x == BufMod * q + r
<1>1. BufMod \in Nat /\ BufMod > 0 /\ r \in Int /\ 0 <= r /\ r < BufMod
  BY Modulus DEF Ptr
<1>2. x \in Int
  BY <1>1
<1>3. PICK p \in Int : x = BufMod * p + Low(x)
  BY <1>2, LowDivides
<1>4. Low(x) \in Int /\ 0 <= Low(x) /\ Low(x) < BufMod
  BY <1>2, <1>1, LowDivides DEF Ptr
<1>5. PICK d \in Int : d = p - q
  OBVIOUS
<1>6. BufMod * d = r - Low(x)
  <2>1. BufMod * d = BufMod * p - BufMod * q
    BY <1>1, <1>5
  <2>2. BufMod * p \in Int /\ BufMod * q \in Int
    BY <1>1
  <2> QED BY <2>1, <2>2, <1>1, <1>3, <1>4
<1>7. d = 0
  <2>1. ASSUME d >= 1  PROVE FALSE
    <3>1. BufMod * d >= BufMod
      BY <1>1, <2>1
    <3> QED BY <3>1, <1>1, <1>4, <1>6
  <2>2. ASSUME d <= -1  PROVE FALSE
    <3>1. BufMod * d <= -BufMod
      BY <1>1, <2>2
    <3> QED BY <3>1, <1>1, <1>4, <1>6
  <2> QED BY <2>1, <2>2
<1>8. BufMod * d = 0
  BY <1>1, <1>7
<1> QED BY <1>8, <1>6, <1>4, <1>1

LEMMA LowSmall ==
  ASSUME NEW x \in Int
  PROVE  /\ 0 <= x /\ x < BufMod => Low(x) = x
         /\ -BufMod <= x /\ x < 0 => Low(x) = x + BufMod
<1>1. BufMod \in Nat /\ BufMod > 0
  BY Modulus
<1>2. BufMod * 0 = 0 /\ BufMod * (-1) = -BufMod
  BY <1>1
<1>3. ASSUME 0 <= x, x < BufMod  PROVE Low(x) = x
  <2>1. x \in Ptr
    BY <1>1, <1>3 DEF Ptr
  <2>2. Low(BufMod * 0 + x) = x
    BY <2>1, LowUnique
  <2> QED BY <2>2, <1>2
<1>4. ASSUME -BufMod <= x, x < 0  PROVE Low(x) = x + BufMod
  <2>1. x + BufMod \in Ptr
    BY <1>1, <1>4 DEF Ptr
  <2>2. Low(BufMod * (-1) + (x + BufMod)) = x + BufMod
    BY <2>1, LowUnique
  <2>3. BufMod * (-1) + (x + BufMod) = x
    BY <1>2, <1>1
  <2> QED BY <2>2, <2>3
<1> QED BY <1>3, <1>4

\* Adding to a residue is adding to the number.
LEMMA LowAdd ==
  ASSUME NEW x \in Int, NEW n \in Int
  PROVE  Low(Low(x) + n) = Low(x + n)
<1>1. BufMod \in Nat /\ BufMod > 0
  BY Modulus
<1>2. Low(x) \in Ptr /\ Low(x) \in Int
  BY <1>1, LowDivides DEF Ptr
<1>3. PICK p \in Int : x = BufMod * p + Low(x)
  BY LowDivides
<1>4. Low(x) + n \in Int
  BY <1>2
<1>5. PICK q \in Int : Low(x) + n = BufMod * q + Low(Low(x) + n)
  BY <1>4, LowDivides
<1>6. Low(Low(x) + n) \in Ptr /\ Low(Low(x) + n) \in Int
  BY <1>1, <1>4, LowDivides DEF Ptr
<1>7. x + n = BufMod * (p + q) + Low(Low(x) + n)
  <2>1. BufMod * (p + q) = BufMod * p + BufMod * q
    BY <1>1
  <2>2. BufMod * p \in Int /\ BufMod * q \in Int
    BY <1>1
  <2> QED BY <2>1, <2>2, <1>3, <1>5, <1>6, <1>2
<1>8. p + q \in Int
  OBVIOUS
<1> QED BY <1>6, <1>7, <1>8, LowUnique

\* Two numbers that differ as two residues differ from their numbers.
LEMMA LowSub ==
  ASSUME NEW x \in Int, NEW y \in Int, NEW z \in Int, NEW w \in Int,
         w - z = (Low(x) - x) - (Low(y) - y)
  PROVE  Low(w) = Low(z)
<1>1. BufMod \in Nat /\ BufMod > 0
  BY Modulus
<1>2. Low(x) \in Int /\ Low(y) \in Int /\ Low(w) \in Int /\ Low(w) \in Ptr
  BY LowDivides
<1>3. PICK p \in Int : x = BufMod * p + Low(x)
  BY LowDivides
<1>4. PICK q \in Int : y = BufMod * q + Low(y)
  BY LowDivides
<1>5. PICK r \in Int : w = BufMod * r + Low(w)
  BY LowDivides
<1>6. z = BufMod * (p - q + r) + Low(w)
  <2>1. BufMod * (p - q + r) = BufMod * p - BufMod * q + BufMod * r
    BY <1>1
  <2>2. BufMod * p \in Int /\ BufMod * q \in Int /\ BufMod * r \in Int
    BY <1>1
  <2> QED BY <2>1, <2>2, <1>2, <1>3, <1>4, <1>5
<1>7. p - q + r \in Int
  OBVIOUS
<1> QED BY <1>2, <1>6, <1>7, LowUnique

\* What the pointers say of the distances of the bytes they stand for.
LEMMA PointerFacts ==
  ASSUME NEW m \in Nat
  PROVE  /\ Pointer(m) \in Ptr
         /\ \A n \in Nat : NextPtr(Pointer(m), n) = Pointer(m + n) /\ Low(Pointer(m) + n) = Pointer(m + n)
         /\ \A n \in Nat : m <= n /\ n - m < BufMod => Low(Pointer(n) - Pointer(m)) = n - m
         /\ \A n \in Nat : m <= n /\ n - m < BufMod => Low(Pointer(m) - Pointer(n) - 1) = BufMod - 1 - (n - m)
<1>1. BufMod \in Nat /\ BufMod > 0 /\ Isn \in Int
  BY Modulus DEF Ptr
<1>2. \A n \in Nat : Isn + 1 + n \in Int
  BY <1>1
<1>3. \A n \in Nat : Pointer(n) \in Ptr /\ Pointer(n) \in Int
  BY <1>1, <1>2, LowDivides DEF Pointer, Ptr
<1>4. ASSUME NEW n \in Nat  PROVE Low(Pointer(m) + n) = Pointer(m + n)
  <2>1. Isn + 1 + m + n = Isn + 1 + (m + n)
    BY <1>1
  <2> QED BY <2>1, <1>2, LowAdd DEF Pointer
<1>5. ASSUME NEW n \in Nat, m <= n, n - m < BufMod
      PROVE  /\ Low(Pointer(n) - Pointer(m)) = n - m
             /\ Low(Pointer(m) - Pointer(n) - 1) = BufMod - 1 - (n - m)
  <2>0. PICK x \in Int, y \in Int : x = Isn + 1 + n /\ y = Isn + 1 + m
    BY <1>2
  <2>1. PICK u \in Int, v \in Int : u = Pointer(n) - Pointer(m) /\ v = Pointer(m) - Pointer(n) - 1
    BY <1>3
  <2>2. Pointer(n) = Low(x) /\ Pointer(m) = Low(y) /\ Low(x) \in Int /\ Low(y) \in Int
    BY <2>0, <1>3 DEF Pointer
  <2>3. PICK a \in Int, b \in Int : a = n - m /\ b = m - n - 1
    OBVIOUS
  <2>5. Low(u) = Low(a)
    <3>1. u - a = (Low(x) - x) - (Low(y) - y)
      BY <2>0, <2>1, <2>2, <2>3, <1>1
    <3> QED BY <3>1, LowSub
  <2>6. Low(v) = Low(b)
    <3>1. v - b = (Low(y) - y) - (Low(x) - x)
      BY <2>0, <2>1, <2>2, <2>3, <1>1
    <3> QED BY <3>1, LowSub
  <2>4. Low(n - m) = n - m /\ Low(m - n - 1) = m - n - 1 + BufMod
    <3>1. n - m \in Int /\ 0 <= n - m /\ m - n - 1 \in Int /\ -BufMod <= m - n - 1 /\ m - n - 1 < 0
      BY <1>1, <1>5
    <3> QED BY <3>1, <1>5, LowSmall
  <2>7. m - n - 1 + BufMod = BufMod - 1 - (n - m)
    BY <1>1
  <2> QED BY <2>1, <2>3, <2>4, <2>5, <2>6, <2>7
<1> QED BY <1>3, <1>4, <1>5 DEF NextPtr

-----------------------------------------------------------------------------
(* FIFOs and tables.                                                         *)

\* A FIFO after its head was read, and after an entry was written.
Takes(q, r) == /\ Len(q) > 0 /\ Len(r) = Len(q) - 1
               /\ \A i \in 1 .. Len(r) : r[i] = q[i + 1]
Grows(q, r, e) == /\ Len(r) = Len(q) + 1 /\ r[Len(q) + 1] = e
                  /\ \A i \in 1 .. Len(q) : r[i] = q[i]

LEMMA In ==
  ASSUME NEW T, NEW q \in Seq(T)
  PROVE  /\ Len(q) \in Nat /\ (Len(q) = 0 <=> q = <<>>)
         /\ \A i \in 1 .. Len(q) : q[i] \in T
<1>1. Len(q) \in Nat /\ (\A i \in 1 .. Len(q) : q[i] \in T)
  OBVIOUS
<1>2. Len(q) = 0 => q = <<>>
  OBVIOUS
<1>3. \A r : r = <<>> => Len(r) = 0
  OBVIOUS
<1> QED BY <1>1, <1>2, <1>3

LEMMA Rd ==
  ASSUME NEW T, NEW q \in Seq(T), q # <<>>
  PROVE  /\ Head(q) \in T /\ Head(q) = q[1] /\ Tail(q) \in Seq(T)
         /\ Takes(q, Tail(q)) /\ Len(Tail(q)) \in Nat /\ Len(q) \in Nat
<1>1. /\ Head(q) \in T /\ Tail(q) \in Seq(T) /\ Head(q) = q[1]
      /\ Len(q) \in Nat /\ Len(q) > 0 /\ Len(Tail(q)) = Len(q) - 1 /\ Len(Tail(q)) \in Nat
      /\ \A i \in 1 .. Len(q) - 1 : Tail(q)[i] = q[i + 1]
  OBVIOUS
<1> QED BY <1>1 DEF Takes

LEMMA Wr ==
  ASSUME NEW T, NEW q \in Seq(T), NEW e \in T
  PROVE  /\ Append(q, e) \in Seq(T) /\ Grows(q, Append(q, e), e)
         /\ Len(q) \in Nat /\ Len(Append(q, e)) = Len(q) + 1
<1>1. /\ Append(q, e) \in Seq(T) /\ Len(q) \in Nat /\ Len(Append(q, e)) = Len(q) + 1
      /\ Append(q, e)[Len(q) + 1] = e
      /\ \A i \in 1 .. Len(q) : Append(q, e)[i] = q[i]
  OBVIOUS
<1> QED BY <1>1 DEF Grows

\* A table of which one entry is written.
LEMMA Upd ==
  ASSUME NEW S, NEW T, NEW f \in [S -> T], NEW s \in S, NEW v \in T
  PROVE  /\ [f EXCEPT ![s] = v] \in [S -> T] /\ [f EXCEPT ![s] = v][s] = v
         /\ \A x \in S : x # s => [f EXCEPT ![s] = v][x] = f[x]
OBVIOUS

\* The records the state machines and FIFOs are made of tell each other apart.
LEMMA Kinds ==
  /\ \A e \in WriteEv : e.type = "TX" /\ e # Nothing /\ e.id \in Sessions /\ e.addr \in Ptr
                        /\ e.len \in Lengths /\ e.at \in Nat /\ e.no \in Nat
                        /\ e.len \in Nat /\ e.len > 0 /\ e.addr \in Nat
  /\ \A e \in FinEv : e.type = "FIN" /\ e.id \in Sessions
  /\ \A f \in Asking : f.state = "READ_META" /\ f.id \in Sessions /\ f.len \in Lengths /\ f.len \in Nat
  /\ \A r \in Waiting : r.state \in {"READ_STATUS_1", "READ_STATUS_2"} /\ r.ev \in WriteEv
  /\ \A r \in Reads : ~r.write /\ r.id \in Sessions
  /\ \A r \in Writes : r.write /\ r.id \in Sessions /\ r.app_written_ideal \in Ptr
  /\ Idle.state = "READ_REQUEST" /\ ReadEvent.state = "READ_EV"
<1>1. \A n \in Ptr : n \in Nat
  BY Modulus DEF Ptr
<1>2. \A n \in Lengths : n \in Nat /\ n > 0
  BY Modulus
<1>3. \A e \in WriteEv : e # Nothing
  <2> SUFFICES ASSUME NEW e \in WriteEv, e = Nothing  PROVE FALSE
    OBVIOUS
  <2>1. "type" \in DOMAIN e
    BY DEF WriteEv
  <2>2. DOMAIN Nothing = {"none"}
    BY DEF Nothing
  <2> QED BY <2>1, <2>2
<1> QED BY <1>1, <1>2, <1>3
        DEF WriteEv, FinEv, Asking, Waiting, Reads, Writes, Idle, ReadEvent

-----------------------------------------------------------------------------
(* What a step does, entry by entry.                                         *)

Tells(ev) == /\ Grows(sar_upd, sar_upd', [id |-> ev.id, app_written |-> NextPtr(ev.addr, ev.len),
                                          no |-> ev.no])
             /\ Grows(set_event, set_event', ev)

\* A finished event: the update of tx_sar_table and the event for the event engine.
LEMMA TellStep ==
  ASSUME TRsp, NEW ev \in WriteEv, Tell(ev)
  PROVE  /\ Tells(ev) /\ sar_upd' \in Seq(SarUpd) /\ Len(sar_upd') <= Depth
         /\ set_event' \in Seq(WriteEv \cup FinEv) /\ Len(set_event') <= Depth
<1>1. PICK u : u = [id |-> ev.id, app_written |-> NextPtr(ev.addr, ev.len), no |-> ev.no]
  OBVIOUS
<1>2. NextPtr(ev.addr, ev.len) \in Ptr
  <2>1. ev.addr + ev.len \in Int
    BY Kinds
  <2> QED BY <2>1, LowDivides DEF NextPtr
<1>3. u \in SarUpd
  BY <1>1, <1>2, Kinds DEF SarUpd
<1>4. /\ sar_upd' = Append(sar_upd, u) /\ Len(sar_upd) < Depth
      /\ set_event' = Append(set_event, ev) /\ Len(set_event) < Depth
      /\ sar_upd \in Seq(SarUpd) /\ set_event \in Seq(WriteEv \cup FinEv)
  BY <1>1 DEF Tell, Room, TRsp
<1>5. Grows(sar_upd, sar_upd', u) /\ sar_upd' \in Seq(SarUpd) /\ Len(sar_upd') <= Depth
  BY <1>3, <1>4, Wr, DepthAssumption
<1>6. /\ Grows(set_event, set_event', ev) /\ set_event' \in Seq(WriteEv \cup FinEv)
      /\ Len(set_event') <= Depth
  BY <1>4, Wr, DepthAssumption
<1> QED BY <1>1, <1>5, <1>6 DEF Tells

\* The table takes an update.
LEMMA TableUpdateStep ==
  ASSUME TInv, TableUpdate
  PROVE  /\ TInv'
         /\ upd_req[1] \in Update /\ Takes(upd_req, upd_req')
         /\ tx_app_table'[upd_req[1].id] =
              [ackd |-> IF upd_req[1].init THEN Low(upd_req[1].ackd - 1) ELSE upd_req[1].ackd,
               app_written_ideal |-> IF upd_req[1].init THEN upd_req[1].ackd
                                     ELSE tx_app_table[upd_req[1].id].app_written_ideal]
         /\ \A s \in Sessions : s # upd_req[1].id => tx_app_table'[s] = tx_app_table[s]
         /\ UNCHANGED <<table_req, table_rsp, fsm, data_ev, conn_ev, cache, mem_cmd, mem_data,
                        writer, flags, jobs, statuses, rsp, sar_upd, set_event, sar, conn,
                        reserved, stored, published, acked, closed_at, accepted, bad,
                        deviation, reqs>>
<1>0. UNCHANGED <<table_req, table_rsp, fsm, data_ev, conn_ev, cache, mem_cmd, mem_data,
                  writer, flags, jobs, statuses, rsp, sar_upd, set_event, sar, conn,
                  reserved, stored, published, acked, closed_at, accepted, bad,
                  deviation, reqs>>
  BY DEF TableUpdate, handler, memory, out, history
<1>1. upd_req \in Seq(Update) /\ upd_req # <<>> /\ upd_req' = Tail(upd_req)
      /\ tx_app_table \in [Sessions -> Entry] /\ Len(upd_req) <= Depth
  BY DEF TableUpdate, TInv, TTable
<1>2. PICK r : r = Head(upd_req)
  OBVIOUS
<1>3. r \in Update /\ r = upd_req[1] /\ Takes(upd_req, upd_req') /\ upd_req' \in Seq(Update)
      /\ Len(upd_req') <= Depth
  BY <1>1, <1>2, Rd, DepthAssumption DEF Takes
<1>4. r.id \in Sessions /\ r.ackd \in Ptr /\ Low(r.ackd - 1) \in Ptr
  <2>1. r.id \in Sessions /\ r.ackd \in Ptr
    BY <1>3 DEF Update
  <2>2. r.ackd - 1 \in Int
    BY <2>1, Modulus DEF Ptr
  <2> QED BY <2>1, <2>2, LowDivides
<1>5. PICK o : o = tx_app_table[r.id]
  OBVIOUS
<1>6. o \in Entry /\ o.app_written_ideal \in Ptr
  BY <1>1, <1>4, <1>5 DEF Entry
<1>7. PICK v : v = IF r.init THEN [ackd |-> Low(r.ackd - 1), app_written_ideal |-> r.ackd]
                   ELSE [o EXCEPT !.ackd = r.ackd]
  OBVIOUS
<1>8. v = [ackd |-> IF r.init THEN Low(r.ackd - 1) ELSE r.ackd,
           app_written_ideal |-> IF r.init THEN r.ackd ELSE o.app_written_ideal]
  BY <1>6, <1>7 DEF Entry
<1>9. v \in Entry
  BY <1>4, <1>6, <1>8 DEF Entry
<1>10. tx_app_table' = [tx_app_table EXCEPT ![r.id] = v]
  BY <1>2, <1>5, <1>7 DEF TableUpdate
<1>11. /\ tx_app_table' \in [Sessions -> Entry] /\ tx_app_table'[r.id] = v
       /\ \A s \in Sessions : s # r.id => tx_app_table'[s] = tx_app_table[s]
  BY <1>1, <1>4, <1>9, <1>10, Upd
<1>t. tx_app_table' \in [Sessions -> Entry] /\ upd_req' \in Seq(Update) /\ Len(upd_req') <= Depth
  BY <1>3, <1>11
<1>TTable. TTable'
  BY <1>0, <1>t DEF TInv, TTable
<1>r. TFsm' /\ TMerge' /\ TMemory' /\ TRsp' /\ TSar' /\ THistory'
  BY <1>0 DEF TInv, TFsm, TMerge, TMemory, TRsp, TSar, THistory
<1>i. TInv'
  BY <1>TTable, <1>r DEF TInv
<1> QED BY <1>0, <1>i, <1>3, <1>5, <1>8, <1>11, Zenon

\* The table serves an access of the handler.
LEMMA TableAccessStep ==
  ASSUME TInv, TableAccess
  PROVE  /\ TInv'
         /\ upd_req = <<>> /\ table_req[1] \in Reads \cup Writes /\ Takes(table_req, table_req')
         /\ \/ /\ table_req[1] \in Writes /\ table_rsp' = table_rsp
               /\ tx_app_table'[table_req[1].id] =
                    [ackd |-> tx_app_table[table_req[1].id].ackd,
                     app_written_ideal |-> table_req[1].app_written_ideal]
               /\ \A s \in Sessions : s # table_req[1].id => tx_app_table'[s] = tx_app_table[s]
            \/ /\ table_req[1] \in Reads /\ tx_app_table' = tx_app_table
               /\ Grows(table_rsp, table_rsp', tx_app_table[table_req[1].id])
         /\ UNCHANGED <<upd_req, fsm, data_ev, conn_ev, cache, mem_cmd, mem_data, writer,
                        flags, jobs, statuses, rsp, sar_upd, set_event, sar, conn, reserved,
                        stored, published, acked, closed_at, accepted, bad, deviation, reqs>>
<1>0. UNCHANGED <<upd_req, fsm, data_ev, conn_ev, cache, mem_cmd, mem_data, writer,
                  flags, jobs, statuses, rsp, sar_upd, set_event, sar, conn, reserved,
                  stored, published, acked, closed_at, accepted, bad, deviation, reqs>>
  BY DEF TableAccess, handler, memory, out, history
<1>1. /\ table_req \in Seq(Reads \cup Writes) /\ table_req # <<>> /\ table_req' = Tail(table_req)
      /\ tx_app_table \in [Sessions -> Entry] /\ Len(table_req) <= Depth /\ upd_req = <<>>
      /\ table_rsp \in Seq(Entry) /\ Len(table_rsp) <= Depth
  BY DEF TableAccess, TInv, TTable
<1>2. PICK r : r = Head(table_req)
  OBVIOUS
<1>3. /\ r \in Reads \cup Writes /\ r = table_req[1] /\ Takes(table_req, table_req')
      /\ table_req' \in Seq(Reads \cup Writes) /\ Len(table_req') <= Depth
  BY <1>1, <1>2, Rd, DepthAssumption DEF Takes
<1>4. PICK o : o = tx_app_table[r.id]
  OBVIOUS
<1>5. r.id \in Sessions /\ o \in Entry
  BY <1>1, <1>3, <1>4, Kinds
<1>6. ASSUME r \in Writes
      PROVE  /\ tx_app_table' \in [Sessions -> Entry] /\ table_rsp' = table_rsp
             /\ tx_app_table'[r.id] = [ackd |-> o.ackd, app_written_ideal |-> r.app_written_ideal]
             /\ \A s \in Sessions : s # r.id => tx_app_table'[s] = tx_app_table[s]
  <2>1. r.write /\ r.app_written_ideal \in Ptr
    BY <1>6, Kinds
  <2>2. table_rsp' = table_rsp
        /\ tx_app_table' = [tx_app_table EXCEPT ![r.id].app_written_ideal = r.app_written_ideal]
    BY <1>2, <2>1, Zenon DEF TableAccess
  <2>3. PICK v : v = [ackd |-> o.ackd, app_written_ideal |-> r.app_written_ideal]
    OBVIOUS
  <2>4. v = [o EXCEPT !.app_written_ideal = r.app_written_ideal] /\ v \in Entry
    BY <1>5, <2>1, <2>3 DEF Entry
  <2>5. tx_app_table' = [tx_app_table EXCEPT ![r.id] = v]
    BY <1>4, <2>2, <2>4
  <2>6. /\ tx_app_table' \in [Sessions -> Entry] /\ tx_app_table'[r.id] = v
        /\ \A s \in Sessions : s # r.id => tx_app_table'[s] = tx_app_table[s]
    BY <1>1, <1>5, <2>4, <2>5, Upd
  <2> QED BY <2>2, <2>3, <2>6
<1>7. ASSUME r \in Reads
      PROVE  /\ tx_app_table' = tx_app_table /\ Grows(table_rsp, table_rsp', o)
             /\ table_rsp' \in Seq(Entry) /\ Len(table_rsp') <= Depth
  <2>1. ~r.write
    BY <1>7, Kinds
  <2>2. tx_app_table' = tx_app_table /\ table_rsp' = Append(table_rsp, o) /\ Room(table_rsp)
    BY <1>2, <1>4, <2>1, Zenon DEF TableAccess
  <2> QED BY <1>1, <1>5, <2>2, Wr, DepthAssumption DEF Room
<1>t. /\ tx_app_table' \in [Sessions -> Entry]
      /\ table_req' \in Seq(Reads \cup Writes) /\ Len(table_req') <= Depth
      /\ table_rsp' \in Seq(Entry) /\ Len(table_rsp') <= Depth
  BY <1>1, <1>3, <1>6, <1>7
<1>TTable. TTable'
  BY <1>0, <1>t DEF TInv, TTable
<1>r. TFsm' /\ TMerge' /\ TMemory' /\ TRsp' /\ TSar' /\ THistory'
  BY <1>0 DEF TInv, TFsm, TMerge, TMemory, TRsp, TSar, THistory
<1>i. TInv'
  BY <1>TTable, <1>r DEF TInv
<1> QED BY <1>0, <1>i, <1>1, <1>3, <1>4, <1>6, <1>7, Zenon

\* A request of the application.
LEMMA ReadRequestStep ==
  ASSUME TInv, NEW s \in Sessions, NEW n \in Lengths, ReadRequest(s, n)
  PROVE  /\ TInv'
         /\ fsm = Idle /\ conn[s] # "CLOSED" /\ Grows(table_req, table_req', ReadReq(s))
         /\ fsm' \in Asking /\ fsm'.id = s
         /\ UNCHANGED <<tx_app_table, table_rsp, upd_req, data_ev, conn_ev, cache, mem_cmd,
                        mem_data, writer, flags, jobs, statuses, rsp, sar_upd, set_event, sar,
                        conn, reserved, stored, published, acked, closed_at, accepted, bad,
                        deviation>>
<1>0. UNCHANGED <<tx_app_table, table_rsp, upd_req, data_ev, conn_ev, cache, mem_cmd,
                  mem_data, writer, flags, jobs, statuses, rsp, sar_upd, set_event, sar,
                  conn, reserved, stored, published, acked, closed_at, accepted, bad,
                  deviation>>
  BY DEF ReadRequest, handler, memory, out, history
<1>1. /\ table_req' = Append(table_req, ReadReq(s)) /\ Room(table_req) /\ fsm = Idle
      /\ conn[s] # "CLOSED" /\ reqs' = reqs + 1
      /\ fsm' = [state |-> "READ_META", id |-> s, len |-> n, est |-> conn[s] = "ESTABLISHED"]
  BY DEF ReadRequest
<1>2. ReadReq(s) \in Reads
  BY DEF ReadReq, Reads
<1>3. table_req \in Seq(Reads \cup Writes)
  BY DEF TInv, TTable
<1>4. /\ Grows(table_req, table_req', ReadReq(s)) /\ table_req' \in Seq(Reads \cup Writes)
      /\ Len(table_req') <= Depth
  BY <1>1, <1>2, <1>3, Wr, DepthAssumption DEF Room
<1>5. fsm' \in Asking /\ fsm'.id = s
  BY <1>1 DEF Asking
<1>t. /\ table_req' \in Seq(Reads \cup Writes) /\ Len(table_req') <= Depth
      /\ fsm' \in {Idle, [state |-> "READ_DATA"]} \cup Asking /\ reqs' \in Nat
  BY <1>1, <1>4, <1>5 DEF TInv, THistory
<1>TTable. TTable'
  BY <1>0, <1>t DEF TInv, TTable
<1>TFsm. TFsm'
  BY <1>0, <1>t DEF TInv, TFsm
<1>THistory. THistory'
  BY <1>0, <1>t DEF TInv, THistory
<1>r. TMerge' /\ TMemory' /\ TRsp' /\ TSar'
  BY <1>0 DEF TInv, TMerge, TMemory, TRsp, TSar
<1>i. TInv'
  BY <1>TTable, <1>TFsm, <1>THistory, <1>r DEF TInv
<1> QED BY <1>0, <1>i, <1>1, <1>4, <1>5

LEMMA RefuseStep ==
  ASSUME TInv, Refuse
  PROVE  /\ TInv'
         /\ fsm.state = "READ_META" /\ Takes(table_rsp, table_rsp') /\ fsm' = Idle
         /\ UNCHANGED <<tx_app_table, table_req, upd_req, data_ev, conn_ev, cache, mem_cmd,
                        mem_data, writer, flags, jobs, statuses, rsp, sar_upd, set_event, sar,
                        conn, reserved, stored, published, acked, closed_at, accepted, bad,
                        deviation, reqs>>
<1>0. UNCHANGED <<tx_app_table, table_req, upd_req, data_ev, conn_ev, cache, mem_cmd,
                  mem_data, writer, flags, jobs, statuses, rsp, sar_upd, set_event, sar,
                  conn, reserved, stored, published, acked, closed_at, accepted, bad,
                  deviation, reqs>>
  BY DEF Refuse, handler, memory, out, history
<1>1. /\ fsm.state = "READ_META" /\ table_rsp # <<>> /\ table_rsp' = Tail(table_rsp) /\ fsm' = Idle
  BY DEF Refuse, AfterRefusal
<1>2. table_rsp \in Seq(Entry) /\ Len(table_rsp) <= Depth
  BY DEF TInv, TTable
<1>3. Takes(table_rsp, table_rsp') /\ table_rsp' \in Seq(Entry) /\ Len(table_rsp') <= Depth
  BY <1>1, <1>2, Rd, DepthAssumption DEF Takes
<1>t. /\ table_rsp' \in Seq(Entry) /\ Len(table_rsp') <= Depth
      /\ fsm' \in {Idle, [state |-> "READ_DATA"]} \cup Asking
  BY <1>1, <1>3
<1>TTable. TTable'
  BY <1>0, <1>t DEF TInv, TTable
<1>TFsm. TFsm'
  BY <1>0, <1>t DEF TInv, TFsm
<1>r. TMerge' /\ TMemory' /\ TRsp' /\ TSar' /\ THistory'
  BY <1>0 DEF TInv, TMerge, TMemory, TRsp, TSar, THistory
<1>i. TInv'
  BY <1>TTable, <1>TFsm, <1>r DEF TInv
<1> QED BY <1>0, <1>i, <1>1, <1>3

LEMMA AcceptStep ==
  ASSUME TInv, Accept
  PROVE  /\ TInv'
         /\ fsm \in Asking /\ table_rsp[1] \in Entry /\ fsm.len <= MaxWriteLength(table_rsp[1])
         /\ accepted'[Len(accepted) + 1] =
              TxEvent(fsm.id, table_rsp[1].app_written_ideal, fsm.len, reserved[fsm.id], Len(accepted) + 1)
         /\ accepted'[Len(accepted) + 1] \in WriteEv
         /\ Grows(accepted, accepted', accepted'[Len(accepted) + 1])
         /\ Grows(mem_cmd, mem_cmd', accepted'[Len(accepted) + 1])
         /\ Grows(data_ev, data_ev', accepted'[Len(accepted) + 1])
         /\ Grows(table_req, table_req', WriteReq(fsm.id, NextPtr(table_rsp[1].app_written_ideal, fsm.len)))
         /\ reserved'[fsm.id] = reserved[fsm.id] + fsm.len
         /\ \A s \in Sessions : s # fsm.id => reserved'[s] = reserved[s]
         /\ Takes(table_rsp, table_rsp') /\ fsm' = [state |-> "READ_DATA"]
         /\ Healthy' => Healthy /\ conn[fsm.id] = "ESTABLISHED"
         /\ UNCHANGED <<tx_app_table, upd_req, conn_ev, cache, mem_data, writer, flags, jobs,
                        statuses, rsp, sar_upd, set_event, sar, conn, stored, published, acked,
                        closed_at, bad, reqs>>
<1>0. UNCHANGED <<tx_app_table, upd_req, conn_ev, cache, mem_data, writer, flags, jobs,
                  statuses, rsp, sar_upd, set_event, sar, conn, stored, published, acked,
                  closed_at, bad, reqs>>
  BY DEF Accept, handler, memory, out, history
<1>1. PICK e, ev : /\ e = Head(table_rsp)
                   /\ ev = TxEvent(fsm.id, e.app_written_ideal, fsm.len, reserved[fsm.id], Len(accepted) + 1)
  OBVIOUS
<1>2. /\ fsm.state = "READ_META" /\ table_rsp # <<>> /\ table_rsp' = Tail(table_rsp)
      /\ fsm' = [state |-> "READ_DATA"] /\ fsm.len <= MaxWriteLength(e)
      /\ Len(mem_cmd) < Depth /\ Len(data_ev) < Depth /\ Len(table_req) < Depth
      /\ mem_cmd' = Append(mem_cmd, ev) /\ data_ev' = Append(data_ev, ev)
      /\ accepted' = Append(accepted, ev)
      /\ table_req' = Append(table_req, WriteReq(fsm.id, NextPtr(e.app_written_ideal, fsm.len)))
      /\ reserved' = [reserved EXCEPT ![fsm.id] = @ + fsm.len]
      /\ deviation' = IF Healthy /\ conn[fsm.id] # "ESTABLISHED" THEN "late_data" ELSE deviation
  BY <1>1, Zenon DEF Accept, Room
<1>3. /\ table_rsp \in Seq(Entry) /\ Len(table_rsp) <= Depth /\ table_req \in Seq(Reads \cup Writes)
      /\ mem_cmd \in Seq(WriteEv) /\ data_ev \in Seq(WriteEv) /\ accepted \in Seq(WriteEv)
      /\ reserved \in [Sessions -> Nat]
      /\ fsm \in {Idle, [state |-> "READ_DATA"]} \cup Asking
  BY DEF TInv, TTable, TFsm, THistory, Counts
<1>4. fsm \in Asking /\ fsm.id \in Sessions /\ fsm.len \in Lengths /\ fsm.len \in Nat
  <2>1. fsm \in Asking
    BY <1>2, <1>3, Kinds
  <2> QED BY <2>1, Kinds
<1>5. /\ e \in Entry /\ e = table_rsp[1] /\ Takes(table_rsp, table_rsp')
      /\ table_rsp' \in Seq(Entry) /\ Len(table_rsp') <= Depth
  BY <1>1, <1>2, <1>3, Rd, DepthAssumption DEF Takes
<1>6. e.app_written_ideal \in Ptr /\ e.app_written_ideal \in Int
  BY <1>5, Modulus DEF Entry, Ptr
<1>7. ev \in WriteEv
  <2>1. reserved[fsm.id] \in Nat /\ Len(accepted) + 1 \in Nat
    BY <1>3, <1>4, In
  <2> QED BY <1>1, <1>4, <1>6, <2>1 DEF WriteEv, TxEvent
<1>8. PICK w : w = WriteReq(fsm.id, NextPtr(e.app_written_ideal, fsm.len))
  OBVIOUS
<1>9. w \in Writes
  <2>1. e.app_written_ideal + fsm.len \in Int
    BY <1>4, <1>6
  <2>2. NextPtr(e.app_written_ideal, fsm.len) \in Ptr
    BY <2>1, LowDivides DEF NextPtr
  <2> QED BY <1>4, <1>8, <2>2 DEF WriteReq, Writes
<1>10. /\ Grows(mem_cmd, mem_cmd', ev) /\ mem_cmd' \in Seq(WriteEv) /\ Len(mem_cmd') <= Depth
       /\ Grows(data_ev, data_ev', ev) /\ data_ev' \in Seq(WriteEv) /\ Len(data_ev') <= Depth
       /\ Grows(accepted, accepted', ev) /\ accepted' \in Seq(WriteEv)
  BY <1>2, <1>3, <1>7, Wr, DepthAssumption
<1>11. /\ Grows(table_req, table_req', w) /\ table_req' \in Seq(Reads \cup Writes)
       /\ Len(table_req') <= Depth
  BY <1>2, <1>3, <1>8, <1>9, Wr, DepthAssumption
<1>12. PICK v : v = reserved[fsm.id] + fsm.len
  OBVIOUS
<1>13. v \in Nat /\ reserved' = [reserved EXCEPT ![fsm.id] = v]
  <2>1. reserved[fsm.id] \in Nat /\ fsm.len \in Nat
    BY <1>3, <1>4
  <2>2. v \in Nat
    BY <2>1, <1>12
  <2>3. reserved' = [reserved EXCEPT ![fsm.id] = v]
    BY <1>2, <1>12
  <2> QED BY <2>2, <2>3
<1>14. /\ reserved' \in [Sessions -> Nat] /\ reserved'[fsm.id] = v
       /\ \A s \in Sessions : s # fsm.id => reserved'[s] = reserved[s]
  BY <1>3, <1>4, <1>13, Upd
<1>15. deviation' \in {"none", "late_data", "fin_overtakes", "status_left", "empty_write"}
       /\ (Healthy' => Healthy /\ conn[fsm.id] = "ESTABLISHED")
  BY <1>2 DEF TInv, THistory, Healthy
<1>16. accepted'[Len(accepted) + 1] = ev
  BY <1>10 DEF Grows
<1>t. /\ table_rsp' \in Seq(Entry) /\ Len(table_rsp') <= Depth
      /\ table_req' \in Seq(Reads \cup Writes) /\ Len(table_req') <= Depth
      /\ fsm' \in {Idle, [state |-> "READ_DATA"]} \cup Asking
      /\ mem_cmd' \in Seq(WriteEv) /\ Len(mem_cmd') <= Depth
      /\ data_ev' \in Seq(WriteEv) /\ Len(data_ev') <= Depth
      /\ accepted' \in Seq(WriteEv) /\ reserved' \in Counts
      /\ deviation' \in {"none", "late_data", "fin_overtakes", "status_left", "empty_write"}
  BY <1>2, <1>5, <1>10, <1>11, <1>14, <1>15 DEF Counts
<1>TTable. TTable'
  BY <1>0, <1>t DEF TInv, TTable
<1>TFsm. TFsm'
  BY <1>0, <1>t DEF TInv, TFsm
<1>THistory. THistory'
  BY <1>0, <1>t DEF TInv, THistory
<1>r. TMerge' /\ TMemory' /\ TRsp' /\ TSar'
  BY <1>0 DEF TInv, TMerge, TMemory, TRsp, TSar
<1>i. TInv'
  BY <1>TTable, <1>TFsm, <1>THistory, <1>r DEF TInv
<1> QED BY <1>0, <1>i, <1>1, <1>2, <1>4, <1>5, <1>7, <1>8, <1>10, <1>11, <1>12, <1>14, <1>15, <1>16, Zenon

LEMMA ReadDataStep ==
  ASSUME TInv, ReadData
  PROVE  /\ TInv'
         /\ fsm.state = "READ_DATA" /\ fsm' = Idle
         /\ UNCHANGED <<tx_app_table, table_req, table_rsp, upd_req, data_ev, conn_ev, cache,
                        mem_cmd, writer, flags, jobs, statuses, rsp, sar_upd, set_event, sar,
                        conn, reserved, stored, published, acked, closed_at, accepted, bad,
                        deviation, reqs>>
<1>0. UNCHANGED <<tx_app_table, table_req, table_rsp, upd_req, data_ev, conn_ev, cache,
                  mem_cmd, writer, flags, jobs, statuses, rsp, sar_upd, set_event, sar,
                  conn, reserved, stored, published, acked, closed_at, accepted, bad,
                  deviation, reqs>>
  BY DEF ReadData, handler, memory, out, history
<1>1. /\ fsm.state = "READ_DATA" /\ mem_data' = Append(mem_data, "payload") /\ fsm' = Idle
      /\ Len(mem_data) < Depth
  BY DEF ReadData, Room
<1>2. mem_data \in Seq({"payload"})
  BY DEF TInv, TFsm
<1>3. mem_data' \in Seq({"payload"}) /\ Len(mem_data') <= Depth
  BY <1>1, <1>2, Wr, DepthAssumption
<1>t. /\ mem_data' \in Seq({"payload"}) /\ Len(mem_data') <= Depth
      /\ fsm' \in {Idle, [state |-> "READ_DATA"]} \cup Asking
  BY <1>1, <1>3
<1>TFsm. TFsm'
  BY <1>0, <1>t DEF TInv, TFsm
<1>r. TTable' /\ TMerge' /\ TMemory' /\ TRsp' /\ TSar' /\ THistory'
  BY <1>0 DEF TInv, TTable, TMerge, TMemory, TRsp, TSar, THistory
<1>i. TInv'
  BY <1>TFsm, <1>r DEF TInv
<1> QED BY <1>0, <1>i, <1>1

LEMMA WriterCmdStep ==
  ASSUME TInv, WriterCmd
  PROVE  /\ TInv'
         /\ writer = Nothing /\ mem_cmd[1] \in WriteEv /\ Takes(mem_cmd, mem_cmd')
         /\ writer' = mem_cmd[1] /\ Grows(flags, flags', Breaks(mem_cmd[1]))
         /\ UNCHANGED <<tx_app_table, table_req, table_rsp, upd_req, fsm, data_ev, conn_ev,
                        cache, mem_data, jobs, statuses, rsp, sar_upd, set_event, sar, conn,
                        reserved, stored, published, acked, closed_at, accepted, bad,
                        deviation, reqs>>
<1>0. UNCHANGED <<tx_app_table, table_req, table_rsp, upd_req, fsm, data_ev, conn_ev,
                  cache, mem_data, jobs, statuses, rsp, sar_upd, set_event, sar, conn,
                  reserved, stored, published, acked, closed_at, accepted, bad,
                  deviation, reqs>>
  BY DEF WriterCmd, handler, memory, out, history
<1>1. /\ writer = Nothing /\ mem_cmd # <<>> /\ Len(flags) < Depth
      /\ writer' = Head(mem_cmd) /\ mem_cmd' = Tail(mem_cmd)
      /\ flags' = Append(flags, Breaks(Head(mem_cmd)))
  BY DEF WriterCmd, Room
<1>2. mem_cmd \in Seq(WriteEv) /\ Len(mem_cmd) <= Depth /\ flags \in Seq(BOOLEAN)
  BY DEF TInv, TFsm, TMemory
<1>3. /\ Head(mem_cmd) \in WriteEv /\ Head(mem_cmd) = mem_cmd[1] /\ Takes(mem_cmd, mem_cmd')
      /\ mem_cmd' \in Seq(WriteEv) /\ Len(mem_cmd') <= Depth
  BY <1>1, <1>2, Rd, DepthAssumption DEF Takes
<1>4. PICK b \in BOOLEAN : b = Breaks(Head(mem_cmd))
  <2>1. Breaks(Head(mem_cmd)) \in BOOLEAN
    BY DEF Breaks
  <2> QED BY <2>1, Zenon
<1>5. Grows(flags, flags', b) /\ flags' \in Seq(BOOLEAN) /\ Len(flags') <= Depth
  <2>1. flags' = Append(flags, b)
    BY <1>1, <1>4, Zenon
  <2> QED BY <1>1, <1>2, <1>4, <2>1, Wr, DepthAssumption
<1>t. /\ mem_cmd' \in Seq(WriteEv) /\ Len(mem_cmd') <= Depth /\ writer' \in {Nothing} \cup WriteEv
      /\ flags' \in Seq(BOOLEAN) /\ Len(flags') <= Depth
  BY <1>1, <1>3, <1>5
<1>TFsm. TFsm'
  BY <1>0, <1>t DEF TInv, TFsm
<1>TMemory. TMemory'
  BY <1>0, <1>t DEF TInv, TMemory
<1>r. TTable' /\ TMerge' /\ TRsp' /\ TSar' /\ THistory'
  BY <1>0 DEF TInv, TTable, TMerge, TRsp, TSar, THistory
<1>i. TInv'
  BY <1>TFsm, <1>TMemory, <1>r DEF TInv
<1> QED BY <1>0, <1>i, <1>1, <1>3, <1>4, <1>5, Zenon

\* The accesses of a write: the part up to the end of the ring and the rest.
LEMMA WriterDataStep ==
  ASSUME TInv, WriterData
  PROVE  /\ TInv'
         /\ writer \in WriteEv /\ jobs = <<>> /\ writer' = Nothing
         /\ Len(jobs') = IF Breaks(writer) THEN 2 ELSE 1
         /\ jobs'[Len(jobs')].id = writer.id /\ jobs'[Len(jobs')].no = writer.no /\ jobs'[Len(jobs')].part = 2
         /\ Breaks(writer) => /\ jobs'[1].id = writer.id /\ jobs'[1].no = writer.no /\ jobs'[1].part = 1
                              /\ jobs'[1].len + jobs'[2].len = writer.len
         /\ ~Breaks(writer) => jobs'[1].len = writer.len
         /\ UNCHANGED <<tx_app_table, table_req, table_rsp, upd_req, fsm, data_ev, conn_ev,
                        cache, mem_cmd, flags, statuses, rsp, sar_upd, set_event, sar, conn,
                        reserved, stored, published, acked, closed_at, accepted, bad,
                        reqs>>
         /\ deviation' = deviation \/ (Healthy /\ deviation' = "empty_write")
<1>0. UNCHANGED <<tx_app_table, table_req, table_rsp, upd_req, fsm, data_ev, conn_ev,
                  cache, mem_cmd, flags, statuses, rsp, sar_upd, set_event, sar, conn,
                  reserved, stored, published, acked, closed_at, accepted, bad,
                  reqs>>
  BY DEF WriterData, handler, memory, out, history
<1>d. deviation' = deviation \/ (Healthy /\ deviation' = "empty_write")
  BY DEF WriterData
<1> DEFINE first == BufMod - writer.addr
           job(part, n) == [id |-> writer.id, no |-> writer.no, part |-> part, len |-> n]
<1>1. /\ writer # Nothing /\ mem_data # <<>> /\ jobs = <<>> /\ writer' = Nothing
      /\ mem_data' = Tail(mem_data)
      /\ jobs' = IF Breaks(writer) THEN <<job(1, first), job(2, writer.len - first)>>
                 ELSE <<job(2, writer.len)>>
  BY Zenon DEF WriterData
<1>2. writer \in WriteEv /\ mem_data \in Seq({"payload"}) /\ Len(mem_data) <= Depth
  BY <1>1 DEF TInv, TFsm, TMemory
<1>3. mem_data' \in Seq({"payload"}) /\ Len(mem_data') <= Depth
  BY <1>1, <1>2, Rd, DepthAssumption DEF Takes
<1>4. /\ writer.id \in Sessions /\ writer.no \in Nat /\ writer.len \in Nat /\ BufMod \in Nat
      /\ writer.addr \in Nat /\ writer.addr < BufMod
  BY <1>2, Kinds, Modulus DEF Ptr
<1>5. first \in Nat /\ (Breaks(writer) => writer.len - first \in Nat)
  BY <1>4 DEF Breaks
<1>6. \A p \in {1, 2}, n \in Nat : job(p, n) \in Job
  BY <1>4 DEF Job
<1>7. ASSUME Breaks(writer)
      PROVE  /\ jobs' \in Seq(Job) /\ Len(jobs') = 2
             /\ jobs'[1] = job(1, first) /\ jobs'[2] = job(2, writer.len - first)
             /\ jobs'[1].len + jobs'[2].len = writer.len
  <2>1. jobs' = <<job(1, first), job(2, writer.len - first)>>
    BY <1>1, <1>7
  <2>2. job(1, first) \in Job /\ job(2, writer.len - first) \in Job
    BY <1>5, <1>6, <1>7
  <2>3. first + (writer.len - first) = writer.len
    BY <1>4
  <2>4. jobs' \in Seq(Job) /\ Len(jobs') = 2 /\ jobs'[1] = job(1, first)
        /\ jobs'[2] = job(2, writer.len - first)
    BY <2>1, <2>2
  <2> QED BY <2>3, <2>4
<1>8. ASSUME ~Breaks(writer)
      PROVE  jobs' \in Seq(Job) /\ Len(jobs') = 1 /\ jobs'[1] = job(2, writer.len)
  <2>1. jobs' = <<job(2, writer.len)>>
    BY <1>1, <1>8
  <2>2. job(2, writer.len) \in Job
    BY <1>4, <1>6
  <2> QED BY <2>1, <2>2
<1>t. /\ mem_data' \in Seq({"payload"}) /\ Len(mem_data') <= Depth /\ writer' \in {Nothing} \cup WriteEv
      /\ jobs' \in Seq(Job) /\ Len(jobs') <= 2
  BY <1>1, <1>3, <1>7, <1>8
<1>TFsm. TFsm'
  BY <1>0, <1>t DEF TInv, TFsm
<1>TMemory. TMemory'
  BY <1>0, <1>t DEF TInv, TMemory
<1>r. TTable' /\ TMerge' /\ TRsp' /\ TSar'
  BY <1>0 DEF TInv, TTable, TMerge, TRsp, TSar
<1>h. THistory'
  <2>1. deviation' = deviation \/ deviation' = "empty_write"
    BY <1>d
  <2> QED BY <1>0, <2>1 DEF TInv, THistory
<1>i. TInv'
  BY <1>TFsm, <1>TMemory, <1>r, <1>h DEF TInv
<1> QED BY <1>0, <1>d, <1>i, <1>1, <1>2, <1>7, <1>8

LEMMA MoverStep ==
  ASSUME TInv, NEW okay \in BOOLEAN, Mover(okay)
  PROVE  /\ TInv'
         /\ jobs[1] \in Job /\ Takes(jobs, jobs')
         /\ Len(statuses') = Len(statuses) + 1
         /\ \A i \in 1 .. Len(statuses) : statuses'[i] = statuses[i]
         /\ statuses'[Len(statuses) + 1].no = jobs[1].no
         /\ statuses'[Len(statuses) + 1].part = jobs[1].part
         /\ statuses'[Len(statuses) + 1].okay = okay
         /\ okay => /\ bad' = bad /\ stored'[jobs[1].id] = stored[jobs[1].id] + jobs[1].len
                    /\ \A s \in Sessions : s # jobs[1].id => stored'[s] = stored[s]
         /\ ~okay => bad' = bad \cup {jobs[1].no} /\ stored' = stored
         /\ UNCHANGED <<tx_app_table, table_req, table_rsp, upd_req, fsm, data_ev, conn_ev,
                        cache, mem_cmd, mem_data, writer, flags, rsp, sar_upd, set_event, sar,
                        conn, reserved, published, acked, closed_at, accepted, deviation, reqs>>
<1>0. UNCHANGED <<tx_app_table, table_req, table_rsp, upd_req, fsm, data_ev, conn_ev,
                  cache, mem_cmd, mem_data, writer, flags, rsp, sar_upd, set_event, sar,
                  conn, reserved, published, acked, closed_at, accepted, deviation, reqs>>
  BY DEF Mover, handler, memory, out, history
<1>1. PICK j, x : j = Head(jobs) /\ x = [no |-> j.no, part |-> j.part, okay |-> okay]
  OBVIOUS
<1>2. /\ jobs # <<>> /\ Len(statuses) < Depth /\ jobs' = Tail(jobs)
      /\ statuses' = Append(statuses, x)
      /\ stored' = IF okay THEN [stored EXCEPT ![j.id] = @ + j.len] ELSE stored
      /\ bad' = IF okay THEN bad ELSE bad \cup {j.no}
  BY <1>1, Zenon DEF Mover, Room
<1>3. /\ jobs \in Seq(Job) /\ Len(jobs) <= 2 /\ statuses \in Seq(Status)
      /\ stored \in [Sessions -> Nat] /\ bad \subseteq Nat
  BY DEF TInv, TMemory, THistory, Counts
<1>4. j \in Job /\ j = jobs[1] /\ Takes(jobs, jobs') /\ jobs' \in Seq(Job) /\ Len(jobs') <= 2
  BY <1>1, <1>2, <1>3, Rd DEF Takes
<1>5. j.id \in Sessions /\ j.no \in Nat /\ j.part \in {1, 2} /\ j.len \in Nat
  BY <1>4 DEF Job
<1>6. x \in Status /\ x.no = j.no /\ x.part = j.part /\ x.okay = okay
  BY <1>1, <1>5 DEF Status
<1>7. /\ statuses' \in Seq(Status) /\ Len(statuses') <= Depth /\ Len(statuses') = Len(statuses) + 1
      /\ statuses'[Len(statuses) + 1] = x
      /\ \A i \in 1 .. Len(statuses) : statuses'[i] = statuses[i]
  BY <1>2, <1>3, <1>6, Wr, DepthAssumption DEF Grows
<1>8. stored[j.id] \in Nat
  BY <1>3, <1>5
<1>9. PICK v \in Nat : v = stored[j.id] + j.len
  BY <1>5, <1>8
<1>10. ASSUME okay
       PROVE  /\ bad' = bad /\ stored' \in [Sessions -> Nat] /\ stored'[j.id] = v
              /\ \A s \in Sessions : s # j.id => stored'[s] = stored[s]
  <2>1. stored' = [stored EXCEPT ![j.id] = v] /\ bad' = bad
    BY <1>2, <1>9, <1>10
  <2> QED BY <1>3, <1>5, <2>1, Upd
<1>11. ASSUME ~okay  PROVE bad' = bad \cup {j.no} /\ bad' \subseteq Nat /\ stored' = stored
  BY <1>2, <1>3, <1>5, <1>11
<1>t. /\ jobs' \in Seq(Job) /\ Len(jobs') <= 2 /\ statuses' \in Seq(Status) /\ Len(statuses') <= Depth
      /\ stored' \in Counts /\ bad' \subseteq Nat
  BY <1>3, <1>4, <1>7, <1>10, <1>11 DEF Counts
<1>TMemory. TMemory'
  BY <1>0, <1>t DEF TInv, TMemory
<1>THistory. THistory'
  BY <1>0, <1>t DEF TInv, THistory
<1>r. TTable' /\ TFsm' /\ TMerge' /\ TRsp' /\ TSar'
  BY <1>0 DEF TInv, TTable, TFsm, TMerge, TRsp, TSar
<1>i. TInv'
  BY <1>TMemory, <1>THistory, <1>r DEF TInv
<1> QED BY <1>0, <1>i, <1>4, <1>6, <1>7, <1>9, <1>10, <1>11, Zenon

LEMMA MergeConnStep ==
  ASSUME TInv, MergeConn
  PROVE  /\ TInv'
         /\ conn_ev[1] \in FinEv /\ Takes(conn_ev, conn_ev') /\ Grows(cache, cache', conn_ev[1])
         /\ Healthy' => Healthy /\ \A i \in 1 .. Len(data_ev) : data_ev[i].id # conn_ev[1].id
         /\ UNCHANGED <<tx_app_table, table_req, table_rsp, upd_req, fsm, data_ev, mem_cmd,
                        mem_data, writer, flags, jobs, statuses, rsp, sar_upd, set_event, sar,
                        conn, reserved, stored, published, acked, closed_at, accepted, bad,
                        reqs>>
<1>0. UNCHANGED <<tx_app_table, table_req, table_rsp, upd_req, fsm, data_ev, mem_cmd,
                  mem_data, writer, flags, jobs, statuses, rsp, sar_upd, set_event, sar,
                  conn, reserved, stored, published, acked, closed_at, accepted, bad,
                  reqs>>
  BY DEF MergeConn, handler, memory, out, history
<1>1. /\ conn_ev # <<>> /\ Len(cache) < CacheDepth
      /\ cache' = Append(cache, Head(conn_ev)) /\ conn_ev' = Tail(conn_ev)
      /\ deviation' = IF Healthy /\ \E i \in 1 .. Len(data_ev) : data_ev[i].id = Head(conn_ev).id
                      THEN "fin_overtakes" ELSE deviation
  BY DEF MergeConn
<1>2. conn_ev \in Seq(FinEv) /\ Len(conn_ev) <= Depth /\ cache \in Seq(WriteEv \cup FinEv)
  BY DEF TInv, TMerge
<1>3. /\ Head(conn_ev) \in FinEv /\ Head(conn_ev) = conn_ev[1] /\ Takes(conn_ev, conn_ev')
      /\ conn_ev' \in Seq(FinEv) /\ Len(conn_ev') <= Depth
  BY <1>1, <1>2, Rd, DepthAssumption DEF Takes
<1>4. /\ Grows(cache, cache', conn_ev[1]) /\ cache' \in Seq(WriteEv \cup FinEv)
      /\ Len(cache') <= CacheDepth
  BY <1>1, <1>2, <1>3, Wr, DepthAssumption
<1>5. deviation \in {"none", "late_data", "fin_overtakes", "status_left", "empty_write"}
  BY DEF TInv, THistory
<1>6. /\ deviation' \in {"none", "late_data", "fin_overtakes", "status_left", "empty_write"}
      /\ (Healthy' => Healthy /\ \A i \in 1 .. Len(data_ev) : data_ev[i].id # conn_ev[1].id)
  BY <1>1, <1>3, <1>5 DEF Healthy
<1>t. /\ conn_ev' \in Seq(FinEv) /\ Len(conn_ev') <= Depth
      /\ cache' \in Seq(WriteEv \cup FinEv) /\ Len(cache') <= CacheDepth
      /\ deviation' \in {"none", "late_data", "fin_overtakes", "status_left", "empty_write"}
  BY <1>3, <1>4, <1>6
<1>TMerge. TMerge'
  BY <1>0, <1>t DEF TInv, TMerge
<1>THistory. THistory'
  BY <1>0, <1>t DEF TInv, THistory
<1>r. TTable' /\ TFsm' /\ TMemory' /\ TRsp' /\ TSar'
  BY <1>0 DEF TInv, TTable, TFsm, TMemory, TRsp, TSar
<1>i. TInv'
  BY <1>TMerge, <1>THistory, <1>r DEF TInv
<1> QED BY <1>0, <1>i, <1>3, <1>4, <1>6

LEMMA MergeDataStep ==
  ASSUME TInv, MergeData
  PROVE  /\ TInv'
         /\ conn_ev = <<>> /\ data_ev[1] \in WriteEv /\ Takes(data_ev, data_ev') /\ Grows(cache, cache', data_ev[1])
         /\ UNCHANGED <<tx_app_table, table_req, table_rsp, upd_req, fsm, conn_ev, mem_cmd,
                        mem_data, writer, flags, jobs, statuses, rsp, sar_upd, set_event, sar,
                        conn, reserved, stored, published, acked, closed_at, accepted, bad,
                        deviation, reqs>>
<1>0. UNCHANGED <<tx_app_table, table_req, table_rsp, upd_req, fsm, conn_ev, mem_cmd,
                  mem_data, writer, flags, jobs, statuses, rsp, sar_upd, set_event, sar,
                  conn, reserved, stored, published, acked, closed_at, accepted, bad,
                  deviation, reqs>>
  BY DEF MergeData, handler, memory, out, history
<1>1. /\ conn_ev = <<>> /\ data_ev # <<>> /\ Len(cache) < CacheDepth
      /\ cache' = Append(cache, Head(data_ev)) /\ data_ev' = Tail(data_ev)
  BY DEF MergeData
<1>2. data_ev \in Seq(WriteEv) /\ Len(data_ev) <= Depth /\ cache \in Seq(WriteEv \cup FinEv)
  BY DEF TInv, TMerge, TFsm
<1>3. /\ Head(data_ev) \in WriteEv /\ Head(data_ev) = data_ev[1] /\ Takes(data_ev, data_ev')
      /\ data_ev' \in Seq(WriteEv) /\ Len(data_ev') <= Depth
  BY <1>1, <1>2, Rd, DepthAssumption DEF Takes
<1>4. /\ Grows(cache, cache', data_ev[1]) /\ cache' \in Seq(WriteEv \cup FinEv)
      /\ Len(cache') <= CacheDepth
  BY <1>1, <1>2, <1>3, Wr, DepthAssumption
<1>t. /\ data_ev' \in Seq(WriteEv) /\ Len(data_ev') <= Depth
      /\ cache' \in Seq(WriteEv \cup FinEv) /\ Len(cache') <= CacheDepth
  BY <1>3, <1>4
<1>TFsm. TFsm'
  BY <1>0, <1>t DEF TInv, TFsm
<1>TMerge. TMerge'
  BY <1>0, <1>t DEF TInv, TMerge
<1>r. TTable' /\ TMemory' /\ TRsp' /\ TSar' /\ THistory'
  BY <1>0 DEF TInv, TTable, TMemory, TRsp, TSar, THistory
<1>i. TInv'
  BY <1>TFsm, <1>TMerge, <1>r DEF TInv
<1> QED BY <1>0, <1>i, <1>1, <1>3, <1>4

LEMMA TakeTxStep ==
  ASSUME TInv, TakeTx
  PROVE  /\ TInv'
         /\ rsp = ReadEvent /\ cache[1] \in WriteEv /\ Takes(cache, cache')
         /\ rsp'.state = "READ_STATUS_1" /\ rsp'.ev = cache[1]
         /\ UNCHANGED <<tx_app_table, table_req, table_rsp, upd_req, fsm, data_ev, conn_ev,
                        mem_cmd, mem_data, writer, flags, jobs, statuses, sar_upd, set_event,
                        sar, conn, reserved, stored, published, acked, closed_at, accepted,
                        bad, deviation, reqs>>
<1>0. UNCHANGED <<tx_app_table, table_req, table_rsp, upd_req, fsm, data_ev, conn_ev,
                  mem_cmd, mem_data, writer, flags, jobs, statuses, sar_upd, set_event,
                  sar, conn, reserved, stored, published, acked, closed_at, accepted,
                  bad, deviation, reqs>>
  BY DEF TakeTx, handler, memory, out, history
<1>1. /\ rsp = ReadEvent /\ cache # <<>> /\ Head(cache).type = "TX" /\ cache' = Tail(cache)
      /\ rsp' = [state |-> "READ_STATUS_1", ev |-> Head(cache)]
  BY DEF TakeTx
<1>2. cache \in Seq(WriteEv \cup FinEv) /\ Len(cache) <= CacheDepth
  BY DEF TInv, TMerge
<1>3. /\ Head(cache) \in WriteEv /\ Head(cache) = cache[1] /\ Takes(cache, cache')
      /\ cache' \in Seq(WriteEv \cup FinEv) /\ Len(cache') <= CacheDepth
  BY <1>1, <1>2, Rd, Kinds, DepthAssumption DEF Takes
<1>4. rsp' \in Waiting /\ rsp'.state = "READ_STATUS_1" /\ rsp'.ev = cache[1]
  BY <1>1, <1>3 DEF Waiting
<1>t. /\ cache' \in Seq(WriteEv \cup FinEv) /\ Len(cache') <= CacheDepth
      /\ rsp' \in {ReadEvent} \cup Waiting
  BY <1>3, <1>4
<1>TMerge. TMerge'
  BY <1>0, <1>t DEF TInv, TMerge
<1>TRsp. TRsp'
  BY <1>0, <1>t DEF TInv, TRsp
<1>r. TTable' /\ TFsm' /\ TMemory' /\ TSar' /\ THistory'
  BY <1>0 DEF TInv, TTable, TFsm, TMemory, TSar, THistory
<1>i. TInv'
  BY <1>TMerge, <1>TRsp, <1>r DEF TInv
<1> QED BY <1>0, <1>i, <1>1, <1>3, <1>4

LEMMA PassFinStep ==
  ASSUME TInv, PassFin
  PROVE  /\ TInv'
         /\ rsp = ReadEvent /\ cache[1] \in FinEv /\ Takes(cache, cache') /\ Grows(set_event, set_event', cache[1])
         /\ UNCHANGED <<tx_app_table, table_req, table_rsp, upd_req, fsm, data_ev, conn_ev,
                        mem_cmd, mem_data, writer, flags, jobs, statuses, rsp, sar_upd, sar,
                        conn, reserved, stored, published, acked, closed_at, accepted, bad,
                        deviation, reqs>>
<1>0. UNCHANGED <<tx_app_table, table_req, table_rsp, upd_req, fsm, data_ev, conn_ev,
                  mem_cmd, mem_data, writer, flags, jobs, statuses, rsp, sar_upd, sar,
                  conn, reserved, stored, published, acked, closed_at, accepted, bad,
                  deviation, reqs>>
  BY DEF PassFin, handler, memory, out, history
<1>1. /\ rsp = ReadEvent /\ cache # <<>> /\ Head(cache).type = "FIN" /\ cache' = Tail(cache)
      /\ set_event' = Append(set_event, Head(cache)) /\ Len(set_event) < Depth
  BY DEF PassFin, Room
<1>2. /\ cache \in Seq(WriteEv \cup FinEv) /\ Len(cache) <= CacheDepth
      /\ set_event \in Seq(WriteEv \cup FinEv)
  BY DEF TInv, TMerge, TRsp
<1>3. /\ Head(cache) \in FinEv /\ Head(cache) = cache[1] /\ Takes(cache, cache')
      /\ cache' \in Seq(WriteEv \cup FinEv) /\ Len(cache') <= CacheDepth
  BY <1>1, <1>2, Rd, Kinds, DepthAssumption DEF Takes
<1>4. /\ Grows(set_event, set_event', cache[1]) /\ set_event' \in Seq(WriteEv \cup FinEv)
      /\ Len(set_event') <= Depth
  BY <1>1, <1>2, <1>3, Wr, DepthAssumption
<1>t. /\ cache' \in Seq(WriteEv \cup FinEv) /\ Len(cache') <= CacheDepth
      /\ set_event' \in Seq(WriteEv \cup FinEv) /\ Len(set_event') <= Depth
  BY <1>3, <1>4
<1>TMerge. TMerge'
  BY <1>0, <1>t DEF TInv, TMerge
<1>TRsp. TRsp'
  BY <1>0, <1>t DEF TInv, TRsp
<1>r. TTable' /\ TFsm' /\ TMemory' /\ TSar' /\ THistory'
  BY <1>0 DEF TInv, TTable, TFsm, TMemory, TSar, THistory
<1>i. TInv'
  BY <1>TMerge, <1>TRsp, <1>r DEF TInv
<1> QED BY <1>0, <1>i, <1>1, <1>3, <1>4

\* The handler reads the first status of a write.
LEMMA Status1Step ==
  ASSUME TInv, Status1
  PROVE  /\ TInv'
         /\ flags[1] \in BOOLEAN /\ statuses[1] \in Status /\ rsp \in Waiting /\ rsp.state = "READ_STATUS_1"
         /\ Takes(flags, flags') /\ Takes(statuses, statuses')
         /\ \/ /\ statuses[1].okay /\ flags[1] /\ rsp'.state = "READ_STATUS_2" /\ rsp'.ev = rsp.ev
               /\ UNCHANGED <<sar_upd, set_event, deviation>>
            \/ /\ statuses[1].okay /\ ~flags[1] /\ rsp' = ReadEvent /\ Tells(rsp.ev) /\ deviation' = deviation
            \/ /\ ~statuses[1].okay /\ rsp' = ReadEvent /\ UNCHANGED <<sar_upd, set_event>>
               /\ (Healthy' => Healthy /\ ~flags[1])
         /\ UNCHANGED <<tx_app_table, table_req, table_rsp, upd_req, fsm, data_ev, conn_ev,
                        cache, mem_cmd, mem_data, writer, jobs, sar, conn, reserved, stored,
                        published, acked, closed_at, accepted, bad, reqs>>
<1>0. UNCHANGED <<tx_app_table, table_req, table_rsp, upd_req, fsm, data_ev, conn_ev,
                  cache, mem_cmd, mem_data, writer, jobs, sar, conn, reserved, stored,
                  published, acked, closed_at, accepted, bad, reqs>>
  BY DEF Status1, handler, memory, out, history
<1>r. TTable' /\ TFsm' /\ TMerge' /\ TSar'
  BY <1>0 DEF TInv, TTable, TFsm, TMerge, TSar
<1>1. PICK f, x : f = Head(flags) /\ x = Head(statuses)
  OBVIOUS
<1>2. /\ rsp.state = "READ_STATUS_1" /\ flags # <<>> /\ statuses # <<>>
      /\ flags' = Tail(flags) /\ statuses' = Tail(statuses)
      /\ \/ /\ x.okay /\ f /\ rsp' = [rsp EXCEPT !.state = "READ_STATUS_2"]
            /\ UNCHANGED <<sar_upd, set_event, deviation>>
         \/ /\ x.okay /\ ~f /\ rsp' = ReadEvent /\ Tell(rsp.ev) /\ deviation' = deviation
         \/ /\ ~x.okay /\ rsp' = ReadEvent /\ UNCHANGED <<sar_upd, set_event>>
            /\ deviation' = IF Healthy /\ f THEN "status_left" ELSE deviation
  BY <1>1, Zenon DEF Status1, SecondPart, out
<1>3. /\ flags \in Seq(BOOLEAN) /\ Len(flags) <= Depth /\ statuses \in Seq(Status)
      /\ Len(statuses) <= Depth /\ rsp \in {ReadEvent} \cup Waiting
      /\ sar_upd \in Seq(SarUpd) /\ Len(sar_upd) <= Depth
      /\ set_event \in Seq(WriteEv \cup FinEv) /\ Len(set_event) <= Depth
      /\ deviation \in {"none", "late_data", "fin_overtakes", "status_left", "empty_write"}
  BY DEF TInv, TMemory, TRsp, THistory
<1>4. rsp \in Waiting /\ rsp.ev \in WriteEv
  <2>1. rsp \in Waiting
    BY <1>2, <1>3, Kinds
  <2> QED BY <2>1, Kinds
<1>5. /\ f \in BOOLEAN /\ f = flags[1] /\ Takes(flags, flags') /\ flags' \in Seq(BOOLEAN)
      /\ Len(flags') <= Depth
  BY <1>1, <1>2, <1>3, Rd, DepthAssumption DEF Takes
<1>6. /\ x \in Status /\ x = statuses[1] /\ Takes(statuses, statuses') /\ statuses' \in Seq(Status)
      /\ Len(statuses') <= Depth
  BY <1>1, <1>2, <1>3, Rd, DepthAssumption DEF Takes
<1>7. PICK w : w = [rsp EXCEPT !.state = "READ_STATUS_2"]
  OBVIOUS
<1>8. w \in Waiting /\ w.state = "READ_STATUS_2" /\ w.ev = rsp.ev
  BY <1>4, <1>7 DEF Waiting
<1>9. CASE x.okay /\ f
  <2>1. rsp' = w /\ UNCHANGED <<sar_upd, set_event, deviation>>
    BY <1>2, <1>7, <1>9, Zenon
  <2>t. /\ rsp' \in {ReadEvent} \cup Waiting
        /\ sar_upd' \in Seq(SarUpd) /\ Len(sar_upd') <= Depth
        /\ set_event' \in Seq(WriteEv \cup FinEv) /\ Len(set_event') <= Depth
        /\ deviation' \in {"none", "late_data", "fin_overtakes", "status_left", "empty_write"}
    BY <1>3, <1>8, <2>1
  <2>i. TInv'
    <3>1. TMemory' /\ TRsp' /\ THistory'
      BY <1>0, <1>3, <1>5, <1>6, <2>t DEF TInv, TMemory, TRsp, THistory
    <3> QED BY <1>r, <3>1 DEF TInv
  <2> QED BY <1>0, <1>2, <1>4, <1>5, <1>6, <1>8, <1>9, <2>1, <2>i, Zenon
<1>10. CASE x.okay /\ ~f
  <2>1. rsp' = ReadEvent /\ Tell(rsp.ev) /\ deviation' = deviation
    BY <1>2, <1>10, Zenon
  <2>2. /\ Tells(rsp.ev) /\ sar_upd' \in Seq(SarUpd) /\ Len(sar_upd') <= Depth
        /\ set_event' \in Seq(WriteEv \cup FinEv) /\ Len(set_event') <= Depth
    BY <1>4, <2>1, TellStep DEF TInv
  <2>i. TInv'
    <3>1. TMemory' /\ TRsp' /\ THistory'
      BY <1>0, <1>3, <1>5, <1>6, <2>1, <2>2 DEF TInv, TMemory, TRsp, THistory
    <3> QED BY <1>r, <3>1 DEF TInv
  <2> QED BY <1>0, <1>2, <1>4, <1>5, <1>6, <1>10, <2>1, <2>2, <2>i, Zenon
<1>11. CASE ~x.okay
  <2>1. /\ rsp' = ReadEvent /\ UNCHANGED <<sar_upd, set_event>>
        /\ deviation' = IF Healthy /\ f THEN "status_left" ELSE deviation
    BY <1>2, <1>11, Zenon
  <2>2. (Healthy' => Healthy /\ ~f)
        /\ deviation' \in {"none", "late_data", "fin_overtakes", "status_left", "empty_write"}
    BY <1>3, <2>1 DEF Healthy
  <2>i. TInv'
    <3>1. TMemory' /\ TRsp' /\ THistory'
      BY <1>0, <1>3, <1>5, <1>6, <2>1, <2>2 DEF TInv, TMemory, TRsp, THistory
    <3> QED BY <1>r, <3>1 DEF TInv
  <2> QED BY <1>0, <1>2, <1>4, <1>5, <1>6, <1>11, <2>1, <2>2, <2>i, Zenon
<1>12. f \/ ~f
  OBVIOUS
<1> QED BY <1>9, <1>10, <1>11, <1>12, Zenon

LEMMA Status2Step ==
  ASSUME TInv, Status2
  PROVE  /\ TInv'
         /\ statuses[1] \in Status /\ rsp \in Waiting /\ rsp.state = "READ_STATUS_2"
         /\ Takes(statuses, statuses') /\ rsp' = ReadEvent
         /\ IF statuses[1].okay THEN Tells(rsp.ev) ELSE UNCHANGED <<sar_upd, set_event>>
         /\ UNCHANGED <<tx_app_table, table_req, table_rsp, upd_req, fsm, data_ev, conn_ev,
                        cache, mem_cmd, mem_data, writer, flags, jobs, sar, conn, reserved,
                        stored, published, acked, closed_at, accepted, bad, deviation, reqs>>
<1>0. UNCHANGED <<tx_app_table, table_req, table_rsp, upd_req, fsm, data_ev, conn_ev,
                  cache, mem_cmd, mem_data, writer, flags, jobs, sar, conn, reserved,
                  stored, published, acked, closed_at, accepted, bad, deviation, reqs>>
  BY DEF Status2, handler, memory, out, history
<1>1. PICK x : x = Head(statuses)
  OBVIOUS
<1>2. /\ rsp.state = "READ_STATUS_2" /\ statuses # <<>> /\ statuses' = Tail(statuses)
      /\ rsp' = ReadEvent /\ (x.okay => Tell(rsp.ev)) /\ (~x.okay => UNCHANGED <<sar_upd, set_event>>)
  BY <1>1, Zenon DEF Status2, out
<1>3. /\ statuses \in Seq(Status) /\ Len(statuses) <= Depth /\ rsp \in {ReadEvent} \cup Waiting
      /\ sar_upd \in Seq(SarUpd) /\ Len(sar_upd) <= Depth
      /\ set_event \in Seq(WriteEv \cup FinEv) /\ Len(set_event) <= Depth
  BY DEF TInv, TMemory, TRsp
<1>4. rsp \in Waiting /\ rsp.ev \in WriteEv
  <2>1. rsp \in Waiting
    BY <1>2, <1>3, Kinds
  <2> QED BY <2>1, Kinds
<1>5. /\ x \in Status /\ x = statuses[1] /\ Takes(statuses, statuses') /\ statuses' \in Seq(Status)
      /\ Len(statuses') <= Depth
  BY <1>1, <1>2, <1>3, Rd, DepthAssumption DEF Takes
<1>6. ASSUME x.okay
      PROVE  /\ Tells(rsp.ev) /\ sar_upd' \in Seq(SarUpd) /\ Len(sar_upd') <= Depth
             /\ set_event' \in Seq(WriteEv \cup FinEv) /\ Len(set_event') <= Depth
  <2>1. Tell(rsp.ev)
    BY <1>2, <1>6, Zenon
  <2> QED BY <1>4, <2>1, TellStep DEF TInv
<1>7. ASSUME ~x.okay  PROVE UNCHANGED <<sar_upd, set_event>>
  BY <1>2, <1>7, Zenon
<1>8. /\ sar_upd' \in Seq(SarUpd) /\ Len(sar_upd') <= Depth
      /\ set_event' \in Seq(WriteEv \cup FinEv) /\ Len(set_event') <= Depth
  <2>1. CASE x.okay
    BY <1>6, <2>1, Zenon
  <2>2. CASE ~x.okay
    BY <1>3, <1>7, <2>2
  <2> QED BY <2>1, <2>2, Zenon
<1>t. /\ statuses' \in Seq(Status) /\ Len(statuses') <= Depth /\ rsp' \in {ReadEvent} \cup Waiting
      /\ sar_upd' \in Seq(SarUpd) /\ Len(sar_upd') <= Depth
      /\ set_event' \in Seq(WriteEv \cup FinEv) /\ Len(set_event') <= Depth
  BY <1>2, <1>5, <1>8
<1>TMemory. TMemory'
  BY <1>0, <1>t DEF TInv, TMemory
<1>TRsp. TRsp'
  BY <1>0, <1>t DEF TInv, TRsp
<1>r. TTable' /\ TFsm' /\ TMerge' /\ TSar' /\ THistory'
  BY <1>0 DEF TInv, TTable, TFsm, TMerge, TSar, THistory
<1>i. TInv'
  BY <1>TMemory, <1>TRsp, <1>r DEF TInv
<1> QED BY <1>0, <1>i, <1>2, <1>4, <1>5, <1>6, <1>7, Zenon

LEMMA SarWrittenStep ==
  ASSUME TInv, SarWritten
  PROVE  /\ TInv'
         /\ sar_upd[1] \in SarUpd /\ Takes(sar_upd, sar_upd')
         /\ sar'[sar_upd[1].id] = [ackd |-> sar[sar_upd[1].id].ackd, app_written |-> sar_upd[1].app_written]
         /\ published'[sar_upd[1].id] =
              published[sar_upd[1].id] + Low(sar_upd[1].app_written - sar[sar_upd[1].id].app_written)
         /\ \A s \in Sessions : s # sar_upd[1].id => sar'[s] = sar[s] /\ published'[s] = published[s]
         /\ UNCHANGED <<tx_app_table, table_req, table_rsp, upd_req, fsm, data_ev, conn_ev,
                        cache, mem_cmd, mem_data, writer, flags, jobs, statuses, rsp,
                        set_event, conn, reserved, stored, acked, closed_at, accepted, bad,
                        deviation, reqs>>
<1>0. UNCHANGED <<tx_app_table, table_req, table_rsp, upd_req, fsm, data_ev, conn_ev,
                  cache, mem_cmd, mem_data, writer, flags, jobs, statuses, rsp,
                  set_event, conn, reserved, stored, acked, closed_at, accepted, bad,
                  deviation, reqs>>
  BY DEF SarWritten, handler, memory, out, history
<1>1. PICK r : r = Head(sar_upd)
  OBVIOUS
<1>2. /\ sar_upd # <<>> /\ sar_upd' = Tail(sar_upd)
      /\ sar' = [sar EXCEPT ![r.id].app_written = r.app_written]
      /\ published' = [published EXCEPT ![r.id] = @ + Low(r.app_written - sar[r.id].app_written)]
  BY <1>1 DEF SarWritten
<1>3. /\ sar_upd \in Seq(SarUpd) /\ Len(sar_upd) <= Depth
      /\ sar \in [Sessions -> [ackd : Ptr, app_written : Ptr]] /\ published \in [Sessions -> Nat]
  BY DEF TInv, TRsp, TSar, THistory, Counts
<1>4. /\ r \in SarUpd /\ r = sar_upd[1] /\ Takes(sar_upd, sar_upd') /\ sar_upd' \in Seq(SarUpd)
      /\ Len(sar_upd') <= Depth
  BY <1>1, <1>2, <1>3, Rd, DepthAssumption DEF Takes
<1>5. r.id \in Sessions /\ r.app_written \in Ptr
  BY <1>4 DEF SarUpd
<1>6. PICK o : o = sar[r.id]
  OBVIOUS
<1>7. o \in [ackd : Ptr, app_written : Ptr] /\ o.app_written \in Ptr
  BY <1>3, <1>5, <1>6
<1>8. PICK v : v = [ackd |-> o.ackd, app_written |-> r.app_written]
  OBVIOUS
<1>9. v = [o EXCEPT !.app_written = r.app_written] /\ v \in [ackd : Ptr, app_written : Ptr]
  BY <1>5, <1>7, <1>8
<1>10. sar' = [sar EXCEPT ![r.id] = v]
  BY <1>2, <1>6, <1>9
<1>11. /\ sar' \in [Sessions -> [ackd : Ptr, app_written : Ptr]] /\ sar'[r.id] = v
       /\ \A s \in Sessions : s # r.id => sar'[s] = sar[s]
  BY <1>3, <1>5, <1>9, <1>10, Upd
<1>12. PICK p : p = published[r.id] + Low(r.app_written - o.app_written)
  OBVIOUS
<1>13. p \in Nat
  <2>1. r.app_written - o.app_written \in Int
    BY <1>5, <1>7, Modulus DEF Ptr
  <2>2. Low(r.app_written - o.app_written) \in Nat
    BY <2>1, LowDivides, Modulus DEF Ptr
  <2>3. published[r.id] \in Nat
    BY <1>3, <1>5
  <2> QED BY <1>12, <2>2, <2>3
<1>14. published' = [published EXCEPT ![r.id] = p]
  BY <1>2, <1>6, <1>12
<1>15. /\ published' \in [Sessions -> Nat] /\ published'[r.id] = p
       /\ \A s \in Sessions : s # r.id => published'[s] = published[s]
  BY <1>3, <1>5, <1>13, <1>14, Upd
<1>t. /\ sar_upd' \in Seq(SarUpd) /\ Len(sar_upd') <= Depth
      /\ sar' \in [Sessions -> [ackd : Ptr, app_written : Ptr]] /\ published' \in Counts
  BY <1>4, <1>11, <1>15 DEF Counts
<1>TRsp. TRsp'
  BY <1>0, <1>t DEF TInv, TRsp
<1>TSar. TSar'
  BY <1>0, <1>t DEF TInv, TSar
<1>THistory. THistory'
  BY <1>0, <1>t DEF TInv, THistory
<1>r. TTable' /\ TFsm' /\ TMerge' /\ TMemory'
  BY <1>0 DEF TInv, TTable, TFsm, TMerge, TMemory
<1>i. TInv'
  BY <1>TRsp, <1>TSar, <1>THistory, <1>r DEF TInv
<1> QED BY <1>0, <1>i, <1>4, <1>6, <1>8, <1>11, <1>12, <1>15, Zenon

LEMMA AckedStep ==
  ASSUME TInv, NEW s \in Sessions, NEW n \in Lengths, Acked(s, n)
  PROVE  /\ TInv'
         /\ n \in Nat /\ n > 0 /\ acked[s] + n <= published[s]
         /\ Grows(upd_req, upd_req', [id |-> s, ackd |-> Low(sar[s].ackd + n), init |-> FALSE])
         /\ sar'[s] = [ackd |-> Low(sar[s].ackd + n), app_written |-> sar[s].app_written]
         /\ acked'[s] = acked[s] + n
         /\ \A t \in Sessions : t # s => sar'[t] = sar[t] /\ acked'[t] = acked[t]
         /\ UNCHANGED <<tx_app_table, table_req, table_rsp, fsm, data_ev, conn_ev, cache,
                        mem_cmd, mem_data, writer, flags, jobs, statuses, rsp, sar_upd,
                        set_event, conn, reserved, stored, published, closed_at, accepted, bad,
                        deviation, reqs>>
<1>0. UNCHANGED <<tx_app_table, table_req, table_rsp, fsm, data_ev, conn_ev, cache,
                  mem_cmd, mem_data, writer, flags, jobs, statuses, rsp, sar_upd,
                  set_event, conn, reserved, stored, published, closed_at, accepted, bad,
                  deviation, reqs>>
  BY DEF Acked, handler, memory, out, history
<1>1. PICK o, u : o = sar[s] /\ u = [id |-> s, ackd |-> Low(o.ackd + n), init |-> FALSE]
  OBVIOUS
<1>2. /\ Len(upd_req) < Depth /\ acked[s] + n <= published[s]
      /\ sar' = [sar EXCEPT ![s].ackd = Low(@ + n)]
      /\ upd_req' = Append(upd_req, u) /\ acked' = [acked EXCEPT ![s] = @ + n]
  BY <1>1 DEF Acked, Room
<1>3. /\ upd_req \in Seq(Update) /\ sar \in [Sessions -> [ackd : Ptr, app_written : Ptr]]
      /\ acked \in [Sessions -> Nat]
  BY DEF TInv, TTable, TSar, THistory, Counts
<1>4. n \in Nat /\ n > 0 /\ o \in [ackd : Ptr, app_written : Ptr] /\ o.ackd \in Ptr /\ acked[s] \in Nat
  BY <1>1, <1>3, Modulus
<1>5. Low(o.ackd + n) \in Ptr
  <2>1. o.ackd + n \in Int
    BY <1>4, Modulus DEF Ptr
  <2> QED BY <2>1, LowDivides
<1>6. u \in Update
  BY <1>1, <1>5 DEF Update
<1>7. Grows(upd_req, upd_req', u) /\ upd_req' \in Seq(Update) /\ Len(upd_req') <= Depth
  BY <1>2, <1>3, <1>6, Wr, DepthAssumption
<1>8. PICK v : v = [ackd |-> Low(o.ackd + n), app_written |-> o.app_written]
  OBVIOUS
<1>9. v = [o EXCEPT !.ackd = Low(@ + n)] /\ v \in [ackd : Ptr, app_written : Ptr]
  BY <1>4, <1>5, <1>8
<1>10. sar' = [sar EXCEPT ![s] = v]
  BY <1>1, <1>2, <1>9
<1>11. /\ sar' \in [Sessions -> [ackd : Ptr, app_written : Ptr]] /\ sar'[s] = v
       /\ \A t \in Sessions : t # s => sar'[t] = sar[t]
  BY <1>3, <1>9, <1>10, Upd
<1>12. PICK a \in Nat : a = acked[s] + n
  BY <1>4
<1>13. acked' = [acked EXCEPT ![s] = a]
  BY <1>2, <1>12
<1>14. /\ acked' \in [Sessions -> Nat] /\ acked'[s] = a
       /\ \A t \in Sessions : t # s => acked'[t] = acked[t]
  BY <1>3, <1>13, Upd
<1>t. /\ upd_req' \in Seq(Update) /\ Len(upd_req') <= Depth
      /\ sar' \in [Sessions -> [ackd : Ptr, app_written : Ptr]] /\ acked' \in Counts
  BY <1>7, <1>11, <1>14 DEF Counts
<1>TTable. TTable'
  BY <1>0, <1>t DEF TInv, TTable
<1>TSar. TSar'
  BY <1>0, <1>t DEF TInv, TSar
<1>THistory. THistory'
  BY <1>0, <1>t DEF TInv, THistory
<1>r. TFsm' /\ TMerge' /\ TMemory' /\ TRsp'
  BY <1>0 DEF TInv, TFsm, TMerge, TMemory, TRsp
<1>i. TInv'
  BY <1>TTable, <1>TSar, <1>THistory, <1>r DEF TInv
<1> QED BY <1>0, <1>i, <1>1, <1>2, <1>4, <1>7, <1>8, <1>11, <1>12, <1>14, Zenon

LEMMA EventTakenStep ==
  ASSUME TInv, EventTaken
  PROVE  /\ TInv'
         /\ Takes(set_event, set_event')
         /\ UNCHANGED <<tx_app_table, table_req, table_rsp, upd_req, fsm, data_ev, conn_ev,
                        cache, mem_cmd, mem_data, writer, flags, jobs, statuses, rsp, sar_upd,
                        sar, conn, reserved, stored, published, acked, closed_at, accepted,
                        bad, deviation, reqs>>
<1>0. UNCHANGED <<tx_app_table, table_req, table_rsp, upd_req, fsm, data_ev, conn_ev,
                  cache, mem_cmd, mem_data, writer, flags, jobs, statuses, rsp, sar_upd,
                  sar, conn, reserved, stored, published, acked, closed_at, accepted,
                  bad, deviation, reqs>>
  BY DEF EventTaken, handler, memory, out, history
<1>1. set_event # <<>> /\ set_event' = Tail(set_event)
  BY DEF EventTaken
<1>2. set_event \in Seq(WriteEv \cup FinEv) /\ Len(set_event) <= Depth
  BY DEF TInv, TRsp
<1>3. /\ Takes(set_event, set_event') /\ set_event' \in Seq(WriteEv \cup FinEv)
      /\ Len(set_event') <= Depth
  BY <1>1, <1>2, Rd, DepthAssumption DEF Takes
<1>t. set_event' \in Seq(WriteEv \cup FinEv) /\ Len(set_event') <= Depth
  BY <1>3
<1>TRsp. TRsp'
  BY <1>0, <1>t DEF TInv, TRsp
<1>r. TTable' /\ TFsm' /\ TMerge' /\ TMemory' /\ TSar' /\ THistory'
  BY <1>0 DEF TInv, TTable, TFsm, TMerge, TMemory, TSar, THistory
<1>i. TInv'
  BY <1>TRsp, <1>r DEF TInv
<1> QED BY <1>0, <1>i, <1>3

LEMMA EstablishStep ==
  ASSUME TInv, NEW s \in Sessions, Establish(s)
  PROVE  /\ TInv'
         /\ conn[s] = "CLOSED" /\ Len(upd_req') = Len(upd_req) + 2
         /\ \A i \in 1 .. Len(upd_req) : upd_req'[i] = upd_req[i]
         /\ upd_req'[Len(upd_req) + 1] = [id |-> s, ackd |-> Low(Isn + 1), init |-> TRUE]
         /\ upd_req'[Len(upd_req) + 2] = [id |-> s, ackd |-> Low(Isn + 1), init |-> FALSE]
         /\ sar'[s] = [ackd |-> Low(Isn + 1), app_written |-> Low(Isn + 1)] /\ conn'[s] = "ESTABLISHED"
         /\ \A t \in Sessions : t # s => sar'[t] = sar[t] /\ conn'[t] = conn[t]
         /\ UNCHANGED <<tx_app_table, table_req, table_rsp, fsm, data_ev, conn_ev, cache,
                        mem_cmd, mem_data, writer, flags, jobs, statuses, rsp, sar_upd,
                        set_event, reserved, stored, published, acked, closed_at, accepted,
                        bad, deviation, reqs>>
<1>0. UNCHANGED <<tx_app_table, table_req, table_rsp, fsm, data_ev, conn_ev, cache,
                  mem_cmd, mem_data, writer, flags, jobs, statuses, rsp, sar_upd,
                  set_event, reserved, stored, published, acked, closed_at, accepted,
                  bad, deviation, reqs>>
  BY DEF Establish, handler, memory, out, history
<1>1. PICK a, b, v : /\ a = [id |-> s, ackd |-> Low(Isn + 1), init |-> TRUE]
                     /\ b = [id |-> s, ackd |-> Low(Isn + 1), init |-> FALSE]
                     /\ v = [ackd |-> Low(Isn + 1), app_written |-> Low(Isn + 1)]
  OBVIOUS
<1>2. /\ conn[s] = "CLOSED" /\ Len(upd_req) + 2 <= Depth /\ upd_req' = upd_req \o <<a, b>>
      /\ sar' = [sar EXCEPT ![s] = v] /\ conn' = [conn EXCEPT ![s] = "ESTABLISHED"]
  BY <1>1 DEF Establish
<1>3. /\ upd_req \in Seq(Update) /\ sar \in [Sessions -> [ackd : Ptr, app_written : Ptr]]
      /\ conn \in [Sessions -> {"CLOSED", "ESTABLISHED", "FIN_WAIT_1"}]
  BY DEF TInv, TTable, TSar
<1>4. Low(Isn + 1) \in Ptr
  <2>1. Isn + 1 \in Int
    BY Modulus DEF Ptr
  <2> QED BY <2>1, LowDivides
<1>5. a \in Update /\ b \in Update
  BY <1>1, <1>4 DEF Update
<1>6. v \in [ackd : Ptr, app_written : Ptr]
  BY <1>1, <1>4
<1>7. <<a, b>> \in Seq(Update) /\ Len(<<a, b>>) = 2 /\ <<a, b>>[1] = a /\ <<a, b>>[2] = b
  BY <1>5
<1>8. /\ upd_req' \in Seq(Update) /\ Len(upd_req') = Len(upd_req) + 2
      /\ \A i \in 1 .. Len(upd_req) : upd_req'[i] = upd_req[i]
      /\ upd_req'[Len(upd_req) + 1] = a /\ upd_req'[Len(upd_req) + 2] = b
  BY <1>2, <1>3, <1>7
<1>9. /\ sar' \in [Sessions -> [ackd : Ptr, app_written : Ptr]] /\ sar'[s] = v
      /\ \A t \in Sessions : t # s => sar'[t] = sar[t]
  BY <1>2, <1>3, <1>6, Upd
<1>10. /\ conn' \in [Sessions -> {"CLOSED", "ESTABLISHED", "FIN_WAIT_1"}] /\ conn'[s] = "ESTABLISHED"
       /\ \A t \in Sessions : t # s => conn'[t] = conn[t]
  BY <1>2, <1>3, Upd
<1>t. /\ upd_req' \in Seq(Update) /\ Len(upd_req') <= Depth
      /\ sar' \in [Sessions -> [ackd : Ptr, app_written : Ptr]]
      /\ conn' \in [Sessions -> {"CLOSED", "ESTABLISHED", "FIN_WAIT_1"}]
  BY <1>2, <1>8, <1>9, <1>10
<1>TTable. TTable'
  BY <1>0, <1>t DEF TInv, TTable
<1>TSar. TSar'
  BY <1>0, <1>t DEF TInv, TSar
<1>r. TFsm' /\ TMerge' /\ TMemory' /\ TRsp' /\ THistory'
  BY <1>0 DEF TInv, TFsm, TMerge, TMemory, TRsp, THistory
<1>i. TInv'
  BY <1>TTable, <1>TSar, <1>r DEF TInv
<1> QED BY <1>0, <1>i, <1>1, <1>2, <1>8, <1>9, <1>10, Zenon

LEMMA CloseStep ==
  ASSUME TInv, NEW s \in Sessions, Close(s)
  PROVE  /\ TInv'
         /\ conn[s] = "ESTABLISHED" /\ Grows(conn_ev, conn_ev', FinEvent(s)) /\ FinEvent(s) \in FinEv
         /\ conn'[s] = "FIN_WAIT_1" /\ closed_at'[s] = reserved[s]
         /\ \A t \in Sessions : t # s => conn'[t] = conn[t] /\ closed_at'[t] = closed_at[t]
         /\ UNCHANGED <<tx_app_table, table_req, table_rsp, upd_req, fsm, data_ev, cache,
                        mem_cmd, mem_data, writer, flags, jobs, statuses, rsp, sar_upd,
                        set_event, sar, reserved, stored, published, acked, accepted, bad,
                        deviation>>
<1>0. UNCHANGED <<tx_app_table, table_req, table_rsp, upd_req, fsm, data_ev, cache,
                  mem_cmd, mem_data, writer, flags, jobs, statuses, rsp, sar_upd,
                  set_event, sar, reserved, stored, published, acked, accepted, bad,
                  deviation>>
  BY DEF Close, handler, memory, out, history
<1>1. /\ conn[s] = "ESTABLISHED" /\ Len(conn_ev) < Depth /\ conn_ev' = Append(conn_ev, FinEvent(s))
      /\ conn' = [conn EXCEPT ![s] = "FIN_WAIT_1"]
      /\ closed_at' = [closed_at EXCEPT ![s] = reserved[s]] /\ reqs' = reqs + 1
  BY DEF Close, Room
<1>2. /\ conn_ev \in Seq(FinEv) /\ conn \in [Sessions -> {"CLOSED", "ESTABLISHED", "FIN_WAIT_1"}]
      /\ closed_at \in [Sessions -> Nat] /\ reserved[s] \in Nat /\ reqs \in Nat
  BY DEF TInv, TMerge, TSar, THistory, Counts
<1>3. FinEvent(s) \in FinEv
  BY DEF FinEvent, FinEv
<1>4. Grows(conn_ev, conn_ev', FinEvent(s)) /\ conn_ev' \in Seq(FinEv) /\ Len(conn_ev') <= Depth
  BY <1>1, <1>2, <1>3, Wr, DepthAssumption
<1>5. /\ conn' \in [Sessions -> {"CLOSED", "ESTABLISHED", "FIN_WAIT_1"}] /\ conn'[s] = "FIN_WAIT_1"
      /\ \A t \in Sessions : t # s => conn'[t] = conn[t]
  BY <1>1, <1>2, Upd
<1>6. /\ closed_at' \in [Sessions -> Nat] /\ closed_at'[s] = reserved[s]
      /\ \A t \in Sessions : t # s => closed_at'[t] = closed_at[t]
  BY <1>1, <1>2, Upd
<1>t. /\ conn_ev' \in Seq(FinEv) /\ Len(conn_ev') <= Depth
      /\ conn' \in [Sessions -> {"CLOSED", "ESTABLISHED", "FIN_WAIT_1"}]
      /\ closed_at' \in Counts /\ reqs' \in Nat
  BY <1>1, <1>2, <1>4, <1>5, <1>6 DEF Counts
<1>TMerge. TMerge'
  BY <1>0, <1>t DEF TInv, TMerge
<1>TSar. TSar'
  BY <1>0, <1>t DEF TInv, TSar
<1>THistory. THistory'
  BY <1>0, <1>t DEF TInv, THistory
<1>r. TTable' /\ TFsm' /\ TMemory' /\ TRsp'
  BY <1>0 DEF TInv, TTable, TFsm, TMemory, TRsp
<1>i. TInv'
  BY <1>TMerge, <1>TSar, <1>THistory, <1>r DEF TInv
<1> QED BY <1>0, <1>i, <1>1, <1>3, <1>4, <1>5, <1>6, Zenon

-----------------------------------------------------------------------------
(* The types.                                                               *)

LEMMA TypeInit == Init => TInv
<1> SUFFICES ASSUME Init  PROVE TInv
  OBVIOUS
<1>1. 0 \in Ptr /\ Depth \in Nat /\ CacheDepth \in Nat
  BY Modulus, DepthAssumption DEF Ptr
<1>2. TTable /\ TSar
  BY <1>1 DEF Init, TTable, TSar, Entry
<1>3. TFsm /\ TMerge /\ TMemory /\ TRsp
  BY <1>1 DEF Init, TFsm, TMerge, TMemory, TRsp
<1>4. THistory
  BY DEF Init, THistory, Counts, Zero
<1> QED BY <1>2, <1>3, <1>4 DEF TInv

LEMMA TypeSame == ASSUME TInv, UNCHANGED vars  PROVE TInv'
<1>1. TTable' /\ TFsm' /\ TMerge'
  BY DEF vars, handler, TInv, TTable, TFsm, TMerge
<1>2. TMemory' /\ TRsp' /\ TSar' /\ THistory'
  BY DEF vars, memory, out, history, TInv, TMemory, TRsp, TSar, THistory
<1> QED BY <1>1, <1>2 DEF TInv

LEMMA TypeNext == TInv /\ [Next]_vars => TInv'
<1> SUFFICES ASSUME TInv, [Next]_vars  PROVE TInv'
  OBVIOUS
<1> QED BY TableUpdateStep, TableAccessStep, ReadRequestStep, RefuseStep, AcceptStep, ReadDataStep,
           WriterCmdStep, WriterDataStep, MoverStep, MergeConnStep, MergeDataStep, TakeTxStep,
           PassFinStep, Status1Step, Status2Step, SarWrittenStep, AckedStep, EventTakenStep,
           EstablishStep, CloseStep, TypeSame, ZenonT(60)
        DEF Next, DataHandler, Table, Writer, Merger, RspHandler, Inputs

THEOREM TypeCorrect == Spec => []TInv
<1> QED BY TypeInit, TypeNext, PTL DEF Spec

-----------------------------------------------------------------------------
(* The order of events, flags and statuses.                                  *)

LEMMA Sizes ==
  ASSUME TInv
  PROVE  /\ Len(accepted) \in Nat /\ Len(mem_cmd) \in Nat /\ Len(flags) \in Nat /\ Len(data_ev) \in Nat
         /\ Len(cache) \in Nat /\ Len(statuses) \in Nat /\ Len(jobs) \in Nat /\ Len(sar_upd) \in Nat
         /\ Len(conn_ev) \in Nat /\ Len(set_event) \in Nat
         /\ Begun \in Int /\ Issued \in Int /\ Done \in Int /\ Merged \in Int /\ Taken \in Int
         /\ Finished \in Int /\ Accesses \in Nat
<1>1. /\ Len(accepted) \in Nat /\ Len(mem_cmd) \in Nat /\ Len(flags) \in Nat /\ Len(data_ev) \in Nat
      /\ Len(cache) \in Nat /\ Len(statuses) \in Nat /\ Len(jobs) \in Nat /\ Len(sar_upd) \in Nat
      /\ Len(conn_ev) \in Nat /\ Len(set_event) \in Nat
  BY DEF TInv, TFsm, TMerge, TMemory, TRsp, THistory
<1> QED BY <1>1 DEF Begun, Issued, Done, Merged, Taken, Finished, Accesses

\* How far the processes have come, one behind the other.
LEMMA Positions ==
  ASSUME TInv, OAccepted
  PROVE  /\ 0 <= Finished /\ Finished <= Done /\ Done <= Issued /\ Issued <= Begun
         /\ Begun <= Len(accepted) /\ Done <= Taken /\ Taken <= Merged /\ Merged <= Len(accepted)
         /\ Taken <= Done + 1 /\ Done <= Finished + 1 /\ Finished <= Merged
         /\ Finished \in Nat /\ Done \in Nat /\ Issued \in Nat /\ Begun \in Nat /\ Taken \in Nat
         /\ Merged \in Nat /\ Len(accepted) \in Nat
         /\ \A i \in 1 .. Len(accepted) : accepted[i] \in WriteEv /\ accepted[i].no = i
<1>1. \A i \in 1 .. Len(accepted) : accepted[i] \in WriteEv /\ accepted[i].no = i
  BY DEF TInv, THistory, OAccepted
<1>2. /\ Len(accepted) \in Nat /\ Len(mem_cmd) \in Nat /\ Len(flags) \in Nat /\ Len(data_ev) \in Nat
      /\ Finished \in Int /\ Done \in Int /\ Issued \in Int /\ Begun \in Int /\ Taken \in Int
      /\ Merged \in Int
  BY Sizes
<1>3. 0 <= Finished /\ Done <= Issued /\ Done <= Taken /\ Taken <= Merged
  <2>1. Done <= Taken
    BY <1>2 DEF Taken
  <2> QED BY <2>1 DEF OAccepted
<1>4. Begun <= Len(accepted) /\ Merged <= Len(accepted)
  BY <1>2 DEF Begun, Merged
<1>5. Issued <= Begun
  BY <1>2 DEF Issued
<1>6. Finished <= Done /\ Done <= Finished + 1
  BY <1>2 DEF Finished
<1>7. Taken <= Done + 1
  BY <1>2 DEF Taken
<1>8. /\ Finished <= Merged /\ Finished \in Nat /\ Done \in Nat /\ Issued \in Nat /\ Begun \in Nat
      /\ Taken \in Nat /\ Merged \in Nat
  BY <1>2, <1>3, <1>5, <1>6
<1> QED BY <1>1, <1>2, <1>3, <1>4, <1>5, <1>6, <1>7, <1>8, Zenon

LEMMA ItemTypes ==
  ASSUME TInv
  PROVE  \A i \in 1 .. Accesses :
           Item(i)[1] \in Nat /\ Item(i)[2] \in {1, 2} /\ Item(i) = <<Item(i)[1], Item(i)[2]>>
<1> SUFFICES ASSUME NEW i \in 1 .. Accesses
             PROVE Item(i)[1] \in Nat /\ Item(i)[2] \in {1, 2} /\ Item(i) = <<Item(i)[1], Item(i)[2]>>
  OBVIOUS
<1>1. Len(statuses) \in Nat /\ Len(jobs) \in Nat /\ i \in Nat /\ i <= Len(statuses) + Len(jobs)
  BY Sizes DEF Accesses
<1>2. CASE i <= Len(statuses)
  <2>1. statuses[i] \in Status
    BY <1>1, <1>2 DEF TInv, TMemory
  <2>2. statuses[i].no \in Nat /\ statuses[i].part \in {1, 2}
    BY <2>1 DEF Status
  <2> QED BY <1>2, <2>2 DEF Item
<1>3. CASE ~(i <= Len(statuses))
  <2>1. jobs[i - Len(statuses)] \in Job
    BY <1>1, <1>3 DEF TInv, TMemory
  <2>2. jobs[i - Len(statuses)].no \in Nat /\ jobs[i - Len(statuses)].part \in {1, 2}
    BY <2>1 DEF Job
  <2> QED BY <1>3, <2>2 DEF Item
<1> QED BY <1>2, <1>3

\* A step that keeps the accesses keeps what is known of them.
LEMMA AccessKept ==
  ASSUME TInv, OAccepted, OAccess, Accesses' = Accesses, \A i \in 1 .. Accesses : Item(i)' = Item(i),
         Done' = Done, Issued' = Issued,
         (rsp.state = "READ_STATUS_2") <=> (rsp'.state = "READ_STATUS_2"),
         \A n \in 1 .. Len(accepted) : accepted'[n] = accepted[n]
  PROVE  OAccess'
<1>1. /\ Accesses' = Accesses /\ \A i \in 1 .. Accesses : Item(i)' = Item(i)
      /\ Accesses \in Nat
  BY Sizes
<1>0. Done \in Nat /\ Issued \in Nat /\ Done <= Issued /\ Issued <= Len(accepted)
      /\ Len(accepted) \in Nat
  BY Positions
<1>2. \A n \in 1 .. Issued : FirstPart(n)' = FirstPart(n)
  <2> SUFFICES ASSUME NEW n \in 1 .. Issued  PROVE FirstPart(n)' = FirstPart(n)
    OBVIOUS
  <2>1. accepted'[n] = accepted[n]
    BY <1>0
  <2> QED BY <2>1 DEF FirstPart, Breaks
<1>3. /\ Accesses = 0 => Done = Issued /\ rsp.state # "READ_STATUS_2"
      /\ Accesses > 0 => Item(1) = Expected /\ Item(Accesses) = <<Issued, 2>>
      /\ \A i \in 1 .. Accesses : Item(i)[1] \in Done .. Issued
      /\ \A i \in 1 .. Accesses - 1 : Follows(Item(i), Item(i + 1))
      /\ \A i, j \in 1 .. Accesses :
           i < j => 2 * Item(i)[1] + Item(i)[2] < 2 * Item(j)[1] + Item(j)[2]
  BY DEF OAccess
<1>4. ASSUME Accesses > 0  PROVE Item(1)' = Expected'
  <2>1. Item(1) = Expected /\ 1 \in 1 .. Accesses /\ Item(1)[1] \in Done .. Issued
    BY <1>1, <1>3, <1>4
  <2>2. CASE rsp.state = "READ_STATUS_2"
    BY <1>1, <2>1, <2>2 DEF Expected
  <2>3. CASE rsp.state # "READ_STATUS_2"
    <3>1. Done + 1 \in 1 .. Issued
      BY <1>0, <2>1, <2>3 DEF Expected
    <3> QED BY <1>1, <1>2, <2>1, <2>3, <3>1 DEF Expected
  <2> QED BY <2>2, <2>3
<1>5. ASSUME NEW i \in 1 .. Accesses - 1  PROVE Follows(Item(i), Item(i + 1))'
  <2>1. i \in 1 .. Accesses /\ i + 1 \in 1 .. Accesses
    BY <1>1
  <2>2. Item(i)' = Item(i) /\ Item(i + 1)' = Item(i + 1)
    BY <1>1, <2>1
  <2>3. Follows(Item(i), Item(i + 1)) /\ Item(i + 1)[1] \in Done .. Issued
        /\ Item(i)[1] \in Done .. Issued
    BY <1>3, <2>1
  <2>4. CASE Item(i)[2] = 1 /\ Item(i + 1) = <<Item(i)[1], 2>>
    BY <2>2, <2>4 DEF Follows
  <2>5. CASE Item(i)[2] = 2 /\ Item(i + 1) = <<Item(i)[1] + 1, FirstPart(Item(i)[1] + 1)>>
    <3>1. Item(i)[1] + 1 \in 1 .. Issued
      BY <1>0, <2>3, <2>5
    <3>2. PICK n \in 1 .. Issued : n = Item(i)[1] + 1
      BY <3>1
    <3>3. FirstPart(n)' = FirstPart(n)
      BY <1>2
    <3> QED BY <2>2, <2>5, <3>2, <3>3 DEF Follows
  <2> QED BY <2>3, <2>4, <2>5 DEF Follows
<1> QED BY <1>1, <1>3, <1>4, <1>5 DEF OAccess

LEMMA AccessSame ==
  ASSUME TInv, OAccepted, OAccess, UNCHANGED <<statuses, jobs>>, Done' = Done, Issued' = Issued,
         (rsp.state = "READ_STATUS_2") <=> (rsp'.state = "READ_STATUS_2"),
         \A n \in 1 .. Len(accepted) : accepted'[n] = accepted[n]
  PROVE  OAccess'
<1>1. Accesses' = Accesses /\ \A i \in 1 .. Accesses : Item(i)' = Item(i)
  BY DEF Accesses, Item
<1> QED BY <1>1, AccessKept

\* ... and nothing of what is known of the writes that failed.
LEMMA BadSame ==
  ASSUME BadShown, UNCHANGED <<statuses, bad>>, Finished' = Finished
  PROVE  BadShown'
BY DEF BadShown

\* The steps that touch nothing of it.
LEMMA OrderSame ==
  ASSUME TInv, Order,
         UNCHANGED <<accepted, mem_cmd, writer, flags, rsp, data_ev, cache, statuses, jobs, bad>>
  PROVE  Order'
<1>1. Begun' = Begun /\ Done' = Done /\ Merged' = Merged
  BY DEF Begun, Done, Merged
<1>2. Issued' = Issued /\ Taken' = Taken /\ Finished' = Finished
  BY <1>1 DEF Issued, Taken, Finished
<1>3. OAccess'
  BY <1>1, <1>2, AccessSame DEF Order
<1>4. BadShown'
  BY <1>2, BadSame DEF Order
<1>5. OAccepted'
  BY <1>1, <1>2 DEF Order, OAccepted
<1>6. OWriter' /\ ORsp'
  BY <1>1, <1>2 DEF Order, OWriter, ORsp, Breaks
<1>7. OEvents'
  BY <1>1, <1>2 DEF Order, OEvents
<1> QED BY <1>3, <1>4, <1>5, <1>6, <1>7 DEF Order

\* A new write is the last of all.
LEMMA OrderAccept ==
  ASSUME TInv, Order, Accept
  PROVE  Order'
<1> DEFINE L == Len(accepted)
<1>0. PICK ev : ev = accepted'[L + 1]
  OBVIOUS
<1>1. /\ ev.no = L + 1 /\ ev \in WriteEv
      /\ Grows(accepted, accepted', ev) /\ Grows(mem_cmd, mem_cmd', ev) /\ Grows(data_ev, data_ev', ev)
      /\ UNCHANGED <<writer, flags, rsp, cache, statuses, jobs, bad>>
  BY <1>0, AcceptStep DEF TxEvent
<1>2. /\ OAccepted /\ OWriter /\ OEvents /\ ORsp /\ OAccess /\ BadShown
  BY DEF Order
<1>3. /\ L \in Nat /\ Len(mem_cmd) \in Nat /\ Len(data_ev) \in Nat /\ Len(cache) \in Nat
      /\ Len(flags) \in Nat
  BY Sizes
<1>4. Begun' = Begun /\ Done' = Done /\ Merged' = Merged
  BY <1>1, <1>3 DEF Begun, Done, Merged, Grows
<1>5. Issued' = Issued /\ Taken' = Taken /\ Finished' = Finished
  BY <1>1, <1>4 DEF Issued, Taken, Finished
<1>6. Len(accepted') = L + 1 /\ accepted'[L + 1] = ev /\ \A n \in 1 .. L : accepted'[n] = accepted[n]
  BY <1>1 DEF Grows
<1>7. /\ 0 <= Finished /\ Done <= Issued /\ Taken <= Merged /\ Issued <= Begun /\ Begun <= L
      /\ Merged <= L /\ Done <= Taken /\ Finished <= Done
      /\ Begun \in Nat /\ Issued \in Nat /\ Done \in Nat
      /\ Merged \in Nat /\ Taken \in Nat /\ Finished \in Nat
      /\ \A n \in 1 .. L : accepted[n].no = n
  BY <1>2, Positions
<1>8. OAccepted'
  <2>1. \A n \in 1 .. Len(accepted') : accepted'[n].no = n
    <3>1. \A n \in 1 .. L + 1 : n \in 1 .. L \/ n = L + 1
      BY <1>3
    <3> QED BY <1>1, <1>6, <1>7, <3>1
  <2> QED BY <2>1, <1>2, <1>4, <1>5 DEF OAccepted
<1>9. OWriter'
  <2>1. ASSUME NEW i \in 1 .. Len(mem_cmd')  PROVE mem_cmd'[i] = accepted'[Begun + i]
    <3>1. CASE i <= Len(mem_cmd)
      <4>1. Begun + i \in 1 .. L
        BY <1>3, <1>7, <3>1 DEF Begun
      <4> QED BY <1>1, <1>2, <1>3, <1>6, <3>1, <4>1 DEF Grows, OWriter
    <3>2. CASE i = Len(mem_cmd) + 1
      <4>1. Begun + i = L + 1
        BY <1>3, <3>2 DEF Begun
      <4> QED BY <1>1, <1>6, <3>2, <4>1 DEF Grows
    <3> QED BY <1>1, <1>3, <3>1, <3>2 DEF Grows
  <2>2. ASSUME NEW i \in 1 .. Len(flags)  PROVE flags[i] = Breaks(accepted'[Done + i])
    <3>1. Done + i \in 1 .. L
      BY <1>3, <1>7 DEF Done
    <3>2. accepted'[Done + i] = accepted[Done + i] /\ flags[i] = Breaks(accepted[Done + i])
      BY <1>2, <1>6, <3>1 DEF OWriter
    <3> QED BY <3>2
  <2>3. writer # Nothing => writer = accepted'[Begun]
    <3>1. ASSUME writer # Nothing  PROVE Begun \in 1 .. L
      BY <3>1, <1>2, <1>7, Positions DEF Issued
    <3> QED BY <3>1, <1>2, <1>6 DEF OWriter
  <2> QED BY <2>1, <2>2, <2>3, <1>1, <1>4 DEF OWriter, Breaks
<1>10. OEvents'
  <2>1. ASSUME NEW i \in 1 .. Len(data_ev')  PROVE data_ev'[i] = accepted'[Merged + i]
    <3>1. CASE i <= Len(data_ev)
      <4>1. Merged + i \in 1 .. L
        BY <1>3, <1>7, <3>1 DEF Merged
      <4>2. i \in 1 .. Len(data_ev) /\ data_ev'[i] = data_ev[i]
        BY <1>1, <1>3, <3>1 DEF Grows
      <4>3. data_ev[i] = accepted[Merged + i]
        BY <1>2, <4>2 DEF OEvents
      <4> QED BY <1>6, <4>1, <4>2, <4>3
    <3>2. CASE i = Len(data_ev) + 1
      <4>1. Merged + i = L + 1
        BY <1>3, <3>2 DEF Merged
      <4> QED BY <1>1, <1>6, <3>2, <4>1 DEF Grows
    <3> QED BY <1>1, <1>3, <3>1, <3>2 DEF Grows
  <2>2. ASSUME NEW i \in 1 .. Len(cache), cache[i].type = "TX"
        PROVE  cache[i] = accepted'[cache[i].no]
    <3>1. cache[i].no \in Taken + 1 .. Merged /\ cache[i] = accepted[cache[i].no]
      BY <1>2, <2>2 DEF OEvents
    <3>2. cache[i].no \in 1 .. L
      <4>1. Taken \in Nat /\ Merged \in Nat /\ Merged <= L /\ L \in Nat
        BY <1>3, <1>7
      <4>2. \A n \in Taken + 1 .. Merged : n \in 1 .. L
        BY <4>1
      <4> QED BY <3>1, <4>2
    <3>3. PICK n : n = cache[i].no
      OBVIOUS
    <3>4. n \in 1 .. L /\ cache[i] = accepted[n]
      BY <3>1, <3>2, <3>3
    <3>5. accepted'[n] = accepted[n]
      BY <1>6, <3>4
    <3> QED BY <3>3, <3>4, <3>5
  <2> QED BY <2>1, <2>2, <1>1, <1>2, <1>4, <1>5 DEF OEvents
<1>11. ORsp'
  <2>1. ASSUME rsp.state = "READ_STATUS_1"  PROVE rsp.ev = accepted'[Done + 1]
    <3>1. Done + 1 \in 1 .. L
      BY <2>1, <1>3, <1>7, Positions DEF Taken, Finished
    <3> QED BY <2>1, <3>1, <1>2, <1>6 DEF ORsp
  <2>2. ASSUME rsp.state = "READ_STATUS_2"  PROVE rsp.ev = accepted'[Done]
    <3>1. Done \in 1 .. L
      BY <2>2, <1>3, <1>7 DEF Finished
    <3> QED BY <2>2, <3>1, <1>2, <1>6 DEF ORsp
  <2> QED BY <2>1, <2>2, <1>1, <1>4 DEF ORsp
<1>12. OAccess'
  BY <1>1, <1>2, <1>4, <1>5, <1>6, AccessSame
<1>13. BadShown'
  BY <1>1, <1>2, <1>5, BadSame
<1> QED BY <1>8, <1>9, <1>10, <1>11, <1>12, <1>13 DEF Order

\* The writer takes the first command and writes a flag for it.
LEMMA OrderWriterCmd ==
  ASSUME TInv, Order, WriterCmd
  PROVE  Order'
<1>1. /\ writer = Nothing /\ mem_cmd[1] \in WriteEv /\ Takes(mem_cmd, mem_cmd')
      /\ writer' = mem_cmd[1] /\ Grows(flags, flags', Breaks(mem_cmd[1])) /\ writer' # Nothing
      /\ UNCHANGED <<accepted, rsp, data_ev, cache, statuses, jobs, bad>>
  BY WriterCmdStep, Kinds
<1>2. /\ OAccepted /\ OWriter /\ OEvents /\ ORsp /\ OAccess /\ BadShown
  BY DEF Order
<1>3. Len(mem_cmd) \in Nat /\ Len(flags) \in Nat
  BY Sizes
<1>4. /\ Begun \in Nat /\ Done \in Nat /\ Issued \in Nat /\ Len(accepted) \in Nat /\ Issued = Begun
      /\ Done <= Issued
  BY <1>1, <1>2, Positions DEF Issued
<1>5. Begun' = Begun + 1 /\ Done' = Done /\ Merged' = Merged
  BY <1>1, <1>3, <1>4 DEF Begun, Done, Merged, Takes, Grows
<1>6. Issued' = Issued /\ Taken' = Taken /\ Finished' = Finished
  BY <1>1, <1>4, <1>5 DEF Issued, Taken, Finished
<1>7. mem_cmd[1] = accepted[Begun + 1]
  BY <1>1, <1>2, <1>3 DEF OWriter, Takes
<1>8. OWriter'
  <2>1. ASSUME NEW i \in 1 .. Len(mem_cmd')  PROVE mem_cmd'[i] = accepted[Begun + 1 + i]
    <3>1. PICK k \in 1 .. Len(mem_cmd) : k = i + 1
      BY <1>1, <1>3 DEF Takes
    <3>2. mem_cmd'[i] = mem_cmd[k] /\ mem_cmd[k] = accepted[Begun + k]
      BY <1>1, <1>2, <3>1 DEF Takes, OWriter
    <3>3. Begun + k = Begun + 1 + i
      BY <1>4, <3>1
    <3> QED BY <3>2, <3>3
  <2>2. ASSUME NEW i \in 1 .. Len(flags')  PROVE flags'[i] = Breaks(accepted[Done + i])
    <3>1. CASE i <= Len(flags)
      BY <1>1, <1>2, <1>3, <3>1 DEF Grows, OWriter
    <3>2. CASE i = Len(flags) + 1
      <4>1. Done + i = Begun + 1
        BY <1>3, <1>4, <3>2 DEF Done
      <4>2. flags'[i] = Breaks(mem_cmd[1])
        BY <1>1, <3>2 DEF Grows
      <4> QED BY <4>1, <4>2, <1>7
    <3> QED BY <1>1, <1>3, <3>1, <3>2 DEF Grows
  <2>3. writer' = accepted[Begun + 1]
    BY <1>1, <1>7
  <2> QED BY <2>1, <2>2, <2>3, <1>1, <1>5 DEF OWriter, Breaks
<1>9. OAccepted' /\ OEvents' /\ ORsp'
  BY <1>1, <1>2, <1>5, <1>6 DEF OAccepted, OEvents, ORsp
<1>10. OAccess'
  BY <1>1, <1>2, <1>5, <1>6, AccessSame
<1>11. BadShown'
  BY <1>1, <1>2, <1>6, BadSame
<1> QED BY <1>8, <1>9, <1>10, <1>11 DEF Order

\* The accesses of the write follow those of the writes before it.
LEMMA OrderWriterData ==
  ASSUME TInv, Order, WriterData
  PROVE  Order'
<1>1. /\ writer \in WriteEv /\ jobs = <<>> /\ writer' = Nothing /\ writer # Nothing
      /\ Len(jobs') = IF Breaks(writer) THEN 2 ELSE 1
      /\ jobs'[Len(jobs')].no = writer.no /\ jobs'[Len(jobs')].part = 2
      /\ Breaks(writer) => jobs'[1].no = writer.no /\ jobs'[1].part = 1
      /\ UNCHANGED <<accepted, mem_cmd, flags, rsp, data_ev, cache, statuses, bad>>
  BY WriterDataStep, Kinds
<1>2. /\ OAccepted /\ OWriter /\ OEvents /\ ORsp /\ OAccess /\ BadShown
  BY DEF Order
<1>4. /\ Begun \in Nat /\ Done \in Nat /\ Issued \in Nat /\ Len(accepted) \in Nat /\ Begun = Issued + 1
      /\ Done <= Issued /\ Begun <= Len(accepted)
  BY <1>1, <1>2, Positions DEF Issued
<1>5. Begun' = Begun /\ Done' = Done /\ Merged' = Merged
  BY <1>1 DEF Begun, Done, Merged
<1>6. Issued' = Issued + 1 /\ Taken' = Taken /\ Finished' = Finished
  BY <1>1, <1>4, <1>5 DEF Issued, Taken, Finished
<1>7. writer = accepted[Begun] /\ writer.no = Issued + 1
  BY <1>1, <1>2, <1>4 DEF OWriter, OAccepted
<1>8. OAccepted' /\ OWriter' /\ OEvents' /\ ORsp'
  BY <1>1, <1>2, <1>4, <1>5, <1>6 DEF OAccepted, OWriter, OEvents, ORsp, Breaks
<1>9. BadShown'
  BY <1>1, <1>2, <1>6, BadSame
<1>10a. PICK A, n : A = Accesses /\ n = Issued + 1
  OBVIOUS
<1>10. A = Len(statuses) /\ A \in Nat /\ n \in Nat /\ n = Issued + 1
  BY <1>1, <1>4, <1>10a, Sizes DEF Accesses
<1>11. PICK m \in Nat : m = Len(jobs') /\ (m = 1 \/ m = 2) /\ Accesses' = A + m
  BY <1>1, <1>10, <1>10a DEF Accesses
<1>12. ASSUME NEW i \in 1 .. A
       PROVE  /\ Item(i)' = Item(i) /\ Item(i)[1] \in Done .. Issued /\ Item(i)[2] \in {1, 2}
              /\ Item(i)[1] \in Nat
  BY <1>1, <1>2, <1>10, <1>10a, ItemTypes DEF Item, OAccess
<1>13. /\ FirstPart(n) = IF Breaks(writer) THEN 1 ELSE 2
       /\ \A k : FirstPart(k)' = FirstPart(k)
  BY <1>1, <1>4, <1>7, <1>10 DEF FirstPart, Breaks
<1>14. /\ Item(A + 1)' = <<n, FirstPart(n)>>
       /\ FirstPart(n) = 1 => m = 2 /\ Item(A + 2)' = <<n, 2>>
       /\ FirstPart(n) = 2 => m = 1
       /\ FirstPart(n) \in {1, 2}
  <2>1. ~(A + 1 <= Len(statuses')) /\ A + 1 - Len(statuses') = 1
        /\ ~(A + 2 <= Len(statuses')) /\ A + 2 - Len(statuses') = 2
    BY <1>1, <1>10
  <2>2. Item(A + 1)' = <<jobs'[1].no, jobs'[1].part>> /\ Item(A + 2)' = <<jobs'[2].no, jobs'[2].part>>
    <3>1. \A k \in Int : ~(k <= Len(statuses')) =>
            Item(k)' = <<jobs'[k - Len(statuses')].no, jobs'[k - Len(statuses')].part>>
      BY DEF Item
    <3>2. A + 1 \in Int /\ A + 2 \in Int
      BY <1>10
    <3>0. PICK a1 \in Int, a2 \in Int : a1 = A + 1 /\ a2 = A + 2
      BY <3>2
    <3>3. /\ ~(a1 <= Len(statuses')) /\ ~(a2 <= Len(statuses'))
          /\ a1 - Len(statuses') = 1 /\ a2 - Len(statuses') = 2
      <4>1. Len(statuses') = A /\ A \in Nat
        BY <1>1, <1>10
      <4> QED BY <3>0, <4>1
    <3>4. /\ Item(a1)' = <<jobs'[a1 - Len(statuses')].no, jobs'[a1 - Len(statuses')].part>>
          /\ Item(a2)' = <<jobs'[a2 - Len(statuses')].no, jobs'[a2 - Len(statuses')].part>>
      BY <3>0, <3>1, <3>3
    <3> QED BY <3>0, <3>3, <3>4
  <2>3. CASE Breaks(writer)
    BY <1>1, <1>7, <1>10, <1>11, <1>13, <2>2, <2>3
  <2>4. CASE ~Breaks(writer)
    BY <1>1, <1>7, <1>10, <1>11, <1>13, <2>2, <2>4
  <2> QED BY <2>3, <2>4
<1>15. \/ m = 1 /\ Item(A + 1)' = <<n, 2>>
       \/ m = 2 /\ Item(A + 1)' = <<n, 1>> /\ Item(A + 2)' = <<n, 2>>
  BY <1>14
<1>16. /\ A = 0 => Done = Issued /\ rsp.state # "READ_STATUS_2"
       /\ A > 0 => Item(1) = Expected /\ Item(A) = <<Issued, 2>>
       /\ \A i \in 1 .. A - 1 : Follows(Item(i), Item(i + 1))
       /\ \A i, j \in 1 .. A :
            i < j => 2 * Item(i)[1] + Item(i)[2] < 2 * Item(j)[1] + Item(j)[2]
  BY <1>2, <1>10a DEF OAccess
<1>17. Expected' = Expected
  BY <1>1, <1>5, <1>13 DEF Expected
<1>18. Item(1)' = Expected'
  <2>1. CASE A = 0
    BY <1>10, <1>14, <1>16, <1>17, <2>1 DEF Expected
  <2>2. CASE A > 0
    BY <1>10, <1>12, <1>16, <1>17, <2>2
  <2> QED BY <1>10, <2>1, <2>2
<1>19. Item(Accesses)' = <<Issued', 2>>
  BY <1>6, <1>10, <1>11, <1>15
<1>11a. PICK B \in Nat : B = A + m
  BY <1>10, <1>11
<1>11b. A \in Nat /\ (m = 1 \/ m = 2) /\ B = A + m /\ B > 0 /\ n \in Nat /\ Accesses' = B
  BY <1>10, <1>11, <1>11a
<1>20. ASSUME NEW i \in 1 .. B
       PROVE  Item(i)'[1] \in Done .. n
              /\ (i > A => Item(i)'[1] = n /\ 2 * n < 2 * n + Item(i)'[2])
  <2>1. CASE i <= A
    BY <1>4, <1>10, <1>12, <2>1
  <2>2. CASE i = A + 1
    BY <1>4, <1>10, <1>15, <2>2
  <2>3. CASE i = A + 2 /\ m = 2
    BY <1>4, <1>10, <1>15, <2>3
  <2> QED BY <1>11b, <2>1, <2>2, <2>3
<1>21. ASSUME NEW i \in 1 .. B - 1  PROVE Follows(Item(i), Item(i + 1))'
  <2>1. CASE i + 1 <= A
    <3>1. i \in 1 .. A - 1 /\ i \in 1 .. A /\ i + 1 \in 1 .. A
      BY <1>10, <2>1
    <3>2. Item(i)' = Item(i) /\ Item(i + 1)' = Item(i + 1) /\ Follows(Item(i), Item(i + 1))
      BY <1>12, <1>16, <3>1
    <3> QED BY <1>13, <3>2 DEF Follows
  <2>2. CASE i = A
    <3>1. A \in 1 .. A /\ A > 0
      BY <1>10, <2>2
    <3>2. Item(i)' = <<Issued, 2>> /\ Item(i + 1)' = <<Issued + 1, FirstPart(Issued + 1)>>
      BY <1>10, <1>12, <1>14, <1>16, <2>2, <3>1
    <3> QED BY <1>13, <3>2 DEF Follows
  <2>3. CASE i = A + 1
    <3>1. m = 2 /\ i + 1 = A + 2
      BY <1>11b, <2>3
    <3>2. Item(i)' = <<n, 1>> /\ Item(i + 1)' = <<n, 2>>
      BY <1>15, <2>3, <3>1
    <3> QED BY <3>2 DEF Follows
  <2> QED BY <1>11b, <2>1, <2>2, <2>3
<1>22. ASSUME NEW i \in 1 .. B, NEW j \in 1 .. B, i < j
       PROVE  2 * Item(i)'[1] + Item(i)'[2] < 2 * Item(j)'[1] + Item(j)'[2]
  <2>1. CASE j <= A
    <3>1. i \in 1 .. A /\ j \in 1 .. A
      BY <1>10, <1>22, <2>1
    <3> QED BY <1>12, <1>16, <1>22, <3>1
  <2>2. CASE i <= A /\ j > A
    <3>1. i \in 1 .. A /\ A \in 1 .. A
      BY <1>10, <2>2
    <3>2. 2 * Item(i)[1] + Item(i)[2] <= 2 * Issued + 2
      <4>1. CASE i = A
        BY <1>16, <3>1, <4>1, <1>4, <1>10
      <4>2. CASE i < A
        <5>1. 2 * Item(i)[1] + Item(i)[2] < 2 * Item(A)[1] + Item(A)[2] /\ Item(A) = <<Issued, 2>>
          BY <1>10, <1>16, <3>1, <4>2
        <5>2. Item(A)[1] = Issued /\ Item(A)[2] = 2
          BY <5>1
        <5>3. Item(i)[1] \in Nat /\ (Item(i)[2] = 1 \/ Item(i)[2] = 2)
          BY <1>12, <3>1
        <5> QED BY <5>1, <5>2, <5>3, <1>4
      <4> QED BY <3>1, <4>1, <4>2, <1>10
    <3>3. Item(j)'[1] = n /\ Item(j)'[2] \in {1, 2}
      <4>1. CASE j = A + 1
        BY <1>15, <4>1
      <4>2. CASE j = A + 2 /\ m = 2
        BY <1>15, <4>2
      <4> QED BY <1>11b, <2>2, <4>1, <4>2
    <3>4. Item(i)' = Item(i) /\ Item(i)[1] \in Nat /\ (Item(i)[2] = 1 \/ Item(i)[2] = 2)
      BY <1>12, <3>1
    <3>5. n = Issued + 1
      BY <1>10
    <3> QED BY <1>4, <3>2, <3>3, <3>4, <3>5
  <2>3. CASE i > A
    <3>1. i = A + 1 /\ j = A + 2 /\ m = 2
      BY <1>11b, <1>22, <2>3
    <3>2. Item(i)' = <<n, 1>> /\ Item(j)' = <<n, 2>>
      BY <1>15, <3>1
    <3> QED BY <1>11b, <3>2
  <2> QED BY <1>11b, <2>1, <2>2, <2>3
<1>23. OAccess'
  <2>1. B > 0 /\ Accesses' = B
    BY <1>11b, <1>11a
  <2>2. Done' = Done /\ Issued' = n
    BY <1>5, <1>6, <1>10
  <2>3. (Accesses = 0 => Done = Issued /\ rsp.state # "READ_STATUS_2")'
    BY <2>1
  <2>4. (Accesses > 0 => Item(1) = Expected /\ Item(Accesses) = <<Issued, 2>>)'
    BY <1>18, <1>19
  <2>5. (\A i \in 1 .. Accesses : Item(i)[1] \in Done .. Issued)'
    BY <1>20, <2>1, <2>2
  <2>6. (\A i \in 1 .. Accesses - 1 : Follows(Item(i), Item(i + 1)))'
    BY <1>21, <2>1
  <2>7. (\A i, j \in 1 .. Accesses :
           i < j => 2 * Item(i)[1] + Item(i)[2] < 2 * Item(j)[1] + Item(j)[2])'
    BY <1>22, <2>1
  <2> QED BY <2>3, <2>4, <2>5, <2>6, <2>7 DEF OAccess
<1> QED BY <1>8, <1>9, <1>23 DEF Order

\* The data mover reports an access: it is under way at the next place.
LEMMA OrderMover ==
  ASSUME TInv, Order, NEW okay \in BOOLEAN, Mover(okay)
  PROVE  Order'
<1>1. /\ Takes(jobs, jobs') /\ Len(statuses') = Len(statuses) + 1
      /\ \A i \in 1 .. Len(statuses) : statuses'[i] = statuses[i]
      /\ statuses'[Len(statuses) + 1].no = jobs[1].no
      /\ statuses'[Len(statuses) + 1].part = jobs[1].part
      /\ statuses'[Len(statuses) + 1].okay = okay
      /\ okay => bad' = bad
      /\ ~okay => bad' = bad \cup {jobs[1].no}
      /\ UNCHANGED <<accepted, mem_cmd, writer, flags, rsp, data_ev, cache>>
  BY MoverStep, Zenon
<1>2. /\ OAccepted /\ OWriter /\ OEvents /\ ORsp /\ OAccess /\ BadShown
  BY DEF Order
<1>3. Begun' = Begun /\ Done' = Done /\ Merged' = Merged
  BY <1>1 DEF Begun, Done, Merged
<1>4. Issued' = Issued /\ Taken' = Taken /\ Finished' = Finished
  BY <1>1, <1>3 DEF Issued, Taken, Finished
<1>5. OAccepted' /\ OWriter' /\ OEvents' /\ ORsp'
  BY <1>1, <1>2, <1>3, <1>4 DEF OAccepted, OWriter, OEvents, ORsp, Breaks
<1>6. PICK S, J : S = Len(statuses) /\ J = Len(jobs) /\ S \in Nat /\ J \in Nat
  BY Sizes
<1>7. Accesses = S + J /\ Len(statuses') = S + 1 /\ Len(jobs') = J - 1 /\ J > 0
  BY <1>1, <1>6 DEF Accesses, Takes
<1>8. Accesses' = Accesses
  BY <1>6, <1>7 DEF Accesses
<1>9. ASSUME NEW i \in 1 .. Accesses  PROVE Item(i)' = Item(i)
  <2>0. i \in Nat /\ 1 <= i /\ i <= S + J
    BY <1>6, <1>7
  <2>1. CASE i <= S
    <3>1. i <= Len(statuses) /\ i <= Len(statuses') /\ statuses'[i] = statuses[i]
      BY <1>1, <1>6, <1>7, <2>0, <2>1
    <3> QED BY <3>1 DEF Item
  <2>2. CASE i = S + 1
    <3>1. ~(i <= Len(statuses)) /\ i <= Len(statuses') /\ i - Len(statuses) = 1
          /\ i = Len(statuses) + 1
      BY <1>6, <1>7, <2>0, <2>2
    <3>2. statuses'[i].no = jobs[1].no /\ statuses'[i].part = jobs[1].part
      BY <1>1, <3>1
    <3>3. Item(i)' = <<jobs[1].no, jobs[1].part>>
      BY <3>1, <3>2 DEF Item
    <3>4. Item(i) = <<jobs[1].no, jobs[1].part>>
      BY <3>1 DEF Item
    <3> QED BY <3>3, <3>4
  <2>3. CASE i > S + 1
    <3>0. i - (S + 1) \in Nat
      BY <1>6, <2>0, <2>3
    <3>1. PICK k \in Nat : k = i - (S + 1)
      BY <3>0
    <3>2. k \in 1 .. J - 1 /\ k + 1 = i - Len(statuses) /\ k = i - Len(statuses')
          /\ ~(i <= Len(statuses)) /\ ~(i <= Len(statuses'))
      BY <1>6, <1>7, <2>0, <2>3, <3>1
    <3>3. jobs'[k] = jobs[k + 1]
      BY <1>1, <1>7, <3>2 DEF Takes
    <3>4. Item(i)' = <<jobs'[k].no, jobs'[k].part>>
      BY <3>2 DEF Item
    <3>5. Item(i) = <<jobs[k + 1].no, jobs[k + 1].part>>
      BY <3>2 DEF Item
    <3> QED BY <3>3, <3>4, <3>5
  <2> QED BY <1>6, <2>0, <2>1, <2>2, <2>3
<1>10. OAccess'
  BY <1>1, <1>2, <1>3, <1>4, <1>8, <1>9, AccessKept
<1>11. BadShown'
  <2> SUFFICES ASSUME NEW b \in bad', b > Finished
               PROVE  \E i \in 1 .. Len(statuses') : statuses'[i].no = b /\ ~statuses'[i].okay
    BY <1>4 DEF BadShown
  <2>1. CASE b \in bad
    <3>1. PICK i \in 1 .. Len(statuses) : statuses[i].no = b /\ ~statuses[i].okay
      BY <1>2, <2>1 DEF BadShown
    <3>2. i \in 1 .. Len(statuses') /\ statuses'[i] = statuses[i]
      BY <1>1, <1>6, <1>7
    <3> QED BY <3>1, <3>2
  <2>2. CASE b \notin bad
    <3>1. ~okay /\ b = jobs[1].no
      BY <1>1, <2>2
    <3>2. S + 1 \in 1 .. Len(statuses') /\ statuses'[S + 1].no = b
      BY <1>1, <1>6, <1>7, <3>1
    <3>3. ~statuses'[S + 1].okay
      BY <1>1, <1>6, <3>1, Zenon
    <3> QED BY <3>2, <3>3
  <2> QED BY <2>1, <2>2
<1> QED BY <1>5, <1>10, <1>11 DEF Order

LEMMA OrderMergeConn ==
  ASSUME TInv, Order, MergeConn
  PROVE  Order'
<1>1. /\ conn_ev[1] \in FinEv /\ Grows(cache, cache', conn_ev[1])
      /\ UNCHANGED <<accepted, mem_cmd, writer, flags, rsp, data_ev, statuses, jobs, bad>>
  BY MergeConnStep
<1>2. /\ OAccepted /\ OWriter /\ OEvents /\ ORsp /\ OAccess /\ BadShown
  BY DEF Order
<1>3. Begun' = Begun /\ Done' = Done /\ Merged' = Merged
  BY <1>1 DEF Begun, Done, Merged
<1>4. Issued' = Issued /\ Taken' = Taken /\ Finished' = Finished
  BY <1>1, <1>3 DEF Issued, Taken, Finished
<1>5. OAccepted' /\ OWriter' /\ ORsp'
  BY <1>1, <1>2, <1>3, <1>4 DEF OAccepted, OWriter, ORsp, Breaks
<1>6. OAccess' /\ BadShown'
  BY <1>1, <1>2, <1>3, <1>4, AccessSame, BadSame
<1>7. conn_ev[1].type # "TX" /\ Len(cache) \in Nat
  BY <1>1, Kinds, Sizes
<1>8. \A i \in 1 .. Len(cache') : cache'[i].type = "TX" => i \in 1 .. Len(cache) /\ cache'[i] = cache[i]
  BY <1>1, <1>7 DEF Grows
<1>9. \A i \in 1 .. Len(cache) : i \in 1 .. Len(cache') /\ cache'[i] = cache[i]
  BY <1>1, <1>7 DEF Grows
<1>10. OEvents'
  <2>1. \A i \in 1 .. Len(cache') : cache'[i].type = "TX" =>
          /\ cache'[i].no \in Taken + 1 .. Merged /\ cache'[i] = accepted[cache'[i].no]
          /\ \A j \in 1 .. Len(cache') : i < j /\ cache'[j].type = "TX" => cache'[i].no < cache'[j].no
    BY <1>2, <1>8 DEF OEvents
  <2>2. \A n \in Taken + 1 .. Merged :
          \E i \in 1 .. Len(cache') : cache'[i].type = "TX" /\ cache'[i].no = n
    BY <1>2, <1>9 DEF OEvents
  <2> QED BY <2>1, <2>2, <1>1, <1>2, <1>3, <1>4 DEF OEvents
<1> QED BY <1>5, <1>6, <1>10 DEF Order

LEMMA OrderMergeData ==
  ASSUME TInv, Order, MergeData
  PROVE  Order'
<1>1. /\ data_ev[1] \in WriteEv /\ Takes(data_ev, data_ev') /\ Grows(cache, cache', data_ev[1])
      /\ UNCHANGED <<accepted, mem_cmd, writer, flags, rsp, statuses, jobs, bad>>
  BY MergeDataStep
<1>2. /\ OAccepted /\ OWriter /\ OEvents /\ ORsp /\ OAccess /\ BadShown
  BY DEF Order
<1>3. /\ Len(data_ev) \in Nat /\ Len(data_ev) > 0 /\ Len(cache) \in Nat /\ Len(accepted) \in Nat
      /\ Merged \in Nat /\ Taken \in Nat /\ Taken <= Merged /\ Merged + 1 <= Len(accepted)
  BY <1>1, <1>2, Sizes, Positions DEF Takes, Merged
<1>4. Begun' = Begun /\ Done' = Done /\ Merged' = Merged + 1
  BY <1>1, <1>3 DEF Begun, Done, Merged, Takes
<1>5. Issued' = Issued /\ Taken' = Taken /\ Finished' = Finished
  BY <1>1, <1>4 DEF Issued, Taken, Finished
<1>6. OAccepted' /\ OWriter' /\ ORsp'
  BY <1>1, <1>2, <1>3, <1>4, <1>5 DEF OAccepted, OWriter, ORsp, Breaks
<1>7. OAccess' /\ BadShown'
  BY <1>1, <1>2, <1>4, <1>5, AccessSame, BadSame
<1>8. /\ data_ev[1] = accepted[Merged + 1] /\ data_ev[1].no = Merged + 1 /\ data_ev[1].type = "TX"
  BY <1>1, <1>2, <1>3, Kinds DEF OEvents, OAccepted
<1>9. /\ Len(cache') = Len(cache) + 1 /\ cache'[Len(cache) + 1] = data_ev[1]
      /\ \A i \in 1 .. Len(cache) : i \in 1 .. Len(cache') /\ cache'[i] = cache[i]
  BY <1>1, <1>3 DEF Grows
<1>10. ASSUME NEW i \in 1 .. Len(cache'), cache'[i].type = "TX"
       PROVE  /\ cache'[i].no \in Taken + 1 .. Merged + 1 /\ cache'[i] = accepted[cache'[i].no]
              /\ \A j \in 1 .. Len(cache') : i < j /\ cache'[j].type = "TX" => cache'[i].no < cache'[j].no
  <2>1. CASE i = Len(cache) + 1
    <3>1. \A j \in 1 .. Len(cache') : ~(i < j)
      BY <1>3, <1>9, <2>1
    <3> QED BY <1>3, <1>8, <1>9, <2>1, <3>1
  <2>2. CASE i \in 1 .. Len(cache)
    <3>1. /\ cache[i].no \in Taken + 1 .. Merged /\ cache[i] = accepted[cache[i].no]
          /\ cache'[i] = cache[i]
          /\ \A j \in 1 .. Len(cache) : i < j /\ cache[j].type = "TX" => cache[i].no < cache[j].no
      BY <1>2, <1>9, <1>10, <2>2 DEF OEvents
    <3>2. ASSUME NEW j \in 1 .. Len(cache'), i < j, cache'[j].type = "TX"
          PROVE  cache'[i].no < cache'[j].no
      <4>1. CASE j = Len(cache) + 1
        BY <1>3, <1>8, <1>9, <3>1, <4>1
      <4>2. CASE j \in 1 .. Len(cache)
        BY <1>9, <3>1, <3>2, <4>2
      <4> QED BY <1>3, <1>9, <4>1, <4>2
    <3> QED BY <1>3, <3>1, <3>2
  <2> QED BY <1>3, <1>9, <2>1, <2>2
<1>11. ASSUME NEW n \in Taken + 1 .. Merged + 1
       PROVE  \E i \in 1 .. Len(cache') : cache'[i].type = "TX" /\ cache'[i].no = n
  <2>1. CASE n = Merged + 1
    <3>1. Len(cache) + 1 \in 1 .. Len(cache')
      BY <1>3, <1>9
    <3> QED BY <1>8, <1>9, <2>1, <3>1
  <2>2. CASE n \in Taken + 1 .. Merged
    <3>1. PICK i \in 1 .. Len(cache) : cache[i].type = "TX" /\ cache[i].no = n
      BY <1>2, <2>2 DEF OEvents
    <3> QED BY <1>9, <3>1
  <2> QED BY <1>3, <2>1, <2>2
<1>12. ASSUME NEW i \in 1 .. Len(data_ev')  PROVE data_ev'[i] = accepted[Merged + 1 + i]
  <2>1. PICK k \in 1 .. Len(data_ev) : k = i + 1
    BY <1>1, <1>3 DEF Takes
  <2>2. data_ev'[i] = data_ev[k] /\ data_ev[k] = accepted[Merged + k]
    BY <1>1, <1>2, <2>1 DEF Takes, OEvents
  <2>3. Merged + k = Merged + 1 + i
    BY <1>3, <2>1
  <2> QED BY <2>2, <2>3
<1>13. OEvents'
  BY <1>1, <1>4, <1>5, <1>10, <1>11, <1>12 DEF OEvents
<1> QED BY <1>6, <1>7, <1>13 DEF Order

\* The first event of the cache is that of the next write.
LEMMA OrderTakeTx ==
  ASSUME TInv, Order, TakeTx
  PROVE  Order'
<1>1. /\ rsp = ReadEvent /\ cache[1] \in WriteEv /\ Takes(cache, cache')
      /\ rsp'.state = "READ_STATUS_1" /\ rsp'.ev = cache[1] /\ rsp.state = "READ_EV"
      /\ UNCHANGED <<accepted, mem_cmd, writer, flags, data_ev, statuses, jobs, bad>>
  BY TakeTxStep, Kinds
<1>2. /\ OAccepted /\ OWriter /\ OEvents /\ ORsp /\ OAccess /\ BadShown
  BY DEF Order
<1>3. /\ Len(cache) \in Nat /\ Len(cache) > 0 /\ Done \in Nat /\ Merged \in Nat /\ Taken = Done
      /\ Finished = Done
  BY <1>1, <1>2, Sizes, Positions DEF Takes, Taken, Finished
<1>4. Begun' = Begun /\ Done' = Done /\ Merged' = Merged
  BY <1>1 DEF Begun, Done, Merged
<1>5. Issued' = Issued /\ Taken' = Done + 1 /\ Finished' = Done
  BY <1>1, <1>4 DEF Issued, Taken, Finished
<1>6. /\ 1 \in 1 .. Len(cache) /\ cache[1].type = "TX" /\ cache[1].no \in Done + 1 .. Merged
      /\ cache[1] = accepted[cache[1].no]
      /\ \A j \in 1 .. Len(cache) : 1 < j /\ cache[j].type = "TX" => cache[1].no < cache[j].no
  BY <1>1, <1>2, <1>3, Kinds DEF OEvents
<1>7. cache[1].no = Done + 1
  <2>1. Done + 1 \in Done + 1 .. Merged
    BY <1>3, <1>6
  <2>2. PICK i \in 1 .. Len(cache) : cache[i].type = "TX" /\ cache[i].no = Done + 1
    BY <1>2, <1>3, <2>1 DEF OEvents
  <2> QED BY <1>3, <1>6, <2>2
<1>8. OAccepted' /\ OWriter' /\ ORsp'
  BY <1>1, <1>2, <1>3, <1>4, <1>5, <1>6, <1>7 DEF OAccepted, OWriter, ORsp, Breaks
<1>9. OAccess' /\ BadShown'
  BY <1>1, <1>2, <1>3, <1>4, <1>5, AccessSame, BadSame
<1>10. /\ Len(cache') = Len(cache) - 1
       /\ \A i \in 1 .. Len(cache') : i + 1 \in 1 .. Len(cache) /\ 1 < i + 1 /\ cache'[i] = cache[i + 1]
  BY <1>1, <1>3 DEF Takes
<1>11. ASSUME NEW i \in 1 .. Len(cache'), cache'[i].type = "TX"
       PROVE  /\ cache'[i].no \in Done + 2 .. Merged /\ cache'[i] = accepted[cache'[i].no]
              /\ \A j \in 1 .. Len(cache') : i < j /\ cache'[j].type = "TX" => cache'[i].no < cache'[j].no
  <2>1. PICK k \in 1 .. Len(cache) : k = i + 1 /\ 1 < k /\ cache'[i] = cache[k]
    BY <1>10
  <2>2. /\ cache[k].no \in Taken + 1 .. Merged /\ cache[k] = accepted[cache[k].no]
        /\ \A j \in 1 .. Len(cache) : k < j /\ cache[j].type = "TX" => cache[k].no < cache[j].no
    BY <1>2, <1>11, <2>1 DEF OEvents
  <2>3. cache[k].no \in Done + 2 .. Merged
    BY <1>3, <1>6, <1>7, <1>11, <2>1, <2>2
  <2>4. ASSUME NEW j \in 1 .. Len(cache'), i < j, cache'[j].type = "TX"
        PROVE  cache'[i].no < cache'[j].no
    <3>1. PICK m \in 1 .. Len(cache) : m = j + 1 /\ cache'[j] = cache[m]
      BY <1>10
    <3> QED BY <2>1, <2>2, <2>4, <3>1
  <2> QED BY <2>1, <2>2, <2>3, <2>4
<1>12. ASSUME NEW n \in Done + 2 .. Merged
       PROVE  \E i \in 1 .. Len(cache') : cache'[i].type = "TX" /\ cache'[i].no = n
  <2>1. n \in Taken + 1 .. Merged /\ n # Done + 1
    BY <1>3
  <2>2. PICK k \in 1 .. Len(cache) : cache[k].type = "TX" /\ cache[k].no = n
    BY <1>2, <2>1 DEF OEvents
  <2>3. k # 1
    BY <1>7, <2>1, <2>2
  <2>4. k - 1 \in 1 .. Len(cache') /\ k - 1 + 1 = k
    BY <1>3, <1>10, <2>2, <2>3
  <2>5. PICK i \in 1 .. Len(cache') : i = k - 1
    BY <2>4
  <2>6. cache'[i] = cache[k]
    BY <1>10, <2>4, <2>5
  <2> QED BY <2>2, <2>5, <2>6
<1>13. OEvents'
  <2>1. Done + 1 + 1 = Done + 2
    BY <1>3
  <2> QED BY <1>1, <1>2, <1>4, <1>5, <1>11, <1>12, <2>1 DEF OEvents
<1> QED BY <1>8, <1>9, <1>13 DEF Order

LEMMA OrderPassFin ==
  ASSUME TInv, Order, PassFin
  PROVE  Order'
<1>1. /\ cache[1] \in FinEv /\ Takes(cache, cache')
      /\ UNCHANGED <<accepted, mem_cmd, writer, flags, rsp, data_ev, statuses, jobs, bad>>
  BY PassFinStep
<1>2. /\ OAccepted /\ OWriter /\ OEvents /\ ORsp /\ OAccess /\ BadShown
  BY DEF Order
<1>3. Len(cache) \in Nat /\ Len(cache) > 0 /\ cache[1].type # "TX"
  BY <1>1, Sizes, Kinds DEF Takes
<1>4. Begun' = Begun /\ Done' = Done /\ Merged' = Merged
  BY <1>1 DEF Begun, Done, Merged
<1>5. Issued' = Issued /\ Taken' = Taken /\ Finished' = Finished
  BY <1>1, <1>4 DEF Issued, Taken, Finished
<1>6. OAccepted' /\ OWriter' /\ ORsp'
  BY <1>1, <1>2, <1>4, <1>5 DEF OAccepted, OWriter, ORsp, Breaks
<1>7. OAccess' /\ BadShown'
  BY <1>1, <1>2, <1>4, <1>5, AccessSame, BadSame
<1>8. /\ Len(cache') = Len(cache) - 1
      /\ \A i \in 1 .. Len(cache') : i + 1 \in 1 .. Len(cache) /\ cache'[i] = cache[i + 1]
  BY <1>1, <1>3 DEF Takes
<1>9. ASSUME NEW i \in 1 .. Len(cache'), cache'[i].type = "TX"
      PROVE  /\ cache'[i].no \in Taken + 1 .. Merged /\ cache'[i] = accepted[cache'[i].no]
             /\ \A j \in 1 .. Len(cache') : i < j /\ cache'[j].type = "TX" => cache'[i].no < cache'[j].no
  <2>1. PICK k \in 1 .. Len(cache) : k = i + 1 /\ cache'[i] = cache[k]
    BY <1>8
  <2>2. /\ cache[k].no \in Taken + 1 .. Merged /\ cache[k] = accepted[cache[k].no]
        /\ \A j \in 1 .. Len(cache) : k < j /\ cache[j].type = "TX" => cache[k].no < cache[j].no
    BY <1>2, <1>9, <2>1 DEF OEvents
  <2>3. ASSUME NEW j \in 1 .. Len(cache'), i < j, cache'[j].type = "TX"
        PROVE  cache'[i].no < cache'[j].no
    <3>1. PICK m \in 1 .. Len(cache) : m = j + 1 /\ cache'[j] = cache[m]
      BY <1>8
    <3> QED BY <2>1, <2>2, <2>3, <3>1
  <2> QED BY <2>1, <2>2, <2>3
<1>10. ASSUME NEW n \in Taken + 1 .. Merged
       PROVE  \E i \in 1 .. Len(cache') : cache'[i].type = "TX" /\ cache'[i].no = n
  <2>1. PICK k \in 1 .. Len(cache) : cache[k].type = "TX" /\ cache[k].no = n
    BY <1>2 DEF OEvents
  <2>2. k # 1
    BY <1>3, <2>1
  <2>3. k - 1 \in 1 .. Len(cache') /\ k - 1 + 1 = k
    BY <1>3, <1>8, <2>2
  <2>4. PICK i \in 1 .. Len(cache') : i = k - 1
    BY <2>3
  <2>5. cache'[i] = cache[k]
    BY <1>8, <2>3, <2>4
  <2> QED BY <2>1, <2>4, <2>5
<1>11. OEvents'
  BY <1>1, <1>2, <1>4, <1>5, <1>9, <1>10 DEF OEvents
<1> QED BY <1>6, <1>7, <1>11 DEF Order

\* The status at the head is that of the access the handler expects.
LEMMA StatusHead ==
  ASSUME TInv, OAccepted, OAccess, Len(statuses) > 0
  PROVE  /\ Accesses > 0 /\ Item(1) = <<statuses[1].no, statuses[1].part>> /\ Item(1) = Expected
         /\ Item(1)[1] \in Done .. Issued
<1>1. Accesses > 0 /\ 1 \in 1 .. Accesses /\ 1 <= Len(statuses)
  <2>1. Len(statuses) \in Nat /\ Len(jobs) \in Nat
    BY Sizes
  <2> QED BY <2>1 DEF Accesses
<1> QED BY <1>1 DEF Item, OAccess

\* A status is read: the accesses that remain follow it.
LEMMA AccessShift ==
  ASSUME TInv, OAccepted, OAccess, Takes(statuses, statuses'), UNCHANGED <<jobs, accepted>>,
         Issued' = Issued, Done' = Item(1)[1],
         Item(1)[2] = 1 => Expected' = <<Done', 2>>,
         Item(1)[2] = 2 => rsp'.state # "READ_STATUS_2" /\ Expected' = <<Done' + 1, FirstPart(Done' + 1)>>
  PROVE  OAccess'
<1>1. PICK A : A = Accesses
  OBVIOUS
<1>2. Len(statuses) > 0 /\ Len(statuses) \in Nat /\ Len(jobs) \in Nat
  BY Sizes DEF Takes
<1>3. A \in Nat /\ A > 0 /\ A = Len(statuses) + Len(jobs)
  BY <1>1, <1>2, Sizes DEF Accesses
<1>4. Accesses' = A - 1
  BY <1>2, <1>3 DEF Accesses, Takes
<1>5. /\ Item(1)[1] \in Done .. Issued /\ Item(A) = <<Issued, 2>> /\ 1 \in 1 .. A
      /\ \A i \in 1 .. A : Item(i)[1] \in Done .. Issued
      /\ \A i \in 1 .. A - 1 : Follows(Item(i), Item(i + 1))
      /\ \A i, j \in 1 .. A : i < j => 2 * Item(i)[1] + Item(i)[2] < 2 * Item(j)[1] + Item(j)[2]
      /\ \A i \in 1 .. A : Item(i)[1] \in Nat /\ Item(i)[2] \in {1, 2}
  BY <1>1, <1>3, ItemTypes DEF OAccess
<1>6. Done \in Nat /\ Issued \in Nat /\ Item(1)[1] \in Nat /\ (Item(1)[2] = 1 \/ Item(1)[2] = 2)
  BY <1>3, <1>5, Positions
<1>7. ASSUME NEW i \in 1 .. A - 1  PROVE i + 1 \in 1 .. A /\ Item(i)' = Item(i + 1)
  <2>0. i + 1 \in 1 .. A /\ i \in Nat /\ i >= 1
    BY <1>3
  <2>1. PICK k \in 1 .. A : k = i + 1
    BY <2>0
  <2>2. CASE k <= Len(statuses)
    <3>1. i <= Len(statuses') /\ statuses'[i] = statuses[k]
      BY <1>2, <2>0, <2>1, <2>2 DEF Takes
    <3>2. Item(k) = <<statuses[k].no, statuses[k].part>>
      BY <2>2 DEF Item
    <3>3. Item(i)' = <<statuses'[i].no, statuses'[i].part>>
      BY <3>1 DEF Item
    <3> QED BY <2>0, <2>1, <3>1, <3>2, <3>3
  <2>3. CASE ~(k <= Len(statuses))
    <3>1. ~(i <= Len(statuses')) /\ i - Len(statuses') = k - Len(statuses)
      BY <1>2, <2>0, <2>1, <2>3 DEF Takes
    <3>2. Item(k) = <<jobs[k - Len(statuses)].no, jobs[k - Len(statuses)].part>>
      BY <2>3 DEF Item
    <3>3. Item(i)' = <<jobs[i - Len(statuses')].no, jobs[i - Len(statuses')].part>>
      BY <3>1 DEF Item
    <3> QED BY <2>0, <2>1, <3>1, <3>2, <3>3
  <2> QED BY <2>2, <2>3
<1>8. \A n : FirstPart(n)' = FirstPart(n)
  BY DEF FirstPart, Breaks
<1>9. (Accesses = 0 => Done = Issued /\ rsp.state # "READ_STATUS_2")'
  BY <1>3, <1>4, <1>5
<1>10. (Accesses > 0 => Item(1) = Expected /\ Item(Accesses) = <<Issued, 2>>)'
  <2> SUFFICES ASSUME A - 1 > 0  PROVE Item(1)' = Expected' /\ Item(A - 1)' = <<Issued, 2>>
    BY <1>4
  <2>1. 1 \in 1 .. A - 1 /\ A - 1 \in 1 .. A - 1 /\ 1 + 1 = 2 /\ (A - 1) + 1 = A
    BY <1>3
  <2>2. Item(1)' = Item(2) /\ Follows(Item(1), Item(2)) /\ Item(A - 1)' = Item(A)
    BY <1>5, <1>7, <2>1
  <2>3. Item(2) = Expected'
    BY <1>6, <1>8, <2>2 DEF Follows
  <2> QED BY <1>5, <2>2, <2>3
<1>11. ASSUME NEW i \in 1 .. A - 1  PROVE Item(i)'[1] \in Item(1)[1] .. Issued
  <2>1. PICK k \in 1 .. A : k = i + 1 /\ 1 < k /\ Item(i)' = Item(k)
    BY <1>3, <1>7
  <2>2. 2 * Item(1)[1] + Item(1)[2] < 2 * Item(k)[1] + Item(k)[2]
    BY <1>5, <2>1
  <2>3. Item(k)[1] \in Nat /\ (Item(k)[2] = 1 \/ Item(k)[2] = 2) /\ Item(k)[1] \in Done .. Issued
    BY <1>5, <2>1
  <2> QED BY <1>6, <2>1, <2>2, <2>3
<1>12. ASSUME NEW i \in 1 .. A - 2  PROVE Follows(Item(i), Item(i + 1))'
  <2>1. i \in 1 .. A - 1 /\ i + 1 \in 1 .. A - 1
    BY <1>3
  <2>2. PICK k \in 1 .. A - 1 : k = i + 1
    BY <2>1
  <2>3. Item(i)' = Item(k) /\ Item(k)' = Item(k + 1) /\ Follows(Item(k), Item(k + 1))
    BY <1>5, <1>7, <2>1, <2>2
  <2> QED BY <1>8, <2>2, <2>3 DEF Follows
<1>13. ASSUME NEW i \in 1 .. A - 1, NEW j \in 1 .. A - 1, i < j
       PROVE  2 * Item(i)'[1] + Item(i)'[2] < 2 * Item(j)'[1] + Item(j)'[2]
  <2>1. PICK k \in 1 .. A, m \in 1 .. A : k = i + 1 /\ m = j + 1 /\ k < m
    BY <1>3, <1>13
  <2>2. Item(i)' = Item(k) /\ Item(j)' = Item(m)
    BY <1>7, <2>1
  <2> QED BY <1>5, <2>1, <2>2
<1>14. (\A i \in 1 .. Accesses : Item(i)[1] \in Done .. Issued)'
  BY <1>4, <1>11
<1>15. (\A i \in 1 .. Accesses - 1 : Follows(Item(i), Item(i + 1)))'
  <2>1. Accesses' - 1 = A - 2
    BY <1>3, <1>4
  <2> QED BY <1>12, <2>1
<1>16. (\A i, j \in 1 .. Accesses :
          i < j => 2 * Item(i)[1] + Item(i)[2] < 2 * Item(j)[1] + Item(j)[2])'
  BY <1>4, <1>13
<1> QED BY <1>9, <1>10, <1>14, <1>15, <1>16 DEF OAccess

\* The failed writes that the handler has not finished are shown by the statuses that remain.
LEMMA BadShift ==
  ASSUME TInv, BadShown, Takes(statuses, statuses'), bad' = bad, Finished' \in Int, Finished \in Int,
         Finished' >= Finished, ~statuses[1].okay => statuses[1].no <= Finished'
  PROVE  BadShown'
<1> SUFFICES ASSUME NEW b \in bad, b > Finished'
             PROVE  \E i \in 1 .. Len(statuses') : statuses'[i].no = b /\ ~statuses'[i].okay
  BY DEF BadShown
<1>1. b \in Nat /\ b > Finished /\ Len(statuses) \in Nat
  BY Sizes DEF TInv, THistory
<1>2. PICK k \in 1 .. Len(statuses) : statuses[k].no = b /\ ~statuses[k].okay
  BY <1>1 DEF BadShown
<1>3. k # 1
  <2> SUFFICES ASSUME k = 1  PROVE FALSE
    OBVIOUS
  <2>1. statuses[1].no = b /\ statuses[1].no <= Finished'
    BY <1>2, Zenon
  <2> QED BY <1>1, <2>1
<1>4. k - 1 \in 1 .. Len(statuses') /\ k - 1 + 1 = k
  BY <1>1, <1>3 DEF Takes
<1>5. PICK i \in 1 .. Len(statuses') : i = k - 1
  BY <1>4
<1>6. statuses'[i] = statuses[k]
  BY <1>4, <1>5 DEF Takes
<1> QED BY <1>2, <1>5, <1>6, Zenon

LEMMA OrderStatus1 ==
  ASSUME TInv, Order, Status1, Healthy'
  PROVE  Order'
<1>1. /\ rsp \in Waiting /\ rsp.state = "READ_STATUS_1"
      /\ Takes(flags, flags') /\ Takes(statuses, statuses')
      /\ UNCHANGED <<accepted, mem_cmd, writer, data_ev, cache, jobs, bad>>
  BY Status1Step
<1>2. /\ OAccepted /\ OWriter /\ OEvents /\ ORsp /\ OAccess /\ BadShown
  BY DEF Order
<1>3. \/ flags[1] /\ rsp'.state = "READ_STATUS_2" /\ rsp'.ev = rsp.ev /\ statuses[1].okay
      \/ ~flags[1] /\ rsp' = ReadEvent
  BY Status1Step, Zenon
<1>4. /\ Len(flags) \in Nat /\ Len(flags) > 0 /\ Done \in Nat /\ Issued \in Nat /\ Begun \in Nat
      /\ Taken = Done + 1 /\ Taken <= Merged /\ Finished = Done /\ Issued <= Begun
      /\ Begun <= Len(accepted) /\ Len(accepted) \in Nat /\ Len(statuses) > 0
  BY <1>1, <1>2, Sizes, Positions DEF Takes, Taken, Finished
<1>5. Begun' = Begun /\ Done' = Done + 1 /\ Merged' = Merged
  BY <1>1, <1>4 DEF Begun, Done, Merged, Takes
<1>6. Issued' = Issued /\ Taken' = Taken /\ (Finished' = Done \/ Finished' = Done + 1)
  <2>1. rsp'.state # "READ_STATUS_1"
    BY <1>3, Kinds
  <2> QED BY <1>1, <1>4, <1>5, <2>1 DEF Issued, Taken, Finished
<1>7. /\ Item(1) = <<Done + 1, FirstPart(Done + 1)>> /\ Done + 1 <= Issued
      /\ statuses[1].no = Done + 1
  <2>1. /\ Item(1) = Expected /\ Item(1) = <<statuses[1].no, statuses[1].part>>
        /\ Item(1)[1] \in Done .. Issued
    BY <1>2, <1>4, StatusHead
  <2> QED BY <1>1, <1>4, <2>1 DEF Expected
<1>8. flags[1] = Breaks(accepted[Done + 1])
  BY <1>2, <1>4 DEF OWriter
<1>9. /\ flags[1] => FirstPart(Done + 1) = 1
      /\ ~flags[1] => FirstPart(Done + 1) = 2
  BY <1>8, Zenon DEF FirstPart
<1>10. \/ FirstPart(Done + 1) = 1 /\ rsp'.state = "READ_STATUS_2" /\ rsp'.ev = rsp.ev /\ statuses[1].okay
       \/ FirstPart(Done + 1) = 2 /\ rsp'.state = "READ_EV" /\ rsp' = ReadEvent
  BY <1>3, <1>9, Kinds, Zenon
<1>11. OAccepted'
  BY <1>1, <1>2, <1>4, <1>5, <1>6, <1>7 DEF OAccepted
<1>12. OWriter'
  <2>1. ASSUME NEW i \in 1 .. Len(flags')  PROVE flags'[i] = Breaks(accepted[Done + 1 + i])
    <3>1. PICK k \in 1 .. Len(flags) : k = i + 1
      BY <1>1, <1>4 DEF Takes
    <3>2. flags'[i] = flags[k] /\ flags[k] = Breaks(accepted[Done + k])
      BY <1>1, <1>2, <3>1 DEF Takes, OWriter
    <3>3. Done + k = Done + 1 + i
      BY <1>4, <3>1
    <3> QED BY <3>2, <3>3
  <2> QED BY <2>1, <1>1, <1>2, <1>5 DEF OWriter, Breaks
<1>13. OEvents'
  BY <1>1, <1>2, <1>5, <1>6 DEF OEvents
<1>14. ORsp'
  <2>1. rsp.ev = accepted[Done + 1]
    BY <1>1, <1>2 DEF ORsp
  <2>2. rsp'.state # "READ_STATUS_1" /\ (rsp'.state = "READ_STATUS_2" => rsp'.ev = rsp.ev)
    BY <1>10
  <2> QED BY <1>1, <1>5, <2>1, <2>2 DEF ORsp
<1>15. OAccess'
  <2>1. Issued' = Issued /\ Done' = Item(1)[1]
    BY <1>5, <1>6, <1>7
  <2>2. Item(1)[2] = 1 => Expected' = <<Done', 2>>
    BY <1>7, <1>10 DEF Expected
  <2>3. Item(1)[2] = 2 => rsp'.state # "READ_STATUS_2" /\ Expected' = <<Done' + 1, FirstPart(Done' + 1)>>
    <3>1. \A n : FirstPart(n)' = FirstPart(n)
      BY <1>1 DEF FirstPart, Breaks
    <3> QED BY <1>7, <1>10, <3>1 DEF Expected, FirstPart, Breaks
  <2> QED BY <1>1, <1>2, <2>1, <2>2, <2>3, AccessShift
<1>16. BadShown'
  <2>1. ~statuses[1].okay => statuses[1].no <= Finished'
    <3>1. CASE statuses[1].okay
      BY <3>1, Zenon
    <3>2. CASE ~statuses[1].okay
      <4>1. rsp'.state = "READ_EV"
        BY <1>10, <3>2, Zenon
      <4> QED BY <1>4, <1>5, <1>7, <4>1 DEF Finished
    <3> QED BY <3>1, <3>2
  <2>2. Finished' \in Int /\ Finished \in Int /\ Finished' >= Finished
    BY <1>4, <1>6
  <2> QED BY <1>1, <1>2, <2>1, <2>2, BadShift
<1> QED BY <1>11, <1>12, <1>13, <1>14, <1>15, <1>16 DEF Order

LEMMA OrderStatus2 ==
  ASSUME TInv, Order, Status2
  PROVE  Order'
<1>1. /\ rsp \in Waiting /\ rsp.state = "READ_STATUS_2" /\ rsp' = ReadEvent
      /\ rsp'.state = "READ_EV" /\ Takes(statuses, statuses')
      /\ UNCHANGED <<accepted, mem_cmd, writer, flags, data_ev, cache, jobs, bad>>
  BY Status2Step, Kinds
<1>2. /\ OAccepted /\ OWriter /\ OEvents /\ ORsp /\ OAccess /\ BadShown
  BY DEF Order
<1>4. /\ Done \in Nat /\ Issued \in Nat /\ Len(accepted) \in Nat /\ Len(statuses) > 0
      /\ Taken = Done /\ Finished = Done - 1
  BY <1>1, <1>2, Sizes, Positions DEF Takes, Taken, Finished
<1>5. Begun' = Begun /\ Done' = Done /\ Merged' = Merged
  BY <1>1 DEF Begun, Done, Merged
<1>6. Issued' = Issued /\ Taken' = Taken /\ Finished' = Done
  BY <1>1, <1>4, <1>5 DEF Issued, Taken, Finished
<1>7. Item(1) = <<Done, 2>> /\ statuses[1].no = Done
  <2>1. Item(1) = Expected /\ Item(1) = <<statuses[1].no, statuses[1].part>>
    BY <1>2, <1>4, StatusHead
  <2> QED BY <1>1, <2>1 DEF Expected
<1>8. OAccepted' /\ OWriter' /\ OEvents' /\ ORsp'
  BY <1>1, <1>2, <1>4, <1>5, <1>6 DEF OAccepted, OWriter, OEvents, ORsp, Breaks
<1>9. OAccess'
  <2>1. Issued' = Issued /\ Done' = Item(1)[1] /\ Item(1)[2] = 2
    BY <1>5, <1>6, <1>7
  <2>2. Expected' = <<Done' + 1, FirstPart(Done' + 1)>>
    <3>1. \A n : FirstPart(n)' = FirstPart(n)
      BY <1>1 DEF FirstPart, Breaks
    <3> QED BY <1>1, <3>1 DEF Expected, FirstPart, Breaks
  <2> QED BY <1>1, <1>2, <2>1, <2>2, AccessShift
<1>10. BadShown'
  BY <1>1, <1>2, <1>4, <1>6, <1>7, BadShift
<1> QED BY <1>8, <1>9, <1>10 DEF Order

LEMMA OrderInit == Init => Order
<1> SUFFICES ASSUME Init  PROVE Order
  OBVIOUS
<1>1. /\ Len(accepted) = 0 /\ Len(mem_cmd) = 0 /\ Len(flags) = 0 /\ Len(data_ev) = 0
      /\ Len(cache) = 0 /\ Len(statuses) = 0 /\ Len(jobs) = 0 /\ writer = Nothing /\ bad = {}
      /\ rsp.state = "READ_EV"
  BY DEF Init, ReadEvent
<1>2. Begun = 0 /\ Issued = 0 /\ Done = 0 /\ Merged = 0 /\ Taken = 0 /\ Finished = 0 /\ Accesses = 0
  BY <1>1 DEF Begun, Issued, Done, Merged, Taken, Finished, Accesses
<1>3. OAccepted /\ OWriter /\ OEvents /\ ORsp /\ OAccess /\ BadShown
  BY <1>1, <1>2 DEF OAccepted, OWriter, OEvents, ORsp, OAccess, BadShown
<1> QED BY <1>3 DEF Order

\* The order is kept until a deviation.
LEMMA OrderNext ==
  ASSUME TInv, Order, [Next]_vars, Healthy'
  PROVE  Order'
<1>1. ASSUME TableUpdate \/ TableAccess \/ Refuse \/ ReadData \/ SarWritten \/ EventTaken
      PROVE  Order'
  BY <1>1, OrderSame, TableUpdateStep, TableAccessStep, RefuseStep, ReadDataStep, SarWrittenStep,
     EventTakenStep
<1>2. ASSUME NEW s \in Sessions, Establish(s) \/ Close(s)  PROVE Order'
  BY <1>2, OrderSame, EstablishStep, CloseStep
<1>3. ASSUME NEW s \in Sessions, NEW n \in Lengths, ReadRequest(s, n) \/ Acked(s, n)  PROVE Order'
  BY <1>3, OrderSame, ReadRequestStep, AckedStep
<1>4. ASSUME UNCHANGED vars  PROVE Order'
  BY <1>4, OrderSame DEF vars, handler, memory, out, history
<1>5. ASSUME NEW okay \in BOOLEAN, Mover(okay)  PROVE Order'
  BY <1>5, OrderMover
<1> QED BY <1>1, <1>2, <1>3, <1>4, <1>5, OrderAccept, OrderWriterCmd, OrderWriterData, OrderMergeConn,
           OrderMergeData, OrderTakeTx, OrderPassFin, OrderStatus1, OrderStatus2
        DEF Next, DataHandler, Table, Writer, Merger, RspHandler, Inputs

\* A deviation stays.
LEMMA HealthyBefore ==
  ASSUME TInv, [Next]_vars, Healthy'
  PROVE  Healthy
<1>1. deviation' = deviation => Healthy
  BY DEF Healthy
<1>2. ASSUME NEW okay \in BOOLEAN, Mover(okay)  PROVE deviation' = deviation
  BY <1>2, MoverStep
<1>3. ASSUME NEW s \in Sessions, NEW n \in Lengths, ReadRequest(s, n) \/ Acked(s, n)
      PROVE  deviation' = deviation
  BY <1>3, ReadRequestStep, AckedStep
<1>4. ASSUME NEW s \in Sessions, Establish(s) \/ Close(s)  PROVE deviation' = deviation
  BY <1>4, EstablishStep, CloseStep
<1>5. ASSUME Status1  PROVE deviation' = deviation \/ Healthy
  BY <1>5, Status1Step, Zenon
<1>6. ASSUME Accept \/ MergeConn  PROVE Healthy
  BY <1>6, AcceptStep, MergeConnStep
<1>7. ASSUME TableUpdate \/ TableAccess \/ Refuse \/ ReadData \/ WriterCmd \/ MergeData
      PROVE  deviation' = deviation
  BY <1>7, TableUpdateStep, TableAccessStep, RefuseStep, ReadDataStep, WriterCmdStep, MergeDataStep
<1>10. ASSUME WriterData  PROVE deviation' = deviation \/ Healthy
  BY <1>10, WriterDataStep, Zenon
<1>8. ASSUME TakeTx \/ PassFin \/ Status2 \/ SarWritten \/ EventTaken
      PROVE  deviation' = deviation
  BY <1>8, TakeTxStep, PassFinStep, Status2Step, SarWrittenStep, EventTakenStep
<1>9. ASSUME UNCHANGED vars  PROVE deviation' = deviation
  BY <1>9 DEF vars
<1> QED BY <1>1, <1>2, <1>3, <1>4, <1>5, <1>6, <1>7, <1>8, <1>9, <1>10
        DEF Next, DataHandler, Table, Writer, Merger, RspHandler, Inputs

OrderInv == TInv /\ (Healthy => Order)

LEMMA OrderInvariant == Spec => []OrderInv
<1>1. Init => OrderInv
  BY TypeInit, OrderInit DEF OrderInv
<1>2. OrderInv /\ [Next]_vars => OrderInv'
  BY TypeNext, OrderNext, HealthyBefore DEF OrderInv
<1> QED BY <1>1, <1>2, PTL DEF Spec

LEMMA TypesSuffice == TInv => TxAppTypeOK
<1> SUFFICES ASSUME TInv  PROVE TxAppTypeOK
  OBVIOUS
<1>1. /\ tx_app_table \in [Sessions -> [ackd : Ptr, app_written_ideal : Ptr]]
      /\ sar \in [Sessions -> [ackd : Ptr, app_written : Ptr]]
      /\ conn \in [Sessions -> {"CLOSED", "ESTABLISHED", "FIN_WAIT_1"}]
      /\ Len(cache) <= CacheDepth /\ Len(jobs) <= 2
  BY DEF TInv, TTable, TSar, TMerge, TMemory, Entry
<1>2. fsm.state \in {"READ_REQUEST", "READ_META", "READ_DATA"}
  BY Kinds DEF TInv, TFsm
<1>3. rsp.state \in {"READ_EV", "READ_STATUS_1", "READ_STATUS_2"}
  BY Kinds DEF TInv, TRsp
<1>4. /\ Len(table_req) \in 0 .. Depth /\ Len(table_rsp) \in 0 .. Depth /\ Len(upd_req) \in 0 .. Depth
  BY DepthAssumption DEF TInv, TTable
<1>5. /\ Len(data_ev) \in 0 .. Depth /\ Len(conn_ev) \in 0 .. Depth /\ Len(mem_cmd) \in 0 .. Depth
      /\ Len(mem_data) \in 0 .. Depth
  BY DepthAssumption DEF TInv, TFsm, TMerge
<1>6. /\ Len(flags) \in 0 .. Depth /\ Len(statuses) \in 0 .. Depth /\ Len(sar_upd) \in 0 .. Depth
      /\ Len(set_event) \in 0 .. Depth
  BY DepthAssumption DEF TInv, TMemory, TRsp
<1> QED BY <1>1, <1>2, <1>3, <1>4, <1>5, <1>6 DEF TxAppTypeOK

\* The status read last of a write is the last one of it.
LEMMA NoneLeft ==
  ASSUME TInv, OAccepted, OAccess, BadShown, Len(statuses) > 0, statuses[1].okay,
         Item(1)[2] = 2, Item(1)[1] > Finished
  PROVE  Item(1)[1] \notin bad
<1> SUFFICES ASSUME Item(1)[1] \in bad  PROVE FALSE
  OBVIOUS
<1>1. PICK i \in 1 .. Len(statuses) : statuses[i].no = Item(1)[1] /\ ~statuses[i].okay
  BY DEF BadShown
<1>2. i # 1
  BY <1>1, Zenon
<1>3. /\ i \in 1 .. Accesses /\ 1 \in 1 .. Accesses /\ 1 < i /\ i <= Len(statuses)
  <2>1. Len(statuses) \in Nat /\ Accesses \in Nat /\ Len(statuses) <= Accesses
    BY Sizes DEF Accesses
  <2> QED BY <1>2, <2>1
<1>4. Item(i)[1] = Item(1)[1]
  BY <1>1, <1>3 DEF Item
<1>5. /\ Item(1)[1] \in Nat /\ (Item(i)[2] = 1 \/ Item(i)[2] = 2)
  BY <1>3, ItemTypes
<1>6. 2 * Item(1)[1] + Item(1)[2] < 2 * Item(i)[1] + Item(i)[2]
  BY <1>3 DEF OAccess
<1> QED BY <1>4, <1>5, <1>6

LEMMA EventStep ==
  ASSUME OrderInv, [Next]_vars, Healthy, Len(set_event') > Len(set_event),
         set_event'[Len(set_event')].type = "TX"
  PROVE  set_event'[Len(set_event')].no \notin bad
<1>1. TInv /\ Order /\ OAccepted /\ OAccess /\ BadShown /\ ORsp /\ Len(set_event) \in Nat
  BY Sizes DEF OrderInv, Order
<1>2. \A ev : Grows(set_event, set_event', ev) => set_event'[Len(set_event')] = ev
  BY DEF Grows
<1>3. set_event' = set_event => FALSE
  BY <1>1
<1>4. ASSUME PassFin  PROVE FALSE
  BY <1>1, <1>2, <1>4, PassFinStep, Kinds
<1>5. ASSUME Status1  PROVE set_event'[Len(set_event')].no \notin bad
  <2>1. /\ statuses[1].okay /\ ~flags[1] /\ Tells(rsp.ev) /\ rsp.state = "READ_STATUS_1"
        /\ Takes(statuses, statuses') /\ Takes(flags, flags')
    BY <1>1, <1>3, <1>5, Status1Step, Zenon
  <2>2. /\ Done \in Nat /\ Finished = Done /\ Len(statuses) > 0 /\ Len(flags) \in Nat /\ Len(flags) > 0
        /\ rsp.ev = accepted[Done + 1]
    BY <1>1, <2>1, Positions, Sizes DEF Takes, Finished, ORsp
  <2>3. Item(1) = <<Done + 1, FirstPart(Done + 1)>> /\ Done + 1 \in 1 .. Len(accepted)
    <3>1. Item(1) = Expected /\ Item(1)[1] \in Done .. Issued
      BY <1>1, <2>2, StatusHead
    <3>2. /\ 0 <= Finished /\ Done <= Issued /\ Issued <= Len(accepted) /\ Issued \in Nat
          /\ Len(accepted) \in Nat
      <4>1. Issued <= Begun /\ Begun <= Len(accepted) /\ Begun \in Nat /\ Issued \in Nat
            /\ Len(accepted) \in Nat /\ 0 <= Finished /\ Done <= Issued
        BY <1>1, Positions
      <4> QED BY <4>1
    <3>3. Expected = <<Done + 1, FirstPart(Done + 1)>>
      BY <2>1 DEF Expected
    <3>4. Done + 1 <= Issued
      <4>1. Item(1)[1] = Done + 1
        BY <3>1, <3>3
      <4> QED BY <3>1, <4>1, <2>2, <3>2
    <3>5. Done + 1 \in 1 .. Len(accepted)
      BY <2>2, <3>2, <3>4
    <3> QED BY <3>1, <3>3, <3>5
  <2>4. FirstPart(Done + 1) = 2
    <3>1. flags[1] = Breaks(accepted[Done + 1])
      BY <1>1, <2>2 DEF Order, OWriter
    <3> QED BY <2>1, <3>1, Zenon DEF FirstPart
  <2>5. Item(1)[1] \notin bad
    BY <1>1, <2>1, <2>2, <2>3, <2>4, NoneLeft
  <2>6. rsp.ev.no = Done + 1
    BY <1>1, <2>2, <2>3 DEF OAccepted
  <2>7. set_event'[Len(set_event')] = rsp.ev
    BY <1>2, <2>1 DEF Tells
  <2> QED BY <2>3, <2>5, <2>6, <2>7
<1>6. ASSUME Status2  PROVE set_event'[Len(set_event')].no \notin bad
  <2>1. /\ statuses[1].okay /\ Tells(rsp.ev) /\ rsp.state = "READ_STATUS_2"
        /\ Takes(statuses, statuses')
    BY <1>1, <1>3, <1>6, Status2Step, Zenon
  <2>2. /\ Done \in Nat /\ Finished = Done - 1 /\ Len(statuses) > 0 /\ Done \in 1 .. Len(accepted)
        /\ rsp.ev = accepted[Done]
    <3>1. /\ Done \in Nat /\ 0 <= Finished /\ Done <= Len(accepted) /\ Len(accepted) \in Nat
          /\ Len(statuses) \in Nat
      <4>1. Len(statuses) \in Nat
        BY <1>1, Sizes
      <4>2. /\ Done \in Nat /\ 0 <= Finished /\ Done <= Taken /\ Taken <= Merged
            /\ Merged <= Len(accepted) /\ Taken \in Nat /\ Merged \in Nat /\ Len(accepted) \in Nat
        BY <1>1, Positions
      <4> QED BY <4>1, <4>2
    <3>2. Finished = Done - 1 /\ Len(statuses) > 0 /\ rsp.ev = accepted[Done]
      BY <1>1, <2>1 DEF Takes, Finished, ORsp
    <3> QED BY <3>1, <3>2
  <2>3. Item(1) = <<Done, 2>>
    BY <1>1, <2>1, <2>2, StatusHead DEF Expected
  <2>4. Item(1)[1] \notin bad
    BY <1>1, <2>1, <2>2, <2>3, NoneLeft
  <2>5. rsp.ev.no = Done
    BY <1>1, <2>2 DEF OAccepted
  <2>6. set_event'[Len(set_event')] = rsp.ev
    BY <1>2, <2>1 DEF Tells
  <2> QED BY <2>3, <2>4, <2>5, <2>6
<1>7. ASSUME EventTaken  PROVE FALSE
  BY <1>1, <1>7, EventTakenStep DEF Takes
<1>8. ASSUME NEW okay \in BOOLEAN, Mover(okay)  PROVE FALSE
  BY <1>1, <1>3, <1>8, MoverStep
<1>9. ASSUME NEW s \in Sessions, NEW n \in Lengths, ReadRequest(s, n) \/ Acked(s, n)  PROVE FALSE
  BY <1>1, <1>3, <1>9, ReadRequestStep, AckedStep
<1>10. ASSUME NEW s \in Sessions, Establish(s) \/ Close(s)  PROVE FALSE
  BY <1>1, <1>3, <1>10, EstablishStep, CloseStep
<1>11. ASSUME TableUpdate \/ TableAccess \/ Refuse \/ Accept \/ ReadData \/ WriterCmd \/ WriterData
       PROVE  FALSE
  BY <1>1, <1>3, <1>11, TableUpdateStep, TableAccessStep, RefuseStep, AcceptStep, ReadDataStep,
     WriterCmdStep, WriterDataStep
<1>12. ASSUME MergeConn \/ MergeData \/ TakeTx \/ SarWritten  PROVE FALSE
  BY <1>1, <1>3, <1>12, MergeConnStep, MergeDataStep, TakeTxStep, SarWrittenStep
<1>13. ASSUME UNCHANGED vars  PROVE FALSE
  BY <1>3, <1>13 DEF vars, out
<1> QED BY <1>4, <1>5, <1>6, <1>7, <1>8, <1>9, <1>10, <1>11, <1>12, <1>13
        DEF Next, DataHandler, Table, Writer, Merger, RspHandler, Inputs

\* The event that is sent on is that of the write whose statuses were read, and all of them
\* said okay (TxAppRspHandler), although nothing but their order ties them together.
THEOREM EventsExactCorrect == Spec => EventsExact
<1>1. OrderInv /\ [Next]_vars =>
        (Healthy /\ set_event' # set_event /\ Len(set_event') > Len(set_event)
           => LET ev == set_event'[Len(set_event')] IN
              ev.type = "TX" => ev.no \notin bad)
  BY EventStep
<1>2. OrderInv => TxAppTypeOK
  BY TypesSuffice DEF OrderInv
<1> QED BY <1>1, <1>2, OrderInvariant, PTL DEF Spec, EventsExact, EventHasItsBytes

-----------------------------------------------------------------------------
(* The bytes.                                                                *)

\* What is known of the accepted writes.
LEMMA WriteFacts ==
  ASSUME TInv, OAccepted, BWrites
  PROVE  /\ Len(accepted) \in Nat
         /\ \A n \in 1 .. Len(accepted) :
              /\ accepted[n] \in WriteEv /\ accepted[n].id \in Sessions /\ accepted[n].at \in Nat
              /\ accepted[n].len \in Nat /\ accepted[n].len > 0 /\ accepted[n].no = n
              /\ End(accepted[n]) \in Nat /\ End(accepted[n]) = accepted[n].at + accepted[n].len
              /\ End(accepted[n]) > 0
              /\ accepted[n].addr = Pointer(accepted[n].at)
              /\ End(accepted[n]) <= reserved[accepted[n].id]
         /\ \A n, m \in 1 .. Len(accepted) :
              n < m /\ accepted[n].id = accepted[m].id => End(accepted[n]) <= accepted[m].at
         /\ \A s \in Sessions : /\ reserved[s] \in Nat /\ stored[s] \in Nat /\ published[s] \in Nat
                                /\ acked[s] \in Nat /\ closed_at[s] \in Nat
<1>1. Len(accepted) \in Nat /\ \A n \in 1 .. Len(accepted) : accepted[n] \in WriteEv
  <2>1. accepted \in Seq(WriteEv)
    BY DEF TInv, THistory
  <2> QED BY <2>1
<1>2. \A n \in 1 .. Len(accepted) :
        /\ accepted[n].id \in Sessions /\ accepted[n].at \in Nat
        /\ accepted[n].len \in Nat /\ accepted[n].len > 0
  BY <1>1, Kinds
<1>3. \A s \in Sessions : /\ reserved[s] \in Nat /\ stored[s] \in Nat /\ published[s] \in Nat
                          /\ acked[s] \in Nat /\ closed_at[s] \in Nat
  BY DEF TInv, THistory, Counts
<1>4. \A n \in 1 .. Len(accepted) :
        /\ End(accepted[n]) \in Nat /\ End(accepted[n]) = accepted[n].at + accepted[n].len
        /\ End(accepted[n]) > 0
  BY <1>2 DEF End
<1> QED BY <1>1, <1>2, <1>3, <1>4 DEF OAccepted, BWrites

\* While accesses wait, the handler has not finished their write.
LEMMA JobsPending ==
  ASSUME TInv, Order, Len(jobs) > 0
  PROVE  Issued \in 1 .. Len(accepted) /\ Finished < Issued
<1>1. OAccepted /\ OAccess
  BY DEF Order
<1>2. Accesses > 0 /\ Accesses \in Nat /\ 1 \in 1 .. Accesses
  <2>1. Len(statuses) \in Nat /\ Len(jobs) \in Nat
    BY Sizes
  <2> QED BY <2>1 DEF Accesses
<1>3. Item(1)[1] \in Done .. Issued /\ Item(1) = Expected
  BY <1>1, <1>2 DEF OAccess
<1>4. /\ Done \in Nat /\ Issued \in Nat /\ Finished \in Nat /\ Issued <= Len(accepted)
      /\ Len(accepted) \in Nat /\ Finished <= Done
  BY <1>1, Positions
<1>5. CASE rsp.state = "READ_STATUS_2"
  <2>1. Finished = Done - 1
    BY <1>5 DEF Finished
  <2> QED BY <1>3, <1>4, <1>5, <2>1
<1>6. CASE rsp.state # "READ_STATUS_2"
  <2>1. Item(1)[1] = Done + 1
    BY <1>3, <1>6 DEF Expected
  <2> QED BY <1>3, <1>4, <2>1
<1> QED BY <1>5, <1>6

\* What the handler has finished is stored.
LEMMA FinishedStored ==
  ASSUME TInv, Order, BStored, NEW n \in 1 .. Finished
  PROVE  End(accepted[n]) <= stored[accepted[n].id]
<1>0. jobs \in Seq(Job) /\ Len(jobs) \in Nat
  BY Sizes DEF TInv, TMemory
<1>1. Issued \in Nat /\ Finished \in Nat /\ Finished <= Issued
  <2>1. OAccepted
    BY DEF Order
  <2>2. Finished <= Done /\ Done <= Issued /\ Finished \in Nat /\ Done \in Nat /\ Issued \in Nat
    BY <2>1, Positions
  <2> QED BY <2>2
<1>2. n \in 1 .. Issued /\ (n < Issued \/ jobs = <<>>)
  <2>1. CASE Len(jobs) > 0
    BY <1>1, <2>1, JobsPending
  <2>2. CASE Len(jobs) = 0
    BY <1>0, <1>1, <2>2, In
  <2> QED BY <1>0, <2>1, <2>2
<1> QED BY <1>2 DEF BStored

\* The steps that touch nothing of it.
LEMMA BytesSame ==
  ASSUME Bytes, UNCHANGED <<accepted, reserved, stored, published, statuses, jobs, sar_upd>>,
         Issued' = Issued, Finished' = Finished
  PROVE  Bytes'
<1>1. BWrites'
  BY DEF Bytes, BWrites, End, Pointer, Low
<1>2. BStored'
  BY DEF Bytes, BStored, End
<1>3. BTold'
  BY DEF Bytes, BTold, End, Pointer, Low, Waits
<1>4. BOkay'
  BY Zenon DEF Bytes, BOkay
<1> QED BY <1>1, <1>2, <1>3, <1>4 DEF Bytes

\* A new write lies behind the last one of its session.
LEMMA BytesAccept ==
  ASSUME TInv, Order, Bytes, RCounts, RAnswer, Accept
  PROVE  Bytes'
<1> DEFINE L == Len(accepted)
<1>0. PICK ev, s : ev = accepted'[L + 1] /\ s = fsm.id
  OBVIOUS
<1>1. /\ ev.id = s /\ ev.addr = table_rsp[1].app_written_ideal /\ ev.at = reserved[s]
      /\ ev.len = fsm.len /\ ev.no = L + 1 /\ ev \in WriteEv
      /\ Grows(accepted, accepted', ev) /\ Grows(mem_cmd, mem_cmd', ev)
      /\ reserved'[s] = reserved[s] + ev.len
      /\ \A t \in Sessions : t # s => reserved'[t] = reserved[t]
      /\ Takes(table_rsp, table_rsp')
      /\ UNCHANGED <<writer, flags, rsp, statuses, jobs, stored, published, sar_upd>>
  BY <1>0, AcceptStep DEF TxEvent
<1>2. OAccepted /\ BWrites /\ BStored /\ BTold /\ BOkay
  BY DEF Order, Bytes
<1>3. /\ L \in Nat /\ Len(mem_cmd) \in Nat /\ Issued \in Nat /\ Finished \in Nat /\ Issued <= L
      /\ Finished <= L
  <2>1. Len(mem_cmd) \in Nat
    BY Sizes
  <2>2. /\ L \in Nat /\ Issued \in Nat /\ Begun \in Nat /\ Finished \in Nat /\ Done \in Nat
        /\ Issued <= Begun /\ Begun <= L /\ Finished <= Done /\ Done <= Issued
    BY <1>2, Positions
  <2> QED BY <2>1, <2>2
<1>4. s \in Sessions /\ ev.len \in Nat /\ ev.len > 0 /\ ev.at \in Nat
      /\ reserved[s] \in Nat /\ stored[s] <= reserved[s] /\ published[s] <= reserved[s]
      /\ \A t \in Sessions : reserved[t] \in Nat /\ stored[t] \in Nat /\ published[t] \in Nat
  <2>1. ev.id \in Sessions /\ ev.len \in Nat /\ ev.len > 0 /\ ev.at \in Nat
    BY <1>1, Kinds
  <2>2. \A t \in Sessions : reserved[t] \in Nat /\ stored[t] \in Nat /\ published[t] \in Nat
    BY DEF TInv, THistory, Counts
  <2>3. published[s] <= stored[s] /\ stored[s] <= reserved[s]
    BY <1>1, <2>1 DEF RCounts
  <2> QED BY <1>1, <2>1, <2>2, <2>3
<1>4a. \A t \in Sessions : reserved'[t] \in Nat /\ reserved[t] <= reserved'[t]
  <2> SUFFICES ASSUME NEW t \in Sessions  PROVE reserved'[t] \in Nat /\ reserved[t] <= reserved'[t]
    OBVIOUS
  <2>1. CASE t = s
    BY <1>1, <1>4, <2>1
  <2>2. CASE t # s
    BY <1>1, <1>4, <2>2
  <2> QED BY <2>1, <2>2
<1>5. Issued' = Issued /\ Finished' = Finished
  BY <1>1, <1>3 DEF Issued, Finished, Begun, Done, Grows
<1>6. Len(accepted') = L + 1 /\ accepted'[L + 1] = ev /\ \A n \in 1 .. L : accepted'[n] = accepted[n]
  BY <1>1 DEF Grows
<1>7. ev.addr = Pointer(ev.at)
  <2>1. table_rsp # <<>>
    <3>1. table_rsp = <<>> => Len(table_rsp) = 0
      OBVIOUS
    <3> QED BY <1>1, <3>1 DEF Takes
  <2> QED BY <1>0, <1>1, <2>1 DEF RAnswer
<1>8. /\ \A n \in 1 .. L : accepted[n].id \in Sessions /\ End(accepted[n]) <= reserved[accepted[n].id]
         /\ End(accepted[n]) \in Nat
      /\ End(ev) = reserved'[s] /\ End(ev) \in Nat
  BY <1>1, <1>2, <1>4, WriteFacts DEF End
<1>9. BWrites'
  <2>1. ASSUME NEW i \in 1 .. L + 1
        PROVE  /\ accepted'[i].addr = Pointer(accepted'[i].at)
               /\ End(accepted'[i]) <= reserved'[accepted'[i].id]
    <3>1. CASE i = L + 1
      BY <1>1, <1>6, <1>7, <1>8, <3>1
    <3>2. CASE i \in 1 .. L
      <4>1. accepted'[i] = accepted[i] /\ accepted[i].addr = Pointer(accepted[i].at)
        BY <1>2, <1>6, <3>2 DEF BWrites
      <4>2. PICK t \in Sessions : t = accepted[i].id
        BY <1>8, <3>2
      <4>3. reserved[t] \in Nat /\ reserved'[t] \in Nat /\ reserved[t] <= reserved'[t]
        BY <1>4, <1>4a
      <4> QED BY <1>8, <3>2, <4>1, <4>2, <4>3
    <3> QED BY <1>3, <3>1, <3>2
  <2>2. ASSUME NEW i \in 1 .. L + 1, NEW j \in 1 .. L + 1, i < j, accepted'[i].id = accepted'[j].id
        PROVE  End(accepted'[i]) <= accepted'[j].at
    <3>1. CASE j = L + 1
      <4>1. i \in 1 .. L
        BY <1>3, <2>2, <3>1
      <4> QED BY <1>1, <1>6, <1>8, <2>2, <3>1, <4>1
    <3>2. CASE j \in 1 .. L
      <4>1. i \in 1 .. L
        BY <1>3, <2>2, <3>2
      <4> QED BY <1>2, <1>6, <2>2, <3>2, <4>1 DEF BWrites
    <3> QED BY <1>3, <3>1, <3>2
  <2>3. ASSUME NEW i \in 1 .. L + 1, accepted'[i].at # 0
        PROVE  \E j \in 1 .. i - 1 : accepted'[j].id = accepted'[i].id
                                     /\ End(accepted'[j]) = accepted'[i].at
    <3>1. CASE i = L + 1
      <4>1. PICK j \in 1 .. L : accepted[j].id = s /\ End(accepted[j]) = reserved[s]
        BY <1>1, <1>2, <1>4, <1>6, <2>3, <3>1 DEF BWrites
      <4>2. j \in 1 .. i - 1
        BY <1>3, <3>1
      <4> QED BY <1>1, <1>6, <3>1, <4>1, <4>2
    <3>2. CASE i \in 1 .. L
      <4>1. PICK j \in 1 .. i - 1 : accepted[j].id = accepted[i].id
                                    /\ End(accepted[j]) = accepted[i].at
        BY <1>2, <1>6, <2>3, <3>2 DEF BWrites
      <4>2. j \in 1 .. L
        BY <1>3, <3>2
      <4> QED BY <1>6, <3>2, <4>1, <4>2
    <3> QED BY <1>3, <3>1, <3>2
  <2>4. ASSUME NEW t \in Sessions, reserved'[t] # 0
        PROVE  \E i \in 1 .. L + 1 : accepted'[i].id = t /\ End(accepted'[i]) = reserved'[t]
    <3>1. CASE t = s
      <4>1. L + 1 \in 1 .. L + 1
        BY <1>3
      <4> QED BY <1>1, <1>6, <1>8, <3>1, <4>1
    <3>2. CASE t # s
      <4>1. PICK i \in 1 .. L : accepted[i].id = t /\ End(accepted[i]) = reserved[t]
        BY <1>1, <1>2, <2>4, <3>2 DEF BWrites
      <4>2. i \in 1 .. L + 1
        BY <1>3
      <4> QED BY <1>1, <1>6, <3>2, <4>1, <4>2
    <3> QED BY <3>1, <3>2
  <2> QED BY <1>6, <2>1, <2>2, <2>3, <2>4 DEF BWrites, End, Pointer, Low
<1>10. BStored'
  <2>1. ASSUME NEW n \in 1 .. Issued, n < Issued \/ jobs = <<>>
        PROVE  End(accepted'[n]) <= stored[accepted'[n].id]
    <3>1. n \in 1 .. L
      BY <1>3
    <3> QED BY <1>2, <1>6, <2>1, <3>1 DEF BStored
  <2>2. ASSUME NEW n \in Issued + 1 .. L + 1  PROVE stored[accepted'[n].id] <= accepted'[n].at
    <3>1. CASE n = L + 1
      BY <1>1, <1>4, <1>6, <3>1
    <3>2. CASE n \in Issued + 1 .. L
      <4>1. n \in 1 .. L
        BY <1>3, <3>2
      <4> QED BY <1>2, <1>6, <3>2, <4>1 DEF BStored
    <3> QED BY <1>3, <3>1, <3>2
  <2>3. Len(jobs) > 0 => accepted'[Issued] = accepted[Issued]
    <3>1. Len(jobs) > 0 => Issued \in 1 .. L
      BY JobsPending
    <3> QED BY <1>6, <3>1
  <2>4. \A i \in 1 .. Len(jobs) : Len(jobs) > 0
    BY Sizes
  <2>5. /\ \A i \in 1 .. Len(jobs) :
             /\ jobs[i].no = Issued /\ jobs[i].id = accepted'[Issued].id
             /\ jobs[i].part = IF i = Len(jobs) THEN 2 ELSE 1
        /\ Len(jobs) = 1 => stored[jobs[1].id] + jobs[1].len = End(accepted'[Issued])
        /\ Len(jobs) = 2 => /\ jobs[1].len + jobs[2].len = accepted'[Issued].len
                            /\ stored[jobs[1].id] = accepted'[Issued].at
    BY <1>2, <2>3, <2>4 DEF BStored
  <2> QED BY <1>1, <1>5, <1>6, <2>1, <2>2, <2>5 DEF BStored, End
<1>11. BTold'
  <2>1. ASSUME NEW i \in 1 .. Len(sar_upd)
        PROVE  /\ sar_upd[i].no \in 1 .. Finished /\ sar_upd[i].id = accepted'[sar_upd[i].no].id
               /\ sar_upd[i].app_written = Pointer(End(accepted'[sar_upd[i].no]))
               /\ \A j \in 1 .. Len(sar_upd) : i < j => sar_upd[i].no < sar_upd[j].no
    <3>1. sar_upd[i].no \in 1 .. Finished
      BY <1>2 DEF BTold
    <3>2. sar_upd[i].no \in 1 .. L
      BY <1>3, <3>1
    <3> QED BY <1>2, <1>6, <3>1, <3>2 DEF BTold
  <2>2. ASSUME NEW n \in 1 .. L + 1
        PROVE  IF Waits(n) THEN published[accepted'[n].id] <= accepted'[n].at
               ELSE End(accepted'[n]) <= published[accepted'[n].id]
    <3>1. CASE n = L + 1
      <4>1. Waits(n)
        BY <1>3, <3>1 DEF Waits
      <4> QED BY <1>1, <1>4, <1>6, <3>1, <4>1
    <3>2. CASE n \in 1 .. L
      BY <1>2, <1>6, <3>2 DEF BTold
    <3> QED BY <1>3, <3>1, <3>2
  <2>3. \A n : Waits(n)' <=> Waits(n)
    BY <1>1, <1>5 DEF Waits
  <2> QED BY <1>1, <1>5, <1>6, <2>1, <2>2, <2>3 DEF BTold, End, Pointer, Low
<1>12. BOkay'
  BY <1>1, <1>2, Zenon DEF BOkay
<1> QED BY <1>9, <1>10, <1>11, <1>12 DEF Bytes

LEMMA BytesWriterData ==
  ASSUME TInv, Order, Bytes, WriterData
  PROVE  Bytes'
<1>1. /\ writer \in WriteEv /\ jobs = <<>> /\ writer' = Nothing /\ writer # Nothing
      /\ Len(jobs') = IF Breaks(writer) THEN 2 ELSE 1
      /\ jobs'[Len(jobs')].id = writer.id /\ jobs'[Len(jobs')].no = writer.no
      /\ jobs'[Len(jobs')].part = 2
      /\ Breaks(writer) => /\ jobs'[1].id = writer.id /\ jobs'[1].no = writer.no /\ jobs'[1].part = 1
                           /\ jobs'[1].len + jobs'[2].len = writer.len
      /\ ~Breaks(writer) => jobs'[1].len = writer.len
      /\ UNCHANGED <<accepted, reserved, stored, published, statuses, sar_upd, flags, rsp, mem_cmd>>
  BY WriterDataStep, Kinds
<1>2. OAccepted /\ OWriter /\ BWrites /\ BStored /\ BTold /\ BOkay
  BY DEF Order, Bytes
<1>3. /\ Begun \in Nat /\ Issued \in Nat /\ Finished \in Nat /\ Begun = Issued + 1
      /\ Begun <= Len(accepted) /\ Len(accepted) \in Nat /\ writer = accepted[Begun]
  BY <1>1, <1>2, Positions DEF Issued, OWriter
<1>4. Begun' = Begun /\ Done' = Done
  BY <1>1 DEF Begun, Done
<1>5. Issued' = Begun /\ Finished' = Finished
  BY <1>1, <1>4 DEF Issued, Finished
<1>6. PICK w, t : w = accepted[Begun] /\ t = w.id
  OBVIOUS
<1>7. /\ Begun \in 1 .. Len(accepted) /\ t \in Sessions /\ w.at \in Nat /\ w.len \in Nat
      /\ End(w) = w.at + w.len /\ stored[t] \in Nat /\ w.no = Begun
  BY <1>2, <1>3, <1>6, WriteFacts
<1>8. stored[t] = w.at
  <2>1. stored[t] <= w.at
    BY <1>2, <1>3, <1>6, <1>7 DEF BStored
  <2>2. CASE w.at = 0
    BY <1>7, <2>1, <2>2
  <2>3. CASE w.at # 0
    <3>1. PICK j \in 1 .. Begun - 1 : accepted[j].id = t /\ End(accepted[j]) = w.at
      BY <1>2, <1>6, <1>7, <2>3 DEF BWrites
    <3>2. j \in 1 .. Issued
      BY <1>3
    <3>3. w.at <= stored[t]
      BY <1>1, <1>2, <3>1, <3>2 DEF BStored
    <3> QED BY <1>7, <2>1, <3>3
  <2> QED BY <2>2, <2>3
<1>9. BStored'
  <2>1. ASSUME NEW n \in 1 .. Begun, n < Begun \/ jobs' = <<>>
        PROVE  End(accepted[n]) <= stored[accepted[n].id]
    <3>1. jobs' # <<>>
      <4>1. \A q : q = <<>> => Len(q) = 0
        OBVIOUS
      <4> QED BY <1>1, <4>1
    <3>2. n \in 1 .. Issued
      BY <1>3, <2>1, <3>1
    <3> QED BY <1>1, <1>2, <3>2 DEF BStored
  <2>2. ASSUME NEW n \in Begun + 1 .. Len(accepted)  PROVE stored[accepted[n].id] <= accepted[n].at
    <3>1. n \in Issued + 1 .. Len(accepted)
      BY <1>3
    <3> QED BY <1>2, <3>1 DEF BStored
  <2>3. CASE Breaks(writer)
    <3>1. Len(jobs') = 2 /\ \A i \in 1 .. 2 : i = 1 \/ i = 2
      BY <1>1, <2>3
    <3>2. /\ jobs'[1].id = t /\ jobs'[1].no = Begun /\ jobs'[1].part = 1
          /\ jobs'[2].id = t /\ jobs'[2].no = Begun /\ jobs'[2].part = 2
          /\ jobs'[1].len + jobs'[2].len = w.len
      BY <1>1, <1>3, <1>6, <1>7, <2>3, <3>1
    <3> QED BY <1>1, <1>5, <1>6, <1>8, <2>1, <2>2, <3>1, <3>2 DEF BStored, End
  <2>4. CASE ~Breaks(writer)
    <3>1. Len(jobs') = 1 /\ \A i \in 1 .. 1 : i = 1
      BY <1>1, <2>4
    <3>2. /\ jobs'[1].id = t /\ jobs'[1].no = Begun /\ jobs'[1].part = 2 /\ jobs'[1].len = w.len
      BY <1>1, <1>3, <1>6, <1>7, <2>4, <3>1
    <3>3. stored[jobs'[1].id] + jobs'[1].len = End(w)
      BY <1>7, <1>8, <3>2
    <3> QED BY <1>1, <1>5, <1>6, <2>1, <2>2, <3>1, <3>2, <3>3 DEF BStored, End
  <2> QED BY <2>3, <2>4
<1>10. BWrites'
  BY <1>1, <1>2 DEF BWrites, End, Pointer, Low
<1>11. BTold'
  BY <1>1, <1>2, <1>5 DEF BTold, End, Pointer, Low, Waits
<1>12. BOkay'
  BY <1>1, <1>2, Zenon DEF BOkay
<1> QED BY <1>9, <1>10, <1>11, <1>12 DEF Bytes

\* The data mover stores the next bytes of the session.
LEMMA BytesMover ==
  ASSUME TInv, Order, Bytes, Mover(TRUE)
  PROVE  /\ Bytes'
         /\ stored'[jobs[1].id] <= reserved[jobs[1].id] /\ jobs[1].id \in Sessions
         /\ stored'[jobs[1].id] = stored[jobs[1].id] + jobs[1].len
         /\ reserved[jobs[1].id] > 0 /\ jobs[1].len \in Nat
<1>1. /\ jobs[1] \in Job /\ Takes(jobs, jobs') /\ bad' = bad
      /\ Len(statuses') = Len(statuses) + 1
      /\ \A i \in 1 .. Len(statuses) : statuses'[i] = statuses[i]
      /\ statuses'[Len(statuses) + 1].okay
      /\ stored'[jobs[1].id] = stored[jobs[1].id] + jobs[1].len
      /\ \A s \in Sessions : s # jobs[1].id => stored'[s] = stored[s]
      /\ UNCHANGED <<accepted, reserved, published, sar_upd, flags, rsp, mem_cmd, writer>>
  <2>1. TRUE \in BOOLEAN
    OBVIOUS
  <2> QED BY <2>1, MoverStep, Zenon
<1>2. OAccepted /\ BWrites /\ BStored /\ BTold /\ BOkay
  BY DEF Order, Bytes
<1>3. Begun' = Begun /\ Done' = Done
  BY <1>1 DEF Begun, Done
<1>4. Issued' = Issued /\ Finished' = Finished
  BY <1>1, <1>3 DEF Issued, Finished
<1>5. /\ Len(jobs) \in Nat /\ Len(jobs) > 0 /\ Len(jobs) <= 2 /\ Len(jobs') = Len(jobs) - 1
      /\ Issued \in 1 .. Len(accepted) /\ Len(accepted) \in Nat /\ jobs' \in Seq(Job)
  <2>1. TInv'
    BY MoverStep
  <2> QED BY <1>1, <2>1, Sizes, JobsPending DEF Takes, TInv, TMemory
<1>5a. (Len(jobs') = 1 => Len(jobs) = 2) /\ Len(jobs') # 2
  <2>1. PICK J \in Nat : J = Len(jobs)
    BY <1>5
  <2>2. J <= 2 /\ Len(jobs') = J - 1
    BY <1>5, <2>1
  <2> QED BY <2>1, <2>2
<1>6. PICK w, t : w = accepted[Issued] /\ t = jobs[1].id
  OBVIOUS
<1>7. /\ jobs[1].id = w.id /\ t = w.id /\ t \in Sessions /\ jobs[1].len \in Nat /\ stored[t] \in Nat
      /\ w.at \in Nat /\ w.len \in Nat /\ End(w) = w.at + w.len /\ End(w) <= reserved[t]
      /\ reserved[t] \in Nat /\ End(w) > 0
  <2>1. jobs[1].len \in Nat
    BY <1>1 DEF Job
  <2>2. jobs[1].id = w.id
    BY <1>2, <1>5, <1>6 DEF BStored
  <2> QED BY <1>2, <1>5, <1>6, <2>1, <2>2, WriteFacts
<1>8. \/ Len(jobs) = 1 /\ stored'[t] = End(w)
      \/ /\ Len(jobs) = 2 /\ stored'[t] <= End(w) /\ jobs'[1] = jobs[2]
         /\ stored'[t] + jobs'[1].len = End(w)
  <2>1. CASE Len(jobs) = 1
    BY <1>1, <1>2, <1>6, <2>1 DEF BStored
  <2>2. CASE Len(jobs) = 2
    <3>1. jobs'[1] = jobs[2]
      BY <1>1, <1>5, <2>2 DEF Takes
    <3>2. jobs[2].len \in Nat
      <4>0. jobs \in Seq(Job) /\ 2 \in 1 .. Len(jobs)
        BY <2>2 DEF TInv, TMemory
      <4>1. jobs[2] \in Job
        BY <4>0, In
      <4> QED BY <4>1 DEF Job
    <3>3. jobs[1].len + jobs[2].len = w.len /\ stored[t] = w.at
      BY <1>2, <1>6, <2>2 DEF BStored
    <3>4. stored'[t] = w.at + jobs[1].len
      BY <1>1, <1>6, <3>3
    <3> QED BY <1>7, <2>2, <3>1, <3>2, <3>3, <3>4
  <2> QED BY <1>5, <2>1, <2>2
<1>9. stored'[t] <= End(w) /\ stored'[t] \in Nat /\ stored[t] <= stored'[t]
  BY <1>1, <1>6, <1>7, <1>8
<1>10. BStored'
  <2>1. ASSUME NEW n \in 1 .. Issued, n < Issued \/ jobs' = <<>>
        PROVE  End(accepted[n]) <= stored'[accepted[n].id]
    <3>0. n \in 1 .. Len(accepted)
      BY <1>5
    <3>1. CASE n < Issued
      <4>1. End(accepted[n]) <= stored[accepted[n].id] /\ accepted[n].id \in Sessions
            /\ End(accepted[n]) \in Nat
        BY <1>2, <3>0, <3>1, WriteFacts DEF BStored
      <4>2. CASE accepted[n].id = t
        BY <1>7, <1>9, <4>1, <4>2
      <4>3. CASE accepted[n].id # t
        BY <1>1, <1>6, <4>1, <4>3
      <4> QED BY <4>2, <4>3
    <3>2. CASE n = Issued
      <4>1. jobs' = <<>> /\ Len(jobs) = 1
        BY <1>5, <2>1, <3>2
      <4> QED BY <1>6, <1>7, <1>8, <1>9, <3>2, <4>1
    <3> QED BY <1>5, <3>1, <3>2
  <2>2. ASSUME NEW n \in Issued + 1 .. Len(accepted)  PROVE stored'[accepted[n].id] <= accepted[n].at
    <3>0. n \in 1 .. Len(accepted) /\ Issued < n /\ accepted[n].id \in Sessions /\ accepted[n].at \in Nat
      <4>1. n \in 1 .. Len(accepted) /\ Issued < n
        BY <1>5
      <4> QED BY <1>2, <4>1, WriteFacts
    <3>1. CASE accepted[n].id = t
      <4>1. End(w) <= accepted[n].at
        BY <1>2, <1>5, <1>6, <1>7, <3>0, <3>1 DEF BWrites
      <4> QED BY <1>7, <1>9, <3>0, <3>1, <4>1
    <3>2. CASE accepted[n].id # t
      BY <1>1, <1>2, <1>6, <3>0, <3>2 DEF BStored
    <3> QED BY <3>1, <3>2
  <2>3. ASSUME NEW i \in 1 .. Len(jobs')
        PROVE  /\ jobs'[i].no = Issued /\ jobs'[i].id = w.id
               /\ jobs'[i].part = IF i = Len(jobs') THEN 2 ELSE 1
    <3>1. Len(jobs) = 2 /\ i = 1 /\ Len(jobs') = 1 /\ jobs'[1] = jobs[2]
      BY <1>5, <1>8
    <3>2. /\ jobs[2].no = Issued /\ jobs[2].id = w.id /\ jobs[2].part = 2
      BY <1>2, <1>6, <3>1 DEF BStored
    <3> QED BY <3>1, <3>2
  <2>4. Len(jobs') = 1 => stored'[jobs'[1].id] + jobs'[1].len = End(w)
    <3> SUFFICES ASSUME Len(jobs') = 1  PROVE stored'[jobs'[1].id] + jobs'[1].len = End(w)
      OBVIOUS
    <3>0. Len(jobs) = 2
      BY <1>5a
    <3>1. Len(jobs) = 2 /\ stored'[t] + jobs'[1].len = End(w)
      BY <1>8, <3>0
    <3>2. jobs'[1].id = t
      BY <1>7, <2>3
    <3> QED BY <3>1, <3>2
  <2>5. Len(jobs') # 2
    BY <1>5a
  <2> QED BY <1>1, <1>4, <1>6, <2>1, <2>2, <2>3, <2>4, <2>5 DEF BStored, End
<1>11. BWrites'
  BY <1>1, <1>2 DEF BWrites, End, Pointer, Low
<1>12. BTold'
  BY <1>1, <1>2, <1>4 DEF BTold, End, Pointer, Low, Waits
<1>13. BOkay'
  <2>1. Len(statuses) \in Nat
    BY Sizes
  <2> SUFFICES ASSUME NEW i \in 1 .. Len(statuses')  PROVE statuses'[i].okay
    BY DEF BOkay
  <2>2. i \in 1 .. Len(statuses) \/ i = Len(statuses) + 1
    BY <1>1, <2>1
  <2> QED BY <1>1, <1>2, <2>2, Zenon DEF BOkay
<1> QED BY <1>1, <1>6, <1>7, <1>9, <1>10, <1>11, <1>12, <1>13 DEF Bytes

\* The next write is finished: its update is the last one under way.
LEMMA BytesTell ==
  ASSUME TInv, Order, Bytes, Finished' = Finished + 1, Issued' = Issued,
         Finished + 1 \in 1 .. Len(accepted), Tells(accepted[Finished + 1]),
         UNCHANGED <<accepted, reserved, stored, published, jobs>>, BOkay'
  PROVE  Bytes'
<1>1. OAccepted /\ BWrites /\ BStored /\ BTold
  BY DEF Order, Bytes
<1>2. PICK F, w : F = Finished /\ w = accepted[F + 1]
  OBVIOUS
<1>3. F \in Nat /\ F + 1 \in 1 .. Len(accepted) /\ Len(accepted) \in Nat /\ Finished' = F + 1
  BY <1>1, <1>2, Positions
<1>4. PICK u : u = [id |-> w.id, app_written |-> NextPtr(w.addr, w.len), no |-> w.no]
  OBVIOUS
<1>5. PICK U \in Nat : U = Len(sar_upd)
  BY Sizes
<1>6. /\ Len(sar_upd') = U + 1 /\ sar_upd'[U + 1] = u
      /\ \A i \in 1 .. U : sar_upd'[i] = sar_upd[i]
  BY <1>2, <1>4, <1>5 DEF Tells, Grows
<1>7. u.id = w.id /\ u.no = F + 1 /\ u.app_written = Pointer(End(w))
  <2>1. w.no = F + 1 /\ w.addr = Pointer(w.at) /\ w.at \in Nat /\ w.len \in Nat /\ End(w) = w.at + w.len
    BY <1>1, <1>2, <1>3, WriteFacts
  <2>2. NextPtr(Pointer(w.at), w.len) = Pointer(w.at + w.len)
    BY <2>1, PointerFacts
  <2> QED BY <1>4, <2>1, <2>2
<1>8. \A i \in 1 .. U : sar_upd[i].no \in 1 .. F
  BY <1>1, <1>2, <1>5 DEF BTold
<1>9. \A n \in Nat : Waits(n)' <=> Waits(n)
  <2> SUFFICES ASSUME NEW n \in Nat  PROVE Waits(n)' <=> Waits(n)
    OBVIOUS
  <2>1. Waits(n) <=> n > F \/ \E i \in 1 .. U : sar_upd[i].no = n
    BY <1>2, <1>5 DEF Waits
  <2>2. Waits(n)' <=> n > F + 1 \/ \E i \in 1 .. U + 1 : sar_upd'[i].no = n
    BY <1>3, <1>6 DEF Waits
  <2>3. (\E i \in 1 .. U + 1 : sar_upd'[i].no = n)
          <=> n = F + 1 \/ \E i \in 1 .. U : sar_upd[i].no = n
    <3>1. \A i \in 1 .. U + 1 : i \in 1 .. U \/ i = U + 1
      BY <1>5
    <3>2. U + 1 \in 1 .. U + 1 /\ \A i \in 1 .. U : i \in 1 .. U + 1
      BY <1>5
    <3> QED BY <1>6, <1>7, <3>1, <3>2
  <2>4. n > F <=> n > F + 1 \/ n = F + 1
    BY <1>3
  <2> QED BY <2>1, <2>2, <2>3, <2>4
<1>10. BTold'
  <2>1. ASSUME NEW i \in 1 .. U + 1
        PROVE  /\ sar_upd'[i].no \in 1 .. F + 1 /\ sar_upd'[i].id = accepted[sar_upd'[i].no].id
               /\ sar_upd'[i].app_written = Pointer(End(accepted[sar_upd'[i].no]))
    <3>1. CASE i = U + 1
      BY <1>2, <1>3, <1>6, <1>7, <3>1
    <3>2. CASE i \in 1 .. U
      <4>1. sar_upd[i].no \in 1 .. F + 1
        BY <1>3, <1>8, <3>2
      <4> QED BY <1>1, <1>5, <1>6, <3>2, <4>1 DEF BTold
    <3> QED BY <1>5, <3>1, <3>2
  <2>2. ASSUME NEW i \in 1 .. U + 1, NEW j \in 1 .. U + 1, i < j
        PROVE  sar_upd'[i].no < sar_upd'[j].no
    <3>1. i \in 1 .. U
      BY <1>5, <2>2
    <3>2. CASE j = U + 1
      <4>1. sar_upd[i].no < F + 1
        BY <1>3, <1>8, <3>1
      <4> QED BY <1>6, <1>7, <3>1, <3>2, <4>1
    <3>3. CASE j \in 1 .. U
      BY <1>1, <1>5, <1>6, <2>2, <3>1, <3>3 DEF BTold
    <3> QED BY <1>5, <3>2, <3>3
  <2>3. ASSUME NEW n \in 1 .. Len(accepted)
        PROVE  IF Waits(n)' THEN published[accepted[n].id] <= accepted[n].at
               ELSE End(accepted[n]) <= published[accepted[n].id]
    BY <1>1, <1>3, <1>9 DEF BTold
  <2> QED BY <1>3, <1>6, <2>1, <2>2, <2>3 DEF BTold, End, Pointer, Low
<1>11. BWrites'
  BY <1>1 DEF BWrites, End, Pointer, Low
<1>12. BStored'
  BY <1>1 DEF BStored, End
<1> QED BY <1>10, <1>11, <1>12 DEF Bytes

\* A status leaves, of those that are all okay.
LEMMA OkayShift ==
  ASSUME BOkay, Takes(statuses, statuses'), Len(statuses) \in Nat
  PROVE  BOkay' /\ statuses[1].okay
<1>1. Len(statuses) > 0 /\ Len(statuses') = Len(statuses) - 1
      /\ \A i \in 1 .. Len(statuses') : statuses'[i] = statuses[i + 1]
  BY DEF Takes
<1>2. 1 \in 1 .. Len(statuses)
  BY <1>1
<1>3. ASSUME NEW i \in 1 .. Len(statuses')  PROVE statuses'[i].okay
  <2>1. i + 1 \in 1 .. Len(statuses)
    BY <1>1
  <2>2. PICK k \in 1 .. Len(statuses) : k = i + 1
    BY <2>1
  <2>3. statuses'[i] = statuses[k]
    BY <1>1, <2>2
  <2> QED BY <2>3, Zenon DEF BOkay
<1> QED BY <1>2, <1>3, Zenon DEF BOkay

LEMMA BytesStatus1 ==
  ASSUME TInv, Order, Bytes, Status1
  PROVE  Bytes'
<1>1. /\ OAccepted /\ ORsp /\ OWriter /\ OAccess /\ BOkay
      /\ UNCHANGED <<accepted, reserved, stored, published, jobs, mem_cmd, writer>>
      /\ Takes(flags, flags') /\ Takes(statuses, statuses') /\ rsp.state = "READ_STATUS_1"
  BY Status1Step DEF Order, Bytes
<1>2. /\ Len(flags) \in Nat /\ Len(flags) > 0 /\ Done \in Nat /\ Issued \in Nat /\ Begun \in Nat
      /\ Finished = Done /\ Len(statuses) \in Nat /\ Len(statuses) > 0 /\ Len(accepted) \in Nat
      /\ Taken = Done + 1 /\ Taken <= Len(accepted)
  <2>1. /\ Done \in Nat /\ Issued \in Nat /\ Begun \in Nat /\ Len(accepted) \in Nat
        /\ Taken <= Merged /\ Merged <= Len(accepted) /\ Merged \in Nat /\ Taken \in Nat
    BY <1>1, Positions
  <2>2. Len(flags) \in Nat /\ Len(statuses) \in Nat /\ Len(flags) > 0 /\ Len(statuses) > 0
    BY <1>1, Sizes DEF Takes
  <2>3. Finished = Done /\ Taken = Done + 1
    BY <1>1 DEF Finished, Taken
  <2> QED BY <2>1, <2>2, <2>3
<1>3. Begun' = Begun /\ Done' = Done + 1
  BY <1>1, <1>2 DEF Begun, Done, Takes
<1>4. Issued' = Issued
  BY <1>1, <1>3 DEF Issued
<1>5. BOkay' /\ statuses[1].okay
  BY <1>1, <1>2, OkayShift
<1>6. \/ flags[1] /\ rsp'.state = "READ_STATUS_2" /\ sar_upd' = sar_upd
      \/ ~flags[1] /\ rsp' = ReadEvent /\ Tells(rsp.ev)
  BY <1>5, Status1Step, Zenon
<1>7. CASE rsp'.state = "READ_STATUS_2" /\ sar_upd' = sar_upd
  <2>1. Finished' = Finished
    BY <1>2, <1>3, <1>7 DEF Finished
  <2>2. BWrites'
    BY <1>1 DEF Bytes, BWrites, End, Pointer, Low
  <2>3. BStored'
    BY <1>1, <1>4 DEF Bytes, BStored, End
  <2>4. BTold'
    BY <1>1, <1>7, <2>1 DEF Bytes, BTold, End, Pointer, Low, Waits
  <2> QED BY <1>5, <2>2, <2>3, <2>4 DEF Bytes
<1>8. CASE rsp' = ReadEvent /\ Tells(rsp.ev)
  <2>1. rsp'.state = "READ_EV"
    BY <1>8, Kinds
  <2>2. Finished' = Finished + 1
    BY <1>2, <1>3, <2>1 DEF Finished
  <2>3. rsp.ev = accepted[Finished + 1] /\ Finished + 1 \in 1 .. Len(accepted)
    BY <1>1, <1>2 DEF ORsp
  <2> QED BY <1>1, <1>4, <1>5, <1>8, <2>2, <2>3, BytesTell
<1> QED BY <1>6, <1>7, <1>8, Zenon

LEMMA BytesStatus2 ==
  ASSUME TInv, Order, Bytes, Status2
  PROVE  Bytes'
<1>1. /\ OAccepted /\ ORsp /\ BOkay
      /\ UNCHANGED <<accepted, reserved, stored, published, jobs, mem_cmd, writer, flags>>
      /\ Takes(statuses, statuses') /\ rsp.state = "READ_STATUS_2" /\ rsp' = ReadEvent
      /\ rsp'.state = "READ_EV"
  BY Status2Step, Kinds DEF Order, Bytes
<1>2. /\ Done \in Nat /\ Finished \in Nat /\ Finished = Done - 1 /\ Done <= Len(accepted)
      /\ Len(accepted) \in Nat /\ Len(statuses) \in Nat
  <2>1. /\ Done \in Nat /\ Issued \in Nat /\ Begun \in Nat /\ Len(accepted) \in Nat /\ Done <= Issued
        /\ Issued <= Begun /\ Begun <= Len(accepted) /\ Finished \in Nat
    BY <1>1, Positions
  <2>2. Finished = Done - 1
    BY <1>1 DEF Finished
  <2> QED BY <2>1, <2>2, Sizes
<1>3. Begun' = Begun /\ Done' = Done
  BY <1>1 DEF Begun, Done
<1>4. Issued' = Issued /\ Finished' = Finished + 1
  BY <1>1, <1>2, <1>3 DEF Issued, Finished
<1>5. BOkay' /\ statuses[1].okay
  BY <1>1, <1>2, OkayShift
<1>6. Tells(rsp.ev)
  BY <1>5, Status2Step, Zenon
<1>7. rsp.ev = accepted[Finished + 1] /\ Finished + 1 \in 1 .. Len(accepted)
  <2>1. Finished + 1 = Done
    BY <1>2
  <2> QED BY <1>1, <1>2, <2>1 DEF ORsp
<1> QED BY <1>1, <1>4, <1>5, <1>6, <1>7, BytesTell

\* tx_sar_table takes the update of the first write under way: the bytes up to the end of it,
\* which are stored.
LEMMA BytesSarWritten ==
  ASSUME TInv, Order, Bytes, RClosed, RCounts, SarWritten
  PROVE  /\ Bytes' /\ sar_upd[1].id \in Sessions /\ conn[sar_upd[1].id] # "CLOSED"
         /\ published[sar_upd[1].id] < published'[sar_upd[1].id]
         /\ published'[sar_upd[1].id] <= stored[sar_upd[1].id]
         /\ published'[sar_upd[1].id] \in Nat
         /\ sar_upd[1].app_written = Pointer(published'[sar_upd[1].id])
<1>1. /\ OAccepted /\ BWrites /\ BStored /\ BTold /\ BOkay
      /\ Takes(sar_upd, sar_upd')
      /\ UNCHANGED <<accepted, reserved, stored, jobs, mem_cmd, writer, flags, rsp, statuses>>
  BY SarWrittenStep DEF Order, Bytes
<1>2. PICK s, n : s = sar_upd[1].id /\ n = sar_upd[1].no
  OBVIOUS
<1>3. PICK U \in Nat : U = Len(sar_upd)
  BY Sizes
<1>4. /\ U > 0 /\ Len(sar_upd') = U - 1 /\ 1 \in 1 .. U
      /\ \A i \in 1 .. U - 1 : sar_upd'[i] = sar_upd[i + 1]
  BY <1>1, <1>3 DEF Takes
<1>5. PICK F \in Nat : F = Finished
  BY <1>1, Positions
<1>6. /\ n \in 1 .. F /\ s = accepted[n].id /\ sar_upd[1].app_written = Pointer(End(accepted[n]))
      /\ \A i \in 1 .. U : i > 1 => sar_upd[i].no \in Nat /\ n < sar_upd[i].no
  <2>1. \A i \in 1 .. U : sar_upd[i].no \in 1 .. F
    BY <1>1, <1>3, <1>5 DEF BTold
  <2> QED BY <1>1, <1>2, <1>3, <1>4, <1>5, <2>1 DEF BTold
<1>7. PICK w : w = accepted[n]
  OBVIOUS
<1>8. Len(accepted) \in Nat /\ F <= Len(accepted) /\ n \in 1 .. Len(accepted)
  <2>1. Len(accepted) \in Nat /\ F <= Len(accepted)
    <3>1. /\ Finished <= Merged /\ Merged <= Len(accepted) /\ Len(accepted) \in Nat /\ Merged \in Nat
      BY <1>1, Positions
    <3> QED BY <1>5, <3>1
  <2> QED BY <1>6, <2>1
<1>9. /\ s \in Sessions /\ w.at \in Nat /\ w.len \in Nat /\ w.len > 0 /\ End(w) \in Nat
      /\ End(w) = w.at + w.len /\ End(w) > 0 /\ End(w) <= reserved[s]
      /\ reserved[s] \in Nat /\ stored[s] \in Nat /\ published[s] \in Nat /\ acked[s] \in Nat
  BY <1>1, <1>6, <1>7, <1>8, WriteFacts
<1>10. Waits(n)
  BY <1>2, <1>3, <1>4 DEF Waits
<1>11. published[s] <= w.at
  BY <1>1, <1>6, <1>7, <1>8, <1>10 DEF BTold
<1>12. End(w) <= stored[s]
  BY <1>1, <1>5, <1>6, <1>7, FinishedStored
<1>13. conn[s] # "CLOSED"
  BY <1>9 DEF RClosed
<1>14. published'[s] = End(w) /\ sar_upd[1].app_written = Pointer(End(w))
  <2>1. published'[s] = published[s] + Low(Pointer(End(w)) - Pointer(published[s]))
    <3>0. sar[s] = [ackd |-> Pointer(acked[s]), app_written |-> Pointer(published[s])]
      BY <1>9, <1>13, Zenon DEF RCounts
    <3>1. sar[s].app_written = Pointer(published[s])
      BY <3>0
    <3> QED BY <1>2, <1>6, <1>7, <3>1, SarWrittenStep
  <2>2. published[s] <= End(w) /\ End(w) - published[s] < BufMod
    <3>1. acked[s] <= published[s] /\ reserved[s] - acked[s] <= BufMod - 1
      BY <1>9 DEF RCounts
    <3> QED BY <1>9, <1>11, <3>1, Modulus
  <2>3. Low(Pointer(End(w)) - Pointer(published[s])) = End(w) - published[s]
    BY <1>9, <2>2, PointerFacts
  <2> QED BY <1>6, <1>7, <1>9, <2>1, <2>3
<1>15. \A t \in Sessions : t # s => published'[t] = published[t]
  BY <1>2, SarWrittenStep
<1>16. Begun' = Begun /\ Done' = Done
  BY <1>1 DEF Begun, Done
<1>17. Issued' = Issued /\ Finished' = F
  BY <1>1, <1>5, <1>16 DEF Issued, Finished
<1>18. \A k \in Nat : Waits(k)' <=> Waits(k) /\ k # n
  <2> SUFFICES ASSUME NEW k \in Nat  PROVE Waits(k)' <=> Waits(k) /\ k # n
    OBVIOUS
  <2>1. Waits(k) <=> k > F \/ \E i \in 1 .. U : sar_upd[i].no = k
    BY <1>3, <1>5 DEF Waits
  <2>2. Waits(k)' <=> k > F \/ \E i \in 1 .. U - 1 : sar_upd'[i].no = k
    BY <1>4, <1>17 DEF Waits
  <2>3. (\E i \in 1 .. U - 1 : sar_upd'[i].no = k) => k # n /\ \E i \in 1 .. U : sar_upd[i].no = k
    <3> SUFFICES ASSUME NEW i \in 1 .. U - 1, sar_upd'[i].no = k
                 PROVE k # n /\ \E j \in 1 .. U : sar_upd[j].no = k
      OBVIOUS
    <3>1. PICK j \in 1 .. U : j = i + 1
      OBVIOUS
    <3>2. sar_upd[j].no = k /\ j > 1
      BY <1>4, <3>1
    <3>3. n < k
      BY <1>6, <3>2
    <3> QED BY <1>6, <3>2, <3>3
  <2>4. k # n /\ (\E i \in 1 .. U : sar_upd[i].no = k) => \E i \in 1 .. U - 1 : sar_upd'[i].no = k
    <3> SUFFICES ASSUME k # n, NEW j \in 1 .. U, sar_upd[j].no = k
                 PROVE \E i \in 1 .. U - 1 : sar_upd'[i].no = k
      OBVIOUS
    <3>1. j # 1
      BY <1>2
    <3>2. PICK i \in 1 .. U - 1 : j = i + 1
      <4>1. j - 1 \in 1 .. U - 1 /\ j = j - 1 + 1
        BY <3>1
      <4> QED BY <4>1
    <3> QED BY <1>4, <3>2
  <2>5. k > F => k # n
    BY <1>6
  <2> QED BY <2>1, <2>2, <2>3, <2>4, <2>5
<1>19. BTold'
  <2>1. ASSUME NEW i \in 1 .. U - 1
        PROVE  /\ sar_upd'[i].no \in 1 .. F /\ sar_upd'[i].id = accepted[sar_upd'[i].no].id
               /\ sar_upd'[i].app_written = Pointer(End(accepted[sar_upd'[i].no]))
               /\ \A j \in 1 .. U - 1 : i < j => sar_upd'[i].no < sar_upd'[j].no
    <3>1. PICK k \in 1 .. U : k = i + 1
      OBVIOUS
    <3>2. sar_upd'[i] = sar_upd[k]
      BY <1>4, <3>1
    <3>3. ASSUME NEW j \in 1 .. U - 1, i < j  PROVE sar_upd'[i].no < sar_upd'[j].no
      <4>1. PICK l \in 1 .. U : l = j + 1
        OBVIOUS
      <4>2. sar_upd'[j] = sar_upd[l] /\ k < l
        BY <1>4, <3>1, <3>3, <4>1
      <4> QED BY <1>1, <1>3, <3>2, <4>2 DEF BTold
    <3> QED BY <1>1, <1>3, <1>5, <3>2, <3>3 DEF BTold
  <2>2. ASSUME NEW k \in 1 .. Len(accepted)
        PROVE  IF Waits(k)' THEN published'[accepted[k].id] <= accepted[k].at
               ELSE End(accepted[k]) <= published'[accepted[k].id]
    <3>1. PICK t \in Sessions : t = accepted[k].id
      BY <1>1, WriteFacts
    <3>2. /\ Waits(k) => published[t] <= accepted[k].at
          /\ ~Waits(k) => End(accepted[k]) <= published[t]
          /\ End(accepted[k]) \in Nat /\ k \in Nat
      <4>1. End(accepted[k]) \in Nat
        BY <1>1, WriteFacts
      <4> QED BY <1>1, <3>1, <4>1 DEF BTold
    <3>3. CASE t # s
      <4>1. k # n
        BY <1>6, <3>1, <3>3
      <4> QED BY <1>15, <1>18, <3>1, <3>2, <3>3, <4>1
    <3>4. CASE t = s /\ k = n
      BY <1>7, <1>14, <1>18, <3>1, <3>2, <3>4, <1>9
    <3>5. CASE t = s /\ k # n /\ Waits(k)
      <4>1. n < k
        <5>1. CASE k > F
          BY <1>6, <5>1
        <5>2. CASE ~(k > F)
          <6>1. PICK i \in 1 .. U : sar_upd[i].no = k
            BY <1>3, <1>5, <3>5, <5>2 DEF Waits
          <6>2. i # 1
            BY <1>2, <3>5, <6>1
          <6>3. i > 1
            BY <6>2
          <6> QED BY <1>6, <6>1, <6>3
        <5> QED BY <5>1, <5>2
      <4>2. End(w) <= accepted[k].at
        BY <1>1, <1>6, <1>7, <1>8, <3>1, <3>5, <4>1 DEF BWrites
      <4> QED BY <1>14, <1>18, <3>1, <3>2, <3>5, <4>2
    <3>6. CASE t = s /\ k # n /\ ~Waits(k)
      <4>1. published[s] <= End(w)
        BY <1>9, <1>11
      <4> QED BY <1>9, <1>14, <1>18, <3>1, <3>2, <3>6, <4>1
    <3> QED BY <3>3, <3>4, <3>5, <3>6
  <2> QED BY <1>1, <1>4, <1>17, <2>1, <2>2 DEF BTold, End, Pointer, Low
<1>20. BWrites'
  BY <1>1 DEF BWrites, End, Pointer, Low
<1>21. BStored'
  BY <1>1, <1>17 DEF BStored, End
<1>22. BOkay'
  BY <1>1, Zenon DEF BOkay
<1>23. published[s] < published'[s]
  BY <1>9, <1>11, <1>14
<1> QED BY <1>2, <1>9, <1>12, <1>13, <1>14, <1>19, <1>20, <1>21, <1>22, <1>23 DEF Bytes

\* The other steps.
LEMMA BytesOther ==
  ASSUME TInv, Order, Bytes, [Next]_vars
  PROVE  \/ Bytes' \/ Accept \/ WriterData \/ Mover(TRUE) \/ Mover(FALSE) \/ Status1 \/ Status2 \/ SarWritten
<1> DEFINE Same == UNCHANGED <<accepted, reserved, stored, published, statuses, jobs, sar_upd>>
<1>1. ASSUME Same, UNCHANGED <<mem_cmd, writer, flags, rsp>>  PROVE Bytes'
  <2>1. Begun' = Begun /\ Done' = Done
    BY <1>1 DEF Begun, Done
  <2>2. Issued' = Issued /\ Finished' = Finished
    BY <1>1, <2>1 DEF Issued, Finished
  <2> QED BY <1>1, <2>2, BytesSame
<1>2. ASSUME WriterCmd  PROVE Bytes'
  <2>1. Same /\ UNCHANGED <<rsp>> /\ Takes(mem_cmd, mem_cmd') /\ writer = Nothing /\ writer' # Nothing
        /\ Grows(flags, flags', Breaks(mem_cmd[1]))
    BY <1>2, WriterCmdStep, Kinds
  <2>2. /\ Len(accepted) \in Nat /\ Len(mem_cmd) \in Nat /\ Len(flags) \in Nat
    BY Sizes
  <2>3. Begun' = Begun + 1 /\ Done' = Done /\ Begun \in Int
    BY <2>1, <2>2 DEF Begun, Done, Takes, Grows
  <2>4. Issued' = Issued /\ Finished' = Finished
    BY <2>1, <2>3 DEF Issued, Finished
  <2> QED BY <2>1, <2>4, BytesSame
<1>3. ASSUME TakeTx  PROVE Bytes'
  <2>1. Same /\ UNCHANGED <<mem_cmd, writer, flags>> /\ rsp.state = "READ_EV" /\ rsp'.state = "READ_STATUS_1"
    BY <1>3, TakeTxStep, Kinds
  <2>2. Begun' = Begun /\ Done' = Done
    BY <2>1 DEF Begun, Done
  <2>3. Issued' = Issued /\ Finished' = Finished
    BY <2>1, <2>2 DEF Issued, Finished
  <2> QED BY <2>1, <2>3, BytesSame
<1>4. ASSUME TableUpdate \/ TableAccess \/ Refuse \/ ReadData \/ MergeConn \/ MergeData \/ PassFin \/ EventTaken
      PROVE  Bytes'
  BY <1>1, <1>4, TableUpdateStep, TableAccessStep, RefuseStep, ReadDataStep, MergeConnStep,
     MergeDataStep, PassFinStep, EventTakenStep
<1>5. ASSUME NEW s \in Sessions, Establish(s) \/ Close(s)  PROVE Bytes'
  BY <1>1, <1>5, EstablishStep, CloseStep
<1>6. ASSUME NEW s \in Sessions, NEW n \in Lengths, ReadRequest(s, n) \/ Acked(s, n)  PROVE Bytes'
  BY <1>1, <1>6, ReadRequestStep, AckedStep
<1>7. ASSUME UNCHANGED vars  PROVE Bytes'
  BY <1>1, <1>7 DEF vars, handler, memory, out, history
<1>8. ASSUME NEW okay \in BOOLEAN, Mover(okay)  PROVE Mover(TRUE) \/ Mover(FALSE)
  BY <1>8, Zenon
<1> QED BY <1>2, <1>3, <1>4, <1>5, <1>6, <1>7, <1>8, Zenon
        DEF Next, DataHandler, Table, Writer, Merger, RspHandler, Inputs

-----------------------------------------------------------------------------
(* The room.                                                                 *)

\* What waits at the table.
LEMMA Queues ==
  ASSUME TInv
  PROVE  /\ Len(upd_req) \in Nat /\ Len(table_req) \in Nat /\ Len(table_rsp) \in Nat
         /\ (Len(upd_req) = 0 <=> upd_req = <<>>) /\ (Len(table_req) = 0 <=> table_req = <<>>)
         /\ (Len(table_rsp) = 0 <=> table_rsp = <<>>)
         /\ \A i \in 1 .. Len(upd_req) : upd_req[i] \in Update /\ upd_req[i].id \in Sessions
         /\ \A i \in 1 .. Len(table_req) :
              /\ table_req[i] \in Reads \cup Writes /\ table_req[i].id \in Sessions
              /\ table_req[i].write => table_req[i] \in Writes
         /\ \A i \in 1 .. Len(table_rsp) : table_rsp[i] \in Entry
         /\ fsm.state = "READ_META" => fsm \in Asking /\ fsm.id \in Sessions /\ fsm.len \in Nat /\ fsm.len > 0
<1>1. upd_req \in Seq(Update) /\ table_req \in Seq(Reads \cup Writes) /\ table_rsp \in Seq(Entry)
  BY DEF TInv, TTable
<1>2. /\ Len(upd_req) \in Nat /\ (Len(upd_req) = 0 <=> upd_req = <<>>)
      /\ \A i \in 1 .. Len(upd_req) : upd_req[i] \in Update
  BY <1>1, In
<1>3. /\ Len(table_req) \in Nat /\ (Len(table_req) = 0 <=> table_req = <<>>)
      /\ \A i \in 1 .. Len(table_req) : table_req[i] \in Reads \cup Writes
  BY <1>1, In
<1>4. /\ Len(table_rsp) \in Nat /\ (Len(table_rsp) = 0 <=> table_rsp = <<>>)
      /\ \A i \in 1 .. Len(table_rsp) : table_rsp[i] \in Entry
  BY <1>1, In
<1>5. \A r \in Update : r.id \in Sessions
  BY DEF Update
<1>6. \A r \in Reads \cup Writes : r.id \in Sessions /\ (r.write => r \in Writes)
  <2> SUFFICES ASSUME NEW r \in Reads \cup Writes  PROVE r.id \in Sessions /\ (r.write => r \in Writes)
    OBVIOUS
  <2>1. CASE r \in Reads
    BY <2>1, Kinds, Zenon
  <2>2. CASE r \in Writes
    BY <2>2, Kinds, Zenon
  <2> QED BY <2>1, <2>2
<1>7. fsm.state = "READ_META" => fsm \in Asking
  BY Kinds DEF TInv, TFsm
<1>8. \A f \in Asking : f.id \in Sessions /\ f.len \in Nat /\ f.len > 0
  BY Modulus DEF Asking
<1> QED BY <1>2, <1>3, <1>4, <1>5, <1>6, <1>7, <1>8, Zenon

\* The steps that touch nothing of it.
LEMMA SpaceSame ==
  ASSUME Space, UNCHANGED <<tx_app_table, table_req, table_rsp, upd_req, fsm, sar, conn,
                            reserved, stored, published, acked, closed_at>>
  PROVE  Space'
<1>1. RClosed'
  BY DEF Space, RClosed
<1>2. RCounts'
  BY DEF Space, RCounts, Pointer, Low
<1>3. RRequest'
  BY DEF Space, RRequest
<1>4. RAckd'
  BY DEF Space, RAckd
<1>5. RInits'
  BY DEF Space, RInits, Inits, Asked, Writing, Pointer, Low
<1>6. RIdeal'
  BY DEF Space, RIdeal, Inits, Writing, Pointer, Low
<1>7. RAnswer'
  BY DEF Space, RAnswer, Pointer, Low
<1> QED BY <1>1, <1>2, <1>3, <1>4, <1>5, <1>6, <1>7 DEF Space

LEMMA SpaceTableUpdate ==
  ASSUME TInv, Space, TableUpdate
  PROVE  Space'
<1>1. PICK r, x : r = upd_req[1] /\ x = r.id
  OBVIOUS
<1>2. PICK U \in Nat : U = Len(upd_req)
  BY Queues
<1>3. /\ r \in Update /\ x \in Sessions /\ U > 0 /\ Len(upd_req') = U - 1 /\ 1 \in 1 .. U
      /\ \A i \in 1 .. U - 1 : upd_req'[i] = upd_req[i + 1]
  BY <1>1, <1>2, TableUpdateStep, Queues DEF Takes
<1>4. /\ RClosed /\ RCounts /\ RRequest /\ RAckd /\ RInits /\ RIdeal /\ RAnswer
      /\ UNCHANGED <<table_req, table_rsp, fsm, sar, conn, reserved, stored, published, acked, closed_at>>
  BY TableUpdateStep DEF Space
<1>5. /\ r.init => tx_app_table'[x].app_written_ideal = r.ackd
      /\ ~r.init => /\ tx_app_table'[x].ackd = r.ackd
                    /\ tx_app_table'[x].app_written_ideal = tx_app_table[x].app_written_ideal
      /\ \A s \in Sessions : s # x => tx_app_table'[s] = tx_app_table[s]
  <2>1. PICK b : b = r.init
    OBVIOUS
  <2>2. b \in BOOLEAN
    BY <1>3, <2>1 DEF Update
  <2>3. /\ tx_app_table'[x] = [ackd |-> IF b THEN Low(r.ackd - 1) ELSE r.ackd,
                               app_written_ideal |-> IF b THEN r.ackd
                                                     ELSE tx_app_table[x].app_written_ideal]
        /\ \A s \in Sessions : s # x => tx_app_table'[s] = tx_app_table[s]
    BY <1>1, <2>1, TableUpdateStep, Zenon
  <2>4. CASE b = TRUE
    <3>1. tx_app_table'[x].app_written_ideal = r.ackd
      BY <2>3, <2>4
    <3> QED BY <2>1, <2>3, <2>4, <3>1, Zenon
  <2>5. CASE b = FALSE
    <3>1. /\ tx_app_table'[x].ackd = r.ackd
          /\ tx_app_table'[x].app_written_ideal = tx_app_table[x].app_written_ideal
      BY <2>3, <2>5
    <3> QED BY <2>1, <2>3, <2>5, <3>1, Zenon
  <2> QED BY <2>2, <2>4, <2>5
\* The updates that remain are those before, but the first.
<1>6. ASSUME NEW i \in 1 .. U - 1
      PROVE  \E k \in 1 .. U : k = i + 1 /\ upd_req'[i] = upd_req[k]
  <2>1. PICK k \in 1 .. U : k = i + 1
    OBVIOUS
  <2> QED BY <1>3, <2>1
<1>7. ASSUME NEW k \in 1 .. U, k # 1
      PROVE  \E i \in 1 .. U - 1 : k = i + 1 /\ upd_req'[i] = upd_req[k]
  <2>1. k - 1 \in 1 .. U - 1 /\ k = k - 1 + 1
    BY <1>7
  <2>2. PICK i \in 1 .. U - 1 : i = k - 1
    BY <2>1
  <2> QED BY <1>3, <2>1, <2>2
<1>8. RClosed'
  <2>1. ASSUME NEW s \in Sessions, conn[s] = "CLOSED", NEW i \in 1 .. U - 1  PROVE upd_req'[i].id # s
    BY <1>2, <1>4, <1>6, <2>1 DEF RClosed
  <2> QED BY <1>3, <1>4, <2>1 DEF RClosed
<1>9. RCounts' /\ RRequest' /\ RAnswer'
  <2>1. RCounts'
    BY <1>4 DEF RCounts, Pointer, Low
  <2>2. RRequest'
    BY <1>4 DEF RRequest
  <2>3. RAnswer'
    BY <1>4 DEF RAnswer, Pointer, Low
  <2> QED BY <2>1, <2>2, <2>3
<1>10. RAckd'
  <2>1. ASSUME NEW s \in Sessions, conn[s] # "CLOSED", \A i \in 1 .. U - 1 : upd_req'[i].id # s
        PROVE  tx_app_table'[s].ackd = sar[s].ackd
    <3>1. \A k \in 1 .. U : k # 1 => upd_req[k].id # s
      BY <1>7, <2>1
    <3>2. CASE x = s
      <4>1. \A j \in 2 .. U : upd_req[j].id # s
        <5> SUFFICES ASSUME NEW j \in 2 .. U  PROVE upd_req[j].id # s
          OBVIOUS
        <5>1. j \in 1 .. U /\ j # 1
          OBVIOUS
        <5> QED BY <3>1, <5>1
      <4>2. r.ackd = sar[s].ackd /\ ~r.init
        <5>1. upd_req[1].id = s /\ \A j \in 1 + 1 .. Len(upd_req) : upd_req[j].id # s
          BY <1>1, <1>2, <3>2, <4>1
        <5>2. 1 \in 1 .. Len(upd_req)
          BY <1>2, <1>3
        <5> QED BY <1>1, <1>4, <2>1, <5>1, <5>2, Zenon DEF RAckd
      <4> QED BY <1>5, <3>2, <4>2, Zenon
    <3>3. CASE x # s
      <4>1. \A k \in 1 .. U : upd_req[k].id # s
        BY <1>1, <3>1, <3>3
      <4>2. tx_app_table[s].ackd = sar[s].ackd
        BY <1>2, <1>4, <2>1, <4>1 DEF RAckd
      <4> QED BY <1>5, <3>3, <4>2
    <3> QED BY <3>2, <3>3
  <2>2. ASSUME NEW s \in Sessions, conn[s] # "CLOSED", NEW i \in 1 .. U - 1, upd_req'[i].id = s,
               \A j \in i + 1 .. U - 1 : upd_req'[j].id # s
        PROVE  upd_req'[i].ackd = sar[s].ackd /\ ~upd_req'[i].init
    <3>1. PICK k \in 1 .. U : k = i + 1 /\ upd_req'[i] = upd_req[k]
      BY <1>6
    <3>2. ASSUME NEW j \in k + 1 .. U  PROVE upd_req[j].id # s
      <4>1. j \in 1 .. U /\ j # 1
        BY <3>1
      <4>2. PICK l \in 1 .. U - 1 : j = l + 1 /\ upd_req'[l] = upd_req[j]
        BY <1>7, <4>1
      <4>3. l \in i + 1 .. U - 1
        BY <3>1, <4>2
      <4> QED BY <2>2, <4>2, <4>3
    <3>3. upd_req[k].id = s /\ k \in 1 .. Len(upd_req) /\ \A j \in k + 1 .. Len(upd_req) : upd_req[j].id # s
      BY <1>2, <2>2, <3>1, <3>2
    <3>4. upd_req[k].ackd = sar[s].ackd /\ ~upd_req[k].init
      BY <1>4, <2>2, <3>3, Zenon DEF RAckd
    <3> QED BY <3>1, <3>4, Zenon
  <2> QED BY <1>3, <1>4, <2>1, <2>2 DEF RAckd
<1>11. \A s \in Sessions : Inits(s)' => Inits(s)
  <2> SUFFICES ASSUME NEW s \in Sessions, NEW i \in 1 .. U - 1, upd_req'[i].id = s, upd_req'[i].init
               PROVE Inits(s)
    BY <1>3 DEF Inits
  <2> QED BY <1>2, <1>6, Zenon DEF Inits
<1>12. \A s \in Sessions : (Writing(s)' <=> Writing(s)) /\ (Asked(s)' <=> Asked(s))
  BY <1>4 DEF Writing, Asked
<1>13. RInits'
  <2>1. ASSUME NEW i \in 1 .. U - 1, upd_req'[i].init  PROVE upd_req'[i].ackd = Pointer(0)
    <3>1. PICK k \in 1 .. U : k = i + 1 /\ upd_req'[i] = upd_req[k]
      BY <1>6
    <3> QED BY <1>2, <1>4, <2>1, <3>1, Zenon DEF RInits
  <2> QED BY <1>3, <1>4, <1>11, <1>12, <2>1 DEF RInits, Pointer, Low
<1>14. RIdeal'
  <2>1. ASSUME NEW s \in Sessions, conn[s] # "CLOSED", ~Inits(s)', ~Writing(s)
        PROVE  tx_app_table'[s].app_written_ideal = Pointer(reserved[s])
    <3>1. CASE ~Inits(s)
      <4>1. tx_app_table[s].app_written_ideal = Pointer(reserved[s])
        BY <1>4, <2>1, <3>1 DEF RIdeal
      <4>2. x = s => ~r.init
        BY <1>1, <1>2, <1>3, <3>1, Zenon DEF Inits
      <4> QED BY <1>5, <4>1, <4>2, Zenon
    <3>2. CASE Inits(s)
      <4>1. PICK k \in 1 .. U : upd_req[k].id = s /\ upd_req[k].init
        BY <1>2, <3>2 DEF Inits
      <4>2. k = 1
        <5> SUFFICES ASSUME k # 1  PROVE FALSE
          OBVIOUS
        <5>1. PICK i \in 1 .. U - 1 : k = i + 1 /\ upd_req'[i] = upd_req[k]
          BY <1>7
        <5>2. i \in 1 .. Len(upd_req')
          BY <1>3
        <5> QED BY <2>1, <4>1, <5>1, <5>2, Zenon DEF Inits
      <4>3. x = s /\ r.init /\ r = upd_req[1]
        BY <1>1, <4>1, <4>2, Zenon
      <4>4. r.ackd = Pointer(0) /\ reserved[s] = 0
        BY <1>1, <1>2, <1>3, <1>4, <3>2, <4>3, Zenon DEF RInits
      <4> QED BY <1>5, <4>3, <4>4, Zenon
    <3> QED BY <3>1, <3>2
  <2> QED BY <1>4, <1>12, <2>1 DEF RIdeal, Pointer, Low
<1> QED BY <1>8, <1>9, <1>10, <1>13, <1>14 DEF Space

\* The requests that remain are those before, but the first.
LEMMA RequestsShift ==
  ASSUME TInv, Takes(table_req, table_req')
  PROVE  /\ Len(table_req) > 0 /\ Len(table_req') = Len(table_req) - 1
         /\ \A i \in 1 .. Len(table_req') :
              \E k \in 1 .. Len(table_req) : k = i + 1 /\ table_req'[i] = table_req[k]
         /\ \A k \in 1 .. Len(table_req) : k # 1 =>
              \E i \in 1 .. Len(table_req') : k = i + 1 /\ table_req'[i] = table_req[k]
<1>1. PICK T \in Nat : T = Len(table_req)
  BY Queues
<1>2. /\ T > 0 /\ Len(table_req') = T - 1
      /\ \A i \in 1 .. T - 1 : table_req'[i] = table_req[i + 1]
  BY <1>1 DEF Takes
<1>3. ASSUME NEW i \in 1 .. T - 1
      PROVE  \E k \in 1 .. T : k = i + 1 /\ table_req'[i] = table_req[k]
  <2>1. PICK k \in 1 .. T : k = i + 1
    OBVIOUS
  <2> QED BY <1>2, <2>1
<1>4. ASSUME NEW k \in 1 .. T, k # 1
      PROVE  \E i \in 1 .. T - 1 : k = i + 1 /\ table_req'[i] = table_req[k]
  <2>1. k - 1 \in 1 .. T - 1 /\ k = k - 1 + 1
    BY <1>4
  <2>2. PICK i \in 1 .. T - 1 : i = k - 1
    BY <2>1
  <2> QED BY <1>2, <2>1, <2>2
<1> QED BY <1>1, <1>2, <1>3, <1>4

LEMMA SpaceTableAccess ==
  ASSUME TInv, Space, TableAccess
  PROVE  Space'
<1>1. PICK r, x : r = table_req[1] /\ x = r.id
  OBVIOUS
<1>2. PICK T \in Nat : T = Len(table_req)
  BY Queues
<1>3. /\ T > 0 /\ Len(table_req') = T - 1 /\ 1 \in 1 .. T
      /\ \A i \in 1 .. T - 1 : \E k \in 1 .. T : k = i + 1 /\ table_req'[i] = table_req[k]
      /\ \A k \in 1 .. T : k # 1 => \E i \in 1 .. T - 1 : k = i + 1 /\ table_req'[i] = table_req[k]
  BY <1>2, TableAccessStep, RequestsShift
<1>4. /\ RClosed /\ RCounts /\ RRequest /\ RAckd /\ RInits /\ RIdeal /\ RAnswer
      /\ upd_req = <<>> /\ Len(upd_req) = 0 /\ upd_req' = <<>> /\ table_req # <<>> /\ x \in Sessions
      /\ UNCHANGED <<upd_req, fsm, sar, conn, reserved, stored, published, acked, closed_at>>
  BY <1>1, <1>2, <1>3, TableAccessStep, Queues DEF Space
<1>5. RClosed'
  <2>1. ASSUME NEW s \in Sessions, conn[s] = "CLOSED", NEW i \in 1 .. T - 1  PROVE table_req'[i].id # s
    BY <1>2, <1>3, <1>4, <2>1 DEF RClosed
  <2> QED BY <1>3, <1>4, <2>1 DEF RClosed
<1>6. RCounts'
  BY <1>4 DEF RCounts, Pointer, Low
<1>7. \A s \in Sessions : ~Inits(s) /\ ~Inits(s)'
  BY <1>4 DEF Inits
<1>8. RInits'
  BY <1>4, <1>7 DEF RInits
<1>9. \A s \in Sessions : Writing(s)' => Writing(s)
  <2> SUFFICES ASSUME NEW s \in Sessions, NEW i \in 1 .. T - 1, table_req'[i].id = s, table_req'[i].write
               PROVE Writing(s)
    BY <1>3 DEF Writing
  <2>1. PICK k \in 1 .. T : table_req'[i] = table_req[k]
    BY <1>3
  <2>2. k \in 1 .. Len(table_req) /\ table_req[k].id = s /\ table_req[k].write
    BY <1>2, <2>1
  <2> QED BY <2>2, Zenon DEF Writing
<1>10. ASSUME NEW i \in 1 .. T - 1, table_req'[i].write
       PROVE  table_req'[i].app_written_ideal = Pointer(reserved[table_req'[i].id])
  <2>1. PICK k \in 1 .. T : table_req'[i] = table_req[k]
    BY <1>3
  <2>2. k \in 1 .. Len(table_req) /\ table_req[k].write
    BY <1>2, <1>10, <2>1, Zenon
  <2>3. table_req[k].app_written_ideal = Pointer(reserved[table_req[k].id])
    BY <1>4, <2>2, Zenon DEF RIdeal
  <2> QED BY <2>1, <2>3
<1>11. CASE r \in Writes
  <2>1. /\ table_rsp' = table_rsp
        /\ tx_app_table'[x] = [ackd |-> tx_app_table[x].ackd, app_written_ideal |-> r.app_written_ideal]
        /\ \A s \in Sessions : s # x => tx_app_table'[s] = tx_app_table[s]
    <3>1. r \notin Reads
      BY <1>11, Kinds, Zenon
    <3> QED BY <1>1, <3>1, TableAccessStep
  <2>2. r.write /\ r.app_written_ideal = Pointer(reserved[x])
    <3>1. r.write
      BY <1>11, Kinds, Zenon
    <3>2. 1 \in 1 .. Len(table_req) /\ r = table_req[1] /\ x = table_req[1].id
      BY <1>1, <1>2, <1>3
    <3>3. RIdeal
      BY <1>4
    <3>4. table_req[1].write
      BY <3>1, <3>2
    <3>5. table_req[1].app_written_ideal = Pointer(reserved[table_req[1].id])
      BY <3>2, <3>3, <3>4, Zenon DEF RIdeal
    <3> QED BY <3>1, <3>2, <3>5
  <2>3. /\ tx_app_table'[x].ackd = tx_app_table[x].ackd
        /\ tx_app_table'[x].app_written_ideal = Pointer(reserved[x])
    BY <2>1, <2>2
  <2>4. RRequest'
    <3>1. CASE fsm.state = "READ_META"
      <4>1. /\ table_rsp = <<>> /\ T \in {1, 2} /\ table_req[T] = ReadReq(fsm.id)
        BY <1>2, <1>4, <3>1 DEF RRequest
      <4>2. ~ReadReq(fsm.id).write
        BY DEF ReadReq
      <4>3. T # 1
        BY <1>1, <2>2, <4>1, <4>2, Zenon
      <4>4. T = 2 /\ 1 \in 1 .. T - 1 /\ Len(table_req') = 1
        BY <1>3, <4>1, <4>3
      <4>5. PICK k \in 1 .. T : k = 1 + 1 /\ table_req'[1] = table_req[k]
        BY <1>3, <4>4
      <4>6. table_req'[1] = ReadReq(fsm.id)
        BY <4>1, <4>4, <4>5
      <4> QED BY <1>4, <2>1, <3>1, <4>1, <4>4, <4>6 DEF RRequest
    <3>2. CASE fsm.state # "READ_META"
      <4>1. table_rsp = <<>> /\ T <= 1
        BY <1>2, <1>4, <3>2 DEF RRequest
      <4>2. T = 1
        BY <1>3, <4>1
      <4>3. Len(table_req') = 0
        BY <1>3, <4>2
      <4>4. table_req' = <<>>
        <5>1. TInv'
          BY TableAccessStep
        <5>2. table_req' \in Seq(Reads \cup Writes)
          BY <5>1 DEF TInv, TTable
        <5> QED BY <4>3, <5>2, In
      <4> QED BY <1>4, <2>1, <3>2, <4>1, <4>3, <4>4 DEF RRequest
    <3> QED BY <3>1, <3>2
  <2>5. RAckd'
    <3>1. ASSUME NEW s \in Sessions, conn[s] # "CLOSED"  PROVE tx_app_table'[s].ackd = sar[s].ackd
      <4>1. tx_app_table[s].ackd = sar[s].ackd
        BY <1>4, <3>1 DEF RAckd
      <4> QED BY <2>1, <2>3, <4>1
    <3> QED BY <1>4, <3>1 DEF RAckd
  <2>6. RIdeal'
    <3>1. ASSUME NEW s \in Sessions, conn[s] # "CLOSED", ~Writing(s)'
          PROVE  tx_app_table'[s].app_written_ideal = Pointer(reserved[s])
      <4>1. CASE s = x
        BY <2>3, <4>1
      <4>2. CASE s # x
        <5>1. ~Writing(s)
          <6> SUFFICES ASSUME NEW k \in 1 .. T, table_req[k].id = s, table_req[k].write  PROVE FALSE
            BY <1>2 DEF Writing
          <6>1. k # 1
            BY <1>1, <4>2
          <6>2. PICK i \in 1 .. T - 1 : k = i + 1 /\ table_req'[i] = table_req[k]
            BY <1>3, <6>1
          <6> QED BY <1>3, <3>1, <6>2, Zenon DEF Writing
        <5> QED BY <1>4, <1>7, <2>1, <3>1, <4>2, <5>1 DEF RIdeal
      <4> QED BY <4>1, <4>2
    <3> QED BY <1>3, <1>4, <1>10, <3>1 DEF RIdeal, Pointer, Low
  <2>7. RAnswer'
    BY <1>4, <2>1 DEF RAnswer, Pointer, Low
  <2> QED BY <1>5, <1>6, <1>8, <2>4, <2>5, <2>6, <2>7 DEF Space
<1>12. CASE r \in Reads
  <2>1. /\ tx_app_table' = tx_app_table /\ Grows(table_rsp, table_rsp', tx_app_table[x])
    <3>1. r \notin Writes
      BY <1>12, Kinds, Zenon
    <3> QED BY <1>1, <3>1, TableAccessStep
  <2>2. ~r.write
    BY <1>12, Kinds, Zenon
  <2>3. fsm.state = "READ_META"
    BY <1>1, <1>4, <2>2, Zenon DEF RRequest
  <2>4. table_rsp = <<>>
    BY <1>4, <2>3 DEF RRequest
  <2>5. T = 1 /\ x = fsm.id
    <3>1. T \in {1, 2} /\ table_req[T] = ReadReq(fsm.id)
      BY <1>2, <1>4, <2>3, <2>4 DEF RRequest
    <3>2. T # 2
      BY <1>1, <1>2, <1>4, <2>2, <2>3, <2>4, Zenon DEF RRequest
    <3>3. T = 1
      BY <3>1, <3>2
    <3>4. ReadReq(fsm.id).id = fsm.id
      BY DEF ReadReq
    <3> QED BY <1>1, <3>1, <3>3, <3>4
  <2>6. /\ Len(table_req') = 0 /\ table_req' = <<>> /\ Len(table_rsp') = 1 /\ table_rsp' # <<>>
        /\ table_rsp'[1] = tx_app_table[x]
    <3>1. TInv'
      BY TableAccessStep
    <3>2. table_req' \in Seq(Reads \cup Writes) /\ table_rsp' \in Seq(Entry)
      BY <3>1 DEF TInv, TTable
    <3>3. Len(table_req') = 0
      BY <1>3, <2>5
    <3>4. Len(table_rsp') = 1 /\ table_rsp'[1] = tx_app_table[x]
      BY <2>1, <2>4 DEF Grows
    <3>5. table_rsp' # <<>>
      <4>1. \A q : q = <<>> => Len(q) = 0
        OBVIOUS
      <4> QED BY <3>4, <4>1
    <3>6. table_req' = <<>>
      BY <3>2, <3>3, In
    <3> QED BY <3>3, <3>4, <3>5, <3>6
  <2>7. RRequest'
    BY <1>4, <2>3, <2>6 DEF RRequest
  <2>8. RAckd'
    BY <1>4, <2>1 DEF RAckd
  <2>9. \A s \in Sessions : ~Writing(s)
    <3> SUFFICES ASSUME NEW s \in Sessions, NEW k \in 1 .. T, table_req[k].write  PROVE FALSE
      BY <1>2 DEF Writing
    <3>1. k = 1
      BY <2>5
    <3> QED BY <1>1, <2>2, <3>1, Zenon
  <2>10. RIdeal'
    <3>1. ASSUME NEW s \in Sessions, conn[s] # "CLOSED"
          PROVE  tx_app_table[s].app_written_ideal = Pointer(reserved[s])
      BY <1>4, <1>7, <2>9, <3>1 DEF RIdeal
    <3> QED BY <1>4, <2>1, <2>6, <3>1 DEF RIdeal, Pointer, Low
  <2>11. RAnswer'
    <3>1. conn[x] # "CLOSED"
      BY <1>4, <2>3, <2>5 DEF RClosed
    <3>2. tx_app_table[x].app_written_ideal = Pointer(reserved[x])
      BY <1>4, <1>7, <2>9, <3>1 DEF RIdeal
    <3>3. tx_app_table[x].ackd = Pointer(acked[x])
      <4>1. tx_app_table[x].ackd = sar[x].ackd
        BY <1>4, <3>1 DEF RAckd
      <4>2. sar[x] = [ackd |-> Pointer(acked[x]), app_written |-> Pointer(published[x])]
        BY <1>4, <3>1, Zenon DEF RCounts
      <4> QED BY <4>1, <4>2
    <3>4. acked[x] \in 0 .. acked[x] /\ reserved[x] - acked[x] <= BufMod - 1
      <4>1. acked[x] \in Nat
        BY <1>4 DEF TInv, THistory, Counts
      <4>2. reserved[x] - acked[x] <= BufMod - 1
        BY <1>4 DEF RCounts
      <4> QED BY <4>1, <4>2
    <3> QED BY <1>4, <2>5, <2>6, <3>2, <3>3, <3>4 DEF RAnswer, Pointer, Low
  <2> QED BY <1>5, <1>6, <1>8, <2>7, <2>8, <2>10, <2>11 DEF Space
<1> QED BY <1>1, <1>11, <1>12, TableAccessStep

LEMMA SpaceReadRequest ==
  ASSUME TInv, Space, NEW s \in Sessions, NEW n \in Lengths, ReadRequest(s, n)
  PROVE  Space'
<1>1. /\ RClosed /\ RCounts /\ RRequest /\ RAckd /\ RInits /\ RIdeal /\ RAnswer
      /\ fsm = Idle /\ conn[s] # "CLOSED" /\ Grows(table_req, table_req', ReadReq(s))
      /\ fsm' \in Asking /\ fsm'.id = s
      /\ UNCHANGED <<tx_app_table, table_rsp, upd_req, sar, conn, reserved, stored, published, acked, closed_at>>
  BY ReadRequestStep DEF Space
<1>2. PICK T \in Nat : T = Len(table_req)
  BY Queues
<1>3. /\ Len(table_req') = T + 1 /\ table_req'[T + 1] = ReadReq(s)
      /\ \A i \in 1 .. T : table_req'[i] = table_req[i]
      /\ \A i \in 1 .. T + 1 : i \in 1 .. T \/ i = T + 1
  BY <1>1, <1>2 DEF Grows
<1>4. /\ ReadReq(s).id = s /\ ~ReadReq(s).write /\ fsm.state = "READ_REQUEST" /\ fsm'.state = "READ_META"
  BY <1>1, Kinds DEF ReadReq
<1>5. table_rsp = <<>> /\ T <= 1 /\ (table_req # <<>> => table_req[1].write)
  <2>1. fsm.state # "READ_META"
    BY <1>4
  <2> QED BY <1>1, <1>2, <2>1, Zenon DEF RRequest
<1>6. RClosed'
  <2>1. ASSUME NEW t \in Sessions, conn[t] = "CLOSED", NEW i \in 1 .. T + 1  PROVE table_req'[i].id # t
    <3>1. t # s
      BY <1>1, <2>1
    <3>2. CASE i = T + 1
      BY <1>3, <1>4, <3>1, <3>2
    <3>3. CASE i \in 1 .. T
      BY <1>1, <1>2, <1>3, <2>1, <3>3 DEF RClosed
    <3> QED BY <1>3, <3>2, <3>3
  <2> QED BY <1>1, <1>3, <2>1 DEF RClosed
<1>7. RCounts'
  BY <1>1 DEF RCounts, Pointer, Low
<1>8. RRequest'
  <2>1. Len(table_req') \in {1, 2} /\ table_req'[Len(table_req')] = ReadReq(fsm'.id)
    BY <1>1, <1>3, <1>5
  <2>2. Len(table_req') = 2 => table_req'[1].write
    <3> SUFFICES ASSUME Len(table_req') = 2  PROVE table_req'[1].write
      OBVIOUS
    <3>0. T + 1 = 2
      BY <1>3
    <3>1. T = 1 /\ 1 \in 1 .. T
      BY <1>2, <3>0
    <3>2. table_req # <<>>
      BY <1>2, <3>1, Queues
    <3>3. table_req'[1] = table_req[1]
      BY <1>3, <3>1
    <3> QED BY <1>5, <3>2, <3>3, Zenon
  <2> QED BY <1>1, <1>4, <1>5, <2>1, <2>2 DEF RRequest
<1>9. RAckd'
  BY <1>1 DEF RAckd
<1>10. \A t \in Sessions : (Writing(t)' <=> Writing(t)) /\ (Inits(t)' <=> Inits(t))
  <2> SUFFICES ASSUME NEW t \in Sessions  PROVE (Writing(t)' <=> Writing(t)) /\ (Inits(t)' <=> Inits(t))
    OBVIOUS
  <2>1. Inits(t)' <=> Inits(t)
    BY <1>1 DEF Inits
  <2>2. ASSUME NEW i \in 1 .. T + 1, table_req'[i].id = t, table_req'[i].write  PROVE Writing(t)
    <3>1. i # T + 1
      BY <1>3, <1>4, <2>2, Zenon
    <3>2. i \in 1 .. T
      BY <1>3, <3>1
    <3>3. table_req'[i] = table_req[i]
      BY <1>3, <3>2
    <3> QED BY <1>2, <2>2, <3>2, <3>3, Zenon DEF Writing
  <2>3. ASSUME NEW i \in 1 .. T, table_req[i].id = t, table_req[i].write  PROVE Writing(t)'
    <3>1. i \in 1 .. T + 1 /\ table_req'[i] = table_req[i]
      BY <1>3
    <3> QED BY <1>3, <2>3, <3>1, Zenon DEF Writing
  <2> QED BY <1>2, <1>3, <2>1, <2>2, <2>3 DEF Writing
<1>11. RInits'
  BY <1>1, <1>5, <1>10 DEF RInits, Pointer, Low
<1>12. RIdeal'
  <2>1. ASSUME NEW i \in 1 .. T + 1, table_req'[i].write
        PROVE  table_req'[i].app_written_ideal = Pointer(reserved[table_req'[i].id])
    <3>1. i # T + 1
      BY <1>3, <1>4, <2>1, Zenon
    <3>2. i \in 1 .. T
      BY <1>3, <3>1
    <3>3. table_req'[i] = table_req[i]
      BY <1>3, <3>2
    <3> QED BY <1>1, <1>2, <2>1, <3>2, <3>3, Zenon DEF RIdeal
  <2> QED BY <1>1, <1>3, <1>10, <2>1 DEF RIdeal, Pointer, Low
<1>13. RAnswer'
  BY <1>1, <1>5 DEF RAnswer
<1> QED BY <1>6, <1>7, <1>8, <1>9, <1>11, <1>12, <1>13 DEF Space

\* The handler is idle again: its request was answered.
LEMMA SpaceIdle ==
  ASSUME TInv, Space, Refuse \/ ReadData
  PROVE  Space'
<1>1. /\ RClosed /\ RCounts /\ RRequest /\ RAckd /\ RInits /\ RIdeal /\ RAnswer
      /\ fsm' = Idle /\ fsm'.state = "READ_REQUEST"
      /\ UNCHANGED <<tx_app_table, table_req, upd_req, sar, conn, reserved, stored, published, acked, closed_at>>
  BY RefuseStep, ReadDataStep, Kinds DEF Space
<1>2. table_rsp' = <<>> /\ Len(table_req) <= 1 /\ (table_req # <<>> => table_req[1].write)
  <2>1. CASE Refuse
    <3>1. fsm.state = "READ_META" /\ Takes(table_rsp, table_rsp') /\ TInv'
      BY <2>1, RefuseStep
    <3>2. table_rsp # <<>>
      BY <3>1, Queues DEF Takes
    <3>3. Len(table_rsp) = 1 /\ table_req = <<>>
      BY <1>1, <3>1, <3>2 DEF RRequest
    <3>4. Len(table_rsp') = 0
      BY <3>1, <3>3 DEF Takes
    <3>5. table_rsp' \in Seq(Entry)
      BY <3>1 DEF TInv, TTable
    <3>6. table_rsp' = <<>>
      BY <3>4, <3>5, In
    <3>7. Len(table_req) = 0
      BY <3>3, Queues
    <3> QED BY <3>3, <3>6, <3>7
  <2>2. CASE ReadData
    <3>1. fsm.state # "READ_META" /\ table_rsp' = table_rsp
      BY <2>2, ReadDataStep
    <3> QED BY <1>1, <3>1, Zenon DEF RRequest
  <2> QED BY <2>1, <2>2
<1>3. RClosed'
  BY <1>1 DEF RClosed
<1>4. RCounts'
  BY <1>1 DEF RCounts, Pointer, Low
<1>5. RRequest'
  BY <1>1, <1>2 DEF RRequest
<1>6. RAckd'
  BY <1>1 DEF RAckd
<1>7. RInits'
  BY <1>1, <1>2 DEF RInits, Inits, Asked, Writing, Pointer, Low
<1>8. RIdeal'
  BY <1>1 DEF RIdeal, Inits, Writing, Pointer, Low
<1>9. RAnswer'
  BY <1>2 DEF RAnswer
<1> QED BY <1>3, <1>4, <1>5, <1>6, <1>7, <1>8, <1>9 DEF Space

\* The answer leaves room for the bytes that are accepted.
LEMMA RoomFor ==
  ASSUME TInv, Space, Accept
  PROVE  /\ reserved'[fsm.id] - acked[fsm.id] <= BufMod - 1
         /\ NextPtr(table_rsp[1].app_written_ideal, fsm.len) = Pointer(reserved'[fsm.id])
<1>1. PICK s, e, n : s = fsm.id /\ e = table_rsp[1] /\ n = fsm.len
  OBVIOUS
<1>2. /\ fsm \in Asking /\ n <= MaxWriteLength(e) /\ reserved'[s] = reserved[s] + n
      /\ Takes(table_rsp, table_rsp')
  BY <1>1, AcceptStep
<1>3. s \in Sessions /\ n \in Nat
  BY <1>1, <1>2, Kinds
<1>4. PICK R \in Nat, A \in Nat : R = reserved[s] /\ A = acked[s]
  BY <1>3 DEF TInv, THistory, Counts
<1>5. table_rsp # <<>>
  BY <1>2, Queues DEF Takes
<1>6. e.app_written_ideal = Pointer(R)
  BY <1>1, <1>4, <1>5 DEF Space, RAnswer
<1>7. PICK a \in 0 .. A : e.ackd = Pointer(a) /\ R - a <= BufMod - 1
  BY <1>1, <1>4, <1>5 DEF Space, RAnswer
<1>8. A <= R
  <2>1. /\ acked[s] <= published[s] /\ published[s] <= stored[s] /\ stored[s] <= reserved[s]
        /\ published[s] \in Nat /\ stored[s] \in Nat
    BY <1>3 DEF Space, RCounts, TInv, THistory, Counts
  <2> QED BY <1>4, <2>1
<1>9. a \in Nat /\ a <= R /\ R - a < BufMod
  BY <1>7, <1>8, Modulus
<1>10. Low(Pointer(a) - Pointer(R) - 1) = BufMod - 1 - (R - a)
  BY <1>9, PointerFacts
<1>11. n <= BufMod - 1 - (R - a)
  BY <1>2, <1>6, <1>7, <1>10 DEF MaxWriteLength
<1>12. (R + n) - A <= BufMod - 1
  BY <1>3, <1>7, <1>9, <1>11, Modulus
<1>13. NextPtr(Pointer(R), n) = Pointer(R + n)
  BY <1>3, PointerFacts
<1>14. reserved'[s] = R + n
  BY <1>2, <1>4
<1>15. reserved'[s] - acked[s] <= BufMod - 1
  <2>1. acked[s] = A
    BY <1>4
  <2> QED BY <1>12, <1>14, <2>1
<1>16. NextPtr(table_rsp[1].app_written_ideal, n) = Pointer(reserved'[s])
  BY <1>1, <1>6, <1>13, <1>14
<1> QED BY <1>1, <1>15, <1>16

LEMMA SpaceAccept ==
  ASSUME TInv, Space, Accept, Healthy'
  PROVE  /\ Space' /\ fsm.id \in Sessions /\ conn[fsm.id] = "ESTABLISHED"
         /\ reserved[fsm.id] < reserved'[fsm.id]
         /\ \A s \in Sessions : s # fsm.id => reserved'[s] = reserved[s]
<1>1. PICK s, n, p : s = fsm.id /\ n = fsm.len /\ p = NextPtr(table_rsp[1].app_written_ideal, fsm.len)
  OBVIOUS
<1>2. /\ fsm \in Asking /\ Grows(table_req, table_req', WriteReq(s, p)) /\ Takes(table_rsp, table_rsp')
      /\ reserved'[s] = reserved[s] + n /\ \A t \in Sessions : t # s => reserved'[t] = reserved[t]
      /\ fsm' = [state |-> "READ_DATA"] /\ conn[s] = "ESTABLISHED" /\ TInv'
      /\ UNCHANGED <<tx_app_table, upd_req, sar, conn, stored, published, acked, closed_at>>
  BY <1>1, AcceptStep
<1>3. /\ RClosed /\ RCounts /\ RRequest /\ RAckd /\ RInits /\ RIdeal /\ RAnswer
  BY DEF Space
<1>4. s \in Sessions /\ n \in Nat /\ n > 0 /\ fsm.state = "READ_META" /\ fsm'.state = "READ_DATA"
      /\ reserved[s] \in Nat /\ acked[s] \in Nat
  <2>1. fsm.state = "READ_META" /\ fsm'.state = "READ_DATA"
    BY <1>2, Kinds
  <2>2. s \in Sessions /\ n \in Nat /\ n > 0
    BY <1>1, <2>1, Queues
  <2> QED BY <2>1, <2>2 DEF TInv, THistory, Counts
<1>5. reserved'[s] - acked[s] <= BufMod - 1 /\ p = Pointer(reserved'[s])
  BY <1>1, RoomFor
<1>6. table_rsp # <<>> /\ Len(table_rsp) = 1 /\ table_req = <<>> /\ Len(table_req) = 0
  <2>1. table_rsp # <<>>
    BY <1>2, Queues DEF Takes
  <2>2. Len(table_rsp) = 1 /\ table_req = <<>>
    BY <1>3, <1>4, <2>1 DEF RRequest
  <2> QED BY <2>1, <2>2, Queues
<1>7. table_rsp' = <<>>
  <2>1. Len(table_rsp') = 0
    BY <1>2, <1>6 DEF Takes
  <2>2. table_rsp' \in Seq(Entry)
    BY <1>2 DEF TInv, TTable
  <2> QED BY <2>1, <2>2, In
<1>8. PICK u : u = WriteReq(s, p)
  OBVIOUS
<1>9. Len(table_req') = 1 /\ table_req'[1] = u
  <2>1. Len(table_req') = Len(table_req) + 1 /\ table_req'[Len(table_req) + 1] = u
    BY <1>2, <1>8 DEF Grows
  <2> QED BY <1>6, <2>1
<1>10. u.id = s /\ u.write /\ u.app_written_ideal = p
  BY <1>8 DEF WriteReq
<1>11. RClosed'
  <2>1. ASSUME NEW t \in Sessions, conn[t] = "CLOSED"
        PROVE  t # s /\ reserved'[t] = reserved[t] /\ \A i \in 1 .. 1 : table_req'[i].id # t
    BY <1>2, <1>9, <1>10, <2>1
  <2> QED BY <1>2, <1>3, <1>4, <1>9, <2>1 DEF RClosed
<1>12. RCounts'
  <2>1. ASSUME NEW t \in Sessions  PROVE stored[t] <= reserved'[t] /\ reserved'[t] - acked[t] <= BufMod - 1
    <3>1. stored[t] <= reserved[t] /\ reserved[t] - acked[t] <= BufMod - 1 /\ stored[t] \in Nat
      BY <1>3 DEF RCounts, TInv, THistory, Counts
    <3>2. CASE t = s
      BY <1>2, <1>4, <1>5, <3>1, <3>2
    <3>3. CASE t # s
      BY <1>2, <3>1, <3>3
    <3> QED BY <3>2, <3>3
  <2> QED BY <1>2, <1>3, <2>1 DEF RCounts, Pointer, Low
<1>13. RRequest'
  <2>1. table_req'[1].write
    BY <1>9, <1>10, Zenon
  <2> QED BY <1>4, <1>7, <1>9, <2>1 DEF RRequest
<1>14. RAckd'
  BY <1>2, <1>3 DEF RAckd
<1>15. \A t \in Sessions : (Inits(t)' <=> Inits(t)) /\ (Writing(t)' <=> t = s)
  <2> SUFFICES ASSUME NEW t \in Sessions  PROVE (Inits(t)' <=> Inits(t)) /\ (Writing(t)' <=> t = s)
    OBVIOUS
  <2>1. Inits(t)' <=> Inits(t)
    BY <1>2 DEF Inits
  <2>2. Writing(t)' <=> \E i \in 1 .. 1 : table_req'[i].id = t /\ table_req'[i].write
    BY <1>9, Zenon DEF Writing
  <2>3. (\E i \in 1 .. 1 : table_req'[i].id = t /\ table_req'[i].write) <=> t = s
    <3>1. \A i \in 1 .. 1 : i = 1
      OBVIOUS
    <3>2. 1 \in 1 .. 1
      OBVIOUS
    <3> QED BY <1>9, <1>10, <3>1, <3>2, Zenon
  <2> QED BY <2>1, <2>2, <2>3
<1>16. ~Inits(s)
  BY <1>1, <1>3, <1>4, <1>6 DEF RInits, Asked
<1>17. RInits'
  <2>1. \A t \in Sessions : ~Asked(t)'
    BY <1>4 DEF Asked
  <2>2. ASSUME NEW t \in Sessions, Inits(t)  PROVE t # s /\ reserved'[t] = 0
    BY <1>2, <1>3, <1>16, <2>2 DEF RInits
  <2> QED BY <1>2, <1>3, <1>15, <2>1, <2>2 DEF RInits, Pointer, Low
<1>18. RIdeal'
  <2>1. ASSUME NEW t \in Sessions, conn[t] # "CLOSED", ~Inits(t), t # s
        PROVE  tx_app_table[t].app_written_ideal = Pointer(reserved'[t])
    <3>1. ~Writing(t)
      BY <1>6 DEF Writing
    <3> QED BY <1>2, <1>3, <2>1, <3>1 DEF RIdeal
  <2>2. ASSUME NEW i \in 1 .. 1  PROVE table_req'[i].app_written_ideal = Pointer(reserved'[table_req'[i].id])
    BY <1>5, <1>9, <1>10
  <2> QED BY <1>2, <1>9, <1>15, <2>1, <2>2 DEF RIdeal, Pointer, Low
<1>19. RAnswer'
  BY <1>7 DEF RAnswer
<1>20. reserved[s] < reserved'[s]
  BY <1>2, <1>4
<1> QED BY <1>1, <1>2, <1>4, <1>11, <1>12, <1>13, <1>14, <1>17, <1>18, <1>19, <1>20 DEF Space

LEMMA SpaceMover ==
  ASSUME TInv, Order, Bytes, Space, Mover(TRUE)
  PROVE  Space'
<1>1. PICK t : t = jobs[1].id
  OBVIOUS
<1>2. /\ t \in Sessions /\ stored'[t] <= reserved[t] /\ stored'[t] = stored[t] + jobs[1].len
      /\ reserved[t] > 0 /\ jobs[1].len \in Nat
  BY <1>1, BytesMover
<1>3. /\ RClosed /\ RCounts /\ RRequest /\ RAckd /\ RInits /\ RIdeal /\ RAnswer
      /\ \A s \in Sessions : s # t => stored'[s] = stored[s]
      /\ UNCHANGED <<tx_app_table, table_req, table_rsp, upd_req, fsm, sar, conn, reserved,
                     published, acked, closed_at>>
  <2>1. TRUE \in BOOLEAN
    OBVIOUS
  <2> QED BY <1>1, <2>1, MoverStep, Zenon DEF Space
<1>4. \A s \in Sessions : /\ stored[s] \in Nat /\ published[s] \in Nat /\ reserved[s] \in Nat
  BY DEF TInv, THistory, Counts
<1>5. RClosed'
  <2>1. conn[t] # "CLOSED"
    BY <1>2, <1>3 DEF RClosed
  <2> QED BY <1>3, <2>1 DEF RClosed
<1>6. RCounts'
  <2>1. ASSUME NEW s \in Sessions  PROVE published[s] <= stored'[s] /\ stored'[s] <= reserved[s]
    <3>1. published[s] <= stored[s] /\ stored[s] <= reserved[s]
      BY <1>3 DEF RCounts
    <3>2. CASE s = t
      BY <1>2, <1>4, <3>1, <3>2
    <3>3. CASE s # t
      BY <1>3, <3>1, <3>3
    <3> QED BY <3>2, <3>3
  <2> QED BY <1>3, <2>1 DEF RCounts, Pointer, Low
<1>7. RRequest' /\ RAckd'
  BY <1>3 DEF RRequest, RAckd
<1>8. RInits'
  BY <1>3 DEF RInits, Inits, Asked, Writing, Pointer, Low
<1>9. RIdeal'
  BY <1>3 DEF RIdeal, Inits, Writing, Pointer, Low
<1>10. RAnswer'
  BY <1>3 DEF RAnswer, Pointer, Low
<1> QED BY <1>5, <1>6, <1>7, <1>8, <1>9, <1>10 DEF Space

LEMMA SpaceSarWritten ==
  ASSUME TInv, Order, Bytes, Space, SarWritten
  PROVE  Space'
<1>0. RClosed /\ RCounts
  BY DEF Space
<1>1. PICK t, r : t = sar_upd[1].id /\ r = sar_upd[1].app_written
  OBVIOUS
<1>2. /\ t \in Sessions /\ conn[t] # "CLOSED" /\ published[t] < published'[t]
      /\ published'[t] <= stored[t] /\ published'[t] \in Nat /\ r = Pointer(published'[t])
  BY <1>0, <1>1, BytesSarWritten
<1>3. /\ RRequest /\ RAckd /\ RInits /\ RIdeal /\ RAnswer
      /\ sar'[t] = [ackd |-> sar[t].ackd, app_written |-> r]
      /\ \A s \in Sessions : s # t => sar'[s] = sar[s] /\ published'[s] = published[s]
      /\ UNCHANGED <<tx_app_table, table_req, table_rsp, upd_req, fsm, conn, reserved,
                     stored, acked, closed_at>>
  BY <1>1, SarWrittenStep DEF Space
<1>4. RClosed'
  BY <1>0, <1>2, <1>3 DEF RClosed
<1>5. RCounts'
  <2>1. ASSUME NEW s \in Sessions
        PROVE  /\ acked[s] <= published'[s] /\ published'[s] <= stored[s]
               /\ conn[s] # "CLOSED" =>
                    sar'[s] = [ackd |-> Pointer(acked[s]), app_written |-> Pointer(published'[s])]
    <3>1. /\ acked[s] <= published[s] /\ published[s] <= stored[s]
          /\ acked[s] \in Nat /\ published[s] \in Nat
      BY <1>0 DEF RCounts, TInv, THistory, Counts
    <3>2. conn[s] # "CLOSED" => sar[s] = [ackd |-> Pointer(acked[s]), app_written |-> Pointer(published[s])]
      BY <1>0, Zenon DEF RCounts
    <3>3. CASE s = t
      <4>1. acked[s] <= published'[s]
        BY <1>2, <3>1, <3>3
      <4>2. sar[t].ackd = Pointer(acked[t])
        BY <1>2, <3>2, <3>3
      <4> QED BY <1>2, <1>3, <3>3, <4>1, <4>2
    <3>4. CASE s # t
      BY <1>3, <3>1, <3>2, <3>4
    <3> QED BY <3>3, <3>4
  <2> QED BY <1>0, <1>3, <2>1 DEF RCounts, Pointer, Low
<1>6. RAckd'
  <2>1. \A s \in Sessions : sar'[s].ackd = sar[s].ackd
    <3>1. sar'[t].ackd = sar[t].ackd
      BY <1>3
    <3> QED BY <1>3, <3>1
  <2> QED BY <1>3, <2>1 DEF RAckd
<1>7. RRequest'
  BY <1>3 DEF RRequest
<1>8. RInits'
  BY <1>3 DEF RInits, Inits, Asked, Writing, Pointer, Low
<1>9. RIdeal'
  BY <1>3 DEF RIdeal, Inits, Writing, Pointer, Low
<1>10. RAnswer'
  BY <1>3 DEF RAnswer, Pointer, Low
<1> QED BY <1>4, <1>5, <1>6, <1>7, <1>8, <1>9, <1>10 DEF Space

\* Updates that are not about a session say what they said of it.
LEMMA AckdSame ==
  ASSUME TInv, RAckd, NEW s \in Sessions, conn[s] # "CLOSED", tx_app_table' = tx_app_table, sar'[s] = sar[s],
         NEW V \in Nat, Len(upd_req') = V, Len(upd_req) <= V,
         \A i \in 1 .. Len(upd_req) : upd_req'[i] = upd_req[i],
         \A i \in Len(upd_req) + 1 .. V : upd_req'[i].id # s
  PROVE  /\ (\A i \in 1 .. V : upd_req'[i].id # s) => tx_app_table'[s].ackd = sar'[s].ackd
         /\ \A i \in 1 .. V :
              upd_req'[i].id = s /\ (\A j \in i + 1 .. V : upd_req'[j].id # s)
                => upd_req'[i].ackd = sar'[s].ackd /\ ~upd_req'[i].init
<1>1. PICK U \in Nat : U = Len(upd_req)
  BY Queues
<1>2. U <= V
  BY <1>1
<1>3. ASSUME \A i \in 1 .. V : upd_req'[i].id # s  PROVE tx_app_table'[s].ackd = sar'[s].ackd
  <2>1. \A i \in 1 .. U : upd_req[i].id # s
    <3> SUFFICES ASSUME NEW i \in 1 .. U  PROVE upd_req[i].id # s
      OBVIOUS
    <3>1. i \in 1 .. V /\ upd_req'[i] = upd_req[i]
      BY <1>1, <1>2
    <3> QED BY <1>3, <3>1
  <2>2. tx_app_table[s].ackd = sar[s].ackd
    BY <1>1, <2>1 DEF RAckd
  <2> QED BY <2>2
<1>4. ASSUME NEW i \in 1 .. V, upd_req'[i].id = s, \A j \in i + 1 .. V : upd_req'[j].id # s
      PROVE  upd_req'[i].ackd = sar'[s].ackd /\ ~upd_req'[i].init
  <2>1. i \in 1 .. U
    <3>1. i \notin U + 1 .. V
      BY <1>1, <1>4
    <3> QED BY <1>2, <3>1
  <2>2. ASSUME NEW j \in i + 1 .. U  PROVE upd_req[j].id # s
    <3>1. j \in i + 1 .. V /\ j \in 1 .. U
      BY <1>2
    <3>2. upd_req'[j] = upd_req[j]
      BY <1>1, <3>1
    <3> QED BY <1>4, <3>1, <3>2
  <2>3. upd_req'[i] = upd_req[i]
    BY <1>1, <2>1
  <2>4. i \in 1 .. Len(upd_req) /\ upd_req[i].id = s /\ \A j \in i + 1 .. Len(upd_req) : upd_req[j].id # s
    BY <1>1, <1>4, <2>1, <2>2, <2>3
  <2>5. upd_req[i].ackd = sar[s].ackd /\ ~upd_req[i].init
    BY <2>4, Zenon DEF RAckd
  <2> QED BY <2>3, <2>5, Zenon
<1> QED BY <1>3, <1>4

LEMMA SpaceAcked ==
  ASSUME TInv, Space, NEW s \in Sessions, NEW n \in Lengths, Acked(s, n)
  PROVE  Space' /\ acked[s] < acked'[s] /\ acked'[s] <= published[s]
<1>0. PICK u : u = [id |-> s, ackd |-> Low(sar[s].ackd + n), init |-> FALSE]
  OBVIOUS
<1>1. /\ RClosed /\ RCounts /\ RRequest /\ RAckd /\ RInits /\ RIdeal /\ RAnswer
      /\ n \in Nat /\ n > 0 /\ acked[s] + n <= published[s] /\ Grows(upd_req, upd_req', u)
      /\ sar'[s] = [ackd |-> Low(sar[s].ackd + n), app_written |-> sar[s].app_written]
      /\ acked'[s] = acked[s] + n
      /\ \A t \in Sessions : t # s => sar'[t] = sar[t] /\ acked'[t] = acked[t]
      /\ UNCHANGED <<tx_app_table, table_req, table_rsp, fsm, conn, reserved, stored, published, closed_at>>
  BY <1>0, AckedStep DEF Space
<1>2. PICK U \in Nat : U = Len(upd_req)
  BY Queues
<1>3. /\ Len(upd_req') = U + 1 /\ upd_req'[U + 1] = u /\ \A i \in 1 .. U : upd_req'[i] = upd_req[i]
      /\ \A i \in 1 .. U + 1 : i \in 1 .. U \/ i = U + 1
  BY <1>1, <1>2 DEF Grows
<1>4. u.id = s /\ ~u.init /\ u.ackd = Low(sar[s].ackd + n)
  BY <1>0
<1>5. \A t \in Sessions : acked[t] \in Nat /\ published[t] \in Nat /\ reserved[t] \in Nat
  BY DEF TInv, THistory, Counts
<1>6. conn[s] # "CLOSED"
  <2>1. published[s] # 0
    BY <1>1, <1>5
  <2> QED BY <1>1, <2>1 DEF RClosed
<1>7. RClosed'
  <2>1. ASSUME NEW t \in Sessions, conn[t] = "CLOSED", NEW i \in 1 .. U + 1  PROVE upd_req'[i].id # t
    <3>1. t # s
      BY <1>6, <2>1
    <3>2. CASE i = U + 1
      BY <1>3, <1>4, <3>1, <3>2
    <3>3. CASE i \in 1 .. U
      <4>1. upd_req[i].id # t
        BY <1>1, <1>2, <2>1, <3>3, Zenon DEF RClosed
      <4> QED BY <1>3, <3>3, <4>1
    <3> QED BY <1>3, <3>2, <3>3
  <2> QED BY <1>1, <1>3, <1>6, <2>1 DEF RClosed
<1>8. sar[s] = [ackd |-> Pointer(acked[s]), app_written |-> Pointer(published[s])]
  BY <1>1, <1>6, Zenon DEF RCounts
<1>9. Low(sar[s].ackd + n) = Pointer(acked'[s])
  BY <1>1, <1>5, <1>8, PointerFacts
<1>10. RCounts'
  <2>1. ASSUME NEW t \in Sessions
        PROVE  /\ acked'[t] <= published[t] /\ reserved[t] - acked'[t] <= BufMod - 1
               /\ conn[t] # "CLOSED" =>
                    sar'[t] = [ackd |-> Pointer(acked'[t]), app_written |-> Pointer(published[t])]
    <3>1. acked[t] <= published[t] /\ reserved[t] - acked[t] <= BufMod - 1
      BY <1>1 DEF RCounts
    <3>2. CASE t = s
      <4>1. reserved[t] - acked'[t] <= BufMod - 1
        BY <1>1, <1>5, <3>1, <3>2, Modulus
      <4> QED BY <1>1, <1>8, <1>9, <3>2, <4>1
    <3>3. CASE t # s
      <4>1. conn[t] # "CLOSED" => sar[t] = [ackd |-> Pointer(acked[t]), app_written |-> Pointer(published[t])]
        BY <1>1, Zenon DEF RCounts
      <4> QED BY <1>1, <3>1, <3>3, <4>1
    <3> QED BY <3>2, <3>3
  <2> QED BY <1>1, <2>1 DEF RCounts, Pointer, Low
<1>11. RRequest'
  BY <1>1 DEF RRequest
<1>12. RAckd'
  <2>1. ASSUME NEW t \in Sessions, conn[t] # "CLOSED"
        PROVE  /\ (\A i \in 1 .. U + 1 : upd_req'[i].id # t) => tx_app_table'[t].ackd = sar'[t].ackd
               /\ \A i \in 1 .. U + 1 :
                    upd_req'[i].id = t /\ (\A j \in i + 1 .. U + 1 : upd_req'[j].id # t)
                      => upd_req'[i].ackd = sar'[t].ackd /\ ~upd_req'[i].init
    <3>1. CASE t # s
      <4>1. \A i \in U + 1 .. U + 1 : upd_req'[i].id # t
        BY <1>3, <1>4, <3>1
      <4>2. sar'[t] = sar[t] /\ tx_app_table' = tx_app_table /\ U + 1 \in Nat /\ U <= U + 1
        BY <1>1, <3>1
      <4> QED BY <1>1, <1>2, <1>3, <2>1, <4>1, <4>2, AckdSame
    <3>2. CASE t = s
      <4>1. U + 1 \in 1 .. U + 1 /\ upd_req'[U + 1].id = t
        BY <1>3, <1>4, <3>2
      <4>2. ASSUME NEW i \in 1 .. U + 1, \A j \in i + 1 .. U + 1 : upd_req'[j].id # t  PROVE i = U + 1
        <5>1. U + 1 \notin i + 1 .. U + 1
          BY <4>1, <4>2
        <5> QED BY <5>1
      <4>3. sar'[t].ackd = u.ackd
        BY <1>1, <1>4, <3>2
      <4> QED BY <1>3, <1>4, <4>1, <4>2, <4>3, Zenon
    <3> QED BY <3>1, <3>2
  <2> QED BY <1>1, <1>3, <2>1 DEF RAckd
<1>13. \A t \in Sessions : /\ (Inits(t)' => Inits(t)) /\ (Inits(t) => Inits(t)')
                           /\ (Writing(t)' <=> Writing(t)) /\ (Asked(t)' <=> Asked(t))
  <2> SUFFICES ASSUME NEW t \in Sessions
               PROVE /\ (Inits(t)' => Inits(t)) /\ (Inits(t) => Inits(t)')
                     /\ (Writing(t)' <=> Writing(t)) /\ (Asked(t)' <=> Asked(t))
    OBVIOUS
  <2>1. (Writing(t)' <=> Writing(t)) /\ (Asked(t)' <=> Asked(t))
    BY <1>1 DEF Writing, Asked
  <2>2. ASSUME NEW i \in 1 .. U + 1, upd_req'[i].id = t, upd_req'[i].init  PROVE Inits(t)
    <3>1. i # U + 1
      BY <1>3, <1>4, <2>2, Zenon
    <3>2. i \in 1 .. U
      BY <1>3, <3>1
    <3> QED BY <1>2, <1>3, <2>2, <3>2, Zenon DEF Inits
  <2>3. ASSUME NEW i \in 1 .. U, upd_req[i].id = t, upd_req[i].init  PROVE Inits(t)'
    <3>1. i \in 1 .. U + 1
      OBVIOUS
    <3> QED BY <1>3, <2>3, <3>1, Zenon DEF Inits
  <2> QED BY <1>2, <1>3, <2>1, <2>2, <2>3 DEF Inits
<1>14. RInits'
  <2>1. ASSUME NEW i \in 1 .. U + 1, upd_req'[i].init  PROVE upd_req'[i].ackd = Pointer(0)
    <3>1. i # U + 1
      BY <1>3, <1>4, <2>1, Zenon
    <3>2. i \in 1 .. U
      BY <1>3, <3>1
    <3> QED BY <1>1, <1>2, <1>3, <2>1, <3>2, Zenon DEF RInits
  <2> QED BY <1>1, <1>3, <1>13, <2>1 DEF RInits, Pointer, Low
<1>15. RIdeal'
  BY <1>1, <1>13 DEF RIdeal, Pointer, Low
<1>16. RAnswer'
  <2>1. table_rsp # <<>> => fsm.state = "READ_META"
    BY <1>1 DEF RRequest
  <2>2. ASSUME table_rsp # <<>>  PROVE \A a \in 0 .. acked[fsm.id] : a \in 0 .. acked'[fsm.id]
    <3>1. PICK t \in Sessions : t = fsm.id
      BY <2>1, <2>2, Queues
    <3>2. acked[t] \in Nat /\ acked'[t] \in Nat /\ acked[t] <= acked'[t]
      <4>1. CASE t = s
        BY <1>1, <1>5, <4>1
      <4>2. CASE t # s
        BY <1>1, <1>5, <4>2
      <4> QED BY <4>1, <4>2
    <3> QED BY <3>1, <3>2
  <2> QED BY <1>1, <2>2 DEF RAnswer, Pointer, Low
<1>17. acked[s] < acked'[s]
  BY <1>1, <1>5
<1> QED BY <1>1, <1>7, <1>10, <1>11, <1>12, <1>14, <1>15, <1>16, <1>17 DEF Space

LEMMA SpaceEstablish ==
  ASSUME TInv, Space, NEW s \in Sessions, Establish(s)
  PROVE  Space'
<1>0. PICK u, v : /\ u = [id |-> s, ackd |-> Low(Isn + 1), init |-> TRUE]
                  /\ v = [id |-> s, ackd |-> Low(Isn + 1), init |-> FALSE]
  OBVIOUS
<1>1. PICK U \in Nat : U = Len(upd_req)
  BY Queues
<1>2. /\ RClosed /\ RCounts /\ RRequest /\ RAckd /\ RInits /\ RIdeal /\ RAnswer
      /\ conn[s] = "CLOSED" /\ Len(upd_req') = U + 2 /\ upd_req'[U + 1] = u /\ upd_req'[U + 2] = v
      /\ \A i \in 1 .. U : upd_req'[i] = upd_req[i]
      /\ sar'[s] = [ackd |-> Low(Isn + 1), app_written |-> Low(Isn + 1)] /\ conn'[s] = "ESTABLISHED"
      /\ \A t \in Sessions : t # s => sar'[t] = sar[t] /\ conn'[t] = conn[t]
      /\ UNCHANGED <<tx_app_table, table_req, table_rsp, fsm, reserved, stored, published, acked, closed_at>>
  BY <1>0, <1>1, EstablishStep DEF Space
<1>3. \A i \in 1 .. U + 2 : i \in 1 .. U \/ i = U + 1 \/ i = U + 2
  BY <1>1
<1>4. u.id = s /\ u.init /\ u.ackd = Low(Isn + 1) /\ v.id = s /\ ~v.init /\ v.ackd = Low(Isn + 1)
  BY <1>0
<1>5. Pointer(0) = Low(Isn + 1)
  <2>1. Isn + 1 + 0 = Isn + 1
    BY BufAssumption
  <2> QED BY <2>1 DEF Pointer
<1>6. /\ reserved[s] = 0 /\ stored[s] = 0 /\ published[s] = 0 /\ acked[s] = 0 /\ closed_at[s] = 0
      /\ \A i \in 1 .. U : upd_req[i].id # s
      /\ \A i \in 1 .. Len(table_req) : table_req[i].id # s
      /\ (fsm.state = "READ_META" => fsm.id # s)
  BY <1>1, <1>2 DEF RClosed
<1>7. RClosed'
  <2>1. ASSUME NEW t \in Sessions, conn'[t] = "CLOSED"
        PROVE  conn[t] = "CLOSED" /\ \A i \in 1 .. U + 2 : upd_req'[i].id # t
    <3>1. t # s /\ conn[t] = "CLOSED"
      BY <1>2, <2>1
    <3>2. \A i \in 1 .. U : upd_req[i].id # t
      BY <1>1, <1>2, <3>1 DEF RClosed
    <3> QED BY <1>2, <1>3, <1>4, <3>1, <3>2
  <2> QED BY <1>2, <2>1 DEF RClosed
<1>8. RCounts'
  <2>1. ASSUME NEW t \in Sessions, conn'[t] # "CLOSED"
        PROVE  sar'[t] = [ackd |-> Pointer(acked[t]), app_written |-> Pointer(published[t])]
    <3>1. CASE t = s
      BY <1>2, <1>5, <1>6, <3>1
    <3>2. CASE t # s
      <4>1. sar'[t] = sar[t] /\ conn[t] # "CLOSED"
        BY <1>2, <2>1, <3>2
      <4> QED BY <1>2, <4>1, Zenon DEF RCounts
    <3> QED BY <3>1, <3>2
  <2> QED BY <1>2, <2>1 DEF RCounts, Pointer, Low
<1>9. RRequest'
  BY <1>2 DEF RRequest
<1>10. RAckd'
  <2>1. ASSUME NEW t \in Sessions, conn'[t] # "CLOSED"
        PROVE  /\ (\A i \in 1 .. U + 2 : upd_req'[i].id # t) => tx_app_table'[t].ackd = sar'[t].ackd
               /\ \A i \in 1 .. U + 2 :
                    upd_req'[i].id = t /\ (\A j \in i + 1 .. U + 2 : upd_req'[j].id # t)
                      => upd_req'[i].ackd = sar'[t].ackd /\ ~upd_req'[i].init
    <3>1. CASE t # s
      <4>1. \A i \in U + 1 .. U + 2 : upd_req'[i].id # t
        <5>1. \A i \in U + 1 .. U + 2 : i = U + 1 \/ i = U + 2
          BY <1>1
        <5> QED BY <1>2, <1>4, <3>1, <5>1
      <4>2. /\ sar'[t] = sar[t] /\ tx_app_table' = tx_app_table /\ U + 2 \in Nat /\ U <= U + 2
            /\ conn[t] # "CLOSED"
        BY <1>2, <2>1, <3>1
      <4>3. /\ Len(upd_req') = U + 2 /\ Len(upd_req) = U
            /\ \A i \in 1 .. Len(upd_req) : upd_req'[i] = upd_req[i]
            /\ \A i \in Len(upd_req) + 1 .. U + 2 : upd_req'[i].id # t
        BY <1>1, <1>2, <4>1
      <4>4. RAckd
        BY <1>2
      <4> QED BY <2>1, <4>2, <4>3, <4>4, AckdSame
    <3>2. CASE t = s
      <4>1. U + 2 \in 1 .. U + 2 /\ upd_req'[U + 2].id = t
        BY <1>2, <1>4, <3>2
      <4>2. ASSUME NEW i \in 1 .. U + 2, \A j \in i + 1 .. U + 2 : upd_req'[j].id # t  PROVE i = U + 2
        <5>1. U + 2 \notin i + 1 .. U + 2
          BY <4>1, <4>2
        <5> QED BY <5>1
      <4>3. sar'[t].ackd = v.ackd
        BY <1>2, <1>4, <3>2
      <4> QED BY <1>2, <1>4, <4>1, <4>2, <4>3, Zenon
    <3> QED BY <3>1, <3>2
  <2> QED BY <1>2, <2>1 DEF RAckd
<1>11. \A t \in Sessions : /\ (t # s => (Inits(t)' <=> Inits(t))) /\ Inits(s)'
                           /\ (Writing(t)' <=> Writing(t)) /\ (Asked(t)' <=> Asked(t))
  <2> SUFFICES ASSUME NEW t \in Sessions
               PROVE /\ (t # s => (Inits(t)' <=> Inits(t))) /\ Inits(s)'
                     /\ (Writing(t)' <=> Writing(t)) /\ (Asked(t)' <=> Asked(t))
    OBVIOUS
  <2>1. (Writing(t)' <=> Writing(t)) /\ (Asked(t)' <=> Asked(t))
    BY <1>2 DEF Writing, Asked
  <2>2. ASSUME t # s, NEW i \in 1 .. U + 2, upd_req'[i].id = t, upd_req'[i].init  PROVE Inits(t)
    <3>1. i # U + 1 /\ i # U + 2
      BY <1>2, <1>4, <2>2, Zenon
    <3>2. i \in 1 .. U
      BY <1>3, <3>1
    <3>3. upd_req'[i] = upd_req[i]
      BY <1>2, <3>2
    <3> QED BY <1>1, <2>2, <3>2, <3>3, Zenon DEF Inits
  <2>3. ASSUME NEW i \in 1 .. U, upd_req[i].id = t, upd_req[i].init  PROVE Inits(t)'
    <3>1. i \in 1 .. U + 2
      BY <1>1
    <3> QED BY <1>2, <2>3, <3>1, Zenon DEF Inits
  <2>4. Inits(s)'
    <3>1. U + 1 \in 1 .. U + 2
      BY <1>1
    <3> QED BY <1>2, <1>4, <3>1, Zenon DEF Inits
  <2> QED BY <1>1, <1>2, <2>1, <2>2, <2>3, <2>4, Zenon DEF Inits
<1>12. ~Writing(s) /\ ~Asked(s)
  BY <1>6 DEF Writing, Asked
<1>13. RInits'
  <2>1. ASSUME NEW i \in 1 .. U + 2, upd_req'[i].init  PROVE upd_req'[i].ackd = Pointer(0)
    <3>1. CASE i \in 1 .. U
      <4>1. upd_req'[i] = upd_req[i]
        BY <1>2, <3>1
      <4> QED BY <1>1, <1>2, <2>1, <3>1, <4>1, Zenon DEF RInits
    <3>2. CASE i = U + 1
      BY <1>2, <1>4, <1>5, <3>2
    <3>3. CASE i = U + 2
      BY <1>2, <1>4, <1>5, <3>3
    <3> QED BY <1>3, <3>1, <3>2, <3>3
  <2>2. ASSUME NEW t \in Sessions, Inits(t)'
        PROVE  reserved[t] = 0 /\ ~Writing(t) /\ (Asked(t) => table_rsp = <<>>)
    <3>1. CASE t = s
      BY <1>6, <1>12, <3>1
    <3>2. CASE t # s
      BY <1>2, <1>11, <2>2, <3>2 DEF RInits
    <3> QED BY <3>1, <3>2
  <2> QED BY <1>2, <1>11, <2>1, <2>2 DEF RInits, Pointer, Low
<1>14. RIdeal'
  <2>1. ASSUME NEW t \in Sessions, conn'[t] # "CLOSED", ~Inits(t)', ~Writing(t)
        PROVE  tx_app_table[t].app_written_ideal = Pointer(reserved[t])
    <3>1. t # s
      BY <1>11, <2>1
    <3>2. conn[t] # "CLOSED" /\ ~Inits(t)
      BY <1>2, <1>11, <2>1, <3>1
    <3> QED BY <1>2, <2>1, <3>2 DEF RIdeal
  <2> QED BY <1>2, <1>11, <2>1 DEF RIdeal, Pointer, Low
<1>15. RAnswer'
  BY <1>2 DEF RAnswer, Pointer, Low
<1> QED BY <1>7, <1>8, <1>9, <1>10, <1>13, <1>14, <1>15 DEF Space

LEMMA SpaceClose ==
  ASSUME TInv, Space, NEW s \in Sessions, Close(s)
  PROVE  Space'
<1>1. /\ RClosed /\ RCounts /\ RRequest /\ RAckd /\ RInits /\ RIdeal /\ RAnswer
      /\ conn[s] = "ESTABLISHED" /\ conn'[s] = "FIN_WAIT_1"
      /\ \A t \in Sessions : t # s => conn'[t] = conn[t] /\ closed_at'[t] = closed_at[t]
      /\ UNCHANGED <<tx_app_table, table_req, table_rsp, upd_req, fsm, sar, reserved, stored, published, acked>>
  BY CloseStep DEF Space
<1>2. \A t \in Sessions : conn'[t] = "CLOSED" <=> conn[t] = "CLOSED"
  BY <1>1
<1>3. \A t \in Sessions : conn'[t] = "CLOSED" => closed_at'[t] = closed_at[t]
  BY <1>1
<1>4. RClosed'
  BY <1>1, <1>2, <1>3 DEF RClosed
<1>5. RCounts'
  BY <1>1, <1>2 DEF RCounts, Pointer, Low
<1>6. RRequest' /\ RAckd'
  BY <1>1, <1>2 DEF RRequest, RAckd
<1>7. RInits'
  BY <1>1 DEF RInits, Inits, Asked, Writing, Pointer, Low
<1>8. RIdeal'
  BY <1>1, <1>2 DEF RIdeal, Inits, Writing, Pointer, Low
<1>9. RAnswer'
  BY <1>1 DEF RAnswer, Pointer, Low
<1> QED BY <1>4, <1>5, <1>6, <1>7, <1>8, <1>9 DEF Space

\* Nothing has failed before a state in which nothing has failed.
LEMMA NotFailedBefore ==
  ASSUME TInv, [Next]_vars, ~Failed'
  PROVE  ~Failed /\ Healthy /\ Healthy' /\ ~Mover(FALSE)
<1>1. Healthy' /\ Healthy /\ bad' = {}
  BY HealthyBefore DEF Failed
<1>2. ASSUME NEW okay \in BOOLEAN, Mover(okay)  PROVE bad = {}
  <2>1. bad' = bad \/ bad' = bad \cup {jobs[1].no}
    BY <1>2, MoverStep, Zenon
  <2> QED BY <1>1, <2>1
<1>3. ASSUME Mover(FALSE)  PROVE FALSE
  <2>1. FALSE \in BOOLEAN
    OBVIOUS
  <2>2. bad' = bad \cup {jobs[1].no}
    BY <1>3, <2>1, MoverStep, Zenon
  <2> QED BY <1>1, <2>2
<1>4. ASSUME NEW s \in Sessions, NEW n \in Lengths, ReadRequest(s, n) \/ Acked(s, n)  PROVE bad' = bad
  BY <1>4, ReadRequestStep, AckedStep
<1>5. ASSUME NEW s \in Sessions, Establish(s) \/ Close(s)  PROVE bad' = bad
  BY <1>5, EstablishStep, CloseStep
<1>6. ASSUME TableUpdate \/ TableAccess \/ Refuse \/ Accept \/ ReadData \/ WriterCmd \/ WriterData
      PROVE  bad' = bad
  BY <1>6, TableUpdateStep, TableAccessStep, RefuseStep, AcceptStep, ReadDataStep, WriterCmdStep,
     WriterDataStep
<1>7. ASSUME MergeConn \/ MergeData \/ TakeTx \/ PassFin \/ Status1 \/ Status2 \/ SarWritten \/ EventTaken
      PROVE  bad' = bad
  BY <1>7, MergeConnStep, MergeDataStep, TakeTxStep, PassFinStep, Status1Step, Status2Step,
     SarWrittenStep, EventTakenStep
<1>8. ASSUME UNCHANGED vars  PROVE bad' = bad
  BY <1>8 DEF vars, history
<1>9. bad = {}
  BY <1>1, <1>2, <1>4, <1>5, <1>6, <1>7, <1>8
     DEF Next, DataHandler, Table, Writer, Merger, RspHandler, Inputs
<1> QED BY <1>1, <1>3, <1>9 DEF Failed

LEMMA SpaceNext ==
  ASSUME TInv, Order, Bytes, Space, [Next]_vars, ~Failed'
  PROVE  Space'
<1>0. Healthy' /\ ~Mover(FALSE)
  BY NotFailedBefore
<1>1. ASSUME NEW okay \in BOOLEAN, Mover(okay)  PROVE Space'
  <2>1. Mover(TRUE)
    BY <1>0, <1>1, Zenon
  <2> QED BY <2>1, SpaceMover
<1>2. ASSUME NEW s \in Sessions, NEW n \in Lengths, ReadRequest(s, n) \/ Acked(s, n)  PROVE Space'
  BY <1>2, SpaceReadRequest, SpaceAcked
<1>3. ASSUME NEW s \in Sessions, Establish(s) \/ Close(s)  PROVE Space'
  BY <1>3, SpaceEstablish, SpaceClose
<1>4. ASSUME WriterCmd \/ WriterData \/ MergeConn \/ MergeData  PROVE Space'
  BY <1>4, SpaceSame, WriterCmdStep, WriterDataStep, MergeConnStep, MergeDataStep
<1>5. ASSUME TakeTx \/ PassFin \/ Status1 \/ Status2 \/ EventTaken  PROVE Space'
  BY <1>5, SpaceSame, TakeTxStep, PassFinStep, Status1Step, Status2Step, EventTakenStep
<1>6. ASSUME UNCHANGED vars  PROVE Space'
  BY <1>6, SpaceSame DEF vars, handler, history
<1> QED BY <1>0, <1>1, <1>2, <1>3, <1>4, <1>5, <1>6, SpaceTableUpdate, SpaceTableAccess, SpaceIdle,
           SpaceAccept, SpaceSarWritten
        DEF Next, DataHandler, Table, Writer, Merger, RspHandler, Inputs

-----------------------------------------------------------------------------
(* The FINs.                                                                 *)

\* What waits before and in the cache.
LEMMA Events ==
  ASSUME TInv
  PROVE  /\ Len(conn_ev) \in Nat /\ Len(cache) \in Nat /\ Len(data_ev) \in Nat
         /\ \A i \in 1 .. Len(conn_ev) : conn_ev[i].id \in Sessions /\ conn_ev[i].type = "FIN"
         /\ \A i \in 1 .. Len(cache) : cache[i].id \in Sessions
         /\ \A i \in 1 .. Len(data_ev) : data_ev[i].id \in Sessions /\ data_ev[i].type = "TX"
<1>1. conn_ev \in Seq(FinEv) /\ cache \in Seq(WriteEv \cup FinEv) /\ data_ev \in Seq(WriteEv)
  BY DEF TInv, TFsm, TMerge
<1>2. Len(conn_ev) \in Nat /\ \A i \in 1 .. Len(conn_ev) : conn_ev[i] \in FinEv
  BY <1>1, In
<1>3. Len(cache) \in Nat /\ \A i \in 1 .. Len(cache) : cache[i] \in WriteEv \cup FinEv
  BY <1>1, In
<1>4. Len(data_ev) \in Nat /\ \A i \in 1 .. Len(data_ev) : data_ev[i] \in WriteEv
  BY <1>1, In
<1> QED BY <1>2, <1>3, <1>4, Kinds

\* The steps that touch nothing of it.
LEMMA FinsSame ==
  ASSUME Fins, UNCHANGED <<conn, reserved, closed_at, conn_ev, cache, data_ev>>
  PROVE  Fins'
<1>1. FClosed'
  BY DEF Fins, FClosed
<1>2. FEvents'
  BY DEF Fins, FEvents
<1> QED BY <1>1, <1>2 DEF Fins

LEMMA FinsAccept ==
  ASSUME TInv, Fins, Space, Accept, Healthy'
  PROVE  Fins'
<1>1. PICK s, ev : s = fsm.id /\ ev = accepted'[Len(accepted) + 1]
  OBVIOUS
<1>2. /\ FClosed /\ FEvents /\ s \in Sessions /\ conn[s] = "ESTABLISHED" /\ reserved[s] < reserved'[s]
      /\ \A t \in Sessions : t # s => reserved'[t] = reserved[t]
      /\ ev.id = s /\ Grows(data_ev, data_ev', ev) /\ TInv'
      /\ UNCHANGED <<conn, closed_at, conn_ev, cache>>
  BY <1>1, SpaceAccept, AcceptStep DEF Fins, TxEvent
<1>3. PICK D \in Nat : D = Len(data_ev)
  BY Events
<1>4. /\ Len(data_ev') = D + 1 /\ data_ev'[D + 1] = ev /\ \A i \in 1 .. D : data_ev'[i] = data_ev[i]
      /\ \A i \in 1 .. D + 1 : i \in 1 .. D \/ i = D + 1
  BY <1>2, <1>3 DEF Grows
<1>5. FClosed'
  <2>1. ASSUME NEW t \in Sessions, conn[t] # "CLOSED"  PROVE closed_at[t] <= reserved'[t]
    <3>1. closed_at[t] <= reserved[t] /\ closed_at[t] \in Nat /\ reserved[t] \in Nat /\ reserved'[t] \in Nat
      BY <1>2, <2>1 DEF FClosed, TInv, THistory, Counts
    <3>2. CASE t = s
      BY <1>2, <3>1, <3>2
    <3>3. CASE t # s
      BY <1>2, <3>1, <3>3
    <3> QED BY <3>2, <3>3
  <2> QED BY <1>2, <2>1 DEF FClosed
<1>6. FEvents'
  <2>1. ASSUME NEW i \in 1 .. Len(cache), cache[i].type = "FIN", NEW j \in 1 .. D + 1
        PROVE  data_ev'[j].id # cache[i].id
    <3>1. CASE j = D + 1
      <4>1. conn[cache[i].id] = "FIN_WAIT_1"
        BY <1>2, <2>1 DEF FEvents
      <4> QED BY <1>2, <1>4, <3>1, <4>1
    <3>2. CASE j \in 1 .. D
      BY <1>2, <1>3, <1>4, <2>1, <3>2 DEF FEvents
    <3> QED BY <1>4, <3>1, <3>2
  <2> QED BY <1>2, <1>4, <2>1 DEF FEvents
<1> QED BY <1>5, <1>6 DEF Fins

LEMMA FinsMergeConn ==
  ASSUME TInv, Fins, MergeConn, Healthy'
  PROVE  Fins'
<1>1. PICK f : f = conn_ev[1]
  OBVIOUS
<1>2. /\ FClosed /\ FEvents /\ f \in FinEv /\ Takes(conn_ev, conn_ev') /\ Grows(cache, cache', f)
      /\ \A i \in 1 .. Len(data_ev) : data_ev[i].id # f.id
      /\ UNCHANGED <<conn, reserved, closed_at, data_ev>>
  BY <1>1, MergeConnStep DEF Fins
<1>3. PICK C \in Nat, N \in Nat : C = Len(cache) /\ N = Len(conn_ev)
  BY Events
<1>4. /\ Len(cache') = C + 1 /\ cache'[C + 1] = f /\ \A i \in 1 .. C : cache'[i] = cache[i]
      /\ \A i \in 1 .. C + 1 : i \in 1 .. C \/ i = C + 1
      /\ N > 0 /\ Len(conn_ev') = N - 1 /\ \A i \in 1 .. N - 1 : conn_ev'[i] = conn_ev[i + 1]
  BY <1>2, <1>3 DEF Takes, Grows
<1>5. f.type = "FIN" /\ conn[f.id] = "FIN_WAIT_1"
  <2>1. 1 \in 1 .. Len(conn_ev)
    BY <1>3, <1>4
  <2> QED BY <1>1, <1>2, <2>1, Kinds DEF FEvents
<1>6. FClosed'
  BY <1>2 DEF FClosed
<1>7. ASSUME NEW i \in 1 .. N - 1  PROVE conn[conn_ev'[i].id] = "FIN_WAIT_1"
  <2>1. PICK k \in 1 .. N : k = i + 1
    OBVIOUS
  <2> QED BY <1>2, <1>3, <1>4, <2>1 DEF FEvents
<1>8. ASSUME NEW i \in 1 .. C + 1, cache'[i].type = "FIN"
      PROVE  /\ conn[cache'[i].id] = "FIN_WAIT_1" /\ \A j \in 1 .. Len(data_ev) : data_ev[j].id # cache'[i].id
             /\ \A j \in i + 1 .. C + 1 : cache'[j].type = "TX" => cache'[j].id # cache'[i].id
  <2>1. CASE i = C + 1
    <3>1. \A j \in i + 1 .. C + 1 : FALSE
      BY <2>1
    <3> QED BY <1>2, <1>4, <1>5, <2>1, <3>1
  <2>2. CASE i \in 1 .. C
    <3>1. cache'[i] = cache[i]
      BY <1>4, <2>2
    <3>2. ASSUME NEW j \in i + 1 .. C + 1, cache'[j].type = "TX"  PROVE cache'[j].id # cache[i].id
      <4>1. j # C + 1
        BY <1>4, <1>5, <3>2
      <4>2. j \in 1 .. C /\ j \in i + 1 .. C
        BY <2>2, <4>1
      <4>3. cache'[j] = cache[j]
        BY <1>4, <4>2
      <4> QED BY <1>2, <1>3, <1>8, <2>2, <3>1, <3>2, <4>2, <4>3 DEF FEvents
    <3>3. /\ conn[cache[i].id] = "FIN_WAIT_1" /\ \A j \in 1 .. Len(data_ev) : data_ev[j].id # cache[i].id
      BY <1>2, <1>3, <1>8, <2>2, <3>1 DEF FEvents
    <3> QED BY <3>1, <3>2, <3>3
  <2> QED BY <1>4, <2>1, <2>2
<1>9. FEvents'
  BY <1>2, <1>4, <1>7, <1>8 DEF FEvents
<1> QED BY <1>6, <1>9 DEF Fins

LEMMA FinsMergeData ==
  ASSUME TInv, Fins, MergeData
  PROVE  Fins'
<1>1. PICK e : e = data_ev[1]
  OBVIOUS
<1>2. /\ FClosed /\ FEvents /\ e \in WriteEv /\ Takes(data_ev, data_ev') /\ Grows(cache, cache', e)
      /\ UNCHANGED <<conn, reserved, closed_at, conn_ev>>
  BY <1>1, MergeDataStep DEF Fins
<1>3. PICK C \in Nat, D \in Nat : C = Len(cache) /\ D = Len(data_ev)
  BY Events
<1>4. /\ Len(cache') = C + 1 /\ cache'[C + 1] = e /\ \A i \in 1 .. C : cache'[i] = cache[i]
      /\ \A i \in 1 .. C + 1 : i \in 1 .. C \/ i = C + 1
      /\ D > 0 /\ Len(data_ev') = D - 1 /\ \A i \in 1 .. D - 1 : data_ev'[i] = data_ev[i + 1]
      /\ 1 \in 1 .. D
  BY <1>2, <1>3 DEF Takes, Grows
<1>5. e.type = "TX"
  BY <1>2, Kinds
<1>6. FClosed'
  BY <1>2 DEF FClosed
<1>7. ASSUME NEW i \in 1 .. C + 1, cache'[i].type = "FIN"
      PROVE  /\ conn[cache'[i].id] = "FIN_WAIT_1" /\ \A j \in 1 .. D - 1 : data_ev'[j].id # cache'[i].id
             /\ \A j \in i + 1 .. C + 1 : cache'[j].type = "TX" => cache'[j].id # cache'[i].id
  <2>1. i \in 1 .. C
    <3>1. i # C + 1
      BY <1>4, <1>5, <1>7
    <3> QED BY <1>4, <3>1
  <2>2. cache'[i] = cache[i]
    BY <1>4, <2>1
  <2>3. /\ conn[cache[i].id] = "FIN_WAIT_1" /\ \A j \in 1 .. D : data_ev[j].id # cache[i].id
        /\ \A j \in i + 1 .. C : cache[j].type = "TX" => cache[j].id # cache[i].id
    BY <1>2, <1>3, <1>7, <2>1, <2>2 DEF FEvents
  <2>4. ASSUME NEW j \in 1 .. D - 1  PROVE data_ev'[j].id # cache[i].id
    <3>1. PICK k \in 1 .. D : k = j + 1
      OBVIOUS
    <3> QED BY <1>4, <2>3, <3>1
  <2>5. ASSUME NEW j \in i + 1 .. C + 1, cache'[j].type = "TX"  PROVE cache'[j].id # cache[i].id
    <3>1. CASE j = C + 1
      BY <1>1, <1>4, <2>3, <3>1
    <3>2. CASE j # C + 1
      <4>1. j \in 1 .. C /\ j \in i + 1 .. C
        BY <2>1, <3>2
      <4> QED BY <1>4, <2>3, <2>5, <4>1
    <3> QED BY <3>1, <3>2
  <2> QED BY <2>2, <2>3, <2>4, <2>5
<1>8. FEvents'
  BY <1>2, <1>4, <1>7 DEF FEvents
<1> QED BY <1>6, <1>8 DEF Fins

\* The event at the head of the cache leaves.
LEMMA FinsTake ==
  ASSUME TInv, Fins, TakeTx \/ PassFin
  PROVE  Fins'
<1>1. /\ FClosed /\ FEvents /\ Takes(cache, cache')
      /\ UNCHANGED <<conn, reserved, closed_at, conn_ev, data_ev>>
  BY TakeTxStep, PassFinStep DEF Fins
<1>2. PICK C \in Nat : C = Len(cache)
  BY Events
<1>3. C > 0 /\ Len(cache') = C - 1 /\ \A i \in 1 .. C - 1 : cache'[i] = cache[i + 1]
  BY <1>1, <1>2 DEF Takes
<1>4. FClosed'
  BY <1>1 DEF FClosed
<1>5. ASSUME NEW i \in 1 .. C - 1, cache'[i].type = "FIN"
      PROVE  /\ conn[cache'[i].id] = "FIN_WAIT_1" /\ \A j \in 1 .. Len(data_ev) : data_ev[j].id # cache'[i].id
             /\ \A j \in i + 1 .. C - 1 : cache'[j].type = "TX" => cache'[j].id # cache'[i].id
  <2>1. PICK k \in 1 .. C : k = i + 1
    OBVIOUS
  <2>2. cache'[i] = cache[k]
    BY <1>3, <2>1
  <2>3. /\ conn[cache[k].id] = "FIN_WAIT_1" /\ \A j \in 1 .. Len(data_ev) : data_ev[j].id # cache[k].id
        /\ \A j \in k + 1 .. C : cache[j].type = "TX" => cache[j].id # cache[k].id
    BY <1>1, <1>2, <1>5, <2>2 DEF FEvents
  <2>4. ASSUME NEW j \in i + 1 .. C - 1, cache'[j].type = "TX"  PROVE cache'[j].id # cache[k].id
    <3>1. PICK l \in k + 1 .. C : l = j + 1
      BY <2>1
    <3>2. cache'[j] = cache[l]
      <4>1. j \in 1 .. C - 1
        OBVIOUS
      <4> QED BY <1>3, <3>1, <4>1
    <3> QED BY <2>3, <2>4, <3>2
  <2> QED BY <2>2, <2>3, <2>4
<1>6. FEvents'
  BY <1>1, <1>3, <1>5 DEF FEvents
<1> QED BY <1>4, <1>6 DEF Fins

LEMMA FinsClose ==
  ASSUME TInv, Fins, NEW s \in Sessions, Close(s)
  PROVE  Fins'
<1>1. PICK f : f = FinEvent(s)
  OBVIOUS
<1>2. /\ FClosed /\ FEvents /\ conn[s] = "ESTABLISHED" /\ Grows(conn_ev, conn_ev', f) /\ f.id = s
      /\ conn'[s] = "FIN_WAIT_1" /\ closed_at'[s] = reserved[s] /\ reserved[s] \in Nat
      /\ \A t \in Sessions : t # s => conn'[t] = conn[t] /\ closed_at'[t] = closed_at[t]
      /\ UNCHANGED <<reserved, cache, data_ev>>
  BY <1>1, CloseStep DEF Fins, FinEvent, TInv, THistory, Counts
<1>3. PICK N \in Nat : N = Len(conn_ev)
  BY Events
<1>4. /\ Len(conn_ev') = N + 1 /\ conn_ev'[N + 1] = f /\ \A i \in 1 .. N : conn_ev'[i] = conn_ev[i]
      /\ \A i \in 1 .. N + 1 : i \in 1 .. N \/ i = N + 1
  BY <1>2, <1>3 DEF Grows
<1>5. \A t \in Sessions : conn[t] = "FIN_WAIT_1" => conn'[t] = "FIN_WAIT_1"
  BY <1>2
<1>6. FClosed'
  <2>1. ASSUME NEW t \in Sessions, conn'[t] # "CLOSED"  PROVE closed_at'[t] <= reserved[t]
    <3>1. CASE t = s
      BY <1>2, <3>1
    <3>2. CASE t # s
      BY <1>2, <2>1, <3>2 DEF FClosed
    <3> QED BY <3>1, <3>2
  <2> QED BY <1>2, <2>1 DEF FClosed
<1>7. FEvents'
  <2>1. ASSUME NEW i \in 1 .. N + 1  PROVE conn'[conn_ev'[i].id] = "FIN_WAIT_1"
    <3>1. CASE i = N + 1
      BY <1>2, <1>4, <3>1
    <3>2. CASE i \in 1 .. N
      <4>1. conn_ev[i].id \in Sessions /\ conn[conn_ev[i].id] = "FIN_WAIT_1"
        BY <1>2, <1>3, <3>2, Events DEF FEvents
      <4> QED BY <1>4, <1>5, <3>2, <4>1
    <3> QED BY <1>4, <3>1, <3>2
  <2>2. \A i \in 1 .. Len(cache) : cache[i].type = "FIN" => conn'[cache[i].id] = "FIN_WAIT_1"
    BY <1>2, <1>5, Events DEF FEvents
  <2> QED BY <1>2, <1>4, <2>1, <2>2 DEF FEvents
<1> QED BY <1>6, <1>7 DEF Fins

LEMMA FinsEstablish ==
  ASSUME TInv, Fins, Space, NEW s \in Sessions, Establish(s)
  PROVE  Fins'
<1>1. /\ FClosed /\ FEvents /\ conn[s] = "CLOSED" /\ conn'[s] = "ESTABLISHED"
      /\ \A t \in Sessions : t # s => conn'[t] = conn[t]
      /\ UNCHANGED <<closed_at, reserved, cache, data_ev, conn_ev>>
  BY EstablishStep DEF Fins
<1>2. \A t \in Sessions : conn[t] = "FIN_WAIT_1" => conn'[t] = "FIN_WAIT_1"
  BY <1>1
<1>3. FClosed'
  <2>1. closed_at[s] <= reserved[s]
    <3>1. closed_at[s] = 0 /\ reserved[s] = 0
      BY <1>1 DEF Space, RClosed
    <3> QED BY <3>1
  <2> QED BY <1>1, <2>1 DEF FClosed
<1>4. FEvents'
  <2>1. \A i \in 1 .. Len(conn_ev) : conn'[conn_ev[i].id] = "FIN_WAIT_1"
    BY <1>1, <1>2, Events DEF FEvents
  <2>2. \A i \in 1 .. Len(cache) : cache[i].type = "FIN" => conn'[cache[i].id] = "FIN_WAIT_1"
    BY <1>1, <1>2, Events DEF FEvents
  <2> QED BY <1>1, <2>1, <2>2 DEF FEvents
<1> QED BY <1>3, <1>4 DEF Fins

LEMMA FinsNext ==
  ASSUME TInv, Space, Fins, [Next]_vars, ~Failed'
  PROVE  Fins'
<1>0. Healthy'
  BY NotFailedBefore
<1>1. ASSUME NEW okay \in BOOLEAN, Mover(okay)  PROVE Fins'
  BY <1>1, FinsSame, MoverStep
<1>2. ASSUME NEW s \in Sessions, NEW n \in Lengths, ReadRequest(s, n) \/ Acked(s, n)  PROVE Fins'
  BY <1>2, FinsSame, ReadRequestStep, AckedStep
<1>3. ASSUME TableUpdate \/ TableAccess \/ Refuse \/ ReadData \/ WriterCmd \/ WriterData  PROVE Fins'
  BY <1>3, FinsSame, TableUpdateStep, TableAccessStep, RefuseStep, ReadDataStep, WriterCmdStep,
     WriterDataStep
<1>4. ASSUME Status1 \/ Status2 \/ SarWritten \/ EventTaken  PROVE Fins'
  BY <1>4, FinsSame, Status1Step, Status2Step, SarWrittenStep, EventTakenStep
<1>5. ASSUME UNCHANGED vars  PROVE Fins'
  BY <1>5, FinsSame DEF vars, handler, history
<1> QED BY <1>0, <1>1, <1>2, <1>3, <1>4, <1>5, FinsAccept, FinsMergeConn, FinsMergeData, FinsTake,
           FinsClose, FinsEstablish
        DEF Next, DataHandler, Table, Writer, Merger, RspHandler, Inputs

-----------------------------------------------------------------------------
(* The inductive invariant.                                                  *)

LEMMA BytesNext ==
  ASSUME TInv, Order, Bytes, Space, [Next]_vars, ~Failed'
  PROVE  Bytes'
<1>1. ~Mover(FALSE) /\ RClosed /\ RCounts /\ RAnswer
  BY NotFailedBefore DEF Space
<1>2. ASSUME Mover(TRUE)  PROVE Bytes'
  BY <1>2, BytesMover
<1>3. ASSUME SarWritten  PROVE Bytes'
  BY <1>1, <1>3, BytesSarWritten
<1> QED BY <1>1, <1>2, <1>3, BytesOther, BytesAccept, BytesWriterData, BytesStatus1, BytesStatus2

LEMMA IInvInit == Init => IInv
<1> SUFFICES ASSUME Init  PROVE IInv
  OBVIOUS
<1>1. TInv /\ Order
  BY TypeInit, OrderInit
<1>2. /\ Len(accepted) = 0 /\ Len(jobs) = 0 /\ Len(sar_upd) = 0 /\ Len(statuses) = 0
      /\ Len(upd_req) = 0 /\ Len(table_req) = 0 /\ Len(conn_ev) = 0 /\ Len(cache) = 0
      /\ table_req = <<>> /\ table_rsp = <<>> /\ fsm.state = "READ_REQUEST"
      /\ Len(mem_cmd) = 0 /\ writer = Nothing
  BY DEF Init, Idle
<1>3. \A s \in Sessions : /\ conn[s] = "CLOSED" /\ reserved[s] = 0 /\ stored[s] = 0
                          /\ published[s] = 0 /\ acked[s] = 0 /\ closed_at[s] = 0
  BY DEF Init, Zero
<1>4. Issued = 0
  BY <1>2 DEF Issued, Begun
<1>5. Bytes
  <2>1. BWrites
    BY <1>2, <1>3 DEF BWrites
  <2>2. BStored
    BY <1>2, <1>4 DEF BStored
  <2>3. BTold
    BY <1>2 DEF BTold
  <2>4. BOkay
    BY <1>2 DEF BOkay
  <2> QED BY <2>1, <2>2, <2>3, <2>4 DEF Bytes
<1>6. Space
  <2>1. RClosed
    BY <1>2, <1>3 DEF RClosed
  <2>2. RCounts
    BY <1>3, Modulus DEF RCounts
  <2>3. RRequest
    BY <1>2 DEF RRequest
  <2>4. RAckd
    BY <1>2, <1>3 DEF RAckd
  <2>5. RInits
    BY <1>2 DEF RInits, Inits
  <2>6. RIdeal
    BY <1>2, <1>3 DEF RIdeal
  <2>7. RAnswer
    BY <1>2 DEF RAnswer
  <2> QED BY <2>1, <2>2, <2>3, <2>4, <2>5, <2>6, <2>7 DEF Space
<1>7. Fins
  BY <1>2, <1>3 DEF Fins, FClosed, FEvents
<1> QED BY <1>1, <1>5, <1>6, <1>7 DEF IInv

LEMMA IInvNext == IInv /\ [Next]_vars => IInv'
<1> SUFFICES ASSUME IInv, [Next]_vars  PROVE IInv'
  OBVIOUS
<1>1. TInv /\ TInv' /\ (Healthy => Order) /\ (~Failed => Bytes /\ Space /\ Fins)
  BY TypeNext DEF IInv
<1>2. Healthy' => Order'
  BY <1>1, HealthyBefore, OrderNext
<1>3. ASSUME ~Failed'  PROVE Bytes' /\ Space' /\ Fins'
  <2>1. Order /\ Bytes /\ Space /\ Fins
    BY <1>1, <1>3, NotFailedBefore
  <2> QED BY <1>1, <1>3, <2>1, BytesNext, SpaceNext, FinsNext
<1> QED BY <1>1, <1>2, <1>3 DEF IInv

LEMMA IInvInvariant == Spec => []IInv
<1> QED BY IInvInit, IInvNext, PTL DEF Spec

-----------------------------------------------------------------------------
(* The ring.                                                                 *)

\* A table of which one entry changes.
LEMMA OneEntry ==
  ASSUME NEW f \in Counts, NEW g \in Counts, NEW s \in Sessions, \A t \in Sessions : t # s => g[t] = f[t]
  PROVE  g = [f EXCEPT ![s] = g[s]]
BY DEF Counts

LEMMA RingStep ==
  ASSUME IInv, [Next]_vars
  PROVE  [Ring!Next]_(Ring!vars)
<1>1. CASE Failed'
  BY <1>1 DEF Ring!Next
<1>2. CASE ~Failed'
  <2>1. TInv /\ TInv' /\ ~Failed /\ Healthy' /\ ~Mover(FALSE) /\ Order /\ Bytes /\ Space
        /\ RClosed /\ RCounts
    BY <1>2, NotFailedBefore, TypeNext DEF IInv, Space
  <2>2. /\ reserved \in Counts /\ stored \in Counts /\ published \in Counts /\ acked \in Counts
        /\ reserved' \in Counts /\ stored' \in Counts /\ published' \in Counts /\ acked' \in Counts
    BY <2>1 DEF TInv, THistory
  <2>3. Failed' = Failed
    BY <1>2, <2>1 DEF Failed
  <2>4. ASSUME UNCHANGED <<reserved, stored, published, acked>>  PROVE [Ring!Next]_(Ring!vars)
    BY <2>3, <2>4 DEF Ring!vars
  <2>5. ASSUME Accept  PROVE Ring!Next
    <3>1. PICK s : s = fsm.id
      OBVIOUS
    <3>2. /\ s \in Sessions /\ reserved[s] < reserved'[s] /\ reserved'[s] - acked[s] <= BufMod - 1
          /\ \A t \in Sessions : t # s => reserved'[t] = reserved[t]
          /\ UNCHANGED <<stored, published, acked>>
      BY <2>1, <2>5, <3>1, SpaceAccept, RoomFor, AcceptStep
    <3>3. reserved' = [reserved EXCEPT ![s] = reserved'[s]]
      BY <2>2, <3>2, OneEntry
    <3>4. reserved'[s] > reserved[s]
      BY <2>2, <3>2 DEF Counts
    <3>5. Ring!Reserve(s)
      BY <3>2, <3>3, <3>4 DEF Ring!Reserve
    <3> QED BY <1>2, <3>2, <3>5 DEF Ring!Next
  <2>6. ASSUME Mover(TRUE)  PROVE Ring!Next
    <3>1. PICK s : s = jobs[1].id
      OBVIOUS
    <3>2. /\ s \in Sessions /\ stored'[s] <= reserved[s] /\ stored'[s] = stored[s] + jobs[1].len
          /\ jobs[1].len \in Nat
      BY <2>1, <2>6, <3>1, BytesMover
    <3>3. (\A t \in Sessions : t # s => stored'[t] = stored[t]) /\ UNCHANGED <<reserved, published, acked>>
      <4>1. TRUE \in BOOLEAN
        OBVIOUS
      <4> QED BY <2>1, <2>6, <3>1, <4>1, MoverStep, Zenon
    <3>4. stored' = [stored EXCEPT ![s] = stored'[s]]
      BY <2>2, <3>2, <3>3, OneEntry
    <3>5. stored'[s] >= stored[s]
      BY <2>2, <3>2 DEF Counts
    <3>6. Ring!Store(s)
      BY <3>2, <3>3, <3>4, <3>5 DEF Ring!Store
    <3> QED BY <1>2, <3>2, <3>6 DEF Ring!Next
  <2>7. ASSUME SarWritten  PROVE Ring!Next
    <3>1. PICK s : s = sar_upd[1].id
      OBVIOUS
    <3>2. /\ s \in Sessions /\ published[s] < published'[s] /\ published'[s] <= stored[s]
      BY <2>1, <2>7, <3>1, BytesSarWritten
    <3>3. /\ \A t \in Sessions : t # s => published'[t] = published[t]
          /\ UNCHANGED <<reserved, stored, acked>>
      BY <2>1, <2>7, <3>1, SarWrittenStep
    <3>4. published' = [published EXCEPT ![s] = published'[s]]
      BY <2>2, <3>2, <3>3, OneEntry
    <3>5. published'[s] > published[s]
      BY <2>2, <3>2 DEF Counts
    <3>6. Ring!Publish(s)
      BY <3>2, <3>3, <3>4, <3>5 DEF Ring!Publish
    <3> QED BY <1>2, <3>2, <3>6 DEF Ring!Next
  <2>8. ASSUME NEW s \in Sessions, NEW n \in Lengths, Acked(s, n)  PROVE Ring!Next
    <3>1. acked[s] < acked'[s] /\ acked'[s] <= published[s]
      BY <2>1, <2>8, SpaceAcked
    <3>2. (\A t \in Sessions : t # s => acked'[t] = acked[t]) /\ UNCHANGED <<reserved, stored, published>>
      BY <2>1, <2>8, AckedStep
    <3>3. acked' = [acked EXCEPT ![s] = acked'[s]]
      BY <2>2, <3>2, OneEntry
    <3>4. acked'[s] > acked[s]
      BY <2>2, <3>1 DEF Counts
    <3>5. Ring!Ack(s)
      BY <3>1, <3>2, <3>3, <3>4 DEF Ring!Ack
    <3> QED BY <1>2, <3>5 DEF Ring!Next
  <2>9. ASSUME TableUpdate \/ TableAccess \/ Refuse \/ ReadData \/ WriterCmd \/ WriterData \/ MergeConn
        PROVE  UNCHANGED <<reserved, stored, published, acked>>
    BY <2>1, <2>9, TableUpdateStep, TableAccessStep, RefuseStep, ReadDataStep, WriterCmdStep,
       WriterDataStep, MergeConnStep
  <2>10. ASSUME MergeData \/ TakeTx \/ PassFin \/ Status1 \/ Status2 \/ EventTaken
         PROVE  UNCHANGED <<reserved, stored, published, acked>>
    BY <2>1, <2>10, MergeDataStep, TakeTxStep, PassFinStep, Status1Step, Status2Step, EventTakenStep
  <2>11. ASSUME NEW s \in Sessions, Establish(s) \/ Close(s)
         PROVE  UNCHANGED <<reserved, stored, published, acked>>
    BY <2>1, <2>11, EstablishStep, CloseStep
  <2>12. ASSUME NEW s \in Sessions, NEW n \in Lengths, ReadRequest(s, n)
         PROVE  UNCHANGED <<reserved, stored, published, acked>>
    BY <2>1, <2>12, ReadRequestStep
  <2>13. ASSUME UNCHANGED vars  PROVE UNCHANGED <<reserved, stored, published, acked>>
    BY <2>13 DEF vars, history
  <2>14. ASSUME NEW okay \in BOOLEAN, Mover(okay)  PROVE Mover(TRUE)
    BY <2>1, <2>14, Zenon
  <2> QED BY <2>4, <2>5, <2>6, <2>7, <2>8, <2>9, <2>10, <2>11, <2>12, <2>13, <2>14, Zenon
          DEF Next, DataHandler, Table, Writer, Merger, RspHandler, Inputs
<1> QED BY <1>1, <1>2

LEMMA RingInit == Init => Ring!Init
<1> SUFFICES ASSUME Init  PROVE Ring!Init
  OBVIOUS
<1>1. Failed = FALSE
  BY DEF Init, Failed, Healthy
<1> QED BY <1>1 DEF Init, Zero, Ring!Init, Ring!Zero

\* The pointers of TxAppDataHandler and TxAppTableInterface, which wrap, and the copies of
\* ackd, which are late, give room only in free bytes, and the tx engine is told of stored
\* bytes only: until a write fails or a close overtakes data, the send buffer is a ring.
THEOREM ImplementsRingCorrect == Spec => ImplementsRing
<1>1. Init => Ring!Init
  BY RingInit
<1>2. IInv /\ [Next]_vars => [Ring!Next]_(Ring!vars)
  BY RingStep
<1> QED BY <1>1, <1>2, IInvInvariant, PTL DEF Spec, ImplementsRing, Ring!Spec

-----------------------------------------------------------------------------
(* The close behind the data.                                                *)

\* When a FIN is at the head of the cache, every write of its session is finished.
LEMMA FinLast ==
  ASSUME TInv, Order, Fins, PassFin, NEW n \in 1 .. Len(accepted), accepted[n].id = cache[1].id
  PROVE  n \in 1 .. Finished
<1>1. rsp = ReadEvent /\ rsp.state = "READ_EV" /\ cache[1] \in FinEv /\ cache[1].type = "FIN"
      /\ Takes(cache, cache')
  BY PassFinStep, Kinds
<1>2. PICK C \in Nat, D \in Nat, L \in Nat : C = Len(cache) /\ D = Len(data_ev) /\ L = Len(accepted)
  BY Sizes
<1>3. C > 0 /\ 1 \in 1 .. C
  BY <1>1, <1>2 DEF Takes
<1>4. OAccepted /\ OEvents /\ FEvents
  BY DEF Order, Fins
<1>5. Taken = Finished
  BY <1>1 DEF Taken, Finished
<1>6. PICK F \in Nat, M \in Nat : F = Finished /\ M = Merged
  BY <1>4, Positions
<1>7. M = L - D
  BY <1>2, <1>6 DEF Merged
<1>8. ~(n > M)
  <2> SUFFICES ASSUME n > M  PROVE FALSE
    OBVIOUS
  <2>1. PICK j \in 1 .. D : n = M + j
    <3>1. n - M \in 1 .. D /\ n = M + (n - M)
      BY <1>2, <1>7
    <3> QED BY <3>1
  <2>2. data_ev[j] = accepted[n]
    BY <1>2, <1>4, <1>6, <2>1 DEF OEvents
  <2> QED BY <1>1, <1>2, <1>3, <1>4, <2>2 DEF FEvents
<1>9. ~(n > F /\ n <= M)
  <2> SUFFICES ASSUME n > F, n <= M  PROVE FALSE
    OBVIOUS
  <2>1. n \in F + 1 .. M
    OBVIOUS
  <2>2. PICK i \in 1 .. C : cache[i].type = "TX" /\ cache[i].no = n
    BY <1>2, <1>4, <1>5, <1>6, <2>1 DEF OEvents
  <2>3. cache[i] = accepted[n]
    BY <1>2, <1>4, <2>2 DEF OEvents
  <2>4. i # 1
    BY <1>1, <2>2
  <2>5. i \in 1 + 1 .. C
    BY <2>4
  <2>6. cache[i].id # cache[1].id
    BY <1>1, <1>2, <1>3, <1>4, <2>2, <2>5 DEF FEvents
  <2> QED BY <2>3, <2>6
<1> QED BY <1>6, <1>8, <1>9

LEMMA FinStep ==
  ASSUME IInv, PassFin, ~Failed
  PROVE  Told(Head(cache).id) >= closed_at[Head(cache).id]
<1>1. TInv /\ Order /\ Bytes /\ Space /\ Fins
  BY DEF IInv, Failed
<1>2. OAccepted /\ BWrites /\ BTold /\ RCounts /\ FClosed /\ FEvents
  BY <1>1 DEF Order, Bytes, Space, Fins
<1>3. PICK s : s = cache[1].id
  OBVIOUS
<1>4. Head(cache) = cache[1] /\ cache[1] \in FinEv /\ cache[1].type = "FIN" /\ s \in Sessions
      /\ 1 \in 1 .. Len(cache)
  <2>1. cache \in Seq(WriteEv \cup FinEv) /\ cache # <<>>
    BY <1>1 DEF TInv, TMerge, PassFin
  <2>2. cache[1] \in FinEv
    BY <1>1, PassFinStep
  <2>3. Head(cache) = cache[1] /\ 1 \in 1 .. Len(cache)
    BY <2>1, Rd DEF Takes
  <2> QED BY <1>3, <2>2, <2>3, Kinds
<1>5. conn[s] = "FIN_WAIT_1" /\ closed_at[s] <= reserved[s]
  <2>1. conn[s] = "FIN_WAIT_1"
    BY <1>2, <1>3, <1>4 DEF FEvents
  <2>2. conn[s] # "CLOSED"
    BY <2>1
  <2> QED BY <1>2, <1>4, <2>1, <2>2 DEF FClosed
<1>6. /\ reserved[s] \in Nat /\ published[s] \in Nat /\ acked[s] \in Nat /\ closed_at[s] \in Nat
      /\ Len(sar_upd) \in Nat /\ Len(accepted) \in Nat /\ Finished <= Len(accepted) /\ Finished \in Nat
  <2>1. /\ reserved[s] \in Nat /\ published[s] \in Nat /\ acked[s] \in Nat /\ closed_at[s] \in Nat
    BY <1>1, <1>4 DEF TInv, THistory, Counts
  <2>2. Finished <= Merged /\ Merged <= Len(accepted) /\ Merged \in Nat /\ Finished \in Nat
    BY <1>1, <1>2, Positions
  <2>3. Len(sar_upd) \in Nat /\ Len(accepted) \in Nat
    BY <1>1, Sizes
  <2>4. Finished <= Len(accepted)
    BY <2>2, <2>3
  <2> QED BY <2>1, <2>2, <2>3, <2>4, Zenon
<1>7. PICK U \in Nat, R \in Nat, P \in Nat : U = Len(sar_upd) /\ R = reserved[s] /\ P = published[s]
  BY <1>6
\* What an update under way of the session is about.
<1>8. ASSUME NEW i \in 1 .. U, sar_upd[i].id = s
      PROVE  /\ sar_upd[i].no \in 1 .. Len(accepted) /\ sar_upd[i].no \in 1 .. Finished
             /\ accepted[sar_upd[i].no].id = s /\ Waits(sar_upd[i].no)
             /\ P < End(accepted[sar_upd[i].no]) /\ End(accepted[sar_upd[i].no]) <= R
             /\ End(accepted[sar_upd[i].no]) \in Nat
             /\ accepted[sar_upd[i].no].at < End(accepted[sar_upd[i].no])
             /\ P <= accepted[sar_upd[i].no].at
  <2>1. PICK m : m = sar_upd[i].no
    OBVIOUS
  <2>2. m \in 1 .. Finished /\ accepted[m].id = s /\ Waits(m)
    BY <1>2, <1>7, <1>8, <2>1 DEF BTold, Waits
  <2>3. m \in 1 .. Len(accepted)
    BY <1>6, <2>2
  <2>4. /\ End(accepted[m]) \in Nat /\ End(accepted[m]) <= R /\ accepted[m].at \in Nat
        /\ accepted[m].len \in Nat /\ accepted[m].len > 0
        /\ End(accepted[m]) = accepted[m].at + accepted[m].len
    BY <1>1, <1>2, <1>7, <2>2, <2>3, WriteFacts
  <2>5. P <= accepted[m].at
    BY <1>2, <1>7, <2>2, <2>3 DEF BTold
  <2>6. accepted[m].at < End(accepted[m]) /\ P < End(accepted[m])
    BY <2>4, <2>5
  <2> QED BY <2>1, <2>2, <2>3, <2>4, <2>5, <2>6
<1>9. ASSUME \A i \in 1 .. U : sar_upd[i].id # s  PROVE Told(s) = P
  <2>1. ~ \E i \in 1 .. Len(sar_upd) : sar_upd[i].id = s
    BY <1>7, <1>9
  <2>2. Told(s) = published[s] + 0
    BY <2>1 DEF Told
  <2> QED BY <1>7, <2>2
<1>10. CASE R = 0
  <2>1. \A i \in 1 .. U : sar_upd[i].id # s
    <3> SUFFICES ASSUME NEW i \in 1 .. U, sar_upd[i].id = s  PROVE FALSE
      OBVIOUS
    <3>1. /\ P < End(accepted[sar_upd[i].no]) /\ End(accepted[sar_upd[i].no]) <= R
          /\ End(accepted[sar_upd[i].no]) \in Nat
      BY <1>8
    <3> QED BY <1>10, <3>1
  <2> QED BY <1>3, <1>4, <1>5, <1>6, <1>7, <1>9, <1>10, <2>1
<1>11. CASE R # 0
  <2>1. PICK n \in 1 .. Len(accepted) : accepted[n].id = s /\ End(accepted[n]) = R
    BY <1>2, <1>4, <1>7, <1>11 DEF BWrites
  <2>2. n \in 1 .. Finished
    BY <1>1, <1>3, <2>1, FinLast
\* No later update of the session is under way.
  <2>3. ASSUME NEW j \in 1 .. U, sar_upd[j].id = s, n < sar_upd[j].no  PROVE FALSE
    <3>1. PICK m : m = sar_upd[j].no
      OBVIOUS
    <3>2. /\ m \in 1 .. Len(accepted) /\ accepted[m].id = s /\ accepted[m].at < End(accepted[m])
          /\ End(accepted[m]) <= R /\ End(accepted[m]) \in Nat
      BY <1>8, <2>3, <3>1
    <3>3. R <= accepted[m].at /\ accepted[m].at \in Nat
      BY <1>1, <1>2, <2>1, <2>3, <3>1, <3>2, WriteFacts
    <3> QED BY <3>2, <3>3
  <2>4. CASE ~Waits(n)
    <3>1. R <= P
      BY <1>2, <1>7, <2>1, <2>4 DEF BTold
    <3>2. \A i \in 1 .. U : sar_upd[i].id # s
      <4> SUFFICES ASSUME NEW i \in 1 .. U, sar_upd[i].id = s  PROVE FALSE
        OBVIOUS
      <4>1. /\ P < End(accepted[sar_upd[i].no]) /\ End(accepted[sar_upd[i].no]) <= R
            /\ End(accepted[sar_upd[i].no]) \in Nat
        BY <1>8
      <4> QED BY <3>1, <4>1
    <3>3. Told(s) = P /\ closed_at[s] <= R /\ closed_at[s] \in Nat
      BY <1>5, <1>6, <1>7, <1>9, <3>2
    <3>4. Told(s) >= closed_at[s]
      BY <3>1, <3>3
    <3> QED BY <1>3, <1>4, <3>4
  <2>5. CASE Waits(n)
    <3>1. PICK i \in 1 .. U : sar_upd[i].no = n
      <4>1. ~(n > Finished)
        BY <1>6, <2>2
      <4> QED BY <1>7, <2>5, <4>1 DEF Waits
    <3>2. sar_upd[i].id = s /\ sar_upd[i].app_written = Pointer(R)
      BY <1>2, <1>7, <2>1, <3>1 DEF BTold
    <3>3. \A j \in i + 1 .. U : sar_upd[j].id # s
      <4> SUFFICES ASSUME NEW j \in i + 1 .. U, sar_upd[j].id = s  PROVE FALSE
        OBVIOUS
      <4>1. j \in 1 .. U /\ i < j
        OBVIOUS
      <4>2. sar_upd[i].no < sar_upd[j].no
        BY <1>2, <1>7, <4>1 DEF BTold
      <4> QED BY <2>3, <3>1, <4>1, <4>2
    <3> DEFINE Last(k) == sar_upd[k].id = s /\ \A j \in k + 1 .. Len(sar_upd) : sar_upd[j].id # s
    <3>4. i \in 1 .. Len(sar_upd) /\ Last(i)
      BY <1>7, <3>2, <3>3
    <3>5. PICK c : c = CHOOSE k \in 1 .. Len(sar_upd) : Last(k)
      OBVIOUS
    <3>6. c \in 1 .. Len(sar_upd) /\ Last(c)
      <4> HIDE DEF Last
      <4> QED BY <3>4, <3>5, Zenon
    <3>7. c = i
      <4>1. ~(c \in i + 1 .. U) /\ ~(i \in c + 1 .. U)
        BY <1>7, <3>2, <3>3, <3>6
      <4>2. c \in 1 .. U
        BY <1>7, <3>6
      <4> QED BY <4>1, <4>2
    <3>8. Told(s) = P + Low(sar_upd[i].app_written - sar[s].app_written)
      <4>1. \E k \in 1 .. Len(sar_upd) : sar_upd[k].id = s
        BY <3>2, <3>4
      <4>2. Told(s) = published[s] + Low(sar_upd[c].app_written - sar[s].app_written)
        BY <3>5, <4>1, Zenon DEF Told
      <4> QED BY <1>7, <3>7, <4>2
    <3>9. sar[s].app_written = Pointer(P)
      <4>1. conn[s] # "CLOSED"
        BY <1>5
      <4>2. sar[s] = [ackd |-> Pointer(acked[s]), app_written |-> Pointer(published[s])]
        BY <1>2, <1>4, <4>1, Zenon DEF RCounts
      <4> QED BY <1>7, <4>2
    <3>10. P <= R /\ R - P < BufMod
      <4>1. P < R
        BY <1>8, <2>1, <3>1, <3>2
      <4>2. PICK A \in Nat : A = acked[s]
        BY <1>6
      <4>3. A <= P /\ R - A <= BufMod - 1
        BY <1>2, <1>4, <1>7, <4>2 DEF RCounts
      <4> QED BY <4>1, <4>3, Modulus
    <3>11. Low(Pointer(R) - Pointer(P)) = R - P
      BY <3>10, PointerFacts
    <3>12. Told(s) = R
      BY <3>2, <3>8, <3>9, <3>11
    <3> QED BY <1>3, <1>4, <1>5, <1>6, <1>7, <3>12
  <2> QED BY <2>4, <2>5
<1> QED BY <1>10, <1>11

\* TxAppEventMerger takes the FIN past data only when it deviates: otherwise, when
\* TxAppRspHandler passes the FIN on, every write that was accepted before the close has been
\* stored and tx_sar_table has, or gets before, the pointer behind the last of them.
THEOREM FinAfterDataCorrect == Spec => FinAfterData
<1>1. IInv /\ [Next]_vars => (PassFin /\ ~Failed => Told(Head(cache).id) >= closed_at[Head(cache).id])
  BY FinStep
<1> QED BY <1>1, IInvInvariant, PTL DEF Spec, FinAfterData
=============================================================================
