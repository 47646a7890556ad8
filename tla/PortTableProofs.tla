--------------------------- MODULE PortTableProofs ---------------------------
(***************************************************************************)
(* Proofs about PortTable: the answers to the rx engine's port checks come *)
(* back in the order of the requests although two tables answer them, and  *)
(* a port has one owner, for every number of ports, sessions and           *)
(* applications and every depth of the FIFOs.                              *)
(***************************************************************************)
EXTENDS PortTable, FiniteSetTheorems, TLAPS

ListenIndex == 0 .. ListenCount - 1
FreeIndex   == 0 .. FreeCount - 1

\* PortTypeOK by the variables of the three parts.  A request that waits at a table
\* has an index of it.
ListenTypeOK ==
  /\ listening_port_table \in [ListenIndex -> Roles \cup {None}]
  /\ listen_req \in Seq(Ports \X Roles) /\ listen_rsp \in Seq(ListenRsp)
  /\ port_fsm \in {"WAIT_NET", "WAIT_PTABLE"}
  /\ opened \in [ListenIndex -> Roles \cup {None}]

CheckTypeOK ==
  /\ check_req \in Seq(Ports) /\ asked \in Seq(Ports)
  /\ table_req \in [Tables -> Seq(Nat)] /\ table_rsp \in [Tables -> Seq(CheckRsp)]
  /\ table_req["listen"] \in Seq(ListenIndex) /\ table_req["free"] \in Seq(FreeIndex)
  /\ check_dst \in Seq(Tables) /\ mux \in {"READ_DST"} \cup Tables
  /\ check_rsp \in Seq(CheckRsp)

PortEntry == [is_open : BOOLEAN, role_id : Roles \cup {None}]

FreeTypeOK ==
  /\ free_port_table \in [FreeIndex -> PortEntry]
  /\ pt_cursor \in FreeIndex
  /\ port_req \in Seq(Roles) /\ port_rsp \in Seq(FreeIndex)
  /\ tx_app_wait_for_free_port_lock \in BOOLEAN
  /\ live \in [Ports -> 0 .. SessionIds]
  /\ release_req \in Seq(Ports)
  /\ dropped \in BOOLEAN /\ shared \subseteq FreePorts

\* The checks under way, in the order in which they were asked: answers for the rx
\* engine, the one the output multiplexer waits for, the ones whose table is noted in
\* check_dst, and the requests that have not reached the input multiplexer.
Answered == Len(check_rsp)
Awaited  == IF mux = "READ_DST" THEN 0 ELSE 1
Sent     == Answered + Awaited + Len(check_dst)

OrderKept ==
  /\ Len(asked) = Sent + Len(check_req)
  /\ \A i \in 1 .. Answered : check_rsp[i].port = asked[i]
  /\ mux # "READ_DST" => asked[Answered + 1][1] = mux
  /\ \A j \in 1 .. Len(check_dst) : asked[Answered + Awaited + j][1] = check_dst[j]
  /\ \A j \in 1 .. Len(check_req) : asked[Sent + j] = check_req[j]

\* The checks a table has answered or will answer, oldest first.
Held(t) == Len(table_rsp[t]) + Len(table_req[t])
Item(t, j) == IF j <= Len(table_rsp[t]) THEN table_rsp[t][j].port
              ELSE <<t, table_req[t][j - Len(table_rsp[t])]>>

\* They are the ones asked of this table and not yet answered, in the same order: pos
\* gives their places in asked.
Places(t, pos) ==
  /\ pos \in [1 .. Held(t) -> Answered + 1 .. Sent]
  /\ \A i, j \in 1 .. Held(t) : i < j => pos[i] < pos[j]
  /\ \A j \in 1 .. Held(t) : asked[pos[j]] = Item(t, j) /\ asked[pos[j]][1] = t
  /\ \A k \in Answered + 1 .. Sent : asked[k][1] = t => \E j \in 1 .. Held(t) : pos[j] = k
TableInStep(t) == \E pos \in [1 .. Held(t) -> Answered + 1 .. Sent] : Places(t, pos)

CheckInv == OrderKept /\ \A t \in Tables : TableInStep(t)

\* An answer under way that says a port was opened is still true when it is read.
ListenInv ==
  /\ ListenOwner
  /\ \A i \in 1 .. Len(listen_rsp) : listen_rsp[i].open_successfully =>
       listening_port_table[listen_rsp[i].port[2]] = listen_rsp[i].dest

\* The inductive invariant, by the variables of the three parts.
LInv == ListenTypeOK /\ ListenInv
CInv == CheckTypeOK /\ CheckInv
FInv == FreeTypeOK /\ LentOnce
IInv == LInv /\ CInv /\ FInv /\ inputs \in 0 .. MaxInputs
-----------------------------------------------------------------------------
(* FIFOs and ports.                                                         *)

\* Writing and reading a FIFO.
LEMMA WriteFifo ==
  ASSUME NEW S, NEW q \in Seq(S), NEW e \in S
  PROVE  /\ Append(q, e) \in Seq(S) /\ Len(Append(q, e)) = Len(q) + 1 /\ Len(q) \in Nat
         /\ Append(q, e)[Len(q) + 1] = e
         /\ \A i \in 1 .. Len(q) : Append(q, e)[i] = q[i]
OBVIOUS

LEMMA ReadFifo ==
  ASSUME NEW S, NEW q \in Seq(S), q # <<>>
  PROVE  /\ Head(q) \in S /\ Tail(q) \in Seq(S) /\ Head(q) = q[1]
         /\ Len(Tail(q)) = Len(q) - 1 /\ Len(q) \in Nat /\ Len(q) > 0
         /\ \A i \in 1 .. Len(q) - 1 : Tail(q)[i] = q[i + 1]
OBVIOUS

LEMMA LenFifo ==
  ASSUME NEW S, NEW q \in Seq(S)
  PROVE  Len(q) \in Nat /\ \A i \in 1 .. Len(q) : q[i] \in S
OBVIOUS

LEMMA Consts ==
  /\ ListenCount \in Nat /\ FreeCount \in Nat /\ FreeCount > 0 /\ SessionIds \in Nat
  /\ MaxInputs \in Nat /\ 0 \in FreeIndex
BY PortCountAssumption, PortInputsAssumption DEF FreeIndex

\* A port is an index of one of the tables.
LEMMA PortFacts ==
  ASSUME NEW port \in Ports
  PROVE  /\ port[1] \in Tables /\ port = <<port[1], port[2]>>
         /\ port[1] = "listen" <=> port \in ListenPorts
         /\ port[1] = "free" <=> port \in FreePorts
         /\ port \in ListenPorts => port[2] \in ListenIndex
         /\ port \in FreePorts => port[2] \in FreeIndex
         /\ port[2] \in Nat
BY PortCountAssumption
   DEF Ports, ListenPorts, FreePorts, Tables, ListenIndex, FreeIndex

LEMMA PortMade ==
  /\ \A p \in ListenIndex : <<"listen", p>> \in Ports /\ <<"listen", p>> \notin FreePorts
  /\ \A p \in FreeIndex : <<"free", p>> \in Ports /\ <<"free", p>> \in FreePorts
BY DEF Ports, ListenPorts, FreePorts, ListenIndex, FreeIndex
-----------------------------------------------------------------------------
(* The table of listening ports.                                            *)

LEMMA ListenStep ==
  ASSUME LInv, Listen
  PROVE  LInv'
<1> DEFINE port == Head(listen_req)[1]
           dest == Head(listen_req)[2]
           ok   == ListenOk(port)
           rsp  == [port |-> port, dest |-> dest, open_successfully |-> ok]
<1>0. /\ listening_port_table \in [ListenIndex -> Roles \cup {None}]
      /\ listen_req \in Seq(Ports \X Roles) /\ listen_req # <<>> /\ listen_rsp \in Seq(ListenRsp)
      /\ opened \in [ListenIndex -> Roles \cup {None}]
      /\ listen_rsp' = Append(listen_rsp, rsp) /\ listen_req' = Tail(listen_req)
      /\ opened' = opened /\ port_fsm' = port_fsm
      /\ listening_port_table' = IF ok THEN [listening_port_table EXCEPT ![port[2]] = dest]
                                 ELSE listening_port_table
  BY DEF LInv, ListenTypeOK, Listen
<1>1. port \in Ports /\ dest \in Roles /\ listen_req' \in Seq(Ports \X Roles)
  BY <1>0, ReadFifo
<1>2. ok \in BOOLEAN /\ (ok => port \in ListenPorts /\ port[2] \in ListenIndex
                               /\ listening_port_table[port[2]] = None)
  BY <1>1, PortFacts DEF ListenOk
<1>3. rsp \in ListenRsp /\ rsp.port = port /\ rsp.dest = dest /\ rsp.open_successfully = ok
  BY <1>1, <1>2 DEF ListenRsp
<1> HIDE DEF ok, rsp
<1>4. /\ listen_rsp' \in Seq(ListenRsp) /\ Len(listen_rsp') = Len(listen_rsp) + 1
      /\ Len(listen_rsp) \in Nat /\ listen_rsp'[Len(listen_rsp) + 1] = rsp
      /\ \A i \in 1 .. Len(listen_rsp) : listen_rsp'[i] = listen_rsp[i]
  BY <1>0, <1>3, WriteFifo
<1>5. listening_port_table' \in [ListenIndex -> Roles \cup {None}]
  BY <1>0, <1>1, <1>2
<1>6. \A p \in ListenIndex : listening_port_table[p] # None
        => listening_port_table'[p] = listening_port_table[p]
  BY <1>0, <1>2
<1>7. ok => listening_port_table'[port[2]] = dest
  BY <1>0, <1>2
<1>8. \A i \in 1 .. Len(listen_rsp') : i \in 1 .. Len(listen_rsp) \/ i = Len(listen_rsp) + 1
  BY <1>4
<1>9. ASSUME NEW i \in 1 .. Len(listen_rsp'), listen_rsp'[i].open_successfully
      PROVE  /\ listen_rsp'[i].port \in ListenPorts
             /\ listening_port_table'[listen_rsp'[i].port[2]] = listen_rsp'[i].dest
  <2>1. CASE i = Len(listen_rsp) + 1
    BY <1>2, <1>3, <1>4, <1>7, <1>9, <2>1
  <2>2. CASE i \in 1 .. Len(listen_rsp)
    <3>1. listen_rsp'[i] = listen_rsp[i] /\ listen_rsp[i] \in ListenRsp
      BY <1>0, <1>4, <2>2, LenFifo
    <3>2. /\ listen_rsp[i].port \in ListenPorts /\ i \in DOMAIN listen_rsp
          /\ listening_port_table[listen_rsp[i].port[2]] = listen_rsp[i].dest
      BY <1>0, <1>9, <2>2, <3>1 DEF LInv, ListenInv, ListenOwner
    <3>3. listen_rsp[i].dest \in Roles /\ listen_rsp[i].port \in Ports
      BY <3>1 DEF ListenRsp
    <3>4. listen_rsp[i].port[2] \in ListenIndex
      BY <3>2, <3>3, PortFacts
    <3> QED BY <1>6, <3>1, <3>2, <3>3, <3>4, PortNoneAssumption
  <2> QED BY <1>8, <2>1, <2>2
<1>10. \A p \in ListenIndex : opened'[p] # None => listening_port_table'[p] = opened'[p]
  BY <1>0, <1>6 DEF LInv, ListenInv, ListenOwner, ListenIndex
<1>11. \A i \in DOMAIN listen_rsp' : i \in 1 .. Len(listen_rsp')
  BY <1>4
<1>12. ListenInv'
  BY <1>9, <1>10, <1>11 DEF ListenInv, ListenOwner, ListenIndex
<1>13. ListenTypeOK'
  BY <1>0, <1>1, <1>4, <1>5 DEF ListenTypeOK, LInv
<1> QED BY <1>12, <1>13 DEF LInv

LEMMA ListenReqStep ==
  ASSUME LInv, NEW port \in Ports, NEW dest \in Roles, ListenReq(port, dest)
  PROVE  LInv'
<1>1. listen_req' = Append(listen_req, <<port, dest>>) /\ listen_req \in Seq(Ports \X Roles)
  BY DEF LInv, ListenTypeOK, ListenReq
<1>2. <<port, dest>> \in Ports \X Roles
  OBVIOUS
<1>3. listen_req' \in Seq(Ports \X Roles)
  BY <1>1, <1>2, WriteFifo
<1> QED BY <1>3 DEF LInv, ListenTypeOK, ListenInv, ListenOwner, ListenReq

\* The answer that is read is one that the table still agrees with.
LEMMA ListenRspReadStep ==
  ASSUME LInv, ListenRspRead
  PROVE  LInv'
<1> DEFINE rsp == Head(listen_rsp)
<1>0. /\ listening_port_table \in [ListenIndex -> Roles \cup {None}]
      /\ listen_rsp \in Seq(ListenRsp) /\ listen_rsp # <<>> /\ listen_rsp' = Tail(listen_rsp)
      /\ opened \in [ListenIndex -> Roles \cup {None}]
      /\ opened' = IF rsp.open_successfully /\ rsp.port \in ListenPorts
                   THEN [opened EXCEPT ![rsp.port[2]] = rsp.dest] ELSE opened
      /\ listening_port_table' = listening_port_table /\ listen_req' = listen_req
      /\ port_fsm' = "WAIT_NET"
  BY DEF LInv, ListenTypeOK, ListenRspRead
<1>1. /\ rsp \in ListenRsp /\ rsp = listen_rsp[1] /\ listen_rsp' \in Seq(ListenRsp)
      /\ Len(listen_rsp') = Len(listen_rsp) - 1 /\ Len(listen_rsp) \in Nat /\ Len(listen_rsp) > 0
      /\ \A i \in 1 .. Len(listen_rsp) - 1 : listen_rsp'[i] = listen_rsp[i + 1]
  BY <1>0, ReadFifo
<1>2. rsp.port \in Ports /\ rsp.dest \in Roles
  BY <1>1 DEF ListenRsp
<1>3. rsp.port \in ListenPorts => rsp.port[2] \in ListenIndex
  BY <1>2, PortFacts
<1>4. opened' \in [ListenIndex -> Roles \cup {None}]
  BY <1>0, <1>2, <1>3
<1>5. 1 \in 1 .. Len(listen_rsp)
  BY <1>1
<1>6. rsp.open_successfully => listening_port_table[rsp.port[2]] = rsp.dest
  BY <1>1, <1>5 DEF LInv, ListenInv
<1>7. \A p \in ListenIndex : opened'[p] # None => listening_port_table'[p] = opened'[p]
  BY <1>0, <1>3, <1>6 DEF LInv, ListenInv, ListenOwner, ListenIndex
<1>8. \A i \in DOMAIN listen_rsp' : i \in 1 .. Len(listen_rsp')
  BY <1>1
<1>9. \A i \in 1 .. Len(listen_rsp') :
        i + 1 \in 1 .. Len(listen_rsp) /\ i + 1 \in DOMAIN listen_rsp
        /\ listen_rsp'[i] = listen_rsp[i + 1]
  BY <1>0, <1>1
<1>10. ListenInv'
  BY <1>0, <1>7, <1>8, <1>9 DEF LInv, ListenInv, ListenOwner, ListenIndex
<1> QED BY <1>0, <1>1, <1>4, <1>10 DEF LInv, ListenTypeOK
-----------------------------------------------------------------------------
(* The order of the checks.                                                 *)

\* The lengths of the FIFOs and the counts made of them are natural numbers.
LEMMA Lengths ==
  ASSUME CheckTypeOK
  PROVE  /\ Len(check_rsp) \in Nat /\ Len(check_dst) \in Nat /\ Len(check_req) \in Nat
         /\ Len(asked) \in Nat /\ Answered \in Nat /\ Awaited \in {0, 1} /\ Sent \in Nat
         /\ \A t \in Tables : Len(table_rsp[t]) \in Nat /\ Len(table_req[t]) \in Nat
                              /\ Held(t) \in Nat
<1>1. /\ Len(check_rsp) \in Nat /\ Len(check_dst) \in Nat /\ Len(check_req) \in Nat
      /\ Len(asked) \in Nat
  BY LenFifo DEF CheckTypeOK
<1>2. \A t \in Tables : Len(table_rsp[t]) \in Nat /\ Len(table_req[t]) \in Nat
  <2> SUFFICES ASSUME NEW t \in Tables
               PROVE  Len(table_rsp[t]) \in Nat /\ Len(table_req[t]) \in Nat
    OBVIOUS
  <2>1. table_rsp[t] \in Seq(CheckRsp) /\ table_req[t] \in Seq(Nat)
    BY DEF CheckTypeOK
  <2> QED BY <2>1, LenFifo
<1>3. Awaited \in {0, 1} /\ Answered \in Nat
  BY <1>1 DEF Awaited, Answered
<1>4. Sent \in Nat
  BY <1>1, <1>3 DEF Sent
<1>5. \A t \in Tables : Held(t) \in Nat
  <2> SUFFICES ASSUME NEW t \in Tables PROVE Held(t) \in Nat
    OBVIOUS
  <2>1. Len(table_rsp[t]) \in Nat /\ Len(table_req[t]) \in Nat
    BY <1>2
  <2> QED BY <2>1 DEF Held, CheckTypeOK
<1> QED BY <1>1, <1>2, <1>3, <1>4, <1>5

\* A table answers: the head of its requests becomes the last of its answers.
LEMMA AnswerStep ==
  ASSUME CInv, NEW t \in Tables, NEW open \in BOOLEAN, table_req[t] # <<>>,
         table_rsp' = [table_rsp EXCEPT ![t] = Append(@,
                         [port |-> <<t, Head(table_req[t])>>, is_open |-> open])],
         table_req' = [table_req EXCEPT ![t] = Tail(@)],
         UNCHANGED <<check_req, check_dst, mux, check_rsp, asked>>
  PROVE  CInv'
<1> DEFINE rsp == [port |-> <<t, Head(table_req[t])>>, is_open |-> open]
           n   == Len(table_rsp[t])
<1>0. /\ table_rsp \in [Tables -> Seq(CheckRsp)] /\ table_req \in [Tables -> Seq(Nat)]
      /\ table_req["listen"] \in Seq(ListenIndex) /\ table_req["free"] \in Seq(FreeIndex)
      /\ table_rsp[t] \in Seq(CheckRsp) /\ table_req[t] \in Seq(Nat)
  BY DEF CInv, CheckTypeOK
<1>1. /\ table_req'[t] = Tail(table_req[t]) /\ Head(table_req[t]) = table_req[t][1]
      /\ Tail(table_req[t]) \in Seq(Nat) /\ Len(table_req'[t]) = Len(table_req[t]) - 1
      /\ Len(table_req[t]) \in Nat /\ Len(table_req[t]) > 0
      /\ \A i \in 1 .. Len(table_req[t]) - 1 : table_req'[t][i] = table_req[t][i + 1]
  BY <1>0, ReadFifo
<1>2. <<t, Head(table_req[t])>> \in Ports
  <2>1. CASE t = "listen"
    <3>1. Head(table_req["listen"]) \in ListenIndex
      BY <1>0, <2>1, ReadFifo
    <3> QED BY <2>1, <3>1, PortMade
  <2>2. CASE t = "free"
    <3>1. Head(table_req["free"]) \in FreeIndex
      BY <1>0, <2>2, ReadFifo
    <3> QED BY <2>2, <3>1, PortMade
  <2> QED BY <2>1, <2>2 DEF Tables
<1>3. rsp \in CheckRsp /\ rsp.port = <<t, Head(table_req[t])>>
  BY <1>2 DEF CheckRsp
<1> HIDE DEF rsp
<1>4. table_rsp' = [table_rsp EXCEPT ![t] = Append(table_rsp[t], rsp)]
  BY DEF rsp
<1>5. /\ table_rsp'[t] = Append(table_rsp[t], rsp) /\ Append(table_rsp[t], rsp) \in Seq(CheckRsp)
      /\ n \in Nat /\ Len(table_rsp'[t]) = n + 1 /\ table_rsp'[t][n + 1] = rsp
      /\ \A i \in 1 .. n : table_rsp'[t][i] = table_rsp[t][i]
  BY <1>0, <1>3, <1>4, WriteFifo
<1>a. table_rsp' \in [Tables -> Seq(CheckRsp)] /\ table_req' \in [Tables -> Seq(Nat)]
  BY <1>0, <1>1, <1>4, <1>5
<1>6. CheckTypeOK'
  <2>2. table_req'["listen"] \in Seq(ListenIndex) /\ table_req'["free"] \in Seq(FreeIndex)
    <3>1. \A u \in Tables : u # t => table_req'[u] = table_req[u]
      BY <1>0
    <3>2. t = "listen" => Tail(table_req["listen"]) \in Seq(ListenIndex)
      BY <1>0, ReadFifo
    <3>3. t = "free" => Tail(table_req["free"]) \in Seq(FreeIndex)
      BY <1>0, ReadFifo
    <3>4. "listen" \in Tables /\ "free" \in Tables
      BY DEF Tables
    <3> QED BY <1>0, <1>1, <3>1, <3>2, <3>3, <3>4
  <2> QED BY <1>a, <2>2 DEF CInv, CheckTypeOK
<1>7. Answered' = Answered /\ Awaited' = Awaited /\ Sent' = Sent
  BY DEF Answered, Awaited, Sent
<1>8. OrderKept'
  BY <1>7 DEF CInv, CheckInv, OrderKept
<1>9. ASSUME NEW u \in Tables PROVE TableInStep(u)'
  <2>1. Held(u)' = Held(u) /\ \A j \in 1 .. Held(u) : Item(u, j)' = Item(u, j)
    <3>1. CASE u # t
      <4>1. table_rsp'[u] = table_rsp[u] /\ table_req'[u] = table_req[u]
        BY <1>0, <3>1
      <4>2. Held(u)' = Held(u)
        BY <4>1 DEF Held
      <4>3. \A j \in 1 .. Held(u) : Item(u, j)' = Item(u, j)
        <5> TAKE j \in 1 .. Held(u)
        <5>1. Item(u, j)' = IF j <= Len(table_rsp'[u]) THEN table_rsp'[u][j].port
                            ELSE <<u, table_req'[u][j - Len(table_rsp'[u])]>>
          BY DEF Item
        <5> QED BY <1>0, <1>a, <4>1, <5>1 DEF Item
      <4> QED BY <4>2, <4>3
    <3>2. CASE u = t
      <4>1. Held(u)' = Held(u) /\ Held(u) = n + Len(table_req[t])
        <5>1. Held(u)' = Len(table_rsp'[t]) + Len(table_req'[t])
          BY <3>2 DEF Held
        <5>2. Held(u) = n + Len(table_req[t])
          BY <3>2 DEF Held
        <5> HIDE DEF n
        <5>3. /\ n \in Nat /\ Len(table_req[t]) \in Nat /\ Len(table_rsp'[t]) = n + 1
              /\ Len(table_req'[t]) = Len(table_req[t]) - 1
          BY <1>1, <1>5
        <5> DEFINE m == Len(table_req[t])
        <5>4. Held(u)' = (n + 1) + (m - 1) /\ n \in Nat /\ m \in Nat
          BY <5>1, <5>3
        <5>5. Held(u) = n + m
          BY <5>2
        <5> HIDE DEF m
        <5>6. Held(u)' = n + m
          BY <5>4
        <5> QED BY <5>5, <5>6 DEF m
      <4>2. ASSUME NEW j \in 1 .. Held(u) PROVE Item(u, j)' = Item(u, j)
        <5>1. CASE j <= n
          <6>1. j \in 1 .. n /\ j <= n + 1
            BY <1>5, <5>1
          <6> QED BY <1>5, <3>2, <5>1, <6>1 DEF Item
        <5>2. CASE j = n + 1
          <6>1. ~(j <= n) /\ j <= n + 1 /\ j - n = 1
            BY <1>5, <5>2
          <6>2. Item(u, j) = <<t, table_req[t][1]>>
            BY <3>2, <6>1 DEF Item
          <6>3. Item(u, j)' = rsp.port
            BY <1>5, <3>2, <5>2, <6>1 DEF Item
          <6> QED BY <1>1, <1>3, <6>2, <6>3
        <5>3. CASE j > n + 1
          <6>1. /\ ~(j <= n) /\ ~(j <= n + 1) /\ j - (n + 1) \in 1 .. Len(table_req[t]) - 1
                /\ j - (n + 1) + 1 = j - n
            <7> HIDE DEF n
            <7>0. n \in Nat /\ Len(table_req[t]) \in Nat /\ Held(u) = n + Len(table_req[t])
              BY <1>1, <1>5, <4>1
            <7>1. j \in Nat /\ j <= n + Len(table_req[t]) /\ n \in Nat /\ Len(table_req[t]) \in Nat
              BY <7>0
            <7> QED BY <5>3, <7>1
          <6>2. table_req'[t][j - (n + 1)] = table_req[t][j - n]
            BY <1>1, <6>1
          <6>3. Item(u, j) = <<t, table_req[t][j - n]>>
            BY <3>2, <6>1 DEF Item
          <6>4. Item(u, j)' = <<t, table_req'[t][j - (n + 1)]>>
            BY <1>5, <3>2, <6>1 DEF Item
          <6> QED BY <6>2, <6>3, <6>4
        <5> QED BY <1>1, <1>5, <4>1, <5>1, <5>2, <5>3
      <4> QED BY <4>1, <4>2
    <3> QED BY <3>1, <3>2
  <2>2. PICK pos \in [1 .. Held(u) -> Answered + 1 .. Sent] : Places(u, pos)
    BY DEF CInv, CheckInv, TableInStep
  <2>3. Places(u, pos)'
    BY <1>7, <2>1, <2>2 DEF Places
  <2> QED BY <1>7, <2>1, <2>2, <2>3 DEF TableInStep
<1> QED BY <1>6, <1>8, <1>9 DEF CInv, CheckInv

\* The output multiplexer reads which table answers next.
LEMMA ReadDstStep ==
  ASSUME CInv, CheckOutReadDst
  PROVE  CInv'
<1>0. /\ mux = "READ_DST" /\ check_dst # <<>> /\ check_dst \in Seq(Tables)
      /\ mux' = Head(check_dst) /\ check_dst' = Tail(check_dst)
      /\ UNCHANGED <<check_req, table_req, table_rsp, check_rsp, asked>>
  BY DEF CInv, CheckTypeOK, CheckOutReadDst
<1>1. /\ mux' \in Tables /\ mux' = check_dst[1] /\ check_dst' \in Seq(Tables)
      /\ Len(check_dst') = Len(check_dst) - 1 /\ Len(check_dst) \in Nat /\ Len(check_dst) > 0
      /\ \A i \in 1 .. Len(check_dst) - 1 : check_dst'[i] = check_dst[i + 1]
  BY <1>0, ReadFifo
<1>2. mux' # "READ_DST"
  BY <1>1 DEF Tables
<1>3. Answered \in Nat /\ Answered' = Answered /\ Awaited = 0 /\ Awaited' = 1
  BY <1>0, <1>2, Lengths DEF Answered, Awaited, CInv
<1>4. Sent' = Sent
  BY <1>1, <1>3 DEF Sent
<1>5. OrderKept'
  <2>1. Len(asked) = Sent + Len(check_req)
    BY DEF CInv, CheckInv, OrderKept
  <2>2. \A j \in 1 .. Len(check_dst) : asked[Answered + 0 + j][1] = check_dst[j]
    BY <1>3 DEF CInv, CheckInv, OrderKept
  <2>3. asked[Answered + 1][1] = mux'
    <3>1. 1 \in 1 .. Len(check_dst) /\ Answered + 0 + 1 = Answered + 1
      BY <1>1, <1>3
    <3> QED BY <1>1, <2>2, <3>1
  <2>4. \A j \in 1 .. Len(check_dst') : asked[Answered + 1 + j][1] = check_dst'[j]
    <3> TAKE j \in 1 .. Len(check_dst')
    <3>1. /\ j \in 1 .. Len(check_dst) - 1 /\ j + 1 \in 1 .. Len(check_dst)
          /\ Answered + 1 + j = Answered + 0 + (j + 1)
      BY <1>1, <1>3
    <3> QED BY <1>1, <2>2, <3>1
  <2>5. /\ Len(asked') = Sent' + Len(check_req')
        /\ \A i \in 1 .. Answered' : check_rsp'[i].port = asked'[i]
        /\ \A j \in 1 .. Len(check_req') : asked'[Sent' + j] = check_req'[j]
    BY <1>0, <1>3, <1>4 DEF CInv, CheckInv, OrderKept
  <2> QED BY <1>0, <1>3, <2>3, <2>4, <2>5 DEF OrderKept
<1>6. ASSUME NEW t \in Tables PROVE TableInStep(t)'
  <2>1. PICK pos \in [1 .. Held(t) -> Answered + 1 .. Sent] : Places(t, pos)
    BY DEF CInv, CheckInv, TableInStep
  <2>2. Held(t)' = Held(t) /\ \A j : Item(t, j)' = Item(t, j)
    BY <1>0 DEF Held, Item
  <2>3. Places(t, pos)'
    BY <1>0, <1>3, <1>4, <2>1, <2>2 DEF Places
  <2> QED BY <1>3, <1>4, <2>1, <2>2, <2>3 DEF TableInStep
<1> QED BY <1>0, <1>1, <1>5, <1>6 DEF CInv, CheckInv, CheckTypeOK

\* The rx engine asks.
LEMMA AskStep ==
  ASSUME CInv, NEW port \in Ports, CheckReq(port)
  PROVE  CInv'
<1>0. /\ check_req' = Append(check_req, port) /\ asked' = Append(asked, port)
      /\ check_req \in Seq(Ports) /\ asked \in Seq(Ports)
      /\ UNCHANGED <<table_req, table_rsp, check_dst, mux, check_rsp>>
  BY DEF CInv, CheckTypeOK, CheckReq
<1>1. /\ check_req' \in Seq(Ports) /\ Len(check_req') = Len(check_req) + 1
      /\ Len(check_req) \in Nat /\ check_req'[Len(check_req) + 1] = port
      /\ \A i \in 1 .. Len(check_req) : check_req'[i] = check_req[i]
  BY <1>0, WriteFifo
<1>2. /\ asked' \in Seq(Ports) /\ Len(asked') = Len(asked) + 1
      /\ Len(asked) \in Nat /\ asked'[Len(asked) + 1] = port
      /\ \A i \in 1 .. Len(asked) : asked'[i] = asked[i]
  BY <1>0, WriteFifo
<1>3. Answered' = Answered /\ Awaited' = Awaited /\ Sent' = Sent
  BY <1>0 DEF Answered, Awaited, Sent
<1>4. /\ Answered \in Nat /\ Sent \in Nat /\ Awaited \in {0, 1} /\ Len(check_dst) \in Nat
      /\ Sent = Answered + Awaited + Len(check_dst)
  BY Lengths DEF CInv, Sent
<1>5. Len(asked) = Sent + Len(check_req)
  BY DEF CInv, CheckInv, OrderKept
<1>6. \A k \in 1 .. Sent : asked'[k] = asked[k]
  BY <1>1, <1>2, <1>4, <1>5
<1>7. OrderKept'
  <2>1. Len(asked') = Sent' + Len(check_req')
    BY <1>1, <1>2, <1>3, <1>4, <1>5
  <2>2. \A i \in 1 .. Answered : check_rsp[i].port = asked'[i]
    <3> TAKE i \in 1 .. Answered
    <3>1. i \in 1 .. Sent
      BY <1>4
    <3> QED BY <1>6, <3>1 DEF CInv, CheckInv, OrderKept
  <2>3. mux # "READ_DST" => asked'[Answered + 1][1] = mux
    <3>1. mux # "READ_DST" => Answered + 1 \in 1 .. Sent
      BY <1>4 DEF Awaited
    <3> QED BY <1>6, <3>1 DEF CInv, CheckInv, OrderKept
  <2>4. \A j \in 1 .. Len(check_dst) : asked'[Answered + Awaited + j][1] = check_dst[j]
    <3> TAKE j \in 1 .. Len(check_dst)
    <3>1. Answered + Awaited + j \in 1 .. Sent
      BY <1>4
    <3> QED BY <1>6, <3>1 DEF CInv, CheckInv, OrderKept
  <2>5. \A j \in 1 .. Len(check_req') : asked'[Sent + j] = check_req'[j]
    <3> TAKE j \in 1 .. Len(check_req')
    <3>1. CASE j = Len(check_req) + 1
      <4>1. Sent + j = Len(asked) + 1
        BY <1>1, <1>4, <1>5, <3>1
      <4> QED BY <1>1, <1>2, <3>1, <4>1
    <3>2. CASE j \in 1 .. Len(check_req)
      <4>1. Sent + j \in 1 .. Len(asked)
        BY <1>1, <1>4, <1>5, <3>2
      <4>2. asked[Sent + j] = check_req[j]
        BY <3>2 DEF CInv, CheckInv, OrderKept
      <4> QED BY <1>1, <1>2, <3>2, <4>1, <4>2
    <3> QED BY <1>1, <3>1, <3>2
  <2> QED BY <1>0, <1>3, <2>1, <2>2, <2>3, <2>4, <2>5 DEF OrderKept
<1>8. ASSUME NEW t \in Tables PROVE TableInStep(t)'
  <2>1. PICK pos \in [1 .. Held(t) -> Answered + 1 .. Sent] : Places(t, pos)
    BY DEF CInv, CheckInv, TableInStep
  <2>2. Held(t)' = Held(t) /\ \A j : Item(t, j)' = Item(t, j)
    BY <1>0 DEF Held, Item
  <2>3. \A k \in Answered + 1 .. Sent : asked'[k] = asked[k]
    BY <1>4, <1>6
  <2>4. \A j \in 1 .. Held(t) : asked'[pos[j]] = asked[pos[j]]
    BY <2>1, <2>3
  <2>5. Places(t, pos)'
    BY <1>3, <2>1, <2>2, <2>3, <2>4 DEF Places
  <2> QED BY <1>3, <2>1, <2>2, <2>5 DEF TableInStep
<1> QED BY <1>0, <1>1, <1>2, <1>7, <1>8 DEF CInv, CheckInv, CheckTypeOK

\* The input multiplexer sends a request to its table and notes the table.
LEMMA CheckInStep ==
  ASSUME CInv, CheckIn
  PROVE  CInv'
<1> DEFINE port == Head(check_req)
           t    == port[1]
<1>0. /\ check_req \in Seq(Ports) /\ check_req # <<>> /\ check_req' = Tail(check_req)
      /\ check_dst \in Seq(Tables) /\ check_dst' = Append(check_dst, t)
      /\ table_req \in [Tables -> Seq(Nat)] /\ table_rsp \in [Tables -> Seq(CheckRsp)]
      /\ table_req["listen"] \in Seq(ListenIndex) /\ table_req["free"] \in Seq(FreeIndex)
      /\ table_req' = [table_req EXCEPT ![t] = Append(table_req[t], port[2])]
      /\ UNCHANGED <<table_rsp, mux, check_rsp, asked>>
  BY DEF CInv, CheckTypeOK, CheckIn
<1>1. /\ port \in Ports /\ port = check_req[1] /\ check_req' \in Seq(Ports)
      /\ Len(check_req') = Len(check_req) - 1 /\ Len(check_req) \in Nat /\ Len(check_req) > 0
      /\ \A i \in 1 .. Len(check_req) - 1 : check_req'[i] = check_req[i + 1]
  BY <1>0, ReadFifo
<1>2. /\ t \in Tables /\ port = <<t, port[2]>> /\ port[2] \in Nat
      /\ t = "listen" => port[2] \in ListenIndex
      /\ t = "free" => port[2] \in FreeIndex
  BY <1>1, PortFacts
<1> HIDE DEF t, port
<1>3. /\ check_dst' \in Seq(Tables) /\ Len(check_dst') = Len(check_dst) + 1
      /\ Len(check_dst) \in Nat /\ check_dst'[Len(check_dst) + 1] = t
      /\ \A i \in 1 .. Len(check_dst) : check_dst'[i] = check_dst[i]
  BY <1>0, <1>2, WriteFifo
<1>4. /\ table_req[t] \in Seq(Nat) /\ table_req'[t] = Append(table_req[t], port[2])
      /\ table_req'[t] \in Seq(Nat) /\ Len(table_req'[t]) = Len(table_req[t]) + 1
      /\ Len(table_req[t]) \in Nat /\ table_req'[t][Len(table_req[t]) + 1] = port[2]
      /\ \A i \in 1 .. Len(table_req[t]) : table_req'[t][i] = table_req[t][i]
  BY <1>0, <1>2, WriteFifo
<1>5. CheckTypeOK'
  <2>1. table_req' \in [Tables -> Seq(Nat)] /\ table_rsp' \in [Tables -> Seq(CheckRsp)]
    BY <1>0, <1>2, <1>4
  <2>2. table_req'["listen"] \in Seq(ListenIndex) /\ table_req'["free"] \in Seq(FreeIndex)
    <3>1. \A u \in Tables : u # t => table_req'[u] = table_req[u]
      BY <1>0
    <3>2. t = "listen" => Append(table_req["listen"], port[2]) \in Seq(ListenIndex)
      BY <1>0, <1>2, WriteFifo
    <3>3. t = "free" => Append(table_req["free"], port[2]) \in Seq(FreeIndex)
      BY <1>0, <1>2, WriteFifo
    <3>4. "listen" \in Tables /\ "free" \in Tables
      BY DEF Tables
    <3> QED BY <1>0, <1>4, <3>1, <3>2, <3>3, <3>4
  <2> QED BY <1>0, <1>1, <1>3, <2>1, <2>2 DEF CInv, CheckTypeOK
<1>6. /\ Answered \in Nat /\ Sent \in Nat /\ Awaited \in {0, 1}
      /\ Sent = Answered + Awaited + Len(check_dst)
      /\ Answered' = Answered /\ Awaited' = Awaited /\ Sent' = Sent + 1
  <2>1. /\ Answered \in Nat /\ Sent \in Nat /\ Awaited \in {0, 1}
        /\ Sent = Answered + Awaited + Len(check_dst)
    BY Lengths DEF CInv, Sent
  <2>2. Answered' = Answered /\ Awaited' = Awaited
    BY <1>0 DEF Answered, Awaited
  <2>3. Sent' = Answered + Awaited + (Len(check_dst) + 1)
    BY <1>3, <2>2 DEF Sent
  <2> QED BY <1>3, <2>1, <2>2, <2>3
<1>7. Len(asked) = Sent + Len(check_req) /\ asked[Sent + 1] = port
  <2>1. Len(asked) = Sent + Len(check_req)
        /\ \A j \in 1 .. Len(check_req) : asked[Sent + j] = check_req[j]
    BY DEF CInv, CheckInv, OrderKept
  <2>2. 1 \in 1 .. Len(check_req)
    BY <1>1
  <2> QED BY <1>1, <2>1, <2>2
<1>8. OrderKept'
  <2>1. Len(asked') = Sent' + Len(check_req')
    BY <1>0, <1>1, <1>6, <1>7
  <2>2. /\ \A i \in 1 .. Answered' : check_rsp'[i].port = asked'[i]
        /\ mux' # "READ_DST" => asked'[Answered' + 1][1] = mux'
    BY <1>0, <1>6 DEF CInv, CheckInv, OrderKept
  <2>3. \A j \in 1 .. Len(check_dst') : asked[Answered + Awaited + j][1] = check_dst'[j]
    <3> TAKE j \in 1 .. Len(check_dst')
    <3>1. CASE j = Len(check_dst) + 1
      <4>1. Answered + Awaited + j = Sent + 1
        BY <1>3, <1>6, <3>1
      <4> QED BY <1>3, <1>7, <3>1, <4>1 DEF t
    <3>2. CASE j \in 1 .. Len(check_dst)
      BY <1>3, <3>2 DEF CInv, CheckInv, OrderKept
    <3> QED BY <1>3, <3>1, <3>2
  <2>4. \A j \in 1 .. Len(check_req') : asked[Sent + 1 + j] = check_req'[j]
    <3> TAKE j \in 1 .. Len(check_req')
    <3>1. /\ j \in 1 .. Len(check_req) - 1 /\ j + 1 \in 1 .. Len(check_req)
          /\ Sent + 1 + j = Sent + (j + 1)
      BY <1>1, <1>6
    <3>2. asked[Sent + (j + 1)] = check_req[j + 1]
      BY <3>1 DEF CInv, CheckInv, OrderKept
    <3> QED BY <1>1, <3>1, <3>2
  <2> QED BY <1>0, <1>6, <2>1, <2>2, <2>3, <2>4 DEF OrderKept
<1>9. ASSUME NEW u \in Tables PROVE TableInStep(u)'
  <2>1. PICK pos \in [1 .. Held(u) -> Answered + 1 .. Sent] : Places(u, pos)
    BY DEF CInv, CheckInv, TableInStep
  <2>2. \A k \in Answered + 1 .. Sent : k \in Answered + 1 .. Sent + 1
    BY <1>6
  <2>3. \A k \in Answered + 1 .. Sent + 1 : k \in Answered + 1 .. Sent \/ k = Sent + 1
    BY <1>6
  <2>4. CASE u # t
    <3>1. table_req'[u] = table_req[u] /\ table_rsp'[u] = table_rsp[u]
      BY <1>0, <2>4
    <3>2. Held(u)' = Held(u) /\ \A j : Item(u, j)' = Item(u, j)
      BY <3>1 DEF Held, Item
    <3>3. pos \in [1 .. Held(u) -> Answered + 1 .. Sent + 1]
      BY <2>1, <2>2
    <3>4. \A k \in Answered + 1 .. Sent + 1 : asked[k][1] = u
            => \E j \in 1 .. Held(u) : pos[j] = k
      BY <1>7, <2>1, <2>3, <2>4 DEF Places, t
    <3>5. Places(u, pos)'
      BY <1>0, <1>6, <2>1, <3>2, <3>3, <3>4 DEF Places
    <3> QED BY <1>6, <3>2, <3>3, <3>5 DEF TableInStep
  <2>5. CASE u = t
    <3>a. PICK h, n : h = Held(u) /\ n = Len(table_rsp[u])
      OBVIOUS
    <3>b. PICK p1 : p1 = [j \in 1 .. h + 1 |-> IF j = h + 1 THEN Sent + 1 ELSE pos[j]]
      OBVIOUS
    <3>c. /\ table_req[u] \in Seq(Nat) /\ Len(table_req'[u]) = Len(table_req[u]) + 1
          /\ Len(table_req[u]) \in Nat /\ table_req'[u][Len(table_req[u]) + 1] = port[2]
          /\ \A i \in 1 .. Len(table_req[u]) : table_req'[u][i] = table_req[u][i]
          /\ table_rsp'[u] = table_rsp[u] /\ port = <<u, port[2]>> /\ port[1] = u
      BY <1>0, <1>2, <1>4, <2>5 DEF t
    <3>1. h \in Nat /\ n \in Nat /\ h = n + Len(table_req[u])
      BY <3>a, Lengths DEF CInv, Held
    <3>2. Held(u)' = n + (Len(table_req[u]) + 1)
      BY <3>a, <3>c DEF Held
    <3>3. Held(u)' = h + 1
      BY <3>c, <3>1, <3>2
    <3>4. \A j \in 1 .. h : Item(u, j)' = Item(u, j)
      <4> TAKE j \in 1 .. h
      <4>1. Item(u, j)' = IF j <= n THEN table_rsp[u][j].port ELSE <<u, table_req'[u][j - n]>>
        BY <3>a, <3>c DEF Item
      <4>2. CASE j <= n
        BY <3>a, <4>1, <4>2 DEF Item
      <4>3. CASE ~(j <= n)
        <5>1. j - n \in 1 .. Len(table_req[u])
          <6>1. j \in 1 .. n + Len(table_req[u])
            BY <3>1
          <6> QED BY <3>c, <3>1, <4>3, <6>1
        <5> QED BY <3>a, <3>c, <4>1, <4>3, <5>1 DEF Item
      <4> QED BY <4>2, <4>3
    <3>5. ASSUME NEW g, g = h + 1 PROVE Item(u, g)' = port
      <4>1. ~(g <= n) /\ g - n = Len(table_req[u]) + 1
        BY <3>c, <3>1, <3>5
      <4>2. Item(u, g)' = IF g <= n THEN table_rsp[u][g].port ELSE <<u, table_req'[u][g - n]>>
        BY <3>a, <3>c DEF Item
      <4> QED BY <3>c, <4>1, <4>2
    <3>6. /\ pos \in [1 .. h -> Answered + 1 .. Sent]
          /\ \A i, j \in 1 .. h : i < j => pos[i] < pos[j]
          /\ \A j \in 1 .. h : asked[pos[j]] = Item(u, j) /\ asked[pos[j]][1] = u
          /\ \A k \in Answered + 1 .. Sent : asked[k][1] = u => \E j \in 1 .. h : pos[j] = k
      BY <2>1, <3>a DEF Places
    <3>7. /\ p1 \in [1 .. h + 1 -> Answered + 1 .. Sent + 1]
          /\ p1[h + 1] = Sent + 1 /\ \A j \in 1 .. h : p1[j] = pos[j]
      <4>1. Sent + 1 \in Answered + 1 .. Sent + 1
        BY <1>3, <1>6
      <4>2. \A j \in 1 .. h : j # h + 1 /\ j \in 1 .. h + 1
        BY <3>1
      <4>3. \A j \in 1 .. h + 1 : j \in 1 .. h \/ j = h + 1
        BY <3>1
      <4>4. h + 1 \in 1 .. h + 1
        BY <3>1
      <4> QED BY <2>2, <3>b, <3>6, <4>1, <4>2, <4>3, <4>4
    <3>8. \A j \in 1 .. h + 1 : j \in 1 .. h \/ j = h + 1
      BY <3>1
    <3>9. \A i, j \in 1 .. h + 1 : i < j => p1[i] < p1[j]
      <4> SUFFICES ASSUME NEW i \in 1 .. h + 1, NEW j \in 1 .. h + 1, i < j
                   PROVE  p1[i] < p1[j]
        OBVIOUS
      <4>1. i \in 1 .. h
        BY <3>1
      <4>2. CASE j = h + 1
        <5>1. pos[i] \in Answered + 1 .. Sent
          BY <3>6, <4>1
        <5>2. pos[i] < Sent + 1
          BY <1>6, <5>1
        <5> QED BY <3>7, <4>1, <4>2, <5>2
      <4>3. CASE j \in 1 .. h
        BY <3>6, <3>7, <4>1, <4>3
      <4> QED BY <3>8, <4>2, <4>3
    <3>10. \A j \in 1 .. h + 1 : asked[p1[j]] = Item(u, j)' /\ asked[p1[j]][1] = u
      BY <1>7, <3>c, <3>4, <3>5, <3>6, <3>7, <3>8
    <3>11. \A k \in Answered + 1 .. Sent + 1 : asked[k][1] = u
             => \E j \in 1 .. h + 1 : p1[j] = k
      <4>1. h + 1 \in 1 .. h + 1 /\ \A j \in 1 .. h : j \in 1 .. h + 1
        BY <3>1
      <4> QED BY <2>3, <3>6, <3>7, <4>1
    <3>12. Places(u, p1)'
      BY <1>0, <1>6, <3>3, <3>7, <3>9, <3>10, <3>11 DEF Places
    <3> QED BY <1>6, <3>3, <3>7, <3>12 DEF TableInStep
  <2> QED BY <2>4, <2>5
<1> QED BY <1>5, <1>8, <1>9 DEF CInv, CheckInv

\* The output multiplexer hands on the answer it waits for: the first of its table,
\* which is the first that was asked and not answered.
LEMMA CheckOutStep ==
  ASSUME CInv, NEW t \in Tables, CheckOutRead(t)
  PROVE  CInv'
<1> DEFINE rsp == Head(table_rsp[t])
<1>0. /\ mux = t /\ table_rsp[t] # <<>> /\ mux' = "READ_DST"
      /\ table_req \in [Tables -> Seq(Nat)] /\ table_rsp \in [Tables -> Seq(CheckRsp)]
      /\ check_rsp \in Seq(CheckRsp) /\ check_dst \in Seq(Tables)
      /\ check_rsp' = Append(check_rsp, rsp)
      /\ table_rsp' = [table_rsp EXCEPT ![t] = Tail(table_rsp[t])]
      /\ UNCHANGED <<check_req, table_req, check_dst, asked>>
  BY DEF CInv, CheckTypeOK, CheckOutRead
<1>1. /\ table_rsp[t] \in Seq(CheckRsp) /\ rsp \in CheckRsp /\ rsp = table_rsp[t][1]
      /\ table_rsp'[t] = Tail(table_rsp[t]) /\ table_rsp'[t] \in Seq(CheckRsp)
      /\ Len(table_rsp'[t]) = Len(table_rsp[t]) - 1
      /\ Len(table_rsp[t]) \in Nat /\ Len(table_rsp[t]) > 0
      /\ \A i \in 1 .. Len(table_rsp[t]) - 1 : table_rsp'[t][i] = table_rsp[t][i + 1]
  BY <1>0, ReadFifo
<1> HIDE DEF rsp
<1>2. /\ check_rsp' \in Seq(CheckRsp) /\ Len(check_rsp') = Len(check_rsp) + 1
      /\ Len(check_rsp) \in Nat /\ check_rsp'[Len(check_rsp) + 1] = rsp
      /\ \A i \in 1 .. Len(check_rsp) : check_rsp'[i] = check_rsp[i]
  BY <1>0, <1>1, WriteFifo
<1>3. CheckTypeOK'
  <2>1. table_rsp' \in [Tables -> Seq(CheckRsp)]
    BY <1>0, <1>1
  <2> QED BY <1>0, <1>2, <2>1 DEF CInv, CheckTypeOK
<1>4. t # "READ_DST"
  BY DEF Tables
<1>5. /\ Answered \in Nat /\ Sent \in Nat /\ Awaited = 1 /\ Len(check_dst) \in Nat
      /\ Sent = Answered + 1 + Len(check_dst) /\ Answered = Len(check_rsp)
      /\ Answered' = Answered + 1 /\ Awaited' = 0 /\ Sent' = Sent
  <2>1. /\ Answered \in Nat /\ Sent \in Nat /\ Awaited = 1 /\ Len(check_dst) \in Nat
        /\ Sent = Answered + 1 + Len(check_dst) /\ Answered = Len(check_rsp)
    BY <1>0, <1>4, Lengths DEF CInv, Sent, Awaited, Answered
  <2>2. Answered' = Answered + 1 /\ Awaited' = 0
    BY <1>0, <1>2, <2>1 DEF Answered, Awaited
  <2>3. Sent' = Answered + 1 + 0 + Len(check_dst)
    BY <1>0, <2>2 DEF Sent
  <2> QED BY <2>1, <2>2, <2>3
<1>6. PICK pos \in [1 .. Held(t) -> Answered + 1 .. Sent] : Places(t, pos)
  BY DEF CInv, CheckInv, TableInStep
<1>7. PICK h, n : h = Held(t) /\ n = Len(table_rsp[t])
  OBVIOUS
<1>8. /\ h \in Nat /\ n \in Nat /\ n > 0 /\ Len(table_req[t]) \in Nat /\ h = n + Len(table_req[t])
      /\ h > 0
  <2>1. h \in Nat /\ n \in Nat /\ n > 0 /\ Len(table_req[t]) \in Nat /\ h = n + Len(table_req[t])
    BY <1>1, <1>7, Lengths DEF CInv, Held
  <2> QED BY <2>1
<1>9. /\ pos \in [1 .. h -> Answered + 1 .. Sent]
      /\ \A i, j \in 1 .. h : i < j => pos[i] < pos[j]
      /\ \A j \in 1 .. h : asked[pos[j]] = Item(t, j) /\ asked[pos[j]][1] = t
      /\ \A k \in Answered + 1 .. Sent : asked[k][1] = t => \E j \in 1 .. h : pos[j] = k
  BY <1>6, <1>7 DEF Places
<1>10. pos[1] = Answered + 1
  <2>1. asked[Answered + 1][1] = t
    BY <1>0, <1>4 DEF CInv, CheckInv, OrderKept
  <2>2. Answered + 1 \in Answered + 1 .. Sent
    BY <1>5
  <2>3. PICK j \in 1 .. h : pos[j] = Answered + 1
    BY <1>9, <2>1, <2>2
  <2>4. 1 \in 1 .. h /\ (j = 1 \/ 1 < j)
    BY <1>8
  <2>5. pos[1] \in Answered + 1 .. Sent
    BY <1>9, <2>4
  <2>6. 1 < j => pos[1] < Answered + 1
    BY <1>9, <2>3, <2>4
  <2> QED BY <1>5, <2>3, <2>4, <2>5, <2>6
<1>11. rsp.port = asked[Answered + 1]
  <2>1. 1 \in 1 .. h /\ 1 <= n
    BY <1>8
  <2>2. Item(t, 1) = table_rsp[t][1].port
    BY <1>7, <2>1 DEF Item
  <2> QED BY <1>1, <1>9, <1>10, <2>1, <2>2
<1>12. OrderKept'
  <2>1. /\ Len(asked') = Sent' + Len(check_req')
        /\ \A j \in 1 .. Len(check_req') : asked'[Sent' + j] = check_req'[j]
    BY <1>0, <1>5 DEF CInv, CheckInv, OrderKept
  <2>2. \A i \in 1 .. Answered + 1 : check_rsp'[i].port = asked[i]
    <3> TAKE i \in 1 .. Answered + 1
    <3>1. CASE i = Answered + 1
      BY <1>2, <1>5, <1>11, <3>1
    <3>2. CASE i \in 1 .. Answered
      BY <1>2, <1>5, <3>2 DEF CInv, CheckInv, OrderKept
    <3> QED BY <1>5, <3>1, <3>2
  <2>3. \A j \in 1 .. Len(check_dst) : asked[Answered + 1 + 0 + j][1] = check_dst[j]
    <3> TAKE j \in 1 .. Len(check_dst)
    <3>1. Answered + 1 + 0 + j = Answered + 1 + j
      BY <1>5
    <3> QED BY <1>5, <3>1 DEF CInv, CheckInv, OrderKept
  <2> QED BY <1>0, <1>5, <2>1, <2>2, <2>3 DEF OrderKept
<1>13. TableInStep(t)'
  <2>1. PICK p1 : p1 = [j \in 1 .. h - 1 |-> pos[j + 1]]
    OBVIOUS
  <2>2. \A j \in 1 .. h - 1 : j \in 1 .. h /\ j + 1 \in 1 .. h /\ 1 < j + 1 /\ 1 \in 1 .. h
    BY <1>8
  <2>3. p1 \in [1 .. h - 1 -> Answered + 1 + 1 .. Sent]
    <3>1. ASSUME NEW j \in 1 .. h - 1 PROVE pos[j + 1] \in Answered + 1 + 1 .. Sent
      <4>1. pos[j + 1] \in Answered + 1 .. Sent /\ Answered + 1 < pos[j + 1]
        BY <1>9, <1>10, <2>2
      <4> QED BY <1>5, <4>1
    <3> QED BY <2>1, <3>1
  <2>4. \A i, j \in 1 .. h - 1 : i < j => p1[i] < p1[j]
    <3> SUFFICES ASSUME NEW i \in 1 .. h - 1, NEW j \in 1 .. h - 1, i < j PROVE p1[i] < p1[j]
      OBVIOUS
    <3>1. i + 1 \in 1 .. h /\ j + 1 \in 1 .. h /\ i + 1 < j + 1
      BY <2>2
    <3>2. pos[i + 1] < pos[j + 1]
      BY <1>9, <3>1
    <3> QED BY <2>1, <3>2
  <2>5. Held(t)' = h - 1
    <3>1. Held(t)' = Len(table_rsp'[t]) + Len(table_req[t])
      BY <1>0 DEF Held
    <3>2. Held(t)' = (n - 1) + Len(table_req[t])
      BY <1>1, <1>7, <3>1
    <3> QED BY <1>8, <3>2
  <2>6. \A j \in 1 .. h - 1 : Item(t, j)' = Item(t, j + 1)
    <3> TAKE j \in 1 .. h - 1
    <3>1. Item(t, j)' = IF j <= n - 1 THEN table_rsp'[t][j].port
                        ELSE <<t, table_req[t][j - (n - 1)]>>
      BY <1>0, <1>1, <1>7 DEF Item
    <3>2. PICK g : g = j + 1
      OBVIOUS
    <3>3. Item(t, g) = IF g <= n THEN table_rsp[t][g].port ELSE <<t, table_req[t][g - n]>>
      BY <1>7 DEF Item
    <3>4. CASE j <= n - 1
      <4>1. j \in 1 .. n - 1 /\ g <= n
        BY <1>8, <3>2, <3>4
      <4>2. table_rsp'[t][j] = table_rsp[t][g]
        BY <1>1, <1>7, <3>2, <4>1
      <4> QED BY <3>1, <3>2, <3>3, <3>4, <4>1, <4>2
    <3>5. CASE ~(j <= n - 1)
      <4>1. ~(g <= n) /\ g - n = j - (n - 1)
        BY <1>8, <3>2, <3>5
      <4> QED BY <3>1, <3>2, <3>3, <3>5, <4>1
    <3> QED BY <3>4, <3>5
  <2>7. \A j \in 1 .. h - 1 : asked[p1[j]] = Item(t, j)' /\ asked[p1[j]][1] = t
    BY <1>9, <2>1, <2>2, <2>6
  <2>8. \A k \in Answered + 1 + 1 .. Sent : asked[k][1] = t => \E j \in 1 .. h - 1 : p1[j] = k
    <3> SUFFICES ASSUME NEW k \in Answered + 1 + 1 .. Sent, asked[k][1] = t
                 PROVE  \E j \in 1 .. h - 1 : p1[j] = k
      OBVIOUS
    <3>1. k \in Answered + 1 .. Sent /\ k # Answered + 1
      BY <1>5
    <3>2. PICK j \in 1 .. h : pos[j] = k
      BY <1>9, <3>1
    <3>3. j # 1
      BY <1>10, <3>1, <3>2
    <3>4. j - 1 \in 1 .. h - 1 /\ (j - 1) + 1 = j
      BY <1>8, <3>3
    <3>5. p1[j - 1] = pos[(j - 1) + 1]
      BY <2>1, <3>4
    <3> QED BY <3>2, <3>4, <3>5
  <2>9. Places(t, p1)'
    BY <1>0, <1>5, <2>3, <2>4, <2>5, <2>7, <2>8 DEF Places
  <2> QED BY <1>5, <2>3, <2>5, <2>9 DEF TableInStep
<1>14. ASSUME NEW u \in Tables, u # t PROVE TableInStep(u)'
  <2>1. PICK q \in [1 .. Held(u) -> Answered + 1 .. Sent] : Places(u, q)
    BY DEF CInv, CheckInv, TableInStep
  <2>2. table_rsp'[u] = table_rsp[u] /\ table_req'[u] = table_req[u]
    BY <1>0, <1>14
  <2>3. Held(u)' = Held(u) /\ \A j : Item(u, j)' = Item(u, j)
    BY <2>2 DEF Held, Item
  <2>4. \A k \in Answered + 1 .. Sent : k # Answered + 1 => k \in Answered + 1 + 1 .. Sent
    BY <1>5
  <2>5. asked[Answered + 1][1] = t
    BY <1>0, <1>4 DEF CInv, CheckInv, OrderKept
  <2>6. \A j \in 1 .. Held(u) : q[j] # Answered + 1
    BY <1>14, <2>1, <2>5 DEF Places
  <2>7. q \in [1 .. Held(u) -> Answered + 1 + 1 .. Sent]
    BY <2>1, <2>4, <2>6
  <2>8. \A k \in Answered + 1 + 1 .. Sent : k \in Answered + 1 .. Sent
    BY <1>5
  <2>9. Places(u, q)'
    BY <1>0, <1>5, <2>1, <2>3, <2>7, <2>8 DEF Places
  <2> QED BY <1>5, <2>3, <2>7, <2>9 DEF TableInStep
<1> QED BY <1>3, <1>12, <1>13, <1>14 DEF CInv, CheckInv

\* The rx engine reads an answer; the port it asked about first is done.
LEMMA PopStep ==
  ASSUME CInv, check_rsp # <<>>, check_rsp' = Tail(check_rsp), asked' = Tail(asked),
         UNCHANGED <<check_req, table_req, table_rsp, check_dst, mux>>
  PROVE  CInv' /\ asked # <<>>
<1>0. check_rsp \in Seq(CheckRsp) /\ asked \in Seq(Ports)
  BY DEF CInv, CheckTypeOK
<1>1. /\ check_rsp' \in Seq(CheckRsp) /\ Len(check_rsp') = Len(check_rsp) - 1
      /\ Len(check_rsp) \in Nat /\ Len(check_rsp) > 0
      /\ \A i \in 1 .. Len(check_rsp) - 1 : check_rsp'[i] = check_rsp[i + 1]
  BY <1>0, ReadFifo
<1>2. /\ Answered \in Nat /\ Sent \in Nat /\ Awaited \in {0, 1} /\ Len(check_dst) \in Nat
      /\ Len(check_req) \in Nat /\ Len(asked) \in Nat
      /\ Sent = Answered + Awaited + Len(check_dst) /\ Answered = Len(check_rsp)
      /\ Len(asked) = Sent + Len(check_req)
  BY Lengths DEF CInv, Sent, Answered, CheckInv, OrderKept
<1>3. asked # <<>>
  <2>1. Len(asked) > 0
    BY <1>1, <1>2
  <2> QED BY <2>1
<1>4. /\ asked' \in Seq(Ports) /\ Len(asked') = Len(asked) - 1
      /\ \A i \in 1 .. Len(asked) - 1 : asked'[i] = asked[i + 1]
  BY <1>0, <1>3, ReadFifo
<1>5. /\ Answered' = Answered - 1 /\ Awaited' = Awaited /\ Sent' = Sent - 1 /\ Answered > 0
      /\ Len(asked') = Sent - 1 + Len(check_req)
  <2>1. Answered' = Answered - 1 /\ Awaited' = Awaited /\ Answered > 0
    BY <1>1, <1>2 DEF Answered, Awaited
  <2>2. Sent' = (Answered - 1) + Awaited + Len(check_dst)
    BY <2>1 DEF Sent
  <2> QED BY <1>2, <1>4, <2>1, <2>2
<1>6. \A k \in 1 .. Sent - 1 : k \in 1 .. Len(asked) - 1 /\ asked'[k] = asked[k + 1]
  BY <1>2, <1>4, <1>5
<1>7. OrderKept'
  <2>1. \A i \in 1 .. Answered - 1 : check_rsp'[i].port = asked'[i]
    <3> TAKE i \in 1 .. Answered - 1
    <3>1. i \in 1 .. Len(check_rsp) - 1 /\ i + 1 \in 1 .. Answered /\ i \in 1 .. Sent - 1
      BY <1>2
    <3>2. check_rsp[i + 1].port = asked[i + 1]
      BY <3>1 DEF CInv, CheckInv, OrderKept
    <3> QED BY <1>1, <1>6, <3>1, <3>2
  <2>2. mux # "READ_DST" => asked'[Answered - 1 + 1][1] = mux
    <3>1. mux # "READ_DST" => Answered \in 1 .. Sent - 1 /\ Answered - 1 + 1 = Answered
      BY <1>2, <1>5 DEF Awaited
    <3>2. mux # "READ_DST" => asked[Answered + 1][1] = mux
      BY DEF CInv, CheckInv, OrderKept
    <3> QED BY <1>6, <3>1, <3>2
  <2>3. \A j \in 1 .. Len(check_dst) : asked'[Answered - 1 + Awaited + j][1] = check_dst[j]
    <3> TAKE j \in 1 .. Len(check_dst)
    <3>1. /\ Answered - 1 + Awaited + j \in 1 .. Sent - 1
          /\ (Answered - 1 + Awaited + j) + 1 = Answered + Awaited + j
      BY <1>2, <1>5
    <3>2. asked[Answered + Awaited + j][1] = check_dst[j]
      BY DEF CInv, CheckInv, OrderKept
    <3> QED BY <1>6, <3>1, <3>2
  <2>4. \A j \in 1 .. Len(check_req) : asked'[Sent - 1 + j] = check_req[j]
    <3> TAKE j \in 1 .. Len(check_req)
    <3>1. Sent - 1 + j \in 1 .. Len(asked) - 1 /\ (Sent - 1 + j) + 1 = Sent + j
      BY <1>2, <1>5, SMTT(30)
    <3>2. asked[Sent + j] = check_req[j]
      BY DEF CInv, CheckInv, OrderKept
    <3> QED BY <1>4, <3>1, <3>2
  <2> QED BY <1>5, <2>1, <2>2, <2>3, <2>4 DEF OrderKept
<1>8. ASSUME NEW t \in Tables PROVE TableInStep(t)'
  <2>1. PICK pos \in [1 .. Held(t) -> Answered + 1 .. Sent] : Places(t, pos)
    BY DEF CInv, CheckInv, TableInStep
  <2>2. Held(t)' = Held(t) /\ \A j : Item(t, j)' = Item(t, j)
    BY DEF Held, Item
  <2>3. PICK h : h = Held(t)
    OBVIOUS
  <2>4. PICK p1 : p1 = [j \in 1 .. h |-> pos[j] - 1]
    OBVIOUS
  <2>5. /\ pos \in [1 .. h -> Answered + 1 .. Sent]
        /\ \A i, j \in 1 .. h : i < j => pos[i] < pos[j]
        /\ \A j \in 1 .. h : asked[pos[j]] = Item(t, j) /\ asked[pos[j]][1] = t
        /\ \A k \in Answered + 1 .. Sent : asked[k][1] = t => \E j \in 1 .. h : pos[j] = k
    BY <2>1, <2>3 DEF Places
  <2>6. \A j \in 1 .. h : /\ p1[j] = pos[j] - 1 /\ pos[j] \in Nat
                          /\ p1[j] \in Answered - 1 + 1 .. Sent - 1
                          /\ p1[j] \in 1 .. Sent - 1 /\ p1[j] + 1 = pos[j]
    <3> TAKE j \in 1 .. h
    <3>1. PICK k \in Answered + 1 .. Sent : k = pos[j]
      BY <2>5
    <3>2. p1[j] = k - 1
      BY <2>4, <3>1
    <3>3. k \in Nat /\ k - 1 \in Answered - 1 + 1 .. Sent - 1 /\ k - 1 \in 1 .. Sent - 1
          /\ (k - 1) + 1 = k
      BY <1>2, <1>5
    <3> QED BY <3>1, <3>2, <3>3
  <2>7. p1 \in [1 .. h -> Answered - 1 + 1 .. Sent - 1]
    BY <2>4, <2>6
  <2>8. \A i, j \in 1 .. h : i < j => p1[i] < p1[j]
    <3> SUFFICES ASSUME NEW i \in 1 .. h, NEW j \in 1 .. h, i < j PROVE p1[i] < p1[j]
      OBVIOUS
    <3>1. pos[i] < pos[j] /\ pos[i] \in Nat /\ pos[j] \in Nat
      BY <2>5, <2>6
    <3>2. p1[i] = pos[i] - 1 /\ p1[j] = pos[j] - 1
      BY <2>6
    <3> QED BY <3>1, <3>2
  <2>9. \A j \in 1 .. h : asked'[p1[j]] = Item(t, j)' /\ asked'[p1[j]][1] = t
    BY <1>6, <2>2, <2>5, <2>6
  <2>10. \A k \in Answered - 1 + 1 .. Sent - 1 : asked'[k][1] = t => \E j \in 1 .. h : p1[j] = k
    <3> SUFFICES ASSUME NEW k \in Answered - 1 + 1 .. Sent - 1, asked'[k][1] = t
                 PROVE  \E j \in 1 .. h : p1[j] = k
      OBVIOUS
    <3>1. k \in 1 .. Sent - 1 /\ k + 1 \in Answered + 1 .. Sent /\ k \in Nat
      BY <1>2, <1>5
    <3>2. asked[k + 1][1] = t
      BY <1>6, <3>1
    <3>3. PICK j \in 1 .. h : pos[j] = k + 1
      BY <2>5, <3>1, <3>2
    <3>4. p1[j] = k
      BY <2>6, <3>1, <3>3
    <3> QED BY <3>4
  <2>11. Places(t, p1)'
    BY <1>5, <2>2, <2>3, <2>7, <2>8, <2>9, <2>10 DEF Places
  <2> QED BY <1>5, <2>2, <2>3, <2>7, <2>11 DEF TableInStep
<1> QED BY <1>1, <1>3, <1>4, <1>7, <1>8 DEF CInv, CheckInv, CheckTypeOK
-----------------------------------------------------------------------------
(* Counting in FIFOs, and the sessions in use.                              *)

\* How often x is in a FIFO.
Places_of(q, x) == {i \in DOMAIN q : q[i] = x}
Count(q, x) == Cardinality(Places_of(q, x))

LEMMA CountType ==
  ASSUME NEW S, NEW q \in Seq(S), NEW x
  PROVE  Count(q, x) \in Nat /\ IsFiniteSet(Places_of(q, x)) /\ DOMAIN q = 1 .. Len(q)
<1>1. DOMAIN q = 1 .. Len(q) /\ Len(q) \in Nat
  OBVIOUS
<1>2. IsFiniteSet(1 .. Len(q))
  BY <1>1, FS_Interval
<1>3. Places_of(q, x) \in SUBSET (1 .. Len(q))
  BY <1>1 DEF Places_of
<1>4. IsFiniteSet(Places_of(q, x))
  BY <1>2, <1>3, FS_Subset
<1> QED BY <1>1, <1>4, FS_CardinalityType DEF Count

LEMMA CountAppend ==
  ASSUME NEW S, NEW q \in Seq(S), NEW e \in S, NEW x
  PROVE  Count(Append(q, e), x) = IF e = x THEN Count(q, x) + 1 ELSE Count(q, x)
<1>1. /\ DOMAIN q = 1 .. Len(q) /\ DOMAIN Append(q, e) = 1 .. Len(q) + 1 /\ Len(q) \in Nat
      /\ Append(q, e)[Len(q) + 1] = e
      /\ \A i \in 1 .. Len(q) : Append(q, e)[i] = q[i]
  OBVIOUS
<1>2. \A i : i \in 1 .. Len(q) + 1 <=> i \in 1 .. Len(q) \/ i = Len(q) + 1
  BY <1>1
<1>3. Len(q) + 1 \notin Places_of(q, x)
  BY <1>1 DEF Places_of
<1>4. CASE e = x
  <2>1. Places_of(Append(q, e), x) = Places_of(q, x) \cup {Len(q) + 1}
    BY <1>1, <1>2, <1>4 DEF Places_of
  <2>2. IsFiniteSet(Places_of(q, x))
    BY CountType
  <2> QED BY <1>3, <1>4, <2>1, <2>2, FS_AddElement DEF Count
<1>5. CASE e # x
  <2>1. Places_of(Append(q, e), x) = Places_of(q, x)
    BY <1>1, <1>2, <1>5 DEF Places_of
  <2> QED BY <1>5, <2>1 DEF Count
<1> QED BY <1>4, <1>5

LEMMA CountTail ==
  ASSUME NEW S, NEW q \in Seq(S), q # <<>>, NEW x
  PROVE  /\ Count(Tail(q), x) = IF Head(q) = x THEN Count(q, x) - 1 ELSE Count(q, x)
         /\ Head(q) = x => Count(q, x) > 0
<1>1. /\ DOMAIN q = 1 .. Len(q) /\ DOMAIN Tail(q) = 1 .. Len(q) - 1 /\ Len(q) \in Nat
      /\ Len(q) > 0 /\ Head(q) = q[1]
      /\ \A i \in 1 .. Len(q) - 1 : Tail(q)[i] = q[i + 1]
  OBVIOUS
<1> DEFINE A == Places_of(q, x)
           B == Places_of(Tail(q), x)
           f == [i \in B |-> i + 1]
<1>2. IsFiniteSet(A) /\ Cardinality(A) \in Nat
  BY CountType DEF Count
<1>3. 1 \in A <=> Head(q) = x
  <2>1. 1 \in 1 .. Len(q)
    BY <1>1
  <2> QED BY <1>1, <2>1 DEF Places_of
<1>4. ExistsBijection(A \ {1}, B)
  <2>1. \A i \in A \ {1} : i - 1 \in B /\ (i - 1) + 1 = i /\ i \in Nat
    <3> TAKE i \in A \ {1}
    <3>1. i \in 1 .. Len(q) /\ i # 1 /\ q[i] = x
      BY <1>1 DEF Places_of
    <3>2. i - 1 \in 1 .. Len(q) - 1 /\ (i - 1) + 1 = i /\ i \in Nat
      BY <1>1, <3>1
    <3>3. Tail(q)[i - 1] = x
      BY <1>1, <3>1, <3>2
    <3> QED BY <1>1, <3>2, <3>3 DEF Places_of
  <2>2. \A i \in B : i + 1 \in A \ {1} /\ (i + 1) - 1 = i
    <3> TAKE i \in B
    <3>1. i \in 1 .. Len(q) - 1 /\ Tail(q)[i] = x
      BY <1>1 DEF Places_of
    <3>2. i + 1 \in 1 .. Len(q) /\ i + 1 # 1 /\ (i + 1) - 1 = i
      BY <1>1, <3>1
    <3> QED BY <1>1, <3>1, <3>2 DEF Places_of
  <2> HIDE DEF A, B
  <2> DEFINE g == [i \in A \ {1} |-> i - 1]
  <2>3. g \in [A \ {1} -> B]
    BY <2>1
  <2>4. \A i, j \in A \ {1} : g[i] = g[j] => i = j
    BY <2>1
  <2>5. \A b \in B : \E a \in A \ {1} : g[a] = b
    BY <2>2
  <2>6. g \in Bijection(A \ {1}, B)
    BY <2>3, <2>4, <2>5 DEF Bijection, Injection, Surjection, IsInjective
  <2> QED BY <2>6 DEF ExistsBijection
<1>5. /\ IsFiniteSet(A \ {1})
      /\ Cardinality(A \ {1}) = IF 1 \in A THEN Cardinality(A) - 1 ELSE Cardinality(A)
  BY <1>2, FS_RemoveElement
<1>6. Cardinality(B) = Cardinality(A \ {1})
  BY <1>4, <1>5, FS_Bijection
<1>7. 1 \in A => Cardinality(A) > 0
  <2>1. Cardinality(A) = 0 <=> A = {}
    BY <1>2, FS_EmptySet
  <2> QED BY <1>2, <2>1
<1> QED BY <1>3, <1>5, <1>6, <1>7 DEF Count

\* While fewer than SessionIds sessions are in use, no port has SessionIds of them.
LEMMA SessionsBound ==
  ASSUME live \in [Ports -> 0 .. SessionIds], NEW port \in Ports, SessionCount < SessionIds
  PROVE  live[port] < SessionIds
<1>1. IsFiniteSet(Ports)
  <2>a. 0 \in Int /\ ListenCount - 1 \in Int /\ FreeCount - 1 \in Int
    BY PortCountAssumption
  <2>b. IsFiniteSet(0 .. ListenCount - 1) /\ IsFiniteSet(0 .. FreeCount - 1)
    BY <2>a, FS_Interval
  <2>c. IsFiniteSet({"listen"}) /\ IsFiniteSet({"free"})
    BY FS_Singleton, Zenon
  <2>2. IsFiniteSet(ListenPorts) /\ IsFiniteSet(FreePorts)
    BY <2>b, <2>c, FS_Product DEF ListenPorts, FreePorts
  <2> QED BY <2>2, FS_Union DEF Ports
<1>2. IsFiniteSet(1 .. SessionIds) /\ Cardinality(1 .. SessionIds) = SessionIds
      /\ SessionIds \in Nat
  BY PortInputsAssumption, FS_Interval
<1>3. IsFiniteSet(Ports \X (1 .. SessionIds))
  BY <1>1, <1>2, FS_Product
<1>4. IsFiniteSet(Sessions) /\ Cardinality(Sessions) \in Nat
  BY <1>3, FS_Subset, FS_CardinalityType DEF Sessions
<1>5. SUFFICES ASSUME live[port] = SessionIds PROVE FALSE
  <2>1. live[port] \in 0 .. SessionIds
    OBVIOUS
  <2> QED BY <1>2, <1>5, <2>1
<1> DEFINE f == [k \in 1 .. SessionIds |-> <<port, k>>]
<1>6. \A k \in 1 .. SessionIds : <<port, k>> \in Sessions
  BY <1>2, <1>5 DEF Sessions
<1>7. f \in Injection(1 .. SessionIds, Sessions)
  BY <1>6 DEF Injection, IsInjective
<1>8. Cardinality(1 .. SessionIds) <= Cardinality(Sessions)
  BY <1>4, <1>7, FS_Injection
<1> QED BY <1>2, <1>4, <1>8 DEF SessionCount
-----------------------------------------------------------------------------
(* The table of lent ports.                                                 *)

\* The three ways to hold a lent port, as numbers.
LEMMA HoldersFacts ==
  ASSUME FreeTypeOK, NEW p \in FreeIndex
  PROVE  /\ live[<<"free", p>>] \in Nat /\ Count(port_rsp, p) \in Nat
         /\ Count(release_req, <<"free", p>>) \in Nat
         /\ Holders(p) = live[<<"free", p>>] + Count(port_rsp, p)
                         + Count(release_req, <<"free", p>>)
<1>1. live \in [Ports -> 0 .. SessionIds] /\ <<"free", p>> \in Ports
  BY PortMade DEF FreeTypeOK
<1>2. live[<<"free", p>>] \in Nat
  BY <1>1, Consts
<1>3. Count(port_rsp, p) \in Nat /\ Count(release_req, <<"free", p>>) \in Nat
  BY CountType DEF FreeTypeOK
<1> QED BY <1>2, <1>3 DEF Holders, Count, Places_of

\* LentOnce for one port.
LEMMA LentFacts ==
  ASSUME FInv, NEW p \in FreeIndex, <<"free", p>> \notin shared
  PROVE  Holders(p) <= 1 /\ (Holders(p) = 1 => free_port_table[p].is_open)
BY DEF FInv, LentOnce, FreeIndex

LEMMA NewSessionType ==
  ASSUME FInv, NEW port \in Ports
  PROVE  /\ NewSession(port) \in [Ports -> 0 .. SessionIds]
         /\ \A q \in Ports : q # port => NewSession(port)[q] = live[q]
         /\ NewSession(port)[port] \in {live[port], live[port] + 1}
<1>1. live \in [Ports -> 0 .. SessionIds]
  BY DEF FInv, FreeTypeOK
<1>2. SessionCount < SessionIds => live[port] < SessionIds
  BY <1>1, SessionsBound
<1>3. SessionCount < SessionIds => live[port] + 1 \in 0 .. SessionIds
  BY <1>1, <1>2, Consts
<1> QED BY <1>1, <1>3 DEF NewSession

\* A step that keeps or frees every port, and lends none.
LEMMA Freed ==
  ASSUME FInv, FreeTypeOK', shared \subseteq shared',
         \A p \in FreeIndex : <<"free", p>> \notin shared' =>
           /\ Holders(p)' \in Nat /\ Holders(p)' <= Holders(p)
           /\ Holders(p)' = 1 => free_port_table'[p].is_open = free_port_table[p].is_open
  PROVE  FInv'
<1>1. ASSUME NEW p \in FreeIndex, <<"free", p>> \notin shared'
      PROVE  Holders(p)' <= 1 /\ (Holders(p)' = 1 => free_port_table'[p].is_open)
  <2>1. <<"free", p>> \notin shared /\ FreeTypeOK
    BY <1>1 DEF FInv
  <2>2. Holders(p) <= 1 /\ (Holders(p) = 1 => free_port_table[p].is_open)
    BY <2>1, LentFacts
  <2>3. Holders(p) \in Nat
    <3>1. /\ live[<<"free", p>>] \in Nat /\ Count(port_rsp, p) \in Nat
          /\ Count(release_req, <<"free", p>>) \in Nat
          /\ Holders(p) = live[<<"free", p>>] + Count(port_rsp, p)
                         + Count(release_req, <<"free", p>>)
      BY <2>1, HoldersFacts
    <3> QED BY <3>1
  <2>4. Holders(p)' \in Nat /\ Holders(p)' <= Holders(p)
        /\ (Holders(p)' = 1 => free_port_table'[p].is_open = free_port_table[p].is_open)
    BY <1>1
  <2>5. Holders(p)' <= 1 /\ (Holders(p)' = 1 => Holders(p) = 1)
    BY <2>2, <2>3, <2>4
  <2> QED BY <2>2, <2>4, <2>5
<1>2. LentOnce'
  BY <1>1 DEF LentOnce, FreeIndex
<1> QED BY <1>2 DEF FInv

LEMMA ReleasePortStep ==
  ASSUME FInv, ReleasePort
  PROVE  FInv'
<1> DEFINE port == Head(release_req)
<1>0. /\ FreeTypeOK /\ release_req # <<>> /\ release_req' = Tail(release_req)
      /\ release_req \in Seq(Ports) /\ free_port_table \in [FreeIndex -> PortEntry]
      /\ free_port_table' = IF port \in FreePorts
                            THEN [free_port_table EXCEPT ![port[2]].is_open = FALSE]
                            ELSE free_port_table
      /\ port_rsp' = port_rsp /\ live' = live /\ shared' = shared
  BY DEF FInv, FreeTypeOK, ReleasePort
<1>1. port \in Ports /\ release_req' \in Seq(Ports)
  BY <1>0, ReadFifo
<1>2. port = <<port[1], port[2]>> /\ (port \in FreePorts => port[2] \in FreeIndex /\ port[1] = "free")
  BY <1>1, PortFacts
<1>3. free_port_table' \in [FreeIndex -> PortEntry]
  <2>1. PICK b \in BOOLEAN : b = FALSE
    OBVIOUS
  <2>2. port \in FreePorts => free_port_table' = [free_port_table EXCEPT ![port[2]].is_open = b]
    BY <1>0, <2>1
  <2>3. CASE port \in FreePorts
    <3>1. [free_port_table[port[2]] EXCEPT !.is_open = b] \in PortEntry
      BY <1>0, <1>2, <2>3 DEF PortEntry
    <3> QED BY <1>0, <1>2, <2>2, <2>3, <3>1
  <2>4. CASE port \notin FreePorts
    BY <1>0, <2>4
  <2> QED BY <2>3, <2>4
<1>4. FreeTypeOK'
  BY <1>0, <1>1, <1>3 DEF FreeTypeOK, ReleasePort
<1>5. \A p \in FreeIndex : port # <<"free", p>> => free_port_table'[p] = free_port_table[p]
  BY <1>0, <1>2
<1>6. ASSUME NEW p \in FreeIndex, <<"free", p>> \notin shared'
      PROVE  /\ Holders(p)' \in Nat /\ Holders(p)' <= Holders(p)
             /\ Holders(p)' = 1 => free_port_table'[p].is_open = free_port_table[p].is_open
  <2>1. /\ live[<<"free", p>>] \in Nat /\ Count(port_rsp, p) \in Nat
        /\ Count(release_req, <<"free", p>>) \in Nat
        /\ Holders(p) = live[<<"free", p>>] + Count(port_rsp, p)
                        + Count(release_req, <<"free", p>>)
    BY <1>0, HoldersFacts
  <2>2. (FreeTypeOK /\ p \in FreeIndex =>
           Holders(p) = live[<<"free", p>>] + Count(port_rsp, p)
                        + Count(release_req, <<"free", p>>))'
    BY HoldersFacts, PTL
  <2>3. Holders(p)' = live[<<"free", p>>] + Count(port_rsp, p)
                      + Count(Tail(release_req), <<"free", p>>)
    BY <1>0, <1>4, <2>2 DEF Count, Places_of
  <2>4. /\ Count(Tail(release_req), <<"free", p>>) =
             IF port = <<"free", p>> THEN Count(release_req, <<"free", p>>) - 1
             ELSE Count(release_req, <<"free", p>>)
        /\ port = <<"free", p>> => Count(release_req, <<"free", p>>) > 0
    BY <1>0, CountTail
  <2>5. Holders(p) <= 1
    BY <1>0, <1>6, LentFacts
  <2>6. Holders(p)' \in Nat /\ Holders(p)' <= Holders(p)
        /\ (Holders(p)' = 1 => port # <<"free", p>>)
    BY <2>1, <2>3, <2>4, <2>5
  <2> QED BY <1>5, <2>6
<1> QED BY <1>0, <1>4, <1>6, Freed

\* Holders after a step, whatever the step.
LEMMA HoldersNext ==
  ASSUME FreeTypeOK', NEW p \in FreeIndex
  PROVE  /\ live'[<<"free", p>>] \in Nat /\ Count(port_rsp', p) \in Nat
         /\ Count(release_req', <<"free", p>>) \in Nat
         /\ Holders(p)' = live'[<<"free", p>>] + Count(port_rsp', p)
                          + Count(release_req', <<"free", p>>)
<1>1. (FreeTypeOK /\ p \in FreeIndex =>
         /\ live[<<"free", p>>] \in Nat /\ Count(port_rsp, p) \in Nat
         /\ Count(release_req, <<"free", p>>) \in Nat
         /\ Holders(p) = live[<<"free", p>>] + Count(port_rsp, p)
                         + Count(release_req, <<"free", p>>))'
  BY HoldersFacts, PTL
<1> QED BY <1>1 DEF Count, Places_of

LEMMA LendPortStep ==
  ASSUME FInv, LendPort
  PROVE  FInv'
<1> DEFINE entry == [is_open |-> TRUE, role_id |-> Head(port_req)]
<1>0. /\ FreeTypeOK /\ port_req # <<>> /\ port_req' = Tail(port_req) /\ port_req \in Seq(Roles)
      /\ pt_cursor \in FreeIndex /\ port_rsp \in Seq(FreeIndex)
      /\ free_port_table \in [FreeIndex -> PortEntry]
      /\ release_req' = release_req /\ live' = live /\ shared' = shared
      /\ pt_cursor' = (pt_cursor + 1) % FreeCount
      /\ dropped' = (dropped \/ ~Lendable)
      /\ tx_app_wait_for_free_port_lock' = tx_app_wait_for_free_port_lock
  BY DEF FInv, FreeTypeOK, LendPort, NextCursor
<1>1. Head(port_req) \in Roles /\ port_req' \in Seq(Roles)
  BY <1>0, ReadFifo
<1>2. pt_cursor' \in FreeIndex
  BY <1>0, Consts DEF FreeIndex
<1>3. dropped' \in BOOLEAN
  BY <1>0, Zenon
<1>4. CASE ~Lendable
  <2>1. free_port_table' = free_port_table /\ port_rsp' = port_rsp
    BY <1>4 DEF LendPort
  <2>2. FreeTypeOK'
    BY <1>0, <1>1, <1>2, <1>3, <2>1 DEF FreeTypeOK
  <2>3. LentOnce'
    BY <1>0, <2>1 DEF FInv, LentOnce, Holders
  <2> QED BY <2>2, <2>3 DEF FInv
<1>5. CASE Lendable
  <2>1. /\ free_port_table' = [free_port_table EXCEPT ![pt_cursor] = entry]
        /\ port_rsp' = Append(port_rsp, pt_cursor)
        /\ ~free_port_table[pt_cursor].is_open
    BY <1>5 DEF LendPort, Lendable
  <2>2. entry \in PortEntry /\ entry.is_open
    BY <1>1 DEF PortEntry
  <2> HIDE DEF entry
  <2>3. free_port_table' \in [FreeIndex -> PortEntry] /\ port_rsp' \in Seq(FreeIndex)
    BY <1>0, <2>1, <2>2, WriteFifo
  <2>4. FreeTypeOK'
    BY <1>0, <1>1, <1>2, <1>3, <2>3 DEF FreeTypeOK
  <2>5. ASSUME NEW p \in FreeIndex, <<"free", p>> \notin shared'
        PROVE  Holders(p)' <= 1 /\ (Holders(p)' = 1 => free_port_table'[p].is_open)
    <3>1. /\ live[<<"free", p>>] \in Nat /\ Count(port_rsp, p) \in Nat
          /\ Count(release_req, <<"free", p>>) \in Nat
          /\ Holders(p) = live[<<"free", p>>] + Count(port_rsp, p)
                          + Count(release_req, <<"free", p>>)
      BY <1>0, HoldersFacts
    <3>2. Holders(p)' = live[<<"free", p>>] + Count(Append(port_rsp, pt_cursor), p)
                        + Count(release_req, <<"free", p>>)
      BY <1>0, <2>1, <2>4, HoldersNext
    <3>3. Count(Append(port_rsp, pt_cursor), p) =
            IF pt_cursor = p THEN Count(port_rsp, p) + 1 ELSE Count(port_rsp, p)
      BY <1>0, CountAppend
    <3>4. Holders(p) <= 1 /\ (Holders(p) = 1 => free_port_table[p].is_open)
      BY <1>0, <2>5, LentFacts
    <3>5. CASE pt_cursor = p
      <4>1. free_port_table'[p].is_open /\ Holders(p) # 1
        BY <1>0, <2>1, <2>2, <3>4, <3>5
      <4>2. Holders(p)' <= 1
        BY <3>1, <3>2, <3>3, <3>4, <3>5, <4>1
      <4> QED BY <4>1, <4>2
    <3>6. CASE pt_cursor # p
      <4>1. free_port_table'[p] = free_port_table[p]
        BY <1>0, <2>1, <3>6
      <4>2. Holders(p)' = Holders(p)
        BY <3>1, <3>2, <3>3, <3>6
      <4> QED BY <3>4, <4>1, <4>2
    <3> QED BY <3>5, <3>6
  <2>6. LentOnce'
    BY <2>5 DEF LentOnce, FreeIndex
  <2> QED BY <2>4, <2>6 DEF FInv
<1> QED BY <1>4, <1>5

LEMMA OpenConnStep ==
  ASSUME FInv, NEW role \in Roles, OpenConn(role)
  PROVE  FInv'
<1>1. port_req' = Append(port_req, role) /\ port_req \in Seq(Roles)
  BY DEF FInv, FreeTypeOK, OpenConn
<1>2. port_req' \in Seq(Roles)
  BY <1>1, WriteFifo
<1>3. FreeTypeOK'
  BY <1>2 DEF FInv, FreeTypeOK, OpenConn
<1>4. LentOnce'
  BY DEF FInv, LentOnce, Holders, OpenConn
<1> QED BY <1>3, <1>4 DEF FInv

\* The port of an answer becomes the port of a session, or is forgotten.
LEMMA PortRspReadStep ==
  ASSUME FInv, PortRspRead
  PROVE  FInv'
<1> DEFINE port == <<"free", Head(port_rsp)>>
<1>0. /\ FreeTypeOK /\ port_rsp # <<>> /\ port_rsp' = Tail(port_rsp)
      /\ port_rsp \in Seq(FreeIndex) /\ live' = NewSession(port)
      /\ free_port_table' = free_port_table /\ release_req' = release_req /\ shared' = shared
  BY DEF FInv, FreeTypeOK, PortRspRead
<1>1. Head(port_rsp) \in FreeIndex /\ port_rsp' \in Seq(FreeIndex)
  BY <1>0, ReadFifo
<1>2. port \in Ports
  BY <1>1, PortMade
<1>3. /\ live' \in [Ports -> 0 .. SessionIds]
      /\ \A q \in Ports : q # port => live'[q] = live[q]
      /\ live'[port] \in {live[port], live[port] + 1}
  BY <1>0, <1>2, NewSessionType
<1>4. FreeTypeOK'
  BY <1>0, <1>1, <1>3 DEF FreeTypeOK, PortRspRead
<1>5. ASSUME NEW p \in FreeIndex, <<"free", p>> \notin shared'
      PROVE  Holders(p)' \in Nat /\ Holders(p)' <= Holders(p)
  <2>1. /\ live[<<"free", p>>] \in Nat /\ Count(port_rsp, p) \in Nat
        /\ Count(release_req, <<"free", p>>) \in Nat
        /\ Holders(p) = live[<<"free", p>>] + Count(port_rsp, p)
                        + Count(release_req, <<"free", p>>)
    BY <1>0, HoldersFacts
  <2>2. Holders(p)' = live'[<<"free", p>>] + Count(Tail(port_rsp), p)
                      + Count(release_req, <<"free", p>>)
    BY <1>0, <1>4, HoldersNext
  <2>3. /\ Count(Tail(port_rsp), p) =
             IF Head(port_rsp) = p THEN Count(port_rsp, p) - 1 ELSE Count(port_rsp, p)
        /\ Head(port_rsp) = p => Count(port_rsp, p) > 0
    BY <1>0, CountTail
  <2>4. <<"free", p>> \in Ports
    BY PortMade
  <2>5. CASE Head(port_rsp) = p
    <3>1. live'[<<"free", p>>] \in {live[<<"free", p>>], live[<<"free", p>>] + 1}
      BY <1>3, <2>5
    <3> QED BY <2>1, <2>2, <2>3, <2>5, <3>1
  <2>6. CASE Head(port_rsp) # p
    <3>1. <<"free", p>> # port
      BY <2>6
    <3>2. live'[<<"free", p>>] = live[<<"free", p>>]
      BY <1>3, <2>4, <3>1
    <3> QED BY <2>1, <2>2, <2>3, <2>6, <3>2
  <2> QED BY <2>5, <2>6
<1> QED BY <1>0, <1>4, <1>5, Freed

LEMMA SessionReleasedStep ==
  ASSUME FInv, NEW port \in Ports, SessionReleased(port)
  PROVE  FInv'
<1>0. /\ FreeTypeOK /\ release_req \in Seq(Ports) /\ live \in [Ports -> 0 .. SessionIds]
      /\ live[port] > 0 /\ live' = [live EXCEPT ![port] = live[port] - 1]
      /\ release_req' = Append(release_req, port) /\ port_rsp' = port_rsp
      /\ free_port_table' = free_port_table /\ shared' = shared
  BY DEF FInv, FreeTypeOK, SessionReleased
<1>1. release_req' \in Seq(Ports)
  BY <1>0, WriteFifo
<1>2. live[port] - 1 \in 0 .. SessionIds
  BY <1>0, Consts
<1>3. live' \in [Ports -> 0 .. SessionIds]
  BY <1>0, <1>2
<1>4. FreeTypeOK'
  BY <1>0, <1>1, <1>3 DEF FreeTypeOK, SessionReleased
<1>5. ASSUME NEW p \in FreeIndex, <<"free", p>> \notin shared'
      PROVE  Holders(p)' \in Nat /\ Holders(p)' <= Holders(p)
  <2>1. /\ live[<<"free", p>>] \in Nat /\ Count(port_rsp, p) \in Nat
        /\ Count(release_req, <<"free", p>>) \in Nat
        /\ Holders(p) = live[<<"free", p>>] + Count(port_rsp, p)
                        + Count(release_req, <<"free", p>>)
    BY <1>0, HoldersFacts
  <2>2. /\ live'[<<"free", p>>] \in Nat
        /\ Holders(p)' = live'[<<"free", p>>] + Count(port_rsp, p)
                         + Count(Append(release_req, port), <<"free", p>>)
    BY <1>0, <1>4, HoldersNext
  <2>3. Count(Append(release_req, port), <<"free", p>>) =
          IF port = <<"free", p>> THEN Count(release_req, <<"free", p>>) + 1
          ELSE Count(release_req, <<"free", p>>)
    <3>1. \A x : Count(Append(release_req, port), x) =
                   IF port = x THEN Count(release_req, x) + 1 ELSE Count(release_req, x)
      BY <1>0, CountAppend
    <3> QED BY <3>1
  <2>4. live'[<<"free", p>>] = IF port = <<"free", p>> THEN live[<<"free", p>>] - 1
                               ELSE live[<<"free", p>>]
    BY <1>0, PortMade
  <2> QED BY <2>1, <2>2, <2>3, <2>4
<1> QED BY <1>0, <1>4, <1>5, Freed

\* A SYN makes a session on the port that was asked about; if that port is a lent one
\* it is shared from then on.
LEMMA CheckRspReadFree ==
  ASSUME FInv, NEW syn \in BOOLEAN, CheckRspRead(syn), Head(asked) \in Ports
  PROVE  FInv'
<1> DEFINE port == Head(asked)
<1>0. /\ FreeTypeOK /\ live \in [Ports -> 0 .. SessionIds] /\ shared \subseteq FreePorts
      /\ live' = live \/ live' = NewSession(port)
      /\ shared' = IF live' # live /\ port \in FreePorts THEN shared \cup {port} ELSE shared
      /\ release_req' = release_req /\ port_rsp' = port_rsp
      /\ free_port_table' = free_port_table
  BY DEF FInv, FreeTypeOK, CheckRspRead
<1>1. /\ live' \in [Ports -> 0 .. SessionIds]
      /\ \A q \in Ports : q # port => live'[q] = live[q]
  BY <1>0, NewSessionType
<1>2. shared \subseteq shared' /\ shared' \subseteq FreePorts
  BY <1>0
<1>3. FreeTypeOK'
  BY <1>0, <1>1, <1>2 DEF FreeTypeOK, CheckRspRead
<1>4. ASSUME NEW p \in FreeIndex, <<"free", p>> \notin shared'
      PROVE  Holders(p)' \in Nat /\ Holders(p)' <= Holders(p)
  <2>1. /\ live[<<"free", p>>] \in Nat /\ Count(port_rsp, p) \in Nat
        /\ Count(release_req, <<"free", p>>) \in Nat
        /\ Holders(p) = live[<<"free", p>>] + Count(port_rsp, p)
                        + Count(release_req, <<"free", p>>)
    BY <1>0, HoldersFacts
  <2>2. Holders(p)' = live'[<<"free", p>>] + Count(port_rsp, p)
                      + Count(release_req, <<"free", p>>)
    BY <1>0, <1>3, HoldersNext
  <2>3. <<"free", p>> \in Ports /\ <<"free", p>> \in FreePorts
    BY PortMade
  <2>4. live'[<<"free", p>>] = live[<<"free", p>>]
    BY <1>0, <1>1, <1>4, <2>3
  <2> QED BY <2>1, <2>2, <2>4
<1> QED BY <1>0, <1>2, <1>3, <1>4, Freed
-----------------------------------------------------------------------------
(* The parts that a step leaves alone.                                      *)

LEMMA ListenSame == ASSUME LInv, UNCHANGED listenVars PROVE LInv'
BY DEF LInv, ListenTypeOK, ListenInv, ListenOwner, listenVars

LEMMA FreeSame == ASSUME FInv, UNCHANGED freeVars PROVE FInv'
BY DEF FInv, FreeTypeOK, LentOnce, Holders, freeVars

LEMMA CheckSame == ASSUME CInv, UNCHANGED checkVars PROVE CInv'
<1>1. CheckTypeOK' /\ Answered' = Answered /\ Awaited' = Awaited /\ Sent' = Sent
  BY DEF CInv, CheckTypeOK, checkVars, Answered, Awaited, Sent
<1>2. OrderKept'
  BY <1>1 DEF CInv, CheckInv, OrderKept, checkVars
<1>3. ASSUME NEW t \in Tables PROVE TableInStep(t)'
  <2>1. PICK pos \in [1 .. Held(t) -> Answered + 1 .. Sent] : Places(t, pos)
    BY DEF CInv, CheckInv, TableInStep
  <2>2. Held(t)' = Held(t) /\ (\A j : Item(t, j)' = Item(t, j)) /\ asked' = asked
    BY DEF Held, Item, checkVars
  <2>3. Places(t, pos)'
    BY <1>1, <2>1, <2>2 DEF Places
  <2> QED BY <1>1, <2>1, <2>2, <2>3 DEF TableInStep
<1> QED BY <1>1, <1>2, <1>3 DEF CInv, CheckInv
-----------------------------------------------------------------------------
(* The theorems.                                                            *)

LEMMA Initially == Init => IInv
<1> SUFFICES ASSUME Init PROVE IInv
  OBVIOUS
<1>1. \A S : <<>> \in Seq(S)
  OBVIOUS
<1>2. LInv
  <2>1. ListenTypeOK
    BY <1>1 DEF Init, ListenTypeOK, ListenIndex
  <2>2. ListenInv
    BY DEF Init, ListenInv, ListenOwner
  <2> QED BY <2>1, <2>2 DEF LInv
<1>3. CInv
  <2>1. "listen" \in Tables /\ "free" \in Tables
    BY DEF Tables
  <2>2. CheckTypeOK
    BY <1>1, <2>1 DEF Init, CheckTypeOK
  <2>3. /\ Len(check_rsp) = 0 /\ Len(check_dst) = 0 /\ Len(check_req) = 0 /\ Len(asked) = 0
        /\ Answered = 0 /\ Awaited = 0 /\ Sent = 0 /\ mux = "READ_DST"
    BY DEF Init, Answered, Awaited, Sent
  <2>4. OrderKept
    BY <2>3 DEF OrderKept
  <2>5. ASSUME NEW t \in Tables PROVE TableInStep(t)
    <3>1. table_rsp[t] = <<>> /\ table_req[t] = <<>>
      BY DEF Init
    <3>2. Held(t) = 0
      BY <3>1 DEF Held
    <3>3. PICK pos : pos = [j \in 1 .. 0 |-> 0]
      OBVIOUS
    <3>4. pos \in [1 .. Held(t) -> Answered + 1 .. Sent]
      BY <2>3, <3>2, <3>3
    <3>5. Places(t, pos)
      BY <2>3, <3>2, <3>4 DEF Places
    <3> QED BY <3>4, <3>5 DEF TableInStep
  <2> QED BY <2>2, <2>4, <2>5 DEF CInv, CheckInv
<1>4. FInv
  <2>1. free_port_table \in [FreeIndex -> PortEntry]
    <3>1. PICK e : e = [is_open |-> FALSE, role_id |-> None]
      OBVIOUS
    <3>2. e \in PortEntry
      BY <3>1 DEF PortEntry
    <3> QED BY <3>1, <3>2 DEF Init, FreeIndex
  <2>2. live \in [Ports -> 0 .. SessionIds]
    BY Consts DEF Init
  <2>3. FreeTypeOK
    BY <1>1, <2>1, <2>2, Consts DEF Init, FreeTypeOK
  <2>4. ASSUME NEW p \in FreeIndex PROVE Holders(p) = 0
    <3>1. Places_of(port_rsp, p) = {} /\ Places_of(release_req, <<"free", p>>) = {}
      BY DEF Init, Places_of
    <3>2. Count(port_rsp, p) = 0 /\ Count(release_req, <<"free", p>>) = 0
      BY <3>1, FS_EmptySet DEF Count
    <3>3. live[<<"free", p>>] = 0
      BY PortMade DEF Init
    <3> QED BY <2>3, <3>2, <3>3, HoldersFacts
  <2> QED BY <2>3, <2>4 DEF FInv, LentOnce, FreeIndex
<1>5. inputs \in 0 .. MaxInputs
  BY Consts DEF Init
<1> QED BY <1>2, <1>3, <1>4, <1>5 DEF IInv

\* The two tables answer a check.
LEMMA ListeningAnswer ==
  ASSUME IInv, CheckListening
  PROVE  CInv'
<1>1. PICK open \in BOOLEAN : open = (listening_port_table[Head(table_req["listen"])] # None)
  OBVIOUS
<1>2. "listen" \in Tables /\ CInv
  BY DEF Tables, IInv
<1> QED BY <1>1, <1>2, AnswerStep DEF CheckListening

LEMMA UsedAnswer ==
  ASSUME IInv, CheckUsed
  PROVE  CInv'
<1>1. Head(table_req["free"]) \in FreeIndex
  <2>1. table_req["free"] # <<>> /\ table_req["free"] \in Seq(FreeIndex)
    BY DEF CheckUsed, IInv, CInv, CheckTypeOK
  <2> QED BY <2>1, ReadFifo
<1>2. free_port_table[Head(table_req["free"])] \in PortEntry
  BY <1>1 DEF IInv, FInv, FreeTypeOK
<1>3. PICK open \in BOOLEAN : open = free_port_table[Head(table_req["free"])].is_open
  BY <1>2 DEF PortEntry
<1>4. "free" \in Tables /\ CInv
  BY DEF Tables, IInv
<1> QED BY <1>3, <1>4, AnswerStep DEF CheckUsed

LEMMA InvStep == IInv /\ [Next]_vars => IInv'
<1> SUFFICES ASSUME IInv, [Next]_vars PROVE IInv'
  OBVIOUS
<1>0. LInv /\ CInv /\ FInv /\ inputs \in 0 .. MaxInputs
  BY DEF IInv
<1>1. CASE ReleasePort
  BY <1>0, <1>1, ReleasePortStep, ListenSame, CheckSame DEF IInv, ReleasePort
<1>2. CASE CheckUsed
  BY <1>0, <1>2, UsedAnswer, ListenSame, FreeSame DEF IInv, CheckUsed
<1>3. CASE LendPort
  BY <1>0, <1>3, LendPortStep, ListenSame, CheckSame DEF IInv, LendPort
<1>4. CASE Listen
  BY <1>0, <1>4, ListenStep, CheckSame, FreeSame DEF IInv, Listen
<1>5. CASE CheckListening
  BY <1>0, <1>5, ListeningAnswer, ListenSame, FreeSame DEF IInv, CheckListening
<1>6. CASE CheckIn
  BY <1>0, <1>6, CheckInStep, ListenSame, FreeSame DEF IInv, CheckIn
<1>7. CASE CheckOutReadDst
  BY <1>0, <1>7, ReadDstStep, ListenSame, FreeSame DEF IInv, CheckOutReadDst
<1>8. ASSUME NEW t \in Tables, CheckOutRead(t) PROVE IInv'
  BY <1>0, <1>8, CheckOutStep, ListenSame, FreeSame DEF IInv, CheckOutRead
<1>9. CASE ListenRspRead
  BY <1>0, <1>9, ListenRspReadStep, CheckSame, FreeSame DEF IInv, ListenRspRead
<1>10. ASSUME NEW syn \in BOOLEAN, CheckRspRead(syn) PROVE IInv'
  <2>1. /\ check_rsp # <<>> /\ check_rsp' = Tail(check_rsp) /\ asked' = Tail(asked)
        /\ UNCHANGED <<check_req, table_req, table_rsp, check_dst, mux>>
        /\ UNCHANGED listenVars /\ inputs' = inputs
    BY <1>10 DEF CheckRspRead
  <2>2. CInv' /\ asked # <<>>
    BY <1>0, <2>1, PopStep
  <2>3. Head(asked) \in Ports
    BY <1>0, <2>2, ReadFifo DEF CInv, CheckTypeOK
  <2>4. FInv'
    BY <1>0, <1>10, <2>3, CheckRspReadFree
  <2> QED BY <1>0, <2>1, <2>2, <2>4, ListenSame DEF IInv
<1>11. CASE PortRspRead
  BY <1>0, <1>11, PortRspReadStep, ListenSame, CheckSame DEF IInv, PortRspRead
<1>12. ASSUME NEW port \in Ports, NEW dest \in Roles, ListenReq(port, dest) PROVE IInv'
  <2>1. UNCHANGED <<checkVars, freeVars>> /\ inputs' = inputs + 1 /\ inputs < MaxInputs
    BY <1>12 DEF ListenReq
  <2>2. inputs' \in 0 .. MaxInputs
    BY <1>0, <2>1, Consts
  <2> QED BY <1>0, <1>12, <2>1, <2>2, ListenReqStep, CheckSame, FreeSame DEF IInv
<1>13. ASSUME NEW port \in Ports, CheckReq(port) PROVE IInv'
  <2>1. UNCHANGED <<listenVars, freeVars>> /\ inputs' = inputs + 1 /\ inputs < MaxInputs
    BY <1>13 DEF CheckReq
  <2>2. inputs' \in 0 .. MaxInputs
    BY <1>0, <2>1, Consts
  <2> QED BY <1>0, <1>13, <2>1, <2>2, AskStep, ListenSame, FreeSame DEF IInv
<1>14. ASSUME NEW role \in Roles, OpenConn(role) PROVE IInv'
  <2>1. UNCHANGED <<listenVars, checkVars>> /\ inputs' = inputs + 1 /\ inputs < MaxInputs
    BY <1>14 DEF OpenConn
  <2>2. inputs' \in 0 .. MaxInputs
    BY <1>0, <2>1, Consts
  <2> QED BY <1>0, <1>14, <2>1, <2>2, OpenConnStep, ListenSame, CheckSame DEF IInv
<1>15. ASSUME NEW port \in Ports, SessionReleased(port) PROVE IInv'
  BY <1>0, <1>15, SessionReleasedStep, ListenSame, CheckSame DEF IInv, SessionReleased
<1>16. CASE UNCHANGED vars
  BY <1>0, <1>16, ListenSame, CheckSame, FreeSame DEF IInv, vars
<1> QED
  BY <1>1, <1>2, <1>3, <1>4, <1>5, <1>6, <1>7, <1>8, <1>9, <1>10, <1>11, <1>12, <1>13,
     <1>14, <1>15, <1>16
     DEF Next, FreeTable, ListenTable, CheckOut, Environment, ReadCheck

\* The n-th answer the rx engine reads is about the n-th port it asked about, although
\* two tables answer independently and the answers do not carry the port.
THEOREM ChecksStayInOrder == Spec => []ChecksInOrder
<1>1. IInv => ChecksInOrder
  <2> SUFFICES ASSUME IInv PROVE ChecksInOrder
    OBVIOUS
  <2>1. /\ Len(check_rsp) \in Nat /\ Awaited \in {0, 1} /\ Len(check_dst) \in Nat
        /\ Len(check_req) \in Nat
    BY Lengths DEF IInv, CInv
  <2>2. Len(asked) = Len(check_rsp) + Awaited + Len(check_dst) + Len(check_req)
    BY DEF IInv, CInv, CheckInv, OrderKept, Sent, Answered
  <2>3. Len(check_rsp) <= Len(asked)
    BY <2>1, <2>2
  <2>4. DOMAIN check_rsp = 1 .. Len(check_rsp)
    BY DEF IInv, CInv, CheckTypeOK
  <2> QED BY <2>3, <2>4 DEF ChecksInOrder, IInv, CInv, CheckInv, OrderKept, Answered
<1> QED BY <1>1, Initially, InvStep, PTL DEF Spec

\* A listening port belongs to the one application that was told it opened it, and a
\* lent port is with one open request, one connection or one release at a time and
\* marked in use until then, unless a SYN of a peer made a second session on it.
THEOREM PortsHaveOneOwner == Spec => []PortsOwned
<1>1. IInv => PortsOwned
  <2> SUFFICES ASSUME IInv PROVE PortsOwned
    OBVIOUS
  <2>1. PortTypeOK
    BY DEF IInv, LInv, CInv, FInv, ListenTypeOK, CheckTypeOK, FreeTypeOK, PortTypeOK,
           ListenIndex, FreeIndex, PortEntry
  <2>2. ListenOwner /\ LentOnce
    BY DEF IInv, LInv, ListenInv, FInv
  <2> QED BY <2>1, <2>2 DEF PortsOwned
<1> QED BY <1>1, Initially, InvStep, PTL DEF Spec
=============================================================================
