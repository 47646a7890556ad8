------------------------- MODULE SessionLookupProofs -------------------------
(***************************************************************************)
(* Proofs about SessionLookup: every session id is in one place, the CAM   *)
(* and the reverse table agree and no CAM update is refused, for every     *)
(* number of sessions, tuples and applications and every depth of the      *)
(* FIFOs.                                                                  *)
(***************************************************************************)
EXTENDS SessionLookup, FiniteSetTheorems, TLAPS

\* How many elements of a FIFO are in S.
CountIn(q, S) == Cardinality({i \in DOMAIN q : q[i] \in S})

AnyUpd == CamUpd \cup CamUpdRsp
Of(op) == {u \in AnyUpd : u.op = op}
OfId(s, op) == {u \in AnyUpd : u.id = s /\ u.op = op}
RevReq == [id : Sessions, entry : RevEntry]
RevOf(s) == {e \in RevReq : e.id = s}

\* The life of an id: it is fresh, free, about to be inserted, or held: in the CAM with
\* the answer under way, the reverse entry under way, the entry valid, or its deletion
\* asked for.
Fresh(s) == IF s >= cur_session_id THEN 1 ELSE 0
Valid(s) == IF valid_tuple[s] THEN 1 ELSE 0
Free(s)     == CountIn(available, {s})
Recycled(s) == CountIn(released, {s})
ToInsert(s) == CountIn(insert_req, OfId(s, "INSERT"))
Inserted(s) == CountIn(cam_upd, OfId(s, "INSERT"))
Answered(s) == CountIn(cam_upd_rsp, OfId(s, "INSERT"))
Received(s) == CountIn(insert_rsp, OfId(s, "INSERT"))
ToEnter(s)  == CountIn(rev_insert, RevOf(s))
ToDelete(s) == CountIn(delete_req, OfId(s, "DELETE"))
Deleted(s)  == CountIn(cam_upd, OfId(s, "DELETE"))

Held(s) == Answered(s) + Received(s) + ToEnter(s) + Valid(s) + ToDelete(s)
OneOwner(s) ==
  Fresh(s) + Free(s) + Recycled(s) + ToInsert(s) + Inserted(s) + Held(s) = 1

\* An id is in the CAM while it is held and until its DELETE, which the sender has
\* recycled the id with, reaches the CAM.
InCam(s) == Held(s) + Deleted(s) = IF s \in CamIds THEN 1 ELSE 0

Injective == \A t, v \in Tuples : cam[t] = cam[v] /\ cam[t] # None => t = v

\* The lookup FSM has one INSERT under way while it waits for its answer, none otherwise.
Inserts(q) == CountIn(q, Of("INSERT"))
OneInsert ==
  Inserts(insert_req) + Inserts(cam_upd) + Inserts(cam_upd_rsp) + Inserts(insert_rsp)
    = IF slc.pc = "UPD_RSP" THEN 1 ELSE 0

\* The INSERT is for a tuple the CAM does not have; its answer names the id the CAM has for
\* it; a reverse entry under way and a DELETE name the id of their tuple.
IsInsert(u) == u.op = "INSERT" /\ slc.pc = "UPD_RSP" /\ u.tuple = slc.req.tuple
               /\ cam[u.tuple] = None
IsDelete(u) == u.op = "DELETE" /\ cam[u.tuple] = u.id
IsAnswer(u) == u.op = "INSERT" /\ slc.pc = "UPD_RSP" /\ cam[slc.req.tuple] = u.id
               /\ u.success
InsertReqs == {u \in CamUpd : IsInsert(u)}
DeleteReqs == {u \in CamUpd : IsDelete(u)}
Updating   == {u \in CamUpd : IsInsert(u) \/ IsDelete(u)}
Answers    == {u \in CamUpdRsp : IsAnswer(u) \/ (u.op = "DELETE" /\ u.success)}
InsertRsps == {u \in CamUpdRsp : IsAnswer(u)}
RevInserts == {e \in RevReq : cam[e.entry.tuple] = e.id}

Linked ==
  /\ insert_req \in Seq(InsertReqs) /\ delete_req \in Seq(DeleteReqs)
  /\ cam_upd \in Seq(Updating) /\ cam_upd_rsp \in Seq(Answers)
  /\ insert_rsp \in Seq(InsertRsps) /\ rev_insert \in Seq(RevInserts)
  /\ \A s \in Sessions : valid_tuple[s] =>
       slookup_rev_table[s] \in RevEntry /\ cam[slookup_rev_table[s].tuple] = s

\* An INSERT is sent after the DELETE that the id was recycled with.
InOrder == \A i, j \in 1 .. Len(cam_upd) :
             i < j /\ cam_upd[i].op = "INSERT" => cam_upd[j].id # cam_upd[i].id

\* One lookup at a time; a miss that has been answered is still a miss.
Phase ==
  /\ slc.pc = "LUP_RSP" => /\ Len(cam_lup) + Len(cam_lup_rsp) = 1
                           /\ \A i \in 1 .. Len(cam_lup) : cam_lup[i] = slc.req.tuple
                           /\ \A i \in 1 .. Len(cam_lup_rsp) :
                                cam_lup_rsp[i] = None => cam[slc.req.tuple] = None
  /\ slc.pc # "LUP_RSP" => cam_lup = <<>> /\ cam_lup_rsp = <<>>
  /\ slc.pc # "LUP_REQ" => slc.req \in LookupReq

Tokens == (\A s \in Sessions : OneOwner(s) /\ InCam(s)) /\ OneInsert

\* The inductive invariant.
CInv == Tokens /\ Injective /\ Linked /\ InOrder /\ Phase /\ SessionCount
IInv == SlookupTypeOK /\ CInv
-----------------------------------------------------------------------------
(* FIFOs and how often something is in them.                                *)

LEMMA WriteFifo ==
  ASSUME NEW S, NEW q \in Seq(S), NEW e \in S
  PROVE  /\ Append(q, e) \in Seq(S) /\ Len(Append(q, e)) = Len(q) + 1 /\ Len(q) \in Nat
         /\ Append(q, e)[Len(q) + 1] = e
         /\ \A i \in 1 .. Len(q) : Append(q, e)[i] = q[i]
OBVIOUS

LEMMA ReadFifo ==
  ASSUME NEW S, NEW q \in Seq(S), q # <<>>
  PROVE  /\ Head(q) \in S /\ Tail(q) \in Seq(S) /\ Head(q) = q[1]
         /\ Len(Tail(q)) = Len(q) - 1 /\ Len(q) \in Nat /\ Len(q) > 0
         /\ \A i \in 1 .. Len(q) - 1 : Tail(q)[i] = q[i + 1]
OBVIOUS

\* What is in a FIFO, and when it is a FIFO of something else.
LEMMA InFifo ==
  ASSUME NEW S, NEW q \in Seq(S)
  PROVE  Len(q) \in Nat /\ DOMAIN q = 1 .. Len(q) /\ \A i \in 1 .. Len(q) : q[i] \in S
OBVIOUS

LEMMA Retype ==
  ASSUME NEW S, NEW T, NEW q \in Seq(S), \A i \in 1 .. Len(q) : q[i] \in T
  PROVE  q \in Seq(T)
OBVIOUS

LEMMA EmptyFifo ==
  ASSUME NEW S, NEW q \in Seq(S), Len(q) = 0
  PROVE  q = <<>>
OBVIOUS

LEMMA CountFinite ==
  ASSUME NEW S, NEW q \in Seq(S), NEW T
  PROVE  CountIn(q, T) \in Nat /\ IsFiniteSet({i \in DOMAIN q : q[i] \in T})
<1>1. DOMAIN q = 1 .. Len(q) /\ Len(q) \in Nat
  OBVIOUS
<1>2. IsFiniteSet(1 .. Len(q))
  BY <1>1, FS_Interval
<1>3. {i \in DOMAIN q : q[i] \in T} \in SUBSET (1 .. Len(q))
  BY <1>1
<1>4. IsFiniteSet({i \in DOMAIN q : q[i] \in T})
  BY <1>2, <1>3, FS_Subset
<1> QED BY <1>4, FS_CardinalityType DEF CountIn

LEMMA CountAppend ==
  ASSUME NEW S, NEW q \in Seq(S), NEW e \in S, NEW T
  PROVE  CountIn(Append(q, e), T) = IF e \in T THEN CountIn(q, T) + 1 ELSE CountIn(q, T)
<1> DEFINE A == {i \in DOMAIN q : q[i] \in T}
           B == {i \in DOMAIN Append(q, e) : Append(q, e)[i] \in T}
<1>1. /\ DOMAIN q = 1 .. Len(q) /\ DOMAIN Append(q, e) = 1 .. Len(q) + 1 /\ Len(q) \in Nat
      /\ Append(q, e)[Len(q) + 1] = e
      /\ \A i \in 1 .. Len(q) : Append(q, e)[i] = q[i]
  OBVIOUS
<1>2. \A i : i \in 1 .. Len(q) + 1 <=> i \in 1 .. Len(q) \/ i = Len(q) + 1
  BY <1>1
<1>3. Len(q) + 1 \notin A
  BY <1>1
<1>4. CASE e \in T
  <2>1. B = A \cup {Len(q) + 1}
    BY <1>1, <1>2, <1>4
  <2>2. IsFiniteSet(A)
    BY CountFinite
  <2> HIDE DEF A, B
  <2>3. Cardinality(B) = Cardinality(A) + 1
    BY <1>3, <2>1, <2>2, FS_AddElement
  <2> QED BY <1>4, <2>3 DEF CountIn, A, B
<1>5. CASE e \notin T
  <2>1. B = A
    BY <1>1, <1>2, <1>5
  <2> QED BY <1>5, <2>1 DEF CountIn
<1> QED BY <1>4, <1>5

LEMMA CountTail ==
  ASSUME NEW S, NEW q \in Seq(S), q # <<>>, NEW T
  PROVE  /\ CountIn(q, T) = IF Head(q) \in T THEN CountIn(Tail(q), T) + 1
                            ELSE CountIn(Tail(q), T)
         /\ CountIn(Tail(q), T) \in Nat
<1>1. /\ DOMAIN q = 1 .. Len(q) /\ DOMAIN Tail(q) = 1 .. Len(q) - 1 /\ Len(q) \in Nat
      /\ Len(q) > 0 /\ Head(q) = q[1] /\ Tail(q) \in Seq(S)
      /\ \A i \in 1 .. Len(q) - 1 : Tail(q)[i] = q[i + 1]
  OBVIOUS
<1> DEFINE A == {i \in DOMAIN q : q[i] \in T}
           B == {i \in DOMAIN Tail(q) : Tail(q)[i] \in T}
<1>2. IsFiniteSet(A) /\ IsFiniteSet(B) /\ Cardinality(A) \in Nat /\ Cardinality(B) \in Nat
  BY <1>1, CountFinite, FS_CardinalityType
<1>3. 1 \in A <=> Head(q) \in T
  <2>1. 1 \in 1 .. Len(q)
    BY <1>1
  <2> QED BY <1>1, <2>1
<1>4. ExistsBijection(A \ {1}, B)
  <2>1. \A i \in A \ {1} : i - 1 \in B /\ (i - 1) + 1 = i /\ i \in Nat
    <3> TAKE i \in A \ {1}
    <3>1. i \in 1 .. Len(q) /\ i # 1 /\ q[i] \in T
      BY <1>1
    <3>2. i - 1 \in 1 .. Len(q) - 1 /\ (i - 1) + 1 = i /\ i \in Nat
      BY <1>1, <3>1
    <3>3. Tail(q)[i - 1] \in T
      BY <1>1, <3>1, <3>2
    <3> QED BY <1>1, <3>2, <3>3
  <2>2. \A i \in B : i + 1 \in A \ {1} /\ (i + 1) - 1 = i
    <3> TAKE i \in B
    <3>1. i \in 1 .. Len(q) - 1 /\ Tail(q)[i] \in T
      BY <1>1
    <3>2. i + 1 \in 1 .. Len(q) /\ i + 1 # 1 /\ (i + 1) - 1 = i
      BY <1>1, <3>1
    <3> QED BY <1>1, <3>1, <3>2
  <2> HIDE DEF A, B
  <2> DEFINE g == [i \in A \ {1} |-> i - 1]
  <2>3. g \in [A \ {1} -> B]
    BY <2>1
  <2>4. \A i, j \in A \ {1} : g[i] = g[j] => i = j
    BY <2>1
  <2>5. \A b \in B : \E a \in A \ {1} : g[a] = b
    BY <2>2
  <2>6. g \in Bijection(A \ {1}, B)
    BY <2>3, <2>4, <2>5 DEF Bijection, Injection, Surjection, IsInjective
  <2> QED BY <2>6 DEF ExistsBijection
<1> HIDE DEF A, B
<1>5. /\ IsFiniteSet(A \ {1})
      /\ Cardinality(A \ {1}) = IF 1 \in A THEN Cardinality(A) - 1 ELSE Cardinality(A)
  BY <1>2, FS_RemoveElement
<1>6. Cardinality(B) = Cardinality(A \ {1})
  BY <1>4, <1>5, FS_Bijection
<1>7. CountIn(q, T) = Cardinality(A) /\ CountIn(Tail(q), T) = Cardinality(B)
  BY DEF CountIn, A, B
<1> QED BY <1>2, <1>3, <1>5, <1>6, <1>7

\* A count of zero and a count of one.
LEMMA CountNone ==
  ASSUME NEW S, NEW q \in Seq(S), NEW T
  PROVE  CountIn(q, T) = 0 <=> \A i \in 1 .. Len(q) : q[i] \notin T
<1> DEFINE A == {i \in DOMAIN q : q[i] \in T}
<1>1. IsFiniteSet(A)
  BY CountFinite
<1>a. DOMAIN q = 1 .. Len(q)
  OBVIOUS
<1>2. Cardinality(A) = 0 <=> A = {}
  BY <1>1, FS_EmptySet
<1> QED BY <1>a, <1>2 DEF CountIn

LEMMA CountOnce ==
  ASSUME NEW S, NEW q \in Seq(S), NEW T, CountIn(q, T) <= 1,
         NEW i \in 1 .. Len(q), NEW j \in 1 .. Len(q), q[i] \in T, q[j] \in T
  PROVE  i = j
<1> DEFINE A == {k \in DOMAIN q : q[k] \in T}
<1>1. IsFiniteSet(A) /\ DOMAIN q = 1 .. Len(q) /\ i \in A /\ j \in A
  BY CountFinite
<1>2. Cardinality(A) <= 1 /\ Cardinality(A) \in Nat
  BY <1>1, FS_CardinalityType DEF CountIn
<1> HIDE DEF A
<1>3. /\ IsFiniteSet(A \ {i}) /\ Cardinality(A \ {i}) = Cardinality(A) - 1
      /\ Cardinality(A \ {i}) \in Nat
  BY <1>1, FS_RemoveElement, FS_CardinalityType
<1>4. Cardinality(A \ {i}) = 0
  BY <1>2, <1>3
<1>5. A \ {i} = {}
  BY <1>3, <1>4, FS_EmptySet
<1> QED BY <1>1, <1>5
-----------------------------------------------------------------------------
(* The requesters, and the reads of the reverse table: the controller's own  *)
(* state does not change.                                                   *)

coreVars == <<cur_session_id, available, released, slc, cam_lup, cam_lup_rsp, insert_req,
              cam_upd, cam_upd_rsp, insert_rsp, rev_insert, valid_tuple, slookup_rev_table,
              delete_req, cam, used_session_id_cnt>>

LEMMA CoreSame == ASSUME CInv, UNCHANGED coreVars PROVE CInv'
<1>1. Tokens'
  BY ZenonT(30) DEF CInv, coreVars, Tokens, OneOwner, InCam, OneInsert, Held, Fresh, Free, Recycled,
         ToInsert, Inserted, Answered, Received, ToEnter, ToDelete, Deleted, Valid, CamIds,
         Inserts, CountIn
<1>2. Injective' /\ InOrder' /\ Phase' /\ SessionCount'
  BY DEF CInv, coreVars, Injective, InOrder, Phase, SessionCount, OfKind, CamIds
<1>3. Linked'
  BY DEF CInv, coreVars, Linked, InsertReqs, DeleteReqs, Updating, Answers, InsertRsps,
         RevInserts, IsInsert, IsDelete, IsAnswer
<1> QED BY <1>1, <1>2, <1>3 DEF CInv

LEMMA Consts ==
  /\ MaxSessions \in Nat /\ MaxInputs \in Nat /\ Sessions \subseteq Nat /\ None \notin Sessions
  /\ None \notin Roles /\ None \notin Tuples
BY MaxSessionsAssumption, SlookupInputsAssumption, NoneAssumption DEF Sessions

LEMMA RequestStep ==
  ASSUME IInv, NEW req \in LookupReq, Request(req)
  PROVE  IInv'
<1>0. /\ lup_req \in [Sources -> Seq(LookupReq)] /\ req.source \in Sources
      /\ lup_req' = [lup_req EXCEPT ![req.source] = Append(lup_req[req.source], req)]
      /\ inputs \in 0 .. MaxInputs /\ inputs < MaxInputs /\ inputs' = inputs + 1
  BY DEF IInv, SlookupTypeOK, Request, LookupReq
<1>1. Append(lup_req[req.source], req) \in Seq(LookupReq)
  BY <1>0, WriteFifo
<1>2. lup_req' \in [Sources -> Seq(LookupReq)] /\ inputs' \in 0 .. MaxInputs
  BY <1>0, <1>1, Consts
<1>3. SlookupTypeOK'
  BY <1>2 DEF IInv, SlookupTypeOK, Request, freeVars, camVars, revVars
<1>4. CInv'
  BY CoreSame DEF IInv, Request, coreVars, freeVars, camVars, revVars
<1> QED BY <1>3, <1>4 DEF IInv

LEMMA TakeRspStep ==
  ASSUME IInv, NEW c \in Sources, TakeRsp(c)
  PROVE  IInv'
<1>0. /\ lup_rsp \in [Sources -> Seq(LookupRsp)] /\ lup_rsp[c] # <<>>
      /\ lup_rsp' = [lup_rsp EXCEPT ![c] = Tail(lup_rsp[c])]
      /\ known \subseteq Sessions /\ known' = known \cup ({Head(lup_rsp[c]).id} \ {None})
  BY DEF IInv, SlookupTypeOK, TakeRsp
<1>1. Tail(lup_rsp[c]) \in Seq(LookupRsp) /\ Head(lup_rsp[c]) \in LookupRsp
  BY <1>0, ReadFifo
<1>2. lup_rsp' \in [Sources -> Seq(LookupRsp)] /\ Head(lup_rsp[c]).id \in Sessions \cup {None}
  BY <1>0, <1>1 DEF LookupRsp
<1>3. known' \subseteq Sessions
  BY <1>0, <1>2
<1>4. SlookupTypeOK'
  BY <1>2, <1>3 DEF IInv, SlookupTypeOK, TakeRsp, freeVars, camVars, revVars
<1>5. CInv'
  BY CoreSame DEF IInv, TakeRsp, coreVars, freeVars, camVars, revVars
<1> QED BY <1>4, <1>5 DEF IInv

LEMMA ReleaseStep ==
  ASSUME IInv, NEW s \in known, Release(s)
  PROVE  IInv'
<1>0. /\ release_req \in Seq(Sessions) /\ release_req' = Append(release_req, s) /\ s \in Sessions
      /\ inputs \in 0 .. MaxInputs /\ inputs < MaxInputs /\ inputs' = inputs + 1
  BY DEF IInv, SlookupTypeOK, Release
<1>1. release_req' \in Seq(Sessions) /\ inputs' \in 0 .. MaxInputs
  BY <1>0, WriteFifo, Consts
<1>2. SlookupTypeOK'
  BY <1>1 DEF IInv, SlookupTypeOK, Release, freeVars, fsmVars, camVars
<1>3. CInv'
  BY CoreSame DEF IInv, Release, coreVars, freeVars, fsmVars, camVars
<1> QED BY <1>2, <1>3 DEF IInv

LEMMA ReadStep ==
  ASSUME IInv, NEW s \in known, NEW r \in Readers, Read(r, s)
  PROVE  IInv'
<1>0. /\ rev_req \in [Readers -> Seq(Sessions)] /\ s \in Sessions
      /\ rev_req' = [rev_req EXCEPT ![r] = Append(rev_req[r], s)]
      /\ inputs \in 0 .. MaxInputs /\ inputs < MaxInputs /\ inputs' = inputs + 1
  BY DEF IInv, SlookupTypeOK, Read
<1>1. Append(rev_req[r], s) \in Seq(Sessions)
  BY <1>0, WriteFifo
<1>2. rev_req' \in [Readers -> Seq(Sessions)] /\ inputs' \in 0 .. MaxInputs
  BY <1>0, <1>1, Consts
<1>3. SlookupTypeOK'
  BY <1>2 DEF IInv, SlookupTypeOK, Read, freeVars, fsmVars, camVars
<1>4. CInv'
  BY CoreSame DEF IInv, Read, coreVars, freeVars, fsmVars, camVars
<1> QED BY <1>3, <1>4 DEF IInv

LEMMA TakeRevRspStep ==
  ASSUME IInv, NEW r \in Readers, TakeRevRsp(r)
  PROVE  IInv'
<1> DEFINE S == RevEntry \cup Roles \cup {None}
<1>0. /\ rev_rsp \in [Readers -> Seq(S)] /\ rev_rsp[r] # <<>>
      /\ rev_rsp' = [rev_rsp EXCEPT ![r] = Tail(rev_rsp[r])]
  BY DEF IInv, SlookupTypeOK, TakeRevRsp
<1> HIDE DEF S
<1>1. Tail(rev_rsp[r]) \in Seq(S)
  BY <1>0, ReadFifo
<1>2. rev_rsp' \in [Readers -> Seq(S)]
  BY <1>0, <1>1
<1>3. SlookupTypeOK'
  BY <1>2 DEF IInv, SlookupTypeOK, TakeRevRsp, freeVars, fsmVars, camVars, S
<1>4. CInv'
  BY CoreSame DEF IInv, TakeRevRsp, coreVars, freeVars, fsmVars, camVars
<1> QED BY <1>3, <1>4 DEF IInv

LEMMA TakePortStep ==
  ASSUME IInv, TakePort
  PROVE  IInv'
<1>0. port_release \in Seq(Tuples) /\ port_release # <<>> /\ port_release' = Tail(port_release)
  BY DEF IInv, SlookupTypeOK, TakePort
<1>1. port_release' \in Seq(Tuples)
  BY <1>0, ReadFifo
<1>2. SlookupTypeOK'
  BY <1>1 DEF IInv, SlookupTypeOK, TakePort, freeVars, fsmVars, camVars
<1>3. CInv'
  BY CoreSame DEF IInv, TakePort, coreVars, freeVars, fsmVars, camVars
<1> QED BY <1>2, <1>3 DEF IInv

\* A valid entry is a record.
LEMMA RevReadStep ==
  ASSUME IInv, NEW r \in Readers, RevRead(r)
  PROVE  IInv'
<1> DEFINE S == RevEntry \cup Roles \cup {None}
           id == Head(rev_req[r])
<1>0. /\ rev_rsp \in [Readers -> Seq(S)] /\ rev_req \in [Readers -> Seq(Sessions)]
      /\ rev_req[r] # <<>> /\ rev_rsp' = [rev_rsp EXCEPT ![r] = Append(rev_rsp[r], RevAnswer(r, id))]
      /\ rev_req' = [rev_req EXCEPT ![r] = Tail(rev_req[r])]
      /\ slookup_rev_table \in [Sessions -> RevEntry \cup {None}]
  BY DEF IInv, SlookupTypeOK, RevRead
<1>1. id \in Sessions /\ Tail(rev_req[r]) \in Seq(Sessions)
  BY <1>0, ReadFifo
<1>2. RevAnswer(r, id) \in S
  <2>1. slookup_rev_table[id] \in RevEntry \cup {None}
    BY <1>0, <1>1
  <2>2. valid_tuple[id] => slookup_rev_table[id] \in RevEntry
    BY <1>1 DEF IInv, CInv, Linked
  <2>3. valid_tuple[id] => slookup_rev_table[id].role \in Roles
    BY <2>2 DEF RevEntry
  <2> QED BY <2>1, <2>3 DEF RevAnswer
<1> HIDE DEF S, id
<1>3. Append(rev_rsp[r], RevAnswer(r, id)) \in Seq(S)
  BY <1>0, <1>2, WriteFifo
<1>4. rev_rsp' \in [Readers -> Seq(S)] /\ rev_req' \in [Readers -> Seq(Sessions)]
  BY <1>0, <1>1, <1>3
<1>5. SlookupTypeOK'
  BY <1>4 DEF IInv, SlookupTypeOK, RevRead, freeVars, fsmVars, camVars, S
<1>6. CInv'
  BY CoreSame DEF IInv, RevRead, coreVars, freeVars, fsmVars, camVars
<1> QED BY <1>5, <1>6 DEF IInv
-----------------------------------------------------------------------------
(* The counts, and what the updates under way are about.                    *)

LEMMA Nats ==
  ASSUME SlookupTypeOK, NEW s \in Sessions
  PROVE  /\ Fresh(s) \in Nat /\ Free(s) \in Nat /\ Recycled(s) \in Nat /\ ToInsert(s) \in Nat
         /\ Inserted(s) \in Nat /\ Answered(s) \in Nat /\ Received(s) \in Nat
         /\ ToEnter(s) \in Nat /\ ToDelete(s) \in Nat /\ Deleted(s) \in Nat /\ Valid(s) \in Nat
         /\ Held(s) \in Nat
<1>1. Fresh(s) \in Nat /\ Valid(s) \in Nat
  BY DEF Fresh, Valid
<1>2. Free(s) \in Nat /\ Recycled(s) \in Nat
  BY CountFinite DEF SlookupTypeOK, Free, Recycled
<1>3. ToInsert(s) \in Nat /\ Inserted(s) \in Nat /\ ToDelete(s) \in Nat /\ Deleted(s) \in Nat
  BY CountFinite DEF SlookupTypeOK, ToInsert, Inserted, ToDelete, Deleted
<1>4. Answered(s) \in Nat /\ Received(s) \in Nat /\ ToEnter(s) \in Nat
  BY CountFinite DEF SlookupTypeOK, Answered, Received, ToEnter
<1>5. Held(s) \in Nat
  BY <1>1, <1>3, <1>4 DEF Held
<1> QED BY <1>1, <1>2, <1>3, <1>4, <1>5

LEMMA InsertNats ==
  ASSUME SlookupTypeOK
  PROVE  /\ Inserts(insert_req) \in Nat /\ Inserts(cam_upd) \in Nat
         /\ Inserts(cam_upd_rsp) \in Nat /\ Inserts(insert_rsp) \in Nat
BY CountFinite DEF SlookupTypeOK, Inserts

\* Every held id is in the CAM, and nothing is held twice.
LEMMA TokenFacts ==
  ASSUME CInv, NEW s \in Sessions
  PROVE  OneOwner(s) /\ InCam(s)
BY DEF CInv, Tokens

LEMMA HeldOnce ==
  ASSUME IInv, NEW s \in Sessions
  PROVE  /\ Inserted(s) + Held(s) <= 1 /\ Held(s) + Deleted(s) <= 1
         /\ Held(s) = 0 => /\ Answered(s) = 0 /\ Received(s) = 0 /\ ToEnter(s) = 0
                           /\ Valid(s) = 0 /\ ToDelete(s) = 0
         /\ ToEnter(s) + Valid(s) <= Held(s) /\ ToDelete(s) <= Held(s)
<1>1. /\ Fresh(s) \in Nat /\ Free(s) \in Nat /\ Recycled(s) \in Nat /\ ToInsert(s) \in Nat
      /\ Inserted(s) \in Nat /\ Held(s) \in Nat /\ Deleted(s) \in Nat
  BY Nats DEF IInv
<1>2. /\ Answered(s) \in Nat /\ Received(s) \in Nat
      /\ ToEnter(s) \in Nat /\ Valid(s) \in Nat /\ ToDelete(s) \in Nat
  BY Nats DEF IInv
<1>3. Fresh(s) + Free(s) + Recycled(s) + ToInsert(s) + Inserted(s) + Held(s) = 1
  BY TokenFacts DEF IInv, OneOwner
<1>4. Held(s) + Deleted(s) = IF s \in CamIds THEN 1 ELSE 0
  BY TokenFacts DEF IInv, InCam
<1>5. Held(s) = Answered(s) + Received(s) + ToEnter(s) + Valid(s) + ToDelete(s)
  BY DEF Held
<1>6. Inserted(s) + Held(s) <= 1
  BY <1>1, <1>3
<1>7. Held(s) + Deleted(s) <= 1
  BY <1>1, <1>4
<1>8. Held(s) = 0 => /\ Answered(s) = 0 /\ Received(s) = 0 /\ ToEnter(s) = 0
                     /\ Valid(s) = 0 /\ ToDelete(s) = 0
  BY <1>2, <1>5
<1>9. ToEnter(s) + Valid(s) <= Held(s) /\ ToDelete(s) <= Held(s)
  BY <1>2, <1>5
<1> QED BY <1>6, <1>7, <1>8, <1>9

LEMMA LinkSame ==
  ASSUME UNCHANGED <<cam, slc>>
  PROVE  /\ InsertReqs' = InsertReqs /\ DeleteReqs' = DeleteReqs /\ Updating' = Updating
         /\ Answers' = Answers /\ InsertRsps' = InsertRsps /\ RevInserts' = RevInserts
BY DEF InsertReqs, DeleteReqs, Updating, Answers, InsertRsps, RevInserts, IsInsert, IsDelete,
       IsAnswer

LEMMA DeleteSame ==
  ASSUME cam' = cam
  PROVE  DeleteReqs' = DeleteReqs /\ RevInserts' = RevInserts
BY DEF DeleteReqs, RevInserts, IsDelete

\* FIFOs without an INSERT.
Deletions == {u \in CamUpdRsp : u.op = "DELETE" /\ u.success}

LEMMA NoInsert ==
  ASSUME NEW S, NEW q \in Seq(S), S \subseteq AnyUpd, Inserts(q) = 0
  PROVE  \A i \in 1 .. Len(q) : q[i] \in S /\ q[i].op # "INSERT"
BY CountNone, InFifo DEF Inserts, Of

LEMMA QuietReq ==
  ASSUME NEW q \in Seq(InsertReqs), Inserts(q) = 0 PROVE q \in Seq({})
<1>1. InsertReqs \subseteq AnyUpd
  BY DEF InsertReqs, AnyUpd
<1>2. \A i \in 1 .. Len(q) : q[i] \in InsertReqs /\ q[i].op # "INSERT"
  BY <1>1, NoInsert
<1>3. \A i \in 1 .. Len(q) : q[i] \in {}
  BY <1>2 DEF InsertReqs, IsInsert
<1> QED BY <1>3, Retype

LEMMA QuietUpd ==
  ASSUME NEW q \in Seq(Updating), Inserts(q) = 0 PROVE q \in Seq(DeleteReqs)
<1>1. Updating \subseteq AnyUpd
  BY DEF Updating, AnyUpd
<1>2. \A i \in 1 .. Len(q) : q[i] \in Updating /\ q[i].op # "INSERT"
  BY <1>1, NoInsert
<1>3. \A i \in 1 .. Len(q) : q[i] \in DeleteReqs
  BY <1>2 DEF Updating, DeleteReqs, IsInsert
<1> QED BY <1>3, Retype

LEMMA QuietAns ==
  ASSUME NEW q \in Seq(Answers), Inserts(q) = 0 PROVE q \in Seq(Deletions)
<1>1. Answers \subseteq AnyUpd
  BY DEF Answers, AnyUpd
<1>2. \A i \in 1 .. Len(q) : q[i] \in Answers /\ q[i].op # "INSERT"
  BY <1>1, NoInsert
<1>3. \A i \in 1 .. Len(q) : q[i] \in Deletions
  BY <1>2 DEF Answers, Deletions, IsAnswer
<1> QED BY <1>3, Retype

LEMMA QuietRsp ==
  ASSUME NEW q \in Seq(InsertRsps), Inserts(q) = 0 PROVE q \in Seq({})
<1>1. InsertRsps \subseteq AnyUpd
  BY DEF InsertRsps, AnyUpd
<1>2. \A i \in 1 .. Len(q) : q[i] \in InsertRsps /\ q[i].op # "INSERT"
  BY <1>1, NoInsert
<1>3. \A i \in 1 .. Len(q) : q[i] \in {}
  BY <1>2 DEF InsertRsps, IsAnswer
<1> QED BY <1>3, Retype

\* ... stay well linked when the FSM goes on to another request.
LEMMA QuietNext ==
  /\ Seq({}) \subseteq Seq(InsertReqs)' /\ Seq({}) \subseteq Seq(InsertRsps)'
  /\ Seq(DeleteReqs)' \subseteq Seq(Updating)' /\ Seq(Deletions) \subseteq Seq(Answers)'
<1>1. DeleteReqs' \subseteq Updating' /\ Deletions \subseteq Answers'
  BY DEF DeleteReqs, Updating, Deletions, Answers
<1> QED BY <1>1

\* While the FSM does not wait for an INSERT there is none.
LEMMA Quiet ==
  ASSUME IInv, slc.pc # "UPD_RSP"
  PROVE  /\ insert_req \in Seq({}) /\ insert_rsp \in Seq({})
         /\ cam_upd \in Seq(DeleteReqs) /\ cam_upd_rsp \in Seq(Deletions)
<1>1. /\ Inserts(insert_req) \in Nat /\ Inserts(cam_upd) \in Nat
      /\ Inserts(cam_upd_rsp) \in Nat /\ Inserts(insert_rsp) \in Nat
  BY InsertNats DEF IInv
<1>2. Inserts(insert_req) + Inserts(cam_upd) + Inserts(cam_upd_rsp) + Inserts(insert_rsp) = 0
  BY DEF IInv, CInv, Tokens, OneInsert
<1>3. /\ Inserts(insert_req) = 0 /\ Inserts(cam_upd) = 0
      /\ Inserts(cam_upd_rsp) = 0 /\ Inserts(insert_rsp) = 0
  BY <1>1, <1>2
<1> QED BY <1>3, QuietReq, QuietUpd, QuietAns, QuietRsp DEF IInv, CInv, Linked
-----------------------------------------------------------------------------
(* The free list.                                                           *)

LEMMA RecycleIdStep ==
  ASSUME IInv, RecycleId
  PROVE  IInv'
<1> DEFINE x == Head(released)
<1>0. /\ available \in Seq(Sessions) /\ released \in Seq(Sessions) /\ released # <<>>
      /\ available' = Append(available, x) /\ released' = Tail(released) /\ SlookupTypeOK
      /\ UNCHANGED <<cur_session_id, fsmVars, camVars, revVars, insert_req, delete_req,
                     used_session_id_cnt, known, inputs>>
  BY DEF IInv, SlookupTypeOK, RecycleId
<1>1. x \in Sessions /\ released' \in Seq(Sessions)
  BY <1>0, ReadFifo
<1>2. available' \in Seq(Sessions)
  BY <1>0, <1>1, WriteFifo
<1>3. SlookupTypeOK'
  BY <1>0, <1>1, <1>2 DEF SlookupTypeOK, fsmVars, camVars, revVars
<1>4. ASSUME NEW s \in Sessions PROVE OneOwner(s)' /\ InCam(s)'
  <2>1. /\ Fresh(s) \in Nat /\ Free(s) \in Nat /\ Recycled(s) \in Nat /\ ToInsert(s) \in Nat
        /\ Inserted(s) \in Nat
    BY <1>0, Nats
  <2>2. Free(s)' = IF x \in {s} THEN Free(s) + 1 ELSE Free(s)
    BY <1>0, <1>1, CountAppend DEF Free
  <2>3. /\ Recycled(s) = IF x \in {s} THEN Recycled(s)' + 1 ELSE Recycled(s)'
        /\ Recycled(s)' \in Nat
    BY <1>0, CountTail DEF Recycled
  <2>4. /\ Fresh(s)' = Fresh(s) /\ ToInsert(s)' = ToInsert(s) /\ Inserted(s)' = Inserted(s)
        /\ Held(s)' = Held(s) /\ Deleted(s)' = Deleted(s) /\ CamIds' = CamIds
    BY <1>0 DEF Fresh, ToInsert, Inserted, Held, Answered, Received, ToEnter, Valid, ToDelete,
                Deleted, CamIds, fsmVars, camVars, revVars, CountIn
  <2>5. OneOwner(s) /\ InCam(s)
    BY TokenFacts DEF IInv
  <2>6. Held(s) \in Nat
    BY <1>0, Nats
  <2> QED BY <2>1, <2>2, <2>3, <2>4, <2>5, <2>6 DEF OneOwner, InCam
<1>5. OneInsert'
  BY <1>0 DEF IInv, CInv, Tokens, OneInsert, Inserts, fsmVars, camVars, CountIn
<1>6. Injective' /\ InOrder' /\ Phase' /\ SessionCount'
  BY <1>0 DEF IInv, CInv, Injective, InOrder, Phase, SessionCount, OfKind, CamIds, fsmVars,
              camVars
<1>7. Linked'
  BY <1>0, LinkSame DEF IInv, CInv, Linked, fsmVars, camVars, revVars
<1> QED BY <1>3, <1>4, <1>5, <1>6, <1>7 DEF IInv, CInv, Tokens

LEMMA IssueIdStep ==
  ASSUME IInv, IssueId
  PROVE  IInv'
<1> DEFINE x == cur_session_id
<1>0. /\ available \in Seq(Sessions) /\ x \in 0 .. MaxSessions /\ x < MaxSessions
      /\ available' = Append(available, x) /\ cur_session_id' = x + 1 /\ SlookupTypeOK
      /\ UNCHANGED <<released, fsmVars, camVars, revVars, insert_req, delete_req,
                     used_session_id_cnt, known, inputs>>
  BY DEF IInv, SlookupTypeOK, IssueId, IdsLeft
<1>1. x \in Sessions /\ cur_session_id' \in 0 .. MaxSessions
  BY <1>0, Consts DEF Sessions
<1>2. available' \in Seq(Sessions)
  BY <1>0, <1>1, WriteFifo
<1>3. SlookupTypeOK'
  BY <1>0, <1>1, <1>2 DEF SlookupTypeOK, fsmVars, camVars, revVars
<1>4. ASSUME NEW s \in Sessions PROVE OneOwner(s)' /\ InCam(s)'
  <2>1. /\ Fresh(s) \in Nat /\ Free(s) \in Nat /\ Recycled(s) \in Nat /\ ToInsert(s) \in Nat
        /\ Inserted(s) \in Nat
    BY <1>0, Nats
  <2>2. Free(s)' = IF x \in {s} THEN Free(s) + 1 ELSE Free(s)
    BY <1>0, <1>1, CountAppend DEF Free
  <2>3. Fresh(s) = IF x = s THEN Fresh(s)' + 1 ELSE Fresh(s)'
    BY <1>0, <1>1, Consts DEF Fresh
  <2>a. Fresh(s)' \in Nat
    BY DEF Fresh
  <2>4. /\ Recycled(s)' = Recycled(s) /\ ToInsert(s)' = ToInsert(s)
        /\ Inserted(s)' = Inserted(s)
        /\ Held(s)' = Held(s) /\ Deleted(s)' = Deleted(s) /\ CamIds' = CamIds
    BY <1>0 DEF Recycled, ToInsert, Inserted, Held, Answered, Received, ToEnter, Valid,
                ToDelete, Deleted, CamIds, fsmVars, camVars, revVars, CountIn
  <2>5. OneOwner(s) /\ InCam(s)
    BY TokenFacts DEF IInv
  <2>6. Held(s) \in Nat
    BY <1>0, Nats
  <2> QED BY <2>1, <2>2, <2>3, <2>a, <2>4, <2>5, <2>6 DEF OneOwner, InCam
<1>5. OneInsert'
  BY <1>0 DEF IInv, CInv, Tokens, OneInsert, Inserts, fsmVars, camVars, CountIn
<1>6. Injective' /\ InOrder' /\ Phase' /\ SessionCount'
  BY <1>0 DEF IInv, CInv, Injective, InOrder, Phase, SessionCount, OfKind, CamIds, fsmVars,
              camVars
<1>7. Linked'
  BY <1>0, LinkSame DEF IInv, CInv, Linked, fsmVars, camVars, revVars
<1> QED BY <1>3, <1>4, <1>5, <1>6, <1>7 DEF IInv, CInv, Tokens
-----------------------------------------------------------------------------
(* The lookup FSM.                                                          *)

LEMMA TokensSame ==
  ASSUME CInv, UNCHANGED <<freeVars, camVars, insert_req, insert_rsp, rev_insert,
                           valid_tuple, delete_req>>
  PROVE  \A s \in Sessions : OneOwner(s)' /\ InCam(s)'
BY ZenonT(30) DEF CInv, Tokens, OneOwner, InCam, Fresh, Free, Recycled, ToInsert, Inserted, Held,
       Answered, Received, ToEnter, Valid, ToDelete, Deleted, CamIds, CountIn, freeVars, camVars

\* The FSM goes on to a request, or is done with one, while no INSERT is under way.
LEMMA FsmMoves ==
  ASSUME IInv, slc.pc # "UPD_RSP", slc'.pc # "UPD_RSP",
         UNCHANGED <<freeVars, camVars, insert_req, insert_rsp, rev_insert,
                     valid_tuple, slookup_rev_table, delete_req, used_session_id_cnt>>
  PROVE  Tokens' /\ Injective' /\ Linked' /\ InOrder' /\ SessionCount'
<1>1. \A s \in Sessions : OneOwner(s)' /\ InCam(s)'
  BY TokensSame DEF IInv
<1>2. OneInsert'
  BY DEF IInv, CInv, Tokens, OneInsert, Inserts, CountIn, camVars
<1>3. Injective' /\ InOrder' /\ SessionCount'
  BY DEF IInv, CInv, Injective, InOrder, SessionCount, OfKind, CamIds, camVars
<1>4. /\ insert_req' \in Seq({}) /\ insert_rsp' \in Seq({})
      /\ cam_upd' \in Seq(DeleteReqs) /\ cam_upd_rsp' \in Seq(Deletions)
  BY Quiet DEF camVars
<1>5. DeleteReqs' = DeleteReqs /\ RevInserts' = RevInserts
  BY DeleteSame DEF camVars
<1>6. Linked'
  BY <1>4, <1>5, QuietNext DEF IInv, CInv, Linked, camVars
<1> QED BY <1>1, <1>2, <1>3, <1>6 DEF Tokens

LEMMA LupReqStep ==
  ASSUME IInv, NEW c \in Sources, LupReq(c)
  PROVE  IInv'
<1> DEFINE req == Head(lup_req[c])
<1>0. /\ lup_req \in [Sources -> Seq(LookupReq)] /\ lup_req[c] # <<>> /\ slc.pc = "LUP_REQ"
      /\ slc' = [pc |-> "LUP_RSP", req |-> req]
      /\ lup_req' = [lup_req EXCEPT ![c] = Tail(lup_req[c])]
      /\ cam_lup' = Append(cam_lup, req.tuple)
      /\ cam_lup = <<>> /\ cam_lup_rsp = <<>> /\ cam_lup_rsp' = cam_lup_rsp
  BY DEF IInv, SlookupTypeOK, LupReq, CInv, Phase
<1>1. req \in LookupReq /\ Tail(lup_req[c]) \in Seq(LookupReq)
  BY <1>0, ReadFifo
<1> HIDE DEF req
<1>2. req.tuple \in Tuples
  BY <1>1 DEF LookupReq
<1>3. /\ cam_lup' \in Seq(Tuples) /\ Len(cam_lup') = 1 /\ cam_lup'[1] = req.tuple
      /\ Len(cam_lup_rsp') = 0
  BY <1>0, <1>2
<1>4. lup_req' \in [Sources -> Seq(LookupReq)]
  BY <1>0, <1>1
<1>5. /\ slc' \in [pc : {"LUP_REQ", "LUP_RSP", "UPD_RSP"}, req : LookupReq \cup {None}]
      /\ slc'.pc = "LUP_RSP" /\ slc'.req = req
  BY <1>0, <1>1
<1>6. SlookupTypeOK'
  BY <1>3, <1>4, <1>5 DEF IInv, SlookupTypeOK, LupReq, freeVars, camVars, revVars
<1>7. Tokens' /\ Injective' /\ Linked' /\ InOrder' /\ SessionCount'
  BY <1>0, <1>5, FsmMoves DEF LupReq, revVars
<1>8. Phase'
  BY <1>1, <1>3, <1>5 DEF Phase
<1> QED BY <1>6, <1>7, <1>8 DEF IInv, CInv

LEMMA CamLookupStep ==
  ASSUME IInv, CamLookup
  PROVE  IInv'
<1>0. /\ cam_lup \in Seq(Tuples) /\ cam_lup # <<>> /\ cam_lup' = Tail(cam_lup)
      /\ cam_lup_rsp \in Seq(IdOrNone) /\ cam \in [Tuples -> IdOrNone]
      /\ cam_lup_rsp' = Append(cam_lup_rsp, cam[Head(cam_lup)])
      /\ slc.pc = "LUP_RSP" /\ Len(cam_lup) + Len(cam_lup_rsp) = 1
      /\ \A i \in 1 .. Len(cam_lup) : cam_lup[i] = slc.req.tuple
      /\ UNCHANGED <<slc, cam>>
  BY DEF IInv, SlookupTypeOK, CamLookup, CInv, Phase, camVars
<1>1. /\ Head(cam_lup) \in Tuples /\ Head(cam_lup) = cam_lup[1] /\ Len(cam_lup) > 0
      /\ Len(cam_lup) \in Nat /\ cam_lup' \in Seq(Tuples) /\ Len(cam_lup') = Len(cam_lup) - 1
  BY <1>0, ReadFifo
<1>2. Len(cam_lup_rsp) \in Nat
  BY <1>0, InFifo
<1>3. Len(cam_lup) = 1 /\ Len(cam_lup_rsp) = 0 /\ Len(cam_lup') = 0
  BY <1>0, <1>1, <1>2
<1>4. cam[Head(cam_lup)] \in IdOrNone /\ Head(cam_lup) = slc.req.tuple
  BY <1>0, <1>1, <1>3
<1>5. /\ cam_lup_rsp' \in Seq(IdOrNone) /\ Len(cam_lup_rsp') = 1
      /\ cam_lup_rsp'[1] = cam[slc.req.tuple]
  BY <1>0, <1>3, <1>4, WriteFifo
<1>6. SlookupTypeOK'
  BY <1>1, <1>5 DEF IInv, SlookupTypeOK, CamLookup, freeVars, camVars, revVars
<1>7. Phase'
  BY <1>0, <1>3, <1>5 DEF IInv, CInv, Phase
<1>8. Tokens' /\ Injective' /\ Linked' /\ InOrder' /\ SessionCount'
  BY <1>0, FsmMoves DEF CamLookup, revVars
<1> QED BY <1>6, <1>7, <1>8 DEF IInv, CInv

\* The one answer of the CAM is read.
LEMMA CamAnswered ==
  ASSUME IInv, slc.pc = "LUP_RSP", cam_lup_rsp # <<>>
  PROVE  /\ cam_lup = <<>> /\ Tail(cam_lup_rsp) = <<>> /\ Head(cam_lup_rsp) \in IdOrNone
         /\ Head(cam_lup_rsp) = None => cam[slc.req.tuple] = None
         /\ slc.req \in LookupReq
<1>0. /\ cam_lup \in Seq(Tuples) /\ cam_lup_rsp \in Seq(IdOrNone)
      /\ Len(cam_lup) + Len(cam_lup_rsp) = 1 /\ slc.req \in LookupReq
      /\ \A i \in 1 .. Len(cam_lup_rsp) : cam_lup_rsp[i] = None => cam[slc.req.tuple] = None
  BY DEF IInv, SlookupTypeOK, CInv, Phase
<1>1. /\ Head(cam_lup_rsp) \in IdOrNone /\ Head(cam_lup_rsp) = cam_lup_rsp[1]
      /\ Tail(cam_lup_rsp) \in Seq(IdOrNone) /\ Len(Tail(cam_lup_rsp)) = Len(cam_lup_rsp) - 1
      /\ Len(cam_lup_rsp) \in Nat /\ Len(cam_lup_rsp) > 0
  BY <1>0, ReadFifo
<1>2. Len(cam_lup) \in Nat
  BY <1>0, InFifo
<1>3. Len(cam_lup) = 0 /\ Len(Tail(cam_lup_rsp)) = 0 /\ Len(cam_lup_rsp) = 1
  BY <1>0, <1>1, <1>2
<1>4. cam_lup = <<>> /\ Tail(cam_lup_rsp) = <<>>
  BY <1>0, <1>1, <1>3, EmptyFifo
<1> QED BY <1>0, <1>1, <1>3, <1>4

LEMMA LupRspAnswerStep ==
  ASSUME IInv, LupRspAnswer
  PROVE  IInv'
<1>1. PICK b \in BOOLEAN : b = (Head(cam_lup_rsp) # None)
  OBVIOUS
<1> DEFINE c   == slc.req.source
           rsp == [id |-> Head(cam_lup_rsp), hit |-> b, role |-> slc.req.role]
<1>2. /\ slc.pc = "LUP_RSP" /\ cam_lup_rsp # <<>> /\ lup_rsp \in [Sources -> Seq(LookupRsp)]
      /\ lup_rsp' = [lup_rsp EXCEPT ![c] = Append(lup_rsp[c], rsp)]
      /\ cam_lup_rsp' = Tail(cam_lup_rsp) /\ slc' = [pc |-> "LUP_REQ", req |-> None]
      /\ cam_lup' = cam_lup
  BY <1>1 DEF IInv, SlookupTypeOK, LupRspAnswer
<1>3. /\ cam_lup' = <<>> /\ cam_lup_rsp' = <<>> /\ Head(cam_lup_rsp) \in IdOrNone
      /\ slc.req \in LookupReq
  BY <1>2, CamAnswered
<1>4. c \in Sources /\ rsp \in LookupRsp
  BY <1>3 DEF LookupReq, LookupRsp, IdOrNone
<1> HIDE DEF c, rsp
<1>5. Append(lup_rsp[c], rsp) \in Seq(LookupRsp)
  BY <1>2, <1>4, WriteFifo
<1>6. lup_rsp' \in [Sources -> Seq(LookupRsp)]
  BY <1>2, <1>4, <1>5
<1>7. /\ slc' \in [pc : {"LUP_REQ", "LUP_RSP", "UPD_RSP"}, req : LookupReq \cup {None}]
      /\ slc'.pc = "LUP_REQ"
  BY <1>2
<1>8. cam_lup' \in Seq(Tuples) /\ cam_lup_rsp' \in Seq(IdOrNone)
  BY <1>3
<1>9. SlookupTypeOK'
  BY <1>6, <1>7, <1>8 DEF IInv, SlookupTypeOK, LupRspAnswer, freeVars, camVars, revVars
<1>10. Phase'
  BY <1>3, <1>7 DEF Phase
<1>11. Tokens' /\ Injective' /\ Linked' /\ InOrder' /\ SessionCount'
  BY <1>2, <1>7, FsmMoves DEF LupRspAnswer, revVars
<1> QED BY <1>9, <1>10, <1>11 DEF IInv, CInv

\* An update counts for its own id and operation.
LEMMA InOf ==
  ASSUME NEW u \in AnyUpd
  PROVE  /\ \A s, op : u \in OfId(s, op) <=> u.id = s /\ u.op = op
         /\ \A op : u \in Of(op) <=> u.op = op
BY DEF OfId, Of

LEMMA LupRspCreateStep ==
  ASSUME IInv, LupRspCreate
  PROVE  IInv'
<1> DEFINE x == Head(available)
           u == [op |-> "INSERT", tuple |-> slc.req.tuple, id |-> x, source |-> slc.req.source]
<1>0. /\ SlookupTypeOK /\ slc.pc = "LUP_RSP" /\ cam_lup_rsp # <<>> /\ Head(cam_lup_rsp) = None
      /\ available \in Seq(Sessions) /\ available # <<>> /\ available' = Tail(available)
      /\ insert_req \in Seq(CamUpd) /\ insert_req' = Append(insert_req, u)
      /\ slc \in [pc : {"LUP_REQ", "LUP_RSP", "UPD_RSP"}, req : LookupReq \cup {None}]
      /\ cam_lup_rsp' = Tail(cam_lup_rsp) /\ slc' = [slc EXCEPT !.pc = "UPD_RSP"]
      /\ UNCHANGED <<cur_session_id, released, camVars, revVars, lup_req, lup_rsp, cam_lup,
                     insert_rsp, rev_insert, delete_req, used_session_id_cnt, known, inputs>>
  BY DEF IInv, SlookupTypeOK, LupRspCreate, Creates
<1>1. /\ cam_lup' = <<>> /\ cam_lup_rsp' = <<>> /\ cam[slc.req.tuple] = None
      /\ slc.req \in LookupReq
  BY <1>0, CamAnswered
<1>2. x \in Sessions /\ available' \in Seq(Sessions)
  BY <1>0, ReadFifo
<1>3. /\ slc' \in [pc : {"LUP_REQ", "LUP_RSP", "UPD_RSP"}, req : LookupReq \cup {None}]
      /\ slc'.pc = "UPD_RSP" /\ slc'.req = slc.req
  BY <1>0
<1>4. /\ u \in CamUpd /\ u \in AnyUpd /\ u.op = "INSERT" /\ u.id = x /\ u.tuple = slc.req.tuple
  BY <1>1, <1>2 DEF CamUpd, LookupReq, AnyUpd
<1> HIDE DEF u
<1>5. insert_req' \in Seq(CamUpd)
  BY <1>0, <1>4, WriteFifo
<1>6. cam_lup' \in Seq(Tuples) /\ cam_lup_rsp' \in Seq(IdOrNone)
  BY <1>1
<1>7. SlookupTypeOK'
  BY <1>0, <1>2, <1>3, <1>5, <1>6 DEF SlookupTypeOK, camVars, revVars
<1>8. /\ \A s : u \in OfId(s, "INSERT") <=> x = s
      /\ u \in Of("INSERT")
  BY <1>4, InOf
<1>9. ASSUME NEW s \in Sessions PROVE OneOwner(s)' /\ InCam(s)'
  <2>1. /\ Fresh(s) \in Nat /\ Free(s) \in Nat /\ Recycled(s) \in Nat /\ ToInsert(s) \in Nat
        /\ Inserted(s) \in Nat /\ Held(s) \in Nat
    BY <1>0, Nats
  <2>2. /\ Free(s) = IF x \in {s} THEN Free(s)' + 1 ELSE Free(s)'
        /\ Free(s)' \in Nat
    BY <1>0, CountTail DEF Free
  <2>3. ToInsert(s)' = IF x = s THEN ToInsert(s) + 1 ELSE ToInsert(s)
    BY <1>0, <1>4, <1>8, CountAppend DEF ToInsert
  <2>4. /\ Fresh(s)' = Fresh(s) /\ Recycled(s)' = Recycled(s) /\ Inserted(s)' = Inserted(s)
        /\ Held(s)' = Held(s) /\ Deleted(s)' = Deleted(s) /\ CamIds' = CamIds
    BY <1>0 DEF Fresh, Recycled, Inserted, Held, Answered, Received, ToEnter, Valid, ToDelete,
                Deleted, CamIds, camVars, revVars, CountIn
  <2>5. OneOwner(s) /\ InCam(s)
    BY TokenFacts DEF IInv
  <2> QED BY <2>1, <2>2, <2>3, <2>4, <2>5 DEF OneOwner, InCam
<1>10. OneInsert'
  <2>1. /\ Inserts(insert_req) \in Nat /\ Inserts(cam_upd) \in Nat
        /\ Inserts(cam_upd_rsp) \in Nat /\ Inserts(insert_rsp) \in Nat
    BY <1>0, InsertNats
  <2>2. Inserts(insert_req) + Inserts(cam_upd) + Inserts(cam_upd_rsp) + Inserts(insert_rsp) = 0
    BY <1>0 DEF IInv, CInv, Tokens, OneInsert
  <2>3. Inserts(insert_req') = Inserts(insert_req) + 1
    BY <1>0, <1>4, <1>8, CountAppend DEF Inserts
  <2>4. /\ cam_upd' = cam_upd /\ cam_upd_rsp' = cam_upd_rsp /\ insert_rsp' = insert_rsp
    BY <1>0 DEF camVars
  <2>5. Inserts(insert_req') + Inserts(cam_upd) + Inserts(cam_upd_rsp) + Inserts(insert_rsp) = 1
    BY <2>1, <2>2, <2>3
  <2> QED BY <1>3, <2>4, <2>5 DEF OneInsert, Inserts
<1>11. Injective' /\ InOrder' /\ SessionCount'
  BY <1>0 DEF IInv, CInv, Injective, InOrder, SessionCount, OfKind, CamIds, camVars
<1>12. Linked'
  <2>1. /\ insert_req \in Seq({}) /\ insert_rsp' \in Seq({})
        /\ cam_upd' \in Seq(DeleteReqs) /\ cam_upd_rsp' \in Seq(Deletions)
    BY <1>0, Quiet DEF camVars
  <2>2. DeleteReqs' = DeleteReqs /\ RevInserts' = RevInserts
    BY <1>0, DeleteSame DEF camVars
  <2>3. u \in InsertReqs'
    BY <1>0, <1>1, <1>3, <1>4 DEF InsertReqs, IsInsert, camVars
  <2>4. insert_req \in Seq(InsertReqs')
    BY <2>1, QuietNext
  <2>5. insert_req' \in Seq(InsertReqs')
    BY <1>0, <2>3, <2>4, WriteFifo
  <2> QED BY <1>0, <2>1, <2>2, <2>5, QuietNext DEF IInv, CInv, Linked, camVars, revVars
<1>13. Phase'
  BY <1>1, <1>3 DEF Phase
<1> QED BY <1>7, <1>9, <1>10, <1>11, <1>12, <1>13 DEF IInv, CInv, Tokens

LEMMA UpdRspStep ==
  ASSUME IInv, UpdRsp
  PROVE  IInv'
<1> DEFINE upd   == Head(insert_rsp)
           entry == [tuple |-> slc.req.tuple, role |-> slc.req.role]
           e     == [id |-> upd.id, entry |-> entry]
<1>1. PICK b \in BOOLEAN : b = TRUE
  OBVIOUS
<1> DEFINE rsp == [id |-> upd.id, hit |-> b, role |-> slc.req.role]
<1>0. /\ SlookupTypeOK /\ slc.pc = "UPD_RSP" /\ insert_rsp # <<>>
      /\ insert_rsp \in Seq(InsertRsps) /\ insert_rsp' = Tail(insert_rsp)
      /\ rev_insert \in Seq(RevInserts) /\ rev_insert' = Append(rev_insert, e)
      /\ lup_rsp \in [Sources -> Seq(LookupRsp)]
      /\ lup_rsp' = [lup_rsp EXCEPT ![upd.source] = Append(lup_rsp[upd.source], rsp)]
      /\ slc' = [pc |-> "LUP_REQ", req |-> None] /\ slc.req \in LookupReq
      /\ cam_lup = <<>> /\ cam_lup_rsp = <<>>
      /\ UNCHANGED <<freeVars, camVars, revVars, lup_req, cam_lup, cam_lup_rsp, insert_req,
                     delete_req, used_session_id_cnt, known, inputs>>
  BY <1>1 DEF IInv, CInv, Linked, Phase, SlookupTypeOK, UpdRsp
<1>2. upd \in InsertRsps /\ insert_rsp' \in Seq(InsertRsps)
  BY <1>0, ReadFifo
<1>3. /\ upd \in CamUpdRsp /\ upd \in AnyUpd /\ upd.op = "INSERT"
      /\ cam[slc.req.tuple] = upd.id /\ upd.id \in Sessions /\ upd.source \in Sources
  BY <1>2 DEF InsertRsps, IsAnswer, CamUpdRsp, AnyUpd
<1>4. entry \in RevEntry /\ entry.tuple = slc.req.tuple /\ rsp \in LookupRsp
  BY <1>0, <1>3 DEF LookupReq, RevEntry, LookupRsp
<1> HIDE DEF entry, rsp
<1>5. e \in RevReq /\ e.id = upd.id /\ e.entry = entry
  BY <1>3, <1>4 DEF RevReq
<1> HIDE DEF upd, e
<1>6. e \in RevInserts
  BY <1>3, <1>4, <1>5 DEF RevInserts
<1>7. rev_insert' \in Seq(RevInserts)
  BY <1>0, <1>6, WriteFifo
<1>8. rev_insert' \in Seq(RevReq) /\ insert_rsp' \in Seq(CamUpdRsp)
  <2>1. RevInserts \subseteq RevReq /\ InsertRsps \subseteq CamUpdRsp
    BY DEF RevInserts, InsertRsps
  <2> QED BY <1>2, <1>7, <2>1
<1>9. Append(lup_rsp[upd.source], rsp) \in Seq(LookupRsp)
  BY <1>0, <1>3, <1>4, WriteFifo
<1>10. lup_rsp' \in [Sources -> Seq(LookupRsp)]
  BY <1>0, <1>3, <1>9
<1>11. /\ slc' \in [pc : {"LUP_REQ", "LUP_RSP", "UPD_RSP"}, req : LookupReq \cup {None}]
       /\ slc'.pc = "LUP_REQ"
  BY <1>0
<1>12. SlookupTypeOK'
  BY <1>0, <1>8, <1>10, <1>11 DEF SlookupTypeOK, RevReq, freeVars, camVars, revVars
<1>13. /\ \A s : upd \in OfId(s, "INSERT") <=> upd.id = s
       /\ upd \in Of("INSERT")
       /\ \A s : e \in RevOf(s) <=> upd.id = s
  BY <1>3, <1>5, InOf DEF RevOf
<1>14. ASSUME NEW s \in Sessions PROVE OneOwner(s)' /\ InCam(s)'
  <2>1. /\ Answered(s) \in Nat /\ Received(s) \in Nat /\ ToEnter(s) \in Nat
        /\ Valid(s) \in Nat /\ ToDelete(s) \in Nat
    BY <1>0, Nats
  <2>2. /\ Received(s) = IF upd.id = s THEN Received(s)' + 1 ELSE Received(s)'
        /\ Received(s)' \in Nat
    BY <1>0, <1>13, CountTail DEF Received, upd
  <2>3. ToEnter(s)' = IF upd.id = s THEN ToEnter(s) + 1 ELSE ToEnter(s)
    BY <1>0, <1>6, <1>13, CountAppend DEF ToEnter
  <2>4. /\ Fresh(s)' = Fresh(s) /\ Free(s)' = Free(s) /\ Recycled(s)' = Recycled(s)
        /\ ToInsert(s)' = ToInsert(s) /\ Inserted(s)' = Inserted(s) /\ Deleted(s)' = Deleted(s)
        /\ Answered(s)' = Answered(s) /\ Valid(s)' = Valid(s) /\ ToDelete(s)' = ToDelete(s)
        /\ CamIds' = CamIds
    BY <1>0 DEF Fresh, Free, Recycled, ToInsert, Inserted, Answered, Valid, ToDelete,
                Deleted, CamIds, freeVars, camVars, revVars, CountIn
  <2>5. Held(s)' = Held(s)
    BY <2>1, <2>2, <2>3, <2>4 DEF Held
  <2>6. OneOwner(s) /\ InCam(s)
    BY TokenFacts DEF IInv
  <2> QED BY <2>4, <2>5, <2>6 DEF OneOwner, InCam
<1>15. /\ Inserts(insert_req) = 0 /\ Inserts(cam_upd) = 0 /\ Inserts(cam_upd_rsp) = 0
       /\ Inserts(insert_rsp') = 0
  <2>1. /\ Inserts(insert_req) \in Nat /\ Inserts(cam_upd) \in Nat
        /\ Inserts(cam_upd_rsp) \in Nat
    BY <1>0, InsertNats
  <2>2. Inserts(insert_req) + Inserts(cam_upd) + Inserts(cam_upd_rsp) + Inserts(insert_rsp) = 1
    BY <1>0 DEF IInv, CInv, Tokens, OneInsert
  <2>3. Inserts(insert_rsp) = Inserts(insert_rsp') + 1 /\ Inserts(insert_rsp') \in Nat
    BY <1>0, <1>13, CountTail DEF Inserts, upd
  <2> QED BY <2>1, <2>2, <2>3
<1>16. OneInsert'
  <2>1. cam_upd' = cam_upd /\ cam_upd_rsp' = cam_upd_rsp /\ insert_req' = insert_req
    BY <1>0 DEF camVars
  <2> QED BY <1>11, <1>15, <2>1 DEF OneInsert, Inserts
<1>17. Injective' /\ InOrder' /\ SessionCount'
  BY <1>0 DEF IInv, CInv, Injective, InOrder, SessionCount, OfKind, CamIds, camVars
<1>18. Linked'
  <2>1. /\ insert_req \in Seq({}) /\ insert_rsp' \in Seq({})
        /\ cam_upd \in Seq(DeleteReqs) /\ cam_upd_rsp \in Seq(Deletions)
    BY <1>2, <1>15, QuietReq, QuietUpd, QuietAns, QuietRsp DEF IInv, CInv, Linked
  <2>2. DeleteReqs' = DeleteReqs /\ RevInserts' = RevInserts
    BY <1>0, DeleteSame DEF camVars
  <2> QED BY <1>0, <1>7, <2>1, <2>2, QuietNext DEF IInv, CInv, Linked, camVars, revVars
<1>19. Phase'
  BY <1>0, <1>11 DEF Phase
<1> QED BY <1>12, <1>14, <1>16, <1>17, <1>18, <1>19 DEF IInv, CInv, Tokens
-----------------------------------------------------------------------------
(* The sender and the receiver of CAM updates.                              *)

LEMMA KindCount ==
  ASSUME cam_upd \in Seq(CamUpd), NEW op
  PROVE  OfKind(op) = CountIn(cam_upd, Of(op))
<1>1. \A i \in DOMAIN cam_upd : cam_upd[i] \in AnyUpd
  BY InFifo DEF AnyUpd
<1>2. {i \in DOMAIN cam_upd : cam_upd[i].op = op} = {i \in DOMAIN cam_upd : cam_upd[i] \in Of(op)}
  BY <1>1 DEF Of
<1> QED BY <1>2 DEF OfKind, CountIn

LEMMA KindNext ==
  ASSUME cam_upd' \in Seq(CamUpd), NEW op
  PROVE  OfKind(op)' = CountIn(cam_upd', Of(op))
<1>1. \A i \in DOMAIN cam_upd' : cam_upd'[i] \in AnyUpd
  BY InFifo DEF AnyUpd
<1>2. {i \in DOMAIN cam_upd' : cam_upd'[i].op = op}
        = {i \in DOMAIN cam_upd' : cam_upd'[i] \in Of(op)}
  BY <1>1 DEF Of
<1> QED BY <1>2 DEF OfKind, CountIn

LEMMA KindNats ==
  ASSUME SlookupTypeOK
  PROVE  /\ OfKind("INSERT") \in Nat /\ OfKind("DELETE") \in Nat
         /\ IsFiniteSet(CamIds) /\ Cardinality(CamIds) \in Nat
<1>1. OfKind("INSERT") \in Nat /\ OfKind("DELETE") \in Nat
  <2>1. cam_upd \in Seq(CamUpd)
    BY DEF SlookupTypeOK
  <2>2. \A op : CountIn(cam_upd, Of(op)) \in Nat
    BY <2>1, CountFinite
  <2>3. \A op : OfKind(op) = CountIn(cam_upd, Of(op))
    BY <2>1, KindCount
  <2> QED BY <2>2, <2>3
<1>2. 0 \in Int /\ MaxSessions - 1 \in Int
  BY Consts
<1>3. IsFiniteSet(Sessions)
  BY <1>2, FS_Interval DEF Sessions
<1>4. CamIds \subseteq Sessions
  BY DEF CamIds, SlookupTypeOK, IdOrNone
<1>5. IsFiniteSet(CamIds)
  BY <1>3, <1>4, FS_Subset
<1> QED BY <1>1, <1>5, FS_CardinalityType

LEMMA SendInsertStep ==
  ASSUME IInv, SendInsert
  PROVE  IInv'
<1> DEFINE u == Head(insert_req)
<1>0. /\ SlookupTypeOK /\ insert_req # <<>> /\ insert_req \in Seq(InsertReqs)
      /\ insert_req' = Tail(insert_req) /\ cam_upd \in Seq(Updating)
      /\ cam_upd' = Append(cam_upd, u) /\ used_session_id_cnt' = used_session_id_cnt + 1
      /\ used_session_id_cnt \in Nat
      /\ UNCHANGED <<freeVars, fsmVars, cam, cam_upd_rsp, revVars, delete_req, known, inputs>>
  BY DEF IInv, CInv, Linked, SlookupTypeOK, SendInsert
<1>1. u \in InsertReqs /\ insert_req' \in Seq(InsertReqs)
  BY <1>0, ReadFifo
<1>2. u \in CamUpd /\ u \in AnyUpd /\ u.op = "INSERT" /\ u \in Updating
  BY <1>1 DEF InsertReqs, IsInsert, AnyUpd, Updating
<1>3. /\ cam_upd' \in Seq(Updating) /\ Len(cam_upd) \in Nat /\ Len(cam_upd') = Len(cam_upd) + 1
      /\ cam_upd'[Len(cam_upd) + 1] = u
      /\ \A i \in 1 .. Len(cam_upd) : cam_upd'[i] = cam_upd[i]
  BY <1>0, <1>2, WriteFifo
<1>4. cam_upd' \in Seq(CamUpd) /\ insert_req' \in Seq(CamUpd)
  <2>1. Updating \subseteq CamUpd /\ InsertReqs \subseteq CamUpd
    BY DEF Updating, InsertReqs
  <2> QED BY <1>1, <1>3, <2>1
<1>a. used_session_id_cnt' \in Nat
  BY <1>0
<1>5. SlookupTypeOK'
  BY <1>0, <1>4, <1>a DEF SlookupTypeOK, freeVars, fsmVars, revVars
<1>6. /\ \A s : u \in OfId(s, "INSERT") <=> u.id = s
      /\ \A s : u \notin OfId(s, "DELETE")
      /\ u \in Of("INSERT") /\ u \notin Of("DELETE")
  BY <1>2, InOf
<1>7. ASSUME NEW s \in Sessions PROVE OneOwner(s)' /\ InCam(s)'
  <2>1. /\ Fresh(s) \in Nat /\ Free(s) \in Nat /\ Recycled(s) \in Nat /\ ToInsert(s) \in Nat
        /\ Inserted(s) \in Nat /\ Held(s) \in Nat
    BY <1>0, Nats
  <2>2. /\ ToInsert(s) = IF u.id = s THEN ToInsert(s)' + 1 ELSE ToInsert(s)'
        /\ ToInsert(s)' \in Nat
    BY <1>0, <1>6, CountTail DEF ToInsert
  <2>3. Inserted(s)' = IF u.id = s THEN Inserted(s) + 1 ELSE Inserted(s)
    BY <1>0, <1>2, <1>6, CountAppend DEF Inserted
  <2>4. Deleted(s)' = Deleted(s)
    BY <1>0, <1>2, <1>6, CountAppend DEF Deleted
  <2>5. /\ Fresh(s)' = Fresh(s) /\ Free(s)' = Free(s) /\ Recycled(s)' = Recycled(s)
        /\ Held(s)' = Held(s) /\ CamIds' = CamIds
    BY <1>0 DEF Fresh, Free, Recycled, Held, Answered, Received, ToEnter, Valid, ToDelete,
                CamIds, freeVars, fsmVars, revVars, CountIn
  <2>6. OneOwner(s) /\ InCam(s)
    BY TokenFacts DEF IInv
  <2> QED BY <2>1, <2>2, <2>3, <2>4, <2>5, <2>6 DEF OneOwner, InCam
<1>8. /\ Inserts(insert_req) = Inserts(insert_req') + 1 /\ Inserts(insert_req') \in Nat
      /\ Inserts(cam_upd') = Inserts(cam_upd) + 1
  <2>1. Inserts(insert_req) = Inserts(insert_req') + 1 /\ Inserts(insert_req') \in Nat
    BY <1>0, <1>6, CountTail DEF Inserts
  <2>2. Inserts(cam_upd') = Inserts(cam_upd) + 1
    BY <1>0, <1>2, <1>6, CountAppend DEF Inserts
  <2> QED BY <2>1, <2>2
<1>9. /\ Inserts(cam_upd) \in Nat /\ Inserts(cam_upd_rsp) \in Nat /\ Inserts(insert_rsp) \in Nat
      /\ Inserts(insert_req) + Inserts(cam_upd) + Inserts(cam_upd_rsp) + Inserts(insert_rsp)
           = IF slc.pc = "UPD_RSP" THEN 1 ELSE 0
  BY <1>0, InsertNats DEF IInv, CInv, Tokens, OneInsert
<1>10. OneInsert'
  <2>1. /\ Inserts(insert_req') + Inserts(cam_upd') + Inserts(cam_upd_rsp) + Inserts(insert_rsp)
             = IF slc.pc = "UPD_RSP" THEN 1 ELSE 0
    BY <1>8, <1>9
  <2>2. cam_upd_rsp' = cam_upd_rsp /\ insert_rsp' = insert_rsp /\ slc' = slc
    BY <1>0 DEF fsmVars
  <2> QED BY <2>1, <2>2 DEF OneInsert, Inserts
<1>11. Injective' /\ Phase'
  BY <1>0 DEF IInv, CInv, Injective, Phase, fsmVars
<1>12. InOrder'
  <2>1. Inserts(cam_upd) = 0
    BY <1>8, <1>9
  <2>2. Updating \subseteq AnyUpd
    BY DEF Updating, AnyUpd
  <2>3. \A i \in 1 .. Len(cam_upd) : cam_upd[i].op # "INSERT"
    BY <1>0, <2>1, <2>2, NoInsert
  <2>4. \A i, j \in 1 .. Len(cam_upd') : i < j => i \in 1 .. Len(cam_upd)
    BY <1>3
  <2> QED BY <1>3, <2>3, <2>4 DEF InOrder
<1>13. Linked'
  BY <1>0, <1>1, <1>3, LinkSame DEF IInv, CInv, Linked, fsmVars, revVars
<1>14. SessionCount'
  <2>1. OfKind("INSERT")' = OfKind("INSERT") + 1
    BY <1>0, <1>2, <1>4, <1>6, CountAppend, KindCount, KindNext DEF SlookupTypeOK
  <2>2. OfKind("DELETE")' = OfKind("DELETE")
    BY <1>0, <1>2, <1>4, <1>6, CountAppend, KindCount, KindNext, SMTT(30) DEF SlookupTypeOK
  <2>3. /\ OfKind("INSERT") \in Nat /\ OfKind("DELETE") \in Nat /\ Cardinality(CamIds) \in Nat
    BY <1>0, KindNats
  <2>4. CamIds' = CamIds
    BY <1>0 DEF CamIds
  <2>5. used_session_id_cnt = Cardinality(CamIds) + OfKind("INSERT") - OfKind("DELETE")
    BY DEF IInv, CInv, SessionCount
  <2> QED BY <1>0, <2>1, <2>2, <2>3, <2>4, <2>5 DEF SessionCount
<1> QED BY <1>5, <1>7, <1>10, <1>11, <1>12, <1>13, <1>14 DEF IInv, CInv, Tokens

LEMMA ReceiveUpdStep ==
  ASSUME IInv, ReceiveUpd
  PROVE  IInv'
<1> DEFINE u == Head(cam_upd_rsp)
<1>0. /\ SlookupTypeOK /\ cam_upd_rsp # <<>> /\ cam_upd_rsp \in Seq(Answers)
      /\ cam_upd_rsp' = Tail(cam_upd_rsp) /\ insert_rsp \in Seq(InsertRsps)
      /\ insert_rsp' = IF u.op = "INSERT" THEN Append(insert_rsp, u) ELSE insert_rsp
      /\ UNCHANGED <<freeVars, slc, lup_req, lup_rsp, cam_lup, cam_lup_rsp, rev_insert, cam,
                     cam_upd, revVars, insert_req, delete_req, used_session_id_cnt, known,
                     inputs>>
  BY DEF IInv, CInv, Linked, SlookupTypeOK, ReceiveUpd
<1>1. u \in Answers /\ cam_upd_rsp' \in Seq(Answers)
  BY <1>0, ReadFifo
<1>2. u \in CamUpdRsp /\ u \in AnyUpd /\ (u.op = "INSERT" => u \in InsertRsps)
  BY <1>1 DEF Answers, IsAnswer, AnyUpd, InsertRsps
<1>3. insert_rsp' \in Seq(InsertRsps)
  BY <1>0, <1>2, WriteFifo
<1>4. cam_upd_rsp' \in Seq(CamUpdRsp) /\ insert_rsp' \in Seq(CamUpdRsp)
  <2>1. Answers \subseteq CamUpdRsp /\ InsertRsps \subseteq CamUpdRsp
    BY DEF Answers, InsertRsps
  <2> QED BY <1>1, <1>3, <2>1
<1>5. SlookupTypeOK'
  BY <1>0, <1>4 DEF SlookupTypeOK, freeVars, revVars
<1>6. /\ \A s : u \in OfId(s, "INSERT") <=> u.id = s /\ u.op = "INSERT"
      /\ u \in Of("INSERT") <=> u.op = "INSERT"
  BY <1>2, InOf
\* What is counted in the one FIFO is counted in the other afterwards.
<1>7. ASSUME NEW T, u \in T => u.op = "INSERT"
      PROVE  /\ CountIn(cam_upd_rsp', T) + CountIn(insert_rsp', T)
                  = CountIn(cam_upd_rsp, T) + CountIn(insert_rsp, T)
             /\ CountIn(cam_upd_rsp', T) \in Nat /\ CountIn(insert_rsp', T) \in Nat
             /\ CountIn(cam_upd_rsp, T) \in Nat /\ CountIn(insert_rsp, T) \in Nat
  <2>1. /\ CountIn(cam_upd_rsp, T) = IF u \in T THEN CountIn(cam_upd_rsp', T) + 1
                                     ELSE CountIn(cam_upd_rsp', T)
        /\ CountIn(cam_upd_rsp', T) \in Nat
    BY <1>0, CountTail
  <2>2. CountIn(insert_rsp, T) \in Nat /\ CountIn(insert_rsp', T) \in Nat
    BY <1>0, <1>3, CountFinite
  <2>3. u.op = "INSERT" => CountIn(insert_rsp', T) = IF u \in T THEN CountIn(insert_rsp, T) + 1
                                                     ELSE CountIn(insert_rsp, T)
    BY <1>0, <1>2, CountAppend
  <2>4. CountIn(insert_rsp', T) = IF u \in T THEN CountIn(insert_rsp, T) + 1
                                  ELSE CountIn(insert_rsp, T)
    BY <1>0, <1>7, <2>3
  <2> QED BY <2>1, <2>2, <2>4
<1>8. ASSUME NEW s \in Sessions PROVE OneOwner(s)' /\ InCam(s)'
  <2>1. /\ Answered(s) \in Nat /\ Received(s) \in Nat /\ ToEnter(s) \in Nat
        /\ Valid(s) \in Nat /\ ToDelete(s) \in Nat
    BY <1>0, Nats
  <2>2. /\ Answered(s)' + Received(s)' = Answered(s) + Received(s)
        /\ Answered(s)' \in Nat /\ Received(s)' \in Nat
    BY <1>6, <1>7 DEF Answered, Received
  <2>4. /\ Fresh(s)' = Fresh(s) /\ Free(s)' = Free(s) /\ Recycled(s)' = Recycled(s)
        /\ ToInsert(s)' = ToInsert(s) /\ Inserted(s)' = Inserted(s) /\ Deleted(s)' = Deleted(s)
        /\ ToEnter(s)' = ToEnter(s) /\ Valid(s)' = Valid(s) /\ ToDelete(s)' = ToDelete(s)
        /\ CamIds' = CamIds
    BY <1>0 DEF Fresh, Free, Recycled, ToInsert, Inserted, ToEnter, Valid, ToDelete,
                Deleted, CamIds, freeVars, revVars, CountIn
  <2>5. Held(s)' = Held(s)
    BY <2>1, <2>2, <2>4 DEF Held
  <2>6. OneOwner(s) /\ InCam(s)
    BY TokenFacts DEF IInv
  <2> QED BY <2>4, <2>5, <2>6 DEF OneOwner, InCam
<1>9. OneInsert'
  <2>1. /\ Inserts(cam_upd_rsp') + Inserts(insert_rsp') = Inserts(cam_upd_rsp) + Inserts(insert_rsp)
        /\ Inserts(cam_upd_rsp') \in Nat /\ Inserts(insert_rsp') \in Nat
    BY <1>6, <1>7 DEF Inserts
  <2>2. /\ Inserts(insert_req) \in Nat /\ Inserts(cam_upd) \in Nat
        /\ Inserts(cam_upd_rsp) \in Nat /\ Inserts(insert_rsp) \in Nat
        /\ Inserts(insert_req) + Inserts(cam_upd) + Inserts(cam_upd_rsp) + Inserts(insert_rsp)
             = IF slc.pc = "UPD_RSP" THEN 1 ELSE 0
    BY <1>0, InsertNats DEF IInv, CInv, Tokens, OneInsert
  <2>3. Inserts(insert_req) + Inserts(cam_upd) + Inserts(cam_upd_rsp') + Inserts(insert_rsp')
          = IF slc.pc = "UPD_RSP" THEN 1 ELSE 0
    BY <2>1, <2>2
  <2> QED BY <1>0, <2>3 DEF OneInsert, Inserts
<1>10. Injective' /\ InOrder' /\ Phase' /\ SessionCount'
  BY <1>0 DEF IInv, CInv, Injective, InOrder, Phase, SessionCount, OfKind, CamIds
<1>11. Linked'
  BY <1>0, <1>1, <1>3, LinkSame DEF IInv, CInv, Linked, revVars
<1> QED BY <1>5, <1>8, <1>9, <1>10, <1>11 DEF IInv, CInv, Tokens

\* The DELETEs under way are about different ids, all in the CAM.
LEMMA DeletesBound ==
  ASSUME cam \in [Tuples -> IdOrNone], Linked, \A s \in Sessions : Deleted(s) <= 1
  PROVE  OfKind("DELETE") <= Cardinality(CamIds)
<1> DEFINE B == {i \in DOMAIN cam_upd : cam_upd[i].op = "DELETE"}
           f == [i \in B |-> cam_upd[i].id]
<1>1. cam_upd \in Seq(Updating) /\ DOMAIN cam_upd = 1 .. Len(cam_upd) /\ Len(cam_upd) \in Nat
      /\ \A i \in 1 .. Len(cam_upd) : cam_upd[i] \in Updating
  BY InFifo DEF Linked
<1>2. ASSUME NEW i \in B
      PROVE  /\ cam_upd[i].id \in Sessions /\ cam_upd[i].id \in CamIds
             /\ cam_upd[i] \in OfId(cam_upd[i].id, "DELETE")
  <2>1. cam_upd[i] \in CamUpd /\ cam_upd[i].op = "DELETE" /\ IsDelete(cam_upd[i])
    BY <1>1 DEF Updating, IsInsert
  <2>2. PICK w \in CamUpd : w = cam_upd[i] /\ w.op = "DELETE" /\ cam[w.tuple] = w.id
    BY <2>1 DEF IsDelete
  <2>3. w.id \in Sessions /\ w.tuple \in Tuples /\ w \in OfId(w.id, "DELETE")
    BY <2>2 DEF CamUpd, OfId, AnyUpd
  <2>4. w.id \in CamIds
    BY <2>2, <2>3, Consts DEF CamIds
  <2> QED BY <2>2, <2>3, <2>4
<1>3. ASSUME NEW i \in B, NEW j \in B, cam_upd[i].id = cam_upd[j].id
      PROVE  i = j
  <2>1. PICK x \in Sessions : x = cam_upd[i].id
    BY <1>2
  <2>2. cam_upd[i] \in OfId(x, "DELETE") /\ cam_upd[j] \in OfId(x, "DELETE")
    BY <1>2, <1>3, <2>1
  <2>3. CountIn(cam_upd, OfId(x, "DELETE")) <= 1
    BY DEF Deleted
  <2>4. i \in 1 .. Len(cam_upd) /\ j \in 1 .. Len(cam_upd)
    BY <1>1
  <2> QED BY <1>1, <2>2, <2>3, <2>4, CountOnce
<1>4. CamIds \subseteq Sessions
  BY DEF CamIds, IdOrNone
<1>5. IsFiniteSet(CamIds)
  <2>1. 0 \in Int /\ MaxSessions - 1 \in Int
    BY Consts
  <2>2. IsFiniteSet(Sessions)
    BY <2>1, FS_Interval DEF Sessions
  <2> QED BY <1>4, <2>2, FS_Subset
<1> HIDE DEF B
<1>6. f \in Injection(B, CamIds)
  BY <1>2, <1>3 DEF Injection, IsInjective
<1>7. Cardinality(B) <= Cardinality(CamIds)
  BY <1>5, <1>6, FS_Injection
<1> QED BY <1>7 DEF OfKind, B

LEMMA SendDeleteStep ==
  ASSUME IInv, SendDelete
  PROVE  IInv'
<1> DEFINE u == Head(delete_req)
           x == u.id
<1>0. /\ SlookupTypeOK /\ delete_req # <<>> /\ delete_req \in Seq(DeleteReqs)
      /\ delete_req' = Tail(delete_req) /\ cam_upd \in Seq(Updating)
      /\ cam_upd' = Append(cam_upd, u) /\ used_session_id_cnt' = used_session_id_cnt - 1
      /\ used_session_id_cnt \in Nat /\ released \in Seq(Sessions)
      /\ released' = Append(released, x) /\ cam \in [Tuples -> IdOrNone]
      /\ UNCHANGED <<cur_session_id, available, fsmVars, cam, cam_upd_rsp, revVars, insert_req,
                     known, inputs>>
  BY DEF IInv, CInv, Linked, SlookupTypeOK, SendDelete
<1>1. u \in DeleteReqs /\ delete_req' \in Seq(DeleteReqs)
  BY <1>0, ReadFifo
<1>2. u \in CamUpd /\ u \in AnyUpd /\ u.op = "DELETE" /\ u \in Updating /\ x \in Sessions
  BY <1>1 DEF DeleteReqs, IsDelete, AnyUpd, Updating, CamUpd
<1> HIDE DEF x
<1>3. /\ cam_upd' \in Seq(Updating) /\ Len(cam_upd) \in Nat /\ Len(cam_upd') = Len(cam_upd) + 1
      /\ cam_upd'[Len(cam_upd) + 1] = u
      /\ \A i \in 1 .. Len(cam_upd) : cam_upd'[i] = cam_upd[i]
  BY <1>0, <1>2, WriteFifo
<1>4. /\ cam_upd' \in Seq(CamUpd) /\ delete_req' \in Seq(CamUpd) /\ released' \in Seq(Sessions)
  <2>1. Updating \subseteq CamUpd /\ DeleteReqs \subseteq CamUpd
    BY DEF Updating, DeleteReqs
  <2>2. released' \in Seq(Sessions)
    BY <1>0, <1>2, WriteFifo
  <2> QED BY <1>1, <1>3, <2>1, <2>2
<1>6. /\ \A s : u \in OfId(s, "DELETE") <=> x = s
      /\ \A s : u \notin OfId(s, "INSERT")
      /\ u \in Of("DELETE") /\ u \notin Of("INSERT")
  BY <1>2, InOf DEF x
<1>7. ASSUME NEW s \in Sessions PROVE OneOwner(s)' /\ InCam(s)' /\ Deleted(s)' <= 1
  <2>1. /\ Fresh(s) \in Nat /\ Free(s) \in Nat /\ Recycled(s) \in Nat /\ ToInsert(s) \in Nat
        /\ Inserted(s) \in Nat /\ Answered(s) \in Nat /\ Received(s) \in Nat
        /\ ToEnter(s) \in Nat /\ Valid(s) \in Nat /\ ToDelete(s) \in Nat /\ Deleted(s) \in Nat
    BY <1>0, Nats
  <2>2. /\ ToDelete(s) = IF x = s THEN ToDelete(s)' + 1 ELSE ToDelete(s)'
        /\ ToDelete(s)' \in Nat
    BY <1>0, <1>6, CountTail DEF ToDelete
  <2>3. Deleted(s)' = IF x = s THEN Deleted(s) + 1 ELSE Deleted(s)
    BY <1>0, <1>2, <1>6, CountAppend DEF Deleted
  <2>4. Inserted(s)' = Inserted(s)
    BY <1>0, <1>2, <1>6, CountAppend DEF Inserted
  <2>5. Recycled(s)' = IF x \in {s} THEN Recycled(s) + 1 ELSE Recycled(s)
    BY <1>0, <1>2, CountAppend DEF Recycled
  <2>6. /\ Fresh(s)' = Fresh(s) /\ Free(s)' = Free(s) /\ ToInsert(s)' = ToInsert(s)
        /\ Answered(s)' = Answered(s) /\ Received(s)' = Received(s) /\ ToEnter(s)' = ToEnter(s)
        /\ Valid(s)' = Valid(s) /\ CamIds' = CamIds
    BY <1>0 DEF Fresh, Free, ToInsert, Answered, Received, ToEnter, Valid, CamIds, fsmVars,
                revVars, CountIn
  <2>7. OneOwner(s) /\ InCam(s)
    BY TokenFacts DEF IInv
  <2>8. OneOwner(s)'
    BY <2>1, <2>2, <2>4, <2>5, <2>6, <2>7 DEF OneOwner, Held
  <2>9. InCam(s)' /\ Deleted(s)' <= 1
    BY <2>1, <2>2, <2>3, <2>6, <2>7 DEF InCam, Held
  <2> QED BY <2>8, <2>9
<1>8. OneInsert'
  <2>1. Inserts(cam_upd') = Inserts(cam_upd)
    BY <1>0, <1>2, <1>6, CountAppend DEF Inserts
  <2>2. /\ cam_upd_rsp' = cam_upd_rsp /\ insert_rsp' = insert_rsp /\ slc' = slc
        /\ insert_req' = insert_req
    BY <1>0 DEF fsmVars
  <2> QED BY <2>1, <2>2 DEF IInv, CInv, Tokens, OneInsert, Inserts
<1>9. Injective' /\ Phase'
  BY <1>0 DEF IInv, CInv, Injective, Phase, fsmVars
<1>10. InOrder'
  <2>1. ASSUME NEW i \in 1 .. Len(cam_upd), cam_upd[i].op = "INSERT" PROVE cam_upd[i].id # x
    <3> SUFFICES ASSUME cam_upd[i].id = x PROVE FALSE
      OBVIOUS
    <3>1. cam_upd[i] \in AnyUpd
      BY <1>0, InFifo DEF Updating, AnyUpd
    <3>2. PICK y \in Sessions : y = x
      BY <1>2
    <3>3. Inserted(y) # 0
      <4>1. cam_upd[i] \in OfId(y, "INSERT")
        BY <2>1, <3>1, <3>2, InOf
      <4> QED BY <1>0, <4>1, CountNone DEF Inserted
    <3>4. ToDelete(y) # 0
      <4>1. /\ ToDelete(y) = CountIn(Tail(delete_req), OfId(y, "DELETE")) + 1
            /\ CountIn(Tail(delete_req), OfId(y, "DELETE")) \in Nat
        BY <1>0, <1>6, <3>2, CountTail DEF ToDelete
      <4> QED BY <4>1
    <3>5. Inserted(y) \in Nat /\ Held(y) \in Nat /\ ToDelete(y) \in Nat
      BY <1>0, Nats
    <3>6. Inserted(y) + Held(y) <= 1 /\ ToDelete(y) <= Held(y)
      BY HeldOnce
    <3> QED BY <3>3, <3>4, <3>5, <3>6
  <2>2. \A i, j \in 1 .. Len(cam_upd') : i < j =>
          i \in 1 .. Len(cam_upd) /\ (j \in 1 .. Len(cam_upd) \/ j = Len(cam_upd) + 1)
    BY <1>3
  <2> QED BY <1>3, <2>1, <2>2 DEF InOrder, IInv, CInv, x
<1>11. Linked'
  BY <1>0, <1>1, <1>3, LinkSame DEF IInv, CInv, Linked, fsmVars, revVars
<1>12. OfKind("INSERT")' = OfKind("INSERT") /\ OfKind("DELETE")' = OfKind("DELETE") + 1
  <2>1. OfKind("INSERT")' = OfKind("INSERT")
    BY <1>0, <1>2, <1>4, <1>6, CountAppend, KindCount, KindNext, SMTT(30) DEF SlookupTypeOK
  <2>2. OfKind("DELETE")' = OfKind("DELETE") + 1
    BY <1>0, <1>2, <1>4, <1>6, CountAppend, KindCount, KindNext, SMTT(30) DEF SlookupTypeOK
  <2> QED BY <2>1, <2>2
<1>13. /\ OfKind("INSERT") \in Nat /\ OfKind("DELETE") \in Nat /\ Cardinality(CamIds) \in Nat
       /\ CamIds' = CamIds
       /\ used_session_id_cnt = Cardinality(CamIds) + OfKind("INSERT") - OfKind("DELETE")
  BY <1>0, KindNats DEF CamIds, IInv, CInv, SessionCount
<1>14. SessionCount'
  BY <1>0, <1>12, <1>13, SMTT(30) DEF SessionCount
<1>15. used_session_id_cnt' \in Nat
  <2>1. (cam \in [Tuples -> IdOrNone] /\ Linked /\ (\A s \in Sessions : Deleted(s) <= 1)
           => OfKind("DELETE") <= Cardinality(CamIds))'
    BY DeletesBound, PTL
  <2>2. OfKind("DELETE")' <= Cardinality(CamIds)
    BY <1>0, <1>7, <1>11, <1>13, <2>1
  <2>3. OfKind("DELETE") + 1 <= Cardinality(CamIds)
    BY <1>12, <2>2
  <2>4. used_session_id_cnt' = used_session_id_cnt - 1
    BY <1>0
  <2>5. used_session_id_cnt \in Nat /\ used_session_id_cnt >= 1
    BY <1>0, <1>13, <2>3
  <2> QED BY <2>4, <2>5
<1>16. SlookupTypeOK'
  BY <1>0, <1>4, <1>15 DEF SlookupTypeOK, fsmVars, revVars
<1> QED BY <1>7, <1>8, <1>9, <1>10, <1>11, <1>14, <1>16 DEF IInv, CInv, Tokens
-----------------------------------------------------------------------------
(* The CAM.                                                                 *)

\* The part of a CAM update that does not depend on its kind: the update leaves one FIFO
\* and its answer enters the other.
LEMMA UpdateMoves ==
  ASSUME IInv, CamUpdate
  PROVE  /\ Head(cam_upd) \in Updating /\ cam_upd' \in Seq(Updating) /\ Head(cam_upd) \in AnyUpd
         /\ Head(cam_upd).id \in Sessions /\ Head(cam_upd).tuple \in Tuples
         /\ \A T : /\ CountIn(cam_upd, T) = IF Head(cam_upd) \in T THEN CountIn(cam_upd', T) + 1
                                            ELSE CountIn(cam_upd', T)
                   /\ CountIn(cam_upd', T) \in Nat
         /\ InOrder'
         /\ \A j \in 1 .. Len(cam_upd') :
              Head(cam_upd).op = "INSERT" => cam_upd'[j].id # Head(cam_upd).id
<1>0. cam_upd \in Seq(Updating) /\ cam_upd # <<>> /\ cam_upd' = Tail(cam_upd)
  BY DEF IInv, CInv, Linked, CamUpdate
<1>1. /\ Head(cam_upd) \in Updating /\ cam_upd' \in Seq(Updating) /\ Head(cam_upd) = cam_upd[1]
      /\ Len(cam_upd') = Len(cam_upd) - 1 /\ Len(cam_upd) \in Nat /\ Len(cam_upd) > 0
      /\ \A i \in 1 .. Len(cam_upd) - 1 : cam_upd'[i] = cam_upd[i + 1]
  BY <1>0, ReadFifo
<1>2. /\ Head(cam_upd) \in AnyUpd /\ Head(cam_upd).id \in Sessions
      /\ Head(cam_upd).tuple \in Tuples
  BY <1>1 DEF Updating, AnyUpd, CamUpd
<1>3. \A T : /\ CountIn(cam_upd, T) = IF Head(cam_upd) \in T THEN CountIn(cam_upd', T) + 1
                                      ELSE CountIn(cam_upd', T)
             /\ CountIn(cam_upd', T) \in Nat
  BY <1>0, CountTail
<1>4. \A i \in 1 .. Len(cam_upd') : /\ i + 1 \in 1 .. Len(cam_upd) /\ i \in Nat /\ 1 < i + 1
                                    /\ cam_upd'[i] = cam_upd[i + 1]
  BY <1>1
<1>5. \A i, j \in 1 .. Len(cam_upd) :
        i < j /\ cam_upd[i].op = "INSERT" => cam_upd[j].id # cam_upd[i].id
  BY DEF IInv, CInv, InOrder
<1>6. InOrder'
  <2> SUFFICES ASSUME NEW i \in 1 .. Len(cam_upd'), NEW j \in 1 .. Len(cam_upd'), i < j,
                      cam_upd'[i].op = "INSERT"
               PROVE  cam_upd'[j].id # cam_upd'[i].id
    BY DEF InOrder
  <2>1. i + 1 < j + 1
    BY <1>4
  <2> QED BY <1>4, <1>5, <2>1
<1>7. 1 \in 1 .. Len(cam_upd)
  BY <1>1
<1>8. \A j \in 1 .. Len(cam_upd') :
        Head(cam_upd).op = "INSERT" => cam_upd'[j].id # Head(cam_upd).id
  BY <1>1, <1>4, <1>5, <1>7
<1> QED BY <1>1, <1>2, <1>3, <1>6, <1>8

LEMMA CamInsertStep ==
  ASSUME IInv, CamUpdate, Head(cam_upd).op = "INSERT"
  PROVE  IInv'
<1> DEFINE u == Head(cam_upd)
<1>0. /\ SlookupTypeOK /\ cam \in [Tuples -> IdOrNone] /\ cam_upd_rsp \in Seq(CamUpdRsp)
      /\ UNCHANGED <<freeVars, fsmVars, revVars, insert_req, delete_req, used_session_id_cnt,
                     known, inputs>>
  BY DEF IInv, SlookupTypeOK, CamUpdate
<1>1. /\ u \in Updating /\ cam_upd' \in Seq(Updating) /\ u \in AnyUpd /\ InOrder'
      /\ \A T : /\ CountIn(cam_upd, T) = IF u \in T THEN CountIn(cam_upd', T) + 1
                                         ELSE CountIn(cam_upd', T)
                /\ CountIn(cam_upd', T) \in Nat
      /\ \A j \in 1 .. Len(cam_upd') : cam_upd'[j].id # u.id
  BY UpdateMoves
<1>2. PICK t \in Tuples, x \in Sessions : t = u.tuple /\ x = u.id
  BY UpdateMoves
<1>3. u \in CamUpd /\ slc.pc = "UPD_RSP" /\ t = slc.req.tuple /\ cam[t] = None
  BY <1>1, <1>2 DEF Updating, IsInsert, IsDelete
<1>4. PICK b \in BOOLEAN : b = ((u.op = "INSERT") <=> (cam[u.tuple] = None))
  OBVIOUS
<1>a. b = TRUE
  BY <1>2, <1>3, <1>4, Zenon
<1>5. PICK rsp : rsp = [op |-> u.op, id |-> x, source |-> u.source, success |-> b]
  OBVIOUS
<1>6. cam_upd_rsp' = Append(cam_upd_rsp, rsp) /\ cam' = [cam EXCEPT ![t] = x]
  BY <1>2, <1>3, <1>4, <1>a, <1>5 DEF CamUpdate
<1>7. /\ rsp \in CamUpdRsp /\ rsp \in AnyUpd /\ rsp.op = "INSERT" /\ rsp.id = x
      /\ rsp.success = b
  BY <1>3, <1>5 DEF CamUpdRsp, CamUpd, AnyUpd
<1>8. cam' \in [Tuples -> IdOrNone] /\ cam'[t] = x /\ \A v \in Tuples : v # t => cam'[v] = cam[v]
  BY <1>0, <1>6 DEF IdOrNone
<1>9. cam_upd_rsp' \in Seq(CamUpdRsp) /\ cam_upd' \in Seq(CamUpd)
  <2>1. Updating \subseteq CamUpd
    BY DEF Updating
  <2>2. cam_upd_rsp' \in Seq(CamUpdRsp)
    BY <1>0, <1>6, <1>7, WriteFifo
  <2> QED BY <1>1, <2>1, <2>2
<1>10. SlookupTypeOK'
  BY <1>0, <1>8, <1>9 DEF SlookupTypeOK, freeVars, fsmVars, revVars
<1>11. /\ \A s : u \in OfId(s, "INSERT") <=> x = s
       /\ \A s : u \notin OfId(s, "DELETE")
       /\ \A s : rsp \in OfId(s, "INSERT") <=> x = s
       /\ u \in Of("INSERT") /\ u \notin Of("DELETE") /\ rsp \in Of("INSERT")
  BY <1>1, <1>2, <1>7, InOf
\* The id is new to the CAM: the DELETE it was recycled with has been done.
<1>12. Held(x) = 0 /\ Deleted(x) = 0 /\ x \notin CamIds
  <2>1. Inserted(x) \in Nat /\ Held(x) \in Nat
    BY <1>0, Nats
  <2>2. Inserted(x) # 0
    <3>1. Inserted(x) = CountIn(cam_upd', OfId(x, "INSERT")) + 1
          /\ CountIn(cam_upd', OfId(x, "INSERT")) \in Nat
      BY <1>1, <1>11 DEF Inserted
    <3> QED BY <3>1
  <2>3. Inserted(x) + Held(x) <= 1
    BY HeldOnce
  <2>4. Held(x) = 0
    BY <2>1, <2>2, <2>3
  <2>5. \A j \in 1 .. Len(cam_upd') : cam_upd'[j] \notin OfId(x, "DELETE")
    BY <1>1, <1>2 DEF OfId
  <2>6. CountIn(cam_upd', OfId(x, "DELETE")) = 0
    BY <1>1, <2>5, CountNone
  <2>7. Deleted(x) = 0
    BY <1>1, <1>11, <2>6 DEF Deleted
  <2>8. InCam(x)
    BY TokenFacts DEF IInv
  <2> QED BY <2>4, <2>7, <2>8 DEF InCam
<1>13. CamIds' = CamIds \cup {x}
  <2>1. \A y \in CamIds : y \in CamIds'
    <3> TAKE y \in CamIds
    <3>1. PICK v \in Tuples : cam[v] = y /\ y # None
      BY DEF CamIds
    <3>2. v # t
      BY <1>3, <3>1
    <3> QED BY <1>8, <3>1, <3>2 DEF CamIds
  <2>2. x \in CamIds'
    BY <1>8, Consts DEF CamIds
  <2>3. \A y \in CamIds' : y \in CamIds \/ y = x
    <3> TAKE y \in CamIds'
    <3>1. PICK v \in Tuples : cam'[v] = y /\ y # None
      BY DEF CamIds
    <3> QED BY <1>8, <3>1 DEF CamIds
  <2> QED BY <2>1, <2>2, <2>3
<1>14. ASSUME NEW s \in Sessions PROVE OneOwner(s)' /\ InCam(s)'
  <2>1. /\ Fresh(s) \in Nat /\ Free(s) \in Nat /\ Recycled(s) \in Nat /\ ToInsert(s) \in Nat
        /\ Inserted(s) \in Nat /\ Answered(s) \in Nat /\ Received(s) \in Nat
        /\ ToEnter(s) \in Nat /\ Valid(s) \in Nat /\ ToDelete(s) \in Nat /\ Deleted(s) \in Nat
    BY <1>0, Nats
  <2>2. /\ Inserted(s) = IF x = s THEN Inserted(s)' + 1 ELSE Inserted(s)'
        /\ Inserted(s)' \in Nat
    BY <1>1, <1>11 DEF Inserted
  <2>3. Deleted(s)' = Deleted(s)
    BY <1>1, <1>11 DEF Deleted
  <2>4. Answered(s)' = IF x = s THEN Answered(s) + 1 ELSE Answered(s)
    BY <1>0, <1>6, <1>7, <1>11, CountAppend DEF Answered
  <2>5. /\ Fresh(s)' = Fresh(s) /\ Free(s)' = Free(s) /\ Recycled(s)' = Recycled(s)
        /\ ToInsert(s)' = ToInsert(s) /\ Received(s)' = Received(s)
        /\ ToEnter(s)' = ToEnter(s) /\ Valid(s)' = Valid(s) /\ ToDelete(s)' = ToDelete(s)
    BY <1>0 DEF Fresh, Free, Recycled, ToInsert, Received, ToEnter, Valid, ToDelete,
                freeVars, fsmVars, revVars, CountIn
  <2>6. OneOwner(s) /\ InCam(s)
    BY TokenFacts DEF IInv
  <2>7. Held(s)' = IF x = s THEN Held(s) + 1 ELSE Held(s)
    BY <2>1, <2>4, <2>5 DEF Held
  <2>8. Held(s) \in Nat
    BY <1>0, Nats
  <2>9. OneOwner(s)'
    BY <2>1, <2>2, <2>5, <2>6, <2>7, <2>8 DEF OneOwner
  <2>10. InCam(s)'
    <3>1. CASE x = s
      <4>1. s \in CamIds' /\ Held(s) = 0 /\ Deleted(s) = 0
        BY <1>12, <1>13, <3>1
      <4> QED BY <2>3, <2>7, <3>1, <4>1 DEF InCam
    <3>2. CASE x # s
      BY <1>13, <2>3, <2>6, <2>7, <3>2 DEF InCam
    <3> QED BY <3>1, <3>2
  <2> QED BY <2>9, <2>10
<1>15. /\ Inserts(insert_req) = 0 /\ Inserts(cam_upd') = 0 /\ Inserts(cam_upd_rsp) = 0
       /\ Inserts(insert_rsp) = 0 /\ Inserts(cam_upd_rsp') = 1
  <2>1. /\ Inserts(insert_req) \in Nat /\ Inserts(insert_rsp) \in Nat
        /\ Inserts(cam_upd_rsp) \in Nat
    BY <1>0, InsertNats
  <2>2. Inserts(insert_req) + Inserts(cam_upd) + Inserts(cam_upd_rsp) + Inserts(insert_rsp) = 1
    BY <1>3 DEF IInv, CInv, Tokens, OneInsert
  <2>3. Inserts(cam_upd) = Inserts(cam_upd') + 1 /\ Inserts(cam_upd') \in Nat
    BY <1>1, <1>11 DEF Inserts
  <2>4. Inserts(cam_upd_rsp') = Inserts(cam_upd_rsp) + 1
    BY <1>0, <1>6, <1>7, <1>11, CountAppend DEF Inserts
  <2> QED BY <2>1, <2>2, <2>3, <2>4
<1>16. OneInsert'
  <2>1. insert_req' = insert_req /\ insert_rsp' = insert_rsp /\ slc' = slc
    BY <1>0 DEF fsmVars
  <2> QED BY <1>3, <1>15, <2>1 DEF OneInsert, Inserts
<1>17. Injective'
  <2> SUFFICES ASSUME NEW v \in Tuples, NEW w \in Tuples, cam'[v] = cam'[w], cam'[v] # None
               PROVE  v = w
    BY DEF Injective
  <2>1. \A y \in Tuples : y # t => cam'[y] # x
    BY <1>8, <1>12, Consts DEF CamIds
  <2> QED BY <1>8, <2>1 DEF IInv, CInv, Injective
<1>18. Linked'
  <2>1. /\ insert_req \in Seq({}) /\ insert_rsp \in Seq({})
        /\ cam_upd' \in Seq(DeleteReqs) /\ cam_upd_rsp \in Seq(Deletions)
    BY <1>1, <1>15, QuietReq, QuietUpd, QuietAns, QuietRsp DEF IInv, CInv, Linked
  <2>2. DeleteReqs \subseteq DeleteReqs' /\ RevInserts \subseteq RevInserts'
    <3>1. \A w \in CamUpd : cam[w.tuple] = w.id => cam'[w.tuple] = w.id
      BY <1>3, <1>8, Consts DEF CamUpd
    <3>2. \A e \in RevReq : cam[e.entry.tuple] = e.id => cam'[e.entry.tuple] = e.id
      <4> SUFFICES ASSUME NEW e \in RevReq, cam[e.entry.tuple] = e.id
                   PROVE  cam'[e.entry.tuple] = e.id
        OBVIOUS
      <4>1. e.id \in Sessions /\ e.entry \in RevEntry
        BY DEF RevReq
      <4>2. e.entry.tuple \in Tuples
        BY <4>1 DEF RevEntry
      <4> QED BY <1>3, <1>8, <4>1, <4>2, Consts
    <3> QED BY <3>1, <3>2 DEF DeleteReqs, IsDelete, RevInserts
  <2>3. /\ delete_req' \in Seq(DeleteReqs') /\ rev_insert' \in Seq(RevInserts')
        /\ cam_upd' \in Seq(DeleteReqs')
    <3>1. delete_req' = delete_req /\ rev_insert' = rev_insert
      BY <1>0 DEF fsmVars
    <3>2. delete_req \in Seq(DeleteReqs) /\ rev_insert \in Seq(RevInserts)
      BY DEF IInv, CInv, Linked
    <3> QED BY <2>1, <2>2, <3>1, <3>2
  <2>4. cam_upd_rsp' \in Seq(Answers')
    <3>1. cam_upd_rsp \in Seq(Answers')
      BY <2>1, QuietNext
    <3>2. rsp \in Answers'
      <4>1. slc' = slc
        BY <1>0 DEF fsmVars
      <4> QED BY <1>3, <1>a, <1>7, <1>8, <4>1 DEF Answers, IsAnswer
    <3> QED BY <1>6, <3>1, <3>2, WriteFifo
  <2>5. \A s \in Sessions : valid_tuple[s] =>
          slookup_rev_table[s] \in RevEntry /\ cam'[slookup_rev_table[s].tuple] = s
    <3> SUFFICES ASSUME NEW s \in Sessions, valid_tuple[s]
                 PROVE  slookup_rev_table[s] \in RevEntry /\ cam'[slookup_rev_table[s].tuple] = s
      OBVIOUS
    <3>1. slookup_rev_table[s] \in RevEntry /\ cam[slookup_rev_table[s].tuple] = s
      BY DEF IInv, CInv, Linked
    <3>2. slookup_rev_table[s].tuple \in Tuples
      BY <3>1 DEF RevEntry
    <3> QED BY <1>3, <1>8, <3>1, <3>2, Consts
  <2>6. insert_req' = insert_req /\ insert_rsp' = insert_rsp /\ valid_tuple' = valid_tuple
        /\ slookup_rev_table' = slookup_rev_table
    BY <1>0 DEF fsmVars, revVars
  <2> QED BY <2>1, <2>3, <2>4, <2>5, <2>6, QuietNext DEF Linked
<1>19. Phase'
  BY <1>0, <1>3 DEF IInv, CInv, Phase, fsmVars
<1>20. SessionCount'
  <2>1. cam_upd \in Seq(CamUpd)
    BY <1>0 DEF SlookupTypeOK
  <2>2. /\ OfKind("INSERT") = OfKind("INSERT")' + 1 /\ OfKind("DELETE") = OfKind("DELETE")'
        /\ OfKind("INSERT")' \in Nat /\ OfKind("DELETE")' \in Nat
    BY <1>1, <1>9, <1>11, <2>1, KindCount, KindNext
  <2>3. IsFiniteSet(CamIds) /\ Cardinality(CamIds) \in Nat
    BY <1>0, KindNats
  <2>4. Cardinality(CamIds') = Cardinality(CamIds) + 1
    BY <1>12, <1>13, <2>3, FS_AddElement
  <2>5. used_session_id_cnt = Cardinality(CamIds) + OfKind("INSERT") - OfKind("DELETE")
    BY DEF IInv, CInv, SessionCount
  <2>6. used_session_id_cnt = Cardinality(CamIds') + OfKind("INSERT")' - OfKind("DELETE")'
    BY <2>2, <2>3, <2>4, <2>5
  <2> QED BY <1>0, <2>6 DEF SessionCount
<1> QED BY <1>1, <1>10, <1>14, <1>16, <1>17, <1>18, <1>19, <1>20 DEF IInv, CInv, Tokens

LEMMA CamDeleteStep ==
  ASSUME IInv, CamUpdate, Head(cam_upd).op # "INSERT"
  PROVE  IInv'
<1> DEFINE u == Head(cam_upd)
<1>0. /\ SlookupTypeOK /\ cam \in [Tuples -> IdOrNone] /\ cam_upd_rsp \in Seq(CamUpdRsp)
      /\ UNCHANGED <<freeVars, fsmVars, revVars, insert_req, delete_req, used_session_id_cnt,
                     known, inputs>>
      /\ slc' = slc /\ insert_req' = insert_req /\ insert_rsp' = insert_rsp
      /\ rev_insert' = rev_insert /\ delete_req' = delete_req /\ valid_tuple' = valid_tuple
      /\ slookup_rev_table' = slookup_rev_table /\ cam_lup' = cam_lup
      /\ cam_lup_rsp' = cam_lup_rsp
  BY DEF IInv, SlookupTypeOK, CamUpdate, fsmVars, revVars
<1>1. /\ u \in Updating /\ cam_upd' \in Seq(Updating) /\ u \in AnyUpd /\ InOrder'
      /\ \A T : /\ CountIn(cam_upd, T) = IF u \in T THEN CountIn(cam_upd', T) + 1
                                         ELSE CountIn(cam_upd', T)
                /\ CountIn(cam_upd', T) \in Nat
  BY UpdateMoves
<1>2. PICK t \in Tuples, x \in Sessions : t = u.tuple /\ x = u.id
  BY UpdateMoves
<1>3. u \in CamUpd /\ u.op = "DELETE" /\ cam[t] = x /\ cam[t] # None
  BY <1>1, <1>2, Consts DEF Updating, IsInsert, IsDelete
<1>4. PICK b \in BOOLEAN : b = ((u.op = "INSERT") <=> (cam[u.tuple] = None))
  OBVIOUS
<1>a. b = TRUE
  BY <1>2, <1>3, <1>4, Zenon
<1>5. PICK rsp : rsp = [op |-> u.op, id |-> x, source |-> u.source, success |-> b]
  OBVIOUS
<1>6. cam_upd_rsp' = Append(cam_upd_rsp, rsp) /\ cam' = [cam EXCEPT ![t] = None]
  BY <1>2, <1>3, <1>4, <1>a, <1>5 DEF CamUpdate
<1>7. /\ rsp \in CamUpdRsp /\ rsp \in AnyUpd /\ rsp.op = "DELETE" /\ rsp.success = b
  BY <1>3, <1>5 DEF CamUpdRsp, CamUpd, AnyUpd
<1>8. /\ cam' \in [Tuples -> IdOrNone] /\ cam'[t] = None
      /\ \A v \in Tuples : v # t => cam'[v] = cam[v]
  BY <1>0, <1>6 DEF IdOrNone
<1>9. cam_upd_rsp' \in Seq(CamUpdRsp) /\ cam_upd' \in Seq(CamUpd)
  <2>1. Updating \subseteq CamUpd
    BY DEF Updating
  <2>2. cam_upd_rsp' \in Seq(CamUpdRsp)
    BY <1>0, <1>6, <1>7, WriteFifo
  <2> QED BY <1>1, <2>1, <2>2
<1>10. SlookupTypeOK'
  BY <1>0, <1>8, <1>9 DEF SlookupTypeOK, freeVars, fsmVars, revVars
<1>11. /\ \A s : u \in OfId(s, "DELETE") <=> x = s
       /\ \A s : u \notin OfId(s, "INSERT")
       /\ \A s : rsp \notin OfId(s, "INSERT")
       /\ u \in Of("DELETE") /\ u \notin Of("INSERT") /\ rsp \notin Of("INSERT")
  BY <1>1, <1>2, <1>3, <1>7, InOf
\* This DELETE is all that is left of the id in the CAM.
<1>12. /\ Answered(x) = 0 /\ Received(x) = 0 /\ ToEnter(x) = 0 /\ Valid(x) = 0
       /\ ToDelete(x) = 0 /\ CountIn(cam_upd', OfId(x, "DELETE")) = 0 /\ Held(x) = 0
       /\ Deleted(x) = 1
  <2>1. Deleted(x) \in Nat /\ Held(x) \in Nat
    BY <1>0, Nats
  <2>2. Deleted(x) = CountIn(cam_upd', OfId(x, "DELETE")) + 1
        /\ CountIn(cam_upd', OfId(x, "DELETE")) \in Nat
    BY <1>1, <1>11 DEF Deleted
  <2>3. Held(x) + Deleted(x) <= 1
    BY HeldOnce
  <2>4. Held(x) = 0 /\ CountIn(cam_upd', OfId(x, "DELETE")) = 0 /\ Deleted(x) = 1
    BY <2>1, <2>2, <2>3
  <2> QED BY <2>4, HeldOnce
<1>13. CamIds' = CamIds \ {x}
  <2>1. \A v \in Tuples : cam[v] = x => v = t
    BY <1>3 DEF IInv, CInv, Injective
  <2>2. \A y \in CamIds \ {x} : y \in CamIds'
    <3> TAKE y \in CamIds \ {x}
    <3>1. PICK v \in Tuples : cam[v] = y /\ y # None
      BY DEF CamIds
    <3>2. v # t
      BY <1>3, <3>1
    <3> QED BY <1>8, <3>1, <3>2 DEF CamIds
  <2>3. \A y \in CamIds' : y \in CamIds \ {x}
    <3> TAKE y \in CamIds'
    <3>1. PICK v \in Tuples : cam'[v] = y /\ y # None
      BY DEF CamIds
    <3>2. v # t /\ cam[v] = y
      BY <1>8, <3>1
    <3> QED BY <2>1, <3>1, <3>2 DEF CamIds
  <2> QED BY <2>2, <2>3
<1>14. ASSUME NEW s \in Sessions PROVE OneOwner(s)' /\ InCam(s)'
  <2>1. Deleted(s) \in Nat /\ Held(s) \in Nat
    BY <1>0, Nats
  <2>2. /\ Deleted(s) = IF x = s THEN Deleted(s)' + 1 ELSE Deleted(s)'
        /\ Deleted(s)' \in Nat
    BY <1>1, <1>11 DEF Deleted
  <2>3. Inserted(s)' = Inserted(s)
    BY <1>1, <1>11 DEF Inserted
  <2>4. Answered(s)' = Answered(s)
    BY <1>0, <1>6, <1>7, <1>11, CountAppend DEF Answered
  <2>5. /\ Fresh(s)' = Fresh(s) /\ Free(s)' = Free(s) /\ Recycled(s)' = Recycled(s)
        /\ ToInsert(s)' = ToInsert(s) /\ Received(s)' = Received(s)
        /\ ToEnter(s)' = ToEnter(s) /\ Valid(s)' = Valid(s) /\ ToDelete(s)' = ToDelete(s)
    BY <1>0 DEF Fresh, Free, Recycled, ToInsert, Received, ToEnter, Valid, ToDelete,
                freeVars, CountIn
  <2>6. OneOwner(s) /\ InCam(s)
    BY TokenFacts DEF IInv
  <2>7. Held(s)' = Held(s)
    BY <2>4, <2>5 DEF Held
  <2>8. OneOwner(s)'
    BY <2>3, <2>5, <2>6, <2>7 DEF OneOwner
  <2>9. InCam(s)'
    <3>1. CASE x = s
      <4>1. s \notin CamIds' /\ Held(s) = 0 /\ Deleted(s) = 1
        BY <1>12, <1>13, <3>1
      <4>2. Deleted(s)' = 0
        BY <2>2, <3>1, <4>1
      <4> QED BY <2>7, <4>1, <4>2 DEF InCam
    <3>2. CASE x # s
      BY <1>13, <2>2, <2>6, <2>7, <3>2 DEF InCam
    <3> QED BY <3>1, <3>2
  <2> QED BY <2>8, <2>9
<1>15. OneInsert'
  <2>1. Inserts(cam_upd) = Inserts(cam_upd')
    BY <1>1, <1>11 DEF Inserts
  <2>2. Inserts(cam_upd_rsp') = Inserts(cam_upd_rsp)
    BY <1>0, <1>6, <1>7, <1>11, CountAppend DEF Inserts
  <2> QED BY <1>0, <2>1, <2>2 DEF IInv, CInv, Tokens, OneInsert, Inserts
<1>16. Injective'
  BY <1>8 DEF IInv, CInv, Injective
\* Whatever else is under way is about another id, and so about another tuple.
<1>17. \A v \in Tuples : cam[v] # x => cam'[v] = cam[v]
  BY <1>3, <1>8
<1>18. Linked'
  <2>1. insert_req \in Seq(InsertReqs')
    <3>1. insert_req \in Seq(InsertReqs)
      BY DEF IInv, CInv, Linked
    <3>2. ASSUME NEW w \in InsertReqs PROVE w \in InsertReqs'
      <4>1. w \in CamUpd /\ IsInsert(w) /\ w.tuple \in Tuples
        BY DEF InsertReqs, CamUpd
      <4>2. cam'[w.tuple] = None
        BY <1>8, <4>1 DEF IsInsert
      <4> QED BY <1>0, <4>1, <4>2 DEF InsertReqs, IsInsert
    <3> QED BY <3>1, <3>2
  <2>2. delete_req \in Seq(DeleteReqs')
    <3>1. delete_req \in Seq(DeleteReqs)
      BY DEF IInv, CInv, Linked
    <3>2. \A i \in 1 .. Len(delete_req) :
            delete_req[i] \in DeleteReqs /\ delete_req[i] \notin OfId(x, "DELETE")
      BY <1>12, <3>1, CountNone, InFifo DEF ToDelete
    <3>3. ASSUME NEW w \in DeleteReqs, w \notin OfId(x, "DELETE") PROVE w \in DeleteReqs'
      <4>1. w \in CamUpd /\ w.op = "DELETE" /\ cam[w.tuple] = w.id /\ w.tuple \in Tuples
            /\ w.id # x
        BY <3>3 DEF DeleteReqs, IsDelete, CamUpd, OfId, AnyUpd
      <4>2. cam'[w.tuple] = w.id
        BY <1>17, <4>1
      <4> QED BY <4>1, <4>2 DEF DeleteReqs, IsDelete
    <3>4. \A i \in 1 .. Len(delete_req) : delete_req[i] \in DeleteReqs'
      BY <3>2, <3>3
    <3> QED BY <3>1, <3>4, Retype
  <2>3. cam_upd' \in Seq(Updating')
    <3>1. \A i \in 1 .. Len(cam_upd') :
            cam_upd'[i] \in Updating /\ cam_upd'[i] \notin OfId(x, "DELETE")
      BY <1>1, <1>12, CountNone, InFifo
    <3>2. ASSUME NEW w \in Updating, w \notin OfId(x, "DELETE") PROVE w \in Updating'
      <4>1. w \in CamUpd /\ w.tuple \in Tuples /\ (IsInsert(w) \/ IsDelete(w))
        BY DEF Updating, CamUpd
      <4>2. CASE IsInsert(w)
        <5>1. cam'[w.tuple] = None
          BY <1>8, <4>1, <4>2 DEF IsInsert
        <5> QED BY <1>0, <4>1, <4>2, <5>1 DEF Updating, IsInsert
      <4>3. CASE IsDelete(w)
        <5>1. w.op = "DELETE" /\ cam[w.tuple] = w.id /\ w.id # x
          BY <3>2, <4>1, <4>3 DEF IsDelete, OfId, AnyUpd
        <5>2. cam'[w.tuple] = w.id
          BY <1>17, <4>1, <5>1
        <5> QED BY <4>1, <5>1, <5>2 DEF Updating, IsDelete
      <4> QED BY <4>1, <4>2, <4>3
    <3>3. \A i \in 1 .. Len(cam_upd') : cam_upd'[i] \in Updating'
      BY <3>1, <3>2
    <3> QED BY <1>1, <3>3, Retype
  <2>4. ASSUME NEW w \in CamUpdRsp, IsAnswer(w), w \notin OfId(x, "INSERT"), slc.req.tuple \in Tuples
        PROVE  IsAnswer(w)'
    <3>1. w.op = "INSERT" /\ cam[slc.req.tuple] = w.id /\ w.id # x
      BY <2>4 DEF IsAnswer, OfId, AnyUpd
    <3>2. cam'[slc.req.tuple] = w.id
      BY <1>17, <2>4, <3>1
    <3> QED BY <1>0, <2>4, <3>2 DEF IsAnswer
  <2>5. slc.pc = "UPD_RSP" => slc.req.tuple \in Tuples
    BY DEF IInv, CInv, Phase, LookupReq
  <2>6. cam_upd_rsp' \in Seq(Answers')
    <3>1. cam_upd_rsp \in Seq(Answers)
      BY DEF IInv, CInv, Linked
    <3>2. \A i \in 1 .. Len(cam_upd_rsp) :
            cam_upd_rsp[i] \in Answers /\ cam_upd_rsp[i] \notin OfId(x, "INSERT")
      BY <1>12, <3>1, CountNone, InFifo DEF Answered
    <3>3. ASSUME NEW w \in Answers, w \notin OfId(x, "INSERT") PROVE w \in Answers'
      <4>1. w \in CamUpdRsp /\ (IsAnswer(w) \/ (w.op = "DELETE" /\ w.success))
        BY DEF Answers
      <4>2. IsAnswer(w) => slc.req.tuple \in Tuples
        BY <2>5 DEF IsAnswer
      <4>3. IsAnswer(w) => IsAnswer(w)'
        BY <2>4, <3>3, <4>1, <4>2
      <4> QED BY <4>1, <4>3 DEF Answers
    <3>4. \A i \in 1 .. Len(cam_upd_rsp) : cam_upd_rsp[i] \in Answers'
      BY <3>2, <3>3
    <3>5. cam_upd_rsp \in Seq(Answers')
      BY <3>1, <3>4, Retype
    <3>6. rsp \in Answers'
      BY <1>a, <1>7 DEF Answers
    <3> QED BY <1>6, <3>5, <3>6, WriteFifo
  <2>7. insert_rsp \in Seq(InsertRsps')
    <3>1. insert_rsp \in Seq(InsertRsps)
      BY DEF IInv, CInv, Linked
    <3>2. \A i \in 1 .. Len(insert_rsp) :
            insert_rsp[i] \in InsertRsps /\ insert_rsp[i] \notin OfId(x, "INSERT")
      BY <1>12, <3>1, CountNone, InFifo DEF Received
    <3>3. ASSUME NEW w \in InsertRsps, w \notin OfId(x, "INSERT") PROVE w \in InsertRsps'
      <4>1. w \in CamUpdRsp /\ IsAnswer(w)
        BY DEF InsertRsps
      <4>2. slc.req.tuple \in Tuples
        BY <2>5, <4>1 DEF IsAnswer
      <4> QED BY <2>4, <3>3, <4>1, <4>2 DEF InsertRsps
    <3>4. \A i \in 1 .. Len(insert_rsp) : insert_rsp[i] \in InsertRsps'
      BY <3>2, <3>3
    <3> QED BY <3>1, <3>4, Retype
  <2>8. rev_insert \in Seq(RevInserts')
    <3>1. rev_insert \in Seq(RevInserts)
      BY DEF IInv, CInv, Linked
    <3>2. \A i \in 1 .. Len(rev_insert) :
            rev_insert[i] \in RevInserts /\ rev_insert[i] \notin RevOf(x)
      BY <1>12, <3>1, CountNone, InFifo DEF ToEnter
    <3>3. ASSUME NEW e \in RevInserts, e \notin RevOf(x) PROVE e \in RevInserts'
      <4>1. e \in RevReq /\ cam[e.entry.tuple] = e.id /\ e.id # x
        BY <3>3 DEF RevInserts, RevOf
      <4>2. e.entry \in RevEntry
        BY <4>1 DEF RevReq
      <4>3. e.entry.tuple \in Tuples
        BY <4>2 DEF RevEntry
      <4>4. cam'[e.entry.tuple] = e.id
        BY <1>17, <4>1, <4>3
      <4> QED BY <4>1, <4>4 DEF RevInserts
    <3>4. \A i \in 1 .. Len(rev_insert) : rev_insert[i] \in RevInserts'
      BY <3>2, <3>3
    <3> QED BY <3>1, <3>4, Retype
  <2>9. ASSUME NEW s \in Sessions, valid_tuple[s]
        PROVE  slookup_rev_table[s] \in RevEntry /\ cam'[slookup_rev_table[s].tuple] = s
    <3>1. slookup_rev_table[s] \in RevEntry /\ cam[slookup_rev_table[s].tuple] = s
      BY <2>9 DEF IInv, CInv, Linked
    <3>2. slookup_rev_table[s].tuple \in Tuples
      BY <3>1 DEF RevEntry
    <3>3. s # x
      BY <1>12, <2>9 DEF Valid
    <3> QED BY <1>17, <3>1, <3>2, <3>3
  <2> QED BY <1>0, <2>1, <2>2, <2>3, <2>6, <2>7, <2>8, <2>9 DEF Linked
<1>19. Phase'
  <2>1. slc.pc = "LUP_RSP" /\ cam[slc.req.tuple] = None => cam'[slc.req.tuple] = None
    <3>1. slc.pc = "LUP_RSP" => slc.req.tuple \in Tuples
      BY DEF IInv, CInv, Phase, LookupReq
    <3> QED BY <1>8, <3>1
  <2> QED BY <1>0, <2>1 DEF IInv, CInv, Phase
<1>20. SessionCount'
  <2>1. cam_upd \in Seq(CamUpd)
    BY <1>0 DEF SlookupTypeOK
  <2>2. /\ OfKind("INSERT") = OfKind("INSERT")' /\ OfKind("DELETE") = OfKind("DELETE")' + 1
        /\ OfKind("INSERT")' \in Nat /\ OfKind("DELETE")' \in Nat
    BY <1>1, <1>9, <1>11, <2>1, KindCount, KindNext
  <2>3. IsFiniteSet(CamIds) /\ Cardinality(CamIds) \in Nat /\ x \in CamIds
    BY <1>0, <1>3, KindNats DEF CamIds
  <2>4. Cardinality(CamIds') = Cardinality(CamIds) - 1
    BY <1>13, <2>3, FS_RemoveElement
  <2>5. used_session_id_cnt = Cardinality(CamIds) + OfKind("INSERT") - OfKind("DELETE")
    BY DEF IInv, CInv, SessionCount
  <2>6. used_session_id_cnt = Cardinality(CamIds') + OfKind("INSERT")' - OfKind("DELETE")'
    BY <2>2, <2>3, <2>4, <2>5
  <2> QED BY <1>0, <2>6 DEF SessionCount
<1> QED BY <1>1, <1>10, <1>14, <1>15, <1>16, <1>18, <1>19, <1>20 DEF IInv, CInv, Tokens
-----------------------------------------------------------------------------
(* The reverse table.                                                       *)

LEMMA RevInsertStep ==
  ASSUME IInv, RevInsert
  PROVE  IInv'
<1> DEFINE e == Head(rev_insert)
<1>0. /\ SlookupTypeOK /\ rev_insert \in Seq(RevInserts) /\ rev_insert # <<>>
      /\ rev_insert' = Tail(rev_insert)
      /\ slookup_rev_table \in [Sessions -> RevEntry \cup {None}]
      /\ slookup_rev_table' = [slookup_rev_table EXCEPT ![e.id] = e.entry]
      /\ valid_tuple \in [Sessions -> BOOLEAN]
      /\ valid_tuple' = [valid_tuple EXCEPT ![e.id] = TRUE]
      /\ UNCHANGED <<freeVars, slc, lup_req, lup_rsp, cam_lup, cam_lup_rsp, insert_rsp, camVars,
                     rev_req, rev_rsp, release_req, port_release, insert_req, delete_req,
                     used_session_id_cnt, known, inputs>>
  BY DEF IInv, CInv, Linked, SlookupTypeOK, RevInsert
<1>1. e \in RevInserts /\ rev_insert' \in Seq(RevInserts)
  BY <1>0, ReadFifo
<1>2. e \in RevReq /\ cam[e.entry.tuple] = e.id
  BY <1>1 DEF RevInserts
<1>3. PICK x \in Sessions : x = e.id
  BY <1>2 DEF RevReq
<1>4. e.entry \in RevEntry
  BY <1>2 DEF RevReq
<1>5. slookup_rev_table' \in [Sessions -> RevEntry \cup {None}] /\ valid_tuple' \in [Sessions -> BOOLEAN]
  BY <1>0, <1>3, <1>4
<1>6. rev_insert' \in Seq(RevReq)
  <2>1. RevInserts \subseteq RevReq
    BY DEF RevInserts
  <2> QED BY <1>1, <2>1
<1>7. SlookupTypeOK'
  BY <1>0, <1>5, <1>6 DEF SlookupTypeOK, RevReq, freeVars, camVars
<1>8. \A s : e \in RevOf(s) <=> x = s
  BY <1>2, <1>3 DEF RevOf
<1>9. /\ valid_tuple'[x] = TRUE /\ slookup_rev_table'[x] = e.entry
      /\ \A s \in Sessions : s # x => valid_tuple'[s] = valid_tuple[s]
                                      /\ slookup_rev_table'[s] = slookup_rev_table[s]
  BY <1>0, <1>3
<1>10. ASSUME NEW s \in Sessions PROVE OneOwner(s)' /\ InCam(s)'
  <2>1. /\ Answered(s) \in Nat /\ Received(s) \in Nat /\ ToEnter(s) \in Nat
        /\ Valid(s) \in Nat /\ ToDelete(s) \in Nat /\ Held(s) \in Nat /\ Deleted(s) \in Nat
    BY <1>0, Nats
  <2>2. /\ ToEnter(s) = IF x = s THEN ToEnter(s)' + 1 ELSE ToEnter(s)'
        /\ ToEnter(s)' \in Nat
    BY <1>0, <1>8, CountTail DEF ToEnter
  <2>3. ToEnter(s) + Valid(s) <= Held(s) /\ Held(s) + Deleted(s) <= 1
    BY HeldOnce
  <2>4. Valid(s)' = IF x = s THEN 1 ELSE Valid(s)
    BY <1>9 DEF Valid
  <2>5. x = s => Valid(s) = 0
    BY <2>1, <2>2, <2>3
  <2>6. /\ Fresh(s)' = Fresh(s) /\ Free(s)' = Free(s) /\ Recycled(s)' = Recycled(s)
        /\ ToInsert(s)' = ToInsert(s) /\ Inserted(s)' = Inserted(s) /\ Deleted(s)' = Deleted(s)
        /\ Answered(s)' = Answered(s) /\ Received(s)' = Received(s)
        /\ ToDelete(s)' = ToDelete(s) /\ CamIds' = CamIds
    BY <1>0 DEF Fresh, Free, Recycled, ToInsert, Inserted, Answered, Received, ToDelete,
                Deleted, CamIds, freeVars, camVars, CountIn
  <2>7. Held(s)' = Held(s)
    BY <2>1, <2>2, <2>4, <2>5, <2>6 DEF Held
  <2>8. OneOwner(s) /\ InCam(s)
    BY TokenFacts DEF IInv
  <2> QED BY <2>6, <2>7, <2>8 DEF OneOwner, InCam
<1>11. OneInsert'
  BY <1>0 DEF IInv, CInv, Tokens, OneInsert, Inserts, camVars, CountIn
<1>12. Injective' /\ InOrder' /\ Phase' /\ SessionCount'
  BY <1>0 DEF IInv, CInv, Injective, InOrder, Phase, SessionCount, OfKind, CamIds, camVars
<1>13. Linked'
  <2>1. ASSUME NEW s \in Sessions, valid_tuple'[s]
        PROVE  slookup_rev_table'[s] \in RevEntry /\ cam[slookup_rev_table'[s].tuple] = s
    <3>1. CASE s = x
      BY <1>2, <1>3, <1>4, <1>9, <3>1
    <3>2. CASE s # x
      BY <1>9, <2>1, <3>2 DEF IInv, CInv, Linked
    <3> QED BY <3>1, <3>2
  <2>2. cam' = cam /\ slc' = slc
    BY <1>0 DEF camVars
  <2> QED BY <1>0, <1>1, <2>1, <2>2, LinkSame DEF IInv, CInv, Linked, camVars
<1> QED BY <1>7, <1>10, <1>11, <1>12, <1>13 DEF IInv, CInv, Tokens

LEMMA RevReleaseStep ==
  ASSUME IInv, RevRelease
  PROVE  IInv'
<1>0. /\ SlookupTypeOK /\ release_req \in Seq(Sessions) /\ release_req # <<>>
      /\ release_req' = Tail(release_req)
      /\ valid_tuple \in [Sessions -> BOOLEAN] /\ delete_req \in Seq(DeleteReqs)
      /\ port_release \in Seq(Tuples)
      /\ UNCHANGED <<freeVars, fsmVars, camVars, slookup_rev_table, rev_req, rev_rsp,
                     insert_req, used_session_id_cnt, known, inputs>>
  BY DEF IInv, CInv, Linked, SlookupTypeOK, RevRelease
<1>1. PICK x \in Sessions : x = Head(release_req)
  BY <1>0, ReadFifo
<1>2. release_req' \in Seq(Sessions)
  BY <1>0, ReadFifo
<1>3. PICK u : u = [op |-> "DELETE", tuple |-> slookup_rev_table[x].tuple,
                    id |-> x, source |-> "RX"]
  OBVIOUS
<1>4. /\ valid_tuple' = [valid_tuple EXCEPT ![x] = FALSE]
      /\ valid_tuple[x] => /\ port_release' = Append(port_release, slookup_rev_table[x].tuple)
                           /\ delete_req' = Append(delete_req, u)
      /\ ~valid_tuple[x] => port_release' = port_release /\ delete_req' = delete_req
  BY <1>1, <1>3 DEF RevRelease, Releasable
<1>5. /\ valid_tuple' \in [Sessions -> BOOLEAN] /\ valid_tuple'[x] = FALSE
      /\ \A s \in Sessions : s # x => valid_tuple'[s] = valid_tuple[s]
  BY <1>0, <1>4
<1>6. valid_tuple[x] => /\ slookup_rev_table[x].tuple \in Tuples
                        /\ cam[slookup_rev_table[x].tuple] = x
  BY DEF IInv, CInv, Linked, RevEntry
<1>7. valid_tuple[x] => u \in CamUpd /\ u.op = "DELETE" /\ u.id = x /\ u \in DeleteReqs
  <2> SUFFICES ASSUME valid_tuple[x]
               PROVE  u \in CamUpd /\ u.op = "DELETE" /\ u.id = x /\ u \in DeleteReqs
    OBVIOUS
  <2>1. /\ u \in CamUpd /\ u.op = "DELETE" /\ u.id = x /\ u.tuple = slookup_rev_table[x].tuple
    BY <1>3, <1>6 DEF CamUpd, Sources
  <2> QED BY <1>6, <2>1 DEF DeleteReqs, IsDelete
<1>8. delete_req' \in Seq(DeleteReqs) /\ port_release' \in Seq(Tuples)
  <2>1. CASE valid_tuple[x]
    <3>1. PICK t \in Tuples : t = slookup_rev_table[x].tuple
      BY <1>6, <2>1
    <3>2. u \in DeleteReqs
      BY <1>7, <2>1
    <3>3. Append(delete_req, u) \in Seq(DeleteReqs)
      BY <1>0, <3>2, WriteFifo
    <3>4. Append(port_release, t) \in Seq(Tuples)
      BY <1>0, WriteFifo
    <3> QED BY <1>4, <2>1, <3>1, <3>3, <3>4
  <2>2. CASE ~valid_tuple[x]
    BY <1>0, <1>4, <2>2
  <2> QED BY <2>1, <2>2
<1>9. delete_req' \in Seq(CamUpd)
  <2>1. DeleteReqs \subseteq CamUpd
    BY DEF DeleteReqs
  <2> QED BY <1>8, <2>1
<1>10. SlookupTypeOK'
  BY <1>0, <1>2, <1>5, <1>8, <1>9 DEF SlookupTypeOK, freeVars, fsmVars, camVars
<1>11. ASSUME NEW s \in Sessions PROVE OneOwner(s)' /\ InCam(s)'
  <2>1. /\ Answered(s) \in Nat /\ Received(s) \in Nat /\ ToEnter(s) \in Nat
        /\ Valid(s) \in Nat /\ ToDelete(s) \in Nat
    BY <1>0, Nats
  <2>2. /\ Valid(s)' = IF x = s THEN 0 ELSE Valid(s)
        /\ valid_tuple[s] => Valid(s) = 1
        /\ ~valid_tuple[s] => Valid(s) = 0
    BY <1>5 DEF Valid
  <2>3. ToDelete(s)' = IF x = s /\ valid_tuple[x] THEN ToDelete(s) + 1 ELSE ToDelete(s)
    <3>1. CASE ~valid_tuple[x]
      BY <1>4, <3>1 DEF ToDelete
    <3>2. CASE valid_tuple[x]
      <4>1. u \in AnyUpd
        BY <1>7, <3>2 DEF AnyUpd
      <4>2. u \in OfId(s, "DELETE") <=> x = s
        BY <1>7, <3>2, <4>1, InOf
      <4>3. delete_req' = Append(delete_req, u) /\ u \in DeleteReqs
        BY <1>4, <1>7, <3>2
      <4>4. CountIn(Append(delete_req, u), OfId(s, "DELETE"))
              = IF u \in OfId(s, "DELETE") THEN CountIn(delete_req, OfId(s, "DELETE")) + 1
                ELSE CountIn(delete_req, OfId(s, "DELETE"))
        BY <1>0, <4>3, CountAppend
      <4>5. ToDelete(s)' = CountIn(Append(delete_req, u), OfId(s, "DELETE"))
        BY <4>3 DEF ToDelete
      <4> QED BY <3>2, <4>2, <4>4, <4>5 DEF ToDelete
    <3> QED BY <3>1, <3>2
  <2>4. /\ Fresh(s)' = Fresh(s) /\ Free(s)' = Free(s) /\ Recycled(s)' = Recycled(s)
        /\ ToInsert(s)' = ToInsert(s) /\ Inserted(s)' = Inserted(s) /\ Deleted(s)' = Deleted(s)
        /\ Answered(s)' = Answered(s) /\ Received(s)' = Received(s) /\ ToEnter(s)' = ToEnter(s)
        /\ CamIds' = CamIds
    BY <1>0 DEF Fresh, Free, Recycled, ToInsert, Inserted, Answered, Received, ToEnter,
                Deleted, CamIds, freeVars, fsmVars, camVars, CountIn
  <2>5. Valid(s)' + ToDelete(s)' = Valid(s) + ToDelete(s)
        /\ Valid(s)' \in Nat /\ ToDelete(s)' \in Nat
    BY <2>1, <2>2, <2>3
  <2>6. Held(s)' = Held(s)
    BY <2>1, <2>4, <2>5, SMTT(30) DEF Held
  <2>7. OneOwner(s) /\ InCam(s)
    BY TokenFacts DEF IInv
  <2> QED BY <2>4, <2>6, <2>7 DEF OneOwner, InCam
<1>12. OneInsert'
  BY <1>0 DEF IInv, CInv, Tokens, OneInsert, Inserts, fsmVars, camVars, CountIn
<1>13. Injective' /\ InOrder' /\ Phase' /\ SessionCount'
  BY <1>0 DEF IInv, CInv, Injective, InOrder, Phase, SessionCount, OfKind, CamIds, fsmVars,
              camVars
<1>14. Linked'
  <2>1. \A s \in Sessions : valid_tuple'[s] => valid_tuple[s]
    BY <1>5
  <2> QED BY <1>0, <1>8, <2>1, LinkSame DEF IInv, CInv, Linked, fsmVars, camVars
<1> QED BY <1>10, <1>11, <1>12, <1>13, <1>14 DEF IInv, CInv, Tokens
-----------------------------------------------------------------------------
(* The theorems.                                                            *)

LEMMA Initially == Init => IInv
<1> SUFFICES ASSUME Init PROVE IInv
  OBVIOUS
<1>1. \A S : <<>> \in Seq(S)
  OBVIOUS
<1>2. \A T : CountIn(<<>>, T) = 0
  <2> TAKE T
  <2>1. {i \in DOMAIN <<>> : <<>>[i] \in T} = {}
    OBVIOUS
  <2> QED BY <2>1, FS_EmptySet DEF CountIn
<1>3. SlookupTypeOK
  <2>1. /\ slc \in [pc : {"LUP_REQ", "LUP_RSP", "UPD_RSP"}, req : LookupReq \cup {None}]
        /\ cam \in [Tuples -> IdOrNone] /\ cur_session_id \in 0 .. MaxSessions
        /\ inputs \in 0 .. MaxInputs /\ used_session_id_cnt \in Nat
    BY Consts DEF Init, IdOrNone
  <2>2. /\ lup_req \in [Sources -> Seq(LookupReq)] /\ lup_rsp \in [Sources -> Seq(LookupRsp)]
        /\ rev_req \in [Readers -> Seq(Sessions)]
        /\ rev_rsp \in [Readers -> Seq(RevEntry \cup Roles \cup {None})]
    BY <1>1 DEF Init
  <2>3. /\ slookup_rev_table \in [Sessions -> RevEntry \cup {None}]
        /\ valid_tuple \in [Sessions -> BOOLEAN]
    BY DEF Init
  <2> QED BY <1>1, <2>1, <2>2, <2>3 DEF Init, SlookupTypeOK
<1>4. CamIds = {}
  BY DEF Init, CamIds
<1>5. ASSUME NEW s \in Sessions PROVE OneOwner(s) /\ InCam(s)
  <2>1. Fresh(s) = 1 /\ Valid(s) = 0
    BY Consts DEF Init, Fresh, Valid, Sessions
  <2>2. /\ Free(s) = 0 /\ Recycled(s) = 0 /\ ToInsert(s) = 0 /\ Inserted(s) = 0 /\ Answered(s) = 0
        /\ Received(s) = 0 /\ ToEnter(s) = 0 /\ ToDelete(s) = 0 /\ Deleted(s) = 0
    BY <1>2 DEF Init, Free, Recycled, ToInsert, Inserted, Answered, Received, ToEnter, ToDelete,
                Deleted
  <2>3. Held(s) = 0
    BY <2>1, <2>2 DEF Held
  <2> QED BY <1>4, <2>1, <2>2, <2>3 DEF OneOwner, InCam
<1>6. slc.pc = "LUP_REQ"
  BY DEF Init
<1>7. OneInsert
  <2>1. /\ Inserts(insert_req) = 0 /\ Inserts(cam_upd) = 0 /\ Inserts(cam_upd_rsp) = 0
        /\ Inserts(insert_rsp) = 0
    BY <1>2 DEF Init, Inserts
  <2> QED BY <1>6, <2>1 DEF OneInsert
<1>8. Injective /\ InOrder
  BY DEF Init, Injective, InOrder
<1>9. Phase
  BY <1>6 DEF Init, Phase
<1>10. Linked
  BY <1>1 DEF Init, Linked
<1>11. SessionCount
  <2>1. OfKind("INSERT") = 0 /\ OfKind("DELETE") = 0
    BY <1>2, <1>3, KindCount DEF Init, SlookupTypeOK
  <2>2. Cardinality(CamIds) = 0
    BY <1>4, FS_EmptySet
  <2> QED BY <2>1, <2>2 DEF SessionCount, Init
<1> QED BY <1>3, <1>5, <1>7, <1>8, <1>9, <1>10, <1>11 DEF IInv, CInv, Tokens

LEMMA InvStep == IInv /\ [Next]_vars => IInv'
<1> SUFFICES ASSUME IInv, [Next]_vars PROVE IInv'
  OBVIOUS
<1>1. CASE Lookups
  BY <1>1, LupReqStep, LupRspCreateStep, LupRspAnswerStep, UpdRspStep DEF Lookups
<1>2. CASE FreeList
  BY <1>2, RecycleIdStep, IssueIdStep DEF FreeList
<1>3. CASE Sender
  BY <1>3, SendInsertStep, SendDeleteStep DEF Sender
<1>4. CASE ReceiveUpd
  BY <1>4, ReceiveUpdStep
<1>5. CASE CamLookup
  BY <1>5, CamLookupStep
<1>6. CASE CamUpdate
  BY <1>6, CamInsertStep, CamDeleteStep
<1>7. CASE RevTable
  BY <1>7, RevInsertStep, RevReleaseStep, RevReadStep DEF RevTable
<1>8. CASE Consumers
  BY <1>8, TakeRspStep, TakeRevRspStep, TakePortStep DEF Consumers
<1>9. CASE Environment
  BY <1>9, RequestStep, ReleaseStep, ReadStep DEF Environment
<1>10. CASE UNCHANGED vars
  <2>1. SlookupTypeOK'
    BY <1>10 DEF IInv, SlookupTypeOK, vars, freeVars, fsmVars, camVars, revVars
  <2>2. CInv'
    BY <1>10, CoreSame DEF IInv, coreVars, vars, freeVars, fsmVars, camVars, revVars
  <2> QED BY <2>1, <2>2 DEF IInv
<1> QED BY <1>1, <1>2, <1>3, <1>4, <1>5, <1>6, <1>7, <1>8, <1>9, <1>10 DEF Next

LEMMA Invariance == Spec => []IInv
BY Initially, InvStep, PTL DEF Spec

\* The counts of the properties and those of the proof.
LEMMA PlacesCount ==
  ASSUME IInv, NEW s \in Sessions
  PROVE  Places(s) = Fresh(s) + Free(s) + Recycled(s) + ToInsert(s) + Inserted(s)
                       + Cardinality({t \in Tuples : cam[t] = s}) - Deleted(s)
<1>0. insert_req \in Seq(CamUpd) /\ cam_upd \in Seq(CamUpd)
  BY DEF IInv, SlookupTypeOK
<1>1. Times(available, s) = Free(s) /\ Times(released, s) = Recycled(s)
  <2>1. \A q : {i \in DOMAIN q : q[i] = s} = {i \in DOMAIN q : q[i] \in {s}}
    OBVIOUS
  <2> QED BY <2>1 DEF Times, Free, Recycled, CountIn
<1>2. ASSUME NEW q \in Seq(CamUpd), NEW op
      PROVE  Updates(q, s, op) = CountIn(q, OfId(s, op))
  <2>1. \A i \in DOMAIN q : q[i] \in AnyUpd
    BY InFifo DEF AnyUpd
  <2>2. {i \in DOMAIN q : q[i].id = s /\ q[i].op = op} = {i \in DOMAIN q : q[i] \in OfId(s, op)}
    BY <2>1 DEF OfId
  <2> QED BY <2>2 DEF Updates, CountIn
<1>3. /\ Updates(insert_req, s, "INSERT") = ToInsert(s)
      /\ Updates(cam_upd, s, "INSERT") = Inserted(s)
      /\ Updates(cam_upd, s, "DELETE") = Deleted(s)
  BY <1>0, <1>2 DEF ToInsert, Inserted, Deleted
<1> QED BY <1>1, <1>3 DEF Places, Fresh

\* An id is in the CAM once or not at all.
LEMMA CamOnce ==
  ASSUME IInv, NEW s \in Sessions
  PROVE  Cardinality({t \in Tuples : cam[t] = s}) = IF s \in CamIds THEN 1 ELSE 0
<1> DEFINE T == {t \in Tuples : cam[t] = s}
<1>1. CASE s \in CamIds
  <2>1. PICK t \in Tuples : cam[t] = s
    BY <1>1 DEF CamIds
  <2>2. T = {t}
    BY <2>1, Consts DEF IInv, CInv, Injective
  <2> QED BY <1>1, <2>2, FS_Singleton
<1>2. CASE s \notin CamIds
  <2>1. T = {}
    BY <1>2, Consts DEF CamIds
  <2> QED BY <1>2, <2>1, FS_EmptySet
<1> QED BY <1>1, <1>2

LEMMA Conserved == IInv => IdsConserved
<1> SUFFICES ASSUME IInv, NEW s \in Sessions PROVE Places(s) = 1
  BY DEF IdsConserved
<1>1. /\ Fresh(s) \in Nat /\ Free(s) \in Nat /\ Recycled(s) \in Nat /\ ToInsert(s) \in Nat
      /\ Inserted(s) \in Nat /\ Held(s) \in Nat /\ Deleted(s) \in Nat
  BY Nats DEF IInv
<1>2. Fresh(s) + Free(s) + Recycled(s) + ToInsert(s) + Inserted(s) + Held(s) = 1
  BY TokenFacts DEF IInv, OneOwner
<1>3. PICK n : n = Cardinality({t \in Tuples : cam[t] = s})
  OBVIOUS
<1>4. Held(s) + Deleted(s) = n
  BY <1>3, CamOnce, TokenFacts DEF IInv, InCam
<1>5. Places(s) = Fresh(s) + Free(s) + Recycled(s) + ToInsert(s) + Inserted(s) + n - Deleted(s)
  BY <1>3, PlacesCount
<1> QED BY <1>1, <1>2, <1>4, <1>5

\* GetNewAvailableSessionId, CamLookupRspHandler, CamUpdateReqSender and the CAM pass the
\* ids around a ring without losing or duplicating one, and used_session_id_cnt counts the
\* ones in use: for every TCP_MAX_SESSIONS and every depth of the FIFOs.
THEOREM IdsAreAccounted == Spec => []IdsAccounted
<1>1. IInv => IdsAccounted
  BY Conserved DEF IInv, CInv, IdsAccounted
<1> QED BY <1>1, Invariance, PTL

\* Where the id of a tuple in the CAM is.
LEMMA HeldSomewhere ==
  ASSUME IInv, NEW s \in CamIds, s \in Sessions
  PROVE  \/ valid_tuple[s]
         \/ s \in Ids(rev_insert)
         \/ s \in Ids(insert_rsp) \cup Ids(cam_upd_rsp) \cup Ids(delete_req) \cup Ids(cam_upd)
<1>0. /\ rev_insert \in Seq(RevReq) /\ insert_rsp \in Seq(CamUpdRsp)
      /\ cam_upd_rsp \in Seq(CamUpdRsp) /\ delete_req \in Seq(CamUpd) /\ cam_upd \in Seq(CamUpd)
  BY DEF IInv, SlookupTypeOK, RevReq
<1>1. ASSUME NEW S, NEW q \in Seq(S), NEW T, CountIn(q, T) # 0, \A u \in T : u.id = s
      PROVE  s \in Ids(q)
  <2>1. PICK i \in 1 .. Len(q) : q[i] \in T
    BY <1>1, CountNone
  <2>2. i \in DOMAIN q /\ q[i].id = s
    BY <1>1, <2>1, InFifo
  <2> QED BY <2>2 DEF Ids
<1>2. (\A u \in RevOf(s) : u.id = s) /\ \A op : \A u \in OfId(s, op) : u.id = s
  BY DEF RevOf, OfId
<1>3. ToEnter(s) # 0 => s \in Ids(rev_insert)
  BY <1>0, <1>1, <1>2 DEF ToEnter
<1>4. Received(s) # 0 => s \in Ids(insert_rsp)
  BY <1>0, <1>1, <1>2 DEF Received
<1>5. Answered(s) # 0 => s \in Ids(cam_upd_rsp)
  BY <1>0, <1>1, <1>2 DEF Answered
<1>6. ToDelete(s) # 0 => s \in Ids(delete_req)
  BY <1>0, <1>1, <1>2 DEF ToDelete
<1>7. Deleted(s) # 0 => s \in Ids(cam_upd)
  BY <1>0, <1>1, <1>2 DEF Deleted
<1>8. Valid(s) # 0 => valid_tuple[s]
  BY DEF Valid
<1>9. Held(s) + Deleted(s) = 1
  BY TokenFacts DEF IInv, InCam
<1>10. ~ (/\ Answered(s) = 0 /\ Received(s) = 0 /\ ToEnter(s) = 0 /\ Valid(s) = 0
          /\ ToDelete(s) = 0 /\ Deleted(s) = 0)
  BY <1>9 DEF Held
<1> QED BY <1>3, <1>4, <1>5, <1>6, <1>7, <1>8, <1>10

\* The tuple of a valid reverse entry maps to its id, every id of the CAM has its entry or
\* is on the way to one or to its deletion, and MockCam's success flag, which
\* CamLookupRspHandler does not look at, is always set.
THEOREM MappingStaysConsistent == Spec => []MappingConsistent
<1>1. ASSUME IInv PROVE MappingConsistent
  <2>1. \A s \in Sessions : valid_tuple[s] =>
          slookup_rev_table[s] \in RevEntry /\ cam[slookup_rev_table[s].tuple] = s
    BY <1>1 DEF IInv, CInv, Linked
  <2>2. ASSUME NEW t \in Tuples, cam[t] # None
        PROVE  \/ valid_tuple[cam[t]] /\ slookup_rev_table[cam[t]].tuple = t
               \/ cam[t] \in Ids(rev_insert) \cup Ids(insert_rsp) \cup Ids(cam_upd_rsp)
               \/ cam[t] \in Ids(delete_req) \cup Ids(cam_upd)
    <3>1. PICK s \in Sessions : s = cam[t]
      BY <1>1, <2>2 DEF IInv, SlookupTypeOK, IdOrNone
    <3>2. s \in CamIds
      BY <2>2, <3>1 DEF CamIds
    <3>3. valid_tuple[s] => slookup_rev_table[s].tuple = t
      <4> SUFFICES ASSUME valid_tuple[s] PROVE slookup_rev_table[s].tuple = t
        OBVIOUS
      <4>1. slookup_rev_table[s].tuple \in Tuples /\ cam[slookup_rev_table[s].tuple] = s
        BY <2>1 DEF RevEntry
      <4> QED BY <1>1, <2>2, <3>1, <4>1 DEF IInv, CInv, Injective
    <3> QED BY <1>1, <3>1, <3>2, <3>3, HeldSomewhere
  <2>3. TablesAgree
    BY <2>1, <2>2 DEF TablesAgree
  <2>4. CamUpdatesSucceed
    <3>1. cam_upd_rsp \in Seq(Answers)
      BY <1>1 DEF IInv, CInv, Linked
    <3>2. \A i \in DOMAIN cam_upd_rsp : cam_upd_rsp[i] \in Answers
      BY <3>1, InFifo
    <3> QED BY <3>2 DEF CamUpdatesSucceed, Answers, IsAnswer
  <2> QED BY <2>3, <2>4 DEF MappingConsistent
<1> QED BY <1>1, Invariance, PTL

\* What the step of TdestKnown says.
TdestStep ==
  \A r \in {"rx_app", "tx_app"} :
    Len(rev_rsp'[r]) > Len(rev_rsp[r])
      => \/ Last(rev_rsp'[r]) # None
         \/ Head(rev_req[r]) \notin CamIds
         \/ Head(rev_req[r]) \in Ids(delete_req) \cup Ids(cam_upd)
                                   \cup Ids(cam_upd_rsp) \cup Ids(insert_rsp)

LEMMA TdestSame == ASSUME IInv, UNCHANGED rev_rsp PROVE TdestStep
<1> DEFINE R == RevEntry \cup Roles \cup {None}
<1>0. rev_rsp \in [Readers -> Seq(R)]
  BY DEF IInv, SlookupTypeOK
<1> HIDE DEF R
<1>1. \A r \in {"rx_app", "tx_app"} : Len(rev_rsp[r]) \in Nat
  BY <1>0 DEF Readers
<1>2. \A r \in {"rx_app", "tx_app"} : ~ Len(rev_rsp'[r]) > Len(rev_rsp[r])
  BY <1>1
<1> QED BY <1>2 DEF TdestStep

LEMMA TdestTaken ==
  ASSUME IInv, NEW q \in Readers, TakeRevRsp(q)
  PROVE  TdestStep
<1> SUFFICES ASSUME NEW r \in {"rx_app", "tx_app"}
             PROVE  ~ Len(rev_rsp'[r]) > Len(rev_rsp[r])
  BY DEF TdestStep
<1> DEFINE R == RevEntry \cup Roles \cup {None}
<1>1. /\ rev_rsp \in [Readers -> Seq(R)] /\ rev_rsp[q] # <<>> /\ r \in Readers
      /\ rev_rsp' = [rev_rsp EXCEPT ![q] = Tail(rev_rsp[q])]
  BY DEF IInv, SlookupTypeOK, TakeRevRsp, Readers
<1> HIDE DEF R
<1>2. /\ rev_rsp'[q] = Tail(rev_rsp[q])
      /\ r # q => rev_rsp'[r] = rev_rsp[r]
      /\ Len(rev_rsp[r]) \in Nat /\ rev_rsp[q] \in Seq(R)
  BY <1>1
<1>3. Len(Tail(rev_rsp[q])) = Len(rev_rsp[q]) - 1
  BY <1>1, <1>2, ReadFifo
<1>4. CASE r = q
  <2>1. PICK n \in Nat : n = Len(rev_rsp[r])
    BY <1>2
  <2>2. Len(rev_rsp'[r]) = n - 1
    BY <1>2, <1>3, <1>4, <2>1
  <2> QED BY <2>1, <2>2
<1>5. CASE r # q
  BY <1>2, <1>5
<1> QED BY <1>4, <1>5

\* The chain of SlookupReverseTableInterface takes the inserts first.
LEMMA TdestRead ==
  ASSUME IInv, NEW q \in Readers, RevRead(q)
  PROVE  TdestStep
<1> SUFFICES ASSUME NEW r \in {"rx_app", "tx_app"}, Len(rev_rsp'[r]) > Len(rev_rsp[r]),
                    Last(rev_rsp'[r]) = None, Head(rev_req[r]) \in CamIds
             PROVE  Head(rev_req[r]) \in Ids(delete_req) \cup Ids(cam_upd)
                                           \cup Ids(cam_upd_rsp) \cup Ids(insert_rsp)
  BY DEF TdestStep
<1> DEFINE R == RevEntry \cup Roles \cup {None}
<1>1. PICK x, a : x = Head(rev_req[q]) /\ a = RevAnswer(q, x)
  OBVIOUS
<1>2. /\ rev_rsp \in [Readers -> Seq(R)] /\ rev_req \in [Readers -> Seq(Sessions)]
      /\ rev_req[q] # <<>> /\ r \in Readers /\ rev_insert = <<>>
      /\ rev_rsp' = [rev_rsp EXCEPT ![q] = Append(rev_rsp[q], a)]
  BY <1>1 DEF IInv, SlookupTypeOK, RevRead, Readers
<1> HIDE DEF R
<1>3. r = q
  <2>1. r # q => rev_rsp'[r] = rev_rsp[r]
    BY <1>2
  <2>2. Len(rev_rsp[r]) \in Nat
    BY <1>2
  <2> QED BY <2>1, <2>2
<1>4. x \in Sessions
  <2>1. rev_req[q] \in Seq(Sessions)
    BY <1>2
  <2> QED BY <1>1, <1>2, <2>1, ReadFifo
<1>5. a = None
  <2>1. rev_rsp'[q] = Append(rev_rsp[q], a) /\ rev_rsp[q] \in Seq(R)
    BY <1>2
  <2>2. Len(Append(rev_rsp[q], a)) = Len(rev_rsp[q]) + 1
        /\ Append(rev_rsp[q], a)[Len(rev_rsp[q]) + 1] = a
    BY <2>1
  <2> QED BY <1>3, <2>1, <2>2 DEF Last
<1>6. a = IF valid_tuple[x] THEN slookup_rev_table[x].role ELSE None
  BY <1>1, <1>3 DEF RevAnswer
<1>7. ~valid_tuple[x]
  <2> SUFFICES ASSUME valid_tuple[x] PROVE FALSE
    OBVIOUS
  <2>1. slookup_rev_table[x] \in RevEntry
    BY <1>4 DEF IInv, CInv, Linked
  <2>2. slookup_rev_table[x].role \in Roles
    BY <2>1 DEF RevEntry
  <2> QED BY <1>5, <1>6, <2>2, Consts
<1>8. x \notin Ids(rev_insert)
  BY <1>2 DEF Ids
<1> QED BY <1>1, <1>3, <1>4, <1>7, <1>8, HeldSomewhere

LEMMA TdestNext == IInv /\ [Next]_vars => TdestStep
<1> SUFFICES ASSUME IInv, [Next]_vars PROVE TdestStep
  OBVIOUS
<1>1. CASE Lookups
  BY <1>1, TdestSame DEF Lookups, LupReq, LupRspCreate, LupRspAnswer, UpdRsp, revVars
<1>2. CASE FreeList
  BY <1>2, TdestSame DEF FreeList, RecycleId, IssueId, revVars
<1>3. CASE Sender
  BY <1>3, TdestSame DEF Sender, SendInsert, SendDelete, revVars
<1>4. CASE ReceiveUpd
  BY <1>4, TdestSame DEF ReceiveUpd, revVars
<1>5. CASE CamLookup
  BY <1>5, TdestSame DEF CamLookup, revVars
<1>6. CASE CamUpdate
  BY <1>6, TdestSame DEF CamUpdate, revVars
<1>7. CASE RevTable
  BY <1>7, TdestSame, TdestRead DEF RevTable, RevInsert, RevRelease
<1>8. CASE Consumers
  BY <1>8, TdestSame, TdestTaken DEF Consumers, TakeRsp, TakePort, revVars
<1>9. CASE Environment
  BY <1>9, TdestSame DEF Environment, Request, Release, Read, revVars
<1>10. CASE UNCHANGED vars
  BY <1>10, TdestSame DEF vars, revVars
<1> QED BY <1>1, <1>2, <1>3, <1>4, <1>5, <1>6, <1>7, <1>8, <1>9, <1>10 DEF Next

\* SlookupReverseTableInterface answers INVALID_TDEST for a session of the CAM only while
\* the session is being deleted or created anew.
THEOREM TdestStaysKnown == Spec => TdestKnown
<1>1. IInv /\ [Next]_vars => [TdestStep]_vars
  BY TdestNext
<1> QED BY <1>1, Invariance, PTL DEF Spec, TdestKnown, TdestStep
=============================================================================
