----------------------------- MODULE SessionLookup -----------------------------
(***************************************************************************)
(* session_lookup_controller.cpp and the CAM it drives: the map from four- *)
(* tuples to session ids, the free list of ids, and the reverse table from *)
(* ids to tuples and application roles.                                    *)
(*                                                                         *)
(* Five processes run concurrently and talk through FIFOs: the free list   *)
(* (GetNewAvailableSessionId), the lookup FSM (CamLookupRspHandler), the   *)
(* sender of CAM updates (CamUpdateReqSender), the receiver of their       *)
(* answers (CamUpdateRspHandler) and the reverse table                     *)
(* (SlookupReverseTableInterface).  The CAM itself is external hardware,   *)
(* modelled from mock/mock_cam.hpp.                                        *)
(***************************************************************************)
EXTENDS Integers, Sequences, FiniteSets, SequencesExt

CONSTANTS
  MaxSessions,   \* TCP_MAX_SESSIONS
  Tuples,        \* four-tuples
  Roles,         \* TDESTs of the applications
  None,          \* no value
  Depth,         \* capacity of the FIFOs between the controller and the others
  MaxInputs      \* bound on the number of inputs from outside

ASSUME MaxSessionsAssumption == MaxSessions \in Nat \ {0}
ASSUME SlookupDepthAssumption == Depth \in Nat \ {0}
ASSUME SlookupInputsAssumption == MaxInputs \in Nat
ASSUME NoneAssumption == None \notin Tuples \cup Roles \cup Nat

Sessions == 0 .. (MaxSessions - 1)
Sources  == {"RX", "TX_APP"}
Readers  == {"tx_eng", "rx_app", "tx_app"}
ReleasedDepth == 2     \* slookup_released_id_fifo

\* SlookupReqInternal, SessionLookupRsp, RtlSlookupToCamUpdReq / UpdRsp, RevTableEntry
LookupReq == [tuple : Tuples, create : BOOLEAN, source : Sources, role : Roles]
LookupRsp == [id : Sessions \cup {None}, hit : BOOLEAN, role : Roles]
CamUpd    == [op : {"INSERT", "DELETE"}, tuple : Tuples, id : Sessions, source : Sources]
CamUpdRsp == [op : {"INSERT", "DELETE"}, id : Sessions, source : Sources, success : BOOLEAN]
RevEntry  == [tuple : Tuples, role : Roles]

VARIABLES
  cur_session_id,  \* next id never handed out
  available,       \* slookup_available_id_fifo
  released,        \* slookup_released_id_fifo
  slc,             \* the lookup FSM: its state and the request it works on
  lup_req,         \* [Sources -> FIFO of LookupReq]
  lup_rsp,         \* [Sources -> FIFO of LookupRsp]
  cam,             \* external: [Tuples -> Sessions or None]
  cam_lup,         \* lookup in the CAM: FIFO of tuples
  cam_lup_rsp,     \* its answer: FIFO of ids or None
  insert_req, delete_req,     \* FIFOs to the sender of CAM updates
  cam_upd, cam_upd_rsp,       \* FIFOs to and from the CAM
  insert_rsp,                 \* answers to INSERTs, for the lookup FSM
  used_session_id_cnt,
  rev_insert,      \* reverse_table_insert_req
  slookup_rev_table, valid_tuple,
  rev_req,         \* [Readers -> FIFO of ids]
  rev_rsp,         \* [Readers -> FIFO of answers]
  release_req,     \* sttable_to_slookup_release_req
  port_release,    \* slookup_to_ptable_release_port_req: the tuple stands for its port
  known,           \* ids the requesters have been given
  inputs

freeVars == <<cur_session_id, available, released>>
fsmVars  == <<slc, lup_req, lup_rsp, cam_lup, cam_lup_rsp, insert_rsp, rev_insert>>
camVars  == <<cam, cam_upd, cam_upd_rsp>>
revVars  == <<slookup_rev_table, valid_tuple, rev_req, rev_rsp, release_req, port_release>>
vars == <<freeVars, fsmVars, camVars, revVars, insert_req, delete_req,
          used_session_id_cnt, known, inputs>>

IdOrNone == Sessions \cup {None}

SlookupTypeOK ==
  /\ cur_session_id \in 0 .. MaxSessions
  /\ available \in Seq(Sessions) /\ released \in Seq(Sessions)
  /\ slc \in [pc : {"LUP_REQ", "LUP_RSP", "UPD_RSP"}, req : LookupReq \cup {None}]
  /\ lup_req \in [Sources -> Seq(LookupReq)] /\ lup_rsp \in [Sources -> Seq(LookupRsp)]
  /\ cam \in [Tuples -> IdOrNone]
  /\ cam_lup \in Seq(Tuples) /\ cam_lup_rsp \in Seq(IdOrNone)
  /\ insert_req \in Seq(CamUpd) /\ delete_req \in Seq(CamUpd)
  /\ cam_upd \in Seq(CamUpd)
  /\ cam_upd_rsp \in Seq(CamUpdRsp) /\ insert_rsp \in Seq(CamUpdRsp)
  /\ used_session_id_cnt \in Nat
  /\ rev_insert \in Seq([id : Sessions, entry : RevEntry])
  /\ slookup_rev_table \in [Sessions -> RevEntry \cup {None}]
  /\ valid_tuple \in [Sessions -> BOOLEAN]
  /\ rev_req \in [Readers -> Seq(Sessions)]
  /\ rev_rsp \in [Readers -> Seq(RevEntry \cup Roles \cup {None})]
  /\ release_req \in Seq(Sessions) /\ port_release \in Seq(Tuples)
  /\ known \subseteq Sessions
  /\ inputs \in 0 .. MaxInputs

Init ==
  /\ cur_session_id = 0 /\ available = <<>> /\ released = <<>>
  /\ slc = [pc |-> "LUP_REQ", req |-> None]
  /\ lup_req = [c \in Sources |-> <<>>] /\ lup_rsp = [c \in Sources |-> <<>>]
  /\ cam = [t \in Tuples |-> None]
  /\ cam_lup = <<>> /\ cam_lup_rsp = <<>>
  /\ insert_req = <<>> /\ delete_req = <<>> /\ cam_upd = <<>> /\ cam_upd_rsp = <<>>
  /\ insert_rsp = <<>>
  /\ used_session_id_cnt = 0
  /\ rev_insert = <<>>
  /\ slookup_rev_table = [s \in Sessions |-> None]
  /\ valid_tuple = [s \in Sessions |-> FALSE]
  /\ rev_req = [r \in Readers |-> <<>>] /\ rev_rsp = [r \in Readers |-> <<>>]
  /\ release_req = <<>> /\ port_release = <<>>
  /\ known = {}
  /\ inputs = 0

Room(fifo) == Len(fifo) < Depth

-----------------------------------------------------------------------------
(* GetNewAvailableSessionId: a released id goes back to the free list before *)
(* a new one is issued.  The free list has room for all ids.                *)

RecycleId ==
  /\ released # <<>>
  /\ available' = Append(available, Head(released))
  /\ released' = Tail(released)
  /\ UNCHANGED <<cur_session_id, fsmVars, camVars, revVars, insert_req, delete_req,
                 used_session_id_cnt, known, inputs>>

IdsLeft == cur_session_id < MaxSessions

IssueId ==
  /\ released = <<>>
  /\ IdsLeft
  /\ available' = Append(available, cur_session_id)
  /\ cur_session_id' = cur_session_id + 1
  /\ UNCHANGED <<released, fsmVars, camVars, revVars, insert_req, delete_req,
                 used_session_id_cnt, known, inputs>>

-----------------------------------------------------------------------------
(* CamLookupRspHandler.  Requests of the tx application interface come first. *)

LupReq(source) ==
  /\ slc.pc = "LUP_REQ"
  /\ lup_req[source] # <<>>
  /\ source = "RX" => lup_req["TX_APP"] = <<>>
  /\ Room(cam_lup)
  /\ slc' = [pc |-> "LUP_RSP", req |-> Head(lup_req[source])]
  /\ lup_req' = [lup_req EXCEPT ![source] = Tail(@)]
  /\ cam_lup' = Append(cam_lup, Head(lup_req[source]).tuple)
  /\ UNCHANGED <<freeVars, camVars, revVars, lup_rsp, cam_lup_rsp, insert_rsp, rev_insert,
                 insert_req, delete_req, used_session_id_cnt, known, inputs>>

\* The CAM missed, the request may create a session and there is a free id.
Creates == Head(cam_lup_rsp) = None /\ slc.req.create /\ available # <<>>

LupRspCreate ==
  /\ slc.pc = "LUP_RSP" /\ cam_lup_rsp # <<>> /\ Creates
  /\ insert_req' = Append(insert_req, [op |-> "INSERT", tuple |-> slc.req.tuple,
                                       id |-> Head(available), source |-> slc.req.source])
  /\ available' = Tail(available)
  /\ cam_lup_rsp' = Tail(cam_lup_rsp)
  /\ slc' = [slc EXCEPT !.pc = "UPD_RSP"]
  /\ UNCHANGED <<cur_session_id, released, camVars, revVars, lup_req, lup_rsp, cam_lup,
                 insert_rsp, rev_insert, delete_req, used_session_id_cnt, known, inputs>>

\* Mutant: without a free id the request waits for one.
LupRspAnswerWaits ==
  /\ slc.pc = "LUP_RSP" /\ cam_lup_rsp # <<>>
  /\ Head(cam_lup_rsp) # None \/ ~slc.req.create
  /\ Room(lup_rsp[slc.req.source])
  /\ lup_rsp' = [lup_rsp EXCEPT ![slc.req.source] =
                   Append(@, [id |-> Head(cam_lup_rsp), hit |-> Head(cam_lup_rsp) # None,
                              role |-> slc.req.role])]
  /\ cam_lup_rsp' = Tail(cam_lup_rsp)
  /\ slc' = [pc |-> "LUP_REQ", req |-> None]
  /\ UNCHANGED <<freeVars, camVars, revVars, lup_req, cam_lup, insert_rsp, rev_insert,
                 insert_req, delete_req, used_session_id_cnt, known, inputs>>

LupRspAnswer ==
  /\ slc.pc = "LUP_RSP" /\ cam_lup_rsp # <<>> /\ ~Creates
  /\ Room(lup_rsp[slc.req.source])
  /\ lup_rsp' = [lup_rsp EXCEPT ![slc.req.source] =
                   Append(@, [id |-> Head(cam_lup_rsp), hit |-> Head(cam_lup_rsp) # None,
                              role |-> slc.req.role])]
  /\ cam_lup_rsp' = Tail(cam_lup_rsp)
  /\ slc' = [pc |-> "LUP_REQ", req |-> None]
  /\ UNCHANGED <<freeVars, camVars, revVars, lup_req, cam_lup, insert_rsp, rev_insert,
                 insert_req, delete_req, used_session_id_cnt, known, inputs>>

\* The answer to the INSERT, whatever its success flag says.
UpdRsp ==
  /\ slc.pc = "UPD_RSP" /\ insert_rsp # <<>>
  /\ Room(rev_insert) /\ Room(lup_rsp[Head(insert_rsp).source])
  /\ LET upd == Head(insert_rsp) IN
     /\ rev_insert' = Append(rev_insert,
          [id |-> upd.id, entry |-> [tuple |-> slc.req.tuple, role |-> slc.req.role]])
     /\ lup_rsp' = [lup_rsp EXCEPT ![upd.source] =
          Append(@, [id |-> upd.id, hit |-> TRUE, role |-> slc.req.role])]
  /\ insert_rsp' = Tail(insert_rsp)
  /\ slc' = [pc |-> "LUP_REQ", req |-> None]
  /\ UNCHANGED <<freeVars, camVars, revVars, lup_req, cam_lup, cam_lup_rsp, insert_req,
                 delete_req, used_session_id_cnt, known, inputs>>

-----------------------------------------------------------------------------
(* CamUpdateReqSender: inserts before deletes; a delete recycles its id.     *)

SendInsert ==
  /\ insert_req # <<>> /\ Room(cam_upd)
  /\ cam_upd' = Append(cam_upd, Head(insert_req))
  /\ insert_req' = Tail(insert_req)
  /\ used_session_id_cnt' = used_session_id_cnt + 1
  /\ UNCHANGED <<freeVars, fsmVars, cam, cam_upd_rsp, revVars, delete_req, known, inputs>>

SendDelete ==
  /\ insert_req = <<>> /\ delete_req # <<>>
  /\ Room(cam_upd) /\ Len(released) < ReleasedDepth
  /\ cam_upd' = Append(cam_upd, Head(delete_req))
  /\ released' = Append(released, Head(delete_req).id)
  /\ delete_req' = Tail(delete_req)
  /\ used_session_id_cnt' = used_session_id_cnt - 1
  /\ UNCHANGED <<cur_session_id, available, fsmVars, cam, cam_upd_rsp, revVars, insert_req,
                 known, inputs>>

\* CamUpdateRspHandler: only answers to INSERTs are passed on.
ReceiveUpd ==
  /\ cam_upd_rsp # <<>>
  /\ IF Head(cam_upd_rsp).op = "INSERT"
     THEN Room(insert_rsp) /\ insert_rsp' = Append(insert_rsp, Head(cam_upd_rsp))
     ELSE UNCHANGED insert_rsp
  /\ cam_upd_rsp' = Tail(cam_upd_rsp)
  /\ UNCHANGED <<freeVars, slc, lup_req, lup_rsp, cam_lup, cam_lup_rsp, rev_insert, cam,
                 cam_upd, revVars, insert_req, delete_req, used_session_id_cnt, known, inputs>>

-----------------------------------------------------------------------------
(* The CAM: a lookup and an update port.                                    *)

CamLookup ==
  /\ cam_lup # <<>> /\ Room(cam_lup_rsp)
  /\ cam_lup_rsp' = Append(cam_lup_rsp, cam[Head(cam_lup)])
  /\ cam_lup' = Tail(cam_lup)
  /\ UNCHANGED <<freeVars, slc, lup_req, lup_rsp, insert_rsp, rev_insert, camVars, revVars,
                 insert_req, delete_req, used_session_id_cnt, known, inputs>>

CamUpdate ==
  /\ cam_upd # <<>> /\ Room(cam_upd_rsp)
  /\ LET upd == Head(cam_upd)
         ok  == (upd.op = "INSERT") <=> (cam[upd.tuple] = None)
     IN /\ cam' = IF ~ok THEN cam
                  ELSE [cam EXCEPT ![upd.tuple] = IF upd.op = "INSERT" THEN upd.id ELSE None]
        /\ cam_upd_rsp' = Append(cam_upd_rsp, [op |-> upd.op, id |-> upd.id,
                                               source |-> upd.source, success |-> ok])
  /\ cam_upd' = Tail(cam_upd)
  /\ UNCHANGED <<freeVars, fsmVars, revVars, insert_req, delete_req, used_session_id_cnt,
                 known, inputs>>

-----------------------------------------------------------------------------
(* SlookupReverseTableInterface: one if / else-if chain: inserts, reads of    *)
(* the tx engine, of the rx and of the tx application interface, releases.  *)

RevInsert ==
  /\ rev_insert # <<>>
  /\ LET i == Head(rev_insert) IN
     /\ slookup_rev_table' = [slookup_rev_table EXCEPT ![i.id] = i.entry]
     /\ valid_tuple' = [valid_tuple EXCEPT ![i.id] = TRUE]
  /\ rev_insert' = Tail(rev_insert)
  /\ UNCHANGED <<freeVars, slc, lup_req, lup_rsp, cam_lup, cam_lup_rsp, insert_rsp, camVars,
                 rev_req, rev_rsp, release_req, port_release, insert_req, delete_req,
                 used_session_id_cnt, known, inputs>>

\* The readers before r in the chain.
Before(r) == CASE r = "tx_eng" -> {} [] r = "rx_app" -> {"tx_eng"}
               [] r = "tx_app" -> {"tx_eng", "rx_app"}

\* The tx engine gets the entry as it is, the application interfaces the role
\* of a valid entry or INVALID_TDEST.
RevAnswer(r, s) ==
  IF r = "tx_eng" THEN slookup_rev_table[s]
  ELSE IF valid_tuple[s] THEN slookup_rev_table[s].role ELSE None

\* Mutant: reads before inserts.
RevReadFirst(r) ==
  /\ \A q \in Before(r) : rev_req[q] = <<>>
  /\ rev_req[r] # <<>> /\ Room(rev_rsp[r])
  /\ rev_rsp' = [rev_rsp EXCEPT ![r] = Append(@, RevAnswer(r, Head(rev_req[r])))]
  /\ rev_req' = [rev_req EXCEPT ![r] = Tail(@)]
  /\ UNCHANGED <<freeVars, fsmVars, camVars, slookup_rev_table, valid_tuple, release_req,
                 port_release, insert_req, delete_req, used_session_id_cnt, known, inputs>>

RevRead(r) ==
  /\ rev_insert = <<>>
  /\ \A q \in Before(r) : rev_req[q] = <<>>
  /\ rev_req[r] # <<>> /\ Room(rev_rsp[r])
  /\ rev_rsp' = [rev_rsp EXCEPT ![r] = Append(@, RevAnswer(r, Head(rev_req[r])))]
  /\ rev_req' = [rev_req EXCEPT ![r] = Tail(@)]
  /\ UNCHANGED <<freeVars, fsmVars, camVars, slookup_rev_table, valid_tuple, release_req,
                 port_release, insert_req, delete_req, used_session_id_cnt, known, inputs>>

ReleasableAlways(s) == slookup_rev_table[s] # None   \* mutant: valid_tuple not tested
Releasable(s) == valid_tuple[s]

\* A release of a session without a valid tuple has no effect.
RevRelease ==
  /\ rev_insert = <<>>
  /\ \A r \in Readers : rev_req[r] = <<>>
  /\ release_req # <<>>
  /\ LET s == Head(release_req) IN
     /\ IF Releasable(s)
        THEN /\ Room(port_release) /\ Room(delete_req)
             /\ port_release' = Append(port_release, slookup_rev_table[s].tuple)
             /\ delete_req' = Append(delete_req,
                  [op |-> "DELETE", tuple |-> slookup_rev_table[s].tuple,
                   id |-> s, source |-> "RX"])
        ELSE UNCHANGED <<port_release, delete_req>>
     /\ valid_tuple' = [valid_tuple EXCEPT ![s] = FALSE]
  /\ release_req' = Tail(release_req)
  /\ UNCHANGED <<freeVars, fsmVars, camVars, slookup_rev_table, rev_req, rev_rsp,
                 insert_req, used_session_id_cnt, known, inputs>>

-----------------------------------------------------------------------------
(* Inputs: lookups of the rx engine (create for a SYN to a listening port)   *)
(* and of the tx application interface, releases by the state table, which  *)
(* may repeat one, and reads of ids that were handed out.                   *)

Request(req) ==
  /\ inputs < MaxInputs
  /\ req.source = "TX_APP" => req.create
  /\ Room(lup_req[req.source])
  /\ lup_req' = [lup_req EXCEPT ![req.source] = Append(@, req)]
  /\ inputs' = inputs + 1
  /\ UNCHANGED <<freeVars, slc, lup_rsp, cam_lup, cam_lup_rsp, insert_rsp, rev_insert,
                 camVars, revVars, insert_req, delete_req, used_session_id_cnt, known>>

TakeRsp(source) ==
  /\ lup_rsp[source] # <<>>
  /\ lup_rsp' = [lup_rsp EXCEPT ![source] = Tail(@)]
  /\ known' = known \cup ({Head(lup_rsp[source]).id} \ {None})
  /\ UNCHANGED <<freeVars, slc, lup_req, cam_lup, cam_lup_rsp, insert_rsp, rev_insert,
                 camVars, revVars, insert_req, delete_req, used_session_id_cnt, inputs>>

Release(s) ==
  /\ inputs < MaxInputs
  /\ Room(release_req)
  /\ release_req' = Append(release_req, s)
  /\ inputs' = inputs + 1
  /\ UNCHANGED <<freeVars, fsmVars, camVars, slookup_rev_table, valid_tuple, rev_req,
                 rev_rsp, port_release, insert_req, delete_req, used_session_id_cnt, known>>

Read(r, s) ==
  /\ inputs < MaxInputs
  /\ Room(rev_req[r])
  /\ rev_req' = [rev_req EXCEPT ![r] = Append(@, s)]
  /\ inputs' = inputs + 1
  /\ UNCHANGED <<freeVars, fsmVars, camVars, slookup_rev_table, valid_tuple, rev_rsp,
                 release_req, port_release, insert_req, delete_req, used_session_id_cnt, known>>

TakeRevRsp(r) ==
  /\ rev_rsp[r] # <<>>
  /\ rev_rsp' = [rev_rsp EXCEPT ![r] = Tail(@)]
  /\ UNCHANGED <<freeVars, fsmVars, camVars, slookup_rev_table, valid_tuple, rev_req,
                 release_req, port_release, insert_req, delete_req, used_session_id_cnt, known, inputs>>

\* FreePortTable takes the port back.
TakePort ==
  /\ port_release # <<>>
  /\ port_release' = Tail(port_release)
  /\ UNCHANGED <<freeVars, fsmVars, camVars, slookup_rev_table, valid_tuple, rev_req, rev_rsp,
                 release_req, insert_req, delete_req, used_session_id_cnt, known, inputs>>

Lookups    == \/ \E c \in Sources : LupReq(c)
              \/ LupRspCreate \/ LupRspAnswer \/ UpdRsp
FreeList   == RecycleId \/ IssueId
Sender     == SendInsert \/ SendDelete
RevTable   == RevInsert \/ RevRelease \/ \E r \in Readers : RevRead(r)
Consumers  == \/ \E c \in Sources : TakeRsp(c)
              \/ \E r \in Readers : TakeRevRsp(r)
              \/ TakePort
Environment ==
  \/ \E req \in LookupReq : Request(req)
  \/ \E s \in known : Release(s) \/ \E r \in Readers : Read(r, s)

Next == \/ Lookups \/ FreeList \/ Sender \/ ReceiveUpd \/ CamLookup \/ CamUpdate
        \/ RevTable \/ Consumers \/ Environment

Spec == Init /\ [][Next]_vars

\* Every process runs in every cycle, and the requesters read their answers.
Fairness ==
  /\ WF_vars(Lookups) /\ WF_vars(FreeList) /\ WF_vars(Sender) /\ WF_vars(ReceiveUpd)
  /\ WF_vars(CamLookup) /\ WF_vars(CamUpdate) /\ WF_vars(RevTable)
  /\ \A c \in Sources : WF_vars(TakeRsp(c))
  /\ \A r \in Readers : WF_vars(TakeRevRsp(r))
  /\ WF_vars(TakePort)

FairSpec == Spec /\ Fairness

-----------------------------------------------------------------------------
(* Properties.                                                              *)

Ids(fifo) == {fifo[i].id : i \in DOMAIN fifo}
CamIds == {cam[t] : t \in Tuples} \ {None}

\* The number of times id s is found on its way through the controller: not yet
\* issued, free, recycled, about to be inserted, in use, or about to be deleted.
Times(fifo, s) == Cardinality({i \in DOMAIN fifo : fifo[i] = s})
Updates(fifo, s, op) ==
  Cardinality({i \in DOMAIN fifo : fifo[i].id = s /\ fifo[i].op = op})
Places(s) ==
  (IF s >= cur_session_id THEN 1 ELSE 0)
  + Times(available, s) + Times(released, s)
  + Updates(insert_req, s, "INSERT") + Updates(cam_upd, s, "INSERT")
  + Cardinality({t \in Tuples : cam[t] = s})
  - Updates(cam_upd, s, "DELETE")

\* Every session id is in exactly one place: no id is lost for good, and none
\* is on the free list (or twice on it) while a connection uses it.
IdsConserved == \A s \in Sessions : Places(s) = 1

\* The CAM never refuses an update: the controller ignores the success flag and
\* would hand out an id the CAM does not know, or leave a dead tuple in it.
CamUpdatesSucceed ==
  \A i \in DOMAIN cam_upd_rsp : cam_upd_rsp[i].success

\* The two tables agree: the tuple of a valid reverse entry maps to its id in the CAM,
\* and every id in the CAM has a valid entry, gets one, or is being deleted.
TablesAgree ==
  /\ \A s \in Sessions : valid_tuple[s] => cam[slookup_rev_table[s].tuple] = s
  /\ \A t \in Tuples : cam[t] # None =>
       \/ valid_tuple[cam[t]] /\ slookup_rev_table[cam[t]].tuple = t
       \/ cam[t] \in Ids(rev_insert) \cup Ids(insert_rsp) \cup Ids(cam_upd_rsp)
       \/ cam[t] \in Ids(delete_req) \cup Ids(cam_upd)

\* The session count register is the number of ids in use, up to the updates
\* that are on their way to the CAM.
OfKind(op) == Cardinality({i \in DOMAIN cam_upd : cam_upd[i].op = op})
SessionCount ==
  used_session_id_cnt = Cardinality(CamIds) + OfKind("INSERT") - OfKind("DELETE")

\* A requester that asks for the role of a session it was just given gets the
\* role, never INVALID_TDEST, unless the session is being released (and
\* possibly being created again for another tuple).
TdestKnown ==
  [][\A r \in {"rx_app", "tx_app"} :
       Len(rev_rsp'[r]) > Len(rev_rsp[r])
         => \/ Last(rev_rsp'[r]) # None
            \/ Head(rev_req[r]) \notin CamIds
            \/ Head(rev_req[r]) \in Ids(delete_req) \cup Ids(cam_upd)
                                      \cup Ids(cam_upd_rsp) \cup Ids(insert_rsp)]_vars

\* Every lookup is answered, also when the ids have run out.
LookupsAnswered ==
  \A c \in Sources : (lup_req[c] # <<>> \/ (slc.req # None /\ slc.req.source = c))
                        ~> (lup_req[c] = <<>> /\ slc.pc = "LUP_REQ")

\* The ids in the five processes: all well-formed, each in one place, and counted.
IdsAccounted == SlookupTypeOK /\ IdsConserved /\ SessionCount

\* CAM and reverse table follow each other, and no update that would separate them is refused.
MappingConsistent == TablesAgree /\ CamUpdatesSucceed
=============================================================================
