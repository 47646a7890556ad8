------------------------------- MODULE PortTable -------------------------------
(***************************************************************************)
(* port_table.cpp: the table of listening ports, the table of ports lent   *)
(* to active opens, and the two multiplexers that send the rx engine's     *)
(* port checks to the right table and merge the answers.  With it the two  *)
(* processes that ask for ports: RxAppPortHandler (listen) and the first   *)
(* half of TxAppConnectionHandler (active open).                           *)
(*                                                                         *)
(* A port number has 16 bits; bit 15 tells the two tables apart.  Here a   *)
(* listening port is <<"listen", i>> and a lent one <<"free", i>>.         *)
(***************************************************************************)
EXTENDS Naturals, Sequences, FiniteSets

CONSTANTS
  ListenCount,   \* LISTENING_PORT_CNT (2^15)
  FreeCount,     \* FREE_PORT_CNT (2^15), the range of the 15-bit cursor
  Roles,         \* TDESTs of the applications
  None,
  Depth,         \* capacity of every FIFO
  SessionIds,    \* number of sessions the lookup controller can create
  MaxInputs      \* bound on the number of inputs from outside

ASSUME PortCountAssumption == ListenCount \in Nat \ {0} /\ FreeCount \in Nat \ {0}
ASSUME PortDepthAssumption == Depth \in Nat \ {0}
ASSUME PortNoneAssumption == None \notin Roles
ASSUME PortInputsAssumption == MaxInputs \in Nat /\ SessionIds \in Nat

ListenPorts == {"listen"} \X (0 .. ListenCount - 1)
FreePorts   == {"free"} \X (0 .. FreeCount - 1)
Ports       == ListenPorts \cup FreePorts
Tables      == {"listen", "free"}

VARIABLES
  listening_port_table,   \* [0..ListenCount-1 -> role of the open port, or None]
  free_port_table,        \* [0..FreeCount-1 -> [is_open, role_id]]
  pt_cursor,
  listen_req, listen_rsp, \* rx app <-> table
  port_fsm,               \* RxAppPortHandler: WAIT_NET or WAIT_PTABLE
  opened,                 \* [0..ListenCount-1 -> role that was told it opened the port, or None]
  check_req,              \* rx_eng_to_ptable_check_req
  table_req, table_rsp,   \* [Tables -> FIFO]: ptable_check_{listening,used}_{req,rsp}_fifo
  check_dst,              \* ptable_check_dst_fifo
  mux,                    \* CheckOutMultiplexer: READ_DST or the table it waits for
  check_rsp,              \* ptable_to_rx_eng_check_rsp
  asked,                  \* ports the rx engine has asked about and not yet read the answer
  port_req, port_rsp,     \* tx app <-> FreePortTable
  tx_app_wait_for_free_port_lock,
  live,                   \* [Ports -> number of sessions with that local port]
  release_req,            \* slookup_to_ptable_release_port_req
  dropped,                \* history: has FreePortTable dropped an open request?
  shared,                 \* history: ports that were lent and got a session by a SYN
  inputs

listenVars == <<listening_port_table, listen_req, listen_rsp, port_fsm, opened>>
checkVars  == <<check_req, table_req, table_rsp, check_dst, mux, check_rsp, asked>>
freeVars   == <<free_port_table, pt_cursor, port_req, port_rsp,
                tx_app_wait_for_free_port_lock, live, release_req,
                dropped, shared>>
vars == <<listenVars, checkVars, freeVars, inputs>>

\* The answers carry the port they are about, which the code does not.
CheckRsp  == [port : Ports, is_open : BOOLEAN]
ListenRsp == [port : Ports, dest : Roles, open_successfully : BOOLEAN]

PortTypeOK ==
  /\ listening_port_table \in [0 .. ListenCount - 1 -> Roles \cup {None}]
  /\ free_port_table \in [0 .. FreeCount - 1 -> [is_open : BOOLEAN, role_id : Roles \cup {None}]]
  /\ pt_cursor \in 0 .. FreeCount - 1
  /\ listen_req \in Seq(Ports \X Roles) /\ listen_rsp \in Seq(ListenRsp)
  /\ port_fsm \in {"WAIT_NET", "WAIT_PTABLE"}
  /\ opened \in [0 .. ListenCount - 1 -> Roles \cup {None}]
  /\ check_req \in Seq(Ports) /\ asked \in Seq(Ports)
  /\ table_req \in [Tables -> Seq(Nat)] /\ table_rsp \in [Tables -> Seq(CheckRsp)]
  /\ check_dst \in Seq(Tables) /\ mux \in {"READ_DST"} \cup Tables
  /\ check_rsp \in Seq(CheckRsp)
  /\ port_req \in Seq(Roles) /\ port_rsp \in Seq(0 .. FreeCount - 1)
  /\ tx_app_wait_for_free_port_lock \in BOOLEAN
  /\ live \in [Ports -> 0 .. SessionIds]
  /\ release_req \in Seq(Ports)
  /\ dropped \in BOOLEAN /\ shared \subseteq FreePorts
  /\ inputs \in 0 .. MaxInputs

Init ==
  /\ listening_port_table = [p \in 0 .. ListenCount - 1 |-> None]
  /\ free_port_table = [p \in 0 .. FreeCount - 1 |-> [is_open |-> FALSE, role_id |-> None]]
  /\ pt_cursor = 0
  /\ listen_req = <<>> /\ listen_rsp = <<>> /\ port_fsm = "WAIT_NET"
  /\ opened = [p \in 0 .. ListenCount - 1 |-> None]
  /\ check_req = <<>> /\ table_req = [t \in Tables |-> <<>>]
  /\ table_rsp = [t \in Tables |-> <<>>]
  /\ check_dst = <<>> /\ mux = "READ_DST" /\ check_rsp = <<>> /\ asked = <<>>
  /\ port_req = <<>> /\ port_rsp = <<>> /\ tx_app_wait_for_free_port_lock = FALSE
  /\ live = [p \in Ports |-> 0] /\ release_req = <<>>
  /\ dropped = FALSE /\ shared = {}
  /\ inputs = 0

Room(fifo) == Len(fifo) < Depth

-----------------------------------------------------------------------------
(* ListeningPortTable: listen requests before checks.  A port with bit 15    *)
(* set cannot be listened on.                                               *)

ListenOk(port) == port \in ListenPorts /\ listening_port_table[port[2]] = None

Listen ==
  /\ listen_req # <<>> /\ Room(listen_rsp)
  /\ LET port == Head(listen_req)[1]
         dest == Head(listen_req)[2]
         ok   == ListenOk(port)
     IN /\ listening_port_table' = IF ok THEN [listening_port_table EXCEPT ![port[2]] = dest]
                                   ELSE listening_port_table
        /\ listen_rsp' = Append(listen_rsp, [port |-> port, dest |-> dest,
                                             open_successfully |-> ok])
  /\ listen_req' = Tail(listen_req)
  /\ UNCHANGED <<port_fsm, opened, checkVars, freeVars, inputs>>

CheckListening ==
  /\ listen_req = <<>>
  /\ table_req["listen"] # <<>> /\ Room(table_rsp["listen"])
  /\ LET p == Head(table_req["listen"]) IN
     table_rsp' = [table_rsp EXCEPT !["listen"] = Append(@,
       [port |-> <<"listen", p>>, is_open |-> listening_port_table[p] # None])]
  /\ table_req' = [table_req EXCEPT !["listen"] = Tail(@)]
  /\ UNCHANGED <<listenVars, check_req, check_dst, mux, check_rsp, asked, freeVars, inputs>>

-----------------------------------------------------------------------------
(* FreePortTable: releases, then checks, then requests for a free port.      *)

\* The port of any session that ends is released; only lent ports are in the table.
ReleasePort ==
  /\ release_req # <<>>
  /\ LET port == Head(release_req) IN
     free_port_table' = IF port \in FreePorts
                        THEN [free_port_table EXCEPT ![port[2]].is_open = FALSE]
                        ELSE free_port_table
  /\ release_req' = Tail(release_req)
  /\ UNCHANGED <<listenVars, checkVars, pt_cursor, port_req, port_rsp,
                 tx_app_wait_for_free_port_lock, live, dropped, shared, inputs>>

CheckUsed ==
  /\ release_req = <<>>
  /\ table_req["free"] # <<>> /\ Room(table_rsp["free"])
  /\ LET p == Head(table_req["free"]) IN
     table_rsp' = [table_rsp EXCEPT !["free"] = Append(@,
       [port |-> <<"free", p>>, is_open |-> free_port_table[p].is_open])]
  /\ table_req' = [table_req EXCEPT !["free"] = Tail(@)]
  /\ UNCHANGED <<listenVars, check_req, check_dst, mux, check_rsp, asked, freeVars, inputs>>

LendableAlways == Room(port_rsp)                   \* mutant: is_open not tested
Lendable == ~free_port_table[pt_cursor].is_open /\ Room(port_rsp)

\* The 15-bit cursor wraps.
NextCursor == (pt_cursor + 1) % FreeCount

\* The port under the cursor is lent if it is free and the answer fits;
\* otherwise the request is dropped.  The cursor moves on either way.
LendPort ==
  /\ release_req = <<>> /\ table_req["free"] = <<>> /\ port_req # <<>>
  /\ IF Lendable
     THEN /\ free_port_table' = [free_port_table EXCEPT ![pt_cursor] =
                                   [is_open |-> TRUE, role_id |-> Head(port_req)]]
          /\ port_rsp' = Append(port_rsp, pt_cursor)
     ELSE UNCHANGED <<free_port_table, port_rsp>>
  /\ pt_cursor' = NextCursor
  /\ dropped' = (dropped \/ ~Lendable)
  /\ port_req' = Tail(port_req)
  /\ UNCHANGED <<listenVars, checkVars, tx_app_wait_for_free_port_lock, live, release_req,
                 shared, inputs>>

-----------------------------------------------------------------------------
(* The multiplexers.                                                        *)

CheckIn ==
  /\ check_req # <<>> /\ Room(check_dst)
  /\ LET t == Head(check_req)[1] IN
     /\ Room(table_req[t])
     /\ table_req' = [table_req EXCEPT ![t] = Append(@, Head(check_req)[2])]
     /\ check_dst' = Append(check_dst, t)
  /\ check_req' = Tail(check_req)
  /\ UNCHANGED <<listenVars, table_rsp, mux, check_rsp, asked, freeVars, inputs>>

\* Mutant: the answer that is there first is taken first.
CheckOutReadAny ==
  /\ mux = "READ_DST" /\ check_dst # <<>>
  /\ mux' \in {t \in Tables : table_rsp[t] # <<>>}
  /\ check_dst' = Tail(check_dst)
  /\ UNCHANGED <<listenVars, check_req, table_req, table_rsp, check_rsp, asked, freeVars,
                 inputs>>

CheckOutReadDst ==
  /\ mux = "READ_DST" /\ check_dst # <<>>
  /\ mux' = Head(check_dst)
  /\ check_dst' = Tail(check_dst)
  /\ UNCHANGED <<listenVars, check_req, table_req, table_rsp, check_rsp, asked, freeVars,
                 inputs>>

CheckOutRead(t) ==
  /\ mux = t /\ table_rsp[t] # <<>> /\ Room(check_rsp)
  /\ check_rsp' = Append(check_rsp, Head(table_rsp[t]))
  /\ table_rsp' = [table_rsp EXCEPT ![t] = Tail(@)]
  /\ mux' = "READ_DST"
  /\ UNCHANGED <<listenVars, check_req, table_req, check_dst, asked, freeVars, inputs>>

-----------------------------------------------------------------------------
(* The processes that use the table.                                        *)

\* RxAppPortHandler, WAIT_NET: an application asks to listen.
ListenReq(port, dest) ==
  /\ inputs < MaxInputs
  /\ port_fsm = "WAIT_NET" /\ Room(listen_req)
  /\ listen_req' = Append(listen_req, <<port, dest>>)
  /\ port_fsm' = "WAIT_PTABLE"
  /\ inputs' = inputs + 1
  /\ UNCHANGED <<listening_port_table, listen_rsp, opened, checkVars, freeVars>>

\* RxAppPortHandler, WAIT_PTABLE: the application gets the answer.
ListenRspRead ==
  /\ port_fsm = "WAIT_PTABLE" /\ listen_rsp # <<>>
  /\ listen_rsp' = Tail(listen_rsp)
  /\ LET rsp == Head(listen_rsp) IN
     opened' = IF rsp.open_successfully /\ rsp.port \in ListenPorts
               THEN [opened EXCEPT ![rsp.port[2]] = rsp.dest] ELSE opened
  /\ port_fsm' = "WAIT_NET"
  /\ UNCHANGED <<listening_port_table, listen_req, checkVars, freeVars, inputs>>

\* The sessions in use, each told apart by its number among those of its local port;
\* the lookup controller refuses to go beyond SessionIds.
Sessions == {s \in Ports \X (1 .. SessionIds) : s[2] <= live[s[1]]}
SessionCount == Cardinality(Sessions)
NewSession(port) ==
  IF SessionCount < SessionIds THEN [live EXCEPT ![port] = @ + 1] ELSE live

\* RxEngVerifyChecksumAndPort asks, RxEngTcpMetaHandler reads the answer; a SYN to
\* an open port asks the lookup controller for a session.
CheckReq(port) ==
  /\ inputs < MaxInputs
  /\ Room(check_req)
  /\ check_req' = Append(check_req, port)
  /\ asked' = Append(asked, port)
  /\ inputs' = inputs + 1
  /\ UNCHANGED <<listenVars, table_req, table_rsp, check_dst, mux, check_rsp, freeVars>>

CheckRspRead(syn) ==
  /\ check_rsp # <<>>
  /\ check_rsp' = Tail(check_rsp)
  /\ asked' = Tail(asked)
  /\ live' = IF syn /\ Head(check_rsp).is_open THEN NewSession(Head(asked)) ELSE live
  /\ shared' = IF live' # live /\ Head(asked) \in FreePorts
               THEN shared \cup {Head(asked)} ELSE shared
  /\ UNCHANGED <<listenVars, check_req, table_req, table_rsp, check_dst, mux,
                 free_port_table, pt_cursor, port_req, port_rsp,
                 tx_app_wait_for_free_port_lock, release_req, dropped, inputs>>

\* TxAppConnectionHandler: an open request waits for a free port ...
OpenConn(role) ==
  /\ inputs < MaxInputs
  /\ ~tx_app_wait_for_free_port_lock /\ Room(port_req)
  /\ port_req' = Append(port_req, role)
  /\ tx_app_wait_for_free_port_lock' = TRUE
  /\ inputs' = inputs + 1
  /\ UNCHANGED <<listenVars, checkVars, free_port_table, pt_cursor, port_rsp, live,
                 release_req, dropped, shared>>

\* Mutant: the handler keeps waiting.
PortRspReadWaits ==
  /\ tx_app_wait_for_free_port_lock /\ port_rsp # <<>>
  /\ port_rsp' = Tail(port_rsp)
  /\ live' = NewSession(<<"free", Head(port_rsp)>>)
  /\ UNCHANGED <<listenVars, checkVars, free_port_table, pt_cursor, port_req, release_req,
                 tx_app_wait_for_free_port_lock, dropped, shared, inputs>>

\* ... and asks the lookup controller for a session with it, which it gets while
\* there is a session id; without one the open fails and the port is forgotten.
PortRspRead ==
  /\ tx_app_wait_for_free_port_lock /\ port_rsp # <<>>
  /\ port_rsp' = Tail(port_rsp)
  /\ tx_app_wait_for_free_port_lock' = FALSE
  /\ live' = NewSession(<<"free", Head(port_rsp)>>)
  /\ UNCHANGED <<listenVars, checkVars, free_port_table, pt_cursor, port_req, release_req,
                 dropped, shared, inputs>>

\* SlookupReverseTableInterface: a session is released and its port with it.
SessionReleased(port) ==
  /\ live[port] > 0 /\ Room(release_req)
  /\ live' = [live EXCEPT ![port] = @ - 1]
  /\ release_req' = Append(release_req, port)
  /\ UNCHANGED <<listenVars, checkVars, free_port_table, pt_cursor, port_req, port_rsp,
                 tx_app_wait_for_free_port_lock, dropped, shared, inputs>>

FreeTable   == ReleasePort \/ CheckUsed \/ LendPort
ListenTable == Listen \/ CheckListening
CheckOut    == CheckOutReadDst \/ \E t \in Tables : CheckOutRead(t)
Environment ==
  \/ \E port \in Ports, dest \in Roles : ListenReq(port, dest)
  \/ \E port \in Ports : CheckReq(port)
  \/ \E role \in Roles : OpenConn(role)
  \/ \E port \in Ports : SessionReleased(port)
ReadCheck   == \E syn \in BOOLEAN : CheckRspRead(syn)

Next == FreeTable \/ ListenTable \/ CheckIn \/ CheckOut
        \/ ListenRspRead \/ ReadCheck \/ PortRspRead \/ Environment

Spec == Init /\ [][Next]_vars

\* Every process runs in every cycle; nothing is assumed about the applications
\* and the peers.
Fairness == /\ WF_vars(FreeTable) /\ WF_vars(ListenTable) /\ WF_vars(CheckIn)
            /\ WF_vars(CheckOut)  /\ WF_vars(ListenRspRead)
            /\ WF_vars(ReadCheck) /\ WF_vars(PortRspRead)
FairSpec == Spec /\ Fairness

-----------------------------------------------------------------------------
(* Properties.                                                              *)

\* The rx engine pairs answers with segments by their order alone, so the
\* answers of the two tables must come back in the order of the requests.
ChecksInOrder ==
  /\ Len(check_rsp) <= Len(asked)
  /\ \A i \in DOMAIN check_rsp : check_rsp[i].port = asked[i]

\* A port is lent to one open at a time: the ports answered, in use by a session
\* and on their way back are all different, and all marked in use, so that no two
\* connections ever share a local port the table gave out.  The table answers that
\* a lent port is open, so a peer's SYN to it makes a second session on it, with
\* which the port is released twice: such ports (shared) are left out.
Holders(p) == live[<<"free", p>>]
              + Cardinality({i \in DOMAIN port_rsp : port_rsp[i] = p})
              + Cardinality({i \in DOMAIN release_req : release_req[i] = <<"free", p>>})
LentOnce ==
  \A p \in 0 .. FreeCount - 1 : <<"free", p>> \notin shared =>
    Holders(p) <= 1 /\ (Holders(p) = 1 => free_port_table[p].is_open)

\* An application that was told it opened a port owns the port from then on, and
\* no application is told so about a port that active opens use.
ListenOwner ==
  /\ \A p \in 0 .. ListenCount - 1 : opened[p] # None => listening_port_table[p] = opened[p]
  /\ \A i \in DOMAIN listen_rsp :
       listen_rsp[i].open_successfully => listen_rsp[i].port \in ListenPorts

\* Every port check is answered, also while other requests have priority.
ChecksAnswered == (asked # <<>>) ~> (asked = <<>>)

\* An open request gets a port: the handler that waits for one, and accepts no
\* other open request meanwhile, goes on, unless the request met a used port under
\* the cursor: FreePortTable then drops it without an answer.
OpenGetsPort ==
  tx_app_wait_for_free_port_lock ~> (dropped \/ ~tx_app_wait_for_free_port_lock)

\* Ports have one owner each: a listening port the application that was told so, a lent
\* port one connection.
PortsOwned == PortTypeOK /\ ListenOwner /\ LentOnce

\* The port table owes two clients an answer, the rx engine and the connection handler.
RequestsAnswered == ChecksAnswered /\ OpenGetsPort
=============================================================================
