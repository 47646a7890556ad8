----------------------------- MODULE RingBuffer -----------------------------
(***************************************************************************)
(* What the buffers of a session promise, in both directions: a ring of    *)
(* Capacity bytes that pass four stages.  In the send buffer a write of    *)
(* the application reserves room, its bytes are stored, the tx engine is   *)
(* told of them and the peer acknowledges them.  In the receive buffer an  *)
(* accepted segment reserves room, its bytes are stored, the application   *)
(* is notified and reads them.  The stages keep their order and their      *)
(* distance until the memory path fails.  The counters count bytes from    *)
(* the start of the connection and do not wrap.                            *)
(***************************************************************************)
EXTENDS Integers

CONSTANTS
  Sessions,
  Capacity   \* the size of the buffer - 1

VARIABLES reserved, stored, published, acked, failed

vars == <<reserved, stored, published, acked, failed>>
Zero == [s \in Sessions |-> 0]

Init ==
  /\ reserved = Zero /\ stored = Zero /\ published = Zero /\ acked = Zero
  /\ failed = FALSE

\* Room is given only where every byte has left the buffer.
Reserve(s) ==
  /\ reserved'[s] > reserved[s] /\ reserved'[s] - acked[s] <= Capacity
  /\ reserved' = [reserved EXCEPT ![s] = reserved'[s]]
  /\ UNCHANGED <<stored, published, acked>>

\* Bytes are stored in order, in room that was reserved.
Store(s) ==
  /\ stored'[s] >= stored[s] /\ stored'[s] <= reserved[s]
  /\ stored' = [stored EXCEPT ![s] = stored'[s]]
  /\ UNCHANGED <<reserved, published, acked>>

\* The other side is told only of stored bytes.
Publish(s) ==
  /\ published'[s] > published[s] /\ published'[s] <= stored[s]
  /\ published' = [published EXCEPT ![s] = published'[s]]
  /\ UNCHANGED <<reserved, stored, acked>>

\* The other side has them: their room is free again.
Ack(s) ==
  /\ acked'[s] > acked[s] /\ acked'[s] <= published[s]
  /\ acked' = [acked EXCEPT ![s] = acked'[s]]
  /\ UNCHANGED <<reserved, stored, published>>

Next ==
  \/ failed'
  \/ ~failed' /\ \E s \in Sessions : Reserve(s) \/ Store(s) \/ Publish(s) \/ Ack(s)

Spec == Init /\ [][Next]_vars
=============================================================================
