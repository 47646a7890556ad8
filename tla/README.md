# A TLA+ model of the TCP offload engine

This directory holds TLA+ specifications of the TCP offload engine (`src/hls/toe`), TLC
configurations that check them on small instances, and TLAPS proofs. `PROJECT.json` maps every
definition to the lines it models and lists the runs, their mutants, the findings, the hazards
and the theorems.

## The system

The engine is one HLS design. Every part is a `#pragma HLS DATAFLOW` process that runs once per
clock cycle; processes share no memory and talk through FIFOs (`hls::stream`) whose depth is
fixed in `toe.cpp`. A process that writes to a full FIFO stops until there is room. All tables
have one entry per session id (`TCP_MAX_SESSIONS`). Because nothing orders the processes, every
race of this design is a race of requests, answers and table entries in FIFOs.

| part | state | operations | talks to |
|---|---|---|---|
| `state_table` | state per session, two locks, three parked requests | read (locks) and write (unlocks) of rx engine and connection handler, read of the data handler, forced close by the timers, retries | rx engine, tx app interface, timers, session lookup |
| `session_lookup_controller` | free ids, tuple -> id (external CAM), id -> tuple and role | lookup, creation, release, reverse lookups | rx engine, tx engine, both app interfaces, state table, port table |
| `port_table` | listening ports and owners, lent ports, cursor | listen, lend a port, port check, port release | rx engine, both app interfaces, session lookup |
| `event_engine`, `ack_delay` | four 8-bit counters; a held-back ACK per session | merge events, gate those of timers and application, hold ACKs back | rx engine, timers, tx app interface, tx engine |
| `close_timer`, `probe_timer`, `retransmit_timer` | one entry per session, place of a scan | set, clear, tick and expiry | rx engine, tx engine, event engine, state table, app interfaces |
| `rx_engine` | parser, checks, FSM, payload dropper, notification handler | one segment at a time through a pipeline | all tables, data mover |
| `tx_engine` | FSM over events, header construction | one event at a time | SAR tables, timers, session lookup, data mover |
| `tx_app_intf` | connection handler, data handler, response handler | open, close, send | state table, port table, session lookup, tx SAR table, data mover |
| `rx_app_intf` | listen handler, data handler | listen, read | port table, rx SAR table, data mover |
| `rx_sar_table`, `tx_sar_table` | windows per session | read/modify/write by their clients | engines and app interfaces |
| `memory_access` | split of an access that wraps | write and read commands | data mover |
| `arp_server`, `packet_handler`, `icmp_server`, `ethernet_header_inserter` | ARP table; otherwise the current packet | | network |

What is hard: read-modify-write of one table entry by two engines over several cycles; locks
that are kept if one branch of a long FSM forgets a write; session ids that are reused while
requests for their former owner are under way; answers that are matched with requests by order
only; scans over timer tables that race with sets; counters that wrap; bounded FIFOs in cycles
of processes. `PROJECT.json` lists these hazards with their lines and the property for each.

## Modules

A step of a process is one action. Its guard is the code's condition together with room in
every FIFO the step writes. State that only exists in the specification says so (for
example `basis` of a state table request, which records what a write was computed from).

| module | models | environment |
|---|---|---|
| `StateTable` | `state_table()`, the control of `RxEngTcpFsm` at the table, `TxAppConnectionHandler` | segments, opens, closes, timeouts; the lookup controller as the set of free ids |
| `SessionLookup` | the five processes of the controller | lookups, creations, releases (repeated ones too), readers; the CAM is external |
| `PortTable` | `ListeningPortTable`, `FreePortTable`, `CheckInMultiplexer`, `CheckOutMultiplexer`, the opening of a connection | listens, SYNs, opens, releases |
| `EventPath` | `RxEngEventMerger`, `event_engine()`, `ack_delay()`, the tx engine's event reads | events of all sources |
| `ScanTimer` | `close_timer()` and `probe_timer()`: the same scan with the same register, told apart by the rigid variable `timer` | connections that enter TIME_WAIT, end and come back; senders that are blocked and acknowledged |
| `RetransmitTimer` | `retransmit_timer()` | sets, clears, the receiver of its events |
| `RxEngine` | the ten processes of `rx_engine()` a segment passes, from its words to the notification, with `WriteDataToMem` | packets; what the header says and the tables answer; the data mover is external |
| `TxEngine` | `TxEngTcpFsm` and `tx_sar_table()`, with the rx engine's read and write of the send window in its ACK and FIN+ACK branches, for one session | application, network that loses segments, peer that acknowledges late and may end the connection at any time, timers that expire at any time |
| `TxPacket` | the processes behind `TxEngTcpFsm`: four tuple, header, pseudo packet, checksum, IP packet | the segments the FSM emits; reverse table and memory answer |
| `TxApp` | `TxAppDataHandler`, `TxAppTableInterface`, `TxAppEventMerger`, `TxAppRspHandler`, `WriteDataToMem` by its commands | write requests, closes, late acknowledgements, writes that fail |
| `ReceivePath` | `rx_sar_table()`, `RxAppDataHandler`, the notification handlers, the read side of `memory_access`, both processes of the echo server | segments in and out of order and of the window, with and without FIN; acknowledgements of the echo; connections that end and come back |
| `RingBuffer` | abstract: what the buffer of a session promises in either direction | |
| `MC...` | the module on small instances | |
| `Sessions` | the session ids, common to the timers and the event path | |
| `...Proofs` | the theorems about `StateTable`, `SessionLookup`, `PortTable`, the timers and the event path (`TimerProofs`), `RxEngine`, `TxEngine`, `TxApp` and `ReceivePath` | |

`RingBuffer` is the abstract specification of a session's buffer: a byte is reserved, stored, told
of and given back, in this order, and no more than `Capacity` bytes are in between. `TxApp` and
`ReceivePath` are shown to implement it (`ImplementsRing`). The refinement mapping reads the four
counters from history variables; that the pointers of the tables, which wrap, and their late copies
in other processes respect them is what the runs check.

Lengths are small numbers of bytes (`TxEngine`, `TxApp`, `ReceivePath`), words of a packet
(`RxEngine`) or lanes of four bytes (`TxPacket`); pointers and sequence numbers keep their moduli
as constants. A lane or a byte is a value that says where it comes from, so that a mix-up shows.

### Deviations as state

Where the code leaves the rails, the module follows it and records the step in a history variable
(`deviation`, or `dropped` and `shared` in `PortTable`, `stale` in the timers, `strayed` in
`RetransmitTimer`, `ack_dropped` in `EventPath`). Properties that no
longer hold after such a step are stated for the behaviours before it (`Healthy`), and say so; in
the configurations with `CONSTRAINT UpToDeviation` TLC does not go on behind it. The list below names each.

Definitions marked *mutant* are not part of the specification: each is a plausible bug in the
definition that follows it, and the run that `PROJECT.json` names with it fails.

## Runs

| run | shows |
|---|---|
| `StateTable` | the locks exclude each other, a state that was read is not stale when its write is computed, states change along the diagram only; until a lock is leaked, parked requests never block each other and both clients are answered |
| `SessionLookup` | ids are neither lost nor doubled, CAM and reverse table agree, the role of a session is known to whoever was given the session, every lookup is answered |
| `PortTable` | port checks are answered, and in order; a port is lent once; a listening port has one owner; an open gets its port |
| `EventPath` | the token accounting is exact, the gate opens only when the path has drained and always opens again, a held-back ACK is sent, but for one of session 0 that a reset without a session has cleared |
| `ScanTimer` | an entry waits its full interval, the close timer closes the connection it was set for, TIME_WAIT ends, a blocked sender is tried again also if the event FIFO was full |
| `RetransmitTimer` | the exact number of retries, bytes are acknowledged or the session is given up (unless a scan past the end of the table has lost their expiry), timer and tx engine do not block each other |
| `RxEngine` | decisions and memory writes stay in step with the payloads, nothing is announced before it is stored, no payload stays in the pipeline |
| `TxEngine` | only written bytes are sent, inside the window, none is skipped, the FIN is last; the window moves forward only, until a FIN with an acknowledgement from outside the window; everything written is acknowledged in the end, although segments are lost, windows close and the peer sends its FIN |
| `TxPacket` | the parts of a segment meet again in one packet, a payload of up to a word is exact, the checksum covers what is sent, every packet leaves |
| `TxPacket_complete` (violation) | a payload of more than one word does not arrive in the packet as it was written |
| `TxApp` | the data path implements the abstract ring, an event goes on only with its bytes stored, a FIN only behind the data before it, every request is served and every accepted byte reaches the tx engine, unless an empty write stops the data mover |
| `ReceivePath` | the receive path implements the abstract ring, the echo is exact and complete, until a FIN brings bytes beyond the window; a segment inside a told window finds its room, and is taken unless it fills the room to the last byte; a told window is not taken back |

A property of a run is often a conjunction of named parts, each with its own comment in the module:
`IdsAccounted` of `SlookupTypeOK`, `IdsConserved` and `SessionCount`, `MappingConsistent` of
`TablesAgree` and `CamUpdatesSucceed`, `PortsOwned` of `PortTypeOK`, `ListenOwner` and `LentOnce`,
`TokensExact` of `EventTypeOK`, `CountersExact` and `DrainedMeansRoom`, `StreamsInStep` of `RxTypeOK`,
`DecisionsMatch` and `WritesMatch`, `SegmentsLegal` of `TxEngTypeOK`, `SentIsWritten` and `FinIsLast`,
`WindowInOrder` of `NoByteSkipped` and `AckdAdvances`, `WindowKept` of `ReceiveTypeOK`, `WindowHonest` and
`EdgeKept`, `PacketExact` of `TxPktTypeOK`, `HeadersMatch` and `PayloadExact`; and so for the liveness
properties `ClientsAnswered`, `RequestsAnswered`, `WaitsEnd`, `PayloadsHandled` and `AcceptedPublished`. The
type invariant of every module is a part of one of its properties (of `ExpiryExact`, `RetriesExact` and
`EventsExact` in the modules not named above).

The violation run states what the code's documentation says and the code does not do; the
finding in `PROJECT.json` quotes the line.

### Bounds

`MaxInputs` (`MaxReqs`, `MaxSegments`, `MaxBytes`, `MaxConns`, `MaxWritten`) bounds what arrives from
outside; everything inside runs to its end.

- `StateTable`, `SessionLookup`, `PortTable`: two sessions are the smallest number in which one
  session's lock blocks a request of another; three tuples for two ids, and more opens than ports,
  make the tables run out; FIFOs of one or two entries make full FIFOs common.
- `EventPath`: `CounterMod` keeps the relation of the 8-bit counters to the FIFO depths (an `ASSUME`).
- Timers: the times are shrunk and keep their order. `ScanTimer` needs three sessions, so that the
  scan passes others between two visits of one; `RetransmitTimer` a table of eight entries, because
  its scan skips five, and uses the sessions 2 and 7, so that the scan leaves the table at 7 and comes back
  at entry 2 under the id 10.
- `RxEngine`: two segments are what a shift of decisions needs; three words are a first, a middle and
  a last one, and the extra word of parser and writer comes on top. The payload FIFO holds exactly
  one packet, the least the code needs (`PayloadFitsAssumption`).
  The data mover reports every write here; `TxApp` has the empty one on which it hangs.
- `TxEngine`: three bytes in segments of two make a burst of two, one of them small (Nagle); a
  window of 0 or 3; sequence numbers start two before the wrap. The whole connection, SYN to both FINs,
  is in the run; once it is over (`DONE`) no acknowledgement is taken any more. `tx_after_fin` is not reached
  within these bounds.
- `TxApp`: writes of one and three bytes on a ring of four wrap after the second one; the event
  cache holds two.
- `ReceivePath`: segments of three and four bytes on a ring of eight with words of two, so that reads
  start inside a word, wrap and end at the end of the buffer; the peer may exceed the window by one
  byte; a second connection reuses the session; a connection scales its window or not. What was echoed is
  acknowledged by a segment of its own and all at once, and five bytes of echo may be unacknowledged, so
  that the echo of two segments waits for the peer. `words_lost` and the state in which everybody waits
  (`Stalled`) are not reached within these bounds.
- `TxPacket`: payload lengths on both sides of every boundary at which one of the three shifts needs
  an extra word, and two segments with FIFOs of two entries, so that parts of both wait together.
  The word FIFOs hold one packet, the least the code needs (`WordDepthAssumption`).

In runs that bound the inputs the system stops when they are used up, so there deadlock is not
checked; `NoMutualWait` and the liveness properties say what must not stop. The runs whose scans
never stop (`ScanTimer`, `RetransmitTimer`, `EventPath`) do check deadlock.

### Fairness

Each process runs in every clock cycle, so a step that stays possible is taken: weak fairness of
every process, of the external CAM and data mover (which does not come back from an access of no bytes),
and none of the inputs from outside. Two modules have strong fairness besides, of what comes from outside:

- `TxEngine`: the timers, the network and the peer. A timer that is set again and again expires again and
  again, a segment that is sent again and again arrives, and the peer opens its window and acknowledges
  what it has. Without it nothing would ever be acknowledged.
- `ReceivePath`: the acknowledgement of the echoed bytes (`LoadAck`). The peer acknowledges again and again
  until the rx engine takes one; it is not weakly fair only because other segments keep the engine busy in
  between. The step needs an idle rx engine, so the room for the echo depends on the path in
  front of the echo server: nothing else makes room, and whether the engine comes back is part of what
  `AllEchoed` says.

### Known deviations

Met while modelling. The modules describe the code as it is. In brackets: the value of `deviation`,
or the history variable, that marks the step.

State table, ports, timers:

- An ACK outside the send window is not followed by a write to the state table: the session stays
  locked and a close of it is never answered (`rx_engine.cpp:681` [`lock_leaked`]), although comments
  there ask for the write (`rx_engine.cpp:747`, `779`, `1047`).
- `state_table.cpp:97` releases a session on every write of CLOSED, also if it was closed already.
  The lookup controller ignores the second release, which `IdsConserved` checks.
- A timer can release an id while a segment of it is past the lookup and reopens the state
  (`state_table.cpp:126`).
- An open request that meets a used port under the cursor is dropped and the connection handler waits
  for ever (`port_table.cpp:108` [`dropped`]); the comments at lines 64 and 68 say otherwise.
- A lent port answers port checks like a listening one, so a SYN can create a second session with
  that local port; the first of the two to end frees it (`port_table.cpp:99` [`shared`]).
- An open that gets a port and no session keeps the port (`tx_app_intf.cpp:141`).
- A reset without a session carries id 0 and clears the held-back ACK of session 0
  (`ack_delay.cpp:28` [`ack_dropped`]), against the comment "Assumption no SYN/RST" there.
- A reset in TIME_WAIT does not stop the close timer; it closes the id's next connection
  (`close_timer.cpp:49` [`stale`]).
- A stop decided before newer bytes were sent stops their retransmission timer
  (`retransmit_timer.cpp:58` [`stale`, `stale_stop`]).
- A set near the end of the table moves the scan past it (`retransmit_timer.cpp:77`); the model
  reads the entry modulo the table size, as the RAM does, and keeps the id. If the entry expires in
  this visit, its event goes out under an id that is no session's, and the timer stays off [`strayed`].

Receive side:

- The FSM decides nothing about the payload of a SYN, SYN+ACK, RST or of an ACK outside the window;
  the next segment's decision is applied to it and all later ones shift (`rx_engine.cpp:681`
  [`undecided`]), against the comments at lines 794 and 1037.
- After a failed first write of two, the second status is taken for the next segment's
  (`rx_engine.cpp:1160`).
- `app_read` moves before the bytes are read, and a segment may be stored over them
  (`rx_app_intf.cpp:124` [`overwritten`]).
- Without window scaling the window of 18 bits is cut to the header's 16 (`rx_sar_table.cpp:48`,
  `rx_engine.cpp:812`), so a told window may be taken back; `EdgeKept` speaks of windows that fit.
- A read that wraps loses words if its first access has more than one (`memory_access.hpp:131`
  [`words_lost`]); one that ends exactly at the end of the buffer has a second access of length 0
  (`memory_access.hpp:40` [`empty_access`]), on which the data mover hangs, as the comment at
  `rx_app_intf.cpp:100` knows.
- The echo server tries a write to a closed connection again for ever (`echo_server.cpp:169`
  [`closed_retry`]); a SYN that reuses a session while its last reads are under way mixes both
  connections [`reused`].
- A segment with FIN is taken if it is in order, without a look at the room for its bytes: bytes beyond the
  window are stored over bytes that the application has not read (`rx_engine.cpp:953` to `1001`
  [`fin_overrun`]).
- The window told is all of the free space (`rx_sar_table.cpp:41`), but a segment is taken only if it leaves
  some (`rx_engine.cpp:704`): the one that fills the window is dropped, and sent again until the
  application has read. `WindowHonest` promises it the room and no more.
- The echo server gets room from acknowledgements that pass the rx engine, which waits in front of full
  notice FIFOs while the echo server waits for room (`echo_server.cpp:167`). `AllEchoed` excepts that
  state (`Stalled`).
- FIN_WAIT_1 and LAST_ACK end when the ACK equals `next_byte`, also before the own FIN was sent
  (`rx_engine.cpp:1018` [`closed_early`]).

Send side:

- A probe after the FIN computes a length of -1 (`tx_engine.cpp:131` [`tx_after_fin`]); a
  retransmission after the acknowledged FIN underflows (`tx_sar_table.cpp:92` [`rt_after_fin`]); a late
  retransmission of the SYN sends it again (`tx_engine.cpp:487` [`late_syn`]).
- The acknowledgement of a FIN+ACK is written to the table without the test of the window that other
  acknowledgements pass (`rx_engine.cpp:956`): one that came late moves `ackd` back, one that comes
  during a burst moves it past `not_ackd` [`unchecked_ack`].
- A write that ends exactly at the end of the ring is followed by one of no bytes (`memory_access.hpp:299`
  [`empty_write`]), on which the data mover hangs; the statuses of all later writes are missing then.
- What is left of a burst is kept in registers of 16 bits (`tx_engine.cpp:71`), while lengths and windows
  have 18 (`toe_config.hpp:23`): with 2^16 bytes or more in flight or to send, the next segment of the burst is
  computed from cut numbers (`tx_engine.cpp:176` [`length_cut`]). The run's `LenMod` is as large as its
  buffer, so it does not reach this step; the proofs cover both.
- A reset with a session leaves the table's answer for the next event (`tx_engine.cpp:635`
  [`answer_left`]).
- The second part of a retransmission takes its address from a default value (`tx_engine.cpp:393`).
- With a full event cache a FIN overtakes the data before it (`tx_app_intf.cpp:18`
  [`fin_overtakes`]); a failed first write of two shifts the statuses (`tx_app_intf.cpp:427`
  [`status_left`]); data is accepted after a close that the state lookup did not see
  (`tx_app_intf.cpp:306` [`late_data`]).
- A payload of more than one word is put together wrongly (`tx_engine.cpp:880`, run
  `TxPacket_complete`); missing braces cut a packet (`tx_engine.cpp:1105` [`cut`]).

## Proofs

Ten modules have their theorems in eight proof modules. They hold for every value of the constants:
every number of sessions, ports, tuples and segments, every depth of the FIFOs, every interval. They
rest on the module's named `ASSUME`s only (depths, table sizes and intervals are positive, `None` is no
value, a counter is wide enough for the FIFOs it counts, the payload FIFO holds a packet, a ring has
more than one byte, sequence numbers wrap at a multiple of the buffer and no two of a behaviour share
an offset), which TLC evaluates in the module's run. `TimerProofs` holds the
theorems about the timers and about `EventPath`, the way of their events.

| module | theorem | property |
|---|---|---|
| `StateTableProofs` | `TypeCorrect`, `LocksExclusive`, `ReadsFresh`, `NoDeadlock`, `DiagramFollowed` | `TypeOK`, `LockExclusion`, `ReadsStayFresh`, `NoMutualWait`, `StepsFollowDiagram` |
| `SessionLookupProofs` | `IdsAreAccounted`, `MappingStaysConsistent`, `TdestStaysKnown` | `IdsAccounted`, `MappingConsistent`, `TdestKnown` |
| `PortTableProofs` | `ChecksStayInOrder`, `PortsHaveOneOwner` | `ChecksInOrder`, `PortsOwned` |
| `TimerProofs` | `ExpiryIsExact`, `ReleasesOwn`, `RetriesAreExact`, `TokensAreExact` | `ExpiryExact`, `ReleasesItsOwn`, `RetriesExact`, `TokensExact` |
| `RxEngineProofs` | `StreamsStayInStep`, `NotifiedStaysStored` | `StreamsInStep`, `NotifiedIsStored` |
| `TxEngineProofs` | `TypeCorrect`, `SegmentsAreLegal`, `StaysWithinWindow`, `WindowStaysInOrder` | the types, `SegmentsLegal`, `WithinWindow`, `WindowInOrder` |
| `TxAppProofs` | `TypeCorrect`, `EventsExactCorrect`, `ImplementsRingCorrect`, `FinAfterDataCorrect` | the types, `EventsExact`, `ImplementsRing`, `FinAfterData` |
| `ReceivePathProofs` | `RingImplemented`, `EchoIsExact`, `WindowIsKept` | `ImplementsRing`, `EchoExact`, `WindowKept` |

No property is inductive as it stands; each proof has one lemma per action for the strengthening
`IInv`, and the theorem combines them. What the strengthenings say:

**State table.** Whether a lock is held depends on where the client's read or write is. `RxInv` and
`TxInv` are, for each client, a disjunction of the places its access can be: idle, queued (behind
writes only), parked, or answered. At most one of request FIFO, parked register and answer FIFO
carries the current read, the FSM waits for exactly the session of that read, and while it is
answered the session is locked and the table still has the state of the answer. `NoDeadlock` needs
`RxLockHeld` in addition: until an ACK outside the window leaks one, the rx engine holds a lock only
between the answer to its read and its write, so it never holds one while its next read is parked,
and no cycle of two parked requests arises. `DiagramFollowed` adds what the writes under way may
contain (`DInv`), computed from the state that `ReadsFresh` keeps in the table.

**Session lookup.** An id is a token: `OneOwner` says that over fresh and free ids, the FIFOs of
insertions and answers, the reverse table and the deletions each id occurs once. The CAM is one step
behind: the sender recycles an id together with its DELETE, so a new INSERT of the id can be in a FIFO
while the old entry is still in the CAM. `InCam` counts the DELETEs under way for that, and `InOrder`
(an INSERT is behind the DELETE its id came from) shows that the CAM has forgotten the id in time.
`Linked` says that what is under way names the id the CAM has for its tuple. `SessionCount` follows.

**Port table.** `OrderKept` reads the list of checks as answered, awaited, sent and waiting ones.
The checks of one table are a subsequence of that list: `TableInStep` states it by a map from the
requests and answers of the table to places in the list that keeps the order. The multiplexer reads the
table `check_dst` names, the first place of that table is the first check not answered, and the
answers cannot overtake each other. For listening ports an answer under way stays true until it is read
(`ListenInv`); `LentOnce` is inductive.

**Event path.** The four counters wrap, so `CountersExact` is an equation of residues. With the depths
of the FIFOs the sums stay below twice the modulus, and equal residues mean equal numbers up to one
wrap (`SameResidue`). That is where `CounterModAssumption` is used.

**Timers.** `Counted`: what a running entry has been visited for and the time left in it make up its
interval, also across the register of the previous set and the visit of that same entry. `Pending`: the
wait of a connection that was not reset in TIME_WAIT is in at most one of set FIFO, register, table and
FIFO of expired sessions, and only in TIME_WAIT. `RetransmitTimer` counts by `CountsAgree`, which holds
although the scan leaves the table.

**Receive pipeline.** The types (`TInv`) hold always, `Core` while no segment has passed undecided.
Ten processes exchange twenty FIFOs, and the code matches what they hold by order. `Core` says this
in two parts that are proved action by action:

- `Ordered`: there are sixteen marks, the numbers of the last segment (or access) each process has
  taken or passed on, such that every FIFO is in order and lies between the marks of its reader and its
  writer. A read moves the reader's mark to the entry read, a write puts an entry at the writer's mark.
- `Matches`: for every pair of streams that is matched by order, both are about the same set of
  segments: payloads and checksum decisions, kept payloads and decisions of the meta handler, and so on
  to statuses and the flags that say how many of them a notification waits for.

Two streams in order about the same set agree in their first entries, since both are the
minimum of that set; this is why the code may match them by order. A decision that is missing (an
undecided segment) breaks `Matches` and nothing else, which shows that it is the only cause. The last
match, of statuses and notifications, holds while no write has failed. Words, commands and statuses of
the data mover carry a tag of the specification that says which access of which segment they belong
to; no guard reads it.

**Transmit engine.** The code counts modulo 2^32 in the table and modulo the buffer in `app_written` and all
lengths; the properties speak of offsets from the initial sequence number. The first lemmas connect the two:
below `SeqMod` an offset and its number determine each other (`OffFacts`, `OffPlus`), and a wrapped
difference is the true one if that is less than the buffer (`LowOff` and the lemmas behind it). The types
(`TInv`) hold always, also after a deviation. `Core`, as long as the engine is on the rails, keeps the order
`AckedTo <= NotedTo <= sent <= WrittenTo + 1` (`WindowInv`) and says what every process knows of it:

- The table applies requests in order, so a write of `not_ackd` under way must still go forward when it
  arrives (`PendingInv`), and a SYN's write must come before anything else (`StartInv`, `EventInv`: an opening
  connection has events for SYNs and resets only, and a SYN is not repeated before the first was sent).
- One answer serves a whole burst. `ackd`, the window and `app_written` move on meanwhile, so the
  answer is out of date, but in one direction only: its `ackd` and its right edge lie at or before those of the
  table (`WindowOf`), the registers divide its window into what is in flight and what fits (`Budget`),
  and what is left to send ends where the application had written when the table answered (`Unsent`).
  `FreshInv` says this of an answer in the FIFO, `BurstInv` of the one in the registers. Only the
  tx engine writes `not_ackd`, and it asks again only after its write (`QueueInv`): that is
  why no lock is needed.
- `RtInv` and `FinInv` say the same of a retransmission, which starts at an older `ackd` and ends at
  `not_ackd` without the FIN, and of a FIN, which leaves only when everything written was sent.
- The rx engine writes the `ackd` it was given if that lies in the window it read cycles before:
  `RxInv` says that this window is still inside the table's.

`NoByteSkipped` and `AckdAdvances` are properties of steps; they hold also of a step that takes the engine off
the rails, so they are proved from `Core` before the step alone. Only the step that writes an unchecked
acknowledgement (`unchecked_ack`) is excepted in `AckdAdvances`; as long as the acknowledgement of a FIN lies in
the window, that branch keeps `Core` like the other one.

**Transmit data path.** `ImplementsRingCorrect` is a refinement: the initial states of `TxApp` are
initial states of `RingBuffer`, and every step of the data path is a step of the ring or leaves it
alone. `Accept` is `Reserve`, a report of the data mover is `Store`, the update of `tx_sar_table` is
`Publish`, an acknowledgement is `Ack`; all others stutter. `reserved`, `stored`, `published`, `acked`
and the list `accepted` of the writes are history that no guard of the engine reads, so the proof has to
connect them with what the code keeps: pointers modulo the size of the ring, one copy of `ackd` that
is late, and events, flags, commands and statuses with no reference to each other. `IInv` has these parts:

- `Order`, until a failed first write leaves its second status behind: all that is under way is about
  the accepted writes in their order. It is enough to number them and to say how far each process
  has come (`Begun`, `Issued`, `Done`, `Merged`, `Taken`, `Finished`); a queue then holds the writes
  between two of these numbers. `Item(i)` lists the statuses and the accesses of the data mover, one or two
  per write, without a gap. A failed write shows in a status that the handler has not read yet (`BadShown`).
  `EventsExact` follows.
- `Bytes`, until a write fails: the accepted writes of a session lie one behind the other, they are stored
  in this order, and an update for `tx_sar_table` names the end of a write that is stored.
- `Space`, until a write fails: where the pointers are, modulo the ring. The handler refuses when the wrapped
  difference is too small, so an accepted write fits into the ring only if the true difference is known to
  be less than the ring's size (`RCounts`), the pointer it starts from includes all accepted writes
  (`RIdeal`: or the write of it is in front of the read in the table's FIFO), and the copy of `ackd` was
  true at some moment (`RAnswer`). `RInits` says that the first update of a connection is in the table
  before its first request is answered.
- `Fins`, until a write fails or one of the named deviations happens: behind a FIN in the event cache there
  is no write of its session. `FinAfterData` needs it and `Bytes`.

**Receive path.** `RingImplemented` maps the step that takes the bytes of a segment (`Transition`) to `Reserve` (a
FIN without bytes and a refused segment stutter), a status of
the data mover (`Store`) to `Store`, the notification of the application (`NotifySend`) to `Publish` and the
write of `app_read` to `Ack`. The proof follows the bytes of a session by their numbers. What waits between two
processes is a chain (`Linked`): each notice begins with the byte behind the last one of its session. Four
chains, one behind the other, cover the bytes from the echoed to the accepted ones (`ChainInv`): `Taken`
by the application, `Todo`, `Told` on the way to it, and the payloads that wait for the data mover. A
notice says for that at which byte it begins (`at`); no guard reads it. `IInv`, until the first
deviation, adds to them:

- `ReadInv`: the application, the data handler, the table and the data mover take turns, so there is at most
  one read under way and it is about the notice the application has taken.
- `SpaceInv`: accepted and not yet given back are at most `BufMod - 1` bytes, and so is the window the peer
  was told. `TableInv` connects this with the two pointers of the table, which wrap: `app_read` stands for
  the bytes given back, `recvd`, as long as the connection is open, for those accepted up to a write under way
  (a FIN counts as one byte more). `SegInv` is about the
  answer a segment is judged by, which is out of date: it may know of fewer bytes given back, never
  of more, and of all bytes accepted, because the rx engine asks behind its own write (`EngInv`).
- `MemInv`, `PlaceInv`, `DataInv` and `EchoInv`: the bytes from `ReadTo` to `stored` are in the memory at
  their places, and what one access or two have read of them is what the notice is about.

A SYN starts both pointers anew with nothing of the session under way; otherwise it is the deviation `reused`.

### Only model-checked

- `TxPacket` (`PacketExact`, `ChecksumCovers`).
- All liveness properties: the prover handles neither fairness nor ENABLED.

## Not modelled

- ARP, ICMP, packet handler, Ethernet header inserter: beside the engine, with no state the engine
  depends on. iperf2 and the vendor's MAC: traffic generation and generated code. `hash_table`: not
  instantiated by the engine. Test support.
- The TCP options parser, the byte realignment inside a word of a broken-down write, the arithmetic of
  the checksum, and the build variants `TCP_NODELAY` and `TCP_RX_DDR_BYPASS`.
- `toe.cpp` is wiring: each module takes from it which process reads and writes which stream. The
  engines are composed where they share a table; the engine as a whole is out of TLC's reach.

## Plan

1. Done: state table, lookup controller, port table, event path, timers, receive pipeline, tx engine
   with the SAR tables, packet construction, both application interfaces, the abstract ring and
   the two refinements; the first proofs.
2. Done: the proofs about the state table, lookup controller, port table, event path, timers,
   receive pipeline, tx engine, transmit data path and receive path, with the refinements of the ring.
3. Next: `PacketExact` and `ChecksumCovers` of `TxPacket`.
