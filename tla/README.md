# Verified models of the NetSim protocol libraries

NetSim is a discrete-event network simulator.  Each protocol of the repository is
a C library loaded by a closed kernel; the kernel owns the event list, delivers one
event at a time to `fn_NetSim_<PROTOCOL>_Run`, and runs until the list is empty.
The libraries are in `src/Defense_Workspace_v12_2/src/Simulation/<PROTOCOL>`
(`src/Industry_Workspace…` holds an identical copy of the shared ones); every path
below is relative to that directory.

This directory holds TLA+ models of the libraries, TLC configurations that check
them on small instances, and proofs checked by TLAPS.  It covers **TCP** (connections
and transfer, and congestion control), **AODV** (on-demand routing in ad hoc networks),
**OSPF** (adjacencies and database synchronisation) and the **spanning tree** of Ethernet
switches.

| file | what it is |
|---|---|
| `TCP.tla` | the two endpoints of a TCP connection, their timers and the network |
| `Stream.tla` | what TCP promises to two applications: two reliable streams |
| `TCPStream.tla` | the refinement mapping from `TCP` to `Stream` |
| `MCTCP.tla`, `TCP_*.cfg` | instances of `TCP` for TLC |
| `TCP_proof.tla` | invariants of `TCP` proved for every value of the constants |
| `TCP_states_proof.tla` | its action properties: the diagram and the pointers |
| `TCPStream_proof.tla` | the refinement of `Stream`, and what relates the two ends |
| `Congestion.tla`, `Congestion_*.cfg` | one congestion-controlled sender, and its instances |
| `Congestion_proof.tla` | invariants of `Congestion`, proved likewise |
| `AODV.tla` | route discovery, route errors and packet forwarding of all nodes |
| `MCAODV.tla`, `AODV_*.cfg` | instances of `AODV` |
| `AODV_proof.tla` | invariants of `AODV`: loop freedom, and every packet in one place |
| `OSPF.tla` | neighbours, database exchange and flooding of all routers |
| `MCOSPF.tla`, `OSPF_*.cfg` | an instance of `OSPF` |
| `OSPF_proof.tla` | invariants of `OSPF` on any network |
| `OSPF_tree_proof.tla` | `OSPF` on a tree: events handled, databases that agree and never go back |
| `SpanningTree.tla` | the BPDU exchange of the switches of a network |
| `MCSpanningTree.tla`, `SpanningTree_settle.cfg` | an instance of `SpanningTree` |
| `SpanningTree_proof.tla` | what `SpanningTree` ends in, proved for every network |
| `PROJECT.json` | components, runs, mutants, the map to the source, findings, hazards, theorems |

## 1. The system

### 1.1 How the parts interact

* **Kernel** (binary, external).  One event list ordered by time.  A handler runs to
  completion; it reads `pstruEventDetails`, changes the state of one device, and adds
  events with `fnpAddEvent`.  There is no preemption, so *the handler is the atomic
  step*.  Interleaving comes from the order of events: transmission, timers and
  application generation of all devices are mixed by time.
* **Network stack** (binary, external).  A packet goes down the layers of the sender and up
  the layers of the receiver as a chain of events `APPLICATION_OUT`, `TRANSPORT_OUT`,
  `NETWORK_OUT`, `MAC_OUT`, `PHYSICAL_OUT`, then the `_IN` events.  Every layer may drop,
  delay or reorder it.
* **Socket interface** (`fn_NetSim_Socket_*`, external).  A buffer between application
  and transport; the application layer creates a `TRANSPORT_OUT` event whenever a packet
  enters an empty buffer, and none for a packet that finds others waiting.
* **Threads** appear only in `FastEmulation` (queue, capture and metric threads with
  mutexes) and in the emulation glue of `SupportFunction`.

### 1.2 Inventory

State, operations, hard behaviour and correctness of each component.  "M" marks what
is modelled here.

| component | state | operations | what is hard | what makes it correct |
|---|---|---|---|---|
| **TCP connection and transfer** (M) | socket list; TCB: state, SND/RCV pointers, retransmission and out-of-order queues, cancel/wait/close flags; timers in the event list | open, accept, send, receive (one case per state and flag), close, RTO, SYN retry, TIME_WAIT | loss, reordering, duplicates; late segments of older sockets; timers of closed sockets; hand-shake with the application buffer; simultaneous close | exactly-once in-order delivery; nothing forgotten; no lost wake-up; the RFC 793 diagram |
| **TCP congestion control** (M: Old Tahoe, Tahoe, Reno, NewReno; `WindowScale.c`) | cwnd, ssthresh, dupAckCount, fast-recovery flag, recover, scaling shift | ACK per algorithm, RTO, MSS and scaling negotiation | long sequences of losses, duplicates, recoveries, timeouts; 16-bit arithmetic | a usable window; retransmission at the third duplicate; deflation; growth only by new data |
| TCP: BIC, CUBIC | maxima and epochs of the window search | ACK, RTO | floating-point time | window between bounds |
| TCP: SACK | per-segment `isSacked`, HighACK, HighRxt, pipe, recovery point, received block list | mark on SACK option, update, set pipe, next segment, recovery loop | block lists under reordering; termination of the loop | pipe never negative, no retransmission of sacked data |
| **AODV** (M) | route table, precursor lists, RREQ-seen and RREQ-sent tables, sequence and broadcast numbers, FIFO of packets | generate/forward/answer RREQ, RREP, RERR, hello, retries, lifetimes | lossy broadcast, stale routes, retries racing late replies | loop freedom; no sequence number its owner has not reached; a buffered packet is sent or dropped |
| DSR | route cache, send and maintenance buffers, RREQ table | discovery, source routing, acknowledgment, error, retransmission | stale caches, late acknowledgments | no source route with a repeated hop; buffers drained |
| ZRP (NDP, IARP/OLSR, IERP, BRP) | link, neighbour, 2-hop, MPR, topology sets; border-cast tree | hello, TC, MPR selection, expiry, query, reply | expiry against refresh | MPRs cover the 2-hop set |
| **OSPF** (M: point-to-point links of one area) | interface and neighbour state machines, DD/LS request and retransmission lists, LSDB, SPF tree | hello, DR election, database exchange, flooding, ageing, SPF | duplicate and lost DD packets, master/slave, restarts | roles opposite; adjacent databases agree; no instance replaced by an older one; every adjacency completes |
| RIP (`Routing`) | distance table with timeout and garbage timers | periodic and triggered update, timeout, garbage collection | counting to infinity, timer races | metrics bounded, routes converge |
| RPL | DODAG, rank, parent and sibling lists, DAO routes | DIS, DIO, DAO, parent choice, trickle timer | rank changes against old DIOs | the rank decreases towards the root |
| ARP | table, buffered packets, retry limit | request, reply, forward, timeout | a late reply after a timeout | buffered packets are sent once or dropped |
| IP, ICMP, IGMP, PIM, NAT, VPN, DNS | forwarding table, group membership, (S,G) state | forwarding, queries and reports, join/prune | report suppression, prune against join | members receive, prunes do not cut members |
| **Ethernet** (M: spanning tree) | switch table, spanning tree (root, cost, root port), port states, VLAN | learn, forward, BPDU exchange | order of the BPDUs of several roots and paths, each sent once | one root, shortest paths, no cycle of open links, an end |
| SDN | client list, command interface | send command, response | lost response | one response per command |
| LTE_NR | RRC state, PDCP and RLC entities (AM windows, polling and status timers), HARQ, schedulers | connection, bearers, segmentation, status, handover | AM window wrap, lost status, handover while data is outstanding | RLC AM delivers once and in order |
| DTDMA, TDMA | networks, slot tables, sessions | join, leave, slot formation, transmit | join while a frame runs | a slot has one owner |
| IEEE 802.11, IEEE 1609, ZigBee, Aloha, P2P | back-off, NAV, block-ACK windows, buffers | contention, ACK, retry | mostly timing | – |
| Cellular, CognitiveRadio, Satellite, UWAN, LTE PHY | channels, frames | allocation, hand-over, frames | mostly timing and numeric | – |
| UDP, RTP, Application, Firewall | statistics, sessions | header, report, generate, filter | – | – |
| Medium, Mobility, BatteryModel, propagation | positions, powers | numeric updates | numeric | – |
| FastEmulation | packet queues shared by threads, routes | enqueue, dequeue, capture, dispatch | real concurrency | no packet lost between threads |
| CLIInterpretor, SupportFunction | – | parsing, lists, logs | – | – |

`PROJECT.json` lists the same components with their status, and the hazards with the
line where each one bites.

## 2. TCP connections: `TCP.tla`

### 2.1 State

| model | code |
|---|---|
| `tcb[e]` | the socket of device `e` for the address pair and its TCB (`TCP/TCB.h`, `TCP/TCP.h`); `sock` is `none` when no socket is in the list, `nulltcb` when `delete_tcb` has freed the TCB and the socket remains |
| `tcb[e].rtx`, `.ooo` | `retransmissionQueue` and `outOfOrderSegment` of the TCB: sets of segments, since the lists are sorted by sequence number and hold a number once |
| `tcb[e].dangling` | `delete_all_segment_from_queue` has freed the nodes but left the head pointer |
| `buf[e]`, `load[e]` | packets in the socket buffer; packets the application will still generate |
| `timers`, `tw[e]` | RTO events carrying a copy of a segment; TIME_WAIT events |
| `net` | segments in flight, a set: unordered |
| `got[e]`, `handed[e]` | history: which data, and how many packets, the application of `e` was handed by this socket |
| `halted` | the simulator has been aborted by an assertion or by a null pointer |

Each data packet and the SYN take one sequence number.  `ISS` is a constant so that an
instance chooses the initial numbers of successive sockets: far apart as
`calculate_initial_seq_num` makes them for sockets opened at different times, or
overlapping as after the 32-bit clock has wrapped.

### 2.2 Actions

One action per event and per path through its handler; every handler is a composition
of operators named like the C functions, which map a local state to a new one (`Local`,
`Commit`), so that trailing sends, timers and state changes belong to the same step.

| action | code |
|---|---|
| `AppConnect`, `AppSend`, `AppQueue` | `packet_arrive_from_application_layer`, `tcp_connect`, `send_segment` |
| `RecvNoConnection`, `RecvSynListenSocket` | `packet_arrive_from_network_layer`, `tcp_listen_callback`, `tcp_accept` |
| `RecvListen` | `packet_arrives_at_listen_state` |
| `RecvSynSentBadAck`, `RecvSynAck`, `RecvSynSentOther` | `packet_arrives_at_synsent_state` |
| `RecvUnacceptable`, `RecvRst`, `RecvSyn` | the acceptability test, RST and SYN steps of `packet_arrives_at_incoming_tcp` |
| `RecvAckSynReceived`, `RecvAck`, `RecvAckLastAck`, `RecvAckTimeWait` | `process_ack_packet` and `process_ack_in_establishedState` |
| `RecvInOrder`, `RecvOutOfOrder`, `RecvLateText` | `process_segment_text`, `check_segment`, `check_segment_in_queue`, `process_fin_packet`, `send_ack_or_not` |
| `RtoTimerIgnored`, `RtoTimerDangling`, `RtoTimerResend` | `handle_rto_timer`, `resend_syn`, `resend_segment` |
| `TimeWaitTimer` | `handle_time_wait_timeout` |
| `Lose` | external: a layer below drops the packet |

What is left open: the congestion window of a send is any value of `Windows`, at least
one segment (`Congestion`'s `WindowHoldsSegment` is the justification); a pending RTO
may fire at any time; `fast` says whether the congestion algorithm retransmits the segment
the ACK asks for.

Undefined behaviour is kept visible.  A RST in SYN_SENT deletes the TCB and then writes
it, a SYN in the LISTEN state of an accepted socket calls a null callback, a timer may
read a queue of freed nodes: these steps set `halted`, or leave a choice.

### 2.3 What TCP promises: `Stream.tla`, `TCPStream.tla`

`Stream` has one variable per direction, the list positions written and read.  An
application writes a packet; the other one reads the packets in order, each once.  There
is no end of the stream: the code tells the reader nothing when its peer closes.  `TCPStream` defines
the positions from `TCP`'s variables and `ImplementsStream` states that every step of
TCP is a step of `Stream` or a stutter.  It is checked for one socket per device:
a second socket starts a new stream.

### 2.4 Fairness

`EventFairness` is weak fairness of every event source: the kernel empties its event
list, so an event that stays in the list is handled, and generation of packets by the
applications is itself an event.  `DeliveryFairness` is strong fairness of the delivery
of some classes of segments: a network that loses each of infinitely many copies of the
same segment lets no protocol make progress.  Nothing else is assumed.  The RTO
interval is not modelled, and no fairness says that a timer fires late.

### 2.5 Properties and runs

| property | what it says |
|---|---|
| `ExactlyOnceInOrder` | the application is handed every number below RCV.NXT once, nothing else |
| `NothingForgotten` | the retransmission queue is exactly `[SND.UNA, SND.NXT)` |
| `QueuedHasTimer` | every queued segment has a timer until the timers are cancelled |
| `NoLostWakeup` | buffered packets of an established connection wait for an ACK that is outstanding |
| `AckedWasDelivered` | what one side takes as acknowledged the other side has received |
| `NoDataLostAtClose` | a side that answers a FIN has received everything its peer sent |
| `TimeWaitTimerHasSocket` | the socket a TIME_WAIT timer points to is not freed before it fires |
| `FollowsDiagram` | state changes follow the diagram of RFC 793 |
| `NeverBackwards` | SND.UNA, SND.NXT and RCV.NXT of a socket never decrease |
| `DataDelivered`, `ConnectionCloses` | liveness of the transfer and of the close |
| `ImplementsStream` | refinement of `Stream` |

| run | instance | shows |
|---|---|---|
| `TCP_transfer` | 2 packets, one socket each, close, loss, duplication, 3 in flight; 218 000 states | the queue, the timers and the buffer of a connection, and `ImplementsStream` |
| `TCP_reopen` | 2 packets one way and 1 the other, both sides close, 2 sockets per device, initial numbers 2 apart on one side and 10 on the other, loss, duplication, 2 in flight; 430 000 | the diagram, and what relates the two ends (`AckedWasDelivered`, `NoDataLostAtClose`, `TimeWaitTimerHasSocket`), with data both ways and simultaneous close; a new socket against segments, half-open peer and timers of an old one, with overlapping and with disjoint numbers |
| `TCP_delivery` | 2 packets, loss, delayed ACK, fair; 3 100 | `DataDelivered` |
| `TCP_closing` | 1 packet, no loss, fair; 8 000 | `ConnectionCloses` |

*Bounds.*  Two packets are enough for a hole in the sequence, a cumulative ACK and an
out-of-order queue; a window of 2 for a partial ACK; a receive window of 3 for
unacceptable segments on both sides; 3 segments in flight for a data segment, its
duplicate and an old ACK to coexist; 3 TIME_WAIT timers for the restart of a restart.
Two sockets per device give one old and one new incarnation.  `MaxInFlight` only delays
sends, `MaxTimeWait` and `MaxSockets` disable the events that would exceed them.
`CHECK_DEADLOCK FALSE` is right for a simulator: it stops when no event is left.
`ConnectionCloses` is stated for a network without loss because the code sends a FIN
without a timer (a comment and a debug message of `send_fin` say so): with loss it is
not promised.

## 3. Congestion control: `Congestion.tla`

One sender during a bulk transfer, one receiver, a path that loses and optionally
reorders.  `cong` is the `CONGESTIONVAR`; windows are in bytes and kept in `Word`
(2^16) values, divided by `Scale` (2^Wind_Shift) when scaling is on, with the
rounding and the saturation of `set_cwnd` and `increase_cwnd`.

| action | code |
|---|---|
| `AppSend` | a `TRANSPORT_OUT` event and `send_segment` |
| `AckArrives` | `process_ack_in_establishedState` with the `ack_received` callback of the algorithm (Old Tahoe, Tahoe, Reno, NewReno: slow start, congestion avoidance, fast retransmit, fast recovery) and the `send_segment` that follows a new ACK, whose assertion `SND.WND >= MSS` sets `halted` |
| `Rto` | `congestion_rto_timeout` and the retransmission |
| `DataArrives` | external: the receiver acknowledges every segment |
| `LoseData`, `LoseAck` | external: the path |

The order of initialisation is the code's: `init_congestion` runs before the initial
sequence number and the scaling option are known, so `recover` starts at 0 and the first
`ssthresh` is stored unshifted.  Time is left open: whether a round trip has passed for
congestion avoidance (`due`), and when a timer fires.  `dupRun`, `resent`,
`lossFlight`, `lossPoint` are history variables for the properties.

| property | what it says |
|---|---|
| `WindowHoldsSegment` | after any history of losses, duplicates, recoveries and timeouts the window used by `send_segment` holds a segment, if `Scale` divides the segment; `TCP` relies on it |
| `FlightFitsWindow` | no more is in flight than the largest window that can be stored, `(Word - 1) * Scale`, however the window moves |
| `LostSegmentResent` | after three duplicate ACKs of SND.UNA Tahoe and Reno have retransmitted its segment |
| `NewRenoResends` | the same of NewReno, outside the bytes of the last recovery (violated) |
| `RecoveryDeflates` | leaving fast recovery brings the window to half the flight of the last loss, or two segments |
| `GrowsByAckedBytes` | outside recovery the window grows by no more than the bytes newly acknowledged |

| run | instance | shows |
|---|---|---|
| `congestion_paths` | Old Tahoe, Tahoe and Reno with ACKs in order, NewReno with ACKs that overtake each other; 8 packets, 2 faults (losses, timeouts, overtaking ACKs), 2 ACKs in flight, a word of 20 bytes; 1 134 000 states | window, retransmission, deflation and growth, and the flight against the saturated window |
| `congestion_newreno`, `congestion_scaled` | smallest instances | violations (section 7) |

*Bounds.*  Eight packets and the initial window of four segments leave room for a
loss, three duplicates, a window after it, and, with a word of 20 bytes and packets of 3,
for windows that saturate.  Two faults give a loss during recovery, a
timeout during recovery, a lost retransmission.  `Reordering` is the set of variants whose
ACKs overtake each other: only NewReno keeps `GrowsByAckedBytes` then (Old Tahoe opens the window
for an ACK below SND.UNA), and Tahoe and Reno keep `LostSegmentResent` only when ACKs stay in
order; both are proved under these conditions, the other properties for every path.
`MaxDup` is above `TCP_DupThresh`, so that the counter passes it.
`Word` is small instead of 65536, so that saturation occurs within a few packets; the proofs
hold for every `Word`.

*Window scaling and the cast.*  The threshold after a loss is half of `FlightSize`, a `UINT16` that is
assigned `SND.NXT - SND.UNA` (`Congestion.c:359`).  Without scaling the window, hence the flight, is at most
65535 and the cast loses nothing: theorem `CastLosesNothing` (8.2).  With scaling it does not hold: the
window reaches 65535 << Wind_Shift, and above 65535 the cast keeps the low 16 bits of the flight.
`FlightSize` in the model is that cast.  The instance `congestion_paths` has `Scale = 1`; what still holds
with scaling is proved for every scale that divides the segment (8.2): the flight fits the largest scaled window, the
threshold is never above half the flight and never below two segments, so the window stays
usable and is deflated.  What is lost is the size: a sender with 65536 bytes in flight computes 0 and falls
back to two segments.  (TLC reaches such losses with `Scale = 2`, `Word = 26`, `MSS = PeerMSS = PacketSize = 4`,
`InitSSThresh = 24`, `Total = 13`, `MaxAcks = MaxFaults = 1`, the algorithms but Old Tahoe and no reordering, and confirms
`FlightFitsWindow`, `WindowHoldsSegment` and `RecoveryDeflates` on the 1 153 000 states of that instance.)  This is no finding of
section 7, because the comment at `Congestion.c:355-358` only asks that the threshold be "no more than" that value.

## 4. Route discovery: `AODV.tla`

### 4.1 State

| model | code |
|---|---|
| `nSequenceNumber`, `nRREQId` | the sequence number of a node; the RREQ number, a static variable all nodes share |
| `routeTable[n][d]` | `AODV_ROUTETABLE`: sequence number and its flag, hop count, next hop, state |
| `rreqSentTable[n][d]` | `AODV_RREQ_SENT_TABLE`: last TTL, times sent at full range |
| `rreqSeenTable[n]` | `AODV_RREQ_SEEN_TABLE`; the shared number identifies the request |
| `fifo[n][d]` | `AODV_FIFO`: packets waiting for a route |
| `nRerrCount[n]` | the drops counted towards the next route error |
| `air` | messages in flight, one copy per receiver |
| `up`, `moves` | links that work |
| `offered`, `delivered`, `dropped`, `expired` | history |

Time is abstracted.  A timer that fires before the lifetime of its entry only arms itself
again, so an entry exists exactly while its lifetime has not passed: the model deletes it at
any moment (`ActiveRouteTimeout`, for the pairs in `Expiring`) and the updates of lifetimes
change nothing.  Packets a handler sends "now" leave in the same step.

### 4.2 Actions

| action | code |
|---|---|
| `AppSend`, `ReceiveData` | `fn_NetSim_AODV_GeneralPacketProcessing`: route, or FIFO and a first RREQ |
| `ProcessRREQ` | `fn_NetSim_AODV_ProcessRREQ`: reverse route, FIFO, reply as target or as intermediate node, or forwarding |
| `ProcessRREP` | `fn_NetSim_AODV_ProcessRREP`, `ForwardRREP` |
| `RetryRREQ` | `fn_NetSim_AODV_RetryRREQ`: the next ring, or the end of the discovery |
| `TransmitHelloMessage` | `fn_NetSim_AODV_TransmitHelloMessage` |
| `TransmissionFails` | the MAC layer gives up a packet; `fn_NetSim_AODV_PacketDropNotification`, `fn_NetSim_AODV_GenerateRERR` |
| `ProcessRERR` | `fn_NetSim_AODV_ProcessRERR` |
| `ActiveRouteTimeout` | `fn_NetSim_AODV_ActiveRouteTimeout` |
| `Move` | external: mobility breaks or restores a link |

A broadcast reaches the nodes whose link works when it is sent; a copy whose link breaks
while it is in flight is lost.  The reply that returns to its own target is told apart by a comparison
of pointers in the code, which a copied packet may fail: `ProcessRREP` allows both outcomes.

### 4.3 Fairness

Weak fairness of reception (or loss) of the messages in flight, of each data packet, and of
each RREQ timer: these are events in the kernel's list.  Links and expiry are not fair.

### 4.4 Properties and runs

| property | what it says |
|---|---|
| `SequenceNumbersIssued` | no table and no message is ahead of the number its owner has reached |
| `WaitingIsSearched` | a packet waits only while the discovery for its target is outstanding and no route is known |
| `InOnePlace` | a packet is in one FIFO, in one transmission, delivered or dropped |
| `NoLoop` | next hops towards a destination form no loop while no entry for it has expired |
| `WaitingEnds` | a waiting packet leaves the FIFO |
| `ErrorEndsUse` | no packet leaves along an entry a route error has hit (violated) |

| run | instance | shows |
|---|---|---|
| `AODV_search` | a line of 3 nodes, 1 packet over two hops, TTL 1+1, 3, then the diameter 4 once more; the far link moves, the middle node may greet; 108 000 states | `WaitingIsSearched`, `WaitingEnds` |
| `AODV_routes` | a triangle, 2 packets from one node to the two others, a link breaks or comes back, an entry may expire; 760 000 | `NoLoop`, sequence numbers, `InOnePlace` |
| `AODV_error` | a line of 3 nodes, 2 packets to the far end, whose link breaks | violation |

*Bounds.*  Two hops are the least with an intermediate node that forwards, answers and passes on
errors; the triangle the least where a route can be learnt over two paths and a loop of two
nodes can form away from the destination.  `RerrLimit` is 10 in the code: drops 1 to 11 of a node are
silent; with -1 the first drop causes an error, so that errors happen within two packets; the
counter itself is kept.  `MaxMoves` breaks a link once, and `Expiring`
lets one entry expire, which is what the condition of `NoLoop` is for: after an expiry a
neighbour can send the route back through the node that lost it, and without the condition TLC
finds a loop of two nodes.  The condition is part of the
property and of the proof.

## 5. OSPF adjacencies: `OSPF.tla`

### 5.1 State

An arc `<<r, n>>` is the interface of router `r` towards `n` with the neighbour structure kept there.

| model | code |
|---|---|
| `nbr[a]` | `OSPF_NEIGHBOR`: state, `isMaster`, `DDSeqNo`, the M bit, `lastrecvDDPacket`, summary and request lists, pending timers |
| `lsdb[r][x]` | the router LSA of `x` in the LSDB of `r` (sequence number 0: absent) |
| `updateLSA[a]` | the LSAs queued for the flood timer of the interface |
| `lsTimer[r]` | `isRouterLSTimer`: the router is going to originate its LSA |
| `link[a]` | packets under way, in order |
| `unhandled` | history: an event for which the state machine has no handler (`SeqNumberMismatch`, `BadLSReq`), or the failed `assert(neigh)` |

### 5.2 Actions

| action | code |
|---|---|
| `HelloTimer`, `RecvHello` | `ospf_handle_helloTimer_event`, `ospf_process_hello`, 1-Way, 2-Way, `ospf_neighbor_attempt_adjacency` |
| `DDTimer` | `start_sending_dd_msg` and its retransmission |
| `RecvDDNegotiates`, `RecvDDUnused`, `RecvDDExchange` | `ospf_process_dd_in_exstart_state`, `ospf_dd_check_duplicate`, `ospf_process_dd_in_exchange_state`, `ospf_process_DD` |
| `ExchangeDone` | `ospf_neighbor_handle_exchangeDone_event` |
| `RequestTimer`, `RecvLSR` | `ospf_lsreq_send`, `ospf_handle_LSRequest` |
| `RecvLSUDiscarded`, `RecvLSUInstalled`, `RecvLSUKnown` | `ospf_handle_LSUPDATE`, `ospf_lsdb_update`, `ospf_lsa_flood`, `ospf_lsdb_install` |
| `FloodTimer` | `ospf_lsa_handle_floodTimer_event`, `ospf_lsupdate_send` |
| `ScheduleLSDB` | `ospf_lsa_ScheduleLSDB`, `ospf_rlsa_originateRouterLSA` |
| `InactivityTimer` | `ospf_neighbor_handle_inactivityTimer_event` |
| `Lose` | external: the link loses a DD packet |

Timers of some seconds wait for the packets under way (hello, DD retransmission, inactivity); the
request timer does not, because it is armed without the factor of a second and fires every few
microseconds.  `isRequestedLSAReceived` reads memory outside the request header, and is left
open.

### 5.3 Fairness

Weak fairness of reception on each link, of `ExchangeDone`, of the flood timer and of origination:
events the kernel holds.  Weak fairness of the hello timer, which re-arms itself.  Strong fairness
of the DD timer: it is periodic and its guard (no DD under way) becomes true again and again.  The
request timer and the failures are not fair.

### 5.4 Properties and the run

| property | what it says |
|---|---|
| `RoleById` | after negotiation the router of the higher identifier is the master, on both sides |
| `RequestsAreNewer` | a pending request is for an instance newer than the database has; a Full neighbour has none |
| `AllHandled` | without a failure no event occurs that the state machine does not handle |
| `Agreement` | without a failure, two Full neighbours with no LSA or request under way between them describe the same links |
| `NeverOlder` | a database never goes back to an older instance |
| `Converges` | without a failure, every adjacency becomes Full for good and the databases describe every link |

`OSPF_adjacency` (230 000 states) joins a router 3 to routers 1 and 2, which are adjacent from the
start, in a line, with one fault: a first DD lost anywhere, or, between 2 and 3, a neighbour
silent for the dead interval or a later DD lost.  Router 2 has then a database of two LSAs to describe in two DD
packets (`MaxHeaders` = 1), the new adjacency changes its own LSA while the requests of 3 are under way, and
what 3 learns must pass 2 to reach 1: the smallest network where exchange, loading, origination
and flooding overlap.  `MaxRequests` is one request per link at a time beyond its answers.  On a
ring the databases may go back to older instances (`isMoreRecent` is tested as a boolean), so the
instance is a tree; the theorems of 8.4 hold on any topology, those of 8.5 on trees.

After a *failure* the code does not recover: only the first DD has a retransmission timer, and a second attempt
at an adjacency sends no DD.  `Converges`, `AllHandled` and `Agreement` exclude it, the other properties do not.
`Agreement` is false with a failure, from three routers in a line that form both adjacencies.  Router 2 becomes
Full with 1 and drops it again before it originates; it then originates the links it had before, under
the next number.  `ospf_lsdb_install` does not store content that has not changed, but the instance is
flooded, and 3 stores it.  The LSA that 2 originates when its links do change bears the same number
again, and 3 takes it for the one it has.

## 6. The spanning tree: `SpanningTree.tla`

### 6.1 State

Two switches share at most one link (`get_interface_id` finds the first one only); an arc `<<s, t>>`
is the port of `s` towards `t`.

| model | code |
|---|---|
| `rootId`, `rootPathCost`, `rootPort` | `ETH_SPT` of each switch; identifiers are numbers in the order in which `_stricmp` puts the strings "priority MAC" |
| `blocked` | the ports in `PORTSTATE_BLOCKING` |
| `link[a]` | BPDUs under way on an arc, in the order in which the PHY keeps them |
| `losses` | BPDUs received in error so far |

### 6.2 Actions

| action | code |
|---|---|
| `process_configbpdu` | `process_configbpdu` with `compare_bpdu`, `block_port`, `mark_port`, `update_spt`, `forward_bpdu` and the `multicast_config_bpdu` it leads to |
| `Lose` | `fn_NetSim_Ethernet_HandlePhyIn` drops a frame in error |

Every switch starts as root and sends one BPDU (`start_spt_for_lan`); a better root, or a shorter
path to the same root, is adopted and passed on to the other ports; any other path to the same
root blocks the port it is heard on.  No timer sends a BPDU again and `forward_port`, which would
open a port, has no caller.

### 6.3 Properties and the run

| property | what it says |
|---|---|
| `RootAgreed` | when no BPDU is under way and none was lost, all switches know the root of the lowest identifier |
| `ShortestPaths` | then the costs solve the equations of the shortest paths, and the root port leads along one |
| `CyclesCut` | then the links open at both ends contain no cycle |
| `RootPortNotBlocked` | no BPDU makes a switch block the port it reaches the root through |
| `Settles` | the exchange ends |

`spanning_tree` (383 000 states) has four switches in a square with one diagonal, one with three times
the cost of the others, so that two hops can be cheaper than one, a switch changes its root up to
three times and its path again under the same root, and ports are left for others; at most one
BPDU is lost.  Weak fairness of reception: the kernel handles the events it holds.

What the code does not do, and no property says: a port that was blocked under an old root or
for a longer path stays blocked when it becomes the root port, so the tree may be cut, and a link
blocked at one end only carries frames the other way (a frame is not sent on a blocked port, but
taken from one).  TLC finds both outcomes in this instance; they are listed as a hazard.

## 7. Where the code and its comments disagree

| run | disagreement |
|---|---|
| `congestion_newreno` | the comment of `FastRetransmit` says the lost segment "MUST be retransmitted"; NewReno counts the duplicates it ignores after a timeout, the counter passes three, and fast retransmit never runs again on that connection |
| `congestion_scaled` | with window scaling by a factor that does not divide the segment the loss window of Tahoe loses its low bits and fails the assertion `SND.WND >= MSS` of `send_segment` |
| `AODV_error` | the comment of `fn_NetSim_AODV_ProcessRERR` says a route error "deletes the entry to the target"; the code marks it invalid, with a lifetime longer than that of an active route, and `fn_NetSim_AODV_CheckRouteFound` does not look at the mark, so that packets keep leaving along it |

## 8. Proofs

The proof modules hold for every value of the constants allowed by the named assumptions of
the modules they extend (for `TCP` `EpAssumption`, `BoundAssumption`, `IssAssumption`; for
`Congestion` `VariantAssumption`, `SizeAssumption`, `BoundAssumption`; for `AODV`
`TopologyAssumption`, `NumberAssumption`, `NothingAssumption`; for `OSPF`
`TopologyAssumption`, `NumberAssumption`; for `SpanningTree` these two and
`ConnectedAssumption`), which TLC evaluates in the runs.  Each module has
one lemma per action; the theorems end in a PTL step.

### 8.1 `TCP_proof.tla`

Proved: `TypeOK`, `NothingForgotten`, `QueuedHasTimer`, `NoLostWakeup`,
`ExactlyOnceInOrder`, for any loads, windows, numbers of sockets, initial sequence
numbers, retry limits and bounds, and with loss and duplication.

None of them is inductive alone.  The invariant is

    IInv == TypeOK /\ SenderInv /\ TimerInv /\ ReceiverInv

* `SenderInv`, per device: *Queue* (the retransmission queue is `[UNA, NXT)`, each number once,
  each segment one of the device's own SYNs or data segments), *Handshake* (before the
  connection is established `UNA = ISS`, `NXT = ISS + 1` and nobody waits for the application;
  only a socket back in LISTEN is dangling; a freed TCB has no queue), *Waiting* (an
  established connection with nothing outstanding waits for the application with an empty
  buffer).  `NothingForgotten` needs *Handshake* because `resend_syn` rewrites UNA and NXT.
* `TimerInv`: the queued segments are in `timers` unless the process is halted.
* `ReceiverInv`: `got = (IRS, RCV.NXT)` and its count, and the out-of-order queue above
  RCV.NXT.

The network is not trusted: the induction assumes only that arriving segments are
well formed, so the proof covers every order, loss and repetition and any segment of an
older incarnation.  The invariant is *local*: each handler of the code is shown to
take a good local state to a good local state (`Handles`), one lemma per C function; `CommitStep`
and `ReceiveStep` lift that to the global state, one lemma per action follows,
`Inductive` puts them together, and each theorem ends in a PTL step.

`TCP_states_proof.tla` adds the action properties `FollowsDiagram` and `NeverBackwards`, for any
number of sockets.  `IInv` does not give them, because a state change depends on when a side
closes: `StageInv` says that a side which has sent its FIN first has had everything
acknowledged, that its application has no packet left, and that nobody is ever in CLOSE_WAIT
(the code answers a FIN with its own at once).  `Advance` states once what a handler does to a
socket that stays open: its pointers move forward, its state along the diagram; one lemma per
handler.

`TCPStream_proof.tla` relates the two ends.  For one socket per device (`MaxSockets = 1`) it proves
`AckedWasDelivered`, `NoDataLostAtClose`, `TimeWaitTimerHasSocket`, and `ImplementsStream`: the
initial states of `TCP` map to those of `Stream`, and each step of `TCP` to a step of `Stream`
or to a stutter.  Here the network is trusted with what it carries, and the invariant is

    CInv == \A e \in Ep : Dev(e)

* A segment of `e`, in flight or in a queue of either end, carries a packet the application of `e`
  has written, below SND.NXT, and acknowledges no more than `e` has received and its peer has sent
  (`Good`).  There is one exception: once a side has closed, what its peer sends may acknowledge any number,
  but only when the peer is closing too, so that no data depends on it (`GoodAck`).
* What `e` has received is at most what its peer has sent, and what it has acknowledged its peer has received;
  LAST_ACK means that the peer has finished and everything was received (`Own`).
* A device without a socket has sent nothing and nothing is acknowledged to it (`Unborn`).

The hypothesis is needed: with a second socket segments of the first are in flight, `Stream` begins
anew, and numbers may overlap.  `TCP_reopen` checks the three invariants (not `ImplementsStream`) for two
sockets per device.

### 8.2 `Congestion_proof.tla`

Proved when the scale divides the segment, `ScaleDivides == SMSS % Scale = 0`, which includes `Scale = 1`, no
scaling: `TypeOK`, `WindowHoldsSegment`, `FlightFitsWindow`, `RecoveryDeflates`, `LostSegmentResent` and
`GrowsByAckedBytes`.  For any other scale `WindowHoldsSegment` is false (section 7), and the others are
neither proved nor checked.  For `Scale = 1` alone, `CastLosesNothing`: `FlightSize = nxt - una`.  The invariant is

    CInv == Sound(cong, lossFlight) /\ Positions /\ History /\ ~halted

`Sound` keeps the window at one segment or more and, during fast recovery, `ssthresh`, which the
exit assigns to the window, between one segment and half the flight of the last loss (two
segments at least).  `Positions` keeps the flight within the largest window, and the acknowledgments in
flight at or below SND.NXT.  The hypothesis is what lets a size that is shifted out and back in keep a
segment (`ShiftSegment`).  The bound on the threshold needs no exact cast: the low bits of the flight are
never more than the flight (`Threshold`).

The last two properties relate the window to the order of acknowledgments, and hold when the path
does not reorder those of Tahoe and Reno, and of Old Tahoe, respectively: the theorems say so of
`Reordering`.  Their invariant is

    PathInv == CInv /\ Ordered /\ Unsent /\ Counting

`Ordered`: acknowledgments lie on the boundaries of segments and, on a path that keeps their order,
are sorted and at or above SND.UNA.  `Counting` keeps the history variable `dupRun` at or below
`dupAckCount` for Tahoe and Reno, so the third duplicate of the property is one at which the code
has counted three, and says that by then the segment has been sent again.  `Unsent` starts
the induction: before the application has sent, nothing is there to be acknowledged.

### 8.3 `AODV_proof.tla`

Proved: `TypeOK`, `SequenceNumbersIssued`, `WaitingIsSearched`, `NoLoop`, `InOnePlace`, for any nodes, links,
load, ring sizes and retries, with links that break and messages that are lost or reordered.
The invariant is

    IInv == TypeOK /\ Sorted /\ SequenceNumbersIssued /\ WaitingIsSearched
            /\ \A d \in Node : LoopFree(d)

`NoLoop` says that no set of relays keeps a packet for `d`; it is not inductive.  A node takes
the sender of a message about `d` as its next hop, so the step lemma needs that this sender has
a route to `d` of its own, or is `d`; and since an entry that has a next hop keeps it for ever
(`UpdateEntry`), a node that acquires a route cannot be on the way of the nodes it routes
through, none of which had reached it before.  `LoopFree(d)` states these facts while no entry
for `d` has expired.  Sequence numbers play no part in the argument: the freshness rule of the
RFC is not what keeps this code free of loops.

`WaitingIsSearched` needs `Sorted` (a packet waits in the queue of its destination), because the
discovery that is started is the one for the packet's destination.

`InOnePlace` has an invariant of its own, `PlaceInv == IInv /\ \A p \in Packet : Placed(p)`.  A packet is
with one node, on one link, has arrived, has been freed, or has not been offered.  `InOnePlace` counts the
places; the invariant has to say which one it is, because a handler that takes a packet from
there must know that there is no other, and that a packet still to be offered is nowhere.  The
lemmas `ControlOnly`, `SentOn` and `ReleasedOnce` say what messages without data, a forwarded
packet and a queue that is emptied do to it.

### 8.4 `OSPF_proof.tla`

Proved: `TypeOK`, `RoleById`, `RequestsAreNewer`, for any routers and links, rings included, any
number of losses and failures, any size of packets.  The invariant is

    IInv == TypeOK /\ FiniteQueues
            /\ \A a \in Arc : Good(a, nbr[a]) /\ Newer(a, nbr[a].req, lsdb[a[1]])

`Good` adds to `RoleById` that a neighbour has requests only in Exchange and Loading.  It is what
`Answered` depends on: a flooded LSA takes the requests it answers from the list of *every*
neighbour of the router before it is stored, but only of neighbours in those two states.  A router
that stores an LSA, whichever neighbour it came from, therefore leaves no request behind that the
database has caught up with, even for an older instance (the case `isMoreRecent` lets through):
`install` may then lower the number stored, which keeps the requests newer.
`FiniteQueues` lets the flood timer put a queue in an order.

### 8.5 `OSPF_tree_proof.tla`

Proved for any routers whose links form a tree, or several, any DD numbers and sizes of packets:
`AllHandled` and `Agreement`; that no step before a neighbour falls silent puts an older instance in a
database (`NewerUntilFailure`); and, where `Faulty` is empty, so that nothing falls silent and no DD is lost
that would not be sent again, `NeverOlder`.  First DDs may be lost any number of times.

`Tree` is the hypothesis: each arc `<<r, n>>` divides the routers into those behind `r`, whose LSAs
reach `n` over this arc only, and the others.  The code needs it: on a ring an instance can come by two
paths, and `isMoreRecent` is tested as a boolean, so that the older one replaces the newer.
On a tree that test is harmless because a link keeps the order of instances.  The invariant, as
long as `failures = 0`, is

    TInv == /\ Named /\ ~unhandled
            /\ \A r \in Router : Own(r)
            /\ \A a \in Arc : Data(a) /\ Phase(a)

`Phase` is the lockstep of the DD packets.  Of two neighbours the one with the higher identifier is the
master to be; the other's first DDs are ignored, at most one DD of the master is under way, and
after the negotiation exactly one DD is, until all is described.  Hence every DD that is not a
duplicate is in sequence, and finds its receiver in Exchange.  `Data` says for every router `x` behind `r`, in four parts:

* *Flow*: what `n` has of `x`, what is under way, what is queued for the flood timer and what `r`
  has are in this order instances ever newer, and a newer instance has other links (*Own*: the LSA
  of a router gains a neighbour each time).  So `install` always takes the newer one, and the
  comparison of the links in `ospf_lsdb_install` never drops an instance.
* *Asking*: `n` requests what `r` has described and has, newer than what `n` has, and no
  update under way is older than the request it answers.  So no request is for an LSA that is missing
  (`RecvLSR`), and an update that changes nothing is not asked for (`RecvLSUKnown`).
* *Lacking*: what `n` lacks is under way, queued, described and not read yet, or requested.  With all of
  these empty and both neighbours Full, the databases are the same on both sides: `Agreement`.
* Nothing is sent or requested before `r` has begun the exchange.

An LSA stored by `r` that came over one arc is behind `r` for all its other arcs, where it is queued, and
not behind the start of the arcs towards `r`: the lemmas `CoreStore`, `CoreTake`, `CoreNear` and `CoreFar`
say what this does to `Data`, and each handler is a combination of them.
After a failure the invariant breaks, *Own* to begin with: a router may originate the links it had, under
a number that its next instance bears again (5.4).

### 8.6 `SpanningTree_proof.tla`

Proved: `TypeOK`, `RootAgreed`, `ShortestPaths`, `CyclesCut`, `RootPortNotBlocked`, for every connected
network, different identifiers and positive costs.  The invariant is

    IInv == TypeOK /\ Roots /\ Sent /\ Far /\ Complete

What a switch knows is ordered by root, then cost, and only gets better.  *Sent*: a BPDU under way is
never better than what its sender would send now, those on a link get better one after the
other, and those that come through a root port are better than what its switch knows (hence
`RootPortNotBlocked`).  *Roots*: a switch is its own root, or its root port leads to a neighbour that
knows no worse.  *Far*: only a neighbour of a switch can hear of it at that switch's own cost, and
has it then as its root port; this is the case of the root itself, which never blocks a port.
*Complete*, as long as nothing is lost: for each arc, what its start knows now is under way on it or has
been taken into account at its end (`Heard`); and each link is a root port's, blocked,
between different roots, or has such a BPDU under way (`Settling`).

When nothing is under way, `Heard` gives one inequality per arc.  With a root on one side of a cut
and another one behind it the inequality fails on an arc across the cut, hence `RootAgreed`; with
*Roots* it is an equation along the root port, hence `ShortestPaths`.  For `CyclesCut` take the
farthest of a set of switches: the only link to the others that `Settling` leaves open is the one of
its root port, since a neighbour whose root port leads to it would be farther.

### 8.7 Only model-checked

* Liveness (`DataDelivered`, `ConnectionCloses`, `WaitingEnds`, `Converges`, `Settles`): fairness and
  ENABLED are outside the prover's reach.
* `AckedWasDelivered`, `NoDataLostAtClose` and `TimeWaitTimerHasSocket` with two sockets per device
  (`TCP_reopen`; 8.1 proves them for one).
* OSPF's `NeverOlder` after a neighbour has fallen silent, and `AllHandled`, `Agreement` and `NeverOlder`
  where the links have a cycle (8.5).
* Nothing here depends on recursion over data, which the prover could not treat by
  induction.

## 9. Further work

1. The switch table and the flooding of frames over the ports the spanning tree leaves open.
2. `SACK` (scoreboard, pipe, recovery loop), and two `Congestion` instances composed to see the
   asymmetric negotiation of window scaling.
3. OSPF on broadcast networks: the election of designated routers, and their LSAs.
4. RLC acknowledged mode: windows with wrap, polling and status, as a refinement of `Stream`.
5. OSPF after a failure: what of the invariant of 8.5 remains on the arcs that did not fail.

## 10. Not modelled, and why

* Metrics, traces, plots, logs and memory management: no property is about them, except the
  two places where memory is used after it is freed, which `TCP` keeps, and the request header
  read outside its memory, which `OSPF` keeps.
* Values of time: RTO estimation (`RTO.c`), delayed-ACK interval, congestion-avoidance
  round trips, lifetimes of routes, ages of LSAs.  A timer may fire at any time its model
  allows, which includes every value.
* In TCP: several sockets of one device at once (the lookup by address pair separates them),
  packets larger than the MSS (the application layer fragments them before TCP), BIC, CUBIC
  (floating-point functions of time) and SACK.  Sequence numbers are naturals: the code compares 32-bit
  numbers with `<` and `<=`, and a connection whose own numbers pass 2^32 is not explored, only sockets
  whose numbers overlap those of the one before.
* In AODV: the precursor lists (written, never used to send), the seen-table cleanup.
* In OSPF: broadcast, point-to-multipoint and virtual links, other LSA types, ageing, refresh and
  flush, acknowledgments with their lists, SPF and the routing table, areas.  Of what is modelled:
  * The inactivity timer sets the four lists of the neighbour to NULL (`OSPF_Neighbor.c:460-474`), and only
    `ospf_neighbor_new` creates them; the model goes on with empty lists, so a later use of a
    null list is not visible.
  * A slave in Loading or Full whose last DD is older than routerDeadInterval raises SeqNumberMismatch for a
    duplicate (`OSPF_DD.c:487-497`); the model always sends its answer again.
  * An instance that comes within minLSInterval of the stored one is refused (`OSPF_LSDB.c:169-176`); left
    out, because the flood timer of the sender keeps that distance.
  * `ospf_lsdb_install` compares all link records (`OSPF_RLSA.c:270-304`), the model those of the Full
    neighbours.  The code adds a stub or host record for each neighbour it has heard, so an instance that
    differs from the one before only because a neighbour was heard first in between is stored by the code
    and not by the model.
* In Ethernet: the switch table, VLANs, ports towards end devices, several links between two switches,
  the text of the identifiers ("%d%s" puts priority 4096 before priority 512), the type of a port, which is never read.
  Costs are assumed positive; `stpCost` is an int of the configuration (`Ethernet.h:144`) and could be zero or
  negative.
* The kernel, the network stack and the socket interface: closed; modelled from the calls
  the protocols make, and marked external in the map.
* The other protocols of the table in 1.2.  PHY, propagation, mobility, battery, satellite,
  acoustic and cognitive-radio layers are numeric, and CSMA, TDMA and hand-over layers are
  dominated by times.  LTE RLC, DSR, ZRP, RIP, RPL, ARP and IGMP/PIM are protocols
  that could be modelled the same way; `PROJECT.json` gives the reason for each.
  FastEmulation has real threads, whose queues end in system calls of Windows and a packet driver.
