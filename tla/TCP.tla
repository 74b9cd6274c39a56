-------------------------------- MODULE TCP --------------------------------
(***************************************************************************)
(* The TCP of the simulator (src/.../Simulation/TCP): two devices, the     *)
(* socket each of them holds for one address pair, the application buffer  *)
(* in front of it, its retransmission and TIME_WAIT timers, and a network  *)
(* that may lose, delay, reorder and duplicate segments.  An action is one *)
(* event of fn_NetSim_TCP_Run: a TRANSPORT_OUT event (AppSend), a          *)
(* TRANSPORT_IN event (the Recv actions, one per dispatched case), a       *)
(* TIMER_EVENT (RtoTimer, TimeWaitTimer).                                  *)
(*                                                                         *)
(* Data segments and the SYN occupy one sequence number.  The congestion   *)
(* window is any value of 1..MaxWindow at each send (Congestion models its *)
(* arithmetic) and selective acknowledgment is off.                        *)
(***************************************************************************)
EXTENDS Integers, FiniteSets

CONSTANTS Ep,             \* the two devices
          Openers,        \* devices whose application starts a connection
          Load,           \* Load[e]: packets the application of e generates
          EndFlag,        \* EndFlag[e]: its last packet carries nAppEndFlag
          ISS,            \* ISS[e][i]: initial sequence number of e's i-th socket
          MaxSockets,     \* bound: sockets a device may create
          MaxSynRetries,  \* tcp->MaxSynRetries
          RcvWnd,         \* RCV.WND, fixed when the TCB is created
          MaxWindow,      \* bound: largest congestion window, in segments
          HdrLength,      \* header length of a SYN, added by create_rst
          Delayed,        \* ackType = TCPACKTYPE_DELAYED
          MaxTimeWait,    \* bound: pending TIME_WAIT timers of a device
          MaxInFlight,    \* bound: segments in flight
          Lossy,          \* whether the network loses segments
          Duplicating     \* whether it delivers a segment more than once

ASSUME EpAssumption ==
  /\ IsFiniteSet(Ep) /\ Cardinality(Ep) = 2
  /\ Openers \subseteq Ep
  /\ Load \in [Ep -> Nat]
  /\ EndFlag \in [Ep -> BOOLEAN]

ASSUME BoundAssumption ==
  /\ MaxSockets \in Nat
  /\ MaxSynRetries \in Nat
  /\ RcvWnd \in Nat
  /\ MaxWindow \in Nat
  /\ HdrLength \in Nat
  /\ MaxTimeWait \in Nat
  /\ MaxInFlight \in Nat
  /\ Delayed \in BOOLEAN
  /\ Lossy \in BOOLEAN
  /\ Duplicating \in BOOLEAN

\* calculate_initial_seq_num returns at least 1.
ASSUME IssAssumption == ISS \in [Ep -> [1..MaxSockets -> Nat \ {0}]]

VARIABLES
  tcb,       \* tcb[e]: the socket of e and its transmission control block
  sockets,   \* sockets[e]: how many sockets e has created
  load,      \* load[e]: packets the application of e has still to generate
  buf,       \* buf[e]: packets waiting in the socket interface of e
  got,       \* got[e]: sequence numbers handed to the application of e
  handed,    \* handed[e]: how many packets that was, repetitions counted
  net,       \* segments in flight
  timers,    \* segments whose retransmission timer is pending
  tw,        \* tw[e]: pending TIME_WAIT timers of e
  halted     \* the simulator process has been aborted

vars == <<tcb, sockets, load, buf, got, handed, net, timers, tw, halted>>

----------------------------------------------------------------------------
(* Segments *)

Kind == {"syn", "synack", "ack", "finack", "fin", "rst", "rstack", "data"}

\* Numbers are naturals: the 32 bits of the code never wrap here, and ISS may
\* make the numbers of successive sockets overlap.
Segment == [src : Ep, kind : Kind, seq : Nat, ackno : Nat]

Seg(e, k, q, a) == [src |-> e, kind |-> k, seq |-> q, ackno |-> a]

Syn(m) == m.kind \in {"syn", "synack"}
Ack(m) == m.kind \in {"synack", "ack", "finack", "rstack"}
Rst(m) == m.kind \in {"rst", "rstack"}
Fin(m) == m.kind \in {"fin", "finack"}

get_seg_len(m) == IF Syn(m) \/ m.kind = "data" THEN 1 ELSE 0

\* Sequence numbers of the segments of a queue, of its data segments.
SeqNums(q)  == {x.seq : x \in q}
DataSeqs(q) == {x.seq : x \in {y \in q : y.kind = "data"}}

----------------------------------------------------------------------------
(* Sockets *)

State == {"CLOSED", "LISTEN", "SYN_SENT", "SYN_RECEIVED", "ESTABLISHED",
          "FIN_WAIT_1", "FIN_WAIT_2", "CLOSE_WAIT", "CLOSING", "LAST_ACK",
          "TIME_WAIT"}

\* "none": no socket in the socket list; "nulltcb": a socket whose TCB has
\* been deleted.  Queues are sets: the list is sorted by sequence number and
\* holds a number once.  dangling: the retransmission queue points to freed
\* nodes (delete_all_segment_from_queue).
TCB == [sock : {"none", "nulltcb", "open"},
        state : State, prev : State,
        iss : Nat, irs : Nat, una : Nat, nxt : Nat, rnxt : Nat,
        synRetries : Nat,
        rtx : SUBSET Segment, ooo : SUBSET Segment,
        dangling : BOOLEAN, waitFromApp : BOOLEAN, isAPPClose : BOOLEAN,
        cancel : BOOLEAN, restarted : BOOLEAN, ackLast : BOOLEAN]

NoSocket ==
  [sock |-> "none", state |-> "CLOSED", prev |-> "CLOSED",
   iss |-> 0, irs |-> 0, una |-> 0, nxt |-> 0, rnxt |-> 0, synRetries |-> 0,
   rtx |-> {}, ooo |-> {},
   dangling |-> FALSE, waitFromApp |-> FALSE, isAPPClose |-> FALSE,
   cancel |-> FALSE, restarted |-> FALSE, ackLast |-> FALSE]

create_TCB(iss) == [NoSocket EXCEPT !.sock = "open", !.iss = iss]

\* States handled by packet_arrives_at_incoming_tcp.
Incoming == State \ {"CLOSED", "LISTEN", "SYN_SENT"}

\* States whose segment text is accepted.
TextStates == {"ESTABLISHED", "FIN_WAIT_1", "FIN_WAIT_2"}

----------------------------------------------------------------------------
(* A handler maps the local state of a device to a new one: its socket s,  *)
(* the packets left in the buffer, the segments sent, the timers armed,    *)
(* the pending TIME_WAIT timers, and whether it aborted the process        *)
(* (a failed assertion or a call or access through a NULL pointer).        *)

Local(e) == [s |-> tcb[e], buf |-> buf[e], out |-> {}, arm |-> {},
             tw |-> tw[e], halt |-> FALSE]

Abort(c) == [c EXCEPT !.halt = TRUE]

\* The handler of device e ends in local state c, having consumed the
\* segments and the timers that are not in rest and pending.
Commit(e, c, rest, pending) ==
  /\ ~halted
  /\ tcb' = [tcb EXCEPT ![e] = c.s]
  /\ buf' = [buf EXCEPT ![e] = c.buf]
  /\ tw' = [tw EXCEPT ![e] = c.tw]
  /\ net' = rest \cup c.out /\ Cardinality(net') <= MaxInFlight
  /\ timers' = pending \cup c.arm
  /\ halted' = c.halt

send_to_network(c, m) == [c EXCEPT !.out = @ \cup {m}]

\* Queue a copy of m and arm its timer.
add_timeout_event(c, m) ==
  [c EXCEPT !.s.rtx = @ \cup {m}, !.arm = @ \cup {m}]

tcp_change_state(c, st) ==
  IF c.s.state = st THEN c
  ELSE [c EXCEPT !.s.prev = c.s.state, !.s.state = st]

send_ack(e, c, q, a)     == send_to_network(c, Seg(e, "ack", q, a))
send_fin_ack(e, c, q, a) == send_to_network(c, Seg(e, "finack", q, a))

\* A FIN is sent without a timer and consumes no sequence number.
send_fin(e, c) ==
  send_to_network(c,
    Seg(e, "fin", IF c.s.iss + 1 = c.s.nxt THEN c.s.nxt + 1 ELSE c.s.nxt, 0))

\* c is the argument of the code: 1 forces the form without an ACK.
create_rst(e, m, c) ==
  IF Ack(m) \/ c = 1
  THEN Seg(e, "rst", m.ackno, 0)
  ELSE Seg(e, "rstack", 0, m.seq + HdrLength)

send_rst(e, c, m, code) == send_to_network(c, create_rst(e, m, code))

tcp_close_socket(c) == [c EXCEPT !.s = NoSocket]

\* Mutant: the socket is freed too.
delete_tcb_Socket(c) == tcp_close_socket(c)

\* The TCB is freed, the socket stays in the socket list.
delete_tcb(c) ==
  [c EXCEPT !.s = [NoSocket EXCEPT !.sock = "nulltcb",
                                   !.waitFromApp = c.s.waitFromApp,
                                   !.isAPPClose = c.s.isAPPClose]]

start_timewait_timer(c) == [c EXCEPT !.tw = @ + 1, !.s.cancel = TRUE]

\* Mutant: keeps the last segment acknowledged.
delete_segment_from_queue_Keeps(q, a) == {x \in q : x.seq + get_seg_len(x) >= a}

delete_segment_from_queue(q, a) == {x \in q : x.seq + get_seg_len(x) > a}

----------------------------------------------------------------------------
(* Opening and sending *)

send_syn(e, c) ==
  LET m == Seg(e, "syn", c.s.iss, 0)
      d == [c EXCEPT !.s.una = c.s.iss, !.s.nxt = c.s.iss + 1,
                     !.s.synRetries = @ + 1]
  IN  add_timeout_event(send_to_network(tcp_change_state(d, "SYN_SENT"), m), m)

\* Mutant: counts the SYN twice.
tcp_accept_Twice(e, c, iss, m) ==
  LET r == tcp_change_state([c EXCEPT !.s = [create_TCB(iss) EXCEPT !.state = "LISTEN",
                              !.rnxt = m.seq + 2, !.irs = m.seq, !.una = iss,
                              !.nxt = iss + 1, !.synRetries = 1]], "SYN_RECEIVED")
      a == Seg(e, "synack", iss, m.seq + 1)
  IN  add_timeout_event(send_to_network(r, a), a)

\* tcp_accept: passive open, then rcv_SYN of segment m.
tcp_accept(e, c, iss, m) ==
  LET l == tcp_change_state([c EXCEPT !.s = create_TCB(iss)], "LISTEN")
      r == tcp_change_state([l EXCEPT !.s.rnxt = m.seq + 1, !.s.irs = m.seq,
                                      !.s.una = iss, !.s.nxt = iss + 1,
                                      !.s.synRetries = @ + 1],
                            "SYN_RECEIVED")
      a == Seg(e, "synack", iss, m.seq + 1)
  IN  add_timeout_event(send_to_network(r, a), a)

\* Mutant: does not wait for the retransmission queue.
tcp_close_AtOnce(e, c) == tcp_change_state(send_fin(e, c), "FIN_WAIT_1")

tcp_close(e, c) ==
  IF c.s.rtx = {} THEN tcp_change_state(send_fin(e, c), "FIN_WAIT_1") ELSE c

\* Mutant: does not look at how many packets the buffer holds.
Fits_Blind(c, w) == IF w + c.s.una - c.s.nxt < 0 THEN 0 ELSE w + c.s.una - c.s.nxt

\* How many buffered packets fit in a congestion window of w segments.
Fits(c, w) ==
  LET room == w + c.s.una - c.s.nxt
  IN  IF room < 0 THEN 0 ELSE IF room < c.buf THEN room ELSE c.buf

\* left: packets the application has still to generate, so that the last
\* packet of the buffer carries the end flag iff none is left.
send_segment(e, c, w, left) ==
  LET n    == Fits(c, w)
      segs == {Seg(e, "data", q, 0) : q \in c.s.nxt .. c.s.nxt + n - 1}
      last == EndFlag[e] /\ n > 0 /\ n = c.buf /\ left = 0
      d    == [c EXCEPT !.s.waitFromApp = @ \/ c.buf = 0,
                        !.s.isAPPClose = @ \/ last,
                        !.s.nxt = @ + n, !.buf = @ - n,
                        !.s.rtx = @ \cup segs,
                        !.out = @ \cup segs, !.arm = @ \cup segs]
  IN  IF d.s.isAPPClose THEN tcp_close(e, d) ELSE d

----------------------------------------------------------------------------
(* TRANSPORT_OUT events *)

\* The congestion window in force at a call of send_segment; set_cwnd and
\* the assertion of send_segment keep it at one segment at least.
Windows == 1..MaxWindow

\* External: the application of e generates k packets at once.  A device
\* that starts no connection replies to what it has received.
Generate(e, k) ==
  /\ e \in Openers \/ got[e] # {}
  /\ load' = [load EXCEPT ![e] = @ - k]

\* A first packet without a socket: packet_arrive_from_application_layer
\* creates one and connects it.
AppConnect(e) == \E k \in 1..load[e] :
  /\ tcb[e].sock = "none" /\ buf[e] = 0
  /\ sockets[e] < MaxSockets
  /\ Generate(e, k)
  /\ sockets' = [sockets EXCEPT ![e] = @ + 1]
  /\ got' = [got EXCEPT ![e] = {}]
  /\ handed' = [handed EXCEPT ![e] = 0]
  /\ LET c == [Local(e) EXCEPT !.buf = k, !.s = create_TCB(ISS[e][sockets[e] + 1])]
     IN  Commit(e, send_syn(e, c), net, timers)

\* The socket has told that it waits for the application.
AppSend(e) == \E k \in 1..load[e] :
  /\ buf[e] = 0 /\ tcb[e].waitFromApp
  /\ Generate(e, k)
  /\ \E w \in Windows :
       LET c == [Local(e) EXCEPT !.buf = k]
           d == send_segment(e, c, w, load[e] - k)
       IN  Commit(e, IF c.s.sock = "nulltcb" THEN Abort(c)
                     ELSE [d EXCEPT !.s.waitFromApp = FALSE], net, timers)
  /\ UNCHANGED <<sockets, got, handed>>

\* TCP is busy, or the buffer was not empty and no event is created.
AppQueue(e) == \E k \in 1..load[e] :
  /\ ~halted
  /\ buf[e] > 0 \/ (tcb[e].sock # "none" /\ ~tcb[e].waitFromApp)
  /\ Generate(e, k)
  /\ buf' = [buf EXCEPT ![e] = @ + k]
  /\ UNCHANGED <<tcb, sockets, got, handed, net, timers, tw, halted>>

App(e) == AppConnect(e) \/ AppSend(e) \/ AppQueue(e)

----------------------------------------------------------------------------
(* TRANSPORT_IN events *)

\* find_socket_at_dest: the segments addressed to the socket of e.
Arriving(e) == {m \in net : m.src # e}

\* Device e has handled m; the network may keep a duplicate of it.
Handled(e, m, c) ==
  /\ \E rest \in {net \ {m}} \cup (IF Duplicating THEN {net} ELSE {}) :
       Commit(e, c, rest, timers)
  /\ UNCHANGED load

Quiet == UNCHANGED <<sockets, got, handed>>

\* No socket, or a socket without TCB: the segment is discarded.
RecvNoConnection(e) == \E m \in Arriving(e) :
  /\ tcb[e].sock = "nulltcb" \/ (tcb[e].sock = "none" /\ m.kind # "syn")
  /\ Handled(e, m, Local(e)) /\ Quiet

\* The listen socket accepts a SYN that finds no other socket.
RecvSynListenSocket(e) == \E m \in Arriving(e) :
  /\ tcb[e].sock = "none" /\ m.kind = "syn" /\ sockets[e] < MaxSockets
  /\ sockets' = [sockets EXCEPT ![e] = @ + 1]
  /\ got' = [got EXCEPT ![e] = {}]
  /\ handed' = [handed EXCEPT ![e] = 0]
  /\ Handled(e, m, tcp_accept(e, Local(e), ISS[e][sockets[e] + 1], m))

\* An accepted socket that went back to LISTEN has no listen_callback.
process_syn(e, c, m) ==
  IF (c.s.irs # 0 /\ c.s.irs # m.seq) \/ (c.s.rnxt # 0 /\ c.s.rnxt # m.seq + 1)
  THEN send_rst(e, c, m, 2)
  ELSE Abort(c)

RecvListen(e) == \E m \in Arriving(e) :
  /\ tcb[e].sock = "open" /\ tcb[e].state = "LISTEN"
  /\ LET c == Local(e)
     IN  Handled(e, m, IF Rst(m) THEN c
                       ELSE IF Ack(m) THEN send_rst(e, c, m, 0)
                       ELSE IF Syn(m) THEN process_syn(e, c, m)
                       ELSE c)
  /\ Quiet

InSynSent(e) == tcb[e].sock = "open" /\ tcb[e].state = "SYN_SENT"

BadSynSentAck(s, m) == Ack(m) /\ (m.ackno <= s.iss \/ m.ackno > s.nxt)

\* isAckAcceptable of packet_arrives_at_synsent_state.
AckAcceptable(s, m) ==
  Ack(m) /\ ~BadSynSentAck(s, m) /\ s.una <= m.ackno /\ m.ackno <= s.nxt

RecvSynSentBadAck(e) == \E m \in Arriving(e) :
  /\ InSynSent(e) /\ BadSynSentAck(tcb[e], m)
  /\ Handled(e, m, send_rst(e, Local(e), m, 0)) /\ Quiet

\* The connection is established and the waiting packets are sent.
RecvSynAck(e) == \E m \in Arriving(e) :
  /\ InSynSent(e) /\ m.kind = "synack" /\ AckAcceptable(tcb[e], m)
  /\ \E w \in Windows :
       LET c == [Local(e) EXCEPT
                   !.s.rnxt = m.seq + 1, !.s.irs = m.seq, !.s.una = m.ackno,
                   !.s.rtx = delete_segment_from_queue(@, m.ackno)]
           d == send_ack(e, c, c.s.nxt, c.s.rnxt)
       IN  Handled(e, m, send_segment(e, tcp_change_state(d, "ESTABLISHED"),
                                      w, load[e]))
  /\ Quiet

\* After an acceptable RST the state of the deleted TCB is written.
RecvSynSentOther(e) == \E m \in Arriving(e) :
  /\ InSynSent(e) /\ ~BadSynSentAck(tcb[e], m)
  /\ ~(m.kind = "synack" /\ AckAcceptable(tcb[e], m))
  /\ LET c == Local(e)
     IN  Handled(e, m, IF Rst(m) /\ AckAcceptable(c.s, m) THEN Abort(c) ELSE c)
  /\ Quiet

----------------------------------------------------------------------------
(* packet_arrives_at_incoming_tcp *)

InIncoming(e) == tcb[e].sock = "open" /\ tcb[e].state \in Incoming

\* The acceptability test of RFC 793; a segment occupies at most one number.
Validate_segment(s, m) ==
  IF get_seg_len(m) = 0 /\ RcvWnd = 0
  THEN m.seq = s.rnxt
  ELSE s.rnxt <= m.seq /\ m.seq < s.rnxt + RcvWnd

RecvUnacceptable(e) == \E m \in Arriving(e) :
  /\ InIncoming(e) /\ ~Validate_segment(tcb[e], m)
  /\ LET c == Local(e)
     IN  Handled(e, m, IF Rst(m) THEN c
                       ELSE send_ack(e, c, c.s.nxt, c.s.rnxt))
  /\ Quiet

\* The queue is freed but neither its head nor its size is reset.
delete_all_segment_from_queue(c) == [c EXCEPT !.s.dangling = TRUE]

process_rst_packet(c) ==
  IF c.s.state = "SYN_RECEIVED" /\ c.s.prev = "LISTEN"
  THEN tcp_change_state(delete_all_segment_from_queue(c), "LISTEN")
  ELSE tcp_close_socket(c)

process_syn_packet(c) ==
  IF c.s.state = "SYN_RECEIVED" THEN tcp_change_state(c, "LISTEN")
  ELSE tcp_close_socket(c)

Valid(e, m) == InIncoming(e) /\ Validate_segment(tcb[e], m)

RecvRst(e) == \E m \in Arriving(e) :
  /\ Valid(e, m) /\ Rst(m)
  /\ Handled(e, m, process_rst_packet(Local(e))) /\ Quiet

RecvSyn(e) == \E m \in Arriving(e) :
  /\ Valid(e, m) /\ Syn(m)
  /\ Handled(e, m, process_syn_packet(Local(e))) /\ Quiet

\* Mutants: an ACK of what was never sent is accepted; an old ACK is taken for
\* a new one; the buffer is not looked at after an ACK.
AckEstablished_Beyond(e, c, m, fast, w, left) ==
  IF c.s.una < m.ackno
  THEN send_segment(e, [c EXCEPT !.s.una = m.ackno,
                           !.s.rtx = delete_segment_from_queue(@, m.ackno)], w, left)
  ELSE c

AckEstablished_Old(e, c, m, fast, w, left) ==
  IF c.s.una # m.ackno
  THEN send_segment(e, [c EXCEPT !.s.una = m.ackno,
                           !.s.rtx = delete_segment_from_queue(@, m.ackno)], w, left)
  ELSE c

AckEstablished_NoSend(e, c, m, fast, w, left) ==
  IF c.s.una < m.ackno
  THEN [c EXCEPT !.s.una = m.ackno, !.s.rtx = delete_segment_from_queue(@, m.ackno)]
  ELSE c

\* process_ack_in_establishedState and the send_segment that follows an ACK
\* of new data.  fast: the congestion algorithm retransmits the segment the
\* ACK asks for (FastRetransmit, newReno_FastRecovery).
AckEstablished(e, c, m, fast, w, left) ==
  LET f == [c EXCEPT !.out = @ \cup {x \in c.s.rtx : fast /\ x.seq = m.ackno}]
      d == [f EXCEPT !.s.una = m.ackno,
                     !.s.rtx = delete_segment_from_queue(@, m.ackno)]
  IN  IF c.s.una < m.ackno /\ m.ackno <= c.s.nxt
      THEN send_segment(e, d, w, left)
      ELSE IF m.ackno <= c.s.una THEN f
      ELSE send_ack(e, f, m.seq, m.ackno)

\* The pure ACKs: a SYN-ACK has been taken by RecvSyn, an RST by RecvRst.
PureAck(e, m) == Valid(e, m) /\ m.kind \in {"ack", "finack"}

RecvAckSynReceived(e) == \E m \in Arriving(e) :
  /\ PureAck(e, m) /\ tcb[e].state = "SYN_RECEIVED"
  /\ LET c == Local(e)
         ok == c.s.una <= m.ackno /\ m.ackno <= c.s.nxt
     IN  \E fast \in BOOLEAN, w \in Windows :
           Handled(e, m,
             IF ok THEN AckEstablished(e, tcp_change_state(c, "ESTABLISHED"),
                                       m, fast, w, load[e])
             ELSE send_rst(e, c, m, 1))
  /\ Quiet

\* The state st is tested before send_segment may close the connection; a
\* FIN-ACK moves FIN_WAIT_1 to FIN_WAIT_2 and CLOSING to TIME_WAIT.
process_ack_packet(e, c, m, fast, w, left) ==
  LET st == c.s.state
      d  == AckEstablished(e, c, m, fast, w, left)
  IN  IF Fin(m) /\ st = "FIN_WAIT_1" THEN tcp_change_state(d, "FIN_WAIT_2")
      ELSE IF Fin(m) /\ st = "CLOSING"
           THEN tcp_change_state(start_timewait_timer(d), "TIME_WAIT")
      ELSE d

RecvAck(e) == \E m \in Arriving(e) :
  /\ PureAck(e, m)
  /\ tcb[e].state \in {"ESTABLISHED", "FIN_WAIT_1", "FIN_WAIT_2",
                        "CLOSE_WAIT", "CLOSING"}
  /\ \E fast \in BOOLEAN, w \in Windows :
       Handled(e, m, process_ack_packet(e, Local(e), m, fast, w, load[e]))
  /\ Quiet

\* Any valid ACK closes LAST_ACK.
RecvAckLastAck(e) == \E m \in Arriving(e) :
  /\ PureAck(e, m) /\ tcb[e].state = "LAST_ACK"
  /\ Handled(e, m, delete_tcb(tcp_change_state(Local(e), "CLOSED"))) /\ Quiet

RecvAckTimeWait(e) == \E m \in Arriving(e) :
  /\ PureAck(e, m) /\ tcb[e].state = "TIME_WAIT" /\ tw[e] < MaxTimeWait
  /\ LET c == start_timewait_timer(send_fin_ack(e, Local(e), m.seq, m.ackno))
     IN  Handled(e, m, [c EXCEPT !.s.restarted = TRUE])
  /\ Quiet

----------------------------------------------------------------------------
(* process_segment_text and process_fin_packet *)

\* The results of send_ack_or_not, each with the new isAckSentLastTime: the
\* delay has elapsed or ACKs alternate.
send_ack_or_not(s) ==
  IF ~Delayed THEN {<<TRUE, s.ackLast>>}
  ELSE {<<TRUE, TRUE>>} \cup (IF s.ackLast THEN {<<FALSE, FALSE>>} ELSE {})

\* Mutant: jumps over the gaps of the queue.
Contiguous_Gaps(q, n, nx) == nx \notin DataSeqs(q)

\* check_segment_in_queue: from n, RCV.NXT runs over the queued data to nx.
Contiguous(q, n, nx) == (n..nx - 1) \subseteq DataSeqs(q) /\ nx \notin DataSeqs(q)

\* Mutants: FIN_WAIT_1 goes to TIME_WAIT; FIN_WAIT_2 arms no timer.
process_fin_packet_Skips(e, c, m) ==
  IF c.s.state = "FIN_WAIT_1"
  THEN tcp_change_state(start_timewait_timer(send_fin_ack(e, c, c.s.nxt, c.s.rnxt)),
                        "TIME_WAIT")
  ELSE c

process_fin_packet_NoTimer(e, c, m) ==
  IF c.s.state = "FIN_WAIT_2"
  THEN send_ack(e, tcp_change_state(c, "TIME_WAIT"), c.s.nxt + 1, m.seq + 1)
  ELSE IF c.s.state = "ESTABLISHED"
  THEN tcp_change_state(send_fin(e, send_fin_ack(e, c, c.s.nxt, c.s.rnxt)), "LAST_ACK")
  ELSE c

process_fin_packet(e, c, m) ==
  LET st == c.s.state
      d  == send_fin_ack(e, c, c.s.nxt, c.s.rnxt)
  IN  IF st \in {"SYN_RECEIVED", "ESTABLISHED"}
      THEN [tcp_change_state(send_fin(e, tcp_change_state(d, "CLOSE_WAIT")),
                             "LAST_ACK") EXCEPT !.s.cancel = TRUE]
      ELSE IF st = "FIN_WAIT_1" THEN tcp_change_state(d, "CLOSING")
      ELSE IF st = "FIN_WAIT_2"
           THEN send_ack(e, start_timewait_timer(tcp_change_state(c, "TIME_WAIT")),
                         c.s.nxt + 1, m.seq + 1)
      ELSE IF st = "TIME_WAIT"
           THEN [start_timewait_timer(c) EXCEPT !.s.restarted = TRUE]
      ELSE c

Text(e, m) == Valid(e, m) /\ m.kind \in {"data", "fin"}

\* The segment and the queued ones it completes go to the application.
RecvInOrder(e) == \E m \in Arriving(e) :
  /\ Text(e, m) /\ tcb[e].state \in TextStates /\ m.seq = tcb[e].rnxt
  /\ \E nx \in m.seq..(m.seq + 1 + Cardinality(tcb[e].ooo)),
        a \in send_ack_or_not(tcb[e]) :
       LET q == tcb[e].ooo
           c == [Local(e) EXCEPT !.s.rnxt = nx,
                                 !.s.ooo = {x \in q : x.seq >= nx},
                                 !.s.ackLast = a[2]]
           new == (IF m.kind = "data" THEN {m.seq} ELSE {})
           popped == DataSeqs({x \in q : x.seq < nx})
       IN  /\ nx >= m.seq + get_seg_len(m)
           /\ Contiguous(q, m.seq + get_seg_len(m), nx)
           /\ got' = [got EXCEPT ![e] = @ \cup new \cup popped]
           /\ handed' = [handed EXCEPT
                           ![e] = @ + Cardinality(new) + Cardinality(popped)]
           /\ Handled(e, m, IF Fin(m) THEN process_fin_packet(e, c, m)
                            ELSE IF a[1] THEN send_ack(e, c, c.s.nxt, nx)
                            ELSE c)
  /\ UNCHANGED sockets

\* A segment above RCV.NXT is queued once and acknowledged at once; one below
\* it has been rejected by Validate_segment.
RecvOutOfOrder(e) == \E m \in Arriving(e) :
  /\ Text(e, m) /\ tcb[e].state \in TextStates /\ m.seq > tcb[e].rnxt
  /\ LET c == [Local(e) EXCEPT
                 !.s.ooo = IF m.seq \in SeqNums(@) THEN @ ELSE @ \cup {m}]
     IN  Handled(e, m, IF Fin(m) THEN process_fin_packet(e, c, m)
                       ELSE send_ack(e, c, c.s.nxt, c.s.rnxt))
  /\ Quiet

\* Before the connection is established and once it is closing, data is
\* ignored and only a FIN is processed.
RecvLateText(e) == \E m \in Arriving(e) :
  /\ Text(e, m) /\ tcb[e].state \notin TextStates
  /\ Fin(m) /\ tcb[e].state = "TIME_WAIT" => tw[e] < MaxTimeWait
  /\ LET c == Local(e)
     IN  Handled(e, m, IF Fin(m) THEN process_fin_packet(e, c, m) ELSE c)
  /\ Quiet

Recv(e) ==
  \/ RecvNoConnection(e)  \/ RecvSynListenSocket(e)
  \/ RecvListen(e)        \/ RecvSynSentBadAck(e)
  \/ RecvSynAck(e)        \/ RecvSynSentOther(e)
  \/ RecvUnacceptable(e)  \/ RecvRst(e)
  \/ RecvSyn(e)           \/ RecvAckSynReceived(e)
  \/ RecvAck(e)           \/ RecvAckLastAck(e)
  \/ RecvAckTimeWait(e)   \/ RecvInOrder(e)
  \/ RecvOutOfOrder(e)    \/ RecvLateText(e)

----------------------------------------------------------------------------
(* TIMER_EVENTs *)

resend_syn(e, c, x) ==
  IF c.s.state \notin {"SYN_SENT", "SYN_RECEIVED"} THEN Abort(c)
  ELSE IF c.s.synRetries < MaxSynRetries
  THEN LET d == [c EXCEPT !.s.una = c.s.iss, !.s.nxt = c.s.iss + 1,
                          !.s.rtx = @ \ {x}, !.s.synRetries = @ + 1]
       IN  add_timeout_event(send_to_network(d, x), x)
  ELSE tcp_close_socket(c)

\* Mutant: the resent segment gets no new timer.
resend_segment_Once(c, x) == send_to_network(c, x)

resend_segment(c, x) ==
  add_timeout_event(send_to_network([c EXCEPT !.s.rtx = @ \ {x}], x), x)

Timers(e) == {t \in timers : t.src = e}

Fired(e, t, c) ==
  /\ Commit(e, c, net, timers \ {t})
  /\ UNCHANGED load /\ Quiet

\* handle_rto_timer when it has nothing to do: no TCB, timers cancelled, or
\* the segment has been acknowledged.
RtoTimerIgnored(e) == \E t \in Timers(e) :
  /\ tcb[e].sock = "open" => tcb[e].cancel \/ t.seq \notin SeqNums(tcb[e].rtx)
  /\ Fired(e, t, Local(e))

\* A retransmission queue whose nodes were freed is read: undefined, the
\* timer is ignored or the process is aborted.
RtoTimerDangling(e) == \E t \in Timers(e) :
  /\ tcb[e].sock = "open" /\ ~tcb[e].cancel /\ tcb[e].dangling
  /\ \E c \in {Local(e), Abort(Local(e))} : Fired(e, t, c)

RtoTimerResend(e) == \E t \in Timers(e) :
  /\ tcb[e].sock = "open" /\ ~tcb[e].cancel /\ ~tcb[e].dangling
  /\ \E x \in tcb[e].rtx :
       /\ x.seq = t.seq
       /\ Fired(e, t, IF Syn(t) THEN resend_syn(e, Local(e), x)
                      ELSE resend_segment(Local(e), x))

RtoTimer(e) == RtoTimerIgnored(e) \/ RtoTimerDangling(e) \/ RtoTimerResend(e)

\* handle_time_wait_timeout follows the socket pointer of the event.
TimeWaitTimer(e) ==
  /\ tw[e] > 0
  /\ LET c == [Local(e) EXCEPT !.tw = @ - 1]
     IN  Commit(e, IF c.s.sock # "open" THEN Abort(c)
                   ELSE IF c.s.restarted THEN [c EXCEPT !.s.restarted = FALSE]
                   ELSE delete_tcb(tcp_change_state(c, "CLOSED")),
                net, timers)
  /\ UNCHANGED load /\ Quiet

\* External: the network below IP loses a segment.
Lose == \E m \in net :
  /\ Lossy /\ ~halted
  /\ net' = net \ {m}
  /\ UNCHANGED <<tcb, sockets, load, buf, got, handed, timers, tw, halted>>

----------------------------------------------------------------------------

Init ==
  /\ tcb = [e \in Ep |-> NoSocket]
  /\ sockets = [e \in Ep |-> 0]
  /\ load = Load
  /\ buf = [e \in Ep |-> 0]
  /\ got = [e \in Ep |-> {}]
  /\ handed = [e \in Ep |-> 0]
  /\ net = {} /\ timers = {}
  /\ tw = [e \in Ep |-> 0]
  /\ halted = FALSE

Next ==
  \/ \E e \in Ep : App(e) \/ Recv(e) \/ RtoTimer(e) \/ TimeWaitTimer(e)
  \/ Lose

Spec == Init /\ [][Next]_vars

\* The event list: every timer fires, every segment that is not lost arrives,
\* the applications generate their packets.
EventFairness ==
  \A e \in Ep : /\ WF_vars(App(e))      /\ WF_vars(Recv(e))
                /\ WF_vars(RtoTimer(e)) /\ WF_vars(TimeWaitTimer(e))

\* A segment of class C, a record of the sets its fields are in, is delivered
\* for the last time.
Deliver(C) ==
  \E e \in Ep, m \in net :
    /\ m.src \in C.src /\ m.kind \in C.kind /\ m.seq \in C.seq
    /\ Recv(e) /\ m \in Arriving(e) /\ m \notin net'

\* A class of segments that is sent again and again gets through.
DeliveryFairness(Classes) == \A C \in Classes : SF_vars(Deliver(C))

----------------------------------------------------------------------------
(* Properties *)

TypeOK ==
  /\ tcb \in [Ep -> TCB]
  /\ sockets \in [Ep -> 0..MaxSockets]
  /\ load \in [Ep -> Nat] /\ buf \in [Ep -> Nat]
  /\ got \in [Ep -> SUBSET Nat] /\ handed \in [Ep -> Nat]
  /\ net \subseteq Segment /\ timers \subseteq Segment
  /\ tw \in [Ep -> Nat]
  /\ halted \in BOOLEAN

\* The two sockets belong to the same connection.
Matched(a, b) ==
  /\ InIncoming(a) /\ InIncoming(b)
  /\ tcb[a].irs = tcb[b].iss /\ tcb[b].irs = tcb[a].iss

\* check_segment, check_segment_in_queue, send_to_application: the
\* application is handed every number below RCV.NXT exactly once, and
\* nothing above, whatever the network does to the segments.
ExactlyOnceInOrder ==
  \A e \in Ep : InIncoming(e) =>
    /\ got[e] = (tcb[e].irs + 1)..(tcb[e].rnxt - 1)
    /\ handed[e] = Cardinality(got[e])

\* add_timeout_event, delete_segment_from_queue: the retransmission queue
\* holds exactly what has been sent and not acknowledged.
NothingForgotten ==
  \A e \in Ep : tcb[e].sock = "open" /\ ~tcb[e].dangling =>
    SeqNums(tcb[e].rtx) = tcb[e].una..(tcb[e].nxt - 1)

\* add_timeout_event, handle_rto_timer: as long as its timers are not
\* cancelled, each queued segment has a pending timer to resend it.
QueuedHasTimer ==
  ~halted => \A e \in Ep :
    tcb[e].sock = "open" /\ ~tcb[e].cancel /\ ~tcb[e].dangling =>
      \A x \in tcb[e].rtx : x \in timers

\* process_ack_in_establishedState against check_segment: what the sender
\* takes as acknowledged has been handed to the peer's application, and the
\* peer never got beyond what was sent.
AckedWasDelivered ==
  \A a, b \in Ep : a # b /\ Matched(a, b) =>
    tcb[a].una <= tcb[b].rnxt /\ tcb[b].rnxt <= tcb[a].nxt

\* waitFromApp: packets do not wait in the buffer of an established
\* connection unless an acknowledgment is outstanding to send them.
NoLostWakeup ==
  \A e \in Ep : InIncoming(e) /\ tcb[e].state = "ESTABLISHED" /\ buf[e] > 0 =>
    tcb[e].rtx # {}

\* tcp_close waits for the retransmission queue: a device that answers a FIN
\* has delivered all its peer sent.
NoDataLostAtClose ==
  \A a, b \in Ep : a # b /\ Matched(a, b) /\ tcb[b].state = "LAST_ACK" =>
    tcb[b].rnxt = tcb[a].nxt

\* start_timewait_timer passes a socket pointer: the socket is not freed
\* while such a timer is pending.
TimeWaitTimerHasSocket == \A e \in Ep : tw[e] > 0 => tcb[e].sock # "none"

\* tcp_change_state: a connection moves along the state diagram of RFC 793,
\* CLOSE_WAIT being left in the step that enters it; a reset, a timer or the
\* SYN retry limit closes it from any state.
Diagram ==
  {<<"CLOSED", "SYN_SENT">>, <<"CLOSED", "SYN_RECEIVED">>,
   <<"SYN_SENT", "ESTABLISHED">>, <<"SYN_RECEIVED", "ESTABLISHED">>,
   <<"SYN_RECEIVED", "LISTEN">>, <<"SYN_RECEIVED", "LAST_ACK">>,
   <<"ESTABLISHED", "FIN_WAIT_1">>, <<"ESTABLISHED", "LAST_ACK">>,
   <<"FIN_WAIT_1", "FIN_WAIT_2">>, <<"FIN_WAIT_1", "CLOSING">>,
   <<"FIN_WAIT_2", "TIME_WAIT">>, <<"CLOSING", "TIME_WAIT">>}

FollowsDiagram ==
  [][\A e \in Ep : LET st == tcb[e].state  nst == tcb'[e].state
                  IN  nst # st => nst = "CLOSED" \/ <<st, nst>> \in Diagram]_vars

\* The pointers of a connection only move forward, whatever late ACKs,
\* duplicates and resends of the SYN the device handles.
NeverBackwards ==
  [][\A e \in Ep : tcb[e].sock = "open" /\ tcb'[e].sock = "open" =>
       /\ tcb[e].una <= tcb'[e].una
       /\ tcb[e].nxt <= tcb'[e].nxt
       /\ tcb[e].rnxt <= tcb'[e].rnxt]_vars

\* Retransmission timers, delayed ACKs and waitFromApp never leave a
\* connection waiting for ever: once both ends are established, all the
\* packets of the applications are delivered, although segments are lost.
DataDelivered ==
  \A a, b \in Ep :
    (a # b /\ Matched(a, b) /\ tcb[a].state = "ESTABLISHED"
           /\ tcb[b].state = "ESTABLISHED") ~> (handed[b] = Load[a])

\* A connection whose FINs are not lost is closed: the active side reaches
\* TIME_WAIT and its timer deletes the TCB.
ConnectionCloses ==
  \A e \in Ep : (tcb[e].state = "FIN_WAIT_1") ~> (tcb[e].state = "CLOSED")

=============================================================================
