----------------------------- MODULE Congestion -----------------------------
(***************************************************************************)
(* Congestion control of one sender (src/.../TCP/Congestion.c, with the    *)
(* window arithmetic of WindowScale.c and the send loop of TCP_Outgoing.c) *)
(* during a bulk transfer to one receiver.  Windows are counted in bytes   *)
(* and stored in 16 bits, shifted when window scaling is negotiated.  The  *)
(* path loses and reorders; an acknowledgment is sent for each segment     *)
(* received (no delayed ACK, no SACK), and a retransmission timer may fire *)
(* for any outstanding segment at any time.                                *)
(*                                                                         *)
(* TCP models the connection around this sender with a window it leaves    *)
(* open (at least one segment); WindowHoldsSegment is what justifies it.   *)
(***************************************************************************)
EXTENDS Integers, Sequences, SequencesExt

CONSTANTS Variants,      \* tcp->tcpVariant: the algorithms explored
          Word,          \* values of a UINT16: 65536
          MSS,           \* tcp->MSS of the sender
          PeerMSS,       \* MSS option received in the handshake
          PacketSize,    \* bytes in each packet of the application
          InitSSThresh,  \* tcp->initSSThresh
          Scale,         \* 2 ^ Snd.Wind_Shift, 1 without window scaling
          First,         \* sequence number of the first data byte, ISS + 1
          Total,         \* packets the application sends
          Reordering,    \* variants whose acknowledgments overtake each other
          MaxAcks,       \* bound: acknowledgments in flight
          MaxDup,        \* bound: value of dupAckCount
          MaxFaults      \* bound: losses, overtakings and timeouts

min(a, b) == IF a < b THEN a ELSE b
max(a, b) == IF a > b THEN a ELSE b

\* Conversion to UINT16.
UINT16(x) == x % Word

SMSS == min(MSS, PeerMSS)

LW == SMSS

congestion_set_IW ==
  (IF SMSS > 2190 THEN 2 ELSE IF SMSS > 1095 THEN 3 ELSE 4) * max(SMSS, MSS)

TCP_DupThresh == 3

\* The four algorithms of Congestion.c modelled here.
Algorithm == {"OLDTAHOE", "TAHOE", "RENO", "NEWRENO"}

ASSUME VariantAssumption == Variants \subseteq Algorithm

\* The configuration accepts segments whose initial and inflated windows
\* fit the 16-bit variables.
ASSUME SizeAssumption ==
  /\ Word \in Nat /\ MSS \in Nat \ {0} /\ PeerMSS \in Nat \ {0}
  /\ PacketSize \in 1..SMSS
  /\ InitSSThresh \in 0..Word - 1
  /\ Scale \in Nat \ {0}
  /\ congestion_set_IW < Word
  /\ 6 * SMSS < Word

ASSUME BoundAssumption ==
  /\ First \in Nat \ {0} /\ Total \in Nat
  /\ Reordering \subseteq Variants /\ MaxAcks \in Nat /\ MaxDup \in Nat
  /\ MaxFaults \in Nat

VARIABLES
  cong,        \* congestion variables of the sender (CONGESTIONVAR)
  una, nxt,    \* SND.UNA, SND.NXT
  left,        \* packets waiting in the socket interface
  halted,      \* an assertion has aborted the process
  net,         \* first bytes of the segments in flight
  rnxt, ooo,   \* receiver: RCV.NXT, segments kept out of order
  acks,        \* acknowledgments in flight, in the order they were sent
  faults,      \* losses, overtakings and timeouts so far
  dupRun,      \* history: duplicate ACKs seen for una, up to three
  resent,      \* history: una has been retransmitted
  lossFlight,  \* history: bytes in flight at the last loss event
  lossPoint    \* history: SND.NXT at the last loss event

vars == <<cong, una, nxt, left, halted, net, rnxt, ooo, acks, faults,
          dupRun, resent, lossFlight, lossPoint>>

Congestionvar == [variant : Algorithm, cwnd : 0..Word - 1,
                  ssthresh : 0..Word - 1, dupAckCount : Nat,
                  isFastRecovery : BOOLEAN, recover : Nat]

----------------------------------------------------------------------------
(* Windows.  v is the CONGESTIONVAR of the sender. *)

get_ssthres(v) == v.ssthresh * Scale
get_cwnd(v)    == v.cwnd * Scale

set_ssthres(v, x) == [v EXCEPT !.ssthresh = UINT16(x \div Scale)]

\* A scaled window is never stored as zero.
set_cwnd(v, x) ==
  LET w == UINT16(x \div Scale)
  IN  [v EXCEPT !.cwnd = IF Scale > 1 /\ w = 0 THEN 1 ELSE w]

\* Mutant: no saturation.
increase_cwnd_Unbounded(v, n) == [v EXCEPT !.cwnd = (get_cwnd(v) + n) \div Scale]

increase_cwnd(v, n) ==
  [v EXCEPT !.cwnd = min((get_cwnd(v) + n) \div Scale, Word - 1)]

\* What the three-way handshake leaves: init_congestion, before window
\* scaling is known, then congestion_set_MSS.
init_congestion(variant) ==
  set_cwnd([variant |-> variant, cwnd |-> InitSSThresh, ssthresh |-> InitSSThresh,
            dupAckCount |-> 0, isFastRecovery |-> FALSE, recover |-> 0],
           congestion_set_IW)

\* The cast keeps the low 16 bits of the flight.
FlightSize == UINT16(nxt - una)

\* Mutant: half the flight, without the floor.
LossThreshold_NoFloor == FlightSize \div 2

LossThreshold == max(FlightSize \div 2, 2 * SMSS)

----------------------------------------------------------------------------
(* An acknowledgment a.  d is the sender while it handles it: its          *)
(* variables v, the segments it retransmits, the flight and the highest    *)
(* sequence number at the last loss event.                                 *)

Sender(v, out, flight, point) ==
  [v |-> v, out |-> out, flight |-> flight, point |-> point]

Fresh(v) == Sender(v, {}, lossFlight, lossPoint)

\* First bytes of the segments from byte a up to byte b.
Starts(a, b) == {q \in a .. b - 1 : (q - First) % PacketSize = 0}

\* The retransmission queue.
Queue == Starts(una, nxt)

\* The segment sent again, if q is queued.
resend_segment_without_timeout(q) == {q} \cap Queue

\* Mutant: only the last acknowledgment is a duplicate.
isDupAck_Equal(a) == a = una

isDupAck(a) == a <= una

\* Mutant: grows by one segment, whatever was acknowledged.
slowStart_Segment(v, a) == increase_cwnd(v, SMSS)

slowStart(v, a) == increase_cwnd(v, min(UINT16(a - una), SMSS))

\* due: one round-trip time has passed since the last update.
CongestionAvoidance(v, a, due) == IF due THEN slowStart(v, a) ELSE v

Grow(d, a, due) ==
  [d EXCEPT !.v = IF get_cwnd(@) <= get_ssthres(@)
                  THEN slowStart(@, a) ELSE CongestionAvoidance(@, a, due)]

\* Mutant: the third duplicate only inflates the window.
FastRetransmit_Inflates(d, a) == [d EXCEPT !.v = increase_cwnd(@, SMSS)]

FastRetransmit(d, a) ==
  IF d.v.dupAckCount = TCP_DupThresh
  THEN LET t == set_ssthres(d.v, LossThreshold)
           w == set_cwnd(t, get_ssthres(t) + TCP_DupThresh * SMSS)
           r == [w EXCEPT !.isFastRecovery = w.variant \in {"RENO", "NEWRENO"}]
       IN  Sender(r, resend_segment_without_timeout(a), nxt - una, nxt)
  ELSE [d EXCEPT !.v = increase_cwnd(@, SMSS)]

\* Mutant: leaves the inflated window.
FastRecovery_Inflated(d) == [d EXCEPT !.v.isFastRecovery = FALSE, !.v.dupAckCount = 0]

FastRecovery(d) ==
  [d EXCEPT !.v = set_cwnd([@ EXCEPT !.isFastRecovery = FALSE, !.dupAckCount = 0],
                           get_ssthres(@))]

isFullAck(d, a) == a >= d.v.recover

\* Mutant: a full acknowledgment leaves the inflated window.
newReno_FastRecovery_Inflated(d, a) ==
  [d EXCEPT !.v.dupAckCount = 0, !.v.isFastRecovery = ~isFullAck(d, a)]

newReno_FastRecovery(d, a) ==
  LET v == [d.v EXCEPT !.dupAckCount = 0]
  IN  IF isFullAck(d, a)
      THEN [d EXCEPT !.v = [set_cwnd(v, min(UINT16(get_ssthres(v)),
                                            max(FlightSize, SMSS) + SMSS))
                            EXCEPT !.isFastRecovery = FALSE]]
      ELSE Sender(increase_cwnd(v, UINT16(a - v.recover)),
                  resend_segment_without_timeout(a), d.flight, d.point)

CountDup(d) == [d EXCEPT !.v.dupAckCount = @ + 1]

oldtahoe_ack_received(d, a, due) == Grow(d, a, due)

tahoe_ack_received(d, a, due) ==
  LET c == CountDup(d)
  IN  IF isDupAck(a)
      THEN IF c.v.dupAckCount < TCP_DupThresh THEN c ELSE FastRetransmit(c, a)
      ELSE IF d.v.dupAckCount > 0
           THEN [d EXCEPT !.v = set_cwnd([@ EXCEPT !.dupAckCount = 0], LW)]
           ELSE Grow(d, a, due)

reno_ack_received(d, a, due) ==
  LET c == CountDup(d)
  IN  IF isDupAck(a)
      THEN IF c.v.dupAckCount < TCP_DupThresh THEN c ELSE FastRetransmit(c, a)
      ELSE IF d.v.isFastRecovery THEN FastRecovery(d) ELSE Grow(d, a, due)

\* A third duplicate counts only beyond the data covered by the last loss.
newreno_ack_received(d, a, due) ==
  LET c == CountDup(d)
  IN  IF isDupAck(a)
      THEN IF c.v.dupAckCount < TCP_DupThresh \/ c.v.recover >= a - 1
           THEN c
           ELSE FastRetransmit([c EXCEPT !.v.recover = nxt], a)
      ELSE IF d.v.isFastRecovery THEN newReno_FastRecovery(d, a) ELSE Grow(d, a, due)

ack_received(d, a, due) ==
  CASE d.v.variant = "OLDTAHOE" -> oldtahoe_ack_received(d, a, due)
    [] d.v.variant = "TAHOE"    -> tahoe_ack_received(d, a, due)
    [] d.v.variant = "RENO"     -> reno_ack_received(d, a, due)
    [] d.v.variant = "NEWRENO"  -> newreno_ack_received(d, a, due)

congestion_rto_timeout(v) ==
  LET w == set_cwnd(set_ssthres(v, LossThreshold), LW)
  IN  IF v.variant = "NEWRENO"
      THEN [w EXCEPT !.recover = nxt, !.isFastRecovery = FALSE] ELSE w

----------------------------------------------------------------------------
(* Events *)

\* Mutant: the window does not count what is in flight.
Room_Whole(w, u) == w \div PacketSize

\* Packets that fit in a window of w bytes from u on.
Room(w, u) == max(0, w + u - nxt) \div PacketSize

\* The window held by v lets packets out from una = u; resends are sent too.
send_segment(v, u, resends) ==
  LET n == min(left, Room(get_cwnd(v), u))
  IN  /\ nxt' = nxt + n * PacketSize
      /\ left' = left - n
      /\ net' = net \cup resends \cup {nxt + i * PacketSize : i \in 0 .. n - 1}
      /\ halted' = (get_cwnd(v) < SMSS)

\* The application hands over its packets on the established connection.
AppSend ==
  /\ ~halted /\ left = Total
  /\ send_segment(cong, una, {})
  /\ UNCHANGED <<cong, una, rnxt, ooo, acks, faults, dupRun, resent, lossFlight, lossPoint>>

\* Acknowledgment i reaches the sender (process_ack_in_establishedState).
ReceiveAck(i, due) ==
  LET a == acks[i]
      d == ack_received(Fresh(cong), a, due)
  IN  /\ ~halted /\ d.v.dupAckCount <= MaxDup
      /\ cong' = d.v
      /\ acks' = RemoveAt(acks, i)
      /\ lossFlight' = d.flight /\ lossPoint' = d.point
      /\ \/ /\ a > una
            /\ una' = a /\ dupRun' = 0 /\ resent' = (a \in d.out)
            /\ send_segment(d.v, a, d.out)
         \/ /\ a <= una
            /\ dupRun' = IF a = una THEN min(dupRun + 1, TCP_DupThresh) ELSE dupRun
            /\ resent' = (resent \/ una \in d.out)
            /\ net' = net \cup d.out
            /\ UNCHANGED <<una, nxt, left, halted>>
      /\ UNCHANGED <<rnxt, ooo>>

Fault == faults < MaxFaults /\ faults' = faults + 1

\* The oldest acknowledgment arrives, or one that overtook it.
AckArrives == \E i \in DOMAIN acks, due \in BOOLEAN :
  /\ \/ i = 1 /\ UNCHANGED faults
     \/ i > 1 /\ cong.variant \in Reordering /\ Fault
  /\ ReceiveAck(i, due)

\* The retransmission timer of segment q expires.
Rto == \E q \in Queue :
  /\ ~halted
  /\ cong' = congestion_rto_timeout(cong)
  /\ net' = net \cup {q}
  /\ resent' = (resent \/ q = una)
  /\ lossFlight' = nxt - una /\ lossPoint' = nxt
  /\ Fault
  /\ UNCHANGED <<una, nxt, left, halted, rnxt, ooo, acks, dupRun>>

\* Segment q reaches the receiver, which acknowledges what it has in order.
DataArrives == \E q \in net :
  /\ ~halted /\ Len(acks) < MaxAcks
  /\ LET held == ooo \cup {q}
     IN \E next \in Starts(rnxt, nxt + 1) :
         /\ next \notin held /\ Starts(rnxt, next) \subseteq held
         /\ rnxt' = next
         /\ ooo' = {x \in held : x > next}
         /\ acks' = Append(acks, next)
  /\ net' = net \ {q}
  /\ UNCHANGED <<cong, una, nxt, left, halted, faults, dupRun, resent, lossFlight, lossPoint>>

LoseData == \E q \in net :
  /\ net' = net \ {q}
  /\ Fault
  /\ UNCHANGED <<cong, una, nxt, left, halted, rnxt, ooo, acks, dupRun, resent, lossFlight, lossPoint>>

LoseAck == \E i \in DOMAIN acks :
  /\ acks' = RemoveAt(acks, i)
  /\ Fault
  /\ UNCHANGED <<cong, una, nxt, left, halted, net, rnxt, ooo, dupRun, resent, lossFlight, lossPoint>>

Init ==
  /\ \E a \in Variants : cong = init_congestion(a)
  /\ una = First /\ nxt = First /\ left = Total /\ halted = FALSE
  /\ net = {} /\ rnxt = First /\ ooo = {} /\ acks = <<>> /\ faults = 0
  /\ dupRun = 0 /\ resent = FALSE /\ lossFlight = 0 /\ lossPoint = 0

Next == AppSend \/ AckArrives \/ Rto \/ DataArrives \/ LoseData \/ LoseAck

Spec == Init /\ [][Next]_vars

----------------------------------------------------------------------------
(* Properties *)

\* Every variable keeps its type; the windows keep their 16 bits.
TypeOK ==
  /\ cong \in Congestionvar
  /\ una \in Nat /\ nxt \in Nat /\ left \in Nat /\ halted \in BOOLEAN
  /\ net \subseteq Nat /\ rnxt \in Nat /\ ooo \subseteq Nat /\ acks \in Seq(Nat)
  /\ faults \in Nat
  /\ dupRun \in 0..TCP_DupThresh /\ resent \in BOOLEAN /\ lossFlight \in Nat /\ lossPoint \in Nat

\* Whatever sequence of losses, duplicate ACKs, recoveries and timeouts the
\* connection went through, the window that send_segment uses holds a full
\* segment: the assertion SND.WND >= MSS of TCP_Outgoing.c never fails, as
\* long as Scale divides the segment; otherwise it can (Congestion_scaled.cfg).
WindowHoldsSegment == ~halted

\* The send loop never puts more in flight than the largest window the sender
\* can store, however the window shrinks and grows meanwhile.  Without window
\* scaling this is what the cast to UINT16 FlightSize in Congestion.c needs to
\* lose nothing.  With scaling the flight passes the word, and the threshold
\* after a loss is computed from its low 16 bits.
LargestWindow == (Word - 1) * Scale

FlightFitsWindow == nxt - una <= LargestWindow

\* Once three duplicate ACKs have been received for the oldest outstanding
\* byte, its segment has been retransmitted (FastRetransmit, step 3 of its
\* comment).
ThreeDuplicates == dupRun = TCP_DupThresh /\ una < nxt

LostSegmentResent ==
  ThreeDuplicates /\ cong.variant \in {"TAHOE", "RENO"} => resent

\* The same of NewReno, but for the bytes sent before the last loss event,
\* whose duplicates may be due to that recovery.
NewRenoResends ==
  ThreeDuplicates /\ cong.variant = "NEWRENO" /\ lossPoint < una - 1 => resent

\* Leaving fast recovery deflates the window to at most half of what was in
\* flight at the last loss event (two segments at least), however much the
\* duplicate ACKs of the recovery have inflated it.
RecoveryDeflates ==
  [][cong.isFastRecovery /\ ~cong'.isFastRecovery
     => get_cwnd(cong') <= max(lossFlight \div 2, 2 * SMSS)]_vars

\* Outside loss recovery the window grows by no more than the number of bytes
\* the step newly acknowledged (the N of slowStart): a late or repeated
\* acknowledgment never opens it.
GrowsByAckedBytes ==
  [][~cong.isFastRecovery /\ cong'.dupAckCount < TCP_DupThresh
     => get_cwnd(cong') - get_cwnd(cong) <= max(0, una' - una)]_vars
=============================================================================
