----------------------------- MODULE TCP_proof -----------------------------
(***************************************************************************)
(* Proofs about TCP.  The network is not trusted: the invariant of a       *)
(* device holds whatever well-formed segments arrive, so that every        *)
(* handler is proved on its own, on the local state it maps to a new one.  *)
(***************************************************************************)
EXTENDS TCP, TLAPS, FiniteSetTheorems

Contexts == [s : TCB, buf : Nat, out : SUBSET Segment, arm : SUBSET Segment,
             tw : Nat, halt : BOOLEAN]

\* States in which the SYN has not been acknowledged.
Opening == {"SYN_SENT", "SYN_RECEIVED", "LISTEN"}

\* The retransmission queue is what has been sent and not acknowledged.
Queue(e, s) ==
  /\ s.una <= s.nxt
  /\ \A x \in s.rtx : x.src = e /\ x.kind \in {"syn", "synack", "data"}
  /\ \A x, y \in s.rtx : x.seq = y.seq => x = y
  /\ SeqNums(s.rtx) = s.una..(s.nxt - 1)

\* While the SYN is outstanding nothing else is, and nobody waits for data.
Handshake(s) ==
  /\ s.state \in Opening => s.una = s.iss /\ s.nxt = s.iss + 1 /\ ~s.waitFromApp
  /\ s.dangling => s.state = "LISTEN"
  /\ s.sock = "none" => ~s.waitFromApp
  /\ s.sock # "open" => s.rtx = {}

\* An established connection with nothing outstanding waits for the application.
Waiting(s, b) ==
  s.sock = "open" /\ s.state = "ESTABLISHED" /\ s.rtx = {} => s.waitFromApp /\ b = 0

Sender(e, c) == Queue(e, c.s) /\ Handshake(c.s) /\ Waiting(c.s, c.buf)

\* The queued segments of s have a timer in T.
Armed(s, T) == ~s.cancel /\ ~s.dangling => s.rtx \subseteq T

\* What has been received, as the application of the socket sees it.
Receiver(s, g, h) ==
  /\ s.sock = "open" => s.state # "CLOSED"
  /\ \A x \in s.ooo : x.kind = "data" => x.seq > s.rnxt
  /\ s.sock = "open" /\ s.state \in Incoming =>
       /\ s.irs < s.rnxt
       /\ g = (s.irs + 1)..(s.rnxt - 1)
       /\ h = s.rnxt - s.irs - 1
  /\ s.sock = "open" /\ s.state = "SYN_SENT" => g = {} /\ h = 0 /\ s.ooo = {}

\* A handler that turns c into d keeps the receiving side: it ends where it
\* began, stays among the Incoming states, goes back to LISTEN or closes.
Keeps(c, d) ==
  \/ /\ d.s.sock = c.s.sock
     /\ d.s.rnxt = c.s.rnxt /\ d.s.irs = c.s.irs /\ d.s.ooo = c.s.ooo
     /\ \/ d.s.state = c.s.state
        \/ c.s.state \in Incoming /\ d.s.state \in Incoming
        \/ d.s.state = "LISTEN"
  \/ d.s.sock # "open" /\ d.s.ooo = {}

\* It arms a timer for all it queues, unless it cancels the timers.
Arms(c, d) ==
  /\ c.arm \subseteq d.arm
  /\ \/ Armed(d.s, d.arm)
     \/ /\ d.s.rtx \subseteq c.s.rtx \cup d.arm
        /\ c.s.cancel => d.s.cancel
        /\ c.s.dangling => d.s.dangling

\* What the proof shows of each handler.
Handles(e, c, d) == d \in Contexts /\ Sender(e, d) /\ Arms(c, d) /\ Keeps(c, d)

----------------------------------------------------------------------------
(* Lemmas about the helpers *)

\* Seg makes segments.
LEMMA SegType ==
  ASSUME NEW e \in Ep, NEW k \in Kind, NEW q \in Nat, NEW a \in Nat
  PROVE  Seg(e, k, q, a) \in Segment
BY DEF Seg, Segment

\* The types of the parts of a local state.
LEMMA ContextFields ==
  ASSUME NEW c \in Contexts
  PROVE  /\ c.s \in TCB /\ c.buf \in Nat /\ c.tw \in Nat /\ c.halt \in BOOLEAN
         /\ c.out \subseteq Segment /\ c.arm \subseteq Segment
         /\ c.s.state \in State /\ c.s.prev \in State
         /\ c.s.iss \in Nat /\ c.s.irs \in Nat /\ c.s.una \in Nat
         /\ c.s.nxt \in Nat /\ c.s.rnxt \in Nat /\ c.s.synRetries \in Nat
         /\ c.s.rtx \subseteq Segment /\ c.s.ooo \subseteq Segment
BY DEF Contexts, TCB

\* The record of a device without socket is a TCB.
LEMMA NoSocketType == NoSocket \in TCB
BY DEF NoSocket, TCB, State

\* Sending changes neither the socket nor the buffer.
LEMMA SendToNetwork ==
  ASSUME NEW c \in Contexts, NEW m \in Segment
  PROVE  LET d == send_to_network(c, m)
         IN  d \in Contexts /\ d.s = c.s /\ d.buf = c.buf /\ d.arm = c.arm
BY DEF send_to_network, Contexts

\* An ACK changes neither the socket nor the buffer.
LEMMA SendAck ==
  ASSUME NEW e \in Ep, NEW c \in Contexts, NEW q \in Nat, NEW a \in Nat
  PROVE  LET d == send_ack(e, c, q, a)
         IN  d \in Contexts /\ d.s = c.s /\ d.buf = c.buf /\ d.arm = c.arm
<1>1. Seg(e, "ack", q, a) \in Segment
  BY SegType DEF Kind
<1> QED BY <1>1, SendToNetwork DEF send_ack

\* Nor does a FIN-ACK.
LEMMA SendFinAck ==
  ASSUME NEW e \in Ep, NEW c \in Contexts, NEW q \in Nat, NEW a \in Nat
  PROVE  LET d == send_fin_ack(e, c, q, a)
         IN  d \in Contexts /\ d.s = c.s /\ d.buf = c.buf /\ d.arm = c.arm
<1>1. Seg(e, "finack", q, a) \in Segment
  BY SegType DEF Kind
<1> QED BY <1>1, SendToNetwork DEF send_fin_ack

\* Nor does an RST.
LEMMA SendRst ==
  ASSUME NEW e \in Ep, NEW c \in Contexts, NEW m \in Segment, NEW code
  PROVE  LET d == send_rst(e, c, m, code)
         IN  d \in Contexts /\ d.s = c.s /\ d.buf = c.buf /\ d.arm = c.arm
<1>1. m.seq \in Nat /\ m.ackno \in Nat BY DEF Segment
<1>2. create_rst(e, m, code) \in Segment
  BY <1>1, SegType, BoundAssumption DEF create_rst, Kind
<1> QED BY <1>2, SendToNetwork DEF send_rst

\* Nor does a FIN: it is not queued.
LEMMA SendFin ==
  ASSUME NEW e \in Ep, NEW c \in Contexts
  PROVE  LET d == send_fin(e, c)
         IN  d \in Contexts /\ d.s = c.s /\ d.buf = c.buf /\ d.arm = c.arm
<1> DEFINE q == IF c.s.iss + 1 = c.s.nxt THEN c.s.nxt + 1 ELSE c.s.nxt
<1>1. Seg(e, "fin", q, 0) \in Segment
  BY SegType, ContextFields DEF Kind
<1> QED BY <1>1, SendToNetwork DEF send_fin

\* The fields the invariants are about, apart from the state.
SameFields(s, t) ==
  /\ t.sock = s.sock /\ t.iss = s.iss /\ t.irs = s.irs
  /\ t.una = s.una /\ t.nxt = s.nxt /\ t.rnxt = s.rnxt
  /\ t.rtx = s.rtx /\ t.ooo = s.ooo /\ t.dangling = s.dangling
  /\ t.waitFromApp = s.waitFromApp /\ (s.cancel => t.cancel)

\* tcp_change_state writes the state, and the previous one, only.
LEMMA ChangeState ==
  ASSUME NEW c \in Contexts, NEW st \in State
  PROVE  LET d == tcp_change_state(c, st)
         IN  /\ d \in Contexts /\ d.buf = c.buf /\ d.arm = c.arm
             /\ d.s.state = st /\ SameFields(c.s, d.s)
<1>1. CASE c.s.state = st
  BY <1>1 DEF tcp_change_state, SameFields
<1>2. CASE c.s.state # st
  BY <1>2 DEF tcp_change_state, SameFields, Contexts, TCB
<1> QED BY <1>1, <1>2

\* start_timewait_timer counts a timer and cancels the others.
LEMMA TimeWait ==
  ASSUME NEW c \in Contexts
  PROVE  LET d == start_timewait_timer(c)
         IN  /\ d \in Contexts /\ d.buf = c.buf /\ d.arm = c.arm
             /\ d.s.state = c.s.state /\ SameFields(c.s, d.s)
<1>1. c.tw \in Nat /\ c.s \in TCB BY ContextFields
<1>2. c.tw + 1 \in Nat BY <1>1
<1> QED BY <1>1, <1>2 DEF start_timewait_timer, SameFields, Contexts, TCB

\* A queued segment occupies one sequence number.
LEMMA SegLen ==
  ASSUME NEW m \in Segment
  PROVE  /\ m.kind \in {"syn", "synack", "data"} => get_seg_len(m) = 1
         /\ m.kind = "fin" => get_seg_len(m) = 0
BY DEF get_seg_len, Syn, Segment

\* What is in a queue of SYNs and data from una on remains after an ACK.
LEMMA DeleteFromQueue ==
  ASSUME NEW e, NEW s \in TCB, Queue(e, s), NEW a \in Nat, s.una <= a, a <= s.nxt
  PROVE  LET q == delete_segment_from_queue(s.rtx, a)
         IN  q \subseteq s.rtx /\ SeqNums(q) = a..(s.nxt - 1)
<1> DEFINE q == delete_segment_from_queue(s.rtx, a)
<1>1. \A x \in s.rtx : x.seq \in Nat /\ get_seg_len(x) = 1
  BY SegLen DEF Queue, TCB, Segment
<1>2. q = {x \in s.rtx : x.seq >= a}
  BY <1>1 DEF delete_segment_from_queue
<1>3. SeqNums(s.rtx) = s.una..(s.nxt - 1) BY DEF Queue
<1>4. s.una \in Nat /\ s.nxt \in Nat BY DEF TCB
<1> HIDE DEF q
<1>5. SeqNums(q) = {n \in SeqNums(s.rtx) : n >= a}
  BY <1>2 DEF SeqNums
<1>6. SeqNums(q) = a..(s.nxt - 1)
  BY <1>3, <1>4, <1>5
<1>7. q \subseteq s.rtx BY <1>2
<1> QED BY <1>6, <1>7 DEF q

\* A queue is empty exactly when everything sent has been acknowledged.
LEMMA EmptyQueue ==
  ASSUME NEW e, NEW s \in TCB, Queue(e, s)
  PROVE  s.rtx = {} <=> s.una = s.nxt
<1>1. s.una \in Nat /\ s.nxt \in Nat /\ s.una <= s.nxt BY DEF TCB, Queue
<1>2. s.rtx = {} <=> SeqNums(s.rtx) = {} BY DEF SeqNums
<1>3. SeqNums(s.rtx) = s.una..(s.nxt - 1) BY DEF Queue
<1> QED BY <1>1, <1>2, <1>3

----------------------------------------------------------------------------
(* send_segment *)

\* tcp_close leaves the queue alone, and waits until it is empty.
LEMMA Close ==
  ASSUME NEW e \in Ep, NEW c \in Contexts, Queue(e, c.s), Handshake(c.s)
  PROVE  LET d == tcp_close(e, c)
         IN  /\ d \in Contexts /\ d.buf = c.buf /\ d.arm = c.arm
             /\ SameFields(c.s, d.s)
             /\ d.s.state = c.s.state
                  \/ (c.s.state \notin Opening /\ d.s.state = "FIN_WAIT_1")
<1>1. CASE c.s.rtx # {}
  BY <1>1 DEF tcp_close, SameFields
<1>2. CASE c.s.rtx = {}
  <2>1. c.s.state \notin Opening
    BY <1>2, EmptyQueue, ContextFields DEF Handshake
  <2>2. "FIN_WAIT_1" \in State BY DEF State
  <2>3. send_fin(e, c) \in Contexts /\ send_fin(e, c).s = c.s
          /\ send_fin(e, c).buf = c.buf /\ send_fin(e, c).arm = c.arm
    BY SendFin
  <2> QED BY <1>2, <2>1, <2>2, <2>3, ChangeState DEF tcp_close
<1> QED BY <1>1, <1>2

\* send_segment never sends more than is buffered, and fills the window.
LEMMA Room ==
  ASSUME NEW c \in Contexts, NEW w \in Nat
  PROVE  /\ Fits(c, w) \in Nat /\ Fits(c, w) <= c.buf
         /\ Fits(c, w) < c.buf => c.s.nxt + Fits(c, w) - c.s.una >= w
BY ContextFields DEF Fits


\* A step that leaves the fields alone and moves along the diagram.
LEMMA QuietStep ==
  ASSUME NEW e \in Ep, NEW c \in Contexts, NEW d \in Contexts, Sender(e, c),
         SameFields(c.s, d.s), d.buf = c.buf, d.arm = c.arm,
         \/ d.s.state = c.s.state
         \/ /\ c.s.state \in Incoming
            /\ d.s.state \in Incoming \ {"ESTABLISHED", "SYN_RECEIVED"}
            /\ ~c.s.dangling
         \/ c.s.state = "SYN_RECEIVED" /\ d.s.state = "LISTEN"
  PROVE  Handles(e, c, d)
<1>1. Queue(e, d.s) BY DEF Queue, Sender, SameFields
<1>2. Handshake(d.s) BY DEF Handshake, Sender, SameFields, Incoming, Opening
<1>3. Waiting(d.s, d.buf) BY DEF Waiting, Sender, SameFields
<1>4. Arms(c, d) BY DEF Arms, SameFields
<1>5. Keeps(c, d) BY DEF Keeps, SameFields
<1> QED BY <1>1, <1>2, <1>3, <1>4, <1>5 DEF Handles, Sender

\* The step of send_segment before it looks at the end flag.
NewData(e, c, w) ==
  {Seg(e, "data", q, 0) : q \in c.s.nxt .. c.s.nxt + Fits(c, w) - 1}

Sent(e, c, w, last) ==
  [c EXCEPT !.s.waitFromApp = @ \/ c.buf = 0,
            !.s.isAPPClose = @ \/ last,
            !.s.nxt = @ + Fits(c, w), !.buf = @ - Fits(c, w),
            !.s.rtx = @ \cup NewData(e, c, w),
            !.out = @ \cup NewData(e, c, w), !.arm = @ \cup NewData(e, c, w)]

\* The step of send_segment keeps the queue the outstanding data.
LEMMA SendData ==
  ASSUME NEW e \in Ep, NEW c \in Contexts, Queue(e, c.s), Handshake(c.s),
         c.s.state \notin Opening, c.s.state # "CLOSED", c.s.sock = "open",
         NEW w \in Windows, NEW last \in BOOLEAN
  PROVE  LET d == Sent(e, c, w, last)
         IN  /\ d \in Contexts
             /\ Queue(e, d.s) /\ Handshake(d.s)
             /\ d.s.rtx = {} => d.s.waitFromApp /\ d.buf = 0
             /\ c.buf > 0 => d.s.rtx # {}
             /\ Arms(c, d)
             /\ d.s.state = c.s.state /\ d.s.sock = c.s.sock
             /\ d.s.rnxt = c.s.rnxt /\ d.s.irs = c.s.irs /\ d.s.ooo = c.s.ooo
<1> DEFINE n    == Fits(c, w)
           segs == {Seg(e, "data", q, 0) : q \in c.s.nxt .. c.s.nxt + n - 1}
           wf   == c.s.waitFromApp \/ c.buf = 0
           ap   == c.s.isAPPClose \/ last
           nx   == c.s.nxt + n
           b    == c.buf - n
           rtx  == c.s.rtx \cup segs
           t    == [c.s EXCEPT !.waitFromApp = wf, !.isAPPClose = ap,
                               !.nxt = nx, !.rtx = rtx]
           d    == [c EXCEPT !.s = t, !.buf = b, !.out = @ \cup segs,
                             !.arm = @ \cup segs]
<1>1. w \in Nat /\ w >= 1 BY BoundAssumption DEF Windows
<1>2. n \in Nat /\ n <= c.buf /\ (n < c.buf => c.s.nxt + n - c.s.una >= w)
  BY <1>1, Room
<1>3. c.s \in TCB /\ c.buf \in Nat /\ c.s.una \in Nat /\ c.s.nxt \in Nat
        /\ c.s.rtx \subseteq Segment /\ c.out \subseteq Segment
        /\ c.arm \subseteq Segment
  BY ContextFields
<1>4. nx \in Nat /\ b \in Nat /\ nx >= c.s.nxt
  BY <1>2, <1>3
<1>5. \A x \in segs : /\ x \in Segment /\ x.src = e /\ x.kind = "data"
                      /\ x.seq \in c.s.nxt .. nx - 1
                      /\ x = Seg(e, "data", x.seq, 0)
  BY <1>2, <1>3 DEF Seg, Segment, Kind
<1>6. SeqNums(segs) = c.s.nxt .. nx - 1
  <2>1. \A q \in c.s.nxt .. nx - 1 :
          Seg(e, "data", q, 0) \in segs /\ Seg(e, "data", q, 0).seq = q
    <3> TAKE q \in c.s.nxt .. nx - 1
    <3>1. c.s.nxt + n - 1 = nx - 1 BY <1>2, <1>3
    <3> HIDE DEF nx, n
    <3>2. Seg(e, "data", q, 0) \in segs BY <3>1
    <3>3. Seg(e, "data", q, 0).seq = q BY DEF Seg
    <3> QED BY <3>2, <3>3
  <2> HIDE DEF segs, nx
  <2> QED BY <1>5, <2>1 DEF SeqNums
<1>7. SeqNums(rtx) = SeqNums(c.s.rtx) \cup SeqNums(segs)
  BY DEF SeqNums
<1>8. SeqNums(c.s.rtx) = c.s.una .. c.s.nxt - 1 /\ c.s.una <= c.s.nxt
  BY DEF Queue
<1>9. wf \in BOOLEAN /\ ap \in BOOLEAN /\ (c.buf = 0 => wf)
  OBVIOUS
<1>10. rtx \subseteq Segment /\ segs \subseteq Segment
  BY <1>3, <1>5
<1>11. SeqNums(rtx) = c.s.una .. nx - 1
  <2> HIDE DEF nx, rtx, segs
  <2> QED BY <1>3, <1>4, <1>6, <1>7, <1>8
<1>12. rtx = {} => nx = c.s.una
  <2>1. rtx = {} => c.s.una .. nx - 1 = {}
    BY <1>11 DEF SeqNums
  <2> HIDE DEF nx, rtx
  <2> QED BY <2>1, <1>3, <1>4, <1>8
<1>13. rtx = {} => c.buf = 0
  <2> HIDE DEF rtx, n
  <2> QED BY <1>1, <1>2, <1>3, <1>8, <1>12 DEF nx
<1>14. \A x \in c.s.rtx : x.seq \in c.s.una .. c.s.nxt - 1
  BY <1>8 DEF SeqNums
<1>15. /\ \A x \in rtx : x.src = e /\ x.kind \in {"syn", "synack", "data"}
       /\ \A x, y \in rtx : x.seq = y.seq => x = y
  <2>1. \A x \in rtx : x.src = e /\ x.kind \in {"syn", "synack", "data"}
    BY <1>5 DEF Queue
  <2>2. ASSUME NEW x \in rtx, NEW y \in rtx, x.seq = y.seq PROVE x = y
    <3>1. CASE x \in c.s.rtx /\ y \in c.s.rtx BY <2>2, <3>1 DEF Queue
    <3>2. CASE x \in segs /\ y \in segs BY <2>2, <3>2, <1>5
    <3>3. CASE x \in c.s.rtx /\ y \in segs BY <2>2, <3>3, <1>5, <1>14, <1>3
    <3>4. CASE x \in segs /\ y \in c.s.rtx BY <2>2, <3>4, <1>5, <1>14, <1>3
    <3> QED BY <3>1, <3>2, <3>3, <3>4
  <2> QED BY <2>1, <2>2
<1>16. Sent(e, c, w, last) = d
  <2>1. NewData(e, c, w) = segs BY DEF NewData
  <2> HIDE DEF segs, n
  <2> QED BY <1>3, <2>1, ZenonT(20) DEF Contexts, TCB, Sent, n
<1> HIDE DEF n, segs, wf, ap, nx, b, rtx
<1>17. t \in TCB BY <1>3, <1>4, <1>9, <1>10 DEF TCB
<1>18. /\ t.una = c.s.una /\ t.nxt = nx /\ t.rtx = rtx /\ t.iss = c.s.iss
       /\ t.state = c.s.state /\ t.sock = c.s.sock /\ t.rnxt = c.s.rnxt
       /\ t.irs = c.s.irs /\ t.ooo = c.s.ooo /\ t.waitFromApp = wf
       /\ t.cancel = c.s.cancel /\ t.dangling = c.s.dangling
  BY <1>3 DEF TCB
<1> HIDE DEF t
<1>19. d \in Contexts /\ d.s = t /\ d.buf = b /\ d.arm = c.arm \cup segs
  BY <1>3, <1>4, <1>10, <1>17 DEF Contexts
<1> HIDE DEF d
<1>20. Queue(e, d.s)
  BY <1>3, <1>4, <1>8, <1>11, <1>15, <1>18, <1>19 DEF Queue
<1>21. Handshake(d.s)
  BY <1>18, <1>19 DEF Handshake
<1>22. d.s.rtx = {} => d.s.waitFromApp /\ d.buf = 0
  BY <1>2, <1>3, <1>9, <1>13, <1>18, <1>19 DEF b
<1>23. c.buf > 0 => d.s.rtx # {}
  BY <1>3, <1>13, <1>18, <1>19
<1>24. Arms(c, d)
  BY <1>18, <1>19 DEF Arms, rtx
<1>25. /\ d.s.state = c.s.state /\ d.s.sock = c.s.sock
       /\ d.s.rnxt = c.s.rnxt /\ d.s.irs = c.s.irs /\ d.s.ooo = c.s.ooo
  BY <1>18, <1>19
<1> QED
  BY <1>16, <1>19, <1>20, <1>21, <1>22, <1>23, <1>24, <1>25

\* send_segment as a whole, tcp_close included.
LEMMA SendSegment ==
  ASSUME NEW e \in Ep, NEW c \in Contexts, Queue(e, c.s), Handshake(c.s),
         c.s.state \in State \ (Opening \cup {"CLOSED"}), c.s.sock = "open",
         NEW w \in Windows, NEW left
  PROVE  LET d == send_segment(e, c, w, left)
         IN  /\ Handles(e, c, d)
             /\ c.buf > 0 => d.s.rtx # {}
             /\ d.s.sock = c.s.sock
             /\ d.s.rnxt = c.s.rnxt /\ d.s.irs = c.s.irs /\ d.s.ooo = c.s.ooo
             /\ d.s.state = c.s.state \/ d.s.state = "FIN_WAIT_1"
             /\ ~c.s.dangling => ~d.s.dangling
<1> DEFINE last == EndFlag[e] /\ Fits(c, w) > 0 /\ Fits(c, w) = c.buf /\ left = 0
           d    == Sent(e, c, w, last)
           f    == IF d.s.isAPPClose THEN tcp_close(e, d) ELSE d
<1>1. last \in BOOLEAN
  BY EpAssumption
<1>2. send_segment(e, c, w, left) = f
  BY DEF send_segment, Sent, NewData
<1> HIDE DEF last
<1>3. /\ d \in Contexts
      /\ Queue(e, d.s) /\ Handshake(d.s)
      /\ d.s.rtx = {} => d.s.waitFromApp /\ d.buf = 0
      /\ c.buf > 0 => d.s.rtx # {}
      /\ Arms(c, d)
      /\ d.s.state = c.s.state /\ d.s.sock = c.s.sock
      /\ d.s.rnxt = c.s.rnxt /\ d.s.irs = c.s.irs /\ d.s.ooo = c.s.ooo
  <2>1. c.s.state \notin Opening /\ c.s.state # "CLOSED" OBVIOUS
  <2> QED BY <1>1, <2>1, SendData
<1> HIDE DEF d
<1>4. /\ f \in Contexts /\ f.buf = d.buf /\ f.arm = d.arm
      /\ SameFields(d.s, f.s)
      /\ f.s.state = d.s.state \/ f.s.state = "FIN_WAIT_1"
  BY <1>3, Close DEF SameFields
<1> HIDE DEF f
<1>5. d.s.state \in Incoming
  BY <1>3 DEF Incoming, Opening, State
<1>6. Queue(e, f.s) BY <1>3, <1>4 DEF Queue, SameFields
<1>7. Handshake(f.s) BY <1>3, <1>4, <1>5 DEF Handshake, SameFields, Opening, Incoming
<1>8. Waiting(f.s, f.buf) BY <1>3, <1>4 DEF Waiting, SameFields
<1>9. Arms(c, f) BY <1>3, <1>4 DEF Arms, SameFields, Armed
<1>10. Keeps(c, f)
  BY <1>3, <1>4, <1>5 DEF Keeps, SameFields, Incoming, State
<1>11. /\ c.buf > 0 => f.s.rtx # {}
       /\ f.s.sock = c.s.sock
       /\ f.s.rnxt = c.s.rnxt /\ f.s.irs = c.s.irs /\ f.s.ooo = c.s.ooo
       /\ f.s.state = c.s.state \/ f.s.state = "FIN_WAIT_1"
  BY <1>3, <1>4 DEF SameFields
<1>12. ~f.s.dangling
  BY <1>3, <1>4, <1>5, <1>7 DEF Handshake, Incoming, State
<1> QED
  BY <1>2, <1>4, <1>6, <1>7, <1>8, <1>9, <1>10, <1>11, <1>12 DEF Handles, Sender

----------------------------------------------------------------------------
(* ACKs *)

\* Retransmitting at once sends without touching the socket.
Resent(c, fast, a) == [c EXCEPT !.out = @ \cup {x \in c.s.rtx : fast /\ x.seq = a}]

LEMMA FastResend ==
  ASSUME NEW c \in Contexts, NEW fast \in BOOLEAN, NEW a
  PROVE  LET f == Resent(c, fast, a)
         IN  f \in Contexts /\ f.s = c.s /\ f.buf = c.buf /\ f.arm = c.arm
<1> DEFINE segs == {x \in c.s.rtx : fast /\ x.seq = a}
           f == [c EXCEPT !.out = @ \cup segs]
<1>1. segs \subseteq Segment BY ContextFields
<1> HIDE DEF segs
<1>2. f \in Contexts /\ f.s = c.s /\ f.buf = c.buf /\ f.arm = c.arm
  BY <1>1 DEF Contexts
<1> QED BY <1>2 DEF segs, Resent

\* An ACK of a moves SND.UNA and the queue together.
LEMMA AckedQueue ==
  ASSUME NEW e \in Ep, NEW c \in Contexts, Queue(e, c.s), Handshake(c.s),
         c.s.state \notin Opening,
         NEW a \in Nat, c.s.una <= a, a <= c.s.nxt
  PROVE  LET d == [c EXCEPT !.s.una = a,
                            !.s.rtx = delete_segment_from_queue(@, a)]
         IN  /\ d \in Contexts /\ d.buf = c.buf /\ d.arm = c.arm
             /\ Queue(e, d.s) /\ Handshake(d.s)
             /\ d.s.rtx \subseteq c.s.rtx
             /\ d.s.state = c.s.state /\ d.s.sock = c.s.sock
             /\ d.s.rnxt = c.s.rnxt /\ d.s.irs = c.s.irs /\ d.s.ooo = c.s.ooo
             /\ d.s.cancel = c.s.cancel /\ d.s.dangling = c.s.dangling
<1> DEFINE q == delete_segment_from_queue(c.s.rtx, a)
           d == [c EXCEPT !.s.una = a, !.s.rtx = q]
<1>1. c.s \in TCB /\ c.s.rtx \subseteq Segment BY ContextFields
<1>2. q \subseteq c.s.rtx /\ SeqNums(q) = a..(c.s.nxt - 1)
  BY <1>1, DeleteFromQueue
<1>3. [c EXCEPT !.s.una = a, !.s.rtx = delete_segment_from_queue(@, a)] = d
  OBVIOUS
<1> HIDE DEF q
<1>4. q \subseteq Segment BY <1>1, <1>2
<1>5. d \in Contexts /\ d.buf = c.buf /\ d.arm = c.arm
  BY <1>4 DEF Contexts, TCB
<1>6. /\ d.s.una = a /\ d.s.rtx = q /\ d.s.nxt = c.s.nxt /\ d.s.iss = c.s.iss
      /\ d.s.state = c.s.state /\ d.s.sock = c.s.sock
      /\ d.s.rnxt = c.s.rnxt /\ d.s.irs = c.s.irs /\ d.s.ooo = c.s.ooo
      /\ d.s.cancel = c.s.cancel /\ d.s.dangling = c.s.dangling
      /\ d.s.waitFromApp = c.s.waitFromApp
  BY DEF Contexts, TCB
<1> HIDE DEF d
<1>7. Queue(e, d.s) BY <1>2, <1>6 DEF Queue
<1>8. Handshake(d.s) BY <1>2, <1>6 DEF Handshake
<1> QED BY <1>2, <1>3, <1>5, <1>6, <1>7, <1>8 DEF d

\* States in which an ACK or a packet of the application leads to send_segment.
Sending == State \ (Opening \cup {"CLOSED"})

\* process_ack_in_establishedState and the send_segment that follows.
LEMMA Acknowledge ==
  ASSUME NEW e \in Ep, NEW c \in Contexts, Sender(e, c),
         c.s.state \in Sending, c.s.sock = "open", ~c.s.dangling,
         NEW m \in Segment, NEW fast \in BOOLEAN, NEW w \in Windows, NEW left
  PROVE  LET d == AckEstablished(e, c, m, fast, w, left)
         IN  /\ Handles(e, c, d) /\ ~d.s.dangling /\ d.s.sock = c.s.sock
             /\ d.s.state = c.s.state \/ d.s.state = "FIN_WAIT_1"
             /\ d.s.rnxt = c.s.rnxt /\ d.s.irs = c.s.irs /\ d.s.ooo = c.s.ooo
<1> DEFINE f == Resent(c, fast, m.ackno)
           g == [f EXCEPT !.s.una = m.ackno,
                          !.s.rtx = delete_segment_from_queue(@, m.ackno)]
           h == send_ack(e, f, m.seq, m.ackno)
           d == AckEstablished(e, c, m, fast, w, left)
<1>1. m.seq \in Nat /\ m.ackno \in Nat BY DEF Segment
<1>2. f \in Contexts /\ f.s = c.s /\ f.buf = c.buf /\ f.arm = c.arm
  BY FastResend
<1>3. CASE c.s.una < m.ackno /\ m.ackno <= c.s.nxt
  <2>1. d = send_segment(e, g, w, left)
    BY <1>3 DEF AckEstablished, Resent
  <2> HIDE DEF f
  <2>2. /\ g \in Contexts /\ g.buf = f.buf /\ g.arm = f.arm
        /\ Queue(e, g.s) /\ Handshake(g.s)
        /\ g.s.rtx \subseteq f.s.rtx
        /\ g.s.state = f.s.state /\ g.s.sock = f.s.sock
        /\ g.s.rnxt = f.s.rnxt /\ g.s.irs = f.s.irs /\ g.s.ooo = f.s.ooo
        /\ g.s.cancel = f.s.cancel /\ g.s.dangling = f.s.dangling
    <3>1. c.s.una <= m.ackno BY <1>1, <1>3, ContextFields
    <3>2. Queue(e, f.s) /\ Handshake(f.s) /\ f.s.state \notin Opening
      BY <1>2 DEF Sender, Sending
    <3> QED BY <1>1, <1>2, <1>3, <3>1, <3>2, AckedQueue, ZenonT(20)
  <2> HIDE DEF g, d
  <2>3. /\ Handles(e, g, d)
        /\ d.s.sock = g.s.sock
        /\ d.s.rnxt = g.s.rnxt /\ d.s.irs = g.s.irs /\ d.s.ooo = g.s.ooo
        /\ d.s.state = g.s.state \/ d.s.state = "FIN_WAIT_1"
        /\ ~d.s.dangling
    BY <1>2, <2>1, <2>2, SendSegment DEF Sending
  <2>4. Arms(c, d) BY <1>2, <2>2, <2>3 DEF Arms, Handles
  <2>5. Keeps(c, d)
    BY <1>2, <2>2, <2>3 DEF Keeps, Sending, Incoming, Opening, State
  <2> QED BY <1>2, <2>2, <2>3, <2>4, <2>5 DEF Handles, d
<1>4. CASE ~(c.s.una < m.ackno /\ m.ackno <= c.s.nxt) /\ m.ackno <= c.s.una
  <2>1. d = f BY <1>4 DEF AckEstablished, Resent
  <2> HIDE DEF f, d
  <2>2. SameFields(c.s, d.s) BY <1>2, <2>1 DEF SameFields
  <2>3. Handles(e, c, d) BY <1>2, <2>1, <2>2, QuietStep
  <2> QED BY <1>2, <2>1, <2>3 DEF d
<1>5. CASE ~(c.s.una < m.ackno /\ m.ackno <= c.s.nxt) /\ ~(m.ackno <= c.s.una)
  <2>1. d = h BY <1>5 DEF AckEstablished, Resent
  <2> HIDE DEF f, d
  <2>2. h \in Contexts /\ h.s = f.s /\ h.buf = f.buf /\ h.arm = f.arm
    BY <1>1, <1>2, SendAck
  <2>3. SameFields(c.s, d.s) BY <1>2, <2>1, <2>2 DEF SameFields
  <2>4. Handles(e, c, d) BY <1>2, <2>1, <2>2, <2>3, QuietStep
  <2> QED BY <1>2, <2>1, <2>2, <2>4 DEF d
<1> QED BY <1>3, <1>4, <1>5

\* process_ack_packet in the states that accept an ACK.
LEMMA AckPacket ==
  ASSUME NEW e \in Ep, NEW c \in Contexts, Sender(e, c),
         c.s.state \in Sending, c.s.sock = "open", ~c.s.dangling,
         NEW m \in Segment, NEW fast \in BOOLEAN, NEW w \in Windows, NEW left
  PROVE  Handles(e, c, process_ack_packet(e, c, m, fast, w, left))
<1> DEFINE d == AckEstablished(e, c, m, fast, w, left)
           t == start_timewait_timer(d)
           f == process_ack_packet(e, c, m, fast, w, left)
<1>1. /\ Handles(e, c, d) /\ ~d.s.dangling /\ d.s.sock = c.s.sock
      /\ d.s.state = c.s.state \/ d.s.state = "FIN_WAIT_1"
      /\ d.s.rnxt = c.s.rnxt /\ d.s.irs = c.s.irs /\ d.s.ooo = c.s.ooo
  BY Acknowledge
<1>2. d \in Contexts /\ Sender(e, d) BY <1>1 DEF Handles
<1>3. t \in Contexts /\ t.buf = d.buf /\ t.arm = d.arm
        /\ t.s.state = d.s.state /\ SameFields(d.s, t.s)
  BY <1>2, TimeWait
<1>4. f = d \/ f = tcp_change_state(d, "FIN_WAIT_2")
            \/ f = tcp_change_state(t, "TIME_WAIT")
  BY DEF process_ack_packet
<1> HIDE DEF d, t, f
<1>5. CASE f = d BY <1>1, <1>5 DEF f
<1>6. CASE f # d
  <2>1. /\ f \in Contexts /\ f.buf = d.buf /\ f.arm = d.arm
        /\ SameFields(d.s, f.s) /\ f.s.state \in {"FIN_WAIT_2", "TIME_WAIT"}
    BY <1>2, <1>3, <1>4, <1>6, ChangeState, SMTT(20) DEF State, SameFields
  <2>2. d.s.state \in Incoming BY <1>1 DEF Sending, Incoming, Opening, State
  <2>3. Handles(e, d, f)
    BY <1>1, <1>2, <2>1, <2>2, QuietStep DEF Incoming, State
  <2>4. Arms(c, f) BY <1>1, <2>1 DEF Handles, Arms, SameFields, Armed
  <2>5. Keeps(c, f)
    BY <1>1, <2>1, <2>2 DEF Keeps, SameFields, Sending, Incoming, Opening, State
  <2> QED BY <2>3, <2>4, <2>5 DEF Handles, f
<1> QED BY <1>5, <1>6

----------------------------------------------------------------------------
(* FINs *)

\* process_fin_packet in every state.
LEMMA FinPacket ==
  ASSUME NEW e \in Ep, NEW c \in Contexts, Sender(e, c),
         c.s.state \in Incoming, c.s.sock = "open", ~c.s.dangling, NEW m \in Segment
  PROVE  Handles(e, c, process_fin_packet(e, c, m))
<1> DEFINE d == send_fin_ack(e, c, c.s.nxt, c.s.rnxt)
           p == process_fin_packet(e, c, m)
           Quiet1(x) == /\ x \in Contexts /\ x.buf = c.buf /\ x.arm = c.arm
                        /\ SameFields(c.s, x.s)
<1>1. m.seq + 1 \in Nat /\ c.s.nxt + 1 \in Nat /\ c.s.nxt \in Nat /\ c.s.rnxt \in Nat
  BY ContextFields DEF Segment
<1>2. Quiet1(d) /\ d.s.state = c.s.state
  <2>1. d \in Contexts /\ d.s = c.s /\ d.buf = c.buf /\ d.arm = c.arm
    BY <1>1, SendFinAck, ZenonT(20)
  <2> QED BY <2>1 DEF SameFields
<1>3. Quiet1(c) BY DEF SameFields
<1>4. CASE c.s.state \in {"SYN_RECEIVED", "ESTABLISHED"}
  <2> DEFINE x == tcp_change_state(d, "CLOSE_WAIT")
             y == send_fin(e, x)
             z == tcp_change_state(y, "LAST_ACK")
             r == [z EXCEPT !.s.cancel = TRUE]
  <2>1. p = r BY <1>4 DEF process_fin_packet
  <2> HIDE DEF d, p
  <2>2. Quiet1(x) BY <1>2, ChangeState, SMTT(20) DEF State, SameFields
  <2> HIDE DEF x
  <2>3. Quiet1(y) BY <2>2, SendFin DEF SameFields
  <2> HIDE DEF y
  <2>4. Quiet1(z) /\ z.s.state = "LAST_ACK" BY <2>3, ChangeState, SMTT(20) DEF State, SameFields
  <2> HIDE DEF z
  <2>5. r \in Contexts /\ r.buf = z.buf /\ r.arm = z.arm
          /\ SameFields(z.s, r.s) /\ r.s.state = z.s.state
    BY <2>4 DEF Contexts, TCB, SameFields
  <2> HIDE DEF r
  <2>6. Quiet1(r) /\ r.s.state = "LAST_ACK" BY <2>4, <2>5 DEF SameFields
  <2> QED BY <2>1, <2>6, QuietStep DEF Incoming, State, p
<1>5. CASE c.s.state = "FIN_WAIT_1"
  <2>1. p = tcp_change_state(d, "CLOSING") BY <1>5 DEF process_fin_packet
  <2> HIDE DEF d, p
  <2>2. Quiet1(p) /\ p.s.state = "CLOSING"
    BY <1>2, <2>1, ChangeState, SMTT(20) DEF State, SameFields
  <2> QED BY <1>5, <2>2, QuietStep DEF Incoming, State, p
<1>6. CASE c.s.state = "FIN_WAIT_2"
  <2> DEFINE x == tcp_change_state(c, "TIME_WAIT")
             y == start_timewait_timer(x)
  <2>1. p = send_ack(e, y, c.s.nxt + 1, m.seq + 1)
    BY <1>6 DEF process_fin_packet
  <2> HIDE DEF d, p
  <2>2. Quiet1(x) /\ x.s.state = "TIME_WAIT" BY <1>3, ChangeState DEF State, SameFields
  <2> HIDE DEF x
  <2>3. Quiet1(y) /\ y.s.state = "TIME_WAIT" BY <2>2, TimeWait DEF SameFields
  <2> HIDE DEF y
  <2>4. y \in Contexts /\ c.s.nxt + 1 \in Nat /\ m.seq + 1 \in Nat
    BY <1>1, <2>3 DEF Contexts, TCB, Segment
  <2>5. p \in Contexts /\ p.s = y.s /\ p.buf = y.buf /\ p.arm = y.arm
    BY <2>1, <2>4, SendAck
  <2>6. Quiet1(p) /\ p.s.state = "TIME_WAIT" BY <2>3, <2>5
  <2> QED BY <1>6, <2>6, QuietStep DEF Incoming, State, p
<1>7. CASE c.s.state = "TIME_WAIT"
  <2> DEFINE y == start_timewait_timer(c)
             r == [y EXCEPT !.s.restarted = TRUE]
  <2>1. p = r BY <1>7 DEF process_fin_packet
  <2> HIDE DEF d, p
  <2>2. Quiet1(y) /\ y.s.state = "TIME_WAIT" BY <1>3, <1>7, TimeWait DEF SameFields
  <2> HIDE DEF y
  <2>3. r \in Contexts /\ r.buf = y.buf /\ r.arm = y.arm
          /\ SameFields(y.s, r.s) /\ r.s.state = y.s.state
    BY <2>2 DEF Contexts, TCB, SameFields
  <2> HIDE DEF r
  <2>4. Quiet1(r) /\ r.s.state = "TIME_WAIT" BY <2>2, <2>3 DEF SameFields
  <2> QED BY <1>7, <2>1, <2>4, QuietStep DEF p
<1>8. CASE c.s.state \notin {"SYN_RECEIVED", "ESTABLISHED", "FIN_WAIT_1",
                             "FIN_WAIT_2", "TIME_WAIT"}
  <2>1. p = c BY <1>8 DEF process_fin_packet
  <2> QED BY <1>3, <2>1, QuietStep
<1> QED BY <1>4, <1>5, <1>6, <1>7, <1>8

----------------------------------------------------------------------------
(* Opening, and resending after a timeout *)

\* add_timeout_event queues a segment and arms a timer.
LEMMA AddTimeout ==
  ASSUME NEW c \in Contexts, NEW m \in Segment
  PROVE  LET d == add_timeout_event(c, m)
         IN  /\ d \in Contexts /\ d.buf = c.buf /\ d.arm = c.arm \cup {m}
             /\ d.s.rtx = c.s.rtx \cup {m} /\ d.s.state = c.s.state
             /\ d.s.sock = c.s.sock /\ d.s.iss = c.s.iss /\ d.s.irs = c.s.irs
             /\ d.s.una = c.s.una /\ d.s.nxt = c.s.nxt /\ d.s.rnxt = c.s.rnxt
             /\ d.s.ooo = c.s.ooo /\ d.s.dangling = c.s.dangling
             /\ d.s.waitFromApp = c.s.waitFromApp /\ d.s.cancel = c.s.cancel
<1> DEFINE q == c.s.rtx \cup {m}
           t == [c.s EXCEPT !.rtx = q]
           d == [c EXCEPT !.s = t, !.arm = @ \cup {m}]
<1>1. c.s \in TCB /\ q \subseteq Segment /\ c.arm \subseteq Segment
  BY ContextFields
<1>2. add_timeout_event(c, m) = d BY DEF add_timeout_event, Contexts, TCB
<1> HIDE DEF q
<1>3. t \in TCB BY <1>1 DEF TCB
<1>4. /\ t.rtx = q /\ t.state = c.s.state
      /\ t.sock = c.s.sock /\ t.iss = c.s.iss /\ t.irs = c.s.irs
      /\ t.una = c.s.una /\ t.nxt = c.s.nxt /\ t.rnxt = c.s.rnxt
      /\ t.ooo = c.s.ooo /\ t.dangling = c.s.dangling
      /\ t.waitFromApp = c.s.waitFromApp /\ t.cancel = c.s.cancel
  BY <1>1 DEF TCB
<1> HIDE DEF t
<1>5. d \in Contexts /\ d.s = t /\ d.buf = c.buf /\ d.arm = c.arm \cup {m}
  BY <1>1, <1>3 DEF Contexts
<1> HIDE DEF d
<1> QED BY <1>2, <1>4, <1>5 DEF q

\* What a new socket looks like once its SYN or SYN-ACK x has been sent.
Opened(e, d, x) ==
  /\ d \in Contexts /\ d.s.sock = "open" /\ d.s.state \in Opening
  /\ x \in Segment /\ x.src = e /\ x.kind \in {"syn", "synack"}
  /\ x.seq = d.s.iss /\ d.s.rtx = {x} /\ d.s.una = d.s.iss
  /\ d.s.nxt = d.s.iss + 1 /\ d.arm = {x}
  /\ ~d.s.waitFromApp /\ ~d.s.dangling /\ d.s.ooo = {}

\* A new socket satisfies the invariant of the sender.
LEMMA OpenedSender ==
  ASSUME NEW e \in Ep, NEW d, NEW x, Opened(e, d, x)
  PROVE  Sender(e, d) /\ Armed(d.s, d.arm)
<1>1. d.s \in TCB /\ d.s.iss \in Nat BY ContextFields DEF Opened
<1>2. SeqNums(d.s.rtx) = d.s.una .. (d.s.nxt - 1)
  BY <1>1 DEF Opened, SeqNums
<1>3. Queue(e, d.s) BY <1>1, <1>2 DEF Opened, Queue
<1>4. Handshake(d.s) BY DEF Opened, Handshake
<1>5. Waiting(d.s, d.buf) BY DEF Opened, Waiting
<1> QED BY <1>3, <1>4, <1>5 DEF Sender, Armed, Opened

\* The fields of a new TCB.
LEMMA CreateTCB ==
  ASSUME NEW iss \in Nat
  PROVE  LET t == create_TCB(iss)
         IN  /\ t \in TCB /\ t.sock = "open" /\ t.iss = iss
             /\ t.rtx = {} /\ t.ooo = {} /\ ~t.waitFromApp /\ ~t.dangling
BY DEF create_TCB, NoSocket, TCB, State

\* An active open.
LEMMA SendSyn ==
  ASSUME NEW e \in Ep, NEW iss \in Nat, NEW c \in Contexts,
         c.s = create_TCB(iss), c.arm = {}
  PROVE  LET d == send_syn(e, c)
         IN  /\ Opened(e, d, Seg(e, "syn", iss, 0))
             /\ d.s.state = "SYN_SENT"
<1> DEFINE m == Seg(e, "syn", c.s.iss, 0)
           n == c.s.synRetries + 1
           d == [c EXCEPT !.s.una = c.s.iss, !.s.nxt = c.s.iss + 1,
                          !.s.synRetries = n]
           f == tcp_change_state(d, "SYN_SENT")
           g == send_to_network(f, m)
           h == add_timeout_event(g, m)
<1>1. send_syn(e, c) = h BY DEF send_syn
<1>2. /\ c.s.iss = iss /\ c.s.sock = "open" /\ c.s.rtx = {} /\ c.s.ooo = {}
      /\ ~c.s.waitFromApp /\ ~c.s.dangling
      /\ n \in Nat /\ iss + 1 \in Nat
  BY CreateTCB, ContextFields
<1>3. m = Seg(e, "syn", iss, 0) /\ m \in Segment /\ m.src = e
        /\ m.kind = "syn" /\ m.seq = iss
  BY <1>2 DEF Seg, Segment, Kind
<1>4. /\ d \in Contexts /\ d.s.sock = "open" /\ d.s.iss = iss
      /\ d.s.una = iss /\ d.s.nxt = iss + 1 /\ d.s.rtx = {} /\ d.s.ooo = {}
      /\ ~d.s.waitFromApp /\ ~d.s.dangling /\ d.arm = {}
  <2> HIDE DEF n
  <2> QED BY <1>2 DEF Contexts, TCB
<1> HIDE DEF d, m
<1>5. f \in Contexts /\ f.arm = {} /\ f.s.state = "SYN_SENT" /\ SameFields(d.s, f.s)
  BY <1>4, ChangeState DEF State
<1> HIDE DEF f
<1>6. g \in Contexts /\ g.s = f.s /\ g.arm = {}
  BY <1>3, <1>5, SendToNetwork
<1> HIDE DEF g
<1>7. /\ h \in Contexts /\ h.arm = {m} /\ h.s.state = "SYN_SENT"
      /\ h.s.rtx = {m} /\ h.s.sock = "open" /\ h.s.iss = iss /\ h.s.una = iss
      /\ h.s.nxt = iss + 1 /\ h.s.ooo = {}
      /\ ~h.s.waitFromApp /\ ~h.s.dangling
  BY <1>3, <1>4, <1>5, <1>6, AddTimeout DEF SameFields
<1> HIDE DEF h
<1> QED BY <1>1, <1>3, <1>7 DEF Opened, Opening

\* A passive open.
LEMMA Accept ==
  ASSUME NEW e \in Ep, NEW iss \in Nat, NEW m \in Segment,
         NEW c \in Contexts, c.arm = {}
  PROVE  LET d == tcp_accept(e, c, iss, m)
         IN  /\ Opened(e, d, Seg(e, "synack", iss, m.seq + 1))
             /\ d.s.state = "SYN_RECEIVED"
             /\ d.s.rnxt = m.seq + 1 /\ d.s.irs = m.seq
<1> DEFINE k == [c EXCEPT !.s = create_TCB(iss)]
           l == tcp_change_state(k, "LISTEN")
           n == l.s.synRetries + 1
           d == [l EXCEPT !.s.rnxt = m.seq + 1, !.s.irs = m.seq,
                          !.s.una = iss, !.s.nxt = iss + 1,
                          !.s.synRetries = n]
           f == tcp_change_state(d, "SYN_RECEIVED")
           a == Seg(e, "synack", iss, m.seq + 1)
           g == send_to_network(f, a)
           h == add_timeout_event(g, a)
<1>1. tcp_accept(e, c, iss, m) = h BY DEF tcp_accept
<1>2. m.seq \in Nat BY DEF Segment
<1>3. a \in Segment /\ a.src = e /\ a.kind = "synack" /\ a.seq = iss
  BY <1>2 DEF Seg, Segment, Kind
<1>4. /\ k \in Contexts /\ k.s.sock = "open" /\ k.s.iss = iss
      /\ k.s.rtx = {} /\ k.s.ooo = {}
      /\ ~k.s.waitFromApp /\ ~k.s.dangling /\ k.arm = {}
  <2>1. k \in Contexts /\ k.s = create_TCB(iss) /\ k.arm = {}
    BY CreateTCB DEF Contexts
  <2> HIDE DEF k
  <2> QED BY <2>1, CreateTCB
<1> HIDE DEF a, k
<1>5. /\ l \in Contexts /\ l.arm = {} /\ l.s.sock = "open" /\ l.s.iss = iss
      /\ l.s.rtx = {} /\ l.s.ooo = {} /\ ~l.s.waitFromApp /\ ~l.s.dangling
  <2>1. l \in Contexts /\ l.arm = {} /\ SameFields(k.s, l.s)
    BY <1>4, ChangeState DEF State
  <2> QED BY <1>4, <2>1 DEF SameFields
<1> HIDE DEF l
<1>6. /\ d \in Contexts /\ d.arm = {} /\ d.s.rnxt = m.seq + 1 /\ d.s.irs = m.seq
      /\ d.s.una = iss /\ d.s.nxt = iss + 1 /\ d.s.rtx = {}
      /\ d.s.ooo = {} /\ d.s.sock = "open" /\ d.s.iss = iss
      /\ ~d.s.waitFromApp /\ ~d.s.dangling
  <2> DEFINE t == [l.s EXCEPT !.rnxt = m.seq + 1, !.irs = m.seq, !.una = iss,
                              !.nxt = iss + 1, !.synRetries = n]
  <2>1. n \in Nat /\ iss + 1 \in Nat /\ m.seq + 1 \in Nat /\ l.s \in TCB
    BY <1>2, <1>5, ContextFields
  <2>2. d = [l EXCEPT !.s = t] BY <1>5 DEF Contexts, TCB
  <2> HIDE DEF n, d
  <2>3. /\ t \in TCB /\ t.rnxt = m.seq + 1 /\ t.irs = m.seq
        /\ t.una = iss /\ t.nxt = iss + 1 /\ t.rtx = {}
        /\ t.ooo = {} /\ t.sock = "open" /\ t.iss = iss
        /\ ~t.waitFromApp /\ ~t.dangling
    BY <1>2, <1>5, <2>1 DEF TCB
  <2> HIDE DEF t
  <2>4. d \in Contexts /\ d.s = t /\ d.arm = {}
    BY <1>5, <2>2, <2>3 DEF Contexts
  <2> QED BY <2>3, <2>4
<1> HIDE DEF d
<1>7. f \in Contexts /\ f.arm = {} /\ f.s.state = "SYN_RECEIVED" /\ SameFields(d.s, f.s)
  BY <1>6, ChangeState DEF State
<1> HIDE DEF f
<1>8. g \in Contexts /\ g.s = f.s /\ g.arm = {}
  BY <1>3, <1>7, SendToNetwork
<1> HIDE DEF g
<1>9. /\ g.s.rtx = {} /\ g.s.sock = "open" /\ g.s.iss = iss /\ g.s.una = iss
      /\ g.s.nxt = iss + 1 /\ g.s.ooo = {}
      /\ ~g.s.waitFromApp /\ ~g.s.dangling
      /\ g.s.rnxt = m.seq + 1 /\ g.s.irs = m.seq /\ g.s.state = "SYN_RECEIVED"
  BY <1>6, <1>7, <1>8 DEF SameFields
<1>10. /\ h \in Contexts /\ h.arm = {a} /\ h.s.state = "SYN_RECEIVED"
      /\ h.s.rtx = {a} /\ h.s.sock = "open" /\ h.s.iss = iss /\ h.s.una = iss
      /\ h.s.nxt = iss + 1 /\ h.s.ooo = {}
      /\ ~h.s.waitFromApp /\ ~h.s.dangling
      /\ h.s.rnxt = m.seq + 1 /\ h.s.irs = m.seq
  BY <1>3, <1>8, <1>9, AddTimeout, SMTT(20)
<1> HIDE DEF h
<1> QED BY <1>1, <1>3, <1>10 DEF Opened, Opening, a

\* A closed socket, or one whose TCB is freed, keeps the invariants trivially.
LEMMA Closing ==
  ASSUME NEW e \in Ep, NEW c \in Contexts
  PROVE  /\ Handles(e, c, tcp_close_socket(c))
         /\ c.s.sock # "none" => Handles(e, c, delete_tcb(c))
<1>1. Handles(e, c, tcp_close_socket(c))
  <2> DEFINE d == tcp_close_socket(c)
  <2>1. d \in Contexts /\ d.s = NoSocket /\ d.arm = c.arm
    BY NoSocketType DEF tcp_close_socket, Contexts
  <2> HIDE DEF d
  <2> QED BY <2>1 DEF d, Handles, Sender, Queue, Handshake, Waiting, Arms, Armed, Keeps,
                      NoSocket, Opening, SeqNums
<1>2. Handles(e, c, delete_tcb(c))
  <2> DEFINE wf == c.s.waitFromApp
             ap == c.s.isAPPClose
             t == [NoSocket EXCEPT !.sock = "nulltcb", !.waitFromApp = wf,
                                   !.isAPPClose = ap]
             d == [c EXCEPT !.s = t]
  <2>1. wf \in BOOLEAN /\ ap \in BOOLEAN BY DEF Contexts, TCB
  <2> HIDE DEF wf, ap
  <2>2. t \in TCB BY <2>1, NoSocketType DEF TCB
  <2>3. /\ t.sock = "nulltcb" /\ t.state = "CLOSED" /\ t.una = 0 /\ t.nxt = 0
        /\ t.rtx = {} /\ t.ooo = {} /\ t.dangling = FALSE
    BY DEF NoSocket
  <2> HIDE DEF t
  <2>4. d \in Contexts /\ d.s = t /\ d.arm = c.arm
    BY <2>2 DEF Contexts
  <2>5. delete_tcb(c) = d BY DEF delete_tcb, t, wf, ap
  <2> HIDE DEF d
  <2>6. SeqNums(t.rtx) = t.una .. (t.nxt - 1) BY <2>3 DEF SeqNums
  <2>7. Sender(e, d)
    <3>1. Queue(e, t) BY <2>3, <2>6 DEF Queue
    <3>2. Handshake(t) /\ Waiting(t, d.buf) BY <2>3 DEF Handshake, Waiting, Opening
    <3> QED BY <2>4, <3>1, <3>2 DEF Sender
  <2>8. Arms(c, d) /\ Keeps(c, d)
    BY <2>3, <2>4 DEF Arms, Armed, Keeps
  <2> QED BY <2>4, <2>5, <2>7, <2>8 DEF Handles
<1> QED BY <1>1, <1>2

\* An aborted handler leaves its local state as it was.
LEMMA AbortStep ==
  ASSUME NEW e \in Ep, NEW c \in Contexts, Sender(e, c)
  PROVE  Handles(e, c, Abort(c)) /\ Abort(c).halt
<1> DEFINE d == Abort(c)
<1>1. /\ d \in Contexts /\ d.s = c.s /\ d.buf = c.buf /\ d.arm = c.arm
      /\ d.halt
  BY DEF Abort, Contexts
<1> HIDE DEF d
<1>2. SameFields(c.s, d.s) BY <1>1 DEF SameFields
<1>3. Handles(e, c, d) BY <1>1, <1>2, QuietStep
<1> QED BY <1>1, <1>3 DEF d

\* A resent segment x stays in the queue and gets a new timer.
Resends(e, c, x, d) ==
  /\ d \in Contexts /\ Sender(e, d) /\ Keeps(c, d)
  /\ d.halt \/ Armed(d.s, d.arm) \/ (d.s.rtx \subseteq c.s.rtx /\ x \in d.arm)

\* Removing x from the queue and adding it again.
LEMMA Requeue ==
  ASSUME NEW e \in Ep, NEW c \in Contexts, Sender(e, c), NEW x \in c.s.rtx,
         NEW d \in Contexts, d.s.rtx = c.s.rtx \ {x}, d.s.sock = c.s.sock,
         d.s.state = c.s.state, d.s.iss = c.s.iss, d.s.irs = c.s.irs,
         d.s.una = c.s.una, d.s.nxt = c.s.nxt, d.s.rnxt = c.s.rnxt,
         d.s.ooo = c.s.ooo, d.s.dangling => c.s.dangling,
         d.s.waitFromApp = c.s.waitFromApp
  PROVE  Resends(e, c, x, add_timeout_event(send_to_network(d, x), x))
<1> DEFINE f == send_to_network(d, x)
           g == add_timeout_event(f, x)
<1>1. x \in Segment BY ContextFields
<1>2. f \in Contexts /\ f.s = d.s
  BY <1>1, SendToNetwork
<1> HIDE DEF f
<1>3. /\ g \in Contexts /\ x \in g.arm /\ g.s.rtx = c.s.rtx
      /\ g.s.state = c.s.state
      /\ g.s.sock = c.s.sock /\ g.s.iss = c.s.iss /\ g.s.irs = c.s.irs
      /\ g.s.una = c.s.una /\ g.s.nxt = c.s.nxt /\ g.s.rnxt = c.s.rnxt
      /\ g.s.ooo = c.s.ooo /\ g.s.dangling = d.s.dangling
      /\ g.s.waitFromApp = c.s.waitFromApp
  <2>1. /\ g \in Contexts /\ g.arm = f.arm \cup {x} /\ g.s.rtx = f.s.rtx \cup {x}
        /\ g.s.state = f.s.state
        /\ g.s.sock = f.s.sock /\ g.s.iss = f.s.iss /\ g.s.irs = f.s.irs
        /\ g.s.una = f.s.una /\ g.s.nxt = f.s.nxt /\ g.s.rnxt = f.s.rnxt
        /\ g.s.ooo = f.s.ooo /\ g.s.dangling = f.s.dangling
        /\ g.s.waitFromApp = f.s.waitFromApp
    BY <1>1, <1>2, AddTimeout
  <2> HIDE DEF g
  <2> QED BY <1>2, <2>1
<1> HIDE DEF g
<1>4. Queue(e, g.s) BY <1>3 DEF Sender, Queue
<1>5. Handshake(g.s) BY <1>3 DEF Sender, Handshake
<1>6. Waiting(g.s, g.buf) BY <1>3 DEF Waiting
<1>7. Keeps(c, g) BY <1>3 DEF Keeps
<1> QED BY <1>3, <1>4, <1>5, <1>6, <1>7 DEF Resends, Sender, f, g

\* resend_segment, and below resend_syn, after a timeout.
LEMMA ResendSegment ==
  ASSUME NEW e \in Ep, NEW c \in Contexts, Sender(e, c), NEW x \in c.s.rtx
  PROVE  Resends(e, c, x, resend_segment(c, x))
<1> DEFINE q == c.s.rtx \ {x}
           d == [c EXCEPT !.s.rtx = q]
<1>1. q \subseteq Segment BY ContextFields
<1>2. resend_segment(c, x) = add_timeout_event(send_to_network(d, x), x)
  BY DEF resend_segment
<1> HIDE DEF q
<1>3. /\ d \in Contexts /\ d.s.rtx = q /\ d.s.sock = c.s.sock
      /\ d.s.state = c.s.state /\ d.s.iss = c.s.iss /\ d.s.irs = c.s.irs
      /\ d.s.una = c.s.una /\ d.s.nxt = c.s.nxt /\ d.s.rnxt = c.s.rnxt
      /\ d.s.ooo = c.s.ooo /\ d.s.dangling = c.s.dangling
      /\ d.s.waitFromApp = c.s.waitFromApp
  BY <1>1 DEF Contexts, TCB
<1> HIDE DEF d
<1>4. Resends(e, c, x, add_timeout_event(send_to_network(d, x), x))
  BY <1>3, Requeue DEF q
<1> QED BY <1>2, <1>4

\* The SYN is resent, the socket closed or the process aborted.
LEMMA ResendSyn ==
  ASSUME NEW e \in Ep, NEW c \in Contexts, Sender(e, c), NEW x \in c.s.rtx
  PROVE  Resends(e, c, x, resend_syn(e, c, x))
<1>1. CASE c.s.state \notin {"SYN_SENT", "SYN_RECEIVED"}
  BY <1>1, AbortStep DEF resend_syn, Handles, Resends
<1>2. CASE c.s.state \in {"SYN_SENT", "SYN_RECEIVED"} /\ c.s.synRetries < MaxSynRetries
  <2> DEFINE q == c.s.rtx \ {x}
             n == c.s.synRetries + 1
             d == [c EXCEPT !.s.una = c.s.iss, !.s.nxt = c.s.iss + 1,
                            !.s.rtx = q, !.s.synRetries = n]
             f == add_timeout_event(send_to_network(d, x), x)
  <2>1. q \subseteq Segment /\ n \in Nat BY ContextFields
  <2>2. resend_syn(e, c, x) = f BY <1>2 DEF resend_syn
  <2>3. c.s.una = c.s.iss /\ c.s.nxt = c.s.iss + 1
    BY <1>2 DEF Sender, Handshake, Opening
  <2> HIDE DEF q, n
  <2>4. /\ d \in Contexts /\ d.s.rtx = q /\ d.s.sock = c.s.sock
        /\ d.s.state = c.s.state /\ d.s.iss = c.s.iss /\ d.s.irs = c.s.irs
        /\ d.s.una = c.s.iss /\ d.s.nxt = c.s.iss + 1 /\ d.s.rnxt = c.s.rnxt
        /\ d.s.ooo = c.s.ooo /\ d.s.dangling = c.s.dangling
        /\ d.s.waitFromApp = c.s.waitFromApp
    <3> DEFINE t == [c.s EXCEPT !.una = c.s.iss, !.nxt = c.s.iss + 1,
                                !.rtx = q, !.synRetries = n]
    <3>1. d = [c EXCEPT !.s = t] BY DEF Contexts, TCB
    <3> HIDE DEF d
    <3>2. c.s \in TCB /\ c.s.iss \in Nat /\ c.s.iss + 1 \in Nat BY ContextFields
    <3>3. /\ t \in TCB /\ t.rtx = q /\ t.sock = c.s.sock
          /\ t.state = c.s.state /\ t.iss = c.s.iss /\ t.irs = c.s.irs
          /\ t.una = c.s.iss /\ t.nxt = c.s.iss + 1 /\ t.rnxt = c.s.rnxt
          /\ t.ooo = c.s.ooo /\ t.dangling = c.s.dangling
          /\ t.waitFromApp = c.s.waitFromApp
      BY <2>1, <3>2 DEF TCB
    <3> HIDE DEF t
    <3>4. d \in Contexts /\ d.s = t BY <3>1, <3>3 DEF Contexts
    <3> QED BY <3>3, <3>4
  <2> HIDE DEF d
  <2>5. Resends(e, c, x, add_timeout_event(send_to_network(d, x), x))
    BY <2>3, <2>4, Requeue DEF q
  <2> QED BY <2>2, <2>5
<1>3. CASE c.s.state \in {"SYN_SENT", "SYN_RECEIVED"} /\ ~(c.s.synRetries < MaxSynRetries)
  <2>1. resend_syn(e, c, x) = tcp_close_socket(c)
    BY <1>3 DEF resend_syn
  <2>2. LET d == tcp_close_socket(c) IN Armed(d.s, d.arm)
    BY DEF tcp_close_socket, Armed, NoSocket, Contexts
  <2> QED BY <2>1, <2>2, Closing DEF Resends, Handles
<1> QED BY <1>1, <1>2, <1>3

----------------------------------------------------------------------------
(* The inductive invariant *)

SenderInv   == \A e \in Ep : Sender(e, Local(e))
TimerInv    == halted \/ \A e \in Ep : Armed(tcb[e], timers)
ReceiverInv == \A e \in Ep : Receiver(tcb[e], got[e], handed[e])

IInv == TypeOK /\ SenderInv /\ TimerInv /\ ReceiverInv

\* The local state a handler starts in.
LEMMA LocalType ==
  ASSUME IInv, NEW e \in Ep
  PROVE  /\ Local(e) \in Contexts /\ Sender(e, Local(e))
         /\ Local(e).s = tcb[e] /\ Local(e).buf = buf[e] /\ Local(e).arm = {}
         /\ tcb[e] \in TCB /\ buf[e] \in Nat /\ tw[e] \in Nat /\ load[e] \in Nat
BY DEF IInv, TypeOK, SenderInv, Local, Contexts

\* A handler that ends in c, having consumed the timers not in pending,
\* keeps the invariant.
LEMMA CommitStep ==
  ASSUME IInv, NEW e \in Ep, NEW c \in Contexts, NEW rest, NEW pending,
         rest \subseteq Segment, pending \subseteq timers,
         \A t \in timers \ pending : t.src = e,
         Commit(e, c, rest, pending),
         Sender(e, c), c.halt \/ Armed(c.s, pending \cup c.arm),
         Receiver(c.s, got'[e], handed'[e]),
         sockets' \in [Ep -> 0..MaxSockets], load' \in [Ep -> Nat],
         got' \in [Ep -> SUBSET Nat], handed' \in [Ep -> Nat],
         \A f \in Ep \ {e} : got'[f] = got[f] /\ handed'[f] = handed[f]
  PROVE  IInv'
<1> USE DEF Commit
<1>1. /\ tcb' = [tcb EXCEPT ![e] = c.s] /\ buf' = [buf EXCEPT ![e] = c.buf]
      /\ tw' = [tw EXCEPT ![e] = c.tw] /\ net' = rest \cup c.out
      /\ timers' = pending \cup c.arm /\ halted' = c.halt /\ ~halted
  OBVIOUS
<1>2. /\ c.s \in TCB /\ c.buf \in Nat /\ c.tw \in Nat /\ c.halt \in BOOLEAN
      /\ c.out \subseteq Segment /\ c.arm \subseteq Segment
  BY ContextFields
<1>3. TypeOK'
  BY <1>1, <1>2 DEF IInv, TypeOK
<1>4. tcb'[e] = c.s /\ buf'[e] = c.buf
  BY <1>1, <1>2 DEF IInv, TypeOK
<1>5. \A f \in Ep \ {e} : tcb'[f] = tcb[f] /\ buf'[f] = buf[f]
  BY <1>1 DEF IInv, TypeOK
<1>6. SenderInv'
  <2>1. \A f \in Ep : Local(f).s = tcb[f] /\ Local(f).buf = buf[f]
                      /\ Local(f)'.s = tcb'[f] /\ Local(f)'.buf = buf'[f]
    BY DEF Local
  <2> QED BY <1>4, <1>5, <2>1 DEF IInv, SenderInv, Sender
<1>7. TimerInv'
  <2> SUFFICES ASSUME ~c.halt, NEW f \in Ep PROVE Armed(tcb'[f], timers')
    BY <1>1 DEF TimerInv
  <2>1. CASE f = e BY <1>1, <1>4, <2>1
  <2>2. CASE f # e
    <3>1. Armed(tcb[f], timers) BY <1>1 DEF IInv, TimerInv
    <3>2. \A x \in tcb[f].rtx : x.src = f
      BY DEF IInv, SenderInv, Sender, Queue, Local
    <3> QED BY <1>1, <1>5, <2>2, <3>1, <3>2 DEF Armed
  <2> QED BY <2>1, <2>2
<1>8. ReceiverInv'
  BY <1>4, <1>5 DEF IInv, ReceiverInv
<1> QED BY <1>3, <1>6, <1>7, <1>8 DEF IInv

\* Keeps is enough for the invariant of the receiver.
LEMMA KeepsReceiver ==
  ASSUME NEW c, NEW d, Keeps(c, d), NEW g, NEW h, Receiver(c.s, g, h)
  PROVE  Receiver(d.s, g, h)
BY DEF Keeps, Receiver, Incoming, State

\* Arms, from the local state a handler starts in.
LEMMA ArmsTimers ==
  ASSUME IInv, NEW e \in Ep, NEW c, Arms(Local(e), c), ~halted
  PROVE  Armed(c.s, timers \cup c.arm)
<1>1. Armed(tcb[e], timers) BY DEF IInv, TimerInv
<1>2. Local(e).s = tcb[e] BY DEF Local
<1> QED BY <1>1, <1>2 DEF Arms, Armed

\* A TRANSPORT_IN event that Handles.
LEMMA ReceiveStep ==
  ASSUME IInv, NEW e \in Ep, NEW m, NEW c,
         Handles(e, Local(e), c), Handled(e, m, c), Quiet
  PROVE  IInv'
<1>1. PICK rest \in {net \ {m}} \cup (IF Duplicating THEN {net} ELSE {}) :
        Commit(e, c, rest, timers)
  BY DEF Handled
<1>2. rest \subseteq Segment BY DEF IInv, TypeOK
<1>3. ~halted BY <1>1 DEF Commit
<1>4. c \in Contexts /\ Sender(e, c) /\ Armed(c.s, timers \cup c.arm)
  BY <1>3, ArmsTimers DEF Handles
<1>5. Receiver(c.s, got[e], handed[e])
  <2>1. Receiver(Local(e).s, got[e], handed[e])
    BY LocalType DEF IInv, ReceiverInv
  <2> QED BY <2>1, KeepsReceiver DEF Handles
<1>6. /\ sockets' = sockets /\ got' = got /\ handed' = handed /\ load' = load
  BY DEF Quiet, Handled
<1> QED BY <1>1, <1>2, <1>4, <1>5, <1>6, CommitStep DEF IInv, TypeOK

\* A handler that only sends.
LEMMA OnlySends ==
  ASSUME NEW e \in Ep, NEW c \in Contexts, Sender(e, c), NEW d \in Contexts,
         d.s = c.s, d.buf = c.buf, d.arm = c.arm
  PROVE  Handles(e, c, d)
<1>1. SameFields(c.s, d.s) BY DEF SameFields
<1> QED BY <1>1, QuietStep

----------------------------------------------------------------------------
(* The steps *)

\* AppConnect, AppSend and AppQueue keep the invariant.
LEMMA AppConnectStep ==
  ASSUME IInv, NEW e \in Ep, AppConnect(e)
  PROVE  IInv'
<1>1. PICK k \in 1..load[e] :
        /\ tcb[e].sock = "none" /\ sockets[e] < MaxSockets
        /\ Generate(e, k)
        /\ sockets' = [sockets EXCEPT ![e] = @ + 1]
        /\ got' = [got EXCEPT ![e] = {}] /\ handed' = [handed EXCEPT ![e] = 0]
        /\ LET c == [Local(e) EXCEPT !.buf = k,
                                     !.s = create_TCB(ISS[e][sockets[e] + 1])]
           IN  Commit(e, send_syn(e, c), net, timers)
  BY DEF AppConnect
<1> DEFINE iss == ISS[e][sockets[e] + 1]
           c == [Local(e) EXCEPT !.buf = k, !.s = create_TCB(iss)]
           d == send_syn(e, c)
<1>2. sockets[e] + 1 \in 1..MaxSockets
  BY <1>1, BoundAssumption DEF IInv, TypeOK
<1>3. iss \in Nat BY <1>2, IssAssumption
<1>4. k \in Nat /\ k <= load[e] BY <1>1, LocalType
<1> HIDE DEF iss
<1>5. c \in Contexts /\ c.s = create_TCB(iss) /\ c.arm = {}
  <2>1. create_TCB(iss) \in TCB BY <1>3, CreateTCB
  <2>2. Local(e) \in Contexts /\ Local(e).arm = {} BY LocalType
  <2> QED BY <1>4, <2>1, <2>2 DEF Contexts
<1>6. Commit(e, d, net, timers) BY <1>1 DEF iss
<1> HIDE DEF c
<1>7. Opened(e, d, Seg(e, "syn", iss, 0)) /\ d.s.state = "SYN_SENT"
  BY <1>3, <1>5, SendSyn
<1> HIDE DEF d
<1>8. d \in Contexts /\ Sender(e, d) /\ Armed(d.s, timers \cup d.arm)
  BY <1>7, OpenedSender DEF Opened, Armed
<1>9. /\ sockets' \in [Ep -> 0..MaxSockets] /\ load' \in [Ep -> Nat]
      /\ got' \in [Ep -> SUBSET Nat] /\ handed' \in [Ep -> Nat]
      /\ got'[e] = {} /\ handed'[e] = 0
      /\ \A f \in Ep \ {e} : got'[f] = got[f] /\ handed'[f] = handed[f]
  BY <1>1, <1>2, <1>4, LocalType DEF IInv, TypeOK, Generate
<1>10. Receiver(d.s, got'[e], handed'[e])
  BY <1>7, <1>9 DEF Receiver, Opened, Incoming
<1>11. net \subseteq Segment BY DEF IInv, TypeOK
<1> QED BY <1>6, <1>8, <1>9, <1>10, <1>11, CommitStep

LEMMA AppSendStep ==
  ASSUME IInv, NEW e \in Ep, AppSend(e)
  PROVE  IInv'
<1>1. PICK k \in 1..load[e], w \in Windows :
        /\ buf[e] = 0 /\ tcb[e].waitFromApp /\ Generate(e, k)
        /\ LET c == [Local(e) EXCEPT !.buf = k]
               d == send_segment(e, c, w, load[e] - k)
           IN  Commit(e, IF c.s.sock = "nulltcb" THEN Abort(c)
                         ELSE [d EXCEPT !.s.waitFromApp = FALSE], net, timers)
        /\ UNCHANGED <<sockets, got, handed>>
  BY DEF AppSend
<1> DEFINE c == [Local(e) EXCEPT !.buf = k]
           d == send_segment(e, c, w, load[e] - k)
           t == [d.s EXCEPT !.waitFromApp = FALSE]
           f == [d EXCEPT !.s = t]
           r == IF c.s.sock = "nulltcb" THEN Abort(c) ELSE f
<1>2. k \in Nat /\ k > 0 /\ k <= load[e] BY <1>1, LocalType
<1>3. Commit(e, r, net, timers)
  <2>1. [d EXCEPT !.s.waitFromApp = FALSE] = f OBVIOUS
  <2> HIDE DEF f
  <2> QED BY <1>1, <2>1
<1>4. /\ c \in Contexts /\ c.s = tcb[e] /\ c.buf = k /\ c.arm = {}
  BY <1>2, LocalType DEF Contexts
<1> HIDE DEF c
<1>5. /\ Queue(e, c.s) /\ Handshake(c.s)
      /\ c.s.state \notin Opening /\ c.s.sock # "none"
      /\ Receiver(c.s, got[e], handed[e])
  BY <1>1, <1>4, LocalType DEF Sender, Handshake, IInv, ReceiverInv
<1>6. ~halted BY <1>3 DEF Commit
<1>7. Armed(c.s, timers) BY <1>4, <1>6 DEF IInv, TimerInv
<1>8. /\ r \in Contexts /\ Sender(e, r)
      /\ r.halt \/ Armed(r.s, timers \cup r.arm)
      /\ Receiver(r.s, got[e], handed[e])
  <2>1. CASE c.s.sock = "nulltcb"
    <3>1. Sender(e, c) BY <1>5, <2>1 DEF Sender, Waiting
    <3>2. Handles(e, c, Abort(c)) /\ Abort(c).halt BY <1>4, <3>1, AbortStep
    <3>3. r = Abort(c) BY <2>1
    <3> HIDE DEF r
    <3> QED BY <1>5, <3>2, <3>3, KeepsReceiver DEF Handles
  <2>2. CASE c.s.sock # "nulltcb"
    <3>1. c.s.sock = "open" BY <1>4, <1>5, <2>2, LocalType DEF TCB
    <3>2. c.s.state \in State \ (Opening \cup {"CLOSED"})
      BY <1>4, <1>5, <3>1, ContextFields DEF Receiver
    <3>3. /\ Handles(e, c, d) /\ d.s.rtx # {}
      <4>1. c.buf > 0 BY <1>2, <1>4
      <4> QED BY <1>4, <1>5, <3>1, <3>2, <4>1, SendSegment
    <3> HIDE DEF d
    <3>4. d \in Contexts /\ d.s \in TCB BY <3>3, ContextFields DEF Handles
    <3>5. /\ t \in TCB /\ t.waitFromApp = FALSE /\ t.rtx = d.s.rtx
          /\ t.sock = d.s.sock /\ t.state = d.s.state /\ t.iss = d.s.iss
          /\ t.irs = d.s.irs /\ t.una = d.s.una /\ t.nxt = d.s.nxt
          /\ t.rnxt = d.s.rnxt /\ t.ooo = d.s.ooo
          /\ (d.s.cancel => t.cancel) /\ (d.s.dangling <=> t.dangling)
      BY <3>4 DEF TCB
    <3> HIDE DEF t
    <3>6. f \in Contexts /\ f.s = t /\ f.buf = d.buf /\ f.arm = d.arm
      BY <3>4, <3>5 DEF Contexts
    <3> HIDE DEF f
    <3>7. Sender(e, d) /\ Arms(c, d) /\ Keeps(c, d) BY <3>3 DEF Handles
    <3>8. Sender(e, f)
      <4>1. Queue(e, f.s) BY <3>5, <3>6, <3>7 DEF Sender, Queue
      <4>2. Handshake(f.s) BY <3>5, <3>6, <3>7 DEF Sender, Handshake
      <4>3. Waiting(f.s, f.buf) BY <3>3, <3>5, <3>6 DEF Waiting
      <4> QED BY <4>1, <4>2, <4>3 DEF Sender
    <3>9. Armed(f.s, timers \cup f.arm)
      BY <1>4, <1>7, <3>5, <3>6, <3>7 DEF Arms, Armed
    <3>10. Receiver(f.s, got[e], handed[e])
      <4>1. Receiver(d.s, got[e], handed[e]) BY <1>5, <3>7, KeepsReceiver
      <4> QED BY <3>5, <3>6, <4>1 DEF Receiver
    <3>11. r = f BY <2>2
    <3> HIDE DEF r
    <3> QED BY <3>6, <3>8, <3>9, <3>10, <3>11
  <2> QED BY <2>1, <2>2
<1> HIDE DEF r
<1>9. load' \in [Ep -> Nat] /\ net \subseteq Segment
  BY <1>1, <1>2, LocalType DEF IInv, TypeOK, Generate
<1> QED BY <1>1, <1>3, <1>8, <1>9, CommitStep DEF IInv, TypeOK

LEMMA AppQueueStep ==
  ASSUME IInv, NEW e \in Ep, AppQueue(e)
  PROVE  IInv'
<1>1. PICK k \in 1..load[e] :
        /\ buf[e] > 0 \/ (tcb[e].sock # "none" /\ ~tcb[e].waitFromApp)
        /\ Generate(e, k)
        /\ buf' = [buf EXCEPT ![e] = @ + k]
        /\ UNCHANGED <<tcb, sockets, got, handed, net, timers, tw, halted>>
  BY DEF AppQueue
<1>2. k \in Nat /\ k <= load[e] /\ buf[e] \in Nat /\ load[e] \in Nat
  BY <1>1, LocalType
<1>3. TypeOK' BY <1>1, <1>2 DEF IInv, TypeOK, Generate
<1>4. SenderInv'
  <2> SUFFICES ASSUME NEW f \in Ep PROVE Sender(f, Local(f)')
    BY DEF SenderInv
  <2>1. /\ Local(f).s = tcb[f] /\ Local(f).buf = buf[f]
        /\ Local(f)'.s = tcb[f] /\ Local(f)'.buf = buf'[f]
    BY <1>1 DEF Local
  <2>2. Sender(f, Local(f)) BY LocalType
  <2>3. Waiting(tcb[f], buf'[f])
    <3>1. CASE f = e
      BY <1>1, <2>1, <2>2, <3>1 DEF Sender, Waiting
    <3>2. CASE f # e
      <4>1. buf'[f] = buf[f] BY <1>1, <3>2 DEF IInv, TypeOK
      <4> QED BY <2>1, <2>2, <4>1 DEF Sender
    <3> QED BY <3>1, <3>2
  <2> QED BY <2>1, <2>2, <2>3 DEF Sender
<1>5. TimerInv' /\ ReceiverInv' BY <1>1 DEF IInv, TimerInv, ReceiverInv
<1> QED BY <1>3, <1>4, <1>5 DEF IInv

\* Segments in flight are well formed.
LEMMA ArrivingType ==
  ASSUME IInv, NEW e \in Ep, NEW m \in Arriving(e)
  PROVE  m \in Segment /\ m.seq \in Nat /\ m.ackno \in Nat
BY DEF IInv, TypeOK, Arriving, Segment

\* The Recv actions keep the invariant, one lemma each.
LEMMA RecvNoConnectionStep ==
  ASSUME IInv, NEW e \in Ep, RecvNoConnection(e) PROVE IInv'
<1>1. Handles(e, Local(e), Local(e)) BY LocalType, OnlySends
<1> QED BY <1>1, ReceiveStep DEF RecvNoConnection

LEMMA RecvSynListenSocketStep ==
  ASSUME IInv, NEW e \in Ep, RecvSynListenSocket(e) PROVE IInv'
<1> DEFINE iss == ISS[e][sockets[e] + 1]
<1>1. PICK m \in Arriving(e) :
        /\ sockets[e] < MaxSockets
        /\ sockets' = [sockets EXCEPT ![e] = @ + 1]
        /\ got' = [got EXCEPT ![e] = {}] /\ handed' = [handed EXCEPT ![e] = 0]
        /\ Handled(e, m, tcp_accept(e, Local(e), iss, m))
  BY DEF RecvSynListenSocket
<1> DEFINE d == tcp_accept(e, Local(e), iss, m)
<1>2. sockets[e] + 1 \in 1..MaxSockets
  BY <1>1, BoundAssumption DEF IInv, TypeOK
<1>3. iss \in Nat BY <1>2, IssAssumption
<1> HIDE DEF iss
<1>4. m \in Segment /\ m.seq \in Nat BY ArrivingType
<1>5. Handled(e, m, d) BY <1>1
<1>6. /\ Opened(e, d, Seg(e, "synack", iss, m.seq + 1))
      /\ d.s.state = "SYN_RECEIVED" /\ d.s.rnxt = m.seq + 1 /\ d.s.irs = m.seq
  BY <1>3, <1>4, LocalType, Accept
<1> HIDE DEF d
<1>7. PICK rest \in {net \ {m}} \cup (IF Duplicating THEN {net} ELSE {}) :
        Commit(e, d, rest, timers)
  BY <1>5 DEF Handled
<1>8. rest \subseteq Segment BY DEF IInv, TypeOK
<1>9. d \in Contexts /\ Sender(e, d) /\ Armed(d.s, timers \cup d.arm)
  BY <1>6, OpenedSender DEF Opened, Armed
<1>10. /\ sockets' \in [Ep -> 0..MaxSockets] /\ load' \in [Ep -> Nat]
      /\ got' \in [Ep -> SUBSET Nat] /\ handed' \in [Ep -> Nat]
      /\ got'[e] = {} /\ handed'[e] = 0
      /\ \A f \in Ep \ {e} : got'[f] = got[f] /\ handed'[f] = handed[f]
  BY <1>1, <1>2 DEF IInv, TypeOK, Handled
<1>11. Receiver(d.s, got'[e], handed'[e])
  BY <1>4, <1>6, <1>10 DEF Receiver, Opened, Incoming
<1> QED BY <1>7, <1>8, <1>9, <1>10, <1>11, CommitStep

LEMMA RecvListenStep ==
  ASSUME IInv, NEW e \in Ep, RecvListen(e) PROVE IInv'
<1> DEFINE c == Local(e)
           d(m) == IF Rst(m) THEN c
                   ELSE IF Ack(m) THEN send_rst(e, c, m, 0)
                   ELSE IF Syn(m) THEN process_syn(e, c, m)
                   ELSE c
<1>1. PICK m \in Arriving(e) : Handled(e, m, d(m)) /\ Quiet
  BY DEF RecvListen
<1>2. c \in Contexts /\ Sender(e, c) BY LocalType
<1>3. m \in Segment BY ArrivingType
<1>4. d(m) \in {c, send_rst(e, c, m, 0), send_rst(e, c, m, 2), Abort(c)}
  BY DEF process_syn
<1> HIDE DEF c, d
<1>5. Handles(e, c, c) /\ Handles(e, c, Abort(c)) BY <1>2, OnlySends, AbortStep
<1>6. \A code : Handles(e, c, send_rst(e, c, m, code))
  BY <1>2, <1>3, SendRst, OnlySends
<1>7. Handles(e, c, d(m)) BY <1>4, <1>5, <1>6
<1> QED BY <1>1, <1>7, ReceiveStep DEF c

LEMMA RecvSynSentBadAckStep ==
  ASSUME IInv, NEW e \in Ep, RecvSynSentBadAck(e) PROVE IInv'
<1>1. PICK m \in Arriving(e) : Handled(e, m, send_rst(e, Local(e), m, 0)) /\ Quiet
  BY DEF RecvSynSentBadAck
<1>2. Handles(e, Local(e), send_rst(e, Local(e), m, 0))
  BY LocalType, ArrivingType, SendRst, OnlySends
<1> QED BY <1>1, <1>2, ReceiveStep

LEMMA RecvSynSentOtherStep ==
  ASSUME IInv, NEW e \in Ep, RecvSynSentOther(e) PROVE IInv'
<1>1. PICK m \in Arriving(e) :
        Quiet /\ \E d \in {Local(e), Abort(Local(e))} : Handled(e, m, d)
  BY DEF RecvSynSentOther
<1>2. Handles(e, Local(e), Local(e)) /\ Handles(e, Local(e), Abort(Local(e)))
  BY LocalType, OnlySends, AbortStep
<1> QED BY <1>1, <1>2, ReceiveStep

LEMMA RecvUnacceptableStep ==
  ASSUME IInv, NEW e \in Ep, RecvUnacceptable(e) PROVE IInv'
<1> DEFINE c == Local(e)
           d == send_ack(e, c, c.s.nxt, c.s.rnxt)
<1>1. PICK m \in Arriving(e) : Quiet /\ \E f \in {c, d} : Handled(e, m, f)
  BY DEF RecvUnacceptable
<1>2. c \in Contexts /\ Sender(e, c) BY LocalType
<1> HIDE DEF c
<1>3. d \in Contexts /\ d.s = c.s /\ d.buf = c.buf /\ d.arm = c.arm
  <2>1. c.s.nxt \in Nat /\ c.s.rnxt \in Nat BY <1>2, ContextFields
  <2> QED BY <1>2, <2>1, SendAck
<1> HIDE DEF d
<1>4. Handles(e, c, c) /\ Handles(e, c, d) BY <1>2, <1>3, OnlySends
<1> QED BY <1>1, <1>4, ReceiveStep DEF c

LEMMA RecvRstStep ==
  ASSUME IInv, NEW e \in Ep, RecvRst(e) PROVE IInv'
<1> DEFINE c == Local(e)
           r == delete_all_segment_from_queue(c)
           d == tcp_change_state(r, "LISTEN")
<1>1. PICK m \in Arriving(e) : Quiet /\ Handled(e, m, process_rst_packet(c))
  BY DEF RecvRst
<1>2. c \in Contexts /\ Sender(e, c) BY LocalType
<1> HIDE DEF c
<1>3. CASE ~(c.s.state = "SYN_RECEIVED" /\ c.s.prev = "LISTEN")
  <2>1. process_rst_packet(c) = tcp_close_socket(c)
    BY <1>3 DEF process_rst_packet
  <2> QED BY <1>1, <1>2, <2>1, Closing, ReceiveStep DEF c
<1>4. CASE c.s.state = "SYN_RECEIVED" /\ c.s.prev = "LISTEN"
  <2>1. process_rst_packet(c) = d BY <1>4 DEF process_rst_packet
  <2>2. /\ r \in Contexts /\ r.buf = c.buf /\ r.arm = c.arm /\ r.s.dangling
        /\ r.s.sock = c.s.sock /\ r.s.iss = c.s.iss /\ r.s.irs = c.s.irs
        /\ r.s.una = c.s.una /\ r.s.nxt = c.s.nxt /\ r.s.rnxt = c.s.rnxt
        /\ r.s.rtx = c.s.rtx /\ r.s.ooo = c.s.ooo
        /\ r.s.waitFromApp = c.s.waitFromApp
    BY <1>2 DEF delete_all_segment_from_queue, Contexts, TCB
  <2> HIDE DEF r
  <2>3. d \in Contexts /\ d.arm = r.arm /\ d.s.state = "LISTEN" /\ SameFields(r.s, d.s)
    BY <2>2, ChangeState DEF State
  <2> HIDE DEF d
  <2>4. Queue(e, d.s) BY <1>2, <2>2, <2>3 DEF Sender, Queue, SameFields
  <2>5. Handshake(d.s)
    BY <1>2, <1>4, <2>2, <2>3 DEF Sender, Handshake, SameFields, Opening
  <2>6. Waiting(d.s, d.buf) BY <2>3 DEF Waiting
  <2>7. Arms(c, d) BY <2>2, <2>3 DEF Arms, Armed, SameFields
  <2>8. Keeps(c, d) BY <2>2, <2>3 DEF Keeps, SameFields
  <2>9. Handles(e, c, d) BY <2>3, <2>4, <2>5, <2>6, <2>7, <2>8 DEF Handles, Sender
  <2> QED BY <1>1, <2>1, <2>9, ReceiveStep DEF c
<1> QED BY <1>3, <1>4

LEMMA RecvSynStep ==
  ASSUME IInv, NEW e \in Ep, RecvSyn(e) PROVE IInv'
<1> DEFINE c == Local(e)
           d == tcp_change_state(c, "LISTEN")
<1>1. PICK m \in Arriving(e) : Quiet /\ Handled(e, m, process_syn_packet(c))
  BY DEF RecvSyn
<1>2. c \in Contexts /\ Sender(e, c) BY LocalType
<1> HIDE DEF c
<1>3. CASE c.s.state = "SYN_RECEIVED"
  <2>1. process_syn_packet(c) = d BY <1>3 DEF process_syn_packet
  <2>2. /\ d \in Contexts /\ d.buf = c.buf /\ d.arm = c.arm
        /\ d.s.state = "LISTEN" /\ SameFields(c.s, d.s)
    BY <1>2, ChangeState DEF State
  <2> HIDE DEF d
  <2>3. Handles(e, c, d) BY <1>2, <1>3, <2>2, QuietStep
  <2> QED BY <1>1, <2>1, <2>3, ReceiveStep DEF c
<1>4. CASE c.s.state # "SYN_RECEIVED"
  <2>1. process_syn_packet(c) = tcp_close_socket(c)
    BY <1>4 DEF process_syn_packet
  <2> QED BY <1>1, <1>2, <2>1, Closing, ReceiveStep DEF c
<1> QED BY <1>3, <1>4

LEMMA RecvSynAckStep ==
  ASSUME IInv, NEW e \in Ep, RecvSynAck(e) PROVE IInv'
<1>1. PICK m \in Arriving(e), w \in Windows :
        /\ InSynSent(e) /\ AckAcceptable(tcb[e], m) /\ m.kind = "synack"
        /\ LET c == [Local(e) EXCEPT
                       !.s.rnxt = m.seq + 1, !.s.irs = m.seq, !.s.una = m.ackno,
                       !.s.rtx = delete_segment_from_queue(@, m.ackno)]
               d == send_ack(e, c, c.s.nxt, c.s.rnxt)
           IN  Handled(e, m, send_segment(e, tcp_change_state(d, "ESTABLISHED"),
                                          w, load[e]))
        /\ Quiet
  BY DEF RecvSynAck
<1> DEFINE l == Local(e)
           q == delete_segment_from_queue(l.s.rtx, m.ackno)
           t == [l.s EXCEPT !.rnxt = m.seq + 1, !.irs = m.seq, !.una = m.ackno,
                            !.rtx = q]
           c == [l EXCEPT !.s = t]
           d == send_ack(e, c, c.s.nxt, c.s.rnxt)
           x == tcp_change_state(d, "ESTABLISHED")
           f == send_segment(e, x, w, load[e])
<1>2. m \in Segment /\ m.seq \in Nat /\ m.ackno \in Nat BY ArrivingType
<1>3. l \in Contexts /\ Sender(e, l) /\ l.s = tcb[e] /\ l.arm = {} BY LocalType
<1>4. Handled(e, m, f)
  <2>1. [l EXCEPT !.s.rnxt = m.seq + 1, !.s.irs = m.seq, !.s.una = m.ackno,
                  !.s.rtx = delete_segment_from_queue(@, m.ackno)] = c
    BY <1>3 DEF Contexts, TCB
  <2> HIDE DEF c
  <2> QED BY <1>1, <2>1
<1>5. l.s.state = "SYN_SENT" /\ l.s.sock = "open"
  BY <1>1, <1>3 DEF InSynSent
<1> HIDE DEF l
<1>6. /\ l.s \in TCB /\ l.s.nxt \in Nat /\ l.s.iss \in Nat /\ l.s.una = l.s.iss
      /\ l.s.una \in Nat /\ l.s.nxt = l.s.iss + 1 /\ m.ackno = l.s.nxt
  <2>1. m.ackno > l.s.iss /\ m.ackno <= l.s.nxt
    BY <1>1, <1>2, <1>3, ContextFields DEF AckAcceptable, BadSynSentAck
  <2> QED BY <1>2, <1>3, <1>5, <2>1, ContextFields DEF Sender, Handshake, Opening
<1>7. q \subseteq l.s.rtx /\ SeqNums(q) = m.ackno .. (l.s.nxt - 1)
  <2>1. l.s.una <= m.ackno /\ m.ackno <= l.s.nxt BY <1>6
  <2> QED BY <1>2, <1>3, <1>6, <2>1, DeleteFromQueue DEF Sender
<1> HIDE DEF q
<1>8. /\ t \in TCB /\ t.rnxt = m.seq + 1 /\ t.irs = m.seq /\ t.una = m.ackno
      /\ t.rtx = q /\ t.nxt = l.s.nxt /\ t.state = "SYN_SENT" /\ t.sock = "open"
      /\ t.ooo = l.s.ooo /\ t.cancel = l.s.cancel /\ t.dangling = l.s.dangling
  <2>1. q \subseteq Segment /\ m.seq + 1 \in Nat BY <1>2, <1>3, <1>7, ContextFields
  <2>2. t \in TCB BY <1>2, <1>6, <2>1 DEF TCB
  <2>3. /\ t.rnxt = m.seq + 1 /\ t.irs = m.seq /\ t.una = m.ackno
        /\ t.rtx = q /\ t.nxt = l.s.nxt /\ t.state = l.s.state /\ t.sock = l.s.sock
        /\ t.ooo = l.s.ooo /\ t.cancel = l.s.cancel /\ t.dangling = l.s.dangling
    BY <1>6 DEF TCB
  <2> HIDE DEF t
  <2> QED BY <1>5, <2>2, <2>3
<1>9. ~l.s.dangling BY <1>3, <1>5 DEF Sender, Handshake
<1> HIDE DEF t
<1>10. c \in Contexts /\ c.s = t /\ c.arm = {} BY <1>3, <1>8 DEF Contexts
<1> HIDE DEF c
<1>11. d \in Contexts /\ d.s = t /\ d.arm = {}
  <2>1. c.s.nxt \in Nat /\ c.s.rnxt \in Nat BY <1>10, ContextFields
  <2> QED BY <1>10, <2>1, SendAck
<1> HIDE DEF d
<1>12. x \in Contexts /\ SameFields(t, x.s) /\ x.arm = {} /\ x.s.state = "ESTABLISHED"
  BY <1>11, ChangeState DEF State
<1> HIDE DEF x
<1>13. Queue(e, x.s)
  <2>1. Queue(e, l.s) BY <1>3 DEF Sender
  <2>2. x.s.rtx = q /\ x.s.una = m.ackno /\ x.s.nxt = l.s.nxt
    BY <1>8, <1>12 DEF SameFields
  <2>3. x.s.una <= x.s.nxt BY <1>6, <2>2
  <2> QED BY <1>7, <2>1, <2>2, <2>3 DEF Queue
<1>14. Handshake(x.s) /\ x.s.sock = "open"
  BY <1>8, <1>9, <1>12 DEF SameFields, Handshake, Opening
<1>15. /\ Handles(e, x, f) /\ f.s.sock = "open"
       /\ f.s.rnxt = m.seq + 1 /\ f.s.irs = m.seq /\ f.s.ooo = l.s.ooo
       /\ f.s.state \in {"ESTABLISHED", "FIN_WAIT_1"}
  <2>1. x.s.state \in State \ (Opening \cup {"CLOSED"})
    BY <1>12 DEF State, Opening
  <2>2. x.s.sock # "none" BY <1>14
  <2>3. /\ Handles(e, x, f) /\ f.s.sock = x.s.sock /\ f.s.rnxt = x.s.rnxt
        /\ f.s.irs = x.s.irs /\ f.s.ooo = x.s.ooo
        /\ f.s.state = x.s.state \/ f.s.state = "FIN_WAIT_1"
    BY <1>12, <1>13, <1>14, <2>1, <2>2, SendSegment
  <2> HIDE DEF f
  <2> QED BY <1>8, <1>12, <1>14, <2>3 DEF SameFields
<1> HIDE DEF f
<1>16. PICK rest \in {net \ {m}} \cup (IF Duplicating THEN {net} ELSE {}) :
         Commit(e, f, rest, timers)
  BY <1>4 DEF Handled
<1>17. rest \subseteq Segment BY DEF IInv, TypeOK
<1>18. ~halted BY <1>16 DEF Commit
<1>19. Arms(l, f)
  BY <1>3, <1>7, <1>8, <1>12, <1>15 DEF Handles, Arms, SameFields
<1>20. Armed(f.s, timers \cup f.arm) BY <1>18, <1>19, ArmsTimers DEF l
<1>21. f \in Contexts /\ Sender(e, f) BY <1>15 DEF Handles
<1>22. Receiver(f.s, got[e], handed[e])
  <2>1. Receiver(l.s, got[e], handed[e]) BY <1>3 DEF IInv, ReceiverInv
  <2>2. got[e] = {} /\ handed[e] = 0 /\ l.s.ooo = {}
    BY <1>5, <2>1 DEF Receiver
  <2>3. (m.seq + 1) .. ((m.seq + 1) - 1) = {} /\ m.seq < m.seq + 1
          /\ (m.seq + 1) - m.seq - 1 = 0
    BY <1>2
  <2> QED BY <1>15, <2>2, <2>3 DEF Receiver
<1>23. sockets' = sockets /\ got' = got /\ handed' = handed /\ load' = load
  BY <1>1 DEF Quiet, Handled
<1> QED BY <1>16, <1>17, <1>20, <1>21, <1>22, <1>23, CommitStep DEF IInv, TypeOK

LEMMA RecvAckSynReceivedStep ==
  ASSUME IInv, NEW e \in Ep, RecvAckSynReceived(e) PROVE IInv'
<1> DEFINE c == Local(e)
           x == tcp_change_state(c, "ESTABLISHED")
<1>1. PICK m \in Arriving(e), fast \in BOOLEAN, w \in Windows :
        /\ InIncoming(e) /\ tcb[e].state = "SYN_RECEIVED" /\ Quiet
        /\ \E f \in {AckEstablished(e, x, m, fast, w, load[e]), send_rst(e, c, m, 1)} :
             Handled(e, m, f)
  BY DEF RecvAckSynReceived, PureAck, Valid
<1> DEFINE d == AckEstablished(e, x, m, fast, w, load[e])
           r == send_rst(e, c, m, 1)
<1>2. m \in Segment BY ArrivingType
<1>3. /\ c \in Contexts /\ Sender(e, c) /\ c.s.state = "SYN_RECEIVED"
      /\ c.s.sock = "open" /\ ~c.s.dangling
  BY <1>1, LocalType DEF InIncoming, Sender, Handshake
<1> HIDE DEF c
<1>4. /\ x \in Contexts /\ x.buf = c.buf /\ x.arm = c.arm
      /\ SameFields(c.s, x.s) /\ x.s.state = "ESTABLISHED"
  BY <1>3, ChangeState DEF State
<1> HIDE DEF x
<1>5. Sender(e, x)
  <2>1. Queue(e, x.s) BY <1>3, <1>4 DEF Sender, Queue, SameFields
  <2>2. Handshake(x.s) BY <1>3, <1>4 DEF Handshake, SameFields, Opening
  <2>3. c.s.una # c.s.nxt
    BY <1>3, ContextFields DEF Sender, Handshake, Opening
  <2>4. x.s.rtx # {}
    BY <1>3, <1>4, <2>3, EmptyQueue, ContextFields DEF Sender, SameFields
  <2> QED BY <2>1, <2>2, <2>4 DEF Sender, Waiting
<1>6. /\ Handles(e, x, d) /\ d.s.sock = x.s.sock
      /\ d.s.state = x.s.state \/ d.s.state = "FIN_WAIT_1"
      /\ d.s.rnxt = x.s.rnxt /\ d.s.irs = x.s.irs /\ d.s.ooo = x.s.ooo
  <2>1. x.s.state \in Sending /\ x.s.sock = "open" /\ ~x.s.dangling
    BY <1>3, <1>4 DEF SameFields, Sending, State, Opening
  <2> QED BY <1>2, <1>4, <1>5, <2>1, Acknowledge
<1> HIDE DEF d
<1>7. Handles(e, c, d)
  <2>1. Arms(c, d) BY <1>4, <1>6 DEF Handles, Arms, SameFields
  <2>2. Keeps(c, d) BY <1>3, <1>4, <1>6 DEF Keeps, SameFields, Incoming, State
  <2> QED BY <1>6, <2>1, <2>2 DEF Handles
<1>8. r \in Contexts /\ r.s = c.s /\ r.buf = c.buf /\ r.arm = c.arm
  BY <1>2, <1>3, SendRst
<1> HIDE DEF r
<1>9. Handles(e, c, r) BY <1>3, <1>8, OnlySends
<1>10. \E f \in {d, r} : Handled(e, m, f) BY <1>1 DEF d, r
<1> QED BY <1>1, <1>7, <1>9, <1>10, ReceiveStep DEF c

LEMMA RecvAckStep ==
  ASSUME IInv, NEW e \in Ep, RecvAck(e) PROVE IInv'
<1> DEFINE c == Local(e)
<1>1. PICK m \in Arriving(e), fast \in BOOLEAN, w \in Windows :
        /\ InIncoming(e) /\ Quiet
        /\ tcb[e].state \in {"ESTABLISHED", "FIN_WAIT_1", "FIN_WAIT_2",
                             "CLOSE_WAIT", "CLOSING"}
        /\ Handled(e, m, process_ack_packet(e, c, m, fast, w, load[e]))
  BY DEF RecvAck, PureAck, Valid
<1>2. m \in Segment BY ArrivingType
<1>3. /\ c \in Contexts /\ Sender(e, c) /\ c.s.state \in Sending
      /\ c.s.sock = "open" /\ ~c.s.dangling
  BY <1>1, LocalType DEF InIncoming, Sender, Handshake, Sending, State, Opening
<1> HIDE DEF c
<1>4. Handles(e, c, process_ack_packet(e, c, m, fast, w, load[e]))
  BY <1>2, <1>3, AckPacket
<1> QED BY <1>1, <1>4, ReceiveStep DEF c

LEMMA RecvAckLastAckStep ==
  ASSUME IInv, NEW e \in Ep, RecvAckLastAck(e) PROVE IInv'
<1> DEFINE c == Local(e)
           x == tcp_change_state(c, "CLOSED")
           d == delete_tcb(x)
<1>1. PICK m \in Arriving(e) : InIncoming(e) /\ Quiet /\ Handled(e, m, d)
  BY DEF RecvAckLastAck, PureAck, Valid
<1>2. c \in Contexts /\ c.s.sock = "open" BY <1>1, LocalType DEF InIncoming
<1> HIDE DEF c
<1>3. x \in Contexts /\ x.buf = c.buf /\ x.arm = c.arm /\ SameFields(c.s, x.s)
  BY <1>2, ChangeState DEF State
<1> HIDE DEF x
<1>4. Handles(e, x, d) BY <1>2, <1>3, Closing DEF SameFields
<1>5. d.s.sock = "nulltcb" /\ d.s.rtx = {} /\ d.s.ooo = {}
  BY <1>3 DEF delete_tcb, NoSocket, Contexts
<1> HIDE DEF d
<1>6. Arms(c, d) /\ Keeps(c, d)
  BY <1>3, <1>4, <1>5 DEF Handles, Arms, Armed, Keeps
<1>7. Handles(e, c, d) BY <1>4, <1>6 DEF Handles
<1> QED BY <1>1, <1>7, ReceiveStep DEF c

LEMMA RecvAckTimeWaitStep ==
  ASSUME IInv, NEW e \in Ep, RecvAckTimeWait(e) PROVE IInv'
<1> DEFINE c == Local(e)
<1>1. PICK m \in Arriving(e) :
        /\ Quiet
        /\ Handled(e, m, [start_timewait_timer(send_fin_ack(e, c, m.seq, m.ackno))
                            EXCEPT !.s.restarted = TRUE])
  BY DEF RecvAckTimeWait
<1> DEFINE a == send_fin_ack(e, c, m.seq, m.ackno)
           x == start_timewait_timer(a)
           d == [x EXCEPT !.s.restarted = TRUE]
<1>2. m.seq \in Nat /\ m.ackno \in Nat BY ArrivingType
<1>3. c \in Contexts /\ Sender(e, c) BY LocalType
<1> HIDE DEF c
<1>4. a \in Contexts /\ a.s = c.s /\ a.buf = c.buf /\ a.arm = c.arm
  BY <1>2, <1>3, SendFinAck
<1> HIDE DEF a
<1>5. /\ x \in Contexts /\ x.buf = c.buf /\ x.arm = c.arm
      /\ x.s.state = c.s.state /\ SameFields(c.s, x.s)
  BY <1>4, TimeWait DEF SameFields
<1> HIDE DEF x
<1>6. d \in Contexts /\ d.buf = x.buf /\ d.arm = x.arm
        /\ SameFields(x.s, d.s) /\ d.s.state = x.s.state
  BY <1>5 DEF Contexts, TCB, SameFields
<1> HIDE DEF d
<1>7. SameFields(c.s, d.s) BY <1>5, <1>6 DEF SameFields
<1>8. Handles(e, c, d) BY <1>3, <1>5, <1>6, <1>7, QuietStep
<1> QED BY <1>1, <1>8, ReceiveStep DEF a, c, d, x

----------------------------------------------------------------------------
(* Data *)

PoppedSeqs(q, nx) == DataSeqs({x \in q : x.seq < nx})

Rest(q, nx) == {x \in q : x.seq >= nx}

\* The data of q lies beyond r.
Beyond(q, r) == \A x \in q : x.kind = "data" => x.seq > r

\* What the queue contributes when RCV.NXT moves from r, over a data segment
\* if there is one (n = 1), to nx.
LEMMA Popped ==
  ASSUME NEW q \in SUBSET Segment, NEW r \in Nat, NEW nx \in Nat, NEW n \in {0, 1},
         Beyond(q, r), nx >= r + n, Contiguous(q, r + n, nx),
         NEW new, n = 1 => new = {r}, n = 0 => new = {}
  PROVE  /\ new \cup PoppedSeqs(q, nx) = r..(nx - 1)
         /\ Cardinality(new) \in Nat /\ Cardinality(PoppedSeqs(q, nx)) \in Nat
         /\ Cardinality(new) + Cardinality(PoppedSeqs(q, nx)) = nx - r
         /\ Beyond(Rest(q, nx), nx)
<1> DEFINE popped == PoppedSeqs(q, nx)
<1>1. \A x \in q : x.seq \in Nat BY DEF Segment
<1>2. \A i \in DataSeqs(q) : i \in Nat /\ i > r BY <1>1 DEF DataSeqs, Beyond
<1>3. \A i \in (r + n)..(nx - 1) : i \in DataSeqs(q) BY DEF Contiguous
<1>4. popped = {i \in DataSeqs(q) : i < nx} BY DEF DataSeqs, PoppedSeqs
<1>5. popped = (r + 1)..(nx - 1)
  <2> HIDE DEF popped
  <2>1. CASE n = 1 BY <1>2, <1>3, <1>4, <2>1
  <2>2. CASE n = 0
    <3>1. nx = r
      <4>1. nx > r => r \in (r + n)..(nx - 1) BY <2>2
      <4> QED BY <1>2, <1>3, <2>2, <4>1
    <3> QED BY <1>2, <1>4, <3>1
  <2> QED BY <2>1, <2>2
<1>6. n = 0 => nx = r
  <2>1. n = 0 /\ nx > r => r \in (r + n)..(nx - 1) OBVIOUS
  <2> QED BY <1>2, <1>3, <2>1
<1> HIDE DEF popped
<1>7. new \cup popped = r..(nx - 1) BY <1>5, <1>6
<1>8. Cardinality(new) = n BY FS_EmptySet, FS_Singleton
<1>9. Cardinality(popped) = IF r + 1 > nx - 1 THEN 0 ELSE (nx - 1) - (r + 1) + 1
  BY <1>5, FS_Interval
<1>10. Cardinality(popped) = nx - r - n
  BY <1>6, <1>9
<1>11. Beyond(Rest(q, nx), nx)
  <2>1. \A x \in q : x.kind = "data" => x.seq # nx BY DEF Contiguous, DataSeqs
  <2> QED BY <1>1, <2>1 DEF Beyond, Rest
<1> QED BY <1>7, <1>8, <1>10, <1>11 DEF popped

LEMMA RecvInOrderStep ==
  ASSUME IInv, NEW e \in Ep, RecvInOrder(e) PROVE IInv'
<1> DEFINE l == Local(e)
           q == tcb[e].ooo
           c(nx, b) == [l EXCEPT !.s.rnxt = nx, !.s.ooo = {x \in q : x.seq >= nx},
                                 !.s.ackLast = b]
           new(m) == IF m.kind = "data" THEN {m.seq} ELSE {}
           popped(nx) == PoppedSeqs(q, nx)
           f(m, nx, a) == IF Fin(m) THEN process_fin_packet(e, c(nx, a[2]), m)
                          ELSE IF a[1] THEN send_ack(e, c(nx, a[2]), c(nx, a[2]).s.nxt, nx)
                          ELSE c(nx, a[2])
<1>1. PICK m \in Arriving(e) :
        /\ Text(e, m) /\ tcb[e].state \in TextStates /\ m.seq = tcb[e].rnxt
        /\ \E nx \in m.seq..(m.seq + 1 + Cardinality(tcb[e].ooo)),
              a \in send_ack_or_not(tcb[e]) :
             /\ nx >= m.seq + get_seg_len(m)
             /\ Contiguous(q, m.seq + get_seg_len(m), nx)
             /\ got' = [got EXCEPT ![e] = @ \cup new(m) \cup popped(nx)]
             /\ handed' = [handed EXCEPT ![e] = @ + Cardinality(new(m))
                                                  + Cardinality(popped(nx))]
             /\ Handled(e, m, f(m, nx, a))
        /\ UNCHANGED sockets
  BY DEF RecvInOrder, PoppedSeqs
<1>2. PICK nx \in m.seq..(m.seq + 1 + Cardinality(tcb[e].ooo)),
            a \in send_ack_or_not(tcb[e]) :
        /\ nx >= m.seq + get_seg_len(m)
        /\ Contiguous(q, m.seq + get_seg_len(m), nx)
        /\ got' = [got EXCEPT ![e] = @ \cup new(m) \cup popped(nx)]
        /\ handed' = [handed EXCEPT ![e] = @ + Cardinality(new(m))
                                             + Cardinality(popped(nx))]
        /\ Handled(e, m, f(m, nx, a))
  BY <1>1
<1>3. m \in Segment /\ m.seq \in Nat BY ArrivingType
<1>4. nx \in Nat BY <1>2, <1>3
<1>5. /\ l \in Contexts /\ Sender(e, l) /\ l.s = tcb[e] /\ l.arm = {}
      /\ l.s.state \in Incoming /\ l.s.sock = "open" /\ q \subseteq Segment
      /\ ~l.s.dangling
  BY <1>1, LocalType, ContextFields
  DEF Text, Valid, InIncoming, Sender, Handshake, Incoming
<1>6. a[2] \in BOOLEAN
  <2>1. tcb[e].ackLast \in BOOLEAN BY LocalType DEF TCB
  <2>2. \/ a = <<TRUE, tcb[e].ackLast>> \/ a = <<TRUE, TRUE>>
        \/ a = <<FALSE, FALSE>>
    BY DEF send_ack_or_not
  <2>3. CASE a = <<TRUE, tcb[e].ackLast>> BY <2>1, <2>3
  <2>4. CASE a = <<TRUE, TRUE>> BY <2>4
  <2>5. CASE a = <<FALSE, FALSE>> BY <2>5
  <2> QED BY <2>2, <2>3, <2>4, <2>5
<1> DEFINE b == a[2]
           d == c(nx, b)
           g == f(m, nx, a)
<1>7. /\ Receiver(l.s, got[e], handed[e])
      /\ got[e] = (l.s.irs + 1)..(l.s.rnxt - 1)
      /\ handed[e] = l.s.rnxt - l.s.irs - 1 /\ l.s.irs < l.s.rnxt
      /\ \A x \in q : x.kind = "data" => x.seq > l.s.rnxt
      /\ l.s.rnxt = m.seq /\ l.s.irs \in Nat
  BY <1>1, <1>5, ContextFields DEF IInv, ReceiverInv, Receiver
<1> DEFINE n == get_seg_len(m)
<1>8. n \in {0, 1} /\ (n = 1 <=> m.kind = "data")
  BY <1>1 DEF Text, get_seg_len, Syn
<1>9. new(m) = IF n = 1 THEN {m.seq} ELSE {} BY <1>8
<1>10. /\ new(m) \cup popped(nx) = m.seq..(nx - 1)
       /\ Cardinality(new(m)) \in Nat /\ Cardinality(popped(nx)) \in Nat
       /\ Cardinality(new(m)) + Cardinality(popped(nx)) = nx - m.seq
       /\ Beyond(Rest(q, nx), nx)
  <2>1. nx >= m.seq + n /\ Contiguous(q, m.seq + n, nx) BY <1>2
  <2>2. Beyond(q, m.seq) BY <1>7 DEF Beyond
  <2> DEFINE w == new(m)
             r == m.seq
  <2>3. n \in {0, 1} /\ q \in SUBSET Segment /\ (n = 1 => w = {r}) /\ (n = 0 => w = {})
    BY <1>5, <1>8, <1>9
  <2>4. r \in Nat /\ nx >= r + n /\ Contiguous(q, r + n, nx) /\ Beyond(q, r)
    BY <1>3, <2>1, <2>2
  <2> HIDE DEF n, q, w, r
  <2>5. /\ w \cup PoppedSeqs(q, nx) = r..(nx - 1)
        /\ Cardinality(w) \in Nat /\ Cardinality(PoppedSeqs(q, nx)) \in Nat
        /\ Cardinality(w) + Cardinality(PoppedSeqs(q, nx)) = nx - r
        /\ Beyond(Rest(q, nx), nx)
    BY <1>4, <2>3, <2>4, Popped
  <2> QED BY <2>5 DEF w, r
<1>11. nx >= m.seq BY <1>2, <1>3, <1>8
<1>12. /\ d \in Contexts /\ d.buf = l.buf /\ d.arm = {} /\ d.s.state = l.s.state
       /\ d.s.sock = l.s.sock /\ d.s.iss = l.s.iss /\ d.s.irs = l.s.irs
       /\ d.s.una = l.s.una /\ d.s.nxt = l.s.nxt /\ d.s.rnxt = nx
       /\ d.s.rtx = l.s.rtx /\ d.s.ooo = Rest(q, nx)
       /\ d.s.dangling = l.s.dangling /\ d.s.waitFromApp = l.s.waitFromApp
       /\ d.s.cancel = l.s.cancel
  <2> DEFINE o == Rest(q, nx)
             t == [l.s EXCEPT !.rnxt = nx, !.ooo = o, !.ackLast = b]
  <2>1. o \subseteq Segment BY <1>5 DEF Rest
  <2>2. d = [l EXCEPT !.s = t] BY <1>5 DEF Contexts, TCB, Rest
  <2>3. l.s \in TCB BY <1>5, ContextFields
  <2> HIDE DEF l, o, d, b
  <2>4. b \in BOOLEAN BY <1>6 DEF b
  <2>5. /\ t \in TCB /\ t.state = l.s.state
        /\ t.sock = l.s.sock /\ t.iss = l.s.iss /\ t.irs = l.s.irs
        /\ t.una = l.s.una /\ t.nxt = l.s.nxt /\ t.rnxt = nx
        /\ t.rtx = l.s.rtx /\ t.ooo = o
        /\ t.dangling = l.s.dangling /\ t.waitFromApp = l.s.waitFromApp
        /\ t.cancel = l.s.cancel
    BY <1>4, <2>1, <2>3, <2>4 DEF TCB
  <2> HIDE DEF t
  <2>6. d \in Contexts /\ d.buf = l.buf /\ d.arm = {} /\ d.s = t
    BY <1>5, <2>2, <2>5 DEF Contexts
  <2> QED BY <2>5, <2>6 DEF o
<1> HIDE DEF d, l, n, b
<1>13. Sender(e, d)
  BY <1>5, <1>12 DEF Sender, Queue, Handshake, Waiting
<1>14. Handles(e, d, g)
  <2>1. Handles(e, d, d) BY <1>12, <1>13, OnlySends
  <2>2. Handles(e, d, send_ack(e, d, d.s.nxt, nx))
    <3> DEFINE r == send_ack(e, d, d.s.nxt, nx)
    <3>1. d \in Contexts /\ d.s.nxt \in Nat BY <1>12, ContextFields
    <3>2. r \in Contexts /\ r.s = d.s /\ r.buf = d.buf /\ r.arm = d.arm
      BY <1>4, <3>1, SendAck
    <3> HIDE DEF r
    <3>3. Handles(e, d, r) BY <1>13, <3>1, <3>2, OnlySends
    <3> QED BY <3>3 DEF r
  <2>3. Handles(e, d, process_fin_packet(e, d, m))
    BY <1>3, <1>5, <1>12, <1>13, FinPacket
  <2>4. g \in {d, send_ack(e, d, d.s.nxt, nx), process_fin_packet(e, d, m)}
    BY DEF d, b
  <2> HIDE DEF g
  <2> QED BY <2>1, <2>2, <2>3, <2>4
<1>15. Handled(e, m, g) BY <1>2 DEF l
<1> HIDE DEF g
<1>16. PICK rest \in {net \ {m}} \cup (IF Duplicating THEN {net} ELSE {}) :
         Commit(e, g, rest, timers)
  BY <1>15 DEF Handled
<1>17. rest \subseteq Segment BY DEF IInv, TypeOK
<1>18. Arms(l, g) BY <1>5, <1>12, <1>14 DEF Handles, Arms
<1>19. Armed(g.s, timers \cup g.arm)
  <2>1. ~halted BY <1>16 DEF Commit
  <2> QED BY <1>18, <2>1, ArmsTimers DEF l
<1>20. /\ got'[e] = (d.s.irs + 1)..(d.s.rnxt - 1)
       /\ handed'[e] = d.s.rnxt - d.s.irs - 1
       /\ d.s.irs < d.s.rnxt /\ handed'[e] \in Nat /\ got'[e] \subseteq Nat
       /\ got' = [got EXCEPT ![e] = got'[e]]
       /\ handed' = [handed EXCEPT ![e] = handed'[e]]
  <2>1. /\ got'[e] = got[e] \cup (m.seq..(nx - 1))
        /\ got' = [got EXCEPT ![e] = got[e] \cup (m.seq..(nx - 1))]
    <3>1. got' = [got EXCEPT ![e] = (got[e] \cup new(m)) \cup popped(nx)] BY <1>2
    <3>2. (got[e] \cup new(m)) \cup popped(nx) = got[e] \cup (m.seq..(nx - 1))
      BY <1>10
    <3> QED BY <3>1, <3>2 DEF IInv, TypeOK
  <2>2. /\ handed'[e] = handed[e] + (nx - m.seq)
        /\ handed' = [handed EXCEPT ![e] = handed[e] + (nx - m.seq)]
    <3> DEFINE u == Cardinality(new(m))
               v == Cardinality(popped(nx))
    <3>1. handed' = [handed EXCEPT ![e] = handed[e] + u + v] BY <1>2
    <3>2. handed[e] \in Nat BY DEF IInv, TypeOK
    <3>3. u \in Nat /\ v \in Nat /\ u + v = nx - m.seq BY <1>10
    <3> HIDE DEF u, v
    <3>4. handed[e] + u + v = handed[e] + (nx - m.seq)
      BY <1>3, <1>4, <3>2, <3>3
    <3> QED BY <3>1, <3>4 DEF IInv, TypeOK
  <2>3. got[e] \cup (m.seq..(nx - 1)) = (d.s.irs + 1)..(d.s.rnxt - 1)
    BY <1>3, <1>4, <1>7, <1>11, <1>12
  <2>4. handed[e] + (nx - m.seq) = d.s.rnxt - d.s.irs - 1 /\ d.s.irs < d.s.rnxt
        /\ handed[e] + (nx - m.seq) \in Nat
    BY <1>3, <1>4, <1>7, <1>11, <1>12, SMTT(20)
  <2>5. (d.s.irs + 1)..(d.s.rnxt - 1) \subseteq Nat
    BY <1>4, <1>7, <1>12
  <2> QED BY <2>1, <2>2, <2>3, <2>4, <2>5
<1>21. Receiver(d.s, got'[e], handed'[e])
  BY <1>5, <1>10, <1>12, <1>20 DEF Receiver, Incoming, Beyond
<1>22. Receiver(g.s, got'[e], handed'[e])
  BY <1>14, <1>21, KeepsReceiver DEF Handles
<1>23. /\ sockets' \in [Ep -> 0..MaxSockets] /\ load' \in [Ep -> Nat]
       /\ got' \in [Ep -> SUBSET Nat] /\ handed' \in [Ep -> Nat]
       /\ \A k \in Ep \ {e} : got'[k] = got[k] /\ handed'[k] = handed[k]
  <2>1. sockets' = sockets /\ load' = load BY <1>1, <1>15 DEF Handled
  <2>2. got \in [Ep -> SUBSET Nat] /\ handed \in [Ep -> Nat]
    BY DEF IInv, TypeOK
  <2>3. got' \in [Ep -> SUBSET Nat] /\ \A k \in Ep \ {e} : got'[k] = got[k]
    BY <1>20, <2>2
  <2>4. handed' \in [Ep -> Nat] /\ \A k \in Ep \ {e} : handed'[k] = handed[k]
    BY <1>20, <2>2
  <2> QED BY <2>1, <2>3, <2>4 DEF IInv, TypeOK
<1>24. g \in Contexts /\ Sender(e, g) BY <1>14 DEF Handles
<1> QED BY <1>16, <1>17, <1>19, <1>22, <1>23, <1>24, CommitStep

LEMMA RecvOutOfOrderStep ==
  ASSUME IInv, NEW e \in Ep, RecvOutOfOrder(e) PROVE IInv'
<1> DEFINE l == Local(e)
           o(m) == IF m.seq \in SeqNums(l.s.ooo) THEN l.s.ooo ELSE l.s.ooo \cup {m}
           c(m) == [l EXCEPT !.s.ooo = o(m)]
           f(m) == IF Fin(m) THEN process_fin_packet(e, c(m), m)
                   ELSE send_ack(e, c(m), c(m).s.nxt, c(m).s.rnxt)
<1>1. PICK m \in Arriving(e) :
        /\ Text(e, m) /\ tcb[e].state \in TextStates /\ m.seq > tcb[e].rnxt
        /\ Handled(e, m, f(m)) /\ Quiet
  BY DEF RecvOutOfOrder
<1> DEFINE q == o(m)
           d == c(m)
           g == f(m)
<1>2. m \in Segment /\ m.seq \in Nat BY ArrivingType
<1>3. /\ l \in Contexts /\ Sender(e, l) /\ l.s = tcb[e] /\ l.arm = {}
      /\ l.s.state \in Incoming /\ l.s.sock = "open" /\ ~l.s.dangling
      /\ l.s \in TCB /\ l.s.ooo \subseteq Segment
  BY <1>1, LocalType, ContextFields
  DEF Text, Valid, InIncoming, Sender, Handshake, Incoming
<1>4. Receiver(l.s, got[e], handed[e]) BY <1>3 DEF IInv, ReceiverInv
<1>5. q \subseteq Segment /\ \A x \in q : x.kind = "data" => x.seq > l.s.rnxt
  BY <1>1, <1>2, <1>3, <1>4 DEF Receiver
<1>6. /\ d \in Contexts /\ d.buf = l.buf /\ d.arm = {} /\ d.s.state = l.s.state
      /\ d.s.sock = l.s.sock /\ d.s.iss = l.s.iss /\ d.s.irs = l.s.irs
      /\ d.s.una = l.s.una /\ d.s.nxt = l.s.nxt /\ d.s.rnxt = l.s.rnxt
      /\ d.s.rtx = l.s.rtx /\ d.s.ooo = q
      /\ d.s.dangling = l.s.dangling /\ d.s.waitFromApp = l.s.waitFromApp
      /\ d.s.cancel = l.s.cancel
  <2> HIDE DEF q
  <2>1. d = [l EXCEPT !.s.ooo = q] BY DEF q
  <2> HIDE DEF d, l
  <2> QED BY <1>3, <1>5, <2>1 DEF Contexts, TCB
<1> HIDE DEF d, l, q
<1>7. Sender(e, d)
  BY <1>3, <1>6 DEF Sender, Queue, Handshake, Waiting
<1>8. Handles(e, d, g)
  <2>1. Handles(e, d, send_ack(e, d, d.s.nxt, d.s.rnxt))
    <3> DEFINE r == send_ack(e, d, d.s.nxt, d.s.rnxt)
    <3>1. d \in Contexts /\ d.s.nxt \in Nat /\ d.s.rnxt \in Nat
      BY <1>6, ContextFields
    <3>2. r \in Contexts /\ r.s = d.s /\ r.buf = d.buf /\ r.arm = d.arm
      BY <3>1, SendAck
    <3> HIDE DEF r
    <3>3. Handles(e, d, r) BY <1>7, <3>1, <3>2, OnlySends
    <3> QED BY <3>3 DEF r
  <2>2. Handles(e, d, process_fin_packet(e, d, m))
    BY <1>2, <1>3, <1>6, <1>7, FinPacket
  <2>3. g \in {send_ack(e, d, d.s.nxt, d.s.rnxt), process_fin_packet(e, d, m)}
    BY DEF d
  <2> HIDE DEF g
  <2> QED BY <2>1, <2>2, <2>3
<1>9. Handled(e, m, g) BY <1>1 DEF l
<1> HIDE DEF g
<1>10. PICK rest \in {net \ {m}} \cup (IF Duplicating THEN {net} ELSE {}) :
         Commit(e, g, rest, timers)
  BY <1>9 DEF Handled
<1>11. rest \subseteq Segment BY DEF IInv, TypeOK
<1>12. Arms(l, g) BY <1>3, <1>6, <1>8 DEF Handles, Arms
<1>13. Armed(g.s, timers \cup g.arm)
  <2>1. ~halted BY <1>10 DEF Commit
  <2> QED BY <1>12, <2>1, ArmsTimers DEF l
<1>14. Receiver(g.s, got[e], handed[e])
  <2>1. Receiver(d.s, got[e], handed[e])
    BY <1>3, <1>4, <1>5, <1>6 DEF Receiver, Incoming
  <2> QED BY <1>8, <2>1, KeepsReceiver DEF Handles
<1>15. sockets' = sockets /\ got' = got /\ handed' = handed /\ load' = load
  BY <1>1 DEF Quiet, Handled
<1>16. g \in Contexts /\ Sender(e, g) BY <1>8 DEF Handles
<1> QED BY <1>10, <1>11, <1>13, <1>14, <1>15, <1>16, CommitStep DEF IInv, TypeOK

LEMMA RecvLateTextStep ==
  ASSUME IInv, NEW e \in Ep, RecvLateText(e) PROVE IInv'
<1> DEFINE c == Local(e)
<1>1. PICK m \in Arriving(e) :
        InIncoming(e) /\ Quiet
        /\ \E f \in {c, process_fin_packet(e, c, m)} : Handled(e, m, f)
  BY DEF RecvLateText, Text, Valid
<1>2. m \in Segment BY ArrivingType
<1>3. /\ c \in Contexts /\ Sender(e, c) /\ c.s.state \in Incoming
      /\ c.s.sock = "open" /\ ~c.s.dangling
  BY <1>1, LocalType DEF InIncoming, Sender, Handshake, Incoming
<1> HIDE DEF c
<1>4. Handles(e, c, c) /\ Handles(e, c, process_fin_packet(e, c, m))
  BY <1>2, <1>3, OnlySends, FinPacket
<1> QED BY <1>1, <1>4, ReceiveStep DEF c

----------------------------------------------------------------------------
(* TIMER_EVENTs *)

\* The timer actions keep the invariant.
LEMMA RtoTimerIgnoredStep ==
  ASSUME IInv, NEW e \in Ep, RtoTimerIgnored(e) PROVE IInv'
<1> DEFINE c == Local(e)
<1>1. PICK t \in Timers(e) :
        /\ tcb[e].sock = "open" => tcb[e].cancel \/ t.seq \notin SeqNums(tcb[e].rtx)
        /\ Commit(e, c, net, timers \ {t}) /\ UNCHANGED load /\ Quiet
  BY DEF RtoTimerIgnored, Fired
<1>2. c \in Contexts /\ Sender(e, c) /\ c.s = tcb[e] /\ c.arm = {} BY LocalType
<1> HIDE DEF c
<1>3. t.src = e /\ t \in timers BY DEF Timers
<1>4. Receiver(c.s, got[e], handed[e]) BY <1>2 DEF IInv, ReceiverInv
<1>5. Armed(c.s, (timers \ {t}) \cup c.arm)
  <2>1. Armed(c.s, timers) BY <1>1, <1>2 DEF IInv, TimerInv, Commit
  <2>2. c.s.sock # "open" => c.s.rtx = {}
    BY <1>2 DEF Sender, Handshake
  <2> QED BY <1>1, <1>2, <2>1, <2>2 DEF Armed, SeqNums
<1>6. net \subseteq Segment BY DEF IInv, TypeOK
<1>7. sockets' = sockets /\ got' = got /\ handed' = handed /\ load' = load
  BY <1>1 DEF Quiet
<1>8. Commit(e, c, net, timers \ {t}) BY <1>1 DEF c
<1> DEFINE pending == timers \ {t}
<1>9. /\ c \in Contexts /\ Sender(e, c) /\ Commit(e, c, net, pending)
      /\ pending \subseteq timers /\ \A u \in timers \ pending : u.src = e
      /\ Armed(c.s, pending \cup c.arm)
  BY <1>2, <1>3, <1>5, <1>8
<1>10. /\ sockets' \in [Ep -> 0..MaxSockets] /\ load' \in [Ep -> Nat]
       /\ got' \in [Ep -> SUBSET Nat] /\ handed' \in [Ep -> Nat]
       /\ \A f \in Ep \ {e} : got'[f] = got[f] /\ handed'[f] = handed[f]
       /\ Receiver(c.s, got'[e], handed'[e])
  BY <1>4, <1>7 DEF IInv, TypeOK
<1> HIDE DEF pending
<1> QED BY <1>6, <1>9, <1>10, CommitStep

LEMMA RtoTimerDanglingStep ==
  ASSUME IInv, NEW e \in Ep, RtoTimerDangling(e) PROVE IInv'
<1> DEFINE c == Local(e)
<1>1. PICK t \in Timers(e) :
        /\ tcb[e].dangling /\ UNCHANGED load /\ Quiet
        /\ \E d \in {c, Abort(c)} : Commit(e, d, net, timers \ {t})
  BY DEF RtoTimerDangling, Fired
<1>2. c \in Contexts /\ Sender(e, c) /\ c.s = tcb[e] /\ c.arm = {} BY LocalType
<1> HIDE DEF c
<1>3. PICK d \in {c, Abort(c)} : Commit(e, d, net, timers \ {t}) BY <1>1
<1>4. Handles(e, c, c) /\ Handles(e, c, Abort(c)) /\ Abort(c).s = c.s
  BY <1>2, OnlySends, AbortStep DEF Abort, Contexts
<1>5. d \in Contexts /\ Sender(e, d) /\ d.s = tcb[e]
  BY <1>2, <1>4 DEF Handles
<1>6. t.src = e /\ t \in timers BY DEF Timers
<1>7. Receiver(d.s, got[e], handed[e]) BY <1>5 DEF IInv, ReceiverInv
<1>8. Armed(d.s, (timers \ {t}) \cup d.arm) BY <1>1, <1>5 DEF Armed
<1>9. net \subseteq Segment BY DEF IInv, TypeOK
<1>10. /\ sockets' \in [Ep -> 0..MaxSockets] /\ load' \in [Ep -> Nat]
       /\ got' \in [Ep -> SUBSET Nat] /\ handed' \in [Ep -> Nat]
       /\ \A f \in Ep \ {e} : got'[f] = got[f] /\ handed'[f] = handed[f]
       /\ Receiver(d.s, got'[e], handed'[e])
  BY <1>1, <1>7 DEF IInv, TypeOK, Quiet
<1> DEFINE pending == timers \ {t}
<1>11. pending \subseteq timers /\ \A u \in timers \ pending : u.src = e
  BY <1>6
<1>12. Commit(e, d, net, pending) BY <1>3
<1>13. d.halt \/ Armed(d.s, pending \cup d.arm) BY <1>8
<1> HIDE DEF pending
<1> QED BY <1>5, <1>9, <1>10, <1>11, <1>12, <1>13, CommitStep

LEMMA RtoTimerResendStep ==
  ASSUME IInv, NEW e \in Ep, RtoTimerResend(e) PROVE IInv'
<1> DEFINE c == Local(e)
<1>1. PICK t \in Timers(e), x \in tcb[e].rtx :
        /\ x.seq = t.seq /\ UNCHANGED load /\ Quiet
        /\ ~tcb[e].cancel /\ ~tcb[e].dangling
        /\ \E d \in {resend_syn(e, c, x), resend_segment(c, x)} :
             Commit(e, d, net, timers \ {t})
  BY DEF RtoTimerResend, Fired
<1>2. c \in Contexts /\ Sender(e, c) /\ c.s = tcb[e] /\ c.arm = {} BY LocalType
<1> HIDE DEF c
<1>3. PICK d \in {resend_syn(e, c, x), resend_segment(c, x)} :
        Commit(e, d, net, timers \ {t})
  BY <1>1
<1>4. Resends(e, c, x, d) BY <1>2, ResendSyn, ResendSegment
<1>5. t.src = e /\ t \in timers BY DEF Timers
<1>6. Receiver(d.s, got[e], handed[e])
  <2>1. Receiver(c.s, got[e], handed[e]) BY <1>2 DEF IInv, ReceiverInv
  <2> QED BY <1>4, <2>1, KeepsReceiver DEF Resends
<1>7. d.halt \/ Armed(d.s, (timers \ {t}) \cup d.arm)
  <2>1. c.s.rtx \subseteq timers
    BY <1>1, <1>2 DEF IInv, TimerInv, Commit, Armed
  <2>2. \A y \in c.s.rtx : y.seq = x.seq => y = x
    BY <1>2 DEF Sender, Queue
  <2>3. c.s.rtx \subseteq (timers \ {t}) \cup {x} BY <1>1, <1>2, <2>1, <2>2
  <2> QED BY <1>4, <2>3 DEF Resends, Armed
<1>8. net \subseteq Segment /\ d \in Contexts /\ Sender(e, d)
  BY <1>4 DEF IInv, TypeOK, Resends
<1>10. /\ sockets' \in [Ep -> 0..MaxSockets] /\ load' \in [Ep -> Nat]
       /\ got' \in [Ep -> SUBSET Nat] /\ handed' \in [Ep -> Nat]
       /\ \A f \in Ep \ {e} : got'[f] = got[f] /\ handed'[f] = handed[f]
       /\ Receiver(d.s, got'[e], handed'[e])
  BY <1>1, <1>6 DEF IInv, TypeOK, Quiet
<1> DEFINE pending == timers \ {t}
<1>11. pending \subseteq timers /\ \A u \in timers \ pending : u.src = e
  BY <1>5
<1>12. Commit(e, d, net, pending) BY <1>3
<1>13. d.halt \/ Armed(d.s, pending \cup d.arm) BY <1>7
<1> HIDE DEF pending
<1> QED BY <1>10, <1>11, <1>12, <1>13, <1>8, CommitStep

LEMMA TimeWaitTimerStep ==
  ASSUME IInv, NEW e \in Ep, TimeWaitTimer(e) PROVE IInv'
<1> DEFINE l == Local(e)
           c == [l EXCEPT !.tw = @ - 1]
           x == tcp_change_state(c, "CLOSED")
           u == [c EXCEPT !.s.restarted = FALSE]
           d == IF c.s.sock # "open" THEN Abort(c)
                ELSE IF c.s.restarted THEN u ELSE delete_tcb(x)
<1>1. tw[e] > 0 /\ Commit(e, d, net, timers) /\ UNCHANGED load /\ Quiet
  BY DEF TimeWaitTimer
<1>2. l \in Contexts /\ Sender(e, l) /\ l.s = tcb[e] /\ l.arm = {} /\ l.tw = tw[e]
        /\ tw[e] \in Nat
  BY LocalType DEF Local
<1> HIDE DEF l
<1>3. c \in Contexts /\ c.s = l.s /\ c.buf = l.buf /\ c.arm = {}
  <2>1. l.tw - 1 \in Nat BY <1>1, <1>2
  <2> QED BY <1>2, <2>1 DEF Contexts
<1> HIDE DEF c
<1>4. Sender(e, c) BY <1>2, <1>3 DEF Sender
<1>5. Handles(e, c, d)
  <2>1. CASE c.s.sock # "open"
    <3>1. d = Abort(c) BY <2>1
    <3> HIDE DEF d
    <3> QED BY <1>3, <1>4, <3>1, AbortStep
  <2>2. CASE c.s.sock = "open" /\ c.s.restarted
    <3>1. d = u BY <2>2
    <3>2. u \in Contexts /\ u.buf = c.buf /\ u.arm = c.arm
            /\ SameFields(c.s, u.s) /\ u.s.state = c.s.state
      BY <1>3 DEF Contexts, TCB, SameFields
    <3> HIDE DEF d, u
    <3> QED BY <1>3, <1>4, <3>1, <3>2, QuietStep
  <2>3. CASE c.s.sock = "open" /\ ~c.s.restarted
    <3>1. d = delete_tcb(x) BY <2>3
    <3> HIDE DEF d
    <3>2. x \in Contexts /\ x.buf = c.buf /\ x.arm = c.arm /\ SameFields(c.s, x.s)
      BY <1>3, ChangeState DEF State
    <3> HIDE DEF x
    <3>3. Handles(e, x, d) BY <2>3, <3>1, <3>2, Closing DEF SameFields
    <3>4. d.s.sock = "nulltcb" /\ d.s.rtx = {} /\ d.s.ooo = {}
      BY <3>1, <3>2 DEF delete_tcb, NoSocket, Contexts
    <3>5. Arms(c, d) /\ Keeps(c, d)
      BY <3>2, <3>3, <3>4 DEF Handles, Arms, Armed, Keeps
    <3> QED BY <3>3, <3>5 DEF Handles
  <2> QED BY <2>1, <2>2, <2>3
<1> HIDE DEF d
<1>6. ~halted BY <1>1 DEF Commit
<1>7. Armed(d.s, timers \cup d.arm)
  <2>1. Arms(l, d) BY <1>2, <1>3, <1>5 DEF Handles, Arms
  <2> QED BY <1>6, <2>1, ArmsTimers DEF l
<1>8. Receiver(d.s, got[e], handed[e])
  <2>1. Receiver(c.s, got[e], handed[e]) BY <1>2, <1>3 DEF IInv, ReceiverInv
  <2> QED BY <1>5, <2>1, KeepsReceiver DEF Handles
<1>9. net \subseteq Segment /\ d \in Contexts /\ Sender(e, d)
  BY <1>5 DEF IInv, TypeOK, Handles
<1> QED BY <1>1, <1>7, <1>8, <1>9, CommitStep DEF IInv, TypeOK, Quiet

LEMMA LoseStep ==
  ASSUME IInv, Lose PROVE IInv'
<1>1. /\ net' \subseteq net
      /\ UNCHANGED <<tcb, sockets, load, buf, got, handed, timers, tw, halted>>
  BY DEF Lose
<1> QED BY <1>1 DEF IInv, TypeOK, SenderInv, Sender, Local, TimerInv, ReceiverInv

----------------------------------------------------------------------------
(* The theorems *)

\* The invariant holds initially.
LEMMA InitInv == Init => IInv
<1> SUFFICES ASSUME Init PROVE IInv
  OBVIOUS
<1> USE DEF Init
<1>1. TypeOK
  <2>1. tcb \in [Ep -> TCB] BY NoSocketType
  <2>2. 0 \in 0..MaxSockets BY BoundAssumption
  <2>3. sockets \in [Ep -> 0..MaxSockets] BY <2>2
  <2>4. load \in [Ep -> Nat] /\ buf \in [Ep -> Nat] BY EpAssumption
  <2>5. got \in [Ep -> SUBSET Nat] /\ handed \in [Ep -> Nat] /\ tw \in [Ep -> Nat]
    OBVIOUS
  <2> QED BY <2>1, <2>3, <2>4, <2>5 DEF TypeOK
<1>2. /\ NoSocket.una = 0 /\ NoSocket.nxt = 0 /\ NoSocket.rtx = {}
      /\ NoSocket.ooo = {} /\ NoSocket.state = "CLOSED" /\ NoSocket.sock = "none"
      /\ ~NoSocket.waitFromApp /\ ~NoSocket.dangling
  BY DEF NoSocket
<1>3. ASSUME NEW e \in Ep PROVE Sender(e, Local(e))
  <2>1. Local(e).s = NoSocket BY DEF Local
  <2>2. SeqNums(NoSocket.rtx) = 0..(0 - 1) BY <1>2 DEF SeqNums
  <2>3. Queue(e, NoSocket) BY <1>2, <2>2 DEF Queue
  <2>4. Handshake(NoSocket) /\ Waiting(NoSocket, Local(e).buf)
    BY <1>2 DEF Handshake, Waiting, Opening
  <2> QED BY <2>1, <2>3, <2>4 DEF Sender
<1>4. TimerInv BY <1>2 DEF TimerInv, Armed
<1>5. ReceiverInv BY <1>2 DEF ReceiverInv, Receiver
<1> QED BY <1>1, <1>3, <1>4, <1>5 DEF IInv, SenderInv

\* Every step keeps it.
LEMMA NextInv == IInv /\ [Next]_vars => IInv'
<1> SUFFICES ASSUME IInv, [Next]_vars PROVE IInv'
  OBVIOUS
<1>1. ASSUME NEW e \in Ep, App(e) PROVE IInv'
  BY <1>1, AppConnectStep, AppSendStep, AppQueueStep DEF App
<1>2. ASSUME NEW e \in Ep, Recv(e) PROVE IInv'
  BY <1>2, RecvNoConnectionStep, RecvSynListenSocketStep, RecvListenStep,
     RecvSynSentBadAckStep, RecvSynAckStep, RecvSynSentOtherStep,
     RecvUnacceptableStep, RecvRstStep, RecvSynStep, RecvAckSynReceivedStep,
     RecvAckStep, RecvAckLastAckStep, RecvAckTimeWaitStep, RecvInOrderStep,
     RecvOutOfOrderStep, RecvLateTextStep DEF Recv
<1>3. ASSUME NEW e \in Ep, RtoTimer(e) PROVE IInv'
  BY <1>3, RtoTimerIgnoredStep, RtoTimerDanglingStep, RtoTimerResendStep DEF RtoTimer
<1>4. ASSUME NEW e \in Ep, TimeWaitTimer(e) PROVE IInv'
  BY <1>4, TimeWaitTimerStep
<1>5. CASE Lose BY <1>5, LoseStep
<1>6. CASE UNCHANGED vars
  BY <1>6 DEF vars, IInv, TypeOK, SenderInv, Sender, Local, TimerInv, ReceiverInv
<1> QED BY <1>1, <1>2, <1>3, <1>4, <1>5, <1>6 DEF Next

\* So it always holds.
LEMMA Inductive == Spec => []IInv
BY InitInv, NextInv, PTL DEF Spec

\* Type correctness: every handler leaves well-formed sockets, segments and
\* counters, whatever segments the network delivers.
THEOREM TypeCorrect == Spec => []TypeOK
<1>1. IInv => TypeOK BY DEF IInv
<1> QED BY Inductive, <1>1, PTL

\* The retransmission queue is what has been sent and not acknowledged.
THEOREM QueueIsOutstanding == Spec => []NothingForgotten
<1>1. IInv => NothingForgotten
  BY DEF IInv, SenderInv, Sender, Queue, Local, NothingForgotten
<1> QED BY Inductive, <1>1, PTL

\* Each queued segment has a pending timer while timers are not cancelled.
THEOREM TimersPending == Spec => []QueuedHasTimer
<1>1. IInv => QueuedHasTimer
  BY DEF IInv, TimerInv, Armed, QueuedHasTimer
<1> QED BY Inductive, <1>1, PTL

\* An established connection with packets to send waits for an ACK, never
\* for nothing.
THEOREM WakeupKept == Spec => []NoLostWakeup
<1>1. IInv => NoLostWakeup
  <2> SUFFICES ASSUME IInv, NEW e \in Ep, InIncoming(e),
                      tcb[e].state = "ESTABLISHED", buf[e] > 0
               PROVE  tcb[e].rtx # {}
    BY DEF NoLostWakeup
  <2>1. Waiting(tcb[e], buf[e]) BY DEF IInv, SenderInv, Sender, Local
  <2>2. buf[e] \in Nat BY DEF IInv, TypeOK
  <2> QED BY <2>1, <2>2 DEF Waiting, InIncoming
<1> QED BY Inductive, <1>1, PTL

\* The application of a connection is handed every number below RCV.NXT once.
THEOREM DeliveredOnce == Spec => []ExactlyOnceInOrder
<1>1. IInv => ExactlyOnceInOrder
  <2> SUFFICES ASSUME IInv, NEW e \in Ep, InIncoming(e)
               PROVE  /\ got[e] = (tcb[e].irs + 1)..(tcb[e].rnxt - 1)
                      /\ handed[e] = Cardinality(got[e])
    BY DEF ExactlyOnceInOrder
  <2>1. /\ tcb[e].irs < tcb[e].rnxt
        /\ got[e] = (tcb[e].irs + 1)..(tcb[e].rnxt - 1)
        /\ handed[e] = tcb[e].rnxt - tcb[e].irs - 1
    BY DEF IInv, ReceiverInv, Receiver, InIncoming
  <2>2. tcb[e].irs \in Nat /\ tcb[e].rnxt \in Nat BY DEF IInv, TypeOK, TCB
  <2>3. Cardinality(got[e]) = IF tcb[e].irs + 1 > tcb[e].rnxt - 1 THEN 0
                              ELSE (tcb[e].rnxt - 1) - (tcb[e].irs + 1) + 1
    <3> DEFINE a == tcb[e].irs + 1
               b == tcb[e].rnxt - 1
    <3>1. a \in Int /\ b \in Int BY <2>2
    <3>2. got[e] = a..b BY <2>1
    <3> HIDE DEF a, b
    <3>3. Cardinality(got[e]) = IF a > b THEN 0 ELSE b - a + 1
      BY <3>1, <3>2, FS_Interval
    <3> QED BY <3>3 DEF a, b
  <2>4. Cardinality(got[e]) = tcb[e].rnxt - tcb[e].irs - 1
    BY <2>1, <2>2, <2>3
  <2> QED BY <2>1, <2>4
<1> QED BY Inductive, <1>1, PTL

=============================================================================
