-------------------------- MODULE TCP_states_proof --------------------------
(***************************************************************************)
(* More proofs about TCP: the states of a socket follow the diagram and    *)
(* its pointers only move forward.  What the handlers do to a socket that  *)
(* stays open is stated once, by Advance, from which TCPStream_proof also  *)
(* shows that TCP implements Stream.                                       *)
(***************************************************************************)
EXTENDS TCP_proof

\* This side has sent its FIN first.
Finished(s) == s.state \in {"FIN_WAIT_1", "FIN_WAIT_2", "CLOSING", "TIME_WAIT"}

\* A side closes when its application, of which l packets are left, has marked
\* the last packet, and after all it sent has been acknowledged.
Stage(s, l) ==
  /\ s.sock # "open" => s.state = "CLOSED"
  /\ s.state # "CLOSE_WAIT"
  /\ s.state = "SYN_SENT" => s.rnxt = 0
  /\ s.state \in Opening => ~s.isAPPClose
  /\ Finished(s) => s.isAPPClose /\ s.una = s.nxt
  /\ s.isAPPClose => l = 0

StageInv == \A e \in Ep : Stage(tcb[e], load[e])

\* A step of a socket from s to t.
Moves(s, t) ==
  /\ t.state # s.state => t.state = "CLOSED" \/ <<s.state, t.state>> \in Diagram
  /\ s.sock = "open" /\ t.sock = "open" =>
       s.una <= t.una /\ s.nxt <= t.nxt /\ s.rnxt <= t.rnxt
  /\ Finished(s) /\ t.sock = "open" => t.nxt = s.nxt

\* What device e may send when its socket goes from s to t, having received
\* the segments of M: what is queued, and replies.
Reply(e, s, t, M, x) ==
  /\ x.src = e
  /\ \/ x \in s.rtx \cup t.rtx
     \/ /\ x.kind = "ack" /\ t.state \in Incoming
        /\ \/ x.ackno = t.rnxt \/ t.state = "TIME_WAIT"
           \/ \E m \in M : Ack(m) /\ x.ackno = m.ackno /\ m.ackno > s.nxt
     \/ /\ x.kind = "finack"
        /\ \/ t.state \in {"CLOSING", "LAST_ACK"} /\ x.ackno = t.rnxt
           \/ t.state = "TIME_WAIT"
     \/ x.kind = "fin" /\ t.state \in {"FIN_WAIT_1", "LAST_ACK"}

\* What moves the pointers of the receiving side: nothing, the data that was
\* expected, or the SYN-ACK.
Receives(s, t, M) ==
  \/ t.irs = s.irs /\ t.rnxt = s.rnxt /\ (t.state \in Incoming => s.state \in Incoming)
  \/ /\ t.irs = s.irs /\ s.state \in Incoming
     /\ t.rnxt > s.rnxt /\ t.rnxt - 1 \in DataSeqs(s.ooo \cup M)
  \/ \E m \in M : /\ s.state = "SYN_SENT" /\ Syn(m)
                  /\ t.irs = m.seq /\ t.rnxt = m.seq + 1

\* The handler of an event of device e turns c into d, its socket open before
\* and after; M are the segments received, l the packets left to generate.
Advance(e, c, d, M, l) ==
  /\ c.s.sock = "open" /\ d.s.sock = "open" /\ d.s.iss = c.s.iss
  /\ Moves(c.s, d.s) /\ Stage(d.s, l)
  /\ d.s.state = c.s.state \/ d.s.state \in Incoming
  /\ d.s.state # c.s.state /\ d.s.state \in {"FIN_WAIT_2", "CLOSING", "LAST_ACK"} =>
       \E m \in M : Fin(m)
  /\ \A x \in d.s.rtx :
       x \in c.s.rtx \/ (x.kind = "data" /\ c.s.nxt <= x.seq /\ x.seq < d.s.nxt)
  /\ d.s.nxt + d.buf = c.s.nxt + c.buf
  /\ \/ d.s.una = c.s.una
     \/ /\ c.s.state \in {"SYN_SENT", "SYN_RECEIVED", "ESTABLISHED"}
        /\ \E m \in M : Ack(m) /\ d.s.una = m.ackno
  /\ Receives(c.s, d.s, M)
  /\ d.s.ooo \subseteq c.s.ooo \cup M
  /\ d.tw <= c.tw \/ d.s.state = "TIME_WAIT"
  /\ \A x \in d.out : Reply(e, c.s, d.s, M, x)

----------------------------------------------------------------------------
(* Lemmas about the helpers *)

\* d has sent the segments of X, and nothing else has changed.
Sends(c, d, X) ==
  d \in Contexts /\ d.s = c.s /\ d.buf = c.buf /\ d.tw = c.tw /\ d.out = c.out \cup X

\* The state is now st, and what the invariants are about is the same.
Turns(c, d, st) ==
  /\ d \in Contexts /\ d.buf = c.buf /\ d.out = c.out
  /\ d.s.state = st /\ SameFields(c.s, d.s) /\ d.s.isAPPClose = c.s.isAPPClose

\* What the senders send.
LEMMA SendsSegment ==
  ASSUME NEW c \in Contexts, NEW m \in Segment
  PROVE  Sends(c, send_to_network(c, m), {m})
BY DEF Sends, send_to_network, Contexts

LEMMA SendsReply ==
  ASSUME NEW e \in Ep, NEW c \in Contexts, NEW q \in Nat, NEW a \in Nat
  PROVE  /\ Sends(c, send_ack(e, c, q, a), {Seg(e, "ack", q, a)})
         /\ Sends(c, send_fin_ack(e, c, q, a), {Seg(e, "finack", q, a)})
BY SegType, SendsSegment DEF send_ack, send_fin_ack, Kind

LEMMA SendsFin ==
  ASSUME NEW e \in Ep, NEW c \in Contexts
  PROVE  \E q \in Nat : Sends(c, send_fin(e, c), {Seg(e, "fin", q, 0)})
<1> DEFINE q == IF c.s.iss + 1 = c.s.nxt THEN c.s.nxt + 1 ELSE c.s.nxt
<1>1. q \in Nat BY ContextFields
<1>2. send_fin(e, c) = send_to_network(c, Seg(e, "fin", q, 0)) BY DEF send_fin
<1> HIDE DEF q
<1>3. Seg(e, "fin", q, 0) \in Segment BY <1>1, SegType DEF Kind
<1> QED BY <1>1, <1>2, <1>3, SendsSegment

LEMMA TurnsState ==
  ASSUME NEW c \in Contexts, NEW st \in State
  PROVE  /\ Turns(c, tcp_change_state(c, st), st)
         /\ tcp_change_state(c, st).tw = c.tw
<1> DEFINE d == tcp_change_state(c, st)
<1>1. d \in Contexts /\ d.buf = c.buf /\ d.s.state = st /\ SameFields(c.s, d.s)
  BY ChangeState
<1>2. d.out = c.out /\ d.tw = c.tw /\ d.s.isAPPClose = c.s.isAPPClose
  <2>1. CASE c.s.state = st BY <2>1 DEF tcp_change_state
  <2>2. CASE c.s.state # st BY <2>2 DEF tcp_change_state, Contexts, TCB
  <2> QED BY <2>1, <2>2
<1> QED BY <1>1, <1>2 DEF Turns

LEMMA TurnsTimer ==
  ASSUME NEW c \in Contexts
  PROVE  Turns(c, start_timewait_timer(c), c.s.state)
<1> DEFINE d == start_timewait_timer(c)
<1>1. d \in Contexts /\ d.buf = c.buf /\ d.s.state = c.s.state /\ SameFields(c.s, d.s)
  BY TimeWait
<1>2. d.out = c.out /\ d.s.isAPPClose = c.s.isAPPClose
  BY ContextFields DEF start_timewait_timer, Contexts, TCB
<1> QED BY <1>1, <1>2 DEF Turns

----------------------------------------------------------------------------
(* send_segment *)

\* What send_segment does to c; una and the queue may have been updated by an
\* ACK before, so that the queue is compared with q.
Transmits(e, c, d, q, left) ==
  /\ d \in Contexts /\ d.s.sock = c.s.sock /\ d.s.iss = c.s.iss
  /\ d.s.irs = c.s.irs /\ d.s.rnxt = c.s.rnxt /\ d.s.ooo = c.s.ooo /\ d.tw = c.tw
  /\ c.s.nxt <= d.s.nxt /\ d.s.nxt + d.buf = c.s.nxt + c.buf
  /\ \A x \in d.s.rtx :
       \/ x \in q
       \/ x.src = e /\ x.kind = "data" /\ c.s.nxt <= x.seq /\ x.seq < d.s.nxt
  /\ \A x \in d.out :
       \/ x \in c.out \cup q \cup d.s.rtx
       \/ x.src = e /\ x.kind = "fin" /\ d.s.state = "FIN_WAIT_1"
  /\ \/ d.s.state = c.s.state
     \/ /\ d.s.state = "FIN_WAIT_1" /\ d.s.rtx = {}
        /\ d.s.nxt = c.s.nxt /\ c.s.isAPPClose
  /\ d.s.isAPPClose => c.s.isAPPClose \/ left = 0
  /\ c.s.isAPPClose => d.s.isAPPClose

\* tcp_close sends a FIN once the queue is empty.
LEMMA CloseSends ==
  ASSUME NEW e \in Ep, NEW c \in Contexts
  PROVE  LET d == tcp_close(e, c)
         IN  \/ d = c
             \/ \E q \in Nat :
                  /\ d \in Contexts /\ d.buf = c.buf /\ d.tw = c.tw
                  /\ d.out = c.out \cup {Seg(e, "fin", q, 0)}
                  /\ SameFields(c.s, d.s) /\ d.s.isAPPClose = c.s.isAPPClose
                  /\ d.s.state = "FIN_WAIT_1" /\ d.s.rtx = {}
<1>1. CASE c.s.rtx # {} BY <1>1 DEF tcp_close
<1>2. CASE c.s.rtx = {}
  <2> DEFINE f == send_fin(e, c)
             d == tcp_change_state(f, "FIN_WAIT_1")
  <2>1. PICK q \in Nat : Sends(c, f, {Seg(e, "fin", q, 0)}) BY SendsFin
  <2>2. tcp_close(e, c) = d BY <1>2 DEF tcp_close
  <2> HIDE DEF f
  <2>3. Turns(f, d, "FIN_WAIT_1") /\ d.tw = f.tw
    BY <2>1, TurnsState DEF Sends, State
  <2> HIDE DEF d
  <2> QED BY <1>2, <2>1, <2>2, <2>3 DEF Sends, Turns, SameFields
<1> QED BY <1>1, <1>2

\* The new data, and what it does to the fields.
LEMMA SentFields ==
  ASSUME NEW e \in Ep, NEW c \in Contexts, NEW w \in Windows, NEW last \in BOOLEAN
  PROVE  LET d == Sent(e, c, w, last)
         IN  /\ d \in Contexts /\ d.s.sock = c.s.sock /\ d.s.iss = c.s.iss
             /\ d.s.irs = c.s.irs /\ d.s.rnxt = c.s.rnxt /\ d.s.ooo = c.s.ooo
             /\ d.s.una = c.s.una /\ d.tw = c.tw /\ d.s.state = c.s.state
             /\ d.s.nxt = c.s.nxt + Fits(c, w) /\ d.buf = c.buf - Fits(c, w)
             /\ d.s.rtx = c.s.rtx \cup NewData(e, c, w)
             /\ d.out = c.out \cup NewData(e, c, w)
             /\ d.s.isAPPClose = (c.s.isAPPClose \/ last)
<1> DEFINE n   == Fits(c, w)
           new == NewData(e, c, w)
           wf  == c.s.waitFromApp \/ c.buf = 0
           ap  == c.s.isAPPClose \/ last
           nx  == c.s.nxt + n
           b   == c.buf - n
           rtx == c.s.rtx \cup new
           t   == [c.s EXCEPT !.waitFromApp = wf, !.isAPPClose = ap,
                              !.nxt = nx, !.rtx = rtx]
           d   == [c EXCEPT !.s = t, !.buf = b, !.out = @ \cup new,
                            !.arm = @ \cup new]
<1>1. w \in Nat BY BoundAssumption DEF Windows
<1>2. n \in Nat /\ n <= c.buf BY <1>1, Room
<1>3. /\ c.s \in TCB /\ c.buf \in Nat /\ c.s.nxt \in Nat /\ c.s.rtx \subseteq Segment
      /\ c.out \subseteq Segment /\ c.arm \subseteq Segment
  BY ContextFields
<1>4. nx \in Nat /\ b \in Nat BY <1>2, <1>3
<1>5. new \subseteq Segment
  BY <1>2, <1>3 DEF NewData, Seg, Segment, Kind
<1>6. Sent(e, c, w, last) = d
  <2> HIDE DEF new, n
  <2> QED BY <1>3, ZenonT(20) DEF Contexts, TCB, Sent, n, new
<1>7. wf \in BOOLEAN /\ ap \in BOOLEAN /\ rtx \subseteq Segment
  BY <1>3, <1>5 DEF TCB
<1> HIDE DEF n, new, wf, ap, nx, b, rtx
<1>8. /\ t \in TCB /\ t.sock = c.s.sock /\ t.iss = c.s.iss /\ t.irs = c.s.irs
      /\ t.rnxt = c.s.rnxt /\ t.ooo = c.s.ooo /\ t.una = c.s.una
      /\ t.state = c.s.state /\ t.nxt = nx /\ t.rtx = rtx /\ t.isAPPClose = ap
  BY <1>3, <1>4, <1>7 DEF TCB
<1> HIDE DEF t
<1>9. /\ d \in Contexts /\ d.s = t /\ d.buf = b /\ d.tw = c.tw
      /\ d.out = c.out \cup new
  BY <1>3, <1>4, <1>5, <1>8 DEF Contexts
<1> HIDE DEF d
<1> QED BY <1>6, <1>8, <1>9 DEF n, new, ap, nx, b, rtx

\* The data that is new.
LEMMA NewDataSegs ==
  ASSUME NEW e \in Ep, NEW c \in Contexts, NEW w \in Windows
  PROVE  /\ Fits(c, w) \in Nat /\ Fits(c, w) <= c.buf
         /\ \A x \in NewData(e, c, w) :
              /\ x.src = e /\ x.kind = "data"
              /\ c.s.nxt <= x.seq /\ x.seq < c.s.nxt + Fits(c, w)
         /\ Fits(c, w) > 0 => NewData(e, c, w) # {}
<1>1. w \in Nat BY BoundAssumption DEF Windows
<1>2. Fits(c, w) \in Nat /\ Fits(c, w) <= c.buf BY <1>1, Room
<1> DEFINE n == Fits(c, w)
<1>3. NewData(e, c, w) = {Seg(e, "data", q, 0) : q \in c.s.nxt .. c.s.nxt + n - 1}
  BY DEF NewData
<1>4. n \in Nat /\ c.s.nxt \in Nat BY <1>2, ContextFields
<1> HIDE DEF n
<1>5. \A x \in NewData(e, c, w) :
        /\ x.src = e /\ x.kind = "data" /\ c.s.nxt <= x.seq /\ x.seq < c.s.nxt + n
  BY <1>3, <1>4 DEF Seg
<1>6. n > 0 => c.s.nxt \in c.s.nxt .. c.s.nxt + n - 1 BY <1>4
<1> QED BY <1>2, <1>3, <1>5, <1>6 DEF n

\* send_segment as a whole.
LEMMA SegmentSent ==
  ASSUME NEW e \in Ep, NEW c \in Contexts, NEW w \in Windows, NEW left
  PROVE  /\ Transmits(e, c, send_segment(e, c, w, left), c.s.rtx, left)
         /\ send_segment(e, c, w, left).s.una = c.s.una
<1> DEFINE n    == Fits(c, w)
           last == EndFlag[e] /\ n > 0 /\ n = c.buf /\ left = 0
           d    == Sent(e, c, w, last)
           f    == IF d.s.isAPPClose THEN tcp_close(e, d) ELSE d
<1>1. last \in BOOLEAN /\ (last => n > 0 /\ left = 0) BY EpAssumption
<1>2. send_segment(e, c, w, left) = f BY DEF send_segment, Sent, NewData
<1> HIDE DEF last
<1>3. /\ d \in Contexts /\ d.s.sock = c.s.sock /\ d.s.iss = c.s.iss
      /\ d.s.irs = c.s.irs /\ d.s.rnxt = c.s.rnxt /\ d.s.ooo = c.s.ooo
      /\ d.s.una = c.s.una /\ d.tw = c.tw /\ d.s.state = c.s.state
      /\ d.s.nxt = c.s.nxt + n /\ d.buf = c.buf - n
      /\ d.s.rtx = c.s.rtx \cup NewData(e, c, w)
      /\ d.out = c.out \cup NewData(e, c, w)
      /\ d.s.isAPPClose = (c.s.isAPPClose \/ last)
  BY <1>1, SentFields
<1> HIDE DEF d
<1>4. /\ n \in Nat
      /\ \A x \in NewData(e, c, w) :
           x.src = e /\ x.kind = "data" /\ c.s.nxt <= x.seq /\ x.seq < c.s.nxt + n
      /\ n > 0 => NewData(e, c, w) # {}
  BY NewDataSegs
<1> HIDE DEF n
<1>5. c.s.nxt \in Nat /\ c.buf \in Nat BY ContextFields
<1>6. /\ c.s.nxt <= d.s.nxt /\ d.s.nxt + d.buf = c.s.nxt + c.buf
      /\ (n = 0 => d.s.nxt = c.s.nxt)
  BY <1>3, <1>4, <1>5
<1>7. \A x \in d.s.rtx :
        \/ x \in c.s.rtx
        \/ x.src = e /\ x.kind = "data" /\ c.s.nxt <= x.seq /\ x.seq < d.s.nxt
  BY <1>3, <1>4
<1>8. d.s.isAPPClose => c.s.isAPPClose \/ left = 0 BY <1>1, <1>3
<1>9. CASE f = d
  BY <1>2, <1>3, <1>6, <1>7, <1>8, <1>9 DEF Transmits
<1>10. CASE f # d
  <2>1. d.s.isAPPClose /\ f = tcp_close(e, d) BY <1>10
  <2> HIDE DEF f
  <2>2. PICK q \in Nat :
          /\ f \in Contexts /\ f.buf = d.buf /\ f.tw = d.tw
          /\ f.out = d.out \cup {Seg(e, "fin", q, 0)}
          /\ SameFields(d.s, f.s) /\ f.s.isAPPClose = d.s.isAPPClose
          /\ f.s.state = "FIN_WAIT_1" /\ f.s.rtx = {}
    BY <1>3, <1>10, <2>1, CloseSends
  <2>3. n = 0
    BY <1>3, <1>4, <2>2 DEF SameFields
  <2>4. c.s.isAPPClose BY <1>1, <1>3, <1>4, <2>1, <2>3
  <2>5. /\ f.s.sock = c.s.sock /\ f.s.iss = c.s.iss
        /\ f.s.irs = c.s.irs /\ f.s.rnxt = c.s.rnxt /\ f.s.ooo = c.s.ooo
        /\ f.s.una = c.s.una /\ f.tw = c.tw /\ f.s.nxt = c.s.nxt
        /\ f.s.nxt + f.buf = c.s.nxt + c.buf
    BY <1>3, <1>6, <2>2, <2>3 DEF SameFields
  <2>6. \A x \in f.out :
          x \in c.out \cup c.s.rtx \/ (x.src = e /\ x.kind = "fin")
    <3>1. d.out = c.out BY <1>3, <2>2 DEF SameFields
    <3> QED BY <2>2, <3>1 DEF Seg
  <2> QED BY <1>2, <1>5, <2>1, <2>2, <2>4, <2>5, <2>6 DEF Transmits
<1> QED BY <1>9, <1>10

----------------------------------------------------------------------------
(* ACKs *)

\* An ACK of new data moves una and transmits, any other one only sends.
LEMMA AckTransmits ==
  ASSUME NEW e \in Ep, NEW c \in Contexts, Sender(e, c), c.s.state \notin Opening,
         NEW m \in Segment, NEW fast \in BOOLEAN, NEW w \in Windows, NEW left
  PROVE  LET d == AckEstablished(e, c, m, fast, w, left)
         IN  \/ /\ c.s.una < m.ackno /\ m.ackno <= c.s.nxt
                /\ d.s.una = m.ackno /\ Transmits(e, c, d, c.s.rtx, left)
             \/ /\ ~(c.s.una < m.ackno /\ m.ackno <= c.s.nxt)
                /\ d \in Contexts /\ d.s = c.s /\ d.buf = c.buf /\ d.tw = c.tw
                /\ \A x \in d.out :
                     \/ x \in c.out \cup c.s.rtx
                     \/ m.ackno > c.s.nxt /\ x = Seg(e, "ack", m.seq, m.ackno)
<1> DEFINE segs == {x \in c.s.rtx : fast /\ x.seq = m.ackno}
           f == Resent(c, fast, m.ackno)
           g == [f EXCEPT !.s.una = m.ackno,
                          !.s.rtx = delete_segment_from_queue(@, m.ackno)]
           h == send_ack(e, f, m.seq, m.ackno)
           d == AckEstablished(e, c, m, fast, w, left)
<1>1. m.seq \in Nat /\ m.ackno \in Nat BY DEF Segment
<1>2. c.s.una \in Nat /\ c.s.nxt \in Nat /\ c.s \in TCB BY ContextFields
<1>3. f \in Contexts /\ f.s = c.s /\ f.buf = c.buf /\ f.tw = c.tw
        /\ f.out = c.out \cup segs
  <2>1. f \in Contexts /\ f.s = c.s /\ f.buf = c.buf BY FastResend
  <2>2. f.out = c.out \cup segs /\ f.tw = c.tw BY DEF Resent, Contexts
  <2> QED BY <2>1, <2>2
<1>4. segs \subseteq c.s.rtx OBVIOUS
<1>5. CASE c.s.una < m.ackno /\ m.ackno <= c.s.nxt
  <2>1. d = send_segment(e, g, w, left) BY <1>5 DEF AckEstablished, Resent
  <2> DEFINE q == delete_segment_from_queue(c.s.rtx, m.ackno)
             t == [f.s EXCEPT !.una = m.ackno, !.rtx = q]
  <2>2. q \subseteq c.s.rtx
    BY <1>1, <1>2, <1>5, DeleteFromQueue DEF Sender
  <2>3. g = [f EXCEPT !.s = t] BY <1>3 DEF Contexts, TCB
  <2> HIDE DEF g, f, segs, d, q
  <2>4. /\ t \in TCB /\ t.una = m.ackno /\ t.rtx = q /\ t.sock = c.s.sock
        /\ t.iss = c.s.iss /\ t.irs = c.s.irs /\ t.rnxt = c.s.rnxt
        /\ t.ooo = c.s.ooo /\ t.nxt = c.s.nxt /\ t.state = c.s.state
        /\ t.isAPPClose = c.s.isAPPClose
    <3>1. q \subseteq Segment /\ f.s \in TCB BY <1>2, <1>3, <2>2 DEF TCB
    <3> QED BY <1>1, <1>3, <3>1 DEF TCB
  <2> HIDE DEF t
  <2>5. g \in Contexts /\ g.s = t /\ g.buf = c.buf /\ g.tw = c.tw
          /\ g.out = c.out \cup segs
    BY <1>3, <2>3, <2>4 DEF Contexts
  <2>6. Transmits(e, g, d, g.s.rtx, left) /\ d.s.una = g.s.una
    BY <2>1, <2>5, SegmentSent
  <2>7. Transmits(e, c, d, c.s.rtx, left)
    BY <1>4, <2>2, <2>4, <2>5, <2>6, SMTT(20) DEF Transmits
  <2> QED BY <1>5, <2>4, <2>5, <2>6, <2>7 DEF d
<1>6. CASE m.ackno <= c.s.una
  <2>1. d = f BY <1>1, <1>2, <1>6 DEF AckEstablished, Resent
  <2> QED BY <1>1, <1>2, <1>3, <1>4, <1>6, <2>1
<1>7. CASE m.ackno > c.s.nxt
  <2>1. ~(m.ackno <= c.s.una)
    BY <1>1, <1>2, <1>7 DEF Sender, Queue
  <2>2. d = h BY <1>1, <1>2, <1>7, <2>1 DEF AckEstablished, Resent
  <2> HIDE DEF f, d
  <2>3. Sends(f, h, {Seg(e, "ack", m.seq, m.ackno)}) BY <1>1, <1>3, SendsReply
  <2> QED BY <1>1, <1>2, <1>3, <1>4, <1>7, <2>2, <2>3 DEF Sends, d
<1> QED BY <1>1, <1>2, <1>5, <1>6, <1>7

\* A transmission of an established connection, or of one that has just become
\* established, is an advance.
LEMMA TransmitAdvances ==
  ASSUME NEW e \in Ep, NEW c \in Contexts, NEW x \in Contexts, NEW d, NEW M, NEW l,
         Turns(c, x, x.s.state), x.tw = c.tw, c.out = {}, c.s.sock = "open",
         \/ c.s.state = x.s.state /\ x.s.state \in {"ESTABLISHED", "LAST_ACK"}
         \/ c.s.state = "SYN_RECEIVED" /\ x.s.state = "ESTABLISHED",
         Queue(e, c.s), Stage(c.s, l), Queue(e, d.s),
         Transmits(e, x, d, x.s.rtx, l),
         c.s.state = "LAST_ACK" => d.s.state = "LAST_ACK",
         \/ d.s.una = c.s.una
         \/ /\ c.s.state \in {"SYN_RECEIVED", "ESTABLISHED"}
            /\ c.s.una <= d.s.una /\ \E m \in M : Ack(m) /\ d.s.una = m.ackno
  PROVE  Advance(e, c, d, M, l)
<1>1. /\ x.s.sock = c.s.sock /\ x.s.iss = c.s.iss /\ x.s.irs = c.s.irs
      /\ x.s.una = c.s.una /\ x.s.nxt = c.s.nxt /\ x.s.rnxt = c.s.rnxt
      /\ x.s.rtx = c.s.rtx /\ x.s.ooo = c.s.ooo
      /\ x.s.isAPPClose = c.s.isAPPClose /\ x.buf = c.buf /\ x.out = {}
  BY DEF Turns, SameFields
<1>2. d \in Contexts /\ d.s \in TCB /\ d.s.una \in Nat /\ d.s.nxt \in Nat
        /\ d.s.rnxt \in Nat /\ c.s.una \in Nat /\ c.s.nxt \in Nat
  <2>1. d \in Contexts BY DEF Transmits
  <2> QED BY <2>1, ContextFields
<1>3. \/ d.s.state = x.s.state
      \/ /\ d.s.state = "FIN_WAIT_1" /\ c.s.state = "ESTABLISHED"
         /\ d.s.rtx = {} /\ d.s.isAPPClose
  BY <1>1 DEF Transmits, Stage, Opening
<1>4. Moves(c.s, d.s)
  BY <1>1, <1>2, <1>3 DEF Transmits, Moves, Diagram, Finished
<1>5. Stage(d.s, l)
  <2>1. d.s.rtx = {} => d.s.una = d.s.nxt BY <1>2, EmptyQueue
  <2> QED BY <1>1, <1>3, <2>1 DEF Transmits, Stage, Opening, Finished
<1>6. Receives(c.s, d.s, M) BY <1>1 DEF Transmits, Receives, Incoming, State
<1>7. \A y \in d.out : Reply(e, c.s, d.s, M, y)
  <2> SUFFICES ASSUME NEW y \in d.out PROVE Reply(e, c.s, d.s, M, y)
    OBVIOUS
  <2>1. y \in c.s.rtx \cup d.s.rtx \/ (y.src = e /\ y.kind = "fin" /\ d.s.state = "FIN_WAIT_1")
    BY <1>1 DEF Transmits
  <2>2. \A z \in c.s.rtx \cup d.s.rtx : z.src = e BY DEF Queue
  <2> QED BY <2>1, <2>2 DEF Reply
<1>8. d.s.state \in Incoming BY <1>3 DEF Incoming, State
<1>9. d.tw <= c.tw BY ContextFields DEF Transmits
<1> QED
  BY <1>1, <1>2, <1>3, <1>4, <1>5, <1>6, <1>7, <1>8, <1>9 DEF Transmits, Advance

\* The transitions of a connection that is being closed.
Shuts ==
  {<<"SYN_RECEIVED", "LAST_ACK">>, <<"ESTABLISHED", "LAST_ACK">>,
   <<"FIN_WAIT_1", "FIN_WAIT_2">>, <<"FIN_WAIT_1", "CLOSING">>,
   <<"FIN_WAIT_2", "TIME_WAIT">>, <<"CLOSING", "TIME_WAIT">>}

\* A handler that leaves the sending side alone advances.
LEMMA ReceiveAdvances ==
  ASSUME NEW e \in Ep, NEW c \in Contexts, NEW p \in Contexts, NEW M, NEW l,
         c.s.sock = "open", p.s.sock = "open", Stage(c.s, l),
         p.s.iss = c.s.iss, p.s.una = c.s.una, p.s.nxt = c.s.nxt, p.s.rtx = c.s.rtx,
         p.s.isAPPClose = c.s.isAPPClose, p.buf = c.buf,
         Receives(c.s, p.s, M), c.s.rnxt <= p.s.rnxt, p.s.ooo \subseteq c.s.ooo \cup M,
         p.s.state = "SYN_SENT" => p.s.rnxt = c.s.rnxt,
         \/ p.s.state = c.s.state
         \/ /\ <<c.s.state, p.s.state>> \in Shuts
            /\ p.s.state # "TIME_WAIT" => \E m \in M : Fin(m),
         p.tw <= c.tw \/ p.s.state = "TIME_WAIT",
         \A x \in p.out : Reply(e, c.s, p.s, M, x)
  PROVE  Advance(e, c, p, M, l)
<1>1. /\ c.s.una \in Nat /\ c.s.nxt \in Nat /\ p.s.una \in Nat /\ p.s.nxt \in Nat
  BY ContextFields
<1>2. Moves(c.s, p.s) BY <1>1 DEF Moves, Shuts, Diagram
<1>3. Stage(p.s, l) BY DEF Stage, Shuts, Opening, Finished
<1>4. p.s.state = c.s.state \/ p.s.state \in Incoming BY DEF Shuts, Incoming, State
<1>5. p.s.state # c.s.state /\ p.s.state \in {"FIN_WAIT_2", "CLOSING", "LAST_ACK"} =>
        \E m \in M : Fin(m)
  OBVIOUS
<1> QED BY <1>2, <1>3, <1>4, <1>5 DEF Advance

\* A handler that changes nothing but what it sends, the socket being open.
LEMMA StillAdvances ==
  ASSUME NEW e \in Ep, NEW c \in Contexts, NEW p \in Contexts, NEW M, NEW l,
         c.s.sock = "open", Stage(c.s, l), SameFields(c.s, p.s),
         p.s.isAPPClose = c.s.isAPPClose, p.buf = c.buf,
         \/ p.s.state = c.s.state
         \/ /\ <<c.s.state, p.s.state>> \in Shuts
            /\ p.s.state # "TIME_WAIT" => \E m \in M : Fin(m),
         p.tw <= c.tw \/ p.s.state = "TIME_WAIT",
         \A x \in p.out : Reply(e, c.s, p.s, M, x)
  PROVE  Advance(e, c, p, M, l)
<1>1. /\ p.s.sock = "open" /\ p.s.iss = c.s.iss /\ p.s.una = c.s.una
      /\ p.s.nxt = c.s.nxt /\ p.s.rtx = c.s.rtx /\ p.s.irs = c.s.irs
      /\ p.s.rnxt = c.s.rnxt /\ p.s.ooo = c.s.ooo
  BY DEF SameFields
<1>2. c.s.rnxt \in Nat BY ContextFields
<1>3. Receives(c.s, p.s, M) BY <1>1 DEF Receives, Shuts, Incoming, State
<1> QED BY <1>1, <1>2, <1>3, ReceiveAdvances

\* process_ack_packet advances.
LEMMA AckAdvances ==
  ASSUME NEW e \in Ep, NEW c \in Contexts, Sender(e, c), NEW l, Stage(c.s, l),
         c.s.sock = "open", c.out = {},
         c.s.state \in {"ESTABLISHED", "FIN_WAIT_1", "FIN_WAIT_2", "CLOSE_WAIT", "CLOSING"},
         NEW m \in Segment, m.kind \in {"ack", "finack"},
         NEW fast \in BOOLEAN, NEW w \in Windows
  PROVE  Advance(e, c, process_ack_packet(e, c, m, fast, w, l), {m}, l)
<1> DEFINE d == AckEstablished(e, c, m, fast, w, l)
           t == start_timewait_timer(d)
           p == process_ack_packet(e, c, m, fast, w, l)
<1>1. /\ m.seq \in Nat /\ m.ackno \in Nat /\ Ack(m) BY DEF Segment, Ack
<1>2. /\ c.s.una \in Nat /\ c.s.nxt \in Nat /\ c.tw \in Nat /\ c.s.rnxt \in Nat
  BY ContextFields
<1>3. c.s.state \notin Opening /\ c.s.state \in Sending /\ ~c.s.dangling
  BY DEF Sending, Opening, State, Sender, Handshake
<1>4. Handles(e, c, d) BY <1>3, Acknowledge
<1>5. /\ p = d \/ c.s.state \in {"FIN_WAIT_1", "CLOSING"}
      /\ \/ p = d
         \/ Fin(m) /\ c.s.state = "FIN_WAIT_1" /\ p = tcp_change_state(d, "FIN_WAIT_2")
         \/ c.s.state = "CLOSING" /\ p = tcp_change_state(t, "TIME_WAIT")
  BY DEF process_ack_packet
<1>6. \/ /\ c.s.una < m.ackno /\ m.ackno <= c.s.nxt
         /\ d.s.una = m.ackno /\ Transmits(e, c, d, c.s.rtx, l)
      \/ /\ d \in Contexts /\ d.s = c.s /\ d.buf = c.buf /\ d.tw = c.tw
         /\ \A x \in d.out :
              \/ x \in c.out \cup c.s.rtx
              \/ m.ackno > c.s.nxt /\ x = Seg(e, "ack", m.seq, m.ackno)
  BY <1>3, AckTransmits
<1> HIDE DEF d, p
<1>7. CASE /\ c.s.una < m.ackno /\ m.ackno <= c.s.nxt
           /\ d.s.una = m.ackno /\ Transmits(e, c, d, c.s.rtx, l)
  <2>1. c.s.state = "ESTABLISHED" BY <1>1, <1>2, <1>7 DEF Stage, Finished
  <2>2. p = d BY <1>5, <2>1
  <2>3. Turns(c, c, c.s.state) BY DEF Turns, SameFields
  <2>4. Queue(e, c.s) /\ Queue(e, d.s) BY <1>4 DEF Handles, Sender
  <2>5. \E y \in {m} : Ack(y) /\ d.s.una = y.ackno BY <1>1, <1>7
  <2>6. c.s.una <= d.s.una BY <1>1, <1>2, <1>7
  <2>7. Advance(e, c, d, {m}, l)
    BY <1>7, <2>1, <2>3, <2>4, <2>5, <2>6, TransmitAdvances
  <2> QED BY <2>2, <2>7 DEF p
<1>8. CASE /\ d \in Contexts /\ d.s = c.s /\ d.buf = c.buf /\ d.tw = c.tw
           /\ \A x \in d.out :
                \/ x \in c.out \cup c.s.rtx
                \/ m.ackno > c.s.nxt /\ x = Seg(e, "ack", m.seq, m.ackno)
  <2>1. t \in Contexts /\ Turns(d, t, d.s.state) BY <1>8, TurnsTimer DEF Turns
  <2> HIDE DEF t
  <2>2. /\ p \in Contexts /\ SameFields(c.s, p.s) /\ p.s.isAPPClose = c.s.isAPPClose
        /\ p.buf = c.buf /\ p.out = d.out
        /\ p.s.state = "TIME_WAIT" \/ p.tw = c.tw
        /\ \/ p.s.state = c.s.state
           \/ Fin(m) /\ c.s.state = "FIN_WAIT_1" /\ p.s.state = "FIN_WAIT_2"
           \/ c.s.state = "CLOSING" /\ p.s.state = "TIME_WAIT"
    <3>1. CASE p = d BY <1>8, <3>1 DEF SameFields
    <3>2. CASE Fin(m) /\ c.s.state = "FIN_WAIT_1" /\ p = tcp_change_state(d, "FIN_WAIT_2")
      <4>1. Turns(d, p, "FIN_WAIT_2") /\ p.tw = d.tw
        BY <1>8, <3>2, TurnsState DEF State
      <4> QED BY <1>8, <3>2, <4>1 DEF Turns, SameFields
    <3>3. CASE c.s.state = "CLOSING" /\ p = tcp_change_state(t, "TIME_WAIT")
      <4>1. Turns(t, p, "TIME_WAIT") BY <2>1, <3>3, TurnsState DEF State
      <4> QED BY <1>8, <2>1, <3>3, <4>1 DEF Turns, SameFields
    <3> QED BY <1>5, <3>1, <3>2, <3>3
  <2>3. p.s.state \in Incoming BY <2>2 DEF Incoming, State
  <2>4. p.tw <= c.tw \/ p.s.state = "TIME_WAIT" BY <1>2, <2>2
  <2>5. \/ p.s.state = c.s.state
        \/ /\ <<c.s.state, p.s.state>> \in Shuts
           /\ p.s.state # "TIME_WAIT" => \E y \in {m} : Fin(y)
    BY <2>2 DEF Shuts
  <2>6. ASSUME NEW x \in p.out PROVE Reply(e, c.s, p.s, {m}, x)
    <3>1. x \in c.s.rtx \/ (m.ackno > c.s.nxt /\ x = Seg(e, "ack", m.seq, m.ackno))
      BY <1>8, <2>2
    <3>2. \A z \in c.s.rtx : z.src = e BY DEF Sender, Queue
    <3>3. CASE x \in c.s.rtx BY <3>2, <3>3 DEF Reply
    <3>4. CASE m.ackno > c.s.nxt /\ x = Seg(e, "ack", m.seq, m.ackno)
      <4>1. x.src = e /\ x.kind = "ack" /\ x.ackno = m.ackno BY <3>4 DEF Seg
      <4> QED BY <1>1, <2>3, <3>4, <4>1 DEF Reply
    <3> QED BY <3>1, <3>3, <3>4
  <2>7. Advance(e, c, p, {m}, l) BY <2>2, <2>4, <2>5, <2>6, StillAdvances
  <2> QED BY <2>7 DEF p
<1> QED BY <1>6, <1>7, <1>8

----------------------------------------------------------------------------
(* FINs *)

\* process_fin_packet changes the state, and answers.
LEMMA FinTurns ==
  ASSUME NEW e \in Ep, NEW c \in Contexts, NEW m \in Segment
  PROVE  LET p == process_fin_packet(e, c, m)
         IN  /\ p \in Contexts /\ SameFields(c.s, p.s) /\ p.buf = c.buf
             /\ p.s.isAPPClose = c.s.isAPPClose
             /\ p.s.state = c.s.state \/ <<c.s.state, p.s.state>> \in Shuts
             /\ p.tw = c.tw \/ p.s.state = "TIME_WAIT"
             /\ \A x \in p.out :
                  \/ x \in c.out
                  \/ /\ x.src = e
                     /\ \/ /\ x.kind = "finack" /\ x.ackno = c.s.rnxt
                           /\ p.s.state \in {"CLOSING", "LAST_ACK"}
                        \/ x.kind = "fin" /\ p.s.state = "LAST_ACK"
                        \/ x.kind = "ack" /\ p.s.state = "TIME_WAIT"
<1> DEFINE d == send_fin_ack(e, c, c.s.nxt, c.s.rnxt)
           p == process_fin_packet(e, c, m)
<1>1. m.seq + 1 \in Nat /\ c.s.nxt + 1 \in Nat /\ c.s.nxt \in Nat /\ c.s.rnxt \in Nat
  BY ContextFields DEF Segment
<1>2. Sends(c, d, {Seg(e, "finack", c.s.nxt, c.s.rnxt)}) BY <1>1, SendsReply
<1> HIDE DEF d
<1>3. CASE c.s.state \in {"SYN_RECEIVED", "ESTABLISHED"}
  <2> DEFINE x == tcp_change_state(d, "CLOSE_WAIT")
             y == send_fin(e, x)
             z == tcp_change_state(y, "LAST_ACK")
             r == [z EXCEPT !.s.cancel = TRUE]
  <2>1. p = r BY <1>3 DEF process_fin_packet, d
  <2> HIDE DEF p
  <2>2. Turns(d, x, "CLOSE_WAIT") /\ x.tw = d.tw BY <1>2, TurnsState DEF State, Sends
  <2> HIDE DEF x
  <2>3. PICK q \in Nat : Sends(x, y, {Seg(e, "fin", q, 0)}) BY <2>2, SendsFin DEF Turns
  <2> HIDE DEF y
  <2>4. Turns(y, z, "LAST_ACK") /\ z.tw = y.tw BY <2>3, TurnsState DEF State, Sends
  <2> HIDE DEF z
  <2>5. /\ r \in Contexts /\ r.buf = z.buf /\ r.out = z.out /\ r.tw = z.tw
        /\ SameFields(z.s, r.s) /\ r.s.state = z.s.state
        /\ r.s.isAPPClose = z.s.isAPPClose
    BY <2>4 DEF Turns, Contexts, TCB, SameFields
  <2> HIDE DEF r
  <2>6. /\ SameFields(c.s, r.s) /\ r.buf = c.buf /\ r.tw = c.tw
        /\ r.s.state = "LAST_ACK" /\ r.s.isAPPClose = c.s.isAPPClose
        /\ r.out = (c.out \cup {Seg(e, "finack", c.s.nxt, c.s.rnxt)})
                     \cup {Seg(e, "fin", q, 0)}
    BY <1>2, <2>2, <2>3, <2>4, <2>5, SMTT(20) DEF Sends, Turns, SameFields
  <2>7. <<c.s.state, r.s.state>> \in Shuts BY <1>3, <2>6 DEF Shuts
  <2> QED BY <2>1, <2>5, <2>6, <2>7 DEF Seg, p
<1>4. CASE c.s.state = "FIN_WAIT_1"
  <2>1. p = tcp_change_state(d, "CLOSING") BY <1>4 DEF process_fin_packet, d
  <2> HIDE DEF p
  <2>2. Turns(d, p, "CLOSING") /\ p.tw = d.tw BY <1>2, <2>1, TurnsState DEF State, Sends
  <2>3. /\ SameFields(c.s, p.s) /\ p.buf = c.buf /\ p.tw = c.tw
        /\ p.s.state = "CLOSING" /\ p.s.isAPPClose = c.s.isAPPClose
        /\ p.out = c.out \cup {Seg(e, "finack", c.s.nxt, c.s.rnxt)}
    BY <1>2, <2>2 DEF Sends, Turns, SameFields
  <2>4. <<c.s.state, p.s.state>> \in Shuts BY <1>4, <2>3 DEF Shuts
  <2> QED BY <2>2, <2>3, <2>4 DEF Seg, p, Turns
<1>5. CASE c.s.state = "FIN_WAIT_2"
  <2> DEFINE x == tcp_change_state(c, "TIME_WAIT")
             y == start_timewait_timer(x)
             b == Seg(e, "ack", c.s.nxt + 1, m.seq + 1)
  <2>1. p = send_ack(e, y, c.s.nxt + 1, m.seq + 1) BY <1>5 DEF process_fin_packet
  <2> HIDE DEF p
  <2>2. Turns(c, x, "TIME_WAIT") BY TurnsState DEF State
  <2> HIDE DEF x
  <2>3. Turns(x, y, "TIME_WAIT") BY <2>2, TurnsTimer DEF Turns
  <2> HIDE DEF y
  <2>4. Sends(y, p, {b}) BY <1>1, <2>1, <2>3, SendsReply DEF Turns
  <2>5. /\ SameFields(c.s, p.s) /\ p.buf = c.buf
        /\ p.s.state = "TIME_WAIT" /\ p.s.isAPPClose = c.s.isAPPClose
        /\ p.out = c.out \cup {b}
    BY <2>2, <2>3, <2>4 DEF Sends, Turns, SameFields
  <2>6. <<c.s.state, p.s.state>> \in Shuts BY <1>5, <2>5 DEF Shuts
  <2>7. b.src = e /\ b.kind = "ack" BY DEF Seg
  <2> HIDE DEF b
  <2> QED BY <2>4, <2>5, <2>6, <2>7 DEF p, Sends
<1>6. CASE c.s.state = "TIME_WAIT"
  <2> DEFINE y == start_timewait_timer(c)
             r == [y EXCEPT !.s.restarted = TRUE]
  <2>1. p = r BY <1>6 DEF process_fin_packet
  <2> HIDE DEF p
  <2>2. Turns(c, y, "TIME_WAIT") BY <1>6, TurnsTimer
  <2> HIDE DEF y
  <2>3. /\ r \in Contexts /\ r.buf = y.buf /\ r.out = y.out
        /\ SameFields(y.s, r.s) /\ r.s.state = y.s.state
        /\ r.s.isAPPClose = y.s.isAPPClose
    BY <2>2 DEF Turns, Contexts, TCB, SameFields
  <2> HIDE DEF r
  <2> QED BY <1>6, <2>1, <2>2, <2>3 DEF p, Turns, SameFields
<1>7. CASE c.s.state \notin {"SYN_RECEIVED", "ESTABLISHED", "FIN_WAIT_1",
                             "FIN_WAIT_2", "TIME_WAIT"}
  BY <1>7 DEF process_fin_packet, SameFields
<1> QED BY <1>3, <1>4, <1>5, <1>6, <1>7

\* A FIN m processed in d, where what has been received has been noted,
\* advances c.
LEMMA FinAdvances ==
  ASSUME NEW e \in Ep, NEW c \in Contexts, NEW d \in Contexts, NEW l, NEW m \in Segment,
         Fin(m), c.s.sock = "open", c.s.state \in Incoming, Stage(c.s, l),
         d.s.sock = "open", d.s.state = c.s.state,
         d.s.iss = c.s.iss, d.s.una = c.s.una, d.s.nxt = c.s.nxt, d.s.rtx = c.s.rtx,
         d.s.isAPPClose = c.s.isAPPClose, d.buf = c.buf, d.tw = c.tw, d.out = {},
         Receives(c.s, d.s, {m}), c.s.rnxt <= d.s.rnxt, d.s.ooo \subseteq c.s.ooo \cup {m}
  PROVE  Advance(e, c, process_fin_packet(e, d, m), {m}, l)
<1> DEFINE p == process_fin_packet(e, d, m)
<1>1. /\ p \in Contexts /\ SameFields(d.s, p.s) /\ p.buf = d.buf
      /\ p.s.isAPPClose = d.s.isAPPClose
      /\ p.s.state = d.s.state \/ <<d.s.state, p.s.state>> \in Shuts
      /\ p.tw = d.tw \/ p.s.state = "TIME_WAIT"
      /\ \A x \in p.out :
           /\ x.src = e
           /\ \/ /\ x.kind = "finack" /\ x.ackno = d.s.rnxt
                 /\ p.s.state \in {"CLOSING", "LAST_ACK"}
              \/ x.kind = "fin" /\ p.s.state = "LAST_ACK"
              \/ x.kind = "ack" /\ p.s.state = "TIME_WAIT"
  BY FinTurns
<1> HIDE DEF p
<1>2. /\ p.s.sock = "open" /\ p.s.iss = c.s.iss /\ p.s.una = c.s.una
      /\ p.s.nxt = c.s.nxt /\ p.s.rtx = c.s.rtx /\ p.s.irs = d.s.irs
      /\ p.s.rnxt = d.s.rnxt /\ p.s.ooo = d.s.ooo
  BY <1>1 DEF SameFields
<1>3. p.s.state \in Incoming BY <1>1 DEF Shuts, Incoming, State
<1>4. Receives(c.s, p.s, {m}) BY <1>2 DEF Receives, Incoming
<1>5. p.s.state # "SYN_SENT" BY <1>3 DEF Incoming
<1>6. \A x \in p.out : Reply(e, c.s, p.s, {m}, x)
  BY <1>1, <1>2, <1>3 DEF Reply
<1>7. p.tw <= c.tw \/ p.s.state = "TIME_WAIT" BY <1>1, ContextFields
<1>8. \E y \in {m} : Fin(y) OBVIOUS
<1> QED
  BY <1>1, <1>2, <1>4, <1>5, <1>6, <1>7, <1>8, ReceiveAdvances DEF p

----------------------------------------------------------------------------
(* The steps.  An event of device e has one of six outcomes. *)

\* The other device is left alone, and the application of e has generated
\* some packets, or none.
Frame(e) ==
  /\ load' \in [Ep -> Nat] /\ load'[e] <= load[e]
  /\ \A f \in Ep \ {e} : load'[f] = load[f] /\ got'[f] = got[f]
  /\ got \in [Ep -> SUBSET Nat] /\ got' \in [Ep -> SUBSET Nat]

\* The socket is open before and after; the application is handed packets
\* only by a connection.
Advances(e) ==
  /\ Frame(e) /\ sockets' = sockets
  /\ got'[e] = got[e] \/ (InIncoming(e) /\ load' = load)
  /\ \E c, d \in Contexts, M \in SUBSET Arriving(e), rest \in SUBSET net,
        pending \in SUBSET timers :
       /\ c.s = tcb[e] /\ c.tw <= tw[e] /\ c.buf = buf[e] + (load[e] - load'[e])
       /\ Advance(e, c, d, M, load'[e])
       /\ Commit(e, d, rest, pending)

\* The TCB is freed; the socket is freed as well when it could not be opened.
Closes(e) ==
  /\ Frame(e) /\ UNCHANGED <<sockets, load, got>> /\ tcb[e].sock = "open"
  /\ \E d \in Contexts, rest \in SUBSET net, pending \in SUBSET timers :
       /\ d.s.sock # "open" /\ d.s.state = "CLOSED" /\ d.s.rtx = {} /\ d.s.ooo = {}
       /\ d.s.isAPPClose => tcb[e].isAPPClose
       /\ d.s.sock = "nulltcb" \/ tcb[e].state \in Opening
       /\ d.out = {} /\ d.buf = buf[e] /\ d.tw <= tw[e]
       /\ Commit(e, d, rest, pending)

\* The socket is left as it is and nothing is sent.
Idles(e) ==
  /\ Frame(e) /\ UNCHANGED <<tcb, sockets, got>> /\ net' \subseteq net
  /\ buf' \in [Ep -> Nat] /\ tw' \in [Ep -> Nat] /\ tw'[e] <= tw[e]
  /\ tcb[e].sock = "open" => buf'[e] + load'[e] = buf[e] + load[e]
  /\ tcb[e].sock = "none" /\ buf[e] = 0 => buf'[e] = 0
  /\ \A f \in Ep \ {e} : buf'[f] = buf[f] /\ tw'[f] = tw[f]

\* A new socket in local state d, having sent the SYN or SYN-ACK x.
Opens(e, d, x, rest) ==
  /\ Frame(e) /\ tcb[e].sock = "none" /\ sockets[e] < MaxSockets
  /\ sockets' = [sockets EXCEPT ![e] = @ + 1] /\ got'[e] = {}
  /\ Opened(e, d, x) /\ d.s.iss = ISS[e][sockets[e] + 1] /\ ~d.s.isAPPClose
  /\ d.out = {x} /\ d.tw = tw[e]
  /\ \E pending \in SUBSET timers : Commit(e, d, rest, pending)

Connects(e) ==
  \E d \in Contexts :
    /\ Opens(e, d, Seg(e, "syn", d.s.iss, 0), net)
    /\ d.s.state = "SYN_SENT" /\ d.s.rnxt = 0
    /\ buf[e] = 0 /\ d.buf = load[e] - load'[e]

Accepts(e) ==
  \E m \in Arriving(e), d \in Contexts, rest \in SUBSET net :
    /\ m.kind = "syn"
    /\ Opens(e, d, Seg(e, "synack", d.s.iss, m.seq + 1), rest)
    /\ d.s.state = "SYN_RECEIVED" /\ d.s.irs = m.seq /\ d.s.rnxt = m.seq + 1
    /\ d.buf = buf[e] /\ load' = load

\* What a segment of another connection may provoke.
Breaks(e) ==
  /\ tcb[e].sock = "open"
  /\ \/ tcb[e].state = "LISTEN"
     \/ \E m \in Arriving(e) : Rst(m)
     \/ \E m \in Arriving(e) : Syn(m) /\ Valid(e, m)
     \/ \E m \in Arriving(e) :
          /\ tcb[e].state \in {"SYN_SENT", "SYN_RECEIVED"} /\ Ack(m)
          /\ m.ackno <= tcb[e].iss \/ m.ackno > tcb[e].nxt

\* In all of them the socket moves as it may.
Follows(e) ==
  /\ tcb' \in [Ep -> TCB]
  /\ \A f \in Ep \ {e} : tcb'[f] = tcb[f] /\ load'[f] = load[f]
  /\ Moves(tcb[e], tcb'[e]) /\ Stage(tcb'[e], load'[e])

Outcome(e) ==
  \/ Advances(e) \/ Closes(e) \/ Idles(e) \/ Connects(e) \/ Accepts(e)
  \/ Breaks(e) /\ Follows(e)

\* A commit changes the socket of e only.
LEMMA CommitFields ==
  ASSUME IInv, NEW e \in Ep, NEW d \in Contexts, NEW rest,
         NEW pending \in SUBSET timers,
         Commit(e, d, rest, pending)
  PROVE  /\ tcb' \in [Ep -> TCB] /\ tcb'[e] = d.s
         /\ buf' \in [Ep -> Nat] /\ buf'[e] = d.buf
         /\ tw' \in [Ep -> Nat] /\ tw'[e] = d.tw
         /\ net' = rest \cup d.out
         /\ \A f \in Ep \ {e} : tcb'[f] = tcb[f] /\ buf'[f] = buf[f] /\ tw'[f] = tw[f]
<1>1. d.s \in TCB /\ d.buf \in Nat /\ d.tw \in Nat BY ContextFields
<1>2. tcb \in [Ep -> TCB] /\ buf \in [Ep -> Nat] /\ tw \in [Ep -> Nat]
  BY DEF IInv, TypeOK
<1> QED BY <1>1, <1>2 DEF Commit

\* A received segment leaves the frame.
LEMMA HandledFrame ==
  ASSUME IInv, NEW e \in Ep, UNCHANGED <<load, got>>
  PROVE  Frame(e)
<1>1. load \in [Ep -> Nat] /\ got \in [Ep -> SUBSET Nat] BY DEF IInv, TypeOK
<1>2. load[e] \in Nat BY <1>1
<1> QED BY <1>1, <1>2 DEF Frame

\* The local state a handler starts in.
LEMMA LocalFields ==
  ASSUME IInv, StageInv, NEW e \in Ep
  PROVE  /\ Local(e) \in Contexts /\ Sender(e, Local(e)) /\ Queue(e, tcb[e])
         /\ Local(e).s = tcb[e] /\ Local(e).buf = buf[e] /\ Local(e).tw = tw[e]
         /\ Local(e).out = {} /\ Stage(tcb[e], load[e])
         /\ Receiver(tcb[e], got[e], handed[e])
         /\ tcb[e] \in TCB /\ buf[e] \in Nat /\ load[e] \in Nat /\ tw[e] \in Nat
         /\ buf[e] = buf[e] + (load[e] - load[e])
<1>1. /\ Local(e).tw = tw[e] /\ Local(e).out = {} /\ Stage(tcb[e], load[e])
      /\ Receiver(tcb[e], got[e], handed[e])
  BY DEF Local, StageInv, IInv, ReceiverInv
<1>2. /\ Local(e) \in Contexts /\ Sender(e, Local(e))
      /\ Local(e).s = tcb[e] /\ Local(e).buf = buf[e]
      /\ tcb[e] \in TCB /\ buf[e] \in Nat /\ load[e] \in Nat /\ tw[e] \in Nat
  BY LocalType
<1>3. Queue(e, tcb[e]) BY <1>2 DEF Sender
<1>4. buf[e] = buf[e] + (load[e] - load[e]) BY <1>2
<1> QED BY <1>1, <1>2, <1>3, <1>4

\* A segment whose handler advances.
LEMMA ReceivedAdvances ==
  ASSUME IInv, StageInv, NEW e \in Ep, NEW m \in Arriving(e), NEW d,
         Advance(e, Local(e), d, {m}, load[e]), d \in Contexts,
         Handled(e, m, d), sockets' = sockets,
         got' \in [Ep -> SUBSET Nat], \A f \in Ep \ {e} : got'[f] = got[f],
         got'[e] = got[e] \/ InIncoming(e)
  PROVE  Advances(e)
<1>1. PICK rest \in {net \ {m}} \cup (IF Duplicating THEN {net} ELSE {}) :
        Commit(e, d, rest, timers)
  BY DEF Handled
<1>2. load' = load BY DEF Handled
<1>3. Frame(e)
  <2>1. load \in [Ep -> Nat] /\ got \in [Ep -> SUBSET Nat] BY DEF IInv, TypeOK
  <2>2. load[e] \in Nat BY <2>1
  <2> QED BY <1>2, <2>1, <2>2 DEF Frame
<1>4. rest \in SUBSET net OBVIOUS
<1>5. /\ Local(e) \in Contexts /\ Local(e).s = tcb[e] /\ Local(e).tw <= tw[e]
      /\ Local(e).buf = buf[e] + (load[e] - load'[e])
  BY <1>2, LocalFields
<1>6. {m} \in SUBSET Arriving(e) /\ Advance(e, Local(e), d, {m}, load'[e]) BY <1>2
<1>7. got'[e] = got[e] \/ (InIncoming(e) /\ load' = load) BY <1>2
<1> QED BY <1>1, <1>3, <1>4, <1>5, <1>6, <1>7 DEF Advances

\* A handler that leaves its local state as it was, or aborts.
LEMMA CommitIdles ==
  ASSUME IInv, StageInv, NEW e \in Ep, NEW d \in Contexts, NEW rest \in SUBSET net,

         NEW pending \in SUBSET timers, d.s = tcb[e], d.buf = buf[e], d.out = {}, d.tw <= tw[e],
         Commit(e, d, rest, pending), UNCHANGED <<sockets, load, got>>
  PROVE  Idles(e)
<1>1. Frame(e) BY HandledFrame
<1>2. /\ tcb' = tcb /\ tw' \in [Ep -> Nat] /\ tw'[e] <= tw[e] /\ buf' = buf
      /\ buf \in [Ep -> Nat] /\ net' \subseteq net
      /\ \A f \in Ep \ {e} : tw'[f] = tw[f]
  <2>1. /\ tcb \in [Ep -> TCB] /\ buf \in [Ep -> Nat] /\ tw \in [Ep -> Nat]
    BY DEF IInv, TypeOK
  <2>2. /\ tcb' = [tcb EXCEPT ![e] = tcb[e]] /\ buf' = [buf EXCEPT ![e] = buf[e]]
        /\ tw' = [tw EXCEPT ![e] = d.tw] /\ net' = rest
    BY DEF Commit
  <2>3. d.tw \in Nat BY CommitFields
  <2> QED BY <2>1, <2>2, <2>3
<1> QED BY <1>1, <1>2 DEF Idles

\* A received segment that is ignored, or aborts the process.
LEMMA ReceivedIdles ==
  ASSUME IInv, StageInv, NEW e \in Ep, NEW m \in Arriving(e),
         NEW d \in {Local(e), Abort(Local(e))}, Handled(e, m, d), Quiet
  PROVE  Idles(e)
<1>1. PICK rest \in {net \ {m}} \cup (IF Duplicating THEN {net} ELSE {}) :
        Commit(e, d, rest, timers)
  BY DEF Handled
<1>2. UNCHANGED <<sockets, load, got>> BY DEF Handled, Quiet
<1>3. /\ d \in Contexts /\ d.s = tcb[e] /\ d.buf = buf[e] /\ d.out = {}
      /\ d.tw <= tw[e]
  <2> DEFINE c == Local(e)
  <2>1. /\ c \in Contexts /\ c.s = tcb[e] /\ c.buf = buf[e] /\ c.tw = tw[e]
        /\ c.out = {} /\ tw[e] \in Nat
    BY LocalFields
  <2>2. d \in {c, Abort(c)} OBVIOUS
  <2> HIDE DEF c
  <2>3. tw[e] <= tw[e] BY <2>1
  <2> QED BY <2>1, <2>2, <2>3 DEF Abort, Contexts
<1> QED BY <1>1, <1>2, <1>3, CommitIdles

\* What each outcome means for the socket.
LEMMA OutcomeFollows ==
  ASSUME IInv, StageInv, NEW e \in Ep, Outcome(e)
  PROVE  Follows(e)
<1>0. tcb \in [Ep -> TCB] /\ Stage(tcb[e], load[e]) /\ load[e] \in Nat
  BY DEF IInv, TypeOK, StageInv
<1>1. CASE Advances(e)
  <2>1. PICK c \in Contexts, d \in Contexts, M \in SUBSET Arriving(e),
             rest \in SUBSET net, pending \in SUBSET timers :
          /\ c.s = tcb[e] /\ Advance(e, c, d, M, load'[e]) /\ Commit(e, d, rest, pending)
    BY <1>1 DEF Advances
  <2> QED BY <1>1, <2>1, CommitFields DEF Advances, Advance, Frame, Follows
<1>2. CASE Closes(e)
  <2>1. PICK d \in Contexts, rest \in SUBSET net, pending \in SUBSET timers :
          /\ d.s.sock # "open" /\ d.s.state = "CLOSED"
          /\ d.s.isAPPClose => tcb[e].isAPPClose
          /\ Commit(e, d, rest, pending)
    BY <1>2 DEF Closes
  <2>2. Moves(tcb[e], d.s) BY <2>1 DEF Moves
  <2>3. Stage(d.s, load'[e])
    BY <1>0, <1>2, <2>1 DEF Stage, Closes, Opening, Finished
  <2> QED BY <1>2, <2>1, <2>2, <2>3, CommitFields DEF Closes, Follows
<1>3. CASE Idles(e)
  <2>1. tcb[e] \in TCB BY <1>0
  <2>2. Moves(tcb[e], tcb[e]) BY <2>1 DEF Moves, TCB
  <2>3. Stage(tcb[e], load'[e])
    BY <1>0, <1>3 DEF Stage, Idles, Frame
  <2> QED BY <1>0, <1>3, <2>2, <2>3 DEF Idles, Frame, Follows
<1>4. ASSUME NEW d \in Contexts, NEW x, NEW rest, Opens(e, d, x, rest),
             d.s.state \in {"SYN_SENT", "SYN_RECEIVED"},
             d.s.state = "SYN_SENT" => d.s.rnxt = 0
      PROVE  Follows(e)
  <2>1. PICK pending \in SUBSET timers : Commit(e, d, rest, pending) BY <1>4 DEF Opens
  <2>2. tcb[e].sock = "none" /\ tcb[e].state = "CLOSED"
    BY <1>0, <1>4 DEF Opens, Stage
  <2>3. Moves(tcb[e], d.s) BY <1>4, <2>2 DEF Moves, Diagram, Finished
  <2>4. Stage(d.s, load'[e]) BY <1>4 DEF Stage, Opens, Opened, Finished
  <2> QED BY <1>4, <2>1, <2>3, <2>4, CommitFields DEF Follows, Opens, Frame
<1>5. CASE Connects(e) BY <1>4, <1>5 DEF Connects
<1>6. CASE Accepts(e) BY <1>4, <1>6 DEF Accepts
<1> QED BY <1>1, <1>2, <1>3, <1>5, <1>6 DEF Outcome


----------------------------------------------------------------------------
(* TRANSPORT_IN events, one lemma each *)

\* A handler answered by what breaks the connection.
LEMMA ReceivedFollows ==
  ASSUME IInv, StageInv, NEW e \in Ep, NEW m \in Arriving(e), NEW d \in Contexts,
         Handled(e, m, d), Moves(tcb[e], d.s), Stage(d.s, load[e])
  PROVE  Follows(e)
<1>1. PICK rest \in {net \ {m}} \cup (IF Duplicating THEN {net} ELSE {}) :
        Commit(e, d, rest, timers)
  BY DEF Handled
<1>2. load' = load BY DEF Handled
<1>3. /\ tcb' \in [Ep -> TCB] /\ tcb'[e] = d.s
      /\ \A f \in Ep \ {e} : tcb'[f] = tcb[f]
  BY <1>1, CommitFields
<1> QED BY <1>2, <1>3 DEF Follows

\* The same when the socket is left as it is.
LEMMA ReceivedStays ==
  ASSUME IInv, StageInv, NEW e \in Ep, NEW m \in Arriving(e), NEW d \in Contexts,
         Handled(e, m, d), d.s = tcb[e]
  PROVE  Follows(e)
<1>1. Stage(tcb[e], load[e]) /\ tcb[e] \in TCB BY LocalFields
<1>2. Moves(tcb[e], tcb[e]) BY <1>1 DEF Moves, TCB
<1> QED BY <1>1, <1>2, ReceivedFollows

LEMMA RecvNoConnectionOutcome ==
  ASSUME IInv, StageInv, NEW e \in Ep, RecvNoConnection(e) PROVE Outcome(e)
<1>1. PICK m \in Arriving(e) : Handled(e, m, Local(e)) /\ Quiet
  BY DEF RecvNoConnection
<1> QED BY <1>1, ReceivedIdles DEF Outcome

LEMMA RecvSynSentOtherOutcome ==
  ASSUME IInv, StageInv, NEW e \in Ep, RecvSynSentOther(e) PROVE Outcome(e)
<1>1. PICK m \in Arriving(e), d \in {Local(e), Abort(Local(e))} :
        Handled(e, m, d) /\ Quiet
  BY DEF RecvSynSentOther
<1> QED BY <1>1, ReceivedIdles DEF Outcome

LEMMA RecvListenOutcome ==
  ASSUME IInv, StageInv, NEW e \in Ep, RecvListen(e) PROVE Outcome(e)
<1> DEFINE c == Local(e)
<1>1. PICK m \in Arriving(e) :
        \E d \in {c, Abort(c), send_rst(e, c, m, 0), send_rst(e, c, m, 2)} :
          Handled(e, m, d)
  BY DEF RecvListen, process_syn
<1>2. c \in Contexts /\ c.s = tcb[e] BY LocalFields
<1> HIDE DEF c
<1>3. Abort(c) \in Contexts /\ Abort(c).s = c.s BY <1>2 DEF Abort, Contexts
<1>4. \A d \in {c, Abort(c), send_rst(e, c, m, 0), send_rst(e, c, m, 2)} :
        d \in Contexts /\ d.s = tcb[e]
  BY <1>2, <1>3, ArrivingType, SendRst
<1>5. Follows(e) BY <1>1, <1>4, ReceivedStays
<1>6. Breaks(e) BY DEF RecvListen, Breaks
<1> QED BY <1>5, <1>6 DEF Outcome

LEMMA RecvSynSentBadAckOutcome ==
  ASSUME IInv, StageInv, NEW e \in Ep, RecvSynSentBadAck(e) PROVE Outcome(e)
<1> DEFINE c == Local(e)
<1>1. PICK m \in Arriving(e) :
        /\ InSynSent(e) /\ BadSynSentAck(tcb[e], m)
        /\ Handled(e, m, send_rst(e, c, m, 0))
  BY DEF RecvSynSentBadAck
<1>2. c \in Contexts /\ c.s = tcb[e] BY LocalFields
<1> HIDE DEF c
<1>3. send_rst(e, c, m, 0) \in Contexts /\ send_rst(e, c, m, 0).s = tcb[e]
  BY <1>2, ArrivingType, SendRst
<1>4. Follows(e) BY <1>1, <1>3, ReceivedStays
<1>5. Breaks(e) BY <1>1 DEF InSynSent, BadSynSentAck, Breaks
<1> QED BY <1>4, <1>5 DEF Outcome

LEMMA RecvRstOutcome ==
  ASSUME IInv, StageInv, NEW e \in Ep, RecvRst(e) PROVE Outcome(e)
<1> DEFINE c == Local(e)
           k == [c EXCEPT !.s.dangling = TRUE]
           d == process_rst_packet(c)
<1>1. PICK m \in Arriving(e) : Valid(e, m) /\ Rst(m) /\ Handled(e, m, d)
  BY DEF RecvRst
<1>2. c \in Contexts /\ c.s = tcb[e] /\ Stage(c.s, load[e]) BY LocalFields
<1> HIDE DEF c
<1>3. d \in Contexts /\ Moves(c.s, d.s) /\ Stage(d.s, load[e])
  <2>1. CASE c.s.state = "SYN_RECEIVED" /\ c.s.prev = "LISTEN"
    <3>1. d = tcp_change_state(k, "LISTEN")
      BY <2>1 DEF process_rst_packet, delete_all_segment_from_queue
    <3>2. /\ k \in Contexts /\ k.s.sock = c.s.sock /\ k.s.una = c.s.una
          /\ k.s.nxt = c.s.nxt /\ k.s.rnxt = c.s.rnxt
          /\ k.s.isAPPClose = c.s.isAPPClose
      BY <1>2 DEF Contexts, TCB
    <3> HIDE DEF k, d
    <3>3. Turns(k, d, "LISTEN") BY <3>1, <3>2, TurnsState DEF State
    <3>4. /\ d \in Contexts /\ d.s.state = "LISTEN" /\ d.s.sock = c.s.sock
          /\ d.s.una = c.s.una /\ d.s.nxt = c.s.nxt /\ d.s.rnxt = c.s.rnxt
          /\ d.s.isAPPClose = c.s.isAPPClose
      BY <3>2, <3>3 DEF Turns, SameFields
    <3>5. Moves(c.s, d.s)
      BY <1>2, <2>1, <3>4, ContextFields DEF Moves, Diagram, Finished
    <3>6. Stage(d.s, load[e])
      BY <1>2, <2>1, <3>4 DEF Stage, Opening, Finished
    <3> QED BY <3>4, <3>5, <3>6
  <2>2. CASE ~(c.s.state = "SYN_RECEIVED" /\ c.s.prev = "LISTEN")
    <3>1. d = tcp_close_socket(c) BY <2>2 DEF process_rst_packet
    <3>2. d \in Contexts /\ d.s = NoSocket
      BY <1>2, <3>1, NoSocketType DEF tcp_close_socket, Contexts
    <3> HIDE DEF d
    <3> QED BY <3>2 DEF NoSocket, Moves, Stage, Opening, Finished
  <2> QED BY <2>1, <2>2
<1> HIDE DEF d
<1>4. Follows(e) BY <1>1, <1>2, <1>3, ReceivedFollows
<1>5. Breaks(e) BY <1>1 DEF Breaks, Valid, InIncoming
<1> QED BY <1>4, <1>5 DEF Outcome

LEMMA RecvSynOutcome ==
  ASSUME IInv, StageInv, NEW e \in Ep, RecvSyn(e) PROVE Outcome(e)
<1> DEFINE c == Local(e)
           d == process_syn_packet(c)
<1>1. PICK m \in Arriving(e) : Valid(e, m) /\ Syn(m) /\ Handled(e, m, d)
  BY DEF RecvSyn
<1>2. c \in Contexts /\ c.s = tcb[e] /\ Stage(c.s, load[e]) BY LocalFields
<1> HIDE DEF c
<1>3. d \in Contexts /\ Moves(c.s, d.s) /\ Stage(d.s, load[e])
  <2>1. CASE c.s.state = "SYN_RECEIVED"
    <3>1. d = tcp_change_state(c, "LISTEN") BY <2>1 DEF process_syn_packet
    <3> HIDE DEF d
    <3>2. Turns(c, d, "LISTEN") BY <1>2, <3>1, TurnsState DEF State
    <3>3. Moves(c.s, d.s)
      BY <1>2, <2>1, <3>2, ContextFields DEF Turns, SameFields, Moves, Diagram, Finished
    <3>4. Stage(d.s, load[e])
      BY <1>2, <2>1, <3>2 DEF Turns, SameFields, Stage, Opening, Finished
    <3> QED BY <3>2, <3>3, <3>4 DEF Turns
  <2>2. CASE c.s.state # "SYN_RECEIVED"
    <3>1. d = tcp_close_socket(c) BY <2>2 DEF process_syn_packet
    <3>2. d \in Contexts /\ d.s = NoSocket
      BY <1>2, <3>1, NoSocketType DEF tcp_close_socket, Contexts
    <3> HIDE DEF d
    <3> QED BY <3>2 DEF NoSocket, Moves, Stage, Opening, Finished
  <2> QED BY <2>1, <2>2
<1> HIDE DEF d
<1>4. Follows(e) BY <1>1, <1>2, <1>3, ReceivedFollows
<1>5. Breaks(e) BY <1>1 DEF Breaks, Valid, InIncoming
<1> QED BY <1>4, <1>5 DEF Outcome

LEMMA RecvUnacceptableOutcome ==
  ASSUME IInv, StageInv, NEW e \in Ep, RecvUnacceptable(e) PROVE Outcome(e)
<1> DEFINE c == Local(e)
           r == send_ack(e, c, c.s.nxt, c.s.rnxt)
<1>1. PICK m \in Arriving(e), d \in {c, r} :
        InIncoming(e) /\ Handled(e, m, d) /\ Quiet
  BY DEF RecvUnacceptable
<1>2. /\ c \in Contexts /\ c.s = tcb[e] /\ Stage(c.s, load[e]) /\ c.out = {}
      /\ c.s.sock = "open" /\ c.s.state \in Incoming
  BY <1>1, LocalFields DEF InIncoming
<1>3. c.s.nxt \in Nat /\ c.s.rnxt \in Nat /\ c.tw \in Nat BY <1>2, ContextFields
<1> DEFINE a == Seg(e, "ack", c.s.nxt, c.s.rnxt)
<1>4. Sends(c, r, {a}) BY <1>2, <1>3, SendsReply
<1>5. a.src = e /\ a.kind = "ack" /\ a.ackno = c.s.rnxt BY DEF Seg
<1> HIDE DEF c, r, a
<1>6. /\ d \in Contexts /\ d.s = c.s /\ d.buf = c.buf /\ d.tw <= c.tw
      /\ d.out \subseteq {a}
  BY <1>2, <1>3, <1>4 DEF Sends
<1>7. \A x \in d.out : Reply(e, c.s, d.s, {m}, x)
  BY <1>2, <1>5, <1>6 DEF Reply
<1>8. SameFields(c.s, d.s) BY <1>6 DEF SameFields
<1>9. Advance(e, c, d, {m}, load[e]) BY <1>2, <1>6, <1>7, <1>8, StillAdvances
<1> QED
  BY <1>1, <1>6, <1>9, ReceivedAdvances DEF Outcome, Quiet, c, IInv, TypeOK

LEMMA RecvAckOutcome ==
  ASSUME IInv, StageInv, NEW e \in Ep, RecvAck(e) PROVE Outcome(e)
<1> DEFINE c == Local(e)
<1>1. PICK m \in Arriving(e), fast \in BOOLEAN, w \in Windows :
        /\ PureAck(e, m) /\ Quiet
        /\ tcb[e].state \in {"ESTABLISHED", "FIN_WAIT_1", "FIN_WAIT_2",
                             "CLOSE_WAIT", "CLOSING"}
        /\ Handled(e, m, process_ack_packet(e, c, m, fast, w, load[e]))
  BY DEF RecvAck
<1> DEFINE d == process_ack_packet(e, c, m, fast, w, load[e])
<1>2. m \in Segment /\ m.kind \in {"ack", "finack"} BY <1>1, ArrivingType DEF PureAck
<1>3. /\ c \in Contexts /\ Sender(e, c) /\ c.s = tcb[e] /\ Stage(c.s, load[e])
      /\ c.out = {} /\ c.s.sock = "open"
  BY <1>1, LocalFields DEF PureAck, Valid, InIncoming
<1> HIDE DEF c
<1>4. c.s.state \in Sending /\ ~c.s.dangling
  BY <1>1, <1>3 DEF Sending, Opening, State, Sender, Handshake
<1>5. d \in Contexts BY <1>2, <1>3, <1>4, AckPacket DEF Handles
<1>6. Advance(e, c, d, {m}, load[e]) BY <1>1, <1>2, <1>3, AckAdvances
<1> HIDE DEF d
<1> QED
  BY <1>1, <1>5, <1>6, ReceivedAdvances DEF Outcome, Quiet, c, d, IInv, TypeOK

\* add_timeout_event touches neither the mark of the last packet nor what is sent.
LEMMA AddTimeoutMore ==
  ASSUME NEW c \in Contexts, NEW m \in Segment
  PROVE  LET d == add_timeout_event(c, m)
         IN  d.out = c.out /\ d.tw = c.tw /\ d.s.isAPPClose = c.s.isAPPClose
<1> DEFINE q == c.s.rtx \cup {m}
           t == [c.s EXCEPT !.rtx = q]
           d == [c EXCEPT !.s = t, !.arm = @ \cup {m}]
<1>1. add_timeout_event(c, m) = d BY DEF add_timeout_event, Contexts, TCB
<1> HIDE DEF q
<1>2. c.s \in TCB BY ContextFields
<1>3. t.isAPPClose = c.s.isAPPClose BY <1>2 DEF TCB
<1> HIDE DEF t
<1>4. d.s = t /\ d.out = c.out /\ d.tw = c.tw BY DEF Contexts
<1> QED BY <1>1, <1>3, <1>4

\* What Accept does not say of a passive open.
LEMMA AcceptMore ==
  ASSUME NEW e \in Ep, NEW iss \in Nat, NEW m \in Segment, NEW c \in Contexts, c.out = {}
  PROVE  LET d == tcp_accept(e, c, iss, m)
         IN  /\ d.out = {Seg(e, "synack", iss, m.seq + 1)} /\ d.tw = c.tw
             /\ d.buf = c.buf /\ ~d.s.isAPPClose
<1> DEFINE k == [c EXCEPT !.s = create_TCB(iss)]
           l == tcp_change_state(k, "LISTEN")
           n == l.s.synRetries + 1
           t == [l.s EXCEPT !.rnxt = m.seq + 1, !.irs = m.seq, !.una = iss,
                            !.nxt = iss + 1, !.synRetries = n]
           d == [l EXCEPT !.s = t]
           f == tcp_change_state(d, "SYN_RECEIVED")
           a == Seg(e, "synack", iss, m.seq + 1)
           g == send_to_network(f, a)
           h == add_timeout_event(g, a)
<1>1. m.seq \in Nat /\ m.seq + 1 \in Nat BY DEF Segment
<1>2. a \in Segment BY <1>1, SegType DEF Kind
<1>3. /\ k \in Contexts /\ k.out = {} /\ k.tw = c.tw /\ k.buf = c.buf
      /\ ~k.s.isAPPClose
  <2>1. create_TCB(iss) \in TCB /\ ~create_TCB(iss).isAPPClose
    BY CreateTCB DEF create_TCB, NoSocket
  <2> QED BY <2>1 DEF Contexts
<1> HIDE DEF k
<1>4. Turns(k, l, "LISTEN") /\ l.tw = k.tw BY <1>3, TurnsState DEF State
<1>5. l \in Contexts /\ l.s \in TCB /\ n \in Nat
  BY <1>4, ContextFields DEF Turns
<1>6. [l EXCEPT !.s.rnxt = m.seq + 1, !.s.irs = m.seq, !.s.una = iss,
                !.s.nxt = iss + 1, !.s.synRetries = @ + 1] = d
  <2> HIDE DEF l
  <2> QED BY <1>5 DEF Contexts, TCB
<1>7. tcp_accept(e, c, iss, m) = h
  <2> HIDE DEF d
  <2> QED BY <1>6 DEF tcp_accept, k
<1> HIDE DEF l, n, a
<1>8. t \in TCB /\ t.isAPPClose = l.s.isAPPClose
  <2>1. iss + 1 \in Nat OBVIOUS
  <2>2. t \in TCB BY <1>1, <1>5, <2>1 DEF TCB
  <2> QED BY <1>5, <2>2 DEF TCB
<1> HIDE DEF t
<1>9. /\ d \in Contexts /\ d.s = t /\ d.out = l.out /\ d.tw = l.tw /\ d.buf = l.buf
  BY <1>5, <1>8 DEF Contexts
<1> HIDE DEF d
<1>10. Turns(d, f, "SYN_RECEIVED") /\ f.tw = d.tw BY <1>9, TurnsState DEF State
<1> HIDE DEF f
<1>11. Sends(f, g, {a}) BY <1>2, <1>10, SendsSegment DEF Turns
<1> HIDE DEF g
<1>12. /\ h.out = g.out /\ h.tw = g.tw /\ h.s.isAPPClose = g.s.isAPPClose
       /\ h.buf = g.buf
  BY <1>2, <1>11, AddTimeout, AddTimeoutMore DEF Sends
<1> HIDE DEF h
<1> QED
  BY <1>3, <1>4, <1>7, <1>8, <1>9, <1>10, <1>11, <1>12 DEF Turns, Sends, a

LEMMA RecvSynListenSocketOutcome ==
  ASSUME IInv, StageInv, NEW e \in Ep, RecvSynListenSocket(e) PROVE Outcome(e)
<1> DEFINE iss == ISS[e][sockets[e] + 1]
           c == Local(e)
<1>1. PICK m \in Arriving(e) :
        /\ tcb[e].sock = "none" /\ m.kind = "syn" /\ sockets[e] < MaxSockets
        /\ sockets' = [sockets EXCEPT ![e] = @ + 1]
        /\ got' = [got EXCEPT ![e] = {}]
        /\ Handled(e, m, tcp_accept(e, c, iss, m))
  BY DEF RecvSynListenSocket
<1> DEFINE d == tcp_accept(e, c, iss, m)
           x == Seg(e, "synack", iss, m.seq + 1)
<1>2. sockets[e] + 1 \in 1..MaxSockets
  BY <1>1, BoundAssumption DEF IInv, TypeOK
<1>3. iss \in Nat BY <1>2, IssAssumption
<1>4. /\ c \in Contexts /\ c.arm = {} /\ c.out = {} /\ c.tw = tw[e] /\ c.buf = buf[e]
  BY LocalType, LocalFields
<1> HIDE DEF c
<1>5. m \in Segment /\ m.seq \in Nat BY ArrivingType
<1>6. /\ Opened(e, d, x) /\ d.s.state = "SYN_RECEIVED"
      /\ d.s.rnxt = m.seq + 1 /\ d.s.irs = m.seq
      /\ d.out = {x} /\ d.tw = tw[e] /\ d.buf = buf[e] /\ ~d.s.isAPPClose
  <2> HIDE DEF iss
  <2> QED BY <1>3, <1>4, <1>5, Accept, AcceptMore
<1>7. Handled(e, m, d) BY <1>1
<1> HIDE DEF d
<1>8. d \in Contexts /\ d.s.iss = iss BY <1>6 DEF Opened, Seg
<1>9. PICK rest \in {net \ {m}} \cup (IF Duplicating THEN {net} ELSE {}) :
        Commit(e, d, rest, timers)
  BY <1>7 DEF Handled
<1>10. rest \in SUBSET net /\ load' = load BY <1>7 DEF Handled
<1>11. got'[e] = {} /\ Frame(e)
  <2>1. load \in [Ep -> Nat] /\ got \in [Ep -> SUBSET Nat] BY DEF IInv, TypeOK
  <2>2. load[e] \in Nat BY <2>1
  <2>3. got' \in [Ep -> SUBSET Nat] /\ got'[e] = {} BY <1>1, <2>1
  <2>4. \A f \in Ep \ {e} : got'[f] = got[f] BY <1>1, <2>1
  <2> QED BY <1>10, <2>1, <2>2, <2>3, <2>4 DEF Frame
<1>12. Opens(e, d, x, rest)
  BY <1>1, <1>6, <1>8, <1>9, <1>11 DEF Opens
<1>13. x = Seg(e, "synack", d.s.iss, m.seq + 1) BY <1>8
<1>14. Accepts(e) BY <1>1, <1>6, <1>8, <1>10, <1>12, <1>13 DEF Accepts
<1> QED BY <1>14 DEF Outcome

LEMMA RecvAckLastAckOutcome ==
  ASSUME IInv, StageInv, NEW e \in Ep, RecvAckLastAck(e) PROVE Outcome(e)
<1> DEFINE c == Local(e)
           x == tcp_change_state(c, "CLOSED")
           d == delete_tcb(x)
<1>1. PICK m \in Arriving(e) : InIncoming(e) /\ Quiet /\ Handled(e, m, d)
  BY DEF RecvAckLastAck, PureAck, Valid
<1>2. PICK rest \in {net \ {m}} \cup (IF Duplicating THEN {net} ELSE {}) :
        Commit(e, d, rest, timers)
  BY <1>1 DEF Handled
<1>3. /\ c \in Contexts /\ c.s = tcb[e] /\ c.out = {} /\ c.buf = buf[e] /\ c.tw = tw[e]
      /\ tw[e] \in Nat
  BY LocalFields
<1> HIDE DEF c
<1>4. Turns(c, x, "CLOSED") /\ x.tw = c.tw BY <1>3, TurnsState DEF State
<1>5. d \in Contexts BY <1>4, <1>3, Closing, <1>1 DEF Turns, SameFields, Handles, InIncoming
<1> HIDE DEF x
<1>6. /\ d.s.sock = "nulltcb" /\ d.s.state = "CLOSED" /\ d.s.rtx = {} /\ d.s.ooo = {}
      /\ d.s.isAPPClose = x.s.isAPPClose /\ d.out = x.out /\ d.buf = x.buf
      /\ d.tw = x.tw
  BY <1>4 DEF Turns, delete_tcb, NoSocket, Contexts
<1> HIDE DEF d
<1>7. tcb[e].sock = "open" /\ UNCHANGED <<sockets, load, got>>
  BY <1>1 DEF InIncoming, Quiet, Handled
<1>8. rest \in SUBSET net OBVIOUS
<1>9. /\ d.out = {} /\ d.buf = buf[e] /\ d.tw <= tw[e]
      /\ d.s.isAPPClose => tcb[e].isAPPClose
  BY <1>3, <1>4, <1>6 DEF Turns
<1>10. Closes(e)
  BY <1>2, <1>5, <1>6, <1>7, <1>8, <1>9, HandledFrame DEF Closes
<1> QED BY <1>10 DEF Outcome

LEMMA RecvAckTimeWaitOutcome ==
  ASSUME IInv, StageInv, NEW e \in Ep, RecvAckTimeWait(e) PROVE Outcome(e)
<1> DEFINE c == Local(e)
<1>1. PICK m \in Arriving(e) :
        /\ InIncoming(e) /\ tcb[e].state = "TIME_WAIT" /\ Quiet
        /\ Handled(e, m, [start_timewait_timer(send_fin_ack(e, c, m.seq, m.ackno))
                            EXCEPT !.s.restarted = TRUE])
  BY DEF RecvAckTimeWait, PureAck, Valid
<1> DEFINE b == Seg(e, "finack", m.seq, m.ackno)
           a == send_fin_ack(e, c, m.seq, m.ackno)
           x == start_timewait_timer(a)
           d == [x EXCEPT !.s.restarted = TRUE]
<1>2. m.seq \in Nat /\ m.ackno \in Nat BY ArrivingType
<1>3. /\ c \in Contexts /\ c.s = tcb[e] /\ Stage(c.s, load[e]) /\ c.out = {}
      /\ c.s.sock = "open" /\ c.s.state = "TIME_WAIT"
  BY <1>1, LocalFields DEF InIncoming
<1> HIDE DEF c
<1>4. Sends(c, a, {b}) BY <1>2, <1>3, SendsReply
<1>5. b.src = e /\ b.kind = "finack" BY DEF Seg
<1> HIDE DEF a, b
<1>6. Turns(a, x, "TIME_WAIT") BY <1>3, <1>4, TurnsTimer DEF Sends
<1> HIDE DEF x
<1>7. /\ d \in Contexts /\ d.buf = x.buf /\ d.out = x.out
      /\ SameFields(x.s, d.s) /\ d.s.state = x.s.state
      /\ d.s.isAPPClose = x.s.isAPPClose
  BY <1>6 DEF Turns, Contexts, TCB, SameFields
<1> HIDE DEF d
<1>8. /\ SameFields(c.s, d.s) /\ d.buf = c.buf /\ d.s.isAPPClose = c.s.isAPPClose
      /\ d.s.state = "TIME_WAIT" /\ d.out = {b}
  BY <1>3, <1>4, <1>6, <1>7 DEF Sends, Turns, SameFields
<1>9. \A y \in d.out : Reply(e, c.s, d.s, {m}, y) BY <1>5, <1>8 DEF Reply
<1>10. Advance(e, c, d, {m}, load[e])
  BY <1>3, <1>7, <1>8, <1>9, StillAdvances
<1>11. Handled(e, m, d) BY <1>1 DEF a, d, x
<1> QED
  BY <1>1, <1>7, <1>10, <1>11, ReceivedAdvances DEF Outcome, Quiet, c, IInv, TypeOK

\* An ACK of the SYN-ACK; one that acknowledges nothing breaks the connection.
LEMMA RecvAckSynReceivedOutcome ==
  ASSUME IInv, StageInv, NEW e \in Ep, RecvAckSynReceived(e) PROVE Outcome(e)
<1> DEFINE c == Local(e)
           x == tcp_change_state(c, "ESTABLISHED")
           l == load[e]
           ok(m) == c.s.una <= m.ackno /\ m.ackno <= c.s.nxt
           f(m, fast, w) == IF ok(m) THEN AckEstablished(e, x, m, fast, w, l)
                                     ELSE send_rst(e, c, m, 1)
<1>1. PICK m \in Arriving(e), fast \in BOOLEAN, w \in Windows :
        /\ InIncoming(e) /\ tcb[e].state = "SYN_RECEIVED" /\ Quiet
        /\ m.kind \in {"ack", "finack"} /\ Handled(e, m, f(m, fast, w))
  BY DEF RecvAckSynReceived, PureAck, Valid
<1> DEFINE d == AckEstablished(e, x, m, fast, w, l)
           r == send_rst(e, c, m, 1)
           g == f(m, fast, w)
<1>2. m \in Segment /\ m.seq \in Nat /\ m.ackno \in Nat /\ Ack(m)
  BY <1>1, ArrivingType DEF Ack
<1>3. /\ c \in Contexts /\ Sender(e, c) /\ c.s = tcb[e] /\ c.s.state = "SYN_RECEIVED"
      /\ c.s.sock = "open" /\ ~c.s.dangling /\ c.out = {} /\ Stage(c.s, l)
      /\ Queue(e, c.s)
  BY <1>1, LocalFields DEF InIncoming, Sender, Handshake
<1>4. /\ c.s.una = c.s.iss /\ c.s.nxt = c.s.iss + 1 /\ c.s.iss \in Nat
      /\ c.s.una \in Nat /\ c.s.nxt \in Nat
  BY <1>3, ContextFields DEF Sender, Handshake, Opening
<1>5. ok(m) => g = d BY DEF d
<1>6. ~ok(m) => g = r BY DEF r
<1>7. Handled(e, m, g) BY <1>1
<1> HIDE DEF c, g
<1>8. Turns(c, x, "ESTABLISHED") /\ x.tw = c.tw BY <1>3, TurnsState DEF State
<1> HIDE DEF x
<1>9. x \in Contexts /\ x.s.state = "ESTABLISHED" /\ SameFields(c.s, x.s)
        /\ x.buf = c.buf /\ x.out = {}
  BY <1>3, <1>8 DEF Turns
<1>10. Sender(e, x)
  <2>1. Queue(e, x.s) BY <1>3, <1>9 DEF Queue, SameFields
  <2>2. Handshake(x.s) BY <1>3, <1>9 DEF Handshake, SameFields, Opening
  <2>3. x.s.rtx # {}
    BY <1>3, <1>4, <1>9, EmptyQueue, ContextFields DEF SameFields
  <2> QED BY <2>1, <2>2, <2>3 DEF Sender, Waiting
<1>11. x.s.state \in Sending /\ x.s.state \notin Opening /\ x.s.sock = "open"
         /\ ~x.s.dangling /\ x.s.una = c.s.una /\ x.s.nxt = c.s.nxt
  BY <1>3, <1>9 DEF SameFields, Sending, State, Opening
<1>12. Handles(e, x, d) BY <1>2, <1>9, <1>10, <1>11, Acknowledge
<1>13. \/ /\ x.s.una < m.ackno /\ m.ackno <= x.s.nxt
          /\ d.s.una = m.ackno /\ Transmits(e, x, d, x.s.rtx, l)
       \/ /\ ~(x.s.una < m.ackno /\ m.ackno <= x.s.nxt)
          /\ d \in Contexts /\ d.s = x.s
  BY <1>2, <1>9, <1>10, <1>11, AckTransmits
<1> HIDE DEF d
<1>14. CASE ok(m) /\ c.s.una < m.ackno /\ Transmits(e, x, d, x.s.rtx, l) /\ d.s.una = m.ackno
  <2>1. Queue(e, d.s) BY <1>12 DEF Handles, Sender
  <2>2. \E y \in {m} : Ack(y) /\ d.s.una = y.ackno BY <1>2, <1>14
  <2>3. c.s.una <= d.s.una BY <1>2, <1>4, <1>14
  <2>4. Turns(c, x, x.s.state) BY <1>8, <1>9
  <2>5. Advance(e, c, d, {m}, l)
    BY <1>3, <1>8, <1>9, <1>14, <2>1, <2>2, <2>3, <2>4, TransmitAdvances
  <2>6. d \in Contexts BY <1>14 DEF Transmits
  <2> QED
    BY <1>1, <1>5, <1>7, <1>14, <2>5, <2>6, ReceivedAdvances
    DEF Outcome, Quiet, c, IInv, TypeOK
<1>15. CASE ok(m) /\ d \in Contexts /\ d.s = x.s /\ ~(c.s.una < m.ackno)
  <2>1. Moves(c.s, d.s)
    BY <1>3, <1>4, <1>9, <1>15, ContextFields DEF SameFields, Moves, Diagram, Finished
  <2>2. Stage(d.s, l)
    BY <1>3, <1>8, <1>9, <1>15 DEF Turns, SameFields, Stage, Opening, Finished
  <2>3. Follows(e) BY <1>3, <1>5, <1>7, <1>15, <2>1, <2>2, ReceivedFollows
  <2>4. m.ackno <= c.s.iss BY <1>2, <1>4, <1>15
  <2>5. Breaks(e) BY <1>2, <1>3, <2>4 DEF Breaks
  <2> QED BY <2>3, <2>5 DEF Outcome
<1>16. CASE ~ok(m)
  <2>1. r \in Contexts /\ r.s = c.s BY <1>2, <1>3, SendRst
  <2>2. Follows(e) BY <1>3, <1>6, <1>7, <1>16, <2>1, ReceivedStays
  <2>3. m.ackno <= c.s.iss \/ m.ackno > c.s.nxt BY <1>2, <1>4, <1>16
  <2>4. Breaks(e) BY <1>2, <1>3, <2>3 DEF Breaks
  <2> QED BY <2>2, <2>4 DEF Outcome
<1>17. ok(m) => \/ c.s.una < m.ackno /\ Transmits(e, x, d, x.s.rtx, l) /\ d.s.una = m.ackno
                \/ d \in Contexts /\ d.s = x.s /\ ~(c.s.una < m.ackno)
  BY <1>11, <1>13
<1> HIDE DEF ok
<1> QED BY <1>14, <1>15, <1>16, <1>17

\* The SYN-ACK: the connection is established and the waiting packets are sent.
LEMMA RecvSynAckOutcome ==
  ASSUME IInv, StageInv, NEW e \in Ep, RecvSynAck(e) PROVE Outcome(e)
<1>1. PICK m \in Arriving(e), w \in Windows :
        /\ InSynSent(e) /\ AckAcceptable(tcb[e], m) /\ m.kind = "synack"
        /\ LET c == [Local(e) EXCEPT
                       !.s.rnxt = m.seq + 1, !.s.irs = m.seq, !.s.una = m.ackno,
                       !.s.rtx = delete_segment_from_queue(@, m.ackno)]
               d == send_ack(e, c, c.s.nxt, c.s.rnxt)
           IN  Handled(e, m, send_segment(e, tcp_change_state(d, "ESTABLISHED"),
                                          w, load[e]))
        /\ Quiet
  BY DEF RecvSynAck
<1> DEFINE l == Local(e)
           k == load[e]
           q == delete_segment_from_queue(l.s.rtx, m.ackno)
           t == [l.s EXCEPT !.rnxt = m.seq + 1, !.irs = m.seq, !.una = m.ackno,
                            !.rtx = q]
           c == [l EXCEPT !.s = t]
           d == send_ack(e, c, c.s.nxt, c.s.rnxt)
           x == tcp_change_state(d, "ESTABLISHED")
           f == send_segment(e, x, w, k)
<1>2. m \in Segment /\ m.seq \in Nat /\ m.ackno \in Nat /\ Ack(m) /\ Syn(m)
  BY <1>1, ArrivingType DEF Ack, Syn
<1>3. /\ l \in Contexts /\ Sender(e, l) /\ Queue(e, l.s) /\ l.s = tcb[e] /\ l.out = {}
      /\ Stage(l.s, k)
  BY LocalFields
<1>4. Handled(e, m, f)
  <2>1. [l EXCEPT !.s.rnxt = m.seq + 1, !.s.irs = m.seq, !.s.una = m.ackno,
                  !.s.rtx = delete_segment_from_queue(@, m.ackno)] = c
    BY <1>3 DEF Contexts, TCB
  <2> HIDE DEF c
  <2> QED BY <1>1, <2>1
<1>5. l.s.state = "SYN_SENT" /\ l.s.sock = "open"
  BY <1>1, <1>3 DEF InSynSent
<1> HIDE DEF l
<1>6. /\ l.s \in TCB /\ l.s.nxt \in Nat /\ l.s.iss \in Nat /\ l.s.una \in Nat
      /\ l.s.una <= m.ackno /\ m.ackno <= l.s.nxt
  BY <1>1, <1>2, <1>3, ContextFields DEF AckAcceptable
<1>7. q \subseteq l.s.rtx
  BY <1>2, <1>3, <1>6, DeleteFromQueue
<1> HIDE DEF q
<1>8. /\ t \in TCB /\ t.rnxt = m.seq + 1 /\ t.irs = m.seq /\ t.una = m.ackno
      /\ t.rtx = q /\ t.nxt = l.s.nxt /\ t.sock = "open" /\ t.iss = l.s.iss
      /\ t.ooo = l.s.ooo /\ ~t.isAPPClose
  <2>1. q \subseteq Segment /\ m.seq + 1 \in Nat BY <1>2, <1>3, <1>7, ContextFields
  <2>2. t \in TCB BY <1>2, <1>6, <2>1 DEF TCB
  <2>3. /\ t.rnxt = m.seq + 1 /\ t.irs = m.seq /\ t.una = m.ackno
        /\ t.rtx = q /\ t.nxt = l.s.nxt /\ t.sock = l.s.sock /\ t.iss = l.s.iss
        /\ t.ooo = l.s.ooo /\ t.isAPPClose = l.s.isAPPClose
    BY <1>6 DEF TCB
  <2>4. ~l.s.isAPPClose BY <1>3, <1>5 DEF Stage, Opening
  <2> HIDE DEF t
  <2> QED BY <1>5, <2>2, <2>3, <2>4
<1> HIDE DEF t
<1>10. c \in Contexts /\ c.s = t /\ c.out = {} /\ c.tw = l.tw /\ c.buf = l.buf
  BY <1>3, <1>8 DEF Contexts
<1> HIDE DEF c
<1> DEFINE a == Seg(e, "ack", c.s.nxt, c.s.rnxt)
<1>11. Sends(c, d, {a})
  <2>1. c.s.nxt \in Nat /\ c.s.rnxt \in Nat BY <1>10, ContextFields
  <2> QED BY <1>10, <2>1, SendsReply
<1>12. a.src = e /\ a.kind = "ack" /\ a.ackno = m.seq + 1 BY <1>8, <1>10 DEF Seg
<1> HIDE DEF d, a
<1>13. Turns(d, x, "ESTABLISHED") /\ x.tw = d.tw BY <1>11, TurnsState DEF Sends, State
<1> HIDE DEF x
<1>14. /\ x \in Contexts /\ x.s.state = "ESTABLISHED" /\ x.tw = l.tw /\ x.buf = l.buf
       /\ x.out = {a} /\ x.s.rnxt = m.seq + 1 /\ x.s.irs = m.seq
       /\ x.s.una = m.ackno /\ x.s.rtx = q /\ x.s.nxt = l.s.nxt /\ x.s.sock = "open"
       /\ x.s.iss = l.s.iss /\ x.s.ooo = l.s.ooo /\ ~x.s.isAPPClose
  BY <1>8, <1>10, <1>11, <1>13 DEF Sends, Turns, SameFields
<1>15. Transmits(e, x, f, x.s.rtx, k) /\ f.s.una = x.s.una
  BY <1>14, SegmentSent
<1> HIDE DEF f
<1>16. f \in Contexts /\ f.s.state = "ESTABLISHED" /\ f.s.sock = "open"
  BY <1>14, <1>15 DEF Transmits
<1>17. f.s.nxt \in Nat /\ f.s.rnxt = m.seq + 1 /\ l.s.nxt <= f.s.nxt /\ f.s.irs = m.seq
         /\ f.s.una = m.ackno /\ f.tw = l.tw /\ f.s.ooo = l.s.ooo /\ f.s.iss = l.s.iss
         /\ f.s.nxt + f.buf = l.s.nxt + l.buf
  BY <1>14, <1>15, <1>16, ContextFields DEF Transmits
<1>18. Moves(l.s, f.s)
  <2>1. l.s.rnxt = 0 BY <1>3, <1>5 DEF Stage
  <2> QED BY <1>2, <1>5, <1>6, <1>16, <1>17, <2>1 DEF Moves, Diagram, Finished
<1>19. Stage(f.s, k)
  BY <1>14, <1>15, <1>16 DEF Transmits, Stage, Opening, Finished
<1>20. Receives(l.s, f.s, {m}) BY <1>2, <1>5, <1>17 DEF Receives
<1>21. \A y \in f.s.rtx :
         y \in l.s.rtx \/ (y.kind = "data" /\ l.s.nxt <= y.seq /\ y.seq < f.s.nxt)
  BY <1>7, <1>14, <1>15 DEF Transmits
<1>22. \A y \in f.out : Reply(e, l.s, f.s, {m}, y)
  <2> SUFFICES ASSUME NEW y \in f.out PROVE Reply(e, l.s, f.s, {m}, y)
    OBVIOUS
  <2>1. y = a \/ y \in l.s.rtx \cup f.s.rtx BY <1>7, <1>14, <1>15, <1>16 DEF Transmits
  <2>2. CASE y = a BY <1>12, <1>16, <1>17, <2>2 DEF Reply, Incoming, State
  <2>3. CASE y \in l.s.rtx \cup f.s.rtx
    <3>1. y.src = e
      <4>1. CASE y \in l.s.rtx BY <1>3, <4>1 DEF Queue
      <4>2. CASE y \in f.s.rtx \ l.s.rtx BY <1>7, <1>14, <1>15, <4>2 DEF Transmits
      <4> QED BY <2>3, <4>1, <4>2
    <3> QED BY <2>3, <3>1 DEF Reply
  <2> QED BY <2>1, <2>2, <2>3
<1>23. f.s.state \in Incoming BY <1>16 DEF Incoming, State
<1>24. f.tw <= l.tw BY <1>3, <1>17, ContextFields
<1>25. Advance(e, l, f, {m}, k)
  BY <1>2, <1>5, <1>16, <1>17, <1>18, <1>19, <1>20, <1>21, <1>22, <1>23, <1>24
  DEF Advance
<1> QED
  BY <1>1, <1>4, <1>16, <1>25, ReceivedAdvances DEF Outcome, Quiet, l, k, IInv, TypeOK

\* Segment text m, noted in d, is acknowledged, taken for a FIN or neither.
LEMMA TextAdvances ==
  ASSUME NEW e \in Ep, NEW c \in Contexts, NEW d \in Contexts, NEW l, NEW m \in Segment,
         NEW g \in {d, send_ack(e, d, d.s.nxt, d.s.rnxt), process_fin_packet(e, d, m)},
         g \in {d, send_ack(e, d, d.s.nxt, d.s.rnxt)} \/ Fin(m),
         c.s.sock = "open", c.s.state \in Incoming, Stage(c.s, l),
         d.s.sock = "open", d.s.state = c.s.state,
         d.s.iss = c.s.iss, d.s.una = c.s.una, d.s.nxt = c.s.nxt, d.s.rtx = c.s.rtx,
         d.s.isAPPClose = c.s.isAPPClose, d.buf = c.buf, d.tw = c.tw, d.out = {},
         Receives(c.s, d.s, {m}), c.s.rnxt <= d.s.rnxt, d.s.ooo \subseteq c.s.ooo \cup {m}
  PROVE  g \in Contexts /\ Advance(e, c, g, {m}, l)
<1>1. CASE Fin(m) /\ g = process_fin_packet(e, d, m)
  BY <1>1, FinTurns, FinAdvances
<1>2. CASE g \in {d, send_ack(e, d, d.s.nxt, d.s.rnxt)}
  <2> DEFINE a == Seg(e, "ack", d.s.nxt, d.s.rnxt)
             r == send_ack(e, d, d.s.nxt, d.s.rnxt)
  <2>1. d.s.nxt \in Nat /\ d.s.rnxt \in Nat /\ c.tw \in Nat BY ContextFields
  <2>2. Sends(d, r, {a}) BY <2>1, SendsReply
  <2>3. a.src = e /\ a.kind = "ack" /\ a.ackno = d.s.rnxt BY DEF Seg
  <2> HIDE DEF a, r
  <2>4. /\ g \in Contexts /\ g.s = d.s /\ g.buf = c.buf /\ g.tw <= c.tw
        /\ g.out \subseteq {a}
    BY <1>2, <2>1, <2>2 DEF Sends, r
  <2>5. \A x \in g.out : Reply(e, c.s, g.s, {m}, x)
    BY <2>3, <2>4 DEF Reply
  <2>6. g.s.state = "SYN_SENT" => g.s.rnxt = c.s.rnxt
    BY <2>4 DEF Incoming
  <2> HIDE <1>2
  <2> QED BY <2>4, <2>5, <2>6, ReceiveAdvances
<1> QED BY <1>1, <1>2

LEMMA RecvInOrderOutcome ==
  ASSUME IInv, StageInv, NEW e \in Ep, RecvInOrder(e) PROVE Outcome(e)
<1> DEFINE l == Local(e)
           q == tcb[e].ooo
           c(nx, b) == [l EXCEPT !.s.rnxt = nx, !.s.ooo = {x \in q : x.seq >= nx},
                                 !.s.ackLast = b]
           f(m, nx, a) == IF Fin(m) THEN process_fin_packet(e, c(nx, a[2]), m)
                          ELSE IF a[1] THEN send_ack(e, c(nx, a[2]), c(nx, a[2]).s.nxt, nx)
                          ELSE c(nx, a[2])
<1>1. PICK m \in Arriving(e) :
        /\ Text(e, m) /\ m.seq = tcb[e].rnxt
        /\ \E nx \in m.seq..(m.seq + 1 + Cardinality(tcb[e].ooo)),
              a \in send_ack_or_not(tcb[e]), h \in SUBSET Int :
             /\ nx >= m.seq + get_seg_len(m)
             /\ Contiguous(q, m.seq + get_seg_len(m), nx)
             /\ got' = [got EXCEPT ![e] = @ \cup h]
             /\ Handled(e, m, f(m, nx, a))
        /\ UNCHANGED sockets
  <2>1. PICK m \in Arriving(e) :
          /\ Text(e, m) /\ tcb[e].state \in TextStates /\ m.seq = tcb[e].rnxt
          /\ \E nx \in m.seq..(m.seq + 1 + Cardinality(tcb[e].ooo)),
                a \in send_ack_or_not(tcb[e]) :
               LET new == (IF m.kind = "data" THEN {m.seq} ELSE {})
                   popped == DataSeqs({x \in q : x.seq < nx})
               IN  /\ nx >= m.seq + get_seg_len(m)
                   /\ Contiguous(q, m.seq + get_seg_len(m), nx)
                   /\ got' = [got EXCEPT ![e] = @ \cup new \cup popped]
                   /\ handed' = [handed EXCEPT
                                   ![e] = @ + Cardinality(new) + Cardinality(popped)]
                   /\ Handled(e, m, f(m, nx, a))
          /\ UNCHANGED sockets
    BY DEF RecvInOrder
  <2>2. PICK nx \in m.seq..(m.seq + 1 + Cardinality(tcb[e].ooo)),
             a \in send_ack_or_not(tcb[e]) :
          LET new == (IF m.kind = "data" THEN {m.seq} ELSE {})
              popped == DataSeqs({x \in q : x.seq < nx})
          IN  /\ nx >= m.seq + get_seg_len(m)
              /\ Contiguous(q, m.seq + get_seg_len(m), nx)
              /\ got' = [got EXCEPT ![e] = @ \cup new \cup popped]
              /\ Handled(e, m, f(m, nx, a))
    BY <2>1
  <2> DEFINE new == (IF m.kind = "data" THEN {m.seq} ELSE {})
             popped == DataSeqs({x \in q : x.seq < nx})
             h == new \cup popped
  <2>3. \A x \in q : x.seq \in Int BY LocalFields DEF TCB, Segment
  <2>4. h \in SUBSET Int BY <2>3, ArrivingType DEF DataSeqs
  <2>5. got' = [got EXCEPT ![e] = (@ \cup new) \cup popped] BY <2>2
  <2> HIDE DEF new, popped
  <2>6. got' = [got EXCEPT ![e] = @ \cup h] BY <2>5
  <2> HIDE DEF h, f
  <2> QED BY <2>1, <2>2, <2>4, <2>6
<1>2. PICK nx \in m.seq..(m.seq + 1 + Cardinality(tcb[e].ooo)),
            a \in send_ack_or_not(tcb[e]), h \in SUBSET Int :
        /\ nx >= m.seq + get_seg_len(m)
        /\ Contiguous(q, m.seq + get_seg_len(m), nx)
        /\ got' = [got EXCEPT ![e] = @ \cup h]
        /\ Handled(e, m, f(m, nx, a))
  BY <1>1
<1>3. m \in Segment /\ m.seq \in Nat BY ArrivingType
<1>4. nx \in Nat /\ nx >= m.seq BY <1>2, <1>3
<1>5. /\ l \in Contexts /\ l.s = tcb[e] /\ l.out = {} /\ Stage(l.s, load[e])
      /\ l.s.state \in Incoming /\ l.s.sock = "open" /\ q \subseteq Segment
      /\ InIncoming(e)
  BY <1>1, LocalFields, ContextFields DEF Text, Valid, InIncoming
<1>6. a[2] \in BOOLEAN
  <2>1. tcb[e].ackLast \in BOOLEAN BY LocalType DEF TCB
  <2>2. \/ a = <<TRUE, tcb[e].ackLast>> \/ a = <<TRUE, TRUE>>
        \/ a = <<FALSE, FALSE>>
    BY DEF send_ack_or_not
  <2>3. CASE a = <<TRUE, tcb[e].ackLast>> BY <2>1, <2>3
  <2>4. CASE a = <<TRUE, TRUE>> BY <2>4
  <2>5. CASE a = <<FALSE, FALSE>> BY <2>5
  <2> QED BY <2>2, <2>3, <2>4, <2>5
<1> DEFINE b == a[2]
           d == c(nx, b)
           g == f(m, nx, a)
<1>7. /\ d \in Contexts /\ d.buf = l.buf /\ d.out = {} /\ d.tw = l.tw
      /\ d.s.state = l.s.state /\ d.s.sock = l.s.sock /\ d.s.iss = l.s.iss
      /\ d.s.irs = l.s.irs /\ d.s.una = l.s.una /\ d.s.nxt = l.s.nxt
      /\ d.s.rnxt = nx /\ d.s.rtx = l.s.rtx /\ d.s.ooo = Rest(q, nx)
      /\ d.s.isAPPClose = l.s.isAPPClose
  <2> DEFINE o == Rest(q, nx)
             t == [l.s EXCEPT !.rnxt = nx, !.ooo = o, !.ackLast = b]
  <2>1. o \subseteq Segment BY <1>5 DEF Rest
  <2>2. d = [l EXCEPT !.s = t] BY <1>5 DEF Contexts, TCB, Rest
  <2>3. l.s \in TCB BY <1>5, ContextFields
  <2> HIDE DEF l, o, d, b
  <2>4. b \in BOOLEAN BY <1>6 DEF b
  <2>5. /\ t \in TCB /\ t.state = l.s.state
        /\ t.sock = l.s.sock /\ t.iss = l.s.iss /\ t.irs = l.s.irs
        /\ t.una = l.s.una /\ t.nxt = l.s.nxt /\ t.rnxt = nx
        /\ t.rtx = l.s.rtx /\ t.ooo = o /\ t.isAPPClose = l.s.isAPPClose
    BY <1>4, <2>1, <2>3, <2>4 DEF TCB
  <2> HIDE DEF t
  <2>6. d \in Contexts /\ d.buf = l.buf /\ d.out = {} /\ d.tw = l.tw /\ d.s = t
    BY <1>5, <2>2, <2>5 DEF Contexts
  <2> QED BY <2>5, <2>6 DEF o
<1>8. Handled(e, m, g) BY <1>2
<1>9. /\ g \in {d, send_ack(e, d, d.s.nxt, d.s.rnxt), process_fin_packet(e, d, m)}
      /\ g \in {d, send_ack(e, d, d.s.nxt, d.s.rnxt)} \/ Fin(m)
  <2>1. d.s.rnxt = nx BY <1>7
  <2> QED BY <2>1
<1> HIDE DEF d, g, b, l
<1>10. Receives(l.s, d.s, {m})
  <2> DEFINE n == get_seg_len(m)
  <2>1. n \in {0, 1} /\ (n = 1 => m.kind = "data")
    BY <1>1 DEF Text, get_seg_len, Syn
  <2>2. nx >= m.seq + n /\ \A i \in (m.seq + n)..(nx - 1) : i \in DataSeqs(q)
    BY <1>2 DEF Contiguous
  <2>3. n = 1 => m.seq \in DataSeqs({m}) BY <2>1 DEF DataSeqs
  <2> HIDE DEF n
  <2>4. nx > m.seq => nx - 1 \in DataSeqs(q) \cup DataSeqs({m})
    BY <1>3, <1>4, <2>1, <2>2, <2>3
  <2>5. DataSeqs(q) \cup DataSeqs({m}) \subseteq DataSeqs(q \cup {m}) BY DEF DataSeqs
  <2>6. l.s.rnxt = m.seq /\ l.s.ooo = q BY <1>1, <1>5
  <2>7. CASE nx = m.seq BY <1>5, <1>7, <2>6, <2>7 DEF Receives
  <2>8. CASE nx > m.seq
    <3>1. nx - 1 \in DataSeqs(q \cup {m}) BY <2>4, <2>5, <2>8
    <3> QED BY <1>5, <1>7, <2>6, <2>8, <3>1 DEF Receives
  <2> QED BY <1>3, <1>4, <2>7, <2>8
<1>11. l.s.rnxt <= d.s.rnxt BY <1>1, <1>4, <1>5, <1>7
<1>12. d.s.ooo \subseteq l.s.ooo \cup {m} BY <1>5, <1>7 DEF Rest
<1>13. g \in Contexts /\ Advance(e, l, g, {m}, load[e])
  BY <1>3, <1>5, <1>7, <1>9, <1>10, <1>11, <1>12, TextAdvances
<1>14. got' \in [Ep -> SUBSET Nat] /\ \A k \in Ep \ {e} : got'[k] = got[k]
  <2>1. IInv' BY RecvInOrderStep
  <2>2. got \in [Ep -> SUBSET Nat] BY DEF IInv, TypeOK
  <2> QED BY <1>2, <2>1, <2>2 DEF IInv, TypeOK
<1> QED
  BY <1>1, <1>5, <1>8, <1>13, <1>14, ReceivedAdvances DEF Outcome, l

LEMMA RecvOutOfOrderOutcome ==
  ASSUME IInv, StageInv, NEW e \in Ep, RecvOutOfOrder(e) PROVE Outcome(e)
<1> DEFINE l == Local(e)
           o(m) == IF m.seq \in SeqNums(l.s.ooo) THEN l.s.ooo ELSE l.s.ooo \cup {m}
           c(m) == [l EXCEPT !.s.ooo = o(m)]
           f(m) == IF Fin(m) THEN process_fin_packet(e, c(m), m)
                   ELSE send_ack(e, c(m), c(m).s.nxt, c(m).s.rnxt)
<1>1. PICK m \in Arriving(e) :
        /\ Text(e, m) /\ tcb[e].state \in TextStates /\ m.seq > tcb[e].rnxt
        /\ Handled(e, m, f(m)) /\ Quiet
  BY DEF RecvOutOfOrder
<1> DEFINE q == o(m)
           d == c(m)
           g == f(m)
<1>2. m \in Segment BY ArrivingType
<1>3. /\ l \in Contexts /\ l.s = tcb[e] /\ l.out = {} /\ Stage(l.s, load[e])
      /\ l.s.state \in Incoming /\ l.s.sock = "open"
      /\ l.s \in TCB /\ l.s.ooo \subseteq Segment /\ l.s.rnxt \in Nat
  BY <1>1, LocalFields, ContextFields DEF Text, Valid, InIncoming
<1>4. q \subseteq Segment /\ q \subseteq l.s.ooo \cup {m} BY <1>2, <1>3
<1>5. /\ d \in Contexts /\ d.buf = l.buf /\ d.out = {} /\ d.tw = l.tw
      /\ d.s.state = l.s.state /\ d.s.sock = l.s.sock /\ d.s.iss = l.s.iss
      /\ d.s.irs = l.s.irs /\ d.s.una = l.s.una /\ d.s.nxt = l.s.nxt
      /\ d.s.rnxt = l.s.rnxt /\ d.s.rtx = l.s.rtx /\ d.s.ooo = q
      /\ d.s.isAPPClose = l.s.isAPPClose
  <2> HIDE DEF q
  <2>1. d = [l EXCEPT !.s.ooo = q] BY DEF q
  <2> HIDE DEF d, l
  <2> QED BY <1>3, <1>4, <2>1 DEF Contexts, TCB
<1>6. Handled(e, m, g) BY <1>1
<1>7. /\ g \in {d, send_ack(e, d, d.s.nxt, d.s.rnxt), process_fin_packet(e, d, m)}
      /\ g \in {d, send_ack(e, d, d.s.nxt, d.s.rnxt)} \/ Fin(m)
  OBVIOUS
<1> HIDE DEF d, g, l, q
<1>8. Receives(l.s, d.s, {m}) BY <1>3, <1>5 DEF Receives
<1>9. l.s.rnxt <= d.s.rnxt /\ d.s.ooo \subseteq l.s.ooo \cup {m} BY <1>3, <1>4, <1>5
<1>10. g \in Contexts /\ Advance(e, l, g, {m}, load[e])
  BY <1>2, <1>3, <1>5, <1>7, <1>8, <1>9, TextAdvances
<1> QED
  BY <1>1, <1>6, <1>10, ReceivedAdvances DEF Outcome, Quiet, l, IInv, TypeOK

LEMMA RecvLateTextOutcome ==
  ASSUME IInv, StageInv, NEW e \in Ep, RecvLateText(e) PROVE Outcome(e)
<1> DEFINE c == Local(e)
           f(m) == IF Fin(m) THEN process_fin_packet(e, c, m) ELSE c
<1>1. PICK m \in Arriving(e) : InIncoming(e) /\ Handled(e, m, f(m)) /\ Quiet
  BY DEF RecvLateText, Text, Valid
<1> DEFINE g == f(m)
<1>2. m \in Segment BY ArrivingType
<1>3. /\ c \in Contexts /\ c.s = tcb[e] /\ c.out = {} /\ Stage(c.s, load[e])
      /\ c.s.state \in Incoming /\ c.s.sock = "open" /\ c.s.rnxt \in Nat
  BY <1>1, LocalFields, ContextFields DEF InIncoming
<1>4. Handled(e, m, g) BY <1>1
<1>5. /\ g \in {c, send_ack(e, c, c.s.nxt, c.s.rnxt), process_fin_packet(e, c, m)}
      /\ g \in {c, send_ack(e, c, c.s.nxt, c.s.rnxt)} \/ Fin(m)
  OBVIOUS
<1> HIDE DEF c, g
<1>6. Receives(c.s, c.s, {m}) BY DEF Receives
<1>7. c.s.rnxt <= c.s.rnxt /\ c.s.ooo \subseteq c.s.ooo \cup {m} BY <1>3
<1>8. g \in Contexts /\ Advance(e, c, g, {m}, load[e])
  BY <1>2, <1>3, <1>5, <1>6, <1>7, TextAdvances
<1> QED
  BY <1>1, <1>4, <1>8, ReceivedAdvances DEF Outcome, Quiet, c, IInv, TypeOK

----------------------------------------------------------------------------
(* TIMER_EVENTs *)

\* An event that consumes a timer and leaves the application alone.
LEMMA FiredAdvances ==
  ASSUME IInv, StageInv, NEW e \in Ep, NEW c \in Contexts, NEW d \in Contexts,
         NEW pending \in SUBSET timers,
         c.s = tcb[e], c.tw <= tw[e], c.buf = buf[e], Advance(e, c, d, {}, load[e]),
         Commit(e, d, net, pending), UNCHANGED load, Quiet
  PROVE  Outcome(e)
<1>1. UNCHANGED <<load, got>> /\ sockets' = sockets BY DEF Quiet
<1>2. Frame(e) BY <1>1, HandledFrame
<1>3. c.buf = buf[e] + (load[e] - load'[e]) BY <1>1, LocalFields
<1>4. Advance(e, c, d, {}, load'[e]) BY <1>1
<1>5. net \in SUBSET net /\ {} \in SUBSET Arriving(e) OBVIOUS
<1> QED BY <1>1, <1>2, <1>3, <1>4, <1>5 DEF Advances, Outcome

\* One that frees the TCB.
LEMMA FiredCloses ==
  ASSUME IInv, StageInv, NEW e \in Ep, NEW d \in Contexts,
         NEW pending \in SUBSET timers,
         tcb[e].sock = "open", d.s.sock # "open", d.s.state = "CLOSED",
         d.s.rtx = {}, d.s.ooo = {}, d.s.isAPPClose => tcb[e].isAPPClose,
         d.s.sock = "nulltcb" \/ tcb[e].state \in Opening,
         d.out = {}, d.buf = buf[e], d.tw <= tw[e],
         Commit(e, d, net, pending), UNCHANGED load, Quiet
  PROVE  Outcome(e)
<1>1. UNCHANGED <<sockets, load, got>> BY DEF Quiet
<1>2. Frame(e) BY <1>1, HandledFrame
<1>3. net \in SUBSET net OBVIOUS
<1> QED BY <1>1, <1>2, <1>3 DEF Closes, Outcome

\* One that leaves the socket as it is.
LEMMA FiredIdles ==
  ASSUME IInv, StageInv, NEW e \in Ep, NEW d \in {Local(e), Abort(Local(e))},
         NEW pending \in SUBSET timers,
         Commit(e, d, net, pending), UNCHANGED load, Quiet
  PROVE  Outcome(e)
<1>1. /\ d \in Contexts /\ d.s = tcb[e] /\ d.buf = buf[e] /\ d.out = {}
      /\ d.tw <= tw[e]
  <2> DEFINE c == Local(e)
  <2>1. /\ c \in Contexts /\ c.s = tcb[e] /\ c.buf = buf[e] /\ c.tw = tw[e]
        /\ c.out = {} /\ tw[e] \in Nat
    BY LocalFields
  <2>2. d \in {c, Abort(c)} OBVIOUS
  <2> HIDE DEF c
  <2>3. tw[e] <= tw[e] BY <2>1
  <2> QED BY <2>1, <2>2, <2>3 DEF Abort, Contexts
<1>2. UNCHANGED <<sockets, load, got>> BY DEF Quiet
<1>3. net \in SUBSET net OBVIOUS
<1> QED BY <1>1, <1>2, <1>3, CommitIdles DEF Outcome

\* Removing x from the queue, sending it and queueing it again advances.
LEMMA RequeueAdvances ==
  ASSUME NEW e \in Ep, NEW c \in Contexts, Queue(e, c.s), NEW x \in c.s.rtx, NEW l,
         c.s.sock = "open", Stage(c.s, l), c.out = {},
         NEW d \in Contexts, d.s.rtx = c.s.rtx \ {x}, d.s.sock = c.s.sock,
         d.s.state = c.s.state, d.s.iss = c.s.iss, d.s.irs = c.s.irs,
         d.s.una = c.s.una, d.s.nxt = c.s.nxt, d.s.rnxt = c.s.rnxt,
         d.s.ooo = c.s.ooo, d.s.isAPPClose = c.s.isAPPClose,
         d.buf = c.buf, d.tw = c.tw, d.out = {}
  PROVE  LET g == add_timeout_event(send_to_network(d, x), x)
         IN  g \in Contexts /\ Advance(e, c, g, {}, l)
<1> DEFINE f == send_to_network(d, x)
           g == add_timeout_event(f, x)
<1>1. x \in Segment /\ c.s.rnxt \in Nat /\ c.tw \in Nat BY ContextFields
<1>2. Sends(d, f, {x}) BY <1>1, SendsSegment
<1> HIDE DEF f
<1>3. /\ g \in Contexts /\ g.buf = f.buf /\ g.s.rtx = f.s.rtx \cup {x}
      /\ g.s.state = f.s.state
      /\ g.s.sock = f.s.sock /\ g.s.iss = f.s.iss /\ g.s.irs = f.s.irs
      /\ g.s.una = f.s.una /\ g.s.nxt = f.s.nxt /\ g.s.rnxt = f.s.rnxt
      /\ g.s.ooo = f.s.ooo /\ g.out = f.out /\ g.tw = f.tw
      /\ g.s.isAPPClose = f.s.isAPPClose
  BY <1>1, <1>2, AddTimeout, AddTimeoutMore DEF Sends
<1> HIDE DEF g
<1>4. /\ g.buf = c.buf /\ g.s.rtx = c.s.rtx /\ g.s.state = c.s.state
      /\ g.s.sock = c.s.sock /\ g.s.iss = c.s.iss /\ g.s.irs = c.s.irs
      /\ g.s.una = c.s.una /\ g.s.nxt = c.s.nxt /\ g.s.rnxt = c.s.rnxt
      /\ g.s.ooo = c.s.ooo /\ g.out = {x} /\ g.tw <= c.tw
      /\ g.s.isAPPClose = c.s.isAPPClose
  BY <1>1, <1>2, <1>3 DEF Sends
<1>5. \A y \in g.out : Reply(e, c.s, g.s, {}, y) BY <1>4 DEF Queue, Reply
<1>6. Receives(c.s, g.s, {}) BY <1>4 DEF Receives
<1>7. c.s.rnxt <= g.s.rnxt /\ g.s.ooo \subseteq c.s.ooo \cup {} BY <1>1, <1>4
<1>8. Advance(e, c, g, {}, l) BY <1>3, <1>4, <1>5, <1>6, <1>7, ReceiveAdvances
<1> QED BY <1>3, <1>8 DEF f, g

LEMMA RtoTimerResendOutcome ==
  ASSUME IInv, StageInv, NEW e \in Ep, RtoTimerResend(e) PROVE Outcome(e)
<1> DEFINE c == Local(e)
<1>1. PICK t \in Timers(e), x \in tcb[e].rtx :
        /\ tcb[e].sock = "open" /\ UNCHANGED load /\ Quiet
        /\ \E d \in {resend_syn(e, c, x), resend_segment(c, x)} :
             Commit(e, d, net, timers \ {t})
  BY DEF RtoTimerResend, Fired
<1>2. PICK d \in {resend_syn(e, c, x), resend_segment(c, x)} :
        Commit(e, d, net, timers \ {t})
  BY <1>1
<1>3. /\ c \in Contexts /\ Sender(e, c) /\ c.s = tcb[e] /\ c.out = {} /\ c.s.sock = "open"
      /\ Stage(c.s, load[e]) /\ Queue(e, c.s) /\ c.buf = buf[e] /\ c.tw = tw[e]
      /\ tw[e] \in Nat
  BY <1>1, LocalFields
<1> DEFINE q == c.s.rtx \ {x}
           n == c.s.synRetries + 1
           k == [c EXCEPT !.s.rtx = q]
           t1 == [c.s EXCEPT !.una = c.s.iss, !.nxt = c.s.iss + 1,
                             !.rtx = q, !.synRetries = n]
           k1 == [c EXCEPT !.s = t1]
           g  == add_timeout_event(send_to_network(k, x), x)
           g1 == add_timeout_event(send_to_network(k1, x), x)
<1>4. resend_segment(c, x) = g BY DEF resend_segment
<1>5. \/ resend_syn(e, c, x) = Abort(c)
      \/ c.s.state \in {"SYN_SENT", "SYN_RECEIVED"} /\ resend_syn(e, c, x) = g1
      \/ c.s.state \in {"SYN_SENT", "SYN_RECEIVED"} /\ resend_syn(e, c, x) = tcp_close_socket(c)
  <2>1. [c EXCEPT !.s.una = c.s.iss, !.s.nxt = c.s.iss + 1,
                  !.s.rtx = @ \ {x}, !.s.synRetries = @ + 1] = k1
    <3> HIDE DEF c
    <3> QED BY <1>3 DEF Contexts, TCB
  <2> HIDE DEF c, k1
  <2> QED BY <2>1 DEF resend_syn
<1>6. \/ d = g \/ d = Abort(c)
      \/ d = g1 /\ c.s.state \in {"SYN_SENT", "SYN_RECEIVED"}
      \/ d = tcp_close_socket(c) /\ c.s.state \in {"SYN_SENT", "SYN_RECEIVED"}
  <2> HIDE DEF g, g1
  <2> QED BY <1>4, <1>5
<1>7. CASE d = g
  <2>1. q \subseteq Segment BY <1>3, ContextFields
  <2> HIDE DEF c, q
  <2>2. /\ k \in Contexts /\ k.s.rtx = q /\ k.s.sock = c.s.sock
        /\ k.s.state = c.s.state /\ k.s.iss = c.s.iss /\ k.s.irs = c.s.irs
        /\ k.s.una = c.s.una /\ k.s.nxt = c.s.nxt /\ k.s.rnxt = c.s.rnxt
        /\ k.s.ooo = c.s.ooo /\ k.s.isAPPClose = c.s.isAPPClose
        /\ k.buf = c.buf /\ k.tw = c.tw /\ k.out = {}
    BY <1>3, <2>1 DEF Contexts, TCB
  <2> HIDE DEF k
  <2>3. d \in Contexts /\ Advance(e, c, d, {}, load[e])
    BY <1>1, <1>3, <1>7, <2>2, RequeueAdvances DEF q
  <2>4. c.tw <= tw[e] BY <1>3
  <2> QED BY <1>1, <1>2, <1>3, <2>3, <2>4, FiredAdvances
<1>8. CASE d = g1 /\ c.s.state \in {"SYN_SENT", "SYN_RECEIVED"}
  <2>1. q \subseteq Segment /\ n \in Nat /\ c.s \in TCB /\ c.s.iss \in Nat
    BY <1>3, ContextFields
  <2>2. c.s.una = c.s.iss /\ c.s.nxt = c.s.iss + 1 /\ c.s.iss + 1 \in Nat
    BY <1>3, <1>8, <2>1 DEF Sender, Handshake, Opening
  <2> HIDE DEF c, q, n
  <2>3. /\ t1 \in TCB /\ t1.rtx = q /\ t1.sock = c.s.sock
        /\ t1.state = c.s.state /\ t1.iss = c.s.iss /\ t1.irs = c.s.irs
        /\ t1.una = c.s.una /\ t1.nxt = c.s.nxt /\ t1.rnxt = c.s.rnxt
        /\ t1.ooo = c.s.ooo /\ t1.isAPPClose = c.s.isAPPClose
    BY <2>1, <2>2 DEF TCB
  <2> HIDE DEF t1
  <2>4. k1 \in Contexts /\ k1.s = t1 /\ k1.buf = c.buf /\ k1.tw = c.tw /\ k1.out = {}
    BY <1>3, <2>3 DEF Contexts
  <2> HIDE DEF k1
  <2>5. d \in Contexts /\ Advance(e, c, d, {}, load[e])
    BY <1>1, <1>3, <1>8, <2>3, <2>4, RequeueAdvances DEF q
  <2>6. c.tw <= tw[e] BY <1>3
  <2> QED BY <1>1, <1>2, <1>3, <2>5, <2>6, FiredAdvances
<1>9. CASE d = Abort(c)
  BY <1>1, <1>2, <1>9, FiredIdles
<1>10. CASE d = tcp_close_socket(c) /\ c.s.state \in {"SYN_SENT", "SYN_RECEIVED"}
  <2> HIDE DEF c
  <2>1. d \in Contexts /\ d.s = NoSocket /\ d.out = {} /\ d.buf = buf[e] /\ d.tw = tw[e]
    BY <1>3, <1>10, NoSocketType DEF tcp_close_socket, Contexts
  <2>2. d.tw <= tw[e] BY <1>3, <2>1
  <2>3. tcb[e].state \in Opening BY <1>3, <1>10 DEF Opening
  <2>4. /\ d.s.sock # "open" /\ d.s.state = "CLOSED" /\ d.s.rtx = {} /\ d.s.ooo = {}
        /\ ~d.s.isAPPClose
    BY <2>1 DEF NoSocket
  <2> QED BY <1>1, <1>2, <2>1, <2>2, <2>3, <2>4, FiredCloses
<1> QED BY <1>6, <1>7, <1>8, <1>9, <1>10

LEMMA RtoTimerOutcome ==
  ASSUME IInv, StageInv, NEW e \in Ep, RtoTimer(e) PROVE Outcome(e)
<1>1. CASE RtoTimerIgnored(e) BY <1>1, FiredIdles DEF RtoTimerIgnored, Fired
<1>2. CASE RtoTimerDangling(e) BY <1>2, FiredIdles DEF RtoTimerDangling, Fired
<1> QED BY <1>1, <1>2, RtoTimerResendOutcome DEF RtoTimer

LEMMA TimeWaitTimerOutcome ==
  ASSUME IInv, StageInv, NEW e \in Ep, TimeWaitTimer(e) PROVE Outcome(e)
<1> DEFINE l == Local(e)
           c == [l EXCEPT !.tw = @ - 1]
           x == tcp_change_state(c, "CLOSED")
           u == [c EXCEPT !.s.restarted = FALSE]
           d == IF c.s.sock # "open" THEN Abort(c)
                ELSE IF c.s.restarted THEN u ELSE delete_tcb(x)
<1>1. tw[e] > 0 /\ Commit(e, d, net, timers) /\ UNCHANGED load /\ Quiet
  BY DEF TimeWaitTimer
<1>2. /\ l \in Contexts /\ l.s = tcb[e] /\ l.out = {} /\ l.buf = buf[e] /\ l.tw = tw[e]
      /\ tw[e] \in Nat /\ Stage(l.s, load[e])
  BY LocalFields
<1> HIDE DEF l
<1>3. /\ c \in Contexts /\ c.s = tcb[e] /\ c.buf = buf[e] /\ c.out = {}
      /\ c.tw <= tw[e] /\ c.tw \in Nat
  <2>1. l.tw - 1 \in Nat /\ l.tw - 1 <= tw[e] BY <1>1, <1>2
  <2> QED BY <1>2, <2>1 DEF Contexts
<1> HIDE DEF c
<1>4. CASE c.s.sock # "open"
  <2>1. d = Abort(c) BY <1>4
  <2> HIDE DEF d
  <2>2. d \in Contexts /\ d.s = tcb[e] /\ d.buf = buf[e] /\ d.out = {} /\ d.tw <= tw[e]
    BY <1>3, <2>1 DEF Abort, Contexts
  <2>3. net \in SUBSET net /\ UNCHANGED <<sockets, load, got>> BY <1>1 DEF Quiet
  <2> QED BY <1>1, <2>2, <2>3, CommitIdles DEF Outcome
<1>5. CASE c.s.sock = "open" /\ c.s.restarted
  <2>1. d = u BY <1>5
  <2>2. /\ u \in Contexts /\ u.buf = c.buf /\ u.out = {} /\ u.tw = c.tw
        /\ SameFields(c.s, u.s) /\ u.s.state = c.s.state
        /\ u.s.isAPPClose = c.s.isAPPClose
    BY <1>3 DEF Contexts, TCB, SameFields
  <2> HIDE DEF d, u
  <2>3. u.tw <= c.tw BY <1>3, <2>2
  <2>4. \A y \in u.out : Reply(e, c.s, u.s, {}, y) BY <2>2
  <2>5. Advance(e, c, u, {}, load[e])
    BY <1>2, <1>3, <1>5, <2>2, <2>3, <2>4, StillAdvances
  <2> QED BY <1>1, <1>3, <2>1, <2>2, <2>5, FiredAdvances
<1>6. CASE c.s.sock = "open" /\ ~c.s.restarted
  <2>1. d = delete_tcb(x) BY <1>6
  <2> HIDE DEF d
  <2>2. Turns(c, x, "CLOSED") /\ x.tw = c.tw BY <1>3, TurnsState DEF State
  <2> HIDE DEF x
  <2>3. d \in Contexts
    BY <1>6, <2>1, <2>2, Closing DEF Turns, SameFields, Handles
  <2>4. /\ d.s.sock = "nulltcb" /\ d.s.state = "CLOSED" /\ d.s.rtx = {} /\ d.s.ooo = {}
        /\ d.s.isAPPClose = x.s.isAPPClose /\ d.out = x.out /\ d.buf = x.buf
        /\ d.tw = x.tw
    BY <2>1, <2>2 DEF Turns, delete_tcb, NoSocket, Contexts
  <2>5. /\ d.out = {} /\ d.buf = buf[e] /\ d.tw <= tw[e]
        /\ d.s.isAPPClose => tcb[e].isAPPClose
    BY <1>3, <2>2, <2>4 DEF Turns
  <2> QED BY <1>1, <1>3, <1>6, <2>3, <2>4, <2>5, FiredCloses
<1> QED BY <1>4, <1>5, <1>6

----------------------------------------------------------------------------
(* TRANSPORT_OUT events *)

\* The application generates k packets.
LEMMA GenerateFrame ==
  ASSUME IInv, NEW e \in Ep, NEW k \in 1..load[e], Generate(e, k),
         got' \in [Ep -> SUBSET Nat], \A f \in Ep \ {e} : got'[f] = got[f]
  PROVE  /\ Frame(e) /\ load'[e] = load[e] - k /\ k \in Nat /\ k > 0
         /\ load[e] \in Nat /\ load'[e] \in Nat /\ load[e] - load'[e] = k
<1>1. load \in [Ep -> Nat] /\ got \in [Ep -> SUBSET Nat] BY DEF IInv, TypeOK
<1>2. load[e] \in Nat BY <1>1
<1>3. k \in Nat /\ k > 0 /\ load[e] - k \in Nat /\ load[e] - k <= load[e] BY <1>2
<1>4. load' = [load EXCEPT ![e] = load[e] - k] BY <1>1 DEF Generate
<1>5. load' \in [Ep -> Nat] /\ load'[e] = load[e] - k BY <1>1, <1>3, <1>4
<1>6. \A f \in Ep \ {e} : load'[f] = load[f] BY <1>1, <1>4
<1> QED BY <1>1, <1>2, <1>3, <1>5, <1>6 DEF Frame

\* What SendSyn does not say of an active open.
LEMMA SendSynMore ==
  ASSUME NEW e \in Ep, NEW iss \in Nat, NEW c \in Contexts,
         c.s = create_TCB(iss), c.out = {}
  PROVE  LET d == send_syn(e, c)
         IN  /\ d.out = {Seg(e, "syn", iss, 0)} /\ d.tw = c.tw /\ d.buf = c.buf
             /\ ~d.s.isAPPClose /\ d.s.rnxt = 0
<1> DEFINE m == Seg(e, "syn", iss, 0)
           n == c.s.synRetries + 1
           t == [c.s EXCEPT !.una = iss, !.nxt = iss + 1, !.synRetries = n]
           d == [c EXCEPT !.s = t]
           f == tcp_change_state(d, "SYN_SENT")
           g == send_to_network(f, m)
           h == add_timeout_event(g, m)
<1>1. m \in Segment BY SegType DEF Kind
<1>2. /\ c.s \in TCB /\ c.s.iss = iss /\ ~c.s.isAPPClose /\ c.s.rnxt = 0
      /\ n \in Nat /\ iss + 1 \in Nat
  <2>1. c.s \in TCB /\ c.s.iss = iss BY CreateTCB
  <2>2. ~c.s.isAPPClose /\ c.s.rnxt = 0 /\ c.s.synRetries = 0
    BY DEF create_TCB, NoSocket
  <2> QED BY <2>1, <2>2
<1>3. [c EXCEPT !.s.una = iss, !.s.nxt = iss + 1, !.s.synRetries = @ + 1] = d
  BY <1>2 DEF Contexts, TCB
<1>4. send_syn(e, c) = h
  <2> HIDE DEF d
  <2> QED BY <1>2, <1>3 DEF send_syn
<1> HIDE DEF m, n
<1>5. t \in TCB BY <1>2 DEF TCB
<1>6. t.isAPPClose = c.s.isAPPClose /\ t.rnxt = c.s.rnxt BY <1>2 DEF TCB
<1> HIDE DEF t
<1>7. d \in Contexts /\ d.s = t /\ d.out = {} /\ d.tw = c.tw /\ d.buf = c.buf
  BY <1>5 DEF Contexts
<1> HIDE DEF d
<1>8. Turns(d, f, "SYN_SENT") /\ f.tw = d.tw BY <1>7, TurnsState DEF State
<1> HIDE DEF f
<1>9. Sends(f, g, {m}) BY <1>1, <1>8, SendsSegment DEF Turns
<1> HIDE DEF g
<1>10. /\ h.out = g.out /\ h.tw = g.tw /\ h.s.isAPPClose = g.s.isAPPClose
       /\ h.buf = g.buf /\ h.s.rnxt = g.s.rnxt
  BY <1>1, <1>9, AddTimeout, AddTimeoutMore DEF Sends
<1> HIDE DEF h
<1> QED
  BY <1>2, <1>4, <1>6, <1>7, <1>8, <1>9, <1>10 DEF Turns, SameFields, Sends, m

LEMMA AppConnectOutcome ==
  ASSUME IInv, StageInv, NEW e \in Ep, AppConnect(e) PROVE Outcome(e)
<1>1. PICK k \in 1..load[e] :
        /\ tcb[e].sock = "none" /\ buf[e] = 0 /\ sockets[e] < MaxSockets
        /\ Generate(e, k)
        /\ sockets' = [sockets EXCEPT ![e] = @ + 1]
        /\ got' = [got EXCEPT ![e] = {}]
        /\ LET c == [Local(e) EXCEPT !.buf = k,
                                     !.s = create_TCB(ISS[e][sockets[e] + 1])]
           IN  Commit(e, send_syn(e, c), net, timers)
  BY DEF AppConnect
<1> DEFINE iss == ISS[e][sockets[e] + 1]
           c == [Local(e) EXCEPT !.buf = k, !.s = create_TCB(iss)]
           d == send_syn(e, c)
           x == Seg(e, "syn", iss, 0)
<1>2. sockets[e] + 1 \in 1..MaxSockets
  BY <1>1, BoundAssumption DEF IInv, TypeOK
<1>3. iss \in Nat BY <1>2, IssAssumption
<1>4. got' \in [Ep -> SUBSET Nat] /\ got'[e] = {} /\ \A f \in Ep \ {e} : got'[f] = got[f]
  BY <1>1 DEF IInv, TypeOK
<1>5. Frame(e) /\ k \in Nat /\ load[e] - load'[e] = k BY <1>1, <1>4, GenerateFrame
<1>6. Commit(e, d, net, timers) BY <1>1
<1> HIDE DEF iss
<1>7. /\ c \in Contexts /\ c.s = create_TCB(iss) /\ c.arm = {} /\ c.out = {}
      /\ c.tw = tw[e] /\ c.buf = k
  <2>1. create_TCB(iss) \in TCB BY <1>3, CreateTCB
  <2>2. Local(e) \in Contexts /\ Local(e).arm = {} /\ Local(e).out = {}
          /\ Local(e).tw = tw[e]
    BY LocalType, LocalFields
  <2> QED BY <1>5, <2>1, <2>2 DEF Contexts
<1> HIDE DEF c
<1>8. /\ Opened(e, d, x) /\ d.s.state = "SYN_SENT" /\ d.out = {x} /\ d.tw = tw[e]
      /\ d.buf = k /\ ~d.s.isAPPClose /\ d.s.rnxt = 0
  BY <1>3, <1>7, SendSyn, SendSynMore
<1> HIDE DEF d
<1>9. d \in Contexts /\ d.s.iss = iss BY <1>8 DEF Opened, Seg
<1>10. x = Seg(e, "syn", d.s.iss, 0) BY <1>9
<1> HIDE DEF x
<1>11. Opens(e, d, x, net)
  BY <1>1, <1>4, <1>5, <1>6, <1>8, <1>9 DEF Opens, iss
<1>12. Connects(e) BY <1>1, <1>5, <1>8, <1>9, <1>10, <1>11 DEF Connects
<1> QED BY <1>12 DEF Outcome

LEMMA AppSendOutcome ==
  ASSUME IInv, StageInv, NEW e \in Ep, AppSend(e) PROVE Outcome(e)
<1>1. PICK k \in 1..load[e], w \in Windows :
        /\ buf[e] = 0 /\ tcb[e].waitFromApp /\ Generate(e, k)
        /\ LET c == [Local(e) EXCEPT !.buf = k]
               d == send_segment(e, c, w, load[e] - k)
           IN  Commit(e, IF c.s.sock = "nulltcb" THEN Abort(c)
                         ELSE [d EXCEPT !.s.waitFromApp = FALSE], net, timers)
        /\ UNCHANGED <<sockets, got, handed>>
  BY DEF AppSend
<1> DEFINE c == [Local(e) EXCEPT !.buf = k]
           l == load[e] - k
           d == send_segment(e, c, w, l)
           t == [d.s EXCEPT !.waitFromApp = FALSE]
           f == [d EXCEPT !.s = t]
           r == IF c.s.sock = "nulltcb" THEN Abort(c) ELSE f
<1>2. Commit(e, r, net, timers)
  <2>1. [d EXCEPT !.s.waitFromApp = FALSE] = f OBVIOUS
  <2> HIDE DEF f
  <2> QED BY <1>1, <2>1
<1>3. /\ Frame(e) /\ load'[e] = l /\ k \in Nat /\ k > 0 /\ load[e] \in Nat
      /\ load[e] - load'[e] = k
  BY <1>1, GenerateFrame DEF IInv, TypeOK
<1>4. /\ c \in Contexts /\ c.s = tcb[e] /\ c.buf = k /\ c.out = {} /\ c.tw = tw[e]
      /\ Stage(c.s, load[e]) /\ Queue(e, c.s) /\ tw[e] \in Nat
  <2> DEFINE b == Local(e)
  <2>1. /\ b \in Contexts /\ b.s = tcb[e] /\ b.out = {} /\ b.tw = tw[e]
        /\ Stage(tcb[e], load[e]) /\ Queue(e, tcb[e]) /\ tw[e] \in Nat
    BY LocalFields
  <2> HIDE DEF b
  <2> QED BY <1>3, <2>1 DEF Contexts, b
<1> HIDE DEF c, l
<1>5. /\ Queue(e, c.s) /\ Handshake(c.s) /\ c.s.state \notin Opening /\ c.s.sock # "none"
      /\ Receiver(c.s, got[e], handed[e])
  BY <1>1, <1>4, LocalType DEF Sender, Handshake, IInv, ReceiverInv
<1>6. CASE c.s.sock = "nulltcb"
  <2>1. r = Abort(c) BY <1>6
  <2> HIDE DEF r
  <2> DEFINE a == Abort(c)
  <2>5. c.halt \in BOOLEAN /\ [c EXCEPT !.halt = TRUE] \in Contexts BY <1>4 DEF Contexts
  <2>6. a.s = c.s /\ a.buf = c.buf /\ a.out = c.out /\ a.tw = c.tw /\ a \in Contexts
    BY <1>4, <2>5 DEF Abort, Contexts
  <2>7. r = a BY <2>1
  <2> HIDE DEF a
  <2>2. r \in Contexts /\ r.s = tcb[e] /\ r.buf = k /\ r.out = {} /\ r.tw <= tw[e]
    BY <1>4, <2>6, <2>7
  <2>3. /\ tcb' = tcb /\ tw' \in [Ep -> Nat] /\ tw'[e] <= tw[e] /\ buf' \in [Ep -> Nat]
        /\ net' \subseteq net
        /\ \A h \in Ep \ {e} : buf'[h] = buf[h] /\ tw'[h] = tw[h]
    BY <1>2, <2>2, CommitFields DEF Commit, IInv, TypeOK
  <2>4. Idles(e) BY <1>1, <1>3, <1>4, <1>6, <2>3 DEF Idles
  <2> QED BY <2>4 DEF Outcome
<1>7. CASE c.s.sock # "nulltcb"
  <2>1. c.s.sock = "open" /\ r = f BY <1>4, <1>5, <1>7, LocalType DEF TCB
  <2> HIDE DEF r
  <2>2. ~c.s.isAPPClose BY <1>3, <1>4 DEF Stage
  <2>3. c.s.state \in {"ESTABLISHED", "LAST_ACK"}
    BY <1>4, <1>5, <2>1, <2>2, ContextFields DEF Receiver, Stage, Finished, Opening, State
  <2>4. Stage(c.s, l) BY <1>4, <2>2 DEF Stage
  <2>5. Queue(e, d.s)
    <3>1. c.s.state \in State \ (Opening \cup {"CLOSED"})
      BY <2>3 DEF State, Opening
    <3>2. Handles(e, c, d) BY <1>4, <1>5, <2>1, <3>1, SendSegment
    <3> QED BY <3>2 DEF Handles, Sender
  <2>6. Transmits(e, c, d, c.s.rtx, l) /\ d.s.una = c.s.una BY <1>4, SegmentSent
  <2> HIDE DEF d
  <2>7. Turns(c, c, c.s.state) BY <1>4 DEF Turns, SameFields
  <2>8. d.s.state = c.s.state BY <2>2, <2>6 DEF Transmits
  <2>9. Advance(e, c, d, {}, l)
    BY <1>4, <2>1, <2>3, <2>4, <2>5, <2>6, <2>7, <2>8, TransmitAdvances
  <2>10. d \in Contexts /\ d.s \in TCB BY <2>6, ContextFields DEF Transmits
  <2>11. /\ t \in TCB /\ t.rtx = d.s.rtx /\ t.isAPPClose = d.s.isAPPClose
         /\ t.sock = d.s.sock /\ t.state = d.s.state /\ t.iss = d.s.iss
         /\ t.irs = d.s.irs /\ t.una = d.s.una /\ t.nxt = d.s.nxt
         /\ t.rnxt = d.s.rnxt /\ t.ooo = d.s.ooo
    BY <2>10 DEF TCB
  <2> HIDE DEF t
  <2>12. f \in Contexts /\ f.s = t /\ f.buf = d.buf /\ f.out = d.out /\ f.tw = d.tw
    BY <2>10, <2>11 DEF Contexts
  <2> HIDE DEF f
  <2>13. Advance(e, c, f, {}, l)
    <3>1. Moves(c.s, f.s) BY <2>9, <2>11, <2>12 DEF Advance, Moves
    <3>2. Stage(f.s, l) BY <2>9, <2>11, <2>12 DEF Advance, Stage, Finished
    <3>3. Receives(c.s, f.s, {}) BY <2>9, <2>11, <2>12 DEF Advance, Receives
    <3>4. \A y \in f.out : Reply(e, c.s, f.s, {}, y)
      BY <2>9, <2>11, <2>12 DEF Advance, Reply
    <3> QED BY <2>9, <2>11, <2>12, <3>1, <3>2, <3>3, <3>4 DEF Advance
  <2>14. c.tw <= tw[e] /\ c.buf = buf[e] + (load[e] - load'[e])
    BY <1>1, <1>3, <1>4
  <2>15. net \in SUBSET net /\ {} \in SUBSET Arriving(e) OBVIOUS
  <2>16. Advances(e)
    BY <1>1, <1>2, <1>3, <1>4, <2>1, <2>12, <2>13, <2>14, <2>15 DEF Advances
  <2> QED BY <2>16 DEF Outcome
<1> QED BY <1>6, <1>7

LEMMA AppQueueOutcome ==
  ASSUME IInv, StageInv, NEW e \in Ep, AppQueue(e) PROVE Outcome(e)
<1>1. PICK k \in 1..load[e] :
        /\ buf[e] > 0 \/ tcb[e].sock # "none"
        /\ Generate(e, k)
        /\ buf' = [buf EXCEPT ![e] = @ + k]
        /\ UNCHANGED <<tcb, sockets, got, net, tw>>
  BY DEF AppQueue
<1>2. buf \in [Ep -> Nat] /\ tw \in [Ep -> Nat] /\ got \in [Ep -> SUBSET Nat]
  BY DEF IInv, TypeOK
<1>3. /\ Frame(e) /\ load'[e] = load[e] - k /\ k \in Nat /\ load[e] \in Nat
  BY <1>1, <1>2, GenerateFrame
<1>4. buf[e] \in Nat /\ tw[e] \in Nat BY <1>2
<1>5. /\ buf'[e] = buf[e] + k /\ buf' \in [Ep -> Nat]
      /\ \A f \in Ep \ {e} : buf'[f] = buf[f]
  BY <1>1, <1>2, <1>3, <1>4
<1>6. buf'[e] + load'[e] = buf[e] + load[e] BY <1>3, <1>4, <1>5
<1>7. tw'[e] <= tw[e] /\ tw' \in [Ep -> Nat] /\ net' \subseteq net BY <1>1, <1>2, <1>4
<1>8. tcb[e].sock = "none" /\ buf[e] = 0 => buf'[e] = 0 BY <1>1, <1>4
<1>9. Idles(e) BY <1>1, <1>3, <1>5, <1>6, <1>7, <1>8 DEF Idles
<1> QED BY <1>9 DEF Outcome

----------------------------------------------------------------------------
(* The theorems *)

\* Every event of a device has one of the outcomes.
LEMMA Outcomes ==
  ASSUME IInv, StageInv, NEW e \in Ep, App(e) \/ Recv(e) \/ RtoTimer(e) \/ TimeWaitTimer(e)
  PROVE  Outcome(e)
<1>1. CASE App(e)
  BY <1>1, AppConnectOutcome, AppSendOutcome, AppQueueOutcome DEF App
<1>2. CASE Recv(e)
  BY <1>2, RecvNoConnectionOutcome, RecvSynListenSocketOutcome, RecvListenOutcome,
     RecvSynSentBadAckOutcome, RecvSynAckOutcome, RecvSynSentOtherOutcome,
     RecvUnacceptableOutcome, RecvRstOutcome, RecvSynOutcome,
     RecvAckSynReceivedOutcome, RecvAckOutcome, RecvAckLastAckOutcome,
     RecvAckTimeWaitOutcome, RecvInOrderOutcome, RecvOutOfOrderOutcome,
     RecvLateTextOutcome DEF Recv
<1>3. CASE RtoTimer(e) BY <1>3, RtoTimerOutcome
<1>4. CASE TimeWaitTimer(e) BY <1>4, TimeWaitTimerOutcome
<1> QED BY <1>1, <1>2, <1>3, <1>4

\* What every step does to every socket.
SocketsMove ==
  \A e \in Ep : Moves(tcb[e], tcb'[e]) /\ Stage(tcb'[e], load'[e])

LEMMA StepMoves == IInv /\ StageInv /\ [Next]_vars => SocketsMove
<1> SUFFICES ASSUME IInv, StageInv, [Next]_vars PROVE SocketsMove
  OBVIOUS
<1>1. ASSUME NEW f \in Ep, tcb'[f] = tcb[f], load'[f] = load[f]
      PROVE  Moves(tcb[f], tcb'[f]) /\ Stage(tcb'[f], load'[f])
  <2>1. tcb[f] \in TCB /\ Stage(tcb[f], load[f]) BY LocalFields
  <2> QED BY <1>1, <2>1 DEF Moves, TCB
<1>2. ASSUME NEW e \in Ep, App(e) \/ Recv(e) \/ RtoTimer(e) \/ TimeWaitTimer(e)
      PROVE  SocketsMove
  <2>1. Follows(e) BY <1>2, Outcomes, OutcomeFollows
  <2> QED BY <1>1, <2>1 DEF Follows, SocketsMove
<1>3. CASE Lose BY <1>1, <1>3 DEF Lose, SocketsMove
<1>4. CASE UNCHANGED vars BY <1>1, <1>4 DEF vars, SocketsMove
<1> QED BY <1>2, <1>3, <1>4 DEF Next

LEMMA InitStage == Init => StageInv
BY DEF Init, StageInv, Stage, NoSocket, Opening, Finished

LEMMA NextStage == IInv /\ StageInv /\ [Next]_vars => StageInv'
BY StepMoves DEF SocketsMove, StageInv

\* A side closes only once what it sent has been acknowledged.
LEMMA Stages == Spec => []StageInv
<1>1. Init => StageInv BY InitStage
<1>2. IInv /\ StageInv /\ [Next]_vars => StageInv' BY NextStage
<1> QED BY Inductive, <1>1, <1>2, PTL DEF Spec

\* The state of a socket moves along the diagram of RFC 793, or closes,
\* whatever segments arrive, in any number of sockets.
THEOREM StatesFollowDiagram == Spec => FollowsDiagram
<1>1. IInv /\ StageInv /\ [Next]_vars =>
        [\A e \in Ep : LET st == tcb[e].state  nst == tcb'[e].state
                       IN  nst # st => nst = "CLOSED" \/ <<st, nst>> \in Diagram]_vars
  BY StepMoves DEF SocketsMove, Moves
<1> QED BY Inductive, Stages, <1>1, PTL DEF Spec, FollowsDiagram

\* SND.UNA, SND.NXT and RCV.NXT of a socket never decrease while it is open.
THEOREM PointersMoveForward == Spec => NeverBackwards
<1>1. IInv /\ StageInv /\ [Next]_vars =>
        [\A e \in Ep : tcb[e].sock = "open" /\ tcb'[e].sock = "open" =>
           /\ tcb[e].una <= tcb'[e].una
           /\ tcb[e].nxt <= tcb'[e].nxt
           /\ tcb[e].rnxt <= tcb'[e].rnxt]_vars
  BY StepMoves DEF SocketsMove, Moves
<1> QED BY Inductive, Stages, <1>1, PTL DEF Spec, NeverBackwards
=============================================================================
