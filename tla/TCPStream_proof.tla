-------------------------- MODULE TCPStream_proof --------------------------
(***************************************************************************)
(* Proof that TCP implements Stream when each device creates one socket at *)
(* most.  Unlike the invariant of TCP_proof, that of this module speaks of *)
(* both ends and of what is in flight between them: a segment carries what *)
(* its sender has written, and acknowledges what it has received.          *)
(***************************************************************************)
EXTENDS TCPStream, TCP_states_proof

\* The initial sequence number of the socket of e.
I(e) == ISS[e][1]

Open(s)   == s.sock = "open"
Synced(s) == s.state \in Incoming

\* An open socket that has seen no FIN and has sent none.
Fresh(s) == Open(s) /\ s.state \in {"SYN_SENT", "SYN_RECEIVED", "ESTABLISHED"}

----------------------------------------------------------------------------
(* The inductive invariant.  s is the socket of e, t that of its peer, and *)
(* w says how many packets the application of e has written.               *)

\* e, whose socket is s, may acknowledge a: once the peer closes, an answer to
\* its FIN may carry any number, but then the connection is closing for both.
GoodAck(e, a, s, t) ==
  /\ Open(s) => Synced(s)
  /\ Fresh(t) => I(Peer(e)) < a /\ a <= t.nxt /\ (Open(s) => a <= s.rnxt)
  /\ Open(t) /\ ~Fresh(t) => a <= t.nxt \/ ~Fresh(s)

\* A segment of e, in flight or queued at either end.
Good(e, m, s, t, w) ==
  /\ ~Rst(m)
  /\ Syn(m) => m.seq = I(e)
  /\ m.kind = "data" => /\ I(e) < m.seq /\ m.seq <= I(e) + w
                        /\ Open(s) => m.seq < s.nxt
  /\ Ack(m) => GoodAck(e, m.ackno, s, t)
  /\ Fin(m) => ~Fresh(s)

\* The socket of e, with b packets in its buffer.  What it has received is at
\* most what its peer has sent, what is acknowledged has been received, and a
\* device that has answered a FIN has received all.
Own(e, s, t, w, b) ==
  Open(s) =>
    /\ s.iss = I(e) /\ I(e) <= s.una /\ I(e) < s.nxt
    /\ s.nxt + b <= I(e) + 1 + w
    /\ s.state # "LISTEN"
    /\ Synced(s) => s.irs = I(Peer(e)) /\ (Open(t) => s.rnxt <= t.nxt)
    /\ s.una > I(e) /\ Open(t) => Synced(t) /\ s.una <= t.rnxt
    /\ s.state \in {"FIN_WAIT_2", "CLOSING", "TIME_WAIT", "LAST_ACK"} => ~Fresh(t)
    /\ s.state = "LAST_ACK" /\ Open(t) => Finished(t) /\ s.rnxt = t.nxt

\* Before e has created its socket nothing has been sent by it, or
\* acknowledged to it.
Unborn(e) ==
  /\ tcb[e].sock = "none" /\ buf[e] = 0 /\ got[e] = {}
  /\ LET t == tcb[Peer(e)]
     IN  t.ooo = {} /\ (Open(t) => ~Synced(t) /\ t.una <= I(Peer(e)))
  /\ \A m \in net : m.src # e /\ ~Ack(m)

\* What device e has to do with the connection.
Dev(e) ==
  LET p == Peer(e)  s == tcb[e]  t == tcb[p]
  IN  /\ load[e] <= Load[e]
      /\ sockets[e] = 0 => Unborn(e)
      /\ tw[e] > 0 => s.sock = "nulltcb" \/ (Open(s) /\ s.state = "TIME_WAIT")
      /\ Own(e, s, t, Written[e], buf[e])
      /\ Open(s) /\ Synced(s) => s.rnxt <= I(p) + 1 + Written[p]
      /\ \A m \in net : m.src = e => Good(e, m, s, t, Written[e])
      /\ \A x \in s.rtx : Good(e, x, s, t, Written[e])
      /\ \A x \in s.ooo : Good(p, x, t, s, Written[p])

CInv == \A e \in Ep : Dev(e)

----------------------------------------------------------------------------
(* The two devices *)

\* Peer is the other device.
LEMMA Pair ==
  ASSUME NEW e \in Ep
  PROVE  /\ Peer(e) \in Ep /\ Peer(e) # e /\ Peer(Peer(e)) = e
         /\ \A f \in Ep : f = e \/ f = Peer(e)
<1>1. IsFiniteSet(Ep) /\ Cardinality(Ep) = 2 BY EpAssumption
<1>2. IsFiniteSet(Ep \ {e}) /\ Cardinality(Ep \ {e}) = 1
  BY <1>1, FS_RemoveElement
<1>3. PICK f : f \in Ep \ {e}
  <2>1. Ep \ {e} # {} BY <1>2, FS_EmptySet
  <2> QED BY <2>1
<1>4. Cardinality((Ep \ {e}) \ {f}) = 0 /\ IsFiniteSet((Ep \ {e}) \ {f})
  BY <1>2, <1>3, FS_RemoveElement
<1>5. (Ep \ {e}) \ {f} = {} BY <1>4, FS_EmptySet
<1>6. \A g \in Ep : g = e \/ g = f BY <1>5
<1>7. Peer(e) = f BY <1>3, <1>6 DEF Peer
<1>8. Peer(f) = e BY <1>3, <1>6 DEF Peer
<1> QED BY <1>3, <1>6, <1>7, <1>8

\* The initial sequence numbers.
LEMMA IssType ==
  ASSUME MaxSockets = 1, NEW e \in Ep
  PROVE  I(e) \in Nat /\ I(e) > 0
<1>1. ISS[e] \in [1..MaxSockets -> Nat \ {0}] BY IssAssumption
<1>2. 1 \in 1..MaxSockets OBVIOUS
<1>3. ISS[e][1] \in Nat \ {0} BY <1>1, <1>2
<1> QED BY <1>3 DEF I

\* A socket that goes from s to u while the connection goes on.
Onward(s, u) ==
  Open(u) =>
    /\ Open(s) /\ s.nxt <= u.nxt /\ s.rnxt <= u.rnxt
    /\ Synced(s) => Synced(u)
    /\ Fresh(u) => Fresh(s)
    /\ Finished(s) => Finished(u) /\ u.nxt = s.nxt

\* Its own segments stay good.
LEMMA MineStay ==
  ASSUME NEW e \in Ep, NEW m \in Segment, NEW s \in TCB, NEW t \in TCB, NEW u \in TCB,
         NEW w, Onward(s, u), Good(e, m, s, t, w)
  PROVE  Good(e, m, u, t, w)
<1>1. /\ m.seq \in Nat /\ m.ackno \in Nat /\ s.nxt \in Nat /\ u.nxt \in Nat
      /\ s.rnxt \in Nat /\ u.rnxt \in Nat
  BY DEF Segment, TCB
<1>2. Open(u) /\ Open(s) => (m.seq < s.nxt => m.seq < u.nxt)
  BY <1>1 DEF Onward
<1>3. ASSUME NEW a \in Nat, GoodAck(e, a, s, t) PROVE GoodAck(e, a, u, t)
  <2>1. Open(u) => Synced(u) BY <1>3 DEF GoodAck, Onward
  <2>2. Fresh(t) => I(Peer(e)) < a /\ a <= t.nxt /\ (Open(u) => a <= u.rnxt)
    BY <1>1, <1>3 DEF GoodAck, Onward, Open
  <2>3. Fresh(u) => Fresh(s) BY DEF Onward, Fresh
  <2> QED BY <1>3, <2>1, <2>2, <2>3 DEF GoodAck
<1> QED BY <1>1, <1>2, <1>3 DEF Good, Onward, Fresh

\* So do those of its peer.
LEMMA YoursStay ==
  ASSUME NEW p \in Ep, NEW m \in Segment, NEW s \in TCB, NEW t \in TCB, NEW u \in TCB,
         NEW w, Onward(s, u), Good(p, m, t, s, w)
  PROVE  Good(p, m, t, u, w)
<1>1. /\ m.ackno \in Nat /\ s.nxt \in Nat /\ u.nxt \in Nat
  BY DEF Segment, TCB
<1>2. Ack(m) => GoodAck(p, m.ackno, t, u)
  BY <1>1 DEF Good, GoodAck, Onward, Fresh
<1> QED BY <1>2 DEF Good

\* And the facts of its peer.
LEMMA OwnStays ==
  ASSUME NEW p \in Ep, NEW s \in TCB, NEW t \in TCB, NEW u \in TCB,
         NEW w, NEW b, Onward(s, u), Own(p, t, s, w, b)
  PROVE  Own(p, t, u, w, b)
<1>1. /\ s.nxt \in Nat /\ u.nxt \in Nat /\ s.rnxt \in Nat /\ u.rnxt \in Nat
      /\ t.una \in Nat /\ t.rnxt \in Nat
  BY DEF TCB
<1> QED BY <1>1 DEF Own, Onward, Open, Fresh, Synced, Finished

\* Writing more packets keeps a segment good.
LEMMA WrittenStay ==
  ASSUME MaxSockets = 1, NEW e \in Ep, NEW m \in Segment, NEW s, NEW t,
         NEW w \in Nat, NEW v \in Nat, w <= v, Good(e, m, s, t, w)
  PROVE  Good(e, m, s, t, v)
<1>1. m.seq \in Nat /\ I(e) \in Nat BY IssType DEF Segment
<1> QED BY <1>1 DEF Good

----------------------------------------------------------------------------
(* An event that the connection survives *)

\* The hypotheses about the two ends of the connection of e when its handler
\* starts in c and has received the segments of M; t is the socket of the peer.
Ends(e, c, t, M, w, v, b) ==
  /\ c \in Contexts /\ t \in TCB /\ M \subseteq Segment
  /\ w \in Nat /\ v \in Nat /\ b \in Nat
  /\ c.s.state # "CLOSED" /\ (Open(t) => t.state # "CLOSED") /\ t.state # "CLOSE_WAIT"
  /\ Finished(t) => t.una = t.nxt
  /\ Own(e, c.s, t, w, c.buf) /\ Own(Peer(e), t, c.s, v, b)
  /\ Synced(c.s) => c.s.rnxt <= I(Peer(e)) + 1 + v
  /\ \A m \in M : Good(Peer(e), m, t, c.s, v)
  /\ \A x \in c.s.rtx : Good(e, x, c.s, t, w)
  /\ \A x \in c.s.ooo : Good(Peer(e), x, t, c.s, v)

\* The connection goes on.
LEMMA AdvanceOnward ==
  ASSUME NEW e \in Ep, NEW c, NEW d \in Contexts, NEW t, NEW M, NEW w, NEW v, NEW b,
         NEW l, Ends(e, c, t, M, w, v, b), Advance(e, c, d, M, l)
  PROVE  /\ Onward(c.s, d.s) /\ Open(c.s) /\ Open(d.s)
         /\ d.s.state \notin {"LISTEN", "CLOSED"}
         /\ d.s.state # c.s.state => <<c.s.state, d.s.state>> \in Diagram
<1> DEFINE s == c.s
           u == d.s
<1>1. /\ Open(s) /\ Open(u) /\ Moves(s, u)
      /\ u.state = s.state \/ u.state \in Incoming
      /\ s.state # "CLOSED" /\ s.state # "LISTEN"
  BY DEF Advance, Open, Ends, Own
<1> HIDE DEF s, u
<1>2. u.state \notin {"LISTEN", "CLOSED"} BY <1>1 DEF Incoming
<1>3. u.state # s.state => <<s.state, u.state>> \in Diagram BY <1>1, <1>2 DEF Moves
<1>4. s.nxt <= u.nxt /\ s.rnxt <= u.rnxt BY <1>1 DEF Moves, Open
<1>5. Synced(s) => Synced(u) BY <1>1 DEF Synced
<1>6. Fresh(u) => Fresh(s) BY <1>1, <1>3 DEF Fresh, Diagram
<1>7. Finished(s) => Finished(u) BY <1>3 DEF Finished, Diagram
<1>8. Finished(s) => u.nxt = s.nxt BY <1>1 DEF Moves, Open
<1>9. Onward(s, u) BY <1>1, <1>4, <1>5, <1>6, <1>7, <1>8 DEF Onward
<1> QED BY <1>1, <1>2, <1>3, <1>9 DEF s, u

\* What e has received is at most what its peer has sent.
LEMMA AdvanceReceives ==
  ASSUME MaxSockets = 1, NEW e \in Ep, NEW c, NEW d \in Contexts, NEW t, NEW M,
         NEW w, NEW v, NEW b, NEW l,
         Ends(e, c, t, M, w, v, b), Advance(e, c, d, M, l)
  PROVE  Synced(d.s) => /\ d.s.irs = I(Peer(e)) /\ (Open(t) => d.s.rnxt <= t.nxt)
                        /\ d.s.rnxt <= I(Peer(e)) + 1 + v
<1> DEFINE s == c.s
           u == d.s
           p == Peer(e)
<1>1. p \in Ep /\ I(p) \in Nat BY Pair, IssType
<1>2. /\ s.rnxt \in Nat /\ u.rnxt \in Nat /\ t.nxt \in Nat /\ v \in Nat
      /\ M \subseteq Segment /\ s.ooo \subseteq Segment
  BY ContextFields DEF Ends, TCB
<1>3. Receives(s, u, M) /\ Open(s) BY DEF Advance, Open
<1>4. /\ Synced(s) => s.irs = I(p) /\ (Open(t) => s.rnxt <= t.nxt) /\ s.rnxt <= I(p) + 1 + v
      /\ Open(t) => I(p) < t.nxt
  BY <1>3 DEF Ends, Own
<1>5. \A x \in s.ooo \cup M : Good(p, x, t, s, v) BY DEF Ends
<1> HIDE DEF s, u, p
<1>6. CASE /\ u.irs = s.irs /\ u.rnxt = s.rnxt
           /\ u.state \in Incoming => s.state \in Incoming
  BY <1>4, <1>6 DEF Synced, p, u
<1>7. CASE /\ u.irs = s.irs /\ s.state \in Incoming
           /\ u.rnxt - 1 \in DataSeqs(s.ooo \cup M)
  <2>1. PICK x \in s.ooo \cup M : x.kind = "data" /\ x.seq = u.rnxt - 1
    BY <1>7 DEF DataSeqs
  <2>2. /\ x.seq <= I(p) + v /\ (Open(t) => x.seq < t.nxt) /\ x.seq \in Nat
    BY <1>2, <1>5, <2>1 DEF Good, Segment
  <2>3. u.rnxt <= I(p) + 1 + v /\ (Open(t) => u.rnxt <= t.nxt)
    BY <1>1, <1>2, <2>1, <2>2
  <2> QED BY <1>4, <1>7, <2>3 DEF Synced, p, u
<1>8. CASE \E m \in M : Syn(m) /\ u.irs = m.seq /\ u.rnxt = m.seq + 1
  <2>1. PICK m \in M : Syn(m) /\ u.irs = m.seq /\ u.rnxt = m.seq + 1 BY <1>8
  <2>2. m.seq = I(p) BY <1>5, <2>1 DEF Good
  <2>3. u.rnxt <= I(p) + 1 + v /\ (Open(t) => u.rnxt <= t.nxt)
    BY <1>1, <1>2, <1>4, <2>1, <2>2
  <2> QED BY <2>1, <2>2, <2>3 DEF p, u
<1> QED BY <1>3, <1>6, <1>7, <1>8 DEF Receives

\* What is acknowledged has been received, and a device that answers a FIN
\* has received all.
LEMMA AdvanceOwn ==
  ASSUME MaxSockets = 1, NEW e \in Ep, NEW c, NEW d \in Contexts, NEW t, NEW M,
         NEW w, NEW v, NEW b, NEW l,
         Ends(e, c, t, M, w, v, b), Advance(e, c, d, M, l)
  PROVE  Own(e, d.s, t, w, d.buf)
<1> DEFINE s == c.s
           u == d.s
           p == Peer(e)
<1>1. p \in Ep /\ Peer(p) = e /\ I(p) \in Nat /\ I(e) \in Nat BY Pair, IssType
<1>2. /\ s.una \in Nat /\ u.una \in Nat /\ s.nxt \in Nat /\ u.nxt \in Nat
      /\ s.rnxt \in Nat /\ u.rnxt \in Nat /\ c.buf \in Nat /\ d.buf \in Nat
      /\ t.una \in Nat /\ t.nxt \in Nat /\ t.rnxt \in Nat
      /\ w \in Nat /\ M \subseteq Segment /\ t.state \in State
  BY ContextFields DEF Ends, TCB
<1>3. /\ Onward(s, u) /\ Open(s) /\ Open(u) /\ u.state # "LISTEN"
      /\ u.state # s.state => <<s.state, u.state>> \in Diagram
  BY AdvanceOnward
<1>4. Synced(u) => u.irs = I(p) /\ (Open(t) => u.rnxt <= t.nxt)
  BY AdvanceReceives
<1>5. /\ u.iss = s.iss /\ u.nxt + d.buf = s.nxt + c.buf
      /\ s.una <= u.una /\ s.nxt <= u.nxt /\ s.rnxt <= u.rnxt
      /\ \/ u.una = s.una
         \/ Fresh(s) /\ \E m \in M : Ack(m) /\ u.una = m.ackno
      /\ u.state # s.state /\ u.state \in {"FIN_WAIT_2", "CLOSING", "LAST_ACK"} =>
           \E m \in M : Fin(m)
  BY <1>3 DEF Advance, Moves, Fresh, Open
<1>6. Own(e, s, t, w, c.buf) /\ Own(p, t, s, v, b) BY DEF Ends
<1>7. \A m \in M : Good(p, m, t, s, v) BY DEF Ends
<1>8. /\ Open(t) => t.state # "CLOSED"
      /\ t.state # "CLOSE_WAIT" /\ (Finished(t) => t.una = t.nxt)
  BY DEF Ends
<1> HIDE DEF s, u, p
<1>9. /\ u.iss = I(e) /\ I(e) <= u.una /\ I(e) < u.nxt
      /\ u.nxt + d.buf <= I(e) + 1 + w
  BY <1>1, <1>2, <1>3, <1>5, <1>6 DEF Own
<1>10. u.una > I(e) /\ Open(t) => Synced(t) /\ u.una <= t.rnxt
  <2>1. CASE u.una = s.una BY <1>3, <1>6, <2>1 DEF Own
  <2>2. ASSUME NEW m \in M, Fresh(s), Ack(m), u.una = m.ackno, Open(t)
        PROVE  Synced(t) /\ u.una <= t.rnxt
    <3>1. GoodAck(p, m.ackno, t, s) BY <1>7, <2>2 DEF Good
    <3> QED BY <2>2, <3>1 DEF GoodAck
  <2> QED BY <1>5, <2>1, <2>2
<1>11. u.state # s.state /\ u.state \in {"FIN_WAIT_2", "CLOSING", "LAST_ACK"} => ~Fresh(t)
  BY <1>5, <1>7 DEF Good
<1>12. u.state \in {"FIN_WAIT_2", "CLOSING", "TIME_WAIT", "LAST_ACK"} => ~Fresh(t)
  BY <1>3, <1>6, <1>11 DEF Own, Diagram
<1>13. u.state = "LAST_ACK" /\ Open(t) => Finished(t) /\ u.rnxt = t.nxt
  <2> SUFFICES ASSUME u.state = "LAST_ACK", Open(t)
               PROVE  Finished(t) /\ u.rnxt = t.nxt
    OBVIOUS
  <2>1. u.rnxt <= t.nxt BY <1>4 DEF Synced, Incoming, State
  <2>2. CASE s.state = "LAST_ACK"
    <3>1. Finished(t) /\ s.rnxt = t.nxt BY <1>3, <1>6, <2>2 DEF Own
    <3> QED BY <1>2, <1>5, <2>1, <3>1
  <2>3. CASE s.state # "LAST_ACK"
    <3>1. ~Fresh(t) BY <1>11, <2>3
    <3>2. Fresh(s) BY <1>3, <2>3 DEF Diagram, Fresh
    <3>3. t.state \notin {"LISTEN", "LAST_ACK"} BY <1>1, <1>6, <3>2 DEF Own
    <3>4. Finished(t) BY <1>2, <1>8, <3>1, <3>3 DEF Finished, Fresh, State
    <3>5. t.una > I(p) BY <1>6, <1>8, <3>4 DEF Own
    <3>6. t.una <= s.rnxt BY <1>1, <1>3, <1>6, <3>5 DEF Own
    <3>7. t.nxt <= u.rnxt BY <1>2, <1>5, <1>8, <3>4, <3>6
    <3> QED BY <1>2, <2>1, <3>4, <3>7
  <2> QED BY <2>2, <2>3
<1>14. Own(e, u, t, w, d.buf)
  BY <1>3, <1>4, <1>9, <1>10, <1>12, <1>13 DEF Own, p
<1> QED BY <1>14 DEF u

\* An acknowledgment of the number expected, or of any number once both ends
\* are closing, is good.
LEMMA AckIsGood ==
  ASSUME MaxSockets = 1, NEW e \in Ep, NEW u \in TCB, NEW t \in TCB, NEW a,
         Synced(u), I(Peer(e)) < u.rnxt, Open(t) => u.rnxt <= t.nxt,
         a = u.rnxt \/ (~Fresh(u) /\ ~Fresh(t))
  PROVE  GoodAck(e, a, u, t)
<1>1. u.rnxt \in Nat /\ t.nxt \in Nat BY DEF TCB
<1>2. CASE a = u.rnxt BY <1>1, <1>2 DEF GoodAck, Fresh
<1>3. CASE ~Fresh(u) /\ ~Fresh(t) BY <1>3 DEF GoodAck
<1> QED BY <1>2, <1>3

\* What is sent, and queued, in the course of a connection is good.
LEMMA AdvanceSends ==
  ASSUME MaxSockets = 1, NEW e \in Ep, NEW c, NEW d \in Contexts, NEW t, NEW M,
         NEW w, NEW v, NEW b, NEW l,
         Ends(e, c, t, M, w, v, b), Advance(e, c, d, M, l),
         Synced(d.s) => d.s.irs < d.s.rnxt
  PROVE  /\ \A x \in d.s.rtx : Good(e, x, d.s, t, w)
         /\ \A x \in d.out : Good(e, x, d.s, t, w)
<1> DEFINE s == c.s
           u == d.s
           p == Peer(e)
<1>1. p \in Ep /\ Peer(p) = e /\ I(p) \in Nat /\ I(e) \in Nat BY Pair, IssType
<1>2. /\ s \in TCB /\ u \in TCB /\ t \in TCB /\ s.nxt \in Nat /\ u.nxt \in Nat
      /\ d.buf \in Nat /\ w \in Nat /\ M \subseteq Segment
      /\ s.rtx \subseteq Segment /\ u.rtx \subseteq Segment /\ d.out \subseteq Segment
  BY ContextFields DEF Ends
<1>3. Onward(s, u) /\ Open(s) /\ Open(u) BY AdvanceOnward
<1>4. Synced(u) => u.irs = I(p) /\ (Open(t) => u.rnxt <= t.nxt) /\ I(p) < u.rnxt
  BY AdvanceReceives
<1>5. Own(e, s, t, w, c.buf) /\ Own(e, u, t, w, d.buf) BY AdvanceOwn DEF Ends
<1>6. \A m \in M : Good(p, m, t, s, v) BY DEF Ends
<1>7. \A x \in s.rtx : Good(e, x, s, t, w) BY DEF Ends
<1>8. \A x \in u.rtx :
        x \in s.rtx \/ (x.kind = "data" /\ s.nxt <= x.seq /\ x.seq < u.nxt)
  BY DEF Advance
<1>9. \A x \in d.out : Reply(e, s, u, M, x) BY DEF Advance
<1> HIDE DEF s, u, p
<1>10. \A x \in s.rtx : Good(e, x, u, t, w)
  BY <1>2, <1>3, <1>7, MineStay
<1>11. ASSUME NEW x \in u.rtx PROVE Good(e, x, u, t, w)
  <2>1. CASE x \in s.rtx BY <1>10, <2>1
  <2>2. CASE x.kind = "data" /\ s.nxt <= x.seq /\ x.seq < u.nxt
    <3>1. I(e) < s.nxt /\ u.nxt + d.buf <= I(e) + 1 + w
      BY <1>3, <1>5 DEF Own
    <3>2. x.seq \in Nat BY <1>2 DEF Segment
    <3>3. I(e) < x.seq /\ x.seq <= I(e) + w BY <1>1, <1>2, <2>2, <3>1, <3>2
    <3>4. ~Rst(x) /\ ~Syn(x) /\ ~Ack(x) /\ ~Fin(x)
      BY <2>2 DEF Rst, Syn, Ack, Fin
    <3> QED BY <2>2, <3>3, <3>4 DEF Good
  <2> QED BY <1>8, <2>1, <2>2
<1>12. ASSUME NEW x \in d.out PROVE Good(e, x, u, t, w)
  <2>1. CASE x \in s.rtx \cup u.rtx BY <1>10, <1>11, <2>1
  <2>2. u.state \in {"CLOSING", "LAST_ACK", "TIME_WAIT"} => ~Fresh(u) /\ ~Fresh(t)
    BY <1>3, <1>5 DEF Own, Fresh
  <2>3. u.state \in {"CLOSING", "LAST_ACK", "TIME_WAIT", "FIN_WAIT_1"} => ~Fresh(u)
    BY DEF Fresh
  <2>4. CASE /\ x.kind = "ack" /\ u.state \in Incoming
             /\ x.ackno = u.rnxt \/ u.state = "TIME_WAIT"
    <3>1. GoodAck(e, x.ackno, u, t)
      BY <1>2, <1>4, <2>2, <2>4, AckIsGood DEF Synced, p
    <3> QED BY <2>4, <3>1 DEF Good, Rst, Syn, Fin
  <2>5. ASSUME NEW m \in M, x.kind = "ack", u.state \in Incoming,
               Ack(m), x.ackno = m.ackno, m.ackno > s.nxt
        PROVE  Good(e, x, u, t, w)
    <3>1. GoodAck(p, m.ackno, t, s) /\ m.ackno \in Nat
      BY <1>2, <1>6, <2>5 DEF Good, Segment
    <3>2. ~(m.ackno <= s.nxt) BY <1>2, <2>5, <3>1
    <3>3. ~Fresh(s) /\ ~Fresh(t) BY <1>3, <3>1, <3>2 DEF GoodAck
    <3>4. ~Fresh(u) BY <1>3, <3>3 DEF Onward
    <3>5. GoodAck(e, x.ackno, u, t)
      BY <1>2, <1>4, <2>5, <3>3, <3>4, AckIsGood DEF Synced, p
    <3> QED BY <2>5, <3>5 DEF Good, Rst, Syn, Fin
  <2>6. CASE /\ x.kind = "finack"
             /\ \/ u.state \in {"CLOSING", "LAST_ACK"} /\ x.ackno = u.rnxt
                \/ u.state = "TIME_WAIT"
    <3>1. Synced(u) BY <2>6 DEF Synced, Incoming, State
    <3>2. GoodAck(e, x.ackno, u, t)
      BY <1>2, <1>4, <2>2, <2>6, <3>1, AckIsGood DEF p
    <3> QED BY <2>3, <2>6, <3>2 DEF Good, Rst, Syn
  <2>7. CASE x.kind = "fin" /\ u.state \in {"FIN_WAIT_1", "LAST_ACK"}
    BY <2>3, <2>7 DEF Good, Rst, Syn, Ack
  <2> QED BY <1>9, <2>1, <2>4, <2>5, <2>6, <2>7 DEF Reply
<1> QED BY <1>11, <1>12 DEF u

----------------------------------------------------------------------------
(* The invariant of the two devices *)

\* The types of what the invariant speaks of.
LEMMA Views ==
  ASSUME MaxSockets = 1, IInv, CInv, NEW e \in Ep
  PROVE  /\ tcb[e] \in TCB /\ tcb[e].rtx \subseteq Segment /\ tcb[e].ooo \subseteq Segment
         /\ buf[e] \in Nat /\ tw[e] \in Nat /\ load[e] \in Nat /\ Load[e] \in Nat
         /\ Written[e] = Load[e] - load[e] /\ Written[e] \in Nat
         /\ sockets[e] \in {0, 1} /\ net \subseteq Segment
         /\ Dev(e) /\ I(e) \in Nat /\ I(e) > 0
         /\ Receiver(tcb[e], got[e], handed[e])
<1>1. /\ tcb \in [Ep -> TCB] /\ buf \in [Ep -> Nat] /\ tw \in [Ep -> Nat]
      /\ load \in [Ep -> Nat] /\ Load \in [Ep -> Nat] /\ sockets \in [Ep -> 0..MaxSockets]
      /\ net \subseteq Segment
  BY EpAssumption DEF IInv, TypeOK
<1>2. sockets[e] \in 0..1 BY <1>1
<1>3. tcb[e] \in TCB BY <1>1
<1>4. tcb[e].rtx \subseteq Segment /\ tcb[e].ooo \subseteq Segment BY <1>3 DEF TCB
<1>5. Dev(e) BY DEF CInv
<1>6. load[e] <= Load[e] BY <1>5 DEF Dev
<1>7. Written[e] = Load[e] - load[e] BY DEF Written
<1>8. load[e] \in Nat /\ Load[e] \in Nat /\ buf[e] \in Nat /\ tw[e] \in Nat BY <1>1
<1>9. Written[e] \in Nat BY <1>6, <1>7, <1>8
<1>10. sockets[e] \in {0, 1} BY <1>2
<1>11. Receiver(tcb[e], got[e], handed[e]) BY DEF IInv, ReceiverInv
<1> QED BY <1>1, <1>3, <1>4, <1>5, <1>7, <1>8, <1>9, <1>10, <1>11, IssType

\* What device e receives has been sent by its peer.
LEMMA Arrivals ==
  ASSUME MaxSockets = 1, IInv, CInv, NEW e \in Ep, NEW m \in Arriving(e)
  PROVE  /\ m \in Segment /\ m \in net /\ m.src = Peer(e)
         /\ Good(Peer(e), m, tcb[Peer(e)], tcb[e], Written[Peer(e)])
         /\ sockets[Peer(e)] # 0
         /\ Ack(m) => sockets[e] # 0
<1>1. m \in net /\ m.src # e BY DEF Arriving
<1>2. m \in Segment /\ Dev(e) /\ Dev(Peer(e)) BY <1>1, Views, Pair
<1>3. m.src \in Ep BY <1>2 DEF Segment
<1>4. m.src = Peer(e) /\ Peer(Peer(e)) = e BY <1>1, <1>3, Pair
<1> QED BY <1>1, <1>2, <1>4 DEF Dev, Unborn

\* An event of e that leaves the sockets created as they are takes the socket
\* of e to u and sends out.
Continues(e, u, rest, out) ==
  /\ Frame(e) /\ UNCHANGED sockets /\ Onward(tcb[e], u)
  /\ tcb'[e] = u /\ tcb'[Peer(e)] = tcb[Peer(e)]
  /\ buf'[Peer(e)] = buf[Peer(e)] /\ tw'[Peer(e)] = tw[Peer(e)]
  /\ net' = rest \cup out /\ rest \subseteq net /\ out \subseteq Segment

\* What the device of the event makes true.
LEMMA ContinuesMine ==
  ASSUME MaxSockets = 1, IInv, IInv', CInv, NEW e \in Ep, NEW u, NEW rest, NEW out,
         Continues(e, u, rest, out),
         sockets[e] = 0 => Unborn(e)',
         tw'[e] > 0 => u.sock = "nulltcb" \/ (Open(u) /\ u.state = "TIME_WAIT"),
         Own(e, u, tcb[Peer(e)], Written'[e], buf'[e]),
         Open(u) /\ Synced(u) => u.rnxt <= I(Peer(e)) + 1 + Written[Peer(e)],
         \A x \in u.rtx \cup out : Good(e, x, u, tcb[Peer(e)], Written'[e]),
         u.ooo \subseteq tcb[e].ooo \cup Arriving(e)
  PROVE  Dev(e)'
<1> DEFINE s == tcb[e]
           p == Peer(e)
           t == tcb[p]
           w == Written[e]
           v == Written'[e]
<1>1. p \in Ep /\ p # e /\ Peer(p) = e BY Pair
<1>2. s \in TCB /\ t \in TCB /\ w \in Nat /\ net \subseteq Segment /\ s.ooo \subseteq Segment
  BY <1>1, Views
<1>3. u \in TCB BY DEF Continues, IInv, TypeOK
<1>4. /\ load'[e] \in Nat /\ load'[e] <= load[e] /\ load'[p] = load[p]
      /\ load[e] \in Nat /\ Load[e] \in Nat /\ load[e] <= Load[e]
      /\ w = Load[e] - load[e]
  <2>1. load'[e] \in Nat /\ load'[e] <= load[e] /\ load'[p] = load[p]
    BY <1>1 DEF Continues, Frame
  <2> QED BY <2>1, Views DEF Dev
<1>5. v = Load[e] - load'[e] /\ Written'[p] = Written[p] BY <1>1, <1>4 DEF Written
<1>6. v \in Nat /\ w <= v /\ load'[e] <= Load[e] BY <1>4, <1>5
<1>7. Onward(s, u) /\ tcb'[e] = u /\ tcb'[p] = t /\ sockets' = sockets
      /\ net' = rest \cup out /\ rest \subseteq net
  BY DEF Continues
<1>8. Dev(e) BY Views
<1> HIDE DEF s, t, w, v
<1>9. ASSUME NEW m \in net', m.src = e PROVE Good(e, m, u, t, v)
  <2>1. CASE m \in out BY <2>1 DEF t, v, p
  <2>2. CASE m \in rest
    <3>1. m \in Segment /\ Good(e, m, s, t, w)
      BY <1>2, <1>7, <1>8, <1>9, <2>2 DEF Dev, s, t, w, p
    <3>2. Good(e, m, u, t, w) BY <1>2, <1>3, <1>7, <3>1, MineStay
    <3> QED BY <1>2, <1>6, <3>1, <3>2, WrittenStay
  <2> QED BY <1>7, <2>1, <2>2
<1>10. ASSUME NEW x \in u.ooo PROVE Good(p, x, t, u, Written[p])
  <2>1. x \in Segment /\ Good(p, x, t, s, Written[p])
    <3>1. CASE x \in s.ooo BY <1>2, <1>8, <3>1 DEF Dev, s, t, p
    <3>2. CASE x \in Arriving(e) BY <3>2, Arrivals DEF s, t, p
    <3> QED BY <3>1, <3>2 DEF s
  <2> QED BY <1>1, <1>2, <1>3, <1>7, <2>1, YoursStay
<1>11. \A x \in u.rtx : Good(e, x, u, t, v) BY DEF t, v, p
<1>12. Own(e, u, t, v, buf'[e]) BY DEF t, v, p
<1> QED BY <1>5, <1>6, <1>7, <1>9, <1>10, <1>11, <1>12 DEF Dev, v, p, t

\* And its peer.
LEMMA ContinuesYours ==
  ASSUME MaxSockets = 1, IInv, IInv', CInv, NEW e \in Ep, NEW u, NEW rest, NEW out,
         Continues(e, u, rest, out),
         \A x \in out : x.src = e,
         sockets[Peer(e)] = 0 => /\ u.ooo = {} /\ (Open(u) => ~Synced(u) /\ u.una <= I(e))
                                 /\ \A x \in out : ~Ack(x)
  PROVE  Dev(Peer(e))'
<1> DEFINE s == tcb[e]
           p == Peer(e)
           t == tcb[p]
           w == Written[e]
           v == Written'[e]
<1>1. p \in Ep /\ p # e /\ Peer(p) = e BY Pair
<1>2. /\ s \in TCB /\ t \in TCB /\ w \in Nat /\ net \subseteq Segment
      /\ t.rtx \subseteq Segment /\ t.ooo \subseteq Segment
  BY <1>1, Views
<1>3. u \in TCB BY DEF Continues, IInv, TypeOK
<1>4. /\ load'[e] \in Nat /\ load'[e] <= load[e] /\ load'[p] = load[p] /\ got'[p] = got[p]
      /\ load[e] \in Nat /\ Load[e] \in Nat /\ load[e] <= Load[e]
      /\ w = Load[e] - load[e]
  <2>1. load'[e] \in Nat /\ load'[e] <= load[e] /\ load'[p] = load[p] /\ got'[p] = got[p]
    BY <1>1 DEF Continues, Frame
  <2> QED BY <2>1, Views DEF Dev
<1>5. v = Load[e] - load'[e] /\ Written'[p] = Written[p] BY <1>1, <1>4 DEF Written
<1>6. v \in Nat /\ w <= v BY <1>4, <1>5
<1>7. /\ Onward(s, u) /\ tcb'[e] = u /\ tcb'[p] = t /\ sockets' = sockets
      /\ net' = rest \cup out /\ rest \subseteq net
      /\ buf'[p] = buf[p] /\ tw'[p] = tw[p]
  BY DEF Continues
<1>8. Dev(p) BY <1>1, Views
<1>9. sockets[p] = 0 => Unborn(p)'
  <2> SUFFICES ASSUME sockets[p] = 0 PROVE Unborn(p)'
    OBVIOUS
  <2>1. Unborn(p) BY <1>8 DEF Dev
  <2>2. \A m \in net' : m.src # p /\ ~Ack(m) BY <1>1, <1>7, <2>1 DEF Unborn
  <2> QED BY <1>1, <1>4, <1>7, <2>1, <2>2 DEF Unborn
<1> HIDE DEF s, t, w, v
<1>10. ASSUME NEW x \in Segment, Good(p, x, t, s, Written[p])
       PROVE  Good(p, x, t, u, Written[p])
  BY <1>1, <1>2, <1>3, <1>7, <1>10, YoursStay
<1>11. \A m \in net' : m.src = p => Good(p, m, t, u, Written[p])
  BY <1>1, <1>2, <1>7, <1>8, <1>10 DEF Dev, s, t, p
<1>12. \A x \in t.rtx : Good(p, x, t, u, Written[p])
  BY <1>1, <1>2, <1>8, <1>10 DEF Dev, s, t, p
<1>13. ASSUME NEW x \in t.ooo PROVE Good(e, x, u, t, v)
  <2>1. x \in Segment /\ Good(e, x, s, t, w)
    BY <1>1, <1>2, <1>8 DEF Dev, s, t, w, p
  <2>2. Good(e, x, u, t, w) BY <1>2, <1>3, <1>7, <2>1, MineStay
  <2> QED BY <1>2, <1>6, <2>1, <2>2, WrittenStay
<1>14. Own(p, t, u, Written[p], buf[p])
  <2>1. Own(p, t, s, Written[p], buf[p]) BY <1>1, <1>8 DEF Dev, s, t, p
  <2> QED BY <1>1, <1>2, <1>3, <1>7, <2>1, OwnStays
<1>15. Open(t) /\ Synced(t) => t.rnxt <= I(e) + 1 + v
  <2>1. Open(t) /\ Synced(t) => t.rnxt <= I(e) + 1 + w
    BY <1>1, <1>8 DEF Dev, t, w, p
  <2>2. t.rnxt \in Nat /\ I(e) \in Nat BY <1>2, IssType DEF TCB
  <2> QED BY <1>2, <1>6, <2>1, <2>2
<1>16. /\ load[p] <= Load[p] /\ (tw[p] > 0 => t.sock = "nulltcb" \/ (Open(t) /\ t.state = "TIME_WAIT"))
  BY <1>8 DEF Dev, t
<1> QED
  BY <1>1, <1>4, <1>5, <1>7, <1>9, <1>11, <1>12, <1>13, <1>14, <1>15, <1>16 DEF Dev, v, p

\* Together.
LEMMA BothDevices ==
  ASSUME NEW e \in Ep, Dev(e)', Dev(Peer(e))'
  PROVE  CInv'
<1>1. \A f \in Ep : Dev(f)' BY Pair
<1> QED BY <1>1 DEF CInv

----------------------------------------------------------------------------
(* The outcomes *)

LEMMA IdlesConn ==
  ASSUME MaxSockets = 1, IInv, IInv', CInv, NEW e \in Ep, Idles(e)
  PROVE  CInv'
<1> DEFINE s == tcb[e]
           p == Peer(e)
           w == Written[e]
           v == Written'[e]
<1>1. p \in Ep /\ p # e /\ Peer(p) = e BY Pair
<1>2. /\ s \in TCB /\ tcb[p] \in TCB /\ w \in Nat /\ net \subseteq Segment
      /\ buf[e] \in Nat /\ tw[e] \in Nat /\ I(e) \in Nat /\ Dev(e) /\ Dev(p)
      /\ s.rtx \subseteq Segment
  BY <1>1, Views
<1>3. /\ tcb' = tcb /\ sockets' = sockets /\ got' = got /\ net' \subseteq net
      /\ buf'[e] \in Nat /\ tw'[e] \in Nat /\ tw'[e] <= tw[e]
      /\ buf'[p] = buf[p] /\ tw'[p] = tw[p]
      /\ Open(s) => buf'[e] + load'[e] = buf[e] + load[e]
      /\ s.sock = "none" /\ buf[e] = 0 => buf'[e] = 0
  BY <1>1 DEF Idles, Open
<1>4. load'[e] \in Nat /\ load'[e] <= load[e] /\ load[e] \in Nat /\ Load[e] \in Nat
      /\ w = Load[e] - load[e]
  BY Views DEF Idles, Frame
<1>5. v = Load[e] - load'[e] BY DEF Written
<1>6. v \in Nat /\ w <= v /\ (Open(s) => v + buf[e] = w + buf'[e])
  BY <1>2, <1>3, <1>4, <1>5
<1>7. Onward(s, s)
  <2>1. s.nxt \in Nat /\ s.rnxt \in Nat BY <1>2 DEF TCB
  <2> QED BY <2>1 DEF Onward
<1>8. Continues(e, s, net', {})
  BY <1>3, <1>7 DEF Idles, Continues
<1>9. Dev(e)'
  <2>1. sockets[e] = 0 => Unborn(e)'
    BY <1>2, <1>3 DEF Dev, Unborn
  <2>2. tw'[e] > 0 => s.sock = "nulltcb" \/ (Open(s) /\ s.state = "TIME_WAIT")
    BY <1>2, <1>3 DEF Dev
  <2>3. Own(e, s, tcb[p], v, buf'[e])
    <3>1. Own(e, s, tcb[p], w, buf[e]) BY <1>2 DEF Dev
    <3>2. s.nxt \in Nat BY <1>2 DEF TCB
    <3> HIDE DEF s, p, w, v
    <3>3. Open(s) /\ s.nxt + buf[e] <= I(e) + 1 + w => s.nxt + buf'[e] <= I(e) + 1 + v
      BY <1>2, <1>3, <1>6, <3>2
    <3> QED BY <3>1, <3>3 DEF Own
  <2>4. Open(s) /\ Synced(s) => s.rnxt <= I(p) + 1 + Written[p] BY <1>2 DEF Dev
  <2>5. \A x \in s.rtx \cup {} : Good(e, x, s, tcb[p], v)
    <3>1. \A x \in s.rtx : x \in Segment /\ Good(e, x, s, tcb[p], w) BY <1>2 DEF Dev
    <3> HIDE DEF s, p, w, v
    <3> QED BY <1>2, <1>6, <3>1, WrittenStay
  <2>6. s.ooo \subseteq tcb[e].ooo \cup Arriving(e) OBVIOUS
  <2> HIDE DEF s, v
  <2> QED BY <1>8, <2>1, <2>2, <2>3, <2>4, <2>5, <2>6, ContinuesMine DEF v
<1>10. Dev(p)'
  <2>1. sockets[p] = 0 => s.ooo = {} /\ (Open(s) => ~Synced(s) /\ s.una <= I(e))
    BY <1>1, <1>2 DEF Dev, Unborn
  <2> HIDE DEF s
  <2> QED BY <1>8, <2>1, ContinuesYours
<1> QED BY <1>9, <1>10, BothDevices

LEMMA ClosesConn ==
  ASSUME MaxSockets = 1, IInv, IInv', CInv, NEW e \in Ep, Closes(e)
  PROVE  CInv'
<1> DEFINE p == Peer(e)
<1>1. p \in Ep /\ p # e BY Pair
<1>2. PICK d \in Contexts, rest \in SUBSET net, pending \in SUBSET timers :
        /\ d.s.sock # "open" /\ d.s.rtx = {} /\ d.s.ooo = {}
        /\ d.s.sock = "nulltcb" \/ tcb[e].state \in Opening
        /\ d.out = {} /\ d.buf = buf[e] /\ d.tw <= tw[e]
        /\ Commit(e, d, rest, pending)
  BY DEF Closes
<1> DEFINE u == d.s
<1>3. /\ tcb'[e] = u /\ tcb'[p] = tcb[p] /\ buf'[p] = buf[p]
      /\ tw'[p] = tw[p] /\ tw'[e] = d.tw /\ net' = rest \cup d.out
  BY <1>1, <1>2, CommitFields DEF Commit
<1>4. /\ Frame(e) /\ sockets' = sockets /\ Open(tcb[e]) /\ ~Open(u)
      /\ d.tw \in Nat /\ tw[e] \in Nat /\ Dev(e)
  BY <1>2, Views, ContextFields DEF Closes, Open
<1>5. Onward(tcb[e], u) BY <1>4 DEF Onward
<1>6. u.rtx = {} /\ u.ooo = {} /\ d.out = {} BY <1>2
<1>7. Continues(e, u, rest, {}) BY <1>3, <1>4, <1>5, <1>6 DEF Continues
<1>8. Dev(e)'
  <2>1. sockets[e] = 0 => Unborn(e)' BY <1>4 DEF Dev, Unborn, Open
  <2>2. tw'[e] > 0 => u.sock = "nulltcb" \/ (Open(u) /\ u.state = "TIME_WAIT")
    <3> SUFFICES ASSUME tw'[e] > 0 PROVE u.sock = "nulltcb"
      OBVIOUS
    <3>1. tw[e] > 0 BY <1>2, <1>3, <1>4
    <3>2. tcb[e].state = "TIME_WAIT" BY <1>4, <3>1 DEF Dev, Open
    <3> QED BY <1>2, <3>2 DEF Opening
  <2>3. Own(e, u, tcb[p], Written'[e], buf'[e]) BY <1>4 DEF Own
  <2>4. Open(u) /\ Synced(u) => u.rnxt <= I(p) + 1 + Written[p] BY <1>4
  <2> HIDE DEF u
  <2> QED BY <1>6, <1>7, <2>1, <2>2, <2>3, <2>4, ContinuesMine
<1>9. Dev(p)'
  <2> HIDE DEF u
  <2> QED BY <1>4, <1>6, <1>7, ContinuesYours
<1> QED BY <1>8, <1>9, BothDevices

LEMMA AdvancesConn ==
  ASSUME MaxSockets = 1, IInv, IInv', StageInv, CInv, NEW e \in Ep, Advances(e)
  PROVE  CInv'
<1> DEFINE p == Peer(e)
           s == tcb[e]
           t == tcb[p]
           w == Written[e]
           v == Written'[e]
<1>1. p \in Ep /\ p # e /\ Peer(p) = e BY Pair
<1>2. PICK c \in Contexts, d \in Contexts, M \in SUBSET Arriving(e),
           rest \in SUBSET net, pending \in SUBSET timers :
        /\ c.s = tcb[e] /\ c.tw <= tw[e] /\ c.buf = buf[e] + (load[e] - load'[e])
        /\ Advance(e, c, d, M, load'[e]) /\ Commit(e, d, rest, pending)
  BY DEF Advances
<1> DEFINE u == d.s
<1>3. /\ s \in TCB /\ t \in TCB /\ w \in Nat /\ net \subseteq Segment
      /\ buf[e] \in Nat /\ buf[p] \in Nat /\ tw[e] \in Nat /\ I(e) \in Nat
      /\ Dev(e) /\ Dev(p) /\ s.rtx \subseteq Segment /\ Written[p] \in Nat
      /\ Receiver(s, got[e], handed[e]) /\ Receiver(t, got[p], handed[p])
  BY <1>1, Views
<1>4. /\ tcb'[e] = u /\ tcb'[p] = t /\ buf'[p] = buf[p] /\ buf'[e] = d.buf
      /\ tw'[p] = tw[p] /\ tw'[e] = d.tw /\ net' = rest \cup d.out
  BY <1>1, <1>2, CommitFields DEF Commit
<1>5. load'[e] \in Nat /\ load'[e] <= load[e] /\ load[e] \in Nat /\ Load[e] \in Nat
      /\ w = Load[e] - load[e]
  BY Views DEF Advances, Frame
<1>6. v = Load[e] - load'[e] BY DEF Written
<1>7. v \in Nat /\ w <= v /\ v + buf[e] = w + c.buf
  BY <1>2, <1>3, <1>5, <1>6
<1>8. \A m \in M : m \in Segment /\ Good(p, m, t, s, Written[p])
                   /\ sockets[p] # 0
  BY <1>2, Arrivals
<1>9. Ends(e, c, t, M, v, Written[p], buf[p])
  <2>1. Stage(t, load[p]) BY <1>1 DEF StageInv
  <2>2. Own(e, s, t, v, c.buf)
    <3>1. Own(e, s, t, w, buf[e]) BY <1>3 DEF Dev
    <3>2. s.nxt \in Nat /\ c.buf \in Nat BY <1>3, ContextFields DEF TCB
    <3> HIDE DEF s, t, w, v
    <3>3. s.nxt + buf[e] <= I(e) + 1 + w => s.nxt + c.buf <= I(e) + 1 + v
      BY <1>3, <1>7, <3>2
    <3> QED BY <3>1, <3>3 DEF Own
  <2>3. Own(p, t, s, Written[p], buf[p]) BY <1>1, <1>3 DEF Dev
  <2>4. \A x \in s.rtx : Good(e, x, s, t, v)
    <3>1. \A x \in s.rtx : x \in Segment /\ Good(e, x, s, t, w) BY <1>3 DEF Dev
    <3> HIDE DEF s, p, t, w, v
    <3> QED BY <1>3, <1>7, <3>1, WrittenStay
  <2>5. Open(s) BY <1>2 DEF Advance, Open
  <2>6. Synced(s) => s.rnxt <= I(p) + 1 + Written[p] BY <1>3, <2>5 DEF Dev
  <2>7. \A x \in s.ooo : Good(p, x, t, s, Written[p]) BY <1>3 DEF Dev
  <2>8. /\ s.state # "CLOSED" /\ (Open(t) => t.state # "CLOSED") /\ t.state # "CLOSE_WAIT"
        /\ Finished(t) => t.una = t.nxt
    BY <1>3, <2>1, <2>5 DEF Receiver, Stage, Open
  <2>9. M \subseteq Segment BY <1>8
  <2> HIDE DEF s, t, v
  <2>10. c.s = s BY <1>2 DEF s
  <2> QED
    BY <1>3, <1>7, <1>8, <2>2, <2>3, <2>4, <2>6, <2>7, <2>8, <2>9, <2>10 DEF Ends, p
<1>10. /\ Onward(s, u) /\ Open(s) /\ Open(u)
       /\ u.state # s.state => <<s.state, u.state>> \in Diagram
  BY <1>2, <1>9, AdvanceOnward
<1>11. Synced(u) => u.irs < u.rnxt
  BY <1>4, <1>10 DEF IInv, ReceiverInv, Receiver, Open, Synced
<1>12. /\ Own(e, u, t, v, d.buf) /\ (Synced(u) => u.rnxt <= I(p) + 1 + Written[p])
       /\ \A x \in u.rtx \cup d.out : Good(e, x, u, t, v)
  BY <1>2, <1>9, <1>11, AdvanceOwn, AdvanceReceives, AdvanceSends
<1>13. /\ \A x \in d.out : Reply(e, s, u, M, x)
       /\ d.s.ooo \subseteq s.ooo \cup M /\ Receives(s, u, M)
       /\ d.tw <= c.tw \/ u.state = "TIME_WAIT"
       /\ u.una = s.una \/ M # {}
  BY <1>2 DEF Advance
<1>14. Continues(e, u, rest, d.out)
  BY <1>2, <1>4, <1>10, ContextFields DEF Continues, Advances
<1>15. Dev(e)'
  <2>1. sockets[e] = 0 => Unborn(e)' BY <1>3, <1>10 DEF Dev, Unborn, Open
  <2>2. tw'[e] > 0 => u.sock = "nulltcb" \/ (Open(u) /\ u.state = "TIME_WAIT")
    <3> SUFFICES ASSUME tw'[e] > 0, u.state # "TIME_WAIT" PROVE FALSE
      BY <1>10
    <3>1. d.tw \in Nat /\ c.tw \in Nat BY ContextFields
    <3>2. tw[e] > 0 BY <1>2, <1>3, <1>4, <1>13, <3>1
    <3>3. s.state = "TIME_WAIT" BY <1>3, <1>10, <3>2 DEF Dev, Open
    <3> QED BY <1>10, <3>3 DEF Diagram
  <2>3. u.ooo \subseteq tcb[e].ooo \cup Arriving(e) BY <1>2, <1>13
  <2> HIDE DEF u, v
  <2> QED BY <1>4, <1>12, <1>14, <2>1, <2>2, <2>3, ContinuesMine DEF v
<1>16. Dev(p)'
  <2>1. \A x \in d.out : x.src = e BY <1>13 DEF Reply
  <2>2. ASSUME sockets[p] = 0
        PROVE  /\ u.ooo = {} /\ ~Synced(u) /\ u.una <= I(e)
               /\ \A x \in d.out : ~Ack(x)
    <3>1. M = {} BY <1>8, <2>2
    <3>2. s.ooo = {} /\ ~Synced(s) /\ s.una <= I(e)
      BY <1>1, <1>3, <1>10, <2>2 DEF Dev, Unborn
    <3>3. ~Synced(u) BY <1>13, <3>1, <3>2 DEF Receives, Synced
    <3>4. \A x \in d.out : ~Ack(x)
      BY <1>10, <1>12, <3>3 DEF Good, GoodAck
    <3> QED BY <1>13, <3>1, <3>2, <3>3, <3>4
  <2> HIDE DEF u
  <2> QED BY <1>14, <2>1, <2>2, ContinuesYours
<1> QED BY <1>15, <1>16, BothDevices

\* A device that creates its socket finds nothing of its own, and no ACK, in
\* flight.
LEMMA OpensFields ==
  ASSUME MaxSockets = 1, IInv, StageInv, CInv, NEW e \in Ep, NEW d, NEW x,
         NEW rest \in SUBSET net, Opens(e, d, x, rest)
  PROVE  /\ d \in Contexts /\ sockets[e] = 0 /\ Unborn(e) /\ tw[e] = 0
         /\ Open(d.s) /\ d.s.iss = I(e) /\ d.s.una = I(e) /\ d.s.nxt = I(e) + 1
         /\ d.s.rtx = {x} /\ d.s.ooo = {} /\ x.src = e /\ x.seq = I(e) /\ x \in Segment
         /\ tcb'[e] = d.s /\ tcb'[Peer(e)] = tcb[Peer(e)]
         /\ buf'[e] = d.buf /\ buf'[Peer(e)] = buf[Peer(e)]
         /\ tw'[e] = 0 /\ tw'[Peer(e)] = tw[Peer(e)] /\ net' = rest \cup {x}
         /\ sockets'[e] = 1 /\ sockets'[Peer(e)] = sockets[Peer(e)]
         /\ Frame(e) /\ got'[e] = {}
<1>1. Peer(e) \in Ep /\ Peer(e) # e BY Pair
<1>2. /\ Dev(e) /\ sockets[e] \in {0, 1} /\ tw[e] \in Nat /\ I(e) \in Nat
      /\ sockets \in [Ep -> 0..MaxSockets]
  BY Views DEF IInv, TypeOK
<1>3. /\ Opened(e, d, x) /\ d.s.iss = ISS[e][sockets[e] + 1] /\ d.out = {x}
      /\ d.tw = tw[e] /\ sockets[e] < 1 /\ tcb[e].sock = "none" /\ Frame(e)
      /\ sockets' = [sockets EXCEPT ![e] = @ + 1] /\ got'[e] = {}
  BY DEF Opens
<1>4. sockets[e] = 0 BY <1>2, <1>3
<1>5. Unborn(e) /\ tw[e] = 0 BY <1>2, <1>3, <1>4 DEF Dev, Open
<1>6. /\ d \in Contexts /\ Open(d.s) /\ d.s.iss = I(e) /\ d.s.una = I(e)
      /\ d.s.nxt = I(e) + 1 /\ d.s.rtx = {x} /\ d.s.ooo = {} /\ x.src = e
      /\ x.seq = I(e) /\ x \in Segment
  BY <1>3, <1>4 DEF Opened, Open, I
<1>7. PICK pending \in SUBSET timers : Commit(e, d, rest, pending) BY DEF Opens
<1>8. /\ tcb'[e] = d.s /\ tcb'[Peer(e)] = tcb[Peer(e)]
      /\ buf'[e] = d.buf /\ buf'[Peer(e)] = buf[Peer(e)]
      /\ tw'[e] = d.tw /\ tw'[Peer(e)] = tw[Peer(e)] /\ net' = rest \cup d.out
  BY <1>1, <1>6, <1>7, CommitFields DEF Commit
<1>9. sockets'[e] = 1 /\ sockets'[Peer(e)] = sockets[Peer(e)]
  BY <1>1, <1>2, <1>3, <1>4
<1> QED BY <1>3, <1>4, <1>5, <1>6, <1>8, <1>9

LEMMA OpensMine ==
  ASSUME MaxSockets = 1, IInv, IInv', StageInv, CInv, NEW e \in Ep, NEW d, NEW x,
         NEW rest \in SUBSET net, Opens(e, d, x, rest),
         d.s.state \in {"SYN_SENT", "SYN_RECEIVED"}, d.buf <= Written'[e],
         d.s.state = "SYN_RECEIVED" =>
           /\ d.s.irs = I(Peer(e)) /\ d.s.rnxt = I(Peer(e)) + 1
           /\ Open(tcb[Peer(e)]) => I(Peer(e)) < tcb[Peer(e)].nxt,
         Good(e, x, d.s, tcb[Peer(e)], Written'[e])
  PROVE  Dev(e)'
<1> DEFINE u == d.s
           p == Peer(e)
           t == tcb[p]
           v == Written'[e]
<1>1. /\ d \in Contexts /\ Unborn(e) /\ Open(u) /\ u.iss = I(e) /\ u.una = I(e)
      /\ u.nxt = I(e) + 1 /\ u.rtx = {x} /\ u.ooo = {} /\ tcb'[e] = u /\ tcb'[p] = t
      /\ buf'[e] = d.buf /\ tw'[e] = 0 /\ net' = rest \cup {x} /\ sockets'[e] = 1
      /\ load'[e] \in Nat /\ load'[e] <= load[e] /\ load'[p] = load[p]
  BY OpensFields, Pair DEF Frame
<1>2. /\ p \in Ep /\ I(e) \in Nat /\ I(p) \in Nat /\ Written[p] \in Nat /\ t \in TCB
      /\ load[e] \in Nat /\ Load[e] \in Nat /\ load[e] <= Load[e] /\ d.buf \in Nat
  BY <1>1, Pair, Views, ContextFields DEF Dev
<1>3. v = Load[e] - load'[e] /\ Written'[p] = Written[p] BY <1>1, <1>2 DEF Written
<1>4. v \in Nat /\ load'[e] <= Load[e] BY <1>1, <1>2, <1>3
<1>5. Synced(u) => u.state = "SYN_RECEIVED" BY DEF Synced, Incoming
<1>6. \A m \in net' : m.src = e => m = x BY <1>1 DEF Unborn
<1>7. Good(e, x, u, t, v) BY DEF u, p, t, v
<1>8. t.nxt \in Nat BY <1>2 DEF TCB
<1>9. I(e) + 1 + d.buf <= I(e) + 1 + v BY <1>2, <1>4
<1> HIDE DEF u, t, v
<1>10. Own(e, u, t, v, d.buf)
  <2>1. Synced(u) => u.irs = I(p) /\ (Open(t) => u.rnxt <= t.nxt)
    BY <1>2, <1>5, <1>8 DEF u, t, p
  <2>2. /\ I(e) <= u.una /\ I(e) < u.nxt /\ ~(u.una > I(e))
        /\ u.state \in {"SYN_SENT", "SYN_RECEIVED"}
    BY <1>1, <1>2 DEF u
  <2> QED BY <1>1, <1>9, <2>1, <2>2 DEF Own, p
<1>11. Synced(u) => u.rnxt <= I(p) + 1 + Written[p]
  BY <1>2, <1>5 DEF u, p
<1>12. ~(sockets'[e] = 0) /\ ~(tw'[e] > 0) BY <1>1
<1> QED BY <1>1, <1>3, <1>4, <1>6, <1>7, <1>10, <1>11, <1>12 DEF Dev, v, p, t

LEMMA OpensYours ==
  ASSUME MaxSockets = 1, IInv, IInv', StageInv, CInv, NEW e \in Ep, NEW d, NEW x,
         NEW rest \in SUBSET net, Opens(e, d, x, rest),
         d.s.state \in {"SYN_SENT", "SYN_RECEIVED"},
         sockets[Peer(e)] = 0 => d.s.state = "SYN_SENT" /\ ~Ack(x)
  PROVE  Dev(Peer(e))'
<1> DEFINE s == tcb[e]
           u == d.s
           p == Peer(e)
           t == tcb[p]
           w == Written[p]
<1>1. /\ Unborn(e) /\ Open(u) /\ u.una = I(e) /\ u.ooo = {} /\ x.src = e
      /\ tcb'[e] = u /\ tcb'[p] = t /\ buf'[p] = buf[p] /\ tw'[p] = tw[p]
      /\ net' = rest \cup {x} /\ sockets'[p] = sockets[p] /\ Frame(e)
  BY OpensFields
<1>2. p \in Ep /\ p # e /\ Peer(p) = e BY Pair
<1>3. /\ I(p) \in Nat /\ I(e) \in Nat /\ t \in TCB /\ Dev(p) /\ net \subseteq Segment
      /\ t.rtx \subseteq Segment
  BY <1>2, Views, IssType
<1>4. load'[p] = load[p] /\ got'[p] = got[p] BY <1>1, <1>2 DEF Frame
<1>5. Written'[p] = w BY <1>2, <1>4 DEF Written
<1>6. /\ t.ooo = {} /\ (Open(t) => ~Synced(t) /\ t.una <= I(p))
      /\ \A m \in net : m.src # e /\ ~Ack(m)
  BY <1>1 DEF Unborn
<1>7. t.rtx # {} => Open(t)
  <2>1. Sender(p, Local(p)) /\ Local(p).s = t BY <1>2, LocalFields
  <2> HIDE DEF t
  <2> QED BY <2>1 DEF Sender, Handshake, Open
<1>8. sockets[p] = 0 => Unborn(p)'
  <2> SUFFICES ASSUME sockets[p] = 0 PROVE Unborn(p)'
    OBVIOUS
  <2>1. Unborn(p) BY <1>3 DEF Dev
  <2>2. \A m \in net' : m.src # p /\ ~Ack(m) BY <1>1, <1>2, <2>1 DEF Unborn
  <2>3. ~Synced(u) /\ u.una <= I(e) BY <1>1, <1>3 DEF Synced, Incoming
  <2> QED BY <1>1, <1>2, <1>4, <2>1, <2>2, <2>3 DEF Unborn
<1> HIDE DEF s, u, t, w
<1>9. ASSUME NEW m, ~Ack(m), Good(p, m, t, s, w) PROVE Good(p, m, t, u, w)
  BY <1>9 DEF Good
<1>10. \A m \in net' : m.src = p => Good(p, m, t, u, w)
  BY <1>1, <1>2, <1>3, <1>6, <1>9 DEF Dev, s, t, w, p
<1>11. ASSUME NEW y \in t.rtx PROVE Good(p, y, t, u, w)
  <2>1. Good(p, y, t, s, w) BY <1>2, <1>3 DEF Dev, s, t, w, p
  <2>2. ~Ack(y) BY <1>6, <1>7, <2>1 DEF Good, GoodAck
  <2> QED BY <1>9, <2>1, <2>2
<1>12. Own(p, t, u, w, buf[p])
  <2>1. Own(p, t, s, w, buf[p]) BY <1>2, <1>3 DEF Dev, s, t, w, p
  <2>2. Open(t) => ~(t.una > I(p))
    <3>1. t.una \in Nat BY <1>3 DEF TCB
    <3> QED BY <1>3, <1>6, <3>1
  <2>3. Open(t) =>
          t.state \notin {"FIN_WAIT_2", "CLOSING", "TIME_WAIT", "LAST_ACK"}
    BY <1>6 DEF Synced, Incoming, State
  <2> QED BY <1>6, <2>1, <2>2, <2>3 DEF Own
<1>13. /\ load[p] <= Load[p]
       /\ tw[p] > 0 => t.sock = "nulltcb" \/ (Open(t) /\ t.state = "TIME_WAIT")
  BY <1>3 DEF Dev, t
<1> QED
  BY <1>1, <1>2, <1>4, <1>5, <1>6, <1>8, <1>10, <1>11, <1>12, <1>13 DEF Dev, p, t, w

LEMMA ConnectsConn ==
  ASSUME MaxSockets = 1, IInv, IInv', StageInv, CInv, NEW e \in Ep, Connects(e)
  PROVE  CInv'
<1> DEFINE p == Peer(e)
           t == tcb[p]
           v == Written'[e]
<1>1. PICK d \in Contexts :
        /\ Opens(e, d, Seg(e, "syn", d.s.iss, 0), net)
        /\ d.s.state = "SYN_SENT" /\ d.buf = load[e] - load'[e]
  BY DEF Connects
<1> DEFINE x == Seg(e, "syn", d.s.iss, 0)
<1>2. net \in SUBSET net /\ Opens(e, d, x, net) BY <1>1
<1>3. x.kind = "syn" BY DEF Seg
<1> HIDE DEF x
<1>4. x.seq = I(e) /\ Frame(e) BY <1>2, OpensFields
<1>5. /\ load'[e] \in Nat /\ load[e] \in Nat /\ Load[e] \in Nat /\ load[e] <= Load[e]
      /\ Written'[e] = Load[e] - load'[e]
  BY <1>4, Views DEF Frame, Written, Dev
<1>6. d.buf <= Written'[e] BY <1>1, <1>5
<1>7. Good(e, x, d.s, t, v) BY <1>3, <1>4 DEF Good, Rst, Ack, Fin
<1>8. ~Ack(x) BY <1>3 DEF Ack
<1>9. Dev(e)' BY <1>1, <1>2, <1>6, <1>7, OpensMine
<1>10. Dev(p)' BY <1>1, <1>2, <1>8, OpensYours
<1> QED BY <1>9, <1>10, BothDevices

LEMMA AcceptsConn ==
  ASSUME MaxSockets = 1, IInv, IInv', StageInv, CInv, NEW e \in Ep, Accepts(e)
  PROVE  CInv'
<1> DEFINE p == Peer(e)
           t == tcb[p]
           v == Written'[e]
<1>1. PICK m \in Arriving(e), d \in Contexts, rest \in SUBSET net :
        /\ m.kind = "syn" /\ Opens(e, d, Seg(e, "synack", d.s.iss, m.seq + 1), rest)
        /\ d.s.state = "SYN_RECEIVED" /\ d.s.irs = m.seq /\ d.s.rnxt = m.seq + 1
        /\ d.buf = buf[e] /\ load' = load
  BY DEF Accepts
<1> DEFINE u == d.s
           x == Seg(e, "synack", d.s.iss, m.seq + 1)
<1>2. p \in Ep /\ Peer(p) = e BY Pair
<1>3. Opens(e, d, x, rest) BY <1>1
<1>4. x.kind = "synack" /\ x.ackno = m.seq + 1 BY DEF Seg
<1>5. m.seq = I(p) /\ sockets[p] # 0
  <2>1. Good(p, m, t, tcb[e], Written[p]) /\ sockets[p] # 0 BY Arrivals
  <2> QED BY <1>1, <2>1 DEF Good, Syn
<1> HIDE DEF x
<1>6. x.seq = I(e) /\ Frame(e) /\ Unborn(e) /\ d \in Contexts BY <1>3, OpensFields
<1>7. Written'[e] = Written[e] /\ Written[e] \in Nat /\ buf[e] = 0
  BY <1>1, <1>6, Views DEF Written, Unborn
<1>8. d.buf <= Written'[e] BY <1>1, <1>7
<1>9. t \in TCB /\ u \in TCB /\ I(p) \in Nat /\ t.nxt \in Nat /\ u.rnxt \in Nat
  BY <1>2, <1>6, Views, ContextFields DEF TCB
<1>10. Open(t) => I(p) < t.nxt
  <2>1. Dev(p) BY <1>2, Views
  <2> QED BY <2>1 DEF Dev, Own
<1>11. Synced(u) BY <1>1 DEF Synced, Incoming, State
<1>12. u.rnxt = I(p) + 1 /\ x.ackno = u.rnxt BY <1>1, <1>4, <1>5
<1>13. Good(e, x, u, t, v)
  <2>1. I(p) < u.rnxt /\ (Open(t) => u.rnxt <= t.nxt) BY <1>9, <1>10, <1>12
  <2> HIDE DEF u, t, v
  <2>2. GoodAck(e, x.ackno, u, t) BY <1>9, <1>11, <1>12, <2>1, AckIsGood DEF p
  <2> QED BY <1>4, <1>6, <2>2 DEF Good, Rst, Fin
<1>14. Dev(e)'
  BY <1>1, <1>3, <1>5, <1>8, <1>10, <1>13, OpensMine
<1>15. Dev(p)' BY <1>1, <1>3, <1>5, OpensYours
<1> QED BY <1>14, <1>15, BothDevices

\* With one socket each no segment of another connection arrives.
LEMMA NothingBreaks ==
  ASSUME MaxSockets = 1, IInv, CInv, NEW e \in Ep, Breaks(e)
  PROVE  FALSE
<1> DEFINE s == tcb[e]
           p == Peer(e)
<1>1. /\ p \in Ep /\ s \in TCB /\ I(p) \in Nat /\ Dev(e) /\ Peer(p) = e
      /\ Receiver(s, got[e], handed[e])
  BY Pair, Views
<1>2. Open(s) /\ Own(e, s, tcb[p], Written[e], buf[e])
  BY <1>1 DEF Breaks, Open, Dev
<1>3. s.state # "LISTEN" /\ s.iss = I(e) BY <1>2 DEF Own
<1>4. ASSUME NEW m \in Arriving(e) PROVE m \in Segment /\ Good(p, m, tcb[p], s, Written[p])
  BY Arrivals
<1>5. ASSUME NEW m \in Arriving(e), Syn(m), Valid(e, m) PROVE FALSE
  <2>1. m.seq = I(p) /\ m.seq \in Nat BY <1>4, <1>5 DEF Good, Segment
  <2>2. s.irs = I(p) /\ s.irs < s.rnxt
    BY <1>1, <1>2, <1>5 DEF Valid, InIncoming, Own, Synced, Receiver
  <2>3. s.rnxt <= m.seq
    BY <1>5 DEF Valid, Validate_segment, get_seg_len
  <2>4. s.rnxt \in Nat BY <1>1 DEF TCB
  <2> QED BY <2>1, <2>2, <2>3, <2>4
<1>6. ASSUME NEW m \in Arriving(e), Ack(m), s.state \in {"SYN_SENT", "SYN_RECEIVED"},
             m.ackno <= s.iss \/ m.ackno > s.nxt
      PROVE  FALSE
  <2>1. GoodAck(p, m.ackno, tcb[p], s) BY <1>4, <1>6 DEF Good
  <2>2. I(e) < m.ackno /\ m.ackno <= s.nxt
    BY <1>1, <1>2, <1>6, <2>1 DEF GoodAck, Fresh
  <2>3. m.ackno \in Nat /\ s.nxt \in Nat /\ I(e) \in Nat
    BY <1>1, <1>4, <1>6, IssType DEF Segment, TCB
  <2> QED BY <1>3, <1>6, <2>2, <2>3
<1>7. \A m \in Arriving(e) : ~Rst(m) BY <1>4 DEF Good
<1> QED BY <1>3, <1>5, <1>6, <1>7 DEF Breaks

\* A step is an event of a device, or leaves the sockets alone.
LEMMA EveryStep ==
  ASSUME IInv, IInv', StageInv, [Next]_vars
  PROVE  \E e \in Ep : Outcome(e)
<1>1. ASSUME NEW e \in Ep, App(e) \/ Recv(e) \/ RtoTimer(e) \/ TimeWaitTimer(e)
      PROVE  Outcome(e)
  BY <1>1, Outcomes
<1>2. ASSUME UNCHANGED <<tcb, sockets, load, buf, got, tw>>, net' \subseteq net
      PROVE  \E e \in Ep : Outcome(e)
  <2>1. PICK e \in Ep : TRUE
    <3>1. Ep # {} BY EpAssumption, FS_EmptySet
    <3> QED BY <3>1
  <2>2. /\ load \in [Ep -> Nat] /\ got \in [Ep -> SUBSET Nat]
        /\ buf \in [Ep -> Nat] /\ tw \in [Ep -> Nat]
    BY DEF IInv, TypeOK
  <2>3. load[e] \in Nat /\ buf[e] \in Nat /\ tw[e] \in Nat BY <2>2
  <2>4. load[e] <= load[e] /\ tw[e] <= tw[e] BY <2>3
  <2>5. Frame(e) BY <1>2, <2>2, <2>4 DEF Frame
  <2>6. Idles(e) BY <1>2, <2>2, <2>4, <2>5 DEF Idles
  <2> QED BY <2>6 DEF Outcome
<1>3. CASE Lose BY <1>2, <1>3 DEF Lose
<1>4. CASE UNCHANGED vars BY <1>2, <1>4 DEF vars
<1> QED BY <1>1, <1>3, <1>4 DEF Next

LEMMA OutcomeConn ==
  ASSUME MaxSockets = 1, IInv, IInv', StageInv, CInv, NEW e \in Ep, Outcome(e)
  PROVE  CInv'
BY AdvancesConn, ClosesConn, IdlesConn, ConnectsConn, AcceptsConn, NothingBreaks
   DEF Outcome

LEMMA InitConn == MaxSockets = 1 /\ Init => CInv
<1> SUFFICES ASSUME MaxSockets = 1, Init, NEW e \in Ep PROVE Dev(e)
  BY DEF CInv
<1>1. Peer(e) \in Ep /\ Load[e] \in Nat BY Pair, EpAssumption
<1>2. /\ tcb[e] = NoSocket /\ tcb[Peer(e)] = NoSocket /\ buf[e] = 0 /\ got[e] = {}
      /\ load[e] = Load[e] /\ tw[e] = 0 /\ net = {}
  BY <1>1 DEF Init
<1>3. /\ NoSocket.sock = "none" /\ NoSocket.rtx = {} /\ NoSocket.ooo = {}
  BY DEF NoSocket
<1>4. ~Open(NoSocket) BY <1>3 DEF Open
<1>5. Unborn(e) BY <1>2, <1>3, <1>4 DEF Unborn
<1>6. load[e] <= Load[e] /\ ~(tw[e] > 0) BY <1>1, <1>2
<1> QED BY <1>2, <1>3, <1>4, <1>5, <1>6 DEF Dev, Own

\* The invariant of the two ends of a connection.
LEMMA Connection == ASSUME MaxSockets = 1 PROVE Spec => []CInv
<1>1. Init => CInv BY InitConn
<1>2. IInv /\ IInv' /\ StageInv /\ CInv /\ [Next]_vars => CInv'
  BY EveryStep, OutcomeConn
<1> QED BY Inductive, Stages, <1>1, <1>2, PTL DEF Spec

----------------------------------------------------------------------------
(* What the applications and the two ends may rely on *)

\* What the two ends of a connection know of each other.
LEMMA MatchedEnds ==
  ASSUME MaxSockets = 1, IInv, CInv, NEW a \in Ep, NEW b \in Ep, a # b, Matched(a, b)
  PROVE  /\ tcb[a].una <= tcb[b].rnxt /\ tcb[b].rnxt <= tcb[a].nxt
         /\ tcb[b].state = "LAST_ACK" => tcb[b].rnxt = tcb[a].nxt
<1> DEFINE s == tcb[a]
           t == tcb[b]
<1>1. Peer(a) = b /\ Peer(b) = a BY Pair
<1>2. /\ s \in TCB /\ t \in TCB /\ Dev(a) /\ Dev(b) /\ I(a) \in Nat
      /\ Receiver(t, got[b], handed[b])
  BY Views
<1>3. /\ Open(s) /\ Open(t) /\ Synced(s) /\ Synced(t)
  BY DEF Matched, InIncoming, Open, Synced
<1>4. Own(a, s, t, Written[a], buf[a]) /\ Own(b, t, s, Written[b], buf[b])
  BY <1>1, <1>2 DEF Dev
<1>5. t.irs < t.rnxt BY <1>2, <1>3 DEF Receiver, Open, Synced
<1>6. s.una \in Nat /\ t.rnxt \in Nat /\ s.nxt \in Nat BY <1>2 DEF TCB
<1> HIDE DEF s, t
<1>7. t.irs = I(a) /\ t.rnxt <= s.nxt BY <1>1, <1>3, <1>4 DEF Own
<1>8. s.una <= t.rnxt
  <2>1. CASE s.una > I(a) BY <1>3, <1>4, <2>1 DEF Own
  <2>2. CASE ~(s.una > I(a)) BY <1>2, <1>5, <1>6, <1>7, <2>2
  <2> QED BY <2>1, <2>2
<1>9. t.state = "LAST_ACK" => t.rnxt = s.nxt BY <1>3, <1>4 DEF Own
<1> QED BY <1>7, <1>8, <1>9 DEF s, t

\* What the sender takes as acknowledged has been handed to the application of
\* its peer, and the peer never got beyond what was sent (process_ack_packet,
\* check_segment), whatever is lost, repeated or reordered on the way.
THEOREM AcknowledgedIsDelivered ==
  ASSUME MaxSockets = 1 PROVE Spec => []AckedWasDelivered
<1>1. IInv /\ CInv => AckedWasDelivered BY MatchedEnds DEF AckedWasDelivered
<1> QED BY Inductive, Connection, <1>1, PTL

\* A device that has answered a FIN has received all its peer has sent:
\* tcp_close waits until everything is acknowledged.
THEOREM CloseLosesNothing ==
  ASSUME MaxSockets = 1 PROVE Spec => []NoDataLostAtClose
<1>1. IInv /\ CInv => NoDataLostAtClose BY MatchedEnds DEF NoDataLostAtClose
<1> QED BY Inductive, Connection, <1>1, PTL

\* While a TIME_WAIT timer is pending the socket its event points to exists.
THEOREM TimerFindsSocket ==
  ASSUME MaxSockets = 1 PROVE Spec => []TimeWaitTimerHasSocket
<1>1. CInv => TimeWaitTimerHasSocket
  BY DEF CInv, Dev, Open, TimeWaitTimerHasSocket
<1> QED BY Connection, <1>1, PTL

----------------------------------------------------------------------------
(* Refinement *)

LEMMA InitStream == MaxSockets = 1 /\ Init => S!Init
<1> SUFFICES ASSUME MaxSockets = 1, Init PROVE S!Init
  OBVIOUS
<1>1. ASSUME NEW e \in Ep PROVE Load[e] - load[e] = 0
  <2>1. load = Load /\ Load[e] \in Nat BY EpAssumption DEF Init
  <2> QED BY <2>1
<1>2. Written = [e \in Ep |-> 0] BY <1>1 DEF Written
<1>3. ASSUME NEW e \in Ep PROVE {q - ISS[Peer(e)][1] : q \in got[e]} = {}
  <2>1. got[e] = {} BY DEF Init
  <2> QED BY <2>1
<1>4. ReadPositions = [e \in Ep |-> {}] BY <1>3 DEF ReadPositions
<1> QED BY <1>2, <1>4 DEF S!Init

\* Neither application has been handed anything.
LEMMA WritesOnly ==
  ASSUME MaxSockets = 1, IInv, CInv, NEW e \in Ep, Frame(e), got'[e] = got[e]
  PROVE  S!Write(e) \/ UNCHANGED S!vars
<1>1. \A f \in Ep : got'[f] = got[f] BY DEF Frame
<1>2. ReadPositions' = ReadPositions BY <1>1 DEF ReadPositions
<1>3. \A f \in Ep \ {e} : Written'[f] = Written[f] BY DEF Frame, Written
<1>4. /\ load'[e] \in Nat /\ load[e] \in Nat /\ Load[e] \in Nat /\ load'[e] <= load[e]
      /\ Written[e] = Load[e] - load[e] /\ Written'[e] = Load[e] - load'[e]
  BY Views DEF Frame, Written
<1>5. Written' = [Written EXCEPT ![e] = Written'[e]]
  <2>1. DOMAIN Written = Ep /\ DOMAIN Written' = Ep BY DEF Written
  <2>2. Written = [f \in Ep |-> Written[f]] /\ Written' = [f \in Ep |-> Written'[f]]
    BY DEF Written
  <2> QED BY <1>3, <2>1, <2>2
<1>6. CASE load'[e] = load[e]
  <2>1. Written'[e] = Written[e] BY <1>4, <1>6
  <2>2. \A f \in Ep : Written'[f] = Written[f] BY <1>3, <2>1
  <2>3. Written' = Written
    <3>1. Written = [f \in Ep |-> Written[f]] /\ Written' = [f \in Ep |-> Written'[f]]
      BY DEF Written
    <3> QED BY <2>2, <3>1
  <2> QED BY <1>2, <2>3 DEF S!vars
<1>7. CASE load'[e] # load[e]
  <2>1. Written'[e] > Written[e] BY <1>4, <1>7
  <2> QED BY <1>2, <1>5, <2>1 DEF S!Write
<1> QED BY <1>6, <1>7

\* The positions of a run of sequence numbers.
LEMMA Positions ==
  ASSUME NEW i \in Nat, NEW n \in Nat
  PROVE  {q - i : q \in (i + 1)..(n - 1)} = 1..(n - 1 - i)
<1>1. ASSUME NEW k \in 1..(n - 1 - i) PROVE k \in {q - i : q \in (i + 1)..(n - 1)}
  <2>1. k + i \in (i + 1)..(n - 1) /\ (k + i) - i = k OBVIOUS
  <2> QED BY <2>1
<1>2. ASSUME NEW q \in (i + 1)..(n - 1) PROVE q - i \in 1..(n - 1 - i)
  OBVIOUS
<1> QED BY <1>1, <1>2

\* A connection that hands packets to its application reads.
LEMMA ReadsMore ==
  ASSUME MaxSockets = 1, IInv, IInv', StageInv, CInv, CInv', NEW e \in Ep,
         Advances(e), got'[e] # got[e]
  PROVE  S!Read(e)
<1> DEFINE p == Peer(e)
           s == tcb[e]
           u == tcb'[e]
<1>1. p \in Ep /\ p # e BY Pair
<1>2. PICK c \in Contexts, d \in Contexts, M \in SUBSET Arriving(e),
           rest \in SUBSET net, pending \in SUBSET timers :
        c.s = tcb[e] /\ Advance(e, c, d, M, load'[e]) /\ Commit(e, d, rest, pending)
  BY DEF Advances
<1>3. u = d.s BY <1>2, CommitFields
<1>4. Open(s) /\ Open(u) /\ Synced(s) /\ Synced(u) /\ load' = load /\ Frame(e)
  <2>1. Open(s) /\ Synced(s) /\ load' = load
    BY DEF Advances, InIncoming, Open, Synced
  <2>2. Open(u) /\ (u.state = s.state \/ u.state \in Incoming)
    BY <1>2, <1>3 DEF Advance, Open
  <2> QED BY <2>1, <2>2 DEF Synced, Advances
<1>5. Moves(s, u) BY <1>2, <1>3 DEF Advance
<1>6. s \in TCB /\ u \in TCB BY DEF IInv, TypeOK
<1>7. s.rnxt \in Nat /\ u.rnxt \in Nat /\ s.rnxt <= u.rnxt
  BY <1>4, <1>5, <1>6 DEF TCB, Moves, Open
<1>8. s.irs = I(p) /\ u.irs = I(p)
  BY <1>4 DEF CInv, Dev, Own
<1>9. /\ got[e] = (I(p) + 1)..(s.rnxt - 1) /\ I(p) < s.rnxt
      /\ got'[e] = (I(p) + 1)..(u.rnxt - 1)
  BY <1>4, <1>8 DEF IInv, ReceiverInv, Receiver, Open, Synced
<1>10. u.rnxt <= I(p) + 1 + Written[p]
  <2>1. u.rnxt <= I(p) + 1 + Written'[p] BY <1>4 DEF CInv, Dev
  <2>2. Written' = Written BY <1>4 DEF Written
  <2> QED BY <2>1, <2>2
<1>11. I(p) \in Nat /\ Written[p] \in Nat BY <1>1, Views
<1> DEFINE n == u.rnxt - 1 - I(p)
<1>12. ReadPositions[e] = 1..(s.rnxt - 1 - I(p)) /\ ReadPositions'[e] = 1..n
  <2>1. /\ ReadPositions[e] = {q - I(p) : q \in got[e]}
        /\ ReadPositions'[e] = {q - I(p) : q \in got'[e]}
    BY DEF ReadPositions, I
  <2> HIDE DEF s, u, p
  <2>2. /\ {q - I(p) : q \in (I(p) + 1)..(s.rnxt - 1)} = 1..(s.rnxt - 1 - I(p))
        /\ {q - I(p) : q \in (I(p) + 1)..(u.rnxt - 1)} = 1..(u.rnxt - 1 - I(p))
    BY <1>7, <1>11, Positions
  <2> QED BY <1>9, <2>1, <2>2
<1>13. s.rnxt < u.rnxt BY <1>7, <1>9
<1>14. n \in 1..Written[p] /\ ReadPositions[e] \subseteq 1..n
  <2> HIDE DEF s, u, p
  <2>1. n \in 1..Written[p] BY <1>7, <1>9, <1>10, <1>11, <1>13
  <2>2. 1..(s.rnxt - 1 - I(p)) \subseteq 1..n BY <1>7, <1>11
  <2> QED BY <1>12, <2>1, <2>2
<1>15. ReadPositions' = [ReadPositions EXCEPT ![e] = 1..n]
  <2>1. \A f \in Ep \ {e} : ReadPositions'[f] = ReadPositions[f]
    BY <1>4 DEF Frame, ReadPositions
  <2>2. /\ ReadPositions = [f \in Ep |-> ReadPositions[f]]
        /\ ReadPositions' = [f \in Ep |-> ReadPositions'[f]]
    BY DEF ReadPositions
  <2> HIDE DEF n
  <2> QED BY <1>12, <2>1, <2>2
<1>16. Written' = Written BY <1>4 DEF Written
<1> HIDE DEF n
<1> QED BY <1>1, <1>14, <1>15, <1>16 DEF S!Read

LEMMA NextStream ==
  ASSUME MaxSockets = 1, IInv, IInv', StageInv, CInv, CInv', [Next]_vars
  PROVE  [S!Next]_S!vars
<1>1. PICK e \in Ep : Outcome(e) BY EveryStep
<1>2. CASE Advances(e) /\ got'[e] # got[e]
  BY <1>2, ReadsMore DEF S!Next
<1>3. CASE Frame(e) /\ got'[e] = got[e]
  BY <1>3, WritesOnly DEF S!Next
<1>4. ASSUME NEW d, NEW x, NEW rest \in SUBSET net, Opens(e, d, x, rest)
      PROVE  Frame(e) /\ got'[e] = got[e]
  BY <1>4, OpensFields DEF Unborn
<1>5. CASE Connects(e)
  <2>1. net \in SUBSET net OBVIOUS
  <2>2. Frame(e) /\ got'[e] = got[e] BY <1>4, <1>5, <2>1 DEF Connects
  <2> QED BY <1>3, <2>2
<1>6. CASE Accepts(e)
  <2>1. Frame(e) /\ got'[e] = got[e] BY <1>4, <1>6 DEF Accepts
  <2> QED BY <1>3, <2>1
<1>7. Advances(e) => Frame(e) BY DEF Advances
<1>8. Closes(e) \/ Idles(e) => Frame(e) /\ got'[e] = got[e] BY DEF Closes, Idles
<1> QED BY <1>1, <1>2, <1>3, <1>5, <1>6, <1>7, <1>8, NothingBreaks DEF Outcome

\* TCP gives the two applications a stream: whatever the network loses, repeats
\* or reorders, what an application reads is a prefix of what its peer has
\* written, each packet once, however many packets and whatever the windows.
THEOREM StreamImplemented ==
  ASSUME MaxSockets = 1 PROVE Spec => ImplementsStream
<1>1. Init => S!Init BY InitStream
<1>2. IInv /\ IInv' /\ StageInv /\ CInv /\ CInv' /\ [Next]_vars => [S!Next]_S!vars
  BY NextStream
<1> QED BY Inductive, Stages, Connection, <1>1, <1>2, PTL DEF Spec, ImplementsStream, S!Spec
=============================================================================
