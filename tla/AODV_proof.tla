----------------------------- MODULE AODV_proof -----------------------------
(***************************************************************************)
(* Invariants of AODV proved for every set of nodes, topology, load and    *)
(* bound.  The invariant is                                                *)
(*                                                                         *)
(*   IInv == TypeOK /\ Sorted /\ SequenceNumbersIssued                     *)
(*           /\ WaitingIsSearched /\ \A d \in Node : LoopFree(d)           *)
(*                                                                         *)
(* NoLoop is not inductive: a node takes the sender of a message for its   *)
(* next hop, so the sender must have a route itself.  LoopFree(d) adds     *)
(* that next hops towards d, and senders about d, have one, and Sorted     *)
(* ties a packet in a FIFO to its destination, whose discovery it awaits.  *)
(* PlaceInv adds where each packet is, and that it is in one place only.   *)
(***************************************************************************)
EXTENDS AODV, FiniteSetTheorems, TLAPS

Table == [Node -> Entry \cup {NoRoute}]

\* A packet waits in the queue of its destination.
Sorted == \A n, d \in Node : \A p \in fifo[n][d] : Dst[p] = d

----------------------------------------------------------------------------
(* What is sent *)

\* The packets handed to Unicast and Broadcast, whose TTL may be too small.
RawRreq == [type : {"RREQ"}, from : Node, to : Node, ttl : Int, id : Nat,
            orig : Node, seq : Nat, hops : Nat, dest : Node]
RawRrep == [type : {"RREP"}, from : Node, to : Node, ttl : Int, hello : BOOLEAN,
            orig : Node, seq : Nat, hops : Nat, dest : Node]
RawRerr == [type : {"RERR"}, from : Node, to : Node, ttl : Int,
            dests : SUBSET Node]

\* The copies of a RREQ differ from it in the receiver only.
LEMMA RreqCopies ==
  ASSUME NEW m \in RawRreq
  PROVE  \A x \in Broadcast(m) :
           /\ x \in Rreq /\ x.type = "RREQ"
           /\ x.from = m.from /\ x.orig = m.orig /\ x.seq = m.seq
<1> TAKE x \in Broadcast(m)
<1>1. PICK k \in Node : x = [m EXCEPT !.to = k] /\ m.ttl > 1
  BY DEF Broadcast
<1> QED
  BY <1>1 DEF RawRreq, Rreq

\* The copies of a hello differ from it in the receiver only.
LEMMA RrepCopies ==
  ASSUME NEW m \in RawRrep
  PROVE  \A x \in Broadcast(m) \cup Unicast(m) :
           /\ x \in Rrep /\ x.type = "RREP"
           /\ x.from = m.from /\ x.dest = m.dest /\ x.seq = m.seq
<1> TAKE x \in Broadcast(m) \cup Unicast(m)
<1>1. m.ttl > 1 /\ (x = m \/ \E k \in Node : x = [m EXCEPT !.to = k])
  BY DEF Broadcast, Unicast
<1>2. CASE x = m
  BY <1>1, <1>2 DEF RawRrep, Rrep
<1>3. CASE \E k \in Node : x = [m EXCEPT !.to = k]
  BY <1>1, <1>3 DEF RawRrep, Rrep
<1> QED
  BY <1>1, <1>2, <1>3

\* The copies of a RERR are RERRs.
LEMMA RerrCopies ==
  ASSUME NEW m \in RawRerr
  PROVE  \A x \in Broadcast(m) : x \in Rerr /\ x.type = "RERR"
<1> TAKE x \in Broadcast(m)
<1>1. PICK k \in Node : x = [m EXCEPT !.to = k] /\ m.ttl > 1
  BY DEF Broadcast
<1> QED
  BY <1>1 DEF RawRerr, Rerr

\* The type field tells the kinds of message apart.
LEMMA Kinds ==
  ASSUME NEW m \in Message
  PROVE  /\ m.type = "RREQ" => m \in Rreq
         /\ m.type = "RREP" => m \in Rrep
         /\ m.type = "RERR" => m \in Rerr
         /\ m.type = "DATA" => m \in Data
BY DEF Message, Rreq, Rrep, Rerr, Data

\* A forwarded RREQ keeps its originator and its number.
LEMMA ForwardedRreq ==
  ASSUME NEW n \in Node, NEW m \in Rreq
  PROVE  \A x \in ForwardRREQ(n, m) :
           /\ x \in Rreq /\ x.type = "RREQ"
           /\ x.from = n /\ x.orig = m.orig /\ x.seq = m.seq
<1> DEFINE f == [m EXCEPT !.from = n, !.to = n, !.ttl = @ - 1, !.hops = @ + 1]
<1>1. f \in RawRreq /\ f.from = n /\ f.orig = m.orig /\ f.seq = m.seq
  <2>1. m.ttl - 1 \in Int /\ m.hops + 1 \in Nat
    BY DEF Rreq
  <2> QED
    BY <2>1 DEF Rreq, RawRreq
<1>2. \A x \in Broadcast(f) : /\ x \in Rreq /\ x.type = "RREQ"
                              /\ x.from = f.from /\ x.orig = f.orig /\ x.seq = f.seq
  BY <1>1, RreqCopies
<1> QED
  BY <1>1, <1>2 DEF ForwardRREQ

\* S are replies of n about d with number s.
Says(S, n, d, s) ==
  \A x \in S : x \in Rrep /\ x.type = "RREP" /\ x.from = n /\ x.dest = d /\ x.seq = s

\* A reply names its sender, its subject and the number given.
LEMMA NewRrep ==
  ASSUME NEW n \in Node, NEW t \in Node, NEW ttl \in Int, NEW o \in Node,
         NEW d \in Node, NEW s \in Nat, NEW h \in Nat
  PROVE  Says(Unicast(RrepPacket(n, t, ttl, o, d, s, h)), n, d, s)
<1> DEFINE r == RrepPacket(n, t, ttl, o, d, s, h)
<1>1. r \in RawRrep /\ r.from = n /\ r.dest = d /\ r.seq = s
  BY DEF RrepPacket, RawRrep
<1> QED
  BY <1>1, RrepCopies DEF Says

----------------------------------------------------------------------------
(* The route table *)

\* X is the table R with an entry for d, which keeps the next hop it had.
Extends(X, R, d, s, v) ==
  /\ X \in Table
  /\ \A e \in Node \ {d} : X[e] = R[e]
  /\ X[d] # NoRoute
  /\ R[d] = NoRoute => X[d].next = v /\ X[d].seq = s
  /\ R[d] # NoRoute => X[d].next = R[d].next /\ X[d].seq \in {s, R[d].seq}

\* What InsertInRouteTable does to a table.
LEMMA Inserted ==
  ASSUME NEW T \in Table, NEW d \in Node, NEW s \in Nat, NEW h \in Nat,
         NEW v \in Node
  PROVE  Extends(InsertInRouteTable(T, d, s, h, v), T, d, s, v)
<1> DEFINE T2 == InsertInRouteTable(T, d, s, h, v)
<1>1. NewEntry(s, h, v) \in Entry /\ NewEntry(s, h, v).next = v
        /\ NewEntry(s, h, v).seq = s
  <2> DEFINE k == s # 0
  <2>1. k \in BOOLEAN
    OBVIOUS
  <2>2. NewEntry(s, h, v) = [seq |-> s, known |-> k, hops |-> h, next |-> v, valid |-> TRUE]
    BY DEF NewEntry
  <2> HIDE DEF k
  <2> QED
    BY <2>1, <2>2 DEF Entry
<1>2. ASSUME T[d] # NoRoute
      PROVE  /\ UpdateEntry(T[d], s, h, v) \in Entry
             /\ UpdateEntry(T[d], s, h, v).next = T[d].next
             /\ UpdateEntry(T[d], s, h, v).seq = s
  <2> DEFINE k == T[d].known \/ s # 0
  <2>1. k \in BOOLEAN /\ T[d].next \in Node
    BY <1>2 DEF Entry, Table
  <2>2. UpdateEntry(T[d], s, h, v) =
          [seq |-> s, known |-> k, hops |-> h, next |-> T[d].next, valid |-> TRUE]
    BY DEF UpdateEntry
  <2> HIDE DEF k
  <2> QED
    BY <2>1, <2>2 DEF Entry
<1>3. CASE T[d] = NoRoute
  <2>1. T2 = [T EXCEPT ![d] = NewEntry(s, h, v)]
    BY <1>3 DEF InsertInRouteTable, Table
  <2> QED
    BY <1>1, <1>3, <2>1, NothingAssumption DEF Table, Extends
<1>4. CASE T[d] # NoRoute /\ Replaces(T[d], s, h)
  <2>1. T2 = [T EXCEPT ![d] = UpdateEntry(T[d], s, h, v)]
    BY <1>4 DEF InsertInRouteTable, Table
  <2> QED
    BY <1>2, <1>4, <2>1, NothingAssumption DEF Table, Extends
<1>5. CASE T[d] # NoRoute /\ ~Replaces(T[d], s, h)
  <2>1. T2 = T
    BY <1>5 DEF InsertInRouteTable, Table
  <2> QED
    BY <1>5, <2>1 DEF Extends
<1> QED
  BY <1>3, <1>4, <1>5

\* Invalidate keeps numbers and next hops.
LEMMA Invalidated ==
  ASSUME NEW T \in Table, NEW u, NEW D \in SUBSET Through(T, u)
  PROVE  /\ Invalidate(T, D) \in Table
         /\ \A d \in Node :
              /\ Invalidate(T, D)[d] = NoRoute <=> T[d] = NoRoute
              /\ T[d] # NoRoute => /\ Invalidate(T, D)[d].next = T[d].next
                                   /\ Invalidate(T, D)[d].seq = T[d].seq
<1>1. \A d \in D : T[d] # NoRoute /\ T[d] \in Entry
  BY DEF Through, CheckRouteFound, Table
<1>2. \A e \in Entry : /\ [e EXCEPT !.valid = FALSE] \in Entry
                       /\ [e EXCEPT !.valid = FALSE].next = e.next
                       /\ [e EXCEPT !.valid = FALSE].seq = e.seq
  <2> SUFFICES ASSUME NEW e \in Entry
               PROVE  /\ [e EXCEPT !.valid = FALSE] \in Entry
                      /\ [e EXCEPT !.valid = FALSE].next = e.next
                      /\ [e EXCEPT !.valid = FALSE].seq = e.seq
    OBVIOUS
  <2>1. FALSE \in BOOLEAN
    OBVIOUS
  <2>2. \A w \in BOOLEAN : /\ [e EXCEPT !.valid = w] \in Entry
                           /\ [e EXCEPT !.valid = w].next = e.next
                           /\ [e EXCEPT !.valid = w].seq = e.seq
    BY DEF Entry
  <2> QED
    BY <2>1, <2>2
<1> QED
  BY <1>1, <1>2, NothingAssumption DEF Invalidate, Table
----------------------------------------------------------------------------
(* Types *)

\* The type of a request and of a TTL.
LEMMA RequestTyped ==
  ASSUME TypeOK, NEW n \in Node, NEW d \in Node
  PROVE  /\ fnIncreaseTTL(n, d) \in Nat
         /\ \A t \in Nat : InRREQSentTable(rreqSentTable[n][d], t) \in Request
<1>1. rreqSentTable[n][d] \in Request \cup {NoRequest}
  BY DEF TypeOK
<1>2. fnIncreaseTTL(n, d) \in Nat
  BY <1>1, NumberAssumption DEF fnIncreaseTTL, Request
<1>3. ASSUME NEW t \in Nat PROVE InRREQSentTable(rreqSentTable[n][d], t) \in Request
  <2> DEFINE k == IF rreqSentTable[n][d] = NoRequest THEN 1 ELSE rreqSentTable[n][d].times
             w == IF t = NetDiameter THEN k + 1 ELSE k
  <2>1. k \in Nat
    BY <1>1 DEF Request
  <2>2. w \in Nat
    BY <2>1
  <2>3. InRREQSentTable(rreqSentTable[n][d], t) = [ttl |-> t, times |-> w]
    BY DEF InRREQSentTable
  <2> HIDE DEF w
  <2> QED
    BY <2>2, <2>3 DEF Request
<1> QED
  BY <1>2, <1>3

\* The state of the discoveries after a new RREQ of n for d.
LEMMA NewRreqTyped ==
  ASSUME TypeOK, NEW n \in Node, NEW d \in Node, NEW t \in Nat, NewRREQ(n, d, t)
  PROVE  /\ nSequenceNumber' \in [Node -> Nat] /\ nRREQId' \in Nat
         /\ rreqSeenTable' \in [Node -> SUBSET Nat]
         /\ rreqSentTable' \in [Node -> [Node -> Request \cup {NoRequest}]]
         /\ rreqSentTable'[n][d] # NoRequest
         /\ \A k, e \in Node : <<k, e>> # <<n, d>> =>
              rreqSentTable'[k][e] = rreqSentTable[k][e]
         /\ nSequenceNumber'[n] = nSequenceNumber[n] + 1
         /\ \A k \in Node \ {n} : nSequenceNumber'[k] = nSequenceNumber[k]
<1>1. InRREQSentTable(rreqSentTable[n][d], t) \in Request
  BY RequestTyped
<1>2. rreqSentTable' = [rreqSentTable EXCEPT ![n][d] = InRREQSentTable(rreqSentTable[n][d], t)]
  BY DEF NewRREQ
<1>3. /\ rreqSentTable' \in [Node -> [Node -> Request \cup {NoRequest}]]
      /\ rreqSentTable'[n][d] \in Request
      /\ \A k, e \in Node : <<k, e>> # <<n, d>> =>
           rreqSentTable'[k][e] = rreqSentTable[k][e]
  BY <1>1, <1>2 DEF TypeOK
<1>4. /\ nSequenceNumber' = [nSequenceNumber EXCEPT ![n] = @ + 1]
      /\ nRREQId' = nRREQId + 1
      /\ rreqSeenTable' = [rreqSeenTable EXCEPT ![n] = @ \cup {nRREQId + 1}]
  BY DEF NewRREQ
<1> QED
  BY <1>3, <1>4, NothingAssumption DEF TypeOK

\* The copies of the RREQ of n for d.
LEMMA NewRreqCopies ==
  ASSUME TypeOK, NEW n \in Node, NEW d \in Node, NEW t \in Nat
  PROVE  \A x \in Broadcast(RreqPacket(n, d, t)) :
           /\ x \in Rreq /\ x.type = "RREQ"
           /\ x.from = n /\ x.orig = n /\ x.seq = nSequenceNumber[n] + 1
<1> DEFINE r == RreqPacket(n, d, t)
<1>1. nSequenceNumber[n] + 1 \in Nat /\ nRREQId + 1 \in Nat
  BY DEF TypeOK
<1>2. r \in RawRreq /\ r.from = n /\ r.orig = n /\ r.seq = nSequenceNumber[n] + 1
  BY <1>1 DEF RreqPacket, RawRreq
<1> QED
  BY <1>2, RreqCopies

\* A data packet sent along a table.
LEMMA DataSent ==
  ASSUME NEW T \in Table, NEW n \in Node, NEW p \in Packet, T[Dst[p]] # NoRoute
  PROVE  DataTo(n, T, p) \in Data /\ DataTo(n, T, p).type = "DATA"
<1>1. T[Dst[p]] \in Entry
  BY TopologyAssumption DEF Table
<1> QED
  BY <1>1 DEF DataTo, Data, Entry

\* What leaves the FIFO are data packets; what stays has no route.
LEMMA FifoSent ==
  ASSUME TypeOK, Sorted, NEW T \in Table, NEW n \in Node
  PROVE  /\ \A x \in TransmitFIFOBuffer(n, T) : x \in Data /\ x.type = "DATA"
         /\ Kept(n, T) \in [Node -> SUBSET Packet]
         /\ \A d \in Node : Kept(n, T)[d] # {} =>
              T[d] = NoRoute /\ Kept(n, T)[d] = fifo[n][d]
         /\ \A d \in Node : Kept(n, T)[d] \subseteq fifo[n][d]
<1>1. ASSUME NEW x \in TransmitFIFOBuffer(n, T)
      PROVE  x \in Data /\ x.type = "DATA"
  <2>1. PICK p \in Released(n, T) : x = DataTo(n, T, p)
    BY DEF TransmitFIFOBuffer
  <2>2. PICK d \in Node : T[d] # NoRoute /\ p \in fifo[n][d]
    BY DEF Released, CheckRouteFound
  <2>3. p \in Packet /\ Dst[p] = d
    BY <2>2 DEF Sorted, TypeOK
  <2> QED
    BY <2>1, <2>2, <2>3, DataSent
<1> QED
  BY <1>1 DEF Kept, CheckRouteFound, TypeOK

\* A data packet of this event leaves, or waits and starts a discovery.
LEMMA ProcessingTyped ==
  ASSUME TypeOK, Sorted, NEW n \in Node, NEW p \in Packet, NEW in \in SUBSET air,
         GeneralPacketProcessing(n, p, in)
  PROVE  /\ nSequenceNumber' \in [Node -> Nat] /\ nRREQId' \in Nat
         /\ rreqSeenTable' \in [Node -> SUBSET Nat]
         /\ rreqSentTable' \in [Node -> [Node -> Request \cup {NoRequest}]]
         /\ fifo' \in [Node -> [Node -> SUBSET Packet]] /\ Sorted'
         /\ UNCHANGED <<routeTable, nRerrCount>>
         /\ \A k \in Node : nSequenceNumber'[k] >= nSequenceNumber[k]
         /\ \A x \in air' \ air :
              /\ x \in Message
              /\ x.type # "DATA" => /\ x.type = "RREQ" /\ x.from = n /\ x.orig = n
                                    /\ x.seq <= nSequenceNumber'[n]
         /\ \A k, d \in Node : fifo'[k][d] # {} =>
              \/ rreqSentTable'[k][d] # NoRequest /\ routeTable[k][d] = NoRoute
              \/ /\ fifo[k][d] # {} /\ rreqSentTable'[k][d] = rreqSentTable[k][d]
<1> DEFINE d == Dst[p]
           t == fnIncreaseTTL(n, d) + 1
<1>1. d \in Node /\ t \in Nat /\ t + 1 \in Nat
  BY RequestTyped, TopologyAssumption
<1>2. routeTable[n] \in Table
  BY DEF TypeOK, Table
<1>3. ASSUME CheckRouteFound(routeTable[n], d)
      PROVE  /\ UNCHANGED node
             /\ air' = (air \ in) \cup {DataTo(n, routeTable[n], p)}
             /\ DataTo(n, routeTable[n], p) \in Message
             /\ DataTo(n, routeTable[n], p).type = "DATA"
  BY <1>2, <1>3, DataSent DEF GeneralPacketProcessing, CheckRouteFound, Message
<1>4. ASSUME ~CheckRouteFound(routeTable[n], d)
      PROVE  /\ fifo' = [fifo EXCEPT ![n][d] = @ \cup {p}]
             /\ UNCHANGED <<routeTable, nRerrCount>>
             /\ routeTable[n][d] = NoRoute
             /\ \/ /\ fifo[n][d] # {} /\ air' = air \ in
                   /\ UNCHANGED <<nSequenceNumber, nRREQId, rreqSentTable, rreqSeenTable>>
                \/ /\ NewRREQ(n, d, t)
                   /\ air' = (air \ in) \cup Broadcast(RreqPacket(n, d, t + 1))
  BY <1>4 DEF GeneralPacketProcessing, CheckRouteFound
<1>5. CASE CheckRouteFound(routeTable[n], d)
  BY <1>3, <1>5 DEF node, TypeOK, Sorted
<1>6. CASE ~CheckRouteFound(routeTable[n], d)
  <2>1. fifo' \in [Node -> [Node -> SUBSET Packet]] /\ Sorted'
    <3>1. fifo[n][d] \cup {p} \in SUBSET Packet /\ fifo \in [Node -> [Node -> SUBSET Packet]]
      BY <1>1 DEF TypeOK
    <3>2. fifo' = [fifo EXCEPT ![n] = [fifo[n] EXCEPT ![d] = fifo[n][d] \cup {p}]]
      BY <1>4, <1>6
    <3>3. [fifo[n] EXCEPT ![d] = fifo[n][d] \cup {p}] \in [Node -> SUBSET Packet]
      BY <3>1
    <3>4. fifo' \in [Node -> [Node -> SUBSET Packet]]
      BY <3>1, <3>2, <3>3
    <3>5. ASSUME NEW k \in Node, NEW e \in Node, NEW q \in fifo'[k][e] PROVE Dst[q] = e
      <4>1. q \in fifo[k][e] \/ (q = p /\ e = d)
        BY <1>1, <3>1, <3>2, <3>5
      <4> QED
        BY <4>1 DEF Sorted
    <3> QED
      BY <3>4, <3>5 DEF Sorted
  <2>2. \A k, e \in Node : <<k, e>> # <<n, d>> => fifo'[k][e] = fifo[k][e]
    BY <1>1, <1>4, <1>6 DEF TypeOK
  <2>3. CASE /\ fifo[n][d] # {} /\ air' = air \ in
             /\ UNCHANGED <<nSequenceNumber, nRREQId, rreqSentTable, rreqSeenTable>>
    BY <1>4, <1>6, <2>1, <2>2, <2>3 DEF TypeOK
  <2>4. CASE /\ NewRREQ(n, d, t)
             /\ air' = (air \ in) \cup Broadcast(RreqPacket(n, d, t + 1))
    <3>1. /\ nSequenceNumber' \in [Node -> Nat] /\ nRREQId' \in Nat
          /\ rreqSeenTable' \in [Node -> SUBSET Nat]
          /\ rreqSentTable' \in [Node -> [Node -> Request \cup {NoRequest}]]
          /\ rreqSentTable'[n][d] # NoRequest
          /\ \A k, e \in Node : <<k, e>> # <<n, d>> =>
               rreqSentTable'[k][e] = rreqSentTable[k][e]
          /\ nSequenceNumber'[n] = nSequenceNumber[n] + 1
          /\ \A k \in Node \ {n} : nSequenceNumber'[k] = nSequenceNumber[k]
      BY <1>1, <2>4, NewRreqTyped
    <3>2. \A x \in Broadcast(RreqPacket(n, d, t + 1)) :
             /\ x \in Rreq /\ x.type = "RREQ"
             /\ x.from = n /\ x.orig = n /\ x.seq = nSequenceNumber[n] + 1
      BY <1>1, NewRreqCopies
    <3>3. ASSUME NEW k \in Node PROVE nSequenceNumber'[k] >= nSequenceNumber[k]
      <4>1. nSequenceNumber[k] \in Nat
        BY DEF TypeOK
      <4>2. nSequenceNumber'[k] \in {nSequenceNumber[k], nSequenceNumber[k] + 1}
        BY <3>1
      <4> QED
        BY <4>1, <4>2
    <3>4. \A x \in air' \ air :
              /\ x \in Message
              /\ x.type # "DATA" => /\ x.type = "RREQ" /\ x.from = n /\ x.orig = n
                                    /\ x.seq <= nSequenceNumber'[n]
      BY <2>4, <3>1, <3>2 DEF Message, TypeOK
    <3> HIDE DEF d, t
    <3> QED
      BY <1>1, <1>4, <1>6, <2>1, <2>2, <3>1, <3>3, <3>4
  <2> QED
    BY <1>4, <1>6, <2>3, <2>4
<1> QED
  BY <1>5, <1>6

----------------------------------------------------------------------------
(* The invariant *)

\* m may make its receiver learn a route to d.
About(m, d) ==
  \/ m.type = "RREQ" /\ m.orig = d
  \/ m.type = "RREP" /\ m.dest = d

Routed(T, n, d) == n = d \/ T[n][d] # NoRoute

\* Next hops towards d, and those who speak about it, have a route to it.
Anchored(d) ==
  /\ \A n \in Node : routeTable[n][d] # NoRoute =>
       Routed(routeTable, routeTable[n][d].next, d)
  /\ \A m \in air : About(m, d) => Routed(routeTable, m.from, d)

LoopFree(d) == Lasting(d) => Anchored(d) /\ LeavesEverySet(routeTable, d)

IInv ==
  /\ TypeOK /\ Sorted /\ SequenceNumbersIssued /\ WaitingIsSearched
  /\ \A d \in Node : LoopFree(d)

----------------------------------------------------------------------------
(* What every step does to routes, numbers and queues *)

\* The entry of n for d is as before, or it is the one of message m.
SameRoute(n, d) ==
  /\ routeTable[n][d] # NoRoute
  /\ routeTable'[n][d].next = routeTable[n][d].next
  /\ routeTable'[n][d].seq = routeTable[n][d].seq

Learns(m, n, d) ==
  /\ About(m, d)
  /\ \/ routeTable'[n][d].seq = m.seq
     \/ routeTable[n][d] # NoRoute /\ routeTable'[n][d].seq = routeTable[n][d].seq
  /\ \/ routeTable[n][d] = NoRoute /\ routeTable'[n][d].next = m.from
     \/ routeTable[n][d] # NoRoute /\ routeTable'[n][d].next = routeTable[n][d].next

\* A new message tells of a number its owner has reached, from a node that
\* has a route to it.
Truthful(x) ==
  /\ x.type = "RREQ" => /\ x.seq <= nSequenceNumber'[x.orig]
                        /\ Routed(routeTable', x.from, x.orig)
  /\ x.type = "RREP" => /\ x.seq <= nSequenceNumber'[x.dest]
                        /\ Routed(routeTable', x.from, x.dest)

Searched(n, d) ==
  \/ rreqSentTable'[n][d] # NoRequest /\ routeTable'[n][d] = NoRoute
  \/ /\ fifo[n][d] # {} /\ rreqSentTable'[n][d] = rreqSentTable[n][d]
     /\ routeTable[n][d] = NoRoute => routeTable'[n][d] = NoRoute

Gentle ==
  /\ \A n \in Node : nSequenceNumber'[n] >= nSequenceNumber[n]
  /\ \A n, d \in Node : routeTable'[n][d] # NoRoute =>
       SameRoute(n, d) \/ \E m \in air : Learns(m, n, d)
  /\ \A n, d \in Node : routeTable[n][d] # NoRoute /\ routeTable'[n][d] = NoRoute =>
       <<n, d>> \in expired'
  /\ expired \subseteq expired'
  /\ \A x \in air' \ air : Truthful(x)
  /\ \A n, d \in Node : fifo'[n][d] # {} => Searched(n, d)

\* A gentle step keeps sequence numbers below those of their owners.
LEMMA NumbersStep ==
  ASSUME IInv, TypeOK', Gentle
  PROVE  SequenceNumbersIssued'
<1>1. \A n \in Node : /\ nSequenceNumber[n] \in Nat /\ nSequenceNumber'[n] \in Nat
                      /\ nSequenceNumber'[n] >= nSequenceNumber[n]
  BY DEF IInv, TypeOK, Gentle
<1>2. \A m \in air \cup air' :
        /\ m.type = "RREQ" => m.orig \in Node /\ m.seq \in Nat
        /\ m.type = "RREP" => m.dest \in Node /\ m.seq \in Nat
  BY Kinds DEF IInv, TypeOK, Rreq, Rrep
<1>3. ASSUME NEW m \in air
      PROVE  /\ m.type = "RREQ" => m.seq <= nSequenceNumber[m.orig]
             /\ m.type = "RREP" => m.seq <= nSequenceNumber[m.dest]
  BY <1>3 DEF IInv, SequenceNumbersIssued
<1>4. ASSUME NEW n \in Node, NEW d \in Node, routeTable'[n][d] # NoRoute
      PROVE  routeTable'[n][d].seq <= nSequenceNumber'[d]
  <2>1. \/ routeTable[n][d] # NoRoute /\ routeTable'[n][d].seq = routeTable[n][d].seq
        \/ \E m \in air : About(m, d) /\ routeTable'[n][d].seq = m.seq
    BY <1>4 DEF Gentle, SameRoute, Learns
  <2>2. CASE routeTable[n][d] # NoRoute /\ routeTable'[n][d].seq = routeTable[n][d].seq
    <3>1. routeTable[n][d] \in Entry
      BY <2>2 DEF IInv, TypeOK
    <3>2. routeTable[n][d].seq <= nSequenceNumber[d] /\ routeTable[n][d].seq \in Nat
      BY <2>2, <3>1 DEF IInv, SequenceNumbersIssued, Entry
    <3> QED
      BY <1>1, <2>2, <3>2
  <2>3. ASSUME NEW m \in air, About(m, d), routeTable'[n][d].seq = m.seq
        PROVE  routeTable'[n][d].seq <= nSequenceNumber'[d]
    BY <1>1, <1>2, <1>3, <2>3 DEF About
  <2> QED
    BY <2>1, <2>2, <2>3
<1>5. ASSUME NEW m \in air'
      PROVE  /\ m.type = "RREQ" => m.seq <= nSequenceNumber'[m.orig]
             /\ m.type = "RREP" => m.seq <= nSequenceNumber'[m.dest]
  <2>1. CASE m \in air
    BY <1>1, <1>2, <1>3, <2>1
  <2>2. CASE m \notin air
    BY <2>2 DEF Gentle, Truthful
  <2> QED
    BY <2>1, <2>2
<1> QED
  BY <1>4, <1>5 DEF SequenceNumbersIssued

\* A gentle step closes no loop.  The nodes of a closed set that had a route
\* before the step would have been closed already: a next hop had a route.
LEMMA LoopStep ==
  ASSUME IInv, TypeOK', Gentle, NEW d \in Node
  PROVE  LoopFree(d)'
<1> SUFFICES ASSUME Lasting(d)' PROVE Anchored(d)' /\ LeavesEverySet(routeTable', d)
  BY DEF LoopFree
<1>1. Lasting(d) /\ Anchored(d) /\ LeavesEverySet(routeTable, d)
  BY DEF Lasting, Gentle, IInv, LoopFree
<1>2. \A n \in Node : routeTable[n][d] # NoRoute => routeTable'[n][d] # NoRoute
  BY DEF Gentle, Lasting
<1>3. ASSUME NEW n \in Node, routeTable'[n][d] # NoRoute
      PROVE  /\ Routed(routeTable, routeTable'[n][d].next, d)
             /\ routeTable[n][d] # NoRoute => routeTable'[n][d].next = routeTable[n][d].next
  <2>1. CASE SameRoute(n, d)
    BY <1>1, <2>1 DEF SameRoute, Anchored
  <2>2. ASSUME NEW m \in air, Learns(m, n, d)
        PROVE  /\ Routed(routeTable, routeTable'[n][d].next, d)
               /\ routeTable[n][d] # NoRoute =>
                    routeTable'[n][d].next = routeTable[n][d].next
    BY <1>1, <2>2 DEF Learns, Anchored
  <2> QED
    BY <1>3, <2>1, <2>2 DEF Gentle
<1>4. ASSUME NEW n \in Node, routeTable'[n][d] # NoRoute
      PROVE  routeTable'[n][d].next \in Node
  BY <1>4 DEF TypeOK, Entry
<1>5. \A n \in Node : Routed(routeTable, n, d) => Routed(routeTable', n, d)
  BY <1>2 DEF Routed
<1>6. Anchored(d)'
  <2>1. ASSUME NEW n \in Node, routeTable'[n][d] # NoRoute
        PROVE  Routed(routeTable', routeTable'[n][d].next, d)
    BY <1>3, <1>4, <1>5, <2>1
  <2>2. ASSUME NEW m \in air', About(m, d)
        PROVE  Routed(routeTable', m.from, d)
    <3>1. m.from \in Node
      BY <2>2, Kinds DEF TypeOK, About, Rreq, Rrep
    <3>2. CASE m \in air
      BY <1>1, <1>5, <2>2, <3>1, <3>2 DEF Anchored
    <3>3. CASE m \notin air
      BY <2>2, <3>3 DEF Gentle, Truthful, About
    <3> QED
      BY <3>2, <3>3
  <2> QED
    BY <2>1, <2>2 DEF Anchored
<1>7. LeavesEverySet(routeTable', d)
  <2> SUFFICES ASSUME NEW S \in SUBSET (Node \ {d}), S # {},
                      \A n \in S : routeTable'[n][d] # NoRoute /\ routeTable'[n][d].next \in S
               PROVE  FALSE
    BY DEF LeavesEverySet
  <2> DEFINE Old == {n \in S : routeTable[n][d] # NoRoute}
  <2>1. \A n \in S : routeTable'[n][d].next \in Old
    BY <1>3 DEF Routed
  <2>2. Old # {} /\ Old \in SUBSET (Node \ {d})
    BY <2>1
  <2>3. \A n \in Old : routeTable[n][d] # NoRoute /\ routeTable[n][d].next \in Old
    BY <1>3, <2>1
  <2> HIDE DEF Old
  <2> QED
    BY <1>1, <2>2, <2>3 DEF LeavesEverySet
<1> QED
  BY <1>6, <1>7

\* Every gentle step keeps the invariant.
LEMMA GentleStep ==
  ASSUME IInv, TypeOK', Sorted', Gentle
  PROVE  IInv'
<1>1. WaitingIsSearched'
  BY DEF IInv, WaitingIsSearched, Gentle, Searched
<1>2. \A d \in Node : LoopFree(d)'
  BY LoopStep
<1> QED
  BY <1>1, <1>2, NumbersStep DEF IInv

----------------------------------------------------------------------------
(* The steps *)

\* A data packet of this event, offered or relayed.
LEMMA ProcessingStep ==
  ASSUME IInv, NEW n \in Node, NEW p \in Packet, NEW in \in SUBSET air,
         GeneralPacketProcessing(n, p, in), UNCHANGED expired
  PROVE  Gentle /\ Sorted'
<1>1. /\ UNCHANGED <<routeTable, nRerrCount>> /\ Sorted'
      /\ \A k \in Node : nSequenceNumber'[k] >= nSequenceNumber[k]
      /\ \A x \in air' \ air :
              /\ x \in Message
              /\ x.type # "DATA" => /\ x.type = "RREQ" /\ x.from = n /\ x.orig = n
                                    /\ x.seq <= nSequenceNumber'[n]
      /\ \A k, d \in Node : fifo'[k][d] # {} =>
              \/ rreqSentTable'[k][d] # NoRequest /\ routeTable[k][d] = NoRoute
              \/ /\ fifo[k][d] # {} /\ rreqSentTable'[k][d] = rreqSentTable[k][d]
  BY ProcessingTyped DEF IInv
<1>2. \A x \in air' \ air : Truthful(x)
  BY <1>1 DEF Truthful, Routed
<1> QED
  BY <1>1, <1>2 DEF Gentle, SameRoute, Searched

\* A packet of an application.
LEMMA AppSendStep ==
  ASSUME IInv, NEW p \in Packet, AppSend(p)
  PROVE  IInv'
<1>1. Src[p] \in Node /\ GeneralPacketProcessing(Src[p], p, {}) /\ UNCHANGED expired
  BY TopologyAssumption DEF AppSend
<1>2. Gentle /\ Sorted'
  BY <1>1, ProcessingStep
<1>3. TypeOK'
  <2>1. /\ nSequenceNumber' \in [Node -> Nat] /\ nRREQId' \in Nat
        /\ rreqSeenTable' \in [Node -> SUBSET Nat]
        /\ rreqSentTable' \in [Node -> [Node -> Request \cup {NoRequest}]]
        /\ fifo' \in [Node -> [Node -> SUBSET Packet]]
        /\ UNCHANGED <<routeTable, nRerrCount>>
        /\ \A x \in air' \ air : x \in Message
    BY <1>1, ProcessingTyped DEF IInv
  <2> QED
    BY <2>1 DEF IInv, TypeOK, AppSend
<1> QED
  BY <1>2, <1>3, GentleStep

\* A data packet at its destination or at a relay.
LEMMA ReceiveDataStep ==
  ASSUME IInv, NEW m \in air, ReceiveData(m)
  PROVE  IInv'
<1>1. m \in Data /\ m.to \in Node /\ m.pkt \in Packet
  BY Kinds DEF IInv, TypeOK, ReceiveData, Data
<1>2. CASE m.to = Dst[m.pkt]
  <2>1. /\ delivered' = delivered \cup {m.pkt} /\ air' = air \ {m}
        /\ UNCHANGED <<node, up, moves, greeted, offered, dropped, expired>>
    BY <1>2 DEF ReceiveData
  <2>2. TypeOK' /\ Sorted'
    BY <1>1, <2>1 DEF IInv, TypeOK, Sorted, node
  <2>3. Gentle
    BY <2>1, <2>2 DEF Gentle, SameRoute, Searched, node, IInv, TypeOK
  <2> QED
    BY <2>2, <2>3, GentleStep
<1>3. CASE m.to # Dst[m.pkt]
  <2>1. /\ GeneralPacketProcessing(m.to, m.pkt, {m})
        /\ UNCHANGED <<up, moves, greeted, offered, delivered, dropped, expired>>
    BY <1>3 DEF ReceiveData
  <2>2. Gentle /\ Sorted'
    BY <1>1, <2>1, ProcessingStep
  <2>3. TypeOK'
    <3>1. /\ nSequenceNumber' \in [Node -> Nat] /\ nRREQId' \in Nat
          /\ rreqSeenTable' \in [Node -> SUBSET Nat]
          /\ rreqSentTable' \in [Node -> [Node -> Request \cup {NoRequest}]]
          /\ fifo' \in [Node -> [Node -> SUBSET Packet]]
          /\ UNCHANGED <<routeTable, nRerrCount>>
          /\ \A x \in air' \ air : x \in Message
      BY <1>1, <2>1, ProcessingTyped DEF IInv
    <3> QED
      BY <2>1, <3>1 DEF IInv, TypeOK
  <2> QED
    BY <2>2, <2>3, GentleStep
<1> QED
  BY <1>2, <1>3

\* The RREQ timer.
LEMMA RetryStep ==
  ASSUME IInv, NEW n \in Node, NEW d \in Node, RetryRREQ(n, d)
  PROVE  IInv'
<1> DEFINE t == fnIncreaseTTL(n, d)
<1>1. t \in Nat /\ t + 1 \in Nat
  BY RequestTyped DEF IInv
<1>2. UNCHANGED <<routeTable, nRerrCount, up, moves, greeted, offered, delivered, expired>>
  BY DEF RetryRREQ
<1>3. CASE rreqSentTable[n][d].times > RreqRetries
  <2>1. /\ rreqSentTable' = [rreqSentTable EXCEPT ![n][d] = NoRequest]
        /\ fifo' = [fifo EXCEPT ![n][d] = {}]
        /\ dropped' = dropped \cup fifo[n][d]
        /\ UNCHANGED <<nSequenceNumber, nRREQId, rreqSeenTable, air>>
    BY <1>3 DEF RetryRREQ
  <2>2. TypeOK'
    BY <1>2, <2>1 DEF IInv, TypeOK
  <2>3. \A k, e \in Node : fifo'[k][e] # {} =>
          fifo'[k][e] = fifo[k][e] /\ rreqSentTable'[k][e] = rreqSentTable[k][e]
    BY <2>1 DEF IInv, TypeOK
  <2>4. Sorted'
    BY <2>3 DEF IInv, Sorted
  <2>5. Gentle
    BY <1>2, <2>1, <2>3 DEF Gentle, SameRoute, Searched, IInv, TypeOK
  <2> QED
    BY <2>2, <2>4, <2>5, GentleStep
<1>4. CASE ~(rreqSentTable[n][d].times > RreqRetries)
  <2>1. /\ NewRREQ(n, d, t)
        /\ air' = air \cup Broadcast(RreqPacket(n, d, t + 1))
        /\ UNCHANGED <<fifo, dropped>>
    BY <1>4 DEF RetryRREQ
  <2>2. /\ nSequenceNumber' \in [Node -> Nat] /\ nRREQId' \in Nat
        /\ rreqSeenTable' \in [Node -> SUBSET Nat]
        /\ rreqSentTable' \in [Node -> [Node -> Request \cup {NoRequest}]]
        /\ rreqSentTable'[n][d] # NoRequest
        /\ \A k, e \in Node : <<k, e>> # <<n, d>> =>
             rreqSentTable'[k][e] = rreqSentTable[k][e]
        /\ nSequenceNumber'[n] = nSequenceNumber[n] + 1
        /\ \A k \in Node \ {n} : nSequenceNumber'[k] = nSequenceNumber[k]
    BY <1>1, <2>1, NewRreqTyped DEF IInv
  <2>3. \A x \in Broadcast(RreqPacket(n, d, t + 1)) :
           /\ x \in Rreq /\ x.type = "RREQ"
           /\ x.from = n /\ x.orig = n /\ x.seq = nSequenceNumber[n] + 1
    BY <1>1, NewRreqCopies DEF IInv
  <2> HIDE DEF t
  <2>4. TypeOK'
    BY <1>2, <2>1, <2>2, <2>3 DEF IInv, TypeOK, Message
  <2>5. ASSUME NEW k \in Node PROVE nSequenceNumber'[k] >= nSequenceNumber[k]
    <3>1. nSequenceNumber[k] \in Nat
      BY DEF IInv, TypeOK
    <3>2. nSequenceNumber'[k] \in {nSequenceNumber[k], nSequenceNumber[k] + 1}
      BY <2>2
    <3> QED
      BY <3>1, <3>2
  <2>6. \A x \in air' \ air : Truthful(x)
    BY <2>1, <2>2, <2>3, <2>4 DEF Truthful, Routed, TypeOK
  <2>7. \A k, e \in Node : fifo'[k][e] # {} => Searched(k, e)
    BY <1>2, <2>1, <2>2 DEF Searched, IInv, WaitingIsSearched
  <2>8. Gentle
    BY <1>2, <2>5, <2>6, <2>7 DEF Gentle, SameRoute
  <2>9. Sorted'
    BY <2>1 DEF IInv, Sorted
  <2> QED
    BY <2>4, <2>8, <2>9, GentleStep
<1> QED
  BY <1>3, <1>4

\* The hello of a node tells its own number.
LEMMA HelloStep ==
  ASSUME IInv, NEW n \in Node, TransmitHelloMessage(n)
  PROVE  IInv'
<1> DEFINE h == [RrepPacket(n, n, 2, n, n, nSequenceNumber[n], 0) EXCEPT !.hello = TRUE]
<1>1. /\ air' = air \cup Broadcast(h) /\ greeted' = greeted \cup {n} /\ n \in Greeting
      /\ UNCHANGED <<node, up, moves, offered, delivered, dropped, expired>>
  BY DEF TransmitHelloMessage
<1>2. h \in RawRrep /\ h.from = n /\ h.dest = n /\ h.seq = nSequenceNumber[n]
  <2>1. nSequenceNumber[n] \in Nat
    BY DEF IInv, TypeOK
  <2>2. RrepPacket(n, n, 2, n, n, nSequenceNumber[n], 0) \in RawRrep
    BY <2>1 DEF RrepPacket, RawRrep
  <2>3. \A w \in BOOLEAN, r \in RawRrep :
          /\ [r EXCEPT !.hello = w] \in RawRrep
          /\ [r EXCEPT !.hello = w].from = r.from
          /\ [r EXCEPT !.hello = w].dest = r.dest
          /\ [r EXCEPT !.hello = w].seq = r.seq
    BY DEF RawRrep
  <2>4. TRUE \in BOOLEAN
    OBVIOUS
  <2>5. LET r == RrepPacket(n, n, 2, n, n, nSequenceNumber[n], 0)
        IN  r.from = n /\ r.dest = n /\ r.seq = nSequenceNumber[n]
    BY DEF RrepPacket
  <2> QED
    BY <2>2, <2>3, <2>4, <2>5
<1>3. \A x \in Broadcast(h) : /\ x \in Rrep /\ x.type = "RREP"
                              /\ x.from = n /\ x.dest = n /\ x.seq = nSequenceNumber[n]
  BY <1>2, RrepCopies
<1> HIDE DEF h
<1>4. TypeOK' /\ Sorted'
  BY <1>1, <1>3, NumberAssumption DEF IInv, TypeOK, Sorted, Message, node
<1>5. \A x \in air' \ air : Truthful(x)
  BY <1>1, <1>3, <1>4 DEF Truthful, Routed, node, TypeOK
<1>6. Gentle
  BY <1>1, <1>4, <1>5 DEF Gentle, SameRoute, Searched, node, IInv, TypeOK
<1> QED
  BY <1>4, <1>6, GentleStep

\* The table of n after it has learnt from m a route to d.
NewTable(n, d, m, h) == InsertInRouteTable(routeTable[n], d, m.seq, h, m.from)

\* What the step of n that takes T for its table, learning d from m, does.
Installs(T, n, d, m) ==
  /\ routeTable' \in [Node -> Table] /\ T \in Table /\ T[d] # NoRoute
  /\ routeTable'[n] = T
  /\ fifo' \in [Node -> [Node -> SUBSET Packet]] /\ Sorted'
  /\ \A k, e \in Node : routeTable'[k][e] # NoRoute =>
       SameRoute(k, e) \/ \E x \in air : Learns(x, k, e)
  /\ \A k, e \in Node : routeTable[k][e] # NoRoute => routeTable'[k][e] # NoRoute
  /\ \A e \in Node : T[e] # NoRoute =>
       \/ e = d /\ T[e].seq = m.seq
       \/ routeTable[n][e] # NoRoute /\ T[e].seq = routeTable[n][e].seq
  /\ \A k, e \in Node : fifo'[k][e] # {} =>
       /\ fifo[k][e] # {} /\ routeTable'[k][e] = routeTable[k][e]
       /\ k = n => T[e] = NoRoute

\* The step of a node that installs a route learnt from m: the conditions
\* under which it is gentle.
LEMMA LearningStep ==
  ASSUME IInv, NEW m \in air, NEW n \in Node, NEW d \in Node, About(m, d),
         NEW h \in Nat,
         m.seq \in Nat, m.from \in Node,
         routeTable' = [routeTable EXCEPT ![n] = NewTable(n, d, m, h)],
         fifo' = [fifo EXCEPT ![n] = Kept(n, NewTable(n, d, m, h))]
  PROVE  Installs(NewTable(n, d, m, h), n, d, m)
<1> DEFINE T == NewTable(n, d, m, h)
<1>1. routeTable \in [Node -> Table] /\ fifo \in [Node -> [Node -> SUBSET Packet]]
  BY DEF IInv, TypeOK, Table
<1>2. Extends(T, routeTable[n], d, m.seq, m.from)
  <2>1. routeTable[n] \in Table
    BY <1>1
  <2> QED
    BY <2>1, Inserted DEF NewTable
<1> HIDE DEF T
<1>0. /\ T \in Table
      /\ \A e \in Node \ {d} : T[e] = routeTable[n][e]
      /\ T[d] # NoRoute
      /\ routeTable[n][d] = NoRoute => T[d].next = m.from /\ T[d].seq = m.seq
      /\ routeTable[n][d] # NoRoute => /\ T[d].next = routeTable[n][d].next
                                       /\ T[d].seq \in {m.seq, routeTable[n][d].seq}
  BY <1>2 DEF Extends
<1>3. /\ Kept(n, T) \in [Node -> SUBSET Packet]
      /\ \A e \in Node : Kept(n, T)[e] # {} => T[e] = NoRoute /\ Kept(n, T)[e] = fifo[n][e]
      /\ \A e \in Node : Kept(n, T)[e] \subseteq fifo[n][e]
  BY <1>0, FifoSent DEF IInv
<1>11. /\ routeTable' = [routeTable EXCEPT ![n] = T]
       /\ fifo' = [fifo EXCEPT ![n] = Kept(n, T)]
  BY DEF T
<1>4. \A k \in Node \ {n} : routeTable'[k] = routeTable[k] /\ fifo'[k] = fifo[k]
  BY <1>1, <1>11
<1>5. routeTable'[n] = T /\ fifo'[n] = Kept(n, T)
  BY <1>1, <1>11
<1>6. routeTable' \in [Node -> Table] /\ fifo' \in [Node -> [Node -> SUBSET Packet]]
  BY <1>1, <1>0, <1>3, <1>11
<1>7. Sorted'
  BY <1>3, <1>4, <1>5 DEF IInv, Sorted
<1>8. ASSUME NEW k \in Node, NEW e \in Node, routeTable'[k][e] # NoRoute
      PROVE  SameRoute(k, e) \/ \E x \in air : Learns(x, k, e)
  <2>1. CASE k # n \/ e # d
    BY <1>0, <1>4, <1>5, <1>8, <2>1 DEF SameRoute
  <2>2. CASE k = n /\ e = d
    BY <1>0, <1>5, <2>2 DEF Learns
  <2> QED
    BY <2>1, <2>2
<1>9. \A k, e \in Node : routeTable[k][e] # NoRoute => routeTable'[k][e] # NoRoute
  BY <1>0, <1>4, <1>5
<1>10. \A k, e \in Node : fifo'[k][e] # {} =>
              /\ fifo[k][e] # {} /\ routeTable'[k][e] = routeTable[k][e]
              /\ k = n => T[e] = NoRoute
  BY <1>0, <1>3, <1>4, <1>5
<1>12. \A e \in Node : T[e] # NoRoute =>
         \/ e = d /\ T[e].seq = m.seq
         \/ routeTable[n][e] # NoRoute /\ T[e].seq = routeTable[n][e].seq
  BY <1>0
<1>13. Installs(T, n, d, m)
  BY ONLY <1>0, <1>5, <1>6, <1>7, <1>8, <1>9, <1>10, <1>12 DEF Installs
<1> QED
  BY <1>13 DEF T

\* A RREQ: the reverse route, then an answer or the request passed on.
LEMMA ProcessRREQStep ==
  ASSUME IInv, NEW m \in air, ProcessRREQ(m)
  PROVE  IInv'
<1> DEFINE n == m.to
           T == InsertInRouteTable(routeTable[n], m.orig, m.seq, m.hops, LastAddress(m))
           S == IF n = m.dest THEN GenerateRREP(n, m)
                ELSE IF CheckRouteFound(T, m.dest)
                THEN GenerateRREPByIntermediate(n, m, T[m.dest])
                ELSE ForwardRREQ(n, m)
<1>1. m \in Rreq /\ m.type = "RREQ"
  BY Kinds DEF IInv, TypeOK, ProcessRREQ
<1>2. /\ n \in Node /\ m.from \in Node /\ m.orig \in Node /\ m.dest \in Node
      /\ m.seq \in Nat /\ m.hops \in Nat /\ m.id \in Nat /\ About(m, m.orig)
  BY <1>1 DEF Rreq, About
<1>3. UNCHANGED <<up, moves, greeted, offered, delivered, dropped, expired>>
  BY DEF ProcessRREQ
<1>4. CASE m.id \in rreqSeenTable[n]
  <2>1. air' = air \ {m} /\ UNCHANGED node
    BY <1>4 DEF ProcessRREQ
  <2>2. TypeOK' /\ Sorted'
    BY <1>3, <2>1 DEF IInv, TypeOK, Sorted, node
  <2>3. Gentle
    BY <1>3, <2>1, <2>2 DEF Gentle, SameRoute, Searched, node, IInv, TypeOK
  <2> QED
    BY <2>2, <2>3, GentleStep
<1>5. CASE m.id \notin rreqSeenTable[n]
  <2>1. /\ rreqSeenTable' = [rreqSeenTable EXCEPT ![n] = @ \cup {m.id}]
        /\ routeTable' = [routeTable EXCEPT ![n] = T]
        /\ fifo' = [fifo EXCEPT ![n] = Kept(n, T)]
        /\ nSequenceNumber' = [nSequenceNumber EXCEPT ![n] = IF n = m.dest THEN @ + 1 ELSE @]
        /\ air' = (air \ {m}) \cup TransmitFIFOBuffer(n, T) \cup S
        /\ UNCHANGED <<nRREQId, rreqSentTable, nRerrCount>>
    BY <1>5 DEF ProcessRREQ
  <2>2. T = NewTable(n, m.orig, m, m.hops)
    BY DEF LastAddress, NewTable
  <2> HIDE DEF T, S
  <2>3. Installs(T, n, m.orig, m)
    BY <1>2, <2>1, <2>2, LearningStep
  <2>4. \A x \in TransmitFIFOBuffer(n, T) : x \in Data /\ x.type = "DATA"
    BY <1>2, <2>3, FifoSent DEF IInv, Installs
  <2>5. /\ nSequenceNumber \in [Node -> Nat] /\ nSequenceNumber' \in [Node -> Nat]
        /\ \A k \in Node : nSequenceNumber'[k] >= nSequenceNumber[k]
        /\ n = m.dest => nSequenceNumber'[n] = nSequenceNumber[n] + 1
    <3>1. nSequenceNumber \in [Node -> Nat]
      BY DEF IInv, TypeOK
    <3>2. nSequenceNumber' \in [Node -> Nat]
      BY <1>2, <2>1, <3>1
    <3>3. ASSUME NEW k \in Node PROVE nSequenceNumber'[k] >= nSequenceNumber[k]
      <4>1. nSequenceNumber'[k] \in {nSequenceNumber[k], nSequenceNumber[k] + 1}
        BY <1>2, <2>1, <3>1
      <4> QED
        BY <3>1, <4>1
    <3> QED
      BY <1>2, <2>1, <3>1, <3>2, <3>3
  <2>6. m.seq <= nSequenceNumber[m.orig]
    BY <1>1 DEF IInv, SequenceNumbersIssued
  <2>7. \A e \in Node : T[e] # NoRoute => /\ T[e] \in Entry
                                          /\ T[e].seq <= nSequenceNumber'[e]
    <3> SUFFICES ASSUME NEW e \in Node, T[e] # NoRoute
                 PROVE  T[e] \in Entry /\ T[e].seq <= nSequenceNumber'[e]
      OBVIOUS
    <3>1. T[e] \in Entry /\ T[e].seq \in Nat
      BY <2>3 DEF Table, Entry, Installs
    <3>2. \/ T[e].seq = m.seq /\ e = m.orig
          \/ routeTable[n][e] # NoRoute /\ T[e].seq = routeTable[n][e].seq
      BY <2>3 DEF Installs
    <3>3. T[e].seq <= nSequenceNumber[e]
      BY <1>2, <2>6, <3>2 DEF IInv, SequenceNumbersIssued
    <3> QED
      BY <2>5, <3>1, <3>3
  <2>8. \A x \in S : x \in Rreq \cup Rrep /\ Truthful(x)
    <3>1. CASE n = m.dest
      <4> DEFINE s == nSequenceNumber[n] + 1
                 l == m.hops + 2
      <4>1. S = Unicast(RrepPacket(n, m.from, l, m.orig, m.dest, s, 1))
        BY <3>1 DEF S, GenerateRREP
      <4>2. s \in Nat /\ l \in Int /\ 1 \in Nat /\ s = nSequenceNumber[n] + 1
        BY <1>2, <2>5
      <4> HIDE DEF s, l, n
      <4>4. Says(Unicast(RrepPacket(n, m.from, l, m.orig, m.dest, s, 1)), n, m.dest, s)
        BY <1>2, <4>2, NewRrep
      <4>3. Says(S, n, m.dest, s)
        BY <4>1, <4>4
      <4> QED
        BY <1>2, <2>5, <3>1, <4>2, <4>3 DEF Truthful, Routed, Says
    <3>2. ASSUME S = ForwardRREQ(n, m)
          PROVE  \A x \in S : x \in Rreq \cup Rrep /\ Truthful(x)
      <4>1. \A x \in S : /\ x \in Rreq /\ x.type = "RREQ" /\ x.from = n
                         /\ x.orig = m.orig /\ x.seq = m.seq
        BY <1>1, <1>2, <3>2, ForwardedRreq
      <4>2. m.seq <= nSequenceNumber'[m.orig]
        BY <1>2, <2>5, <2>6
      <4>3. routeTable'[n] = T /\ T[m.orig] # NoRoute
        BY <2>3 DEF Installs
      <4> QED
        BY <4>1, <4>2, <4>3 DEF Truthful, Routed
    <3>3. CASE n # m.dest /\ ~CheckRouteFound(T, m.dest)
      BY <3>2, <3>3 DEF S
    <3>4. CASE n # m.dest /\ CheckRouteFound(T, m.dest) /\ T[m.dest].next = m.from
      BY <3>2, <3>4 DEF S, GenerateRREPByIntermediate
    <3>5. CASE n # m.dest /\ CheckRouteFound(T, m.dest) /\ T[m.dest].next # m.from
      <4> DEFINE s == T[m.dest].seq
                 l == T[m.dest].hops
      <4>1. S = Unicast(RrepPacket(n, m.from, NetDiameter, m.orig, m.dest, s, l))
        BY <3>5 DEF S, GenerateRREPByIntermediate
      <4>2. T[m.dest] # NoRoute /\ T[m.dest] \in Entry
        BY <1>2, <2>7, <3>5 DEF CheckRouteFound
      <4>3. s \in Nat /\ l \in Nat
        BY <4>2 DEF Entry
      <4>4. NetDiameter \in Int
        BY NumberAssumption
      <4> HIDE DEF s, l, n
      <4>7. Says(Unicast(RrepPacket(n, m.from, NetDiameter, m.orig, m.dest, s, l)),
                 n, m.dest, s)
        BY <1>2, <4>3, <4>4, NewRrep
      <4>5. Says(S, n, m.dest, s)
        BY <4>1, <4>7
      <4>6. routeTable'[n] = T
        BY <2>3 DEF Installs
      <4> QED
        BY <1>2, <2>7, <4>2, <4>5, <4>6 DEF Truthful, Routed, Says, s
    <3> QED
      BY <3>1, <3>3, <3>4, <3>5
  <2>9. \A x \in air' \ air : x \in Message /\ Truthful(x)
    <3>1. \A x \in TransmitFIFOBuffer(n, T) : Truthful(x)
      BY <2>4 DEF Truthful
    <3> QED
      BY <2>1, <2>4, <2>8, <3>1 DEF Message
  <2>10. TypeOK'
    <3>1. rreqSeenTable' \in [Node -> SUBSET Nat]
      BY <1>2, <2>1 DEF IInv, TypeOK
    <3> QED
      BY <1>3, <2>1, <2>3, <2>5, <2>9, <3>1 DEF IInv, TypeOK, Table, Installs
  <2>11. \A k, e \in Node : fifo'[k][e] # {} => Searched(k, e)
    BY <2>1, <2>3 DEF Searched, Installs
  <2>12. Gentle
    BY <1>3, <2>3, <2>5, <2>9, <2>11 DEF Gentle, Installs
  <2> QED
    BY <2>3, <2>10, <2>12, GentleStep DEF Installs
<1> QED
  BY <1>4, <1>5

\* A RREP: the route, the end of the discovery or the reply passed on.
LEMMA ProcessRREPStep ==
  ASSUME IInv, NEW m \in air, ProcessRREP(m)
  PROVE  IInv'
<1> DEFINE n == m.to
           T == InsertInRouteTable(routeTable[n], m.dest, m.seq, m.hops, LastAddress(m))
           S == IF n = m.orig THEN {} ELSE ForwardRREP(n, m, T)
<1>1. m \in Rrep /\ m.type = "RREP"
  BY Kinds DEF IInv, TypeOK, ProcessRREP
<1>2. /\ n \in Node /\ m.from \in Node /\ m.orig \in Node /\ m.dest \in Node
      /\ m.seq \in Nat /\ m.hops \in Nat /\ About(m, m.dest)
  BY <1>1 DEF Rrep, About
<1>3. UNCHANGED <<up, moves, greeted, offered, delivered, dropped, expired>>
  BY DEF ProcessRREP
<1>4. CASE air' = air \ {m} /\ UNCHANGED node
  <2>1. TypeOK' /\ Sorted'
    BY <1>3, <1>4 DEF IInv, TypeOK, Sorted, node
  <2>2. Gentle
    BY <1>3, <1>4, <2>1 DEF Gentle, SameRoute, Searched, node, IInv, TypeOK
  <2> QED
    BY <2>1, <2>2, GentleStep
<1>5. CASE /\ routeTable' = [routeTable EXCEPT ![n] = T]
           /\ fifo' = [fifo EXCEPT ![n] = Kept(n, T)]
           /\ rreqSentTable' =
                 IF n = m.orig THEN [rreqSentTable EXCEPT ![n][m.dest] = NoRequest]
                               ELSE rreqSentTable
           /\ air' = (air \ {m}) \cup TransmitFIFOBuffer(n, T) \cup S
           /\ UNCHANGED <<nSequenceNumber, nRREQId, rreqSeenTable, nRerrCount>>
  <2>1. T = NewTable(n, m.dest, m, m.hops)
    BY DEF LastAddress, NewTable
  <2> HIDE DEF T, S
  <2>2. Installs(T, n, m.dest, m)
    BY <1>2, <1>5, <2>1, LearningStep
  <2>3. \A x \in TransmitFIFOBuffer(n, T) : x \in Data /\ x.type = "DATA"
    BY <1>2, <2>2, FifoSent DEF IInv, Installs
  <2>4. m.seq <= nSequenceNumber[m.dest]
    BY <1>1 DEF IInv, SequenceNumbersIssued
  <2>5. \A x \in S : /\ x \in Rrep /\ x.type = "RREP" /\ x.from = n
                     /\ x.dest = m.dest /\ x.seq = m.seq
    <3>1. CASE S = {}
      BY <3>1
    <3>2. CASE S # {}
      <4> DEFINE f == [m EXCEPT !.from = n, !.to = T[m.orig].next, !.ttl = @ - 1,
                                !.hops = @ + 1]
      <4>1. S = Unicast(f) /\ T[m.orig] # NoRoute
        BY <3>2 DEF S, ForwardRREP, CheckRouteFound
      <4>2. T[m.orig].next \in Node
        BY <1>2, <2>2, <4>1 DEF Installs, Table, Entry
      <4>3. m.ttl - 1 \in Int /\ m.hops + 1 \in Nat
        BY <1>1 DEF Rrep
      <4>4. f \in RawRrep /\ f.from = n /\ f.dest = m.dest /\ f.seq = m.seq
        BY <1>1, <1>2, <4>2, <4>3 DEF Rrep, RawRrep
      <4> HIDE DEF f
      <4> QED
        BY <4>1, <4>4, RrepCopies
    <3> QED
      BY <3>1, <3>2
  <2>6. \A x \in air' \ air : x \in Message /\ Truthful(x)
    <3>1. \A x \in TransmitFIFOBuffer(n, T) : Truthful(x)
      BY <2>3 DEF Truthful
    <3>2. routeTable'[n] = T /\ T[m.dest] # NoRoute
      BY <2>2 DEF Installs
    <3>3. \A x \in S : Truthful(x)
      BY <1>5, <2>4, <2>5, <3>2 DEF Truthful, Routed
    <3> QED
      BY <1>5, <2>3, <2>5, <3>1, <3>3 DEF Message
  <2>7. rreqSentTable' \in [Node -> [Node -> Request \cup {NoRequest}]]
    BY <1>2, <1>5 DEF IInv, TypeOK
  <2>8. TypeOK'
    BY <1>3, <1>5, <2>2, <2>6, <2>7 DEF IInv, TypeOK, Table, Installs
  <2>9. ASSUME NEW k \in Node, NEW e \in Node, fifo'[k][e] # {}
        PROVE  Searched(k, e)
    <3>1. /\ fifo[k][e] # {} /\ routeTable'[k][e] = routeTable[k][e]
          /\ k = n => T[e] = NoRoute
      BY <2>2, <2>9 DEF Installs
    <3>2. ~(k = n /\ e = m.dest)
      BY <2>2, <3>1 DEF Installs
    <3>3. rreqSentTable'[k][e] = rreqSentTable[k][e]
      BY <1>2, <1>5, <3>2 DEF IInv, TypeOK
    <3> QED
      BY <3>1, <3>3 DEF Searched
  <2>10. \A k \in Node : nSequenceNumber'[k] >= nSequenceNumber[k]
    BY <1>5 DEF IInv, TypeOK
  <2>11. Gentle
    BY <1>3, <2>2, <2>6, <2>9, <2>10 DEF Gentle, Installs
  <2> QED
    BY <2>2, <2>8, <2>11, GentleStep DEF Installs
<1> QED
  BY <1>4, <1>5 DEF ProcessRREP

\* A step that only marks entries of n invalid, sends route errors and drops
\* packets.
LEMMA ErrorStep ==
  ASSUME IInv, NEW n \in Node, NEW u, NEW D \in SUBSET Through(routeTable[n], u),
         routeTable' = [routeTable EXCEPT ![n] = Invalidate(routeTable[n], D)],
         \A x \in air' \ air : x \in Rerr /\ x.type = "RERR",
         UNCHANGED <<nSequenceNumber, rreqSentTable, fifo, expired>>
  PROVE  /\ routeTable' \in [Node -> [Node -> Entry \cup {NoRoute}]]
         /\ Gentle /\ Sorted'
<1>1. routeTable \in [Node -> Table] /\ routeTable[n] \in Table
  BY DEF IInv, TypeOK, Table
<1>2. /\ Invalidate(routeTable[n], D) \in Table
      /\ \A d \in Node :
           /\ Invalidate(routeTable[n], D)[d] = NoRoute <=> routeTable[n][d] = NoRoute
           /\ routeTable[n][d] # NoRoute =>
                /\ Invalidate(routeTable[n], D)[d].next = routeTable[n][d].next
                /\ Invalidate(routeTable[n], D)[d].seq = routeTable[n][d].seq
  BY <1>1, Invalidated
<1>3. routeTable' \in [Node -> [Node -> Entry \cup {NoRoute}]]
  BY <1>1, <1>2 DEF Table
<1>4. \A k, d \in Node :
        /\ routeTable'[k][d] = NoRoute <=> routeTable[k][d] = NoRoute
        /\ routeTable[k][d] # NoRoute => SameRoute(k, d)
  <2>1. \A k \in Node \ {n} : routeTable'[k] = routeTable[k]
    BY <1>1
  <2>2. routeTable'[n] = Invalidate(routeTable[n], D)
    BY <1>1
  <2> QED
    BY <1>2, <2>1, <2>2 DEF SameRoute
<1>5. \A x \in air' \ air : Truthful(x)
  BY DEF Truthful
<1>6. \A k \in Node : nSequenceNumber'[k] >= nSequenceNumber[k]
  BY DEF IInv, TypeOK
<1>7. \A k, d \in Node : fifo'[k][d] # {} => Searched(k, d)
  BY <1>4 DEF Searched
<1>8. Sorted'
  BY DEF IInv, Sorted
<1> QED
  BY <1>3, <1>4, <1>5, <1>6, <1>7, <1>8 DEF Gentle

\* A packet the MAC layer gives up.
LEMMA FailureStep ==
  ASSUME IInv, NEW m \in air, TransmissionFails(m)
  PROVE  IInv'
<1>1. UNCHANGED <<nSequenceNumber, nRREQId, rreqSentTable, rreqSeenTable, fifo,
                  up, moves, greeted, offered, delivered, expired>>
  BY DEF TransmissionFails
<1>2. CASE m.type = "DATA"
  <2> DEFINE n    == m.from
             rerr == nRerrCount[n] > RerrLimit
             D    == Through(routeTable[n], m.to)
  <2>1. m \in Data /\ n \in Node /\ m.to \in Node /\ m.pkt \in Packet
    BY <1>2, Kinds DEF IInv, TypeOK, Data
  <2>2. /\ dropped' = dropped \cup {m.pkt}
        /\ nRerrCount' = [nRerrCount EXCEPT ![n] = IF rerr THEN 2 ELSE @ + 1]
        /\ rerr => /\ routeTable' = [routeTable EXCEPT ![n] = Invalidate(routeTable[n], D)]
                   /\ air' = (air \ {m}) \cup
                        (IF D = {} THEN {} ELSE Broadcast(RerrPacket(n, NetDiameter, D)))
        /\ ~rerr => air' = air \ {m} /\ UNCHANGED routeTable
    BY <1>2 DEF TransmissionFails, GenerateRERR
  <2>3. nRerrCount' \in [Node -> Nat] /\ dropped' \subseteq Packet
    BY <2>1, <2>2 DEF IInv, TypeOK
  <2>4. CASE rerr
    <3>1. RerrPacket(n, NetDiameter, D) \in RawRerr
      BY <2>1, NumberAssumption DEF RerrPacket, RawRerr, Through
    <3>2. \A x \in air' \ air : x \in Rerr /\ x.type = "RERR"
      BY <2>2, <2>4, <3>1, RerrCopies
    <3>5. D \in SUBSET Through(routeTable[n], m.to)
      OBVIOUS
    <3>6. routeTable' = [routeTable EXCEPT ![n] = Invalidate(routeTable[n], D)]
      BY <2>2, <2>4
    <3>3. /\ routeTable' \in [Node -> [Node -> Entry \cup {NoRoute}]]
          /\ Gentle /\ Sorted'
      <4> HIDE DEF D, n, rerr
      <4> QED
        BY <1>1, <2>1, <3>2, <3>5, <3>6, ErrorStep
    <3>4. TypeOK'
      BY <1>1, <2>3, <3>2, <3>3, <2>2, <2>4 DEF IInv, TypeOK, Message
    <3> QED
      BY <3>3, <3>4, GentleStep
  <2>5. CASE ~rerr
    <3>1. air' = air \ {m} /\ UNCHANGED routeTable
      BY <2>2, <2>5
    <3>2. TypeOK' /\ Sorted'
      BY <1>1, <2>3, <3>1 DEF IInv, TypeOK, Sorted
    <3>3. Gentle
      BY <1>1, <3>1, <3>2 DEF Gentle, SameRoute, Searched, IInv, TypeOK
    <3> QED
      BY <3>2, <3>3, GentleStep
  <2> QED
    BY <2>4, <2>5
<1>3. CASE m.type # "DATA"
  <2>1. air' = air \ {m} /\ UNCHANGED <<dropped, nRerrCount, routeTable>>
    BY <1>3 DEF TransmissionFails
  <2>2. TypeOK' /\ Sorted'
    BY <1>1, <2>1 DEF IInv, TypeOK, Sorted
  <2>3. Gentle
    BY <1>1, <2>1, <2>2 DEF Gentle, SameRoute, Searched, IInv, TypeOK
  <2> QED
    BY <2>2, <2>3, GentleStep
<1> QED
  BY <1>2, <1>3

\* A route error.
LEMMA ProcessRERRStep ==
  ASSUME IInv, NEW m \in air, ProcessRERR(m)
  PROVE  IInv'
<1> DEFINE n == m.to
           D == m.dests \cap Through(routeTable[n], m.from)
           f == [m EXCEPT !.from = n, !.to = n, !.ttl = @ - 1]
<1>1. m \in Rerr
  BY Kinds DEF IInv, TypeOK, ProcessRERR
<1>2. n \in Node /\ D \in SUBSET Through(routeTable[n], m.from) /\ f \in RawRerr
  <2>1. n \in Node /\ D \in SUBSET Through(routeTable[n], m.from)
    BY <1>1 DEF Rerr
  <2>2. m.ttl - 1 \in Int
    BY <1>1 DEF Rerr
  <2>3. f \in RawRerr
    BY <1>1, <2>1, <2>2 DEF Rerr, RawRerr
  <2> QED
    BY <2>1, <2>3
<1>3. /\ routeTable' = [routeTable EXCEPT ![n] = Invalidate(routeTable[n], D)]
      /\ air' = (air \ {m}) \cup (IF D = {} THEN {} ELSE Broadcast(f))
      /\ UNCHANGED <<nSequenceNumber, nRREQId, rreqSentTable, rreqSeenTable,
                     fifo, nRerrCount, up, moves, greeted, offered, delivered,
                     dropped, expired>>
  BY DEF ProcessRERR
<1> HIDE DEF D, f
<1>4. \A x \in air' \ air : x \in Rerr /\ x.type = "RERR"
  BY <1>2, <1>3, RerrCopies
<1>5. /\ routeTable' \in [Node -> [Node -> Entry \cup {NoRoute}]]
      /\ Gentle /\ Sorted'
  BY <1>2, <1>3, <1>4, ErrorStep
<1>6. TypeOK'
  BY <1>3, <1>4, <1>5 DEF IInv, TypeOK, Message
<1> QED
  BY <1>5, <1>6, GentleStep

\* The end of an entry.
LEMMA ExpiryStep ==
  ASSUME IInv, NEW n \in Node, NEW d \in Node, ActiveRouteTimeout(n, d)
  PROVE  IInv'
<1>1. /\ expired' = expired \cup {<<n, d>>}
      /\ routeTable' = [routeTable EXCEPT ![n][d] = NoRoute]
      /\ UNCHANGED <<nSequenceNumber, nRREQId, rreqSentTable, rreqSeenTable, fifo,
                     nRerrCount, air, up, moves, greeted, offered, delivered, dropped>>
  BY DEF ActiveRouteTimeout
<1>2. TypeOK' /\ Sorted'
  BY <1>1 DEF IInv, TypeOK, Sorted
<1>3. \A k, e \in Node : \/ routeTable'[k][e] = routeTable[k][e]
                         \/ k = n /\ e = d /\ routeTable'[k][e] = NoRoute
  BY <1>1 DEF IInv, TypeOK
<1>4. Gentle
  BY <1>1, <1>2, <1>3 DEF Gentle, SameRoute, Searched, IInv, TypeOK
<1> QED
  BY <1>2, <1>4, GentleStep

\* Links break and come back.
LEMMA MoveStep ==
  ASSUME IInv, NEW l \in Moving, Move(l)
  PROVE  IInv'
<1>1. /\ moves' = moves + 1
      /\ up' = IF l \in up THEN up \ {l} ELSE up \cup {l}
      /\ UNCHANGED <<node, air, greeted, offered, delivered, dropped, expired>>
  BY DEF Move
<1>2. TypeOK' /\ Sorted'
  BY <1>1, NumberAssumption DEF IInv, TypeOK, Sorted, node
<1>3. Gentle
  BY <1>1, <1>2 DEF Gentle, SameRoute, Searched, node, IInv, TypeOK
<1> QED
  BY <1>2, <1>3, GentleStep

----------------------------------------------------------------------------
(* The theorems *)

\* IInv holds in the initial states.
LEMMA Initially == Init => IInv
<1> SUFFICES ASSUME Init PROVE IInv
  OBVIOUS
<1>1. TypeOK
  BY DEF Init, TypeOK
<1>2. Sorted /\ SequenceNumbersIssued /\ WaitingIsSearched
  BY DEF Init, Sorted, SequenceNumbersIssued, WaitingIsSearched
<1>3. \A d \in Node : LoopFree(d)
  BY DEF Init, LoopFree, Anchored, LeavesEverySet
<1> QED
  BY <1>1, <1>2, <1>3 DEF IInv

\* Every step keeps IInv.
LEMMA Inductive == IInv /\ [Next]_vars => IInv'
<1> SUFFICES ASSUME IInv, [Next]_vars PROVE IInv'
  OBVIOUS
<1>1. ASSUME NEW p \in Packet, AppSend(p) PROVE IInv'
  BY <1>1, AppSendStep
<1>2. ASSUME NEW m \in air, Receive(m) PROVE IInv'
  BY <1>2, ReceiveDataStep, ProcessRREQStep, ProcessRREPStep, ProcessRERRStep DEF Receive
<1>3. ASSUME NEW m \in air, TransmissionFails(m) PROVE IInv'
  BY <1>3, FailureStep
<1>4. ASSUME NEW n \in Node, TransmitHelloMessage(n) PROVE IInv'
  BY <1>4, HelloStep
<1>5. ASSUME NEW n \in Node, NEW d \in Node, RetryRREQ(n, d) \/ ActiveRouteTimeout(n, d)
      PROVE  IInv'
  BY <1>5, RetryStep, ExpiryStep
<1>6. ASSUME NEW l \in Moving, Move(l) PROVE IInv'
  BY <1>6, MoveStep
<1>7. CASE UNCHANGED vars
  BY <1>7 DEF vars, IInv, TypeOK, Sorted, SequenceNumbersIssued, WaitingIsSearched,
              LoopFree, Lasting, Anchored, Routed, LeavesEverySet
<1> QED
  BY <1>1, <1>2, <1>3, <1>4, <1>5, <1>6, <1>7 DEF Next

\* IInv holds in every reachable state.
LEMMA Invariant == Spec => []IInv
BY Initially, Inductive, PTL DEF Spec

\* Every handler leaves well-formed tables, queues and messages.
THEOREM TypeCorrect == Spec => []TypeOK
<1>1. IInv => TypeOK
  BY DEF IInv
<1> QED
  BY <1>1, Invariant, PTL

\* No table and no message is ahead of the sequence number of its subject.
THEOREM NumbersAreIssued == Spec => []SequenceNumbersIssued
<1>1. IInv => SequenceNumbersIssued
  BY DEF IInv
<1> QED
  BY <1>1, Invariant, PTL

\* A packet in the FIFO has a discovery that will find or drop it.
THEOREM WaitingSearched == Spec => []WaitingIsSearched
<1>1. IInv => WaitingIsSearched
  BY DEF IInv
<1> QED
  BY <1>1, Invariant, PTL

\* On every network, the next hops to a destination form no loop while no
\* entry for it has expired.
THEOREM LoopFreedom == Spec => []NoLoop
<1>1. IInv => NoLoop
  BY DEF IInv, NoLoop, LoopFree
<1> QED
  BY <1>1, Invariant, PTL

----------------------------------------------------------------------------
(* One place for each packet.  InOnePlace counts the places of a packet;   *)
(* the invariant says which they are, and that a packet no application has *)
(* sent yet is nowhere.                                                    *)

AtNode(p, n) ==
  Waiting(p) = {n} /\ Flying(p) = {} /\ p \notin delivered /\ p \notin dropped

OnAir(p, m) ==
  Waiting(p) = {} /\ Flying(p) = {m} /\ p \notin delivered /\ p \notin dropped

Arrived(p) ==
  Waiting(p) = {} /\ Flying(p) = {} /\ p \in delivered /\ p \notin dropped

Freed(p) ==
  Waiting(p) = {} /\ Flying(p) = {} /\ p \notin delivered /\ p \in dropped

Nowhere(p) ==
  Waiting(p) = {} /\ Flying(p) = {} /\ p \notin delivered /\ p \notin dropped

Placed(p) ==
  IF p \in offered
  THEN \/ \E n \in Node : AtNode(p, n)
       \/ \E m \in air : OnAir(p, m)
       \/ Arrived(p) \/ Freed(p)
  ELSE Nowhere(p)

PlaceInv == IInv /\ \A p \in Packet : Placed(p)

Carries(x, p) == x.type = "DATA" /\ x.pkt = p

\* A packet whose places a step does not touch.
LEMMA Untouched ==
  ASSUME NEW p \in Packet, Placed(p),
         \A n \in Node : p \in fifo'[n][Dst[p]] <=> p \in fifo[n][Dst[p]],
         \A x \in air \cup air' : Carries(x, p) => (x \in air' <=> x \in air),
         p \in offered' <=> p \in offered,
         p \in delivered' <=> p \in delivered,
         p \in dropped' <=> p \in dropped
  PROVE  Placed(p)'
<1>1. Waiting(p)' = Waiting(p)
  BY DEF Waiting
<1>2. Flying(p)' = Flying(p)
  BY DEF Flying, Carries
<1>3. Flying(p)' \subseteq air'
  BY DEF Flying
<1> QED
  BY <1>1, <1>2, <1>3 DEF Placed, AtNode, OnAir, Arrived, Freed, Nowhere

\* A step that sends and takes control packets only.
LEMMA ControlOnly ==
  ASSUME PlaceInv, UNCHANGED <<fifo, offered, delivered, dropped>>,
         \A x \in (air \ air') \cup (air' \ air) : x.type # "DATA"
  PROVE  \A p \in Packet : Placed(p)'
<1> TAKE p \in Packet
<1>1. Placed(p)
  BY DEF PlaceInv
<1>2. \A x \in air \cup air' : Carries(x, p) => (x \in air' <=> x \in air)
  BY DEF Carries
<1> QED
  BY <1>1, <1>2, Untouched

\* A packet that has left the place it had is sent on or queued.
LEMMA SentOn ==
  ASSUME PlaceInv, NEW n \in Node, NEW p \in Packet, NEW in \in SUBSET air,
         GeneralPacketProcessing(n, p, in),
         Waiting(p) = {}, Flying(p) = in, p \notin delivered, p \notin dropped,
         offered' = offered \cup {p}, UNCHANGED <<delivered, dropped>>
  PROVE  \A q \in Packet : Placed(q)'
<1> DEFINE d == Dst[p]
           t == fnIncreaseTTL(n, d) + 1
           B == Broadcast(RreqPacket(n, d, t + 1))
<1>1. d \in Node
  BY TopologyAssumption
<1>2. \A x \in B : x.type # "DATA"
  <2>1. t \in Nat /\ t + 1 \in Nat
    BY <1>1, RequestTyped DEF PlaceInv, IInv
  <2> HIDE DEF t
  <2>2. \A x \in B : x.type = "RREQ"
    BY <1>1, <2>1, NewRreqCopies DEF PlaceInv, IInv
  <2> QED
    BY <2>2
<1>3. fifo \in [Node -> [Node -> SUBSET Packet]]
  BY DEF PlaceInv, IInv, TypeOK
<1>4. \A x \in in : Carries(x, p)
  BY DEF Flying, Carries
<1>5. CASE CheckRouteFound(routeTable[n], d)
  <2> DEFINE x == DataTo(n, routeTable[n], p)
  <2>1. air' = (air \ in) \cup {x} /\ fifo' = fifo
    BY <1>5 DEF GeneralPacketProcessing, node
  <2>2. Carries(x, p)
    BY DEF Carries, DataTo
  <2> HIDE DEF x
  <2>3. Waiting(p)' = {}
    BY <2>1 DEF Waiting
  <2>4. Flying(p)' = {x} /\ x \in air'
    BY <2>1, <2>2 DEF Flying, Carries
  <2>5. Placed(p)'
    BY <2>3, <2>4 DEF Placed, OnAir
  <2>6. ASSUME NEW q \in Packet, q # p PROVE Placed(q)'
    <3>1. \A y \in air \cup air' : Carries(y, q) => (y \in air' <=> y \in air)
      BY <1>4, <2>1, <2>2, <2>6 DEF Carries
    <3>2. Placed(q) /\ (q \in offered' <=> q \in offered)
      BY <2>6 DEF PlaceInv
    <3> QED
      BY <2>1, <3>1, <3>2, Untouched
  <2> QED
    BY <2>5, <2>6
<1>6. CASE ~CheckRouteFound(routeTable[n], d)
  <2>1. /\ fifo' = [fifo EXCEPT ![n][d] = @ \cup {p}]
        /\ air' = air \ in \/ air' = (air \ in) \cup B
    BY <1>6 DEF GeneralPacketProcessing
  <2> HIDE DEF B
  <2>2. \A k \in Node : p \in fifo'[k][d] <=> k = n \/ p \in fifo[k][d]
    BY <1>1, <1>3, <2>1
  <2>3. Waiting(p)' = {n}
    BY <2>2 DEF Waiting
  <2>4. Flying(p)' = {}
    BY <1>2, <2>1 DEF Flying
  <2>5. Placed(p)'
    BY <2>3, <2>4 DEF Placed, AtNode
  <2>6. ASSUME NEW q \in Packet, q # p PROVE Placed(q)'
    <3>1. \A y \in air \cup air' : Carries(y, q) => (y \in air' <=> y \in air)
      BY <1>2, <1>4, <2>1, <2>6 DEF Carries
    <3>2. Placed(q) /\ (q \in offered' <=> q \in offered)
      BY <2>6 DEF PlaceInv
    <3>3. \A k \in Node : q \in fifo'[k][Dst[q]] <=> q \in fifo[k][Dst[q]]
      <4>1. Dst[q] \in Node
        BY TopologyAssumption
      <4> QED
        BY <1>1, <1>3, <2>1, <2>6, <4>1
    <3> QED
      BY <3>1, <3>2, <3>3, Untouched
  <2> QED
    BY <2>5, <2>6
<1> QED
  BY <1>5, <1>6

\* A node that learns a route to the targets of packets releases them.
LEMMA ReleasedOnce ==
  ASSUME PlaceInv, NEW n \in Node, NEW T \in Table, NEW m \in air, NEW S,
         m.type # "DATA", \A x \in S : x.type # "DATA",
         fifo' = [fifo EXCEPT ![n] = Kept(n, T)],
         air' = (air \ {m}) \cup TransmitFIFOBuffer(n, T) \cup S,
         UNCHANGED <<offered, delivered, dropped>>
  PROVE  \A p \in Packet : Placed(p)'
<1> TAKE p \in Packet
<1> DEFINE d == Dst[p]
           x == DataTo(n, T, p)
<1>1. d \in Node
  BY TopologyAssumption
<1>2. fifo \in [Node -> [Node -> SUBSET Packet]] /\ Sorted /\ Placed(p)
  BY DEF PlaceInv, IInv, TypeOK
<1>3. Carries(x, p)
  BY DEF Carries, DataTo
<1>4. \A q \in Released(n, T) : /\ q \in Packet
                                /\ T[Dst[q]] # NoRoute /\ q \in fifo[n][Dst[q]]
  BY <1>2 DEF Released, CheckRouteFound, Sorted
<1>5. \A k \in Node : p \in fifo'[k][d] <=>
        p \in fifo[k][d] /\ ~(k = n /\ T[d] # NoRoute)
  BY <1>1, <1>2 DEF Kept, CheckRouteFound
<1>6. p \in Released(n, T) <=> p \in fifo[n][d] /\ T[d] # NoRoute
  BY <1>1, <1>4 DEF Released, CheckRouteFound
<1>7. \A y \in TransmitFIFOBuffer(n, T) : Carries(y, p) => y = x /\ p \in Released(n, T)
  BY DEF TransmitFIFOBuffer, Carries, DataTo
<1>8. p \in Released(n, T) => x \in TransmitFIFOBuffer(n, T)
  BY DEF TransmitFIFOBuffer
<1> HIDE DEF x
<1>9. CASE p \in Released(n, T)
  <2>1. n \in Waiting(p)
    BY <1>6, <1>9 DEF Waiting
  <2>2. p \in offered /\ AtNode(p, n)
    BY <1>2, <2>1 DEF Placed, AtNode, OnAir, Arrived, Freed, Nowhere
  <2>3. Waiting(p)' = {}
    BY <1>5, <1>6, <1>9, <2>2 DEF Waiting, AtNode
  <2>4. x \in air' /\ Flying(p)' = {x}
    BY <1>3, <1>7, <1>8, <1>9, <2>2 DEF Flying, Carries, AtNode
  <2> QED
    BY <2>2, <2>3, <2>4 DEF Placed, OnAir, AtNode
<1>10. CASE p \notin Released(n, T)
  <2>1. \A k \in Node : p \in fifo'[k][d] <=> p \in fifo[k][d]
    BY <1>5, <1>6, <1>10
  <2>2. \A y \in air \cup air' : Carries(y, p) => (y \in air' <=> y \in air)
    BY <1>7, <1>10 DEF Carries
  <2> QED
    BY <1>2, <2>1, <2>2, Untouched
<1> QED
  BY <1>9, <1>10

\* What a node sends about a RREQ or a RREP it has processed.
LEMMA RrepForwarded ==
  ASSUME NEW n \in Node, NEW T \in Table, NEW m \in Rrep
  PROVE  \A x \in ForwardRREP(n, m, T) : x.type # "DATA"
<1>1. CASE ForwardRREP(n, m, T) = {}
  BY <1>1
<1>2. CASE ForwardRREP(n, m, T) # {}
  <2> DEFINE f == [m EXCEPT !.from = n, !.to = T[m.orig].next, !.ttl = @ - 1,
                            !.hops = @ + 1]
  <2>1. ForwardRREP(n, m, T) = Unicast(f) /\ T[m.orig] # NoRoute
    BY <1>2 DEF ForwardRREP, CheckRouteFound
  <2>2. T[m.orig] \in Entry
    BY <2>1 DEF Rrep, Table
  <2>3. m.ttl - 1 \in Int /\ m.hops + 1 \in Nat /\ T[m.orig].next \in Node
    BY <2>2 DEF Rrep, Entry
  <2>4. f \in RawRrep
    BY <2>3 DEF Rrep, RawRrep
  <2> HIDE DEF f
  <2>5. \A x \in Broadcast(f) \cup Unicast(f) : x.type = "RREP"
    BY <2>4, RrepCopies
  <2> QED
    BY <2>1, <2>5
<1> QED
  BY <1>1, <1>2

LEMMA RreqAnswered ==
  ASSUME TypeOK, NEW n \in Node, NEW T \in Table, NEW m \in Rreq
  PROVE  /\ \A x \in GenerateRREP(n, m) : x.type # "DATA"
         /\ \A x \in ForwardRREQ(n, m) : x.type # "DATA"
         /\ CheckRouteFound(T, m.dest) =>
              \A x \in GenerateRREPByIntermediate(n, m, T[m.dest]) : x.type # "DATA"
<1>1. /\ m.from \in Node /\ m.orig \in Node /\ m.dest \in Node
      /\ m.hops + 2 \in Int
  BY DEF Rreq
<1>2. \A x \in GenerateRREP(n, m) : x.type # "DATA"
  <2> DEFINE s == nSequenceNumber[n] + 1
             l == m.hops + 2
  <2>1. s \in Nat /\ l \in Int /\ 1 \in Nat
    BY <1>1 DEF TypeOK
  <2>2. GenerateRREP(n, m) = Unicast(RrepPacket(n, m.from, l, m.orig, m.dest, s, 1))
    BY DEF GenerateRREP
  <2> HIDE DEF s, l
  <2>3. Says(Unicast(RrepPacket(n, m.from, l, m.orig, m.dest, s, 1)), n, m.dest, s)
    BY <1>1, <2>1, NewRrep
  <2> QED
    BY <2>2, <2>3 DEF Says
<1>3. \A x \in ForwardRREQ(n, m) : x.type # "DATA"
  <2>1. \A x \in ForwardRREQ(n, m) : x.type = "RREQ"
    BY ForwardedRreq
  <2> QED
    BY <2>1
<1>4. ASSUME CheckRouteFound(T, m.dest)
      PROVE  \A x \in GenerateRREPByIntermediate(n, m, T[m.dest]) : x.type # "DATA"
  <2> DEFINE e == T[m.dest]
             U == Unicast(RrepPacket(n, m.from, NetDiameter, m.orig, m.dest,
                                     e.seq, e.hops))
  <2>1. e \in Entry /\ NetDiameter \in Int
    BY <1>1, <1>4, NumberAssumption DEF CheckRouteFound, Table
  <2>2. e.seq \in Nat /\ e.hops \in Nat
    BY <2>1 DEF Entry
  <2> HIDE DEF e
  <2>3. Says(U, n, m.dest, e.seq)
    BY <1>1, <2>1, <2>2, NewRrep
  <2>4. \A x \in U : x.type # "DATA"
    BY <2>3 DEF Says
  <2>5. GenerateRREPByIntermediate(n, m, e) =
          IF e.next = m.from THEN ForwardRREQ(n, m) ELSE U
    BY DEF GenerateRREPByIntermediate
  <2> HIDE DEF U
  <2>6. \A x \in GenerateRREPByIntermediate(n, m, e) : x.type # "DATA"
    BY <1>3, <2>4, <2>5
  <2> QED
    BY <2>6 DEF e
<1> QED
  BY <1>2, <1>3, <1>4

\* An application sends a packet that was nowhere.
LEMMA AppSendPlaced ==
  ASSUME PlaceInv, NEW p \in Packet, AppSend(p)
  PROVE  \A q \in Packet : Placed(q)'
<1>1. Nowhere(p)
  BY DEF PlaceInv, Placed, AppSend
<1>2. Src[p] \in Node
  BY TopologyAssumption
<1> QED
  BY <1>1, <1>2, SentOn DEF AppSend, Nowhere

\* A data packet arrives, or its relay sends it on or queues it.
LEMMA ReceiveDataPlaced ==
  ASSUME PlaceInv, NEW m \in air, ReceiveData(m)
  PROVE  \A q \in Packet : Placed(q)'
<1> DEFINE p == m.pkt
<1>1. m \in Data /\ m.type = "DATA" /\ m.to \in Node /\ p \in Packet
  BY Kinds DEF PlaceInv, IInv, TypeOK, ReceiveData, Data
<1>2. p \in offered /\ OnAir(p, m)
  <2>1. Placed(p) /\ m \in Flying(p)
    BY <1>1 DEF PlaceInv, Flying
  <2> QED
    BY <2>1 DEF Placed, AtNode, OnAir, Arrived, Freed, Nowhere
<1>3. CASE m.to = Dst[p]
  <2>1. /\ delivered' = delivered \cup {p} /\ air' = air \ {m}
        /\ UNCHANGED <<fifo, offered, dropped>>
    BY <1>3 DEF ReceiveData, node
  <2>2. Waiting(p)' = {} /\ Flying(p)' = {}
    BY <1>2, <2>1 DEF OnAir, Waiting, Flying
  <2>3. Placed(p)'
    BY <1>2, <2>1, <2>2 DEF Placed, OnAir, Arrived
  <2>4. ASSUME NEW q \in Packet, q # p PROVE Placed(q)'
    <3>1. \A y \in air \cup air' : Carries(y, q) => (y \in air' <=> y \in air)
      BY <2>1, <2>4 DEF Carries
    <3>2. Placed(q) /\ (q \in delivered' <=> q \in delivered)
      BY <2>1, <2>4 DEF PlaceInv
    <3> QED
      BY <2>1, <3>1, <3>2, Untouched
  <2> QED
    BY <2>3, <2>4
<1>4. CASE m.to # Dst[p]
  <2> DEFINE n == m.to
             in == {m}
  <2>1. /\ GeneralPacketProcessing(n, p, in)
        /\ UNCHANGED <<offered, delivered, dropped>>
    BY <1>4 DEF ReceiveData
  <2>2. /\ Waiting(p) = {} /\ Flying(p) = in /\ p \notin delivered /\ p \notin dropped
        /\ offered' = offered \cup {p} /\ in \in SUBSET air /\ n \in Node
    BY <1>1, <1>2, <2>1 DEF OnAir
  <2> HIDE DEF n, in, p
  <2> QED
    BY <1>1, <2>1, <2>2, SentOn
<1> QED
  BY <1>3, <1>4

\* A RREQ releases what waited for its originator.
LEMMA ProcessRREQPlaced ==
  ASSUME PlaceInv, NEW m \in air, ProcessRREQ(m)
  PROVE  \A q \in Packet : Placed(q)'
<1> DEFINE n == m.to
           T == InsertInRouteTable(routeTable[n], m.orig, m.seq, m.hops, LastAddress(m))
           S == IF n = m.dest THEN GenerateRREP(n, m)
                ELSE IF CheckRouteFound(T, m.dest)
                THEN GenerateRREPByIntermediate(n, m, T[m.dest])
                ELSE ForwardRREQ(n, m)
<1>1. m \in Rreq /\ m.type # "DATA"
  BY Kinds DEF PlaceInv, IInv, TypeOK, ProcessRREQ
<1>2. /\ n \in Node /\ m.from \in Node /\ m.orig \in Node
      /\ m.seq \in Nat /\ m.hops \in Nat
  BY <1>1 DEF Rreq
<1>3. CASE m.id \in rreqSeenTable[n]
  <2>1. air' = air \ {m} /\ UNCHANGED <<fifo, offered, delivered, dropped>>
    BY <1>3 DEF ProcessRREQ, node
  <2> QED
    BY <1>1, <2>1, ControlOnly
<1>4. CASE m.id \notin rreqSeenTable[n]
  <2>1. /\ fifo' = [fifo EXCEPT ![n] = Kept(n, T)]
        /\ air' = (air \ {m}) \cup TransmitFIFOBuffer(n, T) \cup S
        /\ UNCHANGED <<offered, delivered, dropped>>
    BY <1>4 DEF ProcessRREQ
  <2>2. T \in Table
    <3>1. routeTable[n] \in Table /\ LastAddress(m) \in Node
      BY <1>2 DEF PlaceInv, IInv, TypeOK, Table, LastAddress
    <3> QED
      BY <1>2, <3>1, Inserted DEF Extends
  <2> HIDE DEF T, n
  <2>3. /\ \A x \in GenerateRREP(n, m) : x.type # "DATA"
        /\ \A x \in ForwardRREQ(n, m) : x.type # "DATA"
        /\ CheckRouteFound(T, m.dest) =>
             \A x \in GenerateRREPByIntermediate(n, m, T[m.dest]) : x.type # "DATA"
    BY <1>1, <1>2, <2>2, RreqAnswered DEF PlaceInv, IInv
  <2>4. \A x \in S : x.type # "DATA"
    BY <2>3
  <2> HIDE DEF S
  <2> QED
    BY <1>1, <1>2, <2>1, <2>2, <2>4, ReleasedOnce
<1> QED
  BY <1>3, <1>4

\* A RREP releases what waited for its subject.
LEMMA ProcessRREPPlaced ==
  ASSUME PlaceInv, NEW m \in air, ProcessRREP(m)
  PROVE  \A q \in Packet : Placed(q)'
<1> DEFINE n == m.to
           T == InsertInRouteTable(routeTable[n], m.dest, m.seq, m.hops, LastAddress(m))
           S == IF n = m.orig THEN {} ELSE ForwardRREP(n, m, T)
<1>1. m \in Rrep /\ m.type # "DATA"
  BY Kinds DEF PlaceInv, IInv, TypeOK, ProcessRREP
<1>2. /\ n \in Node /\ m.from \in Node /\ m.dest \in Node
      /\ m.seq \in Nat /\ m.hops \in Nat
  BY <1>1 DEF Rrep
<1>3. UNCHANGED <<offered, delivered, dropped>>
  BY DEF ProcessRREP
<1>4. CASE air' = air \ {m} /\ UNCHANGED node
  <2>1. air' = air \ {m} /\ UNCHANGED <<fifo, offered, delivered, dropped>>
    BY <1>3, <1>4 DEF node
  <2> QED
    BY <1>1, <2>1, ControlOnly
<1>5. CASE /\ fifo' = [fifo EXCEPT ![n] = Kept(n, T)]
           /\ air' = (air \ {m}) \cup TransmitFIFOBuffer(n, T) \cup S
  <2>1. T \in Table
    <3>1. routeTable[n] \in Table /\ LastAddress(m) \in Node
      BY <1>2 DEF PlaceInv, IInv, TypeOK, Table, LastAddress
    <3> QED
      BY <1>2, <3>1, Inserted DEF Extends
  <2> HIDE DEF T, n
  <2>2. \A x \in S : x.type # "DATA"
    BY <1>1, <1>2, <2>1, RrepForwarded
  <2> HIDE DEF S
  <2> QED
    BY <1>1, <1>2, <1>3, <1>5, <2>1, <2>2, ReleasedOnce
<1> QED
  BY <1>4, <1>5 DEF ProcessRREP

\* The RREQ timer repeats the request, or frees the queue.
LEMMA RetryPlaced ==
  ASSUME PlaceInv, NEW n \in Node, NEW d \in Node, RetryRREQ(n, d)
  PROVE  \A p \in Packet : Placed(p)'
<1> DEFINE t == fnIncreaseTTL(n, d)
<1>1. CASE rreqSentTable[n][d].times > RreqRetries
  <2> SUFFICES ASSUME NEW p \in Packet PROVE Placed(p)'
    OBVIOUS
  <2>1. /\ fifo' = [fifo EXCEPT ![n][d] = {}]
        /\ dropped' = dropped \cup fifo[n][d]
        /\ UNCHANGED <<air, offered, delivered>>
    BY <1>1 DEF RetryRREQ
  <2>2. /\ fifo \in [Node -> [Node -> SUBSET Packet]] /\ Sorted /\ Placed(p)
        /\ Dst[p] \in Node
    BY TopologyAssumption DEF PlaceInv, IInv, TypeOK
  <2>3. \A k \in Node : p \in fifo'[k][Dst[p]] <=>
          p \in fifo[k][Dst[p]] /\ ~(k = n /\ Dst[p] = d)
    BY <2>1, <2>2
  <2>4. CASE p \in fifo[n][d]
    <3>1. Dst[p] = d /\ n \in Waiting(p)
      BY <2>2, <2>4 DEF Sorted, Waiting
    <3>2. p \in offered /\ AtNode(p, n)
      BY <2>2, <3>1 DEF Placed, AtNode, OnAir, Arrived, Freed, Nowhere
    <3>3. Waiting(p)' = {} /\ Flying(p)' = {} /\ p \in dropped' /\ p \notin delivered'
      BY <2>1, <2>3, <2>4, <3>1, <3>2 DEF Waiting, Flying, AtNode
    <3> QED
      BY <2>1, <3>2, <3>3 DEF Placed, Freed
  <2>5. CASE p \notin fifo[n][d]
    <3>1. \A k \in Node : p \in fifo'[k][Dst[p]] <=> p \in fifo[k][Dst[p]]
      BY <2>3, <2>5
    <3>2. p \in dropped' <=> p \in dropped
      BY <2>1, <2>5
    <3> QED
      BY <2>1, <2>2, <3>1, <3>2, Untouched
  <2> QED
    BY <2>4, <2>5
<1>2. CASE ~(rreqSentTable[n][d].times > RreqRetries)
  <2>1. /\ air' = air \cup Broadcast(RreqPacket(n, d, t + 1))
        /\ UNCHANGED <<fifo, offered, delivered, dropped>>
    BY <1>2 DEF RetryRREQ
  <2>2. t + 1 \in Nat
    BY RequestTyped DEF PlaceInv, IInv
  <2> HIDE DEF t
  <2>3. \A x \in Broadcast(RreqPacket(n, d, t + 1)) : x.type = "RREQ"
    BY <2>2, NewRreqCopies DEF PlaceInv, IInv
  <2> QED
    BY <2>1, <2>3, ControlOnly
<1> QED
  BY <1>1, <1>2

\* A hello moves no packet.
LEMMA HelloPlaced ==
  ASSUME PlaceInv, NEW n \in Node, TransmitHelloMessage(n)
  PROVE  \A p \in Packet : Placed(p)'
<1> DEFINE r == RrepPacket(n, n, 2, n, n, nSequenceNumber[n], 0)
           h == [r EXCEPT !.hello = TRUE]
<1>1. nSequenceNumber[n] \in Nat
  BY DEF PlaceInv, IInv, TypeOK
<1>2. h \in RawRrep
  <2>1. r \in RawRrep /\ TRUE \in BOOLEAN
    BY <1>1 DEF RrepPacket, RawRrep
  <2> HIDE DEF r
  <2>2. \A w \in BOOLEAN, x \in RawRrep : [x EXCEPT !.hello = w] \in RawRrep
    BY DEF RawRrep
  <2> QED
    BY <2>1, <2>2
<1>3. /\ air' = air \cup Broadcast(h)
      /\ UNCHANGED <<fifo, offered, delivered, dropped>>
  BY DEF TransmitHelloMessage, node
<1> HIDE DEF h
<1>4. \A x \in Broadcast(h) \cup Unicast(h) : x.type = "RREP"
  BY <1>2, RrepCopies
<1> QED
  BY <1>3, <1>4, ControlOnly

\* A transmission fails: the packet is freed.
LEMMA FailurePlaced ==
  ASSUME PlaceInv, NEW m \in air, TransmissionFails(m)
  PROVE  \A q \in Packet : Placed(q)'
<1>1. UNCHANGED <<fifo, offered, delivered>>
  BY DEF TransmissionFails
<1>2. CASE m.type = "DATA"
  <2> SUFFICES ASSUME NEW q \in Packet PROVE Placed(q)'
    OBVIOUS
  <2> DEFINE p == m.pkt
             n == m.from
             D == Through(routeTable[n], m.to)
             E == IF D = {} THEN {} ELSE Broadcast(RerrPacket(n, NetDiameter, D))
  <2>1. m \in Data /\ n \in Node /\ p \in Packet
    BY <1>2, Kinds DEF PlaceInv, IInv, TypeOK, Data
  <2>2. /\ dropped' = dropped \cup {p}
        /\ air' = air \ {m} \/ air' = (air \ {m}) \cup E
    BY <1>2 DEF TransmissionFails, GenerateRERR
  <2>3. \A x \in E : x.type # "DATA"
    <3>1. RerrPacket(n, NetDiameter, D) \in RawRerr
      BY <2>1, NumberAssumption DEF RerrPacket, RawRerr, Through
    <3> HIDE DEF D, n
    <3>2. \A x \in Broadcast(RerrPacket(n, NetDiameter, D)) : x.type = "RERR"
      BY <3>1, RerrCopies
    <3> QED
      BY <3>2
  <2> HIDE DEF E
  <2>4. Placed(q)
    BY DEF PlaceInv
  <2>5. CASE q = p
    <3>1. m \in Flying(q)
      BY <1>2, <2>5 DEF Flying
    <3>2. q \in offered /\ OnAir(q, m)
      BY <2>4, <3>1 DEF Placed, AtNode, OnAir, Arrived, Freed, Nowhere
    <3>3. Waiting(q)' = {} /\ Flying(q)' = {}
      BY <1>1, <2>2, <2>3, <3>2 DEF OnAir, Waiting, Flying
    <3> QED
      BY <1>1, <2>2, <2>5, <3>2, <3>3 DEF Placed, OnAir, Freed
  <2>6. CASE q # p
    <3>1. \A y \in air \cup air' : Carries(y, q) => (y \in air' <=> y \in air)
      BY <2>2, <2>3, <2>6 DEF Carries
    <3>2. q \in dropped' <=> q \in dropped
      BY <2>2, <2>6
    <3> QED
      BY <1>1, <2>4, <3>1, <3>2, Untouched
  <2> QED
    BY <2>5, <2>6
<1>3. CASE m.type # "DATA"
  <2>1. air' = air \ {m} /\ UNCHANGED dropped
    BY <1>3 DEF TransmissionFails
  <2> QED
    BY <1>1, <1>3, <2>1, ControlOnly
<1> QED
  BY <1>2, <1>3

\* A route error moves no packet.
LEMMA ProcessRERRPlaced ==
  ASSUME PlaceInv, NEW m \in air, ProcessRERR(m)
  PROVE  \A p \in Packet : Placed(p)'
<1> DEFINE n == m.to
           D == m.dests \cap Through(routeTable[n], m.from)
           f == [m EXCEPT !.from = n, !.to = n, !.ttl = @ - 1]
<1>1. m \in Rerr /\ m.type # "DATA"
  BY Kinds DEF PlaceInv, IInv, TypeOK, ProcessRERR
<1>2. f \in RawRerr
  <2>1. m.ttl - 1 \in Int /\ n \in Node
    BY <1>1 DEF Rerr
  <2> QED
    BY <1>1, <2>1 DEF Rerr, RawRerr
<1>3. /\ air' = (air \ {m}) \cup (IF D = {} THEN {} ELSE Broadcast(f))
      /\ UNCHANGED <<fifo, offered, delivered, dropped>>
  BY DEF ProcessRERR
<1> HIDE DEF D, f
<1>4. \A x \in Broadcast(f) : x.type = "RERR"
  BY <1>2, RerrCopies
<1> QED
  BY <1>1, <1>3, <1>4, ControlOnly

\* Every packet is placed in every reachable state.
LEMMA PlacedAlways == Spec => []PlaceInv
<1>1. Init => PlaceInv
  <2> SUFFICES ASSUME Init PROVE PlaceInv
    OBVIOUS
  <2>1. \A p \in Packet : Placed(p)
    BY TopologyAssumption DEF Init, Placed, Nowhere, Waiting, Flying
  <2> QED
    BY <2>1, Initially DEF PlaceInv
<1>2. PlaceInv /\ [Next]_vars => PlaceInv'
  <2> SUFFICES ASSUME PlaceInv, [Next]_vars PROVE PlaceInv'
    OBVIOUS
  <2>1. IInv'
    BY Inductive DEF PlaceInv
  <2>2. ASSUME NEW p \in Packet, AppSend(p) PROVE \A q \in Packet : Placed(q)'
    BY <2>2, AppSendPlaced
  <2>3. ASSUME NEW m \in air, Receive(m) PROVE \A q \in Packet : Placed(q)'
    BY <2>3, ReceiveDataPlaced, ProcessRREQPlaced, ProcessRREPPlaced,
       ProcessRERRPlaced DEF Receive
  <2>4. ASSUME NEW m \in air, TransmissionFails(m) PROVE \A q \in Packet : Placed(q)'
    BY <2>4, FailurePlaced
  <2>5. ASSUME NEW n \in Node, TransmitHelloMessage(n)
        PROVE  \A q \in Packet : Placed(q)'
    BY <2>5, HelloPlaced
  <2>6. ASSUME NEW n \in Node, NEW d \in Node, RetryRREQ(n, d)
        PROVE  \A q \in Packet : Placed(q)'
    BY <2>6, RetryPlaced
  <2>7. ASSUME NEW n \in Node, NEW d \in Node, ActiveRouteTimeout(n, d)
        PROVE  \A q \in Packet : Placed(q)'
    <3>1. UNCHANGED <<fifo, air, offered, delivered, dropped>>
      BY <2>7 DEF ActiveRouteTimeout
    <3> QED
      BY <3>1, ControlOnly
  <2>8. ASSUME NEW l \in Moving, Move(l) PROVE \A q \in Packet : Placed(q)'
    <3>1. UNCHANGED <<fifo, air, offered, delivered, dropped>>
      BY <2>8 DEF Move, node
    <3> QED
      BY <3>1, ControlOnly
  <2>9. ASSUME UNCHANGED vars PROVE \A q \in Packet : Placed(q)'
    <3>1. UNCHANGED <<fifo, air, offered, delivered, dropped>>
      BY <2>9 DEF vars
    <3> QED
      BY <3>1, ControlOnly
  <2>10. \A q \in Packet : Placed(q)'
    BY <2>2, <2>3, <2>4, <2>5, <2>6, <2>7, <2>8, <2>9 DEF Next
  <2> QED
    BY <2>1, <2>10 DEF PlaceInv
<1> QED
  BY <1>1, <1>2, PTL DEF Spec

\* No event of AODV duplicates a packet or forgets one: release, relay, the
\* end of a discovery and a failed transmission each move a packet from the
\* one place it is in to another.
THEOREM OnePlace == Spec => []InOnePlace
<1>1. PlaceInv => InOnePlace
  <2> SUFFICES ASSUME PlaceInv, NEW p \in offered
               PROVE  Cardinality(Waiting(p)) + Cardinality(Flying(p))
                        + Cardinality({p} \cap delivered)
                        + Cardinality({p} \cap dropped) = 1
    BY DEF InOnePlace
  <2>1. p \in Packet
    BY DEF PlaceInv, IInv, TypeOK
  <2>2. Placed(p)
    BY <2>1 DEF PlaceInv
  <2>3. Cardinality({}) = 0 /\ \A x : Cardinality({x}) = 1
    BY FS_EmptySet, FS_Singleton
  <2>4. /\ {p} \cap delivered = IF p \in delivered THEN {p} ELSE {}
        /\ {p} \cap dropped = IF p \in dropped THEN {p} ELSE {}
    OBVIOUS
  <2>5. \/ \E n \in Node : AtNode(p, n)
        \/ \E m \in air : OnAir(p, m)
        \/ Arrived(p) \/ Freed(p)
    BY <2>2 DEF Placed
  <2>6. CASE \E n \in Node : AtNode(p, n)
    BY <2>3, <2>4, <2>6 DEF AtNode
  <2>7. CASE \E m \in air : OnAir(p, m)
    <3>1. PICK m \in air : OnAir(p, m)
      BY <2>7
    <3>2. Waiting(p) = {} /\ Flying(p) = {m} /\ p \notin delivered /\ p \notin dropped
      BY <3>1 DEF OnAir
    <3>3. /\ Cardinality(Waiting(p)) = 0 /\ Cardinality(Flying(p)) = 1
          /\ {p} \cap delivered = {} /\ {p} \cap dropped = {}
      BY <2>3, <3>2
    <3> QED
      BY <2>3, <3>3
  <2>8. CASE Arrived(p) \/ Freed(p)
    BY <2>3, <2>4, <2>8 DEF Arrived, Freed
  <2> QED
    BY <2>5, <2>6, <2>7, <2>8
<1> QED
  BY <1>1, PlacedAlways, PTL
=============================================================================
