----------------------------- MODULE OSPF_proof -----------------------------
(***************************************************************************)
(* Invariants of OSPF proved for every set of routers, every links between *)
(* them and every bound.  The invariant is                                 *)
(*                                                                         *)
(*   IInv == TypeOK /\ FiniteQueues                                        *)
(*           /\ \A a \in Arc : Good(a, nbr[a])                             *)
(*                             /\ Newer(a, nbr[a].req, lsdb[a[1]])         *)
(*                                                                         *)
(* Good adds to RoleById that only a neighbour in Exchange or Loading has  *)
(* requests, which is why a database may change below a request list only  *)
(* together with it (Answered).  Queues are finite, so the flood timer     *)
(* puts them in an order.                                                  *)
(***************************************************************************)
EXTENDS OSPF, FiniteSetTheorems, TLAPS

\* The structure kept for arc a: its role, and where requests may be.
Good(a, nb) ==
  /\ nb \in Neighbor
  /\ nb.state \in Synchronizing => (nb.master <=> a[1] > a[2])
  /\ nb.req # {} => nb.state \in {"Exchange", "Loading"}

\* The requests of arc a ask for newer instances than database db has.
Newer(a, req, db) == \A h \in req : h.adv # a[1] => db[h.adv].seq < h.seq

Queues == {S \in SUBSET LSA : IsFiniteSet(S)}
FiniteQueues == updateLSA \in [Arc -> Queues]

Neighbors == \A a \in Arc : Good(a, nbr[a]) /\ Newer(a, nbr[a].req, lsdb[a[1]])

IInv == TypeOK /\ FiniteQueues /\ Neighbors

----------------------------------------------------------------------------
(* Arcs and packets *)

\* The two ends of an arc are routers, and its way back is an arc.
LEMMA Ends ==
  ASSUME NEW a \in Arc
  PROVE  /\ a[1] \in Router /\ a[2] \in Router /\ a[1] \in Nat /\ a[2] \in Nat
         /\ a[1] # a[2] /\ a = <<a[1], a[2]>>
         /\ Back(a) \in Arc /\ Back(a)[1] = a[2] /\ Back(a)[2] = a[1]
         /\ Back(Back(a)) = a /\ Back(a) # a
<1>1. PICK r, n \in Router : a = <<r, n>>
  <2>1. a \in Router \X Router
    BY TopologyAssumption
  <2> QED
    BY <2>1
<1>2. a[1] = r /\ a[2] = n
  BY <1>1
<1>4. r \in Nat /\ n \in Nat /\ r # n
  BY <1>1, <1>2, TopologyAssumption
<1>3. Back(a) = <<n, r>> /\ Back(a) \in Arc
  BY <1>2, TopologyAssumption DEF Back
<1> QED
  BY <1>1, <1>2, <1>3, <1>4 DEF Back

\* A hello is a packet.
LEMMA HelloPacket ==
  ASSUME NEW nb \in Neighbor
  PROVE  Hello(nb) \in Packet
<1> DEFINE s == nb.state # "Down"
<1>1. s \in BOOLEAN /\ Hello(nb) = [type |-> "hello", seen |-> s]
  BY DEF Hello
<1> HIDE DEF s
<1> QED
  BY <1>1 DEF Packet

\* A DD is a packet, with the headers it is given.
LEMMA DDPacket ==
  ASSUME NEW seq \in Nat, NEW i \in BOOLEAN, NEW m \in BOOLEAN, NEW ms \in BOOLEAN,
         NEW headers \in SUBSET Header
  PROVE  DD(seq, i, m, ms, headers) \in Packet
BY DEF DD, Packet, DDId, Flags

\* A request is a packet.
LEMMA RequestPacket ==
  ASSUME NEW nb \in Neighbor
  PROVE  Request(nb) \in Packet
<1>1. {h.adv : h \in nb.req} \in SUBSET Router
  BY DEF Neighbor, Header
<1> QED
  BY <1>1 DEF Request, Packet

\* An update is a packet.
LEMMA UpdatePacket ==
  ASSUME NEW l \in LSA
  PROVE  Update(l) \in Packet
BY DEF Update, Packet

\* The type field tells the packets apart.
LEMMA Kinds ==
  ASSUME NEW m \in Packet
  PROVE  /\ m.type = "dd" => m.id \in DDId /\ m.headers \in SUBSET Header
         /\ m.type = "lsr" => m.ids \in SUBSET Router
         /\ m.type = "lsu" => m.lsa \in LSA
BY DEF Packet

\* The packet at the head of a link that carries some.
LEMMA Arriving ==
  ASSUME TypeOK, NEW a \in Arc, NEW t, Arrives(a, t)
  PROVE  /\ Head(link[a]) \in Packet /\ Head(link[a]).type = t
         /\ Tail(link[a]) \in Seq(Packet)
<1>1. link[a] \in Seq(Packet) /\ link[a] # <<>>
  BY DEF TypeOK, Arrives
<1> QED
  BY <1>1 DEF Arrives

\* Answering with packets keeps the links typed.
LEMMA Answering ==
  ASSUME TypeOK, NEW a \in Arc, link[a] # <<>>, NEW packets \in Seq(Packet),
         Answer(a, packets)
  PROVE  link' \in [Arc -> Seq(Packet)]
<1>1. link[a] \in Seq(Packet) /\ link[Back(a)] \in Seq(Packet) /\ Back(a) \in Arc
  BY Ends DEF TypeOK
<1>2. Tail(link[a]) \in Seq(Packet) /\ link[Back(a)] \o packets \in Seq(Packet)
  BY <1>1
<1>3. Back(a) # a
  BY Ends
<1> QED
  BY <1>1, <1>2, <1>3 DEF Answer, TypeOK

\* So does adding a packet at the end.
LEMMA Sending ==
  ASSUME TypeOK, NEW a \in Arc, NEW p \in Packet,
         link' = [link EXCEPT ![a] = Append(@, p)]
  PROVE  link' \in [Arc -> Seq(Packet)]
<1>1. Append(link[a], p) \in Seq(Packet)
  BY DEF TypeOK
<1> QED
  BY <1>1 DEF TypeOK

----------------------------------------------------------------------------
(* Adjacency *)

\* A first attempt, or a later one, leaves ExStart and the lists alone.
LEMMA Attempted ==
  ASSUME NEW a \in Arc, NEW nb \in Neighbor, nb.req = {}
  PROVE  /\ Good(a, attempt_adjacency(nb, a))
         /\ attempt_adjacency(nb, a).req = {}
         /\ AttemptPackets(nb, a) \in Seq(Packet)
<1> DEFINE n == attempt_adjacency(nb, a)
<1>1. DDStart[a] \in Nat /\ nb.seq + 1 \in Nat
  BY NumberAssumption DEF Neighbor
<1>2. n \in Neighbor
  <2>1. CASE nb.seq # 0
    BY <1>1, <2>1 DEF attempt_adjacency, Neighbor, State
  <2>2. CASE nb.seq = 0
    <3>1. ASSUME NEW t \in BOOLEAN
          PROVE  [nb EXCEPT !.state = "ExStart", !.master = t, !.seq = DDStart[a],
                            !.more = t, !.ddTimer = t] \in Neighbor
      BY <1>1 DEF Neighbor, State
    <3>2. TRUE \in BOOLEAN
      OBVIOUS
    <3> QED
      BY <2>2, <3>1, <3>2 DEF attempt_adjacency
  <2> QED
    BY <2>1, <2>2
<1>3. n.state = "ExStart" /\ n.req = {}
  BY DEF attempt_adjacency, Neighbor
<1>4. AttemptPackets(nb, a) \in Seq(Packet)
  <2>1. TRUE \in BOOLEAN /\ n.seq \in Nat /\ {} \in SUBSET Header
    BY <1>2 DEF Neighbor
  <2> HIDE DEF n
  <2>2. InitialDD(n) \in Packet
    BY <2>1, DDPacket DEF InitialDD
  <2> QED
    BY <2>2 DEF AttemptPackets, n
<1> QED
  BY <1>2, <1>3, <1>4 DEF Good, Synchronizing

\* A structure with no requests and no role is good.
LEMMA Starting ==
  ASSUME NEW a \in Arc, NEW nb \in Neighbor, nb.req = {}, nb.state \notin Synchronizing
  PROVE  Good(a, nb)
BY DEF Good
\* A neighbour with no requests asks for nothing.
LEMMA NothingAsked ==
  ASSUME NEW a, NEW db
  PROVE  Newer(a, {}, db)
BY DEF Newer

----------------------------------------------------------------------------
(* Database description *)

\* What a DD carries is taken from the headers left.
LEMMA TopTaken ==
  ASSUME NEW headers
  PROVE  Tops(headers) \subseteq SUBSET headers
BY DEF Tops, kSubset

\* Describing keeps the role, and the requests it adds are for newer
\* instances.
LEMMA Describing ==
  ASSUME NEW a \in Arc, NEW nb \in Neighbor, NEW db \in [Router -> LSA],
         Newer(a, nb.req, db), NEW m, m.id \in DDId, m.headers \in SUBSET Header
  PROVE  LET d == Described(nb, db, m)
         IN  /\ d \in Neighbor
             /\ d.state = nb.state /\ d.master = nb.master
             /\ d.summary = nb.summary
             /\ Newer(a, d.req, db)
<1>1. Wanted(nb, db, m.headers) \in SUBSET Header
        /\ Newer(a, Wanted(nb, db, m.headers), db)
  BY DEF Wanted, Newer
<1>2. m.id.seq \in Nat /\ nb.seq + 1 \in Nat
  BY DEF DDId, Neighbor
<1> DEFINE q == nb.req \cup Wanted(nb, db, m.headers)
           s == IF nb.master THEN nb.seq + 1 ELSE m.id.seq
<1>3. q \in SUBSET Header /\ s \in Nat /\ Newer(a, q, db)
  BY <1>1, <1>2 DEF Neighbor, Newer
<1>4. Described(nb, db, m) = [nb EXCEPT !.req = q, !.seq = s]
  BY DEF Described
<1> HIDE DEF q, s
<1> QED
  BY <1>3, <1>4 DEF Neighbor

\* Sending a DD takes headers from the summary only.
LEMMA Sent ==
  ASSUME NEW nb \in Neighbor, NEW top \in SUBSET nb.summary
  PROVE  LET n == AfterDD(nb, top)
         IN  /\ n \in Neighbor /\ n.more \in BOOLEAN
             /\ n.state = nb.state /\ n.master = nb.master /\ n.req = nb.req
             /\ ExchangeDD(nb, top) \in Packet
<1> DEFINE more == nb.summary # top
<1>1. more \in BOOLEAN /\ nb.summary \ top \in SUBSET Header /\ top \in SUBSET Header
  BY DEF Neighbor
<1>2. AfterDD(nb, top) = [nb EXCEPT !.summary = nb.summary \ top, !.more = more]
  BY DEF AfterDD
<1>3. ExchangeDD(nb, top) = DD(nb.seq, FALSE, more, nb.master, top)
  BY DEF ExchangeDD
<1> HIDE DEF more
<1>4. FALSE \in BOOLEAN /\ nb.seq \in Nat /\ nb.master \in BOOLEAN
  BY DEF Neighbor
<1>5. ExchangeDD(nb, top) \in Packet
  BY <1>1, <1>3, <1>4, DDPacket
<1> QED
  BY <1>1, <1>2, <1>5 DEF Neighbor

\* Setting the mark of the end of the exchange changes nothing else.
LEMMA Marked ==
  ASSUME NEW nb \in Neighbor, NEW b \in BOOLEAN
  PROVE  LET n == [nb EXCEPT !.done = b]
         IN  /\ n \in Neighbor
             /\ n.state = nb.state /\ n.master = nb.master /\ n.req = nb.req
BY DEF Neighbor

\* A DD that is processed in Exchange keeps the neighbour good.
LEMMA Processed ==
  ASSUME NEW a \in Arc, NEW nb, Good(a, nb), nb.state = "Exchange",
         NEW db \in [Router -> LSA], Newer(a, nb.req, db),
         NEW m, m.id \in DDId, m.headers \in SUBSET Header,
         NEW top \in Tops(nb.summary)
  PROVE  /\ Good(a, process_DD(nb, db, m, top))
         /\ Newer(a, process_DD(nb, db, m, top).req, db)
         /\ ProcessPackets(nb, db, m, top) \in Seq(Packet)
<1> DEFINE d == Described(nb, db, m)
           sent == AfterDD(d, top)
           n == process_DD(nb, db, m, top)
<1>0. nb \in Neighbor
  BY DEF Good
<1>1. /\ d \in Neighbor /\ d.state = nb.state /\ d.master = nb.master
      /\ d.summary = nb.summary /\ Newer(a, d.req, db)
  BY <1>0, Describing
<1>2. top \in SUBSET nb.summary
  BY TopTaken
<1> HIDE DEF d
<1>3. top \in SUBSET d.summary
  BY <1>1, <1>2
<1>4. /\ sent \in Neighbor /\ sent.more \in BOOLEAN
      /\ sent.state = d.state /\ sent.master = d.master /\ sent.req = d.req
      /\ ExchangeDD(d, top) \in Packet
  BY <1>1, <1>3, Sent
<1> HIDE DEF sent
<1> DEFINE mark == sent.done \/ (~nb.master /\ ~m.id.flags.more /\ ~sent.more)
<1>5. mark \in BOOLEAN /\ TRUE \in BOOLEAN
  OBVIOUS
<1>6. n = IF Stops(nb, m) THEN [d EXCEPT !.done = TRUE] ELSE [sent EXCEPT !.done = mark]
  BY DEF process_DD, d, sent
<1> HIDE DEF n, mark
<1>7. n \in Neighbor /\ n.state = nb.state /\ n.master = nb.master /\ n.req = d.req
  <2>1. CASE Stops(nb, m)
    BY <1>1, <1>5, <1>6, <2>1, Marked
  <2>2. CASE ~Stops(nb, m)
    BY <1>1, <1>4, <1>5, <1>6, <2>2, Marked
  <2> QED
    BY <2>1, <2>2
<1>8. Good(a, n) /\ Newer(a, n.req, db)
  BY <1>1, <1>7 DEF Good
<1>9. ProcessPackets(nb, db, m, top) \in Seq(Packet)
  BY <1>4 DEF ProcessPackets, d
<1> QED
  BY <1>8, <1>9 DEF n

\* The structure of arc a when its exchange begins.
Exchanging(a, nb) == Good(a, nb) /\ nb.state = "Exchange" /\ nb.req = {}

\* After the negotiation the summary list describes the database.
LEMMA Negotiated ==
  ASSUME NEW a \in Arc, NEW nb \in Neighbor, nb.req = {}, NEW db \in [Router -> LSA],
         NEW master \in BOOLEAN, NEW seq \in Nat, master <=> a[1] > a[2]
  PROVE  Exchanging(a, [negotiationDone(nb, db) EXCEPT !.master = master, !.seq = seq])
<1> DEFINE headers == {HeaderOf(db[x]) : x \in {y \in Router : db[y].seq > 0}}
<1>1. headers \in SUBSET Header
  BY DEF HeaderOf, LSA, Header
<1> HIDE DEF headers
<1> DEFINE n == [negotiationDone(nb, db) EXCEPT !.master = master, !.seq = seq]
<1>2. ASSUME NEW f \in BOOLEAN
      PROVE  LET k == [nb EXCEPT !.state = "Exchange", !.ddTimer = f, !.summary = headers,
                                 !.master = master, !.seq = seq]
             IN  k \in Neighbor /\ k.state = "Exchange" /\ k.req = {} /\ k.master = master
  BY <1>1 DEF Neighbor, State
<1>3. n = [nb EXCEPT !.state = "Exchange", !.ddTimer = FALSE, !.summary = headers,
                     !.master = master, !.seq = seq]
  BY DEF negotiationDone, headers
<1>4. FALSE \in BOOLEAN
  OBVIOUS
<1> HIDE DEF n
<1>5. n \in Neighbor /\ n.state = "Exchange" /\ n.req = {} /\ n.master = master
  BY <1>2, <1>3, <1>4
<1> QED
  BY <1>5 DEF Good, Exchanging, n

----------------------------------------------------------------------------
(* The steps of the neighbour machine *)

\* A step that changes one structure, into a good one.
LEMMA OneNeighbor ==
  ASSUME IInv, NEW a \in Arc, NEW n, Good(a, n), Newer(a, n.req, lsdb[a[1]]),
         nbr' = [nbr EXCEPT ![a] = n], UNCHANGED lsdb
  PROVE  nbr' \in [Arc -> Neighbor] /\ Neighbors'
<1>1. nbr' \in [Arc -> Neighbor]
  BY DEF IInv, TypeOK, Good
<1>2. ASSUME NEW b \in Arc
      PROVE  Good(b, nbr'[b]) /\ Newer(b, nbr'[b].req, lsdb'[b[1]])
  <2>1. CASE b = a
    BY <2>1 DEF IInv, TypeOK
  <2>2. CASE b # a
    BY <2>2 DEF IInv, TypeOK, Neighbors
  <2> QED
    BY <2>1, <2>2
<1> QED
  BY <1>1, <1>2 DEF Neighbors

\* What the invariant says of one arc.
LEMMA OneArc ==
  ASSUME IInv, NEW a \in Arc
  PROVE  /\ nbr[a] \in Neighbor /\ Good(a, nbr[a]) /\ Newer(a, nbr[a].req, lsdb[a[1]])
         /\ lsdb[a[1]] \in [Router -> LSA] /\ updateLSA[a] \in Queues
         /\ link[a] \in Seq(Packet)
BY Ends DEF IInv, TypeOK, Neighbors, FiniteQueues

\* A hello timer leaves the invariant.
LEMMA HelloSent ==
  ASSUME IInv, NEW a \in Arc, HelloTimer(a)
  PROVE  IInv'
<1>1. link' \in [Arc -> Seq(Packet)]
  BY OneArc, HelloPacket, Sending DEF HelloTimer, IInv
<1> QED
  BY <1>1 DEF HelloTimer, IInv, TypeOK, FiniteQueues, Neighbors

\* A hello leaves the invariant: it finds no requests in Down or Init.
LEMMA HelloReceived ==
  ASSUME IInv, NEW a \in Arc, RecvHello(a)
  PROVE  IInv'
<1> DEFINE me == Back(a)
           nb == nbr[me]
<1>1. me \in Arc /\ Arrives(a, "hello") /\ link[a] # <<>>
  BY Ends DEF RecvHello, Arrives
<1>2. nb \in Neighbor /\ Good(me, nb) /\ Newer(me, nb.req, lsdb[me[1]])
  BY <1>1, OneArc
<1>3. CASE Head(link[a]).seen /\ nb.state \in {"Down", "Init"}
  <2>1. nb.req = {}
    BY <1>2, <1>3 DEF Good
  <2>2. /\ nbr' = [nbr EXCEPT ![me] = attempt_adjacency(nb, me)]
        /\ Answer(a, AttemptPackets(nb, me)) /\ UNCHANGED lsdb
    BY <1>3 DEF RecvHello
  <2>3. /\ Good(me, attempt_adjacency(nb, me)) /\ attempt_adjacency(nb, me).req = {}
        /\ AttemptPackets(nb, me) \in Seq(Packet)
    BY <1>1, <1>2, <2>1, Attempted
  <2> HIDE DEF me, nb
  <2>4. nbr' \in [Arc -> Neighbor] /\ Neighbors'
    BY <1>1, <2>2, <2>3, OneNeighbor, NothingAsked
  <2>5. link' \in [Arc -> Seq(Packet)]
    BY <1>1, <2>2, <2>3, Answering DEF IInv
  <2> QED
    BY <2>4, <2>5 DEF RecvHello, IInv, TypeOK, FiniteQueues
<1>4. CASE ~(Head(link[a]).seen /\ nb.state \in {"Down", "Init"})
  <2> DEFINE n == [nb EXCEPT !.state = IF @ = "Down" THEN "Init" ELSE @]
  <2>1. Good(me, n) /\ n.req = nb.req
    <3>1. n \in Neighbor /\ n.req = nb.req /\ n.master = nb.master
            /\ n.state = IF nb.state = "Down" THEN "Init" ELSE nb.state
      BY <1>2 DEF Neighbor, State
    <3> HIDE DEF n
    <3> QED
      BY <1>2, <3>1 DEF Good, Synchronizing
  <2>2. nbr' = [nbr EXCEPT ![me] = n] /\ Answer(a, <<>>) /\ UNCHANGED lsdb
    BY <1>4 DEF RecvHello
  <2> HIDE DEF me, nb, n
  <2>3. nbr' \in [Arc -> Neighbor] /\ Neighbors'
    BY <1>1, <1>2, <2>1, <2>2, OneNeighbor
  <2>4. link' \in [Arc -> Seq(Packet)]
    <3>1. <<>> \in Seq(Packet)
      OBVIOUS
    <3> QED
      BY <1>1, <2>2, <3>1, Answering DEF IInv
  <2> QED
    BY <2>3, <2>4 DEF RecvHello, IInv, TypeOK, FiniteQueues
<1> QED
  BY <1>3, <1>4

\* The timer of the first DD leaves the invariant.
LEMMA DDSentAgain ==
  ASSUME IInv, NEW a \in Arc, DDTimer(a)
  PROVE  IInv'
<1> DEFINE nb == nbr[a]
<1>1. nb \in Neighbor /\ Good(a, nb) /\ Newer(a, nb.req, lsdb[a[1]])
  BY OneArc
<1>2. ASSUME NEW b \in BOOLEAN
      PROVE  /\ Good(a, [nb EXCEPT !.more = b]) /\ [nb EXCEPT !.more = b].req = nb.req
             /\ Good(a, [nb EXCEPT !.ddTimer = b]) /\ [nb EXCEPT !.ddTimer = b].req = nb.req
  BY <1>1 DEF Good, Neighbor
<1>3. TRUE \in BOOLEAN /\ FALSE \in BOOLEAN
  OBVIOUS
<1>4. CASE nb.state = "ExStart"
  <2>1. /\ nbr' = [nbr EXCEPT ![a] = [nb EXCEPT !.more = TRUE]]
        /\ link' = [link EXCEPT ![a] = Append(@, InitialDD(nb))] /\ UNCHANGED lsdb
    BY <1>4 DEF DDTimer
  <2>2. InitialDD(nb) \in Packet
    <3>1. nb.seq \in Nat /\ {} \in SUBSET Header
      BY <1>1 DEF Neighbor
    <3> QED
      BY <1>3, <3>1, DDPacket DEF InitialDD
  <2> HIDE DEF nb
  <2>3. nbr' \in [Arc -> Neighbor] /\ Neighbors'
    BY <1>1, <1>2, <1>3, <2>1, OneNeighbor
  <2>4. link' \in [Arc -> Seq(Packet)]
    BY <2>1, <2>2, Sending DEF IInv
  <2> QED
    BY <2>3, <2>4 DEF DDTimer, IInv, TypeOK, FiniteQueues
<1>5. CASE nb.state # "ExStart"
  <2>1. nbr' = [nbr EXCEPT ![a] = [nb EXCEPT !.ddTimer = FALSE]] /\ UNCHANGED lsdb
          /\ UNCHANGED link
    BY <1>5 DEF DDTimer
  <2> HIDE DEF nb
  <2>2. nbr' \in [Arc -> Neighbor] /\ Neighbors'
    BY <1>1, <1>2, <1>3, <2>1, OneNeighbor
  <2> QED
    BY <2>1, <2>2 DEF DDTimer, IInv, TypeOK, FiniteQueues
<1> QED
  BY <1>4, <1>5

\* A neighbour that falls silent loses its requests.
LEMMA NeighborLost ==
  ASSUME IInv, NEW a \in Arc, InactivityTimer(a)
  PROVE  IInv'
<1> DEFINE nb == nbr[a]
           n == [nb EXCEPT !.state = "Down", !.summary = {}, !.req = {}, !.lastrecv = {}]
<1>1. nb \in Neighbor
  BY OneArc
<1>2. n \in Neighbor /\ n.state = "Down" /\ n.req = {}
  BY <1>1 DEF Neighbor, State
<1>3. nbr' = [nbr EXCEPT ![a] = n] /\ UNCHANGED lsdb
  BY DEF InactivityTimer
<1> HIDE DEF n
<1>4. Good(a, n)
  BY <1>2, Starting DEF Synchronizing
<1>5. nbr' \in [Arc -> Neighbor] /\ Neighbors'
  BY <1>2, <1>3, <1>4, OneNeighbor, NothingAsked
<1> DEFINE t == lsTimer[a[1]] \/ nb.state = "Full"
<1>6. t \in BOOLEAN /\ lsTimer' = [lsTimer EXCEPT ![a[1]] = t]
  BY DEF InactivityTimer
<1> HIDE DEF t, nb
<1>7. lsTimer' \in [Router -> BOOLEAN]
  BY <1>6 DEF IInv, TypeOK
<1>8. failures' \in Nat
  BY DEF InactivityTimer, IInv, TypeOK
<1> QED
  BY <1>5, <1>7, <1>8 DEF InactivityTimer, IInv, TypeOK, FiniteQueues

\* A DD that ends the negotiation gives this router the role its identifier
\* asks for.
LEMMA DDNegotiated ==
  ASSUME IInv, NEW a \in Arc, RecvDDNegotiates(a)
  PROVE  IInv'
<1> DEFINE me == Back(a)
           m == Head(link[a])
           db == lsdb[me[1]]
           old == [nbr[me] EXCEPT !.lastrecv = {m.id}]
           nb == IF old.state = "Init" THEN attempt_adjacency(old, me) ELSE old
           first == IF old.state = "Init" THEN AttemptPackets(old, me) ELSE <<>>
           ms == BecomesMaster(nb, me, m)
           sq == IF BecomesSlave(me, m) THEN m.id.seq ELSE negotiationDone(nb, db).seq
           agreed == [negotiationDone(nb, db) EXCEPT !.master = ms, !.seq = sq]
<1>1. me \in Arc /\ me[1] \in Nat /\ me[2] \in Nat /\ Arrives(a, "dd") /\ link[a] # <<>>
  BY Ends DEF RecvDDNegotiates, Arrives
<1>2. /\ nbr[me] \in Neighbor /\ Good(me, nbr[me]) /\ db \in [Router -> LSA]
      /\ nbr[me].state \in {"Init", "ExStart"}
  BY <1>1, OneArc DEF RecvDDNegotiates
<1>3. m \in Packet /\ m.id \in DDId /\ m.headers \in SUBSET Header
  BY <1>1, Arriving, Kinds DEF IInv
<1>4. old \in Neighbor /\ old.req = {} /\ old.state \notin Synchronizing
  BY <1>2, <1>3 DEF Good, Neighbor, Synchronizing
<1> HIDE DEF old
<1>5. Good(me, attempt_adjacency(old, me)) /\ attempt_adjacency(old, me).req = {}
        /\ AttemptPackets(old, me) \in Seq(Packet)
  BY <1>1, <1>4, Attempted
<1>6. Good(me, nb) /\ nb.req = {} /\ first \in Seq(Packet) /\ nb \in Neighbor
  <2>1. <<>> \in Seq(Packet)
    OBVIOUS
  <2>2. Good(me, old)
    BY <1>1, <1>4, Starting
  <2> QED
    BY <1>4, <1>5, <2>1, <2>2 DEF Good
<1>7. \/ /\ BecomesSlave(me, m) \/ BecomesMaster(nb, me, m)
         /\ \E top \in Tops(agreed.summary) :
              /\ nbr' = [nbr EXCEPT ![me] = process_DD(agreed, db, m, top)]
              /\ Answer(a, first \o ProcessPackets(agreed, db, m, top))
      \/ nbr' = [nbr EXCEPT ![me] = nb] /\ Answer(a, first)
  BY DEF RecvDDNegotiates, old
<1>8. UNCHANGED <<lsdb, updateLSA, lsTimer, losses, failures, unhandled>>
  BY DEF RecvDDNegotiates
<1> HIDE DEF nb, first
<1>9. ASSUME BecomesSlave(me, m) \/ BecomesMaster(nb, me, m),
             NEW top \in Tops(agreed.summary),
             nbr' = [nbr EXCEPT ![me] = process_DD(agreed, db, m, top)],
             Answer(a, first \o ProcessPackets(agreed, db, m, top))
      PROVE  nbr' \in [Arc -> Neighbor] /\ Neighbors' /\ link' \in [Arc -> Seq(Packet)]
  <2>1. ms \in BOOLEAN /\ (ms <=> me[1] > me[2])
    BY <1>1, <1>9 DEF BecomesMaster, BecomesSlave
  <2>2. sq \in Nat
    <3>1. negotiationDone(nb, db).seq = nb.seq
      BY <1>6 DEF negotiationDone, Neighbor
    <3> QED
      BY <1>3, <1>6, <3>1 DEF DDId, Neighbor
  <2> HIDE DEF ms, sq, db, me
  <2>8. Exchanging(me, agreed)
    BY <1>1, <1>2, <1>6, <2>1, <2>2, Negotiated
  <2> HIDE DEF agreed
  <2>3. Good(me, agreed) /\ agreed.state = "Exchange" /\ agreed.req = {}
    BY <2>8 DEF Exchanging
  <2>4. Newer(me, agreed.req, db)
    BY <2>3, NothingAsked
  <2>5. /\ Good(me, process_DD(agreed, db, m, top))
        /\ Newer(me, process_DD(agreed, db, m, top).req, db)
        /\ ProcessPackets(agreed, db, m, top) \in Seq(Packet)
    BY <1>1, <1>2, <1>3, <1>9, <2>3, <2>4, Processed
  <2>6. nbr' \in [Arc -> Neighbor] /\ Neighbors'
    BY <1>1, <1>8, <1>9, <2>5, OneNeighbor DEF db
  <2>7. first \o ProcessPackets(agreed, db, m, top) \in Seq(Packet)
    BY <1>6, <2>5
  <2> QED
    BY <1>1, <1>9, <2>6, <2>7, Answering DEF IInv
<1>10. ASSUME nbr' = [nbr EXCEPT ![me] = nb], Answer(a, first)
       PROVE  nbr' \in [Arc -> Neighbor] /\ Neighbors' /\ link' \in [Arc -> Seq(Packet)]
  <2>1. nbr' \in [Arc -> Neighbor] /\ Neighbors'
    BY <1>1, <1>6, <1>8, <1>10, OneNeighbor, NothingAsked
  <2> QED
    BY <1>1, <1>6, <1>10, <2>1, Answering DEF IInv
<1>11. nbr' \in [Arc -> Neighbor] /\ Neighbors' /\ link' \in [Arc -> Seq(Packet)]
  BY <1>7, <1>9, <1>10
<1> QED
  BY <1>8, <1>11 DEF IInv, TypeOK, FiniteQueues

\* A DD that is not used leaves the invariant.
LEMMA DDUnused ==
  ASSUME IInv, NEW a \in Arc, RecvDDUnused(a)
  PROVE  IInv'
<1>1. Arrives(a, "dd") /\ link[a] # <<>>
  BY DEF RecvDDUnused, Arrives
<1>2. Head(link[a]) \in Packet
  BY <1>1, Arriving DEF IInv
<1>3. PICK packets \in Seq(Packet) : Answer(a, packets)
  <2>1. <<>> \in Seq(Packet) /\ <<Head(link[a])>> \in Seq(Packet)
    BY <1>2
  <2> QED
    BY <2>1 DEF RecvDDUnused
<1>4. link' \in [Arc -> Seq(Packet)]
  BY <1>1, <1>3, Answering DEF IInv
<1> QED
  BY <1>4 DEF RecvDDUnused, IInv, TypeOK, FiniteQueues, Neighbors

\* A DD of the exchange leaves the invariant.
LEMMA DDExchanged ==
  ASSUME IInv, NEW a \in Arc, RecvDDExchange(a)
  PROVE  IInv'
<1> DEFINE me == Back(a)
           m == Head(link[a])
           db == lsdb[me[1]]
           nb == [nbr[me] EXCEPT !.lastrecv = {m.id}]
           expected == nb.state = "Exchange" /\ InSequence(nb, m)
<1>1. me \in Arc /\ Arrives(a, "dd") /\ link[a] # <<>>
  BY Ends DEF RecvDDExchange, Arrives
<1>2. /\ nbr[me] \in Neighbor /\ Good(me, nbr[me]) /\ db \in [Router -> LSA]
      /\ Newer(me, nbr[me].req, db)
  BY <1>1, OneArc
<1>3. m \in Packet /\ m.id \in DDId /\ m.headers \in SUBSET Header
  BY <1>1, Arriving, Kinds DEF IInv
<1>4. Good(me, nb) /\ nb.req = nbr[me].req
  BY <1>2, <1>3 DEF Good, Neighbor
<1>5. \/ /\ expected
         /\ \E top \in Tops(nb.summary) :
              /\ nbr' = [nbr EXCEPT ![me] = process_DD(nb, db, m, top)]
              /\ Answer(a, ProcessPackets(nb, db, m, top))
      \/ nbr' = [nbr EXCEPT ![me] = nb] /\ Answer(a, <<>>)
  BY DEF RecvDDExchange
<1>6. UNCHANGED <<lsdb, updateLSA, lsTimer, losses, failures>>
  BY DEF RecvDDExchange
<1>7. unhandled' \in BOOLEAN
  BY DEF RecvDDExchange
<1> HIDE DEF nb
<1>8. ASSUME expected, NEW top \in Tops(nb.summary),
             nbr' = [nbr EXCEPT ![me] = process_DD(nb, db, m, top)],
             Answer(a, ProcessPackets(nb, db, m, top))
      PROVE  nbr' \in [Arc -> Neighbor] /\ Neighbors' /\ link' \in [Arc -> Seq(Packet)]
  <2> HIDE DEF db
  <2>1. /\ Good(me, process_DD(nb, db, m, top))
        /\ Newer(me, process_DD(nb, db, m, top).req, db)
        /\ ProcessPackets(nb, db, m, top) \in Seq(Packet)
    BY <1>1, <1>2, <1>3, <1>4, <1>8, Processed
  <2>2. nbr' \in [Arc -> Neighbor] /\ Neighbors'
    BY <1>1, <1>6, <1>8, <2>1, OneNeighbor DEF db
  <2> QED
    BY <1>1, <1>8, <2>1, <2>2, Answering DEF IInv
<1>9. ASSUME nbr' = [nbr EXCEPT ![me] = nb], Answer(a, <<>>)
      PROVE  nbr' \in [Arc -> Neighbor] /\ Neighbors' /\ link' \in [Arc -> Seq(Packet)]
  <2>1. nbr' \in [Arc -> Neighbor] /\ Neighbors'
    BY <1>1, <1>2, <1>4, <1>6, <1>9, OneNeighbor
  <2>2. <<>> \in Seq(Packet)
    OBVIOUS
  <2> QED
    BY <1>1, <1>9, <2>1, <2>2, Answering DEF IInv
<1>10. nbr' \in [Arc -> Neighbor] /\ Neighbors' /\ link' \in [Arc -> Seq(Packet)]
  BY <1>5, <1>8, <1>9
<1> QED
  BY <1>6, <1>7, <1>10 DEF IInv, TypeOK, FiniteQueues

\* The end of the exchange leaves the invariant: Full without requests only.
LEMMA ExchangeEnded ==
  ASSUME IInv, NEW a \in Arc, ExchangeDone(a)
  PROVE  IInv'
<1> DEFINE nb == nbr[a]
           full == nb.state = "Exchange" /\ nb.req = {}
           loading == nb.state = "Exchange" /\ nb.req # {}
           rt == nb.reqTimer \/ loading
           st == IF full THEN "Full" ELSE IF loading THEN "Loading" ELSE nb.state
           n == [nb EXCEPT !.done = FALSE, !.reqTimer = rt, !.state = st]
<1>1. nb \in Neighbor /\ Good(a, nb) /\ Newer(a, nb.req, lsdb[a[1]])
  BY OneArc
<1>2. rt \in BOOLEAN /\ st \in State /\ FALSE \in BOOLEAN
  BY <1>1 DEF Neighbor, State
<1>3. /\ nb.req # {} => st \in {"Exchange", "Loading"}
      /\ st \in Synchronizing => nb.state \in Synchronizing
  BY <1>1 DEF Good, Synchronizing
<1>4. nbr' = [nbr EXCEPT ![a] = n] /\ UNCHANGED lsdb
  BY DEF ExchangeDone
<1>5. link' = [link EXCEPT ![a] = IF loading THEN Append(@, Request(nb)) ELSE @]
  BY DEF ExchangeDone
<1>6. lsTimer' = [lsTimer EXCEPT ![a[1]] = @ \/ full]
  BY DEF ExchangeDone
<1> HIDE DEF rt, st
<1>7. /\ n \in Neighbor /\ n.req = nb.req /\ n.master = nb.master /\ n.state = st
  <2>1. ASSUME NEW f \in BOOLEAN
        PROVE  LET k == [nb EXCEPT !.done = f, !.reqTimer = rt, !.state = st]
               IN  k \in Neighbor /\ k.req = nb.req /\ k.master = nb.master /\ k.state = st
    BY <1>1, <1>2 DEF Neighbor
  <2> QED
    BY <1>2, <2>1
<1> HIDE DEF n
<1>8. Good(a, n)
  BY <1>1, <1>3, <1>7 DEF Good
<1> HIDE DEF nb
<1>9. nbr' \in [Arc -> Neighbor] /\ Neighbors'
  BY <1>1, <1>4, <1>7, <1>8, OneNeighbor
<1>10. link' \in [Arc -> Seq(Packet)]
  <2>1. Request(nb) \in Packet
    BY <1>1, RequestPacket
  <2>2. Append(link[a], Request(nb)) \in Seq(Packet) /\ link[a] \in Seq(Packet)
    BY <2>1 DEF IInv, TypeOK
  <2> QED
    BY <1>5, <2>2 DEF IInv, TypeOK
<1>11. lsTimer' \in [Router -> BOOLEAN]
  BY <1>6, Ends DEF IInv, TypeOK
<1> QED
  BY <1>9, <1>10, <1>11 DEF ExchangeDone, IInv, TypeOK, FiniteQueues

----------------------------------------------------------------------------
(* Queues and requests *)

\* A queue takes LSAs from what it had and from what it is given.
LEMMA QueueStays ==
  ASSUME NEW q \in Queues, NEW S \in Queues
  PROVE  Queue(q, S) \in Queues
<1>1. Queue(q, S) \in SUBSET (q \cup S)
  BY DEF Queue
<1>2. IsFiniteSet(q \cup S)
  BY FS_Union DEF Queues
<1>3. IsFiniteSet(Queue(q, S))
  BY <1>1, <1>2, FS_Subset
<1> QED
  BY <1>1, <1>3 DEF Queues

\* One LSA is a finite set of LSAs.
LEMMA OneLSA ==
  ASSUME NEW l \in LSA
  PROVE  {l} \in Queues
BY FS_Singleton DEF Queues

\* So are some LSAs of a database.
LEMMA SomeLSAs ==
  ASSUME NEW db \in [Router -> LSA], NEW served \in SUBSET Router
  PROVE  {db[x] : x \in served} \in Queues
<1> DEFINE T == {db[x] : x \in served}
           f == [x \in served |-> db[x]]
<1>1. T \in SUBSET LSA
  OBVIOUS
<1>2. IsFiniteSet(served)
  BY TopologyAssumption, FS_Subset
<1>3. f \in Surjection(served, T)
  BY DEF Surjection
<1>4. IsFiniteSet(T)
  BY <1>2, <1>3, FS_Surjection
<1> QED
  BY <1>1, <1>4 DEF Queues

\* The timer of the requests leaves the invariant.
LEMMA Requested ==
  ASSUME IInv, NEW a \in Arc, RequestTimer(a)
  PROVE  IInv'
<1> DEFINE nb == nbr[a]
<1>1. nb \in Neighbor /\ Good(a, nb) /\ Newer(a, nb.req, lsdb[a[1]])
  BY OneArc
<1>2. CASE nb.req = {}
  <2>1. ASSUME NEW f \in BOOLEAN
        PROVE  Good(a, [nb EXCEPT !.reqTimer = f]) /\ [nb EXCEPT !.reqTimer = f].req = nb.req
    BY <1>1 DEF Good, Neighbor
  <2>2. /\ nbr' = [nbr EXCEPT ![a] = [nb EXCEPT !.reqTimer = FALSE]]
        /\ UNCHANGED lsdb /\ UNCHANGED link
    BY <1>2 DEF RequestTimer
  <2>3. FALSE \in BOOLEAN
    OBVIOUS
  <2> HIDE DEF nb
  <2>4. nbr' \in [Arc -> Neighbor] /\ Neighbors'
    BY <1>1, <2>1, <2>2, <2>3, OneNeighbor
  <2> QED
    BY <2>2, <2>4 DEF RequestTimer, IInv, TypeOK, FiniteQueues
<1>3. CASE nb.req # {}
  <2>1. link' = [link EXCEPT ![a] = Append(@, Request(nb))] /\ UNCHANGED <<nbr, lsdb>>
    BY <1>3 DEF RequestTimer
  <2>2. link' \in [Arc -> Seq(Packet)]
    BY <1>1, <2>1, RequestPacket, Sending DEF IInv
  <2> QED
    BY <2>1, <2>2 DEF RequestTimer, IInv, TypeOK, FiniteQueues, Neighbors
<1> QED
  BY <1>2, <1>3

\* Serving a request leaves the invariant.
LEMMA RequestServed ==
  ASSUME IInv, NEW a \in Arc, RecvLSR(a)
  PROVE  IInv'
<1> DEFINE me == Back(a)
           db == lsdb[me[1]]
           asked == IF nbr[me].state \in Synchronizing THEN Head(link[a]).ids ELSE {}
           found == {x \in asked : db[x].seq > 0}
<1>1. me \in Arc /\ Arrives(a, "lsr") /\ link[a] # <<>>
  BY Ends DEF RecvLSR, Arrives
<1>2. db \in [Router -> LSA] /\ updateLSA[me] \in Queues
  BY <1>1, OneArc
<1>3. asked \in SUBSET Router
  BY <1>1, Arriving, Kinds DEF IInv
<1>4. PICK served \in SUBSET found :
        updateLSA' = [updateLSA EXCEPT ![me] = Queue(@, {db[x] : x \in served})]
  BY DEF RecvLSR
<1>5. Answer(a, <<>>) /\ unhandled' \in BOOLEAN
        /\ UNCHANGED <<nbr, lsdb, lsTimer, losses, failures>>
  BY DEF RecvLSR
<1>6. served \in SUBSET Router
  BY <1>3, <1>4
<1> HIDE DEF me, db
<1>7. Queue(updateLSA[me], {db[x] : x \in served}) \in Queues
  BY <1>2, <1>6, SomeLSAs, QueueStays
<1>8. updateLSA' \in [Arc -> Queues]
  BY <1>4, <1>7 DEF IInv, FiniteQueues
<1>9. updateLSA' \in [Arc -> SUBSET LSA]
  BY <1>8 DEF Queues
<1>10. link' \in [Arc -> Seq(Packet)]
  <2>1. <<>> \in Seq(Packet)
    OBVIOUS
  <2> QED
    BY <1>1, <1>5, <2>1, Answering DEF IInv
<1> QED
  BY <1>5, <1>8, <1>9, <1>10 DEF IInv, TypeOK, FiniteQueues, Neighbors

\* The flood timer empties a queue in some order.
LEMMA QueueSent ==
  ASSUME IInv, NEW a \in Arc, FloodTimer(a)
  PROVE  IInv'
<1>1. updateLSA[a] \in SUBSET LSA /\ Cardinality(updateLSA[a]) \in Nat
  BY OneArc, FS_CardinalityType DEF Queues
<1>2. PICK lsas \in SetToSeqs(updateLSA[a]) :
        link' = [link EXCEPT ![a] = @ \o [i \in 1..Len(lsas) |-> Update(lsas[i])]]
  BY DEF FloodTimer
<1>3. lsas \in Seq(LSA)
  BY <1>1, <1>2 DEF SetToSeqs
<1> DEFINE updates == [i \in 1..Len(lsas) |-> Update(lsas[i])]
<1>4. updates \in Seq(Packet)
  <2>1. Len(lsas) \in Nat /\ \A i \in 1..Len(lsas) : lsas[i] \in LSA
    BY <1>3
  <2>2. \A i \in 1..Len(lsas) : Update(lsas[i]) \in Packet
    BY <2>1, UpdatePacket
  <2> QED
    BY <2>1, <2>2
<1> HIDE DEF updates
<1>5. link[a] \o updates \in Seq(Packet)
  BY <1>4, OneArc
<1>6. link' \in [Arc -> Seq(Packet)]
  BY <1>2, <1>5 DEF IInv, TypeOK, updates
<1>7. {} \in Queues
  BY FS_EmptySet DEF Queues
<1>8. updateLSA' \in [Arc -> Queues] /\ updateLSA' \in [Arc -> SUBSET LSA]
  BY <1>7 DEF FloodTimer, IInv, FiniteQueues, TypeOK
<1> QED
  BY <1>6, <1>8 DEF FloodTimer, IInv, TypeOK, FiniteQueues, Neighbors

----------------------------------------------------------------------------
(* Flooding *)

\* What storing an LSA leaves: an LSA of the same router, with either number.
LEMMA Stored ==
  ASSUME NEW old \in LSA, NEW l \in LSA
  PROVE  install(old, l) \in LSA /\ install(old, l).seq \in {old.seq, l.seq}
BY DEF install

\* An LSA takes away the requests it answers, so those left still ask for
\* newer instances than a database that has stored it.
LEMMA LSAAnswers ==
  ASSUME NEW a \in Arc, NEW nb, Good(a, nb), NEW l \in LSA,
         NEW db \in [Router -> LSA], NEW db2 \in [Router -> LSA],
         Newer(a, nb.req, db),
         \A x \in Router \ {a[1]} :
           db2[x].seq = db[x].seq \/ (x = l.adv /\ db2[x].seq = l.seq)
  PROVE  Good(a, Answered(nb, l)) /\ Newer(a, Answered(nb, l).req, db2)
<1> DEFINE left == {q \in nb.req : q.adv = l.adv => l.seq < q.seq}
           n == Answered(nb, l)
<1>1. nb \in Neighbor /\ left \in SUBSET Header /\ left \subseteq nb.req
  BY DEF Good, Neighbor
<1>2. \A h \in left : h \in Header /\ (h.adv = l.adv => l.seq < h.seq)
  BY <1>1
<1>3. Newer(a, left, db2)
  <2> SUFFICES ASSUME NEW h \in left, h.adv # a[1]
               PROVE  db2[h.adv].seq < h.seq
    BY DEF Newer
  <2>1. h.adv \in Router /\ db[h.adv].seq < h.seq
    BY <1>1, <1>2 DEF Newer, Header
  <2> QED
    BY <1>2, <2>1
<1>4. CASE nb.state \notin {"Exchange", "Loading"} \/ left = nb.req
  <2>1. n = nb /\ left = nb.req
    BY <1>4 DEF Answered, Good
  <2> QED
    BY <1>3, <2>1
<1>5. CASE nb.state \in {"Exchange", "Loading"} /\ left # nb.req
  <2> DEFINE st == IF nb.state = "Loading" /\ left = {} THEN "Full" ELSE nb.state
  <2>1. n = [nb EXCEPT !.req = left, !.state = st]
    BY <1>1, <1>5 DEF Answered, Neighbor
  <2>2. /\ st \in State /\ st \in Synchronizing /\ nb.state \in Synchronizing
        /\ left # {} => st \in {"Exchange", "Loading"}
    BY <1>5 DEF State, Synchronizing
  <2> HIDE DEF st, left, n
  <2>3. n \in Neighbor /\ n.req = left /\ n.state = st /\ n.master = nb.master
    BY <1>1, <2>1, <2>2 DEF Neighbor
  <2>4. Good(a, n)
    BY <2>2, <2>3 DEF Good
  <2> QED
    BY <1>3, <2>3, <2>4 DEF n
<1> QED
  BY <1>4, <1>5

\* The queues after flooding an LSA.
LEMMA QueuedStays ==
  ASSUME IInv, NEW r \in Router, NEW l \in LSA, NEW a
  PROVE  Queued(r, l, a) \in [Arc -> Queues]
<1>1. \A b \in Arc : updateLSA[b] \in Queues /\ Queue(updateLSA[b], {l}) \in Queues
  BY OneArc, OneLSA, QueueStays
<1> QED
  BY <1>1 DEF Queued

\* Every structure is good after a step that floods an LSA and stores it at
\* one router only.
LEMMA AllNeighbors ==
  ASSUME IInv, NEW r \in Router, NEW l \in LSA,
         lsdb' \in [Router -> [Router -> LSA]],
         \A x \in Router \ {r} : lsdb'[x] = lsdb[x],
         \A x \in Router \ {r} : \/ lsdb'[r][x].seq = lsdb[r][x].seq
                                 \/ x = l.adv /\ lsdb'[r][x].seq = l.seq,
         DOMAIN nbr' = Arc, nbr' = [b \in Arc |-> nbr'[b]],
         \A b \in Arc : IF b[1] # r THEN nbr'[b] = nbr[b]
                        ELSE \/ nbr'[b] = Answered(nbr[b], l)
                             \/ \E v \in BOOLEAN :
                                  nbr'[b] = [Answered(nbr[b], l) EXCEPT !.reqTimer = v]
  PROVE  nbr' \in [Arc -> Neighbor] /\ Neighbors'
<1>1. ASSUME NEW b \in Arc
      PROVE  Good(b, nbr'[b]) /\ Newer(b, nbr'[b].req, lsdb'[b[1]])
  <2>1. b[1] \in Router /\ Good(b, nbr[b]) /\ Newer(b, nbr[b].req, lsdb[b[1]])
          /\ lsdb[b[1]] \in [Router -> LSA]
    BY Ends, OneArc
  <2>2. CASE b[1] # r
    BY <2>1, <2>2
  <2>3. CASE b[1] = r
    <3> DEFINE n == Answered(nbr[b], l)
    <3>1. lsdb'[r] \in [Router -> LSA]
      OBVIOUS
    <3> DEFINE db == lsdb[r]
               db2 == lsdb'[r]
    <3>4. db \in [Router -> LSA] /\ db2 \in [Router -> LSA] /\ Newer(b, nbr[b].req, db)
      BY <2>1, <2>3, <3>1
    <3>5. \A x \in Router \ {b[1]} :
            db2[x].seq = db[x].seq \/ (x = l.adv /\ db2[x].seq = l.seq)
      BY <2>3
    <3> HIDE DEF db, db2
    <3>6. Good(b, n) /\ Newer(b, n.req, db2)
      BY <2>1, <3>4, <3>5, LSAAnswers
    <3>2. Good(b, n) /\ Newer(b, n.req, lsdb'[r])
      BY <3>6 DEF db2
    <3> HIDE DEF n
    <3>3. \A v \in BOOLEAN : /\ Good(b, [n EXCEPT !.reqTimer = v])
                             /\ [n EXCEPT !.reqTimer = v].req = n.req
      BY <3>2 DEF Good, Neighbor
    <3> QED
      BY <2>3, <3>2, <3>3 DEF n
  <2> QED
    BY <2>2, <2>3
<1>2. \A b \in Arc : nbr'[b] \in Neighbor
  BY <1>1 DEF Good
<1> QED
  BY <1>1, <1>2 DEF Neighbors

\* Originating an LSA leaves the invariant.
LEMMA Originated ==
  ASSUME IInv, NEW r \in Router, ScheduleLSDB(r)
  PROVE  IInv'
<1> DEFINE l == OwnLSA(r)
<1>1. lsdb[r] \in [Router -> LSA] /\ lsdb[r][r] \in LSA
  BY DEF IInv, TypeOK
<1>2. l \in LSA /\ l.adv = r
  <2>1. lsdb[r][r].seq + 1 \in Nat
    BY <1>1 DEF LSA
  <2>2. {a[2] : a \in {b \in From(r) : nbr[b].state = "Full"}} \in SUBSET Router
    BY Ends DEF From
  <2> QED
    BY <2>1, <2>2 DEF OwnLSA, LSA
<1>3. /\ nbr' = Flooded(r, l)
      /\ updateLSA' = Queued(r, l, <<r, r>>)
      /\ lsdb' = [lsdb EXCEPT ![r][r] = install(@, l)]
      /\ lsTimer' = [lsTimer EXCEPT ![r] = LoadingEnds(r, l)]
      /\ UNCHANGED <<link, losses, failures, unhandled>>
  BY DEF ScheduleLSDB
<1> HIDE DEF l
<1>4. install(lsdb[r][r], l) \in LSA
  BY <1>1, <1>2, Stored
<1>5. lsdb' \in [Router -> [Router -> LSA]]
        /\ \A x \in Router \ {r} : lsdb'[x] = lsdb[x] /\ lsdb'[r][x] = lsdb[r][x]
  BY <1>1, <1>3, <1>4 DEF IInv, TypeOK
<1>6. /\ DOMAIN nbr' = Arc /\ nbr' = [b \in Arc |-> nbr'[b]]
      /\ \A b \in Arc : IF b[1] # r THEN nbr'[b] = nbr[b]
                        ELSE nbr'[b] = Answered(nbr[b], l)
  BY <1>3 DEF Flooded
<1>7. nbr' \in [Arc -> Neighbor] /\ Neighbors'
  BY <1>2, <1>5, <1>6, AllNeighbors
<1>8. updateLSA' \in [Arc -> Queues]
  BY <1>2, <1>3, QueuedStays
<1>9. updateLSA' \in [Arc -> SUBSET LSA]
  BY <1>8 DEF Queues
<1>10. lsTimer' \in [Router -> BOOLEAN]
  <2>1. LoadingEnds(r, l) \in BOOLEAN
    BY DEF LoadingEnds
  <2> QED
    BY <1>3, <2>1 DEF IInv, TypeOK
<1> QED
  BY <1>3, <1>5, <1>7, <1>8, <1>9, <1>10 DEF IInv, TypeOK, FiniteQueues

\* An update that is discarded leaves the invariant.
LEMMA UpdateDiscarded ==
  ASSUME IInv, NEW a \in Arc, RecvLSUDiscarded(a)
  PROVE  IInv'
<1>1. link[a] # <<>> /\ Answer(a, <<>>) /\ <<>> \in Seq(Packet)
  BY DEF RecvLSUDiscarded, Arrives
<1>2. link' \in [Arc -> Seq(Packet)]
  BY <1>1, Answering DEF IInv
<1>3. unhandled' \in BOOLEAN
  BY DEF RecvLSUDiscarded
<1> QED
  BY <1>2, <1>3 DEF RecvLSUDiscarded, IInv, TypeOK, FiniteQueues, Neighbors

\* An update that is installed leaves the invariant.
LEMMA UpdateInstalled ==
  ASSUME IInv, NEW a \in Arc, RecvLSUInstalled(a)
  PROVE  IInv'
<1> DEFINE me == Back(a)
           r == me[1]
           l == Head(link[a]).lsa
           nb == Answered(nbr[me], l)
           self == l.adv = r
           stored == IF self THEN [install(lsdb[r][l.adv], l) EXCEPT !.seq = l.seq + 1]
                     ELSE install(lsdb[r][l.adv], l)
<1>1. /\ me \in Arc /\ r \in Router /\ Arrives(a, "lsu") /\ link[a] # <<>>
  BY Ends DEF RecvLSUInstalled, Arrives
<1>2. l \in LSA /\ l.adv \in Router /\ l.seq \in Nat
  BY <1>1, Arriving, Kinds DEF IInv, LSA
<1>3. lsdb[r] \in [Router -> LSA] /\ lsdb[r][l.adv] \in LSA
  BY <1>1, <1>2 DEF IInv, TypeOK
<1>4. stored \in LSA
        /\ (~self => stored.seq \in {lsdb[r][l.adv].seq, l.seq})
  <2>1. install(lsdb[r][l.adv], l) \in LSA
          /\ install(lsdb[r][l.adv], l).seq \in {lsdb[r][l.adv].seq, l.seq}
    BY <1>2, <1>3, Stored
  <2> DEFINE k == install(lsdb[r][l.adv], l)
  <2>2. l.seq + 1 \in Nat
    BY <1>2
  <2> HIDE DEF k, l
  <2>3. k \in LSA => [k EXCEPT !.seq = l.seq + 1] \in LSA
    BY <2>2 DEF LSA
  <2> QED
    BY <2>1, <2>3 DEF k
<1>5. PICK next \in BOOLEAN :
        /\ nbr' = [Flooded(r, l) EXCEPT ![me].reqTimer = nb.req # {} /\ (@ \/ next)]
        /\ Answer(a, IF nb.req # {} /\ next THEN <<Request(nb)>> ELSE <<>>)
  BY DEF RecvLSUInstalled, isRequestedLSAReceived
<1>6. /\ updateLSA' = Queued(r, l, me)
      /\ lsdb' = [lsdb EXCEPT ![r][l.adv] = stored]
      /\ lsTimer' = [lsTimer EXCEPT ![r] = @ \/ self \/ LoadingEnds(r, l)]
      /\ UNCHANGED <<losses, failures, unhandled>>
  BY DEF RecvLSUInstalled
<1>7. nb \in Neighbor
  <2>1. Good(me, nb)
    BY <1>1, <1>2, <1>3, OneArc, LSAAnswers
  <2> QED
    BY <2>1 DEF Good
<1>8. lsdb' \in [Router -> [Router -> LSA]]
        /\ (\A x \in Router \ {r} : lsdb'[x] = lsdb[x])
        /\ \A x \in Router \ {r} : \/ lsdb'[r][x].seq = lsdb[r][x].seq
                                   \/ x = l.adv /\ lsdb'[r][x].seq = l.seq
  <2> HIDE DEF stored, l, me
  <2>1. lsdb' \in [Router -> [Router -> LSA]]
          /\ (\A x \in Router \ {r} : lsdb'[x] = lsdb[x])
          /\ \A x \in Router : lsdb'[r][x] = IF x = l.adv THEN stored ELSE lsdb[r][x]
    BY <1>1, <1>2, <1>3, <1>4, <1>6 DEF IInv, TypeOK
  <2> QED
    BY <1>4, <2>1
<1>9. /\ DOMAIN nbr' = Arc /\ nbr' = [b \in Arc |-> nbr'[b]]
      /\ \A b \in Arc : IF b[1] # r THEN nbr'[b] = nbr[b]
                        ELSE \/ nbr'[b] = Answered(nbr[b], l)
                             \/ \E v \in BOOLEAN :
                                  nbr'[b] = [Answered(nbr[b], l) EXCEPT !.reqTimer = v]
  <2> DEFINE v == nb.req # {} /\ (nb.reqTimer \/ next)
  <2>1. v \in BOOLEAN
    BY <1>7 DEF Neighbor
  <2>2. nbr' = [Flooded(r, l) EXCEPT ![me] = [nb EXCEPT !.reqTimer = v]]
    BY <1>1, <1>5 DEF Flooded
  <2> HIDE DEF v, l
  <2> QED
    BY <1>1, <2>1, <2>2 DEF Flooded
<1>10. nbr' \in [Arc -> Neighbor] /\ Neighbors'
  <2> HIDE DEF l, r, nb, stored, self
  <2> QED
    BY <1>1, <1>2, <1>8, <1>9, AllNeighbors
<1>11. updateLSA' \in [Arc -> Queues]
  BY <1>1, <1>2, <1>6, QueuedStays
<1>12. updateLSA' \in [Arc -> SUBSET LSA]
  BY <1>11 DEF Queues
<1>13. lsTimer' \in [Router -> BOOLEAN]
  BY <1>1, <1>6 DEF IInv, TypeOK
<1>14. link' \in [Arc -> Seq(Packet)]
  <2> HIDE DEF nb
  <2>1. <<>> \in Seq(Packet) /\ <<Request(nb)>> \in Seq(Packet)
    BY <1>7, RequestPacket
  <2>2. (IF nb.req # {} /\ next THEN <<Request(nb)>> ELSE <<>>) \in Seq(Packet)
    BY <2>1
  <2> QED
    BY <1>1, <1>5, <2>2, Answering DEF IInv
<1> QED
  BY <1>6, <1>8, <1>10, <1>11, <1>12, <1>13, <1>14 DEF IInv, TypeOK, FiniteQueues

\* An update known already leaves the invariant.
LEMMA UpdateKnown ==
  ASSUME IInv, NEW a \in Arc, RecvLSUKnown(a)
  PROVE  IInv'
<1> DEFINE me == Back(a)
           r == me[1]
           l == Head(link[a]).lsa
           nb == nbr[me]
           bad == \E q \in nb.req : q.adv = l.adv
           loaded == ~bad /\ nb.req = {} /\ nb.state = "Loading"
<1>1. /\ me \in Arc /\ r \in Router /\ link[a] # <<>>
      /\ nb \in Neighbor /\ Good(me, nb) /\ Newer(me, nb.req, lsdb[me[1]])
  BY Ends, OneArc DEF RecvLSUKnown, Arrives
<1>2. PICK next \in BOOLEAN :
        /\ nbr' = [nbr EXCEPT ![me] =
             [nb EXCEPT !.reqTimer = IF bad THEN @ ELSE nb.req # {} /\ (@ \/ next),
                        !.state = IF loaded THEN "Full" ELSE @]]
        /\ Answer(a, IF ~bad /\ nb.req # {} /\ next THEN <<Request(nb)>> ELSE <<>>)
  BY DEF RecvLSUKnown, isRequestedLSAReceived
<1>3. /\ lsTimer' = [lsTimer EXCEPT ![r] = @ \/ loaded]
      /\ unhandled' \in BOOLEAN
      /\ UNCHANGED <<lsdb, updateLSA, losses, failures>>
  BY DEF RecvLSUKnown
<1> HIDE DEF bad
<1> DEFINE rt == IF bad THEN nb.reqTimer ELSE nb.req # {} /\ (nb.reqTimer \/ next)
           st == IF loaded THEN "Full" ELSE nb.state
           n == [nb EXCEPT !.reqTimer = rt, !.state = st]
<1>4. /\ rt \in BOOLEAN /\ st \in State
      /\ nb.req # {} => st = nb.state
      /\ st \in Synchronizing => nb.state \in Synchronizing
  BY <1>1 DEF Neighbor, State, Synchronizing
<1>5. nbr' = [nbr EXCEPT ![me] = n]
  BY <1>1, <1>2 DEF Neighbor
<1> HIDE DEF rt, st, nb
<1>6. n \in Neighbor /\ n.req = nb.req /\ n.master = nb.master /\ n.state = st
  BY <1>1, <1>4 DEF Neighbor
<1>7. Good(me, n)
  BY <1>1, <1>4, <1>6 DEF Good
<1> HIDE DEF n
<1>8. nbr' \in [Arc -> Neighbor] /\ Neighbors'
  BY <1>1, <1>3, <1>5, <1>6, <1>7, OneNeighbor
<1>9. link' \in [Arc -> Seq(Packet)]
  <2>1. <<>> \in Seq(Packet) /\ <<Request(nb)>> \in Seq(Packet)
    BY <1>1, RequestPacket
  <2>2. (IF ~bad /\ nb.req # {} /\ next THEN <<Request(nb)>> ELSE <<>>) \in Seq(Packet)
    BY <2>1
  <2> QED
    BY <1>1, <1>2, <2>2, Answering DEF IInv
<1>10. lsTimer' \in [Router -> BOOLEAN]
  BY <1>1, <1>3 DEF IInv, TypeOK
<1> QED
  BY <1>3, <1>8, <1>9, <1>10 DEF IInv, TypeOK, FiniteQueues

\* A loss leaves the invariant.
LEMMA PacketLost ==
  ASSUME IInv, NEW a \in Arc, Lose(a)
  PROVE  IInv'
<1>1. link[a] # <<>> /\ Answer(a, <<>>) /\ <<>> \in Seq(Packet)
  BY DEF Lose, Arrives
<1>2. link' \in [Arc -> Seq(Packet)]
  BY <1>1, Answering DEF IInv
<1>3. losses' \in Nat /\ failures' \in Nat
  BY DEF Lose, IInv, TypeOK
<1> QED
  BY <1>2, <1>3 DEF Lose, IInv, TypeOK, FiniteQueues, Neighbors

----------------------------------------------------------------------------
(* The invariant *)

\* The structure of an adjacency that is there from the start.
LEMMA EstablishedGood ==
  ASSUME NEW a \in Arc
  PROVE  Good(a, Established(a)) /\ Established(a).req = {}
         /\ Good(a, NewNeighbor) /\ NewNeighbor.req = {}
<1>1. ASSUME NEW f \in BOOLEAN
      PROVE  [state |-> "Down", master |-> f, seq |-> 0, more |-> f,
              lastrecv |-> {}, summary |-> {}, req |-> {}, ddTimer |-> f,
              reqTimer |-> f, done |-> f] \in Neighbor
  BY DEF Neighbor, State
<1>2. FALSE \in BOOLEAN
  OBVIOUS
<1>3. NewNeighbor \in Neighbor /\ NewNeighbor.req = {} /\ NewNeighbor.state = "Down"
  BY <1>1, <1>2 DEF NewNeighbor
<1>4. Good(a, NewNeighbor)
  BY <1>3, Starting DEF Synchronizing
<1> DEFINE master == a[1] > a[2]
           start == IF master THEN DDStart[a] ELSE DDStart[Back(a)]
           seq == start + (IF master THEN 2 ELSE 1)
           slave == ~master
           more == FALSE
           last == {[seq |-> start + 1, flags |-> [init |-> more, more |-> more, master |-> slave]]}
<1>5. master \in BOOLEAN /\ slave \in BOOLEAN /\ start \in Nat /\ seq \in Nat
        /\ start + 1 \in Nat /\ more \in BOOLEAN
  BY Ends, NumberAssumption
<1>6. Established(a) = [NewNeighbor EXCEPT !.state = "Full", !.master = master, !.seq = seq,
                                           !.lastrecv = last]
  BY DEF Established
<1> HIDE DEF slave, more, seq, start
<1>7. last \in SUBSET DDId
  BY <1>5 DEF DDId, Flags
<1>8. (a[1] > a[2]) <=> master
  OBVIOUS
<1> HIDE DEF master, last
<1>9. /\ Established(a) \in Neighbor /\ Established(a).req = {}
      /\ Established(a).master = master /\ Established(a).state = "Full"
  BY <1>3, <1>5, <1>6, <1>7 DEF Neighbor, State
<1>10. Good(a, Established(a))
  BY <1>8, <1>9 DEF Good
<1> QED
  BY <1>3, <1>4, <1>9, <1>10

\* The invariant holds at the start.
LEMMA InitInv == Init => IInv
<1> SUFFICES ASSUME Init
             PROVE  IInv
  OBVIOUS
<1>1. \A a \in Arc : Good(a, nbr[a]) /\ nbr[a].req = {}
  BY EstablishedGood DEF Init
<1>2. nbr \in [Arc -> Neighbor] /\ Neighbors
  <2>1. \A a \in Arc : nbr[a] \in Neighbor
    BY <1>1 DEF Good
  <2>2. Neighbors
    BY <1>1, NothingAsked DEF Neighbors
  <2> QED
    BY <2>1, <2>2 DEF Init
<1>3. lsdb \in [Router -> [Router -> LSA]]
  <2>1. \A x \in Router : NoLSA(x) \in LSA
    BY DEF NoLSA, LSA
  <2>2. \A x \in Router : Peers(x) \in SUBSET Router
    BY TopologyAssumption, Ends DEF Peers
  <2>3. \A x \in Router : [adv |-> x, seq |-> 2, links |-> Peers(x)] \in LSA
    BY <2>2 DEF LSA
  <2> QED
    BY <2>1, <2>3 DEF Init
<1>4. {} \in Queues /\ {} \in SUBSET LSA
  BY FS_EmptySet DEF Queues
<1>5. <<>> \in Seq(Packet)
  OBVIOUS
<1> QED
  BY <1>2, <1>3, <1>4, <1>5 DEF Init, IInv, TypeOK, FiniteQueues

\* Every step of the program keeps it.
LEMMA NextInv == IInv /\ [Next]_vars => IInv'
<1> SUFFICES ASSUME IInv, [Next]_vars
             PROVE  IInv'
  OBVIOUS
<1>1. ASSUME NEW a \in Arc, Receive(a)
      PROVE  IInv'
  BY <1>1, HelloReceived, DDNegotiated, DDUnused, DDExchanged, RequestServed,
     UpdateDiscarded, UpdateInstalled, UpdateKnown DEF Receive
<1>2. ASSUME NEW a \in Arc,
             \/ HelloTimer(a)   \/ DDTimer(a)   \/ ExchangeDone(a) \/ RequestTimer(a)
             \/ FloodTimer(a) \/ InactivityTimer(a) \/ Lose(a)
      PROVE  IInv'
  BY <1>2, HelloSent, DDSentAgain, ExchangeEnded, Requested, QueueSent, NeighborLost,
     PacketLost
<1>3. ASSUME NEW r \in Router, ScheduleLSDB(r)
      PROVE  IInv'
  BY <1>3, Originated
<1>4. CASE UNCHANGED vars
  BY <1>4 DEF vars, IInv, TypeOK, FiniteQueues, Neighbors
<1> QED
  BY <1>1, <1>2, <1>3, <1>4 DEF Next

\* The invariant holds in every reachable state.
THEOREM Invariant == Spec => []IInv
BY InitInv, NextInv, PTL DEF Spec

\* The variables keep their types (the handlers of src/.../OSPF).
THEOREM TypeCorrect == Spec => []TypeOK
<1>1. IInv => TypeOK
  BY DEF IInv
<1> QED
  BY <1>1, Invariant, PTL

\* The router of the higher identifier is the master of every exchange
\* (ospf_process_dd_in_exstart_state).
THEOREM RolesById == Spec => []RoleById
<1>1. IInv => RoleById
  BY DEF IInv, Neighbors, Good, RoleById
<1> QED
  BY <1>1, Invariant, PTL

\* A request left in a list is for an instance newer than the database has,
\* and a Full neighbour has none (ospf_lsa_flood, ospf_process_DD).
THEOREM RequestsNewer == Spec => []RequestsAreNewer
<1>1. IInv => RequestsAreNewer
  BY DEF IInv, Neighbors, Good, Newer, RequestsAreNewer
<1> QED
  BY <1>1, Invariant, PTL

=============================================================================
