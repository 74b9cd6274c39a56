-------------------------------- MODULE AODV --------------------------------
(***************************************************************************)
(* Ad hoc on-demand distance vector routing (src/.../AODV) on a set of     *)
(* nodes joined by radio links that may break and come back.  A packet     *)
(* without a route waits in the FIFO of its node while route requests      *)
(* (RREQ) flood the network in growing rings; the target, or a node that   *)
(* has a route to it, sends a route reply (RREP) back along the reverse    *)
(* path; packets the MAC layer cannot deliver lead to route errors (RERR). *)
(*                                                                         *)
(* Time is abstracted.  The timer of a route entry is armed for its        *)
(* Lifetime and re-armed when the Lifetime has grown, so an entry exists   *)
(* exactly while Lifetime > now: RouteTimeout deletes it at any moment,    *)
(* and the updates of Lifetime change nothing here.  A RREQ timer that a   *)
(* later RREQ made stale returns at once, so RetryRREQ is the latest one.  *)
(* What a handler sends for the current instant leaves in the same step.   *)
(***************************************************************************)
EXTENDS Integers, FiniteSets, FiniteSetsExt

CONSTANTS Node,
          Link,         \* pairs {m, n} of nodes that may hear each other
          Packet,       \* data packets the applications send
          Src, Dst,     \* functions: source and destination of a packet
          NoRoute, NoRequest,
          TtlStart,     \* AODV_TTL_START
          TtlIncrement, \* AODV_TTL_INCREMENT
          TtlThreshold, \* AODV_TTL_THRESHOLD
          NetDiameter,  \* AODV_NET_DIAMETER
          RreqRetries,  \* AODV_RREQ_RETRIES
          RerrLimit,    \* drops that cause no route error: 10; -1 for none
          Moving,       \* bound: links that may break and come back
          MaxMoves,     \* bound: how often they do
          Expiring,     \* bound: <<n, d>> such that an entry of n for d
                        \* may expire, once
          Greeting      \* bound: nodes that may send a hello, once

ASSUME TopologyAssumption ==
  /\ \A l \in Link : \E m, n \in Node : m # n /\ l = {m, n}
  /\ Src \in [Packet -> Node] /\ Dst \in [Packet -> Node]
  /\ \A p \in Packet : Src[p] # Dst[p]

ASSUME NumberAssumption ==
  /\ TtlStart \in Nat \ {0} /\ TtlIncrement \in Nat
  /\ TtlThreshold \in Nat /\ NetDiameter \in Nat \ {0, 1}
  /\ RreqRetries \in Nat /\ RerrLimit \in Nat \cup {-1}
  /\ Moving \subseteq Link /\ MaxMoves \in Nat
  /\ Expiring \subseteq Node \X Node /\ Greeting \subseteq Node

VARIABLES
  nSequenceNumber, \* own sequence number of each node
  nRREQId,         \* the RREQ number shared by all nodes
  routeTable,      \* routeTable[n][d]: entry of n for destination d
  rreqSentTable,   \* rreqSentTable[n][d]: the request of n for d
  rreqSeenTable,   \* numbers of the RREQs a node has seen
  fifo,            \* fifo[n][d]: packets of n waiting for a route to d
  nRerrCount,      \* drops counted towards the next route error
  air,             \* copies of messages in flight, one per receiver
  up,              \* links that work
  moves, greeted,  \* link changes and senders of hellos so far
  offered,         \* packets the applications have sent
  delivered,       \* packets that reached their destination
  dropped,         \* packets freed on the way
  expired          \* history: <<n, d>> such that n deleted its entry for d

node == <<nSequenceNumber, nRREQId, routeTable, rreqSentTable, rreqSeenTable,
          fifo, nRerrCount>>
vars == <<nSequenceNumber, nRREQId, routeTable, rreqSentTable, rreqSeenTable,
          fifo, nRerrCount, air, up, moves, greeted, offered, delivered,
          dropped, expired>>

Entry == [seq : Nat, known : BOOLEAN, hops : Nat, next : Node, valid : BOOLEAN]
Request == [ttl : Nat, times : Nat]

Rreq == [type : {"RREQ"}, from : Node, to : Node, ttl : Nat, id : Nat,
         orig : Node, seq : Nat, hops : Nat, dest : Node]
Rrep == [type : {"RREP"}, from : Node, to : Node, ttl : Nat, hello : BOOLEAN,
         orig : Node, seq : Nat, hops : Nat, dest : Node]
Rerr == [type : {"RERR"}, from : Node, to : Node, ttl : Nat,
         dests : SUBSET Node]
Data == [type : {"DATA"}, from : Node, to : Node, pkt : Packet]

Message == Rreq \cup Rrep \cup Rerr \cup Data

ASSUME NothingAssumption == NoRoute \notin Entry /\ NoRequest \notin Request

----------------------------------------------------------------------------
(* Sending.  A control packet leaves only with a TTL above 1, and IP takes *)
(* one from it on reception.  A broadcast is heard over the links that     *)
(* work when it is sent.                                                   *)

Unicast(m) == IF m.ttl > 1 THEN {m} ELSE {}

Broadcast(m) ==
  IF m.ttl > 1 THEN {[m EXCEPT !.to = k] : k \in {j \in Node : {m.from, j} \in up}}
               ELSE {}

\* Mutant: read after forwarding has overwritten it.
LastAddress_Own(m) == m.to

\* The node a control packet comes from.
LastAddress(m) == m.from

DataTo(n, table, p) ==
  [type |-> "DATA", from |-> n, to |-> table[Dst[p]].next, pkt |-> p]

----------------------------------------------------------------------------
(* Route table *)

Replaces(e, s, h) ==
  \/ ~e.known
  \/ e.seq < s
  \/ e.seq = s /\ (h + 1 < e.hops \/ ~e.valid)

\* Mutant: hops counted from the neighbour.
NewEntry_Neighbour(s, h, next) ==
  [seq |-> s, known |-> s # 0, hops |-> h - 1, next |-> next, valid |-> TRUE]

NewEntry(s, h, next) ==
  [seq |-> s, known |-> s # 0, hops |-> h, next |-> next, valid |-> TRUE]

\* An entry keeps the next hop it was created with.
UpdateEntry(e, s, h, next) ==
  [seq |-> s, known |-> e.known \/ s # 0, hops |-> h, next |-> e.next,
   valid |-> TRUE]

InsertInRouteTable(table, d, s, h, next) ==
  [table EXCEPT ![d] = IF @ = NoRoute THEN NewEntry(s, h, next)
                       ELSE IF Replaces(@, s, h) THEN UpdateEntry(@, s, h, next)
                       ELSE @]

CheckRouteFound(table, d) == table[d] # NoRoute

\* The packets a node releases once table holds a route to their target.
Released(n, table) == UNION {fifo[n][d] : d \in {e \in Node : CheckRouteFound(table, e)}}

\* Mutant: the queue is not emptied.
Kept_Queue(n, table) == fifo[n]

Kept(n, table) ==
  [d \in Node |-> IF CheckRouteFound(table, d) THEN {} ELSE fifo[n][d]]

TransmitFIFOBuffer(n, table) == {DataTo(n, table, p) : p \in Released(n, table)}

\* The entries through u, marked invalid.
Invalidate(table, D) ==
  [d \in Node |-> IF d \in D THEN [table[d] EXCEPT !.valid = FALSE] ELSE table[d]]

Through(table, u) == {d \in Node : CheckRouteFound(table, d) /\ table[d].next = u}

----------------------------------------------------------------------------
(* Route requests *)

fnIncreaseTTL(n, d) ==
  LET r == rreqSentTable[n][d]
  IN  IF r = NoRequest THEN TtlStart
      ELSE IF r.ttl >= TtlThreshold THEN NetDiameter
      ELSE IF r.ttl + TtlIncrement > TtlThreshold THEN TtlThreshold
      ELSE r.ttl + TtlIncrement

InRREQSentTable(r, ttl) ==
  LET times == IF r = NoRequest THEN 1 ELSE r.times
  IN  [ttl |-> ttl, times |-> IF ttl = NetDiameter THEN times + 1 ELSE times]

\* The RREQ of n for d, and the copies of it that leave.
RreqPacket(n, d, ttl) ==
  [type |-> "RREQ", from |-> n, to |-> n, ttl |-> ttl, id |-> nRREQId + 1,
   orig |-> n, seq |-> nSequenceNumber[n] + 1, hops |-> 0, dest |-> d]

\* What every new RREQ changes; t is the TTL kept in the sent table.
NewRREQ(n, d, t) ==
  /\ nSequenceNumber' = [nSequenceNumber EXCEPT ![n] = @ + 1]
  /\ nRREQId' = nRREQId + 1
  /\ rreqSeenTable' = [rreqSeenTable EXCEPT ![n] = @ \cup {nRREQId + 1}]
  /\ rreqSentTable' = [rreqSentTable EXCEPT ![n][d] = InRREQSentTable(@, t)]

----------------------------------------------------------------------------
(* Data packets.  in is the set of messages the event takes from the air.  *)

\* Mutant: the buffered packet starts no route discovery.
GeneralPacketProcessing_NoRequest(n, p, in) ==
  LET d == Dst[p]
  IN  IF CheckRouteFound(routeTable[n], d)
      THEN /\ air' = (air \ in) \cup {DataTo(n, routeTable[n], p)}
           /\ UNCHANGED node
      ELSE /\ fifo' = [fifo EXCEPT ![n][d] = @ \cup {p}]
           /\ air' = air \ in
           /\ UNCHANGED <<nSequenceNumber, nRREQId, routeTable, rreqSentTable,
                          rreqSeenTable, nRerrCount>>

\* A packet with a route leaves, its TTL set to the diameter again; without
\* one it waits, and the first to wait for its target starts a discovery.
GeneralPacketProcessing(n, p, in) ==
  LET d == Dst[p]
      t == fnIncreaseTTL(n, d) + 1
  IN  IF CheckRouteFound(routeTable[n], d)
      THEN /\ air' = (air \ in) \cup {DataTo(n, routeTable[n], p)}
           /\ UNCHANGED node
      ELSE /\ fifo' = [fifo EXCEPT ![n][d] = @ \cup {p}]
           /\ UNCHANGED <<routeTable, nRerrCount>>
           /\ IF fifo[n][d] # {}
              THEN /\ air' = air \ in
                   /\ UNCHANGED <<nSequenceNumber, nRREQId, rreqSentTable,
                                  rreqSeenTable>>
              ELSE /\ NewRREQ(n, d, t)
                   /\ air' = (air \ in) \cup Broadcast(RreqPacket(n, d, t + 1))

AppSend(p) ==
  /\ p \notin offered
  /\ offered' = offered \cup {p}
  /\ GeneralPacketProcessing(Src[p], p, {})
  /\ UNCHANGED <<up, moves, greeted, delivered, dropped, expired>>

Hears(m) == m \in air /\ {m.from, m.to} \in up

ReceiveData(m) ==
  /\ Hears(m) /\ m.type = "DATA"
  /\ IF m.to = Dst[m.pkt]
     THEN /\ delivered' = delivered \cup {m.pkt}
          /\ air' = air \ {m}
          /\ UNCHANGED node
     ELSE /\ GeneralPacketProcessing(m.to, m.pkt, {m})
          /\ UNCHANGED delivered
  /\ UNCHANGED <<up, moves, greeted, offered, dropped, expired>>

----------------------------------------------------------------------------
(* Control packets *)

\* The RREQ timer: nothing once the request is gone, the end of the
\* discovery after the retries, a RREQ with a larger ring otherwise.
RetryRREQ(n, d) ==
  LET t == fnIncreaseTTL(n, d)
  IN  /\ rreqSentTable[n][d] # NoRequest
      /\ IF rreqSentTable[n][d].times > RreqRetries
         THEN /\ rreqSentTable' = [rreqSentTable EXCEPT ![n][d] = NoRequest]
              /\ fifo' = [fifo EXCEPT ![n][d] = {}]
              /\ dropped' = dropped \cup fifo[n][d]
              /\ UNCHANGED <<nSequenceNumber, nRREQId, rreqSeenTable, air>>
         ELSE /\ NewRREQ(n, d, t)
              /\ air' = air \cup Broadcast(RreqPacket(n, d, t + 1))
              /\ UNCHANGED <<fifo, dropped>>
      /\ UNCHANGED <<routeTable, nRerrCount, up, moves, greeted, offered,
                     delivered, expired>>

\* ttl has been decremented by IP.
ForwardRREQ(n, m) ==
  IF m.ttl - 1 = 1 THEN {}
  ELSE Broadcast([m EXCEPT !.from = n, !.to = n, !.ttl = @ - 1, !.hops = @ + 1])

RrepPacket(n, to, ttl, orig, dest, s, h) ==
  [type |-> "RREP", from |-> n, to |-> to, ttl |-> ttl, hello |-> FALSE,
   orig |-> orig, seq |-> s, hops |-> h, dest |-> dest]

\* Mutant: the sequence number is incremented twice.
GenerateRREP_Twice(n, m) ==
  Unicast(RrepPacket(n, m.from, m.hops + 2, m.orig, m.dest,
                     nSequenceNumber[n] + 2, 1))

\* The target answers with a new sequence number.
GenerateRREP(n, m) ==
  Unicast(RrepPacket(n, m.from, m.hops + 2, m.orig, m.dest,
                     nSequenceNumber[n] + 1, 1))

\* A node that would answer with a route back through the asker passes the
\* request on.
GenerateRREPByIntermediate(n, m, e) ==
  IF e.next = m.from THEN ForwardRREQ(n, m)
  ELSE Unicast(RrepPacket(n, m.from, NetDiameter, m.orig, m.dest, e.seq, e.hops))

ProcessRREQ(m) ==
  LET n     == m.to
      table == InsertInRouteTable(routeTable[n], m.orig, m.seq, m.hops, LastAddress(m))
  IN  /\ Hears(m) /\ m.type = "RREQ"
      /\ IF m.id \in rreqSeenTable[n]
         THEN air' = air \ {m} /\ UNCHANGED node
         ELSE /\ rreqSeenTable' = [rreqSeenTable EXCEPT ![n] = @ \cup {m.id}]
              /\ routeTable' = [routeTable EXCEPT ![n] = table]
              /\ fifo' = [fifo EXCEPT ![n] = Kept(n, table)]
              /\ nSequenceNumber' = [nSequenceNumber EXCEPT ![n] =
                                       IF n = m.dest THEN @ + 1 ELSE @]
              /\ air' = (air \ {m}) \cup TransmitFIFOBuffer(n, table) \cup
                   (IF n = m.dest THEN GenerateRREP(n, m)
                    ELSE IF CheckRouteFound(table, m.dest)
                    THEN GenerateRREPByIntermediate(n, m, table[m.dest])
                    ELSE ForwardRREQ(n, m))
              /\ UNCHANGED <<nRREQId, rreqSentTable, nRerrCount>>
      /\ UNCHANGED <<up, moves, greeted, offered, delivered, dropped, expired>>

\* A hello is broadcast and never forwarded.
ForwardRREP(n, m, table) ==
  IF CheckRouteFound(table, m.orig) /\ ~m.hello
  THEN Unicast([m EXCEPT !.from = n, !.to = table[m.orig].next, !.ttl = @ - 1,
                         !.hops = @ + 1])
  ELSE {}

\* The reply about the node itself is ignored when it carries the very
\* address object of the node, which a copy need not be.
ProcessRREP(m) ==
  LET n     == m.to
      table == InsertInRouteTable(routeTable[n], m.dest, m.seq, m.hops, LastAddress(m))
  IN  /\ Hears(m) /\ m.type = "RREP"
      /\ \/ /\ n = m.dest
            /\ air' = air \ {m} /\ UNCHANGED node
         \/ /\ routeTable' = [routeTable EXCEPT ![n] = table]
            /\ fifo' = [fifo EXCEPT ![n] = Kept(n, table)]
            /\ rreqSentTable' =
                 IF n = m.orig THEN [rreqSentTable EXCEPT ![n][m.dest] = NoRequest]
                               ELSE rreqSentTable
            /\ air' = (air \ {m}) \cup TransmitFIFOBuffer(n, table) \cup
                      (IF n = m.orig THEN {} ELSE ForwardRREP(n, m, table))
            /\ UNCHANGED <<nSequenceNumber, nRREQId, rreqSeenTable, nRerrCount>>
      /\ UNCHANGED <<up, moves, greeted, offered, delivered, dropped, expired>>

TransmitHelloMessage(n) ==
  /\ n \in Greeting \ greeted
  /\ greeted' = greeted \cup {n}
  /\ \E d \in Node : CheckRouteFound(routeTable[n], d)
  /\ air' = air \cup Broadcast([RrepPacket(n, n, 2, n, n, nSequenceNumber[n], 0)
                                EXCEPT !.hello = TRUE])
  /\ UNCHANGED <<node, up, moves, offered, delivered, dropped, expired>>

----------------------------------------------------------------------------
(* Route errors and timeouts *)

RerrPacket(n, ttl, D) ==
  [type |-> "RERR", from |-> n, to |-> n, ttl |-> ttl, dests |-> D]

\* The route error of n when u cannot be reached: the new table, the copies.
GenerateRERR(n, u) ==
  LET D == Through(routeTable[n], u)
  IN  <<Invalidate(routeTable[n], D),
        IF D = {} THEN {} ELSE Broadcast(RerrPacket(n, NetDiameter, D))>>

\* The MAC layer gives up a packet; of a data packet it notifies AODV.
TransmissionFails(m) ==
  /\ m \in air /\ {m.from, m.to} \notin up
  /\ IF m.type = "DATA"
     THEN LET n     == m.from
              rerr  == nRerrCount[n] > RerrLimit
              error == GenerateRERR(n, m.to)
          IN  /\ dropped' = dropped \cup {m.pkt}
              /\ nRerrCount' = [nRerrCount EXCEPT ![n] = IF rerr THEN 2 ELSE @ + 1]
              /\ IF rerr THEN /\ routeTable' = [routeTable EXCEPT ![n] = error[1]]
                              /\ air' = (air \ {m}) \cup error[2]
                         ELSE air' = air \ {m} /\ UNCHANGED routeTable
     ELSE air' = air \ {m} /\ UNCHANGED <<dropped, nRerrCount, routeTable>>
  /\ UNCHANGED <<nSequenceNumber, nRREQId, rreqSentTable, rreqSeenTable, fifo,
                 up, moves, greeted, offered, delivered, expired>>

\* A node whose routes are hit passes the error on, as its own.
ProcessRERR(m) ==
  LET n == m.to
      D == m.dests \cap Through(routeTable[n], m.from)
  IN  /\ Hears(m) /\ m.type = "RERR"
      /\ routeTable' = [routeTable EXCEPT ![n] = Invalidate(@, D)]
      /\ air' = (air \ {m}) \cup
                (IF D = {} THEN {}
                 ELSE Broadcast([m EXCEPT !.from = n, !.to = n, !.ttl = @ - 1]))
      /\ UNCHANGED <<nSequenceNumber, nRREQId, rreqSentTable, rreqSeenTable,
                     fifo, nRerrCount, up, moves, greeted, offered, delivered,
                     dropped, expired>>

ActiveRouteTimeout(n, d) ==
  /\ CheckRouteFound(routeTable[n], d)
  /\ <<n, d>> \in Expiring \ expired
  /\ expired' = expired \cup {<<n, d>>}
  /\ routeTable' = [routeTable EXCEPT ![n][d] = NoRoute]
  /\ UNCHANGED <<nSequenceNumber, nRREQId, rreqSentTable, rreqSeenTable, fifo,
                 nRerrCount, air, up, moves, greeted, offered, delivered, dropped>>

\* The nodes move: a link breaks or comes back.
Move(l) ==
  /\ moves < MaxMoves
  /\ moves' = moves + 1
  /\ up' = IF l \in up THEN up \ {l} ELSE up \cup {l}
  /\ UNCHANGED <<node, air, greeted, offered, delivered, dropped, expired>>

----------------------------------------------------------------------------

Init ==
  /\ nSequenceNumber = [n \in Node |-> 0]
  /\ nRREQId = 0
  /\ routeTable = [n \in Node |-> [d \in Node |-> NoRoute]]
  /\ rreqSentTable = [n \in Node |-> [d \in Node |-> NoRequest]]
  /\ rreqSeenTable = [n \in Node |-> {}]
  /\ fifo = [n \in Node |-> [d \in Node |-> {}]]
  /\ nRerrCount = [n \in Node |-> 0]
  /\ air = {}
  /\ up = Link
  /\ moves = 0 /\ greeted = {}
  /\ offered = {} /\ delivered = {} /\ dropped = {} /\ expired = {}

\* The transmission a packet is in.
Flying(p) == {m \in air : m.type = "DATA" /\ m.pkt = p}

Receive(m) == ReceiveData(m) \/ ProcessRREQ(m) \/ ProcessRREP(m) \/ ProcessRERR(m)

Next ==
  \/ \E p \in Packet : AppSend(p)
  \/ \E m \in air : Receive(m) \/ TransmissionFails(m)
  \/ \E n \in Node : TransmitHelloMessage(n)
  \/ \E n, d \in Node : RetryRREQ(n, d) \/ ActiveRouteTimeout(n, d)
  \/ \E l \in Moving : Move(l)

Spec == Init /\ [][Next]_vars

\* The event list executes every event it holds: each message in flight is
\* received or given up, each RREQ timer fires.
FairSpec ==
  /\ Spec
  /\ WF_vars(\E m \in air : Receive(m) \/ TransmissionFails(m))
  /\ \A p \in Packet :
       WF_vars(\E m \in Flying(p) : ReceiveData(m) \/ TransmissionFails(m))
  /\ \A n, d \in Node : WF_vars(RetryRREQ(n, d))

----------------------------------------------------------------------------
(* Properties *)

\* Type of the state.
TypeOK ==
  /\ nSequenceNumber \in [Node -> Nat] /\ nRREQId \in Nat
  /\ routeTable \in [Node -> [Node -> Entry \cup {NoRoute}]]
  /\ rreqSentTable \in [Node -> [Node -> Request \cup {NoRequest}]]
  /\ rreqSeenTable \in [Node -> SUBSET Nat]
  /\ fifo \in [Node -> [Node -> SUBSET Packet]]
  /\ nRerrCount \in [Node -> Nat]
  /\ air \subseteq Message
  /\ up \subseteq Link /\ moves \in Nat /\ greeted \subseteq Node
  /\ offered \subseteq Packet /\ delivered \subseteq Packet
  /\ dropped \subseteq Packet /\ expired \subseteq Node \X Node

\* No node and no message knows a sequence number that its owner has not
\* reached: what InsertInRouteTable takes for newer really is newer.
SequenceNumbersIssued ==
  /\ \A n, d \in Node : routeTable[n][d] # NoRoute =>
       routeTable[n][d].seq <= nSequenceNumber[d]
  /\ \A m \in air :
       /\ m.type = "RREQ" => m.seq <= nSequenceNumber[m.orig]
       /\ m.type = "RREP" => m.seq <= nSequenceNumber[m.dest]

\* A packet waits in the FIFO only while the discovery for its target is
\* outstanding, so that an answer or the last timeout finds it; and never
\* beside a route that could carry it.
WaitingIsSearched ==
  \A n, d \in Node : fifo[n][d] # {} =>
    rreqSentTable[n][d] # NoRequest /\ routeTable[n][d] = NoRoute

\* A packet is in one place: waiting in one FIFO, in one transmission,
\* delivered or dropped.
Waiting(p) == {n \in Node : p \in fifo[n][Dst[p]]}

InOnePlace ==
  \A p \in offered :
    Cardinality(Waiting(p)) + Cardinality(Flying(p))
      + Cardinality({p} \cap delivered) + Cardinality({p} \cap dropped) = 1

\* The next hops towards d form no loop, whatever links break and however
\* late messages arrive, as long as no entry for d has expired: a packet for
\* d cannot be kept inside a set of relays.
LeavesEverySet(table, d) ==
  \A S \in SUBSET (Node \ {d}) : S # {} =>
    \E n \in S : table[n][d] = NoRoute \/ table[n][d].next \notin S

Lasting(d) == \A n \in Node : <<n, d>> \notin expired

NoLoop == \A d \in Node : Lasting(d) => LeavesEverySet(routeTable, d)

\* A waiting packet leaves the FIFO: its route is found or the discovery
\* gives up.
WaitingEnds ==
  \A n \in Node : \A p \in Packet :
    p \in fifo[n][Dst[p]] ~> p \notin fifo[n][Dst[p]]

\* The comment of fn_NetSim_AODV_ProcessRERR: the entry to the target is
\* deleted.  Then no packet leaves along an entry a route error has hit.
ErrorEndsUse ==
  [][\A m \in air' \ air : m.type = "DATA" =>
       routeTable'[m.from][Dst[m.pkt]].valid]_vars
=============================================================================
