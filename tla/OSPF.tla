-------------------------------- MODULE OSPF --------------------------------
(***************************************************************************)
(* OSPF (src/.../OSPF) on point-to-point links within one area: the        *)
(* neighbour state machine, the exchange of Database Description (DD)      *)
(* packets, the requests for the LSAs they describe, and the flooding of   *)
(* router LSAs.  An arc <<r, n>> stands for the interface of r towards n   *)
(* and for the neighbour structure r keeps of n.                           *)
(*                                                                         *)
(* Time is abstracted: a timer may fire at any moment, except that the     *)
(* timers of some seconds wait for the packets in flight: the hello timer  *)
(* for those of its arc, the DD retransmission timer for the DD packets    *)
(* between the two routers, the inactivity timer for all of them.          *)
(*                                                                         *)
(* Left out: ageing of LSAs, and with it the refresh and the flush;        *)
(* acknowledgments and retransmission lists, since without MaxAge LSAs no  *)
(* code arms the timer that would send these lists; LSAs other than router *)
(* LSAs.  Updates are delayed (isSendDelayedUpdate), and an LSU packet     *)
(* carries one LSA.  A received instance is never too early (the check of  *)
(* minLSInterval): the flood timer of the sender keeps that distance, and  *)
(* on a tree every LSA of a router comes over one link.                    *)
(***************************************************************************)
EXTENDS Naturals, FiniteSets, Sequences, SequencesExt

CONSTANTS Router,      \* numbers: the router identifiers
          Arc,         \* pairs <<r, n>> of routers that share a link
          Adjacent,    \* the arcs whose adjacency is Full from the start
          DDStart,     \* time a first DD is sent, by arc: its DD number
          MaxHeaders,  \* LSA headers that fit a DD packet
          MaxRequests, \* bound: requests in flight on an arc
          Faulty,      \* bound: arcs where a neighbour may fall silent, or
                       \* a DD that is never sent again be lost
          MaxFaults    \* bound: losses and failures together

ASSUME TopologyAssumption ==
  /\ Router \subseteq Nat /\ IsFiniteSet(Router)
  /\ Arc \subseteq Router \X Router
  /\ \A a \in Arc : a[1] # a[2] /\ <<a[2], a[1]>> \in Arc
  /\ Adjacent \subseteq Arc /\ Faulty \subseteq Arc
  /\ \A a \in Adjacent : /\ <<a[2], a[1]>> \in Adjacent
                         /\ \A b \in Adjacent : a[1] = b[1] => a = b

ASSUME NumberAssumption ==
  /\ DDStart \in [Arc -> Nat \ {0}]
  /\ MaxHeaders \in Nat \ {0} /\ MaxRequests \in Nat
  /\ MaxFaults \in Nat

VARIABLES
  nbr,       \* nbr[<<r, n>>]: the neighbour structure of r for n
  lsdb,      \* lsdb[r][x]: the router LSA of x in the database of r
  updateLSA, \* updateLSA[<<r, n>>]: LSAs queued for the flood timer
  lsTimer,   \* isRouterLSTimer: r is going to originate its LSA
  link,      \* link[<<r, n>>]: packets from r to n, in order
  losses, failures,
  unhandled  \* history: an event without handler, or a failed assertion

vars == <<nbr, lsdb, updateLSA, lsTimer, link, losses, failures, unhandled>>

Back(a) == <<a[2], a[1]>>
From(r) == {a \in Arc : a[1] = r}

State == {"Down", "Init", "ExStart", "Exchange", "Loading", "Full"}
Synchronizing == {"Exchange", "Loading", "Full"} \* state >= S_Exchange

\* An LSA and its header; an absent one has seq 0.
LSA == [adv : Router, seq : Nat, links : SUBSET Router]
Header == [adv : Router, seq : Nat]

HeaderOf(l) == [adv |-> l.adv, seq |-> l.seq]
NoLSA(x) == [adv |-> x, seq |-> 0, links |-> {}]

Flags == [init : BOOLEAN, more : BOOLEAN, master : BOOLEAN]
DDId == [seq : Nat, flags : Flags]

Packet == [type : {"hello"}, seen : BOOLEAN]
     \cup [type : {"dd"}, id : DDId, headers : SUBSET Header]
     \cup [type : {"lsr"}, ids : SUBSET Router]
     \cup [type : {"lsu"}, lsa : LSA]

Neighbor ==
  [state : State,
   master : BOOLEAN,              \* isMaster: this router is
   seq : Nat,                     \* DDSeqNo
   more : BOOLEAN,                \* M bit of the last DD sent
   lastrecv : SUBSET DDId,        \* lastrecvDDPacket, at most one
   summary : SUBSET Header,       \* neighDBSummaryList
   req : SUBSET Header,           \* neighLSReqList
   ddTimer : BOOLEAN,             \* OSPF_DD_RXMT_IN_EXSTART pending
   reqTimer : BOOLEAN,            \* OSPF_RXMTTIMER of the last LS request
   done : BOOLEAN]                \* OSPF_ExchangeDone scheduled

NewNeighbor ==
  [state |-> "Down", master |-> FALSE, seq |-> 0, more |-> FALSE,
   lastrecv |-> {}, summary |-> {}, req |-> {}, ddTimer |-> FALSE,
   reqTimer |-> FALSE, done |-> FALSE]

----------------------------------------------------------------------------
(* Packets *)

Hello(nb) == [type |-> "hello", seen |-> nb.state # "Down"]

DD(seq, init, more, master, headers) ==
  [type |-> "dd", headers |-> headers,
   id |-> [seq |-> seq,
           flags |-> [init |-> init, more |-> more, master |-> master]]]

InitialDD(nb) == DD(nb.seq, TRUE, TRUE, TRUE, {})
Request(nb) == [type |-> "lsr", ids |-> {h.adv : h \in nb.req}]
Update(l) == [type |-> "lsu", lsa |-> l]

Arrives(a, type) == link[a] # <<>> /\ Head(link[a]).type = type

\* Consume the packet at the head of arc a and answer on the way back.
Answer(a, packets) ==
  link' = [link EXCEPT ![a] = Tail(@), ![Back(a)] = @ \o packets]

Idle(a) == link[a] = <<>> /\ link[Back(a)] = <<>>

Count(a, type) == Cardinality({i \in 1..Len(link[a]) : link[a][i].type = type})

----------------------------------------------------------------------------
(* Adjacency *)

\* Mutant: stops in 2Way.
attempt_adjacency_TwoWay(nb, a) == [nb EXCEPT !.state = "2Way"]

\* ospf_neighbor_attempt_adjacency: only a first attempt sends a DD.
attempt_adjacency(nb, a) ==
  IF nb.seq # 0 THEN [nb EXCEPT !.state = "ExStart", !.seq = @ + 1]
  ELSE [nb EXCEPT !.state = "ExStart", !.master = TRUE, !.seq = DDStart[a],
                  !.more = TRUE, !.ddTimer = TRUE]

AttemptPackets(nb, a) ==
  IF nb.seq # 0 THEN <<>> ELSE <<InitialDD(attempt_adjacency(nb, a))>>

\* A hello that would change nothing at its receiver is left out.
HelloTimer(a) ==
  /\ link[a] = <<>> /\ nbr[Back(a)].state \in {"Down", "Init"}
  /\ link' = [link EXCEPT ![a] = Append(@, Hello(nbr[a]))]
  /\ UNCHANGED <<nbr, lsdb, updateLSA, lsTimer, losses, failures, unhandled>>

\* A hello creates the neighbour; one that lists this router starts the
\* adjacency, which a point-to-point link always wants.
RecvHello(a) ==
  LET me == Back(a)  nb == nbr[me]  seen == Head(link[a]).seen IN
  /\ Arrives(a, "hello")
  /\ IF seen /\ nb.state \in {"Down", "Init"}
     THEN /\ nbr' = [nbr EXCEPT ![me] = attempt_adjacency(nb, me)]
          /\ Answer(a, AttemptPackets(nb, me))
     ELSE /\ nbr' = [nbr EXCEPT ![me].state = IF @ = "Down" THEN "Init" ELSE @]
          /\ Answer(a, <<>>)
  /\ UNCHANGED <<lsdb, updateLSA, lsTimer, losses, failures, unhandled>>

\* Mutant: the first DD is sent once.
DDTimer_Once(a) ==
  /\ nbr[a].ddTimer
  /\ nbr' = [nbr EXCEPT ![a].ddTimer = FALSE]
  /\ UNCHANGED <<lsdb, updateLSA, lsTimer, link, losses, failures, unhandled>>

\* The timer ends when it finds another state.
DDTimer(a) ==
  LET nb == nbr[a] IN
  /\ nb.ddTimer /\ Count(a, "dd") + Count(Back(a), "dd") = 0
  /\ IF nb.state = "ExStart"
     THEN /\ link' = [link EXCEPT ![a] = Append(@, InitialDD(nb))]
          /\ nbr' = [nbr EXCEPT ![a].more = TRUE]
     ELSE /\ nbr' = [nbr EXCEPT ![a].ddTimer = FALSE]
          /\ UNCHANGED link
  /\ UNCHANGED <<lsdb, updateLSA, lsTimer, losses, failures, unhandled>>

\* routerDeadInterval without a hello: the lists are freed.  Here they are empty
\* afterwards; the code leaves null pointers, which only ospf_neighbor_new
\* would replace.
InactivityTimer(a) ==
  LET nb == nbr[a] IN
  /\ nb.state # "Down" /\ Idle(a) /\ a \in Faulty /\ losses + failures < MaxFaults
  /\ failures' = failures + 1
  /\ nbr' = [nbr EXCEPT ![a] = [nb EXCEPT !.state = "Down", !.summary = {},
                                          !.req = {}, !.lastrecv = {}]]
  /\ lsTimer' = [lsTimer EXCEPT ![a[1]] = @ \/ nb.state = "Full"]
  /\ UNCHANGED <<lsdb, updateLSA, link, losses, unhandled>>

----------------------------------------------------------------------------
(* Database description *)

\* What a DD may carry of the headers left: all, or as many as fit.
Tops(headers) ==
  IF Cardinality(headers) <= MaxHeaders THEN {headers}
  ELSE kSubset(MaxHeaders, headers)

\* send_DD_msg in Exchange: the neighbour after it, and its packet.
AfterDD(nb, top) == [nb EXCEPT !.summary = @ \ top, !.more = nb.summary # top]
ExchangeDD(nb, top) == DD(nb.seq, FALSE, nb.summary # top, nb.master, top)

\* Headers of a DD this router asks for: new to its database and its list.
Wanted(nb, db, headers) ==
  {h \in headers : db[h.adv].seq < h.seq /\ \A q \in nb.req : q.adv # h.adv}

Described(nb, db, m) ==
  [nb EXCEPT !.req = @ \cup Wanted(nb, db, m.headers),
             !.seq = IF nb.master THEN @ + 1 ELSE m.id.seq]

\* ospf_process_DD: the master stops when neither side has more; the slave
\* answers every DD.
Stops(nb, m) == nb.master /\ ~nb.more /\ ~m.id.flags.more

process_DD(nb, db, m, top) ==
  LET described == Described(nb, db, m)  sent == AfterDD(described, top) IN
  IF Stops(nb, m) THEN [described EXCEPT !.done = TRUE]
  ELSE [sent EXCEPT !.done = @ \/ (~nb.master /\ ~m.id.flags.more /\ ~sent.more)]

ProcessPackets(nb, db, m, top) ==
  IF Stops(nb, m) THEN <<>> ELSE <<ExchangeDD(Described(nb, db, m), top)>>

\* NegotiationDone: the summary list is the database.  A DD timer still
\* pending ends with no effect.
negotiationDone(nb, db) ==
  [nb EXCEPT !.state = "Exchange", !.ddTimer = FALSE,
             !.summary = {HeaderOf(db[x]) : x \in {y \in Router : db[y].seq > 0}}]

\* Mutant: does not compare the identifiers.
BecomesSlave_Any(me, m) ==
  m.id.flags = [init |-> TRUE, more |-> TRUE, master |-> TRUE] /\ m.headers = {}

BecomesSlave(me, m) ==
  /\ m.id.flags = [init |-> TRUE, more |-> TRUE, master |-> TRUE]
  /\ m.headers = {} /\ me[2] > me[1]

BecomesMaster(nb, me, m) ==
  /\ ~m.id.flags.init /\ ~m.id.flags.master
  /\ m.id.seq = nb.seq /\ me[2] < me[1]

\* In Init the DD counts as a hello that lists this router.
RecvDDNegotiates(a) ==
  LET me == Back(a)  m == Head(link[a])  db == lsdb[me[1]]
      old == [nbr[me] EXCEPT !.lastrecv = {m.id}]
      nb == IF old.state = "Init" THEN attempt_adjacency(old, me) ELSE old
      first == IF old.state = "Init" THEN AttemptPackets(old, me) ELSE <<>>
      agreed == [negotiationDone(nb, db) EXCEPT
                   !.master = BecomesMaster(nb, me, m),
                   !.seq = IF BecomesSlave(me, m) THEN m.id.seq ELSE @] IN
  /\ Arrives(a, "dd") /\ nbr[me].state \in {"Init", "ExStart"}
  /\ IF BecomesSlave(me, m) \/ BecomesMaster(nb, me, m)
     THEN \E top \in Tops(agreed.summary) :
            /\ nbr' = [nbr EXCEPT ![me] = process_DD(agreed, db, m, top)]
            /\ Answer(a, first \o ProcessPackets(agreed, db, m, top))
     ELSE /\ nbr' = [nbr EXCEPT ![me] = nb]
          /\ Answer(a, first)
  /\ UNCHANGED <<lsdb, updateLSA, lsTimer, losses, failures, unhandled>>

\* Ignored in Down.  A slave answers a duplicate with a copy of it;
\* that it would raise SeqNumberMismatch once routerDeadInterval has passed
\* since its last DD is left out.
RecvDDUnused(a) ==
  LET me == Back(a)  m == Head(link[a])  synchronizing == nbr[me].state \in Synchronizing IN
  /\ Arrives(a, "dd") /\ nbr[me].state \notin {"Init", "ExStart"}
  /\ synchronizing => m.id \in nbr[me].lastrecv
  /\ Answer(a, IF synchronizing /\ ~nbr[me].master THEN <<m>> ELSE <<>>)
  /\ UNCHANGED <<nbr, lsdb, updateLSA, lsTimer, losses, failures, unhandled>>

\* Mutant: the slave expects the number it has.
InSequence_Echo(nb, m) ==
  m.id.flags.master # nb.master /\ ~m.id.flags.init /\ m.id.seq = nb.seq

InSequence(nb, m) ==
  /\ m.id.flags.master # nb.master /\ ~m.id.flags.init
  /\ m.id.seq = IF nb.master THEN nb.seq ELSE nb.seq + 1

\* Out of sequence, or new after Exchange: SeqNumberMismatch, which has no
\* handler.
RecvDDExchange(a) ==
  LET me == Back(a)  m == Head(link[a])  db == lsdb[me[1]]
      nb == [nbr[me] EXCEPT !.lastrecv = {m.id}]
      expected == nb.state = "Exchange" /\ InSequence(nb, m) IN
  /\ Arrives(a, "dd") /\ nb.state \in Synchronizing
  /\ m.id \notin nbr[me].lastrecv
  /\ IF expected
     THEN \E top \in Tops(nb.summary) :
            /\ nbr' = [nbr EXCEPT ![me] = process_DD(nb, db, m, top)]
            /\ Answer(a, ProcessPackets(nb, db, m, top))
     ELSE nbr' = [nbr EXCEPT ![me] = nb] /\ Answer(a, <<>>)
  /\ unhandled' = (unhandled \/ ~expected)
  /\ UNCHANGED <<lsdb, updateLSA, lsTimer, losses, failures>>

ExchangeDone(a) ==
  LET nb == nbr[a]  full == nb.state = "Exchange" /\ nb.req = {}
      loading == nb.state = "Exchange" /\ nb.req # {} IN
  /\ nb.done
  /\ nbr' = [nbr EXCEPT ![a] =
       [nb EXCEPT !.done = FALSE, !.reqTimer = @ \/ loading,
                  !.state = IF full THEN "Full"
                            ELSE IF loading THEN "Loading" ELSE @]]
  /\ lsTimer' = [lsTimer EXCEPT ![a[1]] = @ \/ full]
  /\ link' = [link EXCEPT ![a] = IF loading THEN Append(@, Request(nb)) ELSE @]
  /\ UNCHANGED <<lsdb, updateLSA, losses, failures, unhandled>>

----------------------------------------------------------------------------
(* Requests *)

\* Mutant: the instance queued first stays.
Queue_First(queue, lsas) ==
  queue \cup {l \in lsas : \A k \in queue : k.adv # l.adv}

\* ospf_lsa_queueToFlood, with the flood timer it starts: a newer instance
\* replaces the one in the queue.
Queue(queue, lsas) ==
  {k \in queue : \A l \in lsas : k.adv = l.adv => k.seq >= l.seq}
    \cup {l \in lsas : \A k \in queue : k.adv = l.adv => k.seq < l.seq}

\* The timer is armed for RxmtInterval microseconds: it fires many times
\* before an answer can come.
RequestTimer(a) ==
  LET nb == nbr[a] IN
  /\ nb.reqTimer
  /\ IF nb.req = {} THEN /\ nbr' = [nbr EXCEPT ![a].reqTimer = FALSE]
                         /\ UNCHANGED link
     ELSE /\ Count(a, "lsr") + Count(Back(a), "lsu") < MaxRequests
          /\ link' = [link EXCEPT ![a] = Append(@, Request(nb))]
          /\ UNCHANGED nbr
  /\ UNCHANGED <<lsdb, updateLSA, lsTimer, losses, failures, unhandled>>

\* BadLSReq has no handler: it ends the packet, whatever it still asks for.
RecvLSR(a) ==
  LET me == Back(a)  db == lsdb[me[1]]
      asked == IF nbr[me].state \in Synchronizing THEN Head(link[a]).ids ELSE {}
      found == {x \in asked : db[x].seq > 0} IN
  /\ Arrives(a, "lsr")
  /\ unhandled' = (unhandled \/ asked # found)
  /\ \E served \in IF asked = found THEN {found} ELSE SUBSET found :
       updateLSA' = [updateLSA EXCEPT ![me] = Queue(@, {db[x] : x \in served})]
  /\ Answer(a, <<>>)
  /\ UNCHANGED <<nbr, lsdb, lsTimer, losses, failures>>

----------------------------------------------------------------------------
(* Flooding *)

\* Mutant: only a neighbour in Loading has requests.
Answered_Loading(nb, l) ==
  LET left == {q \in nb.req : q.adv = l.adv => l.seq < q.seq} IN
  IF nb.state # "Loading" \/ left = nb.req THEN nb
  ELSE [nb EXCEPT !.req = left, !.state = IF left = {} THEN "Full" ELSE @]

\* The request an LSA answers leaves the list, and the last one ends Loading.
Answered(nb, l) ==
  LET left == {q \in nb.req : q.adv = l.adv => l.seq < q.seq} IN
  IF nb.state \notin {"Exchange", "Loading"} \/ left = nb.req THEN nb
  ELSE [nb EXCEPT !.req = left,
                  !.state = IF @ = "Loading" /\ left = {} THEN "Full" ELSE @]

Outdated(nb, l) == \E q \in nb.req : q.adv = l.adv /\ l.seq < q.seq

\* The LSA goes to a neighbour unless it is known to have it.
Passes(nb, l) ==
  /\ nb.state \in Synchronizing /\ ~Outdated(nb, l)
  /\ ~(Answered(nb, l).state # nb.state /\ HeaderOf(l) \in nb.req)

\* Mutant: also back over the arc it came from.
Queued_Back(r, l, a) ==
  [b \in Arc |-> IF b[1] = r /\ Passes(nbr[b], l)
                THEN Queue(updateLSA[b], {l}) ELSE updateLSA[b]]

\* ospf_lsa_flood by router r of an LSA that came over arc a: its
\* neighbours, and its queues, after it.
Flooded(r, l) == [b \in Arc |-> IF b[1] = r THEN Answered(nbr[b], l) ELSE nbr[b]]
Queued(r, l, a) ==
  [b \in Arc |-> IF b[1] = r /\ b # a /\ Passes(nbr[b], l)
                THEN Queue(updateLSA[b], {l}) ELSE updateLSA[b]]

LoadingEnds(r, l) == \E b \in From(r) : Answered(nbr[b], l).state # nbr[b].state

\* ospf_lsdb_install: an instance with the same content is not stored.  The
\* content is the links to Full neighbors; the code also compares the stub and
\* host records, one for each neighbor that has ever been heard.
install(old, l) == IF old.seq = 0 \/ old.links # l.links THEN l ELSE old

OwnLSA(r) ==
  [adv |-> r, seq |-> lsdb[r][r].seq + 1,
   links |-> {a[2] : a \in {b \in From(r) : nbr[b].state = "Full"}}]

\* ospf_rlsa_originateRouterLSA
ScheduleLSDB(r) ==
  LET l == OwnLSA(r) IN
  /\ lsTimer[r]
  /\ nbr' = Flooded(r, l)
  /\ updateLSA' = Queued(r, l, <<r, r>>)
  /\ lsdb' = [lsdb EXCEPT ![r][r] = install(@, l)]
  /\ lsTimer' = [lsTimer EXCEPT ![r] = LoadingEnds(r, l)]
  /\ UNCHANGED <<link, losses, failures, unhandled>>

FloodTimer(a) ==
  /\ updateLSA[a] # {}
  /\ \E lsas \in SetToSeqs(updateLSA[a]) :
       link' = [link EXCEPT ![a] = @ \o [i \in 1..Len(lsas) |-> Update(lsas[i])]]
  /\ updateLSA' = [updateLSA EXCEPT ![a] = {}]
  /\ UNCHANGED <<nbr, lsdb, lsTimer, losses, failures, unhandled>>

RecvLSUDiscarded(a) ==
  LET nb == nbr[Back(a)] IN
  /\ Arrives(a, "lsu") /\ nb.state \notin Synchronizing
  /\ Answer(a, <<>>)
  /\ unhandled' = (unhandled \/ nb = NewNeighbor) \* assert(neigh)
  /\ UNCHANGED <<nbr, lsdb, updateLSA, lsTimer, losses, failures>>

\* Whether the head of the request list, read as an LSA header, carries the
\* number of the timer depends on memory outside it.
isRequestedLSAReceived == BOOLEAN

\* Every instance that differs from the one stored, the older one too, is
\* taken as more recent.
RecvLSUInstalled(a) ==
  LET me == Back(a)  r == me[1]  l == Head(link[a]).lsa
      nb == Answered(nbr[me], l)
      self == l.adv = r IN
  /\ Arrives(a, "lsu") /\ nbr[me].state \in Synchronizing
  /\ l.seq # lsdb[r][l.adv].seq
  /\ \E next \in isRequestedLSAReceived :
       /\ nbr' = [Flooded(r, l) EXCEPT ![me].reqTimer = nb.req # {} /\ (@ \/ next)]
       /\ Answer(a, IF nb.req # {} /\ next THEN <<Request(nb)>> ELSE <<>>)
  /\ updateLSA' = Queued(r, l, me)
  /\ lsdb' = [lsdb EXCEPT ![r][l.adv] =
       IF self THEN [install(@, l) EXCEPT !.seq = l.seq + 1] ELSE install(@, l)]
  /\ lsTimer' = [lsTimer EXCEPT ![r] = @ \/ self \/ LoadingEnds(r, l)]
  /\ UNCHANGED <<losses, failures, unhandled>>

\* The instance stored already; asked for, it is a BadLSReq.
RecvLSUKnown(a) ==
  LET me == Back(a)  r == me[1]  l == Head(link[a]).lsa  nb == nbr[me]
      bad == \E q \in nb.req : q.adv = l.adv
      loaded == ~bad /\ nb.req = {} /\ nb.state = "Loading" IN
  /\ Arrives(a, "lsu") /\ nb.state \in Synchronizing
  /\ l.seq = lsdb[r][l.adv].seq
  /\ unhandled' = (unhandled \/ bad)
  /\ \E next \in isRequestedLSAReceived :
       LET asks == ~bad /\ nb.req # {} /\ next IN
       /\ nbr' = [nbr EXCEPT ![me] =
            [nb EXCEPT !.reqTimer = IF bad THEN @ ELSE nb.req # {} /\ (@ \/ next),
                       !.state = IF loaded THEN "Full" ELSE @]]
       /\ Answer(a, IF asks THEN <<Request(nb)>> ELSE <<>>)
  /\ lsTimer' = [lsTimer EXCEPT ![r] = @ \/ loaded]
  /\ UNCHANGED <<lsdb, updateLSA, losses, failures>>

----------------------------------------------------------------------------
(* Faults and specification *)

\* A link may lose a DD packet.  The first DD is sent until it is answered,
\* no other is ever sent again.  (A lost hello is one not sent yet.)
Lose(a) ==
  LET resent == Head(link[a]).id.flags.init IN
  /\ Arrives(a, "dd")
  /\ losses + failures < MaxFaults /\ (resent \/ a \in Faulty)
  /\ losses' = IF resent THEN losses + 1 ELSE losses
  /\ failures' = IF resent THEN failures ELSE failures + 1
  /\ Answer(a, <<>>)
  /\ UNCHANGED <<nbr, lsdb, updateLSA, lsTimer, unhandled>>

\* Two routers that have become adjacent and told each other of it.
Established(a) ==
  LET master == a[1] > a[2]
      start == IF master THEN DDStart[a] ELSE DDStart[Back(a)] IN
  [NewNeighbor EXCEPT
     !.state = "Full", !.master = master,
     !.seq = start + (IF master THEN 2 ELSE 1),
     !.lastrecv = {[seq |-> start + 1,
                    flags |-> [init |-> FALSE, more |-> FALSE, master |-> ~master]]}]

Peers(r) == {a[2] : a \in {b \in Adjacent : b[1] = r}}

\* The interfaces are up: each router that has not done so is about to
\* originate its LSA.
Init ==
  /\ nbr = [a \in Arc |-> IF a \in Adjacent THEN Established(a) ELSE NewNeighbor]
  /\ lsdb = [r \in Router |-> [x \in Router |->
              IF Peers(x) # {} /\ (x = r \/ x \in Peers(r))
              THEN [adv |-> x, seq |-> 2, links |-> Peers(x)] ELSE NoLSA(x)]]
  /\ updateLSA = [a \in Arc |-> {}]
  /\ lsTimer = [r \in Router |-> Peers(r) = {}]
  /\ link = [a \in Arc |-> <<>>]
  /\ losses = 0 /\ failures = 0 /\ unhandled = FALSE

Receive(a) ==
  \/ RecvHello(a) \/ RecvDDNegotiates(a) \/ RecvDDUnused(a) \/ RecvDDExchange(a)
  \/ RecvLSR(a) \/ RecvLSUDiscarded(a) \/ RecvLSUInstalled(a) \/ RecvLSUKnown(a)

Next ==
  \/ \E a \in Arc : \/ Receive(a)      \/ HelloTimer(a)   \/ DDTimer(a)
                    \/ ExchangeDone(a) \/ RequestTimer(a) \/ FloodTimer(a)
                    \/ InactivityTimer(a) \/ Lose(a)
  \/ \E r \in Router : ScheduleLSDB(r)

Spec == Init /\ [][Next]_vars

\* The event list of the simulator executes what it holds, and a periodic
\* timer fires again and again.
FairSpec ==
  /\ Spec
  /\ \A a \in Arc :
       /\ WF_vars(Receive(a)) /\ WF_vars(ExchangeDone(a)) /\ WF_vars(FloodTimer(a))
       /\ WF_vars(HelloTimer(a)) /\ SF_vars(DDTimer(a))
  /\ \A r \in Router : WF_vars(ScheduleLSDB(r))

----------------------------------------------------------------------------
(* Properties *)

\* Type of the state.
TypeOK ==
  /\ nbr \in [Arc -> Neighbor]
  /\ lsdb \in [Router -> [Router -> LSA]]
  /\ updateLSA \in [Arc -> SUBSET LSA]
  /\ lsTimer \in [Router -> BOOLEAN]
  /\ link \in [Arc -> Seq(Packet)]
  /\ losses \in Nat /\ failures \in Nat /\ unhandled \in BOOLEAN

\* Once two routers have negotiated, the one of the higher identifier is
\* the master, whatever DD packets were lost or crossed before.
RoleById ==
  \A a \in Arc : nbr[a].state \in Synchronizing => (nbr[a].master <=> a[1] > a[2])

\* What a router still requests from others is newer than what it has, and
\* a Full neighbour has nothing left to request.
RequestsAreNewer ==
  \A a \in Arc :
    /\ \A h \in nbr[a].req : h.adv # a[1] => lsdb[a[1]][h.adv].seq < h.seq
    /\ nbr[a].state = "Full" => nbr[a].req = {}

\* The code is never led to an event it has no handler for.
AllHandled == failures = 0 => ~unhandled

\* A Full neighbour, with no LSA or request under way to it.
Quiet(a) ==
  /\ nbr[a].state = "Full" /\ updateLSA[a] = {}
  /\ \A i \in 1..Len(link[a]) : link[a][i].type \notin {"lsu", "lsr"}

\* As long as no neighbour fell silent, two Full neighbours with no LSA or
\* request under way between them describe the same links.
Agreement ==
  failures = 0 =>
    \A a \in Arc : Quiet(a) /\ Quiet(Back(a)) =>
      \A x \in Router : lsdb[a[1]][x].links = lsdb[a[2]][x].links

\* A database never goes back to an older instance.
NeverOlder ==
  [][\A r, x \in Router : lsdb'[r][x].seq >= lsdb[r][x].seq]_vars

\* Every adjacency is Full, and the databases describe every link.
Complete ==
  /\ \A a \in Arc : nbr[a].state = "Full"
  /\ \A r, x \in Router : lsdb[r][x].links = {a[2] : a \in From(x)}

\* When no neighbour falls silent, every adjacency becomes Full for good
\* and the databases describe every link.
Converges == <>(failures > 0) \/ <>[]Complete

=============================================================================
