------------------------- MODULE SpanningTree_proof -------------------------
(***************************************************************************)
(* Invariants of SpanningTree proved for every connected network, every    *)
(* identifiers and costs.  The invariant is                                *)
(*                                                                         *)
(*   IInv == TypeOK /\ Roots /\ Sent /\ Far                                *)
(*           /\ (losses = 0 => \A a \in Arc : Heard(a) /\ Settling(a))     *)
(*                                                                         *)
(* What a switch knows only gets better (Lower), so a BPDU is never better *)
(* than what its sender knows, and those on a link get better from one to  *)
(* the next.  Heard: what the sender knows now is still on the link or has *)
(* been taken into account at its end.  Settling: so has the port of a     *)
(* link that is in nobody's way to the root.                               *)
(***************************************************************************)
EXTENDS SpanningTree, FiniteSetTheorems, WellFoundedInduction, TLAPS

\* What s knows, and the BPDU it would send.
Known(s) == [root |-> rootId[s], cost |-> rootPathCost[s]]
Cur(s) == [root |-> rootId[s], cost |-> StpCost[s] + rootPathCost[s]]

Lower(m, k) == m.root < k.root \/ (m.root = k.root /\ m.cost < k.cost)
AtMost(m, k) == m.root < k.root \/ (m.root = k.root /\ m.cost <= k.cost)

\* A switch is its own root, or has a neighbour on its way that knows no
\* worse.
RootOf(s) ==
  \/ /\ rootId[s] = SwitchId[s] /\ rootPathCost[s] = 0 /\ rootPort[s] = NoPort
  \/ /\ rootId[s] < SwitchId[s] /\ <<s, rootPort[s]>> \in Arc
     /\ AtMost(Cur(rootPort[s]), Known(s))

\* A BPDU on arc a, at place i.
SentOn(a, i) ==
  /\ AtMost(Cur(a[1]), link[a][i])
  /\ \A j \in 1..Len(link[a]) : j < i => Lower(link[a][i], link[a][j])
  /\ rootPort[a[2]] = a[1] => Lower(link[a][i], Known(a[2]))

\* Only a neighbour of x hears of x at the cost of x alone.
FarSwitch(x, s) ==
  s # x /\ rootId[s] = SwitchId[x] =>
    /\ rootPathCost[s] >= StpCost[x]
    /\ rootPathCost[s] = StpCost[x] => rootPort[s] = x

FarBpdu(x, a, i) ==
  link[a][i].root = SwitchId[x] =>
    /\ link[a][i].cost >= StpCost[x]
    /\ link[a][i].cost = StpCost[x] => a[1] = x

UnderWay(a) == \E i \in 1..Len(link[a]) : link[a][i] = Cur(a[1])

Heard(a) == UnderWay(a) \/ AtMost(Known(a[2]), Cur(a[1]))

Settling(a) ==
  \/ rootPort[a[1]] = a[2] \/ rootPort[a[2]] = a[1]
  \/ a \in blocked \/ Back(a) \in blocked
  \/ rootId[a[1]] # rootId[a[2]]
  \/ UnderWay(a) \/ UnderWay(Back(a))

Roots == \A s \in Switch : RootOf(s)
Sent == \A a \in Arc : \A i \in 1..Len(link[a]) : SentOn(a, i)
Far == \A x \in Switch : /\ \A s \in Switch : FarSwitch(x, s)
                         /\ \A a \in Arc : \A i \in 1..Len(link[a]) : FarBpdu(x, a, i)
Complete == losses = 0 => \A a \in Arc : Heard(a) /\ Settling(a)

IInv == TypeOK /\ Roots /\ Sent /\ Far /\ Complete

----------------------------------------------------------------------------
(* Order, arcs and queues *)

\* The ends of an arc.
LEMMA Ends ==
  ASSUME NEW a \in Arc
  PROVE  /\ a[1] \in Switch /\ a[2] \in Switch /\ a[1] # a[2] /\ a = <<a[1], a[2]>>
         /\ Back(a) \in Arc /\ Back(a)[1] = a[2] /\ Back(a)[2] = a[1]
         /\ Back(Back(a)) = a /\ Back(a) # a
<1>1. PICK s, t \in Switch : a = <<s, t>>
  <2>1. a \in Switch \X Switch
    BY TopologyAssumption
  <2> QED
    BY <2>1
<1>2. a[1] = s /\ a[2] = t /\ s # t
  BY <1>1, TopologyAssumption
<1>3. Back(a) = <<t, s>> /\ Back(a) \in Arc
  BY <1>2, TopologyAssumption DEF Back
<1> QED
  BY <1>1, <1>2, <1>3 DEF Back

\* What a switch knows and sends has the form of a BPDU.
LEMMA KnownBpdu ==
  ASSUME TypeOK, NEW s \in Switch
  PROVE  Known(s) \in Bpdu /\ Cur(s) \in Bpdu
BY NumberAssumption DEF TypeOK, Known, Cur, Bpdu

\* A BPDU on a link is one.
LEMMA LinkBpdu ==
  ASSUME TypeOK, NEW a \in Arc, NEW i \in 1..Len(link[a])
  PROVE  link[a][i] \in Bpdu
BY DEF TypeOK

\* The order of BPDUs.
LEMMA Order ==
  ASSUME NEW m \in Bpdu, NEW k \in Bpdu, NEW n \in Bpdu
  PROVE  /\ AtMost(m, m)
         /\ AtMost(m, k) /\ AtMost(k, n) => AtMost(m, n)
         /\ Lower(m, k) /\ AtMost(k, n) => Lower(m, n)
         /\ AtMost(m, k) /\ Lower(k, n) => Lower(m, n)
         /\ Lower(m, k) => AtMost(m, k)
         /\ AtMost(m, k) \/ Lower(k, m)
BY DEF AtMost, Lower, Bpdu

\* The head of a queue taken.
LEMMA Taken ==
  ASSUME TypeOK, NEW a \in Arc, link[a] # <<>>
  PROVE  /\ Head(link[a]) = link[a][1] /\ 1 \in 1..Len(link[a]) /\ Head(link[a]) \in Bpdu
         /\ Tail(link[a]) \in Seq(Bpdu)
         /\ Len(Tail(link[a])) = Len(link[a]) - 1
         /\ \A i \in 1..Len(Tail(link[a])) :
              /\ i + 1 \in 1..Len(link[a]) /\ i + 1 > 1
              /\ Tail(link[a])[i] = link[a][i + 1]
<1>1. link[a] \in Seq(Bpdu)
  BY DEF TypeOK
<1> QED
  BY <1>1

----------------------------------------------------------------------------
(* A BPDU is taken and nothing else is learnt *)

Takes(a) ==
  /\ link[a] # <<>>
  /\ link' = [link EXCEPT ![a] = Tail(@)]
  /\ UNCHANGED <<rootId, rootPathCost, rootPort>>

\* The places left on the links were there before, in the same order.
LEMMA PlacesLeft ==
  ASSUME TypeOK, NEW a \in Arc, Takes(a), NEW b \in Arc, NEW i \in 1..Len(link'[b])
  PROVE  /\ Len(link'[b]) = IF b = a THEN Len(link[b]) - 1 ELSE Len(link[b])
         /\ LET k == IF b = a THEN i + 1 ELSE i IN
              k \in 1..Len(link[b]) /\ link'[b][i] = link[b][k]
<1>1. CASE b = a
  <2>1. link'[b] = Tail(link[a])
    BY <1>1 DEF Takes, TypeOK
  <2> QED
    BY <1>1, <2>1, Taken DEF Takes
<1>2. CASE b # a
  BY <1>2 DEF Takes, TypeOK
<1> QED
  BY <1>1, <1>2

\* What was taken, and what is left, has the right type.
LEMMA TakenType ==
  ASSUME TypeOK, NEW a \in Arc, Takes(a)
  PROVE  link' \in [Arc -> Seq(Bpdu)]
BY Taken DEF Takes, TypeOK

\* The facts about switches and BPDUs stay.
LEMMA TakenFacts ==
  ASSUME IInv, NEW a \in Arc, Takes(a)
  PROVE  Roots' /\ Sent' /\ Far'
<1>1. \A s \in Switch : Known(s)' = Known(s) /\ Cur(s)' = Cur(s)
  BY DEF Takes, Known, Cur
<1>2. Roots'
  <2> SUFFICES ASSUME NEW s \in Switch
               PROVE  RootOf(s)'
    BY DEF Roots
  <2>1. RootOf(s)
    BY DEF IInv, Roots
  <2>2. CASE rootId[s] = SwitchId[s] /\ rootPathCost[s] = 0 /\ rootPort[s] = NoPort
    BY <2>2 DEF RootOf, Takes
  <2>3. CASE /\ rootId[s] < SwitchId[s] /\ <<s, rootPort[s]>> \in Arc
             /\ AtMost(Cur(rootPort[s]), Known(s))
    <3>1. rootPort[s] \in Switch
      BY <2>3, TopologyAssumption
    <3> QED
      BY <1>1, <2>3, <3>1 DEF RootOf, Takes
  <2> QED
    BY <2>1, <2>2, <2>3 DEF RootOf
<1>3. Sent'
  <2> SUFFICES ASSUME NEW b \in Arc, NEW i \in 1..Len(link'[b])
               PROVE  SentOn(b, i)'
    BY DEF Sent
  <2> DEFINE p(x) == IF b = a THEN x + 1 ELSE x
  <2>1. p(i) \in 1..Len(link[b]) /\ link'[b][i] = link[b][p(i)]
    BY PlacesLeft DEF IInv
  <2>2. SentOn(b, p(i))
    BY <2>1 DEF IInv, Sent
  <2>3. b[1] \in Switch /\ b[2] \in Switch
    BY Ends
  <2>4. AtMost(Cur(b[1])', link'[b][i])
    BY <1>1, <2>1, <2>2, <2>3 DEF SentOn
  <2>5. ASSUME NEW j \in 1..Len(link'[b]), j < i
        PROVE  Lower(link'[b][i], link'[b][j])
    <3>1. p(j) \in 1..Len(link[b]) /\ link'[b][j] = link[b][p(j)]
      BY PlacesLeft DEF IInv
    <3>2. p(j) < p(i)
      BY <2>5
    <3> QED
      BY <2>1, <2>2, <3>1, <3>2 DEF SentOn
  <2>6. (rootPort[b[2]] = b[1])' => Lower(link'[b][i], Known(b[2])')
    BY <1>1, <2>1, <2>2, <2>3 DEF SentOn, Takes
  <2> QED
    BY <2>4, <2>5, <2>6 DEF SentOn
<1>4. Far'
  <2> SUFFICES ASSUME NEW x \in Switch
               PROVE  /\ \A s \in Switch : FarSwitch(x, s)'
                      /\ \A b \in Arc : \A i \in 1..Len(link'[b]) : FarBpdu(x, b, i)'
    BY DEF Far
  <2>1. ASSUME NEW s \in Switch
        PROVE  FarSwitch(x, s)'
    <3>1. FarSwitch(x, s)
      BY DEF IInv, Far
    <3> QED
      BY <3>1 DEF FarSwitch, Takes
  <2>2. ASSUME NEW b \in Arc, NEW i \in 1..Len(link'[b])
        PROVE  FarBpdu(x, b, i)'
    <3> DEFINE k == IF b = a THEN i + 1 ELSE i
    <3>1. k \in 1..Len(link[b]) /\ link'[b][i] = link[b][k]
      BY PlacesLeft DEF IInv
    <3>2. FarBpdu(x, b, k)
      BY <3>1 DEF IInv, Far
    <3> QED
      BY <3>1, <3>2 DEF FarBpdu
  <2> QED
    BY <2>1, <2>2
<1> QED
  BY <1>2, <1>3, <1>4

\* A BPDU that the switch has no use for was known to it already, and the
\* current one stays under way unless it is the one taken.
LEMMA UnderWayStays ==
  ASSUME TypeOK, NEW a \in Arc, Takes(a), NEW b \in Arc, UnderWay(b)
  PROVE  UnderWay(b)' \/ (b = a /\ Head(link[a]) = Cur(a[1]))
<1>1. PICK i \in 1..Len(link[b]) : link[b][i] = Cur(b[1])
  BY DEF UnderWay
<1>2. Cur(b[1])' = Cur(b[1])
  BY DEF Cur, Takes
<1>3. CASE b # a
  <2>1. link'[b] = link[b]
    BY <1>3 DEF Takes, TypeOK
  <2> QED
    BY <1>1, <1>2, <2>1 DEF UnderWay
<1>4. CASE b = a /\ i = 1
  BY <1>1, <1>4, Taken DEF Takes
<1>5. CASE b = a /\ i # 1
  <2>1. link'[b] = Tail(link[a]) /\ link[a] \in Seq(Bpdu) /\ link[a] # <<>>
    BY <1>5 DEF Takes, TypeOK
  <2>2. i - 1 \in 1..Len(link'[b]) /\ link'[b][i - 1] = link[b][i]
    BY <1>5, <2>1
  <2> QED
    BY <1>1, <1>2, <2>2 DEF UnderWay
<1> QED
  BY <1>3, <1>4, <1>5

\* A BPDU that is not better than what its receiver knows.
Useless(m, s) == AtMost(Known(s), m)

\* What a BPDU that is not forwarded says was known already.
LEMMA NotForwarded ==
  ASSUME IInv, NEW a \in Arc, link[a] # <<>>,
         compare_bpdu(Head(link[a]), a[2], a[1]) # "FORWARD"
  PROVE  Useless(Head(link[a]), a[2])
<1>1. Head(link[a]) \in Bpdu /\ a[2] \in Switch
  BY Taken, Ends DEF IInv
<1>2. RootOf(a[2])
  BY <1>1 DEF IInv, Roots
<1>3. rootId[a[2]] = SwitchId[a[2]] => rootPathCost[a[2]] = 0
  BY <1>1, <1>2, NumberAssumption DEF RootOf
<1> QED
  BY <1>1, <1>3 DEF compare_bpdu, Useless, AtMost, Known, Bpdu, IInv, TypeOK

\* A BPDU that is neither forwarded nor a reason to block comes from behind
\* the root port, from outside the part of the network with the same root,
\* or reaches the root.
LEMMA NotBlocked ==
  ASSUME IInv, NEW a \in Arc, link[a] # <<>>, Head(link[a]) = Cur(a[1]),
         compare_bpdu(Head(link[a]), a[2], a[1]) = "DONT_FORWARD"
  PROVE  \/ rootId[a[1]] # rootId[a[2]]
         \/ rootPort[a[2]] = a[1]
         \/ rootId[a[2]] = SwitchId[a[2]]
BY DEF compare_bpdu, Cur

\* The neighbour of the root reaches it directly, once it has heard of it.
LEMMA DirectPath ==
  ASSUME IInv, NEW a \in Arc, rootId[a[2]] = SwitchId[a[2]],
         rootId[a[1]] = rootId[a[2]], AtMost(Known(a[1]), Cur(a[2]))
  PROVE  rootPort[a[1]] = a[2]
<1>1. a[1] \in Switch /\ a[2] \in Switch /\ a[1] # a[2]
  BY Ends
<1>2. RootOf(a[2]) /\ FarSwitch(a[2], a[1])
  BY <1>1 DEF IInv, Roots, Far
<1>3. rootPathCost[a[2]] = 0
  BY <1>1, <1>2, NumberAssumption DEF RootOf
<1>4. rootPathCost[a[1]] <= StpCost[a[2]]
  BY <1>1, <1>3, NumberAssumption DEF AtMost, Known, Cur, IInv, TypeOK
<1> QED
  BY <1>1, <1>2, <1>4, NumberAssumption DEF FarSwitch, IInv, TypeOK

\* The step of a port that does not forward keeps what its end has heard.
LEMMA TakenHeard ==
  ASSUME IInv, NEW a \in Arc, Takes(a), Useless(Head(link[a]), a[2]),
         NEW b \in Arc, Heard(b)
  PROVE  Heard(b)'
<1>1. Known(b[2])' = Known(b[2]) /\ Cur(b[1])' = Cur(b[1])
  BY DEF Takes, Known, Cur
<1>2. CASE UnderWay(b)
  <2>1. UnderWay(b)' \/ (b = a /\ Head(link[a]) = Cur(a[1]))
    BY <1>2, UnderWayStays DEF IInv
  <2> QED
    BY <1>1, <2>1 DEF Heard, Useless
<1>3. CASE AtMost(Known(b[2]), Cur(b[1]))
  BY <1>1, <1>3 DEF Heard
<1> QED
  BY <1>2, <1>3 DEF Heard

\* The same of the ports of each link.
LEMMA TakenSettling ==
  ASSUME IInv, NEW a \in Arc, process_configbpdu(a), losses = 0,
         compare_bpdu(Head(link[a]), a[2], a[1]) # "FORWARD",
         NEW b \in Arc
  PROVE  Settling(b)'
<1> DEFINE m == Head(link[a])
           result == compare_bpdu(m, a[2], a[1])
<1>1. Takes(a) /\ blocked' = IF result = "BLOCK" THEN blocked \cup {Back(a)} ELSE blocked
  BY DEF process_configbpdu, Takes
<1>2. \A c \in Arc : Heard(c) /\ Settling(c)
  BY DEF IInv, Complete
<1>3. Back(b) \in Arc /\ Back(Back(b)) = b /\ Back(a) \in Arc /\ Back(a) # a
      /\ Back(a)[1] = a[2] /\ Back(a)[2] = a[1] /\ Back(b)[1] = b[2] /\ Back(b)[2] = b[1]
  BY Ends
<1>4. ASSUME NEW c \in Arc, UnderWay(c)
      PROVE  UnderWay(c)' \/ (c = a /\ m = Cur(a[1]))
  BY <1>1, <1>4, UnderWayStays DEF IInv
<1>5. CASE (UnderWay(b) \/ UnderWay(Back(b))) /\ ~(UnderWay(b)' \/ UnderWay(Back(b))')
  <2>1. (b = a \/ b = Back(a)) /\ m = Cur(a[1])
    BY <1>3, <1>4, <1>5
  <2>2. CASE result = "BLOCK"
    BY <1>1, <1>3, <2>1, <2>2 DEF Settling
  <2>3. CASE result = "DONT_FORWARD" /\ rootId[a[1]] # rootId[a[2]]
    BY <1>1, <1>3, <2>1, <2>3 DEF Settling, Takes
  <2>4. CASE result = "DONT_FORWARD" /\ rootPort[a[2]] = a[1]
    BY <1>1, <1>3, <2>1, <2>4 DEF Settling, Takes
  <2>5. CASE /\ result = "DONT_FORWARD" /\ rootId[a[2]] = SwitchId[a[2]]
             /\ rootId[a[1]] = rootId[a[2]]
    <3>1. Heard(Back(a))
      BY <1>2, <1>3
    <3>2. ~UnderWay(Back(a))
      BY <1>3, <1>4, <1>5, <2>1
    <3>3. rootPort[a[1]] = a[2]
      BY <1>3, <2>5, <3>1, <3>2, DirectPath DEF Heard
    <3> QED
      BY <1>1, <1>3, <2>1, <3>3 DEF Settling, Takes
  <2>6. result \in {"BLOCK", "DONT_FORWARD"}
    BY DEF compare_bpdu
  <2>7. link[a] # <<>>
    BY <1>1 DEF Takes
  <2>8. result = "DONT_FORWARD" => \/ rootId[a[1]] # rootId[a[2]]
                                   \/ rootPort[a[2]] = a[1]
                                   \/ rootId[a[2]] = SwitchId[a[2]]
    BY <2>1, <2>7, NotBlocked
  <2> QED
    BY <2>2, <2>3, <2>4, <2>5, <2>6, <2>8
<1>6. CASE UnderWay(b)' \/ UnderWay(Back(b))'
  BY <1>6 DEF Settling
<1>7. CASE ~UnderWay(b) /\ ~UnderWay(Back(b))
  <2>1. Settling(b)
    BY <1>2
  <2> QED
    BY <1>1, <1>7, <2>1 DEF Settling, Takes
<1> QED
  BY <1>5, <1>6, <1>7

\* A step that does not forward keeps the invariant.
LEMMA TakenInv ==
  ASSUME IInv, NEW a \in Arc, process_configbpdu(a),
         compare_bpdu(Head(link[a]), a[2], a[1]) # "FORWARD"
  PROVE  IInv'
<1>1. Takes(a) /\ losses' = losses
  BY DEF process_configbpdu, Takes
<1>2. Roots' /\ Sent' /\ Far'
  BY <1>1, TakenFacts
<1>3. TypeOK'
  <2>1. Back(a) \in Arc
    BY Ends
  <2>2. blocked' \subseteq Arc
    BY <2>1 DEF process_configbpdu, IInv, TypeOK
  <2> QED
    BY <1>1, <2>2, TakenType DEF IInv, TypeOK, Takes
<1>4. Complete'
  <2> SUFFICES ASSUME losses = 0, NEW b \in Arc
               PROVE  Heard(b)' /\ Settling(b)'
    BY <1>1 DEF Complete
  <2>1. Useless(Head(link[a]), a[2])
    BY <1>1, NotForwarded DEF Takes
  <2>2. Heard(b)
    BY DEF IInv, Complete
  <2> QED
    BY <1>1, <2>1, <2>2, TakenHeard, TakenSettling
<1> QED
  BY <1>2, <1>3, <1>4 DEF IInv

\* A lost BPDU leaves nothing to prove of the end of the exchange.
LEMMA LostInv ==
  ASSUME IInv, NEW a \in Arc, Lose(a)
  PROVE  IInv'
<1>1. Takes(a) /\ losses' = losses + 1 /\ blocked' = blocked
  BY DEF Lose, Takes
<1>2. Roots' /\ Sent' /\ Far'
  BY <1>1, TakenFacts
<1>3. TypeOK' /\ losses' # 0
  BY <1>1, TakenType DEF IInv, TypeOK, Takes
<1> QED
  BY <1>2, <1>3 DEF IInv, Complete

----------------------------------------------------------------------------
(* A better BPDU is adopted *)

Adopts(a) ==
  /\ process_configbpdu(a)
  /\ compare_bpdu(Head(link[a]), a[2], a[1]) = "FORWARD"

\* What is adopted is better, and comes from another switch.
LEMMA Better ==
  ASSUME IInv, NEW a \in Arc, Adopts(a)
  PROVE  /\ Head(link[a]) \in Bpdu /\ Head(link[a]) = link[a][1]
         /\ 1 \in 1..Len(link[a])
         /\ Lower(Head(link[a]), Known(a[2]))
         /\ Head(link[a]).root < SwitchId[a[2]]
<1>1. link[a] # <<>> /\ a[2] \in Switch
  BY Ends DEF Adopts, process_configbpdu
<1>2. Head(link[a]) \in Bpdu /\ Head(link[a]) = link[a][1] /\ 1 \in 1..Len(link[a])
  BY <1>1, Taken DEF IInv
<1>3. RootOf(a[2])
  BY <1>1 DEF IInv, Roots
<1>4. rootId[a[2]] <= SwitchId[a[2]]
  BY <1>1, <1>3, NumberAssumption DEF RootOf, IInv, TypeOK
<1> QED
  BY <1>1, <1>2, <1>4, NumberAssumption
     DEF Adopts, compare_bpdu, Lower, Known, Bpdu, IInv, TypeOK

\* What the switches know and would send afterwards.
LEMMA KnownAfter ==
  ASSUME IInv, NEW a \in Arc, Adopts(a)
  PROVE  /\ \A s \in Switch : s # a[2] => /\ Known(s)' = Known(s) /\ Cur(s)' = Cur(s)
                                          /\ rootPort'[s] = rootPort[s]
         /\ Known(a[2])' = Head(link[a]) /\ rootPort'[a[2]] = a[1]
         /\ Cur(a[2])' = copy_bpdu(a[2], Head(link[a]))
         /\ Cur(a[2])' \in Bpdu /\ Lower(Cur(a[2])', Cur(a[2]))
         /\ losses' = losses /\ blocked' = blocked
         /\ \A s \in Switch : s # a[2] => /\ rootId'[s] = rootId[s]
                                          /\ rootPathCost'[s] = rootPathCost[s]
         /\ rootId'[a[2]] = Head(link[a]).root /\ rootPathCost'[a[2]] = Head(link[a]).cost
<1> DEFINE m == Head(link[a])
<1>1. a[2] \in Switch /\ m \in Bpdu /\ m = [root |-> m.root, cost |-> m.cost]
  BY Ends, Better DEF Bpdu
<1>2. /\ rootId' = [rootId EXCEPT ![a[2]] = m.root]
      /\ rootPathCost' = [rootPathCost EXCEPT ![a[2]] = m.cost]
      /\ rootPort' = [rootPort EXCEPT ![a[2]] = a[1]]
      /\ losses' = losses /\ blocked' = blocked
  BY DEF Adopts, process_configbpdu
<1>3. \A s \in Switch : s # a[2] => /\ Known(s)' = Known(s) /\ Cur(s)' = Cur(s)
                                    /\ rootPort'[s] = rootPort[s]
  BY <1>2 DEF Known, Cur, IInv, TypeOK
<1>4. Known(a[2])' = m /\ rootPort'[a[2]] = a[1] /\ Cur(a[2])' = copy_bpdu(a[2], m)
  BY <1>1, <1>2 DEF Known, Cur, copy_bpdu, IInv, TypeOK
<1>5. copy_bpdu(a[2], m) \in Bpdu
  BY <1>1, NumberAssumption DEF copy_bpdu, Bpdu
<1>6. Lower(m, Known(a[2]))
  BY Better
<1>7. Lower(copy_bpdu(a[2], m), Cur(a[2]))
  BY <1>1, <1>6, NumberAssumption DEF copy_bpdu, Lower, Known, Cur, Bpdu, IInv, TypeOK
<1>8. /\ \A s \in Switch : s # a[2] => /\ rootId'[s] = rootId[s]
                                       /\ rootPathCost'[s] = rootPathCost[s]
      /\ rootId'[a[2]] = m.root /\ rootPathCost'[a[2]] = m.cost
  BY <1>1, <1>2 DEF IInv, TypeOK
<1> QED
  BY <1>2, <1>3, <1>4, <1>5, <1>7, <1>8

\* A place on a link holds a BPDU that was there, or the new one at its end.
LEMMA PlacesAfter ==
  ASSUME IInv, NEW a \in Arc, Adopts(a), NEW b \in Arc, NEW i \in 1..Len(link'[b])
  PROVE  \/ LET k == IF b = a THEN i + 1 ELSE i IN
              k \in 1..Len(link[b]) /\ link'[b][i] = link[b][k]
         \/ /\ b[1] = a[2] /\ b # a /\ b # Back(a) /\ i = Len(link[b]) + 1
            /\ link'[b][i] = Cur(a[2])'
<1>1. link' = forward_bpdu(a, Cur(a[2])') /\ link[a] # <<>>
  BY KnownAfter DEF Adopts, process_configbpdu
<1>2. link[b] \in Seq(Bpdu) /\ a[1] # a[2]
  BY Ends DEF IInv, TypeOK
<1>3. CASE b = a
  <2>1. link'[b] = Tail(link[a])
    BY <1>1, <1>3 DEF forward_bpdu
  <2> QED
    BY <1>1, <1>3, <2>1, Taken DEF IInv
<1>4. CASE b # a /\ b[1] = a[2] /\ b # Back(a)
  <2>1. link'[b] = Append(link[b], Cur(a[2])')
    BY <1>1, <1>4 DEF forward_bpdu
  <2> QED
    BY <1>2, <1>4, <2>1
<1>5. CASE b # a /\ ~(b[1] = a[2] /\ b # Back(a))
  <2>1. link'[b] = link[b]
    BY <1>1, <1>5 DEF forward_bpdu
  <2> QED
    BY <1>5, <2>1
<1> QED
  BY <1>3, <1>4, <1>5

\* The three ways a link changes.
LEMMA AdoptedTail ==
  ASSUME IInv, NEW a \in Arc, Adopts(a)
  PROVE  link[a] # <<>> /\ link'[a] = Tail(link[a])
BY DEF Adopts, process_configbpdu, forward_bpdu

LEMMA Untouched ==
  ASSUME IInv, NEW a \in Arc, Adopts(a), NEW b \in Arc, b # a, b[1] # a[2]
  PROVE  link'[b] = link[b]
BY DEF Adopts, process_configbpdu, forward_bpdu

LEMMA Appended ==
  ASSUME IInv, NEW a \in Arc, Adopts(a), NEW b \in Arc, b[1] = a[2], b # Back(a)
  PROVE  UnderWay(b)'
<1>1. link' = forward_bpdu(a, Cur(a[2])') /\ b # a
  BY KnownAfter, Ends DEF Adopts, process_configbpdu
<1> DEFINE n == Cur(a[2])'
<1>2. link'[b] = Append(link[b], n) /\ link[b] \in Seq(Bpdu)
  BY <1>1 DEF forward_bpdu, IInv, TypeOK
<1>3. Cur(b[1])' = n
  OBVIOUS
<1> HIDE DEF n
<1>4. Len(link[b]) + 1 \in 1..Len(link'[b]) /\ link'[b][Len(link[b]) + 1] = n
  BY <1>2
<1> QED
  BY <1>3, <1>4 DEF UnderWay

\* The types stay.
LEMMA AdoptedType ==
  ASSUME IInv, NEW a \in Arc, Adopts(a)
  PROVE  TypeOK'
<1> DEFINE m == Head(link[a])
<1>1. m \in Bpdu /\ a[1] \in Switch /\ a[2] \in Switch
  BY Better, Ends
<1>2. link' = forward_bpdu(a, Cur(a[2])') /\ link[a] # <<>> /\ Cur(a[2])' \in Bpdu
  BY KnownAfter DEF Adopts, process_configbpdu
<1>3. Tail(link[a]) \in Seq(Bpdu)
  BY <1>2, Taken DEF IInv
<1>4. link' \in [Arc -> Seq(Bpdu)]
  BY <1>2, <1>3 DEF forward_bpdu, IInv, TypeOK
<1>5. /\ rootId' \in [Switch -> Nat] /\ rootPathCost' \in [Switch -> Nat]
      /\ rootPort' \in [Switch -> Switch \cup {NoPort}]
  BY <1>1 DEF Adopts, process_configbpdu, Bpdu, IInv, TypeOK
<1> QED
  BY <1>4, <1>5, KnownAfter DEF IInv, TypeOK

\* The way to the root of each switch.
LEMMA AdoptedRoots ==
  ASSUME IInv, NEW a \in Arc, Adopts(a)
  PROVE  Roots'
<1> DEFINE m == Head(link[a])
<1>1. m \in Bpdu /\ a[1] \in Switch /\ a[2] \in Switch /\ a[1] # a[2]
      /\ <<a[2], a[1]>> \in Arc /\ Lower(m, Known(a[2])) /\ m.root < SwitchId[a[2]]
  BY Better, Ends DEF Back
<1> SUFFICES ASSUME NEW s \in Switch
             PROVE  RootOf(s)'
  BY DEF Roots
<1>2. CASE s = a[2]
  <2>1. SentOn(a, 1) /\ link[a][1] = m
    BY Better DEF IInv, Sent
  <2>2. AtMost(Cur(a[1])', Known(s)')
    BY <1>1, <1>2, <2>1, KnownAfter DEF SentOn
  <2>3. rootId'[s] = m.root /\ rootPort'[s] = a[1]
    BY <1>1, <1>2 DEF Adopts, process_configbpdu, IInv, TypeOK
  <2> QED
    BY <1>1, <1>2, <2>2, <2>3 DEF RootOf
<1>3. CASE s # a[2]
  <2>1. RootOf(s) /\ Known(s)' = Known(s) /\ rootPort'[s] = rootPort[s]
    BY <1>3, KnownAfter DEF IInv, Roots
  <2>2. rootId'[s] = rootId[s] /\ rootPathCost'[s] = rootPathCost[s]
    BY <1>3 DEF Adopts, process_configbpdu, IInv, TypeOK
  <2>3. CASE rootId[s] = SwitchId[s] /\ rootPathCost[s] = 0 /\ rootPort[s] = NoPort
    BY <2>1, <2>2, <2>3 DEF RootOf
  <2>4. CASE /\ rootId[s] < SwitchId[s] /\ <<s, rootPort[s]>> \in Arc
             /\ AtMost(Cur(rootPort[s]), Known(s))
    <3>1. PICK p \in Switch : p = rootPort[s]
      BY <2>4, TopologyAssumption
    <3>2. AtMost(Cur(p)', Known(s))
      <4>1. AtMost(Cur(p), Known(s))
        BY <2>4, <3>1
      <4>2. CASE p # a[2]
        BY <4>1, <4>2, KnownAfter
      <4>3. CASE p = a[2]
        <5>1. Lower(Cur(p)', Cur(p)) /\ Cur(p)' \in Bpdu
          BY <4>3, KnownAfter
        <5>2. Cur(p) \in Bpdu /\ Known(s) \in Bpdu
          BY KnownBpdu DEF IInv
        <5> QED
          BY <4>1, <5>1, <5>2, Order
      <4> QED
        BY <4>2, <4>3
    <3>3. AtMost(Cur(rootPort[s])', Known(s)')
      BY <2>1, <3>1, <3>2
    <3> QED
      BY <2>1, <2>2, <2>4, <3>1, <3>3 DEF RootOf
  <2> QED
    BY <2>1, <2>3, <2>4 DEF RootOf
<1> QED
  BY <1>2, <1>3

\* What a switch knows and sends never gets worse.
LEMMA Improves ==
  ASSUME IInv, NEW a \in Arc, Adopts(a), NEW s \in Switch
  PROVE  /\ Known(s) \in Bpdu /\ Cur(s) \in Bpdu /\ Known(s)' \in Bpdu /\ Cur(s)' \in Bpdu
         /\ AtMost(Known(s)', Known(s)) /\ AtMost(Cur(s)', Cur(s))
<1>1. Known(s) \in Bpdu /\ Cur(s) \in Bpdu
  BY KnownBpdu DEF IInv
<1>2. CASE s = a[2]
  <2>1. /\ Known(s)' \in Bpdu /\ Cur(s)' \in Bpdu
        /\ Lower(Known(s)', Known(s)) /\ Lower(Cur(s)', Cur(s))
    BY <1>2, KnownAfter, Better
  <2> QED
    BY <1>1, <2>1, Order
<1>3. CASE s # a[2]
  <2>1. Known(s)' = Known(s) /\ Cur(s)' = Cur(s)
    BY <1>3, KnownAfter
  <2> QED
    BY <1>1, <2>1, Order
<1> QED
  BY <1>2, <1>3

\* The BPDUs on the links.
LEMMA AdoptedSent ==
  ASSUME IInv, NEW a \in Arc, Adopts(a)
  PROVE  Sent'
<1> DEFINE m == Head(link[a])
           New(b, i) == /\ b[1] = a[2] /\ b # a /\ b # Back(a) /\ i = Len(link[b]) + 1
                        /\ link'[b][i] = Cur(a[2])'
           p(b, i) == IF b = a THEN i + 1 ELSE i
           Old(b, i) == p(b, i) \in 1..Len(link[b]) /\ link'[b][i] = link[b][p(b, i)]
<1>1. \A b \in Arc : \A i \in 1..Len(link'[b]) : Old(b, i) \/ New(b, i)
  BY PlacesAfter
<1> SUFFICES ASSUME NEW b \in Arc, NEW i \in 1..Len(link'[b])
             PROVE  /\ AtMost(Cur(b[1])', link'[b][i])
                    /\ \A j \in 1..Len(link'[b]) : j < i => Lower(link'[b][i], link'[b][j])
                    /\ rootPort'[b[2]] = b[1] => Lower(link'[b][i], Known(b[2])')
  BY DEF Sent, SentOn
<1>2. /\ b[1] \in Switch /\ b[2] \in Switch /\ b[1] # b[2] /\ b = <<b[1], b[2]>>
      /\ a[1] \in Switch /\ a[2] \in Switch /\ a[1] # a[2] /\ a = <<a[1], a[2]>>
      /\ Back(a) = <<a[2], a[1]>>
  BY Ends DEF Back
<1>3. CASE Old(b, i)
  <2> DEFINE k == p(b, i)
  <2>1. k \in 1..Len(link[b]) /\ link'[b][i] = link[b][k] /\ link[b][k] \in Bpdu
    BY <1>3, LinkBpdu DEF IInv
  <2>2. SentOn(b, k)
    BY <2>1 DEF IInv, Sent
  <2>3. AtMost(Cur(b[1])', link'[b][i])
    <3>1. AtMost(Cur(b[1]), link[b][k])
      BY <2>2 DEF SentOn
    <3>2. AtMost(Cur(b[1])', Cur(b[1])) /\ Cur(b[1]) \in Bpdu /\ Cur(b[1])' \in Bpdu
      BY <1>2, Improves
    <3> QED
      BY <2>1, <3>1, <3>2, Order
  <2>4. ASSUME NEW j \in 1..Len(link'[b]), j < i
        PROVE  Lower(link'[b][i], link'[b][j])
    <3>1. ~New(b, j)
      BY <2>1, <2>4, <1>2
    <3>2. Old(b, j)
      BY <1>1, <3>1
    <3>3. p(b, j) < k
      BY <2>4
    <3> QED
      BY <2>1, <2>2, <3>2, <3>3 DEF SentOn
  <2>5. ASSUME rootPort'[b[2]] = b[1]
        PROVE  Lower(link'[b][i], Known(b[2])')
    <3>1. CASE b[2] # a[2]
      <4>1. rootPort[b[2]] = b[1] /\ Known(b[2])' = Known(b[2])
        BY <1>2, <2>5, <3>1, KnownAfter
      <4> QED
        BY <2>1, <2>2, <4>1 DEF SentOn
    <3>2. CASE b[2] = a[2]
      <4>1. rootPort'[a[2]] = a[1] /\ Known(a[2])' = m
        BY KnownAfter
      <4>2. b = a
        BY <1>2, <2>5, <3>2, <4>1
      <4>3. m = link[a][1] /\ 1 \in 1..Len(link[a]) /\ k > 1
        BY <4>2, Better
      <4>4. Lower(link[b][k], link[b][1])
        BY <2>2, <4>2, <4>3 DEF SentOn
      <4> QED
        BY <2>1, <3>2, <4>1, <4>2, <4>3, <4>4
    <3> QED
      BY <3>1, <3>2
  <2> QED
    BY <2>3, <2>4, <2>5
<1>4. CASE New(b, i)
  <2> DEFINE n == Cur(a[2])'
  <2>1. b[1] = a[2] /\ link'[b][i] = n
    BY <1>4
  <2>2. Lower(n, Cur(a[2])) /\ n \in Bpdu /\ Cur(a[2]) \in Bpdu
    BY <1>2, KnownAfter, KnownBpdu DEF IInv
  <2> HIDE DEF n
  <2>3. AtMost(Cur(b[1])', link'[b][i])
    <3>1. Cur(b[1])' = n
      BY <2>1 DEF n
    <3> QED
      BY <2>1, <2>2, <3>1, Order
  <2>4. ASSUME NEW j \in 1..Len(link'[b]), j < i
        PROVE  Lower(link'[b][i], link'[b][j])
    <3>1. Old(b, j) /\ p(b, j) = j
      BY <1>1, <1>4, <2>4
    <3>2. SentOn(b, j) /\ link[b][j] \in Bpdu
      BY <3>1, LinkBpdu DEF IInv, Sent
    <3>3. AtMost(Cur(a[2]), link[b][j])
      BY <2>1, <3>2 DEF SentOn
    <3> QED
      BY <2>1, <2>2, <3>1, <3>2, <3>3, Order
  <2>5. ASSUME rootPort'[b[2]] = b[1]
        PROVE  Lower(link'[b][i], Known(b[2])')
    <3>1. b[2] # a[2] /\ b[2] # a[1]
      BY <1>2, <1>4
    <3>2. rootPort[b[2]] = a[2] /\ Known(b[2])' = Known(b[2])
      BY <1>2, <2>1, <2>5, <3>1, KnownAfter
    <3>3. RootOf(b[2])
      BY <1>2 DEF IInv, Roots
    <3>4. AtMost(Cur(rootPort[b[2]]), Known(b[2]))
      BY <1>2, <3>2, <3>3, TopologyAssumption DEF RootOf
    <3>5. AtMost(Cur(a[2]), Known(b[2])) /\ Known(b[2]) \in Bpdu
      BY <1>2, <3>2, <3>4, KnownBpdu DEF IInv
    <3> QED
      BY <2>1, <2>2, <3>2, <3>5, Order
  <2> QED
    BY <2>3, <2>4, <2>5
<1> QED
  BY <1>1, <1>3, <1>4

\* The distance from each switch.
LEMMA AdoptedFar ==
  ASSUME IInv, NEW a \in Arc, Adopts(a)
  PROVE  Far'
<1> DEFINE m == Head(link[a])
<1>1. m \in Bpdu /\ m = link[a][1] /\ 1 \in 1..Len(link[a]) /\ a[2] \in Switch
  BY Better, Ends
<1> SUFFICES ASSUME NEW x \in Switch
             PROVE  /\ \A s \in Switch : FarSwitch(x, s)'
                    /\ \A b \in Arc : \A i \in 1..Len(link'[b]) : FarBpdu(x, b, i)'
  BY DEF Far
<1>2. FarBpdu(x, a, 1)
  BY <1>1 DEF IInv, Far
<1>3. ASSUME NEW s \in Switch
      PROVE  FarSwitch(x, s)'
  <2>1. FarSwitch(x, s)
    BY DEF IInv, Far
  <2>2. CASE s # a[2]
    BY <2>1, <2>2, KnownAfter DEF FarSwitch
  <2>3. CASE s = a[2]
    BY <1>1, <1>2, <2>3, KnownAfter DEF FarSwitch, FarBpdu
  <2> QED
    BY <2>2, <2>3
<1>4. ASSUME NEW b \in Arc, NEW i \in 1..Len(link'[b])
      PROVE  FarBpdu(x, b, i)'
  <2> DEFINE k == IF b = a THEN i + 1 ELSE i
  <2>1. CASE k \in 1..Len(link[b]) /\ link'[b][i] = link[b][k]
    <3>1. FarBpdu(x, b, k)
      BY <2>1 DEF IInv, Far
    <3> QED
      BY <2>1, <3>1 DEF FarBpdu
  <2>2. CASE link'[b][i] = Cur(a[2])'
    <3>1. /\ link'[b][i].root = m.root
          /\ link'[b][i].cost = StpCost[a[2]] + m.cost
      <4>1. link'[b][i] = copy_bpdu(a[2], m)
        BY <2>2, KnownAfter
      <4> QED
        BY <4>1 DEF copy_bpdu
    <3>2. m.cost \in Nat /\ StpCost[x] \in Nat /\ StpCost[a[2]] \in Nat /\ StpCost[a[2]] > 0
      BY <1>1, NumberAssumption DEF Bpdu
    <3> QED
      BY <1>1, <1>2, <3>1, <3>2 DEF FarBpdu
  <2> QED
    BY <2>1, <2>2, PlacesAfter
<1> QED
  BY <1>3, <1>4

\* The end of each arc has heard of what its start knows, or will.
LEMMA AdoptedHeard ==
  ASSUME IInv, NEW a \in Arc, Adopts(a), NEW b \in Arc, Heard(b)
  PROVE  Heard(b)'
<1> DEFINE m == Head(link[a])
<1>1. /\ b[1] \in Switch /\ b[2] \in Switch /\ b[1] # b[2] /\ b = <<b[1], b[2]>>
      /\ a[1] \in Switch /\ a[2] \in Switch /\ a[1] # a[2] /\ a = <<a[1], a[2]>>
      /\ Back(a) = <<a[2], a[1]>>
  BY Ends DEF Back
<1>2. m \in Bpdu /\ m = link[a][1] /\ 1 \in 1..Len(link[a])
  BY Better
<1>3. CASE b[1] = a[2] /\ b # Back(a)
  BY <1>3, Appended DEF Heard
<1>4. CASE b = Back(a)
  <2>1. b[1] = a[2] /\ b[2] = a[1]
    BY <1>1, <1>4
  <2>2. AtMost(Cur(a[1]), m)
    BY <1>2 DEF IInv, Sent, SentOn
  <2>3. Known(a[1])' = Known(a[1]) /\ Cur(a[2])' = copy_bpdu(a[2], m)
    BY <1>1, KnownAfter
  <2>4. AtMost(Known(a[1]), copy_bpdu(a[2], m))
    <3>1. /\ m.root \in Nat /\ m.cost \in Nat /\ StpCost[a[1]] \in Nat /\ StpCost[a[2]] \in Nat
          /\ rootId[a[1]] \in Nat /\ rootPathCost[a[1]] \in Nat
      BY <1>1, <1>2, NumberAssumption DEF Bpdu, IInv, TypeOK
    <3> QED
      BY <2>2, <3>1 DEF AtMost, Known, Cur, copy_bpdu
  <2> QED
    BY <2>1, <2>3, <2>4 DEF Heard
<1>5. CASE b[1] # a[2]
  <2>1. Cur(b[1])' = Cur(b[1]) /\ Cur(b[1]) \in Bpdu
    BY <1>1, <1>5, KnownAfter, Improves
  <2>2. Known(b[2])' \in Bpdu /\ Known(b[2]) \in Bpdu /\ AtMost(Known(b[2])', Known(b[2]))
    BY <1>1, Improves
  <2>3. CASE AtMost(Known(b[2]), Cur(b[1]))
    BY <2>1, <2>2, <2>3, Order DEF Heard
  <2>4. CASE UnderWay(b) /\ b # a
    BY <1>5, <2>1, <2>4, Untouched DEF Heard, UnderWay
  <2>5. CASE UnderWay(b) /\ b = a
    <3>1. PICK i \in 1..Len(link[a]) : link[a][i] = Cur(a[1])
      BY <2>5 DEF UnderWay
    <3>2. CASE i = 1
      <4>1. Known(a[2])' = Cur(a[1])'
        BY <1>2, <2>1, <2>5, <3>1, <3>2, KnownAfter
      <4> QED
        BY <2>1, <2>5, <4>1, Order DEF Heard
    <3>3. CASE i # 1
      <4>1. link'[a] = Tail(link[a]) /\ link[a] \in Seq(Bpdu) /\ link[a] # <<>>
        BY AdoptedTail DEF IInv, TypeOK
      <4>2. i - 1 \in 1..Len(link'[a]) /\ link'[a][i - 1] = link[a][i]
        BY <3>3, <4>1
      <4> QED
        BY <2>1, <2>5, <3>1, <4>2 DEF Heard, UnderWay
    <3> QED
      BY <3>2, <3>3
  <2> QED
    BY <2>3, <2>4, <2>5 DEF Heard
<1> QED
  BY <1>3, <1>4, <1>5

\* The ports at each link.
LEMMA AdoptedSettling ==
  ASSUME IInv, NEW a \in Arc, Adopts(a), NEW b \in Arc, Settling(b)
  PROVE  Settling(b)'
<1>1. /\ b[1] \in Switch /\ b[2] \in Switch /\ b[1] # b[2] /\ b = <<b[1], b[2]>>
      /\ a[1] \in Switch /\ a[2] \in Switch /\ a[1] # a[2] /\ a = <<a[1], a[2]>>
      /\ Back(a) = <<a[2], a[1]>> /\ Back(b) = <<b[2], b[1]>> /\ Back(b) \in Arc
      /\ Back(b)[1] = b[2]
  BY Ends DEF Back
<1>2. CASE b = a \/ b = Back(a)
  <2>1. rootPort'[b[1]] = b[2] \/ rootPort'[b[2]] = b[1]
    BY <1>1, <1>2, KnownAfter
  <2> QED
    BY <2>1 DEF Settling
<1>3. CASE b[1] = a[2] /\ b # Back(a)
  BY <1>3, Appended DEF Settling
<1>4. CASE b[2] = a[2] /\ b # a
  <2>1. Back(b) # Back(a)
    BY <1>1, <1>4
  <2>2. UnderWay(Back(b))'
    BY <1>1, <1>4, <2>1, Appended
  <2> QED
    BY <2>2 DEF Settling
<1>5. CASE b[1] # a[2] /\ b[2] # a[2]
  <2>1. /\ rootPort'[b[1]] = rootPort[b[1]] /\ rootPort'[b[2]] = rootPort[b[2]]
        /\ rootId'[b[1]] = rootId[b[1]] /\ rootId'[b[2]] = rootId[b[2]]
        /\ blocked' = blocked
    BY <1>1, <1>5, KnownAfter
  <2>2. /\ Cur(b[1])' = Cur(b[1]) /\ Cur(b[2])' = Cur(b[2])
    BY <1>1, <1>5, KnownAfter
  <2>3. b # a /\ Back(b) # a /\ Back(b)[1] # a[2]
    BY <1>1, <1>5
  <2>4. link'[b] = link[b] /\ link'[Back(b)] = link[Back(b)]
    BY <1>1, <1>5, <2>3, Untouched
  <2>5. UnderWay(b)' = UnderWay(b)
    BY <2>2, <2>4 DEF UnderWay
  <2>6. UnderWay(Back(b))' = UnderWay(Back(b))
    BY <1>1, <2>2, <2>4 DEF UnderWay
  <2> QED
    BY <2>1, <2>5, <2>6 DEF Settling
<1> QED
  BY <1>2, <1>3, <1>4, <1>5

\* A step that adopts a BPDU keeps the invariant.
LEMMA AdoptedInv ==
  ASSUME IInv, NEW a \in Arc, Adopts(a)
  PROVE  IInv'
<1>1. TypeOK' /\ Roots' /\ Sent' /\ Far'
  BY AdoptedType, AdoptedRoots, AdoptedSent, AdoptedFar
<1>2. Complete'
  BY KnownAfter, AdoptedHeard, AdoptedSettling DEF IInv, Complete
<1> QED
  BY <1>1, <1>2 DEF IInv

----------------------------------------------------------------------------
(* The invariant *)

\* The invariant holds at the start.
LEMMA InitInv == Init => IInv
<1> SUFFICES ASSUME Init
             PROVE  IInv
  OBVIOUS
<1>1. /\ rootId = SwitchId /\ rootPathCost = [s \in Switch |-> 0]
      /\ rootPort = [s \in Switch |-> NoPort] /\ blocked = {} /\ losses = 0
      /\ link = [a \in Arc |-> <<create_bpdu(a[1])>>]
  BY DEF Init, send_config_bpdu
<1>2. ASSUME NEW a \in Arc
      PROVE  /\ a[1] \in Switch /\ a[2] \in Switch
             /\ Len(link[a]) = 1 /\ link[a][1] = Cur(a[1]) /\ Cur(a[1]) \in Bpdu
             /\ link[a] \in Seq(Bpdu) /\ \A i \in 1..Len(link[a]) : i = 1
  <2>1. a[1] \in Switch /\ a[2] \in Switch
    BY Ends
  <2>2. create_bpdu(a[1]) \in Bpdu /\ Cur(a[1]) = create_bpdu(a[1])
    BY <1>1, <2>1, NumberAssumption DEF create_bpdu, Cur, Bpdu
  <2>3. link[a] = <<create_bpdu(a[1])>>
    BY <1>1
  <2>4. Len(link[a]) = 1 /\ \A i \in 1..1 : i = 1
    BY <2>3
  <2> QED
    BY <2>1, <2>2, <2>3, <2>4
<1>3. TypeOK
  <2>1. link = [a \in Arc |-> link[a]]
    BY <1>1
  <2>2. link \in [Arc -> Seq(Bpdu)]
    BY <1>2, <2>1
  <2> QED
    BY <1>1, <2>2, NumberAssumption DEF TypeOK
<1>4. Roots
  BY <1>1 DEF Roots, RootOf
<1>5. Sent
  <2> SUFFICES ASSUME NEW a \in Arc, NEW i \in 1..Len(link[a])
               PROVE  SentOn(a, i)
    BY DEF Sent
  <2>1. i = 1 /\ \A j \in 1..Len(link[a]) : j = 1
    BY <1>2
  <2>2. rootPort[a[2]] # a[1]
    BY <1>1, <1>2, TopologyAssumption
  <2>3. AtMost(Cur(a[1]), link[a][i])
    BY <1>2, <2>1, Order
  <2> QED
    BY <2>1, <2>2, <2>3 DEF SentOn
<1>6. Far
  <2> SUFFICES ASSUME NEW x \in Switch
               PROVE  /\ \A s \in Switch : FarSwitch(x, s)
                      /\ \A a \in Arc : \A i \in 1..Len(link[a]) : FarBpdu(x, a, i)
    BY DEF Far
  <2>1. \A s \in Switch : FarSwitch(x, s)
    BY <1>1, NumberAssumption DEF FarSwitch
  <2>2. ASSUME NEW a \in Arc, NEW i \in 1..Len(link[a])
        PROVE  FarBpdu(x, a, i)
    <3>1. i = 1 /\ link[a][i] = Cur(a[1]) /\ a[1] \in Switch
      BY <1>2
    <3>2. link[a][i].root = SwitchId[a[1]] /\ link[a][i].cost = StpCost[a[1]]
      <4>1. StpCost[a[1]] \in Nat
        BY <3>1, NumberAssumption
      <4> QED
        BY <1>1, <3>1, <4>1 DEF Cur
    <3>3. SwitchId[a[1]] = SwitchId[x] => a[1] = x
      BY <3>1, NumberAssumption
    <3>4. StpCost[x] \in Nat
      BY NumberAssumption
    <3> QED
      BY <3>2, <3>3, <3>4 DEF FarBpdu
  <2> QED
    BY <2>1, <2>2
<1>7. Complete
  <2>1. ASSUME NEW a \in Arc
        PROVE  UnderWay(a)
    BY <1>2 DEF UnderWay
  <2> QED
    BY <2>1 DEF Complete, Heard, Settling
<1> QED
  BY <1>3, <1>4, <1>5, <1>6, <1>7 DEF IInv

\* Every step keeps it.
LEMMA NextInv == IInv /\ [Next]_vars => IInv'
<1> SUFFICES ASSUME IInv, [Next]_vars
             PROVE  IInv'
  OBVIOUS
<1>1. ASSUME NEW a \in Arc, process_configbpdu(a)
      PROVE  IInv'
  <2>1. CASE compare_bpdu(Head(link[a]), a[2], a[1]) = "FORWARD"
    BY <1>1, <2>1, AdoptedInv DEF Adopts
  <2>2. CASE compare_bpdu(Head(link[a]), a[2], a[1]) # "FORWARD"
    BY <1>1, <2>2, TakenInv
  <2> QED
    BY <2>1, <2>2
<1>2. ASSUME NEW a \in Arc, Lose(a)
      PROVE  IInv'
  BY <1>2, LostInv
<1>3. CASE UNCHANGED vars
  BY <1>3 DEF vars, IInv, TypeOK, Roots, RootOf, Sent, SentOn, Far, FarSwitch, FarBpdu,
              Complete, Heard, Settling, UnderWay, AtMost, Lower, Known, Cur
<1> QED
  BY <1>1, <1>2, <1>3 DEF Next

\* The invariant of the spanning tree protocol.
THEOREM Invariant == Spec => []IInv
BY InitInv, NextInv, PTL DEF Spec

\* Types, of every reachable state.
THEOREM TypeCorrect == Spec => []TypeOK
<1>1. IInv => TypeOK
  BY DEF IInv
<1> QED
  BY <1>1, Invariant, PTL

----------------------------------------------------------------------------
(* The end of the exchange *)

\* Then every switch has heard of what its neighbours know.
LEMMA SettledArc ==
  ASSUME IInv, Settled, NEW a \in Arc
  PROVE  /\ AtMost(Known(a[2]), Cur(a[1]))
         /\ \/ rootPort[a[1]] = a[2] \/ rootPort[a[2]] = a[1]
            \/ ~Open(a) \/ rootId[a[1]] # rootId[a[2]]
<1>1. \A b \in Arc : ~UnderWay(b)
  BY DEF Settled, UnderWay
<1>2. Heard(a) /\ Settling(a)
  BY DEF IInv, Complete, Settled
<1>3. Back(a) \in Arc
  BY Ends
<1> QED
  BY <1>1, <1>2, <1>3 DEF Heard, Settling, Open

\* One root is known on both ends of a link, hence everywhere.
LEMMA OneRoot ==
  ASSUME IInv, Settled
  PROVE  \A s, t \in Switch : rootId[s] = rootId[t] /\ rootId[s] <= SwitchId[s]
<1>1. ASSUME NEW a \in Arc
      PROVE  rootId[a[1]] = rootId[a[2]]
  <2>1. a[1] \in Switch /\ a[2] \in Switch /\ Back(a) \in Arc
        /\ Back(a)[1] = a[2] /\ Back(a)[2] = a[1]
    BY Ends
  <2>2. AtMost(Known(a[2]), Cur(a[1])) /\ AtMost(Known(a[1]), Cur(a[2]))
    BY <2>1, SettledArc
  <2>3. rootId[a[1]] \in Nat /\ rootId[a[2]] \in Nat
    BY <2>1 DEF IInv, TypeOK
  <2> QED
    BY <2>2, <2>3 DEF AtMost, Known, Cur
<1> SUFFICES ASSUME NEW s \in Switch, NEW t \in Switch
             PROVE  rootId[s] = rootId[t] /\ rootId[s] <= SwitchId[s]
  OBVIOUS
<1>2. rootId[s] = rootId[t]
  <2> DEFINE S == {u \in Switch : rootId[u] = rootId[s]}
  <2>1. S # {} /\ S \in SUBSET Switch
    OBVIOUS
  <2>2. CASE S = Switch
    BY <2>2
  <2>3. CASE S # Switch
    <3>1. PICK a \in Arc : a[1] \in S /\ a[2] \notin S
      BY <2>1, <2>3, ConnectedAssumption
    <3> QED
      BY <1>1, <3>1, Ends
  <2> QED
    BY <2>2, <2>3
<1>3. rootId[s] <= SwitchId[s]
  <2>1. RootOf(s)
    BY DEF IInv, Roots
  <2> QED
    BY <2>1, NumberAssumption DEF RootOf, IInv, TypeOK
<1> QED
  BY <1>2, <1>3

\* When the BPDUs have all been handled, every switch knows one root, the
\* switch of the lowest identifier (compare_bpdu, update_spt).
THEOREM RootsAgree == Spec => []RootAgreed
<1>1. IInv => RootAgreed
  BY OneRoot DEF RootAgreed
<1> QED
  BY <1>1, Invariant, PTL

\* What the costs are then, across a link and along the root port.
LEMMA SettledCosts ==
  ASSUME IInv, Settled
  PROVE  /\ \A a \in Arc : rootPathCost[a[2]] <= rootPathCost[a[1]] + StpCost[a[1]]
         /\ \A s \in Switch : rootPort[s] # NoPort =>
              /\ <<s, rootPort[s]>> \in Arc
              /\ rootPathCost[s] = rootPathCost[rootPort[s]] + StpCost[rootPort[s]]
<1>1. ASSUME NEW a \in Arc
      PROVE  rootPathCost[a[2]] <= rootPathCost[a[1]] + StpCost[a[1]]
  <2>1. AtMost(Known(a[2]), Cur(a[1])) /\ rootId[a[1]] = rootId[a[2]]
    BY SettledArc, OneRoot, Ends
  <2>2. rootId[a[1]] \in Nat /\ rootPathCost[a[1]] \in Nat /\ StpCost[a[1]] \in Nat
    BY Ends, NumberAssumption DEF IInv, TypeOK
  <2> QED
    BY <2>1, <2>2 DEF AtMost, Known, Cur
<1>2. ASSUME NEW s \in Switch, rootPort[s] # NoPort
      PROVE  /\ <<s, rootPort[s]>> \in Arc
             /\ rootPathCost[s] = rootPathCost[rootPort[s]] + StpCost[rootPort[s]]
  <2>1. <<s, rootPort[s]>> \in Arc /\ AtMost(Cur(rootPort[s]), Known(s))
    BY <1>2 DEF IInv, Roots, RootOf
  <2>2. PICK p \in Switch : p = rootPort[s] /\ <<s, p>> \in Arc /\ <<p, s>> \in Arc
    BY <2>1, TopologyAssumption
  <2>3. rootPathCost[s] <= rootPathCost[p] + StpCost[p]
    BY <1>1, <2>2
  <2>4. AtMost(Cur(p), Known(s)) /\ rootId[p] = rootId[s]
    BY <2>1, <2>2, OneRoot
  <2>5. /\ rootId[s] \in Nat /\ rootPathCost[s] \in Nat
        /\ rootPathCost[p] \in Nat /\ StpCost[p] \in Nat
    BY NumberAssumption DEF IInv, TypeOK
  <2>6. StpCost[p] + rootPathCost[p] <= rootPathCost[s]
    BY <2>4, <2>5 DEF AtMost, Known, Cur
  <2> QED
    BY <2>2, <2>3, <2>5, <2>6
<1> QED
  BY <1>1, <1>2

\* Then the costs are those of the shortest paths and the root port leads
\* along one, in whatever order the BPDUs came.
THEOREM PathsShortest == Spec => []ShortestPaths
<1>1. ASSUME IInv
      PROVE  ShortestPaths
  <2> SUFFICES ASSUME Settled, NEW s \in Switch, ~IsRoot(s)
               PROVE  /\ \A a \in Arc : a[2] = s =>
                           rootPathCost[s] <= rootPathCost[a[1]] + StpCost[a[1]]
                      /\ <<s, rootPort[s]>> \in Arc
                      /\ rootPathCost[s] = rootPathCost[rootPort[s]] + StpCost[rootPort[s]]
    BY DEF ShortestPaths
  <2>1. rootPort[s] # NoPort
    BY <1>1, TopologyAssumption DEF IInv, Roots, RootOf, IsRoot
  <2> QED
    BY <1>1, <2>1, SettledCosts
<1> QED
  BY <1>1, Invariant, PTL

\* Among any switches one is as far from the root as any other.
LEMMA Farthest ==
  ASSUME IInv, NEW S \in SUBSET Switch, S # {}
  PROVE  \E s \in S : \A t \in S : rootPathCost[t] <= rootPathCost[s]
<1>1. IsFiniteSet(S)
  BY FS_Subset, TopologyAssumption
<1> DEFINE n == Cardinality(S)
<1>2. n \in Nat /\ ExistsBijection(1..n, S)
  BY <1>1, FS_CardinalityType
<1>3. PICK f \in [1..n -> S] : \A t \in S : \E i \in 1..n : f[i] = t
  BY <1>2 DEF ExistsBijection, Bijection, Surjection
<1> HIDE DEF n
<1>4. n >= 1
  BY <1>2, <1>3
<1>5. \A t \in S : rootPathCost[t] \in Nat
  BY DEF IInv, TypeOK
<1> DEFINE Top(k) == \E s \in S : \A i \in 1..n : i <= k => rootPathCost[f[i]] <= rootPathCost[s]
           Bad == {k \in Nat : 1 <= k /\ k <= n /\ ~Top(k)}
<1>6. Bad = {}
  <2> SUFFICES ASSUME Bad # {}
               PROVE  FALSE
    OBVIOUS
  <2>1. PICK x \in Bad : \A y \in Bad : ~(<<y, x>> \in OpToRel(<, Nat))
    <3>1. Bad \subseteq Nat
      OBVIOUS
    <3> HIDE DEF Bad
    <3> QED
      BY <3>1, NatLessThanWellFounded, WFMin
  <2>2. \A y \in Bad : ~(y < x)
    BY <2>1 DEF OpToRel
  <2>3. x \in Nat /\ 1 <= x /\ x <= n /\ ~Top(x)
    BY <2>1
  <2>4. f[x] \in S /\ x \in 1..n
    BY <1>2, <1>3, <2>3
  <2>5. CASE x = 1
    <3>1. \A i \in 1..n : i <= 1 => i = 1
      BY <1>2
    <3>2. Top(1)
      BY <1>5, <2>4, <2>5, <3>1
    <3> QED
      BY <2>3, <2>5, <3>2
  <2>6. CASE x # 1
    <3>1. x - 1 \in Nat /\ 1 <= x - 1 /\ x - 1 <= n /\ x - 1 < x
      BY <1>2, <2>3, <2>6
    <3>2. Top(x - 1)
      BY <2>2, <3>1
    <3>3. PICK s \in S : \A i \in 1..n : i <= x - 1 => rootPathCost[f[i]] <= rootPathCost[s]
      BY <3>2
    <3>4. \A i \in 1..n : i <= x => i <= x - 1 \/ i = x
      BY <1>2, <2>3
    <3>5. \A i \in 1..n : rootPathCost[f[i]] \in Nat
      BY <1>3, <1>5
    <3>6. CASE rootPathCost[f[x]] <= rootPathCost[s]
      BY <2>3, <3>3, <3>4, <3>6
    <3>7. CASE ~(rootPathCost[f[x]] <= rootPathCost[s])
      <4>1. \A i \in 1..n : i <= x => rootPathCost[f[i]] <= rootPathCost[f[x]]
        BY <1>5, <2>4, <3>3, <3>4, <3>5, <3>7
      <4> QED
        BY <2>3, <2>4, <4>1
    <3> QED
      BY <3>6, <3>7
  <2> QED
    BY <2>5, <2>6
<1>7. Top(n)
  <2>1. n \notin Bad
    BY <1>6
  <2> HIDE DEF Top
  <2> QED
    BY <1>2, <1>4, <2>1
<1>8. \A i \in 1..n : i <= n
  BY <1>2
<1> QED
  BY <1>3, <1>7, <1>8

\* Then every cycle of links has a blocked port: the only open link from
\* the farthest of the switches to others among them is its root port's.
THEOREM CyclesAreCut == Spec => []CyclesCut
<1>1. ASSUME IInv
      PROVE  CyclesCut
  <2> SUFFICES ASSUME Settled, NEW S \in SUBSET Switch, S # {}
               PROVE  \E s \in S :
                        Cardinality({t \in S : <<s, t>> \in Arc /\ Open(<<s, t>>)}) <= 1
    BY DEF CyclesCut
  <2>1. PICK s \in S : \A t \in S : rootPathCost[t] <= rootPathCost[s]
    BY <1>1, Farthest
  <2> DEFINE near == {t \in S : <<s, t>> \in Arc /\ Open(<<s, t>>)}
  <2>2. ASSUME NEW t \in near
        PROVE  t = rootPort[s]
    <3>1. t \in Switch /\ s \in Switch /\ <<s, t>> \in Arc /\ Open(<<s, t>>)
      OBVIOUS
    <3>2. \/ rootPort[s] = t \/ rootPort[t] = s \/ rootId[s] # rootId[t]
      BY <1>1, <3>1, SettledArc
    <3>3. CASE rootPort[t] = s
      <4>1. rootPathCost[t] = rootPathCost[s] + StpCost[s]
        BY <1>1, <3>1, <3>3, SettledCosts, TopologyAssumption
      <4>2. rootPathCost[s] \in Nat /\ StpCost[s] \in Nat /\ StpCost[s] > 0
        BY <1>1, <3>1, NumberAssumption DEF IInv, TypeOK
      <4>3. rootPathCost[t] <= rootPathCost[s]
        BY <2>1
      <4> QED
        BY <4>1, <4>2, <4>3
    <3> QED
      BY <1>1, <3>1, <3>2, <3>3, OneRoot
  <2> HIDE DEF near
  <2>3. near \in SUBSET {rootPort[s]}
    BY <2>2
  <2>4. Cardinality(near) <= 1
    <3>1. IsFiniteSet({rootPort[s]}) /\ Cardinality({rootPort[s]}) = 1
      BY FS_Singleton
    <3> QED
      BY <2>3, <3>1, FS_Subset
  <2> QED
    BY <2>4 DEF near
<1> QED
  BY <1>1, Invariant, PTL

----------------------------------------------------------------------------
(* The root port *)

\* A BPDU under way to a switch through its root port is better than what
\* the switch knows, so it never blocks that port.
THEOREM RootPortStaysOpen == Spec => RootPortNotBlocked
<1> DEFINE Kept == \A s \in Switch : LET port == <<s, rootPort'[s]>> IN
                     port \in blocked' => port \in blocked
<1>1. ASSUME IInv, [Next]_vars
      PROVE  Kept
  <2> SUFFICES ASSUME NEW s \in Switch, <<s, rootPort'[s]>> \in blocked'
               PROVE  <<s, rootPort'[s]>> \in blocked
    OBVIOUS
  <2>1. CASE blocked' = blocked
    BY <2>1
  <2>2. ASSUME NEW a \in Arc, process_configbpdu(a),
               compare_bpdu(Head(link[a]), a[2], a[1]) = "BLOCK"
        PROVE  <<s, rootPort'[s]>> \in blocked
    <3>1. blocked' = blocked \cup {Back(a)} /\ rootPort' = rootPort /\ link[a] # <<>>
      BY <2>2 DEF process_configbpdu
    <3>2. a[2] \in Switch /\ a[1] \in Switch /\ Back(a) = <<a[2], a[1]>>
      BY Ends DEF Back
    <3>3. CASE rootPort[a[2]] = a[1]
      <4>1. Head(link[a]) = link[a][1] /\ 1 \in 1..Len(link[a]) /\ Head(link[a]) \in Bpdu
        BY <1>1, <3>1, Taken DEF IInv
      <4>2. Lower(Head(link[a]), Known(a[2]))
        BY <1>1, <3>3, <4>1 DEF IInv, Sent, SentOn
      <4> QED
        BY <1>1, <2>2, <3>2, <4>1, <4>2 DEF compare_bpdu, Lower, Known, Bpdu, IInv, TypeOK
    <3>4. CASE rootPort[a[2]] # a[1]
      BY <3>1, <3>2, <3>4
    <3> QED
      BY <3>3, <3>4
  <2>3. ASSUME NEW a \in Arc, process_configbpdu(a),
               compare_bpdu(Head(link[a]), a[2], a[1]) # "BLOCK"
        PROVE  blocked' = blocked
    BY <2>3 DEF process_configbpdu
  <2>4. ASSUME NEW a \in Arc, Lose(a)
        PROVE  blocked' = blocked
    BY <2>4 DEF Lose
  <2>5. UNCHANGED vars => blocked' = blocked
    BY DEF vars
  <2> QED
    BY <1>1, <2>1, <2>2, <2>3, <2>4, <2>5 DEF Next
<1> QED
  BY <1>1, Invariant, PTL DEF Spec, RootPortNotBlocked
=============================================================================
