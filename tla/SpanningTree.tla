---------------------------- MODULE SpanningTree ----------------------------
(***************************************************************************)
(* The spanning tree protocol of Ethernet switches (src/.../Ethernet/      *)
(* SpanningTree.c).  At time 0 every switch takes itself for the root and  *)
(* sends a configuration BPDU to its neighbours; a switch that hears of a  *)
(* better root, or of a shorter path to its root, adopts it and passes it  *)
(* on; a port that hears of a longer path is blocked.  No BPDU is sent on  *)
(* any other occasion, and none is sent again.                             *)
(*                                                                         *)
(* An arc <<s, t>> stands for the port of s towards t and for the BPDUs    *)
(* under way from s to t, which the PHY keeps in order.  Identifiers are   *)
(* numbers in the order of the strings the code compares, "priority MAC".  *)
(* Two switches share one link: get_interface_id finds the first one only. *)
(* The portType of a port is written and never read; ports towards end     *)
(* devices take no part.                                                   *)
(***************************************************************************)
EXTENDS Naturals, FiniteSets, Sequences

CONSTANTS Switch,
          Arc,        \* pairs <<s, t>> of switches that share a link
          SwitchId,   \* switchId of each switch
          StpCost,    \* stpCost of each switch
          NoPort,
          MaxLosses   \* bound: BPDUs received in error

ASSUME TopologyAssumption ==
  /\ IsFiniteSet(Switch) /\ NoPort \notin Switch
  /\ Arc \subseteq Switch \X Switch
  /\ \A a \in Arc : a[1] # a[2] /\ <<a[2], a[1]>> \in Arc

\* Any two switches are joined by links.
ASSUME ConnectedAssumption ==
  \A S \in (SUBSET Switch) \ {{}, Switch} : \E a \in Arc : a[1] \in S /\ a[2] \notin S

\* The cost is an int of the configuration, taken to be positive.
ASSUME NumberAssumption ==
  /\ SwitchId \in [Switch -> Nat] /\ StpCost \in [Switch -> Nat \ {0}]
  /\ \A s, t \in Switch : SwitchId[s] = SwitchId[t] => s = t
  /\ MaxLosses \in Nat

VARIABLES
  rootId,        \* root each switch knows
  rootPathCost,  \* cost of its path to it
  rootPort,      \* neighbour it leads through
  blocked,       \* arcs whose port is PORTSTATE_BLOCKING
  link,          \* link[a]: BPDUs on arc a, in order
  losses

vars == <<rootId, rootPathCost, rootPort, blocked, link, losses>>

Bpdu == [root : Nat, cost : Nat]

Back(a) == <<a[2], a[1]>>

----------------------------------------------------------------------------

create_bpdu(s) == [root |-> SwitchId[s], cost |-> StpCost[s]]

\* The links once every switch has sent its own BPDU.
send_config_bpdu == [a \in Arc |-> <<create_bpdu(a[1])>>]

\* Mutant: the cost of the switch is taken off.
copy_bpdu_Less(s, bpdu) == [root |-> bpdu.root, cost |-> bpdu.cost - StpCost[s]]

copy_bpdu(s, bpdu) == [root |-> bpdu.root, cost |-> StpCost[s] + bpdu.cost]

\* Mutant: the first path to the root stays.
compare_bpdu_First(bpdu, s, port) ==
  IF bpdu.root # rootId[s]
  THEN IF bpdu.root < rootId[s] THEN "FORWARD" ELSE "DONT_FORWARD"
  ELSE IF rootId[s] = SwitchId[s] \/ rootPort[s] = port THEN "DONT_FORWARD" ELSE "BLOCK"

\* Mutant: a longer path is no reason to block.
compare_bpdu_Longer(bpdu, s, port) ==
  IF bpdu.root # rootId[s]
  THEN IF bpdu.root < rootId[s] THEN "FORWARD" ELSE "DONT_FORWARD"
  ELSE IF rootId[s] = SwitchId[s] THEN "DONT_FORWARD"
  ELSE IF bpdu.cost < rootPathCost[s] THEN "FORWARD"
  ELSE IF bpdu.cost = rootPathCost[s] /\ rootPort[s] # port THEN "BLOCK"
  ELSE "DONT_FORWARD"

\* What a switch does with a BPDU that arrives on a port.
compare_bpdu(bpdu, s, port) ==
  IF bpdu.root # rootId[s]
  THEN IF bpdu.root < rootId[s] THEN "FORWARD" ELSE "DONT_FORWARD"
  ELSE IF rootId[s] = SwitchId[s] THEN "DONT_FORWARD"
  ELSE IF bpdu.cost < rootPathCost[s] THEN "FORWARD"
  ELSE IF bpdu.cost = rootPathCost[s] /\ rootPort[s] = port THEN "DONT_FORWARD"
  ELSE "BLOCK"

\* Mutant: no BPDU is sent on a port that has another under way.
forward_bpdu_Busy(a, bpdu) ==
  [b \in Arc |-> IF b = a THEN Tail(link[b])
                 ELSE IF b[1] = a[2] /\ b # Back(a) /\ link[b] = <<>> THEN Append(link[b], bpdu)
                 ELSE link[b]]

\* Mutant: a BPDU overtakes those sent before.
forward_bpdu_Overtakes(a, bpdu) ==
  [b \in Arc |-> IF b = a THEN Tail(link[b])
                 ELSE IF b[1] = a[2] /\ b # Back(a) THEN <<bpdu>> \o link[b]
                 ELSE link[b]]

\* The links once the head of a is taken and bpdu sent from a[2] to all
\* neighbours but a[1].
forward_bpdu(a, bpdu) ==
  [b \in Arc |-> IF b = a THEN Tail(link[b])
                 ELSE IF b[1] = a[2] /\ b # Back(a) THEN Append(link[b], bpdu)
                 ELSE link[b]]

\* Mutant: a BPDU that brings nothing new is answered.
process_configbpdu_Replies(a) ==
  LET s == a[2]  bpdu == Head(link[a])  result == compare_bpdu(bpdu, s, a[1])
      own == [root |-> rootId[s], cost |-> StpCost[s] + rootPathCost[s]] IN
  /\ link[a] # <<>>
  /\ blocked' = IF result = "BLOCK" THEN blocked \cup {Back(a)} ELSE blocked
  /\ IF result = "FORWARD"
     THEN /\ rootId' = [rootId EXCEPT ![s] = bpdu.root]
          /\ rootPathCost' = [rootPathCost EXCEPT ![s] = bpdu.cost]
          /\ rootPort' = [rootPort EXCEPT ![s] = a[1]]
          /\ link' = forward_bpdu(a, copy_bpdu(s, bpdu))
     ELSE /\ link' = [link EXCEPT ![a] = Tail(@), ![Back(a)] = Append(@, own)]
          /\ UNCHANGED <<rootId, rootPathCost, rootPort>>
  /\ UNCHANGED losses

\* A BPDU arrives on the port of a[2] towards a[1].
process_configbpdu(a) ==
  LET s == a[2]  bpdu == Head(link[a])  result == compare_bpdu(bpdu, s, a[1]) IN
  /\ link[a] # <<>>
  /\ blocked' = IF result = "BLOCK" THEN blocked \cup {Back(a)} ELSE blocked
  /\ IF result = "FORWARD"
     THEN /\ rootId' = [rootId EXCEPT ![s] = bpdu.root]
          /\ rootPathCost' = [rootPathCost EXCEPT ![s] = bpdu.cost]
          /\ rootPort' = [rootPort EXCEPT ![s] = a[1]]
          /\ link' = forward_bpdu(a, copy_bpdu(s, bpdu))
     ELSE /\ link' = [link EXCEPT ![a] = Tail(@)]
          /\ UNCHANGED <<rootId, rootPathCost, rootPort>>
  /\ UNCHANGED losses

\* The PHY drops a frame received in error.
Lose(a) ==
  /\ link[a] # <<>> /\ losses < MaxLosses
  /\ losses' = losses + 1
  /\ link' = [link EXCEPT ![a] = Tail(@)]
  /\ UNCHANGED <<rootId, rootPathCost, rootPort, blocked>>

Init ==
  /\ rootId = SwitchId
  /\ rootPathCost = [s \in Switch |-> 0]
  /\ rootPort = [s \in Switch |-> NoPort]
  /\ blocked = {}
  /\ link = send_config_bpdu
  /\ losses = 0

Next == \E a \in Arc : process_configbpdu(a) \/ Lose(a)

Spec == Init /\ [][Next]_vars

\* The event list executes every event it holds.
FairSpec == Spec /\ WF_vars(\E a \in Arc : process_configbpdu(a))

----------------------------------------------------------------------------
(* Properties *)

\* Type of the state.
TypeOK ==
  /\ rootId \in [Switch -> Nat] /\ rootPathCost \in [Switch -> Nat]
  /\ rootPort \in [Switch -> Switch \cup {NoPort}]
  /\ blocked \subseteq Arc
  /\ link \in [Arc -> Seq(Bpdu)]
  /\ losses \in Nat

\* No BPDU is under way, and none was lost.
Settled == losses = 0 /\ \A a \in Arc : link[a] = <<>>

\* When the BPDUs have all been handled, the switches know one root, the
\* one of the lowest identifier.
RootAgreed ==
  Settled => \A s, t \in Switch : rootId[s] <= SwitchId[t] /\ rootId[s] = rootId[t]

IsRoot(s) == rootId[s] = SwitchId[s]

\* Then the costs solve the equations of the shortest paths, whatever path
\* a switch heard of first, and the root port leads along one.
ShortestPaths ==
  Settled => \A s \in Switch : ~IsRoot(s) =>
    /\ \A a \in Arc : a[2] = s => rootPathCost[s] <= rootPathCost[a[1]] + StpCost[a[1]]
    /\ <<s, rootPort[s]>> \in Arc
    /\ rootPathCost[s] = rootPathCost[rootPort[s]] + StpCost[rootPort[s]]

\* Then the links open at both ends contain no cycle: among any switches
\* there is one with at most one of them to the others.
Open(a) == a \notin blocked /\ Back(a) \notin blocked

CyclesCut ==
  Settled => \A S \in (SUBSET Switch) \ {{}} : \E s \in S :
    Cardinality({t \in S : <<s, t>> \in Arc /\ Open(<<s, t>>)}) <= 1

\* No BPDU makes a switch block the port it reaches the root through, even
\* when others are lost.
RootPortNotBlocked ==
  [][\A s \in Switch : LET port == <<s, rootPort'[s]>> IN
       port \in blocked' => port \in blocked]_vars

\* The exchange comes to an end.
Settles == <>[](\A a \in Arc : link[a] = <<>>)
=============================================================================
