------------------------------- MODULE Stream -------------------------------
(***************************************************************************)
(* What a connection promises to the two applications: each of them writes *)
(* packets and reads the packets the other has written, in order and once  *)
(* each, so that what it has read is at any time a prefix of what the      *)
(* other has written.  Nothing is promised of when, or whether, a packet   *)
(* is read.                                                                *)
(***************************************************************************)
EXTENDS Integers

CONSTANT Ep

VARIABLES
  written,   \* written[e]: how many packets the application of e has written
  read       \* read[e]: positions of the packets it has read

vars == <<written, read>>

Init ==
  /\ written = [e \in Ep |-> 0]
  /\ read = [e \in Ep |-> {}]

Write(e) ==
  /\ written'[e] > written[e]
  /\ written' = [written EXCEPT ![e] = written'[e]]
  /\ UNCHANGED read

Read(e) ==
  /\ \E f \in Ep \ {e} : \E n \in 1..written[f] :
       /\ read[e] \subseteq 1..n
       /\ read' = [read EXCEPT ![e] = 1..n]
  /\ UNCHANGED written

Next == \E e \in Ep : Write(e) \/ Read(e)

Spec == Init /\ [][Next]_vars

=============================================================================
