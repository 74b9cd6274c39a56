--------------------------- MODULE OSPF_tree_proof ---------------------------
(***************************************************************************)
(* OSPF on a tree of links, as long as no neighbour falls silent: every    *)
(* event has a handler, databases never go back to an older instance, and  *)
(* Full neighbours with nothing under way agree.                           *)
(*                                                                         *)
(* On a tree an arc <<r, n>> divides the routers into those behind r,      *)
(* which n hears of over this arc only, and the others.  The invariant is, *)
(* for each arc: what n has of a router behind r, what is under way over   *)
(* the arc, what is queued for it and what r has are in this order ever    *)
(* newer (Flow); n asks for what r has described, and for newer instances  *)
(* than it has (Asking); what n lacks is under way, queued, described or   *)
(* asked for (Lacking); and the DD packets of the two routers alternate    *)
(* (Phase).                                                                *)
(***************************************************************************)
EXTENDS OSPF_proof

\* X[a] are the routers behind the start of arc a.
Divides(X) ==
  \A a \in Arc : /\ a[1] \in X[a] /\ X[Back(a)] = Router \ X[a]
                 /\ \A b \in From(a[2]) : b # Back(a) => X[a] \subseteq X[b]

\* The links form a tree, or several.
Tree == \E X \in [Arc -> SUBSET Router] : Divides(X)
Behind == CHOOSE X \in [Arc -> SUBSET Router] : Divides(X)

\* l is k, or an older instance that r had fewer neighbours in.
Before(l, k) ==
  \/ l = k
  \/ /\ l.seq < k.seq
     /\ l.seq = 0 \/ (l.links \subseteq k.links /\ l.links # k.links)

Sync(a) == nbr[a].state \in Synchronizing

----------------------------------------------------------------------------
(* What a link s carries *)

LSAs(s)    == {s[i].lsa : i \in {j \in DOMAIN s : s[j].type = "lsu"}}
Headers(s) == UNION {s[i].headers : i \in {j \in DOMAIN s : s[j].type = "dd"}}
Asked(s)   == UNION {s[i].ids : i \in {j \in DOMAIN s : s[j].type = "lsr"}}

\* Instances of the same router are under way in their order.
InOrder(s) ==
  \A i, j \in DOMAIN s :
    /\ i < j /\ s[i].type = "lsu" /\ s[j].type = "lsu"
    /\ s[i].lsa.adv = s[j].lsa.adv
    => Before(s[i].lsa, s[j].lsa)

\* A hello, or a first DD.
Opener(m) ==
  \/ m.type = "hello"
  \/ m.type = "dd" /\ m.id.flags.init /\ m.headers = {}

Opening(s) == \A i \in DOMAIN s : Opener(s[i])
NoDD(s)    == \A i \in DOMAIN s : s[i].type # "dd"

\* One DD, whose identity is id.
OneDD(s, id) ==
  \E i \in DOMAIN s : /\ s[i].type = "dd" /\ s[i].id = id
                      /\ \A j \in DOMAIN s : j # i => s[j].type # "dd"

\* The last DD is id, and is preceded by openers only.
Leads(s, id) ==
  \E i \in DOMAIN s : /\ s[i].type = "dd" /\ s[i].id = id
                      /\ \A j \in DOMAIN s : j < i => Opener(s[j])
                      /\ \A j \in DOMAIN s : j > i => s[j].type # "dd"

----------------------------------------------------------------------------
(* The inductive invariant *)

\* The instances of the routers X that come from the database dr of the start
\* of an arc: those under way (U), queued (Q), and in the database dn of its
\* end.
Flow(X, dn, dr, U, Q) ==
  /\ \A x \in X : Before(dn[x], dr[x])
  /\ \A l \in U \cup Q : /\ l.adv \in X /\ l.seq > 0
                         /\ Before(dn[l.adv], l) /\ Before(l, dr[l.adv])
  /\ \A l \in U, k \in Q : l.adv = k.adv => Before(l, k)
  /\ \A l, k \in Q : l.adv = k.adv => l = k

\* T are the headers described and not read yet, R those requested, A the
\* routers asked for in requests under way, L the instances on their way.
Asking(X, dn, dr, L, T, R, A) ==
  /\ \A h \in T \cup R :
       /\ h.seq > 0
       /\ h.adv \in X => /\ h.seq <= dr[h.adv].seq
                         /\ \A l \in L : l.adv = h.adv => h.seq <= l.seq
       /\ h.adv \notin X => h.seq <= dn[h.adv].seq
       /\ \A k \in T \cup R : k.adv = h.adv => k = h
  /\ \A h \in R : h.adv \in X /\ dn[h.adv].seq < h.seq
  /\ \A x \in A : x \in X /\ dr[x].seq > 0

\* What the end lacks is on its way, or its header H is.
Lacking(X, dn, dr, L, H) ==
  \A x \in X : dr[x] = dn[x] \/ dr[x] \in L \/ HeaderOf(dr[x]) \in H

Told(a) == nbr[a].summary \cup Headers(link[a])

\* All this for an arc; nothing goes before its start synchronizes.
Core(X, dn, dr, U, Q, T, R, A, synchronizing) ==
  /\ Flow(X, dn, dr, U, Q)
  /\ Asking(X, dn, dr, U \cup Q, T, R, A)
  /\ IF synchronizing THEN Lacking(X, dn, dr, U \cup Q, T \cup R)
     ELSE U = {} /\ Q = {} /\ T = {} /\ R = {}

Data(a) ==
  /\ InOrder(link[a])
  /\ Core(Behind[a], lsdb[a[2]], lsdb[a[1]], LSAs(link[a]), updateLSA[a], Told(a),
          nbr[Back(a)].req, Asked(link[Back(a)]), Sync(a))

\* The identity of the last DD of nb.
LastDD(nb) ==
  [seq |-> nb.seq, flags |-> [init |-> FALSE, more |-> nb.more, master |-> nb.master]]

\* The slave says that it has no more when its summary list is empty.
Drained(nb) == ~nb.more => nb.summary = {}

\* M is the structure of the router that becomes the master, S that of the
\* slave, ms and sm the links between them.

\* The roles are not settled; the master may have sent its first DD.
Negotiating(M, S, ms, sm) ==
  /\ M.state \notin Synchronizing /\ S.state \notin Synchronizing
  /\ ~M.done /\ ~S.done /\ Opening(sm)
  /\ \/ NoDD(ms)
     \/ M.state = "ExStart" /\ M.more /\ OneDD(ms, InitialDD(M).id)

\* The slave has answered the first DD of the master.
SlaveFound(M, S, ms, sm) ==
  /\ M.state = "ExStart" /\ M.more /\ ~M.done
  /\ S.state = "Exchange" /\ ~S.done /\ ~S.master /\ Drained(S)
  /\ S.seq = M.seq /\ \A id \in S.lastrecv : id.seq <= S.seq
  /\ NoDD(ms) /\ Leads(sm, LastDD(S))

Exchange(M, S) ==
  /\ M.state \in Synchronizing /\ S.state \in Synchronizing
  /\ M.master /\ ~S.master /\ Drained(M) /\ Drained(S)
  /\ \A id \in M.lastrecv : id.seq < M.seq
  /\ \A id \in S.lastrecv : id.seq <= S.seq

\* A DD is on its way to the slave.
MasterSends(M, S, ms, sm) ==
  /\ Exchange(M, S) /\ M.seq = S.seq + 1
  /\ M.state = "Exchange" /\ ~M.done /\ S.state = "Exchange" /\ ~S.done
  /\ OneDD(ms, LastDD(M)) /\ NoDD(sm)

\* A DD is on its way to the master; it may be the last.
SlaveSends(M, S, ms, sm) ==
  /\ Exchange(M, S) /\ M.seq = S.seq
  /\ M.state = "Exchange" /\ ~M.done
  /\ M.more \/ S.more => S.state = "Exchange" /\ ~S.done
  /\ NoDD(ms) /\ OneDD(sm, LastDD(S))

\* Everything is described.
AllDescribed(M, S, ms, sm) ==
  /\ M.state \in Synchronizing /\ S.state \in Synchronizing
  /\ M.summary = {} /\ S.summary = {} /\ NoDD(ms) /\ NoDD(sm)

Turn(M, S, ms, sm) ==
  \/ Negotiating(M, S, ms, sm) \/ SlaveFound(M, S, ms, sm)
  \/ MasterSends(M, S, ms, sm) \/ SlaveSends(M, S, ms, sm)
  \/ AllDescribed(M, S, ms, sm)

Phase(a) == a[1] > a[2] => Turn(nbr[a], nbr[Back(a)], link[a], link[Back(a)])

\* The neighbours a router describes in its own LSA.
Adjacencies(r) == {a[2] : a \in {b \in From(r) : nbr[b].state = "Full"}}

\* A router that has a new neighbour is going to describe it.
Own(r) ==
  /\ lsdb[r][r].links \subseteq Adjacencies(r)
  /\ lsTimer[r] => lsdb[r][r].seq = 0 \/ lsdb[r][r].links # Adjacencies(r)

Named == \A r, x \in Router : lsdb[r][x].adv = x

TInv == /\ Named /\ ~unhandled
        /\ \A r \in Router : Own(r)
        /\ \A a \in Arc : Data(a) /\ Phase(a)

TreeInv == failures = 0 => TInv

----------------------------------------------------------------------------
(* Links *)

\* Taking the first packet of a link.
LEMMA Popping ==
  ASSUME NEW s \in Seq(Packet), s # <<>>
  PROVE  /\ Tail(s) \in Seq(Packet) /\ 1 \in DOMAIN s /\ Head(s) = s[1]
         /\ \A i \in DOMAIN Tail(s) :
              i \in Nat /\ i > 0 /\ i + 1 \in DOMAIN s /\ Tail(s)[i] = s[i + 1]
         /\ \A i \in DOMAIN s : i \in Nat /\ i > 0 /\ (i # 1 => i - 1 \in DOMAIN Tail(s)
                                                     /\ Tail(s)[i - 1] = s[i])
OBVIOUS

\* Adding packets to a link.
LEMMA Joining ==
  ASSUME NEW s \in Seq(Packet), NEW t \in Seq(Packet)
  PROVE  /\ s \o t \in Seq(Packet) /\ Len(s) \in Nat
         /\ \A i \in DOMAIN (s \o t) :
              \/ i \in DOMAIN s /\ (s \o t)[i] = s[i]
              \/ i > Len(s) /\ i - Len(s) \in DOMAIN t /\ (s \o t)[i] = t[i - Len(s)]
         /\ \A i \in DOMAIN s :
              /\ i \in Nat /\ i <= Len(s) /\ i \in DOMAIN (s \o t) /\ (s \o t)[i] = s[i]
         /\ \A i \in DOMAIN t :
              /\ i \in Nat /\ i > 0
              /\ i + Len(s) \in DOMAIN (s \o t) /\ (s \o t)[i + Len(s)] = t[i]
OBVIOUS

\* What a link carries, packet by packet.
LEMMA Carried ==
  ASSUME NEW s
  PROVE  /\ \A l : l \in LSAs(s) <=>
              \E i \in DOMAIN s : s[i].type = "lsu" /\ s[i].lsa = l
         /\ \A h : h \in Headers(s) <=>
              \E i \in DOMAIN s : s[i].type = "dd" /\ h \in s[i].headers
         /\ \A x : x \in Asked(s) <=>
              \E i \in DOMAIN s : s[i].type = "lsr" /\ x \in s[i].ids
BY DEF LSAs, Headers, Asked

\* What a typed link carries.
LEMMA CarriedType ==
  ASSUME NEW s \in Seq(Packet)
  PROVE  LSAs(s) \subseteq LSA /\ Headers(s) \subseteq Header /\ Asked(s) \subseteq Router
<1>1. \A i \in DOMAIN s : s[i] \in Packet
  OBVIOUS
<1>2. \A i \in DOMAIN s : /\ s[i].type = "dd" => s[i].headers \in SUBSET Header
                          /\ s[i].type = "lsr" => s[i].ids \in SUBSET Router
                          /\ s[i].type = "lsu" => s[i].lsa \in LSA
  BY <1>1, Kinds
<1> QED
  BY <1>2 DEF LSAs, Headers, Asked

\* A packet leaves with what it carries.
LEMMA PoppedCarries ==
  ASSUME NEW s \in Seq(Packet), s # <<>>
  PROVE  LET m == Head(s)  t == Tail(s)
         IN  /\ LSAs(s) = LSAs(t) \cup (IF m.type = "lsu" THEN {m.lsa} ELSE {})
             /\ Headers(s) = Headers(t) \cup (IF m.type = "dd" THEN m.headers ELSE {})
             /\ Asked(s) = Asked(t) \cup (IF m.type = "lsr" THEN m.ids ELSE {})
<1> DEFINE m == Head(s)
           t == Tail(s)
<1>1. /\ 1 \in DOMAIN s /\ m = s[1]
      /\ \A i \in DOMAIN t : i + 1 \in DOMAIN s /\ t[i] = s[i + 1]
      /\ \A i \in DOMAIN s : i = 1 \/ (i - 1 \in DOMAIN t /\ t[i - 1] = s[i])
  BY Popping
<1> HIDE DEF m, t
<1>2. \A i \in DOMAIN t : \E j \in DOMAIN s : s[j] = t[i]
  BY <1>1
<1>3. \A i \in DOMAIN s : s[i] = m \/ \E j \in DOMAIN t : t[j] = s[i]
  BY <1>1
<1>4. \E i \in DOMAIN s : s[i] = m
  BY <1>1
<1>5. \A l : l \in LSAs(s) <=> l \in LSAs(t) \/ (m.type = "lsu" /\ l = m.lsa)
  BY <1>2, <1>3, <1>4, Carried
<1>6. \A h : h \in Headers(s) <=> h \in Headers(t) \/ (m.type = "dd" /\ h \in m.headers)
  BY <1>2, <1>3, <1>4, Carried
<1>7. \A x : x \in Asked(s) <=> x \in Asked(t) \/ (m.type = "lsr" /\ x \in m.ids)
  BY <1>2, <1>3, <1>4, Carried
<1> QED
  BY <1>5, <1>6, <1>7 DEF m, t

\* Packets come with what they carry.
LEMMA JoinedCarries ==
  ASSUME NEW s \in Seq(Packet), NEW t \in Seq(Packet)
  PROVE  /\ LSAs(s \o t) = LSAs(s) \cup LSAs(t)
         /\ Headers(s \o t) = Headers(s) \cup Headers(t)
         /\ Asked(s \o t) = Asked(s) \cup Asked(t)
<1> DEFINE u == s \o t
<1>1. /\ \A i \in DOMAIN u : \/ i \in DOMAIN s /\ u[i] = s[i]
                             \/ i - Len(s) \in DOMAIN t /\ u[i] = t[i - Len(s)]
      /\ \A i \in DOMAIN s : i \in DOMAIN u /\ u[i] = s[i]
      /\ \A i \in DOMAIN t : i + Len(s) \in DOMAIN u /\ u[i + Len(s)] = t[i]
  BY Joining
<1> HIDE DEF u
<1>2. /\ \A i \in DOMAIN s : \E j \in DOMAIN u : u[j] = s[i]
      /\ \A i \in DOMAIN t : \E j \in DOMAIN u : u[j] = t[i]
      /\ \A i \in DOMAIN u : \/ \E j \in DOMAIN s : s[j] = u[i]
                             \/ \E j \in DOMAIN t : t[j] = u[i]
  BY <1>1
<1>3. \A l : l \in LSAs(u) <=> l \in LSAs(s) \/ l \in LSAs(t)
  BY <1>2, Carried
<1>4. \A l : l \in Headers(u) <=> l \in Headers(s) \/ l \in Headers(t)
  BY <1>2, Carried
<1>5. \A l : l \in Asked(u) <=> l \in Asked(s) \/ l \in Asked(t)
  BY <1>2, Carried
<1> QED
  BY <1>3, <1>4, <1>5 DEF u

\* One packet and what it carries.
LEMMA OneCarries ==
  ASSUME NEW m \in Packet
  PROVE  /\ <<m>> \in Seq(Packet)
         /\ LSAs(<<m>>) = IF m.type = "lsu" THEN {m.lsa} ELSE {}
         /\ Headers(<<m>>) = IF m.type = "dd" THEN m.headers ELSE {}
         /\ Asked(<<m>>) = IF m.type = "lsr" THEN m.ids ELSE {}
<1>1. /\ 1 \in DOMAIN <<m>> /\ <<m>>[1] = m
      /\ \A i \in DOMAIN <<m>> : <<m>>[i] = m
  OBVIOUS
<1>2. \A l : l \in LSAs(<<m>>) <=> m.type = "lsu" /\ l = m.lsa
  BY <1>1, Carried
<1>3. \A l : l \in Headers(<<m>>) <=> m.type = "dd" /\ l \in m.headers
  BY <1>1, Carried
<1>4. \A l : l \in Asked(<<m>>) <=> m.type = "lsr" /\ l \in m.ids
  BY <1>1, Carried
<1> QED
  BY <1>2, <1>3, <1>4

\* An empty answer carries nothing.
LEMMA NothingCarried ==
  /\ <<>> \in Seq(Packet)
  /\ LSAs(<<>>) = {} /\ Headers(<<>>) = {} /\ Asked(<<>>) = {}
  /\ NoDD(<<>>) /\ InOrder(<<>>) /\ Opening(<<>>)
BY DEF LSAs, Headers, Asked, NoDD, InOrder, Opening

\* The rest of a link is in order, and older than its head nowhere.
LEMMA PoppedOrder ==
  ASSUME NEW s \in Seq(Packet), s # <<>>, InOrder(s)
  PROVE  /\ InOrder(Tail(s))
         /\ Head(s).type = "lsu" =>
              \A l \in LSAs(Tail(s)) : Head(s).lsa.adv = l.adv => Before(Head(s).lsa, l)
<1> DEFINE t == Tail(s)
<1>1. /\ 1 \in DOMAIN s /\ Head(s) = s[1]
      /\ \A i \in DOMAIN t : i \in Nat /\ i > 0 /\ i + 1 \in DOMAIN s /\ t[i] = s[i + 1]
  BY Popping
<1> HIDE DEF t
<1>2. InOrder(t)
  <2> SUFFICES ASSUME NEW i \in DOMAIN t, NEW j \in DOMAIN t, i < j,
                      t[i].type = "lsu", t[j].type = "lsu", t[i].lsa.adv = t[j].lsa.adv
               PROVE  Before(t[i].lsa, t[j].lsa)
    BY DEF InOrder
  <2>1. i + 1 \in DOMAIN s /\ j + 1 \in DOMAIN s /\ i + 1 < j + 1
    BY <1>1
  <2>2. t[i] = s[i + 1] /\ t[j] = s[j + 1]
    BY <1>1
  <2> QED
    BY <2>1, <2>2 DEF InOrder
<1>3. ASSUME Head(s).type = "lsu", NEW l \in LSAs(t), Head(s).lsa.adv = l.adv
      PROVE  Before(Head(s).lsa, l)
  <2>1. PICK i \in DOMAIN t : t[i].type = "lsu" /\ t[i].lsa = l
    BY <1>3, Carried
  <2>2. i + 1 \in DOMAIN s /\ t[i] = s[i + 1] /\ 1 < i + 1
    BY <1>1
  <2> QED
    BY <1>1, <1>3, <2>1, <2>2 DEF InOrder
<1> QED
  BY <1>2, <1>3 DEF t

\* Two links in order make one.
LEMMA JoinedOrder ==
  ASSUME NEW s \in Seq(Packet), NEW t \in Seq(Packet), InOrder(s), InOrder(t),
         \A l \in LSAs(s), k \in LSAs(t) : l.adv = k.adv => Before(l, k)
  PROVE  InOrder(s \o t)
<1> DEFINE u == s \o t
<1> SUFFICES ASSUME NEW i \in DOMAIN u, NEW j \in DOMAIN u, i < j,
                    u[i].type = "lsu", u[j].type = "lsu", u[i].lsa.adv = u[j].lsa.adv
             PROVE  Before(u[i].lsa, u[j].lsa)
  BY DEF InOrder
<1>1. /\ Len(s) \in Nat
      /\ \A k \in DOMAIN u :
           \/ k \in DOMAIN s /\ u[k] = s[k]
           \/ k > Len(s) /\ k - Len(s) \in DOMAIN t /\ u[k] = t[k - Len(s)]
      /\ \A k \in DOMAIN s : k \in Nat /\ k <= Len(s)
      /\ i \in Nat /\ j \in Nat
  BY Joining
<1> HIDE DEF u
<1>2. CASE i \in DOMAIN s /\ u[i] = s[i] /\ j \in DOMAIN s /\ u[j] = s[j]
  BY <1>2 DEF InOrder
<1>3. CASE i \in DOMAIN s /\ u[i] = s[i]
           /\ j - Len(s) \in DOMAIN t /\ u[j] = t[j - Len(s)]
  <2>1. u[i].lsa \in LSAs(s) /\ u[j].lsa \in LSAs(t)
    BY <1>3, Carried
  <2> QED
    BY <2>1
<1>4. CASE i > Len(s) /\ j \in DOMAIN s
  BY <1>1, <1>4
<1>5. CASE /\ i - Len(s) \in DOMAIN t /\ u[i] = t[i - Len(s)]
           /\ j - Len(s) \in DOMAIN t /\ u[j] = t[j - Len(s)]
  <2>1. i - Len(s) < j - Len(s)
    BY <1>1
  <2> QED
    BY <1>5, <2>1 DEF InOrder
<1> QED
  BY <1>1, <1>2, <1>3, <1>4, <1>5

\* What an open link loses leaves it open.
LEMMA PoppedDD ==
  ASSUME NEW s \in Seq(Packet), s # <<>>
  PROVE  LET m == Head(s)  t == Tail(s)
         IN  /\ Opening(s) => Opener(m) /\ Opening(t)
             /\ NoDD(s) => m.type # "dd" /\ NoDD(t)
             /\ \A id : OneDD(s, id) =>
                  \/ m.type = "dd" /\ m.id = id /\ NoDD(t)
                  \/ m.type # "dd" /\ OneDD(t, id)
             /\ \A id : Leads(s, id) =>
                  \/ m.type = "dd" /\ m.id = id /\ NoDD(t)
                  \/ Opener(m) /\ Leads(t, id)
<1> DEFINE m == Head(s)
           t == Tail(s)
<1>1. /\ 1 \in DOMAIN s /\ m = s[1]
      /\ \A i \in DOMAIN t : i \in Nat /\ i > 0 /\ i + 1 \in DOMAIN s /\ t[i] = s[i + 1]
      /\ \A i \in DOMAIN s : i \in Nat /\ i > 0
                             /\ (i # 1 => i - 1 \in DOMAIN t /\ t[i - 1] = s[i])
  BY Popping
<1> HIDE DEF m, t
<1>2. Opening(s) => Opener(m) /\ Opening(t)
  BY <1>1 DEF Opening
<1>3. NoDD(s) => m.type # "dd" /\ NoDD(t)
  BY <1>1 DEF NoDD
<1>4. ASSUME NEW id, OneDD(s, id)
      PROVE  \/ m.type = "dd" /\ m.id = id /\ NoDD(t)
             \/ m.type # "dd" /\ OneDD(t, id)
  <2>1. PICK i \in DOMAIN s : /\ s[i].type = "dd" /\ s[i].id = id
                              /\ \A j \in DOMAIN s : j # i => s[j].type # "dd"
    BY <1>4 DEF OneDD
  <2>2. CASE i = 1
    <3>1. \A j \in DOMAIN t : j + 1 # 1
      BY <1>1
    <3>2. \A j \in DOMAIN t : t[j] = s[j + 1] /\ j + 1 \in DOMAIN s
      BY <1>1
    <3>3. \A j \in DOMAIN t : t[j].type # "dd"
      BY <2>1, <2>2, <3>1, <3>2
    <3>4. NoDD(t)
      BY <3>3 DEF NoDD
    <3>5. m.type = "dd" /\ m.id = id
      BY <1>1, <2>1, <2>2
    <3> QED
      BY <3>4, <3>5
  <2>3. CASE i # 1
    <3>1. i - 1 \in DOMAIN t /\ t[i - 1] = s[i]
      BY <1>1, <2>3
    <3>2. \A j \in DOMAIN t : j # i - 1 => j + 1 # i
      BY <1>1
    <3>3. \A j \in DOMAIN t : j # i - 1 => t[j].type # "dd"
      BY <1>1, <2>1, <3>2
    <3>4. m.type # "dd"
      BY <1>1, <2>1, <2>3
    <3>5. OneDD(t, id)
      BY <2>1, <3>1, <3>3 DEF OneDD
    <3> QED
      BY <3>4, <3>5
  <2> QED
    BY <2>2, <2>3
<1>5. ASSUME NEW id, Leads(s, id)
      PROVE  \/ m.type = "dd" /\ m.id = id /\ NoDD(t)
             \/ Opener(m) /\ Leads(t, id)
  <2>1. PICK i \in DOMAIN s : /\ s[i].type = "dd" /\ s[i].id = id
                              /\ \A j \in DOMAIN s : j < i => Opener(s[j])
                              /\ \A j \in DOMAIN s : j > i => s[j].type # "dd"
    BY <1>5 DEF Leads
  <2>2. CASE i = 1
    <3>1. \A j \in DOMAIN t : j + 1 > 1
      BY <1>1
    <3> QED
      BY <1>1, <2>1, <2>2, <3>1 DEF NoDD
  <2>3. CASE i # 1
    <3>1. i - 1 \in DOMAIN t /\ t[i - 1] = s[i] /\ 1 < i
      BY <1>1, <2>3
    <3>2. \A j \in DOMAIN t : /\ j < i - 1 => j + 1 < i
                              /\ j > i - 1 => j + 1 > i
      BY <1>1
    <3>3. Opener(m)
      BY <1>1, <2>1, <3>1
    <3>4. /\ \A j \in DOMAIN t : j < i - 1 => Opener(t[j])
          /\ \A j \in DOMAIN t : j > i - 1 => t[j].type # "dd"
      BY <1>1, <2>1, <3>2
    <3> QED
      BY <2>1, <3>1, <3>3, <3>4 DEF Leads
  <2> QED
    BY <2>2, <2>3
<1> QED
  BY <1>2, <1>3, <1>4, <1>5 DEF m, t

\* Packets other than DDs make no difference to the DDs of a link.
LEMMA JoinedNoDD ==
  ASSUME NEW s \in Seq(Packet), NEW t \in Seq(Packet), NoDD(t)
  PROVE  /\ NoDD(s) => NoDD(s \o t)
         /\ \A id : OneDD(s, id) => OneDD(s \o t, id)
         /\ \A id : Leads(s, id) => Leads(s \o t, id)
<1> DEFINE u == s \o t
<1>1. /\ \A i \in DOMAIN u : \/ i \in DOMAIN s /\ u[i] = s[i]
                             \/ i > Len(s) /\ i - Len(s) \in DOMAIN t /\ u[i] = t[i - Len(s)]
      /\ \A i \in DOMAIN s : i \in Nat /\ i <= Len(s) /\ i \in DOMAIN u /\ u[i] = s[i]
      /\ Len(s) \in Nat /\ \A i \in DOMAIN u : i \in Nat
  BY Joining
<1> HIDE DEF u
<1>2. \A i \in DOMAIN u : \/ i \in DOMAIN s /\ u[i] = s[i]
                          \/ i > Len(s) /\ u[i].type # "dd"
  BY <1>1 DEF NoDD
<1>3. NoDD(s) => NoDD(u)
  BY <1>2 DEF NoDD
<1>4. ASSUME NEW id, OneDD(s, id) PROVE OneDD(u, id)
  BY <1>1, <1>2, <1>4 DEF OneDD
<1>5. ASSUME NEW id, Leads(s, id) PROVE Leads(u, id)
  <2>1. PICK i \in DOMAIN s : /\ s[i].type = "dd" /\ s[i].id = id
                              /\ \A j \in DOMAIN s : j < i => Opener(s[j])
                              /\ \A j \in DOMAIN s : j > i => s[j].type # "dd"
    BY <1>5 DEF Leads
  <2>2. i \in DOMAIN u /\ u[i] = s[i]
    BY <1>1
  <2>3. \A j \in DOMAIN u : j < i => j \in DOMAIN s /\ u[j] = s[j]
    BY <1>1
  <2>4. \A j \in DOMAIN u : j < i => Opener(u[j])
    BY <2>1, <2>3
  <2>5. \A j \in DOMAIN u : j > i => u[j].type # "dd"
    BY <1>2, <2>1
  <2> QED
    BY <2>1, <2>2, <2>4, <2>5 DEF Leads
<1> QED
  BY <1>3, <1>4, <1>5 DEF u

\* A DD is added to a link.
LEMMA JoinedDD ==
  ASSUME NEW s \in Seq(Packet), NEW m \in Packet, m.type = "dd"
  PROVE  /\ NoDD(s) => OneDD(s \o <<m>>, m.id)
         /\ Opening(s) => Leads(s \o <<m>>, m.id)
<1> DEFINE u == s \o <<m>>
           n == Len(s) + 1
<1>1. /\ \A i \in DOMAIN u : \/ i \in DOMAIN s /\ u[i] = s[i] /\ i < n
                             \/ i = n /\ u[i] = m
      /\ n \in DOMAIN u /\ u[n] = m /\ n \in Nat /\ \A i \in DOMAIN u : i \in Nat
  OBVIOUS
<1> HIDE DEF u, n
<1>2. NoDD(s) => OneDD(u, m.id)
  BY <1>1 DEF NoDD, OneDD
<1>3. ASSUME Opening(s) PROVE Leads(u, m.id)
  <2>1. \A j \in DOMAIN u : j < n => Opener(u[j])
    BY <1>1, <1>3 DEF Opening
  <2>2. \A j \in DOMAIN u : ~(j > n)
    BY <1>1
  <2> QED
    BY <1>1, <2>1, <2>2 DEF Leads
<1> QED
  BY <1>2, <1>3 DEF u

\* Openers are added to an open link.
LEMMA JoinedOpening ==
  ASSUME NEW s \in Seq(Packet), NEW t \in Seq(Packet), Opening(s), Opening(t)
  PROVE  Opening(s \o t)
BY Joining DEF Opening

----------------------------------------------------------------------------
(* Instances in order *)

\* The order of instances.
LEMMA BeforeOrder ==
  ASSUME NEW j \in LSA, NEW k \in LSA, NEW l \in LSA
  PROVE  /\ Before(l, l)
         /\ Before(j, k) /\ Before(k, l) => Before(j, l)
         /\ Before(j, k) => j.seq <= k.seq
         /\ Before(j, k) /\ k.seq <= j.seq => j = k
         /\ j.seq = 0 /\ k.seq > 0 => Before(j, k)
<1>1. j.seq \in Nat /\ k.seq \in Nat /\ l.seq \in Nat
  BY DEF LSA
<1>2. ASSUME Before(j, k), Before(k, l) PROVE Before(j, l)
  <2>1. CASE j = k \/ k = l
    BY <1>2, <2>1
  <2>2. CASE j # k /\ k # l
    <3>1. j.seq < l.seq /\ k.seq # 0
      BY <1>1, <1>2, <2>2 DEF Before
    <3>2. j.seq = 0 \/ (j.links \subseteq l.links /\ j.links # l.links)
      BY <1>2, <2>2, <3>1 DEF Before
    <3> QED
      BY <3>1, <3>2 DEF Before
  <2> QED
    BY <2>1, <2>2
<1> QED
  BY <1>1, <1>2 DEF Before

\* The queue after instances are put in.
LEMMA QueueHolds ==
  ASSUME NEW Q, NEW lsas
  PROVE  /\ Queue(Q, lsas) \subseteq Q \cup lsas
         /\ \A k \in Queue(Q, lsas) : k \in lsas \/ \A l \in lsas : k.adv = l.adv => k.seq >= l.seq
         /\ \A k \in Q : k \in Queue(Q, lsas) \/ \E l \in lsas : k.adv = l.adv /\ ~(k.seq >= l.seq)
         /\ \A l \in lsas : l \in Queue(Q, lsas) \/ \E k \in Q : k.adv = l.adv /\ ~(k.seq < l.seq)
BY DEF Queue

----------------------------------------------------------------------------
(* What goes over an arc *)

\* The parts of the invariant of an arc are typed, and an instance is
\* stored under its router.
CoreType(X, dn, dr, U, Q, T, R) ==
  /\ X \subseteq Router /\ dn \in [Router -> LSA] /\ dr \in [Router -> LSA]
  /\ U \subseteq LSA /\ Q \subseteq LSA /\ T \subseteq Header /\ R \subseteq Header
  /\ \A x \in Router : dn[x].adv = x /\ dr[x].adv = x

\* A request under way asks for what the request list holds.
LEMMA CoreAsk ==
  ASSUME NEW X, NEW dn, NEW dr, NEW U, NEW Q, NEW T, NEW R, NEW A, NEW sync,
         CoreType(X, dn, dr, U, Q, T, R), Core(X, dn, dr, U, Q, T, R, A, sync),
         NEW B, B \subseteq A \cup {h.adv : h \in R}
  PROVE  Core(X, dn, dr, U, Q, T, R, B, sync)
<1>1. \A x \in A : x \in X /\ dr[x].seq > 0
  BY DEF Core, Asking
<1>2. ASSUME NEW h \in R PROVE h.adv \in X /\ dr[h.adv].seq > 0
  <2>1. h.adv \in X /\ h.seq > 0 /\ h.seq <= dr[h.adv].seq
    BY DEF Core, Asking
  <2>2. h.seq \in Nat /\ dr[h.adv].seq \in Nat
    BY <2>1 DEF CoreType, Header, LSA
  <2> QED
    BY <2>1, <2>2
<1>3. \A x \in B : x \in X /\ dr[x].seq > 0
  BY <1>1, <1>2
<1> QED
  BY <1>3 DEF Core, Asking

\* Of the headers H, those that are new to database db and request list R.
News(H, db, R) == {h \in H : db[h.adv].seq < h.seq /\ \A q \in R : q.adv # h.adv}

\* A DD with headers H is read: the new ones are requested.
LEMMA CoreRead ==
  ASSUME NEW X, NEW dn, NEW dr, NEW U, NEW Q, NEW T, NEW R, NEW A, NEW sync,
         CoreType(X, dn, dr, U, Q, T, R), Core(X, dn, dr, U, Q, T, R, A, sync),
         NEW T2, NEW H, T = T2 \cup H,
         NEW R2, R2 = R \cup News(H, dn, R)
  PROVE  Core(X, dn, dr, U, Q, T2, R2, A, sync)
<1> DEFINE L == U \cup Q
<1>0. R2 = R \cup {h \in H : dn[h.adv].seq < h.seq /\ \A q \in R : q.adv # h.adv}
  BY DEF News
<1>1. T2 \cup R2 \subseteq T \cup R
  BY <1>0
<1>2. \A h \in T \cup R : h.adv \in Router /\ h.seq \in Nat /\ dn[h.adv] \in LSA /\ dn[h.adv].seq \in Nat
  BY DEF CoreType, Header, LSA
<1>3. ASSUME NEW h \in R2 PROVE h.adv \in X /\ dn[h.adv].seq < h.seq
  <2>1. CASE h \in R
    BY <2>1 DEF Core, Asking
  <2>2. CASE h \in T /\ dn[h.adv].seq < h.seq
    BY <1>2, <2>2 DEF Core, Asking
  <2> QED
    BY <1>0, <1>1, <2>1, <2>2
<1>4. Asking(X, dn, dr, L, T2, R2, A)
  BY <1>1, <1>3 DEF Core, Asking
<1>5. ASSUME sync PROVE Lacking(X, dn, dr, L, T2 \cup R2)
  <2> SUFFICES ASSUME NEW x \in X, dr[x] # dn[x], dr[x] \notin L
               PROVE  HeaderOf(dr[x]) \in T2 \cup R2
    BY DEF Lacking
  <2> DEFINE h == HeaderOf(dr[x])
  <2>1. h \in T \cup R
    BY <1>5 DEF Core, Lacking
  <2>2. x \in Router /\ Before(dn[x], dr[x]) /\ dn[x] \in LSA /\ dr[x] \in LSA
    BY DEF Core, Flow, CoreType
  <2>3. h.seq = dr[x].seq /\ h.adv = dr[x].adv
    BY DEF HeaderOf
  <2> HIDE DEF h
  <2>4. CASE h \in T2 \cup R
    BY <2>4 DEF h
  <2>5. CASE h \in H /\ \E q \in R : q.adv = h.adv
    <3>1. h \in R
      BY <2>1, <2>5 DEF Core, Asking
    <3> QED
      BY <3>1 DEF h
  <2>6. CASE h \in H /\ ~(dn[h.adv].seq < h.seq)
    <3>1. h.adv = x
      BY <2>2, <2>3 DEF CoreType
    <3>2. dn[x].seq \in Nat /\ dr[x].seq \in Nat /\ dr[x].seq <= dn[x].seq
      BY <2>2, <2>3, <2>6, <3>1 DEF LSA
    <3> QED
      BY <2>2, <3>2, BeforeOrder
  <2> QED
    BY <1>0, <2>1, <2>4, <2>5, <2>6 DEF h
<1>6. ~sync => T2 = {} /\ R2 = {}
  BY <1>0 DEF Core
<1> QED
  BY <1>4, <1>5, <1>6 DEF Core

\* The headers of a database.
Contents(db) == {HeaderOf(db[x]) : x \in {y \in Router : db[y].seq > 0}}

\* The exchange begins: the whole database is going to be described.
LEMMA CoreBegin ==
  ASSUME NEW X, NEW dn, NEW dr, NEW A,
         CoreType(X, dn, dr, {}, {}, {}, {}), Core(X, dn, dr, {}, {}, {}, {}, A, FALSE),
         \A x \in Router \ X : dr[x].seq <= dn[x].seq
  PROVE  Core(X, dn, dr, {}, {}, Contents(dr), {}, A, TRUE)
<1> DEFINE T == Contents(dr)
<1>1. \A x \in Router : /\ dr[x] \in LSA /\ dn[x] \in LSA /\ dr[x].adv = x
                        /\ dr[x].seq \in Nat /\ dn[x].seq \in Nat
  BY DEF CoreType, LSA
<1>2. \A h \in T : h.adv \in Router /\ h.seq = dr[h.adv].seq /\ h.seq > 0 /\ h = HeaderOf(dr[h.adv])
  <2> SUFFICES ASSUME NEW h \in T
               PROVE  h.adv \in Router /\ h.seq = dr[h.adv].seq /\ h.seq > 0 /\ h = HeaderOf(dr[h.adv])
    OBVIOUS
  <2>1. PICK x \in Router : dr[x].seq > 0 /\ h = HeaderOf(dr[x])
    BY DEF Contents
  <2>2. h.adv = x /\ h.seq = dr[x].seq
    BY <1>1, <2>1 DEF HeaderOf
  <2> QED
    BY <2>1, <2>2
<1>3. \A x \in Router : dr[x].seq > 0 => HeaderOf(dr[x]) \in T
  BY DEF Contents
<1> HIDE DEF T
<1>4. \A h \in T \cup {} :
        /\ h.seq > 0
        /\ h.adv \in X => /\ h.seq <= dr[h.adv].seq
                          /\ \A l \in {} \cup {} : l.adv = h.adv => h.seq <= l.seq
        /\ h.adv \notin X => h.seq <= dn[h.adv].seq
        /\ \A k \in T \cup {} : k.adv = h.adv => k = h
  BY <1>1, <1>2
<1>5. Asking(X, dn, dr, {} \cup {}, T, {}, A)
  BY <1>4 DEF Core, Asking
<1>6. ASSUME NEW x \in X, dr[x] # dn[x] PROVE HeaderOf(dr[x]) \in T
  <2>1. x \in Router /\ Before(dn[x], dr[x])
    BY DEF CoreType, Core, Flow
  <2>2. dr[x].seq > 0
    BY <1>1, <1>6, <2>1, BeforeOrder
  <2> QED
    BY <1>3, <2>1, <2>2
<1>7. Lacking(X, dn, dr, {} \cup {}, T \cup {})
  BY <1>6 DEF Lacking
<1>8. Core(X, dn, dr, {}, {}, T, {}, A, TRUE)
  BY <1>5, <1>7 DEF Core
<1> QED
  BY <1>8 DEF T

\* The instances of the routers S.
Instances(db, S) == {db[x] : x \in S}

\* Requested instances are put in the queue.
LEMMA CoreServe ==
  ASSUME NEW X, NEW dn, NEW dr, NEW U, NEW Q, NEW T, NEW R, NEW A, NEW sync \in BOOLEAN,
         CoreType(X, dn, dr, U, Q, T, R), Core(X, dn, dr, U, Q, T, R, A, sync), sync,
         NEW S, S \subseteq A
  PROVE  /\ CoreType(X, dn, dr, U, Queue(Q, Instances(dr, S)), T, R)
         /\ Core(X, dn, dr, U, Queue(Q, Instances(dr, S)), T, R, A, sync)
<1> DEFINE N == Instances(dr, S)
           P == Queue(Q, N)
<1>1. \A x \in S : x \in X /\ x \in Router /\ dr[x].seq > 0
  BY DEF Core, Asking, CoreType
<1>2. /\ \A x \in Router : dr[x] \in LSA /\ dn[x] \in LSA /\ dr[x].adv = x
                           /\ dr[x].seq \in Nat
      /\ \A l \in U \cup Q : l \in LSA /\ l.seq \in Nat /\ l.adv \in Router
  BY DEF CoreType, LSA
<1>3. /\ \A x \in X : Before(dn[x], dr[x])
      /\ \A l \in U \cup Q : /\ l.adv \in X /\ l.seq > 0
                             /\ Before(dn[l.adv], l) /\ Before(l, dr[l.adv])
      /\ \A l \in U, k \in Q : l.adv = k.adv => Before(l, k)
      /\ \A l, k \in Q : l.adv = k.adv => l = k
  BY DEF Core, Flow
<1>4. \A l \in N : l.adv \in S /\ l = dr[l.adv]
  BY <1>1, <1>2 DEF Instances
<1>5. \A k \in P : k \in N \/ (k \in Q /\ \A l \in N : k.adv = l.adv => k.seq >= l.seq)
  BY QueueHolds
<1>6. \A k \in P : k \in N \/ (k \in Q /\ k.adv \notin S) \/ k = dr[k.adv]
  <2> SUFFICES ASSUME NEW k \in P, k \notin N, k.adv \in S PROVE k = dr[k.adv]
    BY <1>5
  <2>1. k \in Q /\ k.seq >= dr[k.adv].seq /\ Before(k, dr[k.adv])
    BY <1>1, <1>2, <1>3, <1>5 DEF Instances
  <2> QED
    BY <1>1, <1>2, <2>1, BeforeOrder
<1>7. \A k \in P : k \in Q \/ k \in N
  BY <1>5
<1>8. ASSUME NEW y \in X, dr[y] \in Q PROVE dr[y] \in P
  <2>1. y \in Router
    BY DEF CoreType
  <2>2. ASSUME NEW l \in N, dr[y].adv = l.adv PROVE dr[y].seq >= l.seq
    BY <1>2, <1>4, <2>1, <2>2
  <2> QED
    BY <1>8, <2>2, QueueHolds
<1> HIDE DEF N, P
<1>9. \A k \in P : /\ k.adv \in X /\ k.seq > 0 /\ k \in LSA
                   /\ Before(dn[k.adv], k) /\ Before(k, dr[k.adv])
  <2>1. ASSUME NEW k \in N
        PROVE  /\ k.adv \in X /\ k.seq > 0 /\ k \in LSA
               /\ Before(dn[k.adv], k) /\ Before(k, dr[k.adv])
    BY <1>1, <1>2, <1>3, <1>4, BeforeOrder
  <2> QED
    BY <1>2, <1>3, <1>7, <2>1
<1>10. \A l \in U, k \in P : l.adv = k.adv => Before(l, k)
  BY <1>3, <1>4, <1>7
<1>11. \A l, k \in P : l.adv = k.adv => l = k
  <2> SUFFICES ASSUME NEW l \in P, NEW k \in P, l.adv = k.adv PROVE l = k
    OBVIOUS
  <2>1. CASE l.adv \in S
    BY <1>4, <1>6, <2>1
  <2>2. CASE l.adv \notin S
    BY <1>3, <1>4, <1>6, <1>7, <2>2
  <2> QED
    BY <2>1, <2>2
<1>12. Flow(X, dn, dr, U, P)
  BY <1>3, <1>9, <1>10, <1>11 DEF Flow
<1>13. Asking(X, dn, dr, U \cup P, T, R, A)
  <2>1. ASSUME NEW h \in T \cup R, h.adv \in X, NEW l \in U \cup P, l.adv = h.adv
        PROVE  h.seq <= l.seq
    <3>1. h.seq <= dr[h.adv].seq /\ \A k \in U \cup Q : k.adv = h.adv => h.seq <= k.seq
      BY <2>1 DEF Core, Asking
    <3> QED
      BY <1>4, <1>7, <2>1, <3>1
  <2> QED
    BY <2>1 DEF Core, Asking
<1>14. Lacking(X, dn, dr, U \cup P, T \cup R)
  BY <1>8 DEF Core, Lacking
<1>15. Core(X, dn, dr, U, P, T, R, A, sync)
  BY <1>12, <1>13, <1>14 DEF Core
<1>16. CoreType(X, dn, dr, U, P, T, R)
  BY <1>9 DEF CoreType
<1> QED
  BY <1>15, <1>16 DEF P, N

\* The queue is sent.
LEMMA CoreFlush ==
  ASSUME NEW X, NEW dn, NEW dr, NEW U, NEW Q, NEW T, NEW R, NEW A, NEW sync,
         Core(X, dn, dr, U, Q, T, R, A, sync)
  PROVE  Core(X, dn, dr, U \cup Q, {}, T, R, A, sync)
<1>1. (U \cup Q) \cup {} = U \cup Q
  OBVIOUS
<1>2. Flow(X, dn, dr, U \cup Q, {})
  BY DEF Core, Flow
<1> QED
  BY <1>1, <1>2 DEF Core

\* The requests an instance does not answer, and a database that stores it.
Left(R, l) == {q \in R : q.adv = l.adv => l.seq < q.seq}
With(db, l) == [db EXCEPT ![l.adv] = l]

\* An update is taken from the link into the database, and answers requests.
LEMMA CoreTake ==
  ASSUME NEW X, NEW dn, NEW dr, NEW U, NEW Q, NEW T, NEW R, NEW A, NEW sync,
         CoreType(X, dn, dr, U, Q, T, R), Core(X, dn, dr, U, Q, T, R, A, sync),
         NEW l, NEW U2, U = U2 \cup {l},
         \A u \in U2 : l.adv = u.adv => Before(l, u),
         NEW R2, R2 = Left(R, l)
  PROVE  /\ \A q : q \in R2 <=> q \in R /\ q.adv # l.adv
         /\ l.adv \in X /\ Before(dn[l.adv], l)
         /\ Core(X, With(dn, l), dr, U2, Q, T, R2, A, sync)
<1> DEFINE x == l.adv
           dm == With(dn, l)
<1>1. /\ \A y \in Router : dr[y] \in LSA /\ dn[y] \in LSA /\ dr[y].adv = y
                           /\ dr[y].seq \in Nat /\ dn[y].seq \in Nat
      /\ \A k \in U \cup Q : k \in LSA /\ k.seq \in Nat /\ k.adv \in Router
      /\ \A h \in T \cup R : h.seq \in Nat /\ h.adv \in Router
      /\ l \in LSA /\ l.seq \in Nat /\ x \in Router
  BY DEF CoreType, LSA, Header
<1>2. /\ \A y \in X : Before(dn[y], dr[y])
      /\ \A k \in U \cup Q : /\ k.adv \in X /\ k.seq > 0
                             /\ Before(dn[k.adv], k) /\ Before(k, dr[k.adv])
      /\ \A j \in U, k \in Q : j.adv = k.adv => Before(j, k)
      /\ \A j, k \in Q : j.adv = k.adv => j = k
  BY DEF Core, Flow
<1>3. x \in X /\ Before(dn[x], l) /\ Before(l, dr[x])
  BY <1>2
<1>4. \A y \in Router : dm[y] = IF y = x THEN l ELSE dn[y]
  BY <1>1 DEF CoreType, With
<1> HIDE DEF dm, x
<1>5. \A q : q \in R2 <=> q \in R /\ q.adv # x
  <2>1. \A q \in R : q.adv = x => q.seq <= l.seq
    BY <1>3, l \in U \cup Q DEF Core, Asking, x
  <2> QED
    BY <1>1, <2>1 DEF x, Left
<1>6. Flow(X, dm, dr, U2, Q)
  <2>1. \A y \in X : y \in Router
    BY DEF CoreType
  <2>2. \A y \in X : Before(dm[y], dr[y])
    BY <1>2, <1>3, <1>4, <2>1
  <2>3. \A k \in U2 \cup Q : k \in U \cup Q /\ Before(dm[k.adv], k)
    BY <1>1, <1>2, <1>4 DEF x
  <2> QED
    BY <1>2, <2>2, <2>3 DEF Flow
<1>7. Asking(X, dm, dr, U2 \cup Q, T, R2, A)
  <2>1. R2 \subseteq R
    BY <1>5
  <2>2. \A h \in T \cup R2 : h.adv \notin X => h.seq <= dm[h.adv].seq
    BY <1>1, <1>3, <1>4, <2>1 DEF Core, Asking
  <2>3. \A h \in R2 : h.adv \in X /\ dm[h.adv].seq < h.seq
    BY <1>1, <1>4, <1>5 DEF Core, Asking
  <2> QED
    BY <2>1, <2>2, <2>3 DEF Core, Asking
<1>8. ASSUME sync PROVE Lacking(X, dm, dr, U2 \cup Q, T \cup R2)
  <2> SUFFICES ASSUME NEW y \in X, dr[y] # dm[y], dr[y] \notin U2 \cup Q
               PROVE  HeaderOf(dr[y]) \in T \cup R2
    BY DEF Lacking
  <2>0. y \in Router
    BY DEF CoreType
  <2>1. dr[y] = dn[y] \/ dr[y] \in U \cup Q \/ HeaderOf(dr[y]) \in T \cup R
    BY <1>8 DEF Core, Lacking
  <2>2. CASE y = x
    <3>1. l # dr[x]
      BY <1>3, <1>4, <2>2, <1>1
    <3>2. dr[x] # dn[x]
      BY <1>1, <1>3, <3>1, BeforeOrder
    <3>3. HeaderOf(dr[x]) \in T \cup R
      BY <2>1, <2>2, <3>1, <3>2
    <3>4. l.seq < dr[x].seq
      BY <1>1, <1>3, <3>1, BeforeOrder
    <3> DEFINE h == HeaderOf(dr[x])
    <3>5. h.adv = x /\ h.seq = dr[x].seq
      BY <1>1 DEF HeaderOf
    <3> HIDE DEF h
    <3>6. h \notin R
      BY <1>1, <1>3, <3>4, <3>5 DEF Core, Asking, x
    <3> QED
      BY <2>2, <3>3, <3>6 DEF h
  <2>3. CASE y # x
    <3>1. dr[y] # l /\ dm[y] = dn[y]
      BY <1>1, <1>4, <2>0, <2>3 DEF x
    <3>2. HeaderOf(dr[y]) \in T \cup R
      BY <2>1, <3>1
    <3>3. HeaderOf(dr[y]).adv = y
      BY <1>1, <2>0 DEF HeaderOf
    <3> QED
      BY <1>5, <2>3, <3>2, <3>3
  <2> QED
    BY <2>2, <2>3
<1>9. ~sync => U2 = {} /\ Q = {} /\ T = {} /\ R2 = {}
  BY <1>5 DEF Core
<1>10. Core(X, dm, dr, U2, Q, T, R2, A, sync)
  BY <1>6, <1>7, <1>8, <1>9 DEF Core
<1> QED
  BY <1>3, <1>5, <1>10 DEF x, dm

\* The start of the arc stores a newer instance of a router behind it, and
\* queues it.
LEMMA CoreStore ==
  ASSUME NEW X, NEW dn, NEW dr, NEW U, NEW Q, NEW T, NEW R, NEW A, NEW sync \in BOOLEAN,
         CoreType(X, dn, dr, U, Q, T, R), Core(X, dn, dr, U, Q, T, R, A, sync),
         NEW l \in LSA, l.adv \in X, Before(dr[l.adv], l), dr[l.adv].seq < l.seq,
         NEW P, P = IF sync THEN Queue(Q, {l}) ELSE Q
  PROVE  Core(X, dn, With(dr, l), U, P, T, R, A, sync)
<1> DEFINE x == l.adv
           dm == With(dr, l)
<1>1. /\ \A y \in Router : dr[y] \in LSA /\ dn[y] \in LSA /\ dr[y].adv = y
                           /\ dr[y].seq \in Nat /\ dn[y].seq \in Nat
      /\ \A k \in U \cup Q : k \in LSA /\ k.seq \in Nat /\ k.adv \in Router
      /\ \A h \in T \cup R : h.seq \in Nat /\ h.adv \in Router
      /\ l.seq \in Nat /\ x \in Router
  BY DEF CoreType, LSA, Header
<1>2. /\ \A y \in X : Before(dn[y], dr[y])
      /\ \A k \in U \cup Q : /\ k.adv \in X /\ k.seq > 0
                             /\ Before(dn[k.adv], k) /\ Before(k, dr[k.adv])
      /\ \A j \in U, k \in Q : j.adv = k.adv => Before(j, k)
      /\ \A j, k \in Q : j.adv = k.adv => j = k
  BY DEF Core, Flow
<1>3. \A y \in Router : dm[y] = IF y = x THEN l ELSE dr[y]
  BY <1>1 DEF CoreType, With
<1>4. x \in X /\ Before(dr[x], l) /\ dr[x].seq < l.seq /\ l.seq > 0
  BY <1>1
<1> HIDE DEF dm, x
<1>5. \A k \in U \cup Q : k.adv = x => k.seq < l.seq /\ Before(k, l)
  BY <1>1, <1>2, <1>4, BeforeOrder
<1>6. \A k \in P : k \in Q \/ (sync /\ k = l)
  BY QueueHolds
<1>7. sync => \A k \in P : k = l \/ (k \in Q /\ k.adv # x)
  <2> SUFFICES ASSUME sync, NEW k \in P, k # l, k.adv = x PROVE FALSE
    BY <1>6
  <2>1. k \in Q /\ k.seq >= l.seq
    BY QueueHolds DEF x
  <2> QED
    BY <1>1, <1>5, <2>1
<1>8. sync => l \in P
  <2> SUFFICES ASSUME sync, l \notin P PROVE FALSE
    OBVIOUS
  <2>1. \E k \in Q : k.adv = x /\ ~(k.seq < l.seq)
    BY QueueHolds DEF x
  <2> QED
    BY <1>5, <2>1
<1>9. sync => \A k \in Q : k.adv # x => k \in P
  BY QueueHolds DEF x
<1>10. ~sync => P = {} /\ Q = {} /\ U = {} /\ T = {} /\ R = {}
  BY DEF Core
<1>11. Flow(X, dn, dm, U, P)
  <2>1. \A y \in X : y \in Router
    BY DEF CoreType
  <2>2. \A y \in X : Before(dn[y], dm[y])
    BY <1>1, <1>2, <1>3, <1>4, <2>1, BeforeOrder
  <2>3. Before(l, l) /\ Before(dn[x], l)
    BY <1>1, <1>2, <1>4, BeforeOrder
  <2>4. \A k \in U \cup P : /\ k.adv \in X /\ k.seq > 0
                            /\ Before(dn[k.adv], k) /\ Before(k, dm[k.adv])
    <3>1. \A k \in U \cup Q : /\ k.adv \in X /\ k.seq > 0
                              /\ Before(dn[k.adv], k) /\ Before(k, dm[k.adv])
      BY <1>1, <1>2, <1>3, <1>5
    <3>2. /\ l.adv \in X /\ l.seq > 0
          /\ Before(dn[l.adv], l) /\ Before(l, dm[l.adv])
      BY <1>1, <1>3, <1>4, <2>3 DEF x
    <3> QED
      BY <1>6, <3>1, <3>2
  <2>5. \A j \in U, k \in P : j.adv = k.adv => Before(j, k)
    BY <1>2, <1>5, <1>6 DEF x
  <2>6. \A j, k \in P : j.adv = k.adv => j = k
    BY <1>2, <1>7, <1>10 DEF x
  <2> QED
    BY <2>2, <2>4, <2>5, <2>6 DEF Flow
<1>12. Asking(X, dn, dm, U \cup P, T, R, A)
  <2>1. ASSUME NEW h \in T \cup R, h.adv \in X
        PROVE  /\ h.seq <= dm[h.adv].seq
               /\ \A k \in U \cup P : k.adv = h.adv => h.seq <= k.seq
    <3>1. h.seq <= dr[h.adv].seq /\ \A k \in U \cup Q : k.adv = h.adv => h.seq <= k.seq
      BY <2>1 DEF Core, Asking
    <3>2. h.adv = x => h.seq <= l.seq
      BY <1>1, <1>4, <3>1
    <3> QED
      BY <1>1, <1>3, <1>6, <3>1, <3>2 DEF x
  <2>2. \A y \in A : y \in X /\ dm[y].seq > 0
    <3>1. \A y \in A : y \in X /\ y \in Router /\ dr[y].seq > 0
      BY DEF Core, Asking, CoreType
    <3> QED
      BY <1>3, <1>4, <3>1
  <2> QED
    BY <2>1, <2>2 DEF Core, Asking
<1>13. ASSUME sync PROVE Lacking(X, dn, dm, U \cup P, T \cup R)
  <2> SUFFICES ASSUME NEW y \in X, dm[y] # dn[y], dm[y] \notin U \cup P
               PROVE  HeaderOf(dm[y]) \in T \cup R
    BY DEF Lacking
  <2>1. y \in Router /\ y # x
    BY <1>3, <1>8, <1>13 DEF CoreType
  <2>2. dm[y] = dr[y] /\ dr[y].adv # x
    BY <1>1, <1>3, <2>1
  <2>3. dr[y] \notin U \cup Q
    BY <1>9, <1>13, <2>2
  <2> QED
    BY <1>13, <2>2, <2>3 DEF Core, Lacking
<1>14. Core(X, dn, dm, U, P, T, R, A, sync)
  BY <1>10, <1>11, <1>12, <1>13 DEF Core
<1> QED
  BY <1>14 DEF dm

\* The start of the arc stores an instance of a router that is not behind
\* it.
LEMMA CoreNear ==
  ASSUME NEW X, NEW dn, NEW dr, NEW U, NEW Q, NEW T, NEW R, NEW A, NEW sync,
         Core(X, dn, dr, U, Q, T, R, A, sync),
         NEW dm, \A y \in X : dm[y] = dr[y]
  PROVE  Core(X, dn, dm, U, Q, T, R, A, sync)
<1>1. Flow(X, dn, dm, U, Q)
  BY DEF Core, Flow
<1>2. Asking(X, dn, dm, U \cup Q, T, R, A)
  BY DEF Core, Asking
<1>3. sync => Lacking(X, dn, dm, U \cup Q, T \cup R)
  BY DEF Core, Lacking
<1> QED
  BY <1>1, <1>2, <1>3 DEF Core

\* The end of the arc stores a newer instance of a router that is not behind
\* the start.
LEMMA CoreFar ==
  ASSUME NEW X, NEW dn, NEW dr, NEW U, NEW Q, NEW T, NEW R, NEW A, NEW sync,
         CoreType(X, dn, dr, U, Q, T, R), Core(X, dn, dr, U, Q, T, R, A, sync),
         NEW dm \in [Router -> LSA], \A y \in X : dm[y] = dn[y],
         \A y \in Router : dn[y].seq <= dm[y].seq
  PROVE  Core(X, dm, dr, U, Q, T, R, A, sync)
<1>1. Flow(X, dm, dr, U, Q)
  BY DEF Core, Flow
<1>2. Asking(X, dm, dr, U \cup Q, T, R, A)
  <2>1. \A h \in T \cup R : h.adv \notin X => h.seq <= dm[h.adv].seq
    <3> SUFFICES ASSUME NEW h \in T \cup R, h.adv \notin X PROVE h.seq <= dm[h.adv].seq
      OBVIOUS
    <3>1. h.seq <= dn[h.adv].seq
      BY DEF Core, Asking
    <3>2. h.adv \in Router /\ h.seq \in Nat /\ dn[h.adv].seq \in Nat /\ dm[h.adv].seq \in Nat
      BY DEF CoreType, Header, LSA
    <3> QED
      BY <3>1, <3>2
  <2>2. \A h \in R : h.adv \in X /\ dm[h.adv].seq < h.seq
    BY DEF Core, Asking
  <2> QED
    BY <2>1, <2>2 DEF Core, Asking
<1>3. sync => Lacking(X, dm, dr, U \cup Q, T \cup R)
  BY DEF Core, Lacking
<1> QED
  BY <1>1, <1>2, <1>3 DEF Core

----------------------------------------------------------------------------
(* The tree *)

\* The routers behind the arcs that meet at a router.
LEMMA Sides ==
  ASSUME Tree, NEW a \in Arc
  PROVE  /\ Behind[a] \subseteq Router /\ a[1] \in Behind[a] /\ a[2] \notin Behind[a]
         /\ Behind[Back(a)] = Router \ Behind[a]
         /\ \A b \in Arc : b[1] = a[2] /\ b # Back(a) => Behind[a] \subseteq Behind[b]
         /\ \A b \in Arc : b[2] = a[2] /\ b # a => Behind[a] \cap Behind[b] = {}
<1>1. Behind \in [Arc -> SUBSET Router] /\ Divides(Behind)
  BY DEF Tree, Behind
<1>2. \A c \in Arc :
        /\ c[1] \in Behind[c] /\ Behind[Back(c)] = Router \ Behind[c]
        /\ \A b \in From(c[2]) : b # Back(c) => Behind[c] \subseteq Behind[b]
  BY <1>1 DEF Divides
<1>3. Behind[Back(a)] = Router \ Behind[a] /\ Behind[a] \subseteq Router /\ a[1] \in Behind[a]
  BY <1>1, <1>2
<1>4. a[2] \notin Behind[a]
  <2>1. Back(a) \in Arc /\ Back(a)[1] = a[2]
    BY Ends
  <2>2. a[2] \in Behind[Back(a)]
    BY <1>2, <2>1
  <2> QED
    BY <1>3, <2>2
<1>5. ASSUME NEW b \in Arc, b[1] = a[2], b # Back(a) PROVE Behind[a] \subseteq Behind[b]
  BY <1>2, <1>5 DEF From
<1>6. ASSUME NEW b \in Arc, b[2] = a[2], b # a PROVE Behind[a] \cap Behind[b] = {}
  <2>1. Back(b) \in Arc /\ Back(b)[1] = a[2] /\ Back(Back(b)) = b /\ Back(Back(a)) = a
    BY <1>6, Ends
  <2>2. Back(b) # Back(a)
    BY <1>6, <2>1
  <2>3. Behind[a] \subseteq Behind[Back(b)]
    BY <1>5, <2>1, <2>2
  <2>4. Behind[Back(b)] = Router \ Behind[b]
    BY <1>2
  <2> QED
    BY <2>3, <2>4
<1> QED
  BY <1>3, <1>4, <1>5, <1>6

----------------------------------------------------------------------------
(* The exchange *)

\* nb becomes n without a part in the exchange.
Kept(n, nb) ==
  /\ n.master = nb.master /\ n.seq = nb.seq /\ n.more = nb.more
  /\ n.lastrecv = nb.lastrecv \/ nb.state \notin Synchronizing
  /\ n.summary = nb.summary
  /\ ~nb.done => ~n.done
  /\ \/ n.state = nb.state
     \/ nb.state \notin Synchronizing /\ n.state \in {"Down", "Init"} /\ nb.state # "ExStart"
     \/ /\ nb.state \in Synchronizing /\ n.state \in Synchronizing
        /\ nb.done \/ nb.state = "Loading"

\* Link s becomes t without a DD read or sent, by a router that synchronizes
\* or sends hellos.
Undisturbed(s, t, synchronizing) ==
  /\ NoDD(s) => NoDD(t)
  /\ \A id : OneDD(s, id) => OneDD(t, id)
  /\ \A id : Leads(s, id) => Leads(t, id)
  /\ Opening(s) /\ ~synchronizing => Opening(t)

\* Nothing done.
LEMMA Standing ==
  ASSUME NEW nb, NEW s, NEW sync
  PROVE  Kept(nb, nb) /\ Undisturbed(s, s, sync)
BY DEF Kept, Undisturbed

\* A packet other than a DD is received.
LEMMA UndisturbedTail ==
  ASSUME NEW s \in Seq(Packet), s # <<>>, Head(s).type # "dd", NEW sync
  PROVE  Undisturbed(s, Tail(s), sync)
BY PoppedDD DEF Undisturbed

\* Packets other than DDs are sent.
LEMMA UndisturbedMore ==
  ASSUME NEW s \in Seq(Packet), NEW t \in Seq(Packet), NoDD(t), NEW sync,
         sync \/ Opening(t)
  PROVE  Undisturbed(s, s \o t, sync)
BY JoinedNoDD, JoinedOpening DEF Undisturbed

\* Steps with no part in the exchange.
LEMMA TurnKept ==
  ASSUME NEW M, NEW S, NEW ms, NEW sm, Turn(M, S, ms, sm),
         NEW N, NEW P, NEW ns, NEW sn, Kept(N, M), Kept(P, S),
         Undisturbed(ms, ns, M.state \in Synchronizing),
         Undisturbed(sm, sn, S.state \in Synchronizing)
  PROVE  Turn(N, P, ns, sn)
<1>1. /\ LastDD(N) = LastDD(M) /\ LastDD(P) = LastDD(S) /\ InitialDD(N) = InitialDD(M)
      /\ Drained(M) => Drained(N)
      /\ Drained(S) => Drained(P)
  BY DEF Kept, LastDD, InitialDD, Drained
<1>2. /\ "ExStart" \notin Synchronizing /\ "Exchange" \in Synchronizing
      /\ "Down" \notin Synchronizing /\ "Init" \notin Synchronizing
      /\ "Loading" # "Exchange" /\ "ExStart" # "Loading"
  BY DEF Synchronizing
<1>3. CASE Negotiating(M, S, ms, sm)
  <2>1. /\ N.state \notin Synchronizing /\ P.state \notin Synchronizing
        /\ ~N.done /\ ~P.done /\ Opening(sn)
    BY <1>2, <1>3 DEF Negotiating, Kept, Undisturbed
  <2>2. CASE NoDD(ms)
    BY <2>1, <2>2 DEF Negotiating, Undisturbed, Turn
  <2>3. CASE M.state = "ExStart" /\ M.more /\ OneDD(ms, InitialDD(M).id)
    <3>1. N.state = "ExStart" /\ N.more
      BY <1>2, <2>3 DEF Kept
    <3>2. OneDD(ns, InitialDD(N).id)
      BY <1>1, <2>3 DEF Undisturbed
    <3> QED
      BY <2>1, <3>1, <3>2 DEF Negotiating, Turn
  <2> QED
    BY <1>3, <2>2, <2>3 DEF Negotiating
<1>4. CASE SlaveFound(M, S, ms, sm)
  <2>1. N.state = "ExStart" /\ P.state = "Exchange"
    BY <1>2, <1>4 DEF SlaveFound, Kept
  <2>2. NoDD(ns) /\ Leads(sn, LastDD(P))
    BY <1>1, <1>4 DEF SlaveFound, Undisturbed
  <2>3. P.lastrecv = S.lastrecv
    BY <1>2, <1>4 DEF SlaveFound, Kept
  <2> QED
    BY <1>1, <1>4, <2>1, <2>2, <2>3 DEF SlaveFound, Kept, Turn
<1>5. ASSUME Exchange(M, S) PROVE Exchange(N, P)
  <2>1. N.state \in Synchronizing /\ P.state \in Synchronizing
    BY <1>2, <1>5 DEF Exchange, Kept
  <2> QED
    BY <1>1, <1>5, <2>1 DEF Exchange, Kept
<1>6. CASE MasterSends(M, S, ms, sm)
  <2>1. N.state = "Exchange" /\ P.state = "Exchange" /\ ~N.done /\ ~P.done
    BY <1>2, <1>6 DEF MasterSends, Kept
  <2>2. NoDD(sn) /\ OneDD(ns, LastDD(N))
    BY <1>1, <1>6 DEF MasterSends, Undisturbed
  <2> QED
    BY <1>5, <1>6, <2>1, <2>2 DEF MasterSends, Kept, Turn
<1>7. CASE SlaveSends(M, S, ms, sm)
  <2>1. /\ N.state = "Exchange" /\ ~N.done
        /\ N.more \/ P.more => P.state = "Exchange" /\ ~P.done
    BY <1>2, <1>7 DEF SlaveSends, Kept
  <2>2. NoDD(ns) /\ OneDD(sn, LastDD(P))
    BY <1>1, <1>7 DEF SlaveSends, Undisturbed
  <2> QED
    BY <1>5, <1>7, <2>1, <2>2 DEF SlaveSends, Kept, Turn
<1>8. CASE AllDescribed(M, S, ms, sm)
  <2>1. N.state \in Synchronizing /\ P.state \in Synchronizing
    BY <1>2, <1>8 DEF AllDescribed, Kept
  <2> QED
    BY <1>8, <2>1 DEF AllDescribed, Kept, Undisturbed, Turn
<1> QED
  BY <1>3, <1>4, <1>6, <1>7, <1>8 DEF Turn

\* The phases after a step with no part in any exchange.
LEMMA PhasesKept ==
  ASSUME \A a \in Arc : Phase(a),
         \A a \in Arc : /\ Kept(nbr'[a], nbr[a])
                        /\ Undisturbed(link[a], link'[a], Sync(a))
  PROVE  \A a \in Arc : Phase(a)'
<1> SUFFICES ASSUME NEW a \in Arc, a[1] > a[2]
             PROVE  Turn(nbr'[a], nbr'[Back(a)], link'[a], link'[Back(a)])
  BY DEF Phase
<1>1. Turn(nbr[a], nbr[Back(a)], link[a], link[Back(a)])
  BY DEF Phase
<1>2. Back(a) \in Arc
  BY Ends
<1> QED
  BY <1>1, <1>2, TurnKept DEF Sync

\* The phases after a step that changes the ends of one link only.
LEMMA PhasesElse ==
  ASSUME \A a \in Arc : Phase(a), NEW a \in Arc,
         \A b \in Arc \ {a, Back(a)} : nbr'[b] = nbr[b] /\ link'[b] = link[b],
         Phase(a)', Phase(Back(a))'
  PROVE  \A b \in Arc : Phase(b)'
<1> SUFFICES ASSUME NEW b \in Arc, b # a, b # Back(a), b[1] > b[2]
             PROVE  Turn(nbr'[b], nbr'[Back(b)], link'[b], link'[Back(b)])
  BY DEF Phase
<1>1. Turn(nbr[b], nbr[Back(b)], link[b], link[Back(b)])
  BY DEF Phase
<1>2. Back(b) \in Arc /\ Back(b) # a /\ Back(b) # Back(a)
  <2>1. Back(Back(b)) = b /\ Back(Back(a)) = a /\ Back(b) \in Arc
    BY Ends
  <2> QED
    BY <2>1
<1>3. nbr'[b] = nbr[b] /\ link'[b] = link[b] /\ nbr'[Back(b)] = nbr[Back(b)] /\ link'[Back(b)] = link[Back(b)]
  BY <1>2
<1> QED
  BY <1>1, <1>3

----------------------------------------------------------------------------
(* What a step leaves alone *)

\* The invariant of one arc, part by part.
LEMMA OneSide ==
  ASSUME IInv, TInv, Tree, NEW a \in Arc
  PROVE  LET b == Back(a)
         IN  /\ link[a] \in Seq(Packet) /\ InOrder(link[a])
             /\ Sync(a) \in BOOLEAN
             /\ CoreType(Behind[a], lsdb[a[2]], lsdb[a[1]], LSAs(link[a]), updateLSA[a],
                         Told(a), nbr[b].req)
             /\ Core(Behind[a], lsdb[a[2]], lsdb[a[1]], LSAs(link[a]), updateLSA[a],
                     Told(a), nbr[b].req, Asked(link[b]), Sync(a))
<1> DEFINE b == Back(a)
<1>1. /\ b \in Arc /\ a[1] \in Router /\ a[2] \in Router
      /\ link[a] \in Seq(Packet) /\ nbr[a] \in Neighbor /\ nbr[b] \in Neighbor
      /\ lsdb[a[1]] \in [Router -> LSA] /\ lsdb[a[2]] \in [Router -> LSA]
      /\ updateLSA[a] \subseteq LSA
  BY Ends DEF IInv, TypeOK
<1>2. InOrder(link[a])
        /\ Core(Behind[a], lsdb[a[2]], lsdb[a[1]], LSAs(link[a]), updateLSA[a],
                Told(a), nbr[b].req, Asked(link[b]), Sync(a))
  BY DEF TInv, Data
<1>3. Told(a) \subseteq Header /\ nbr[b].req \subseteq Header /\ LSAs(link[a]) \subseteq LSA
  BY <1>1, CarriedType DEF Told, Neighbor
<1>4. \A x \in Router : lsdb[a[2]][x].adv = x /\ lsdb[a[1]][x].adv = x
  BY <1>1 DEF TInv, Named
<1>5. Behind[a] \subseteq Router
  BY Sides
<1>6. CoreType(Behind[a], lsdb[a[2]], lsdb[a[1]], LSAs(link[a]), updateLSA[a],
               Told(a), nbr[b].req)
  BY <1>1, <1>3, <1>4, <1>5 DEF CoreType
<1>7. Sync(a) \in BOOLEAN
  BY DEF Sync
<1> QED
  BY <1>1, <1>2, <1>6, <1>7

\* A step that changes an arc by requests only.
LEMMA DataKept ==
  ASSUME IInv, TInv, Tree, NEW a \in Arc,
         lsdb'[a[1]] = lsdb[a[1]], lsdb'[a[2]] = lsdb[a[2]],
         InOrder(link'[a]), LSAs(link'[a]) = LSAs(link[a]),
         updateLSA'[a] = updateLSA[a],
         Told(a)' = Told(a), nbr'[Back(a)].req = nbr[Back(a)].req,
         Asked(link'[Back(a)])
           \subseteq Asked(link[Back(a)]) \cup {h.adv : h \in nbr[Back(a)].req},
         Sync(a)' = Sync(a)
  PROVE  Data(a)'
<1>1. Core(Behind[a], lsdb[a[2]], lsdb[a[1]], LSAs(link[a]), updateLSA[a],
           Told(a), nbr[Back(a)].req, Asked(link'[Back(a)]), Sync(a))
  BY OneSide, CoreAsk
<1> QED
  BY <1>1 DEF Data

\* A step that changes the two ends of a link only.
LEMMA DataElse ==
  ASSUME IInv, TInv, Tree, NEW a \in Arc,
         \A b \in Arc \ {a, Back(a)} : nbr'[b] = nbr[b] /\ link'[b] = link[b]
                                       /\ updateLSA'[b] = updateLSA[b],
         UNCHANGED lsdb, Data(a)', Data(Back(a))'
  PROVE  \A b \in Arc : Data(b)'
<1> SUFFICES ASSUME NEW b \in Arc, b # a, b # Back(a)
             PROVE  Data(b)'
  OBVIOUS
<1>1. Back(b) \in Arc /\ Back(b) # a /\ Back(b) # Back(a)
  <2>1. Back(Back(b)) = b /\ Back(Back(a)) = a /\ Back(b) \in Arc
    BY Ends
  <2> QED
    BY <2>1
<1>2. /\ nbr'[b] = nbr[b] /\ link'[b] = link[b] /\ updateLSA'[b] = updateLSA[b]
      /\ nbr'[Back(b)] = nbr[Back(b)] /\ link'[Back(b)] = link[Back(b)]
  BY <1>1
<1>3. Told(b)' = Told(b) /\ Sync(b)' = Sync(b)
  BY <1>2 DEF Told, Sync
<1> QED
  BY <1>2, <1>3, OneSide, DataKept

\* The LSA of a router whose adjacencies only become more.
LEMMA OwnGrows ==
  ASSUME NEW r \in Router, Own(r), lsdb'[r][r] = lsdb[r][r],
         \A b \in From(r) : nbr[b].state = "Full" => nbr'[b].state = "Full",
         lsTimer'[r] => \/ lsTimer[r]
                        \/ \E b \in From(r) : nbr[b].state # "Full" /\ nbr'[b].state = "Full"
  PROVE  Own(r)'
<1> DEFINE A == Adjacencies(r)
           B == Adjacencies(r)'
           L == lsdb[r][r].links
<1>1. B = {a[2] : a \in {b \in From(r) : nbr'[b].state = "Full"}}
  BY DEF Adjacencies
<1>2. A \subseteq B
  BY <1>1 DEF Adjacencies
<1>3. L \subseteq A /\ (lsTimer[r] => lsdb[r][r].seq = 0 \/ L # A)
  BY DEF Own
<1>4. ASSUME NEW b \in From(r), nbr[b].state # "Full", nbr'[b].state = "Full"
      PROVE  b[2] \in B /\ b[2] \notin A
  <2>1. b[2] \in B
    BY <1>1, <1>4
  <2>2. ASSUME NEW c \in From(r), c[2] = b[2] PROVE c = b
    BY <2>2, Ends DEF From
  <2>3. b[2] \notin A
    BY <1>4, <2>2 DEF Adjacencies
  <2> QED
    BY <2>1, <2>3
<1> HIDE DEF A, B, L
<1>5. L \subseteq B /\ (lsTimer'[r] => lsdb[r][r].seq = 0 \/ L # B)
  BY <1>2, <1>3, <1>4
<1> QED
  BY <1>5 DEF Own, B, L

\* A step with no part in the databases keeps the LSAs of all routers.
LEMMA OwnKept ==
  ASSUME IInv, TInv, UNCHANGED lsdb,
         \A b \in Arc : nbr[b].state = "Full" => nbr'[b].state = "Full",
         \A r \in Router : lsTimer'[r] =>
            \/ lsTimer[r]
            \/ \E b \in From(r) : nbr[b].state # "Full" /\ nbr'[b].state = "Full"
  PROVE  Named' /\ \A r \in Router : Own(r)'
<1>1. ASSUME NEW r \in Router PROVE Own(r)'
  <2>1. Own(r) /\ lsdb'[r][r] = lsdb[r][r]
    BY DEF TInv
  <2>2. \A b \in From(r) : nbr[b].state = "Full" => nbr'[b].state = "Full"
    BY DEF From
  <2> QED
    BY <2>1, <2>2, OwnGrows
<1>2. Named'
  BY DEF TInv, Named
<1> QED
  BY <1>1, <1>2

----------------------------------------------------------------------------
(* Hellos, requests, and the end of the exchange *)

\* Packets without instances or headers are sent.
LEMMA PlainJoined ==
  ASSUME NEW s \in Seq(Packet), InOrder(s), NEW t \in Seq(Packet),
         LSAs(t) = {}, Headers(t) = {}
  PROVE  /\ s \o t \in Seq(Packet) /\ InOrder(s \o t)
         /\ LSAs(s \o t) = LSAs(s) /\ Headers(s \o t) = Headers(s)
         /\ Asked(s \o t) = Asked(s) \cup Asked(t)
<1>1. InOrder(t)
  <2>1. \A i \in DOMAIN t : t[i].type # "lsu"
    BY Carried
  <2> QED
    BY <2>1 DEF InOrder
<1>2. InOrder(s \o t)
  BY <1>1, JoinedOrder
<1>3. s \o t \in Seq(Packet)
  OBVIOUS
<1>4. /\ LSAs(s \o t) = LSAs(s) \cup LSAs(t) /\ Headers(s \o t) = Headers(s) \cup Headers(t)
      /\ Asked(s \o t) = Asked(s) \cup Asked(t)
  BY JoinedCarries
<1> DEFINE u == s \o t
<1> HIDE DEF u
<1>5. /\ LSAs(u) = LSAs(s) \cup LSAs(t) /\ Headers(u) = Headers(s) \cup Headers(t)
      /\ Asked(u) = Asked(s) \cup Asked(t)
  BY <1>4 DEF u
<1>6. LSAs(u) = LSAs(s) /\ Headers(u) = Headers(s)
  BY <1>5
<1> QED
  BY <1>2, <1>3, <1>5, <1>6 DEF u

\* Adding one packet.
LEMMA Appended ==
  ASSUME NEW s \in Seq(Packet), NEW m \in Packet
  PROVE  Append(s, m) = s \o <<m>>
OBVIOUS

\* A packet without instances or headers is received.
LEMMA PlainPopped ==
  ASSUME NEW s \in Seq(Packet), s # <<>>, InOrder(s),
         Head(s).type # "lsu", Head(s).type = "dd" => Head(s).headers = {}
  PROVE  /\ Tail(s) \in Seq(Packet) /\ InOrder(Tail(s))
         /\ LSAs(Tail(s)) = LSAs(s) /\ Headers(Tail(s)) = Headers(s)
         /\ Asked(Tail(s)) \subseteq Asked(s)
BY Popping, PoppedOrder, PoppedCarries

\* No DD, no headers.
LEMMA NoDDHeaders ==
  ASSUME NEW s, NoDD(s)
  PROVE  Headers(s) = {}
BY Carried DEF NoDD

\* A structure that is kept synchronizes as before.
LEMMA KeptSync ==
  ASSUME NEW n, NEW nb, Kept(n, nb)
  PROVE  /\ n.state \in Synchronizing <=> nb.state \in Synchronizing
         /\ n.summary = nb.summary
BY DEF Kept, Synchronizing

\* A router sends hellos or requests on arc a, and its structure is kept.
LEMMA Talk ==
  ASSUME IInv, TInv, Tree, NEW a \in Arc, NEW t \in Seq(Packet),
         LSAs(t) = {}, NoDD(t), Sync(a) \/ Opening(t),
         Asked(t) \subseteq {h.adv : h \in nbr[a].req},
         link' = [link EXCEPT ![a] = @ \o t],
         NEW n, nbr' = [nbr EXCEPT ![a] = n], Kept(n, nbr[a]), n.req = nbr[a].req,
         nbr[a].state = "Full" => n.state = "Full",
         UNCHANGED <<lsdb, updateLSA, unhandled>>,
         \A r \in Router : lsTimer'[r] =>
            lsTimer[r] \/ (r = a[1] /\ nbr[a].state # "Full" /\ n.state = "Full")
  PROVE  TInv'
<1> DEFINE b == Back(a)
<1>1. b \in Arc /\ b # a /\ Back(b) = a
  BY Ends
<1>2. /\ link'[a] = link[a] \o t /\ \A c \in Arc : c # a => link'[c] = link[c]
      /\ nbr'[a] = n /\ \A c \in Arc : c # a => nbr'[c] = nbr[c]
  BY DEF IInv, TypeOK
<1>3. /\ link[a] \in Seq(Packet) /\ InOrder(link[a])
      /\ link[b] \in Seq(Packet) /\ InOrder(link[b])
  BY <1>1, OneSide
<1> HIDE DEF b
<1>4. /\ InOrder(link'[a]) /\ LSAs(link'[a]) = LSAs(link[a])
      /\ Headers(link'[a]) = Headers(link[a])
      /\ Asked(link'[a]) = Asked(link[a]) \cup Asked(t)
  <2>1. Headers(t) = {}
    BY NoDDHeaders
  <2> DEFINE s == link[a]
             u == link'[a]
  <2>2. s \in Seq(Packet) /\ InOrder(s) /\ u = s \o t
    BY <1>2, <1>3
  <2> HIDE DEF s, u
  <2>3. InOrder(u) /\ LSAs(u) = LSAs(s) /\ Headers(u) = Headers(s) /\ Asked(u) = Asked(s) \cup Asked(t)
    BY <2>1, <2>2, PlainJoined
  <2> QED
    BY <2>3 DEF s, u
<1>5. Told(a)' = Told(a) /\ Sync(a)' = Sync(a) /\ Told(b)' = Told(b) /\ Sync(b)' = Sync(b)
  BY <1>1, <1>2, <1>4, KeptSync DEF Told, Sync
<1>6. Data(a)'
  BY <1>1, <1>2, <1>4, <1>5, DataKept DEF b
<1>7. Data(b)'
  BY <1>1, <1>2, <1>3, <1>4, <1>5, DataKept
<1>8. \A c \in Arc : Data(c)'
  BY <1>2, <1>6, <1>7, DataElse DEF b
<1>9. \A c \in Arc : /\ Kept(nbr'[c], nbr[c])
                     /\ Undisturbed(link[c], link'[c], Sync(c))
  <2>1. Undisturbed(link[a], link[a] \o t, Sync(a))
    BY <1>3, UndisturbedMore
  <2>2. Undisturbed(link[a], link'[a], Sync(a)) /\ Kept(nbr'[a], nbr[a])
    BY <1>2, <2>1
  <2>3. \A c \in Arc : c # a => Kept(nbr'[c], nbr[c]) /\ Undisturbed(link[c], link'[c], Sync(c))
    BY <1>2, Standing
  <2> QED
    BY <2>2, <2>3
<1>10. \A c \in Arc : Phase(c)'
  BY <1>9, PhasesKept DEF TInv
<1>11. Named' /\ \A r \in Router : Own(r)'
  <2>1. \A c \in Arc : nbr[c].state = "Full" => nbr'[c].state = "Full"
    BY <1>2
  <2>2. \A r \in Router : lsTimer'[r] =>
          \/ lsTimer[r]
          \/ \E c \in From(r) : nbr[c].state # "Full" /\ nbr'[c].state = "Full"
    BY <1>2 DEF From
  <2> QED
    BY <2>1, <2>2, OwnKept
<1> QED
  BY <1>8, <1>10, <1>11 DEF TInv

\* A hello.
LEMMA TreeHello ==
  ASSUME IInv, TInv, Tree, NEW a \in Arc, HelloTimer(a)
  PROVE  TInv'
<1> DEFINE m == Hello(nbr[a])
           n == nbr[a]
<1>1. m \in Packet /\ m.type = "hello"
  BY OneArc, HelloPacket DEF Hello
<1>2. link' = [link EXCEPT ![a] = Append(@, m)]
        /\ UNCHANGED <<nbr, lsdb, updateLSA, lsTimer, unhandled>>
  BY DEF HelloTimer
<1> HIDE DEF m
<1>3. /\ <<m>> \in Seq(Packet) /\ LSAs(<<m>>) = {} /\ Asked(<<m>>) = {}
      /\ NoDD(<<m>>) /\ Opening(<<m>>)
  <2>1. NoDD(<<m>>) /\ Opening(<<m>>)
    BY <1>1 DEF NoDD, Opening, Opener
  <2> QED
    BY <1>1, <2>1, OneCarries
<1>4. link' = [link EXCEPT ![a] = @ \o <<m>>]
  <2>1. Append(link[a], m) = link[a] \o <<m>>
    BY <1>1, OneArc, Appended
  <2> QED
    BY <1>2, <2>1
<1>5. nbr' = [nbr EXCEPT ![a] = n]
  BY <1>2 DEF IInv, TypeOK
<1> QED
  BY <1>2, <1>3, <1>4, <1>5, Standing, Talk

\* A request is a packet without instances.
LEMMA PlainRequest ==
  ASSUME NEW nb \in Neighbor
  PROVE  LET t == <<Request(nb)>>
         IN  /\ t \in Seq(Packet) /\ LSAs(t) = {} /\ Headers(t) = {} /\ NoDD(t)
             /\ Asked(t) = {h.adv : h \in nb.req}
<1> DEFINE m == Request(nb)
<1>1. m \in Packet /\ m.type = "lsr" /\ m.ids = {h.adv : h \in nb.req}
  BY RequestPacket DEF Request
<1> HIDE DEF m
<1>2. NoDD(<<m>>)
  BY <1>1 DEF NoDD
<1> QED
  BY <1>1, <1>2, OneCarries DEF m

\* The end of an exchange.
LEMMA TreeDone ==
  ASSUME IInv, TInv, Tree, NEW a \in Arc, ExchangeDone(a)
  PROVE  TInv'
<1> DEFINE nb == nbr[a]
           full == nb.state = "Exchange" /\ nb.req = {}
           loading == nb.state = "Exchange" /\ nb.req # {}
           st == IF full THEN "Full" ELSE IF loading THEN "Loading" ELSE nb.state
           rt == nb.reqTimer \/ loading
           n == [nb EXCEPT !.done = FALSE, !.reqTimer = rt, !.state = st]
           t == IF loading THEN <<Request(nb)>> ELSE <<>>
<1>1. nb \in Neighbor /\ nb.done /\ link[a] \in Seq(Packet)
  BY OneArc DEF ExchangeDone
<1>2. /\ nbr' = [nbr EXCEPT ![a] = n]
      /\ lsTimer' = [lsTimer EXCEPT ![a[1]] = @ \/ full]
      /\ link' = [link EXCEPT ![a] = IF loading THEN Append(@, Request(nb)) ELSE @]
      /\ UNCHANGED <<lsdb, updateLSA, unhandled>>
  BY DEF ExchangeDone
<1>3. link' = [link EXCEPT ![a] = @ \o t]
  <2>1. CASE loading
    <3>1. Append(link[a], Request(nb)) = link[a] \o <<Request(nb)>>
      BY <1>1, RequestPacket, Appended
    <3> QED
      BY <1>2, <2>1, <3>1
  <2>2. CASE ~loading
    <3>1. link[a] \o <<>> = link[a]
      BY <1>1
    <3> QED
      BY <1>2, <2>2, <3>1
  <2> QED
    BY <2>1, <2>2
<1>4. /\ t \in Seq(Packet) /\ LSAs(t) = {} /\ NoDD(t) /\ Asked(t) \subseteq {h.adv : h \in nb.req}
      /\ Sync(a) \/ Opening(t)
  <2>1. CASE loading
    BY <1>1, <2>1, PlainRequest DEF Sync, Synchronizing
  <2>2. CASE ~loading
    BY <2>2, NothingCarried
  <2> QED
    BY <2>1, <2>2
<1> HIDE DEF rt
<1>5. n.req = nb.req /\ n.state = st /\ n.done = FALSE /\ n.master = nb.master /\ n.seq = nb.seq
        /\ n.more = nb.more /\ n.lastrecv = nb.lastrecv /\ n.summary = nb.summary
  BY <1>1 DEF Neighbor
<1> HIDE DEF n, t
<1>6. Kept(n, nb) /\ (nb.state = "Full" => n.state = "Full")
  BY <1>1, <1>5 DEF Kept, Synchronizing
<1>7. \A r \in Router : lsTimer'[r] =>
         lsTimer[r] \/ (r = a[1] /\ nb.state # "Full" /\ n.state = "Full")
  BY <1>2, <1>5 DEF IInv, TypeOK
<1> QED
  BY <1>2, <1>3, <1>4, <1>5, <1>6, <1>7, Talk

\* A request sent again.
LEMMA TreeRequest ==
  ASSUME IInv, TInv, Tree, NEW a \in Arc, RequestTimer(a)
  PROVE  TInv'
<1> DEFINE nb == nbr[a]
<1>1. nb \in Neighbor /\ Good(a, nb) /\ link[a] \in Seq(Packet)
  BY OneArc
<1>2. UNCHANGED <<lsdb, updateLSA, lsTimer, unhandled>>
  BY DEF RequestTimer
<1>3. CASE nb.req = {}
  <2> DEFINE n == [nb EXCEPT !.reqTimer = FALSE]
  <2>1. nbr' = [nbr EXCEPT ![a] = n] /\ UNCHANGED link
    BY <1>3 DEF RequestTimer
  <2>2. Kept(n, nb) /\ n.req = nb.req /\ n.state = nb.state
    BY <1>1 DEF Neighbor, Kept
  <2> HIDE DEF n
  <2>3. link' = [link EXCEPT ![a] = @ \o <<>>]
    <3>1. link[a] \o <<>> = link[a]
      BY <1>1
    <3> QED
      BY <2>1, <3>1 DEF IInv, TypeOK
  <2> QED
    BY <1>2, <2>1, <2>2, <2>3, NothingCarried, Talk
<1>4. CASE nb.req # {}
  <2> DEFINE t == <<Request(nb)>>
  <2>1. link' = [link EXCEPT ![a] = @ \o t]
    <3>1. Append(link[a], Request(nb)) = link[a] \o t
      BY <1>1, RequestPacket, Appended
    <3> QED
      BY <1>4, <3>1 DEF RequestTimer
  <2>2. nbr' = [nbr EXCEPT ![a] = nb]
    BY <1>4 DEF RequestTimer, IInv, TypeOK
  <2>3. Sync(a)
    BY <1>1, <1>4 DEF Good, Sync, Synchronizing
  <2>4. t \in Seq(Packet) /\ LSAs(t) = {} /\ NoDD(t) /\ Asked(t) = {h.adv : h \in nb.req}
    BY <1>1, PlainRequest
  <2> HIDE DEF t
  <2> QED
    BY <1>2, <2>1, <2>2, <2>3, <2>4, Standing, Talk
<1> QED
  BY <1>3, <1>4

----------------------------------------------------------------------------
(* Hellos received and first DDs *)

\* Where an answer leaves the links.
LEMMA Answers ==
  ASSUME IInv, NEW a \in Arc, NEW t \in Seq(Packet), link[a] # <<>>, Answer(a, t)
  PROVE  LET me == Back(a)
         IN  /\ me \in Arc /\ me # a /\ Back(me) = a
             /\ link[a] \in Seq(Packet) /\ link[me] \in Seq(Packet)
             /\ link'[a] = Tail(link[a]) /\ link'[me] = link[me] \o t
             /\ \A c \in Arc \ {a, me} : link'[c] = link[c]
BY Ends DEF Answer, IInv, TypeOK

\* A packet without instances and headers is received, and answered with
\* such packets.
LEMMA DataAnswer ==
  ASSUME IInv, TInv, Tree, NEW a \in Arc, link[a] # <<>>,
         Head(link[a]).type # "lsu", Head(link[a]).type = "dd" => Head(link[a]).headers = {},
         NEW t \in Seq(Packet), LSAs(t) = {}, Headers(t) = {},
         Asked(t) \subseteq {h.adv : h \in nbr[Back(a)].req}, Answer(a, t),
         NEW n, nbr' = [nbr EXCEPT ![Back(a)] = n],
         n.summary = nbr[Back(a)].summary, n.req = nbr[Back(a)].req,
         n.state \in Synchronizing <=> nbr[Back(a)].state \in Synchronizing,
         UNCHANGED <<lsdb, updateLSA>>
  PROVE  \A c \in Arc : Data(c)'
<1> DEFINE b == Back(a)
<1>1. /\ b \in Arc /\ b # a /\ Back(b) = a
      /\ link'[a] = Tail(link[a]) /\ link'[b] = link[b] \o t
      /\ \A c \in Arc \ {a, b} : link'[c] = link[c]
  BY Answers
<1>2. nbr'[b] = n /\ \A c \in Arc : c # b => nbr'[c] = nbr[c]
  BY <1>1 DEF IInv, TypeOK
<1>3. /\ link[a] \in Seq(Packet) /\ InOrder(link[a])
      /\ link[b] \in Seq(Packet) /\ InOrder(link[b])
  BY <1>1, OneSide
<1>4. /\ InOrder(link'[b]) /\ LSAs(link'[b]) = LSAs(link[b])
      /\ Headers(link'[b]) = Headers(link[b])
      /\ Asked(link'[b]) = Asked(link[b]) \cup Asked(t)
  <2> DEFINE s == link[b]
             u == link'[b]
  <2>1. s \in Seq(Packet) /\ InOrder(s) /\ u = s \o t
    BY <1>1, <1>3
  <2> HIDE DEF s, u
  <2>2. InOrder(u) /\ LSAs(u) = LSAs(s) /\ Headers(u) = Headers(s) /\ Asked(u) = Asked(s) \cup Asked(t)
    BY <2>1, PlainJoined
  <2> QED
    BY <2>2 DEF s, u
<1>5. /\ InOrder(link'[a]) /\ LSAs(link'[a]) = LSAs(link[a])
      /\ Headers(link'[a]) = Headers(link[a])
      /\ Asked(link'[a]) \subseteq Asked(link[a])
  BY <1>1, <1>3, PlainPopped
<1>6. n.summary = nbr[b].summary /\ n.req = nbr[b].req
        /\ (n.state \in Synchronizing <=> nbr[b].state \in Synchronizing)
        /\ Asked(t) \subseteq {h.adv : h \in nbr[b].req}
  OBVIOUS
<1>7. Told(a)' = Told(a) /\ Sync(a)' = Sync(a) /\ Told(b)' = Told(b) /\ Sync(b)' = Sync(b)
  BY <1>1, <1>2, <1>4, <1>5, <1>6 DEF Told, Sync
<1> HIDE DEF b
<1>8. Data(a)'
  BY <1>1, <1>2, <1>4, <1>5, <1>6, <1>7, DataKept DEF b
<1>9. Data(b)'
  BY <1>1, <1>2, <1>4, <1>5, <1>6, <1>7, DataKept
<1> QED
  BY <1>1, <1>2, <1>8, <1>9, DataElse DEF b

\* An opener that is received, or lost, leaves the turn.
LEMMA OpenerLeaves ==
  ASSUME NEW M, NEW S, NEW ms \in Seq(Packet), NEW sm \in Seq(Packet), Turn(M, S, ms, sm)
  PROVE  /\ ms # <<>> /\ Opener(Head(ms)) => Turn(M, S, Tail(ms), sm)
         /\ sm # <<>> /\ Opener(Head(sm)) => Turn(M, S, ms, Tail(sm))
<1>1. ASSUME NEW id, ~id.flags.init, NEW s \in Seq(Packet), s # <<>>, Opener(Head(s))
      PROVE  /\ OneDD(s, id) => OneDD(Tail(s), id)
             /\ Leads(s, id) => Leads(Tail(s), id)
  BY <1>1, PoppedDD DEF Opener
<1>2. ~LastDD(M).flags.init /\ ~LastDD(S).flags.init
  BY DEF LastDD
<1>3. ASSUME ms # <<>>, Opener(Head(ms)) PROVE Turn(M, S, Tail(ms), sm)
  <2>1. NoDD(ms) => NoDD(Tail(ms))
    BY <1>3, PoppedDD
  <2>2. \A id : OneDD(ms, id) => NoDD(Tail(ms)) \/ OneDD(Tail(ms), id)
    BY <1>3, PoppedDD
  <2>3. OneDD(ms, LastDD(M)) => OneDD(Tail(ms), LastDD(M))
    BY <1>1, <1>2, <1>3
  <2>4. Negotiating(M, S, ms, sm) => Negotiating(M, S, Tail(ms), sm)
    BY <2>1, <2>2 DEF Negotiating
  <2>5. SlaveFound(M, S, ms, sm) => SlaveFound(M, S, Tail(ms), sm)
    BY <2>1 DEF SlaveFound
  <2>6. MasterSends(M, S, ms, sm) => MasterSends(M, S, Tail(ms), sm)
    BY <2>3 DEF MasterSends
  <2>7. SlaveSends(M, S, ms, sm) => SlaveSends(M, S, Tail(ms), sm)
    BY <2>1 DEF SlaveSends
  <2>8. AllDescribed(M, S, ms, sm) => AllDescribed(M, S, Tail(ms), sm)
    BY <2>1 DEF AllDescribed
  <2> QED
    BY <2>4, <2>5, <2>6, <2>7, <2>8 DEF Turn
<1>4. ASSUME sm # <<>>, Opener(Head(sm)) PROVE Turn(M, S, ms, Tail(sm))
  <2>1. NoDD(sm) => NoDD(Tail(sm))
    BY <1>4, PoppedDD
  <2>2. Opening(sm) => Opening(Tail(sm))
    BY <1>4, PoppedDD
  <2>3. /\ OneDD(sm, LastDD(S)) => OneDD(Tail(sm), LastDD(S))
        /\ Leads(sm, LastDD(S)) => Leads(Tail(sm), LastDD(S))
    BY <1>1, <1>2, <1>4
  <2>4. Negotiating(M, S, ms, sm) => Negotiating(M, S, ms, Tail(sm))
    BY <2>2 DEF Negotiating
  <2>5. SlaveFound(M, S, ms, sm) => SlaveFound(M, S, ms, Tail(sm))
    BY <2>3 DEF SlaveFound
  <2>6. MasterSends(M, S, ms, sm) => MasterSends(M, S, ms, Tail(sm))
    BY <2>1 DEF MasterSends
  <2>7. SlaveSends(M, S, ms, sm) => SlaveSends(M, S, ms, Tail(sm))
    BY <2>3 DEF SlaveSends
  <2>8. AllDescribed(M, S, ms, sm) => AllDescribed(M, S, ms, Tail(sm))
    BY <2>1 DEF AllDescribed
  <2> QED
    BY <2>4, <2>5, <2>6, <2>7, <2>8 DEF Turn
<1> QED
  BY <1>3, <1>4

\* The two phases of a link, in one statement.
LEMMA BothPhases ==
  ASSUME NEW a \in Arc
  PROVE  /\ Phase(a) <=> (a[1] > a[2] => Turn(nbr[a], nbr[Back(a)], link[a], link[Back(a)]))
         /\ Phase(Back(a)) <=>
              (~(a[1] > a[2]) => Turn(nbr[Back(a)], nbr[a], link[Back(a)], link[a]))
<1>1. /\ Back(Back(a)) = a /\ Back(a)[1] = a[2] /\ Back(a)[2] = a[1]
      /\ a[1] \in Nat /\ a[2] \in Nat /\ a[1] # a[2]
  BY Ends
<1>2. a[2] > a[1] <=> ~(a[1] > a[2])
  BY <1>1
<1> QED
  BY <1>1, <1>2 DEF Phase

\* An opener is received with no more effect than Kept, or lost.
LEMMA OpenerTaken ==
  ASSUME IInv, TInv, Tree, NEW a \in Arc, link[a] # <<>>, Opener(Head(link[a])),
         Answer(a, <<>>),
         NEW n, nbr' = [nbr EXCEPT ![Back(a)] = n], Kept(n, nbr[Back(a)]),
         n.req = nbr[Back(a)].req, nbr[Back(a)].state = "Full" => n.state = "Full",
         UNCHANGED <<lsdb, updateLSA, lsTimer, unhandled>>
  PROVE  TInv'
<1> DEFINE b == Back(a)
           e == <<>>
<1>1. /\ b \in Arc /\ b # a /\ Back(b) = a
      /\ link[a] \in Seq(Packet) /\ link[b] \in Seq(Packet)
      /\ link'[a] = Tail(link[a]) /\ link'[b] = link[b] \o e
      /\ \A c \in Arc \ {a, b} : link'[c] = link[c]
  BY NothingCarried, Answers
<1>2. nbr'[b] = n /\ \A c \in Arc : c # b => nbr'[c] = nbr[c]
  BY <1>1 DEF IInv, TypeOK
<1>3. \A c \in Arc : Data(c)'
  <2>1. /\ Head(link[a]).type # "lsu"
        /\ Head(link[a]).type = "dd" => Head(link[a]).headers = {}
    BY DEF Opener
  <2>2. /\ e \in Seq(Packet) /\ LSAs(e) = {} /\ Headers(e) = {}
        /\ Asked(e) \subseteq {h.adv : h \in nbr[Back(a)].req}
    BY NothingCarried
  <2>3. /\ n.summary = nbr[Back(a)].summary
        /\ n.state \in Synchronizing <=> nbr[Back(a)].state \in Synchronizing
    BY KeptSync
  <2> QED
    BY <2>1, <2>2, <2>3, DataAnswer
<1>4. link'[b] = link[b]
  BY <1>1
<1>5. Phase(a)' /\ Phase(b)'
  <2>1. \A s, sync : Undisturbed(s, s, sync)
    BY Standing
  <2>2. Kept(n, nbr[b]) /\ Kept(nbr[a], nbr[a])
    BY Standing
  <2>3. /\ a[1] > a[2] => Turn(nbr[a], nbr[b], link[a], link[b])
        /\ ~(a[1] > a[2]) => Turn(nbr[b], nbr[a], link[b], link[a])
    BY <1>1, BothPhases DEF TInv
  <2>4. /\ a[1] > a[2] => Turn(nbr[a], nbr[b], Tail(link[a]), link[b])
        /\ ~(a[1] > a[2]) => Turn(nbr[b], nbr[a], link[b], Tail(link[a]))
    BY <1>1, <2>3, OpenerLeaves
  <2>5. /\ a[1] > a[2] => Turn(nbr[a], n, Tail(link[a]), link[b])
        /\ ~(a[1] > a[2]) => Turn(n, nbr[a], link[b], Tail(link[a]))
    BY <2>1, <2>2, <2>4, TurnKept
  <2>6. /\ a[1] > a[2] => Turn(nbr'[a], nbr'[b], link'[a], link'[b])
        /\ ~(a[1] > a[2]) => Turn(nbr'[b], nbr'[a], link'[b], link'[a])
    BY <1>1, <1>2, <1>4, <2>5
  <2> QED
    BY <1>1, <2>6, Ends DEF Phase
<1>6. \A c \in Arc : Phase(c)'
  BY <1>1, <1>2, <1>5, PhasesElse DEF TInv
<1>7. Named' /\ \A r \in Router : Own(r)'
  <2>1. \A c \in Arc : nbr[c].state = "Full" => nbr'[c].state = "Full"
    BY <1>2
  <2> QED
    BY <2>1, OwnKept
<1> QED
  BY <1>3, <1>6, <1>7 DEF TInv

\* Opening an adjacency, with or without a first DD.
Opens(n, nb, t) ==
  /\ n.state = "ExStart" /\ n.done = nb.done /\ n.summary = nb.summary /\ n.req = nb.req
  /\ t = <<>> \/ (n.more /\ t = <<InitialDD(n)>>)

\* attempt_adjacency does that.
LEMMA AttemptOpens ==
  ASSUME NEW a \in Arc, NEW nb \in Neighbor, nb.req = {}
  PROVE  LET n == attempt_adjacency(nb, a)
         IN  n \in Neighbor /\ Opens(n, nb, AttemptPackets(nb, a))
<1> DEFINE n == attempt_adjacency(nb, a)
<1>1. n \in Neighbor
  BY Attempted DEF Good
<1>2. n.state = "ExStart" /\ n.done = nb.done /\ n.summary = nb.summary /\ n.req = nb.req
  BY DEF attempt_adjacency, Neighbor
<1>3. nb.seq # 0 \/ n.more
  BY DEF attempt_adjacency, Neighbor
<1> QED
  BY <1>1, <1>2, <1>3 DEF Opens, AttemptPackets

\* A first DD is an opener.
LEMMA FirstDD ==
  ASSUME NEW n \in Neighbor
  PROVE  LET m == InitialDD(n)
         IN  /\ m \in Packet /\ m.type = "dd" /\ Opener(m)
             /\ <<m>> \in Seq(Packet) /\ Opening(<<m>>)
             /\ LSAs(<<m>>) = {} /\ Headers(<<m>>) = {} /\ Asked(<<m>>) = {}
<1> DEFINE m == InitialDD(n)
<1>1. /\ m \in Packet /\ m.type = "dd" /\ m.headers = {} /\ m.id.flags.init
  <2>1. TRUE \in BOOLEAN /\ n.seq \in Nat /\ {} \in SUBSET Header
    BY DEF Neighbor
  <2>2. m \in Packet
    BY <2>1, DDPacket DEF InitialDD
  <2> QED
    BY <2>2 DEF InitialDD, DD
<1> HIDE DEF m
<1>2. Opener(m)
  BY <1>1 DEF Opener
<1>3. Opening(<<m>>)
  BY <1>2 DEF Opening
<1>4. <<m>> \in Seq(Packet) /\ LSAs(<<m>>) = {} /\ Headers(<<m>>) = {} /\ Asked(<<m>>) = {}
  BY <1>1, OneCarries
<1> QED
  BY <1>1, <1>2, <1>3, <1>4 DEF m

\* The packets of an opening are openers.
LEMMA OpensPackets ==
  ASSUME NEW n \in Neighbor, NEW nb, NEW t, Opens(n, nb, t)
  PROVE  /\ t \in Seq(Packet) /\ Opening(t)
         /\ LSAs(t) = {} /\ Headers(t) = {} /\ Asked(t) = {}
<1>1. CASE t = <<>>
  BY <1>1, NothingCarried
<1>2. CASE t = <<InitialDD(n)>>
  BY <1>2, FirstDD
<1> QED
  BY <1>1, <1>2 DEF Opens

\* A router that was Down or in Init opens the adjacency.
LEMMA TurnOpens ==
  ASSUME NEW M, NEW S, NEW ms \in Seq(Packet), NEW sm \in Seq(Packet), Turn(M, S, ms, sm),
         NEW n \in Neighbor, NEW t
  PROVE  /\ /\ M.state \in {"Down", "Init"} /\ Opens(n, M, t)
            => Turn(n, S, ms \o t, sm)
         /\ /\ S.state \in {"Down", "Init"} /\ Opens(n, S, t)
            => Turn(M, n, ms, sm \o t)
<1>1. /\ "Down" \notin Synchronizing /\ "Init" \notin Synchronizing
      /\ "ExStart" \notin Synchronizing /\ "Exchange" \in Synchronizing
  BY DEF Synchronizing
<1>2. ASSUME M.state \in {"Down", "Init"}, Opens(n, M, t)
      PROVE  Turn(n, S, ms \o t, sm)
  <2>1. /\ Negotiating(M, S, ms, sm) /\ NoDD(ms)
    BY <1>1, <1>2 DEF Turn, Negotiating, SlaveFound, MasterSends, SlaveSends, Exchange, AllDescribed
  <2>2. /\ n.state = "ExStart" /\ ~n.done
        /\ t = <<>> \/ (n.more /\ t = <<InitialDD(n)>>)
    BY <1>2, <2>1 DEF Opens, Negotiating
  <2>3. CASE t = <<>>
    <3>1. ms \o t = ms
      BY <2>3
    <3> QED
      BY <1>1, <2>1, <2>2, <3>1 DEF Negotiating, Turn
  <2>4. CASE n.more /\ t = <<InitialDD(n)>>
    <3>1. OneDD(ms \o t, InitialDD(n).id)
      BY <2>1, <2>4, FirstDD, JoinedDD
    <3> QED
      BY <1>1, <2>1, <2>2, <2>4, <3>1 DEF Negotiating, Turn
  <2> QED
    BY <2>2, <2>3, <2>4
<1>3. ASSUME S.state \in {"Down", "Init"}, Opens(n, S, t)
      PROVE  Turn(M, n, ms, sm \o t)
  <2>1. Negotiating(M, S, ms, sm)
    BY <1>1, <1>3 DEF Turn, Negotiating, SlaveFound, MasterSends, SlaveSends, Exchange, AllDescribed
  <2>2. n.state = "ExStart" /\ ~n.done
    BY <1>3, <2>1 DEF Opens, Negotiating
  <2>3. Opening(sm \o t)
    BY <1>3, <2>1, OpensPackets, JoinedOpening DEF Negotiating
  <2> QED
    BY <1>1, <2>1, <2>2, <2>3 DEF Negotiating, Turn
<1> QED
  BY <1>2, <1>3

\* A hello, or a first DD that is not agreed to, opens the adjacency.
LEMMA OpenerOpens ==
  ASSUME IInv, TInv, Tree, NEW a \in Arc, link[a] # <<>>, Opener(Head(link[a])),
         nbr[Back(a)].state \in {"Down", "Init"},
         NEW n \in Neighbor, NEW t, Opens(n, nbr[Back(a)], t), Answer(a, t),
         nbr' = [nbr EXCEPT ![Back(a)] = n],
         UNCHANGED <<lsdb, updateLSA, lsTimer, unhandled>>
  PROVE  TInv'
<1> DEFINE b == Back(a)
<1>0. /\ t \in Seq(Packet) /\ Opening(t)
      /\ LSAs(t) = {} /\ Headers(t) = {} /\ Asked(t) = {}
  BY OpensPackets
<1>1. /\ b \in Arc /\ b # a /\ Back(b) = a
      /\ link[a] \in Seq(Packet) /\ link[b] \in Seq(Packet)
      /\ link'[a] = Tail(link[a]) /\ link'[b] = link[b] \o t
      /\ \A c \in Arc \ {a, b} : link'[c] = link[c]
  BY <1>0, Answers
<1>2. nbr'[b] = n /\ \A c \in Arc : c # b => nbr'[c] = nbr[c]
  BY <1>1 DEF IInv, TypeOK
<1>3. /\ n.summary = nbr[b].summary /\ n.req = nbr[b].req /\ n.state = "ExStart"
      /\ n.state \in Synchronizing <=> nbr[b].state \in Synchronizing
  BY DEF Opens, Synchronizing
<1>4. \A c \in Arc : Data(c)'
  <2>1. /\ Head(link[a]).type # "lsu"
        /\ Head(link[a]).type = "dd" => Head(link[a]).headers = {}
    BY DEF Opener
  <2>2. Asked(t) \subseteq {h.adv : h \in nbr[Back(a)].req}
    BY <1>0
  <2> QED
    BY <1>0, <1>3, <2>1, <2>2, DataAnswer
<1>5. Phase(a)' /\ Phase(b)'
  <2>1. /\ a[1] > a[2] => Turn(nbr[a], nbr[b], link[a], link[b])
        /\ ~(a[1] > a[2]) => Turn(nbr[b], nbr[a], link[b], link[a])
    BY <1>1, BothPhases DEF TInv
  <2>2. Tail(link[a]) \in Seq(Packet)
    BY <1>1
  <2>3. /\ a[1] > a[2] => Turn(nbr[a], nbr[b], Tail(link[a]), link[b])
        /\ ~(a[1] > a[2]) => Turn(nbr[b], nbr[a], link[b], Tail(link[a]))
    BY <1>1, <2>1, OpenerLeaves
  <2>4. /\ a[1] > a[2] => Turn(nbr[a], n, Tail(link[a]), link[b] \o t)
        /\ ~(a[1] > a[2]) => Turn(n, nbr[a], link[b] \o t, Tail(link[a]))
    BY <1>1, <2>2, <2>3, TurnOpens
  <2>5. /\ a[1] > a[2] => Turn(nbr'[a], nbr'[b], link'[a], link'[b])
        /\ ~(a[1] > a[2]) => Turn(nbr'[b], nbr'[a], link'[b], link'[a])
    BY <1>1, <1>2, <2>4
  <2> QED
    BY <1>1, <2>5, Ends DEF Phase
<1>6. \A c \in Arc : Phase(c)'
  BY <1>1, <1>2, <1>5, PhasesElse DEF TInv
<1>7. Named' /\ \A r \in Router : Own(r)'
  <2>1. \A c \in Arc : nbr[c].state = "Full" => nbr'[c].state = "Full"
    BY <1>2
  <2> QED
    BY <2>1, OwnKept
<1> QED
  BY <1>4, <1>6, <1>7 DEF TInv

\* A hello received.
LEMMA TreeHelloReceived ==
  ASSUME IInv, TInv, Tree, NEW a \in Arc, RecvHello(a)
  PROVE  TInv'
<1> DEFINE me == Back(a)
           nb == nbr[me]
<1>1. /\ me \in Arc /\ link[a] # <<>> /\ Opener(Head(link[a]))
      /\ nb \in Neighbor /\ Good(me, nb)
      /\ UNCHANGED <<lsdb, updateLSA, lsTimer, unhandled>>
  BY Ends, OneArc DEF RecvHello, Arrives, Opener
<1>2. CASE Head(link[a]).seen /\ nb.state \in {"Down", "Init"}
  <2>1. nb.req = {}
    BY <1>1, <1>2 DEF Good
  <2>2. /\ nbr' = [nbr EXCEPT ![me] = attempt_adjacency(nb, me)]
        /\ Answer(a, AttemptPackets(nb, me))
    BY <1>2 DEF RecvHello
  <2>3. /\ attempt_adjacency(nb, me) \in Neighbor
        /\ Opens(attempt_adjacency(nb, me), nb, AttemptPackets(nb, me))
    BY <1>1, <2>1, AttemptOpens
  <2> QED
    BY <1>1, <1>2, <2>2, <2>3, OpenerOpens
<1>3. CASE ~(Head(link[a]).seen /\ nb.state \in {"Down", "Init"})
  <2> DEFINE n == [nb EXCEPT !.state = IF @ = "Down" THEN "Init" ELSE @]
  <2>1. nbr' = [nbr EXCEPT ![me] = n] /\ Answer(a, <<>>)
    BY <1>1, <1>3 DEF RecvHello, IInv, TypeOK
  <2>2. /\ Kept(n, nb) /\ n.req = nb.req /\ (nb.state = "Full" => n.state = "Full")
    BY <1>1 DEF Neighbor, Kept, Synchronizing
  <2> HIDE DEF n
  <2> QED
    BY <1>1, <2>1, <2>2, OpenerTaken
<1> QED
  BY <1>2, <1>3

----------------------------------------------------------------------------
(* DD packets *)

\* What a DD at the head of a link to the slave can be.
LEMMA HeadToSlave ==
  ASSUME NEW M, NEW S, NEW ms \in Seq(Packet), NEW sm, Turn(M, S, ms, sm),
         ms # <<>>, Head(ms).type = "dd"
  PROVE  /\ NoDD(Tail(ms))
         /\ \/ /\ Negotiating(M, S, ms, sm) /\ M.state = "ExStart" /\ M.more
               /\ Head(ms).id = InitialDD(M).id
            \/ MasterSends(M, S, ms, sm) /\ Head(ms).id = LastDD(M)
<1>1. ~NoDD(ms)
  BY PoppedDD
<1>2. \A id : OneDD(ms, id) => Head(ms).id = id /\ NoDD(Tail(ms))
  BY PoppedDD
<1>3. CASE Negotiating(M, S, ms, sm)
  BY <1>1, <1>2, <1>3 DEF Negotiating
<1>4. CASE MasterSends(M, S, ms, sm)
  BY <1>2, <1>4 DEF MasterSends
<1> QED
  BY <1>1, <1>3, <1>4 DEF Turn, SlaveFound, SlaveSends, AllDescribed

\* What a DD at the head of a link to the master can be.
LEMMA HeadToMaster ==
  ASSUME NEW M, NEW S, NEW ms, NEW sm \in Seq(Packet), Turn(M, S, ms, sm),
         sm # <<>>, Head(sm).type = "dd"
  PROVE  \/ /\ Opener(Head(sm))
            /\ Negotiating(M, S, ms, sm) \/ SlaveFound(M, S, ms, sm)
         \/ /\ NoDD(Tail(sm)) /\ Head(sm).id = LastDD(S)
            /\ SlaveFound(M, S, ms, sm) \/ SlaveSends(M, S, ms, sm)
<1>1. ~NoDD(sm)
  BY PoppedDD
<1>2. \A id : OneDD(sm, id) => Head(sm).id = id /\ NoDD(Tail(sm))
  BY PoppedDD
<1>3. \A id : Leads(sm, id) => \/ Head(sm).id = id /\ NoDD(Tail(sm))
                               \/ Opener(Head(sm))
  BY PoppedDD
<1>4. Opening(sm) => Opener(Head(sm))
  BY PoppedDD
<1>5. CASE Negotiating(M, S, ms, sm)
  BY <1>4, <1>5 DEF Negotiating
<1>6. CASE SlaveFound(M, S, ms, sm)
  BY <1>3, <1>6 DEF SlaveFound
<1>7. CASE SlaveSends(M, S, ms, sm)
  BY <1>2, <1>7 DEF SlaveSends
<1> QED
  BY <1>1, <1>5, <1>6, <1>7 DEF Turn, MasterSends, AllDescribed

\* What a DD that arrives can be, the first or one in its turn.
LEMMA HeadDD ==
  ASSUME IInv, TInv, Tree, NEW a \in Arc, Arrives(a, "dd")
  PROVE  LET me == Back(a)  m == Head(link[a])
         IN  /\ \/ Opener(m) /\ ~Sync(me)
                \/ /\ ~m.id.flags.init /\ NoDD(Tail(link[a]))
                   /\ \/ /\ a[1] > a[2] /\ m.id = LastDD(nbr[a])
                         /\ MasterSends(nbr[a], nbr[me], link[a], link[me])
                      \/ /\ ~(a[1] > a[2]) /\ m.id = LastDD(nbr[a])
                         /\ \/ SlaveFound(nbr[me], nbr[a], link[me], link[a])
                            \/ SlaveSends(nbr[me], nbr[a], link[me], link[a])
             /\ a[1] > a[2] /\ ~Sync(me) =>
                  /\ Negotiating(nbr[a], nbr[me], link[a], link[me])
                  /\ nbr[a].state = "ExStart" /\ nbr[a].more
                  /\ m.id = InitialDD(nbr[a]).id /\ NoDD(Tail(link[a])) /\ m.headers = {}
<1> DEFINE me == Back(a)
           m == Head(link[a])
<1>1. /\ me \in Arc /\ link[a] # <<>> /\ m.type = "dd"
      /\ link[a] \in Seq(Packet) /\ link[me] \in Seq(Packet)
  BY Ends, OneArc DEF Arrives
<1>2. /\ a[1] > a[2] => Turn(nbr[a], nbr[me], link[a], link[me])
      /\ ~(a[1] > a[2]) => Turn(nbr[me], nbr[a], link[me], link[a])
  BY <1>1, BothPhases DEF TInv
<1>3. "ExStart" \notin Synchronizing /\ "Exchange" \in Synchronizing
  BY DEF Synchronizing
<1>4. \A nb : ~LastDD(nb).flags.init /\ InitialDD(nb).id.flags.init
  BY DEF LastDD, InitialDD, DD
<1>5. ~Sync(a) => Headers(link[a]) = {}
  BY OneSide DEF Core, Told
<1>6. m.headers \subseteq Headers(link[a])
  BY <1>1, PoppedCarries
<1>7. CASE a[1] > a[2]
  <2>1. /\ NoDD(Tail(link[a]))
        /\ \/ /\ Negotiating(nbr[a], nbr[me], link[a], link[me])
              /\ nbr[a].state = "ExStart" /\ nbr[a].more /\ m.id = InitialDD(nbr[a]).id
           \/ MasterSends(nbr[a], nbr[me], link[a], link[me]) /\ m.id = LastDD(nbr[a])
    BY <1>1, <1>2, <1>7, HeadToSlave
  <2>2. CASE /\ Negotiating(nbr[a], nbr[me], link[a], link[me])
             /\ nbr[a].state = "ExStart" /\ nbr[a].more /\ m.id = InitialDD(nbr[a]).id
    <3>1. ~Sync(a) /\ ~Sync(me)
      BY <2>2 DEF Negotiating, Sync
    <3>2. m.headers = {}
      BY <1>5, <1>6, <3>1
    <3>3. Opener(m)
      BY <1>1, <1>4, <2>2, <3>2 DEF Opener
    <3> QED
      BY <2>1, <2>2, <3>1, <3>2, <3>3
  <2>3. CASE MasterSends(nbr[a], nbr[me], link[a], link[me]) /\ m.id = LastDD(nbr[a])
    <3>1. Sync(me)
      BY <2>3 DEF MasterSends, Exchange, Sync
    <3> QED
      BY <1>4, <1>7, <2>1, <2>3, <3>1
  <2> QED
    BY <2>1, <2>2, <2>3
<1>8. CASE ~(a[1] > a[2])
  <2>1. \/ /\ Opener(m)
           /\ \/ Negotiating(nbr[me], nbr[a], link[me], link[a])
              \/ SlaveFound(nbr[me], nbr[a], link[me], link[a])
        \/ /\ NoDD(Tail(link[a])) /\ m.id = LastDD(nbr[a])
           /\ \/ SlaveFound(nbr[me], nbr[a], link[me], link[a])
              \/ SlaveSends(nbr[me], nbr[a], link[me], link[a])
    BY <1>1, <1>2, <1>8, HeadToMaster
  <2>2. Negotiating(nbr[me], nbr[a], link[me], link[a]) => ~Sync(me)
    BY DEF Negotiating, Sync
  <2>3. SlaveFound(nbr[me], nbr[a], link[me], link[a]) => ~Sync(me)
    BY <1>3 DEF SlaveFound, Sync
  <2> QED
    BY <1>4, <1>8, <2>1, <2>2, <2>3
<1> QED
  BY <1>7, <1>8

\* A first DD that is lost.
LEMMA TreeLost ==
  ASSUME IInv, TInv, Tree, NEW a \in Arc, Lose(a), failures' = failures
  PROVE  TInv'
<1> DEFINE me == Back(a)
           nb == nbr[me]
<1>1. /\ Arrives(a, "dd") /\ Answer(a, <<>>) /\ link[a] # <<>>
      /\ UNCHANGED <<nbr, lsdb, updateLSA, lsTimer, unhandled>>
  BY DEF Lose, Arrives
<1>2. Head(link[a]).id.flags.init
  <2>1. failures \in Nat
    BY DEF IInv, TypeOK
  <2>2. failures # failures + 1
    BY <2>1
  <2> QED
    BY <2>2 DEF Lose
<1>3. Opener(Head(link[a]))
  BY <1>1, <1>2, HeadDD
<1>4. me \in Arc /\ nbr' = [nbr EXCEPT ![me] = nb] /\ Kept(nb, nb)
  BY <1>1, Ends, Standing DEF IInv, TypeOK
<1> QED
  BY <1>1, <1>3, <1>4, OpenerTaken

\* A DD that is not used: it finds the router Down.
LEMMA TreeUnused ==
  ASSUME IInv, TInv, Tree, NEW a \in Arc, RecvDDUnused(a)
  PROVE  TInv'
<1> DEFINE me == Back(a)
           nb == nbr[me]
           m == Head(link[a])
<1>1. /\ Arrives(a, "dd") /\ link[a] # <<>>
      /\ nb.state \notin {"Init", "ExStart"} /\ (nb.state \in Synchronizing => m.id \in nb.lastrecv)
      /\ Answer(a, IF nb.state \in Synchronizing /\ ~nb.master THEN <<m>> ELSE <<>>)
      /\ UNCHANGED <<nbr, lsdb, updateLSA, lsTimer, unhandled>>
  BY DEF RecvDDUnused, Arrives
<1>2. me \in Arc /\ nb \in Neighbor /\ nbr[a] \in Neighbor
  BY Ends, OneArc
<1>3. /\ LastDD(nbr[a]).seq = nbr[a].seq /\ nbr[a].seq \in Nat /\ nb.seq \in Nat
  BY <1>2 DEF LastDD, Neighbor
<1>4. ~(MasterSends(nbr[a], nb, link[a], link[me]) /\ m.id = LastDD(nbr[a]))
  <2> SUFFICES ASSUME MasterSends(nbr[a], nb, link[a], link[me]), m.id = LastDD(nbr[a])
               PROVE  FALSE
    OBVIOUS
  <2>1. /\ nb.state \in Synchronizing /\ nbr[a].seq = nb.seq + 1
        /\ \A id \in nb.lastrecv : id.seq <= nb.seq
    BY DEF MasterSends, Exchange
  <2>2. m.id.seq <= nb.seq
    BY <1>1, <2>1
  <2> QED
    BY <1>3, <2>1, <2>2
<1>5. ~(SlaveSends(nb, nbr[a], link[me], link[a]) /\ m.id = LastDD(nbr[a]))
  <2> SUFFICES ASSUME SlaveSends(nb, nbr[a], link[me], link[a]), m.id = LastDD(nbr[a])
               PROVE  FALSE
    OBVIOUS
  <2>1. /\ nb.state \in Synchronizing /\ nbr[a].seq = nb.seq
        /\ \A id \in nb.lastrecv : id.seq < nb.seq
    BY DEF SlaveSends, Exchange
  <2>2. m.id.seq < nb.seq
    BY <1>1, <2>1
  <2> QED
    BY <1>3, <2>1, <2>2
<1>6. Opener(m) /\ ~Sync(me)
  BY <1>1, <1>4, <1>5, HeadDD DEF SlaveFound
<1>7. Answer(a, <<>>)
  BY <1>1, <1>6 DEF Sync
<1>8. nbr' = [nbr EXCEPT ![me] = nb] /\ Kept(nb, nb)
  BY <1>1, <1>2, Standing DEF IInv, TypeOK
<1> QED
  BY <1>1, <1>6, <1>7, <1>8, OpenerTaken

\* Nothing but DDs that are counted.
LEMMA NoneCounted ==
  ASSUME NEW a \in Arc, link[a] \in Seq(Packet), Count(a, "dd") = 0
  PROVE  NoDD(link[a])
<1> DEFINE D == {i \in 1..Len(link[a]) : link[a][i].type = "dd"}
<1>1. IsFiniteSet(D)
  <2>1. IsFiniteSet(1..Len(link[a]))
    BY FS_Interval
  <2> QED
    BY <2>1, FS_Subset
<1>2. D = {}
  BY <1>1, FS_EmptySet DEF Count
<1> QED
  BY <1>2 DEF NoDD

\* The first DD sent again.
LEMMA TreeDDTimer ==
  ASSUME IInv, TInv, Tree, NEW a \in Arc, DDTimer(a)
  PROVE  TInv'
<1> DEFINE nb == nbr[a]
           b == Back(a)
<1>1. /\ b \in Arc /\ b # a /\ Back(b) = a /\ nb \in Neighbor
      /\ link[a] \in Seq(Packet) /\ link[b] \in Seq(Packet)
      /\ InOrder(link[a]) /\ InOrder(link[b])
  BY Ends, OneArc, OneSide
<1>2. UNCHANGED <<lsdb, updateLSA, lsTimer, unhandled>>
  BY DEF DDTimer
<1>3. CASE nb.state # "ExStart"
  <2> DEFINE n == [nb EXCEPT !.ddTimer = FALSE]
             e == <<>>
  <2>1. nbr' = [nbr EXCEPT ![a] = n] /\ UNCHANGED link
    BY <1>3 DEF DDTimer
  <2>2. Kept(n, nb) /\ n.req = nb.req /\ n.state = nb.state
    BY <1>1 DEF Neighbor, Kept
  <2> HIDE DEF n
  <2>3. link' = [link EXCEPT ![a] = @ \o e]
    <3>1. link[a] \o e = link[a]
      BY <1>1
    <3> QED
      BY <2>1, <3>1 DEF IInv, TypeOK
  <2>4. e \in Seq(Packet) /\ LSAs(e) = {} /\ NoDD(e) /\ Opening(e) /\ Asked(e) = {}
    BY NothingCarried
  <2> HIDE DEF e
  <2> QED
    BY <1>2, <2>1, <2>2, <2>3, <2>4, Talk
<1>4. CASE nb.state = "ExStart"
  <2> DEFINE n == [nb EXCEPT !.more = TRUE]
             m == InitialDD(nb)
  <2>1. /\ nbr' = [nbr EXCEPT ![a] = n] /\ link' = [link EXCEPT ![a] = Append(@, m)]
        /\ Count(a, "dd") + Count(b, "dd") = 0
    BY <1>4 DEF DDTimer
  <2>2. NoDD(link[a]) /\ NoDD(link[b])
    <3>1. Count(a, "dd") \in Nat /\ Count(b, "dd") \in Nat
      <4>1. ASSUME NEW c \in Arc PROVE Count(c, "dd") \in Nat
        <5>1. IsFiniteSet({i \in 1..Len(link[c]) : link[c][i].type = "dd"})
          <6>1. IsFiniteSet(1..Len(link[c]))
            BY OneArc, FS_Interval
          <6> QED
            BY <6>1, FS_Subset
        <5> QED
          BY <5>1, FS_CardinalityType DEF Count
      <4> QED
        BY <1>1, <4>1
    <3>2. Count(a, "dd") = 0 /\ Count(b, "dd") = 0
      BY <2>1, <3>1
    <3> QED
      BY <1>1, <3>2, NoneCounted
  <2>3. /\ n.state = nb.state /\ n.summary = nb.summary /\ n.req = nb.req /\ n.done = nb.done
        /\ n.seq = nb.seq /\ n.more = TRUE
    BY <1>1 DEF Neighbor
  <2>4. /\ m \in Packet /\ m.type = "dd" /\ Opener(m) /\ <<m>> \in Seq(Packet) /\ Opening(<<m>>)
        /\ LSAs(<<m>>) = {} /\ Headers(<<m>>) = {} /\ Asked(<<m>>) = {}
    BY <1>1, FirstDD
  <2>5. InitialDD(n) = m
    BY <2>3 DEF InitialDD
  <2> DEFINE u == link[a] \o <<m>>
  <2>6. Append(link[a], m) = u
    BY <1>1, <2>4, Appended
  <2> HIDE DEF n, m
  <2>7. /\ link'[a] = u /\ \A c \in Arc : c # a => link'[c] = link[c]
        /\ nbr'[a] = n /\ \A c \in Arc : c # a => nbr'[c] = nbr[c]
    BY <2>1, <2>6 DEF IInv, TypeOK
  <2>8. InOrder(u) /\ LSAs(u) = LSAs(link[a]) /\ Headers(u) = Headers(link[a]) /\ Asked(u) = Asked(link[a])
    <3> DEFINE s == link[a]
               t == <<m>>
    <3>1. /\ s \in Seq(Packet) /\ InOrder(s) /\ t \in Seq(Packet)
          /\ LSAs(t) = {} /\ Headers(t) = {} /\ Asked(t) = {} /\ u = s \o t
      BY <1>1, <2>4
    <3> HIDE DEF s, t, u
    <3>2. InOrder(u) /\ LSAs(u) = LSAs(s) /\ Headers(u) = Headers(s) /\ Asked(u) = Asked(s) \cup Asked(t)
      BY <3>1, PlainJoined
    <3> QED
      BY <3>1, <3>2 DEF s
  <2>9. \A c \in Arc : Data(c)'
    <3>1. Told(a)' = Told(a) /\ Sync(a)' = Sync(a) /\ Told(b)' = Told(b) /\ Sync(b)' = Sync(b)
      BY <1>1, <2>3, <2>7, <2>8 DEF Told, Sync
    <3> HIDE DEF b, u
    <3>2. Data(a)'
      BY <1>1, <1>2, <2>7, <2>8, <3>1, DataKept DEF b
    <3>3. Data(b)'
      BY <1>1, <1>2, <2>3, <2>7, <2>8, <3>1, DataKept
    <3> QED
      BY <1>2, <2>7, <3>2, <3>3, DataElse DEF b
  <2>10. OneDD(u, m.id)
    BY <1>1, <2>2, <2>4, JoinedDD
  <2>11. "ExStart" \notin Synchronizing /\ "ExStart" # "Exchange"
    BY DEF Synchronizing
  <2>12. a[1] > a[2] => Turn(n, nbr[b], u, link[b])
    <3> SUFFICES ASSUME a[1] > a[2] PROVE Turn(n, nbr[b], u, link[b])
      OBVIOUS
    <3>1. Turn(nb, nbr[b], link[a], link[b])
      BY BothPhases DEF TInv
    <3>2. ~SlaveFound(nb, nbr[b], link[a], link[b])
      BY <2>2 DEF SlaveFound, NoDD, Leads
    <3>3. Negotiating(nb, nbr[b], link[a], link[b])
      BY <1>4, <2>11, <3>1, <3>2 DEF Turn, MasterSends, SlaveSends, Exchange, AllDescribed
    <3>4. Negotiating(n, nbr[b], u, link[b])
      BY <1>4, <2>3, <2>5, <2>10, <3>3 DEF Negotiating
    <3> QED
      BY <3>4 DEF Turn
  <2>13. ~(a[1] > a[2]) => Turn(nbr[b], n, link[b], u)
    <3> SUFFICES ASSUME ~(a[1] > a[2]) PROVE Turn(nbr[b], n, link[b], u)
      OBVIOUS
    <3>1. Turn(nbr[b], nb, link[b], link[a])
      BY <1>1, BothPhases DEF TInv
    <3>2. Negotiating(nbr[b], nb, link[b], link[a])
      BY <1>4, <2>11, <3>1 DEF Turn, SlaveFound, MasterSends, SlaveSends, Exchange, AllDescribed
    <3>3. Opening(u)
      BY <1>1, <2>4, <3>2, JoinedOpening DEF Negotiating
    <3>4. Negotiating(nbr[b], n, link[b], u)
      BY <1>4, <2>3, <3>2, <3>3 DEF Negotiating
    <3> QED
      BY <3>4 DEF Turn
  <2>14. Phase(a)' /\ Phase(b)'
    <3>1. /\ a[1] > a[2] => Turn(nbr'[a], nbr'[b], link'[a], link'[b])
          /\ ~(a[1] > a[2]) => Turn(nbr'[b], nbr'[a], link'[b], link'[a])
      BY <1>1, <2>7, <2>12, <2>13
    <3> QED
      BY <1>1, <3>1, Ends DEF Phase
  <2>15. \A c \in Arc : Phase(c)'
    BY <2>7, <2>14, PhasesElse DEF TInv
  <2>16. Named' /\ \A r \in Router : Own(r)'
    <3>1. \A c \in Arc : nbr[c].state = "Full" => nbr'[c].state = "Full"
      BY <2>3, <2>7
    <3> QED
      BY <1>2, <3>1, OwnKept
  <2> QED
    BY <1>2, <2>9, <2>15, <2>16 DEF TInv
<1> QED
  BY <1>3, <1>4

\* What processing a DD does to the structure, and its answer.
LEMMA Processing ==
  ASSUME NEW nb \in Neighbor, NEW db \in [Router -> LSA],
         NEW m, m.id \in DDId, m.headers \in SUBSET Header, NEW top \in Tops(nb.summary)
  PROVE  LET n == process_DD(nb, db, m, top)
             t == ProcessPackets(nb, db, m, top)
         IN  /\ n \in Neighbor
             /\ n.state = nb.state /\ n.master = nb.master /\ n.lastrecv = nb.lastrecv
             /\ n.req = nb.req \cup News(m.headers, db, nb.req)
             /\ n.seq = IF nb.master THEN nb.seq + 1 ELSE m.id.seq
             /\ IF Stops(nb, m)
                THEN n.summary = nb.summary /\ t = <<>>
                ELSE /\ n.summary = nb.summary \ top /\ top \subseteq nb.summary
                     /\ n.more = (nb.summary # top)
                     /\ n.done = (nb.done \/ (~nb.master /\ ~m.id.flags.more /\ ~n.more))
                     /\ \E p \in Packet : /\ p.type = "dd" /\ p.id = LastDD(n)
                                          /\ p.headers = top /\ t = <<p>>
<1> DEFINE q == nb.req \cup News(m.headers, db, nb.req)
           s == IF nb.master THEN nb.seq + 1 ELSE m.id.seq
           d == [nb EXCEPT !.req = q, !.seq = s]
           more == nb.summary # top
           mark == nb.done \/ (~nb.master /\ ~m.id.flags.more /\ ~more)
           n == process_DD(nb, db, m, top)
           t == ProcessPackets(nb, db, m, top)
<1>1. q \in SUBSET Header /\ s \in Nat /\ m.id.seq \in Nat
  BY DEF News, Neighbor, DDId
<1>2. top \subseteq nb.summary /\ top \in SUBSET Header /\ nb.summary \ top \in SUBSET Header
  BY TopTaken DEF Neighbor
<1>3. Described(nb, db, m) = d
  BY DEF Described, Wanted, News
<1> HIDE DEF q, s
<1>4. /\ d \in Neighbor /\ d.state = nb.state /\ d.master = nb.master
      /\ d.lastrecv = nb.lastrecv /\ d.req = q /\ d.seq = s /\ d.summary = nb.summary
      /\ d.done = nb.done /\ d.more = nb.more
  BY <1>1 DEF Neighbor
<1> HIDE DEF d
<1>5. CASE Stops(nb, m)
  <2>1. n = [d EXCEPT !.done = TRUE] /\ t = <<>>
    BY <1>3, <1>5 DEF process_DD, ProcessPackets
  <2> HIDE DEF n
  <2>2. /\ n \in Neighbor /\ n.state = d.state /\ n.master = d.master
        /\ n.lastrecv = d.lastrecv /\ n.req = d.req /\ n.seq = d.seq /\ n.summary = d.summary
    BY <1>4, <2>1 DEF Neighbor
  <2> QED
    BY <1>4, <1>5, <2>1, <2>2 DEF n, q, s
<1>6. CASE ~Stops(nb, m)
  <2> DEFINE sent == AfterDD(d, top)
             p == ExchangeDD(d, top)
  <2>1. sent = [d EXCEPT !.summary = nb.summary \ top, !.more = more]
    BY <1>4 DEF AfterDD
  <2>2. more \in BOOLEAN
    OBVIOUS
  <2>3. p = DD(d.seq, FALSE, more, d.master, top)
    BY <1>4 DEF ExchangeDD
  <2>4. n = [sent EXCEPT !.done = @ \/ (~nb.master /\ ~m.id.flags.more /\ ~sent.more)]
          /\ t = <<p>>
    BY <1>3, <1>6 DEF process_DD, ProcessPackets
  <2> HIDE DEF n, p, t, sent, more
  <2>5. /\ sent \in Neighbor /\ sent.state = d.state /\ sent.master = d.master
        /\ sent.lastrecv = d.lastrecv /\ sent.req = d.req /\ sent.seq = d.seq
        /\ sent.summary = nb.summary \ top /\ sent.more = more /\ sent.done = d.done
    BY <1>2, <1>4, <2>1, <2>2 DEF Neighbor
  <2> DEFINE mk == sent.done \/ (~nb.master /\ ~m.id.flags.more /\ ~sent.more)
  <2>6. mk \in BOOLEAN /\ n = [sent EXCEPT !.done = mk]
    BY <2>4
  <2>7. mk = (nb.done \/ (~nb.master /\ ~m.id.flags.more /\ ~more))
    BY <1>4, <2>5
  <2> HIDE DEF mk
  <2>8. /\ n \in Neighbor /\ n.state = sent.state /\ n.master = sent.master
        /\ n.lastrecv = sent.lastrecv /\ n.req = sent.req /\ n.seq = sent.seq
        /\ n.summary = sent.summary /\ n.more = sent.more /\ n.done = mk
    BY <2>5, <2>6 DEF Neighbor
  <2>9. p \in Packet
    <3>1. FALSE \in BOOLEAN /\ d.seq \in Nat /\ d.master \in BOOLEAN
      BY <1>4 DEF Neighbor
    <3> QED
      BY <1>2, <2>2, <2>3, <3>1, DDPacket
  <2>10. p.type = "dd" /\ p.id = LastDD(n) /\ p.headers = top
    BY <2>3, <2>5, <2>8 DEF DD, LastDD
  <2>11. n.more = (nb.summary # top)
    BY <2>5, <2>8 DEF more
  <2>12. n.done = (nb.done \/ (~nb.master /\ ~m.id.flags.more /\ ~n.more))
    BY <2>5, <2>7, <2>8
  <2>13. /\ n.state = nb.state /\ n.master = nb.master /\ n.lastrecv = nb.lastrecv
         /\ n.req = q /\ n.seq = s /\ n.summary = nb.summary \ top
    BY <1>4, <2>5, <2>8
  <2>14. \E p1 \in Packet : p1.type = "dd" /\ p1.id = LastDD(n) /\ p1.headers = top /\ t = <<p1>>
    BY <2>4, <2>9, <2>10
  <2> QED
    BY <1>2, <1>6, <2>8, <2>11, <2>12, <2>13, <2>14 DEF n, t, q, s
<1> QED
  BY <1>5, <1>6

\* A DD that is read, and answered with packets t.
LEMMA DataDD ==
  ASSUME IInv, TInv, Tree, NEW a \in Arc, Arrives(a, "dd"),
         NEW t \in Seq(Packet), LSAs(t) = {}, Asked(t) = {}, Answer(a, t),
         NEW n, nbr' = [nbr EXCEPT ![Back(a)] = n], n.state \in Synchronizing,
         n.req = nbr[Back(a)].req \cup News(Head(link[a]).headers, lsdb[a[2]], nbr[Back(a)].req),
         n.summary \cup Headers(t) =
           IF Sync(Back(a)) THEN nbr[Back(a)].summary
           ELSE Contents(lsdb[a[2]]),
         UNCHANGED <<lsdb, updateLSA>>
  PROVE  \A c \in Arc : Data(c)'
<1> DEFINE b == Back(a)
           m == Head(link[a])
           X == Behind[a]
           dn == lsdb[a[2]]
           dr == lsdb[a[1]]
<1>1. /\ b \in Arc /\ b # a /\ Back(b) = a /\ b[1] = a[2] /\ b[2] = a[1]
      /\ link[a] # <<>> /\ m.type = "dd"
      /\ link'[a] = Tail(link[a]) /\ link'[b] = link[b] \o t
      /\ \A c \in Arc \ {a, b} : link'[c] = link[c]
  BY Answers, Ends DEF Arrives
<1>2. nbr'[b] = n /\ \A c \in Arc : c # b => nbr'[c] = nbr[c]
  BY <1>1 DEF IInv, TypeOK
<1>3. /\ link[a] \in Seq(Packet) /\ InOrder(link[a])
      /\ link[b] \in Seq(Packet) /\ InOrder(link[b])
  BY <1>1, OneSide
<1>4. /\ InOrder(link'[a]) /\ LSAs(link'[a]) = LSAs(link[a])
      /\ Headers(link[a]) = Headers(link'[a]) \cup m.headers
      /\ Asked(link'[a]) = Asked(link[a])
  <2> DEFINE s == link[a]
  <2>1. s \in Seq(Packet) /\ InOrder(s) /\ s # <<>> /\ m = Head(s) /\ link'[a] = Tail(s)
    BY <1>1, <1>3
  <2> HIDE DEF s, m
  <2>2. InOrder(Tail(s))
    BY <2>1, PoppedOrder
  <2>3. /\ LSAs(s) = LSAs(Tail(s)) \cup (IF m.type = "lsu" THEN {m.lsa} ELSE {})
        /\ Headers(s) = Headers(Tail(s)) \cup (IF m.type = "dd" THEN m.headers ELSE {})
        /\ Asked(s) = Asked(Tail(s)) \cup (IF m.type = "lsr" THEN m.ids ELSE {})
    BY <2>1, PoppedCarries
  <2>4. LSAs(s) = LSAs(Tail(s)) /\ Headers(s) = Headers(Tail(s)) \cup m.headers
          /\ Asked(s) = Asked(Tail(s))
    BY <1>1, <2>3
  <2> QED
    BY <2>1, <2>2, <2>4 DEF s
<1>5. /\ InOrder(link'[b]) /\ LSAs(link'[b]) = LSAs(link[b])
      /\ Headers(link'[b]) = Headers(link[b]) \cup Headers(t)
      /\ Asked(link'[b]) = Asked(link[b])
  <2> DEFINE s == link[b]
             u == link'[b]
  <2>1. s \in Seq(Packet) /\ InOrder(s) /\ u = s \o t
    BY <1>1, <1>3
  <2> HIDE DEF s, u
  <2>2. InOrder(t)
    <3>1. \A i \in DOMAIN t : t[i].type # "lsu"
      BY Carried
    <3> QED
      BY <3>1 DEF InOrder
  <2>3. InOrder(u)
    BY <2>1, <2>2, JoinedOrder
  <2>4. /\ LSAs(u) = LSAs(s) \cup LSAs(t) /\ Asked(u) = Asked(s) \cup Asked(t)
        /\ Headers(u) = Headers(s) \cup Headers(t)
    BY <2>1, JoinedCarries
  <2> QED
    BY <2>3, <2>4 DEF s, u
<1>6. Data(a)'
  <2>1. Told(a) = Told(a)' \cup m.headers
    BY <1>1, <1>2, <1>4 DEF Told
  <2>2. nbr'[b].req = nbr[b].req \cup News(m.headers, dn, nbr[b].req)
    BY <1>2
  <2>3. Core(X, dn, dr, LSAs(link[a]), updateLSA[a], Told(a)', nbr'[b].req, Asked(link[b]), Sync(a))
    <3> DEFINE U == LSAs(link[a])
               Q == updateLSA[a]
               T == Told(a)
               T2 == Told(a)'
               R == nbr[b].req
               R2 == nbr'[b].req
               A == Asked(link[b])
               sync == Sync(a)
    <3>1. CoreType(X, dn, dr, U, Q, T, R) /\ Core(X, dn, dr, U, Q, T, R, A, sync)
      BY OneSide
    <3>2. T = T2 \cup m.headers /\ R2 = R \cup News(m.headers, dn, R)
      BY <2>1, <2>2
    <3> HIDE DEF X, dn, dr, U, Q, T, T2, R, R2, A, sync, m
    <3>3. Core(X, dn, dr, U, Q, T2, R2, A, sync)
      BY <3>1, <3>2, CoreRead
    <3> QED
      BY <3>3 DEF X, dn, dr, U, Q, T2, R2, A, sync
  <2>4. Sync(a)' = Sync(a)
    BY <1>1, <1>2 DEF Sync
  <2> QED
    BY <1>4, <1>5, <2>3, <2>4 DEF Data
<1>7. Data(b)'
  <2>1. Sync(b)'
    BY <1>2 DEF Sync
  <2>2. nbr'[a].req = nbr[a].req
    BY <1>1, <1>2
  <2>3. Told(b)' = n.summary \cup (Headers(link[b]) \cup Headers(t))
    BY <1>2, <1>5 DEF Told
  <2>4. /\ CoreType(Behind[b], dr, dn, LSAs(link[b]), updateLSA[b], Told(b), nbr[a].req)
        /\ Core(Behind[b], dr, dn, LSAs(link[b]), updateLSA[b], Told(b), nbr[a].req, Asked(link[a]), Sync(b))
    BY <1>1, OneSide
  <2>5. CASE Sync(b)
    <3>1. Told(b)' = Told(b)
      BY <2>3, <2>5 DEF Told
    <3> QED
      BY <1>1, <1>4, <1>5, <2>1, <2>2, <2>4, <2>5, <3>1 DEF Data
  <2>6. CASE ~Sync(b)
    <3> DEFINE H == Contents(dn)
    <3>1. LSAs(link[b]) = {} /\ updateLSA[b] = {} /\ Told(b) = {} /\ nbr[a].req = {}
      BY <2>4, <2>6 DEF Core
    <3>2. Told(b)' = H
      BY <2>3, <2>6, <3>1 DEF Told
    <3>3. Sync(b) = FALSE /\ Sync(b)' = TRUE
      BY <2>1, <2>6 DEF Sync
    <3>4. /\ CoreType(Behind[b], dr, dn, {}, {}, {}, {})
          /\ Core(Behind[b], dr, dn, {}, {}, {}, {}, Asked(link[a]), FALSE)
      BY <2>4, <3>1, <3>3
    <3>5. \A x \in Router \ Behind[b] : dn[x].seq <= dr[x].seq
      <4>1. Behind[b] = Router \ X /\ X \subseteq Router
        BY Sides
      <4>2. \A x \in X : Before(dn[x], dr[x]) /\ dn[x] \in LSA /\ dr[x] \in LSA
        <5>1. /\ CoreType(X, dn, dr, LSAs(link[a]), updateLSA[a], Told(a), nbr[b].req)
              /\ Core(X, dn, dr, LSAs(link[a]), updateLSA[a], Told(a), nbr[b].req,
                      Asked(link[b]), Sync(a))
          BY OneSide
        <5> HIDE DEF X, dn, dr, b
        <5>2. \A x \in X : Before(dn[x], dr[x]) /\ x \in Router
          BY <5>1 DEF Core, Flow, CoreType
        <5>3. \A x \in Router : dn[x] \in LSA /\ dr[x] \in LSA
          BY <5>1 DEF CoreType
        <5> QED
          BY <5>2, <5>3
      <4> HIDE DEF X, dn, dr, b
      <4>3. ASSUME NEW x \in X PROVE dn[x].seq <= dr[x].seq
        <5> DEFINE j == dn[x]
                   k == dr[x]
        <5>1. j \in LSA /\ k \in LSA /\ Before(j, k)
          BY <4>2
        <5> HIDE DEF j, k
        <5>2. j.seq <= k.seq
          BY <5>1 DEF Before, LSA
        <5> QED
          BY <5>2 DEF j, k
      <4> QED
        BY <4>1, <4>3
    <3>6. Core(Behind[b], dr, dn, {}, {}, H, {}, Asked(link[a]), TRUE)
      <4> DEFINE Y == Behind[b]
                 A == Asked(link[a])
      <4>1. /\ CoreType(Y, dr, dn, {}, {}, {}, {}) /\ Core(Y, dr, dn, {}, {}, {}, {}, A, FALSE)
            /\ \A x \in Router \ Y : dn[x].seq <= dr[x].seq
        BY <3>4, <3>5
      <4> HIDE DEF dn, dr, Y, A
      <4> QED
        BY <4>1, CoreBegin DEF Y, A
    <3> HIDE DEF H
    <3> QED
      BY <1>1, <1>4, <1>5, <2>2, <3>1, <3>2, <3>3, <3>6 DEF Data
  <2> QED
    BY <2>5, <2>6
<1> QED
  BY <1>1, <1>2, <1>6, <1>7, DataElse

\* A DD that is read, with the turn it leaves.
LEMMA TreeDD ==
  ASSUME IInv, TInv, Tree, NEW a \in Arc, Arrives(a, "dd"),
         NEW t \in Seq(Packet), LSAs(t) = {}, Asked(t) = {}, Answer(a, t),
         NEW n, nbr' = [nbr EXCEPT ![Back(a)] = n], n.state \in Synchronizing,
         n.req = nbr[Back(a)].req \cup News(Head(link[a]).headers, lsdb[a[2]], nbr[Back(a)].req),
         n.summary \cup Headers(t) =
           IF Sync(Back(a)) THEN nbr[Back(a)].summary
           ELSE Contents(lsdb[a[2]]),
         nbr[Back(a)].state # "Full",
         a[1] > a[2] => Turn(nbr[a], n, Tail(link[a]), link[Back(a)] \o t),
         ~(a[1] > a[2]) => Turn(n, nbr[a], link[Back(a)] \o t, Tail(link[a])),
         UNCHANGED <<lsdb, updateLSA, lsTimer>>, ~unhandled'
  PROVE  TInv'
<1> DEFINE b == Back(a)
<1>1. /\ b \in Arc /\ b # a /\ Back(b) = a /\ link[a] # <<>>
      /\ link'[a] = Tail(link[a]) /\ link'[b] = link[b] \o t
      /\ \A c \in Arc \ {a, b} : link'[c] = link[c]
  BY Answers DEF Arrives
<1>2. nbr'[b] = n /\ \A c \in Arc : c # b => nbr'[c] = nbr[c]
  BY <1>1 DEF IInv, TypeOK
<1>3. \A c \in Arc : Data(c)'
  BY DataDD
<1>4. Phase(a)' /\ Phase(b)'
  <2>1. /\ a[1] > a[2] => Turn(nbr'[a], nbr'[b], link'[a], link'[b])
        /\ ~(a[1] > a[2]) => Turn(nbr'[b], nbr'[a], link'[b], link'[a])
    BY <1>1, <1>2
  <2> QED
    BY <1>1, <2>1, Ends DEF Phase
<1>5. \A c \in Arc : Phase(c)'
  BY <1>1, <1>2, <1>4, PhasesElse DEF TInv
<1>6. Named' /\ \A r \in Router : Own(r)'
  <2>1. \A c \in Arc : nbr[c].state = "Full" => nbr'[c].state = "Full"
    BY <1>2
  <2> QED
    BY <2>1, OwnKept
<1> QED
  BY <1>3, <1>5, <1>6 DEF TInv

\* The slave reads a DD of the master.
LEMMA SlaveReads ==
  ASSUME NEW M \in Neighbor, NEW nb \in Neighbor, NEW db \in [Router -> LSA],
         NEW m, m.id \in DDId, m.headers \in SUBSET Header, NEW top \in Tops(nb.summary),
         ~nb.master, nb.state = "Exchange", ~nb.done, nb.lastrecv = {m.id},
         m.id.seq = M.seq, m.id.flags.more = M.more, ~M.done,
         NEW ms, NEW sm \in Seq(Packet), NoDD(ms)
  PROVE  LET n == process_DD(nb, db, m, top)
             t == ProcessPackets(nb, db, m, top)
         IN  /\ M.state = "Exchange" /\ M.master /\ Drained(M) /\ NoDD(sm)
                /\ (\A id \in M.lastrecv : id.seq < M.seq)
                => SlaveSends(M, n, ms, sm \o t)
             /\ M.state = "ExStart" /\ M.more /\ Opening(sm)
                => SlaveFound(M, n, ms, sm \o t)
<1> DEFINE n == process_DD(nb, db, m, top)
           t == ProcessPackets(nb, db, m, top)
<1>1. ~Stops(nb, m)
  BY DEF Stops
<1>2. /\ n \in Neighbor /\ n.state = "Exchange" /\ ~n.master /\ n.lastrecv = {m.id}
      /\ n.seq = M.seq /\ n.summary = nb.summary \ top /\ n.more = (nb.summary # top)
      /\ n.done = (~M.more /\ ~n.more)
      /\ \E p \in Packet : p.type = "dd" /\ p.id = LastDD(n) /\ t = <<p>>
  BY <1>1, Processing
<1>3. PICK p \in Packet : p.type = "dd" /\ p.id = LastDD(n) /\ t = <<p>>
  BY <1>2
<1> HIDE DEF n, t
<1>4. Drained(n)
  BY <1>2 DEF Drained
<1>5. M.seq \in Nat /\ \A id \in n.lastrecv : id.seq <= n.seq
  BY <1>2 DEF Neighbor
<1>6. "Exchange" \in Synchronizing
  BY DEF Synchronizing
<1>7. ASSUME M.state = "Exchange", M.master, Drained(M), NoDD(sm),
             \A id \in M.lastrecv : id.seq < M.seq
      PROVE  SlaveSends(M, n, ms, sm \o t)
  <2>1. OneDD(sm \o t, LastDD(n))
    BY <1>3, <1>7, JoinedDD
  <2>2. Exchange(M, n)
    BY <1>2, <1>4, <1>5, <1>6, <1>7 DEF Exchange
  <2> QED
    BY <1>2, <1>7, <2>1, <2>2 DEF SlaveSends
<1>8. ASSUME M.state = "ExStart", M.more, Opening(sm)
      PROVE  SlaveFound(M, n, ms, sm \o t)
  <2>1. Leads(sm \o t, LastDD(n))
    BY <1>3, <1>8, JoinedDD
  <2> QED
    BY <1>2, <1>4, <1>5, <1>8, <2>1 DEF SlaveFound
<1> QED
  BY <1>7, <1>8 DEF n, t

\* The master reads a DD of the slave.
LEMMA MasterReads ==
  ASSUME NEW S \in Neighbor, NEW nb \in Neighbor, NEW db \in [Router -> LSA],
         NEW m, m.id \in DDId, m.headers \in SUBSET Header, NEW top \in Tops(nb.summary),
         nb.master, nb.state = "Exchange", ~nb.done, nb.lastrecv = {m.id}, Drained(nb),
         m.id = LastDD(S), nb.seq = S.seq, S.state \in Synchronizing, ~S.master, Drained(S),
         \A id \in S.lastrecv : id.seq <= S.seq,
         nb.more \/ S.more => S.state = "Exchange" /\ ~S.done,
         NEW ms \in Seq(Packet), NEW sm, NoDD(ms), NoDD(sm)
  PROVE  Turn(process_DD(nb, db, m, top), S, ms \o ProcessPackets(nb, db, m, top), sm)
<1> DEFINE n == process_DD(nb, db, m, top)
           t == ProcessPackets(nb, db, m, top)
<1>1. /\ n \in Neighbor /\ n.state = "Exchange" /\ n.master /\ n.lastrecv = {m.id}
      /\ n.seq = nb.seq + 1
  BY Processing
<1>2. S.seq \in Nat /\ m.id.seq = S.seq /\ m.id.flags.more = S.more
  BY DEF Neighbor, LastDD
<1>3. "Exchange" \in Synchronizing
  BY DEF Synchronizing
<1>4. CASE Stops(nb, m)
  <2>1. n.summary = nb.summary /\ t = <<>>
    BY <1>4, Processing
  <2>2. ms \o t = ms
    BY <2>1
  <2>3. nb.summary = {} /\ S.summary = {}
    BY <1>2, <1>4 DEF Stops, Drained
  <2> QED
    BY <1>1, <1>3, <2>1, <2>2, <2>3 DEF AllDescribed, Turn
<1>5. CASE ~Stops(nb, m)
  <2>1. /\ n.summary = nb.summary \ top /\ n.more = (nb.summary # top)
        /\ n.done = (nb.done \/ (~nb.master /\ ~m.id.flags.more /\ ~n.more))
        /\ \E p \in Packet : p.type = "dd" /\ p.id = LastDD(n) /\ t = <<p>>
    BY <1>5, Processing
  <2>2. PICK p \in Packet : p.type = "dd" /\ p.id = LastDD(n) /\ t = <<p>>
    BY <2>1
  <2> HIDE DEF n, t
  <2>3. OneDD(ms \o t, LastDD(n))
    BY <2>2, JoinedDD
  <2>4. Drained(n)
    BY <2>1 DEF Drained
  <2>5. S.state = "Exchange" /\ ~S.done
    BY <1>2, <1>5 DEF Stops
  <2>6. \A id \in n.lastrecv : id.seq < n.seq
    BY <1>1, <1>2
  <2>7. Exchange(n, S)
    BY <1>1, <1>3, <2>4, <2>6 DEF Exchange
  <2>8. MasterSends(n, S, ms \o t, sm)
    BY <1>1, <1>2, <2>1, <2>3, <2>5, <2>7 DEF MasterSends
  <2> QED
    BY <2>8 DEF Turn, n, t
<1> QED
  BY <1>4, <1>5

\* What a processed DD carries.
LEMMA ProcessCarries ==
  ASSUME NEW nb \in Neighbor, NEW db \in [Router -> LSA],
         NEW m, m.id \in DDId, m.headers \in SUBSET Header, NEW top \in Tops(nb.summary)
  PROVE  LET n == process_DD(nb, db, m, top)
             t == ProcessPackets(nb, db, m, top)
         IN  /\ t \in Seq(Packet) /\ LSAs(t) = {} /\ Asked(t) = {}
             /\ n.summary \cup Headers(t) = nb.summary
<1> DEFINE n == process_DD(nb, db, m, top)
           t == ProcessPackets(nb, db, m, top)
<1>1. CASE Stops(nb, m)
  <2>1. n.summary = nb.summary /\ t = <<>>
    BY <1>1, Processing
  <2> QED
    BY <2>1, NothingCarried
<1>2. CASE ~Stops(nb, m)
  <2>1. /\ n.summary = nb.summary \ top /\ top \subseteq nb.summary
        /\ \E p \in Packet : p.type = "dd" /\ p.headers = top /\ t = <<p>>
    BY <1>2, Processing
  <2>2. PICK p \in Packet : p.type = "dd" /\ p.headers = top /\ t = <<p>>
    BY <2>1
  <2>3. t \in Seq(Packet) /\ LSAs(t) = {} /\ Asked(t) = {} /\ Headers(t) = top
    BY <2>2, OneCarries
  <2> QED
    BY <2>1, <2>3
<1> QED
  BY <1>1, <1>2

\* A DD in the exchange is the one expected.
LEMMA TreeExchange ==
  ASSUME IInv, TInv, Tree, NEW a \in Arc, RecvDDExchange(a)
  PROVE  TInv'
<1> DEFINE me == Back(a)
           old == nbr[me]
           m == Head(link[a])
           db == lsdb[me[1]]
           nb == [nbr[me] EXCEPT !.lastrecv = {m.id}]
           expected == nb.state = "Exchange" /\ InSequence(nb, m)
<1>1. /\ me \in Arc /\ me[1] = a[2] /\ Arrives(a, "dd") /\ link[a] # <<>>
      /\ old \in Neighbor /\ nbr[a] \in Neighbor /\ db \in [Router -> LSA]
      /\ link[a] \in Seq(Packet) /\ link[me] \in Seq(Packet)
      /\ m \in Packet /\ m.id \in DDId /\ m.headers \in SUBSET Header
  BY Ends, OneArc, Arriving, Kinds DEF RecvDDExchange, Arrives, IInv
<1>2. /\ IF expected
         THEN \E top \in Tops(nb.summary) :
                /\ nbr' = [nbr EXCEPT ![me] = process_DD(nb, db, m, top)]
                /\ Answer(a, ProcessPackets(nb, db, m, top))
         ELSE nbr' = [nbr EXCEPT ![me] = nb] /\ Answer(a, <<>>)
      /\ unhandled' = (unhandled \/ ~expected)
      /\ UNCHANGED <<lsdb, updateLSA, lsTimer>>
  BY DEF RecvDDExchange
<1>3. /\ nb \in Neighbor /\ nb.state = old.state /\ nb.master = old.master
      /\ nb.seq = old.seq /\ nb.more = old.more /\ nb.lastrecv = {m.id}
      /\ nb.summary = old.summary /\ nb.req = old.req /\ nb.done = old.done
  BY <1>1 DEF Neighbor
<1>4. nb.state \in Synchronizing
  BY DEF RecvDDExchange
<1> DEFINE M == nbr[a]
<1> HIDE DEF nb, db, m
<1>5. /\ NoDD(Tail(link[a])) /\ ~m.id.flags.init /\ m.id = LastDD(nbr[a])
      /\ \/ a[1] > a[2] /\ MasterSends(nbr[a], old, link[a], link[me])
         \/ ~(a[1] > a[2]) /\ SlaveSends(old, nbr[a], link[me], link[a])
  <2>1. Sync(me)
    BY <1>3, <1>4 DEF Sync
  <2>2. "ExStart" \notin Synchronizing
    BY DEF Synchronizing
  <2>3. ~SlaveFound(nbr[me], nbr[a], link[me], link[a])
    BY <2>1, <2>2 DEF SlaveFound, Sync
  <2> QED
    BY <1>1, <2>1, <2>3, HeadDD DEF m
<1>6. /\ m.id.seq = nbr[a].seq /\ m.id.flags.master = nbr[a].master
      /\ m.id.flags.more = nbr[a].more
  BY <1>5 DEF LastDD
<1>7. expected /\ ~old.done /\ old.state = "Exchange"
  <2>1. CASE MasterSends(nbr[a], old, link[a], link[me])
    <3>1. /\ old.state = "Exchange" /\ ~old.done /\ nbr[a].master /\ ~old.master
          /\ nbr[a].seq = old.seq + 1
      BY <2>1 DEF MasterSends, Exchange
    <3>2. InSequence(nb, m)
      BY <1>3, <1>5, <1>6, <3>1 DEF InSequence
    <3> QED
      BY <1>3, <3>1, <3>2
  <2>2. CASE SlaveSends(old, nbr[a], link[me], link[a])
    <3>1. /\ old.state = "Exchange" /\ ~old.done /\ ~nbr[a].master /\ old.master
          /\ nbr[a].seq = old.seq
      BY <2>2 DEF SlaveSends, Exchange
    <3>2. InSequence(nb, m)
      BY <1>3, <1>5, <1>6, <3>1 DEF InSequence
    <3> QED
      BY <1>3, <3>1, <3>2
  <2> QED
    BY <1>5, <2>1, <2>2
<1>8. PICK top \in Tops(nb.summary) :
        /\ nbr' = [nbr EXCEPT ![me] = process_DD(nb, db, m, top)]
        /\ Answer(a, ProcessPackets(nb, db, m, top))
  BY <1>2, <1>7
<1> DEFINE n == process_DD(nb, db, m, top)
           t == ProcessPackets(nb, db, m, top)
<1>9. ~unhandled'
  BY <1>2, <1>7 DEF TInv
<1>10. /\ n.state = "Exchange"
       /\ n.req = nb.req \cup News(m.headers, db, nb.req)
       /\ t \in Seq(Packet) /\ LSAs(t) = {} /\ Asked(t) = {}
       /\ n.summary \cup Headers(t) = nb.summary
  BY <1>1, <1>3, <1>7, Processing, ProcessCarries
<1>11. a[1] > a[2] => Turn(nbr[a], n, Tail(link[a]), link[me] \o t)
  <2> SUFFICES ASSUME a[1] > a[2] PROVE Turn(nbr[a], n, Tail(link[a]), link[me] \o t)
    OBVIOUS
  <2>1. MasterSends(nbr[a], old, link[a], link[me])
    BY <1>5
  <2>2. /\ ~nb.master /\ nb.state = "Exchange" /\ ~nb.done /\ ~nbr[a].done
        /\ nbr[a].state = "Exchange" /\ nbr[a].master /\ Drained(nbr[a]) /\ NoDD(link[me])
        /\ \A id \in nbr[a].lastrecv : id.seq < nbr[a].seq
    BY <1>3, <1>7, <2>1 DEF MasterSends, Exchange
  <2>3. SlaveSends(nbr[a], n, Tail(link[a]), link[me] \o t)
    BY <1>1, <1>3, <1>5, <1>6, <2>2, SlaveReads
  <2> QED
    BY <2>3 DEF Turn
<1>12. ~(a[1] > a[2]) => Turn(n, nbr[a], link[me] \o t, Tail(link[a]))
  <2> SUFFICES ASSUME ~(a[1] > a[2]) PROVE Turn(n, nbr[a], link[me] \o t, Tail(link[a]))
    OBVIOUS
  <2>1. SlaveSends(old, nbr[a], link[me], link[a])
    BY <1>5
  <2>2. /\ nb.master /\ nb.state = "Exchange" /\ ~nb.done /\ Drained(nb)
        /\ nb.seq = nbr[a].seq /\ nbr[a].state \in Synchronizing /\ ~nbr[a].master
        /\ Drained(nbr[a]) /\ \A id \in nbr[a].lastrecv : id.seq <= nbr[a].seq
        /\ (nb.more \/ nbr[a].more => nbr[a].state = "Exchange" /\ ~nbr[a].done)
        /\ NoDD(link[me])
    BY <1>3, <1>7, <2>1 DEF SlaveSends, Exchange, Drained
  <2> QED
    BY <1>1, <1>3, <1>5, <2>2, MasterReads
<1> HIDE DEF n, t
<1>13. TInv'
  <2>1. Sync(me) /\ nbr[Back(a)].state # "Full"
    BY <1>7 DEF Sync, Synchronizing
  <2>2. n.summary \cup Headers(t) = IF Sync(me) THEN old.summary ELSE Contents(lsdb[a[2]])
    BY <1>3, <1>10, <2>1
  <2>3. n.req = old.req \cup News(Head(link[a]).headers, lsdb[a[2]], old.req)
    BY <1>1, <1>3, <1>10 DEF m, db
  <2>4. nbr' = [nbr EXCEPT ![me] = n] /\ Answer(a, t) /\ n.state \in Synchronizing
    BY <1>8, <1>10 DEF n, t, Synchronizing
  <2> QED
    BY <1>1, <1>2, <1>9, <1>10, <1>11, <1>12, <2>1, <2>2, <2>3, <2>4, TreeDD
<1> QED
  BY <1>13

\* The structure when its exchange begins.
Beginning(nb, db, master, seq) ==
  [negotiationDone(nb, db) EXCEPT !.master = master, !.seq = seq]

\* What it is made of.
LEMMA Begun ==
  ASSUME NEW nb \in Neighbor, NEW db \in [Router -> LSA],
         NEW master \in BOOLEAN, NEW seq \in Nat,
         NEW g, g = Beginning(nb, db, master, seq)
  PROVE  /\ g \in Neighbor /\ g.state = "Exchange" /\ g.summary = Contents(db)
         /\ g.master = master /\ g.seq = seq /\ g.lastrecv = nb.lastrecv
         /\ g.done = nb.done /\ g.req = nb.req /\ g.more = nb.more
<1> DEFINE headers == Contents(db)
<1>1. headers \in SUBSET Header
  BY DEF Contents, HeaderOf, LSA, Header
<1>2. g = [nb EXCEPT !.state = "Exchange", !.ddTimer = FALSE, !.summary = headers,
                     !.master = master, !.seq = seq]
  BY DEF Beginning, negotiationDone, Contents
<1> HIDE DEF headers
<1>3. ASSUME NEW f \in BOOLEAN
      PROVE  LET k == [nb EXCEPT !.state = "Exchange", !.ddTimer = f, !.summary = headers,
                                 !.master = master, !.seq = seq]
             IN  /\ k \in Neighbor /\ k.state = "Exchange" /\ k.summary = headers
                 /\ k.master = master /\ k.seq = seq /\ k.lastrecv = nb.lastrecv
                 /\ k.done = nb.done /\ k.req = nb.req /\ k.more = nb.more
  BY <1>1 DEF Neighbor, State
<1>4. FALSE \in BOOLEAN
  OBVIOUS
<1> QED
  BY <1>2, <1>3, <1>4 DEF headers

\* Packets added one part after the other.
LEMMA JoinedTwice ==
  ASSUME NEW s \in Seq(Packet), NEW t \in Seq(Packet), NEW u \in Seq(Packet)
  PROVE  s \o (t \o u) = (s \o t) \o u
OBVIOUS

\* The slave agrees to the first DD of the master.
LEMMA SlaveAgrees ==
  ASSUME IInv, TInv, Tree, NEW a \in Arc, Arrives(a, "dd"), a[1] > a[2], ~Sync(Back(a)),
         NEW first \in Seq(Packet), Opening(first),
         LSAs(first) = {}, Headers(first) = {}, Asked(first) = {},
         NEW g \in Neighbor, g.state = "Exchange", g.summary = Contents(lsdb[a[2]]),
         ~g.master, ~g.done, g.lastrecv = {Head(link[a]).id}, g.req = nbr[Back(a)].req,
         NEW top \in Tops(g.summary),
         nbr' = [nbr EXCEPT ![Back(a)] = process_DD(g, lsdb[a[2]], Head(link[a]), top)],
         Answer(a, first \o ProcessPackets(g, lsdb[a[2]], Head(link[a]), top)),
         UNCHANGED <<lsdb, updateLSA, lsTimer, unhandled>>
  PROVE  TInv'
<1> DEFINE me == Back(a)
           m == Head(link[a])
           db == lsdb[a[2]]
           M == nbr[a]
           n == process_DD(g, db, m, top)
           p == ProcessPackets(g, db, m, top)
           t == first \o p
<1>1. /\ me \in Arc /\ link[a] # <<>> /\ M \in Neighbor /\ db \in [Router -> LSA]
      /\ link[a] \in Seq(Packet) /\ link[me] \in Seq(Packet)
      /\ m \in Packet /\ m.id \in DDId /\ m.headers \in SUBSET Header
  BY Ends, OneArc, Arriving, Kinds DEF Arrives, IInv
<1>2. /\ Negotiating(M, nbr[me], link[a], link[me]) /\ M.state = "ExStart" /\ M.more
      /\ m.id = InitialDD(M).id /\ NoDD(Tail(link[a]))
  BY HeadDD
<1>3. m.id.seq = M.seq /\ m.id.flags.more = M.more
  <2>1. M.more \in BOOLEAN /\ M.more
    BY <1>1, <1>2 DEF Neighbor
  <2>2. InitialDD(M).id.seq = M.seq /\ InitialDD(M).id.flags.more
    BY DEF InitialDD, DD
  <2>3. m.id = InitialDD(M).id /\ m.id.flags.more \in BOOLEAN
    BY <1>1, <1>2 DEF DDId, Flags
  <2> HIDE DEF m, M
  <2> QED
    BY <2>1, <2>2, <2>3
<1>4. ~M.done /\ Opening(link[me])
  BY <1>2 DEF Negotiating
<1>5. /\ nbr' = [nbr EXCEPT ![me] = n] /\ Answer(a, t)
      /\ g.lastrecv = {m.id} /\ g.summary = Contents(db)
  OBVIOUS
<1> HIDE DEF db, m
<1>6. /\ n.state = "Exchange" /\ n.req = g.req \cup News(m.headers, db, g.req)
      /\ p \in Seq(Packet) /\ LSAs(p) = {} /\ Asked(p) = {}
      /\ n.summary \cup Headers(p) = g.summary
  <2>1. /\ m.id \in DDId /\ m.headers \in SUBSET Header /\ db \in [Router -> LSA]
    BY <1>1
  <2>2. n.state = g.state /\ n.req = g.req \cup News(m.headers, db, g.req)
    BY <2>1, Processing
  <2> QED
    BY <2>1, <2>2, ProcessCarries
<1> DEFINE sm == link[me] \o first
<1>7. sm \in Seq(Packet) /\ Opening(sm)
  BY <1>1, <1>4, JoinedOpening
<1>8. link[me] \o t = sm \o p
  <2> DEFINE s == link[me]
  <2>1. s \in Seq(Packet) /\ p \in Seq(Packet)
    BY <1>1, <1>6
  <2> HIDE DEF p, s
  <2>2. s \o (first \o p) = (s \o first) \o p
    BY <2>1, JoinedTwice
  <2> QED
    BY <2>2 DEF s
<1> HIDE DEF sm
<1>9. SlaveFound(M, n, Tail(link[a]), sm \o p)
  BY <1>1, <1>2, <1>3, <1>4, <1>5, <1>7, SlaveReads
<1>10. Turn(M, n, Tail(link[a]), link[me] \o t)
  BY <1>8, <1>9 DEF Turn
<1>11. nbr[me].state # "Full" /\ ~unhandled'
  BY DEF Sync, Synchronizing, TInv
<1> HIDE DEF n, p, t
<1>12. t \in Seq(Packet) /\ LSAs(t) = {} /\ Asked(t) = {} /\ Headers(t) = Headers(p)
  <2>1. t \in Seq(Packet)
    BY <1>6 DEF t
  <2>2. /\ LSAs(t) = LSAs(first) \cup LSAs(p) /\ Headers(t) = Headers(first) \cup Headers(p)
        /\ Asked(t) = Asked(first) \cup Asked(p)
    BY <1>6, JoinedCarries DEF t
  <2> QED
    BY <1>6, <2>1, <2>2
<1>13. n.summary \cup Headers(t) = IF Sync(me) THEN nbr[me].summary ELSE Contents(lsdb[a[2]])
  BY <1>5, <1>6, <1>12 DEF db
<1>14. n.req = nbr[me].req \cup News(Head(link[a]).headers, lsdb[a[2]], nbr[me].req)
  BY <1>6 DEF m, db
<1>15. n.state \in Synchronizing
  BY <1>6 DEF Synchronizing
<1> QED
  BY <1>5, <1>10, <1>11, <1>12, <1>13, <1>14, <1>15, TreeDD

\* The master agrees to the first answer of the slave.
LEMMA MasterAgrees ==
  ASSUME IInv, TInv, Tree, NEW a \in Arc, Arrives(a, "dd"), ~(a[1] > a[2]),
         SlaveFound(nbr[Back(a)], nbr[a], link[Back(a)], link[a]),
         Head(link[a]).id = LastDD(nbr[a]), NoDD(Tail(link[a])),
         NEW g \in Neighbor, g.state = "Exchange", g.summary = Contents(lsdb[a[2]]),
         g.master, ~g.done, g.more, g.seq = nbr[Back(a)].seq,
         g.lastrecv = {Head(link[a]).id}, g.req = nbr[Back(a)].req,
         NEW top \in Tops(g.summary),
         nbr' = [nbr EXCEPT ![Back(a)] = process_DD(g, lsdb[a[2]], Head(link[a]), top)],
         Answer(a, ProcessPackets(g, lsdb[a[2]], Head(link[a]), top)),
         UNCHANGED <<lsdb, updateLSA, lsTimer, unhandled>>
  PROVE  TInv'
<1> DEFINE me == Back(a)
           m == Head(link[a])
           db == lsdb[a[2]]
           S == nbr[a]
           n == process_DD(g, db, m, top)
           t == ProcessPackets(g, db, m, top)
<1>1. /\ me \in Arc /\ S \in Neighbor /\ nbr[me] \in Neighbor /\ db \in [Router -> LSA]
      /\ link[a] \in Seq(Packet) /\ link[me] \in Seq(Packet)
      /\ m \in Packet /\ m.id \in DDId /\ m.headers \in SUBSET Header
  BY Ends, OneArc, Arriving, Kinds DEF Arrives, IInv
<1>2. /\ nbr[me].state = "ExStart" /\ S.state = "Exchange"
      /\ ~S.done /\ ~S.master /\ Drained(S) /\ S.seq = nbr[me].seq
      /\ \A id \in S.lastrecv : id.seq <= S.seq
      /\ NoDD(link[me])
  BY DEF SlaveFound
<1>3. Drained(g) /\ g.seq = S.seq /\ S.state \in Synchronizing
  BY <1>2 DEF Drained, Synchronizing
<1>4. /\ nbr' = [nbr EXCEPT ![me] = n] /\ Answer(a, t) /\ m.id = LastDD(S)
      /\ g.lastrecv = {m.id} /\ g.summary = Contents(db)
  OBVIOUS
<1> HIDE DEF db, m
<1>5. Turn(n, S, link[me] \o t, Tail(link[a]))
  BY <1>1, <1>2, <1>3, <1>4, MasterReads
<1>6. /\ n.state = "Exchange" /\ n.req = g.req \cup News(m.headers, db, g.req)
      /\ t \in Seq(Packet) /\ LSAs(t) = {} /\ Asked(t) = {}
      /\ n.summary \cup Headers(t) = g.summary
  BY <1>1, <1>4, Processing, ProcessCarries
<1>7. nbr[me].state # "Full" /\ ~unhandled' /\ ~Sync(me)
  BY <1>2 DEF Sync, Synchronizing, TInv
<1> HIDE DEF n, t
<1>8. n.summary \cup Headers(t) = IF Sync(me) THEN nbr[me].summary ELSE Contents(lsdb[a[2]])
  BY <1>4, <1>6, <1>7 DEF db
<1>9. n.req = nbr[me].req \cup News(Head(link[a]).headers, lsdb[a[2]], nbr[me].req)
  BY <1>6 DEF m, db
<1>10. n.state \in Synchronizing
  BY <1>6 DEF Synchronizing
<1> QED
  BY <1>4, <1>5, <1>6, <1>7, <1>8, <1>9, <1>10, TreeDD

\* A DD that comes before the exchange: the first one, or the answer of the
\* slave to it.
LEMMA TreeNegotiates ==
  ASSUME IInv, TInv, Tree, NEW a \in Arc, RecvDDNegotiates(a)
  PROVE  TInv'
<1> DEFINE me == Back(a)
           m == Head(link[a])
           db == lsdb[me[1]]
           pre == nbr[me]
           old == [nbr[me] EXCEPT !.lastrecv = {m.id}]
           nb == IF old.state = "Init" THEN attempt_adjacency(old, me) ELSE old
           first == IF old.state = "Init" THEN AttemptPackets(old, me) ELSE <<>>
           agreed == [negotiationDone(nb, db) EXCEPT
                        !.master = BecomesMaster(nb, me, m),
                        !.seq = IF BecomesSlave(me, m) THEN m.id.seq ELSE @]
<1>1. /\ me \in Arc /\ me[1] = a[2] /\ me[2] = a[1] /\ a[1] \in Nat /\ a[2] \in Nat
      /\ a[1] # a[2] /\ Arrives(a, "dd") /\ link[a] # <<>>
      /\ pre \in Neighbor /\ Good(me, pre) /\ nbr[a] \in Neighbor /\ db \in [Router -> LSA]
      /\ m \in Packet /\ m.type = "dd" /\ m.id \in DDId /\ m.headers \in SUBSET Header
      /\ pre.state \in {"Init", "ExStart"}
      /\ UNCHANGED <<lsdb, updateLSA, lsTimer, unhandled>>
  BY Ends, OneArc, Arriving, Kinds DEF RecvDDNegotiates, Arrives, IInv
<1>2. IF BecomesSlave(me, m) \/ BecomesMaster(nb, me, m)
      THEN \E top \in Tops(agreed.summary) :
             /\ nbr' = [nbr EXCEPT ![me] = process_DD(agreed, db, m, top)]
             /\ Answer(a, first \o ProcessPackets(agreed, db, m, top))
      ELSE /\ nbr' = [nbr EXCEPT ![me] = nb]
           /\ Answer(a, first)
  BY DEF RecvDDNegotiates
<1>3. ~Sync(me) /\ pre.req = {}
  BY <1>1 DEF Sync, Synchronizing, Good
<1>4. /\ old \in Neighbor /\ old.lastrecv = {m.id} /\ old.state = pre.state
      /\ old.req = pre.req /\ old.done = pre.done /\ old.summary = pre.summary
      /\ old.seq = pre.seq /\ old.more = pre.more /\ old.master = pre.master
  BY <1>1 DEF Neighbor
<1>5. /\ nb \in Neighbor /\ nb.lastrecv = {m.id} /\ nb.req = pre.req /\ nb.done = pre.done
      /\ first \in Seq(Packet) /\ Opening(first)
      /\ LSAs(first) = {} /\ Headers(first) = {} /\ Asked(first) = {}
      /\ pre.state = "Init" => Opens(nb, pre, first)
  <2>1. CASE old.state = "Init"
    <3> HIDE DEF old
    <3>1. attempt_adjacency(old, me) \in Neighbor
            /\ Opens(attempt_adjacency(old, me), old, AttemptPackets(old, me))
      BY <1>1, <1>3, <1>4, AttemptOpens
    <3>2. attempt_adjacency(old, me).lastrecv = old.lastrecv
      BY <1>4 DEF attempt_adjacency, Neighbor
    <3>3. nb = attempt_adjacency(old, me) /\ first = AttemptPackets(old, me)
      BY <2>1
    <3> HIDE DEF nb, first
    <3>4. nb \in Neighbor /\ Opens(nb, old, first)
      BY <3>1, <3>3
    <3>5. Opens(nb, pre, first)
      BY <1>4, <3>4 DEF Opens
    <3> QED
      BY <1>4, <3>2, <3>3, <3>4, <3>5, OpensPackets DEF Opens
  <2>2. CASE old.state # "Init"
    BY <1>4, <2>2, NothingCarried
  <2> QED
    BY <2>1, <2>2
<1>6. BecomesMaster(nb, me, m) \in BOOLEAN
  BY DEF BecomesMaster
<1> HIDE DEF m
<1>7. CASE a[1] > a[2]
  <2>1. /\ m.id = InitialDD(nbr[a]).id /\ m.headers = {}
        /\ Negotiating(nbr[a], pre, link[a], link[me])
    BY <1>1, <1>3, <1>7, HeadDD DEF m
  <2>2. m.id.flags = [init |-> TRUE, more |-> TRUE, master |-> TRUE]
    <3>1. ASSUME NEW k
          PROVE  InitialDD(k).id.flags = [init |-> TRUE, more |-> TRUE, master |-> TRUE]
      BY DEF InitialDD, DD
    <3> QED
      BY <2>1, <3>1
  <2>3. BecomesSlave(me, m) /\ ~BecomesMaster(nb, me, m)
    BY <1>1, <1>7, <2>1, <2>2 DEF BecomesSlave, BecomesMaster
  <2>4. agreed = Beginning(nb, db, FALSE, m.id.seq)
    <3>1. BecomesMaster(nb, me, m) = FALSE
      BY <1>6, <2>3
    <3> QED
      BY <2>3, <3>1 DEF Beginning
  <2>5. PICK top \in Tops(agreed.summary) :
          /\ nbr' = [nbr EXCEPT ![me] = process_DD(agreed, db, m, top)]
          /\ Answer(a, first \o ProcessPackets(agreed, db, m, top))
    BY <1>2, <2>3
  <2> HIDE DEF agreed, nb, first
  <2>6. /\ agreed \in Neighbor /\ agreed.state = "Exchange" /\ agreed.summary = Contents(db)
        /\ agreed.master = FALSE /\ agreed.lastrecv = nb.lastrecv
        /\ agreed.done = nb.done /\ agreed.req = nb.req
    <3> DEFINE f == FALSE
               s == m.id.seq
    <3>1. /\ f \in BOOLEAN /\ s \in Nat /\ nb \in Neighbor /\ db \in [Router -> LSA]
          /\ agreed = Beginning(nb, db, f, s)
      BY <1>1, <1>5, <2>4 DEF DDId
    <3> HIDE DEF db, f, s
    <3>2. /\ agreed \in Neighbor /\ agreed.state = "Exchange" /\ agreed.summary = Contents(db)
          /\ agreed.master = f /\ agreed.lastrecv = nb.lastrecv
          /\ agreed.done = nb.done /\ agreed.req = nb.req
      BY <3>1, Begun
    <3> QED
      BY <3>2 DEF f
  <2>7. ~pre.done
    BY <2>1 DEF Negotiating
  <2>8. db = lsdb[a[2]]
    BY <1>1
  <2> HIDE DEF db
  <2> QED
    BY <1>1, <1>3, <1>5, <1>7, <2>5, <2>6, <2>7, <2>8, SlaveAgrees DEF m
<1>8. CASE ~(a[1] > a[2])
  <2>1. a[1] < a[2] /\ ~BecomesSlave(me, m)
    BY <1>1, <1>8 DEF BecomesSlave
  <2>2. \/ Opener(m)
        \/ /\ ~m.id.flags.init /\ NoDD(Tail(link[a])) /\ m.id = LastDD(nbr[a])
           /\ SlaveFound(pre, nbr[a], link[me], link[a])
    <3>1. ~SlaveSends(pre, nbr[a], link[me], link[a])
      BY <1>3 DEF SlaveSends, Exchange, Sync
    <3> QED
      BY <1>1, <1>8, <3>1, HeadDD DEF m
  <2>3. CASE Opener(m)
    <3>1. ~BecomesMaster(nb, me, m)
      BY <1>1, <2>3 DEF Opener, BecomesMaster
    <3>2. nbr' = [nbr EXCEPT ![me] = nb] /\ Answer(a, first)
      BY <1>2, <2>1, <3>1
    <3>3. CASE pre.state = "Init"
      <4> HIDE DEF nb, first
      <4> QED
        BY <1>1, <1>5, <2>3, <3>2, <3>3, OpenerOpens DEF m
    <3>4. CASE pre.state # "Init"
      <4>1. nb = old /\ first = <<>>
        BY <1>4, <3>4
      <4>2. Kept(old, pre)
        BY <1>3, <1>4 DEF Kept, Sync
      <4>3. old.req = pre.req /\ old.state = pre.state
        BY <1>4
      <4> HIDE DEF old, nb, first
      <4>4. nbr' = [nbr EXCEPT ![me] = old] /\ Answer(a, <<>>)
        BY <3>2, <4>1
      <4> QED
        BY <1>1, <2>3, <4>2, <4>3, <4>4, OpenerTaken DEF m
    <3> QED
      BY <3>3, <3>4
  <2>4. CASE /\ ~m.id.flags.init /\ NoDD(Tail(link[a])) /\ m.id = LastDD(nbr[a])
             /\ SlaveFound(pre, nbr[a], link[me], link[a])
    <3>1. /\ pre.state = "ExStart" /\ pre.more /\ ~pre.done /\ ~nbr[a].master
          /\ nbr[a].seq = pre.seq
      BY <2>4 DEF SlaveFound
    <3>2. nb = old /\ first = <<>>
      BY <1>4, <3>1
    <3>3. m.id.seq = nbr[a].seq /\ m.id.flags.master = nbr[a].master
      BY <2>4 DEF LastDD
    <3>4. BecomesMaster(nb, me, m)
      BY <1>1, <1>4, <2>1, <2>4, <3>1, <3>2, <3>3 DEF BecomesMaster
    <3>5. PICK top \in Tops(agreed.summary) :
            /\ nbr' = [nbr EXCEPT ![me] = process_DD(agreed, db, m, top)]
            /\ Answer(a, first \o ProcessPackets(agreed, db, m, top))
      BY <1>2, <3>4
    <3>6. agreed = Beginning(nb, db, TRUE, nb.seq)
      <4>1. BecomesMaster(nb, me, m) = TRUE
        BY <1>6, <3>4
      <4>2. negotiationDone(nb, db).seq = nb.seq
        BY <1>5 DEF negotiationDone, Neighbor
      <4> HIDE DEF nb, db
      <4> QED
        BY <2>1, <4>1, <4>2 DEF Beginning
    <3>7. nb.seq = pre.seq /\ nb.more = pre.more
      BY <1>4, <3>2
    <3> HIDE DEF agreed, nb, old
    <3>8. /\ agreed \in Neighbor /\ agreed.state = "Exchange" /\ agreed.summary = Contents(db)
          /\ agreed.master = TRUE /\ agreed.seq = nb.seq /\ agreed.lastrecv = nb.lastrecv
          /\ agreed.done = nb.done /\ agreed.req = nb.req /\ agreed.more = nb.more
      <4> DEFINE f == TRUE
                 s == nb.seq
      <4>1. /\ f \in BOOLEAN /\ s \in Nat /\ nb \in Neighbor /\ db \in [Router -> LSA]
            /\ agreed = Beginning(nb, db, f, s)
        BY <1>1, <1>5, <3>6 DEF Neighbor
      <4> HIDE DEF db, f, s
      <4>2. /\ agreed \in Neighbor /\ agreed.state = "Exchange" /\ agreed.summary = Contents(db)
            /\ agreed.master = f /\ agreed.seq = s /\ agreed.lastrecv = nb.lastrecv
            /\ agreed.done = nb.done /\ agreed.req = nb.req /\ agreed.more = nb.more
        BY <4>1, Begun
      <4> QED
        BY <4>2 DEF f, s
    <3>9. ProcessPackets(agreed, db, m, top) \in Seq(Packet)
      <4> HIDE DEF db
      <4> QED
        BY <1>1, <3>8, ProcessCarries
    <3>10. first \o ProcessPackets(agreed, db, m, top) = ProcessPackets(agreed, db, m, top)
      <4> DEFINE p == ProcessPackets(agreed, db, m, top)
      <4> HIDE DEF p
      <4>1. <<>> \o p = p
        BY <3>9 DEF p
      <4> QED
        BY <3>2, <4>1 DEF p
    <3>11. db = lsdb[a[2]]
      BY <1>1
    <3> HIDE DEF db, first
    <3>12. Answer(a, ProcessPackets(agreed, db, m, top))
      BY <3>5, <3>10
    <3> QED
      BY <1>1, <1>5, <1>8, <2>4, <3>1, <3>5, <3>7, <3>8, <3>11, <3>12, MasterAgrees DEF m
  <2> QED
    BY <2>2, <2>3, <2>4
<1> QED
  BY <1>7, <1>8

----------------------------------------------------------------------------
(* Requests and updates *)

\* A request is served: what it asks for is there.
LEMMA TreeRequested ==
  ASSUME IInv, TInv, Tree, NEW a \in Arc, RecvLSR(a)
  PROVE  TInv'
<1> DEFINE me == Back(a)
           r == a[2]
           m == Head(link[a])
           db == lsdb[a[2]]
           asked == IF nbr[me].state \in Synchronizing THEN m.ids ELSE {}
           e == <<>>
<1>1. /\ me \in Arc /\ me[1] = a[2] /\ me[2] = a[1] /\ Back(me) = a /\ me # a
      /\ link[a] # <<>> /\ m.type = "lsr"
  BY Ends DEF RecvLSR, Arrives
<1>2. /\ e \in Seq(Packet) /\ Answer(a, e) /\ UNCHANGED <<nbr, lsdb, lsTimer>>
      /\ (\A x \in asked : db[x].seq > 0) =>
           /\ unhandled' = unhandled
           /\ updateLSA' = [updateLSA EXCEPT ![me] = Queue(@, Instances(db, asked))]
  <2> DEFINE base == lsdb[me[1]]
             found == {x \in asked : base[x].seq > 0}
  <2>1. base = db
    BY <1>1
  <2>2. PICK served \in IF asked = found THEN {found} ELSE SUBSET found :
          updateLSA' = [updateLSA EXCEPT ![me] = Queue(@, {base[x] : x \in served})]
    BY DEF RecvLSR
  <2>3. /\ e \in Seq(Packet) /\ Answer(a, e) /\ UNCHANGED <<nbr, lsdb, lsTimer>>
        /\ unhandled' = (unhandled \/ asked # found)
    BY DEF RecvLSR
  <2> HIDE DEF asked
  <2>4. asked = found => served = asked
    BY <2>2
  <2>5. asked = found <=> \A x \in asked : db[x].seq > 0
    BY <2>1
  <2>6. Instances(db, served) = {base[x] : x \in served}
    BY <2>1 DEF Instances
  <2>7. asked = found =>
          updateLSA' = [updateLSA EXCEPT ![me] = Queue(@, Instances(db, asked))]
    <3> HIDE DEF found
    <3>1. updateLSA' = [updateLSA EXCEPT ![me] = Queue(@, Instances(db, served))]
      BY <2>2, <2>6
    <3> QED
      BY <2>4, <3>1
  <2> HIDE DEF found, base, db, e
  <2>8. asked = found => unhandled' = unhandled
    BY <2>3 DEF IInv, TypeOK
  <2> QED
    BY <2>3, <2>5, <2>7, <2>8
<1>3. /\ link[a] \in Seq(Packet) /\ link[me] \in Seq(Packet)
      /\ link'[a] = Tail(link[a]) /\ link'[me] = link[me]
      /\ \A c \in Arc \ {a, me} : link'[c] = link[c]
  <2>1. /\ link[a] \in Seq(Packet) /\ link[me] \in Seq(Packet)
        /\ link'[a] = Tail(link[a]) /\ link'[me] = link[me] \o e
        /\ \A c \in Arc \ {a, me} : link'[c] = link[c]
    BY <1>1, <1>2, Answers
  <2> QED
    BY <2>1
<1>4. /\ CoreType(Behind[me], lsdb[a[1]], db, LSAs(link[me]), updateLSA[me], Told(me), nbr[a].req)
      /\ Core(Behind[me], lsdb[a[1]], db, LSAs(link[me]), updateLSA[me], Told(me), nbr[a].req,
              Asked(link[a]), Sync(me))
      /\ InOrder(link[me]) /\ InOrder(link[a])
  BY <1>1, OneSide
<1>5. asked \subseteq Asked(link[a]) /\ Asked(Tail(link[a])) \subseteq Asked(link[a])
  BY <1>1, <1>3, PoppedCarries
<1>6. \A x \in asked : db[x].seq > 0
  BY <1>4, <1>5 DEF Core, Asking
<1>7. /\ ~unhandled'
      /\ updateLSA' = [updateLSA EXCEPT ![me] = Queue(@, Instances(db, asked))]
  BY <1>2, <1>6 DEF TInv
<1>8. /\ updateLSA'[me] = Queue(updateLSA[me], Instances(db, asked))
      /\ \A c \in Arc : c # me => updateLSA'[c] = updateLSA[c]
  BY <1>1, <1>7 DEF IInv, TypeOK
<1>9. /\ Tail(link[a]) \in Seq(Packet) /\ InOrder(link'[a])
      /\ LSAs(link'[a]) = LSAs(link[a]) /\ Headers(link'[a]) = Headers(link[a])
  BY <1>1, <1>3, <1>4, PlainPopped
<1>10. Told(a)' = Told(a) /\ Sync(a)' = Sync(a) /\ Told(me)' = Told(me) /\ Sync(me)' = Sync(me)
  BY <1>2, <1>3, <1>9 DEF Told, Sync
<1>11. Core(Behind[me], lsdb[a[1]], db, LSAs(link[me]), updateLSA'[me], Told(me), nbr[a].req,
            Asked(link'[a]), Sync(me))
  <2> DEFINE X == Behind[me]
             dn == lsdb[a[1]]
             U == LSAs(link[me])
             Q == updateLSA[me]
             Q2 == updateLSA'[me]
             T == Told(me)
             R == nbr[a].req
             A == Asked(link[a])
             A2 == Asked(link'[a])
             sync == Sync(me)
  <2>1. /\ CoreType(X, dn, db, U, Q, T, R) /\ Core(X, dn, db, U, Q, T, R, A, sync)
        /\ A2 \subseteq A \cup {h.adv : h \in R} /\ asked \subseteq A
        /\ Q2 = Queue(Q, Instances(db, asked)) /\ sync \in BOOLEAN
        /\ ~sync => asked = {}
    BY <1>3, <1>4, <1>5, <1>8 DEF Sync
  <2> HIDE DEF X, dn, db, U, Q, Q2, T, R, A, A2, sync, asked
  <2>2. Core(X, dn, db, U, Q, T, R, A2, sync)
    BY <2>1, CoreAsk
  <2>3. ASSUME sync PROVE Core(X, dn, db, U, Q2, T, R, A2, sync)
    <3>1. /\ CoreType(X, dn, db, U, Q2, T, R)
          /\ Core(X, dn, db, U, Q2, T, R, A, sync)
      BY <2>1, <2>3, CoreServe
    <3> QED
      BY <2>1, <3>1, CoreAsk
  <2>4. ASSUME ~sync PROVE Core(X, dn, db, U, Q2, T, R, A2, sync)
    <3>1. Q = {} /\ Instances(db, asked) = {}
      BY <2>1, <2>4 DEF Core, Instances
    <3>2. Q2 = Q
      BY <2>1, <3>1 DEF Queue
    <3> QED
      BY <2>2, <3>2
  <2>5. Core(X, dn, db, U, Q2, T, R, A2, sync)
    BY <2>3, <2>4
  <2> QED
    BY <2>5 DEF X, dn, U, Q2, T, R, A2, sync
<1> HIDE DEF asked
<1>12. Data(me)'
  BY <1>1, <1>2, <1>3, <1>4, <1>10, <1>11 DEF Data
<1>13. Data(a)'
  BY <1>1, <1>2, <1>3, <1>8, <1>9, <1>10, DataKept
<1>14. \A c \in Arc : Data(c)'
  BY <1>2, <1>3, <1>8, <1>12, <1>13, DataElse
<1>15. \A c \in Arc : Phase(c)'
  <2>1. \A c \in Arc : /\ Kept(nbr'[c], nbr[c])
                       /\ Undisturbed(link[c], link'[c], Sync(c))
    <3>1. Undisturbed(link[a], link'[a], Sync(a))
      BY <1>1, <1>3, UndisturbedTail
    <3>2. \A c \in Arc : c # a => link'[c] = link[c]
      BY <1>3
    <3> QED
      BY <1>2, <3>1, <3>2, Standing
  <2> QED
    BY <2>1, PhasesKept DEF TInv
<1>16. Named' /\ \A x \in Router : Own(x)'
  BY <1>2, OwnKept
<1> QED
  BY <1>7, <1>14, <1>15, <1>16 DEF TInv

\* The updates made of a queue.
LEMMA Updates ==
  ASSUME NEW Q \in Queues, NEW lsas \in SetToSeqs(Q),
         \A j, k \in Q : j.adv = k.adv => j = k
  PROVE  LET t == [i \in 1..Len(lsas) |-> Update(lsas[i])]
         IN  /\ t \in Seq(Packet) /\ LSAs(t) = Q /\ Headers(t) = {} /\ Asked(t) = {}
             /\ NoDD(t) /\ InOrder(t)
<1> DEFINE n == Cardinality(Q)
           t == [i \in 1..Len(lsas) |-> Update(lsas[i])]
<1>1. Q \subseteq LSA /\ IsFiniteSet(Q) /\ n \in Nat
  BY FS_CardinalityType DEF Queues
<1>2. lsas \in [1..n -> Q] /\ \A i, j \in 1..n : i # j => lsas[i] # lsas[j]
  BY DEF SetToSeqs
<1>3. Len(lsas) = n /\ lsas \in Seq(LSA)
  BY <1>1, <1>2
<1>4. \A l \in Q : \E i \in 1..n : lsas[i] = l
  <2>1. lsas \in Injection(1..n, Q)
    BY <1>2 DEF Injection, IsInjective
  <2>2. Cardinality(1..n) = n
    BY <1>1, FS_Interval
  <2>3. lsas \in Surjection(1..n, Q)
    BY <1>1, <2>1, <2>2, FS_Injection
  <2> QED
    BY <2>3 DEF Surjection
<1> HIDE DEF n
<1>5. \A i \in 1..n : lsas[i] \in Q /\ lsas[i] \in LSA
  BY <1>1, <1>2
<1>6. \A i \in 1..n : Update(lsas[i]) \in Packet
  BY <1>5, UpdatePacket
<1>7. DOMAIN t = 1..n /\ \A i \in 1..n : t[i] = Update(lsas[i])
  BY <1>3
<1>8. t \in Seq(Packet)
  BY <1>1, <1>3, <1>6
<1> HIDE DEF t
<1>9. \A i \in 1..n : t[i].type = "lsu" /\ t[i].lsa = lsas[i]
  BY <1>7 DEF Update
<1>10. /\ \A l \in Q : l \in LSAs(t)
       /\ \A l \in LSAs(t) : l \in Q
  <2>1. \A l \in Q : \E i \in DOMAIN t : t[i].type = "lsu" /\ t[i].lsa = l
    BY <1>4, <1>7, <1>9
  <2>2. \A l \in LSAs(t) : \E i \in 1..n : lsas[i] = l
    <3> SUFFICES ASSUME NEW l \in LSAs(t) PROVE \E i \in 1..n : lsas[i] = l
      OBVIOUS
    <3>1. PICK i \in DOMAIN t : t[i].type = "lsu" /\ t[i].lsa = l
      BY Carried
    <3> QED
      BY <1>7, <1>9, <3>1
  <2> QED
    BY <1>5, <2>1, <2>2, Carried
<1>11. /\ \A h : h \notin Headers(t)
       /\ \A x : x \notin Asked(t)
  BY <1>7, <1>9, Carried
<1>12. NoDD(t)
  BY <1>7, <1>9 DEF NoDD
<1>13. InOrder(t)
  <2>1. \A i, j \in 1..n : lsas[i].adv = lsas[j].adv => lsas[i] = lsas[j]
    BY <1>5
  <2> QED
    BY <1>7, <1>9, <2>1 DEF InOrder, Before
<1>14. LSAs(t) = Q /\ Headers(t) = {} /\ Asked(t) = {}
  BY <1>10, <1>11
<1> QED
  BY <1>8, <1>12, <1>13, <1>14 DEF t

\* A queue is sent.
LEMMA TreeFlooded ==
  ASSUME IInv, TInv, Tree, NEW a \in Arc, FloodTimer(a)
  PROVE  TInv'
<1> DEFINE b == Back(a)
           s == link[a]
           Q == updateLSA[a]
<1>1. /\ b \in Arc /\ b # a /\ Back(b) = a /\ s \in Seq(Packet) /\ InOrder(s)
      /\ InOrder(link[b]) /\ Q \in Queues
  BY Ends, OneArc, OneSide
<1>2. PICK lsas \in SetToSeqs(Q) :
        link' = [link EXCEPT ![a] = @ \o [i \in 1..Len(lsas) |-> Update(lsas[i])]]
  BY DEF FloodTimer
<1>3. /\ Q # {} /\ updateLSA' = [updateLSA EXCEPT ![a] = {}]
      /\ UNCHANGED <<nbr, lsdb, lsTimer, unhandled>>
  BY DEF FloodTimer
<1> DEFINE t == [i \in 1..Len(lsas) |-> Update(lsas[i])]
<1>4. Core(Behind[a], lsdb[a[2]], lsdb[a[1]], LSAs(s), Q, Told(a), nbr[b].req,
           Asked(link[b]), Sync(a))
  BY OneSide
<1>5. /\ \A j, k \in Q : j.adv = k.adv => j = k
      /\ \A j \in LSAs(s), k \in Q : j.adv = k.adv => Before(j, k)
      /\ Sync(a)
  BY <1>3, <1>4 DEF Core, Flow
<1>6. /\ t \in Seq(Packet) /\ LSAs(t) = Q /\ Headers(t) = {} /\ Asked(t) = {}
      /\ NoDD(t) /\ InOrder(t)
  <2> HIDE DEF Q
  <2> QED
    BY <1>1, <1>5, Updates
<1>7. /\ link'[a] = s \o t /\ \A c \in Arc : c # a => link'[c] = link[c]
      /\ updateLSA'[a] = {} /\ \A c \in Arc : c # a => updateLSA'[c] = updateLSA[c]
  BY <1>2, <1>3 DEF IInv, TypeOK
<1> HIDE DEF t
<1>8. /\ InOrder(link'[a]) /\ LSAs(link'[a]) = LSAs(s) \cup Q
      /\ Headers(link'[a]) = Headers(s) /\ Asked(link'[a]) = Asked(s)
  <2> DEFINE u == s \o t
  <2> HIDE DEF s, Q
  <2>1. InOrder(u)
    BY <1>1, <1>5, <1>6, JoinedOrder
  <2>2. LSAs(u) = LSAs(s) \cup LSAs(t) /\ Headers(u) = Headers(s) \cup Headers(t)
          /\ Asked(u) = Asked(s) \cup Asked(t)
    BY <1>1, <1>6, JoinedCarries
  <2> HIDE DEF u
  <2>3. LSAs(u) = LSAs(s) \cup Q /\ Headers(u) = Headers(s) /\ Asked(u) = Asked(s)
    BY <1>6, <2>2
  <2> QED
    BY <1>7, <2>1, <2>3 DEF u
<1>9. Told(a)' = Told(a) /\ Sync(a)' = Sync(a) /\ Told(b)' = Told(b) /\ Sync(b)' = Sync(b)
  BY <1>1, <1>3, <1>7, <1>8 DEF Told, Sync
<1>10. Data(a)'
  <2>1. Core(Behind[a], lsdb[a[2]], lsdb[a[1]], LSAs(s) \cup Q, {}, Told(a), nbr[b].req,
             Asked(link[b]), Sync(a))
    BY <1>4, CoreFlush
  <2> QED
    BY <1>1, <1>3, <1>7, <1>8, <1>9, <2>1 DEF Data
<1>11. Data(b)'
  BY <1>1, <1>3, <1>7, <1>8, <1>9, DataKept
<1>12. \A c \in Arc : Data(c)'
  BY <1>3, <1>7, <1>10, <1>11, DataElse
<1>13. \A c \in Arc : Phase(c)'
  <2>1. \A c \in Arc : /\ Kept(nbr'[c], nbr[c])
                       /\ Undisturbed(link[c], link'[c], Sync(c))
    <3>1. Undisturbed(s, s \o t, Sync(a))
      <4> HIDE DEF s
      <4> QED
        BY <1>1, <1>5, <1>6, UndisturbedMore
    <3> QED
      BY <1>3, <1>7, <3>1, Standing
  <2> QED
    BY <2>1, PhasesKept DEF TInv
<1>14. Named' /\ \A x \in Router : Own(x)'
  BY <1>3, OwnKept
<1>15. ~unhandled'
  BY <1>3 DEF TInv
<1> QED
  BY <1>12, <1>13, <1>14, <1>15 DEF TInv

\* No update comes before the exchange.
LEMMA NoneDiscarded ==
  ASSUME IInv, TInv, Tree, NEW a \in Arc, RecvLSUDiscarded(a)
  PROVE  FALSE
<1> DEFINE me == Back(a)
           m == Head(link[a])
<1>1. /\ me \in Arc /\ link[a] # <<>> /\ m.type = "lsu" /\ ~Sync(me)
      /\ link[a] \in Seq(Packet) /\ link[me] \in Seq(Packet)
  BY Ends, OneArc DEF RecvLSUDiscarded, Arrives, Sync
<1>2. m.lsa \in LSAs(link[a])
  BY <1>1, PoppedCarries
<1>3. Sync(a)
  BY <1>2, OneSide DEF Core
<1>4. ~Opener(m) /\ m.type # "dd"
  BY <1>1 DEF Opener
<1>5. \A id : ~Leads(link[a], id)
  BY <1>1, <1>4, PoppedDD
<1>6. "ExStart" \notin Synchronizing /\ "Exchange" \in Synchronizing
  BY DEF Synchronizing
<1>7. CASE a[1] > a[2]
  <2>1. Turn(nbr[a], nbr[me], link[a], link[me])
    BY <1>1, <1>7, BothPhases DEF TInv
  <2> QED
    BY <1>1, <1>3, <1>6, <2>1
       DEF Turn, Negotiating, SlaveFound, MasterSends, SlaveSends, Exchange, AllDescribed, Sync
<1>8. CASE ~(a[1] > a[2])
  <2>1. Turn(nbr[me], nbr[a], link[me], link[a])
    BY <1>1, <1>8, BothPhases DEF TInv
  <2> QED
    BY <1>1, <1>3, <1>5, <1>6, <2>1
       DEF Turn, Negotiating, SlaveFound, MasterSends, SlaveSends, Exchange, AllDescribed, Sync
<1> QED
  BY <1>7, <1>8

\* What is known of an update that arrives.
LEMMA Taken ==
  ASSUME IInv, TInv, Tree, NEW a \in Arc, Arrives(a, "lsu")
  PROVE  LET s == link[a]  l == Head(s).lsa  R == nbr[Back(a)].req
         IN  /\ s \in Seq(Packet) /\ s # <<>> /\ InOrder(Tail(s)) /\ Tail(s) \in Seq(Packet)
             /\ Headers(Tail(s)) = Headers(s) /\ Asked(Tail(s)) = Asked(s)
             /\ l \in LSA /\ l.adv \in Behind[a] /\ l.adv \in Router /\ l.seq > 0 /\ Sync(a)
             /\ Before(lsdb[a[2]][l.adv], l) /\ Before(l, lsdb[a[1]][l.adv])
             /\ \A q \in R : q.adv = l.adv => q.seq <= l.seq /\ lsdb[a[2]][l.adv].seq < q.seq
             /\ Core(Behind[a], With(lsdb[a[2]], l), lsdb[a[1]], LSAs(Tail(s)), updateLSA[a],
                     Told(a), Left(R, l), Asked(link[Back(a)]), Sync(a))
<1> DEFINE s == link[a]
           l == Head(s).lsa
           X == Behind[a]
           dn == lsdb[a[2]]
           dr == lsdb[a[1]]
           U == LSAs(s)
           U2 == LSAs(Tail(s))
           Q == updateLSA[a]
           T == Told(a)
           R == nbr[Back(a)].req
           R2 == Left(R, l)
           A == Asked(link[Back(a)])
           sync == Sync(a)
<1>1. s # <<>> /\ Head(s).type = "lsu"
  BY DEF Arrives
<1>2. /\ s \in Seq(Packet) /\ InOrder(s)
      /\ CoreType(X, dn, dr, U, Q, T, R) /\ Core(X, dn, dr, U, Q, T, R, A, sync)
  BY OneSide
<1>3. /\ U = U2 \cup {l} /\ Headers(Tail(s)) = Headers(s) /\ Asked(Tail(s)) = Asked(s)
  <2>1. s \in Seq(Packet)
    BY <1>2
  <2> HIDE DEF s
  <2>2. /\ LSAs(s) = LSAs(Tail(s)) \cup {Head(s).lsa}
        /\ Headers(s) = Headers(Tail(s)) \cup {}
        /\ Asked(s) = Asked(Tail(s)) \cup {}
    BY <1>1, <2>1, PoppedCarries
  <2> QED
    BY <2>2
<1>4. InOrder(Tail(s)) /\ Tail(s) \in Seq(Packet) /\ \A u \in U2 : l.adv = u.adv => Before(l, u)
  <2> HIDE DEF s
  <2> QED
    BY <1>1, <1>2, PoppedOrder, Popping
<1>5. R2 = Left(R, l)
  OBVIOUS
<1> HIDE DEF s, l, X, dn, dr, U, U2, Q, T, R, R2, A, sync
<1>6. /\ l.adv \in X /\ Before(dn[l.adv], l)
      /\ Core(X, With(dn, l), dr, U2, Q, T, R2, A, sync)
  BY <1>2, <1>3, <1>4, <1>5, CoreTake
<1>8. l \in U
  BY <1>3
<1>9. l \in LSA /\ l.adv \in Router /\ sync
  BY <1>2, <1>6, <1>8 DEF CoreType, Core
<1>10. l.seq > 0 /\ Before(l, dr[l.adv])
  BY <1>2, <1>8 DEF Core, Flow
<1>11. \A q \in R : q.adv = l.adv => q.seq <= l.seq /\ dn[l.adv].seq < q.seq
  BY <1>2, <1>6, <1>8 DEF Core, Asking
<1> QED
  BY <1>1, <1>2, <1>3, <1>4, <1>6, <1>9, <1>10, <1>11
     DEF s, l, X, dn, dr, U2, Q, T, R, R2, A, sync

\* The arc an update came over.
LEMMA DataTaken ==
  ASSUME IInv, TInv, Tree, NEW a \in Arc, Arrives(a, "lsu"),
         NEW t \in Seq(Packet), LSAs(t) = {}, Headers(t) = {}, Answer(a, t),
         Asked(t) \subseteq {h.adv : h \in nbr'[Back(a)].req},
         nbr'[Back(a)].req = Left(nbr[Back(a)].req, Head(link[a]).lsa),
         nbr'[a].summary = nbr[a].summary, Sync(a)' = Sync(a),
         updateLSA'[a] = updateLSA[a], lsdb'[a[1]] = lsdb[a[1]],
         lsdb'[a[2]] = With(lsdb[a[2]], Head(link[a]).lsa),
         \A x \in Router : lsdb'[a[2]][x] \in LSA /\ lsdb'[a[2]][x].adv = x
  PROVE  Data(a)'
<1> DEFINE me == Back(a)
           s == link[a]
           l == Head(s).lsa
           X == Behind[a]
           dn == lsdb[a[2]]
           dr == lsdb[a[1]]
           dm == With(dn, l)
           U2 == LSAs(Tail(s))
           Q == updateLSA[a]
           T == Told(a)
           R == nbr[me].req
           R2 == Left(R, l)
           A == Asked(link[me])
           A2 == Asked(link'[me])
           sync == Sync(a)
<1>1. /\ s \in Seq(Packet) /\ s # <<>> /\ InOrder(Tail(s)) /\ Headers(Tail(s)) = Headers(s)
      /\ Core(X, dm, dr, U2, Q, T, R2, A, sync) /\ l \in LSA /\ l.adv \in Router
      /\ Tail(s) \in Seq(Packet)
  BY Taken
<1>2. /\ me \in Arc /\ me # a /\ link[me] \in Seq(Packet)
      /\ link'[a] = Tail(s) /\ link'[me] = link[me] \o t
  BY <1>1, Answers
<1>3. CoreType(X, dn, dr, LSAs(s), Q, T, R)
  BY OneSide
<1>4. A2 = A \cup Asked(t)
  BY <1>2, JoinedCarries
<1>5. U2 \subseteq LSA
  BY <1>1, CarriedType
<1>6. dm \in [Router -> LSA] /\ \A x \in Router : dm[x].adv = x
  <2> HIDE DEF l, dn
  <2>1. dn \in [Router -> LSA]
    BY <1>3 DEF CoreType
  <2>2. dm \in [Router -> LSA]
    BY <1>1, <2>1 DEF With
  <2> QED
    BY <2>2 DEF l, dn
<1>7. CoreType(X, dm, dr, U2, Q, T, R2)
  <2> HIDE DEF X, dn, dr, dm, U2, Q, T, R
  <2> QED
    BY <1>3, <1>5, <1>6 DEF CoreType, Left
<1>8. A2 \subseteq A \cup {h.adv : h \in R2}
  BY <1>4
<1>9. Core(X, dm, dr, U2, Q, T, R2, A2, sync)
  <2> HIDE DEF X, dn, dr, dm, U2, Q, T, R2, A, A2, sync
  <2> QED
    BY <1>1, <1>7, <1>8, CoreAsk
<1>10. Told(a)' = T
  BY <1>1, <1>2 DEF Told
<1> QED
  BY <1>1, <1>2, <1>9, <1>10 DEF Data

\* A request that may answer an update.
LEMMA MayRequest ==
  ASSUME NEW nb \in Neighbor, NEW asks, NEW t, t = IF asks THEN <<Request(nb)>> ELSE <<>>
  PROVE  /\ t \in Seq(Packet) /\ LSAs(t) = {} /\ Headers(t) = {} /\ NoDD(t)
         /\ Asked(t) \subseteq {h.adv : h \in nb.req}
<1>1. CASE asks
  BY <1>1, PlainRequest
<1>2. CASE ~asks
  BY <1>2, NothingCarried
<1> QED
  BY <1>1, <1>2

\* An update of what is stored already.
LEMMA TreeKnown ==
  ASSUME IInv, TInv, Tree, NEW a \in Arc, RecvLSUKnown(a)
  PROVE  TInv'
<1> DEFINE me == Back(a)
           s == link[a]
           l == Head(s).lsa
           nb == nbr[me]
           bad == \E q \in nb.req : q.adv = l.adv
           loaded == ~bad /\ nb.req = {} /\ nb.state = "Loading"
<1>1. /\ me \in Arc /\ me[1] = a[2] /\ me[2] = a[1] /\ Back(me) = a /\ me # a
      /\ s # <<>> /\ Head(s).type = "lsu" /\ Arrives(a, "lsu") /\ nb.state \in Synchronizing
      /\ nb \in Neighbor /\ link[me] \in Seq(Packet)
  BY Ends, OneArc DEF RecvLSUKnown, Arrives
<1>2. /\ s \in Seq(Packet) /\ Tail(s) \in Seq(Packet)
      /\ Headers(Tail(s)) = Headers(s) /\ Asked(Tail(s)) = Asked(s)
      /\ l \in LSA /\ l.adv \in Router
      /\ Before(lsdb[a[2]][l.adv], l)
      /\ \A q \in nb.req : q.adv = l.adv => q.seq <= l.seq /\ lsdb[a[2]][l.adv].seq < q.seq
  BY <1>1, Taken
<1>3. lsdb[a[2]] \in [Router -> LSA] /\ nb.req \subseteq Header
  BY <1>1, OneArc, Ends DEF Neighbor
<1>4. l.seq = lsdb[a[2]][l.adv].seq
  BY <1>1 DEF RecvLSUKnown
<1>5. lsdb[a[2]][l.adv] = l
  <2>1. l.seq \in Nat
    <3> HIDE DEF l
    <3> QED
      BY <1>2 DEF LSA
  <2>2. ~(l.seq < l.seq)
    BY <2>1
  <2> QED
    BY <1>2, <1>4, <2>2 DEF Before
<1>6. ~bad
  <2> SUFFICES ASSUME NEW q \in nb.req, q.adv = l.adv PROVE FALSE
    OBVIOUS
  <2>1. q.seq <= l.seq /\ l.seq < q.seq
    BY <1>2, <1>4
  <2>2. q.seq \in Nat /\ l.seq \in Nat
    BY <1>2, <1>3 DEF Header, LSA
  <2> QED
    BY <2>1, <2>2
<1>7. With(lsdb[a[2]], l) = lsdb[a[2]]
  BY <1>2, <1>3, <1>5 DEF With
<1>8. Left(nb.req, l) = nb.req
  BY <1>6 DEF Left
<1>9. PICK next \in BOOLEAN :
        LET asks == ~bad /\ nb.req # {} /\ next
            rt == IF bad THEN nb.reqTimer ELSE nb.req # {} /\ (nb.reqTimer \/ next)
            st == IF loaded THEN "Full" ELSE nb.state
        IN  /\ nbr' = [nbr EXCEPT ![me] = [nb EXCEPT !.reqTimer = rt, !.state = st]]
            /\ Answer(a, IF asks THEN <<Request(nb)>> ELSE <<>>)
  BY DEF RecvLSUKnown, isRequestedLSAReceived
<1>10. /\ unhandled' = (unhandled \/ bad) /\ UNCHANGED <<lsdb, updateLSA>>
       /\ lsTimer' = [lsTimer EXCEPT ![a[2]] = @ \/ loaded]
  BY <1>1 DEF RecvLSUKnown
<1> DEFINE asks == ~bad /\ nb.req # {} /\ next
           rt == IF bad THEN nb.reqTimer ELSE nb.req # {} /\ (nb.reqTimer \/ next)
           st == IF loaded THEN "Full" ELSE nb.state
           n == [nb EXCEPT !.reqTimer = rt, !.state = st]
           t == IF asks THEN <<Request(nb)>> ELSE <<>>
<1>11. nbr' = [nbr EXCEPT ![me] = n] /\ Answer(a, t)
  BY <1>9
<1> HIDE DEF rt
<1>12. n.req = nb.req /\ n.state = st /\ n.done = nb.done /\ n.master = nb.master /\ n.seq = nb.seq
         /\ n.more = nb.more /\ n.lastrecv = nb.lastrecv /\ n.summary = nb.summary
  BY <1>1 DEF Neighbor
<1> HIDE DEF asks, n
<1>13. /\ t \in Seq(Packet) /\ LSAs(t) = {} /\ Headers(t) = {} /\ NoDD(t)
       /\ Asked(t) \subseteq {h.adv : h \in nb.req}
  BY <1>1, MayRequest
<1> HIDE DEF t
<1>14. Kept(n, nb) /\ n.state \in Synchronizing /\ (nb.state = "Full" => n.state = "Full")
  BY <1>1, <1>12 DEF Kept, Synchronizing
<1>15. nbr'[me] = n /\ \A c \in Arc : c # me => nbr'[c] = nbr[c]
  BY <1>1, <1>11 DEF IInv, TypeOK
<1>16. /\ link'[a] = Tail(s) /\ link'[me] = link[me] \o t
       /\ \A c \in Arc \ {a, me} : link'[c] = link[c]
  BY <1>1, <1>11, <1>13, Answers
<1>17. Sync(a)' = Sync(a) /\ Sync(me)' = Sync(me)
  BY <1>1, <1>14, <1>15 DEF Sync
<1>18. Data(a)'
  <2>1. \A x \in Router : lsdb'[a[2]][x] \in LSA /\ lsdb'[a[2]][x].adv = x
    BY <1>3, <1>10, Ends DEF TInv, Named
  <2>2. nbr'[me].req = Left(nb.req, l) /\ nbr'[a].summary = nbr[a].summary
    BY <1>1, <1>8, <1>12, <1>15
  <2>3. Asked(t) \subseteq {h.adv : h \in nbr'[me].req}
    BY <1>12, <1>13, <1>15
  <2>4. lsdb'[a[1]] = lsdb[a[1]] /\ lsdb'[a[2]] = With(lsdb[a[2]], l) /\ updateLSA'[a] = updateLSA[a]
    BY <1>7, <1>10
  <2> QED
    BY <1>1, <1>11, <1>13, <1>17, <2>1, <2>2, <2>3, <2>4, DataTaken
<1>19. Data(me)'
  <2>1. InOrder(link[me])
    BY <1>1, OneSide
  <2>2. /\ InOrder(link'[me]) /\ LSAs(link'[me]) = LSAs(link[me])
        /\ Headers(link'[me]) = Headers(link[me])
    BY <1>1, <1>13, <1>16, <2>1, PlainJoined
  <2>3. Told(me)' = Told(me)
    BY <1>12, <1>15, <2>2 DEF Told
  <2>4. nbr'[a].req = nbr[a].req /\ Asked(link'[a]) = Asked(link[a])
    BY <1>1, <1>2, <1>15, <1>16
  <2> QED
    BY <1>1, <1>10, <1>17, <2>2, <2>3, <2>4, DataKept
<1>20. \A c \in Arc : Data(c)'
  BY <1>10, <1>15, <1>16, <1>18, <1>19, DataElse
<1>21. \A c \in Arc : Phase(c)'
  <2>1. \A c \in Arc : Kept(nbr'[c], nbr[c])
    BY <1>14, <1>15, Standing
  <2>2. \A c \in Arc : Undisturbed(link[c], link'[c], Sync(c))
    <3>1. Undisturbed(s, Tail(s), Sync(a))
      BY <1>1, <1>2, UndisturbedTail
    <3>2. Undisturbed(link[me], link[me] \o t, Sync(me))
      BY <1>1, <1>13, UndisturbedMore DEF Sync
    <3> QED
      BY <1>16, <3>1, <3>2, Standing
  <2> QED
    BY <2>1, <2>2, PhasesKept DEF TInv
<1>22. Named' /\ \A x \in Router : Own(x)'
  <2>1. \A c \in Arc : nbr[c].state = "Full" => nbr'[c].state = "Full"
    BY <1>14, <1>15
  <2>2. loaded => me \in From(a[2]) /\ nb.state # "Full" /\ nbr'[me].state = "Full"
    BY <1>1, <1>12, <1>15 DEF From
  <2>3. \A x \in Router : lsTimer'[x] => lsTimer[x] \/ (x = a[2] /\ loaded)
    BY <1>10 DEF IInv, TypeOK
  <2> HIDE DEF loaded
  <2>4. \A x \in Router : lsTimer'[x] =>
          lsTimer[x] \/ \E b \in From(x) : nbr[b].state # "Full" /\ nbr'[b].state = "Full"
    BY <2>2, <2>3
  <2> QED
    BY <1>10, <2>1, <2>4, OwnKept
<1>23. ~unhandled'
  BY <1>6, <1>10 DEF TInv
<1> QED
  BY <1>20, <1>21, <1>22, <1>23 DEF TInv

----------------------------------------------------------------------------
(* Storing and flooding *)

\* What a database holds with a new instance.
LEMMA Withal ==
  ASSUME NEW db \in [Router -> LSA], \A x \in Router : db[x].adv = x,
         NEW l \in LSA
  PROVE  /\ With(db, l) \in [Router -> LSA] /\ l.adv \in Router
         /\ \A x \in Router : With(db, l)[x] = IF x = l.adv THEN l ELSE db[x]
         /\ \A x \in Router : With(db, l)[x].adv = x
<1>1. l.adv \in Router
  BY DEF LSA
<1>2. \A x \in Router : With(db, l)[x] = IF x = l.adv THEN l ELSE db[x]
  BY <1>1 DEF With
<1>3. With(db, l) \in [Router -> LSA]
  BY <1>1 DEF With
<1> QED
  BY <1>1, <1>2, <1>3

\* An instance newer than the one stored is stored.
LEMMA NewerStored ==
  ASSUME NEW old \in LSA, NEW l \in LSA, Before(old, l), old.seq # l.seq
  PROVE  old.seq < l.seq /\ install(old, l) = l
BY DEF Before, install

\* Nothing is requested of a router that is not heard of over this arc.
LEMMA Unrequested ==
  ASSUME IInv, TInv, Tree, NEW c \in Arc, NEW l, l.adv \in Behind[c]
  PROVE  Answered(nbr[c], l) = nbr[c] /\ (Passes(nbr[c], l) <=> Sync(c))
<1> DEFINE b == Back(c)
           R == nbr[c].req
<1>1. b \in Arc /\ Back(b) = c
  BY Ends
<1>2. Core(Behind[b], lsdb[b[2]], lsdb[b[1]], LSAs(link[b]), updateLSA[b], Told(b), R,
           Asked(link[c]), Sync(b))
  BY <1>1, OneSide
<1>3. Behind[b] = Router \ Behind[c]
  BY Sides
<1>4. \A q \in R : q.adv # l.adv
  BY <1>2, <1>3 DEF Core, Asking
<1>5. {q \in R : q.adv = l.adv => l.seq < q.seq} = R
  BY <1>4
<1>6. Answered(nbr[c], l) = nbr[c]
  BY <1>5 DEF Answered
<1>7. ~Outdated(nbr[c], l)
  BY <1>4 DEF Outdated
<1> QED
  BY <1>6, <1>7 DEF Passes, Sync

\* An arc from the router that stores an instance.
LEMMA StoreOut ==
  ASSUME IInv, TInv, Tree, NEW c \in Arc, NEW l \in LSA, l.adv \in Behind[c],
         Before(lsdb[c[1]][l.adv], l), lsdb[c[1]][l.adv].seq < l.seq,
         lsdb'[c[1]] = With(lsdb[c[1]], l), lsdb'[c[2]] = lsdb[c[2]],
         link'[c] = link[c], link'[Back(c)] = link[Back(c)],
         nbr'[c] = nbr[c], nbr'[Back(c)] = nbr[Back(c)],
         updateLSA'[c] = IF Sync(c) THEN Queue(updateLSA[c], {l}) ELSE updateLSA[c]
  PROVE  Data(c)'
<1> DEFINE b == Back(c)
           X == Behind[c]
           dn == lsdb[c[2]]
           dr == lsdb[c[1]]
           dm == With(dr, l)
           U == LSAs(link[c])
           Q == updateLSA[c]
           P == updateLSA'[c]
           T == Told(c)
           R == nbr[b].req
           A == Asked(link[b])
           sync == Sync(c)
<1>1. /\ sync \in BOOLEAN /\ InOrder(link[c])
      /\ CoreType(X, dn, dr, U, Q, T, R)
      /\ Core(X, dn, dr, U, Q, T, R, A, sync)
  BY OneSide
<1>2. P = IF sync THEN Queue(Q, {l}) ELSE Q
  OBVIOUS
<1>3. Before(dr[l.adv], l) /\ dr[l.adv].seq < l.seq /\ l.adv \in X
  OBVIOUS
<1>4. Core(X, dn, dm, U, P, T, R, A, sync)
  <2> HIDE DEF X, dn, dr, U, P, Q, T, R, A, sync
  <2> QED
    BY <1>1, <1>2, <1>3, CoreStore
<1>5. Told(c)' = T /\ Sync(c)' = sync
  BY DEF Told, Sync
<1> QED
  BY <1>1, <1>4, <1>5 DEF Data

\* An arc to the router that stores an instance of a router that is not
\* behind it.
LEMMA StoreIn ==
  ASSUME IInv, TInv, Tree, NEW c \in Arc, NEW l \in LSA, l.adv \notin Behind[c],
         lsdb[c[2]][l.adv].seq < l.seq,
         lsdb'[c[2]] = With(lsdb[c[2]], l), lsdb'[c[1]] = lsdb[c[1]],
         link'[c] = link[c], link'[Back(c)] = link[Back(c)],
         nbr'[c] = nbr[c], nbr'[Back(c)] = nbr[Back(c)], updateLSA'[c] = updateLSA[c]
  PROVE  Data(c)'
<1> DEFINE b == Back(c)
           X == Behind[c]
           dn == lsdb[c[2]]
           dr == lsdb[c[1]]
           dm == With(dn, l)
           U == LSAs(link[c])
           Q == updateLSA[c]
           T == Told(c)
           R == nbr[b].req
           A == Asked(link[b])
           sync == Sync(c)
<1>1. /\ InOrder(link[c])
      /\ CoreType(X, dn, dr, U, Q, T, R)
      /\ Core(X, dn, dr, U, Q, T, R, A, sync)
  BY OneSide
<1>2. dn \in [Router -> LSA] /\ (\A x \in Router : dn[x].adv = x) /\ X \subseteq Router
  BY <1>1 DEF CoreType
<1>3. dn[l.adv].seq < l.seq /\ l.adv \notin X
  OBVIOUS
<1>4. Core(X, dm, dr, U, Q, T, R, A, sync)
  <2> HIDE DEF X, dn, dr, U, Q, T, R, A, sync
  <2>1. /\ dm \in [Router -> LSA]
        /\ \A x \in Router : dm[x] = IF x = l.adv THEN l ELSE dn[x]
    BY <1>2, Withal
  <2>2. \A x \in Router : dn[x].seq \in Nat
    BY <1>2 DEF LSA
  <2>3. \A x \in Router : dn[x].seq <= dm[x].seq
    BY <1>3, <2>1, <2>2 DEF LSA
  <2>4. \A x \in X : dm[x] = dn[x]
    BY <1>2, <1>3, <2>1
  <2> HIDE DEF dm
  <2> QED
    BY <1>1, <2>1, <2>3, <2>4, CoreFar
<1>5. Told(c)' = T /\ Sync(c)' = sync
  BY DEF Told, Sync
<1> QED
  BY <1>1, <1>4, <1>5 DEF Data

\* All arcs but those between r and the neighbour the instance came from.
LEMMA DataStored ==
  ASSUME IInv, TInv, Tree, NEW r \in Router, NEW l \in LSA,
         Before(lsdb[r][l.adv], l), lsdb[r][l.adv].seq < l.seq,
         lsdb'[r] = With(lsdb[r], l), \A x \in Router : x # r => lsdb'[x] = lsdb[x],
         NEW e,
         \A c \in Arc : c[1] = r /\ c # e => l.adv \in Behind[c],
         \A c \in Arc : c[2] = r /\ Back(c) # e => l.adv \notin Behind[c],
         \A c \in Arc : c # e /\ Back(c) # e => link'[c] = link[c],
         \A c \in Arc : c # e => nbr'[c] = nbr[c],
         \A c \in Arc : updateLSA'[c] = Queued(r, l, e)[c]
  PROVE  \A c \in Arc : c # e /\ Back(c) # e => Data(c)'
<1> SUFFICES ASSUME NEW c \in Arc, c # e, Back(c) # e PROVE Data(c)'
  OBVIOUS
<1> DEFINE b == Back(c)
<1>1. /\ b \in Arc /\ c[1] \in Router /\ c[2] \in Router /\ c[1] # c[2]
      /\ b # e /\ Back(b) = c /\ link'[c] = link[c] /\ link'[b] = link[b]
      /\ nbr'[c] = nbr[c] /\ nbr'[b] = nbr[b]
  BY Ends
<1>2. updateLSA'[c] = IF c[1] = r /\ Passes(nbr[c], l) THEN Queue(updateLSA[c], {l})
                      ELSE updateLSA[c]
  BY DEF Queued
<1>3. CASE c[1] = r
  <2>1. /\ lsdb'[c[1]] = With(lsdb[c[1]], l) /\ lsdb'[c[2]] = lsdb[c[2]]
        /\ Before(lsdb[c[1]][l.adv], l) /\ lsdb[c[1]][l.adv].seq < l.seq
        /\ l.adv \in Behind[c]
    BY <1>1, <1>3
  <2>2. updateLSA'[c] = IF Sync(c) THEN Queue(updateLSA[c], {l}) ELSE updateLSA[c]
    BY <1>2, <1>3, <2>1, Unrequested
  <2> QED
    BY <1>1, <2>1, <2>2, StoreOut
<1>4. CASE c[2] = r
  <2>1. /\ lsdb'[c[2]] = With(lsdb[c[2]], l) /\ lsdb'[c[1]] = lsdb[c[1]]
        /\ lsdb[c[2]][l.adv].seq < l.seq /\ l.adv \notin Behind[c]
        /\ updateLSA'[c] = updateLSA[c]
    BY <1>1, <1>2, <1>4
  <2> QED
    BY <1>1, <2>1, StoreIn
<1>5. CASE c[1] # r /\ c[2] # r
  <2>1. /\ lsdb'[c[1]] = lsdb[c[1]] /\ lsdb'[c[2]] = lsdb[c[2]]
        /\ updateLSA'[c] = updateLSA[c]
    BY <1>1, <1>2, <1>5
  <2>2. Told(c)' = Told(c) /\ Sync(c)' = Sync(c)
    BY <1>1 DEF Told, Sync
  <2>3. InOrder(link'[c])
    BY <1>1, OneSide
  <2> QED
    BY <1>1, <2>1, <2>2, <2>3, DataKept
<1> QED
  BY <1>3, <1>4, <1>5

\* Databases with a new instance.
LEMMA NamedStored ==
  ASSUME IInv, TInv, NEW r \in Router, NEW l \in LSA,
         lsdb'[r] = With(lsdb[r], l), \A x \in Router : x # r => lsdb'[x] = lsdb[x]
  PROVE  Named'
<1>1. lsdb[r] \in [Router -> LSA] /\ \A x \in Router : lsdb[r][x].adv = x
  BY DEF IInv, TypeOK, TInv, Named
<1>2. \A x \in Router : With(lsdb[r], l)[x].adv = x
  BY <1>1, Withal
<1> QED
  BY <1>2 DEF TInv, Named

\* No database takes an older instance.
Grows == \A r, x \in Router : lsdb'[r][x].seq >= lsdb[r][x].seq

\* A database that stores a newer instance.
LEMMA GrowsStored ==
  ASSUME IInv, NEW r \in Router, NEW l \in LSA, lsdb[r][l.adv].seq < l.seq,
         lsdb'[r] = With(lsdb[r], l), \A x \in Router : x # r => lsdb'[x] = lsdb[x]
  PROVE  Grows
<1>1. \A y, x \in Router : lsdb[y][x] \in LSA /\ lsdb[y][x].seq \in Nat
  BY DEF IInv, TypeOK, LSA
<1>2. l.adv \in Router /\ l.seq \in Nat
  BY DEF LSA
<1>3. lsdb[r] \in [Router -> LSA]
  BY DEF IInv, TypeOK
<1>4. \A x \in Router : lsdb'[r][x] = IF x = l.adv THEN l ELSE lsdb[r][x]
  BY <1>2, <1>3 DEF With
<1>5. \A x \in Router : lsdb'[r][x].seq >= lsdb[r][x].seq
  BY <1>1, <1>2, <1>4
<1> QED
  BY <1>1, <1>5 DEF Grows

\* A router originates its LSA.
LEMMA TreeOriginated ==
  ASSUME IInv, TInv, Tree, NEW r \in Router, ScheduleLSDB(r)
  PROVE  TInv' /\ Grows
<1> DEFINE l == OwnLSA(r)
           old == lsdb[r][r]
           e == <<r, r>>
<1>1. /\ lsdb \in [Router -> [Router -> LSA]] /\ lsdb[r] \in [Router -> LSA]
      /\ old \in LSA /\ old.seq \in Nat /\ old.adv = r
      /\ \A c \in Arc : nbr[c] \in Neighbor
  BY DEF IInv, TypeOK, LSA, TInv, Named
<1>2. /\ l.adv = r /\ l.seq = old.seq + 1 /\ l.links = Adjacencies(r)
      /\ l \in LSA
  <2>1. Adjacencies(r) \subseteq Router
    BY Ends DEF Adjacencies, From
  <2> QED
    BY <1>1, <2>1 DEF OwnLSA, Adjacencies, LSA
<1>3. lsTimer[r] /\ Own(r)
  BY DEF ScheduleLSDB, TInv
<1> HIDE DEF l
<1>4. old.seq < l.seq /\ Before(old, l)
  BY <1>1, <1>2, <1>3 DEF Own, Before
<1>5. install(old, l) = l
  BY <1>1, <1>2, <1>4, NewerStored
<1>6. /\ nbr' = Flooded(r, l) /\ updateLSA' = Queued(r, l, e)
      /\ lsdb' = [lsdb EXCEPT ![r][r] = install(@, l)]
      /\ lsTimer' = [lsTimer EXCEPT ![r] = LoadingEnds(r, l)]
      /\ UNCHANGED <<link, unhandled>>
  BY DEF ScheduleLSDB, l
<1>7. /\ lsdb'[r] = [lsdb[r] EXCEPT ![r] = l]
      /\ \A x \in Router : x # r => lsdb'[x] = lsdb[x]
  BY <1>1, <1>5, <1>6
<1>8. lsdb'[r] = With(lsdb[r], l)
  BY <1>2, <1>7 DEF With
<1>9. \A c \in Arc : /\ c[1] = r => l.adv \in Behind[c]
                     /\ c[2] = r => l.adv \notin Behind[c]
                     /\ c # e /\ Back(c) # e
  <2> SUFFICES ASSUME NEW c \in Arc
               PROVE  /\ c[1] = r => r \in Behind[c]
                      /\ c[2] = r => r \notin Behind[c]
                      /\ c # e /\ Back(c) # e
    BY <1>2
  <2>1. c[1] # c[2] /\ Back(c)[1] = c[2] /\ Back(c)[2] = c[1]
    BY Ends
  <2>2. e[1] = e[2]
    OBVIOUS
  <2>3. c[1] \in Behind[c] /\ c[2] \notin Behind[c]
    BY Sides
  <2> HIDE DEF e
  <2> QED
    BY <2>1, <2>2, <2>3
<1>10. \A c \in Arc : c[1] = r => Answered(nbr[c], l) = nbr[c]
  BY <1>9, Unrequested
<1>11. nbr' = nbr
  BY <1>6, <1>10 DEF Flooded, IInv, TypeOK
<1>12. ~LoadingEnds(r, l)
  BY <1>10 DEF LoadingEnds, From
<1>13. \A c \in Arc : Data(c)'
  <2>1. Before(lsdb[r][l.adv], l) /\ lsdb[r][l.adv].seq < l.seq
    BY <1>2, <1>4
  <2> HIDE DEF e
  <2>2. /\ \A c \in Arc : c[1] = r /\ c # e => l.adv \in Behind[c]
        /\ \A c \in Arc : c[2] = r /\ Back(c) # e => l.adv \notin Behind[c]
        /\ \A c \in Arc : c # e /\ Back(c) # e => link'[c] = link[c]
        /\ \A c \in Arc : c # e => nbr'[c] = nbr[c]
        /\ \A c \in Arc : updateLSA'[c] = Queued(r, l, e)[c]
    BY <1>6, <1>9, <1>11
  <2>3. \A c \in Arc : c # e /\ Back(c) # e => Data(c)'
    BY <1>2, <1>7, <1>8, <2>1, <2>2, DataStored
  <2> QED
    BY <1>9, <2>3
<1>14. \A c \in Arc : Phase(c)'
  BY <1>6, <1>11, Standing, PhasesKept DEF TInv
<1>15. Named'
  BY <1>2, <1>7, <1>8, NamedStored
<1>16. \A x \in Router : Own(x)'
  <2>2. Own(r)'
    <3>1. lsdb'[r][r] = l
      BY <1>1, <1>7
    <3>2. Adjacencies(r)' = Adjacencies(r)
      BY <1>11 DEF Adjacencies, From
    <3>3. ~lsTimer'[r]
      BY <1>6, <1>12 DEF IInv, TypeOK
    <3> QED
      BY <1>2, <3>1, <3>2, <3>3 DEF Own
  <2>3. ASSUME NEW x \in Router, x # r PROVE Own(x)'
    <3>1. lsdb'[x][x] = lsdb[x][x] /\ lsTimer'[x] = lsTimer[x] /\ Own(x)
      BY <1>6, <1>7, <2>3 DEF IInv, TypeOK, TInv
    <3> QED
      BY <1>11, <3>1, OwnGrows
  <2> QED
    BY <2>2, <2>3
<1>17. Grows
  BY <1>2, <1>4, <1>7, <1>8, GrowsStored
<1> QED
  BY <1>6, <1>13, <1>14, <1>15, <1>16, <1>17 DEF TInv

\* The timer of the request list set.
Timed(nb, v) == [nb EXCEPT !.reqTimer = v]

\* What an instance does to the structure of the neighbour it came from.
LEMMA AnswerKept ==
  ASSUME NEW nb \in Neighbor, nb.state \in Synchronizing, nb.req # {} => nb.state # "Full",
         NEW l, NEW v, NEW n, n = Timed(Answered(nb, l), v)
  PROVE  /\ Answered(nb, l) \in Neighbor
         /\ n.req = Left(nb.req, l) /\ Answered(nb, l).req = n.req
         /\ n.state = Answered(nb, l).state /\ n.summary = nb.summary
         /\ n.state = nb.state \/ (nb.state = "Loading" /\ n.state = "Full")
         /\ Kept(n, nb) /\ n.state \in Synchronizing
<1> DEFINE left == {q \in nb.req : q.adv = l.adv => l.seq < q.seq}
           st == IF nb.state = "Loading" /\ left = {} THEN "Full" ELSE nb.state
           g == Answered(nb, l)
<1>1. left = Left(nb.req, l) /\ left \subseteq nb.req
  BY DEF Left
<1>2. CASE nb.state \notin {"Exchange", "Loading"} \/ left = nb.req
  <2>1. g = nb
    BY <1>2 DEF Answered
  <2>2. g.req = left
    BY <1>1, <1>2, <2>1 DEF Synchronizing
  <2>3. /\ n.req = g.req /\ n.state = g.state /\ n.done = g.done /\ n.master = g.master
        /\ n.seq = g.seq /\ n.more = g.more /\ n.lastrecv = g.lastrecv /\ n.summary = g.summary
    BY <2>1 DEF Neighbor, Timed
  <2> HIDE DEF g, left
  <2>4. g.state = nb.state
    BY <2>1
  <2> QED
    BY <1>1, <2>1, <2>2, <2>3 DEF g, Kept
<1>3. CASE nb.state \in {"Exchange", "Loading"} /\ left # nb.req
  <2>1. g = [nb EXCEPT !.req = left, !.state = st]
    BY <1>3 DEF Answered
  <2> HIDE DEF left
  <2>2. left \subseteq Header /\ st \in State
    BY <1>1, <1>3 DEF Neighbor, State
  <2> HIDE DEF st
  <2>3. /\ g \in Neighbor /\ g.req = left /\ g.state = st /\ g.done = nb.done
        /\ g.master = nb.master /\ g.seq = nb.seq /\ g.more = nb.more
        /\ g.lastrecv = nb.lastrecv /\ g.summary = nb.summary
    BY <2>1, <2>2 DEF Neighbor
  <2> HIDE DEF g
  <2>4. /\ n.req = g.req /\ n.state = g.state /\ n.done = g.done /\ n.master = g.master
        /\ n.seq = g.seq /\ n.more = g.more /\ n.lastrecv = g.lastrecv /\ n.summary = g.summary
    BY <2>3 DEF Neighbor, g, Timed
  <2>5. n.state = nb.state \/ (nb.state = "Loading" /\ n.state = "Full")
    BY <2>3, <2>4 DEF st
  <2>6. n.state \in Synchronizing
    BY <2>5 DEF Synchronizing
  <2>7. Kept(n, nb)
    BY <2>3, <2>4, <2>5, <2>6 DEF Kept
  <2> QED
    BY <1>1, <2>3, <2>4, <2>5, <2>6, <2>7 DEF g
<1> QED
  BY <1>2, <1>3

\* An update is stored and flooded.
LEMMA TreeInstalled ==
  ASSUME IInv, TInv, Tree, NEW a \in Arc, RecvLSUInstalled(a)
  PROVE  TInv' /\ Grows
<1> DEFINE me == Back(a)
           r == a[2]
           s == link[a]
           l == Head(s).lsa
           nb == nbr[me]
           g == Answered(nb, l)
           old == lsdb[r][l.adv]
<1>1. /\ me \in Arc /\ me[1] = r /\ me[2] = a[1] /\ Back(me) = a /\ me # a /\ r # a[1]
      /\ r \in Router
      /\ s # <<>> /\ Head(s).type = "lsu" /\ Arrives(a, "lsu") /\ nb.state \in Synchronizing
      /\ nb \in Neighbor /\ Good(me, nb) /\ link[me] \in Seq(Packet)
      /\ lsdb[r] \in [Router -> LSA]
  BY Ends, OneArc DEF RecvLSUInstalled, Arrives
<1>2. /\ s \in Seq(Packet) /\ Tail(s) \in Seq(Packet)
      /\ Headers(Tail(s)) = Headers(s) /\ Asked(Tail(s)) = Asked(s)
      /\ l \in LSA /\ l.adv \in Router /\ l.adv \in Behind[a] /\ Before(old, l)
  BY <1>1, Taken
<1>3. /\ l.seq # old.seq
      /\ updateLSA' = Queued(r, l, me)
      /\ lsdb' = [lsdb EXCEPT ![r][l.adv] =
           IF l.adv = r THEN [install(@, l) EXCEPT !.seq = l.seq + 1] ELSE install(@, l)]
      /\ lsTimer' = [lsTimer EXCEPT ![r] = @ \/ (l.adv = r) \/ LoadingEnds(r, l)]
      /\ UNCHANGED unhandled
  BY <1>1 DEF RecvLSUInstalled
<1>4. PICK next \in BOOLEAN :
        /\ nbr' = [Flooded(r, l) EXCEPT ![me].reqTimer = g.req # {} /\ (@ \/ next)]
        /\ Answer(a, IF g.req # {} /\ next THEN <<Request(g)>> ELSE <<>>)
  BY <1>1 DEF RecvLSUInstalled, isRequestedLSAReceived
<1> DEFINE asks == g.req # {} /\ next
           t == IF asks THEN <<Request(g)>> ELSE <<>>
           v == g.req # {} /\ (g.reqTimer \/ next)
           n == [g EXCEPT !.reqTimer = v]
<1>5. Answer(a, t)
  BY <1>4
<1>6. /\ l.adv # r /\ l.adv \notin Behind[me]
      /\ \A c \in Arc : c[1] = r /\ c # me => l.adv \in Behind[c]
      /\ \A c \in Arc : c[2] = r /\ Back(c) # me => l.adv \notin Behind[c]
  <2>1. \A c \in Arc : Back(c) # me => c # a
    OBVIOUS
  <2> HIDE DEF l
  <2>2. /\ r \notin Behind[a] /\ Behind[me] = Router \ Behind[a]
        /\ \A c \in Arc : c[1] = r /\ c # me => Behind[a] \subseteq Behind[c]
        /\ \A c \in Arc : c[2] = r /\ c # a => Behind[a] \cap Behind[c] = {}
    BY Sides
  <2> QED
    BY <1>2, <2>1, <2>2
<1>7. /\ nbr'[me] = n
      /\ \A c \in Arc : c # me => nbr'[c] = nbr[c]
  <2>1. Flooded(r, l) = [b \in Arc |-> IF b[1] = r THEN Answered(nbr[b], l) ELSE nbr[b]]
    BY DEF Flooded
  <2>2. Flooded(r, l)[me] = g
    BY <1>1, <2>1
  <2>3. DOMAIN Flooded(r, l) = Arc
    BY <2>1
  <2>4. \A c \in Arc : c # me => Flooded(r, l)[c] = nbr[c]
    BY <1>6, <2>1, Unrequested
  <2> DEFINE F == Flooded(r, l)
  <2> HIDE DEF F, g, l
  <2>5. nbr' = [F EXCEPT ![me] = [F[me] EXCEPT !.reqTimer = g.req # {} /\ (F[me].reqTimer \/ next)]]
    BY <1>4 DEF F
  <2>6. nbr'[me] = [F[me] EXCEPT !.reqTimer = g.req # {} /\ (F[me].reqTimer \/ next)]
    BY <1>1, <2>3, <2>5 DEF F
  <2>7. \A c \in Arc : c # me => nbr'[c] = F[c]
    BY <2>3, <2>5 DEF F
  <2> QED
    BY <2>2, <2>4, <2>6, <2>7 DEF F
<1> HIDE DEF v
<1>8. /\ g \in Neighbor /\ n.req = Left(nb.req, l) /\ g.req = n.req
      /\ n.state = g.state /\ n.summary = nb.summary
      /\ n.state = nb.state \/ (nb.state = "Loading" /\ n.state = "Full")
      /\ Kept(n, nb) /\ n.state \in Synchronizing
  <2>1. nb.req # {} => nb.state # "Full"
    BY <1>1 DEF Good
  <2>2. n = Timed(Answered(nb, l), v)
    BY DEF Timed
  <2> HIDE DEF l, nb, n
  <2> QED
    BY <1>1, <2>1, <2>2, AnswerKept
<1>9. /\ t \in Seq(Packet) /\ LSAs(t) = {} /\ Headers(t) = {} /\ NoDD(t)
      /\ Asked(t) \subseteq {h.adv : h \in g.req}
  <2> HIDE DEF g, asks
  <2> QED
    BY <1>8, MayRequest
<1> HIDE DEF t, n, asks
<1>10. /\ old.seq < l.seq /\ install(old, l) = l
  <2>1. old \in LSA
    BY <1>1, <1>2
  <2> HIDE DEF l, old
  <2> QED
    BY <1>2, <1>3, <2>1, NewerStored
<1>11. /\ lsdb'[r] = With(lsdb[r], l) /\ \A x \in Router : x # r => lsdb'[x] = lsdb[x]
  <2> HIDE DEF l
  <2>1. lsdb' = [lsdb EXCEPT ![r][l.adv] = install(@, l)]
    BY <1>3, <1>6
  <2>2. lsdb'[r] = [lsdb[r] EXCEPT ![l.adv] = install(old, l)]
    BY <1>1, <2>1 DEF IInv, TypeOK
  <2>3. \A x \in Router : x # r => lsdb'[x] = lsdb[x]
    BY <2>1 DEF IInv, TypeOK
  <2> QED
    BY <1>10, <2>2, <2>3 DEF With
<1>12. /\ link'[a] = Tail(s) /\ link'[me] = link[me] \o t
       /\ \A c \in Arc \ {a, me} : link'[c] = link[c]
  BY <1>1, <1>5, <1>9, Answers
<1>13. Sync(a)' = Sync(a) /\ Sync(me)' = Sync(me)
  BY <1>1, <1>7, <1>8 DEF Sync
<1>14. updateLSA'[a] = updateLSA[a] /\ updateLSA'[me] = updateLSA[me]
  BY <1>1, <1>3 DEF Queued
<1> HIDE DEF g, old
<1>15. Data(a)'
  <2>1. \A x \in Router : lsdb'[r][x] \in LSA /\ lsdb'[r][x].adv = x
    <3>1. \A x \in Router : lsdb[r][x].adv = x
      BY <1>1 DEF TInv, Named
    <3> DEFINE db == lsdb[r]
    <3>2. db \in [Router -> LSA] /\ l \in LSA /\ lsdb'[r] = With(db, l)
      BY <1>1, <1>2, <1>11
    <3> HIDE DEF l, db
    <3>3. With(db, l) \in [Router -> LSA] /\ \A x \in Router : With(db, l)[x].adv = x
      BY <3>1, <3>2, Withal DEF db
    <3> QED
      BY <3>2, <3>3
  <2>2. nbr'[me].req = Left(nb.req, l) /\ nbr'[a].summary = nbr[a].summary
    BY <1>1, <1>7, <1>8
  <2>3. Asked(t) \subseteq {h.adv : h \in nbr'[me].req}
    BY <1>7, <1>8, <1>9
  <2>4. lsdb'[a[1]] = lsdb[a[1]]
    BY <1>1, <1>11, Ends
  <2> QED
    BY <1>1, <1>5, <1>9, <1>11, <1>13, <1>14, <2>1, <2>2, <2>3, <2>4, DataTaken
<1>16. Data(me)'
  <2>1. /\ InOrder(link[me])
        /\ CoreType(Behind[me], lsdb[a[1]], lsdb[r], LSAs(link[me]), updateLSA[me], Told(me),
                    nbr[a].req)
        /\ Core(Behind[me], lsdb[a[1]], lsdb[r], LSAs(link[me]), updateLSA[me], Told(me),
                nbr[a].req, Asked(link[a]), Sync(me))
    BY <1>1, OneSide
  <2>2. /\ InOrder(link'[me]) /\ LSAs(link'[me]) = LSAs(link[me])
        /\ Headers(link'[me]) = Headers(link[me])
    BY <1>1, <1>9, <1>12, <2>1, PlainJoined
  <2>3. Told(me)' = Told(me)
    BY <1>7, <1>8, <2>2 DEF Told
  <2>4. nbr'[a].req = nbr[a].req /\ Asked(link'[a]) = Asked(link[a])
    BY <1>1, <1>2, <1>7, <1>12
  <2>5. lsdb'[me[2]] = lsdb[a[1]] /\ lsdb'[me[1]] = lsdb'[r]
    BY <1>1, <1>11, Ends
  <2>6. \A y \in Behind[me] : lsdb'[r][y] = lsdb[r][y]
    <3>1. Behind[me] \subseteq Router
      BY <1>1, Sides
    <3> HIDE DEF l
    <3> QED
      BY <1>1, <1>6, <1>11, <3>1 DEF With
  <2>7. Core(Behind[me], lsdb[a[1]], lsdb'[r], LSAs(link[me]), updateLSA[me], Told(me),
             nbr[a].req, Asked(link[a]), Sync(me))
    BY <2>1, <2>6, CoreNear
  <2> QED
    BY <1>1, <1>13, <1>14, <2>2, <2>3, <2>4, <2>5, <2>7 DEF Data
<1>17. \A c \in Arc : Data(c)'
  <2>1. \A c \in Arc : c # me /\ Back(c) # me => link'[c] = link[c]
    BY <1>12
  <2>2. \A c \in Arc : updateLSA'[c] = Queued(r, l, me)[c]
    BY <1>3
  <2>3. \A c \in Arc : c # me /\ Back(c) # me => Data(c)'
    <3>1. /\ r \in Router /\ l \in LSA
          /\ Before(lsdb[r][l.adv], l) /\ lsdb[r][l.adv].seq < l.seq
      BY <1>1, <1>2, <1>10 DEF old
    <3>2. \A c \in Arc : c # me => nbr'[c] = nbr[c]
      BY <1>7
    <3> HIDE DEF l, me, r
    <3> QED
      BY <1>6, <1>11, <2>1, <2>2, <3>1, <3>2, DataStored
  <2>4. \A c \in Arc : Back(c) = me => c = a
    BY Ends
  <2> QED
    BY <1>15, <1>16, <2>3, <2>4
<1>18. \A c \in Arc : Phase(c)'
  <2>1. \A c \in Arc : Kept(nbr'[c], nbr[c])
    BY <1>7, <1>8, Standing
  <2>2. \A c \in Arc : Undisturbed(link[c], link'[c], Sync(c))
    <3>1. Undisturbed(s, Tail(s), Sync(a))
      BY <1>1, <1>2, UndisturbedTail
    <3>2. Undisturbed(link[me], link[me] \o t, Sync(me))
      BY <1>1, <1>9, UndisturbedMore DEF Sync
    <3> QED
      BY <1>12, <3>1, <3>2, Standing
  <2> QED
    BY <2>1, <2>2, PhasesKept DEF TInv
<1>19. Named'
  BY <1>1, <1>2, <1>11, NamedStored
<1>20. \A x \in Router : Own(x)'
  <2>1. \A c \in Arc : nbr[c].state = "Full" => nbr'[c].state = "Full"
    BY <1>7, <1>8
  <2>2. LoadingEnds(r, l) => nb.state # "Full" /\ nbr'[me].state = "Full"
    <3>1. \A c \in From(r) : c # me => Answered(nbr[c], l) = nbr[c]
      BY <1>6, Unrequested DEF From
    <3>2. LoadingEnds(r, l) => g.state # nb.state
      BY <3>1 DEF LoadingEnds, g
    <3> QED
      BY <1>7, <1>8, <3>2
  <2>3. \A x \in Router : lsTimer'[x] => lsTimer[x] \/ (x = r /\ LoadingEnds(r, l))
    <3> HIDE DEF l
    <3> QED
      BY <1>3, <1>6 DEF IInv, TypeOK
  <2>4. me \in From(r)
    BY <1>1 DEF From
  <2>5. \A x \in Router : lsTimer'[x] =>
          lsTimer[x] \/ \E b \in From(x) : nbr[b].state # "Full" /\ nbr'[b].state = "Full"
    BY <2>2, <2>3, <2>4
  <2>6. \A x \in Router : lsdb'[x][x] = lsdb[x][x]
    <3> HIDE DEF l
    <3> QED
      BY <1>1, <1>6, <1>11 DEF With
  <2>7. \A x \in Router : Own(x)
    BY DEF TInv
  <2> SUFFICES ASSUME NEW x \in Router PROVE Own(x)'
    OBVIOUS
  <2>8. \A b \in From(x) : nbr[b].state = "Full" => nbr'[b].state = "Full"
    BY <2>1 DEF From
  <2> QED
    BY <2>5, <2>6, <2>7, <2>8, OwnGrows
<1>21. Grows
  <2>1. /\ r \in Router /\ l \in LSA /\ lsdb[r][l.adv].seq < l.seq
    BY <1>1, <1>2, <1>10 DEF old
  <2> HIDE DEF l, r
  <2> QED
    BY <1>11, <2>1, GrowsStored
<1> QED
  BY <1>3, <1>17, <1>18, <1>19, <1>20, <1>21 DEF TInv

----------------------------------------------------------------------------
(* The start *)

\* The peer of a router on a tree: of the routers behind a link, the end of
\* the link describes the start only, and that if they are adjacent.
LEMMA PeerBehind ==
  ASSUME Tree, NEW a \in Arc, NEW x \in Behind[a]
  PROVE  /\ x \in Peers(a[2]) <=> x = a[1] /\ a \in Adjacent
         /\ a \in Adjacent => ~(x \in Peers(a[1]))
<1> DEFINE me == Back(a)
<1>1. /\ me \in Arc /\ me[1] = a[2] /\ me[2] = a[1] /\ Back(me) = a
      /\ x # a[2] /\ a = <<a[1], a[2]>> /\ me = <<a[2], a[1]>>
  BY Ends, Sides
<1>2. a \in Adjacent <=> me \in Adjacent
  BY <1>1, TopologyAssumption
<1>3. ASSUME x \in Peers(a[2]) PROVE x = a[1] /\ a \in Adjacent
  <2>1. PICK b \in Adjacent : b[1] = a[2] /\ b[2] = x
    BY <1>3 DEF Peers
  <2>2. b \in Arc /\ b[2] \notin Behind[b]
    BY Sides, TopologyAssumption
  <2>3. b = me
    BY <1>1, <2>1, <2>2, Sides
  <2> QED
    BY <1>1, <1>2, <2>1, <2>3
<1>4. ASSUME x = a[1], a \in Adjacent PROVE x \in Peers(a[2])
  BY <1>1, <1>2, <1>4 DEF Peers
<1>5. ASSUME a \in Adjacent, x \in Peers(a[1]) PROVE FALSE
  <2>1. PICK b \in Adjacent : b[1] = a[1] /\ b[2] = x
    BY <1>5 DEF Peers
  <2>2. b = a
    BY <1>5, <2>1, TopologyAssumption
  <2> QED
    BY <1>1, <2>1, <2>2
<1> QED
  BY <1>3, <1>4, <1>5

\* Two routers that are adjacent at the start.
LEMMA EstablishedTree ==
  ASSUME NEW a
  PROVE  /\ Established(a).state = "Full" /\ Established(a).summary = {}
         /\ NewNeighbor.state = "Down" /\ NewNeighbor.summary = {} /\ ~NewNeighbor.done
BY DEF Established, NewNeighbor

\* The invariant holds at the start.
LEMMA InitTree == Tree /\ Init => TInv
<1> SUFFICES ASSUME Tree, Init PROVE TInv
  OBVIOUS
<1> DEFINE Full(x) == [adv |-> x, seq |-> 2, links |-> Peers(x)]
<1>1. /\ \A a \in Arc : nbr[a] = IF a \in Adjacent THEN Established(a) ELSE NewNeighbor
      /\ \A r, x \in Router :
           lsdb[r][x] = IF Peers(x) # {} /\ (x = r \/ x \in Peers(r)) THEN Full(x) ELSE NoLSA(x)
      /\ \A a \in Arc : updateLSA[a] = {} /\ link[a] = <<>>
      /\ \A r \in Router : lsTimer[r] = (Peers(r) = {})
      /\ ~unhandled
  BY DEF Init
<1>2. /\ \A x : Full(x).adv = x /\ Full(x).seq = 2 /\ Full(x).links = Peers(x)
      /\ \A x : NoLSA(x).adv = x /\ NoLSA(x).seq = 0 /\ NoLSA(x).links = {}
  BY DEF NoLSA
<1> HIDE DEF Full
<1>3. Named
  BY <1>1, <1>2 DEF Named
<1>4. \A r \in Router : Own(r)
  <2> SUFFICES ASSUME NEW r \in Router PROVE Own(r)
    OBVIOUS
  <2>1. Adjacencies(r) = Peers(r)
    <3>1. \A b \in Arc : nbr[b].state = "Full" <=> b \in Adjacent
      BY <1>1, EstablishedTree
    <3> QED
      BY <3>1, TopologyAssumption DEF Adjacencies, Peers, From
  <2>2. lsdb[r][r] = IF Peers(r) # {} THEN Full(r) ELSE NoLSA(r)
    BY <1>1
  <2>3. lsTimer[r] => Peers(r) = {}
    BY <1>1
  <2> QED
    BY <1>2, <2>1, <2>2, <2>3 DEF Own
<1>5. ASSUME NEW a \in Arc PROVE Data(a)
  <2> DEFINE b == Back(a)
             X == Behind[a]
             dn == lsdb[a[2]]
             dr == lsdb[a[1]]
  <2>1. b \in Arc /\ a[1] \in Router /\ a[2] \in Router /\ X \subseteq Router /\ a[2] \notin X
    BY Ends, Sides
  <2>2. /\ nbr[a].summary = {} /\ nbr[b].req = {} /\ link[a] = <<>> /\ link[b] = <<>>
        /\ updateLSA[a] = {} /\ (Sync(a) <=> a \in Adjacent)
    BY <1>1, <2>1, EstablishedTree, EstablishedGood DEF Sync, Synchronizing
  <2>3. /\ LSAs(link[a]) = {} /\ Told(a) = {} /\ Asked(link[b]) = {} /\ InOrder(link[a])
    BY <2>2, NothingCarried DEF Told
  <2>4. ASSUME NEW x \in X
        PROVE  /\ x \in Router
               /\ dn[x] = IF Peers(x) # {} /\ x = a[1] /\ a \in Adjacent THEN Full(x)
                          ELSE NoLSA(x)
               /\ x = a[1] /\ Peers(x) # {} => dr[x] = Full(x)
               /\ dr[x] = Full(x) \/ dr[x] = NoLSA(x)
               /\ a \in Adjacent => dr[x] = dn[x]
    <3>1. x \in Router /\ x # a[2]
      BY <2>1
    <3>2. /\ x \in Peers(a[2]) <=> x = a[1] /\ a \in Adjacent
          /\ a \in Adjacent => ~(x \in Peers(a[1]))
      BY PeerBehind
    <3>3. /\ dn[x] = IF Peers(x) # {} /\ (x = a[2] \/ x \in Peers(a[2])) THEN Full(x)
                     ELSE NoLSA(x)
          /\ dr[x] = IF Peers(x) # {} /\ (x = a[1] \/ x \in Peers(a[1])) THEN Full(x)
                     ELSE NoLSA(x)
      BY <1>1, <2>1, <3>1
    <3> HIDE DEF dn, dr, X
    <3> QED
      BY <3>1, <3>2, <3>3
  <2> HIDE DEF dn, dr, X
  <2>5. \A x \in X : Before(dn[x], dr[x])
    <3> SUFFICES ASSUME NEW x \in X PROVE Before(dn[x], dr[x])
      OBVIOUS
    <3>1. CASE dn[x] = Full(x)
      BY <1>2, <2>4, <3>1 DEF Before
    <3>2. CASE dn[x] = NoLSA(x)
      BY <1>2, <2>4, <3>2 DEF Before
    <3> QED
      BY <2>4, <3>1, <3>2
  <2>6. Flow(X, dn, dr, {}, {})
    BY <2>5 DEF Flow
  <2>7. Asking(X, dn, dr, {} \cup {}, {}, {}, {})
    BY DEF Asking
  <2>8. Sync(a) => Lacking(X, dn, dr, {} \cup {}, {} \cup {})
    BY <2>2, <2>4 DEF Lacking
  <2>9. Core(X, dn, dr, {}, {}, {}, {}, {}, Sync(a))
    BY <2>6, <2>7, <2>8 DEF Core
  <2> QED
    BY <2>2, <2>3, <2>9 DEF Data, X, dn, dr
<1>6. ASSUME NEW a \in Arc PROVE Phase(a)
  <2> DEFINE b == Back(a)
  <2>1. b \in Arc /\ (a \in Adjacent <=> b \in Adjacent)
    BY Ends, TopologyAssumption DEF Back
  <2>2. link[a] = <<>> /\ link[b] = <<>>
    BY <1>1, <2>1
  <2>3. CASE a \in Adjacent
    <3>1. AllDescribed(nbr[a], nbr[b], link[a], link[b])
      BY <1>1, <2>1, <2>2, <2>3, EstablishedTree, NothingCarried
         DEF AllDescribed, Synchronizing
    <3> QED
      BY <3>1 DEF Phase, Turn
  <2>4. CASE a \notin Adjacent
    <3>1. Negotiating(nbr[a], nbr[b], link[a], link[b])
      BY <1>1, <2>1, <2>2, <2>4, EstablishedTree, NothingCarried
         DEF Negotiating, Synchronizing
    <3> QED
      BY <3>1 DEF Phase, Turn
  <2> QED
    BY <2>3, <2>4
<1> QED
  BY <1>1, <1>3, <1>4, <1>5, <1>6 DEF TInv

----------------------------------------------------------------------------
(* The steps and the theorems *)

\* Every step keeps the invariant.
LEMMA StepTree == Tree /\ IInv /\ TreeInv /\ [Next]_vars => TreeInv'
<1> SUFFICES ASSUME Tree, IInv, TreeInv, [Next]_vars, failures' = 0 PROVE TInv'
  BY DEF TreeInv
<1>1. failures \in Nat
  BY DEF IInv, TypeOK
<1>2. ASSUME NEW a \in Arc, Receive(a) \/ HelloTimer(a) \/ DDTimer(a) \/ ExchangeDone(a)
                            \/ RequestTimer(a) \/ FloodTimer(a)
      PROVE  TInv'
  <2>1. failures' = failures
    BY <1>2 DEF Receive, RecvHello, RecvDDNegotiates, RecvDDUnused, RecvDDExchange, RecvLSR,
                RecvLSUDiscarded, RecvLSUInstalled, RecvLSUKnown, HelloTimer, DDTimer,
                ExchangeDone, RequestTimer, FloodTimer
  <2>2. TInv
    BY <2>1 DEF TreeInv
  <2>3. CASE Receive(a)
    BY <2>2, <2>3, TreeHelloReceived, TreeNegotiates, TreeUnused, TreeExchange, TreeRequested,
       NoneDiscarded, TreeInstalled, TreeKnown DEF Receive
  <2> QED
    BY <1>2, <2>2, <2>3, TreeHello, TreeDDTimer, TreeDone, TreeRequest, TreeFlooded
<1>3. ASSUME NEW a \in Arc, InactivityTimer(a)
      PROVE  TInv'
  <2>1. failures' = failures + 1
    BY <1>3 DEF InactivityTimer
  <2> QED
    BY <1>1, <2>1
<1>4. ASSUME NEW a \in Arc, Lose(a)
      PROVE  TInv'
  <2>1. failures' = failures \/ failures' = failures + 1
    BY <1>4 DEF Lose
  <2>2. failures' = failures
    BY <1>1, <2>1
  <2>3. TInv
    BY <2>2 DEF TreeInv
  <2> QED
    BY <1>4, <2>2, <2>3, TreeLost
<1>5. ASSUME NEW r \in Router, ScheduleLSDB(r)
      PROVE  TInv'
  <2>1. failures' = failures
    BY <1>5 DEF ScheduleLSDB
  <2>2. TInv
    BY <2>1 DEF TreeInv
  <2> QED
    BY <1>5, <2>2, TreeOriginated
<1>6. CASE UNCHANGED vars
  <2>1. /\ UNCHANGED <<nbr, lsdb, updateLSA, lsTimer, link, unhandled>> /\ TInv
    BY <1>6 DEF vars, TreeInv
  <2>2. \A a \in Arc : Data(a)'
    <3> SUFFICES ASSUME NEW a \in Arc PROVE Data(a)'
      OBVIOUS
    <3>1. Data(a)
      BY <2>1 DEF TInv
    <3> QED
      BY <2>1, <3>1 DEF Data, Told, Sync
  <2>3. \A a \in Arc : Phase(a)'
    BY <2>1, Standing, PhasesKept DEF TInv
  <2>4. Named' /\ \A x \in Router : Own(x)'
    BY <2>1, OwnKept
  <2> QED
    BY <2>1, <2>2, <2>3, <2>4 DEF TInv
<1> QED
  BY <1>2, <1>3, <1>4, <1>5, <1>6 DEF Next

\* On a tree the invariant holds in every reachable state until a neighbour
\* falls silent.
THEOREM TreeInvariant ==
  ASSUME Tree PROVE Spec => []TreeInv
<1>1. Init => TreeInv
  BY InitTree DEF TreeInv
<1>2. IInv /\ TreeInv /\ [Next]_vars => TreeInv'
  BY StepTree
<1> QED
  BY Invariant, <1>1, <1>2, PTL DEF Spec

\* On a tree no event is without a handler until a neighbour falls silent:
\* no SeqNumberMismatch and no BadLSReq (ospf_process_dd_in_exchange_state,
\* ospf_lsreq_handle, ospf_lsu_handle).
THEOREM EveryEventHandled ==
  ASSUME Tree PROVE Spec => []AllHandled
<1>1. TreeInv => AllHandled
  BY DEF TreeInv, TInv, AllHandled
<1> QED
  BY TreeInvariant, <1>1, PTL

\* Two Full neighbours with nothing under way have described everything.
LEMMA Level ==
  ASSUME IInv, TInv, Tree, NEW a \in Arc, Quiet(a), Quiet(Back(a))
  PROVE  \A x \in Behind[a] : lsdb[a[1]][x] = lsdb[a[2]][x]
<1> DEFINE b == Back(a)
<1>1. /\ b \in Arc /\ nbr[a].state = "Full" /\ nbr[b].state = "Full" /\ Good(b, nbr[b])
      /\ link[a] \in Seq(Packet) /\ updateLSA[a] = {}
      /\ \A i \in 1..Len(link[a]) : link[a][i].type # "lsu"
  BY Ends, OneArc DEF Quiet
<1>2. nbr[a].summary = {} /\ NoDD(link[a])
  <2>1. CASE a[1] > a[2]
    <3>1. Turn(nbr[a], nbr[b], link[a], link[b])
      BY <2>1, BothPhases DEF TInv
    <3> QED
      BY <1>1, <3>1 DEF Turn, Negotiating, SlaveFound, MasterSends, SlaveSends, AllDescribed,
                        Synchronizing
  <2>2. CASE ~(a[1] > a[2])
    <3>1. Turn(nbr[b], nbr[a], link[b], link[a])
      BY <1>1, <2>2, BothPhases DEF TInv
    <3> QED
      BY <1>1, <3>1 DEF Turn, Negotiating, SlaveFound, MasterSends, SlaveSends, AllDescribed,
                        Synchronizing
  <2> QED
    BY <2>1, <2>2
<1>3. Told(a) = {}
  BY <1>2, NoDDHeaders DEF Told
<1>4. LSAs(link[a]) = {}
  <2>1. DOMAIN link[a] = 1..Len(link[a])
    BY <1>1
  <2> QED
    BY <1>1, <2>1 DEF LSAs
<1>5. nbr[b].req = {}
  BY <1>1 DEF Good
<1>6. Sync(a)
  BY <1>1 DEF Sync, Synchronizing
<1>7. Lacking(Behind[a], lsdb[a[2]], lsdb[a[1]], {}, {})
  <2>1. Core(Behind[a], lsdb[a[2]], lsdb[a[1]], LSAs(link[a]), updateLSA[a], Told(a),
             nbr[b].req, Asked(link[b]), Sync(a))
    BY OneSide
  <2>2. Lacking(Behind[a], lsdb[a[2]], lsdb[a[1]], LSAs(link[a]) \cup updateLSA[a],
                Told(a) \cup nbr[b].req)
    BY <1>6, <2>1 DEF Core
  <2>3. LSAs(link[a]) \cup updateLSA[a] = {} /\ Told(a) \cup nbr[b].req = {}
    BY <1>1, <1>3, <1>4, <1>5
  <2> QED
    BY <2>2, <2>3
<1> QED
  BY <1>7 DEF Lacking

\* On a tree two Full neighbours with no LSA and no request under way have
\* the same database, until a neighbour falls silent
\* (ospf_neighbor_handle_exchangeDone_event, ospf_lsa_flood).
THEOREM NeighborsAgree ==
  ASSUME Tree PROVE Spec => []Agreement
<1>1. IInv /\ TreeInv => Agreement
  <2> SUFFICES ASSUME IInv, TreeInv, failures = 0,
                      NEW a \in Arc, Quiet(a), Quiet(Back(a)), NEW x \in Router
               PROVE  lsdb[a[1]][x] = lsdb[a[2]][x]
    BY DEF Agreement
  <2>1. TInv
    BY DEF TreeInv
  <2>2. /\ Back(a) \in Arc /\ Back(Back(a)) = a /\ Back(a)[1] = a[2] /\ Back(a)[2] = a[1]
    BY Ends
  <2>3. \A y \in Behind[a] : lsdb[a[1]][y] = lsdb[a[2]][y]
    BY <2>1, Level
  <2>4. \A y \in Behind[Back(a)] : lsdb[a[2]][y] = lsdb[a[1]][y]
    BY <2>1, <2>2, Level
  <2>5. Behind[Back(a)] = Router \ Behind[a]
    BY Sides
  <2> QED
    BY <2>3, <2>4, <2>5
<1> QED
  BY TreeInvariant, Invariant, <1>1, PTL

\* A step before any failure stores newer instances only.
LEMMA StepGrows == Tree /\ IInv /\ TreeInv /\ [Next]_vars /\ failures' = 0 => Grows
<1> SUFFICES ASSUME Tree, IInv, TreeInv, [Next]_vars, failures' = 0 PROVE Grows
  OBVIOUS
<1>1. lsdb' = lsdb => Grows
  <2>1. \A r, x \in Router : lsdb[r][x].seq \in Nat
    BY DEF IInv, TypeOK, LSA
  <2> QED
    BY <2>1 DEF Grows
<1>2. ASSUME NEW a \in Arc, RecvLSUInstalled(a) PROVE Grows
  <2>1. TInv
    BY <1>2 DEF TreeInv, RecvLSUInstalled
  <2> QED
    BY <1>2, <2>1, TreeInstalled
<1>3. ASSUME NEW a \in Arc, (Receive(a) /\ ~RecvLSUInstalled(a)) \/ HelloTimer(a)
                            \/ DDTimer(a) \/ ExchangeDone(a) \/ RequestTimer(a)
                            \/ FloodTimer(a) \/ InactivityTimer(a) \/ Lose(a)
      PROVE  lsdb' = lsdb
  BY <1>3 DEF Receive, RecvHello, RecvDDNegotiates, RecvDDUnused, RecvDDExchange, RecvLSR,
              RecvLSUDiscarded, RecvLSUKnown, HelloTimer, DDTimer, ExchangeDone, RequestTimer,
              FloodTimer, InactivityTimer, Lose
<1>4. ASSUME NEW r \in Router, ScheduleLSDB(r) PROVE Grows
  <2>1. TInv
    BY <1>4 DEF TreeInv, ScheduleLSDB
  <2> QED
    BY <1>4, <2>1, TreeOriginated
<1>5. UNCHANGED vars => lsdb' = lsdb
  BY DEF vars
<1> QED
  BY <1>1, <1>2, <1>3, <1>4, <1>5 DEF Next

\* On a tree no step before a neighbour falls silent puts an older instance
\* in a database.
THEOREM NewerUntilFailure ==
  ASSUME Tree PROVE Spec => [][failures' = 0 => Grows]_vars
<1>1. IInv /\ TreeInv /\ [Next]_vars => [failures' = 0 => Grows]_vars
  BY StepGrows
<1> QED
  BY TreeInvariant, Invariant, <1>1, PTL DEF Spec

\* On a tree where no neighbour falls silent and no DD that is not sent
\* again is lost, databases never go back to an older instance: although
\* ospf_lsu_handle takes every instance that differs from the one stored.
THEOREM DatabasesNeverOlder ==
  ASSUME Tree, Faulty = {} PROVE Spec => NeverOlder
<1> DEFINE NoFailure == failures = 0
<1>1. Init => NoFailure
  BY DEF Init
<1>2. NoFailure /\ [Next]_vars => NoFailure'
  <2> SUFFICES ASSUME failures = 0, [Next]_vars PROVE failures' = failures
    OBVIOUS
  <2>1. ASSUME NEW a \in Arc, Receive(a) \/ HelloTimer(a) \/ DDTimer(a) \/ ExchangeDone(a)
                              \/ RequestTimer(a) \/ FloodTimer(a)
        PROVE  failures' = failures
    BY <2>1 DEF Receive, RecvHello, RecvDDNegotiates, RecvDDUnused, RecvDDExchange, RecvLSR,
                RecvLSUDiscarded, RecvLSUInstalled, RecvLSUKnown, HelloTimer, DDTimer,
                ExchangeDone, RequestTimer, FloodTimer
  <2>2. ASSUME NEW a \in Arc PROVE ~InactivityTimer(a)
    BY DEF InactivityTimer
  <2>3. ASSUME NEW a \in Arc, Lose(a) PROVE failures' = failures
    BY <2>3 DEF Lose
  <2>4. ASSUME NEW r \in Router, ScheduleLSDB(r) PROVE failures' = failures
    BY <2>4 DEF ScheduleLSDB
  <2>5. UNCHANGED vars => failures' = failures
    BY DEF vars
  <2> QED
    BY <2>1, <2>2, <2>3, <2>4, <2>5 DEF Next
<1>3. NoFailure /\ IInv /\ TreeInv /\ [Next]_vars
        => [\A r, x \in Router : lsdb'[r][x].seq >= lsdb[r][x].seq]_vars
  BY <1>2, StepGrows DEF Grows
<1> HIDE DEF NoFailure
<1> QED
  BY TreeInvariant, Invariant, <1>1, <1>2, <1>3, PTL DEF Spec, NeverOlder

=============================================================================
