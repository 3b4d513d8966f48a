--------------------------- MODULE StartupProofs ---------------------------
(***************************************************************************)
(* A proof about Startup for any committee and any faults: a core that     *)
(* runs has peers that listen.                                             *)
(***************************************************************************)
EXTENDS Startup, TLAPS

\* A node has found online only nodes that listen, and nodes do not stop
\* listening; a core that runs has found all the others.
UInv ==
  /\ TypeOK
  /\ \A n \in Node : probed[n] \subseteq listening
  /\ \A n \in Running : probed[n] = Node \ {n}

\* No node has been launched.
LEMMA UInit == Init => UInv
  BY DEF Init, UInv, TypeOK, Running

\* Every step of every node keeps the invariant.
LEMMA UStep == UInv /\ [Next]_vars => UInv'
<1> SUFFICES ASSUME UInv, [Next]_vars PROVE UInv'
  OBVIOUS
<1> USE DEF UInv, TypeOK, Running
<1>1. ASSUME NEW n \in Node, NewNode(n) PROVE UInv'
  BY <1>1 DEF NewNode
<1>2. ASSUME NEW n \in Node, Listen(n) PROVE UInv'
  BY <1>2 DEF Listen
<1>3. ASSUME NEW n \in Node, NEW p \in Node \ {n}, Probe(n, p) PROVE UInv'
  BY <1>3 DEF Probe
<1>4. ASSUME NEW n \in Node, Start(n) PROVE UInv'
  BY <1>4 DEF Start
<1>5. CASE UNCHANGED vars
  BY <1>5 DEF vars
<1> QED
  BY <1>1, <1>2, <1>3, <1>4, <1>5 DEF Next, NodeStep

\* "Waiting for all nodes to be online" (Consensus): when the core of a node runs,
\* every peer accepts its connections, whatever node starts when and whichever
\* of them cannot.
THEOREM StartupOnline == Spec => []OnlineBeforeStart
<1>1. UInv => OnlineBeforeStart
  BY DEF UInv, TypeOK, Running, OnlineBeforeStart
<1> QED
  BY <1>1, UInit, UStep, PTL DEF Spec
=============================================================================
