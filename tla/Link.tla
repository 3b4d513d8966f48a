-------------------------------- MODULE Link --------------------------------
(***************************************************************************)
(* What the network promises a sender: what a peer gets is what was sent   *)
(* to it, in the order in which it was sent and once, except that a peer   *)
(* of Lossy may miss any of it.                                            *)
(***************************************************************************)
EXTENDS Naturals, Sequences

CONSTANTS Peer, Lossy

VARIABLES sent,       \* number of messages sent; the k-th one is k
          transit,    \* transit[q]: messages on their way to q
          got         \* got[q]: what the core of q has taken

vars == <<sent, transit, got>>

Init ==
  /\ sent = 0
  /\ transit = [q \in Peer |-> <<>>]
  /\ got = [q \in Peer |-> <<>>]

Accept ==
  /\ sent' = sent + 1
  /\ \E to \in SUBSET Peer :
       transit' = [q \in Peer |-> IF q \in to THEN Append(transit[q], sent') ELSE transit[q]]
  /\ UNCHANGED got

Deliver(q) ==
  /\ transit[q] # <<>>
  /\ transit' = [transit EXCEPT ![q] = Tail(@)]
  /\ got' = [got EXCEPT ![q] = Append(@, Head(transit[q]))]
  /\ UNCHANGED sent

Lose(q) ==
  /\ q \in Lossy
  /\ \E lost \in SUBSET (1 .. sent) :
       transit' = [transit EXCEPT ![q] = SelectSeq(@, LAMBDA m : m \notin lost)]
  /\ UNCHANGED <<sent, got>>

Next == Accept \/ \E q \in Peer : Deliver(q) \/ Lose(q)

Spec == Init /\ [][Next]_vars
=============================================================================
