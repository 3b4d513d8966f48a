------------------------------- MODULE MCLoom -------------------------------
(***************************************************************************)
(* Loom for TLC.  An execution in which a node commits twice takes several *)
(* hundred steps, so the runs explore the steps of Loom under a schedule:  *)
(*                                                                         *)
(*   - cores handle what they received at once;                            *)
(*   - prompt commitors work next;                                         *)
(*   - links deliver after that, lowest block height first, a link with a  *)
(*     lag as if its messages were that much higher;                       *)
(*   - slow commitors and timers take a step whenever the cores are idle.  *)
(*                                                                         *)
(* Every behaviour of the schedule is a behaviour of Loom.                 *)
(***************************************************************************)
EXTENDS Loom

CONSTANTS
  Lag,            \* Lag[<<p, q>>]: how many heights the link is behind
  SlowCommitor,   \* nodes
  Leader          \* Leader[r]: leaders the coin may pick in round r

Busy(p) ==
  /\ p \in Active
  /\ halt[p] = "no"
  /\ proposed[p] = <<>> \/ out[p] # <<>> \/ recvCh[p] # <<>>

CommitorBusy(p) ==
  /\ halt[p] = "no"
  /\ \/ com[p].pc = "idle" /\ submitCh[p] # <<>>
     \/ com[p].pc \in {"pull", "visit", "gc"}

UrgentCore == {p \in Node : Busy(p)}

UrgentCommitor == {p \in Node \ SlowCommitor : CommitorBusy(p)}

FullLink == {pq \in Node \X Node : link[pq[1]][pq[2]] # <<>>}

\* An elect goes with the block behind it; echoes follow the blocks of a height.
Rank(pq) ==
  LET m == Head(link[pq[1]][pq[2]])
      h == CASE m.type = "propose" -> 2 * m.block.header.slot.height
             [] m.type = "echo"    -> 2 * m.header.slot.height + 1
             [] m.type = "elect"   -> 0
  IN  ((h + 2 * Lag[pq]) * N + pq[2]) * N + pq[1]

Least(S) == CHOOSE x \in S : \A y \in S : x <= y

PromptStep ==
  IF UrgentCore # {} THEN CoreStep(Least(UrgentCore))
  ELSE IF UrgentCommitor # {} THEN CommitorStep(Least(UrgentCommitor))
  ELSE \E pq \in FullLink :
         /\ \A other \in FullLink : Rank(pq) <= Rank(other)
         /\ Receive(pq[1], pq[2])

SlowStep ==
  /\ UrgentCore = {}
  /\ \/ \E p \in SlowCommitor : CommitorStep(p)
     \/ \E p \in Node : \E m \in delayed[p] : Expire(p, m)

\* The coin falls where the run wants it.
CoinOK == \A r \in Round : coin'[r] \in Leader[r] \cup {NONE}

\* Something can be done: a core, a commitor, a timer or a delivery.
CanMove ==
  \E p \in Node :
    \/ Busy(p)
    \/ CommitorBusy(p)
    \/ delayed[p] # {}
    \/ \E q \in Node : link[p][q] # <<>>

\* The bounds are used up.
Done == ~CanMove /\ UNCHANGED vars

MCNext == ((PromptStep \/ SlowStep) /\ CoinOK) \/ Done

MCSpec == Init /\ [][MCNext]_vars

\* Goroutines are scheduled and connections deliver as long as there is anything
\* to do: weak fairness of the steps other than Done, one of which is possible
\* whenever CanMove holds (or TLC would report a deadlock).  The bounds make
\* every execution finite, so this implies fairness of each core, commitor and
\* link.
FairSpec == MCSpec /\ ([]<>~CanMove \/ []<><<TRUE>>_vars)

\* With the tolerated number of silent nodes, every other node extends its chain
\* up to the bound: handleEcho waits for exactly as many echoes as can come.
ChainsGrow == \A p \in Active : <>(Len(proposed[p]) = Last[p] + 1)

\* A commit in progress ends: every block it waits for arrives and wakes it, or
\* the process is gone.
CommitsEnd ==
  \A p \in Node : (com[p].pc # "idle") ~> (com[p].pc = "idle" \/ halt[p] # "no")

-----------------------------------------------------------------------------
(* Values of the constants                                                 *)

AllReachMax == [p \in Node |-> MaxHeight]

From2To0 == {<<2, 0>>}

NoLag     == [pq \in Node \X Node |-> 0]
Late3To0  == [NoLag EXCEPT ![<<3, 0>>] = 2]
Late2To0  == [NoLag EXCEPT ![<<2, 0>>] = 5]
Last3To0  == [NoLag EXCEPT ![<<3, 0>>] = 100]
LateFrom0 == [NoLag EXCEPT ![<<0, 1>>] = 1, ![<<0, 2>>] = 1]

AnyLeader  == [r \in Round |-> Node]
\* round 0: node 0, 2 or 3; later: node 2 or 3
Leader023  == [r \in Round |-> IF r = 0 THEN {0, 2, 3} ELSE {2, 3}]
Leader13   == [r \in Round |-> {1, 3}]
\* round 0: node 1; later: node 1 or node 3
Leader1Or3 == [r \in Round |-> IF r = 0 THEN {1} ELSE {1, 3}]
=============================================================================
