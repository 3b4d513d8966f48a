------------------------------- MODULE Votes -------------------------------
(***************************************************************************)
(* The vote counting of one node (core/core.go: handleEcho, handleElect;   *)
(* core/aggregator.go: Aggregator, Elector), with the rest of the node cut *)
(* down to what the counters trigger: handleEcho proposes the next block   *)
(* of the node's own chain, handleElect sends the DAG one commitReq for    *)
(* the round.                                                              *)
(*                                                                         *)
(* An echo may be handled any number of times: handleReplyBlock and        *)
(* handleLoopBack of the echoing node run handlePropose again for a block  *)
(* it has already echoed.  An elect is sent once per node and round.       *)
(***************************************************************************)
EXTENDS Aggregator, FiniteSets

CONSTANTS MaxHeight,     \* bound: highest own block whose echoes are counted
          MaxRound       \* bound: highest round whose elects are counted

ASSUME BoundsAssumption == MaxHeight \in Nat /\ MaxRound \in Nat

VARIABLES
  voteAg,      \* Core.voteAg: height -> Aggregator
  electAg,     \* Elector.ag: round -> Aggregator
  proposals,   \* how often propose(h, ...) ran, for each height h
  reveals,     \* how often a commitReq was sent for each round
  heard        \* <<author, round>> of the elects handled so far

vars == <<voteAg, electAg, proposals, reveals, heard>>

Height == 0 .. MaxHeight
Round  == {r \in 0 .. MaxRound : r % 2 = 0}

\* Run proposes block 0 before the first message is handled.
Init ==
  /\ voteAg = [h \in Height |-> NewAggregator]
  /\ electAg = [r \in Round |-> NewAggregator]
  /\ proposals = [h \in 0 .. MaxHeight + 1 |-> IF h = 0 THEN 1 ELSE 0]
  /\ reveals = [r \in Round |-> 0]
  /\ heard = {}

\* An echo of the own block at height h by node a; the block was proposed.
HandleEcho(a, h) ==
  /\ proposals[h] > 0
  /\ LET ag == Push(voteAg[h], a)
     IN  /\ voteAg' = [voteAg EXCEPT ![h] = Take(ag)]
         /\ proposals' = [proposals EXCEPT ![h + 1] =
                            IF Enough(ag) THEN @ + 1 ELSE @]
  /\ UNCHANGED <<electAg, reveals, heard>>

\* mutant: RemoveBy after every elect that reveals nothing
HandleElectForgetful(a, r) ==
  /\ <<a, r>> \notin heard
  /\ heard' = heard \cup {<<a, r>>}
  /\ LET ag == Push(electAg[r], a)
     IN  /\ reveals' = [reveals EXCEPT ![r] = IF Enough(ag) THEN @ + 1 ELSE @]
         /\ electAg' = [electAg EXCEPT ![r] = NewAggregator]
  /\ UNCHANGED <<voteAg, proposals>>

\* mutant: the round's counter is not deleted
HandleElectKeeping(a, r) ==
  /\ <<a, r>> \notin heard
  /\ heard' = heard \cup {<<a, r>>}
  /\ LET ag == Push(electAg[r], a)
     IN  /\ reveals' = [reveals EXCEPT ![r] = IF Enough(ag) THEN @ + 1 ELSE @]
         /\ electAg' = [electAg EXCEPT ![r] = ag]
  /\ UNCHANGED <<voteAg, proposals>>

\* Elector.Add, TryGetLeader and RemoveBy: when the counter is full the leader
\* is revealed, the commitReq sent and the round's counter deleted, all in one
\* call, so that Elector.leader is empty between two calls.
HandleElect(a, r) ==
  /\ <<a, r>> \notin heard
  /\ heard' = heard \cup {<<a, r>>}
  /\ LET ag == Push(electAg[r], a)
     IN  IF Enough(ag)
           THEN /\ reveals' = [reveals EXCEPT ![r] = @ + 1]
                /\ electAg' = [electAg EXCEPT ![r] = NewAggregator]
           ELSE /\ electAg' = [electAg EXCEPT ![r] = ag]
                /\ UNCHANGED reveals
  /\ UNCHANGED <<voteAg, proposals>>

Next ==
  \/ \E a \in Node, h \in Height : HandleEcho(a, h)
  \/ \E a \in Node, r \in Round : HandleElect(a, r)

Spec == Init /\ [][Next]_vars

-----------------------------------------------------------------------------
(* Properties                                                              *)

TypeOK ==
  /\ voteAg \in [Height -> Aggregators]
  /\ electAg \in [Round -> Aggregators]
  /\ proposals \in [0 .. MaxHeight + 1 -> Nat]
  /\ reveals \in [Round -> Nat]
  /\ heard \subseteq Node \X Round

\* "Only take once." (Take, core/aggregator.go): however many echoes a height
\* collects, late and repeated ones included, handleEcho proposes the next
\* height at most once, so a node never sends two blocks for one slot.
ProposedOnce == \A h \in 0 .. MaxHeight + 1 : proposals[h] <= 1

\* The same of the Elector: a round sends the DAG at most one commitReq, the
\* elects that come after RemoveBy has deleted the counter included.
RevealedOnce == \A r \in Round : reveals[r] <= 1

Quorums == {S \in SUBSET Node : Cardinality(S) >= HightThreshold}

EchoGate ==
  INSTANCE Gate WITH Key <- Height, Voter <- Node,
                     voted <- [h \in Height |-> voteAg[h].Used],
                     fired <- [h \in Height |-> proposals[h + 1]]

\* handleEcho implements the gate for every height: the next block is proposed
\* at the moment the HightThreshold-th distinct echo is handled, not earlier,
\* not later and not again.
EchoIsGate == EchoGate!Spec

ElectGate ==
  INSTANCE Gate WITH Key <- Round, Voter <- Node,
                     voted <- [r \in Round |-> {a \in Node : <<a, r>> \in heard}],
                     fired <- reveals

\* handleElect implements the gate for every even round, although its counter
\* is thrown away when the leader is revealed and starts again from zero.
ElectIsGate == ElectGate!Spec
=============================================================================
