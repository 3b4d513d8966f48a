---------------------------- MODULE VotesProofs ----------------------------
(***************************************************************************)
(* Proofs about Votes for every committee size and every bound: the type   *)
(* invariant, "only take once" and the refinement of Gate.  The last two   *)
(* need N < 2 * HightThreshold: the votes left over after Take are too few *)
(* to fill the counter again.  That holds of every N = 3f + 1 and fails    *)
(* for N = 2, 3 and 6.                                                     *)
(***************************************************************************)
EXTENDS Votes, FiniteSetTheorems, TLAPS

\* HightThreshold (core/config.go) is a positive number.
LEMMA ThresholdType == HightThreshold \in Nat /\ HightThreshold >= 1
  BY NAssumption DEF HightThreshold

\* Committees of the size the protocol is designed for satisfy the hypothesis
\* of the theorems below (HightThreshold, core/config.go).
LEMMA DesignedSize ==
  ASSUME NEW f \in Nat, N = 3 * f + 1
  PROVE  N < 2 * HightThreshold /\ HightThreshold = 2 * f + 1
  BY DEF HightThreshold

\* A committee is finite and has N members.
LEMMA NodeFinite == IsFiniteSet(Node) /\ Cardinality(Node) = N
<1>1. 0 \in Int /\ N - 1 \in Int
  BY NAssumption
<1>2. IsFiniteSet(0 .. N - 1) /\ Cardinality(0 .. N - 1) =
        IF 0 > N - 1 THEN 0 ELSE (N - 1) - 0 + 1
  BY <1>1, FS_Interval
<1> QED
  BY <1>2, NAssumption DEF Node

\* What the proofs need to know about counting nodes.
LEMMA Counting ==
  ASSUME NEW S \in SUBSET Node
  PROVE  /\ IsFiniteSet(S)
         /\ Cardinality(S) \in Nat
         /\ Cardinality(S) <= N
         /\ \A a \in Node : a \notin S => Cardinality(S \cup {a}) = Cardinality(S) + 1
         /\ \A a \in S : S \cup {a} = S
<1>1. IsFiniteSet(S) /\ Cardinality(S) <= Cardinality(Node)
  BY NodeFinite, FS_Subset
<1>2. \A a \in Node : a \notin S => Cardinality(S \cup {a}) = Cardinality(S) + 1
  BY <1>1, FS_AddElement
<1> QED
  BY <1>1, <1>2, NodeFinite, FS_CardinalityType

-----------------------------------------------------------------------------
\* Empty counters have the right types.
LEMMA TypeInit == Init => TypeOK
  BY BoundsAssumption DEF Init, TypeOK, Aggregators, NewAggregator, Height, Round

\* handleEcho and handleElect keep the types of the counters.
LEMMA TypeStep == TypeOK /\ [Next]_vars => TypeOK'
<1> SUFFICES ASSUME TypeOK, [Next]_vars PROVE TypeOK'
  OBVIOUS
<1> USE BoundsAssumption, ThresholdType DEF TypeOK
<1>1. ASSUME NEW a \in Node, NEW h \in Height, HandleEcho(a, h) PROVE TypeOK'
  <2> DEFINE ag == Push(voteAg[h], a)
  <2>1. ag \in Aggregators
    BY DEF Push, Aggregators
  <2> HIDE DEF ag
  <2>2. Take(ag) \in Aggregators
    <3>1. CASE Enough(ag)
      <4>1. ag.Item - HightThreshold \in Nat
        BY <2>1, <3>1 DEF Enough, Aggregators
      <4> QED
        BY <2>1, <3>1, <4>1 DEF Take, Aggregators
    <3>2. CASE ~Enough(ag)
      BY <2>1, <3>2 DEF Take
    <3> QED
      BY <3>1, <3>2
  <2>3. voteAg' = [voteAg EXCEPT ![h] = Take(ag)]
    BY <1>1 DEF HandleEcho, ag
  <2>4. voteAg' \in [Height -> Aggregators]
    BY <2>2, <2>3
  <2>5. proposals' \in [0 .. MaxHeight + 1 -> Nat]
    <3>1. \E k \in Nat : proposals' = [proposals EXCEPT ![h + 1] = k]
      <4>1. h + 1 \in 0 .. MaxHeight + 1
        BY DEF Height
      <4>2. proposals[h + 1] \in Nat /\ proposals[h + 1] + 1 \in Nat
        BY <4>1
      <4>3. proposals' = [proposals EXCEPT ![h + 1] = IF Enough(ag) THEN proposals[h + 1] + 1
                                                      ELSE proposals[h + 1]]
        BY <1>1 DEF HandleEcho, ag
      <4> QED
        BY <4>2, <4>3
    <3> QED
      BY <3>1
  <2> QED
    BY <1>1, <2>4, <2>5 DEF HandleEcho
<1>2. ASSUME NEW a \in Node, NEW r \in Round, HandleElect(a, r) PROVE TypeOK'
  <2>1. Push(electAg[r], a) \in Aggregators /\ NewAggregator \in Aggregators
    BY DEF Push, NewAggregator, Aggregators
  <2>2. electAg' \in [Round -> Aggregators] /\ reveals' \in [Round -> Nat]
    <3>1. CASE Enough(Push(electAg[r], a))
      <4>1. /\ electAg' = [electAg EXCEPT ![r] = NewAggregator]
            /\ reveals' = [reveals EXCEPT ![r] = @ + 1]
        BY <1>2, <3>1 DEF HandleElect
      <4> QED
        BY <2>1, <4>1
    <3>2. CASE ~Enough(Push(electAg[r], a))
      BY <1>2, <2>1, <3>2 DEF HandleElect
    <3> QED
      BY <3>1, <3>2
  <2>3. heard' \subseteq Node \X Round
    BY <1>2 DEF HandleElect
  <2> QED
    BY <1>2, <2>2, <2>3 DEF HandleElect
<1>3. CASE UNCHANGED vars
  BY <1>3 DEF vars
<1> QED
  BY <1>1, <1>2, <1>3 DEF Next

\* The type invariant of the vote counters holds in every reachable state.
THEOREM TypeCorrect == Spec => []TypeOK
  BY TypeInit, TypeStep, PTL DEF Spec

-----------------------------------------------------------------------------
(* Only once.  ProposedOnce is not inductive: it has to be known how many  *)
(* votes a counter still holds, given the voters it has heard.             *)

\* Votes left in a counter that heard n voters, and how often it fired.
Left(n)  == IF n < HightThreshold THEN n ELSE n - HightThreshold
Fired(n) == IF n < HightThreshold THEN 0 ELSE 1

HeardIn(r) == {a \in Node : <<a, r>> \in heard}

EchoInv ==
  \A h \in Height :
    /\ voteAg[h].Item = Left(Cardinality(voteAg[h].Used))
    /\ proposals[h + 1] = Fired(Cardinality(voteAg[h].Used))

ElectInv ==
  \A r \in Round :
    /\ electAg[r].Used \subseteq HeardIn(r)
    /\ electAg[r].Item = Left(Cardinality(HeardIn(r)))
    /\ reveals[r] = Fired(Cardinality(HeardIn(r)))

Inv == TypeOK /\ proposals[0] = 1 /\ EchoInv /\ ElectInv

\* The arithmetic of Take: with fewer than two thresholds of voters, one more
\* voter fills the counter exactly when it is the HightThreshold-th.
LEMMA OneMore ==
  ASSUME NEW n \in Nat, n + 1 <= N, N < 2 * HightThreshold
  PROVE  /\ Left(n) + 1 >= HightThreshold <=> n + 1 = HightThreshold
         /\ n + 1 = HightThreshold => /\ Left(n) + 1 = HightThreshold
                                      /\ Left(n + 1) = 0
                                      /\ Fired(n) = 0
                                      /\ Fired(n + 1) = 1
         /\ n + 1 # HightThreshold => /\ Left(n + 1) = Left(n) + 1
                                      /\ Fired(n + 1) = Fired(n)
  BY ThresholdType, NAssumption DEF Left, Fired

\* Between two votes a counter never holds a full quorum.
LEMMA NotFull ==
  ASSUME NEW n \in Nat, n <= N, N < 2 * HightThreshold
  PROVE  ~(Left(n) >= HightThreshold)
  BY ThresholdType, NAssumption DEF Left

\* Take empties a counter that holds exactly the threshold.
LEMMA TakeFull ==
  ASSUME NEW u
  PROVE  LET ag == [Item |-> HightThreshold, Used |-> u]
         IN  Take(ag) = [Item |-> 0, Used |-> u]
<1> DEFINE ag == [Item |-> HightThreshold, Used |-> u]
<1>1. ag.Item - HightThreshold = 0 /\ Enough(ag)
  BY ThresholdType DEF Enough
<1>2. [ag EXCEPT !.Item = 0] = [Item |-> 0, Used |-> u]
  OBVIOUS
<1> QED
  BY <1>1, <1>2 DEF Take

\* What handleEcho does to the counter of one height, in terms of the voters.
LEMMA EchoEffect ==
  ASSUME N < 2 * HightThreshold, Inv,
         NEW a \in Node, NEW h \in Height, HandleEcho(a, h)
  PROVE  LET U == voteAg[h].Used \cup {a}
         IN  /\ voteAg' = [voteAg EXCEPT ![h] =
                             [Item |-> Left(Cardinality(U)), Used |-> U]]
             /\ proposals' = [proposals EXCEPT ![h + 1] = Fired(Cardinality(U))]
<1> DEFINE U == voteAg[h].Used
           n == Cardinality(U)
<1>1. U \in SUBSET Node /\ voteAg[h] \in Aggregators
  BY DEF Inv, TypeOK, Aggregators
<1>2. /\ n \in Nat
      /\ n <= N
      /\ a \notin U => Cardinality(U \cup {a}) = n + 1
      /\ a \in U => U \cup {a} = U
  BY <1>1, Counting
<1>3. voteAg[h].Item = Left(n) /\ proposals[h + 1] = Fired(n)
  BY DEF Inv, EchoInv
<1>4. voteAg[h] = [Item |-> Left(n), Used |-> U]
  BY <1>1, <1>3 DEF Aggregators
<1>5. h + 1 \in 0 .. MaxHeight + 1
  BY BoundsAssumption DEF Height
<1> DEFINE ag == Push(voteAg[h], a)
<1>6. /\ voteAg' = [voteAg EXCEPT ![h] = Take(ag)]
      /\ proposals' = [proposals EXCEPT ![h + 1] = IF Enough(ag) THEN @ + 1 ELSE @]
  BY DEF HandleEcho
<1>7. /\ Take(ag) = [Item |-> Left(Cardinality(U \cup {a})), Used |-> U \cup {a}]
      /\ (IF Enough(ag) THEN proposals[h + 1] + 1 ELSE proposals[h + 1])
           = Fired(Cardinality(U \cup {a}))
  <2> HIDE DEF n, U
  <2>1. CASE a \in U
    <3>1. ag = voteAg[h]
      BY <2>1 DEF Push, U
    <3>2. ~Enough(ag)
      BY <1>2, <1>3, <3>1, NotFull DEF Enough
    <3> QED
      BY <1>2, <1>3, <1>4, <2>1, <3>1, <3>2 DEF Take, n
  <2>2. CASE a \notin U
    <3>1. ag = [Item |-> Left(n) + 1, Used |-> U \cup {a}]
      BY <1>3, <2>2 DEF Push, U
    <3>2. Cardinality(U \cup {a}) = n + 1 /\ n + 1 <= N
      <4>1. Cardinality(U \cup {a}) <= N
        BY <1>1, Counting
      <4> QED
        BY <1>2, <2>2, <4>1
    <3>3. Enough(ag) <=> n + 1 = HightThreshold
      BY <1>2, <3>1, <3>2, OneMore DEF Enough
    <3>4. CASE n + 1 = HightThreshold
      <4>1. /\ Left(n) + 1 = HightThreshold /\ Left(n + 1) = 0
            /\ Fired(n) = 0 /\ Fired(n + 1) = 1
        BY <1>2, <3>2, <3>4, OneMore
      <4>2. Take(ag) = [Item |-> 0, Used |-> U \cup {a}]
        BY <3>1, <4>1, TakeFull
      <4>3. Enough(ag)
        BY <3>3, <3>4
      <4> HIDE DEF ag
      <4> QED
        BY <1>3, <3>2, <4>1, <4>2, <4>3
    <3>5. CASE n + 1 # HightThreshold
      <4>1. Left(n + 1) = Left(n) + 1 /\ Fired(n + 1) = Fired(n)
        BY <1>2, <3>2, <3>5, OneMore
      <4> QED
        BY <1>3, <3>1, <3>2, <3>3, <3>5, <4>1 DEF Take
    <3> QED
      BY <3>4, <3>5
  <2> QED
    BY <2>1, <2>2
<1> QED
  BY <1>5, <1>6, <1>7 DEF Inv, TypeOK

\* What handleElect does to a round, in terms of the elects heard so far.
LEMMA ElectEffect ==
  ASSUME N < 2 * HightThreshold, Inv,
         NEW a \in Node, NEW r \in Round, HandleElect(a, r)
  PROVE  LET S == HeardIn(r) \cup {a}
         IN  /\ a \notin HeardIn(r)
             /\ electAg'[r].Used \subseteq S
             /\ electAg'[r].Item = Left(Cardinality(S))
             /\ \A s \in Round \ {r} : electAg'[s] = electAg[s]
             /\ reveals' = [reveals EXCEPT ![r] = Fired(Cardinality(S))]
<1> DEFINE S == HeardIn(r)
           n == Cardinality(S)
           ag == Push(electAg[r], a)
<1>1. S \in SUBSET Node /\ a \notin S
  BY DEF HandleElect, HeardIn
<1>2. n \in Nat /\ Cardinality(S \cup {a}) = n + 1 /\ n + 1 <= N
  <2>1. n \in Nat /\ Cardinality(S \cup {a}) = n + 1
    BY <1>1, Counting
  <2>2. S \cup {a} \in SUBSET Node
    BY <1>1
  <2>3. Cardinality(S \cup {a}) <= N
    BY <2>2, Counting
  <2> QED
    BY <2>1, <2>3
<1>3. /\ electAg[r].Used \subseteq S
      /\ electAg[r].Item = Left(n)
      /\ reveals[r] = Fired(n)
  BY DEF Inv, ElectInv
<1>4. ag = [Item |-> Left(n) + 1, Used |-> electAg[r].Used \cup {a}]
  BY <1>1, <1>3 DEF Push
<1>5. Enough(ag) <=> n + 1 = HightThreshold
  BY <1>2, <1>4, OneMore DEF Enough
<1>6. electAg \in [Round -> Aggregators] /\ reveals \in [Round -> Nat]
  BY DEF Inv, TypeOK
<1>7. CASE n + 1 = HightThreshold
  <2>1. Left(n + 1) = 0 /\ Fired(n) = 0 /\ Fired(n + 1) = 1
    BY <1>2, <1>7, OneMore
  <2>2. /\ electAg' = [electAg EXCEPT ![r] = NewAggregator]
        /\ reveals' = [reveals EXCEPT ![r] = @ + 1]
    BY <1>5, <1>7 DEF HandleElect
  <2>3. reveals[r] + 1 = 1
    BY <1>3, <2>1
  <2> HIDE DEF n, S, ag
  <2> QED
    BY <1>1, <1>2, <1>6, <2>1, <2>2, <2>3 DEF NewAggregator, S
<1>8. CASE n + 1 # HightThreshold
  <2>1. Left(n + 1) = Left(n) + 1 /\ Fired(n + 1) = Fired(n)
    BY <1>2, <1>8, OneMore
  <2>2. electAg' = [electAg EXCEPT ![r] = ag] /\ reveals' = reveals
    BY <1>5, <1>8 DEF HandleElect
  <2>3. electAg'[r] = ag /\ \A s \in Round \ {r} : electAg'[s] = electAg[s]
    BY <1>6, <2>2
  <2>4. reveals' = [reveals EXCEPT ![r] = Fired(n + 1)]
    BY <1>3, <1>6, <2>1, <2>2
  <2>5. electAg'[r].Used \subseteq S \cup {a} /\ electAg'[r].Item = Left(n + 1)
    <3>1. ag.Used = electAg[r].Used \cup {a} /\ ag.Item = Left(n) + 1
      BY <1>4
    <3> HIDE DEF n, S, ag
    <3> QED
      BY <1>3, <2>1, <2>3, <3>1
  <2> HIDE DEF n
  <2> QED
    BY <1>1, <1>2, <2>3, <2>4, <2>5
<1> QED
  BY <1>7, <1>8

\* Empty counters have heard nobody and fired nothing.
LEMMA InvInit == Init => Inv
<1> SUFFICES ASSUME Init PROVE Inv
  OBVIOUS
<1>1. TypeOK
  BY TypeInit
<1>2. Cardinality({}) = 0 /\ Left(0) = 0 /\ Fired(0) = 0
  BY FS_EmptySet, ThresholdType DEF Left, Fired
<1>3. proposals[0] = 1 /\ EchoInv
  <2>1. proposals[0] = 1 /\ \A h \in Height : proposals[h + 1] = 0
    BY BoundsAssumption DEF Init, Height
  <2>2. \A h \in Height : voteAg[h].Item = 0 /\ voteAg[h].Used = {}
    BY DEF Init, NewAggregator
  <2> QED
    BY <1>2, <2>1, <2>2 DEF EchoInv
<1>4. \A r \in Round : HeardIn(r) = {}
  BY DEF Init, HeardIn
<1>5. ElectInv
  BY <1>2, <1>4 DEF Init, ElectInv, NewAggregator
<1> QED
  BY <1>1, <1>3, <1>5 DEF Inv

\* Every echo and every elect, late or repeated, keeps the counts exact.
LEMMA InvStep ==
  ASSUME N < 2 * HightThreshold, Inv, [Next]_vars
  PROVE  Inv'
<1>1. TypeOK'
  BY TypeStep DEF Inv
<1>2. ASSUME NEW a \in Node, NEW h \in Height, HandleEcho(a, h) PROVE Inv'
  <2> DEFINE U == voteAg[h].Used \cup {a}
  <2>1. /\ voteAg' = [voteAg EXCEPT ![h] = [Item |-> Left(Cardinality(U)), Used |-> U]]
        /\ proposals' = [proposals EXCEPT ![h + 1] = Fired(Cardinality(U))]
    BY <1>2, EchoEffect
  <2>2. /\ voteAg \in [Height -> Aggregators]
        /\ proposals \in [0 .. MaxHeight + 1 -> Nat]
    BY DEF Inv, TypeOK
  <2>3. EchoInv' /\ proposals'[0] = 1
    <3>1. proposals'[0] = 1
      BY <2>1, <2>2, BoundsAssumption DEF Inv, Height
    <3>2. ASSUME NEW k \in Height
          PROVE  /\ voteAg'[k].Item = Left(Cardinality(voteAg'[k].Used))
                 /\ proposals'[k + 1] = Fired(Cardinality(voteAg'[k].Used))
      <4>1. CASE k = h
        <5> HIDE DEF U
        <5> QED
          BY <2>1, <2>2, <4>1, BoundsAssumption DEF Height
      <4>2. CASE k # h
        BY <2>1, <2>2, <4>2, BoundsAssumption DEF Inv, EchoInv, Height
      <4> QED
        BY <4>1, <4>2
    <3> QED
      BY <3>1, <3>2 DEF EchoInv
  <2>4. ElectInv'
    BY <1>2 DEF HandleEcho, Inv, ElectInv, HeardIn
  <2> QED
    BY <1>1, <2>3, <2>4 DEF Inv
<1>3. ASSUME NEW a \in Node, NEW r \in Round, HandleElect(a, r) PROVE Inv'
  <2> DEFINE S == HeardIn(r) \cup {a}
  <2>1. /\ electAg'[r].Used \subseteq S
        /\ electAg'[r].Item = Left(Cardinality(S))
        /\ \A s \in Round \ {r} : electAg'[s] = electAg[s]
        /\ reveals' = [reveals EXCEPT ![r] = Fired(Cardinality(S))]
    BY <1>3, ElectEffect
  <2>2. HeardIn(r)' = S /\ \A s \in Round \ {r} : HeardIn(s)' = HeardIn(s)
    BY <1>3 DEF HandleElect, HeardIn
  <2>3. reveals \in [Round -> Nat]
    BY DEF Inv, TypeOK
  <2>4. ASSUME NEW s \in Round
        PROVE  /\ electAg'[s].Used \subseteq HeardIn(s)'
               /\ electAg'[s].Item = Left(Cardinality(HeardIn(s)'))
               /\ reveals'[s] = Fired(Cardinality(HeardIn(s)'))
    <3>1. CASE s = r
      BY <2>1, <2>2, <2>3, <3>1
    <3>2. CASE s # r
      BY <2>1, <2>2, <2>3, <3>2 DEF Inv, ElectInv
    <3> QED
      BY <3>1, <3>2
  <2>5. ElectInv'
    BY <2>4 DEF ElectInv
  <2>6. EchoInv' /\ proposals'[0] = 1
    BY <1>3 DEF HandleElect, Inv, EchoInv
  <2> QED
    BY <1>1, <2>5, <2>6 DEF Inv
<1>4. CASE UNCHANGED vars
  BY <1>1, <1>4 DEF vars, Inv, EchoInv, ElectInv, HeardIn
<1> QED
  BY <1>2, <1>3, <1>4 DEF Next

\* Inv holds in every reachable state of a committee that is large enough.
THEOREM Counted ==
  ASSUME N < 2 * HightThreshold
  PROVE  Spec => []Inv
<1>1. Inv /\ [Next]_vars => Inv'
  BY InvStep
<1> QED
  BY <1>1, InvInit, PTL DEF Spec

\* handleEcho proposes every height at most once.
THEOREM ProposesOnce ==
  ASSUME N < 2 * HightThreshold
  PROVE  Spec => []ProposedOnce
<1>1. Inv => ProposedOnce
  <2> SUFFICES ASSUME Inv, NEW h \in 0 .. MaxHeight + 1 PROVE proposals[h] <= 1
    BY DEF ProposedOnce
  <2>1. CASE h = 0
    BY <2>1 DEF Inv
  <2>2. CASE h # 0
    <3>1. h - 1 \in Height /\ (h - 1) + 1 = h
      BY <2>2, BoundsAssumption DEF Height
    <3>2. proposals[h] = Fired(Cardinality(voteAg[h - 1].Used))
      BY <3>1 DEF Inv, EchoInv
    <3> QED
      BY <3>2 DEF Fired
  <2> QED
    BY <2>1, <2>2
<1> QED
  BY <1>1, Counted, PTL

\* handleElect sends the DAG at most one commitReq for a round.
THEOREM RevealsOnce ==
  ASSUME N < 2 * HightThreshold
  PROVE  Spec => []RevealedOnce
<1>1. Inv => RevealedOnce
  BY DEF Inv, ElectInv, RevealedOnce, Fired
<1> QED
  BY <1>1, Counted, PTL

-----------------------------------------------------------------------------
(* The counters implement the gate.                                        *)

\* Fired in the words of Gate: it changes when the threshold is crossed.
LEMMA Crossing ==
  ASSUME NEW S \in SUBSET Node, NEW a \in Node
  PROVE  Fired(Cardinality(S \cup {a})) =
           IF S \notin Quorums /\ S \cup {a} \in Quorums
             THEN Fired(Cardinality(S)) + 1
             ELSE Fired(Cardinality(S))
<1>1. /\ Cardinality(S) \in Nat
      /\ \/ Cardinality(S \cup {a}) = Cardinality(S)
         \/ Cardinality(S \cup {a}) = Cardinality(S) + 1
  BY Counting
<1> QED
  BY <1>1, ThresholdType DEF Fired, Quorums

\* handleEcho, with its counter that is only shortened by Take, is the gate that
\* proposes each next height at the HightThreshold-th distinct echo.
THEOREM EchoRefinesGate ==
  ASSUME N < 2 * HightThreshold
  PROVE  Spec => EchoIsGate
<1>1. Init => EchoGate!Init
  <2> SUFFICES ASSUME Init PROVE EchoGate!Init
    OBVIOUS
  <2>1. \A h \in Height : voteAg[h].Used = {} /\ proposals[h + 1] = 0
    BY BoundsAssumption DEF Init, NewAggregator, Height
  <2> QED
    BY <2>1 DEF EchoGate!Init
<1>2. Inv /\ [Next]_vars => [EchoGate!Next]_(EchoGate!vars)
  <2> SUFFICES ASSUME Inv, [Next]_vars PROVE [EchoGate!Next]_(EchoGate!vars)
    OBVIOUS
  <2>1. ASSUME NEW a \in Node, NEW h \in Height, HandleEcho(a, h)
        PROVE  EchoGate!Vote(h, a)
    <3> DEFINE U == voteAg[h].Used
    <3>1. /\ voteAg' = [voteAg EXCEPT ![h] =
                          [Item |-> Left(Cardinality(U \cup {a})), Used |-> U \cup {a}]]
          /\ proposals' = [proposals EXCEPT ![h + 1] = Fired(Cardinality(U \cup {a}))]
      BY <2>1, EchoEffect
    <3>2. /\ voteAg \in [Height -> Aggregators]
          /\ proposals \in [0 .. MaxHeight + 1 -> Nat]
          /\ U \in SUBSET Node
          /\ proposals[h + 1] = Fired(Cardinality(U))
      BY DEF Inv, TypeOK, EchoInv, Aggregators
    <3>3. /\ voteAg'[h].Used = U \cup {a}
          /\ \A k \in Height \ {h} : voteAg'[k] = voteAg[k]
      BY <3>1, <3>2
    <3>4. /\ proposals'[h + 1] = Fired(Cardinality(U \cup {a}))
          /\ \A k \in Height \ {h} : proposals'[k + 1] = proposals[k + 1]
      BY <3>1, <3>2, BoundsAssumption DEF Height
    <3>5. Fired(Cardinality(U \cup {a})) =
            IF U \notin Quorums /\ U \cup {a} \in Quorums
              THEN proposals[h + 1] + 1
              ELSE proposals[h + 1]
      BY <3>2, Crossing
    <3> HIDE DEF U
    <3>6. [k \in Height |-> voteAg[k].Used]' =
            [[k \in Height |-> voteAg[k].Used] EXCEPT ![h] = U \cup {a}]
      BY <3>3
    <3>7. [k \in Height |-> proposals[k + 1]]' =
            [[k \in Height |-> proposals[k + 1]] EXCEPT ![h] = Fired(Cardinality(U \cup {a}))]
      BY <3>4
    <3> QED
      BY <3>5, <3>6, <3>7 DEF EchoGate!Vote, U
  <2>2. ASSUME NEW a \in Node, NEW r \in Round, HandleElect(a, r)
        PROVE  UNCHANGED EchoGate!vars
    BY <2>2 DEF HandleElect, EchoGate!vars
  <2>3. CASE UNCHANGED vars
    BY <2>3 DEF vars, EchoGate!vars
  <2> QED
    BY <2>1, <2>2, <2>3 DEF Next, EchoGate!Next
<1> QED
  BY <1>1, <1>2, Counted, PTL DEF Spec, EchoIsGate, EchoGate!Spec

\* handleElect, which deletes its counter when it reveals the leader, is the gate
\* that sends a round's commitReq at the HightThreshold-th elect.
THEOREM ElectRefinesGate ==
  ASSUME N < 2 * HightThreshold
  PROVE  Spec => ElectIsGate
<1>1. Init => ElectGate!Init
  BY DEF Init, ElectGate!Init
<1>2. Inv /\ [Next]_vars => [ElectGate!Next]_(ElectGate!vars)
  <2> SUFFICES ASSUME Inv, [Next]_vars PROVE [ElectGate!Next]_(ElectGate!vars)
    OBVIOUS
  <2>1. ASSUME NEW a \in Node, NEW r \in Round, HandleElect(a, r)
        PROVE  ElectGate!Vote(r, a)
    <3> DEFINE S == HeardIn(r)
    <3>1. reveals' = [reveals EXCEPT ![r] = Fired(Cardinality(S \cup {a}))]
      BY <2>1, ElectEffect
    <3>2. S \in SUBSET Node /\ reveals[r] = Fired(Cardinality(S))
      BY DEF Inv, ElectInv, HeardIn
    <3>3. Fired(Cardinality(S \cup {a})) =
            IF S \notin Quorums /\ S \cup {a} \in Quorums
              THEN reveals[r] + 1
              ELSE reveals[r]
      BY <3>2, Crossing
    <3>4. [s \in Round |-> {b \in Node : <<b, s>> \in heard}]' =
            [[s \in Round |-> {b \in Node : <<b, s>> \in heard}] EXCEPT ![r] = S \cup {a}]
      BY <2>1 DEF HandleElect, HeardIn
    <3>5. S = [s \in Round |-> {b \in Node : <<b, s>> \in heard}][r]
      BY DEF HeardIn
    <3> HIDE DEF S
    <3> QED
      BY <3>1, <3>3, <3>4, <3>5 DEF ElectGate!Vote
  <2>2. ASSUME NEW a \in Node, NEW h \in Height, HandleEcho(a, h)
        PROVE  UNCHANGED ElectGate!vars
    BY <2>2 DEF HandleEcho, ElectGate!vars
  <2>3. CASE UNCHANGED vars
    BY <2>3 DEF vars, ElectGate!vars
  <2> QED
    BY <2>1, <2>2, <2>3 DEF Next, ElectGate!Next
<1> QED
  BY <1>1, <1>2, Counted, PTL DEF Spec, ElectIsGate, ElectGate!Spec
=============================================================================
