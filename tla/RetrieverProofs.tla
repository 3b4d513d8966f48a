-------------------------- MODULE RetrieverProofs --------------------------
(***************************************************************************)
(* Proofs about Retriever for every set of peers and blocks, every channel *)
(* capacity and any number of calls.                                       *)
(***************************************************************************)
EXTENDS Retriever, FiniteSetTheorems, TLAPS

-----------------------------------------------------------------------------
(* The inductive invariant                                                 *)

IsReq(j) == reqChannel[j].typ = "req"

\* The calls in reqChannel are in the order in which they were made, and run has
\* numbered none of them yet.
Queued ==
  /\ \A j \in 1 .. Len(reqChannel) : IsReq(j) => reqChannel[j].back \in cnt .. calls - 1
  /\ \A j, k \in 1 .. Len(reqChannel) :
       IsReq(j) /\ IsReq(k) /\ j < k => reqChannel[j].back < reqChannel[k].back

\* What run notes under a number: nothing before the number is given out, and
\* then miss2Blocks and wanted agree.
Noted ==
  /\ \A r \in requests : r < cnt
  /\ \A i \in Id, d \in Digest : i \in miss2Blocks[d] <=> d \in wanted[i]
  /\ \A i \in Id : i >= cnt =>
       wanted[i] = {} /\ loopBacks[i] = 0 /\ loopBackCnts[i] = 0

\* A block that has come back has a counter that no reply brings to zero again.
BackIsFinal ==
  \A i \in Id : loopBacks[i] = 0 \/ (loopBacks[i] = 1 /\ loopBackCnts[i] <= 0)

RInv == TypeOK /\ Queued /\ Noted /\ OneRequestPerBlock /\ CountsCovered /\ BackIsFinal

-----------------------------------------------------------------------------
(* Counting blocks                                                         *)

\* Sets of blocks are finite and grow with their elements.
LEMMA Counting ==
  ASSUME NEW S \in SUBSET Digest
  PROVE  /\ IsFiniteSet(S)
         /\ Cardinality(S) \in Nat
         /\ \A T \in SUBSET S : Cardinality(T) <= Cardinality(S)
         /\ \A T \in SUBSET S : Cardinality(S \ T) = Cardinality(S) - Cardinality(T)
<1>1. IsFiniteSet(S)
  BY RetrieverAssumption, FS_Subset
<1>2. Cardinality(S) \in Nat
  BY <1>1, FS_CardinalityType
<1>3. \A T \in SUBSET S : Cardinality(T) <= Cardinality(S)
  BY <1>1, FS_Subset
<1>4. ASSUME NEW T \in SUBSET S PROVE Cardinality(S \ T) = Cardinality(S) - Cardinality(T)
  <2>1. S \cap T = T
    OBVIOUS
  <2> QED
    BY <1>1, <2>1, FS_Difference
<1> QED
  BY <1>1, <1>2, <1>3, <1>4

\* A reply lowers the counter of a call by the number of its blocks that the
\* request asked for (the inner loop of ReplyType in run).
LEMMA DecrementCounts ==
  ASSUME TypeOK, Noted, NEW r \in Id, NEW i \in Id
  PROVE  /\ Decrement(r, i) = Cardinality(wanted[i] \cap MissBlock[r])
         /\ Decrement(r, i) \in Nat
<1>1. {d \in MissBlock[r] : i \in miss2Blocks[d]} = wanted[i] \cap MissBlock[r]
  BY DEF TypeOK, Noted
<1>2. wanted[i] \cap MissBlock[r] \in SUBSET Digest
  BY DEF TypeOK
<1> QED
  BY <1>1, <1>2, Counting DEF Decrement

-----------------------------------------------------------------------------
\* An empty retriever satisfies the invariant (NewRetriever).
LEMMA RInit == Init => RInv
<1> SUFFICES ASSUME Init PROVE RInv
  OBVIOUS
<1> USE RetrieverAssumption DEF Init, Id
<1>1. TypeOK
  <2>1. reqChannel \in Seq(Item) /\ Len(reqChannel) <= ReqCap
    OBVIOUS
  <2>2. kept \in BOOLEAN /\ halted \in BOOLEAN
    BY Zenon
  <2> QED
    BY <2>1, <2>2 DEF TypeOK
<1>2. Queued /\ Noted /\ BackIsFinal
  BY DEF Queued, Noted, BackIsFinal
<1>3. OneRequestPerBlock
  BY DEF OneRequestPerBlock
<1>4. CountsCovered
  <2>1. \A i \in Id : wanted[i] \cap pending \in SUBSET Digest
    BY <1>1 DEF TypeOK
  <2> QED
    BY <2>1, Counting DEF CountsCovered
<1> QED
  BY <1>1, <1>2, <1>3, <1>4 DEF RInv

\* The parts of the invariant that do not look at reqChannel survive every step
\* that leaves the state of run alone.
LEMMA RunRests ==
  ASSUME RInv, UNCHANGED <<wanted, runVars, loopBacks>>
  PROVE  Noted' /\ OneRequestPerBlock' /\ CountsCovered' /\ BackIsFinal'
  BY DEF RInv, Noted, OneRequestPerBlock, CountsCovered, BackIsFinal, runVars

\* The order of the queue survives every step that leaves the queue alone.
LEMMA QueueRests ==
  ASSUME RInv, UNCHANGED <<reqChannel, cnt, calls>>
  PROVE  Queued'
  BY DEF RInv, Queued, IsReq

-----------------------------------------------------------------------------
(* The steps                                                               *)

\* A new item at the end of reqChannel keeps its type, and the order of the
\* calls if it is a reply or the next call.
LEMMA ItemAppended ==
  ASSUME RInv, NEW x \in Item, Len(reqChannel) < ReqCap,
         reqChannel' = Append(reqChannel, x), cnt' = cnt,
         calls' \in Nat, calls' >= calls,
         x.typ = "req" => x.back = calls /\ calls' = calls + 1
  PROVE  reqChannel' \in Seq(Item) /\ Len(reqChannel') <= ReqCap /\ Queued'
<1> USE DEF RInv, TypeOK
<1>1. reqChannel' \in Seq(Item) /\ Len(reqChannel') = Len(reqChannel) + 1
  OBVIOUS
<1>2. /\ \A j \in 1 .. Len(reqChannel) : reqChannel'[j] = reqChannel[j]
      /\ reqChannel'[Len(reqChannel) + 1] = x
  OBVIOUS
<1>3. \A j \in 1 .. Len(reqChannel') : j \in 1 .. Len(reqChannel) \/ j = Len(reqChannel) + 1
  BY <1>1
<1>4. ASSUME NEW j \in 1 .. Len(reqChannel'), IsReq(j)'
      PROVE  reqChannel'[j].back \in cnt' .. calls' - 1
  BY <1>1, <1>2, <1>3, <1>4, SMTT(30) DEF Queued, IsReq
<1>5. ASSUME NEW j \in 1 .. Len(reqChannel'), NEW k \in 1 .. Len(reqChannel'),
             IsReq(j)', IsReq(k)', j < k
      PROVE  reqChannel'[j].back < reqChannel'[k].back
  BY <1>1, <1>2, <1>3, <1>5, SMTT(30) DEF Queued, IsReq
<1> QED
  BY <1>1, <1>4, <1>5, RetrieverAssumption DEF Queued

\* requestBlocks
LEMMA RequestStep ==
  ASSUME RInv, NEW miss \in SUBSET Digest, NEW p \in Peer, RequestBlocks(miss, p)
  PROVE  RInv'
<1> USE DEF RequestBlocks
<1> DEFINE x == [typ |-> "req", back |-> calls, miss |-> miss, to |-> p]
<1>1. calls \in Nat /\ calls \in Id /\ calls' \in 0 .. MaxReq /\ cnt \in 0 .. calls'
  BY RetrieverAssumption DEF RInv, TypeOK, Id
<1>2. x \in Item
  BY <1>1 DEF Item
<1>3. reqChannel' \in Seq(Item) /\ Len(reqChannel') <= ReqCap /\ Queued'
  BY <1>1, <1>2, ItemAppended DEF runVars
<1>4. Noted' /\ OneRequestPerBlock' /\ CountsCovered' /\ BackIsFinal'
  BY RunRests DEF backVars
<1>5. TypeOK'
  BY <1>1, <1>3 DEF RInv, TypeOK, runVars, netVars, backVars
<1> QED
  BY <1>3, <1>4, <1>5 DEF RInv

\* processReply
LEMMA ProcessReplyStep ==
  ASSUME RInv, NEW g \in replying, ProcessReply(g)
  PROVE  RInv'
<1> USE DEF ProcessReply
<1> DEFINE x == [typ |-> "reply", id |-> g[2]]
<1>1. g[2] \in Id /\ calls \in Nat
  BY RetrieverAssumption DEF RInv, TypeOK
<1>2. x \in Item
  BY <1>1 DEF Item
<1>3. reqChannel' \in Seq(Item) /\ Len(reqChannel') <= ReqCap /\ Queued'
  BY <1>1, <1>2, ItemAppended DEF runVars
<1>4. Noted' /\ OneRequestPerBlock' /\ CountsCovered' /\ BackIsFinal'
  BY RunRests DEF backVars
<1>5. TypeOK'
  BY <1>3 DEF RInv, TypeOK, runVars, backVars
<1> QED
  BY <1>3, <1>4, <1>5 DEF RInv

\* What run takes from reqChannel, and that the rest stays in order.
LEMMA ItemTaken ==
  ASSUME RInv, reqChannel # <<>>, reqChannel' = Tail(reqChannel), calls' = calls,
         \/ Head(reqChannel).typ = "reply" /\ cnt' = cnt
         \/ Head(reqChannel).typ = "req" /\ cnt' = cnt + 1
  PROVE  /\ Head(reqChannel) \in Item
         /\ reqChannel' \in Seq(Item) /\ Len(reqChannel') <= ReqCap
         /\ cnt' \in 0 .. calls'
         /\ Head(reqChannel).typ = "req" => cnt \in Id
         /\ Queued'
<1> USE DEF RInv, TypeOK
<1>1. /\ Head(reqChannel) = reqChannel[1] /\ reqChannel[1] \in Item
      /\ reqChannel' \in Seq(Item) /\ Len(reqChannel') = Len(reqChannel) - 1
      /\ 1 \in 1 .. Len(reqChannel)
  OBVIOUS
<1>2. \A j \in 1 .. Len(reqChannel') :
        j + 1 \in 1 .. Len(reqChannel) /\ reqChannel'[j] = reqChannel[j + 1]
  BY <1>1
<1>3. Head(reqChannel).typ = "req" => reqChannel[1].back \in cnt .. calls - 1
  BY <1>1 DEF Queued, IsReq
<1>4. cnt' \in 0 .. calls' /\ (Head(reqChannel).typ = "req" => cnt \in Id)
  <2>1. calls \in Nat /\ cnt \in Nat /\ cnt <= calls /\ calls <= MaxReq
    BY RetrieverAssumption
  <2>2. CASE Head(reqChannel).typ = "req"
    <3>1. cnt' = cnt + 1
      BY <2>2
    <3>2. cnt < calls
      BY <1>3, <2>1, <2>2
    <3> HIDE DEF RInv, TypeOK
    <3> QED
      BY <2>1, <3>1, <3>2, RetrieverAssumption DEF Id
  <2>3. CASE Head(reqChannel).typ = "reply" /\ cnt' = cnt
    BY <2>1, <2>3
  <2> QED
    BY <2>2, <2>3
<1>5. ASSUME NEW j \in 1 .. Len(reqChannel'), IsReq(j)'
      PROVE  reqChannel'[j].back \in cnt' .. calls' - 1
  <2>1. reqChannel[j + 1].back \in cnt .. calls - 1
    BY <1>2, <1>5 DEF Queued, IsReq
  <2>2. CASE Head(reqChannel).typ = "req"
    <3>1. reqChannel[1].back < reqChannel[j + 1].back
      BY <1>1, <1>2, <1>5, <2>2 DEF Queued, IsReq
    <3> QED
      BY <1>2, <1>3, <2>1, <2>2, <3>1
  <2> QED
    BY <1>2, <2>1, <2>2
<1>6. ASSUME NEW j \in 1 .. Len(reqChannel'), NEW k \in 1 .. Len(reqChannel'),
             IsReq(j)', IsReq(k)', j < k
      PROVE  reqChannel'[j].back < reqChannel'[k].back
  <2>1. /\ j + 1 \in 1 .. Len(reqChannel) /\ reqChannel'[j] = reqChannel[j + 1]
        /\ k + 1 \in 1 .. Len(reqChannel) /\ reqChannel'[k] = reqChannel[k + 1]
        /\ j + 1 < k + 1
    BY <1>2, <1>6
  <2>2. IsReq(j + 1) /\ IsReq(k + 1)
    BY <1>6, <2>1 DEF IsReq
  <2> QED
    BY <2>1, <2>2 DEF Queued
<1> QED
  BY <1>1, <1>4, <1>5, <1>6, RetrieverAssumption DEF Queued

\* ReqType in run: the number is new, the request asks only for blocks that no
\* open request asks for, and the counter starts at the number of blocks, all of
\* which are pending from now on.
LEMMA ServeReqStep ==
  ASSUME RInv, ServeReq
  PROVE  RInv'
<1> DEFINE miss == Head(reqChannel).miss
           new  == NewMisses(miss)
<1> USE RetrieverAssumption
<1>1. /\ Head(reqChannel) \in Item
      /\ reqChannel' \in Seq(Item) /\ Len(reqChannel') <= ReqCap
      /\ cnt' \in 0 .. calls' /\ cnt \in Id /\ Queued'
  BY ItemTaken DEF ServeReq
<1>2. miss \in SUBSET Digest /\ Head(reqChannel).to \in Peer
  BY <1>1 DEF ServeReq, Item
<1>3. new = miss \ pending /\ new \in SUBSET Digest
  BY <1>2 DEF NewMisses
<1>4. /\ wanted' = [wanted EXCEPT ![cnt] = miss]
      /\ loopBackCnts' = [loopBackCnts EXCEPT ![cnt] = Cardinality(miss)]
      /\ miss2Blocks' = Register(cnt, miss)
      /\ pending' = pending \cup new
      /\ cnt' = cnt + 1
      /\ loopBacks' = loopBacks
      /\ new = {} => requests' = requests /\ MissBlock' = MissBlock /\ asks' = asks
      /\ new # {} => /\ requests' = requests \cup {cnt}
                    /\ MissBlock' = [MissBlock EXCEPT ![cnt] = new]
                    /\ asks' = asks \cup {<<Head(reqChannel).to, cnt>>}
  BY DEF ServeReq, backVars
<1> HIDE DEF miss, new
<1>5. TypeOK'
  <2>1. miss2Blocks' \in [Digest -> SUBSET Id]
    BY <1>1, <1>4 DEF RInv, TypeOK, Register
  <2>2. wanted' \in [Id -> SUBSET Digest] /\ MissBlock' \in [Id -> SUBSET Digest]
    BY <1>1, <1>2, <1>3, <1>4 DEF RInv, TypeOK
  <2>3. loopBackCnts' \in [Id -> Int]
    BY <1>1, <1>2, <1>4, Counting DEF RInv, TypeOK
  <2>4. requests' \subseteq Id /\ asks' \subseteq Peer \X Id
    <3>1. requests \subseteq Id /\ asks \subseteq Peer \X Id
      BY DEF RInv, TypeOK
    <3>2. CASE new = {}
      BY <1>4, <3>1, <3>2
    <3>3. CASE new # {}
      BY <1>1, <1>2, <1>4, <3>1, <3>3
    <3> QED
      BY <3>2, <3>3
  <2> QED
    BY <1>1, <1>3, <1>4, <2>1, <2>2, <2>3, <2>4 DEF RInv, TypeOK, ServeReq, backVars
<1>6. Noted'
  <2>1. \A r \in requests' : r < cnt'
    <3>1. requests' \subseteq requests \cup {cnt}
      BY <1>4
    <3>2. cnt \in Nat /\ cnt' = cnt + 1 /\ \A r \in requests : r \in Nat /\ r < cnt
      BY <1>1, <1>4 DEF RInv, TypeOK, Noted, Id
    <3> QED
      BY <3>1, <3>2
  <2>2. ASSUME NEW i \in Id, NEW d \in Digest
        PROVE  i \in miss2Blocks'[d] <=> d \in wanted'[i]
    <3>1. miss2Blocks'[d] = IF d \in miss THEN miss2Blocks[d] \cup {cnt} ELSE miss2Blocks[d]
      BY <1>4 DEF Register
    <3>2. wanted'[i] = IF i = cnt THEN miss ELSE wanted[i]
      BY <1>4 DEF RInv, TypeOK
    <3>3. wanted[cnt] = {}
      BY <1>1 DEF RInv, TypeOK, Noted, Id
    <3> QED
      BY <3>1, <3>2, <3>3, <1>1 DEF RInv, Noted
  <2>3. ASSUME NEW i \in Id, i >= cnt'
        PROVE  wanted'[i] = {} /\ loopBacks'[i] = 0 /\ loopBackCnts'[i] = 0
    <3>1. i # cnt /\ i >= cnt
      BY <1>1, <1>4, <2>3 DEF Id
    <3> QED
      BY <3>1, <1>4 DEF RInv, TypeOK, Noted
  <2> QED
    BY <2>1, <2>2, <2>3 DEF Noted
<1>7. OneRequestPerBlock'
  <2>1. CASE new = {}
    BY <1>4, <2>1 DEF RInv, OneRequestPerBlock
  <2>2. CASE new # {}
    <3>1. cnt \notin requests /\ requests \subseteq Id
      BY <1>1 DEF RInv, TypeOK, Noted, Id
    <3>2. MissBlock'[cnt] = new /\ \A r \in requests : MissBlock'[r] = MissBlock[r]
      BY <1>1, <1>4, <2>2, <3>1 DEF RInv, TypeOK
    <3>3. pending' = UNION {MissBlock'[r] : r \in requests'}
      <4>1. requests' = requests \cup {cnt}
        BY <1>4, <2>2
      <4>2. \A d : d \in pending <=> \E r \in requests : d \in MissBlock[r]
        BY DEF RInv, OneRequestPerBlock
      <4>3. \A d : d \in pending' <=> \E r \in requests' : d \in MissBlock'[r]
        BY <1>4, <3>2, <4>1, <4>2
      <4> QED
        BY <4>3
    <3>4. \A r \in requests : MissBlock[r] \cap new = {}
      BY <1>3 DEF RInv, OneRequestPerBlock
    <3> QED
      BY <1>4, <2>2, <3>2, <3>3, <3>4 DEF RInv, OneRequestPerBlock
  <2> QED
    BY <2>1, <2>2
<1>8. CountsCovered'
  <2> SUFFICES ASSUME NEW i \in Id
               PROVE  loopBackCnts'[i] <= Cardinality(wanted'[i] \cap pending')
    BY DEF CountsCovered
  <2>1. CASE i = cnt
    <3>1. wanted'[i] = miss /\ loopBackCnts'[i] = Cardinality(miss)
      BY <1>1, <1>4, <2>1 DEF RInv, TypeOK
    <3>2. miss \cap pending' = miss
      BY <1>3, <1>4
    <3> QED
      BY <3>1, <3>2, <1>2, Counting
  <2>2. CASE i # cnt
    <3>1. wanted'[i] = wanted[i] /\ loopBackCnts'[i] = loopBackCnts[i]
      BY <1>4, <2>2 DEF RInv, TypeOK
    <3>2. wanted[i] \cap pending \in SUBSET (wanted[i] \cap pending')
      BY <1>4
    <3>3. wanted[i] \cap pending' \in SUBSET Digest /\ wanted[i] \cap pending \in SUBSET Digest
      BY DEF RInv, TypeOK
    <3>4. /\ Cardinality(wanted[i] \cap pending) <= Cardinality(wanted[i] \cap pending')
          /\ Cardinality(wanted[i] \cap pending) \in Nat
          /\ Cardinality(wanted[i] \cap pending') \in Nat
      BY <3>2, <3>3, Counting
    <3>5. loopBackCnts[i] <= Cardinality(wanted[i] \cap pending) /\ loopBackCnts[i] \in Int
      BY DEF RInv, TypeOK, CountsCovered
    <3> QED
      BY <3>1, <3>4, <3>5
  <2> QED
    BY <2>1, <2>2
<1>9. BackIsFinal'
  <2>1. loopBacks[cnt] = 0
    BY <1>1 DEF RInv, Noted, Id
  <2>2. \A i \in Id : i # cnt => loopBackCnts'[i] = loopBackCnts[i]
    BY <1>4 DEF RInv, TypeOK
  <2> QED
    BY <1>4, <2>1, <2>2 DEF RInv, BackIsFinal
<1> QED
  BY <1>1, <1>5, <1>6, <1>7, <1>8, <1>9 DEF RInv

\* ReplyType in run, for an open request: its blocks are no longer pending, each
\* call that misses some of them has its counter lowered by as many, and the
\* calls whose counter passes zero get their block back, for the first time.
LEMMA ServeReplyStep ==
  ASSUME RInv, ServeReply
  PROVE  RInv'
<1> DEFINE r == Head(reqChannel).id
           M == MissBlock[r]
<1>1. /\ Head(reqChannel) \in Item
      /\ reqChannel' \in Seq(Item) /\ Len(reqChannel') <= ReqCap
      /\ cnt' \in 0 .. calls' /\ Queued'
  BY ItemTaken, RetrieverAssumption DEF ServeReply
<1>2. r \in Id
  BY <1>1 DEF ServeReply, Item
<1>3. /\ UNCHANGED <<wanted, cnt, calls, miss2Blocks, MissBlock, netVars, store, kept, halted>>
      /\ r \notin requests =>
           UNCHANGED <<loopBackCnts, looping, loopBacks, pending, requests>>
      /\ r \in requests =>
           /\ loopBackCnts' = [i \in Id |-> loopBackCnts[i] - Decrement(r, i)]
           /\ looping' = looping \cup BackNow(r)
           /\ loopBacks' = [i \in Id |-> IF i \in BackNow(r) THEN loopBacks[i] + 1
                                         ELSE loopBacks[i]]
           /\ pending' = pending \ M
           /\ requests' = requests \ {r}
  BY DEF ServeReply
<1> HIDE DEF r
<1>4. CASE r \notin requests
  <2>1. Noted' /\ OneRequestPerBlock' /\ CountsCovered' /\ BackIsFinal'
    BY <1>3, <1>4, RunRests DEF runVars
  <2>2. TypeOK'
    BY <1>1, <1>3, <1>4 DEF RInv, TypeOK, netVars
  <2> QED
    BY <1>1, <2>1, <2>2 DEF RInv
<1>5. CASE r \in requests
  <2>1. \A i \in Id : Decrement(r, i) = Cardinality(wanted[i] \cap M)
    BY <1>2, DecrementCounts DEF RInv
  <2>dec. \A i \in Id : Decrement(r, i) \in Nat
    BY <1>2, DecrementCounts DEF RInv
  <2>2. \A i \in Id : /\ loopBackCnts'[i] = loopBackCnts[i] - Decrement(r, i)
                      /\ loopBackCnts[i] \in Int /\ loopBacks[i] \in Nat
    BY <1>3, <1>5 DEF RInv, TypeOK
  <2>3. \A i \in Id : loopBacks'[i] = IF i \in BackNow(r) THEN loopBacks[i] + 1
                                      ELSE loopBacks[i]
    BY <1>3, <1>5
  <2>4. TypeOK'
    <3>1. loopBackCnts' \in [Id -> Int] /\ loopBacks' \in [Id -> Nat]
      <4>1. \A i \in Id : loopBackCnts[i] - Decrement(r, i) \in Int
        BY <2>2, <2>dec
      <4>2. \A i \in Id : (IF i \in BackNow(r) THEN loopBacks[i] + 1 ELSE loopBacks[i]) \in Nat
        BY <2>2
      <4> QED
        BY <1>3, <1>5, <4>1, <4>2
    <3>2. looping' \subseteq Id
      BY <1>3, <1>5 DEF RInv, TypeOK, BackNow
    <3>3. pending' \subseteq Digest /\ requests' \subseteq Id
      BY <1>3, <1>5 DEF RInv, TypeOK
    <3> QED
      BY <1>1, <1>3, <3>1, <3>2, <3>3 DEF RInv, TypeOK, netVars
  <2>5. Noted'
    <3>1. \A q \in requests' : q < cnt'
      BY <1>3, <1>5 DEF RInv, Noted
    <3>2. \A i \in Id, d \in Digest : i \in miss2Blocks'[d] <=> d \in wanted'[i]
      BY <1>3, <1>5 DEF RInv, Noted
    <3>3. ASSUME NEW i \in Id, i >= cnt'
          PROVE  wanted'[i] = {} /\ loopBacks'[i] = 0 /\ loopBackCnts'[i] = 0
      <4>1. wanted[i] = {} /\ loopBacks[i] = 0 /\ loopBackCnts[i] = 0
        BY <1>3, <3>3 DEF RInv, Noted
      <4>2. Decrement(r, i) = 0
        BY <2>1, <4>1, FS_EmptySet
      <4>3. i \notin BackNow(r)
        BY <4>1 DEF BackNow
      <4> QED
        BY <1>3, <2>2, <2>3, <4>1, <4>2, <4>3
    <3> QED
      BY <3>1, <3>2, <3>3 DEF Noted
  <2>6. OneRequestPerBlock'
    <3>1. \A d : d \in pending <=> \E q \in requests : d \in MissBlock[q]
      BY DEF RInv, OneRequestPerBlock
    <3>2. \A q \in requests : q # r => MissBlock[q] \cap M = {}
      BY <1>5 DEF RInv, OneRequestPerBlock
    <3>3. \A d : d \in pending' <=> \E q \in requests' : d \in MissBlock'[q]
      BY <1>3, <1>5, <3>1, <3>2
    <3>4. pending' = UNION {MissBlock'[q] : q \in requests'}
      BY <3>3
    <3> QED
      BY <1>3, <1>5, <3>4 DEF RInv, OneRequestPerBlock
  <2>7. CountsCovered'
    <3> SUFFICES ASSUME NEW i \in Id
                 PROVE  loopBackCnts'[i] <= Cardinality(wanted'[i] \cap pending')
      BY DEF CountsCovered
    <3> DEFINE A == wanted[i] \cap pending
               B == wanted[i] \cap M
    <3>1. M \subseteq pending
      BY <1>5 DEF RInv, OneRequestPerBlock
    <3>2. wanted'[i] \cap pending' = A \ B
      BY <1>3, <1>5
    <3>3. A \in SUBSET Digest /\ B \in SUBSET A
      BY <3>1 DEF RInv, TypeOK
    <3> HIDE DEF A, B
    <3>4. Cardinality(A \ B) = Cardinality(A) - Cardinality(B) /\ Cardinality(A) \in Nat
      BY <3>3, Counting
    <3>5. loopBackCnts[i] <= Cardinality(A)
      BY DEF RInv, CountsCovered, A
    <3>6. Decrement(r, i) = Cardinality(B) /\ Decrement(r, i) \in Nat
      BY <2>1, <2>dec DEF B
    <3>7. loopBackCnts'[i] = loopBackCnts[i] - Decrement(r, i) /\ loopBackCnts[i] \in Int
      BY <2>2
    <3> QED
      BY <3>2, <3>4, <3>5, <3>6, <3>7
  <2>8. BackIsFinal'
    <3> SUFFICES ASSUME NEW i \in Id
                 PROVE  loopBacks'[i] = 0 \/ (loopBacks'[i] = 1 /\ loopBackCnts'[i] <= 0)
      BY DEF BackIsFinal
    <3>1. loopBacks[i] = 0 \/ (loopBacks[i] = 1 /\ loopBackCnts[i] <= 0)
      BY DEF RInv, BackIsFinal
    <3>2. CASE i \in BackNow(r)
      <4>1. loopBackCnts[i] > 0 /\ loopBackCnts[i] <= Decrement(r, i)
        BY <3>2 DEF BackNow
      <4> QED
        BY <2>2, <2>3, <2>dec, <3>1, <3>2, <4>1
    <3>3. CASE i \notin BackNow(r)
      BY <2>2, <2>3, <2>dec, <3>1, <3>3
    <3> QED
      BY <3>2, <3>3
  <2> QED
    BY <1>1, <2>4, <2>5, <2>6, <2>7, <2>8 DEF RInv
<1> QED
  BY <1>4, <1>5

\* Every step keeps the invariant.
LEMMA RStep == RInv /\ [Next]_vars => RInv'
<1> SUFFICES ASSUME RInv, [Next]_vars PROVE RInv'
  OBVIOUS
<1>1. CASE UNCHANGED vars
  <2>1. Noted' /\ OneRequestPerBlock' /\ CountsCovered' /\ BackIsFinal'
    BY <1>1, RunRests DEF vars, runVars
  <2>2. Queued'
    BY <1>1, QueueRests DEF vars
  <2>3. TypeOK'
    BY <1>1, Zenon DEF vars, RInv, TypeOK
  <2> QED
    BY <2>1, <2>2, <2>3 DEF RInv
<1>2. ASSUME NEW miss \in SUBSET (Digest \ store) \ {{}}, NEW p \in Peer, RequestBlocks(miss, p)
      PROVE  RInv'
  BY <1>2, RequestStep
<1>3. ASSUME NEW g \in replying, ProcessReply(g) PROVE RInv'
  BY <1>3, ProcessReplyStep
<1>4. CASE ServeReq
  BY <1>4, ServeReqStep
<1>5. CASE ServeReply
  BY <1>5, ServeReplyStep
<1>6. ASSUME NEW r \in requests, Retry(r) PROVE RInv'
  <2>1. Noted' /\ OneRequestPerBlock' /\ CountsCovered' /\ BackIsFinal'
    BY <1>6, RunRests DEF Retry, backVars
  <2>2. Queued'
    BY <1>6, QueueRests DEF Retry, runVars
  <2>3. asks' \subseteq Peer \X Id
    BY <1>6 DEF Retry, RInv, TypeOK
  <2>4. TypeOK'
    BY <1>6, <2>3, Zenon DEF Retry, RInv, TypeOK, runVars, backVars
  <2> QED
    BY <2>1, <2>2, <2>4 DEF RInv
<1>7. ASSUME NEW i \in looping, LoopBack(i) PROVE RInv'
  <2>1. Noted' /\ OneRequestPerBlock' /\ CountsCovered' /\ BackIsFinal'
    BY <1>7, RunRests DEF LoopBack
  <2>2. halted' \in BOOLEAN /\ kept' \in BOOLEAN
    BY <1>7, Zenon DEF LoopBack, RInv, TypeOK
  <2>3. Queued'
    BY <1>7, QueueRests DEF LoopBack, runVars
  <2>4. TypeOK'
    BY <1>7, <2>2 DEF LoopBack, RInv, TypeOK, runVars, netVars
  <2> QED
    BY <2>1, <2>3, <2>4 DEF RInv
<1>8. ASSUME NEW p \in Peer, NEW r \in Id, HandleReply(p, r) \/ Lose(p, r) PROVE RInv'
  <2>1. Noted' /\ OneRequestPerBlock' /\ CountsCovered' /\ BackIsFinal'
    BY <1>8, RunRests DEF HandleReply, Lose, backVars
  <2>2. asks' \subseteq Peer \X Id /\ replying' \subseteq Peer \X Id /\ store' \subseteq Digest
    BY <1>8 DEF HandleReply, Lose, Reply, RInv, TypeOK
  <2>3. Queued'
    BY <1>8, QueueRests DEF HandleReply, Lose, runVars, backVars
  <2>4. TypeOK'
    BY <1>8, <2>2, Zenon DEF HandleReply, Lose, RInv, TypeOK, runVars, backVars
  <2> QED
    BY <2>1, <2>3, <2>4 DEF RInv
<1> QED
  BY <1>1, <1>2, <1>3, <1>4, <1>5, <1>6, <1>7, <1>8 DEF Next, Run

-----------------------------------------------------------------------------
\* The inductive invariant holds in every state.
LEMMA Invariant == Spec => []RInv
  BY RInit, RStep, PTL DEF Spec

\* The state of the retriever keeps its types, and reqChannel its capacity, for
\* any number of peers, blocks and calls.
THEOREM RetrieverTypes == Spec => []TypeOK
  BY Invariant, PTL DEF RInv

\* A block is asked for by one open request at a time ("filter block that
\* dealing", retriever.go), whatever calls share blocks and however requests are
\* repeated, lost and answered.
THEOREM RetrieverAsksOnce == Spec => []OneRequestPerBlock
  BY Invariant, PTL DEF RInv

\* The counter of a call never exceeds the number of its blocks that an open
\* request asks for, so no call waits for a reply that nobody expects.
THEOREM RetrieverCounts == Spec => []CountsCovered
  BY Invariant, PTL DEF RInv

\* loopBack is started at most once for a call, although miss2Blocks is never
\* cleaned and later replies go on decrementing old counters.
THEOREM RetrieverLoopsOnce == Spec => []LoopBackOnce
<1>1. RInv => LoopBackOnce
  BY DEF RInv, BackIsFinal, LoopBackOnce
<1> QED
  BY <1>1, Invariant, PTL
=============================================================================
