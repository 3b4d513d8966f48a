----------------------------- MODULE LoomProofs -----------------------------
(***************************************************************************)
(* For every committee and every setting of the constants of Loom: its     *)
(* variables keep their types, the lines of every DAG stay aligned, and a  *)
(* waiting commitor is never forgotten.  The inductive invariant ties the  *)
(* commitor's local variables to the DAG it works on.                      *)
(***************************************************************************)
EXTENDS Loom, DagProofs

\* The commitor c and the DAG d of one node between two steps: what was pulled,
\* and the block at hand, is still in the cache; a block waited for has been
\* asked for and is neither cached nor committed.
Coherent(d, c) ==
  /\ DagOK(d)
  /\ c \in Commitors
  /\ c.pc \in {"visit", "wait"} => c.q # <<>>
  /\ \A b \in c.pulled : Cached(d, b.header.slot)
  /\ c.pc = "visit" => c.cur \in Block /\ Cached(d, c.cur.header.slot)
  /\ c.pc = "wait" => /\ Head(c.q) \in d.pending
                      /\ ~Committed(d, Head(c.q))
                      /\ ~Cached(d, Head(c.q))

\* The commitor that is not in commit2 holds nothing of the DAG.
LEMMA CoherentIdle ==
  ASSUME NEW d, DagOK(d)
  PROVE  Coherent(d, IdleCommitor)
<1>1. IdleCommitor \in Commitors
  BY DEF IdleCommitor, Commitors
<1> QED
  BY <1>1 DEF Coherent, IdleCommitor

\* run receives a request and enters commit2.
LEMMA CoherentStart ==
  ASSUME NEW d, DagOK(d), NEW req \in SubmitReqs
  PROVE  Coherent(d, StartCommit(req))
<1> DEFINE c == StartCommit(req)
<1>1a. c = [pc |-> "pull", q |-> <<req.slot>>, cur |-> Nil, pulled |-> {}, anchors |-> {req}]
  BY DEF StartCommit
<1>1b. <<req.slot>> \in Seq(Slot) /\ {req} \in SUBSET SubmitReqs
  BY DEF SubmitReqs
<1> HIDE DEF c
<1>1. c.pc = "pull" /\ c.pulled = {} /\ c \in Commitors
  BY <1>1a, <1>1b DEF Commitors
<1>2. Coherent(d, c)
  BY <1>1 DEF Coherent
<1> QED
  BY <1>2 DEF c

\* handleBlockPushReq: the arrival of the block a commitor waits for wakes it up,
\* any other arrival leaves it waiting.
LEMMA CoherentPush ==
  ASSUME NEW d, NEW c, Coherent(d, c), NEW b \in Block
  PROVE  LET s == b.header.slot
             woken == /\ ~Committed(d, s) /\ s \in d.pending
                      /\ c.pc = "wait" /\ Head(c.q) = s
         IN  Coherent(PushBlock(d, b),
                      IF woken THEN [c EXCEPT !.pc = "visit", !.cur = b] ELSE c)
<1> DEFINE s == b.header.slot
           e == PushBlock(d, b)
           woken == /\ ~Committed(d, s) /\ s \in d.pending
                    /\ c.pc = "wait" /\ Head(c.q) = s
           awake == [c EXCEPT !.pc = "visit", !.cur = b]
<1>1. DagOK(d) /\ c \in Commitors /\ s \in Slot
  BY BlockFields DEF Coherent
<1>2. /\ DagOK(e)
      /\ e.cacheMark = d.cacheMark
      /\ e.pending = d.pending
      /\ \A t \in Slot : Cached(d, t) => Cached(e, t)
      /\ \A t \in Slot : t # s /\ Cached(e, t) => Cached(d, t)
      /\ ~Committed(d, s) => Cached(e, s)
  BY <1>1, PushBlockOK
<1>3. c.q \in Seq(Slot) /\ c.pulled \in SUBSET Block
  BY <1>1 DEF Commitors
<1>4. \A t \in c.pulled : Cached(e, t.header.slot)
  BY <1>2, <1>3, BlockFields DEF Coherent
<1>5. \A t \in Slot : Committed(e, t) <=> Committed(d, t)
  BY <1>2 DEF Committed, Index
<1> HIDE DEF e
<1>6. CASE woken
  <2>1. /\ awake \in Commitors /\ awake.pc = "visit" /\ awake.cur = b
        /\ awake.q = c.q /\ awake.pulled = c.pulled
    BY <1>1 DEF Commitors
  <2>2. c.q # <<>>
    BY <1>6 DEF Coherent
  <2>3. Coherent(e, awake)
    <3> HIDE DEF awake
    <3> QED
      BY <1>2, <1>4, <1>6, <2>1, <2>2 DEF Coherent
  <2> QED
    BY <1>6, <2>3 DEF e
<1>7. CASE ~woken
  <2>1. c.pc = "visit" => c.cur \in Block /\ Cached(e, c.cur.header.slot)
    BY <1>2, BlockFields DEF Coherent
  <2>2. c.pc = "wait" => /\ Head(c.q) \in e.pending
                         /\ ~Committed(e, Head(c.q))
                         /\ ~Cached(e, Head(c.q))
    <3> SUFFICES ASSUME c.pc = "wait"
                 PROVE  /\ Head(c.q) \in e.pending
                        /\ ~Committed(e, Head(c.q))
                        /\ ~Cached(e, Head(c.q))
      OBVIOUS
    <3>1. /\ c.q # <<>> /\ Head(c.q) \in d.pending
          /\ ~Committed(d, Head(c.q)) /\ ~Cached(d, Head(c.q))
      BY DEF Coherent
    <3>2. Head(c.q) \in Slot
      BY <1>3, <3>1
    <3>3. Head(c.q) # s
      BY <1>7, <3>1
    <3> QED
      BY <1>2, <1>5, <3>1, <3>2, <3>3
  <2>3. Coherent(e, c)
    BY <1>1, <1>2, <1>4, <2>1, <2>2 DEF Coherent
  <2> QED
    BY <1>7, <2>3 DEF e
<1> QED
  BY <1>6, <1>7

\* handleCommitReq leaves what the commitor relies on alone.
LEMMA CoherentCommit ==
  ASSUME NEW d, NEW c, Coherent(d, c), NEW req \in CommitReqs
  PROVE  Coherent(CommitReq(d, req).dag, c)
<1> DEFINE e == CommitReq(d, req).dag
<1>1. DagOK(d)
  BY DEF Coherent
<1>2. /\ DagOK(e) /\ e.cache = d.cache /\ e.cacheMark = d.cacheMark
      /\ e.pending = d.pending
  BY <1>1, CommitReqOK
<1> HIDE DEF e
<1>3. \A t : (Cached(e, t) <=> Cached(d, t)) /\ (Committed(e, t) <=> Committed(d, t))
  BY <1>2 DEF Cached, Committed, Index
<1>4. Coherent(e, c)
  BY <1>2, <1>3 DEF Coherent
<1> QED
  BY <1>4 DEF e

\* pullBlock: the three answers handleBlockPullReq may give.
LEMMA CoherentPull ==
  ASSUME NEW d, NEW c, Coherent(d, c), c.pc = "pull", c.q # <<>>
  PROVE  LET s == Head(c.q)
         IN  /\ Coherent(d, [c EXCEPT !.q = Tail(@)])
             /\ Cached(d, s) =>
                  Coherent(d, [c EXCEPT !.pc = "visit", !.cur = BlockAt(d, s)])
             /\ ~Committed(d, s) /\ ~Cached(d, s) =>
                  Coherent([d EXCEPT !.pending = @ \cup {s}], [c EXCEPT !.pc = "wait"])
<1> DEFINE s  == Head(c.q)
           c1 == [c EXCEPT !.q = Tail(@)]
           c2 == [c EXCEPT !.pc = "visit", !.cur = BlockAt(d, s)]
           c3 == [c EXCEPT !.pc = "wait"]
           e  == [d EXCEPT !.pending = @ \cup {s}]
<1>1. /\ DagOK(d) /\ c \in Commitors /\ c.q \in Seq(Slot)
      /\ \A b \in c.pulled : Cached(d, b.header.slot)
  BY DEF Coherent, Commitors
<1>2. s \in Slot /\ Tail(c.q) \in Seq(Slot)
  BY <1>1
<1>3. Coherent(d, c1)
  <2>1. c1 \in Commitors /\ c1.pc = "pull" /\ c1.pulled = c.pulled
    BY <1>1, <1>2 DEF Commitors
  <2> HIDE DEF c1
  <2> QED
    BY <1>1, <2>1 DEF Coherent
<1>4. Cached(d, s) => Coherent(d, c2)
  <2> SUFFICES ASSUME Cached(d, s) PROVE Coherent(d, c2)
    OBVIOUS
  <2> DEFINE b == BlockAt(d, s)
  <2>1. b \in Block /\ b.header.slot = s
    BY <1>1, <1>2, BlockAtSlot
  <2> HIDE DEF b, s
  <2>2. /\ c2 \in Commitors /\ c2.pc = "visit" /\ c2.pulled = c.pulled
        /\ c2.q = c.q /\ c2.cur = b
    BY <1>1, <2>1 DEF Commitors, b
  <2> HIDE DEF c2
  <2> QED
    BY <1>1, <2>1, <2>2 DEF Coherent
<1>5. ~Committed(d, s) /\ ~Cached(d, s) => Coherent(e, c3)
  <2> SUFFICES ASSUME ~Committed(d, s), ~Cached(d, s) PROVE Coherent(e, c3)
    OBVIOUS
  <2> HIDE DEF s
  <2>1. /\ c3 \in Commitors /\ c3.pc = "wait" /\ c3.pulled = c.pulled /\ c3.q = c.q
    BY <1>1 DEF Commitors
  <2>2. /\ e \in Dags /\ e.cache = d.cache /\ e.cacheMark = d.cacheMark
        /\ s \in e.pending
    BY <1>1, <1>2 DEF DagOK, Dags
  <2> HIDE DEF e, c3
  <2>3. \A t : (Cached(e, t) <=> Cached(d, t)) /\ (Committed(e, t) <=> Committed(d, t))
    BY <2>2 DEF Cached, Committed, Index
  <2>4. DagOK(e)
    BY <1>1, <2>2 DEF DagOK, Aligned
  <2>5. Head(c3.q) = s
    BY <2>1 DEF s
  <2> QED
    BY <1>1, <2>1, <2>2, <2>3, <2>4, <2>5 DEF Coherent
<1> QED
  BY <1>3, <1>4, <1>5

\* The rest of the turn: the block at hand joins what was pulled.
LEMMA CoherentVisit ==
  ASSUME NEW d, NEW c, Coherent(d, c), c.pc = "visit", NEW U
  PROVE  Coherent(d, Visit(c, U))
<1> DEFINE v == Visit(c, U)
<1>1. /\ c \in Commitors /\ c.cur \in Block /\ c.q # <<>> /\ DagOK(d)
      /\ Cached(d, c.cur.header.slot)
      /\ \A b \in c.pulled : Cached(d, b.header.slot)
  BY DEF Coherent
<1>2. v \in Commitors /\ v.pc = "pull" /\ v.pulled = c.pulled \cup {c.cur}
  BY <1>1, VisitType
<1> HIDE DEF v
<1>3. Coherent(d, v)
  BY <1>1, <1>2 DEF Coherent
<1> QED
  BY <1>3 DEF v

\* commit2 has executed and asks for the clean-up.
LEMMA CoherentExecuted ==
  ASSUME NEW d, NEW c, Coherent(d, c)
  PROVE  Coherent(d, [c EXCEPT !.pc = "gc"])
<1> DEFINE v == [c EXCEPT !.pc = "gc"]
<1>1. v \in Commitors /\ v.pc = "gc" /\ v.pulled = c.pulled
  BY DEF Coherent, Commitors
<1> HIDE DEF v
<1>2. Coherent(d, v)
  BY <1>1 DEF Coherent
<1> QED
  BY <1>2 DEF v

\* handleCleanReq cuts what the commitor, done with it, has pulled.
LEMMA CoherentClean ==
  ASSUME NEW d, NEW c, Coherent(d, c), d.pendingCommit # Nil
  PROVE  Coherent(Clean(d, Watermark(c.pulled)), IdleCommitor)
<1> DEFINE wm == Watermark(c.pulled)
<1>1. /\ DagOK(d) /\ c.pulled \in SUBSET Block
      /\ \A b \in c.pulled : Cached(d, b.header.slot)
  BY DEF Coherent, Commitors
<1>2. \A a \in DOMAIN wm : /\ a \in Node
                           /\ wm[a] \in Nat
                           /\ wm[a] - d.cacheMark[a] \in 1 .. Len(d.cache[a])
  BY <1>1, WatermarkType
<1> HIDE DEF wm
<1>3. DagOK(Clean(d, wm))
  BY <1>1, <1>2, CleanOK
<1> QED
  BY <1>3, CoherentIdle DEF wm

-----------------------------------------------------------------------------
\* What a message carries, by its type.
LEMMA MsgFields ==
  ASSUME NEW m \in Msgs
  PROVE  /\ m.type = "propose" => m.block \in Block
         /\ m.type = "echo" => m.author \in Node /\ m.header \in Header
         /\ m.type = "elect" => m.author \in Node /\ m.round \in Nat
  BY DEF Msgs, ProposeMsgs, EchoMsgs, ElectMsgs

\* Sender.Run keeps the streams and the table of connections well formed.
LEMMA TransmitType ==
  ASSUME TypeOK, NEW p \in Node, NEW to \in SUBSET Node, NEW m \in Msgs,
         Transmit(p, to, m)
  PROVE  /\ link' \in [Node -> [Node -> Seq(Msgs)]]
         /\ up' \in [Node -> SUBSET Node]
<1>1. PICK failed \in SUBSET {q \in to \ up[p] : <<p, q>> \in Flaky} :
        /\ link' = [link EXCEPT ![p] =
                      [q \in Node |-> IF q \in to \ failed
                                        THEN Append(link[p][q], m) ELSE link[p][q]]]
        /\ up' = [up EXCEPT ![p] = @ \cup (to \ failed)]
  BY DEF Transmit
<1> DEFINE row == [q \in Node |-> IF q \in to \ failed
                                    THEN Append(link[p][q], m) ELSE link[p][q]]
<1>2. row \in [Node -> Seq(Msgs)]
  BY DEF TypeOK
<1> HIDE DEF row
<1>3. link' = [link EXCEPT ![p] = row]
  BY <1>1 DEF row
<1>4. link' \in [Node -> [Node -> Seq(Msgs)]]
  BY <1>2, <1>3 DEF TypeOK
<1>5. up' \in [Node -> SUBSET Node]
  BY <1>1 DEF TypeOK
<1> QED
  BY <1>4, <1>5

\* Transmitor.Send to everybody.
LEMMA BroadcastType ==
  ASSUME TypeOK, NEW p \in Node, NEW m \in ProposeMsgs \cup ElectMsgs, Broadcast(p, m)
  PROVE  /\ link' \in [Node -> [Node -> Seq(Msgs)]]
         /\ up' \in [Node -> SUBSET Node]
         /\ delayed' \in [Node -> SUBSET ProposeMsgs]
<1>1. m \in Msgs /\ Others(p) \in SUBSET Node
  BY DEF Msgs, Others, Active
<1>2. CASE DDos /\ m.type = "propose"
  <2>1. m \in ProposeMsgs
    BY <1>2 DEF ElectMsgs
  <2>2. delayed' = [delayed EXCEPT ![p] = @ \cup {m}] /\ UNCHANGED <<link, up>>
    BY <1>2 DEF Broadcast
  <2> QED
    BY <2>1, <2>2 DEF TypeOK
<1>3. CASE ~(DDos /\ m.type = "propose")
  <2>1. Transmit(p, Others(p), m) /\ delayed' = delayed
    BY <1>3 DEF Broadcast
  <2>2. /\ link' \in [Node -> [Node -> Seq(Msgs)]]
        /\ up' \in [Node -> SUBSET Node]
    BY <1>1, <2>1, TransmitType
  <2> QED
    BY <2>1, <2>2 DEF TypeOK
<1> QED
  BY <1>2, <1>3

\* propose, with the arguments Run and handleEcho call it with.
LEMMA ProposeType ==
  ASSUME TypeOK, NEW p \in Node, DagOK(dag[p]),
         NEW height \in Nat, NEW round \in Nat, NEW old \in Nat,
         Propose(p, height, round, old)
  PROVE  /\ link' \in [Node -> [Node -> Seq(Msgs)]]
         /\ up' \in [Node -> SUBSET Node]
         /\ delayed' \in [Node -> SUBSET ProposeMsgs]
         /\ out' \in [Node -> Seq(ProposeMsgs \cup ElectMsgs)]
         /\ proposed' \in [Node -> Seq(Block)]
<1> DEFINE b == GenerateBlock(dag[p], p, height, round, old)
           elects == b.header.round > round /\ b.header.round % 2 = 1
           elect == [type |-> "elect", author |-> p, round |-> round]
           prop == [type |-> "propose", block |-> b]
           first == IF elects THEN <<elect>> ELSE <<>>
           msgs == first \o <<prop>>
<1>1. b \in Block
  BY GenerateBlockType
<1>2. CASE height > Last[p]
  BY <1>2 DEF Propose, TypeOK, netVars
<1>3. CASE ~(height > Last[p])
  <2>1. /\ out' = [out EXCEPT ![p] = msgs]
        /\ proposed' = [proposed EXCEPT ![p] = Append(@, b)]
        /\ Broadcast(p, Head(msgs))
    BY <1>3 DEF Propose
  <2> HIDE DEF b, elects
  <2> DEFINE M == ProposeMsgs \cup ElectMsgs
  <2>2. elect \in M /\ prop \in M
    BY <1>1 DEF ProposeMsgs, ElectMsgs
  <2> HIDE DEF elect, prop, M
  <2>3. first \in Seq(M) /\ <<prop>> \in Seq(M) /\ <<prop>> # <<>>
    BY <2>2
  <2> HIDE DEF first
  <2>31. msgs \in Seq(M) /\ Len(msgs) = Len(first) + 1 /\ Len(first) \in Nat
    BY <2>3
  <2> HIDE DEF msgs
  <2>32. msgs # <<>>
    BY <2>31
  <2>33. msgs \in Seq(M) /\ Head(msgs) \in M
    BY <2>31, <2>32
  <2>4. /\ msgs \in Seq(ProposeMsgs \cup ElectMsgs)
        /\ Head(msgs) \in ProposeMsgs \cup ElectMsgs
    BY <2>33 DEF M
  <2>5. /\ link' \in [Node -> [Node -> Seq(Msgs)]]
        /\ up' \in [Node -> SUBSET Node]
        /\ delayed' \in [Node -> SUBSET ProposeMsgs]
    BY <2>1, <2>4, BroadcastType
  <2>6. /\ out' \in [Node -> Seq(ProposeMsgs \cup ElectMsgs)]
        /\ proposed' \in [Node -> Seq(Block)]
    <3>1. /\ out \in [Node -> Seq(ProposeMsgs \cup ElectMsgs)]
          /\ proposed \in [Node -> Seq(Block)]
      BY DEF TypeOK
    <3> DEFINE longer == Append(proposed[p], b)
    <3>2. longer \in Seq(Block)
      BY <1>1, <3>1
    <3>3. proposed' = [proposed EXCEPT ![p] = longer]
      BY <2>1
    <3> HIDE DEF longer
    <3>4. proposed' \in [Node -> Seq(Block)]
      BY <3>1, <3>2, <3>3
    <3>5. out' \in [Node -> Seq(ProposeMsgs \cup ElectMsgs)]
      BY <2>1, <2>4, <3>1
    <3> QED
      BY <3>4, <3>5
  <2> QED
    BY <2>5, <2>6
<1> QED
  BY <1>2, <1>3

-----------------------------------------------------------------------------
\* The inductive invariant.
LoomInv == TypeOK /\ \A p \in Node : Coherent(dag[p], com[p])

\* A step of one node that leaves its own DAG and commitor coherent.
LEMMA NodeStep ==
  ASSUME LoomInv, NEW p \in Node, NEW e, NEW c, Coherent(e, c),
         dag' = [dag EXCEPT ![p] = e], com' = [com EXCEPT ![p] = c]
  PROVE  /\ dag' \in [Node -> Dags] /\ com' \in [Node -> Commitors]
         /\ \A q \in Node : Coherent(dag'[q], com'[q])
<1>1. e \in Dags /\ c \in Commitors
  BY DEF Coherent, DagOK
<1>2. dag \in [Node -> Dags] /\ com \in [Node -> Commitors]
  BY DEF LoomInv, TypeOK
<1>3. dag' \in [Node -> Dags] /\ com' \in [Node -> Commitors]
  BY <1>1, <1>2
<1>4. \A q \in Node : /\ dag'[q] = IF q = p THEN e ELSE dag[q]
                      /\ com'[q] = IF q = p THEN c ELSE com[q]
  BY <1>2
<1>5. \A q \in Node : Coherent(dag'[q], com'[q])
  BY <1>4 DEF LoomInv
<1> QED
  BY <1>3, <1>5

\* What LoomInv says of one node.
LEMMA NodeInv ==
  ASSUME LoomInv, NEW p \in Node
  PROVE  /\ TypeOK
         /\ Coherent(dag[p], com[p])
         /\ DagOK(dag[p])
         /\ dag[p] \in Dags
         /\ com[p] \in Commitors
  BY DEF LoomInv, Coherent, DagOK

\* The state in which every node starts.
LEMMA LoomInit == Init => LoomInv
<1> SUFFICES ASSUME Init PROVE LoomInv
  OBVIOUS
<1>1. NewDag \in Dags /\ Aligned(NewDag)
  BY DEF NewDag, Dags, Aligned
<1>2. Coherent(NewDag, IdleCommitor)
  BY <1>1, CoherentIdle DEF DagOK
<1>3. IdleCommitor \in Commitors
  BY <1>2 DEF Coherent
<1>4. NewAggregator \in Aggregators
  BY DEF NewAggregator, Aggregators
<1>5. TypeOK
  BY <1>1, <1>3, <1>4 DEF Init, TypeOK
<1>6. \A p \in Node : Coherent(dag[p], com[p])
  BY <1>2 DEF Init
<1> QED
  BY <1>5, <1>6 DEF LoomInv

-----------------------------------------------------------------------------
(* One lemma per group of actions.                                         *)

\* The steps of the network and the core that reach neither DAG nor commitor
\* keep the invariant when they keep the types of what they change.
LEMMA QuietStep ==
  ASSUME LoomInv, UNCHANGED <<dag, com>>,
         /\ link' \in [Node -> [Node -> Seq(Msgs)]]
         /\ up' \in [Node -> SUBSET Node]
         /\ delayed' \in [Node -> SUBSET ProposeMsgs]
         /\ recvCh' \in [Node -> Seq(Msgs)]
         /\ out' \in [Node -> Seq(ProposeMsgs \cup ElectMsgs)]
         /\ voteAg' \in [Node -> [0 .. MaxHeight -> Aggregators]]
         /\ proposed' \in [Node -> Seq(Block)],
         UNCHANGED <<electAg, submitCh, halt, coin>>
  PROVE  LoomInv'
  BY DEF LoomInv, TypeOK

\* The streams: Receive and the timers of delayed proposals.
LEMMA NetworkStep ==
  ASSUME LoomInv,
         \/ \E p, q \in Node : Receive(p, q)
         \/ \E p \in Node : \E m \in delayed[p] : Expire(p, m)
  PROVE  LoomInv'
<1>1. ASSUME NEW p \in Node, NEW q \in Node, Receive(p, q) PROVE LoomInv'
  <2>1. link[p][q] \in Seq(Msgs) /\ link[p][q] # <<>>
    BY <1>1 DEF Receive, LoomInv, TypeOK
  <2>2. Head(link[p][q]) \in Msgs /\ Tail(link[p][q]) \in Seq(Msgs)
    BY <2>1
  <2>3. link' \in [Node -> [Node -> Seq(Msgs)]] /\ recvCh' \in [Node -> Seq(Msgs)]
    <3>1. /\ link \in [Node -> [Node -> Seq(Msgs)]] /\ recvCh \in [Node -> Seq(Msgs)]
          /\ link' = [link EXCEPT ![p][q] = Tail(link[p][q])]
          /\ recvCh' = [recvCh EXCEPT ![q] = Append(recvCh[q], Head(link[p][q]))]
      BY <1>1 DEF Receive, LoomInv, TypeOK
    <3> DEFINE rest  == Tail(link[p][q])
               whole == Append(recvCh[q], Head(link[p][q]))
    <3>2. rest \in Seq(Msgs) /\ whole \in Seq(Msgs)
      BY <2>2, <3>1
    <3> HIDE DEF rest, whole
    <3>3. link' = [link EXCEPT ![p][q] = rest] /\ recvCh' = [recvCh EXCEPT ![q] = whole]
      BY <3>1 DEF rest, whole
    <3>4. recvCh' \in [Node -> Seq(Msgs)]
      BY <3>1, <3>2, <3>3
    <3>5. link \in [Node -> [Node -> Seq(Msgs)]]
      BY <3>1
    <3> DEFINE row == [link[p] EXCEPT ![q] = rest]
    <3>6. link' = [link EXCEPT ![p] = row] /\ row \in [Node -> Seq(Msgs)]
      BY <3>2, <3>3, <3>5
    <3> HIDE DEF row
    <3>7. link' \in [Node -> [Node -> Seq(Msgs)]]
      BY <3>5, <3>6
    <3> QED
      BY <3>4, <3>7
  <2> QED
    BY <1>1, <2>3, QuietStep DEF Receive, LoomInv, TypeOK, coreVars
<1>2. ASSUME NEW p \in Node, NEW m \in delayed[p], Expire(p, m) PROVE LoomInv'
  <2>1. m \in ProposeMsgs /\ m \in Msgs /\ Others(p) \in SUBSET Node
    BY DEF LoomInv, TypeOK, Msgs, Others, Active
  <2>2. /\ link' \in [Node -> [Node -> Seq(Msgs)]]
        /\ up' \in [Node -> SUBSET Node]
    BY <1>2, <2>1, TransmitType DEF Expire, LoomInv
  <2>3. delayed' \in [Node -> SUBSET ProposeMsgs]
    BY <1>2 DEF Expire, LoomInv, TypeOK
  <2> QED
    BY <1>2, <2>2, <2>3, QuietStep DEF Expire, LoomInv, TypeOK, coreVars
<1> QED
  BY <1>1, <1>2

\* A message at the head of recvCh.
LEMMA HeadOfRecv ==
  ASSUME TypeOK, NEW p \in Node, recvCh[p] # <<>>
  PROVE  /\ Head(recvCh[p]) \in Msgs
         /\ Tail(recvCh[p]) \in Seq(Msgs)
         /\ [recvCh EXCEPT ![p] = Tail(@)] \in [Node -> Seq(Msgs)]
<1>1. recvCh \in [Node -> Seq(Msgs)] /\ recvCh[p] \in Seq(Msgs)
  BY DEF TypeOK
<1>2. Head(recvCh[p]) \in Msgs /\ Tail(recvCh[p]) \in Seq(Msgs)
  BY <1>1
<1> QED
  BY <1>1, <1>2

\* Run and the own messages of propose.
LEMMA ProposerStep ==
  ASSUME LoomInv, NEW p \in Node, Start(p) \/ SelfEnqueue(p) \/ HandleEcho(p)
  PROVE  LoomInv'
<1>0. TypeOK /\ DagOK(dag[p])
  BY NodeInv
<1>1. CASE Start(p)
  <2>1. /\ link' \in [Node -> [Node -> Seq(Msgs)]]
        /\ up' \in [Node -> SUBSET Node]
        /\ delayed' \in [Node -> SUBSET ProposeMsgs]
        /\ out' \in [Node -> Seq(ProposeMsgs \cup ElectMsgs)]
        /\ proposed' \in [Node -> Seq(Block)]
    BY <1>0, <1>1, ProposeType DEF Start
  <2> QED
    BY <1>1, <2>1, QuietStep DEF Start, LoomInv, TypeOK
<1>2. CASE SelfEnqueue(p)
  <2> DEFINE M == ProposeMsgs \cup ElectMsgs
  <2>1. out[p] \in Seq(M) /\ out[p] # <<>> /\ out \in [Node -> Seq(M)]
    BY <1>0, <1>2 DEF SelfEnqueue, TypeOK
  <2>2. M \subseteq Msgs
    BY DEF Msgs
  <2> HIDE DEF M
  <2>3. Head(out[p]) \in M /\ Tail(out[p]) \in Seq(M) /\ (Len(out[p]) > 1 => out[p][2] \in M)
    BY <2>1
  <2>4. out' \in [Node -> Seq(M)]
    BY <1>2, <2>1, <2>3 DEF SelfEnqueue
  <2>5. recvCh' \in [Node -> Seq(Msgs)]
    BY <1>0, <1>2, <2>2, <2>3 DEF SelfEnqueue, TypeOK
  <2>6. /\ link' \in [Node -> [Node -> Seq(Msgs)]]
        /\ up' \in [Node -> SUBSET Node]
        /\ delayed' \in [Node -> SUBSET ProposeMsgs]
    <3>1. CASE Len(out[p]) > 1
      <4>1. Broadcast(p, out[p][2]) /\ out[p][2] \in M
        BY <1>2, <2>3, <3>1 DEF SelfEnqueue
      <4> QED
        BY <1>0, <4>1, BroadcastType DEF M
    <3>2. CASE ~(Len(out[p]) > 1)
      BY <1>0, <1>2, <3>2 DEF SelfEnqueue, TypeOK, netVars
    <3> QED
      BY <3>1, <3>2
  <2>7. out' \in [Node -> Seq(ProposeMsgs \cup ElectMsgs)]
    BY <2>4 DEF M
  <2> QED
    BY <1>2, <2>5, <2>6, <2>7, QuietStep DEF SelfEnqueue, LoomInv, TypeOK
<1>3. CASE HandleEcho(p)
  <2> DEFINE m  == Head(recvCh[p])
             h  == m.header.slot.height
             ag == Push(voteAg[p][h], m.author)
  <2>1. /\ recvCh[p] # <<>> /\ m.type = "echo"
        /\ recvCh' = [recvCh EXCEPT ![p] = Tail(@)]
        /\ voteAg' = [voteAg EXCEPT ![p][h] = Take(ag)]
        /\ IF Enough(ag)
             THEN Propose(p, h + 1, m.header.round, m.header.firstRefH)
             ELSE UNCHANGED <<netVars, out, proposed>>
        /\ UNCHANGED <<electAg, dag, submitCh, com, halt, coin, log>>
    BY <1>3, ZenonT(30) DEF HandleEcho
  <2>2. m \in Msgs /\ recvCh' \in [Node -> Seq(Msgs)]
    BY <1>0, <2>1, HeadOfRecv
  <2>3. m.author \in Node /\ m.header \in Header
    <3> HIDE DEF m
    <3> QED
      BY <2>1, <2>2, MsgFields
  <2> HIDE DEF m
  <2>4. h \in Nat /\ m.header.round \in Nat /\ m.header.firstRefH \in Nat
    BY <2>3 DEF Header, Slot
  <2> HIDE DEF h
  <2>5. voteAg' \in [Node -> [0 .. MaxHeight -> Aggregators]]
    <3>1. voteAg \in [Node -> [0 .. MaxHeight -> Aggregators]]
      BY <1>0 DEF TypeOK
    <3>2. h \in 0 .. MaxHeight => Take(ag) \in Aggregators
      <4> SUFFICES ASSUME h \in 0 .. MaxHeight PROVE Take(ag) \in Aggregators
        OBVIOUS
      <4>1. voteAg[p][h] \in Aggregators
        BY <3>1
      <4>2. ag \in Aggregators
        BY <2>3, <4>1 DEF Push, Aggregators
      <4>3. HightThreshold \in Nat
        BY NAssumption DEF HightThreshold
      <4> HIDE DEF ag
      <4> QED
        BY <4>2, <4>3 DEF Take, Enough, Aggregators
    <3> HIDE DEF ag
    <3> QED
      BY <2>1, <3>1, <3>2
  <2> HIDE DEF ag
  <2>6. /\ link' \in [Node -> [Node -> Seq(Msgs)]]
        /\ up' \in [Node -> SUBSET Node]
        /\ delayed' \in [Node -> SUBSET ProposeMsgs]
        /\ out' \in [Node -> Seq(ProposeMsgs \cup ElectMsgs)]
        /\ proposed' \in [Node -> Seq(Block)]
    <3>1. CASE Enough(ag)
      <4>1. h + 1 \in Nat
        BY <2>4
      <4>2. Propose(p, h + 1, m.header.round, m.header.firstRefH)
        BY <2>1, <3>1
      <4> QED
        BY <1>0, <2>4, <4>1, <4>2, ProposeType
    <3>2. CASE ~Enough(ag)
      BY <1>0, <2>1, <3>2 DEF TypeOK, netVars
    <3> QED
      BY <3>1, <3>2
  <2> QED
    BY <2>1, <2>2, <2>5, <2>6, QuietStep
<1> QED
  BY <1>1, <1>2, <1>3

\* handlePropose: the block enters the DAG and may wake the commitor up.
LEMMA HandleProposeStep ==
  ASSUME LoomInv, NEW p \in Node, HandlePropose(p)
  PROVE  LoomInv'
<1> DEFINE b == Head(recvCh[p]).block
           s == b.header.slot
           asked == ~Committed(dag[p], s) /\ s \in dag[p].pending
           echo == [type |-> "echo", author |-> p, header |-> b.header]
           d == PushBlock(dag[p], b)
           woken == /\ ~Committed(dag[p], s) /\ s \in dag[p].pending
                    /\ com[p].pc = "wait" /\ Head(com[p].q) = s
           c == IF woken THEN [com[p] EXCEPT !.pc = "visit", !.cur = b] ELSE com[p]
<1>0. /\ TypeOK /\ Coherent(dag[p], com[p])
      /\ dag \in [Node -> Dags] /\ com \in [Node -> Commitors]
      /\ halt \in [Node -> {"no", "panic", "race", "wedged"}]
  BY NodeInv DEF TypeOK
<1>1. /\ recvCh[p] # <<>> /\ Head(recvCh[p]).type = "propose"
      /\ recvCh' = [recvCh EXCEPT ![p] = Tail(@)]
      /\ Transmit(p, {s.author}, echo)
      /\ dag' = [dag EXCEPT ![p] = PushBlock(@, b)]
      /\ com' = IF asked /\ Waiting(p, s)
                  THEN [com EXCEPT ![p].pc = "visit", ![p].cur = b]
                  ELSE com
      /\ halt' = IF asked /\ ~Waiting(p, s)
                   THEN [halt EXCEPT ![p] = "wedged"]
                   ELSE halt
      /\ UNCHANGED <<delayed, coreVars, submitCh, coin, log>>
  BY DEF HandlePropose
<1>2. Head(recvCh[p]) \in Msgs /\ recvCh' \in [Node -> Seq(Msgs)]
  BY <1>0, <1>1, HeadOfRecv
<1>3. b \in Block
  BY <1>1, <1>2, MsgFields
<1> HIDE DEF b
<1>4. s.author \in Node /\ b.header \in Header
  BY <1>3, BlockFields
<1>5. /\ link' \in [Node -> [Node -> Seq(Msgs)]]
      /\ up' \in [Node -> SUBSET Node]
  <2>1. echo \in Msgs /\ {s.author} \in SUBSET Node
    BY <1>4 DEF Msgs, EchoMsgs
  <2> HIDE DEF echo, s
  <2> QED
    BY <1>0, <1>1, <2>1, TransmitType
<1>6. Coherent(d, c)
  BY <1>0, <1>3, CoherentPush
<1>7. dag' = [dag EXCEPT ![p] = d]
  BY <1>1
<1>8. com' = [com EXCEPT ![p] = c]
  <2> HIDE DEF s
  <2>1. CASE woken
    <3>1. com' = [com EXCEPT ![p].pc = "visit", ![p].cur = b]
      BY <1>1, <2>1 DEF Waiting
    <3> QED
      BY <1>0, <2>1, <3>1
  <2>2. CASE ~woken
    <3>1. com' = com
      BY <1>1, <2>2 DEF Waiting
    <3> QED
      BY <1>0, <2>2, <3>1
  <2> QED
    BY <2>1, <2>2
<1> HIDE DEF c, d
<1>9. /\ dag' \in [Node -> Dags] /\ com' \in [Node -> Commitors]
      /\ \A q \in Node : Coherent(dag'[q], com'[q])
  BY <1>6, <1>7, <1>8, NodeStep
<1>10. halt' \in [Node -> {"no", "panic", "race", "wedged"}]
  <2> HIDE DEF asked, s
  <2> QED
    BY <1>0, <1>1
<1> QED
  BY <1>0, <1>1, <1>2, <1>5, <1>9, <1>10, ZenonT(30) DEF LoomInv, TypeOK, coreVars

\* handleElect: the leader of the round reaches the DAG, which may submit.
LEMMA HandleElectStep ==
  ASSUME LoomInv, NEW p \in Node, HandleElect(p)
  PROVE  LoomInv'
<1> DEFINE m == Head(recvCh[p])
           r == m.round
           ag == Push(electAg[p][r], m.author)
<1>0. /\ TypeOK /\ Coherent(dag[p], com[p]) /\ DagOK(dag[p])
      /\ dag \in [Node -> Dags] /\ com \in [Node -> Commitors]
      /\ halt \in [Node -> {"no", "panic", "race", "wedged"}]
      /\ electAg \in [Node -> [Round -> Aggregators]]
      /\ submitCh \in [Node -> Seq(SubmitReqs)]
      /\ coin \in [Round -> Node \cup {NONE}]
  BY NodeInv DEF TypeOK
<1>1. /\ recvCh[p] # <<>> /\ m.type = "elect"
      /\ recvCh' = [recvCh EXCEPT ![p] = Tail(@)]
      /\ UNCHANGED <<netVars, out, voteAg, proposed, com, log>>
  BY DEF HandleElect
<1>2. m \in Msgs /\ recvCh' \in [Node -> Seq(Msgs)]
  BY <1>0, <1>1, HeadOfRecv
<1>3. m.author \in Node /\ r \in Nat
  <2> HIDE DEF m
  <2> QED
    BY <1>1, <1>2, MsgFields
<1>4. CASE ~Enough(ag)
  <2>1. /\ electAg' = [electAg EXCEPT ![p][r] = ag]
        /\ UNCHANGED <<coin, dag, submitCh, halt>>
    BY <1>4 DEF HandleElect
  <2> HIDE DEF m
  <2>2. r \in Round => ag \in Aggregators
    <3> SUFFICES ASSUME r \in Round PROVE ag \in Aggregators
      OBVIOUS
    <3>1. electAg[p][r] \in Aggregators
      BY <1>0
    <3> QED
      BY <1>3, <3>1 DEF Push, Aggregators
  <2> HIDE DEF ag, r
  <2>3. electAg' \in [Node -> [Round -> Aggregators]]
    BY <1>0, <2>1, <2>2
  <2> QED
    BY <1>0, <1>1, <1>2, <2>1, <2>3 DEF LoomInv, TypeOK, netVars
<1>5. CASE Enough(ag)
  <2>1. PICK leader \in Node :
          LET res == CommitReq(dag[p], [leader |-> leader, round |-> r])
          IN  /\ coin' = [coin EXCEPT ![r] = leader]
              /\ electAg' = [electAg EXCEPT ![p][r] = NewAggregator]
              /\ dag' = [dag EXCEPT ![p] = res.dag]
              /\ submitCh' = [submitCh EXCEPT ![p] = @ \o res.submit]
              /\ halt' = halt \/ halt' = [halt EXCEPT ![p] = "race"]
    BY <1>5 DEF HandleElect
  <2> DEFINE req == [leader |-> leader, round |-> r]
             e == CommitReq(dag[p], req).dag
             sub == CommitReq(dag[p], req).submit
  <2>2. req \in CommitReqs
    BY <1>3 DEF CommitReqs
  <2>3. /\ coin' = [coin EXCEPT ![r] = leader]
        /\ electAg' = [electAg EXCEPT ![p][r] = NewAggregator]
        /\ dag' = [dag EXCEPT ![p] = e]
        /\ submitCh' = [submitCh EXCEPT ![p] = @ \o sub]
        /\ halt' = halt \/ halt' = [halt EXCEPT ![p] = "race"]
    BY <2>1
  <2> HIDE DEF req
  <2>4. Coherent(e, com[p])
    BY <1>0, <2>2, CoherentCommit
  <2>5. sub \in Seq(SubmitReqs)
    BY <1>0, <2>2, CommitReqOK
  <2> HIDE DEF e, sub, r, ag, m
  <2>6. com' = [com EXCEPT ![p] = com[p]]
    BY <1>0, <1>1
  <2>7. /\ dag' \in [Node -> Dags] /\ com' \in [Node -> Commitors]
        /\ \A q \in Node : Coherent(dag'[q], com'[q])
    BY <2>3, <2>4, <2>6, NodeStep
  <2>8. submitCh' \in [Node -> Seq(SubmitReqs)]
    BY <1>0, <2>3, <2>5
  <2>9. NewAggregator \in Aggregators
    BY DEF NewAggregator, Aggregators
  <2>10. /\ coin' \in [Round -> Node \cup {NONE}]
         /\ electAg' \in [Node -> [Round -> Aggregators]]
         /\ halt' \in [Node -> {"no", "panic", "race", "wedged"}]
    BY <1>0, <2>3, <2>9
  <2> QED
    BY <1>0, <1>1, <1>2, <2>7, <2>8, <2>10 DEF LoomInv, TypeOK, netVars
<1> QED
  BY <1>4, <1>5

\* The steps of the commitor goroutine.
LEMMA CommitorStepOK ==
  ASSUME LoomInv, NEW p \in Node, CommitorStep(p)
  PROVE  LoomInv'
<1>0. /\ TypeOK /\ Coherent(dag[p], com[p]) /\ DagOK(dag[p])
      /\ dag \in [Node -> Dags] /\ com \in [Node -> Commitors]
      /\ submitCh \in [Node -> Seq(SubmitReqs)]
      /\ dag = [dag EXCEPT ![p] = dag[p]] /\ com = [com EXCEPT ![p] = com[p]]
  BY NodeInv DEF TypeOK
<1>1. CASE ReceiveSubmit(p)
  <2> DEFINE c == StartCommit(Head(submitCh[p]))
  <2>1. /\ submitCh[p] # <<>> /\ submitCh[p] \in Seq(SubmitReqs)
        /\ com' = [com EXCEPT ![p] = c] /\ dag' = dag
        /\ submitCh' = [submitCh EXCEPT ![p] = Tail(@)]
    BY <1>0, <1>1 DEF ReceiveSubmit
  <2>2. Head(submitCh[p]) \in SubmitReqs /\ Tail(submitCh[p]) \in Seq(SubmitReqs)
    BY <2>1
  <2>3. Coherent(dag[p], c)
    BY <1>0, <2>2, CoherentStart
  <2> HIDE DEF c
  <2>4. /\ dag' \in [Node -> Dags] /\ com' \in [Node -> Commitors]
        /\ \A q \in Node : Coherent(dag'[q], com'[q])
    BY <1>0, <2>1, <2>3, NodeStep
  <2>5. submitCh' \in [Node -> Seq(SubmitReqs)]
    BY <1>0, <2>1, <2>2
  <2> QED
    BY <1>0, <1>1, <2>4, <2>5 DEF ReceiveSubmit, LoomInv, TypeOK, netVars, coreVars
<1>2. CASE PullBlock(p)
  <2> DEFINE s  == Head(com[p].q)
             c1 == [com[p] EXCEPT !.q = Tail(@)]
             c2 == [com[p] EXCEPT !.pc = "visit", !.cur = BlockAt(dag[p], s)]
             c3 == [com[p] EXCEPT !.pc = "wait"]
             e  == [dag[p] EXCEPT !.pending = @ \cup {s}]
  <2>1. /\ Coherent(dag[p], c1)
        /\ Cached(dag[p], s) => Coherent(dag[p], c2)
        /\ ~Committed(dag[p], s) /\ ~Cached(dag[p], s) => Coherent(e, c3)
    BY <1>0, <1>2, CoherentPull DEF PullBlock
  <2>2. \/ dag' = dag /\ com' = [com EXCEPT ![p].q = Tail(@)]
        \/ /\ Cached(dag[p], s) /\ dag' = dag
           /\ com' = [com EXCEPT ![p].pc = "visit", ![p].cur = BlockAt(dag[p], s)]
        \/ /\ ~Committed(dag[p], s) /\ ~Cached(dag[p], s)
           /\ com' = [com EXCEPT ![p].pc = "wait"]
           /\ dag' = [dag EXCEPT ![p].pending = @ \cup {s}]
    BY <1>2 DEF PullBlock
  <2>3. \E d, c : /\ Coherent(d, c)
                  /\ dag' = [dag EXCEPT ![p] = d] /\ com' = [com EXCEPT ![p] = c]
    <3>1. CASE dag' = dag /\ com' = [com EXCEPT ![p].q = Tail(@)]
      <4>1. com' = [com EXCEPT ![p] = c1] /\ dag' = [dag EXCEPT ![p] = dag[p]]
        BY <1>0, <3>1
      <4> HIDE DEF c1
      <4> QED
        BY <2>1, <4>1
    <3>2. CASE /\ Cached(dag[p], s) /\ dag' = dag
               /\ com' = [com EXCEPT ![p].pc = "visit", ![p].cur = BlockAt(dag[p], s)]
      <4>1. com' = [com EXCEPT ![p] = c2] /\ dag' = [dag EXCEPT ![p] = dag[p]]
        BY <1>0, <3>2
      <4> HIDE DEF c2
      <4> QED
        BY <2>1, <3>2, <4>1
    <3>3. CASE /\ ~Committed(dag[p], s) /\ ~Cached(dag[p], s)
               /\ com' = [com EXCEPT ![p].pc = "wait"]
               /\ dag' = [dag EXCEPT ![p].pending = @ \cup {s}]
      <4>1. com' = [com EXCEPT ![p] = c3] /\ dag' = [dag EXCEPT ![p] = e]
        BY <1>0, <3>3
      <4> HIDE DEF c3, e
      <4> QED
        BY <2>1, <3>3, <4>1
    <3> QED
      BY <2>2, <3>1, <3>2, <3>3
  <2>4. /\ dag' \in [Node -> Dags] /\ com' \in [Node -> Commitors]
        /\ \A q \in Node : Coherent(dag'[q], com'[q])
    BY <2>3, NodeStep
  <2> QED
    BY <1>0, <1>2, <2>4 DEF PullBlock, LoomInv, TypeOK, netVars, coreVars
<1>3. CASE VisitBlock(p)
  <2> DEFINE c == Visit(com[p], dag[p].uncommitted)
  <2>1. com' = [com EXCEPT ![p] = c] /\ dag' = [dag EXCEPT ![p] = dag[p]]
    BY <1>0, <1>3 DEF VisitBlock
  <2>2. Coherent(dag[p], c)
    BY <1>0, <1>3, CoherentVisit DEF VisitBlock
  <2> HIDE DEF c
  <2>3. /\ dag' \in [Node -> Dags] /\ com' \in [Node -> Commitors]
        /\ \A q \in Node : Coherent(dag'[q], com'[q])
    BY <2>1, <2>2, NodeStep
  <2> QED
    BY <1>0, <1>3, <2>3 DEF VisitBlock, LoomInv, TypeOK, netVars, coreVars
<1>4. CASE Execute(p)
  <2> DEFINE c == IF com[p].pulled = {} THEN IdleCommitor ELSE [com[p] EXCEPT !.pc = "gc"]
  <2>1. com' = [com EXCEPT ![p] = c] /\ dag' = [dag EXCEPT ![p] = dag[p]]
    <3>1. CASE com[p].pulled = {}
      BY <1>0, <1>4, <3>1 DEF Execute
    <3>2. CASE com[p].pulled # {}
      BY <1>0, <1>4, <3>2 DEF Execute
    <3> QED
      BY <3>1, <3>2
  <2>2. Coherent(dag[p], c)
    BY <1>0, CoherentIdle, CoherentExecuted
  <2> HIDE DEF c
  <2>3. /\ dag' \in [Node -> Dags] /\ com' \in [Node -> Commitors]
        /\ \A q \in Node : Coherent(dag'[q], com'[q])
    BY <2>1, <2>2, NodeStep
  <2> QED
    BY <1>0, <1>4, <2>3 DEF Execute, LoomInv, TypeOK, netVars, coreVars
<1>5. CASE CleanCache(p)
  <2>1. CASE dag[p].pendingCommit = Nil
    <3>1. UNCHANGED <<dag, com>> /\ halt' = [halt EXCEPT ![p] = "panic"]
      BY <1>5, <2>1 DEF CleanCache
    <3> QED
      BY <1>0, <1>5, <3>1 DEF CleanCache, LoomInv, TypeOK, netVars, coreVars
  <2>2. CASE dag[p].pendingCommit # Nil
    <3> DEFINE e == Clean(dag[p], Watermark(com[p].pulled))
    <3>1. /\ dag' = [dag EXCEPT ![p] = e] /\ com' = [com EXCEPT ![p] = IdleCommitor]
          /\ halt' = halt
      BY <1>5, <2>2 DEF CleanCache
    <3>2. Coherent(e, IdleCommitor)
      BY <1>0, <2>2, CoherentClean
    <3> HIDE DEF e
    <3>3. /\ dag' \in [Node -> Dags] /\ com' \in [Node -> Commitors]
          /\ \A q \in Node : Coherent(dag'[q], com'[q])
      BY <3>1, <3>2, NodeStep
    <3> QED
      BY <1>0, <1>5, <3>1, <3>3 DEF CleanCache, LoomInv, TypeOK, netVars, coreVars
  <2> QED
    BY <2>1, <2>2
<1> QED
  BY <1>1, <1>2, <1>3, <1>4, <1>5 DEF CommitorStep

-----------------------------------------------------------------------------
\* Every step, of whichever goroutine, keeps the invariant.
LEMMA LoomStep == LoomInv /\ [Next]_vars => LoomInv'
<1> SUFFICES ASSUME LoomInv, [Next]_vars PROVE LoomInv'
  OBVIOUS
<1>1. ASSUME NEW p \in Node, CoreStep(p) PROVE LoomInv'
  BY <1>1, ProposerStep, HandleProposeStep, HandleElectStep DEF CoreStep
<1>2. ASSUME NEW p \in Node, CommitorStep(p) PROVE LoomInv'
  BY <1>2, CommitorStepOK
<1>3. CASE \/ \E p, q \in Node : Receive(p, q)
           \/ \E p \in Node : \E m \in delayed[p] : Expire(p, m)
  BY <1>3, NetworkStep
<1>4. CASE UNCHANGED vars
  BY <1>4 DEF vars, LoomInv, TypeOK
<1> QED
  BY <1>1, <1>2, <1>3, <1>4 DEF Next

\* The invariant holds in every reachable state.
THEOREM LoomInvariant == Spec => []LoomInv
  BY LoomInit, LoomStep, PTL DEF Spec

\* Every variable of the system keeps its type; in particular handleCommitReq
\* never submits a negative height and handleRefReq never reads a nil header.
THEOREM LoomTypes == Spec => []TypeOK
<1>1. LoomInv => TypeOK
  BY DEF LoomInv
<1> QED
  BY <1>1, LoomInvariant, PTL

\* Whatever the order of pushes, pulls and clean-ups, a block sits at the index
\* of its height and a line that is not empty ends in a block.
THEOREM LoomAligned == Spec => []LinesAligned
<1>1. LoomInv => LinesAligned
  BY DEF LoomInv, LinesAligned, Coherent, DagOK
<1> QED
  BY <1>1, LoomInvariant, PTL

\* No lost wake-up between pullBlock, handleBlockPullReq and handleBlockPushReq.
THEOREM LoomWaits == Spec => []WaitRegistered
<1>1. LoomInv => WaitRegistered
  BY DEF LoomInv, WaitRegistered, Coherent, Holds
<1> QED
  BY <1>1, LoomInvariant, PTL
=============================================================================
