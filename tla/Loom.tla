-------------------------------- MODULE Loom --------------------------------
(***************************************************************************)
(* The protocol of core/: N nodes, each with a core goroutine (core.go), a *)
(* DAG goroutine (dag.go) and a commitor goroutine (commitor.go), joined   *)
(* by the transmitor (transimtor.go) and one TCP stream per pair of nodes. *)
(*                                                                         *)
(* Steps of a node interleave freely with those of other nodes, and its    *)
(* commitor's with those of its core.  Each request to the DAG is served   *)
(* in the step that makes it.                                              *)
(***************************************************************************)
EXTENDS Commitor, Aggregator

CONSTANTS
  Faults,       \* Parameters.Faults: nodes below this id never run their core
  DDos,         \* Parameters.DDos: proposals wait for a timer before they go out
  Flaky,        \* pairs <<p, q>> of which p's first attempts to reach q may fail
  RecvCap,      \* capacity of Transmitor.recvCh (1000)
  SubmitCap,    \* capacity of dag.submitCh (100)
  MaxHeight,    \* bound: no block above this height
  Last          \* bound: Last[p] is the height at which p stops proposing

ASSUME LoomAssumption ==
  /\ Faults \in Node
  /\ DDos \in BOOLEAN
  /\ Flaky \subseteq Node \X Node
  /\ RecvCap \in Nat \ {0}
  /\ SubmitCap \in Nat
  /\ MaxHeight \in Nat
  /\ Last \in [Node -> 0 .. MaxHeight]

Active == {p \in Node : p >= Faults}
Round  == 0 .. MaxHeight

ProposeMsgs == [type : {"propose"}, block : Block]
EchoMsgs    == [type : {"echo"}, author : Node, header : Header]
ElectMsgs   == [type : {"elect"}, author : Node, round : Nat]
Msgs        == ProposeMsgs \cup EchoMsgs \cup ElectMsgs

VARIABLES
  \* the network
  link,       \* link[p][q]: messages on their way from p to q, in order
  up,         \* up[p]: nodes p has an outgoing connection to (Sender.conns)
  delayed,    \* delayed[p]: proposals of p waiting for their timer (DDos)
  recvCh,     \* Transmitor.recvCh of each node
  \* the core goroutine
  out,        \* messages the running propose() still has to enqueue for itself
  voteAg,     \* Core.voteAg
  electAg,    \* Elector.ag
  \* the DAG and commitor goroutines
  dag,
  submitCh,   \* dag.submitCh
  com,
  halt,       \* why the node stands still, or "no"
  \* what the threshold signature of a round decides, once someone combines it
  coin,
  \* history
  proposed,   \* blocks each node generated, in order
  echoed,     \* slots of the blocks each node has received and echoed
  log         \* slots each node executed, in order

netVars  == <<link, up, delayed>>
coreVars == <<out, voteAg, electAg, proposed>>
vars == <<link, up, delayed, recvCh, out, voteAg, electAg, dag, submitCh, com,
          halt, coin, proposed, echoed, log>>

Init ==
  /\ link = [p \in Node |-> [q \in Node |-> <<>>]]
  /\ up = [p \in Node |-> {}]
  /\ delayed = [p \in Node |-> {}]
  /\ recvCh = [p \in Node |-> <<>>]
  /\ out = [p \in Node |-> <<>>]
  /\ voteAg = [p \in Node |-> [h \in 0 .. MaxHeight |-> NewAggregator]]
  /\ electAg = [p \in Node |-> [r \in Round |-> NewAggregator]]
  /\ dag = [p \in Node |-> NewDag]
  /\ submitCh = [p \in Node |-> <<>>]
  /\ com = [p \in Node |-> IdleCommitor]
  /\ halt = [p \in Node |-> "no"]
  /\ coin = [r \in Round |-> NONE]
  /\ proposed = [p \in Node |-> <<>>]
  /\ echoed = [p \in Node |-> {}]
  /\ log = [p \in Node |-> <<>>]

-----------------------------------------------------------------------------
(* The network.  A faulty node takes messages in and never looks at them.  *)

Others(p) == Active \ {p}

\* mutant: every message is sent twice
TransmitTwice(p, to, m) ==
  /\ link' = [link EXCEPT ![p] =
                [q \in Node |-> IF q \in to THEN @[q] \o <<m, m>> ELSE @[q]]]
  /\ up' = [up EXCEPT ![p] = @ \cup to]

\* Sender.Run: m goes to each of the nodes to.  A node without a connection is
\* dialled; if that fails the message is dropped for it and the next message
\* dials again.  A connection, once made, loses and reorders nothing.
Transmit(p, to, m) ==
  \E failed \in SUBSET {q \in to \ up[p] : <<p, q>> \in Flaky} :
    /\ link' = [link EXCEPT ![p] =
                  [q \in Node |-> IF q \in to \ failed THEN Append(@[q], m) ELSE @[q]]]
    /\ up' = [up EXCEPT ![p] = @ \cup (to \ failed)]

\* Transmitor.Send to NONE.
Broadcast(p, m) ==
  IF DDos /\ m.type = "propose"
    THEN /\ delayed' = [delayed EXCEPT ![p] = @ \cup {m}]
         /\ UNCHANGED <<link, up>>
    ELSE /\ Transmit(p, Others(p), m)
         /\ UNCHANGED delayed

\* The timer of a delayed proposal fires.
Expire(p, m) ==
  /\ delayed' = [delayed EXCEPT ![p] = @ \ {m}]
  /\ Transmit(p, Others(p), m)
  /\ UNCHANGED <<recvCh, coreVars, dag, submitCh, com, halt, coin, echoed, log>>

\* The receiving goroutines move the next message of a stream into recvCh.
Receive(p, q) ==
  /\ link[p][q] # <<>>
  /\ Len(recvCh[q]) < RecvCap
  /\ recvCh' = [recvCh EXCEPT ![q] = Append(@, Head(link[p][q]))]
  /\ link' = [link EXCEPT ![p][q] = Tail(@)]
  /\ UNCHANGED <<up, delayed, coreVars, dag, submitCh, com, halt, coin, echoed, log>>

-----------------------------------------------------------------------------
(* The core goroutine                                                      *)

\* The DAG goroutine can serve a request: the node has not stopped, and no
\* send of the DAG on a full submitCh is blocked (the element past SubmitCap).
DagServes(p) == halt[p] = "no" /\ Len(submitCh[p]) <= SubmitCap

\* The core is in its loop, not inside propose().
CoreReady(p) == DagServes(p) /\ proposed[p] # <<>> /\ out[p] = <<>>

\* propose: the block, preceded by an elect when it opens an odd round.  Each
\* is broadcast and then put on the own recvCh; the first broadcast is part of
\* this step, the rest is left to SelfEnqueue.
Propose(p, height, round, oldFirstRefH) ==
  LET b == GenerateBlock(dag[p], p, height, round, oldFirstRefH)
      elects == b.header.round > round /\ b.header.round % 2 = 1
      msgs == (IF elects
                 THEN <<[type |-> "elect", author |-> p, round |-> round]>>
                 ELSE <<>>)
              \o <<[type |-> "propose", block |-> b]>>
  IN  IF height > Last[p]
        THEN UNCHANGED <<netVars, out, proposed>>
        ELSE /\ out' = [out EXCEPT ![p] = msgs]
             /\ proposed' = [proposed EXCEPT ![p] = Append(@, b)]
             /\ Broadcast(p, Head(msgs))

\* RecvChannel() <- msg of propose and invokeElect, and the broadcast after it.
SelfEnqueue(p) ==
  /\ halt[p] = "no"
  /\ out[p] # <<>>
  /\ Len(recvCh[p]) < RecvCap
  /\ recvCh' = [recvCh EXCEPT ![p] = Append(@, Head(out[p]))]
  /\ out' = [out EXCEPT ![p] = Tail(@)]
  /\ IF Len(out[p]) > 1
       THEN Broadcast(p, out[p][2])
       ELSE UNCHANGED netVars
  /\ UNCHANGED <<voteAg, electAg, proposed, dag, submitCh, com, halt, coin, echoed, log>>

\* Run: the first block.
Start(p) ==
  /\ p \in Active
  /\ proposed[p] = <<>>
  /\ Propose(p, 0, 0, 0)
  /\ UNCHANGED <<recvCh, voteAg, electAg, dag, submitCh, com, halt, coin, echoed, log>>

\* The commitor of p waits for the block of slot s.
Waiting(p, s) == com[p].pc = "wait" /\ Head(com[p].q) = s

\* mutant: the pending pull is not answered
HandleProposeNoReply(p) ==
  /\ CoreReady(p)
  /\ recvCh[p] # <<>>
  /\ Head(recvCh[p]).type = "propose"
  /\ recvCh' = [recvCh EXCEPT ![p] = Tail(@)]
  /\ LET b == Head(recvCh[p]).block
     IN  /\ Transmit(p, {b.header.slot.author},
                     [type |-> "echo", author |-> p, header |-> b.header])
         /\ echoed' = [echoed EXCEPT ![p] = @ \cup {b.header.slot}]
         /\ dag' = [dag EXCEPT ![p] = PushBlock(@, b)]
  /\ UNCHANGED <<delayed, coreVars, submitCh, com, halt, coin, log>>

\* handlePropose and the handleBlockPushReq it causes: echo to the author, then
\* the block enters the DAG and answers a pending pull.  A registered pull that
\* nobody waits for any more blocks the DAG goroutine for good.
HandlePropose(p) ==
  /\ CoreReady(p)
  /\ recvCh[p] # <<>>
  /\ Head(recvCh[p]).type = "propose"
  /\ recvCh' = [recvCh EXCEPT ![p] = Tail(@)]
  /\ LET b == Head(recvCh[p]).block
         s == b.header.slot
         asked == ~Committed(dag[p], s) /\ s \in dag[p].pending
     IN  /\ Transmit(p, {s.author}, [type |-> "echo", author |-> p, header |-> b.header])
         /\ echoed' = [echoed EXCEPT ![p] = @ \cup {s}]
         /\ dag' = [dag EXCEPT ![p] = PushBlock(@, b)]
         /\ com' = IF asked /\ Waiting(p, s)
                     THEN [com EXCEPT ![p].pc = "visit", ![p].cur = b]
                     ELSE com
         /\ halt' = IF asked /\ ~Waiting(p, s)
                      THEN [halt EXCEPT ![p] = "wedged"]
                      ELSE halt
  /\ UNCHANGED <<delayed, coreVars, submitCh, coin, log>>

\* handleEcho: the echo that completes the quorum proposes the next block.
HandleEcho(p) ==
  /\ CoreReady(p)
  /\ recvCh[p] # <<>>
  /\ Head(recvCh[p]).type = "echo"
  /\ recvCh' = [recvCh EXCEPT ![p] = Tail(@)]
  /\ LET e  == Head(recvCh[p])
         h  == e.header.slot.height
         ag == Push(voteAg[p][h], e.author)
     IN  /\ voteAg' = [voteAg EXCEPT ![p][h] = Take(ag)]
         /\ IF Enough(ag)
              THEN Propose(p, h + 1, e.header.round, e.header.firstRefH)
              ELSE UNCHANGED <<netVars, out, proposed>>
  /\ UNCHANGED <<electAg, dag, submitCh, com, halt, coin, echoed, log>>

\* handleElect and the handleCommitReq it causes.  The leader of a round is the
\* same for every node that combines a quorum of shares.  handleCommitReq writes
\* the leaders map without a lock: if the commitor is reading it at that moment
\* the runtime may abort the process.
HandleElect(p) ==
  /\ CoreReady(p)
  /\ recvCh[p] # <<>>
  /\ Head(recvCh[p]).type = "elect"
  /\ recvCh' = [recvCh EXCEPT ![p] = Tail(@)]
  /\ LET r  == Head(recvCh[p]).round
         ag == Push(electAg[p][r], Head(recvCh[p]).author)
     IN  IF Enough(ag)
           THEN \E leader \in Node :
                  LET res == CommitReq(dag[p], [leader |-> leader, round |-> r])
                  IN  /\ coin[r] \in {NONE, leader}
                      /\ coin' = [coin EXCEPT ![r] = leader]
                      /\ electAg' = [electAg EXCEPT ![p][r] = NewAggregator]
                      /\ dag' = [dag EXCEPT ![p] = res.dag]
                      /\ submitCh' = [submitCh EXCEPT ![p] = @ \o res.submit]
                      /\ \/ UNCHANGED halt
                         \/ /\ com[p].pc = "visit"
                            /\ halt' = [halt EXCEPT ![p] = "race"]
           ELSE /\ electAg' = [electAg EXCEPT ![p][r] = ag]
                /\ UNCHANGED <<coin, dag, submitCh, halt>>
  /\ UNCHANGED <<netVars, out, voteAg, proposed, com, echoed, log>>

-----------------------------------------------------------------------------
(* The commitor goroutine                                                  *)

\* run: the next submitted anchor.
ReceiveSubmit(p) ==
  /\ halt[p] = "no"
  /\ com[p].pc = "idle"
  /\ submitCh[p] # <<>>
  /\ com' = [com EXCEPT ![p] = StartCommit(Head(submitCh[p]))]
  /\ submitCh' = [submitCh EXCEPT ![p] = Tail(@)]
  /\ UNCHANGED <<netVars, recvCh, coreVars, dag, halt, coin, echoed, log>>

\* pullBlock and handleBlockPullReq.
PullBlock(p) ==
  /\ DagServes(p)
  /\ com[p].pc = "pull"
  /\ com[p].q # <<>>
  /\ LET s == Head(com[p].q)
     IN  \/ /\ Committed(dag[p], s)
            /\ com' = [com EXCEPT ![p].q = Tail(@)]
            /\ UNCHANGED dag
         \/ /\ Cached(dag[p], s)
            /\ com' = [com EXCEPT ![p].pc = "visit", ![p].cur = BlockAt(dag[p], s)]
            /\ UNCHANGED dag
         \/ /\ ~Committed(dag[p], s)
            /\ ~Cached(dag[p], s)
            /\ com' = [com EXCEPT ![p].pc = "wait"]
            /\ dag' = [dag EXCEPT ![p].pending = @ \cup {s}]
  /\ UNCHANGED <<netVars, recvCh, coreVars, submitCh, halt, coin, echoed, log>>

\* The rest of the loop's turn; reads the leaders map as it is now.
VisitBlock(p) ==
  /\ halt[p] = "no"
  /\ com[p].pc = "visit"
  /\ com' = [com EXCEPT ![p] = Visit(@, dag[p].uncommitted)]
  /\ UNCHANGED <<netVars, recvCh, coreVars, dag, submitCh, halt, coin, echoed, log>>

\* The queue is empty: execute what was pulled, or return if that is nothing.
Execute(p) ==
  /\ halt[p] = "no"
  /\ com[p].pc = "pull"
  /\ com[p].q = <<>>
  /\ com' = IF com[p].pulled = {}
              THEN [com EXCEPT ![p] = IdleCommitor]
              ELSE [com EXCEPT ![p].pc = "gc"]
  /\ log' = [log EXCEPT ![p] = @ \o ExecOrder(com[p].anchors, com[p].pulled)]
  /\ UNCHANGED <<netVars, recvCh, coreVars, dag, submitCh, halt, coin, echoed>>

\* handleCleanReq; it dereferences pendingCommit.
CleanCache(p) ==
  /\ DagServes(p)
  /\ com[p].pc = "gc"
  /\ IF dag[p].pendingCommit = Nil
       THEN /\ halt' = [halt EXCEPT ![p] = "panic"]
            /\ UNCHANGED <<dag, com>>
       ELSE /\ dag' = [dag EXCEPT ![p] = Clean(@, Watermark(com[p].pulled))]
            /\ com' = [com EXCEPT ![p] = IdleCommitor]
            /\ UNCHANGED halt
  /\ UNCHANGED <<netVars, recvCh, coreVars, submitCh, coin, echoed, log>>

-----------------------------------------------------------------------------
CoreStep(p) ==
  Start(p) \/ SelfEnqueue(p) \/ HandlePropose(p) \/ HandleEcho(p) \/ HandleElect(p)

CommitorStep(p) ==
  ReceiveSubmit(p) \/ PullBlock(p) \/ VisitBlock(p) \/ Execute(p) \/ CleanCache(p)

Next ==
  \/ \E p \in Node : CoreStep(p) \/ CommitorStep(p)
  \/ \E p, q \in Node : Receive(p, q)
  \/ \E p \in Node : \E m \in delayed[p] : Expire(p, m)

Spec == Init /\ [][Next]_vars

-----------------------------------------------------------------------------
(* Properties                                                              *)

TypeOK ==
  /\ link \in [Node -> [Node -> Seq(Msgs)]]
  /\ up \in [Node -> SUBSET Node]
  /\ delayed \in [Node -> SUBSET ProposeMsgs]
  /\ recvCh \in [Node -> Seq(Msgs)]
  /\ out \in [Node -> Seq(ProposeMsgs \cup ElectMsgs)]
  /\ voteAg \in [Node -> [0 .. MaxHeight -> Aggregators]]
  /\ electAg \in [Node -> [Round -> Aggregators]]
  /\ dag \in [Node -> Dags]
  /\ submitCh \in [Node -> Seq(SubmitReqs)]
  /\ com \in [Node -> Commitors]
  /\ halt \in [Node -> {"no", "panic", "race", "wedged"}]
  /\ coin \in [Round -> Node \cup {NONE}]
  /\ proposed \in [Node -> Seq(Block)]

Executed(p) == {log[p][i] : i \in 1 .. Len(log[p])}

\* A block sits at the index its height has above the watermark, and a line
\* that is not empty ends in a block: handleRefReq reads the last element
\* without a test for nil, handleBlockPushReq pads with nil and handleCleanReq
\* cuts lines while pushes and pulls go on.
LinesAligned == \A p \in Node : Aligned(dag[p])

\* Node q has the block of slot s in its DAG or has committed past it.
Holds(q, s) == Committed(dag[q], s) \/ Cached(dag[q], s)

\* The reason why handleCommitReq may submit the block two below the leader's
\* highest one: a block is only ever extended by its author once a quorum of
\* nodes has received and echoed it.  The echo leaves before the block is pushed,
\* so this is not about what their DAGs have stored by then.
Available ==
  \A a \in Node : \A i \in 1 .. Len(proposed[a]) - 1 :
    HightThreshold <= Cardinality({q \in Node : proposed[a][i].header.slot \in echoed[q]})

\* Every node builds one chain: heights without gap or repetition, rounds that
\* rise by at most one, and FirstRefH the "height of the first block of round R"
\* (core/message.go), which both handleRefReq and handleCommitReq subtract.
ChainShape ==
  \A p \in Node : \A i \in 1 .. Len(proposed[p]) :
    LET h == proposed[p][i].header
        first == CHOOSE j \in 1 .. i :
                   /\ proposed[p][j].header.round = h.round
                   /\ \A k \in 1 .. j - 1 : proposed[p][k].header.round # h.round
    IN  /\ h.slot = [author |-> p, height |-> i - 1]
        /\ h.firstRefH = first - 1
        /\ i > 1 => h.round - proposed[p][i - 1].header.round \in {0, 1}

\* No block is executed twice by a node, although commit2 executes several
\* anchors with overlapping histories and later requests reach the same blocks.
ExecutedOnce ==
  \A p \in Node : \A i, j \in 1 .. Len(log[p]) : log[p][i] = log[p][j] => i = j

\* "height of highest committed block" (cacheMark, core/dag.go): once a commit
\* is cleaned up, the watermark of an author is its highest executed block.
WatermarkExact ==
  \A p \in Node : com[p].pc = "idle" =>
    \A a \in Node :
      LET hs == {s.height : s \in {t \in Executed(p) : t.author = a}}
      IN  /\ \A h \in hs : h <= dag[p].cacheMark[a]
          /\ dag[p].cacheMark[a] \in hs \cup {-1}

BlockOf(s) == proposed[s.author][s.height + 1]

\* commit2 leaves nothing behind: between two commits every block that an
\* executed block references lies at or below the watermark of its author.
HistoryCovered ==
  \A p \in Node : com[p].pc = "idle" =>
    \A s \in Executed(p) : \A i \in 1 .. Len(BlockOf(s).ref) :
      Committed(dag[p], BlockOf(s).ref[i].slot)

\* No lost wake-up: while the commitor waits for a block, its pull is registered
\* with the DAG and the block has neither arrived nor been committed.
WaitRegistered ==
  \A p \in Node : com[p].pc = "wait" =>
    LET s == Head(com[p].q)
    IN  s \in dag[p].pending /\ ~Holds(p, s)

\* The DAG goroutine is never wedged: no block is pushed a second time between
\* the answer to its registered pull and the clean-up that forgets the pull, so
\* handleBlockPushReq never sends on a channel that nobody reads any more.
NeverWedged == \A p \in Node : halt[p] # "wedged"

-----------------------------------------------------------------------------
(* What comments of the code say and the runs refute                       *)

\* "Step 2: Commit anchors in sequence to guarantee total order." (commit2):
\* of the logs of two nodes, one is a prefix of the other.
TotalOrder ==
  \A p, q \in Node : \A i \in 1 .. Len(log[p]) :
    i <= Len(log[q]) => log[p][i] = log[q][i]

\* "commit requests in processing." (pendingCommit, core/dag.go): when the
\* commitor has executed a request and asks for the clean-up, handleCleanReq
\* still finds the request it reads the round from.
PendingUntilClean ==
  \A p \in Node : com[p].pc = "gc" => dag[p].pendingCommit # Nil

\* "highest committed round." (commitMark, core/dag.go): handleCleanReq sets it
\* to a round of which an anchor has been executed.
CommitMarkExecuted ==
  \A p \in Node : dag[p].commitMark >= 0 =>
    \E s \in Executed(p) : BlockOf(s).header.round = dag[p].commitMark

\* "Empty reply for committed blocks." (handleBlockPullReq): a block at or below
\* the watermark, for which a pull is answered with nil, has been executed.
NilMeansExecuted ==
  \A p \in Node : com[p].pc = "idle" =>
    \A a \in Node : \A h \in 0 .. dag[p].cacheMark[a] :
      [author |-> a, height |-> h] \in Executed(p)
=============================================================================
