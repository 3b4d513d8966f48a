------------------------------ MODULE Channels ------------------------------
(***************************************************************************)
(* The goroutines of one node and the channels between them: the core      *)
(* (core.go), the DAG (dag.go), the commitor (commitor.go) and the sender  *)
(* (transimtor.go, network.go).                                            *)
(*                                                                         *)
(*                            +--sendCh--> sender --> network              *)
(*                            |                                            *)
(*   network --> recvCh --> core --dagCh--> DAG --submitCh--> commitor     *)
(*                 ^          |              ^                   |         *)
(*                 +----------+              +------ dagCh ------+         *)
(*                                                                         *)
(* Loom serves a request to the DAG in the step that makes it; here every  *)
(* send and receive is a step of its own, channels are bounded, and the    *)
(* decisions that depend on counters and on the content of the DAG (does   *)
(* this echo complete a quorum, does this commit request submit an anchor) *)
(* are left open.  Answers on unbuffered channels are given in the step in *)
(* which the waiting goroutine gets them.                                  *)
(* The calls that sign an echo, an elect or a block wait for the signature *)
(* service, which answers every call (CallsReturn of MCHelpers), and       *)
(* GetBatch does not wait: they are no steps here.                         *)
(***************************************************************************)
EXTENDS Integers, Sequences

CONSTANTS
  Others,        \* blocks of the other nodes
  RecvCap,       \* capacity of Transmitor.recvCh (1000)
  DagCap,        \* capacity of dagCh (10000)
  SubmitCap,     \* capacity of submitCh (100)
  SendCap,       \* capacity of Transmitor.msgCh and Sender.msgCh (2000)
  Histories,     \* sets of blocks a commit may have to pull
  MaxOwn,        \* bound: own blocks 0 .. MaxOwn
  MaxEchoes,     \* bound: echoes that come in
  MaxElects      \* bound: elects that come in from other nodes

Block == Others \cup (0 .. MaxOwn)
NoBlock == -1

ASSUME ChannelsAssumption ==
  /\ RecvCap \in Nat \ {0} /\ DagCap \in Nat \ {0} /\ SubmitCap \in Nat \ {0}
  /\ SendCap \in Nat \ {0}
  /\ MaxOwn \in Nat /\ MaxEchoes \in Nat /\ MaxElects \in Nat
  /\ Histories \subseteq (SUBSET Block) \ {{}}
  /\ \E H \in Histories : H \subseteq Others

VARIABLES
  \* the network
  coming,       \* blocks of other nodes not received yet
  lost,         \* blocks of other nodes that will never come
  echoes,       \* echoes received so far
  elects,       \* elects of other nodes received so far
  recvCh,
  \* the core: where it stands, the block it handles, own blocks sent
  core, block, own,
  \* the way out: Parameters.DDos, timers that hold a proposal back, number of
  \* messages in sendCh, and where the sender stands
  ddos, timers, sendCh, sender,
  dagCh,
  \* the DAG: where it stands, blocks in it, blocks committed, pulls registered
  dag, cached, committed, pending,
  submitCh,     \* number of requests in it
  \* the commitor: where it stands, blocks left to pull, blocks pulled
  com, todo, pulled,
  handled       \* history: blocks the core has pushed

netVars  == <<coming, lost, echoes, elects>>
coreVars == <<core, block, own, handled>>
outVars  == <<ddos, timers, sendCh, sender>>
dagVars  == <<dag, cached, committed, pending>>
comVars  == <<com, todo, pulled>>
vars == <<coming, lost, echoes, elects, recvCh, core, block, own, handled,
          ddos, timers, sendCh, sender, dagCh,
          dag, cached, committed, pending, submitCh, com, todo, pulled>>

Init ==
  /\ coming = Others /\ lost = {} /\ echoes = 0 /\ elects = 0
  /\ recvCh = <<>>
  /\ core = "ref" /\ block = NoBlock /\ own = 0 /\ handled = {}
  /\ ddos \in BOOLEAN /\ timers = 0 /\ sendCh = 0 /\ sender = "loop"
  /\ dagCh = <<>>
  /\ dag = "loop" /\ cached = {} /\ committed = {} /\ pending = {}
  /\ submitCh = 0
  /\ com = "idle" /\ todo = {} /\ pulled = {}

-----------------------------------------------------------------------------
(* The receiving goroutine of the transmitor                               *)

ReceiveBlock(b) ==
  /\ b \in coming
  /\ Len(recvCh) < RecvCap
  /\ coming' = coming \ {b}
  /\ recvCh' = Append(recvCh, [type |-> "block", block |-> b])
  /\ UNCHANGED <<lost, echoes, elects, coreVars, outVars, dagCh, dagVars,
                 submitCh, comVars>>

\* A block does not reach this node: its author's dial fails, the connection
\* breaks, or the author's sender is stuck.  Nobody sends it again.
Lose(b) ==
  /\ b \in coming
  /\ coming' = coming \ {b}
  /\ lost' = lost \cup {b}
  /\ UNCHANGED <<echoes, elects, recvCh, coreVars, outVars, dagCh, dagVars,
                 submitCh, comVars>>

\* Echoes are for own blocks.
ReceiveEcho ==
  /\ own > 0
  /\ echoes < MaxEchoes
  /\ Len(recvCh) < RecvCap
  /\ echoes' = echoes + 1
  /\ recvCh' = Append(recvCh, [type |-> "echo"])
  /\ UNCHANGED <<coming, lost, elects, coreVars, outVars, dagCh, dagVars,
                 submitCh, comVars>>

ReceiveElect ==
  /\ elects < MaxElects
  /\ Len(recvCh) < RecvCap
  /\ elects' = elects + 1
  /\ recvCh' = Append(recvCh, [type |-> "elect"])
  /\ UNCHANGED <<coming, lost, echoes, coreVars, outVars, dagCh, dagVars,
                 submitCh, comVars>>

-----------------------------------------------------------------------------
(* The core                                                                *)

\* Run takes a message: a block is to be echoed and pushed; an echo may complete
\* the quorum that lets the next block be proposed; an elect may reveal a leader.
Handle ==
  /\ core = "loop"
  /\ recvCh # <<>>
  /\ recvCh' = Tail(recvCh)
  /\ LET m == Head(recvCh)
     IN  \/ /\ m.type = "block"
            /\ core' = "echo" /\ block' = m.block
         \/ /\ m.type = "echo"
            /\ core' \in IF own <= MaxOwn THEN {"loop", "ref"} ELSE {"loop"}
            /\ UNCHANGED block
         \/ /\ m.type = "elect"
            /\ core' \in {"loop", "commit"}
            /\ UNCHANGED block
  /\ UNCHANGED <<netVars, own, handled, outVars, dagCh, dagVars, submitCh, comVars>>

\* mutant: a message is put on its way although there is no room
SendAlways == sendCh' = sendCh + 1

\* Transmitor.Send: tr.msgCh <- msg
Send ==
  /\ sendCh < SendCap
  /\ sendCh' = sendCh + 1

\* handlePropose: the echo is sent first.
SendEcho ==
  /\ core = "echo"
  /\ Send
  /\ core' = "push"
  /\ UNCHANGED <<netVars, recvCh, block, own, handled, ddos, timers, sender, dagCh,
                 dagVars, submitCh, comVars>>

\* handlePropose: dagCh <- block
Push ==
  /\ core = "push"
  /\ Len(dagCh) < DagCap
  /\ dagCh' = Append(dagCh, [type |-> "push", block |-> block])
  /\ handled' = handled \cup {block}
  /\ core' = "loop" /\ block' = NoBlock
  /\ UNCHANGED <<netVars, recvCh, own, outVars, dagVars, submitCh, comVars>>

\* handleElect: dagCh <- commitReq
RequestCommit ==
  /\ core = "commit"
  /\ Len(dagCh) < DagCap
  /\ dagCh' = Append(dagCh, [type |-> "commit"])
  /\ core' = "loop"
  /\ UNCHANGED <<netVars, recvCh, block, own, handled, outVars, dagVars, submitCh,
                 comVars>>

\* mutant: the request overtakes the pushes that wait in the channel
RequestRefFirst ==
  /\ core = "ref"
  /\ Len(dagCh) < DagCap
  /\ dagCh' = <<[type |-> "ref"]>> \o dagCh
  /\ core' = "await"
  /\ UNCHANGED <<netVars, recvCh, block, own, handled, outVars, dagVars, submitCh,
                 comVars>>

\* generateBlock: dagCh <- refReq, then wait for the answer.
RequestRef ==
  /\ core = "ref"
  /\ Len(dagCh) < DagCap
  /\ dagCh' = Append(dagCh, [type |-> "ref"])
  /\ core' = "await"
  /\ UNCHANGED <<netVars, recvCh, block, own, handled, outVars, dagVars, submitCh,
                 comVars>>

\* invokeElect: the elect is broadcast ...
SendElect ==
  /\ core = "sendElect"
  /\ Send
  /\ core' = "elect"
  /\ UNCHANGED <<netVars, recvCh, block, own, handled, ddos, timers, sender, dagCh,
                 dagVars, submitCh, comVars>>

\* ... and put on the own channel: RecvChannel() <- elect.
EnqueueElect ==
  /\ core = "elect"
  /\ Len(recvCh) < RecvCap
  /\ recvCh' = Append(recvCh, [type |-> "elect"])
  /\ core' = "sendBlock"
  /\ UNCHANGED <<netVars, block, own, handled, outVars, dagCh, dagVars, submitCh,
                 comVars>>

\* propose: the block is broadcast, with DDos by a timer of its own ...
SendBlock ==
  /\ core = "sendBlock"
  /\ \/ ~ddos /\ Send /\ UNCHANGED timers
     \/ ddos /\ timers' = timers + 1 /\ UNCHANGED sendCh
  /\ core' = "own" /\ own' = own + 1
  /\ UNCHANGED <<netVars, recvCh, block, handled, ddos, sender, dagCh, dagVars,
                 submitCh, comVars>>

\* ... and put on the own channel: RecvChannel() <- b.
EnqueueBlock ==
  /\ core = "own"
  /\ Len(recvCh) < RecvCap
  /\ recvCh' = Append(recvCh, [type |-> "block", block |-> own - 1])
  /\ core' = "loop"
  /\ UNCHANGED <<netVars, block, own, handled, outVars, dagCh, dagVars, submitCh,
                 comVars>>

CoreStep ==
  \/ Handle \/ SendEcho \/ Push \/ RequestCommit \/ RequestRef
  \/ SendElect \/ EnqueueElect \/ SendBlock \/ EnqueueBlock

-----------------------------------------------------------------------------
(* The way out                                                             *)

\* The timer of a delayed proposal fires; its goroutine waits for room.
Expire ==
  /\ timers > 0
  /\ timers' = timers - 1
  /\ Send
  /\ UNCHANGED <<netVars, recvCh, coreVars, ddos, sender, dagCh, dagVars,
                 submitCh, comVars>>

\* Sender.Run takes a message and hands it to the connections.  It is stuck when
\* it blocks for good on one whose writer has returned or whose peer does not
\* read (StuckOn of Network); a wait that ends is a slow step.
SendOut ==
  /\ sender = "loop"
  /\ sendCh > 0
  /\ sendCh' = sendCh - 1
  /\ sender' \in {"loop", "stuck"}
  /\ UNCHANGED <<netVars, recvCh, coreVars, ddos, timers, dagCh, dagVars,
                 submitCh, comVars>>

-----------------------------------------------------------------------------
(* The DAG                                                                 *)

\* The DAG goroutine takes its next request, of type t.
Takes(t) ==
  /\ dag = "loop"
  /\ dagCh # <<>>
  /\ Head(dagCh).type = t
  /\ dagCh' = Tail(dagCh)

\* mutant: the registered pull is not answered
ServePushSilent ==
  /\ Takes("push")
  /\ cached' = cached \cup ({Head(dagCh).block} \ committed)
  /\ UNCHANGED <<netVars, recvCh, coreVars, outVars, dag, committed, pending,
                 submitCh, comVars>>

\* handleBlockPushReq; the commitor waits for nothing but a registered pull.
ServePush ==
  /\ Takes("push")
  /\ LET b == Head(dagCh).block
     IN  /\ cached' = cached \cup ({b} \ committed)
         /\ IF b \in pending \ committed
              THEN com' = "pull" /\ todo' = todo \ {b} /\ pulled' = pulled \cup {b}
              ELSE UNCHANGED comVars
  /\ UNCHANGED <<netVars, recvCh, coreVars, outVars, dag, committed, pending,
                 submitCh>>

\* mutant: no answer when the round does not change
ServeRefSilent ==
  /\ Takes("ref")
  /\ core' \in {"sendElect", core}
  /\ UNCHANGED <<netVars, recvCh, block, own, handled, outVars, dagVars, submitCh,
                 comVars>>

\* handleRefReq; the core goes on, with an elect if it enters an odd round, which
\* it cannot do with the first block: the DAG is empty then.
ServeRef ==
  /\ Takes("ref")
  /\ core' \in IF own = 0 THEN {"sendBlock"} ELSE {"sendElect", "sendBlock"}
  /\ UNCHANGED <<netVars, recvCh, block, own, handled, outVars, dagVars, submitCh,
                 comVars>>

\* handleCommitReq, up to its send on submitCh.
ServeCommit ==
  /\ Takes("commit")
  /\ dag' \in {"loop", "submit"}
  /\ UNCHANGED <<netVars, recvCh, coreVars, outVars, cached, committed, pending,
                 submitCh, comVars>>

\* mutant: a full channel makes the request disappear
SubmitOrDrop ==
  /\ dag = "submit"
  /\ submitCh' = IF submitCh < SubmitCap THEN submitCh + 1 ELSE submitCh
  /\ dag' = "loop"
  /\ UNCHANGED <<netVars, recvCh, coreVars, outVars, dagCh, cached, committed,
                 pending, comVars>>

\* The send on submitCh.
Submit ==
  /\ dag = "submit"
  /\ submitCh < SubmitCap
  /\ submitCh' = submitCh + 1
  /\ dag' = "loop"
  /\ UNCHANGED <<netVars, recvCh, coreVars, outVars, dagCh, cached, committed,
                 pending, comVars>>

\* mutant: the nil answer does not make the commitor go on
ServePullAgain ==
  /\ Takes("pull")
  /\ LET b == Head(dagCh).block
     IN  \/ /\ b \in committed
            /\ com' = "pull"
            /\ UNCHANGED <<todo, pulled, pending>>
         \/ /\ b \in cached \ committed
            /\ com' = "pull" /\ todo' = todo \ {b} /\ pulled' = pulled \cup {b}
            /\ UNCHANGED pending
         \/ /\ b \notin cached \cup committed
            /\ pending' = pending \cup {b}
            /\ UNCHANGED comVars
  /\ UNCHANGED <<netVars, recvCh, coreVars, outVars, dag, cached, committed,
                 submitCh>>

\* handleBlockPullReq: nil for a committed block, the block if it is there, and
\* otherwise the pull is registered.
ServePull ==
  /\ Takes("pull")
  /\ LET b == Head(dagCh).block
     IN  \/ /\ b \in committed
            /\ com' = "pull" /\ todo' = todo \ {b}
            /\ UNCHANGED <<pulled, pending>>
         \/ /\ b \in cached \ committed
            /\ com' = "pull" /\ todo' = todo \ {b} /\ pulled' = pulled \cup {b}
            /\ UNCHANGED pending
         \/ /\ b \notin cached \cup committed
            /\ pending' = pending \cup {b}
            /\ UNCHANGED comVars
  /\ UNCHANGED <<netVars, recvCh, coreVars, outVars, dag, cached, committed,
                 submitCh>>

\* handleCleanReq.  A process that dies here, of the nil pendingCommit that Loom
\* models, leaves nothing to say about channels.
ServeClean ==
  /\ Takes("clean")
  /\ committed' = committed \cup Head(dagCh).blocks
  /\ cached' = cached \ Head(dagCh).blocks
  /\ pending' = {}
  /\ UNCHANGED <<netVars, recvCh, coreVars, outVars, dag, submitCh, comVars>>

DagStep ==
  ServePush \/ ServeRef \/ ServeCommit \/ Submit \/ ServePull \/ ServeClean

-----------------------------------------------------------------------------
(* The commitor                                                            *)

\* Commitor.run: the next submitted anchor.  The blocks its commit will pull,
\* the anchor and what it refers to, are blocks that exist.
StartCommit ==
  /\ com = "idle"
  /\ submitCh > 0
  /\ submitCh' = submitCh - 1
  /\ com' = "pull"
  /\ todo' \in {H \in Histories : H \subseteq Others \cup (0 .. own - 1)}
  /\ pulled' = {}
  /\ UNCHANGED <<netVars, recvCh, coreVars, outVars, dagCh, dagVars>>

\* pullBlock: opCh <- blockPullReq, then wait for the answer.
Pull(b) ==
  /\ com = "pull"
  /\ b \in todo
  /\ Len(dagCh) < DagCap
  /\ dagCh' = Append(dagCh, [type |-> "pull", block |-> b])
  /\ com' = "wait"
  /\ UNCHANGED <<netVars, recvCh, coreVars, outVars, dagVars, submitCh, todo,
                 pulled>>

\* commit2 returns: at once if nothing was pulled, else with the clean-up
\* request, whose service it does not wait for.
EndCommit ==
  /\ com = "pull"
  /\ todo = {}
  /\ IF pulled = {}
       THEN UNCHANGED dagCh
       ELSE /\ Len(dagCh) < DagCap
            /\ dagCh' = Append(dagCh, [type |-> "clean", blocks |-> pulled])
  /\ com' = "idle" /\ pulled' = {}
  /\ UNCHANGED <<netVars, recvCh, coreVars, outVars, dagVars, submitCh, todo>>

CommitorStep == StartCommit \/ (\E b \in todo : Pull(b)) \/ EndCommit

-----------------------------------------------------------------------------
Next ==
  \/ \E b \in Others : ReceiveBlock(b) \/ Lose(b)
  \/ ReceiveEcho \/ ReceiveElect \/ Expire \/ SendOut
  \/ CoreStep \/ DagStep \/ CommitorStep

Spec == Init /\ [][Next]_vars

\* Goroutines are scheduled.  Of those blocked on a full channel Go wakes the
\* one that has waited longest, so no sender is passed over for ever.  No block
\* has to get through: Lose takes ReceiveBlock's place.
FairSpec ==
  /\ Spec
  /\ \A b \in Others : SF_vars(ReceiveBlock(b))
  /\ SF_vars(CoreStep) /\ SF_vars(CommitorStep)
  /\ WF_vars(SendOut) /\ WF_vars(DagStep)

-----------------------------------------------------------------------------
(* Properties                                                              *)

TypeOK ==
  /\ coming \cup lost \subseteq Others
  /\ core \in {"loop", "echo", "push", "commit", "ref", "await",
               "sendElect", "elect", "sendBlock", "own"}
  /\ block \in Block \cup {NoBlock} /\ own \in 0 .. MaxOwn + 1
  /\ ddos \in BOOLEAN /\ timers \in Nat
  /\ sendCh \in 0 .. SendCap /\ sender \in {"loop", "stuck"}
  /\ dag \in {"loop", "submit"} /\ com \in {"idle", "pull", "wait"}
  /\ cached \cup committed \cup pending \cup todo \cup pulled \subseteq Block

\* The core waits for itself: propose or invokeElect sends on the full recvCh
\* that only this goroutine empties.
SelfWait == core \in {"elect", "own"} /\ Len(recvCh) = RecvCap

\* The DAG waits for the commitor to take from the full submitCh, and the
\* commitor for the DAG to take from dagCh or to answer a pull.
SubmitWait ==
  /\ dag = "submit" /\ submitCh = SubmitCap
  /\ \/ com = "wait"
     \/ com = "pull" /\ Len(dagCh) = DagCap /\ todo \cup pulled # {}

\* The core waits for a peer: an echo, an elect or a proposal is to go on the
\* full sendCh, and the sender is stuck.
SendWait ==
  /\ core \in {"echo", "sendElect"} \cup (IF ddos THEN {} ELSE {"sendBlock"})
  /\ sendCh = SendCap /\ sender = "stuck"

Deadlock == SelfWait \/ SubmitWait \/ SendWait

\* The commitor waits for a block that does not come.
LostWait == com = "wait" /\ todo \cap pending \cap lost # {}

\* Nothing else holds the core up: unless the node has run into one of the three
\* waits, the core comes back to its loop from every handler, whatever waits on
\* whatever full channel meanwhile.
CoreReturns == (core # "loop") ~> (core = "loop" \/ Deadlock)

\* Likewise every commit ends, unless it waits for a block that was lost: the DAG
\* answers each pull, at once or when the core delivers the block ("otherwise
\* wait for outer core to deliver", core/dag.go).
CommitsReturn == (com # "idle") ~> (com = "idle" \/ Deadlock \/ LostWait)

\* The three waits are for ever: no step of another goroutine, no message and no
\* timer ends one.
DeadlockStays == [][Deadlock => Deadlock']_vars

\* A reference request is answered from a DAG that has every block the core
\* handled before it made the request, although pushes are not waited for.
\* This is why Loom may serve a request where it is made.
RefSeesPushes ==
  dag = "loop" /\ dagCh # <<>> /\ Head(dagCh).type = "ref" =>
    handled \subseteq cached \cup committed

\* No pull is forgotten: while the commitor waits, its pull is on the way to the
\* DAG, or is registered there and the block has not been pushed.
PullsInOrder ==
  com = "wait" =>
    \E b \in todo :
      \/ \E i \in 1 .. Len(dagCh) : dagCh[i] = [type |-> "pull", block |-> b]
      \/ b \in pending /\ b \notin cached \cup committed
=============================================================================
