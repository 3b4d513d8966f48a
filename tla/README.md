# A TLA+ model of Loom

Loom is a prototype of a DAG-based BFT protocol in Go (`src/`, module name
`Wahoo++`).  Every node extends a chain of its own; a block is extended as soon
as a quorum has echoed it, and blocks reference blocks of other chains to form
rounds.  A threshold coin picks a leader for each even round, and a committed
leader block orders everything it reaches.  These modules model the protocol
code in `core/`, the goroutines and channels it is made of, the network, the
retriever, the transaction pool, the services and the start of the nodes.  TLC
checks them on small instances; TLAPS proves, for every value of the constants,
that votes are counted right, that the DAG's lines stay well formed and a
waiting commitor is not forgotten, that references are taken from an up-to-date
DAG and no pull is forgotten, that the retriever asks once and answers once, that
the pool and the services implement their abstract specifications, and that
cores start when their peers listen.

## The system

| part | source | what it does | state |
|---|---|---|---|
| committee | `core/config.go` | ids, addresses, thresholds | modelled |
| vote counting | `core/aggregator.go` | echo counter per height, elect counter per round | modelled, proved |
| core | `core/core.go` | goroutine: propose, echo, elect, block retrieval | modelled |
| DAG | `core/dag.go` | goroutine: block cache, references, commit requests, clean-up | modelled |
| commitor | `core/commitor.go` | goroutine: pulls the history of an anchor, orders and executes it | modelled |
| retriever | `core/retriever.go` | goroutine: requests for missing blocks, retries, loop backs | modelled, proved |
| transmitor, network | `core/transimtor.go`, `network/` | channels, connections, delayed proposals | modelled |
| pool | `pool/` | transaction ring buffer, batches | modelled, proved |
| store | `store/` | request queue in front of nutsdb | modelled, proved |
| crypto | `crypto/` | signature service; signatures, threshold signature | the service modelled, cryptography assumed to work |
| start-up | `node/`, `core/consensus.go` | files, listening, waiting for the peers | modelled |
| configuration, command line, logging | `config/`, `main.go`, `logger/`, `benchmark/` | input and output | not modelled |

A node runs three goroutines.  The *core* takes messages from `recvCh`; for a
proposal it echoes and pushes the block to the DAG, for an echo it counts and,
at the quorum, asks the DAG for references and proposes the next height, for an
elect it counts and, at the quorum, sends the DAG a `commitReq`.  The *DAG*
serves requests of the other two, one at a time; a `commitReq` it can act on
becomes a `submitReq` on `submitCh`.  The *commitor* takes those, pulls blocks
from the DAG backwards from the anchor (waiting for the ones that have not
arrived), executes them and asks the DAG to drop what is committed.

Around them, the *transmitor* and the *sender* carry messages through a chain of
channels to one writer goroutine per connection, the *retriever* handles requests
for missing blocks, the *pool* fills batches that each new block takes, and the
*store* and the *signature service* answer calls of all the others.

## Modules

| module | models |
|---|---|
| `Committee` | `Committee`, `HightThreshold` |
| `Aggregator` | `Aggregator`: `Push`, `Take` |
| `Gate` | what a family of vote counters promises (abstract specification) |
| `Votes` | one node's counters and the handlers that drive them |
| `VotesProofs` | theorems about `Votes` |
| `Dag` | the DAG as a record, one operator per request |
| `DagProofs` | lemmas: what the operators of `Dag` and `Commitor` return and preserve |
| `Commitor` | `commit2` cut at its exchanges with the DAG, and what it executes |
| `Loom` | N nodes with their three goroutines and the network |
| `LoomProofs` | theorems about `Loom` |
| `Channels` | the three goroutines of a node and its sender, with bounded channels between them |
| `ChannelsProofs` | theorems about `Channels` |
| `Network` | one node's send path up to the cores of its peers |
| `Link` | what the send path promises (abstract specification) |
| `Retriever` | the retriever, the core's handlers that feed it and the peers that answer |
| `RetrieverProofs` | theorems about `Retriever` |
| `Pool` | maker, ring buffer and batches of the transaction pool |
| `TxStream` | what the pool promises (abstract specification) |
| `PoolProofs` | theorems about `Pool` |
| `Services` | store and signature service with their callers |
| `AtomicCalls` | what the services promise (abstract specification) |
| `ServicesProofs` | theorem about `Services` |
| `Startup` | `NewNode` and `Consensus` of a committee |
| `StartupProofs` | theorem about `Startup` |
| `MCVotes`, `MCLoom`, `MCRetriever`, `MCHelpers` | the modules for TLC: schedules, values of constants; `MCHelpers` puts `Startup`, `Pool` and `Services` side by side |

Definitions named *mutant* in a comment are deliberate errors, used to see that
a property can fail; nothing else refers to them.

### How the modules follow the code

* `dag.cache[a]` is a sequence, `Index` the code's `height - cacheMark - 1`
  counted from 1, `Nil` its `nil`.  `Put` is the append with padding.
* `Dag!CommitReq` returns the DAG and the `submitReq`, if one is sent.
* The commitor's local variables are the record `com[p]`; `pc` says where it
  is.  `Visit` reads `dag[p].uncommitted` because `submitReq` carries the DAG's
  own map, not a copy.
* `halt[p]` records why a node stands still: `"panic"` (nil dereference in
  `handleCleanReq`), `"race"` (the runtime found the leaders map read and
  written at once; may or may not happen when the commitor is at that point),
  `"wedged"` (the DAG answers a pull nobody waits for).
* The block's batch, signatures and hashes are left out.  Every share and every
  signature is valid; the coin is chosen when the first node combines it and is
  the same for all.
* `proposed`, `echoed` and `log` are history variables.  Only `CoreReady` reads
  `proposed`, to know that the node has started.
* In `Loom` a request to the DAG is served in the step that makes it; in the code
  it waits in `dagCh` (capacity 10000).  `Channels` has the queue, and shows what
  the shortcut needs: `RefSeesPushes`, a reference request finds every block
  pushed before it, and `PullsInOrder`.  What is lost in `Loom` is the interval in
  which a node has echoed a block and its DAG has not stored it yet.
  `handlePropose` sends the echo first, so a quorum of echoes does not mean that
  a quorum has stored the block, and `Available` counts the nodes that have echoed
  it.
* `Channels` keeps every send, receive and wait between core, DAG, commitor and
  sender, and leaves open what depends on counters and on the content of the DAG:
  whether an echo completes a quorum, whether a commit request submits an anchor,
  which of the `Histories` a commit pulls.  `sendCh` stands for the two channels of
  the send path, and `sender` is `"stuck"` when `Sender.Run` blocks for good on one
  connection, which is `StuckOn` of `Network`.  With `DDos` a timer sends a
  proposal in the core's place.  A foreign block may be lost on its way here.
  Answers on unbuffered channels are part of the step that sends them.  Calls of
  the signature service are left out, because every call returns (`CallsReturn`).
  A process that dies in `handleCleanReq` is `Loom`'s business.
* `Network` numbers the messages of one node.  Two channels that a goroutine
  merely connects are one channel with the sum of the capacities.  TCP buffers
  are a bounded queue; a connection that breaks loses a suffix of what is on the
  way, and a write to it may still seem to succeed.
* `Retriever`: nothing in the repository calls `requestBlocks`.  The module models
  the component for a caller that misses blocks it has references to; `kept` says
  whether that caller has put its own block into the store, as the comment *"must
  be received"* in `loopBack` expects, and `loopBack` panics if not.  The ticker
  retries one open request per step; time is not modelled.  The exchange with a
  peer is one step, because the peer's store does not change.
* `Pool` numbers the transactions, which the code makes all alike, so that order
  and loss can be told.
* In `Services` a request is known by its caller, which has at most one.  A write
  of nutsdb may fail.  A share is signed by a goroutine of its own.
* In `Startup` a node may have files it cannot read or a port it cannot bind.
* A node below `Faults` runs no core.  `BroadCast` addresses it like any other and
  its receiver takes what comes until its channels are full; as nobody there reads
  those messages, `Others` leaves the node out.  What a peer that does not read
  does to the sender is in `Network` and `Channels`.
* `RecvCap` and `SubmitCap` have the values of the code and are not reached.

## Runs

All runs of `MCLoom` use four nodes.  A node that commits twice has gone through
some 300 steps with its peers, which no exhaustive interleaving reaches.
`MCLoom` therefore fixes a schedule (its comment says which) in which everything
prompt happens in one order, links that lag included, and the parts under study
(a slow commitor, the timers, failing dials, the coin) interleave freely.  Every
behaviour it has is one of `Loom`; what it shows of `Loom` is limited to those
schedules.  The other runs explore all interleavings.

| run | cfg | shows |
|---|---|---|
| votes | `MCVotes7` | `ProposedOnce`, `RevealedOnce`, and `EchoIsGate`, `ElectIsGate`: votes that are late, repeated or interleaved trigger what `Gate` allows |
| loom_overlap | `LoomOverlap` | `WatermarkExact`, `HistoryCovered`, `NeverWedged`, `LinesAligned` when elections overlap a commit, dials fail and processes abort |
| loom_anchors | `LoomAnchors` | `ExecutedOnce`, `HistoryCovered`, `WaitRegistered` and (liveness) `CommitsEnd` for commits that wait for late blocks and execute several anchors |
| loom_ddos | `LoomDDos` | `Available`, `ChainShape` and (liveness) `ChainsGrow` with one silent node and proposals that timers hold back |
| channels | `Channels` | `RefSeesPushes`, `PullsInOrder`; `CoreReturns`, `CommitsReturn` (liveness): handlers and commits end unless the node is in one of three waits (two circular ones, and one for a stuck sender) or the commit needs a lost block; `DeadlockStays`: the three are for ever |
| network | `Network` | `PathIsLink`: the send path implements `Link`; `Delivered` (liveness); `StuckStays` |
| retriever | `Retriever` | `OneRequestPerBlock`, `CountsCovered`, `LoopBackOnce`, and (liveness) `CallsLoopBack` under losses and retries |
| helpers | `Helpers` | `OnlineBeforeStart`, `EveryoneStarts` (start-up); `NeverFull`, `PoolIsStream`, `PoolDelivers` (pool); `CallsAreAtomic`, `CallsReturn` (services) |
| loom_order | `LoomOrder` | refutes `TotalOrder` |
| loom_pending | `LoomPending` | refutes `PendingUntilClean` |
| loom_mark | `LoomMark` | refutes `CommitMarkExecuted` |
| loom_gap | `LoomGap` | refutes `NilMeansExecuted` |

**Bounds.** `MaxHeight` 8 lets every chain pass four rounds, so that the coins
of rounds 0 and 2 fall and two commits follow each other at every node; 3 is
enough for the first change of round.
`Lag` holds a link back by so many heights: from four on, node 0 has to wait for
a block it pulls *and* is woken by it (five is used); with 100 its messages
come after all others.
`MCVotes7` is the smallest committee with two votes left over after the quorum.
In `Channels` every channel can be full while its sender and its receiver are
busy elsewhere (capacities 2, 2, 1 and 1 for 1000, 10000, 100 and 2000), and there
are own and foreign blocks, so that a pull can be answered at once, late, with nil
or, for a lost block, not at all.  The two `Histories`, a foreign block and two own
ones, give commits that need the network and commits that do not.
`Network` has one good peer and one that does everything bad, and four messages,
one for each of the channels of capacity one to a peer that reads nothing.
`Retriever` has two calls and two blocks, so that requests share a block or not,
a peer that has everything and may be out of reach and one that has nothing and
answers.  In `Helpers` the ring buffer has three places for batches of two, which
makes batches wrap at every offset, and the services have one place per channel
for two callers.

**Fairness.** In `Loom`, nodes, timers and connections go on as long as they can
do something (`FairSpec`): goroutines are scheduled, TCP delivers.  There is no
fairness of dials: the liveness runs have none that fail.  The bounds make every
execution finite, so fairness of the whole gives fairness of each part.
Elsewhere each goroutine that can always go on once it can (it is the only one to
receive from its channel, or to send on it) is weakly fair, because Go runs every
runnable goroutine.  A send on a channel that several goroutines fill can be
enabled and disabled again, so it is strongly fair: the Go runtime queues blocked
senders and wakes the one that has waited longest.  This concerns `CoreStep`,
`CommitorStep` and `ReceiveBlock` of `Channels`, `ProcessReply` of `Retriever` and
`Send` of `Services`.  `SendOut` of `Channels` is weakly fair and may get stuck.
Nobody has to send, to call, to break or to lose: the actions of the environment
have no fairness, with three exceptions: peers outside `Lossy` answer the
retriever, the core takes batches from the pool, and every node is launched.
That the core goes on taking batches is an assumption of `PoolDelivers`:
`ChainsGrow` shows that chains grow up to the bound with channels that do not
fill, and `CoreReturns` what can keep a core from proposing again.

**Deadlock** is checked in the runs of `MCLoom`: a state without a successor
other than `Done` would mean that a goroutine with work to do cannot do it.
`MCVotes` stops when all votes are in, and the other runs when the environment has
sent, called or made all it may, so it is not checked there.  In `Channels` and
`Network` the states in which the program itself has stopped are named,
`Deadlock`, `LostWait` and `Stuck`, and the liveness properties say that there are no others.

**What stops a node.**  `SelfWait`: `propose` or `invokeElect` sends on the full
`recvCh` that only the core empties.  `SubmitWait`: the DAG sends on the full
`submitCh` while the commitor waits for the DAG.  `StuckOn(q)`: the sender waits
for room in the channel of a peer whose writer has returned or that reads
nothing; messages to all other peers wait behind it.  `SendWait`: behind a stuck
sender the send path fills up, and the core waits in `handlePropose`,
`invokeElect` or `propose` for room in it.  `LostWait`: the commitor waits for a
block that was lost, and nobody sends it again.  The capacities of the code make
the full channels rare.  Nothing ends `SelfWait` and `SubmitWait`, and only the
end of the connection the wait for a peer that does not read.

## What disagrees with the code's own words

* *"commit requests in processing."* (`pendingCommit`): a second request that
  cannot be submitted clears the field while the first is still processed, and
  `handleCleanReq` dereferences nil.
* *"highest committed round."* (`commitMark`): a newer request that arrives
  during the commit is recorded instead.
* *"... to guarantee total order."* (`commit2`): which block of an earlier
  leader a node takes for its anchor depends on what it had received, and one
  late link makes two nodes execute in different orders.
* *"Empty reply for committed blocks."*: a block that its own successor does not
  reference is below the watermark without having been executed.

## Proofs

All proofs are checked by TLAPS, for every value of the constants that satisfies
the named assumptions (`NAssumption`, `BoundsAssumption`, `NilAssumption`,
`LoomAssumption`, `RetrieverAssumption`), which only give the constants their
types, `ChannelsAssumption`, which also says that the histories are not empty and
one has foreign blocks only, and `PoolAssumption`, which also says that a batch is
smaller than the queue.  `ServicesProofs` and `StartupProofs` assume nothing.

**`VotesProofs`.** `TypeCorrect` needs nothing else.  `ProposesOnce`,
`RevealsOnce` and the two refinements, `EchoRefinesGate` and `ElectRefinesGate`,
have the hypothesis `N < 2 * HightThreshold`; `DesignedSize` shows that every
N = 3f + 1 satisfies it.  Six nodes do not: the threshold is 3, and the second
three echoes fill a counter again.
`ProposedOnce` is not inductive, because nothing in it limits what a counter
still holds when the next vote comes.  `Inv` adds that: a counter that has heard
n different voters holds n votes before the quorum and n - HightThreshold after
it, and has fired 0 times or once.  For the elect counters, whose `Used` set is
thrown away with the counter, n counts the history variable `heard`.  `OneMore`
and `NotFull` are the arithmetic; `Crossing` turns the invariant into the step
simulation of `Gate`.

**`LoomProofs`.** `LoomTypes`, `LoomAligned` and `LoomWaits` follow from one
inductive invariant, `LoomInv`: the types, and for every node `Coherent(dag[p],
com[p])`.  Types alone are not inductive: `handleRefReq` reads the newest element
of a line as a block, so `TypeOK` needs `Aligned`; `handleCleanReq` cuts a line
at a watermark the commitor computed from what it had pulled, so `Aligned` needs
every pulled block to be still in the cache; and that needs the block at hand to
be there when `Visit` adds it.  The wake-up argument rests on the pushed block
being either the awaited one, which wakes the commitor in the same step, or
another, which leaves the awaited slot uncached.  `Coherent` speaks of one DAG
and one commitor, so each operator is dealt with once (`CoherentPush`,
`CoherentPull`, ...), from the lemmas of `DagProofs`, and `NodeStep` carries the
result over to all nodes.  No fairness, no bound on the network and no
hypothesis on N is used, and nodes that abort, race or wedge are included.

**`ChannelsProofs`.** `ChannelsRefSeesPushes` needs to know where a pushed block is
before the DAG has it.  `CInv` says that it is in `dagCh` (`OnTheWay`) and that no
push is behind a reference request (`RefLast`), because the core that asked is
waiting.  `RequestSent`, `RequestTaken` and `DagRests` show this once for every
way in which a step can touch `dagCh`.  `ChannelsDeadlockStays` uses the same
invariant: a core that sends to itself, or to a full send path, is not the one a
reference request waits for; and a stuck sender takes nothing from a send path
that nobody else empties (`WayOutStep`, `SendWaitStays`).  `ChannelsPullsInOrder` needs `PullKept`: a clean-up empties the set of
registered pulls, so it must not be served while one is registered.  It is not,
because the commitor sends it before the pulls of its next commit and `dagCh`
keeps the order.

**`RetrieverProofs`.** The four theorems share the invariant `RInv`.
`OneRequestPerBlock` is inductive with `Noted` (a call is in `miss2Blocks` exactly
for what it misses).  `CountsCovered` rests on it: a reply that takes a block out
of `pending` decrements every call that misses it.  `LoopBackOnce` needs
`BackIsFinal`, a call that came back has a counter of at most zero, which no later
request can raise.  `Queued` numbers the calls in `reqChannel`, so that the
identifier a call will get is known to be unused.

**`PoolProofs`.** `InOrder` says where each transaction is: the batches taken, those
in `batchChannel`, the one being sent, the `nums` places after `rind` and
`txChannel`, read in this order, are 1, 2, ..., `made`.  `NeverFull` follows from
`wind` being `nums` + 1 places after `rind` with `nums` < `BatchSize` <
`MaxQueueSize`, and the refinement of `TxStream` from the position of the batch
that is taken.

**`ServicesProofs`.** The refinement of `AtomicCalls` maps a caller to *called* until
its `Done` holds the request.  `Placed` says that whoever is in one of the
channels or in `signing` waits, is there once, has a request of that kind and is not
in `Done`, so that a server never answers a caller twice or one that does not wait.

**`StartupProofs`.** `StartupOnline` rests on `UInv`: what a node has found online is
listening and goes on listening.

Only model-checked are liveness; everything that rests on what the recursive
functions of `Commitor` compute (`History`, `ExecOrder`); `Available`, which counts
echoes; `ChainShape`, which is about the history of a chain; `NeverWedged`;
`StuckStays` and the refinement of `Link`.

## Not modelled

* `config/`, `main.go`, `logger/`: file formats, flags and log output, without state.
* Key generation, signing, verification and hashing: cryptography.  Every
  signature is valid, and the coin is the same at all nodes.
* The codec: a message is read as it was written, or the read fails.
* `SyncTimeout` and other delays: steps take any time.
* The retriever together with the DAG: a retriever in use pushes blocks a second
  time, which can wedge the DAG (`TransmitTwice` shows how); the code has no such
  use, so there is no composition to be faithful to.
* `handleCheckReq` is never dispatched; `getBlock`, `LowThreshold` and
  `LoopBackMsg` are unused.
