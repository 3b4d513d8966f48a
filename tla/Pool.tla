-------------------------------- MODULE Pool --------------------------------
(***************************************************************************)
(* The transaction pool of one node (pool/pool.go): the maker goroutine,   *)
(* the queue goroutine with its ring buffer, and the core, which takes a   *)
(* batch whenever it generates a block.  Transactions are numbered in the  *)
(* order in which they are made; the code's are all alike.                 *)
(***************************************************************************)
EXTENDS Integers, Sequences

CONSTANTS
  N, Id,            \* committee size and id of this node
  Rate,             \* Parameters.Rate
  BatchSize,        \* Parameters.BatchSize
  MaxQueueSize,     \* Parameters.MaxQueueSize
  TxCap,            \* capacity of txChannel (10000)
  BatchCap,         \* capacity of batchChannel (1000)
  MaxTx             \* bound: transactions made in a run

\* NewPool checks nothing.  With BatchSize = MaxQueueSize the buffer counts as
\* full one transaction short of the second batch and the pool stands still for
\* good; with a larger BatchSize transactions overwrite each other.
ASSUME PoolAssumption ==
  /\ N \in Nat \ {0} /\ Id \in 0 .. N - 1
  /\ Rate \in Nat
  /\ BatchSize \in Nat \ {0} /\ MaxQueueSize \in Nat /\ BatchSize < MaxQueueSize
  /\ TxCap \in Nat \ {0} /\ BatchCap \in Nat \ {0} /\ MaxTx \in Nat

VARIABLES
  burst,          \* transactions left to send before the maker's next tick
  made,           \* transactions made so far
  txChannel,
  queue, wind, rind, nums, bcnt,     \* txQueue
  sending,        \* the batch make() is about to send, or <<>>
  batchChannel,
  taken           \* history: the batches the core got

makerVars == <<burst, made>>
queueVars == <<queue, wind, rind, nums, bcnt, sending>>
vars == <<burst, made, txChannel, queue, wind, rind, nums, bcnt, sending,
          batchChannel, taken>>

PRECISION == 20

Index == 0 .. MaxQueueSize - 1

\* NewPool and newTxQueue; an element of the buffer not written yet is 0.
Init ==
  /\ burst = 0 /\ made = 0
  /\ txChannel = <<>> /\ batchChannel = <<>>
  /\ queue = [i \in Index |-> 0]
  /\ wind = 0 /\ rind = -1 /\ nums = 0 /\ bcnt = 0
  /\ sending = <<>>
  /\ taken = <<>>

-----------------------------------------------------------------------------
(* txMaker.run                                                             *)

Tick ==
  /\ burst = 0
  /\ made < MaxTx
  /\ burst' = Rate \div PRECISION
  /\ UNCHANGED <<made, txChannel, queueVars, batchChannel, taken>>

MakeTx ==
  /\ burst > 0
  /\ made < MaxTx
  /\ Len(txChannel) < TxCap
  /\ made' = made + 1
  /\ burst' = burst - 1
  /\ txChannel' = Append(txChannel, made')
  /\ UNCHANGED <<queueVars, batchChannel, taken>>

-----------------------------------------------------------------------------
(* txQueue.run and make                                                    *)

\* mutant: the position is not taken modulo the size
AheadPlain(i, k) == (i + k) % (MaxQueueSize + 1)

\* The position k places after i.
Ahead(i, k) == (i + k) % MaxQueueSize

\* run: "Transaction pool is full"
Full == wind = rind

\* mutant: the first transaction of a batch is read before the index moves
BatchBehind(q) ==
  [ID  |-> Id + N * bcnt,
   Txs |-> [i \in 1 .. BatchSize |-> q[Ahead(rind + MaxQueueSize, i - 1)]]]

\* The batch make() reads out of the buffer q.
BatchOf(q) ==
  [ID  |-> Id + N * bcnt, Txs |-> [i \in 1 .. BatchSize |-> q[Ahead(rind, i)]]]

\* mutant: a batch is made one transaction too late
EnqueueLate ==
  /\ sending = <<>>
  /\ txChannel # <<>>
  /\ txChannel' = Tail(txChannel)
  /\ IF Full
       THEN UNCHANGED queueVars
       ELSE /\ queue' = [queue EXCEPT ![wind] = Head(txChannel)]
            /\ wind' = Ahead(wind, 1)
            /\ IF nums + 1 > BatchSize
                 THEN /\ sending' = <<BatchOf(queue')>>
                      /\ rind' = Ahead(rind, BatchSize)
                      /\ nums' = nums + 1 - BatchSize
                 ELSE /\ nums' = nums + 1
                      /\ UNCHANGED <<rind, sending>>
            /\ UNCHANGED bcnt
  /\ UNCHANGED <<makerVars, batchChannel, taken>>

\* One turn of run, with make() up to its send: the transaction is dropped
\* when the buffer is full, else stored; if it completes a batch the batch is
\* read out.
Enqueue ==
  /\ sending = <<>>
  /\ txChannel # <<>>
  /\ txChannel' = Tail(txChannel)
  /\ IF Full
       THEN UNCHANGED queueVars
       ELSE /\ queue' = [queue EXCEPT ![wind] = Head(txChannel)]
            /\ wind' = Ahead(wind, 1)
            /\ IF nums + 1 >= BatchSize
                 THEN /\ sending' = <<BatchOf(queue')>>
                      /\ rind' = Ahead(rind, BatchSize)
                      /\ nums' = nums + 1 - BatchSize
                 ELSE /\ nums' = nums + 1
                      /\ UNCHANGED <<rind, sending>>
            /\ UNCHANGED bcnt
  /\ UNCHANGED <<makerVars, batchChannel, taken>>

\* The send at the end of make(), and the deferred bcnt++.
SendBatch ==
  /\ sending # <<>>
  /\ Len(batchChannel) < BatchCap
  /\ batchChannel' = Append(batchChannel, sending[1])
  /\ sending' = <<>>
  /\ bcnt' = bcnt + 1
  /\ UNCHANGED <<makerVars, txChannel, queue, wind, rind, nums, taken>>

\* mutant: the last batch is left in the channel
GetBatchButLast ==
  /\ Len(batchChannel) > 1
  /\ taken' = Append(taken, Head(batchChannel))
  /\ batchChannel' = Tail(batchChannel)
  /\ UNCHANGED <<makerVars, txChannel, queueVars>>

\* GetBatch, called by generateBlock; when no batch is ready the block gets an
\* empty one (ID -1), which changes nothing here.
GetBatch ==
  /\ batchChannel # <<>>
  /\ taken' = Append(taken, Head(batchChannel))
  /\ batchChannel' = Tail(batchChannel)
  /\ UNCHANGED <<makerVars, txChannel, queueVars>>

Next == Tick \/ MakeTx \/ Enqueue \/ SendBatch \/ GetBatch

Spec == Init /\ [][Next]_vars

\* The goroutines run, the ticker ticks, and the core generates blocks for ever
\* (ChainsGrow of MCLoom), each with a GetBatch.
FairSpec ==
  Spec /\ WF_vars(Tick \/ MakeTx) /\ WF_vars(Enqueue \/ SendBatch) /\ WF_vars(GetBatch)

-----------------------------------------------------------------------------
(* Properties                                                              *)

Batch == [ID : Int, Txs : [1 .. BatchSize -> Nat]]

TypeOK ==
  /\ burst \in Nat /\ made \in 0 .. MaxTx
  /\ txChannel \in Seq(Nat) /\ batchChannel \in Seq(Batch)
  /\ queue \in [Index -> Nat]
  /\ wind \in Index /\ rind \in Index \cup {-1} /\ nums \in Nat /\ bcnt \in Nat
  /\ sending \in Seq(Batch) /\ Len(sending) <= 1
  /\ taken \in Seq(Batch)

Stream == INSTANCE TxStream

\* The pool implements the stream of batches: although the ring buffer wraps
\* around, batches wait in channels and run() blocks in make(), no transaction
\* is lost, repeated or reordered, and ids are Id, Id + N, Id + 2N, ...
PoolIsStream == Stream!Spec

\* Backpressure reaches the maker instead of losing transactions: run() never
\* finds the ring buffer full ("Transaction pool is full"), because make()
\* empties it before the write index catches up with the read index.
NeverFull == ~Full

\* Every transaction reaches the core as soon as its batch is complete; nothing
\* stays behind in the buffer or in a channel.  A rate below PRECISION makes
\* bursts of nothing, so this is about rates of at least PRECISION.
AllTaken ==
  \A k \in 1 .. MaxTx \div BatchSize : <>(Len(taken) >= k)
=============================================================================
