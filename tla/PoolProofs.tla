----------------------------- MODULE PoolProofs -----------------------------
(***************************************************************************)
(* Proofs about Pool for every rate, batch size, larger queue size and     *)
(* channel capacities: the ring buffer is never full, and the pool hands   *)
(* out the stream of transactions in order.                                *)
(***************************************************************************)
EXTENDS Pool, TLAPS

-----------------------------------------------------------------------------
(* Positions in the ring buffer                                            *)

\* A position wraps around at the end of the buffer, once.
LEMMA AheadIs ==
  ASSUME NEW i \in Int, NEW k \in Int, 0 <= i + k, i + k < 2 * MaxQueueSize
  PROVE  /\ Ahead(i, k) = IF i + k < MaxQueueSize THEN i + k ELSE i + k - MaxQueueSize
         /\ Ahead(i, k) \in Index
<1>1. MaxQueueSize \in Nat /\ MaxQueueSize > 0
  BY PoolAssumption
<1> QED
  BY <1>1 DEF Ahead, Index

\* Positions less than a round apart differ, and going on from a position is
\* going further from where it came from.
LEMMA AheadMoves ==
  ASSUME NEW i \in Index \cup {-1}, NEW j \in 1 .. BatchSize, NEW k \in 1 .. BatchSize
  PROVE  /\ Ahead(i, k) \in Index
         /\ Ahead(i, k) # i
         /\ j # k => Ahead(i, j) # Ahead(i, k)
         /\ Ahead(Ahead(i, k), 1) = Ahead(i, k + 1)
<1>1. /\ MaxQueueSize \in Nat /\ BatchSize \in Nat /\ BatchSize < MaxQueueSize
      /\ i \in Int /\ i >= -1 /\ i < MaxQueueSize
      /\ j \in Int /\ k \in Int /\ 1 <= j /\ 1 <= k /\ j < MaxQueueSize /\ k < MaxQueueSize
  BY PoolAssumption DEF Index
<1>2. /\ Ahead(i, k) = IF i + k < MaxQueueSize THEN i + k ELSE i + k - MaxQueueSize
      /\ Ahead(i, k) \in Index
  BY <1>1, AheadIs
<1>3. Ahead(i, j) = IF i + j < MaxQueueSize THEN i + j ELSE i + j - MaxQueueSize
  BY <1>1, AheadIs
<1>4. Ahead(i, k + 1) =
        IF i + k + 1 < MaxQueueSize THEN i + k + 1 ELSE i + k + 1 - MaxQueueSize
  BY <1>1, AheadIs
<1>5. Ahead(i, k) \in Int /\ 0 <= Ahead(i, k) /\ Ahead(i, k) < MaxQueueSize
  BY <1>1, <1>2 DEF Index
<1>6. Ahead(Ahead(i, k), 1) =
        IF Ahead(i, k) + 1 < MaxQueueSize THEN Ahead(i, k) + 1
        ELSE Ahead(i, k) + 1 - MaxQueueSize
  BY <1>1, <1>5, AheadIs
<1> QED
  BY <1>1, <1>2, <1>3, <1>4, <1>6

\* More batches hold more transactions.
LEMMA Times ==
  ASSUME NEW a \in Nat, NEW b \in Nat, NEW k \in Nat, a <= b
  PROVE  a * k <= b * k
<1>1. PICK c \in Nat : b = a + c
  <2>1. b - a \in Nat /\ b = a + (b - a)
    OBVIOUS
  <2> QED
    BY <2>1
<1>2. (a + c) * k = a * k + c * k /\ c * k \in Nat /\ a * k \in Nat
  OBVIOUS
<1> QED
  BY <1>1, <1>2

-----------------------------------------------------------------------------
(* The inductive invariant                                                 *)

\* Transactions that have been read out of the buffer.
Out == (bcnt + Len(sending)) * BatchSize

\* Every transaction is in one place, and all of them are in order: in batches,
\* in the buffer after the read index, in txChannel.
InOrder ==
  /\ bcnt = Len(taken) + Len(batchChannel)
  /\ \A k \in 1 .. Len(batchChannel) : batchChannel[k] = Stream!Piece(Len(taken) + k - 1)
  /\ sending # <<>> => sending[1] = Stream!Piece(bcnt)
  /\ nums < BatchSize
  /\ wind = Ahead(rind, nums + 1)
  /\ \A i \in 1 .. nums : queue[Ahead(rind, i)] = Out + i
  /\ \A j \in 1 .. Len(txChannel) : txChannel[j] = Out + nums + j
  /\ made = Out + nums + Len(txChannel)

PInv == TypeOK /\ InOrder

\* Numbers of transactions are numbers.
LEMMA Numbers ==
  ASSUME TypeOK
  PROVE  /\ BatchSize \in Nat /\ BatchSize > 0 /\ nums \in Nat /\ bcnt \in Nat /\ made \in Nat
         /\ Len(sending) \in {0, 1} /\ Out \in Nat
         /\ sending = <<>> => Out = bcnt * BatchSize
         /\ Len(taken) \in Nat /\ Len(batchChannel) \in Nat /\ Len(txChannel) \in Nat
<1>1. /\ BatchSize \in Nat /\ BatchSize > 0 /\ nums \in Nat /\ bcnt \in Nat /\ made \in Nat
      /\ Len(sending) \in {0, 1}
      /\ Len(taken) \in Nat /\ Len(batchChannel) \in Nat /\ Len(txChannel) \in Nat
  <2>1. BatchSize \in Nat /\ BatchSize > 0 /\ nums \in Nat /\ bcnt \in Nat /\ made \in Nat
    BY PoolAssumption DEF TypeOK
  <2>2. sending \in Seq(Batch) /\ taken \in Seq(Batch) /\ batchChannel \in Seq(Batch)
        /\ txChannel \in Seq(Nat) /\ Len(sending) <= 1
    BY DEF TypeOK
  <2>3. Len(sending) \in Nat /\ Len(taken) \in Nat /\ Len(batchChannel) \in Nat
        /\ Len(txChannel) \in Nat
    BY <2>2
  <2>4. Len(sending) \in {0, 1}
    <3>1. \A n \in Nat : n <= 1 => n \in {0, 1}
      OBVIOUS
    <3> QED
      BY <2>2, <2>3, <3>1, Zenon
  <2> QED
    BY <2>1, <2>3, <2>4
<1>2. Out \in Nat
  BY <1>1 DEF Out
<1>3. sending = <<>> => Out = bcnt * BatchSize
  BY <1>1 DEF Out
<1> QED
  BY <1>1, <1>2, <1>3

\* run() finds room (pool.go:44): the write index is less than a round ahead of
\* the read index.
LEMMA NotFull == PInv => NeverFull
<1> SUFFICES ASSUME PInv PROVE wind # rind
  BY DEF NeverFull, Full
<1>1. nums + 1 \in 1 .. BatchSize /\ rind \in Index \cup {-1} /\ wind = Ahead(rind, nums + 1)
  BY Numbers, SMTT(30) DEF PInv, InOrder, TypeOK
<1> QED
  BY <1>1, AheadMoves, SMTT(30)

\* An empty pool (NewPool).
LEMMA PInit == Init => PInv
<1> SUFFICES ASSUME Init PROVE PInv
  OBVIOUS
<1>1. TypeOK
  BY PoolAssumption DEF Init, TypeOK, Index
<1>2. Out = 0
  BY PoolAssumption DEF Init, Out
<1>3. Ahead(-1, 1) = 0
  BY PoolAssumption, AheadIs
<1>4. InOrder
  BY <1>2, <1>3, PoolAssumption DEF Init, InOrder
<1> QED
  BY <1>1, <1>4 DEF PInv

-----------------------------------------------------------------------------
(* The steps                                                               *)

\* The maker's steps: a transaction is numbered and sent.
LEMMA MakeTxStep ==
  ASSUME PInv, MakeTx
  PROVE  PInv' /\ Stream!Produce
<1> USE DEF MakeTx, queueVars
<1>1. txChannel' \in Seq(Nat) /\ made' \in 0 .. MaxTx /\ burst' \in Nat
  BY PoolAssumption DEF PInv, TypeOK
<1>2. TypeOK'
  BY <1>1 DEF PInv, TypeOK
<1>3. Out' = Out
  BY DEF Out
<1>4. Len(txChannel') = Len(txChannel) + 1
      /\ \A j \in 1 .. Len(txChannel') :
            txChannel'[j] = IF j = Len(txChannel) + 1 THEN made + 1 ELSE txChannel[j]
  BY DEF PInv, TypeOK
<1>5. made' = made + 1 /\ made = Out + nums + Len(txChannel) /\ nums' = nums
  BY DEF PInv, InOrder
<1>6. Out \in Nat /\ nums \in Nat /\ Len(txChannel) \in Nat
  BY Numbers DEF PInv
<1>7. made' = Out' + nums' + Len(txChannel')
  BY <1>3, <1>4, <1>5, <1>6
<1>8. \A j \in 1 .. Len(txChannel') : txChannel'[j] = Out' + nums' + j
  <2> SUFFICES ASSUME NEW j \in 1 .. Len(txChannel') PROVE txChannel'[j] = Out' + nums' + j
    OBVIOUS
  <2>1. CASE j = Len(txChannel) + 1
    BY <1>3, <1>4, <1>5, <1>6, <2>1
  <2>2. CASE j # Len(txChannel) + 1
    <3>1. j \in 1 .. Len(txChannel)
      BY <1>4, <1>6, <2>2
    <3> QED
      BY <1>3, <1>4, <1>5, <2>2, <3>1 DEF PInv, InOrder
  <2> QED
    BY <2>1, <2>2
<1>9. InOrder'
  BY <1>3, <1>7, <1>8 DEF PInv, InOrder
<1> QED
  BY <1>2, <1>9 DEF PInv, Stream!Produce

\* The batch goes into batchChannel.
LEMMA SendBatchStep ==
  ASSUME PInv, SendBatch
  PROVE  PInv'
<1> USE DEF SendBatch, makerVars
<1>1. Len(sending) = 1 /\ sending[1] \in Batch /\ Len(sending') = 0
  BY Numbers DEF PInv, TypeOK
<1>2. batchChannel' \in Seq(Batch) /\ bcnt' \in Nat
  BY <1>1, Numbers DEF PInv, TypeOK
<1>3. TypeOK'
  BY <1>1, <1>2 DEF PInv, TypeOK
<1>4. Out' = Out
  BY <1>1, Numbers DEF PInv, Out
<1>5. Len(batchChannel') = Len(batchChannel) + 1
      /\ \A k \in 1 .. Len(batchChannel') :
            batchChannel'[k] = IF k = Len(batchChannel) + 1 THEN sending[1] ELSE batchChannel[k]
  BY DEF PInv, TypeOK
<1>6. bcnt' = Len(taken') + Len(batchChannel')
  BY <1>5, Numbers DEF PInv, InOrder
<1>7. ASSUME NEW k \in 1 .. Len(batchChannel')
      PROVE  batchChannel'[k] = Stream!Piece(Len(taken') + k - 1)
  <2>1. CASE k = Len(batchChannel) + 1
    <3>1. Len(taken') + k - 1 = bcnt
      BY <2>1, Numbers DEF PInv, InOrder
    <3>2. batchChannel'[k] = Stream!Piece(bcnt)
      BY <1>5, <2>1 DEF PInv, InOrder
    <3> QED
      BY <3>1, <3>2
  <2>2. CASE k # Len(batchChannel) + 1
    <3>1. Len(batchChannel) \in Nat /\ Len(batchChannel') = Len(batchChannel) + 1
      BY <1>5, Numbers DEF PInv
    <3>2. k \in 1 .. Len(batchChannel)
      BY <2>2, <3>1
    <3> QED
      BY <1>5, <2>2, <3>2 DEF PInv, InOrder
  <2> QED
    BY <2>1, <2>2
<1>8. InOrder'
  BY <1>4, <1>6, <1>7 DEF PInv, InOrder
<1> QED
  BY <1>3, <1>8 DEF PInv

\* The core takes a batch: the next piece of the stream.
LEMMA GetBatchStep ==
  ASSUME PInv, GetBatch
  PROVE  PInv' /\ Stream!HandOut
<1> USE DEF GetBatch, makerVars, queueVars
<1>1. /\ Len(batchChannel) >= 1 /\ Head(batchChannel) = batchChannel[1]
      /\ batchChannel[1] \in Batch
      /\ batchChannel' \in Seq(Batch) /\ Len(batchChannel') = Len(batchChannel) - 1
      /\ \A k \in 1 .. Len(batchChannel') : batchChannel'[k] = batchChannel[k + 1]
  BY DEF PInv, TypeOK
<1>2. taken' \in Seq(Batch) /\ Len(taken') = Len(taken) + 1
  BY <1>1 DEF PInv, TypeOK
<1>3. TypeOK'
  BY <1>1, <1>2 DEF PInv, TypeOK
<1>4. Out' = Out
  BY DEF Out
<1>5. bcnt' = Len(taken') + Len(batchChannel')
  BY <1>1, <1>2, Numbers DEF PInv, InOrder
<1>6. ASSUME NEW k \in 1 .. Len(batchChannel')
      PROVE  batchChannel'[k] = Stream!Piece(Len(taken') + k - 1)
  <2>1. k + 1 \in 1 .. Len(batchChannel)
    BY <1>1, Numbers DEF PInv
  <2>2. batchChannel[k + 1] = Stream!Piece(Len(taken) + (k + 1) - 1)
    BY <2>1 DEF PInv, InOrder
  <2>3. Len(taken) + (k + 1) - 1 = Len(taken') + k - 1
    BY <1>2, Numbers DEF PInv
  <2> QED
    BY <1>1, <2>2, <2>3
<1>7. InOrder'
  BY <1>4, <1>5, <1>6 DEF PInv, InOrder
<1>8. Head(batchChannel) = Stream!Piece(Len(taken))
  <2>1. 1 \in 1 .. Len(batchChannel) /\ Len(taken) + 1 - 1 = Len(taken)
    BY <1>1, Numbers DEF PInv
  <2>2. batchChannel[1] = Stream!Piece(Len(taken) + 1 - 1)
    BY <2>1 DEF PInv, InOrder
  <2> QED
    BY <1>1, <2>1, <2>2
<1>9. (Len(taken) + 1) * BatchSize <= made
  <2>1. Len(taken) + 1 <= bcnt + Len(sending)
    BY <1>1, Numbers DEF PInv, InOrder
  <2>2. (Len(taken) + 1) * BatchSize <= (bcnt + Len(sending)) * BatchSize
    <3>1. Len(taken) + 1 \in Nat /\ bcnt + Len(sending) \in Nat /\ BatchSize \in Nat
      BY Numbers, SMTT(30) DEF PInv
    <3> QED
      BY <2>1, <3>1, Times
  <2>3. made = Out + nums + Len(txChannel) /\ Out = (bcnt + Len(sending)) * BatchSize
    BY DEF PInv, InOrder, Out
  <2>4. Out <= made
    <3>1. Out \in Nat /\ nums \in Nat /\ Len(txChannel) \in Nat
      BY Numbers DEF PInv
    <3> QED
      BY <2>3, <3>1
  <2>5. (Len(taken) + 1) * BatchSize <= Out
    BY <2>2, <2>3
  <2>6. (Len(taken) + 1) * BatchSize \in Nat /\ Out \in Nat /\ made \in Nat
    BY Numbers DEF PInv
  <2> DEFINE x == (Len(taken) + 1) * BatchSize
  <2>7. x <= Out /\ Out <= made /\ x \in Nat /\ Out \in Nat /\ made \in Nat
    BY <2>4, <2>5, <2>6
  <2> HIDE DEF x
  <2>8. x <= made
    BY <2>7
  <2> QED
    BY <2>8 DEF x
<1> QED
  BY <1>3, <1>7, <1>8, <1>9 DEF PInv, Stream!HandOut

\* run() stores a transaction behind the others; when the batch is complete,
\* make() reads it out in the order in which it was stored.
LEMMA EnqueueStep ==
  ASSUME PInv, Enqueue
  PROVE  PInv'
<1> DEFINE tx == Head(txChannel)
<1>1. /\ sending = <<>> /\ Len(sending) = 0 /\ txChannel' = Tail(txChannel)
      /\ UNCHANGED <<burst, made, batchChannel, taken, bcnt>>
      /\ queue' = [queue EXCEPT ![wind] = tx] /\ wind' = Ahead(wind, 1)
      /\ nums + 1 >= BatchSize =>
           /\ sending' = <<BatchOf(queue')>>
           /\ rind' = Ahead(rind, BatchSize)
           /\ nums' = nums + 1 - BatchSize
      /\ nums + 1 < BatchSize => nums' = nums + 1 /\ rind' = rind /\ sending' = sending
  BY NotFull, Numbers, SMTT(30) DEF Enqueue, NeverFull, makerVars, PInv
<1>2. /\ Len(txChannel) >= 1 /\ Len(txChannel') = Len(txChannel) - 1
      /\ tx = txChannel[1] /\ tx \in Nat /\ txChannel' \in Seq(Nat)
      /\ \A j \in 1 .. Len(txChannel') : txChannel'[j] = txChannel[j + 1]
  BY SMTT(30) DEF Enqueue, PInv, TypeOK
<1>3. /\ BatchSize \in Nat /\ BatchSize > 0 /\ nums \in Nat /\ nums < BatchSize
      /\ Out \in Nat /\ bcnt \in Nat /\ Out = bcnt * BatchSize /\ Len(txChannel) \in Nat
  BY <1>1, Numbers DEF PInv, InOrder
<1>4. nums + 1 \in 1 .. BatchSize /\ rind \in Index \cup {-1} /\ wind = Ahead(rind, nums + 1)
  BY <1>3 DEF PInv, InOrder, TypeOK
<1>5. wind \in Index /\ wind' = Ahead(rind, nums + 2) /\ wind' \in Index
  <2>1. wind \in Index /\ Ahead(wind, 1) = Ahead(rind, (nums + 1) + 1)
    BY <1>4, AheadMoves
  <2>2. (nums + 1) + 1 = nums + 2
    BY <1>3
  <2>3. MaxQueueSize \in Nat /\ wind \in Int /\ 0 <= wind + 1 /\ wind + 1 < 2 * MaxQueueSize
    BY <2>1, PoolAssumption DEF Index
  <2>4. Ahead(wind, 1) \in Index
    BY <2>3, AheadIs
  <2> QED
    BY <1>1, <2>1, <2>2, <2>4
<1>6. tx = Out + nums + 1
  <2>1. 1 \in 1 .. Len(txChannel)
    BY <1>2, <1>3
  <2> QED
    BY <1>2, <2>1 DEF PInv, InOrder
<1>7. queue' \in [Index -> Nat] /\ queue \in [Index -> Nat]
  BY <1>1, <1>2, <1>5 DEF PInv, TypeOK
<1> HIDE DEF tx
<1>8. \A i \in 1 .. nums + 1 : queue'[Ahead(rind, i)] = Out + i
  <2> SUFFICES ASSUME NEW i \in 1 .. nums + 1 PROVE queue'[Ahead(rind, i)] = Out + i
    OBVIOUS
  <2>1. i \in 1 .. BatchSize
    BY <1>3
  <2>2. Ahead(rind, i) \in Index /\ (i # nums + 1 => Ahead(rind, i) # wind)
    BY <1>4, <2>1, AheadMoves
  <2>3. CASE i = nums + 1
    BY <1>1, <1>3, <1>4, <1>5, <1>6, <1>7, <2>3
  <2>4. CASE i # nums + 1
    <3>1. i \in 1 .. nums
      BY <1>3, <2>4
    <3>2. queue'[Ahead(rind, i)] = queue[Ahead(rind, i)]
      BY <1>1, <1>7, <2>2, <2>4
    <3> QED
      BY <3>1, <3>2 DEF PInv, InOrder
  <2> QED
    BY <2>3, <2>4
<1>9. /\ made = Out + (nums + 1) + Len(txChannel')
      /\ \A j \in 1 .. Len(txChannel') : txChannel'[j] = Out + (nums + 1) + j
  <2>1. made = Out + nums + Len(txChannel)
    BY DEF PInv, InOrder
  <2>2. ASSUME NEW j \in 1 .. Len(txChannel') PROVE txChannel'[j] = Out + (nums + 1) + j
    <3>1. j + 1 \in 1 .. Len(txChannel)
      BY <1>2, <1>3
    <3>2. txChannel[j + 1] = Out + nums + (j + 1)
      BY <3>1 DEF PInv, InOrder
    <3> QED
      BY <1>2, <1>3, <3>2
  <2> QED
    BY <1>2, <1>3, <2>1, <2>2
<1>10. CASE nums + 1 < BatchSize
  <2>1. nums' = nums + 1 /\ rind' = rind /\ sending' = sending /\ Out' = Out
    BY <1>1, <1>10 DEF Out
  <2>2. TypeOK'
    BY <1>1, <1>2, <1>3, <1>5, <1>7, <2>1 DEF PInv, TypeOK
  <2>3. wind' = Ahead(rind', nums' + 1)
    <3>1. nums' + 1 = nums + 2
      BY <1>3, <2>1
    <3> QED
      BY <1>5, <2>1, <3>1
  <2>4. \A i \in 1 .. nums' : queue'[Ahead(rind', i)] = Out' + i
    BY <1>8, <2>1
  <2>5. /\ made' = Out' + nums' + Len(txChannel')
        /\ \A j \in 1 .. Len(txChannel') : txChannel'[j] = Out' + nums' + j
    BY <1>1, <1>9, <2>1
  <2>6. /\ bcnt' = Len(taken') + Len(batchChannel')
        /\ \A k \in 1 .. Len(batchChannel') :
              batchChannel'[k] = Stream!Piece(Len(taken') + k - 1)
        /\ sending' = <<>> /\ nums' < BatchSize
    BY <1>1, <1>10, <2>1 DEF PInv, InOrder
  <2> QED
    BY <2>2, <2>3, <2>4, <2>5, <2>6 DEF PInv, InOrder
<1>11. CASE nums + 1 >= BatchSize
  <2>1. nums + 1 = BatchSize /\ nums' = 0 /\ rind' = wind /\ sending' = <<BatchOf(queue')>>
    BY <1>1, <1>3, <1>4, <1>11
  <2>2. BatchOf(queue') = Stream!Piece(bcnt)
    BY <1>3, <1>8, <2>1 DEF BatchOf, Stream!Piece
  <2>3. BatchOf(queue') \in Batch
    <3>1. \A i \in 1 .. BatchSize : queue'[Ahead(rind, i)] \in Nat
      BY <1>3, <1>8, <2>1
    <3>2. Id + N * bcnt \in Int
      BY <1>3, PoolAssumption
    <3> QED
      BY <3>1, <3>2 DEF BatchOf, Batch
  <2>4. sending' \in Seq(Batch) /\ Len(sending') = 1 /\ sending'[1] = Stream!Piece(bcnt)
    BY <2>1, <2>2, <2>3
  <2>5. TypeOK'
    BY <1>1, <1>2, <1>5, <1>7, <2>1, <2>4 DEF PInv, TypeOK
  <2>6. Out' = Out + (nums + 1)
    <3>1. (bcnt + 1) * BatchSize = bcnt * BatchSize + BatchSize
      BY <1>3
    <3> QED
      BY <1>1, <1>3, <2>1, <2>4, <3>1 DEF Out
  <2>7. wind' = Ahead(rind', nums' + 1)
    BY <1>1, <2>1
  <2>8. \A i \in 1 .. nums' : queue'[Ahead(rind', i)] = Out' + i
    BY <2>1
  <2>9. /\ made' = Out' + nums' + Len(txChannel')
        /\ \A j \in 1 .. Len(txChannel') : txChannel'[j] = Out' + nums' + j
    <3>1. Out' + nums' = Out + (nums + 1)
      BY <1>3, <2>1, <2>6
    <3> QED
      BY <1>1, <1>9, <3>1
  <2>10. /\ bcnt' = Len(taken') + Len(batchChannel')
         /\ \A k \in 1 .. Len(batchChannel') :
               batchChannel'[k] = Stream!Piece(Len(taken') + k - 1)
         /\ sending'[1] = Stream!Piece(bcnt') /\ nums' < BatchSize
    BY <1>1, <1>3, <2>1, <2>4 DEF PInv, InOrder
  <2> QED
    BY <2>5, <2>7, <2>8, <2>9, <2>10 DEF PInv, InOrder
<1> QED
  BY <1>3, <1>10, <1>11

\* Every step keeps the invariant and is a step of the stream, or none.
LEMMA PStep ==
  ASSUME PInv, [Next]_vars
  PROVE  PInv' /\ [Stream!Next]_(Stream!vars)
<1>1. CASE Tick
  <2>1. burst' \in Nat
    BY <1>1, PoolAssumption DEF Tick, PRECISION
  <2> QED
    BY <1>1, <2>1 DEF Tick, PInv, TypeOK, InOrder, Out, queueVars, Stream!vars
<1>2. CASE UNCHANGED vars
  BY <1>2 DEF vars, PInv, TypeOK, InOrder, Out, Stream!vars
<1>3. CASE MakeTx
  BY <1>3, MakeTxStep DEF Stream!Next
<1>4. CASE Enqueue
  BY <1>4, EnqueueStep DEF Enqueue, makerVars, Stream!vars
<1>5. CASE SendBatch
  BY <1>5, SendBatchStep DEF SendBatch, makerVars, Stream!vars
<1>6. CASE GetBatch
  BY <1>6, GetBatchStep DEF Stream!Next
<1> QED
  BY <1>1, <1>2, <1>3, <1>4, <1>5, <1>6 DEF Next

-----------------------------------------------------------------------------
\* The invariant holds in every state.
LEMMA Invariant == Spec => []PInv
<1>1. PInv /\ [Next]_vars => PInv'
  BY PStep
<1> QED
  BY <1>1, PInit, PTL DEF Spec

\* txQueue.run never meets a full buffer, whatever the rate and however slowly
\* the core takes batches, as long as a batch is smaller than the buffer.
THEOREM PoolNeverFull == Spec => []NeverFull
  BY Invariant, NotFull, PTL

\* The pool implements the stream of batches for every batch size below the size
\* of the buffer: nothing is lost, repeated or reordered.
THEOREM PoolRefinesStream == Spec => PoolIsStream
<1>1. Init => Stream!Init
  BY DEF Init, Stream!Init
<1>2. PInv /\ [Next]_vars => [Stream!Next]_(Stream!vars)
  BY PStep
<1> QED
  BY <1>1, <1>2, Invariant, PTL DEF Spec, PoolIsStream, Stream!Spec
=============================================================================
