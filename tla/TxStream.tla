------------------------------ MODULE TxStream ------------------------------
(***************************************************************************)
(* What the transaction pool promises the core: the batches it hands out   *)
(* cut the stream of transactions into consecutive pieces of BatchSize,    *)
(* nothing left out, repeated or reordered, and batch k carries the id     *)
(* Id + N * k, which no other node uses.                                   *)
(***************************************************************************)
EXTENDS Integers, Sequences

CONSTANTS BatchSize, N, Id

VARIABLES made,     \* transactions 1 .. made have been produced
          taken     \* the batches handed out, in order

vars == <<made, taken>>

\* The k-th piece of the stream, k = 0, 1, ...
Piece(k) == [ID  |-> Id + N * k,
             Txs |-> [i \in 1 .. BatchSize |-> k * BatchSize + i]]

Init == made = 0 /\ taken = <<>>

Produce == made' = made + 1 /\ UNCHANGED taken

HandOut ==
  /\ (Len(taken) + 1) * BatchSize <= made
  /\ taken' = Append(taken, Piece(Len(taken)))
  /\ UNCHANGED made

Next == Produce \/ HandOut

Spec == Init /\ [][Next]_vars
=============================================================================
