----------------------------- MODULE Aggregator -----------------------------
(***************************************************************************)
(* core/aggregator.go: the vote counter that both handleEcho (one per      *)
(* height) and the Elector (one per round) use.  Item is the number of     *)
(* votes held: the code only looks at the length of the list, and the      *)
(* shares inside it always combine to the round's coin.                    *)
(***************************************************************************)
EXTENDS Committee

Aggregators == [Item : Nat, Used : SUBSET Node]

NewAggregator == [Item |-> 0, Used |-> {}]

\* mutant: the check of Used is missing
PushAlways(ag, author) ==
  [Item |-> ag.Item + 1, Used |-> ag.Used \cup {author}]

\* Push ignores a second vote of the same author.
Push(ag, author) ==
  IF author \in ag.Used
    THEN ag
    ELSE [Item |-> ag.Item + 1, Used |-> ag.Used \cup {author}]

\* mutant: > for >=
MoreThanEnough(ag) == ag.Item > HightThreshold

\* mutant: one vote short
AlmostEnough(ag) == ag.Item >= HightThreshold - 1

\* Take answers non-nil exactly when Enough holds ...
Enough(ag) == ag.Item >= HightThreshold

\* mutant: Item = Item[1:]
TakeOne(ag) == IF Enough(ag) THEN [ag EXCEPT !.Item = @ - 1] ELSE ag

\* mutant: cut without looking at the length
TakeAlways(ag) == [ag EXCEPT !.Item = @ - HightThreshold]

\* ... and then drops the first HightThreshold votes, not all of them.
Take(ag) == IF Enough(ag) THEN [ag EXCEPT !.Item = @ - HightThreshold] ELSE ag
=============================================================================
