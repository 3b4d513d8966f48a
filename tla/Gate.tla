-------------------------------- MODULE Gate --------------------------------
(***************************************************************************)
(* What a family of vote counters promises its caller: the counter of a    *)
(* key says "go" once, at the moment the voters heard for the key become a *)
(* quorum, and never again.                                                *)
(***************************************************************************)
EXTENDS Integers

CONSTANTS Key, Voter,
          Quorums          \* the sets of voters that are enough

VARIABLES voted, fired

vars == <<voted, fired>>

Init ==
  /\ voted = [k \in Key |-> {}]
  /\ fired = [k \in Key |-> 0]

Vote(k, v) ==
  /\ voted' = [voted EXCEPT ![k] = @ \cup {v}]
  /\ fired' = [fired EXCEPT ![k] =
                 IF voted[k] \notin Quorums /\ voted[k] \cup {v} \in Quorums
                   THEN @ + 1
                   ELSE @]

Next == \E k \in Key, v \in Voter : Vote(k, v)

Spec == Init /\ [][Next]_vars
=============================================================================
