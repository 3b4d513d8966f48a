----------------------------- MODULE Committee -----------------------------
(***************************************************************************)
(* The committee of core/config.go: N nodes, numbered from 0, and the two  *)
(* thresholds every quorum of the protocol is counted against.             *)
(***************************************************************************)
EXTENDS Integers

CONSTANT N          \* len(Committee.Authorities)

ASSUME NAssumption == N \in Nat \ {0}

Node == 0 .. N - 1

NONE == -1          \* "no particular node": broadcast

\* HightThreshold: 2f+1 for n = 3f+1.  Go's integer division truncates, and
\* n - 1 is never negative here, so it is \div.
HightThreshold == 2 * ((N - 1) \div 3) + 1
=============================================================================
