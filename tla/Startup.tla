------------------------------ MODULE Startup ------------------------------
(***************************************************************************)
(* The start of the nodes of a committee: NewNode (node.go) reads the      *)
(* files and makes the parts, Consensus (consensus.go) starts the network  *)
(* and waits until it has reached every peer before it starts the core.    *)
(***************************************************************************)
CONSTANTS Node

VARIABLES
  fault,          \* fault[n]: what n cannot open: "files", its "port", or "none"
  stage,          \* stage[n]: "new", "failed", "waiting" or "running"
  listening,      \* nodes whose receiver accepts connections
  probed          \* probed[n]: peers that n has found online

vars == <<fault, stage, listening, probed>>

Init ==
  /\ fault \in [Node -> {"none", "files", "port"}]
  /\ stage = [n \in Node |-> "new"]
  /\ listening = {}
  /\ probed = [n \in Node |-> {}]

\* NewNode: the first file that cannot be read or opened is the end of it (an
\* error or a panic); otherwise Consensus is called.
NewNode(n) ==
  /\ stage[n] = "new"
  /\ stage' = [stage EXCEPT ![n] = IF fault[n] = "files" THEN "failed" ELSE "waiting"]
  /\ UNCHANGED <<fault, listening, probed>>

\* Receiver.Run, in a goroutine of its own that Consensus does not wait for; a
\* port that cannot be bound is a panic.
Listen(n) ==
  /\ stage[n] \in {"waiting", "running"}
  /\ n \notin listening
  /\ IF fault[n] = "port"
       THEN stage' = [stage EXCEPT ![n] = "failed"] /\ UNCHANGED listening
       ELSE listening' = listening \cup {n} /\ UNCHANGED stage
  /\ UNCHANGED <<fault, probed>>

\* The goroutine that dials p until p answers.
Probe(n, p) ==
  /\ stage[n] = "waiting"
  /\ p \notin probed[n]
  /\ p \in listening
  /\ probed' = [probed EXCEPT ![n] = @ \cup {p}]
  /\ UNCHANGED <<fault, stage, listening>>

\* mutant: one answer is enough
StartEarly(n) ==
  /\ stage[n] = "waiting"
  /\ probed[n] # {}
  /\ stage' = [stage EXCEPT ![n] = "running"]
  /\ UNCHANGED <<fault, listening, probed>>

\* mutant: a node waits for itself as well, which it never dials
StartNever(n) ==
  /\ stage[n] = "waiting"
  /\ probed[n] = Node
  /\ stage' = [stage EXCEPT ![n] = "running"]
  /\ UNCHANGED <<fault, listening, probed>>

\* wg.Wait() returns; the pool and the core are started.
Start(n) ==
  /\ stage[n] = "waiting"
  /\ probed[n] = Node \ {n}
  /\ stage' = [stage EXCEPT ![n] = "running"]
  /\ UNCHANGED <<fault, listening, probed>>

NodeStep(n) == NewNode(n) \/ Listen(n) \/ Start(n) \/ \E p \in Node \ {n} : Probe(n, p)

Next == \E n \in Node : NodeStep(n)

Spec == Init /\ [][Next]_vars

\* Every node is launched, and its goroutines run; each does a bounded number of
\* things.
FairSpec == Spec /\ \A n \in Node : WF_vars(NodeStep(n))

-----------------------------------------------------------------------------
(* Properties                                                              *)

TypeOK ==
  /\ fault \in [Node -> {"none", "files", "port"}] /\ listening \subseteq Node
  /\ stage \in [Node -> {"new", "failed", "waiting", "running"}]
  /\ probed \in [Node -> SUBSET Node]

Running == {n \in Node : stage[n] = "running"}

\* When the core of a node runs, every peer accepts its connections: "Waiting
\* for all nodes to be online" does, although the nodes start in any order and
\* no node says that it is ready.
OnlineBeforeStart == \A n \in Running : Node \ {n} \subseteq listening

\* A committee starts as a whole: no node waits for ever for the others when all
\* of them can start.
EveryoneStarts == (\A n \in Node : fault[n] = "none") => <>(Running = Node)
=============================================================================
