----------------------------- MODULE Retriever -----------------------------
(***************************************************************************)
(* The retriever of one node (retriever.go), with the handlers of the core *)
(* that feed it (handleRequestBlock, handleReplyBlock and handleLoopBack   *)
(* of core.go) and the peers that answer.                                  *)
(*                                                                         *)
(* Nothing in the repository calls requestBlocks, and nothing but          *)
(* handleReplyBlock writes the store.  The module models the component for *)
(* a caller that has received a block, misses blocks it refers to and      *)
(* wants the block back when they have been asked for.                     *)
(***************************************************************************)
EXTENDS Integers, Sequences, FiniteSets

CONSTANTS
  Peer, Digest,
  Held,          \* Held[p]: what the store of p has
  Lossy,         \* peers to and from which messages may get lost
  ReqCap,        \* capacity of reqChannel (100)
  MaxReq         \* bound: calls of requestBlocks

Id == 0 .. MaxReq - 1

ASSUME RetrieverAssumption ==
  /\ Held \in [Peer -> SUBSET Digest] /\ Lossy \subseteq Peer
  /\ ReqCap \in Nat \ {0} /\ MaxReq \in Nat
  /\ IsFiniteSet(Digest)

VARIABLES
  calls,           \* calls of requestBlocks so far
  reqChannel,
  wanted,          \* history: wanted[i]: missRefs of the call that got number i
  cnt, pending, loopBackCnts, miss2Blocks,
  requests,        \* keys of the map requests: open requests
  MissBlock,       \* MissBlock[i]: what request i asks for
  asks,            \* exchanges: <<p, i>> while request i or p's reply is on the way
  replying,        \* goroutines in processReply: <<p, i>>
  looping,         \* goroutines in loopBack, by request
  loopBacks,       \* history: loopBacks[i]: how often loopBack was called for i
  store,           \* blocks retrieved: in the store and pushed to the DAG
  kept,            \* has the caller put its blocks into the store?
  halted           \* the process has panicked

runVars == <<cnt, pending, loopBackCnts, miss2Blocks, requests, MissBlock>>
netVars == <<asks, replying>>
backVars == <<looping, loopBacks, halted>>
vars == <<calls, wanted, reqChannel, cnt, pending, loopBackCnts, miss2Blocks, requests,
          MissBlock, asks, replying, looping, loopBacks, store, kept, halted>>

Init ==
  /\ calls = 0 /\ reqChannel = <<>>
  /\ wanted = [i \in Id |-> {}]
  /\ cnt = 0 /\ pending = {} /\ requests = {}
  /\ loopBackCnts = [i \in Id |-> 0]
  /\ miss2Blocks = [d \in Digest |-> {}]
  /\ MissBlock = [i \in Id |-> {}]
  /\ asks = {} /\ replying = {}
  /\ looping = {} /\ loopBacks = [i \in Id |-> 0]
  /\ store = {} /\ kept \in BOOLEAN
  /\ halted = FALSE

-----------------------------------------------------------------------------
(* The callers                                                             *)

\* requestBlocks, for blocks the node does not have, sent to p first.  The block
\* to come back goes by the number of the call; no step reads it, because run
\* gives the calls the same numbers.
RequestBlocks(miss, p) ==
  /\ calls < MaxReq
  /\ Len(reqChannel) < ReqCap
  /\ calls' = calls + 1
  /\ reqChannel' = Append(reqChannel, [typ |-> "req", back |-> calls, miss |-> miss, to |-> p])
  /\ UNCHANGED <<wanted, runVars, netVars, backVars, store, kept>>

\* mutant: the goroutine does not wait for room
ProcessReplyAlways(g) ==
  /\ g \in replying
  /\ replying' = replying \ {g}
  /\ reqChannel' = Append(reqChannel, [typ |-> "reply", id |-> g[2]])
  /\ UNCHANGED <<calls, wanted, runVars, asks, backVars, store, kept>>

\* processReply, a goroutine of its own.
ProcessReply(g) ==
  /\ g \in replying
  /\ Len(reqChannel) < ReqCap
  /\ replying' = replying \ {g}
  /\ reqChannel' = Append(reqChannel, [typ |-> "reply", id |-> g[2]])
  /\ UNCHANGED <<calls, wanted, runVars, asks, backVars, store, kept>>

-----------------------------------------------------------------------------
(* run                                                                     *)

\* mutant: blocks that are being dealt with are asked for again
NewMissesAll(miss) == miss

\* The blocks nobody has asked for yet ("filter block that dealing").
NewMisses(miss) == miss \ pending

\* mutant: a block that is being dealt with is not noted for this call
RegisterNew(i, miss) ==
  [d \in Digest |-> IF d \in NewMisses(miss) THEN miss2Blocks[d] \cup {i}
                    ELSE miss2Blocks[d]]

\* miss2Blocks with call i noted for every block it misses.
Register(i, miss) ==
  [d \in Digest |-> IF d \in miss THEN miss2Blocks[d] \cup {i} ELSE miss2Blocks[d]]

\* ReqType
ServeReq ==
  /\ reqChannel # <<>> /\ Head(reqChannel).typ = "req"
  /\ reqChannel' = Tail(reqChannel)
  /\ LET miss == Head(reqChannel).miss
         new  == NewMisses(miss)
     IN  /\ wanted' = [wanted EXCEPT ![cnt] = miss]
         /\ loopBackCnts' = [loopBackCnts EXCEPT ![cnt] = Cardinality(miss)]
         /\ miss2Blocks' = Register(cnt, miss)
         /\ pending' = pending \cup new
         /\ IF new = {}
              THEN UNCHANGED <<requests, MissBlock, asks>>
              ELSE /\ requests' = requests \cup {cnt}
                   /\ MissBlock' = [MissBlock EXCEPT ![cnt] = new]
                   /\ asks' = asks \cup {<<Head(reqChannel).to, cnt>>}
  /\ cnt' = cnt + 1
  /\ UNCHANGED <<calls, replying, backVars, store, kept>>

\* How often the reply to request r decrements the counter of call i.
Decrement(r, i) == Cardinality({d \in MissBlock[r] : i \in miss2Blocks[d]})

\* mutant: a counter below zero counts as well
BackNowAgain(r) == {i \in Id : Decrement(r, i) > 0 /\ loopBackCnts[i] <= Decrement(r, i)}

\* The calls whose counter passes zero.
BackNow(r) == {i \in Id : loopBackCnts[i] > 0 /\ loopBackCnts[i] <= Decrement(r, i)}

\* ReplyType; a reply to a request that is closed changes nothing.
ServeReply ==
  /\ reqChannel # <<>> /\ Head(reqChannel).typ = "reply"
  /\ reqChannel' = Tail(reqChannel)
  /\ LET r == Head(reqChannel).id
     IN  IF r \in requests
           THEN /\ loopBackCnts' = [i \in Id |-> loopBackCnts[i] - Decrement(r, i)]
                /\ looping' = looping \cup BackNow(r)
                /\ loopBacks' = [i \in Id |-> IF i \in BackNow(r) THEN loopBacks[i] + 1
                                              ELSE loopBacks[i]]
                /\ pending' = pending \ MissBlock[r]
                /\ requests' = requests \ {r}
           ELSE UNCHANGED <<loopBackCnts, looping, loopBacks, pending, requests>>
  /\ UNCHANGED <<calls, wanted, cnt, miss2Blocks, MissBlock, netVars, store, kept, halted>>

\* mutant: the request gets a new time stamp and is not sent
RetrySilent(r) ==
  /\ r \in requests
  /\ UNCHANGED vars

\* The ticker, for a request that is older than RetryDelay.
Retry(r) ==
  /\ r \in requests
  /\ asks' = asks \cup {<<p, r>> : p \in Peer}
  /\ UNCHANGED <<calls, wanted, reqChannel, runVars, replying, backVars, store, kept>>

\* loopBack, a goroutine of its own, and handleLoopBack: the block is read from
\* the store ("must be  received") and pushed.
LoopBack(i) ==
  /\ i \in looping
  /\ looping' = looping \ {i}
  /\ halted' = ~kept
  /\ UNCHANGED <<calls, wanted, reqChannel, runVars, netVars, loopBacks, store, kept>>

-----------------------------------------------------------------------------
(* The peers, the network and handleReplyBlock                             *)

\* processRequest: p replies with what its store has of the blocks.
Reply(p, r) == MissBlock[r] \cap Held[p]

\* handleRequestBlock and processRequest at p, and handleReplyBlock for the
\* reply.  What the store of p has does not change, so that only the arrival of
\* the reply matters.
HandleReply(p, r) ==
  /\ <<p, r>> \in asks
  /\ asks' = asks \ {<<p, r>>}
  /\ store' = store \cup Reply(p, r)
  /\ replying' = replying \cup {<<p, r>>}
  /\ UNCHANGED <<calls, wanted, reqChannel, runVars, backVars, kept>>

\* A request to a peer of Lossy, or the reply, gets lost.
Lose(p, r) ==
  /\ p \in Lossy
  /\ <<p, r>> \in asks
  /\ asks' = asks \ {<<p, r>>}
  /\ UNCHANGED <<calls, wanted, reqChannel, runVars, replying, backVars, store, kept>>

-----------------------------------------------------------------------------
Run == ServeReq \/ ServeReply

Next ==
  /\ ~halted
  /\ \/ \E miss \in SUBSET (Digest \ store) \ {{}}, p \in Peer : RequestBlocks(miss, p)
     \/ \E g \in replying : ProcessReply(g)
     \/ Run
     \/ \E r \in requests : Retry(r)
     \/ \E i \in looping : LoopBack(i)
     \/ \E p \in Peer, r \in Id : HandleReply(p, r) \/ Lose(p, r)

Spec == Init /\ [][Next]_vars

\* Goroutines run and the ticker ticks.  A peer outside Lossy answers, and its
\* answers come in; nobody has to call requestBlocks.  Of the goroutines blocked
\* on a full reqChannel Go wakes the one that has waited longest.
FairSpec ==
  /\ Spec
  /\ WF_vars(~halted /\ Run)
  /\ \A i \in Id :
       /\ WF_vars(~halted /\ Retry(i)) /\ WF_vars(~halted /\ LoopBack(i))
       /\ \A p \in Peer :
            /\ SF_vars(~halted /\ ProcessReply(<<p, i>>))
            /\ WF_vars(~halted /\ HandleReply(p, i))

-----------------------------------------------------------------------------
(* Properties                                                              *)

Item ==
  [typ : {"req"}, back : Id, miss : SUBSET Digest, to : Peer]
    \cup [typ : {"reply"}, id : Id]

TypeOK ==
  /\ calls \in 0 .. MaxReq /\ cnt \in 0 .. calls
  /\ wanted \in [Id -> SUBSET Digest] /\ MissBlock \in [Id -> SUBSET Digest]
  /\ reqChannel \in Seq(Item) /\ Len(reqChannel) <= ReqCap
  /\ pending \subseteq Digest /\ store \subseteq Digest
  /\ loopBackCnts \in [Id -> Int] /\ loopBacks \in [Id -> Nat]
  /\ miss2Blocks \in [Digest -> SUBSET Id]
  /\ requests \subseteq Id /\ looping \subseteq Id
  /\ asks \subseteq Peer \X Id /\ replying \subseteq Peer \X Id
  /\ kept \in BOOLEAN /\ halted \in BOOLEAN

\* "filter block that dealing": a block is asked for by one open request at a
\* time, and pending is exactly what the open requests ask for, so that closing
\* one of them by whichever reply comes first frees no block of another.
OneRequestPerBlock ==
  /\ pending = UNION {MissBlock[r] : r \in requests}
  /\ \A r, s \in requests : r # s => MissBlock[r] \cap MissBlock[s] = {}

\* No call is forgotten: the counter of a call never exceeds the number of its
\* blocks that are still asked for, in whatever order requests that share blocks
\* are opened, repeated and closed.
CountsCovered ==
  \A i \in Id : loopBackCnts[i] <= Cardinality(wanted[i] \cap pending)

\* A block comes back at most once, although miss2Blocks keeps every call for
\* ever and later requests for the same block decrement its counter again.
LoopBackOnce == \A i \in Id : loopBacks[i] <= 1

\* Every call ends with its block coming back, as long as one peer can be
\* reached: lost requests and replies are made good by the retries.  (The block
\* comes back when its requests have been answered, whether or not a peer had
\* the blocks.)  When the caller has not stored the block the process panics.
CallsLoopBack ==
  \A i \in Id : (calls > i) ~> (loopBacks[i] > 0 \/ halted)
=============================================================================
