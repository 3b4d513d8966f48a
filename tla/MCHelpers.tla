----------------------------- MODULE MCHelpers -----------------------------
(***************************************************************************)
(* The start of the nodes, the transaction pool and the services for TLC.  *)
(* They share no variable and no goroutine, so a behaviour runs one of the *)
(* three while the others rest: their interleavings would add states and   *)
(* no behaviour of any of them.                                            *)
(***************************************************************************)
EXTENDS Pool

CONSTANTS Node,
          Client, Key, Val, Digest, NotFound, None, StoreCap, SigCap

VARIABLES fault, stage, listening, probed,
          db, pc, req, ret, Done, storeCh, sigCh, signing,
          part      \* the part that runs

U == INSTANCE Startup
S == INSTANCE Services

startVars == <<fault, stage, listening, probed>>
serviceVars == <<db, pc, req, ret, Done, storeCh, sigCh, signing>>
helperVars == <<vars, startVars, serviceVars, part>>

HelpersInit ==
  /\ Init /\ U!Init /\ S!Init
  /\ part \in {"start", "pool", "services"}
  /\ part # "start" => \A n \in Node : fault[n] = "none"

\* A step of one part.
OfStart(Step) == part = "start" /\ Step /\ UNCHANGED <<vars, serviceVars, part>>
OfPool(Step) == part = "pool" /\ Step /\ UNCHANGED <<startVars, serviceVars, part>>
OfServices(Step) == part = "services" /\ Step /\ UNCHANGED <<vars, startVars, part>>

HelpersNext == OfStart(U!Next) \/ OfPool(Next) \/ OfServices(S!Next)

\* The fairness of FairSpec in Startup, Pool and Services.
HelpersSpec ==
  /\ HelpersInit /\ [][HelpersNext]_helperVars
  /\ \A n \in Node : WF_helperVars(OfStart(U!NodeStep(n)))
  /\ WF_helperVars(OfPool(Tick \/ MakeTx))
  /\ WF_helperVars(OfPool(Enqueue \/ SendBatch))
  /\ WF_helperVars(OfPool(GetBatch))
  /\ WF_helperVars(OfServices(S!ServeStore)) /\ WF_helperVars(OfServices(S!ServeSig))
  /\ \A c \in Client :
       /\ SF_helperVars(OfServices(S!Send(c)))
       /\ WF_helperVars(OfServices(S!Return(c)))
       /\ WF_helperVars(OfServices(S!SignShare(c)))

-----------------------------------------------------------------------------
(* Properties                                                              *)

\* The variables of all parts keep their types; the indices of the ring buffer
\* stay inside it.
HelpersTypeOK == TypeOK /\ U!TypeOK /\ S!TypeOK

\* When the core of a node runs, every peer accepts its connections: "Waiting
\* for all nodes to be online" does, although the nodes start in any order and
\* no node says that it is ready.
OnlineBeforeStart == U!OnlineBeforeStart

\* A committee starts as a whole: no node waits for ever for the others when all
\* of them can start.
EveryoneStarts == part = "start" => U!EveryoneStarts

\* Calls of the services are atomic: although requests of several goroutines
\* queue up, are answered through pointers the callers share with the servers,
\* and shares finish in any order, each caller gets the answer to its own
\* request, and a read sees exactly the writes that took effect before it.
CallsAreAtomic == S!CallsAreAtomic

\* Every call of Read, Write, RequestSignature and RequestTsSugnature returns,
\* however many callers are blocked on the full request channel.
CallsReturn == part = "services" => S!CallsReturn

\* AllTaken of the pool, when it runs: no transaction of a complete batch stays
\* behind in the ring buffer or in a channel.
PoolDelivers == part = "pool" => AllTaken
=============================================================================
