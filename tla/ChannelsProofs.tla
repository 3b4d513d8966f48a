--------------------------- MODULE ChannelsProofs ---------------------------
(***************************************************************************)
(* Proofs about Channels for any capacities and any number of messages: a  *)
(* reference request sees every push the core made before it, circular     *)
(* waits last, and no pull is forgotten.                                   *)
(***************************************************************************)
EXTENDS Channels, TLAPS

-----------------------------------------------------------------------------
(* The inductive invariant                                                 *)

Received == [type : {"block"}, block : Block] \cup [type : {"echo", "elect"}]

Requests == [type : {"push", "pull"}, block : Block]
              \cup [type : {"ref", "commit"}]
              \cup [type : {"clean"}, blocks : SUBSET Block]

\* The content of the channels, and what the core has in hand.
Typed ==
  /\ TypeOK
  /\ recvCh \in Seq(Received) /\ dagCh \in Seq(Requests)
  /\ core \in {"echo", "push"} => block \in Block
  /\ core \in {"ref", "await", "sendElect", "elect", "sendBlock"} => own <= MaxOwn
  /\ core = "own" => own >= 1

\* The request at place i of dagCh is the push of b.
IsPush(i, b) == dagCh[i].type = "push" /\ dagCh[i].block = b

\* A block the core has pushed is in the DAG or on its way.
OnTheWay ==
  \A b \in handled :
    b \in cached \cup committed \/ \E i \in 1 .. Len(dagCh) : IsPush(i, b)

\* While a reference request is on its way the core waits for the answer: there
\* is one such request, and no push behind it.
RefLast ==
  \A i \in 1 .. Len(dagCh) : dagCh[i].type = "ref" =>
    /\ core = "await"
    /\ \A j \in 1 .. Len(dagCh) : j > i => dagCh[j].type \notin {"ref", "push"}

CInv == Typed /\ OnTheWay /\ RefLast

-----------------------------------------------------------------------------
(* Sending and receiving                                                   *)

\* Someone sends a request to the DAG.
LEMMA RequestSent ==
  ASSUME CInv, NEW x \in Requests, dagCh' = Append(dagCh, x),
         x.type \in {"ref", "push"} => core # "await",
         IF x.type = "ref" THEN core' = "await" ELSE core = "await" => core' = "await",
         UNCHANGED <<cached, committed>>,
         handled' = IF x.type = "push" THEN handled \cup {x.block} ELSE handled
  PROVE  dagCh' \in Seq(Requests) /\ OnTheWay' /\ RefLast'
<1>1. dagCh' \in Seq(Requests) /\ Len(dagCh') = Len(dagCh) + 1 /\ Len(dagCh) \in Nat
  BY DEF CInv, Typed
<1>2. /\ \A i \in 1 .. Len(dagCh) : i \in 1 .. Len(dagCh') /\ dagCh'[i] = dagCh[i]
      /\ Len(dagCh) + 1 \in 1 .. Len(dagCh') /\ dagCh'[Len(dagCh) + 1] = x
      /\ \A i \in 1 .. Len(dagCh') : i \in 1 .. Len(dagCh) \/ i = Len(dagCh) + 1
  BY <1>1 DEF CInv, Typed
<1>3. OnTheWay'
  BY <1>2 DEF CInv, OnTheWay, IsPush
<1>4. RefLast'
  BY <1>1, <1>2 DEF CInv, RefLast
<1> QED
  BY <1>1, <1>3, <1>4

\* The DAG takes a request; a push enters the DAG, and the answer to a reference
\* request is what the core waits for.
LEMMA RequestTaken ==
  ASSUME CInv, dagCh # <<>>, dagCh' = Tail(dagCh), handled' = handled,
         Head(dagCh).type # "ref" => core' = core,
         cached \cup committed \subseteq cached' \cup committed',
         Head(dagCh).type = "push" => Head(dagCh).block \in cached' \cup committed'
  PROVE  /\ dagCh' \in Seq(Requests) /\ OnTheWay' /\ RefLast'
         /\ Head(dagCh) \in Requests
         /\ Head(dagCh).type = "ref" => core = "await"
<1>1. /\ dagCh' \in Seq(Requests) /\ Len(dagCh') = Len(dagCh) - 1
      /\ Len(dagCh) \in Nat /\ Len(dagCh) >= 1
      /\ Head(dagCh) = dagCh[1] /\ dagCh[1] \in Requests
      /\ \A i \in 1 .. Len(dagCh') : dagCh'[i] = dagCh[i + 1]
  BY DEF CInv, Typed
<1>2. /\ 1 \in 1 .. Len(dagCh)
      /\ \A i \in 1 .. Len(dagCh') : i + 1 \in 1 .. Len(dagCh) /\ i + 1 > 1
      /\ \A i \in 1 .. Len(dagCh) :
           i = 1 \/ (i - 1 \in 1 .. Len(dagCh') /\ dagCh'[i - 1] = dagCh[i])
  BY <1>1
<1>3. OnTheWay'
  <2> SUFFICES ASSUME NEW b \in handled
               PROVE  \/ b \in cached' \cup committed'
                      \/ \E i \in 1 .. Len(dagCh') : IsPush(i, b)'
    BY DEF OnTheWay
  <2>1. CASE b \in cached \cup committed
    BY <2>1
  <2>2. ASSUME NEW i \in 1 .. Len(dagCh), IsPush(i, b)
        PROVE  \/ b \in cached' \cup committed'
               \/ \E k \in 1 .. Len(dagCh') : IsPush(k, b)'
    BY <1>1, <1>2, <2>2 DEF IsPush
  <2> QED
    BY <2>1, <2>2 DEF CInv, OnTheWay
<1>4. Head(dagCh).type = "ref" => core = "await"
  BY <1>1, <1>2 DEF CInv, RefLast
<1>5. RefLast'
  <2> SUFFICES ASSUME NEW i \in 1 .. Len(dagCh'), dagCh'[i].type = "ref"
               PROVE  /\ core' = "await"
                      /\ \A j \in 1 .. Len(dagCh') :
                           j > i => dagCh'[j].type \notin {"ref", "push"}
    BY DEF RefLast
  <2>1. dagCh[i + 1].type = "ref" /\ i + 1 \in 1 .. Len(dagCh)
    BY <1>1, <1>2
  <2>2. Head(dagCh).type # "ref" /\ core = "await"
    BY <1>1, <1>2, <2>1 DEF CInv, RefLast
  <2>3. ASSUME NEW j \in 1 .. Len(dagCh'), j > i
        PROVE  dagCh'[j].type \notin {"ref", "push"}
    <3>1. j + 1 \in 1 .. Len(dagCh) /\ j + 1 > i + 1 /\ dagCh'[j] = dagCh[j + 1]
      BY <1>1, <1>2, <2>3
    <3> QED
      BY <2>1, <3>1 DEF CInv, RefLast
  <2> QED
    BY <2>2, <2>3
<1> QED
  BY <1>1, <1>3, <1>4, <1>5

\* A message goes into recvCh.
LEMMA MessageSent ==
  ASSUME CInv, NEW m \in Received, recvCh' = Append(recvCh, m)
  PROVE  recvCh' \in Seq(Received)
  BY DEF CInv, Typed

\* The channel to the DAG and what it is compared with are left alone.
LEMMA DagRests ==
  ASSUME CInv, UNCHANGED <<dagCh, handled, cached, committed>>,
         core = "await" => core' = "await"
  PROVE  OnTheWay' /\ RefLast'
  BY DEF CInv, OnTheWay, RefLast, IsPush

-----------------------------------------------------------------------------
(* The steps                                                               *)

\* Nothing has been sent; the core is about to generate the first block.
LEMMA CInit == Init => CInv
<1> SUFFICES ASSUME Init PROVE CInv
  OBVIOUS
<1>1. Typed
  BY ChannelsAssumption DEF Init, Typed, TypeOK, Block, NoBlock
<1>2. OnTheWay /\ RefLast
  BY DEF Init, OnTheWay, RefLast
<1> QED
  BY <1>1, <1>2 DEF CInv

\* The receiving goroutine of the transmitor.
LEMMA NetworkStep ==
  ASSUME CInv, (\E b \in Others : ReceiveBlock(b)) \/ ReceiveEcho \/ ReceiveElect
  PROVE  CInv'
<1> USE DEF ReceiveBlock, ReceiveEcho, ReceiveElect
<1>1. OnTheWay' /\ RefLast'
  BY DagRests DEF coreVars, dagVars
<1>2. recvCh' \in Seq(Received)
  <2>1. \E m \in Received : recvCh' = Append(recvCh, m)
    BY DEF Received, Block
  <2> QED
    BY <2>1, MessageSent
<1>3. coming' \cup lost' \subseteq Others
  BY DEF CInv, Typed, TypeOK
<1>4. UNCHANGED <<coreVars, outVars, dagCh, dagVars, comVars>>
  OBVIOUS
<1>5. Typed'
  BY <1>2, <1>3, <1>4 DEF CInv, Typed, TypeOK, coreVars, outVars, dagVars, comVars
<1> QED
  BY <1>1, <1>5 DEF CInv

\* Run takes a message.
LEMMA HandleStep ==
  ASSUME CInv, Handle
  PROVE  CInv'
<1>1. OnTheWay' /\ RefLast'
  BY DagRests DEF Handle, dagVars
<1>2. Head(recvCh) \in Received /\ recvCh' \in Seq(Received)
  BY DEF Handle, CInv, Typed
<1>3. own \in Nat /\ MaxOwn \in Nat
  BY ChannelsAssumption DEF CInv, Typed, TypeOK
<1>4. CASE Head(recvCh).type = "block"
  <2>1. core' = "echo" /\ block' \in Block
    BY <1>2, <1>4 DEF Handle, Received
  <2>2. Typed'
    BY <1>2, <2>1 DEF Handle, CInv, Typed, TypeOK, netVars, outVars, dagVars, comVars
  <2> QED
    BY <1>1, <2>2 DEF CInv
<1>5. CASE Head(recvCh).type # "block"
  <2>1. /\ core' \in {"loop", "ref", "commit"} /\ block' = block
        /\ core' = "ref" => own <= MaxOwn
    BY <1>5 DEF Handle
  <2>2. Typed'
    BY <1>2, <2>1 DEF Handle, CInv, Typed, TypeOK, netVars, outVars, dagVars, comVars
  <2> QED
    BY <1>1, <2>2 DEF CInv
<1> QED
  BY <1>4, <1>5

\* The core sends a request to the DAG.
LEMMA CoreRequestStep ==
  ASSUME CInv, Push \/ RequestCommit \/ RequestRef
  PROVE  CInv'
<1>1. CASE Push
  <2> DEFINE x == [type |-> "push", block |-> block]
  <2>1. x \in Requests /\ dagCh' = Append(dagCh, x) /\ handled' = handled \cup {block}
    BY <1>1 DEF Push, CInv, Typed, Requests
  <2>2. dagCh' \in Seq(Requests) /\ OnTheWay' /\ RefLast'
    BY <1>1, <2>1, RequestSent DEF Push, dagVars
  <2>3. Typed'
    BY <1>1, <2>2 DEF Push, CInv, Typed, TypeOK, netVars, outVars, dagVars, comVars
  <2> QED
    BY <2>2, <2>3 DEF CInv
<1>2. CASE RequestCommit
  <2> DEFINE x == [type |-> "commit"]
  <2>1. x \in Requests /\ dagCh' = Append(dagCh, x)
    BY <1>2 DEF RequestCommit, Requests
  <2>2. dagCh' \in Seq(Requests) /\ OnTheWay' /\ RefLast'
    BY <1>2, <2>1, RequestSent DEF RequestCommit, dagVars
  <2>3. Typed'
    BY <1>2, <2>2 DEF RequestCommit, CInv, Typed, TypeOK, netVars, outVars, dagVars,
                      comVars
  <2> QED
    BY <2>2, <2>3 DEF CInv
<1>3. CASE RequestRef
  <2> DEFINE x == [type |-> "ref"]
  <2>1. x \in Requests /\ dagCh' = Append(dagCh, x)
    BY <1>3 DEF RequestRef, Requests
  <2>2. dagCh' \in Seq(Requests) /\ OnTheWay' /\ RefLast'
    BY <1>3, <2>1, RequestSent DEF RequestRef, dagVars
  <2>3. Typed'
    BY <1>3, <2>2 DEF RequestRef, CInv, Typed, TypeOK, netVars, outVars, dagVars, comVars
  <2> QED
    BY <2>2, <2>3 DEF CInv
<1> QED
  BY <1>1, <1>2, <1>3

\* propose and invokeElect put a message on the core's own recvCh.
LEMMA CoreEnqueueStep ==
  ASSUME CInv, EnqueueElect \/ EnqueueBlock
  PROVE  CInv'
<1> USE DEF EnqueueElect, EnqueueBlock
<1>1. OnTheWay' /\ RefLast'
  BY DagRests DEF dagVars
<1>2. own \in 0 .. MaxOwn + 1 /\ MaxOwn \in Nat
  BY ChannelsAssumption DEF CInv, Typed, TypeOK
<1>3. CASE EnqueueElect
  <2>1. [type |-> "elect"] \in Received
    BY DEF Received
  <2>2. recvCh' \in Seq(Received)
    BY <1>3, <2>1, MessageSent
  <2>3. Typed'
    BY <1>3, <2>2 DEF CInv, Typed, TypeOK, netVars, outVars, dagVars, comVars
  <2> QED
    BY <1>1, <2>3 DEF CInv
<1>4. CASE EnqueueBlock
  <2>1. own - 1 \in Block
    BY <1>2, <1>4 DEF CInv, Typed, Block
  <2>2. [type |-> "block", block |-> own - 1] \in Received
    BY <2>1 DEF Received
  <2>3. recvCh' \in Seq(Received)
    BY <1>4, <2>2, MessageSent
  <2>4. Typed'
    BY <1>4, <2>3 DEF CInv, Typed, TypeOK, netVars, outVars, dagVars, comVars
  <2> QED
    BY <1>1, <2>4 DEF CInv
<1> QED
  BY <1>3, <1>4

\* The core, or a timer, sends to a peer, the sender works, a block gets lost.
LEMMA WayOutStep ==
  ASSUME CInv,
         \/ SendEcho \/ SendElect \/ SendBlock \/ Expire \/ SendOut
         \/ \E b \in Others : Lose(b)
  PROVE  CInv'
<1> USE DEF SendEcho, SendElect, SendBlock, Expire, SendOut, Lose, Send
<1>1. OnTheWay' /\ RefLast'
  BY DagRests DEF coreVars, dagVars
<1>2. /\ own \in 0 .. MaxOwn + 1 /\ MaxOwn \in Nat
      /\ sendCh \in 0 .. SendCap /\ SendCap \in Nat /\ timers \in Nat
  BY ChannelsAssumption DEF CInv, Typed, TypeOK
<1>3. sendCh' \in 0 .. SendCap /\ timers' \in Nat /\ sender' \in {"loop", "stuck"}
  BY <1>2 DEF CInv, Typed, TypeOK, outVars
<1>4. CASE SendEcho \/ SendElect
  BY <1>1, <1>3, <1>4 DEF CInv, Typed, TypeOK, netVars, dagVars, comVars
<1>5. CASE SendBlock
  <2>1. own' \in 0 .. MaxOwn + 1 /\ own' >= 1
    BY <1>2, <1>5 DEF CInv, Typed
  <2> QED
    BY <1>1, <1>3, <1>5, <2>1 DEF CInv, Typed, TypeOK, netVars, dagVars, comVars
<1>6. CASE Expire \/ SendOut
  BY <1>1, <1>3, <1>6 DEF CInv, Typed, TypeOK, netVars, coreVars, dagVars, comVars
<1>7. CASE \E b \in Others : Lose(b)
  BY <1>1, <1>7 DEF CInv, Typed, TypeOK, coreVars, outVars, dagVars, comVars
<1> QED
  BY <1>4, <1>5, <1>6, <1>7

\* The DAG serves a request.
LEMMA DagServesStep ==
  ASSUME CInv, ServePush \/ ServeRef \/ ServeCommit \/ ServePull \/ ServeClean
  PROVE  CInv'
<1> USE DEF Takes
<1>1. CASE ServePush
  <2>1. /\ dagCh' \in Seq(Requests) /\ OnTheWay' /\ RefLast' /\ Head(dagCh) \in Requests
    BY <1>1, RequestTaken DEF ServePush, coreVars
  <2>2. Head(dagCh).block \in Block
    BY <1>1, <2>1 DEF ServePush, Requests
  <2>3. Typed'
    BY <1>1, <2>1, <2>2 DEF ServePush, CInv, Typed, TypeOK, netVars, coreVars, outVars,
                            comVars
  <2> QED
    BY <2>1, <2>3 DEF CInv
<1>2. CASE ServeRef
  <2>1. /\ dagCh' \in Seq(Requests) /\ OnTheWay' /\ RefLast' /\ core = "await"
    BY <1>2, RequestTaken DEF ServeRef, dagVars
  <2>2. core' \in {"sendElect", "sendBlock"} /\ own <= MaxOwn
    BY <1>2, <2>1 DEF ServeRef, CInv, Typed
  <2>3. Typed'
    BY <1>2, <2>1, <2>2 DEF ServeRef, CInv, Typed, TypeOK, netVars, outVars, dagVars,
                            comVars
  <2> QED
    BY <2>1, <2>3 DEF CInv
<1>3. CASE ServeCommit
  <2>1. /\ dagCh' \in Seq(Requests) /\ OnTheWay' /\ RefLast'
    BY <1>3, RequestTaken DEF ServeCommit, coreVars
  <2>2. Typed'
    BY <1>3, <2>1 DEF ServeCommit, CInv, Typed, TypeOK, netVars, coreVars, outVars,
                      comVars
  <2> QED
    BY <2>1, <2>2 DEF CInv
<1>4. CASE ServePull
  <2>1. /\ dagCh' \in Seq(Requests) /\ OnTheWay' /\ RefLast' /\ Head(dagCh) \in Requests
    BY <1>4, RequestTaken DEF ServePull, coreVars
  <2>2. Head(dagCh).block \in Block
    BY <1>4, <2>1 DEF ServePull, Requests
  <2>3. Typed'
    BY <1>4, <2>1, <2>2 DEF ServePull, CInv, Typed, TypeOK, netVars, coreVars, outVars,
                            comVars
  <2> QED
    BY <2>1, <2>3 DEF CInv
<1>5. CASE ServeClean
  <2>1. /\ dagCh' \in Seq(Requests) /\ OnTheWay' /\ RefLast' /\ Head(dagCh) \in Requests
    BY <1>5, RequestTaken DEF ServeClean, coreVars
  <2>2. Head(dagCh).blocks \subseteq Block
    BY <1>5, <2>1 DEF ServeClean, Requests
  <2>3. Typed'
    BY <1>5, <2>1, <2>2 DEF ServeClean, CInv, Typed, TypeOK, netVars, coreVars,
                            outVars, comVars
  <2> QED
    BY <2>1, <2>3 DEF CInv
<1> QED
  BY <1>1, <1>2, <1>3, <1>4, <1>5

\* The DAG sends on submitCh, and the commitor works.
LEMMA CommitorStepInv ==
  ASSUME CInv, Submit \/ CommitorStep
  PROVE  CInv'
<1>1. CASE Submit
  <2>1. OnTheWay' /\ RefLast'
    BY <1>1, DagRests DEF Submit, coreVars
  <2> QED
    BY <1>1, <2>1 DEF Submit, CInv, Typed, TypeOK, netVars, coreVars, outVars, comVars
<1>2. CASE StartCommit
  <2>1. OnTheWay' /\ RefLast'
    BY <1>2, DagRests DEF StartCommit, coreVars, dagVars
  <2>2. todo' \subseteq Block
    BY <1>2, ChannelsAssumption DEF StartCommit, CInv, Typed, TypeOK, Block
  <2> QED
    BY <1>2, <2>1, <2>2 DEF StartCommit, CInv, Typed, TypeOK, netVars, coreVars,
                            outVars, dagVars
<1>3. ASSUME NEW b \in todo, Pull(b) PROVE CInv'
  <2> DEFINE x == [type |-> "pull", block |-> b]
  <2>1. x \in Requests /\ dagCh' = Append(dagCh, x)
    BY <1>3 DEF Pull, CInv, Typed, TypeOK, Requests
  <2>2. dagCh' \in Seq(Requests) /\ OnTheWay' /\ RefLast'
    BY <1>3, <2>1, RequestSent DEF Pull, coreVars, dagVars
  <2> QED
    BY <1>3, <2>2 DEF Pull, CInv, Typed, TypeOK, netVars, coreVars, outVars, dagVars
<1>4. CASE EndCommit
  <2>1. CASE pulled = {}
    <3>1. OnTheWay' /\ RefLast'
      BY <1>4, <2>1, DagRests DEF EndCommit, coreVars, dagVars
    <3> QED
      BY <1>4, <2>1, <3>1 DEF EndCommit, CInv, Typed, TypeOK, netVars, coreVars,
                              outVars, dagVars
  <2>2. CASE pulled # {}
    <3> DEFINE x == [type |-> "clean", blocks |-> pulled]
    <3>1. x \in Requests /\ dagCh' = Append(dagCh, x)
      BY <1>4, <2>2 DEF EndCommit, CInv, Typed, TypeOK, Requests
    <3>2. dagCh' \in Seq(Requests) /\ OnTheWay' /\ RefLast'
      BY <1>4, <3>1, RequestSent DEF EndCommit, coreVars, dagVars
    <3> QED
      BY <1>4, <3>2 DEF EndCommit, CInv, Typed, TypeOK, netVars, coreVars, outVars,
                        dagVars
  <2> QED
    BY <2>1, <2>2
<1> QED
  BY <1>1, <1>2, <1>3, <1>4 DEF CommitorStep

\* Every step keeps the invariant.
LEMMA CStep == CInv /\ [Next]_vars => CInv'
<1> SUFFICES ASSUME CInv, [Next]_vars PROVE CInv'
  OBVIOUS
<1>1. CASE UNCHANGED vars
  BY <1>1 DEF vars, CInv, Typed, TypeOK, OnTheWay, RefLast, IsPush
<1> QED
  BY <1>1, NetworkStep, HandleStep, CoreRequestStep, CoreEnqueueStep, WayOutStep,
     DagServesStep, CommitorStepInv
     DEF Next, CoreStep, DagStep

-----------------------------------------------------------------------------
\* The invariant holds in every state.
LEMMA Invariant == Spec => []CInv
  BY CInit, CStep, PTL DEF Spec

\* The variables keep their types, for any capacities.
THEOREM ChannelsTypes == Spec => []TypeOK
  BY Invariant, PTL DEF CInv, Typed

\* handleRefReq answers from a DAG that has every block the core handled before
\* it asked, although handlePropose does not wait for its pushes.
THEOREM ChannelsRefSeesPushes == Spec => []RefSeesPushes
<1>1. CInv => RefSeesPushes
  <2> SUFFICES ASSUME CInv, dagCh # <<>>, Head(dagCh).type = "ref", NEW b \in handled
               PROVE  b \in cached \cup committed
    BY DEF RefSeesPushes
  <2>1. 1 \in 1 .. Len(dagCh) /\ dagCh[1].type = "ref"
    BY DEF CInv, Typed
  <2>2. \A j \in 1 .. Len(dagCh) : dagCh[j].type # "push"
    <3> SUFFICES ASSUME NEW j \in 1 .. Len(dagCh), j # 1 PROVE dagCh[j].type # "push"
      BY <2>1
    <3>1. j > 1
      OBVIOUS
    <3> QED
      BY <2>1, <3>1 DEF CInv, RefLast
  <2> QED
    BY <2>2 DEF CInv, OnTheWay, IsPush
<1> QED
  BY <1>1, Invariant, PTL

-----------------------------------------------------------------------------
(* Circular waits                                                          *)

\* A core that waits to send to itself takes no message, and nobody answers it.
LEMMA SelfWaitStays == CInv /\ SelfWait /\ [Next]_vars => SelfWait'
<1> SUFFICES ASSUME CInv, SelfWait, [Next]_vars PROVE SelfWait'
  OBVIOUS
<1>1. ~ServeRef
  <2> SUFFICES ASSUME ServeRef PROVE FALSE
    OBVIOUS
  <2>1. 1 \in 1 .. Len(dagCh) /\ dagCh[1].type = "ref"
    BY DEF ServeRef, Takes, CInv, Typed
  <2> QED
    BY <2>1 DEF CInv, RefLast, SelfWait
<1>2. Len(recvCh) \in Nat /\ RecvCap \in Nat
  BY ChannelsAssumption DEF CInv, Typed
<1>3. UNCHANGED <<core, recvCh>>
  <2>1. CASE \E b \in Others : ReceiveBlock(b) \/ Lose(b)
    BY <1>2, <2>1 DEF SelfWait, ReceiveBlock, Lose, coreVars
  <2>2. CASE ReceiveEcho \/ ReceiveElect
    BY <1>2, <2>2 DEF SelfWait, ReceiveEcho, ReceiveElect
  <2>3. CASE CoreStep
    BY <1>2, <2>3 DEF SelfWait, CoreStep, Handle, SendEcho, Push, RequestCommit,
                      RequestRef, SendElect, EnqueueElect, SendBlock, EnqueueBlock
  <2>4. CASE DagStep
    BY <1>1, <2>4 DEF DagStep, ServePush, ServeCommit, Submit, ServePull, ServeClean,
                      coreVars
  <2>5. CASE CommitorStep
    BY <2>5 DEF CommitorStep, StartCommit, Pull, EndCommit, coreVars
  <2>6. CASE Expire \/ SendOut
    BY <2>6 DEF Expire, SendOut, coreVars
  <2>7. CASE UNCHANGED vars
    BY <2>7 DEF vars
  <2> QED
    BY <2>1, <2>2, <2>3, <2>4, <2>5, <2>6, <2>7 DEF Next
<1> QED
  BY <1>3 DEF SelfWait

\* A sender that is stuck takes nothing from sendCh, so the core that waits for
\* room in it does not go on.
LEMMA SendWaitStays == CInv /\ SendWait /\ [Next]_vars => SendWait'
<1> SUFFICES ASSUME CInv, SendWait, [Next]_vars PROVE SendWait'
  OBVIOUS
<1>1. ~ServeRef
  <2> SUFFICES ASSUME ServeRef PROVE FALSE
    OBVIOUS
  <2>1. 1 \in 1 .. Len(dagCh) /\ dagCh[1].type = "ref"
    BY DEF ServeRef, Takes, CInv, Typed
  <2> QED
    BY <2>1 DEF CInv, RefLast, SendWait
<1>2. SendCap \in Nat /\ sendCh = SendCap /\ sender = "stuck" /\ ~Send
  BY ChannelsAssumption DEF SendWait, Send
<1>3. UNCHANGED <<core, ddos, sendCh, sender>>
  <2>1. CASE (\E b \in Others : ReceiveBlock(b) \/ Lose(b)) \/ ReceiveEcho \/ ReceiveElect
    BY <2>1 DEF ReceiveBlock, Lose, ReceiveEcho, ReceiveElect, coreVars, outVars
  <2>2. CASE CoreStep
    BY <1>2, <2>2 DEF SendWait, CoreStep, Handle, SendEcho, Push, RequestCommit,
                      RequestRef, SendElect, EnqueueElect, SendBlock, EnqueueBlock
  <2>3. CASE Expire \/ SendOut
    BY <1>2, <2>3 DEF Expire, SendOut
  <2>4. CASE DagStep
    BY <1>1, <2>4 DEF DagStep, ServePush, ServeCommit, Submit, ServePull, ServeClean,
                      coreVars, outVars
  <2>5. CASE CommitorStep
    BY <2>5 DEF CommitorStep, StartCommit, Pull, EndCommit, coreVars, outVars
  <2>6. CASE UNCHANGED vars
    BY <2>6 DEF vars
  <2> QED
    BY <2>1, <2>2, <2>3, <2>4, <2>5, <2>6 DEF Next
<1> QED
  BY <1>3 DEF SendWait

\* A DAG that waits to submit serves nothing, so the commitor does not go on.
LEMMA SubmitWaitStays == CInv /\ SubmitWait /\ [Next]_vars => SubmitWait'
<1> SUFFICES ASSUME CInv, SubmitWait, [Next]_vars PROVE SubmitWait'
  OBVIOUS
<1>1. /\ Len(dagCh) \in Nat /\ DagCap \in Nat /\ SubmitCap \in Nat
      /\ dag = "submit" /\ submitCh = SubmitCap
  BY ChannelsAssumption DEF CInv, Typed, SubmitWait
<1>2. ~DagStep
  BY <1>1 DEF DagStep, ServePush, ServeRef, ServeCommit, Submit, ServePull, ServeClean,
              Takes
<1>3. ~CommitorStep
  <2>1. ~StartCommit
    BY DEF StartCommit, SubmitWait
  <2>2. \A b \in todo : ~Pull(b)
    BY <1>1 DEF Pull, SubmitWait
  <2>3. ~EndCommit
    <3> SUFFICES ASSUME EndCommit PROVE FALSE
      OBVIOUS
    <3>1. com = "pull" /\ todo = {}
      BY DEF EndCommit
    <3>2. Len(dagCh) = DagCap /\ todo \cup pulled # {}
      BY <3>1 DEF SubmitWait
    <3>3. pulled # {}
      BY <3>1, <3>2
    <3> QED
      BY <1>1, <3>2, <3>3 DEF EndCommit
  <2> QED
    BY <2>1, <2>2, <2>3 DEF CommitorStep
<1>4. UNCHANGED <<dag, submitCh, com, todo, pulled>>
      /\ (UNCHANGED dagCh \/ Len(dagCh) < DagCap)
  <2>1. CASE \/ \E b \in Others : ReceiveBlock(b) \/ Lose(b)
             \/ ReceiveEcho \/ ReceiveElect \/ Expire \/ SendOut
    BY <2>1 DEF ReceiveBlock, Lose, ReceiveEcho, ReceiveElect, Expire, SendOut, dagVars,
                comVars
  <2>2. CASE CoreStep
    BY <2>2 DEF CoreStep, Handle, SendEcho, Push, RequestCommit, RequestRef, SendElect,
                EnqueueElect, SendBlock, EnqueueBlock, dagVars, comVars
  <2>3. CASE UNCHANGED vars
    BY <2>3 DEF vars
  <2> QED
    BY <1>2, <1>3, <2>1, <2>2, <2>3 DEF Next
<1> QED
  BY <1>1, <1>4 DEF SubmitWait

\* The circular waits of core, DAG and commitor, and the core's wait for a sender
\* that is stuck, are for ever.
THEOREM ChannelsDeadlockStays == Spec => DeadlockStays
<1>1. CInv /\ [Next]_vars => [Deadlock => Deadlock']_vars
  BY SelfWaitStays, SubmitWaitStays, SendWaitStays DEF Deadlock
<1> QED
  BY <1>1, Invariant, PTL DEF Spec, DeadlockStays

-----------------------------------------------------------------------------
(* Pulls                                                                   *)

IsPull(i, b) == dagCh[i] = [type |-> "pull", block |-> b]

\* No clean-up request waits behind place i.
NoClean(i) == \A j \in 1 .. Len(dagCh) : j > i => dagCh[j].type # "clean"

\* PullsInOrder, strengthened: a clean-up, which forgets registered pulls, is
\* served before the pulls of the next commit, because the commitor sends it
\* before it starts that commit.
PullKept ==
  com = "wait" =>
    \E b \in todo :
      \/ \E i \in 1 .. Len(dagCh) : IsPull(i, b) /\ NoClean(i)
      \/ b \in pending /\ b \notin cached \cup committed /\ NoClean(0)

\* A request of the core enters the channel.
LEMMA PullKeptSend ==
  ASSUME CInv, PullKept, NEW x \in Requests, x.type # "clean", dagCh' = Append(dagCh, x),
         UNCHANGED <<com, todo, pending, cached, committed>>
  PROVE  PullKept'
<1>1. Len(dagCh') = Len(dagCh) + 1 /\ Len(dagCh) \in Nat
  BY DEF CInv, Typed
<1>2. /\ \A i \in 1 .. Len(dagCh) : i \in 1 .. Len(dagCh') /\ dagCh'[i] = dagCh[i]
      /\ dagCh'[Len(dagCh) + 1] = x
      /\ \A i \in 1 .. Len(dagCh') : i \in 1 .. Len(dagCh) \/ i = Len(dagCh) + 1
  BY <1>1 DEF CInv, Typed
<1>3. \A i \in Nat : NoClean(i) => NoClean(i)'
  BY <1>2 DEF NoClean
<1>4. \A b, i : i \in 1 .. Len(dagCh) /\ IsPull(i, b) => i \in 1 .. Len(dagCh') /\ IsPull(i, b)'
  BY <1>2 DEF IsPull
<1>5. 1 .. Len(dagCh) \subseteq Nat /\ 0 \in Nat
  OBVIOUS
<1> QED
  BY <1>3, <1>4, <1>5 DEF PullKept

\* A request leaves the channel.
LEMMA PullShift ==
  ASSUME CInv, dagCh # <<>>, dagCh' = Tail(dagCh)
  PROVE  /\ \A b : \A i \in 1 .. Len(dagCh) : i # 1 /\ IsPull(i, b) /\ NoClean(i) =>
              \E k \in 1 .. Len(dagCh') : IsPull(k, b)' /\ NoClean(k)'
         /\ NoClean(0) => NoClean(0)'
         /\ NoClean(1) => NoClean(0)'
<1>1. Len(dagCh') = Len(dagCh) - 1 /\ Len(dagCh) \in Nat /\ Len(dagCh) >= 1
  BY DEF CInv, Typed
<1>2. \A k \in 1 .. Len(dagCh') : k + 1 \in 1 .. Len(dagCh) /\ dagCh'[k] = dagCh[k + 1]
  BY <1>1 DEF CInv, Typed
<1>3. ASSUME NEW i \in 0 .. Len(dagCh), NEW k \in 0 .. Len(dagCh), i <= k + 1, NoClean(i)
      PROVE  NoClean(k)'
  BY <1>1, <1>2, <1>3 DEF NoClean
<1>4. ASSUME NEW b, NEW i \in 1 .. Len(dagCh), i # 1, IsPull(i, b), NoClean(i)
      PROVE  \E k \in 1 .. Len(dagCh') : IsPull(k, b)' /\ NoClean(k)'
  <2>1. i - 1 \in 1 .. Len(dagCh') /\ i - 1 \in 0 .. Len(dagCh) /\ i <= (i - 1) + 1
        /\ i \in 0 .. Len(dagCh)
    BY <1>1, <1>4
  <2>2. dagCh'[i - 1] = dagCh[i]
    BY <1>2, <2>1
  <2>3. IsPull(i - 1, b)'
    BY <1>4, <2>2 DEF IsPull
  <2>4. NoClean(i - 1)'
    BY <1>3, <1>4, <2>1
  <2> QED
    BY <2>1, <2>3, <2>4
<1>5. (NoClean(0) => NoClean(0)') /\ (NoClean(1) => NoClean(0)')
  BY <1>1, <1>3
<1> QED
  BY <1>4, <1>5

\* The DAG takes a request that answers no pull; it keeps what is registered,
\* unless it is a clean-up.
LEMMA PullKeptTake ==
  ASSUME CInv, PullKept, dagCh # <<>>, dagCh' = Tail(dagCh), Head(dagCh).type # "pull",
         UNCHANGED <<com, todo>>,
         \A b \in pending : Head(dagCh).type # "clean" /\ b \notin cached \cup committed =>
                              b \in pending' /\ b \notin cached' \cup committed'
  PROVE  PullKept'
<1> SUFFICES ASSUME com = "wait" PROVE PullKept'
  BY DEF PullKept
<1>1. 1 \in 1 .. Len(dagCh) /\ dagCh[1] = Head(dagCh) /\ 1 > 0
  BY DEF CInv, Typed
<1>2. \A b : ~IsPull(1, b)
  BY <1>1 DEF IsPull
<1>3. NoClean(0) => Head(dagCh).type # "clean"
  BY <1>1 DEF NoClean
<1> QED
  BY <1>2, <1>3, PullShift DEF PullKept

\* Every step keeps the waiting commitor's pull in its place.
LEMMA PullKeptStep == CInv /\ PullKept /\ [Next]_vars => PullKept'
<1> SUFFICES ASSUME CInv, PullKept, [Next]_vars PROVE PullKept'
  OBVIOUS
<1>1. ASSUME UNCHANGED <<dagCh, com, todo, pending, cached, committed>> PROVE PullKept'
  BY <1>1 DEF PullKept, IsPull, NoClean
<1>2. ASSUME com' # "wait" PROVE PullKept'
  BY <1>2 DEF PullKept
<1>3. CASE \/ \E b \in Others : ReceiveBlock(b) \/ Lose(b)
           \/ ReceiveEcho \/ ReceiveElect \/ Handle \/ SendEcho \/ SendElect \/ EnqueueElect
           \/ SendBlock \/ EnqueueBlock \/ Expire \/ SendOut \/ Submit \/ UNCHANGED vars
  BY <1>1, <1>3 DEF ReceiveBlock, Lose, ReceiveEcho, ReceiveElect, Handle, SendEcho,
                    SendElect, EnqueueElect, SendBlock, EnqueueBlock, Expire, SendOut,
                    Submit, vars, dagVars, comVars
<1>4. CASE Push
  <2>1. [type |-> "push", block |-> block] \in Requests
    BY <1>4 DEF Push, CInv, Typed, Requests
  <2> QED
    BY <1>4, <2>1, PullKeptSend DEF Push, dagVars, comVars
<1>5. CASE RequestCommit
  <2>1. [type |-> "commit"] \in Requests
    BY DEF Requests
  <2> QED
    BY <1>5, <2>1, PullKeptSend DEF RequestCommit, dagVars, comVars
<1>6. CASE RequestRef
  <2>1. [type |-> "ref"] \in Requests
    BY DEF Requests
  <2> QED
    BY <1>6, <2>1, PullKeptSend DEF RequestRef, dagVars, comVars
<1>7. CASE ServePush
  <2>1. dagCh # <<>> /\ dagCh' = Tail(dagCh) /\ Head(dagCh).type = "push"
    BY <1>7 DEF ServePush, Takes
  <2>2. CASE Head(dagCh).block \in pending \ committed
    BY <1>2, <1>7, <2>2 DEF ServePush
  <2>3. CASE Head(dagCh).block \notin pending \ committed
    <3>1. UNCHANGED <<com, todo, pending, committed>>
          /\ cached' = cached \cup ({Head(dagCh).block} \ committed)
      BY <1>7, <2>3 DEF ServePush, comVars
    <3>2. \A b \in pending : b \notin cached \cup committed =>
             b \in pending' /\ b \notin cached' \cup committed'
      BY <2>3, <3>1
    <3> QED
      BY <2>1, <3>1, <3>2, PullKeptTake
  <2> QED
    BY <2>2, <2>3
<1>8. CASE ServeRef \/ ServeCommit
  <2>1. dagCh # <<>> /\ dagCh' = Tail(dagCh) /\ Head(dagCh).type # "pull"
    BY <1>8 DEF ServeRef, ServeCommit, Takes
  <2>2. UNCHANGED <<com, todo, pending, cached, committed>>
    BY <1>8 DEF ServeRef, ServeCommit, dagVars, comVars
  <2> QED
    BY <2>1, <2>2, PullKeptTake
<1>9. CASE ServeClean
  <2>1. dagCh # <<>> /\ dagCh' = Tail(dagCh) /\ Head(dagCh).type = "clean"
    BY <1>9 DEF ServeClean, Takes
  <2>2. UNCHANGED <<com, todo>>
    BY <1>9 DEF ServeClean, comVars
  <2> QED
    BY <2>1, <2>2, PullKeptTake
<1>10. CASE ServePull
  <2>1. CASE com' = "pull"
    BY <1>2, <2>1
  <2>2. CASE com' # "pull"
    <3>1. /\ UNCHANGED <<com, todo, cached, committed>>
          /\ pending' = pending \cup {Head(dagCh).block}
          /\ Head(dagCh).block \notin cached \cup committed
          /\ dagCh # <<>> /\ dagCh' = Tail(dagCh)
      BY <1>10, <2>2 DEF ServePull, Takes, comVars
    <3>2. \A b : IsPull(1, b) => b = Head(dagCh).block
      BY <3>1 DEF IsPull, CInv, Typed
    <3> QED
      BY <3>1, <3>2, PullShift DEF PullKept
  <2> QED
    BY <2>1, <2>2
<1>11. CASE StartCommit \/ EndCommit
  BY <1>2, <1>11 DEF StartCommit, EndCommit
<1>12. ASSUME NEW b \in todo, Pull(b) PROVE PullKept'
  <2>1. dagCh' = Append(dagCh, [type |-> "pull", block |-> b]) /\ todo' = todo
    BY <1>12 DEF Pull
  <2>2. Len(dagCh) \in Nat /\ Len(dagCh') = Len(dagCh) + 1
        /\ dagCh'[Len(dagCh) + 1] = [type |-> "pull", block |-> b]
    BY <2>1 DEF CInv, Typed
  <2>3. PICK i \in Nat : i = Len(dagCh')
    BY <2>2
  <2>4. i \in 1 .. Len(dagCh') /\ IsPull(i, b)' /\ NoClean(i)'
    BY <2>2, <2>3 DEF IsPull, NoClean
  <2> QED
    BY <2>1, <2>4 DEF PullKept
<1> QED
  BY <1>3, <1>4, <1>5, <1>6, <1>7, <1>8, <1>9, <1>10, <1>11, <1>12
     DEF Next, CoreStep, DagStep, CommitorStep

\* No pull is forgotten: while the commitor waits, its pull is in dagCh or
\* registered with a DAG that has not got the block.
THEOREM ChannelsPullsInOrder == Spec => []PullsInOrder
<1>1. Init => PullKept
  BY DEF Init, PullKept
<1>2. PullKept => PullsInOrder
  BY DEF PullKept, PullsInOrder, IsPull
<1> QED
  BY <1>1, <1>2, Invariant, PullKeptStep, PTL DEF Spec
=============================================================================
