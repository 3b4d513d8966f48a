--------------------------- MODULE ServicesProofs ---------------------------
(***************************************************************************)
(* Proofs about Services for any number of callers, keys, values, digests  *)
(* and any channel capacities: calls are atomic.                           *)
(***************************************************************************)
EXTENDS Services, TLAPS

-----------------------------------------------------------------------------
(* The inductive invariant                                                 *)

\* The callers with a request in the channel ch.
In(ch) == {ch[i] : i \in 1 .. Len(ch)}

\* No caller has two requests in the channel ch.
Distinct(ch) == \A i, j \in 1 .. Len(ch) : ch[i] = ch[j] => i = j

\* A caller that waits has its request in one place: in the channel of the
\* service it called, with the goroutine that computes its share, or answered.
Placed ==
  /\ Distinct(storeCh) /\ Distinct(sigCh)
  /\ \A c \in In(storeCh) : pc[c] = "wait" /\ c \notin Done /\ req[c] \in StoreReq
  /\ \A c \in In(sigCh) :
       pc[c] = "wait" /\ c \notin Done /\ c \notin signing /\ req[c] \in SigReq
  /\ \A c \in signing :
       pc[c] = "wait" /\ c \notin Done /\ req[c] \in SigReq /\ req[c].typ = "SHARE"
  /\ \A c \in Done : pc[c] = "wait"
  /\ \A c \in Client : pc[c] # "idle" => req[c] \in Request

SInv == TypeOK /\ ret = [c \in Client |-> ret[c]] /\ Placed

-----------------------------------------------------------------------------
(* Channels of callers                                                     *)

\* What a send does to a channel.
LEMMA Sent ==
  ASSUME NEW ch \in Seq(Client), NEW c \in Client, Distinct(ch), c \notin In(ch)
  PROVE  /\ Append(ch, c) \in Seq(Client)
         /\ In(Append(ch, c)) = In(ch) \cup {c}
         /\ Distinct(Append(ch, c))
<1> DEFINE s == Append(ch, c)
<1>1. s \in Seq(Client) /\ Len(s) = Len(ch) + 1 /\ Len(ch) \in Nat
  OBVIOUS
<1>2. s[Len(ch) + 1] = c /\ \A i \in 1 .. Len(ch) : s[i] = ch[i]
  OBVIOUS
<1> HIDE DEF s
<1>3. \A i \in 1 .. Len(s) : i \in 1 .. Len(ch) \/ i = Len(ch) + 1
  BY <1>1
<1>4. In(s) = In(ch) \cup {c}
  BY <1>1, <1>2, <1>3 DEF In
<1>5. Distinct(s)
  BY <1>1, <1>2, <1>3 DEF In, Distinct
<1> QED
  BY <1>1, <1>4, <1>5 DEF s

\* What a receive does to a channel.
LEMMA Received ==
  ASSUME NEW ch \in Seq(Client), ch # <<>>, Distinct(ch)
  PROVE  /\ Tail(ch) \in Seq(Client) /\ Head(ch) \in In(ch) /\ Head(ch) \in Client
         /\ In(Tail(ch)) = In(ch) \ {Head(ch)}
         /\ Distinct(Tail(ch))
<1> DEFINE s == Tail(ch)
<1>1. /\ s \in Seq(Client) /\ Len(s) = Len(ch) - 1 /\ Len(ch) \in Nat /\ Len(ch) >= 1
      /\ Head(ch) = ch[1]
  OBVIOUS
<1>2. \A i \in 1 .. Len(s) : s[i] = ch[i + 1]
  OBVIOUS
<1> HIDE DEF s
<1>3. 1 \in 1 .. Len(ch) /\ ch[1] \in Client
  BY <1>1
<1>4. \A i \in 1 .. Len(s) : i + 1 \in 1 .. Len(ch) /\ i + 1 # 1
  BY <1>1
<1>5. \A i \in 1 .. Len(ch) : i = 1 \/ (i - 1 \in 1 .. Len(s) /\ s[i - 1] = ch[i])
  BY <1>1, <1>2
<1>6. In(s) = In(ch) \ {ch[1]}
  <2>1. \A x \in In(s) : x \in In(ch) /\ x # ch[1]
    BY <1>2, <1>3, <1>4 DEF In, Distinct
  <2>2. \A x \in In(ch) : x # ch[1] => x \in In(s)
    BY <1>5 DEF In
  <2> QED
    BY <2>1, <2>2
<1>7. Distinct(s)
  <2> SUFFICES ASSUME NEW i \in 1 .. Len(s), NEW j \in 1 .. Len(s), s[i] = s[j] PROVE i = j
    BY DEF Distinct
  <2>1. i + 1 = j + 1
    BY <1>2, <1>4 DEF Distinct
  <2> QED
    BY <2>1
<1> QED
  BY <1>1, <1>3, <1>6, <1>7 DEF s, In

-----------------------------------------------------------------------------
(* The invariant holds                                                     *)

\* No request has been made (NewStore, NewSigService).
LEMMA SInit == Init => SInv
  BY DEF Init, SInv, TypeOK, Placed, Distinct, In

\* The two kinds of requests differ.
LEMMA Kinds == StoreReq \cap SigReq = {}
  BY DEF StoreReq, SigReq

\* A caller makes a request.
LEMMA CallStep ==
  ASSUME SInv, NEW c \in Client, NEW r \in Request, Call(c, r)
  PROVE  SInv'
<1> USE DEF Call
<1>1. c \notin In(storeCh) /\ c \notin In(sigCh) /\ c \notin signing /\ c \notin Done
  BY DEF SInv, Placed
<1>2. TypeOK' /\ ret' = ret
  BY DEF SInv, TypeOK
<1>3. \A x \in Client : x # c => pc'[x] = pc[x] /\ req'[x] = req[x]
  BY DEF SInv, TypeOK
<1>4. In(storeCh) \subseteq Client /\ In(sigCh) \subseteq Client
  BY DEF SInv, TypeOK, In
<1>5. Placed'
  BY <1>1, <1>3, <1>4 DEF SInv, TypeOK, Placed, Distinct, In
<1> QED
  BY <1>2, <1>5 DEF SInv

\* The request goes into the channel.
LEMMA SendStep ==
  ASSUME SInv, NEW c \in Client, Send(c)
  PROVE  SInv'
<1>1. /\ c \notin In(storeCh) /\ c \notin In(sigCh) /\ c \notin signing /\ c \notin Done
      /\ req[c] \in Request
  BY DEF Send, SInv, Placed
<1>2. /\ storeCh \in Seq(Client) /\ sigCh \in Seq(Client)
      /\ Distinct(storeCh) /\ Distinct(sigCh)
      /\ In(storeCh) \subseteq Client /\ In(sigCh) \subseteq Client
  BY DEF SInv, TypeOK, Placed, In
<1>3. /\ pc'[c] = "wait" /\ \A x \in Client : x # c => pc'[x] = pc[x]
      /\ UNCHANGED <<db, req, ret, Done, signing>>
  BY DEF Send, SInv, TypeOK
<1>4. CASE req[c] \in StoreReq
  <2>1. storeCh' = Append(storeCh, c) /\ sigCh' = sigCh
    BY <1>4 DEF Send
  <2>2. storeCh' \in Seq(Client) /\ Distinct(storeCh') /\ In(storeCh') = In(storeCh) \cup {c}
    BY <1>1, <1>2, <2>1, Sent
  <2>3. TypeOK'
    BY <2>1, <2>2 DEF Send, SInv, TypeOK
  <2>4. Placed'
    BY <1>1, <1>2, <1>3, <1>4, <2>1, <2>2 DEF SInv, TypeOK, Placed
  <2> QED
    BY <1>3, <2>3, <2>4 DEF SInv
<1>5. CASE req[c] \notin StoreReq
  <2>1. sigCh' = Append(sigCh, c) /\ storeCh' = storeCh /\ req[c] \in SigReq
    BY <1>1, <1>5 DEF Send, Request
  <2>2. sigCh' \in Seq(Client) /\ Distinct(sigCh') /\ In(sigCh') = In(sigCh) \cup {c}
    BY <1>1, <1>2, <2>1, Sent
  <2>3. TypeOK'
    BY <2>1, <2>2 DEF Send, SInv, TypeOK
  <2>4. Placed'
    BY <1>1, <1>2, <1>3, <2>1, <2>2 DEF SInv, TypeOK, Placed
  <2> QED
    BY <1>3, <2>3, <2>4 DEF SInv
<1> QED
  BY <1>4, <1>5

\* The caller takes the answer from Done.
LEMMA ReturnStep ==
  ASSUME SInv, NEW c \in Client, Return(c)
  PROVE  SInv'
<1> USE DEF Return
<1>1. c \notin In(storeCh) /\ c \notin In(sigCh) /\ c \notin signing
  BY DEF SInv, Placed
<1>2. In(storeCh) \subseteq Client /\ In(sigCh) \subseteq Client
  BY DEF SInv, TypeOK, In
<1>3. /\ pc'[c] = "idle"
      /\ \A x \in Client : x # c => pc'[x] = pc[x] /\ req'[x] = req[x]
  BY DEF SInv, TypeOK
<1>4. TypeOK' /\ ret' = [x \in Client |-> ret'[x]]
  BY DEF SInv, TypeOK
<1>5. Placed'
  BY <1>1, <1>2, <1>3 DEF SInv, TypeOK, Placed
<1> QED
  BY <1>4, <1>5 DEF SInv

\* The store serves the request at the head of its channel.
LEMMA ServeStoreStep ==
  ASSUME SInv, ServeStore
  PROVE  SInv' /\ Head(storeCh) \in In(storeCh) /\ Head(storeCh) \in Client
<1> DEFINE c == Head(storeCh)
<1>1. /\ storeCh' \in Seq(Client) /\ c \in In(storeCh) /\ c \in Client
      /\ In(storeCh') = In(storeCh) \ {c} /\ Distinct(storeCh')
  BY Received DEF ServeStore, SInv, TypeOK, Placed
<1>2. /\ Done' = Done \cup {c} /\ UNCHANGED <<pc, req, sigCh, signing>>
      /\ \E v : ret' = [ret EXCEPT ![c] = v]
  BY DEF ServeStore, Get, Put, Finish
<1>3. req[c] \in StoreReq /\ pc[c] = "wait"
  BY <1>1 DEF SInv, Placed
<1>4. db' \in [Key -> Val \cup {NotFound}]
  BY <1>3 DEF ServeStore, Get, Put, StoreReq, SInv, TypeOK
<1> HIDE DEF c
<1>5. TypeOK' /\ ret' = [x \in Client |-> ret'[x]]
  BY <1>1, <1>2, <1>4 DEF SInv, TypeOK
<1>6. c \notin In(sigCh) /\ c \notin signing
  BY <1>3, Kinds DEF SInv, Placed
<1>7. Placed'
  BY <1>1, <1>2, <1>3, <1>6 DEF SInv, Placed
<1> QED
  BY <1>1, <1>5, <1>7 DEF SInv, c

\* The signature service serves the request at the head of its channel.
LEMMA ServeSigStep ==
  ASSUME SInv, ServeSig
  PROVE  SInv' /\ Head(sigCh) \in In(sigCh) /\ Head(sigCh) \in Client
<1> DEFINE c == Head(sigCh)
<1>1. /\ sigCh' \in Seq(Client) /\ c \in In(sigCh) /\ c \in Client
      /\ In(sigCh') = In(sigCh) \ {c} /\ Distinct(sigCh')
  BY Received DEF ServeSig, SInv, TypeOK, Placed
<1>2. /\ UNCHANGED <<db, pc, req, storeCh>>
      /\ \/ /\ Done' = Done \cup {c} /\ signing' = signing
            /\ ret' = [ret EXCEPT ![c] = <<"SIG", req[c].digest>>]
         \/ /\ Done' = Done /\ signing' = signing \cup {c} /\ ret' = ret
            /\ req[c].typ = "SHARE"
  BY DEF ServeSig, Finish
<1>3. req[c] \in SigReq /\ pc[c] = "wait" /\ c \notin signing /\ c \notin Done
  BY <1>1 DEF SInv, Placed
<1> HIDE DEF c
<1>4. TypeOK' /\ ret' = [x \in Client |-> ret'[x]]
  BY <1>1, <1>2 DEF SInv, TypeOK
<1>5. c \notin In(storeCh)
  BY <1>3, Kinds DEF SInv, Placed
<1>6. Placed'
  BY <1>1, <1>2, <1>3, <1>5 DEF SInv, Placed
<1> QED
  BY <1>1, <1>4, <1>6 DEF SInv, c

\* The goroutine of a share is done.
LEMMA SignShareStep ==
  ASSUME SInv, NEW c \in Client, SignShare(c)
  PROVE  SInv'
<1> USE DEF SignShare, Finish
<1>1. c \notin In(storeCh) /\ c \notin In(sigCh)
  BY Kinds DEF SInv, Placed
<1>2. TypeOK' /\ ret' = [x \in Client |-> ret'[x]]
  BY DEF SInv, TypeOK
<1>3. Placed'
  BY <1>1 DEF SInv, Placed
<1> QED
  BY <1>2, <1>3 DEF SInv

\* Every step keeps the invariant.
LEMMA SStep == SInv /\ [Next]_vars => SInv'
<1> SUFFICES ASSUME SInv, [Next]_vars PROVE SInv'
  OBVIOUS
<1>1. CASE UNCHANGED vars
  BY <1>1 DEF vars, SInv, TypeOK, Placed, Distinct, In
<1> QED
  BY <1>1, CallStep, SendStep, ReturnStep, ServeStoreStep, ServeSigStep, SignShareStep DEF Next

\* The invariant holds in every state.
LEMMA Invariant == Spec => []SInv
  BY SInit, SStep, PTL DEF Spec

-----------------------------------------------------------------------------
(* The refinement                                                          *)

\* What Atomic sees of a caller.
Phase == [c \in Client |-> IF pc[c] = "idle" THEN "idle"
                           ELSE IF c \in Done THEN "answered"
                           ELSE "called"]

\* An answer put into the request of a waiting caller is the instant at which
\* the call takes effect.
LEMMA Answered ==
  ASSUME SInv, NEW c \in Client, pc[c] = "wait", c \notin Done,
         NEW value \in Atomic!Answers, Atomic!Answer(req[c], value),
         Finish(c, value), UNCHANGED <<pc, req>>
  PROVE  Atomic!TakeEffect(c, value)
<1>1. Phase[c] = "called" /\ Phase' = [Phase EXCEPT ![c] = "answered"]
  BY DEF Phase, Finish
<1> QED
  BY <1>1 DEF Atomic!TakeEffect, Finish, Phase

\* Calls of Store.Read, Store.Write, RequestSignature and RequestTsSugnature are
\* atomic, for any number of concurrent callers and any channel capacities:
\* each returns the answer to its own request as of one instant of the call.
THEOREM ServicesAtomic == Spec => CallsAreAtomic
<1>1. Init => Atomic!Init
  BY DEF Init, Atomic!Init
<1>2. SInv /\ [Next]_vars => [Atomic!Next]_(Atomic!vars)
  <2> SUFFICES ASSUME SInv, [Next]_vars PROVE [Atomic!Next]_(Atomic!vars)
    OBVIOUS
  <2>1. ASSUME NEW c \in Client, NEW r \in Request, Call(c, r) PROVE Atomic!Call(c, r)
    <3>1. Phase[c] = "idle" /\ Phase' = [Phase EXCEPT ![c] = "called"]
      BY <2>1 DEF Call, Phase, SInv, TypeOK, Placed
    <3> QED
      BY <2>1, <3>1 DEF Call, Atomic!Call, Phase
  <2>2. ASSUME NEW c \in Client, Send(c) PROVE UNCHANGED Atomic!vars
    <3>1. Phase' = Phase
      BY <2>2 DEF Send, Phase, SInv, TypeOK, Placed
    <3> QED
      BY <2>2, <3>1 DEF Send, Atomic!vars, Phase
  <2>3. ASSUME NEW c \in Client, Return(c) PROVE Atomic!Return(c)
    <3>1. Phase[c] = "answered" /\ Phase' = [Phase EXCEPT ![c] = "idle"]
      BY <2>3 DEF Return, Phase, SInv, TypeOK, Placed
    <3> QED
      BY <2>3, <3>1 DEF Return, Atomic!Return, Phase
  <2>4. CASE ServeStore
    <3> DEFINE c == Head(storeCh)
    <3>1. c \in Client /\ pc[c] = "wait" /\ c \notin Done /\ req[c] \in StoreReq
      BY <2>4, ServeStoreStep DEF SInv, Placed
    <3>2. UNCHANGED <<pc, req>>
      BY <2>4 DEF ServeStore
    <3>3. \E value \in Atomic!Answers : Atomic!Answer(req[c], value) /\ Finish(c, value)
      <4>1. CASE req[c].typ = "READ"
        <5>1. <<"READ", db[req[c].key]>> \in Atomic!Answers
          BY <3>1, <4>1 DEF Atomic!Answers, StoreReq, SInv, TypeOK
        <5> QED
          BY <2>4, <4>1, <5>1 DEF ServeStore, Get, Atomic!Answer
      <4>2. CASE req[c].typ = "WRITE"
        <5>1. <<"WRITE", "ok">> \in Atomic!Answers /\ <<"WRITE", "err">> \in Atomic!Answers
          BY DEF Atomic!Answers
        <5> QED
          BY <2>4, <4>2, <5>1 DEF ServeStore, Put, Atomic!Answer
      <4> QED
        BY <3>1, <4>1, <4>2 DEF StoreReq
    <3> HIDE DEF c
    <3>4. \E value \in Atomic!Answers : Atomic!TakeEffect(c, value)
      BY <3>1, <3>2, <3>3, Answered
    <3> QED
      BY <3>1, <3>4 DEF Atomic!Next
  <2>5. CASE ServeSig
    <3> DEFINE c == Head(sigCh)
    <3>1. c \in Client /\ pc[c] = "wait" /\ c \notin Done /\ req[c] \in SigReq
      BY <2>5, ServeSigStep DEF SInv, Placed
    <3>2. UNCHANGED <<pc, req, db>>
      BY <2>5 DEF ServeSig
    <3>3. \/ req[c].typ = "SIG" /\ Finish(c, <<"SIG", req[c].digest>>)
          \/ UNCHANGED <<ret, Done>>
      BY <2>5 DEF ServeSig
    <3> HIDE DEF c
    <3>4. CASE UNCHANGED <<ret, Done>>
      BY <3>2, <3>4 DEF Atomic!vars
    <3>5. CASE req[c].typ = "SIG" /\ Finish(c, <<"SIG", req[c].digest>>)
      <4>1. /\ <<"SIG", req[c].digest>> \in Atomic!Answers
            /\ Atomic!Answer(req[c], <<"SIG", req[c].digest>>)
        BY <3>1, <3>2, <3>5 DEF Atomic!Answers, Atomic!Answer, SigReq
      <4> QED
        BY <3>1, <3>2, <3>5, <4>1, Answered DEF Atomic!Next
    <3> QED
      BY <3>3, <3>4, <3>5
  <2>6. ASSUME NEW c \in Client, SignShare(c) PROVE Atomic!Next
    <3>1. /\ pc[c] = "wait" /\ c \notin Done /\ req[c] \in SigReq /\ req[c].typ = "SHARE"
          /\ Finish(c, <<"SHARE", req[c].digest>>) /\ UNCHANGED <<pc, req, db>>
      BY <2>6 DEF SignShare, SInv, Placed
    <3>2. /\ <<"SHARE", req[c].digest>> \in Atomic!Answers
          /\ Atomic!Answer(req[c], <<"SHARE", req[c].digest>>)
      BY <3>1 DEF Atomic!Answers, Atomic!Answer, SigReq
    <3> QED
      BY <3>1, <3>2, Answered DEF Atomic!Next
  <2>7. CASE UNCHANGED vars
    BY <2>7 DEF vars, Atomic!vars
  <2>8. Request = Atomic!Request
    BY DEF Request, StoreReq, SigReq, Atomic!Request
  <2> QED
    BY <2>1, <2>2, <2>3, <2>4, <2>5, <2>6, <2>7, <2>8 DEF Next, Atomic!Next
<1> QED
  BY <1>1, <1>2, Invariant, PTL DEF Spec, CallsAreAtomic, Atomic!Spec
=============================================================================
