------------------------------ MODULE Services ------------------------------
(***************************************************************************)
(* The two services of a node that other goroutines call: the store        *)
(* (store/store.go over store/nutsdb.go) and the signature service         *)
(* (crypto/crypto.go: SigService).  Both are a goroutine behind a channel  *)
(* of requests; a caller makes a request with a Done channel of its own,   *)
(* sends it and waits on Done.  Callers are the core, the retriever and    *)
(* the goroutines that process block requests and loop backs.              *)
(***************************************************************************)
EXTENDS Integers, Sequences

CONSTANTS Client, Key, Val, Digest, NotFound, None,
          StoreCap,        \* capacity of Store.reqCh (1000)
          SigCap           \* capacity of SigService.reqCh (100)

StoreReq == [typ : {"READ"}, key : Key]
              \cup [typ : {"WRITE"}, key : Key, val : Val]
SigReq   == [typ : {"SIG", "SHARE"}, digest : Digest]
Request  == StoreReq \cup SigReq

VARIABLES
  db,          \* the database (external): values by key
  pc,          \* pc[c]: "idle", "send" (on reqCh) or "wait" (on Done)
  req,         \* req[c]: the request c has made, or None
  ret,         \* ret[c]: what the server put into it, or None
  Done,        \* clients whose Done channel (capacity 1) holds the request
  storeCh,     \* Store.reqCh, as the clients that made the requests
  sigCh,       \* SigService.reqCh
  signing      \* clients whose share is being computed by a goroutine

vars == <<db, pc, req, ret, Done, storeCh, sigCh, signing>>

Init ==
  /\ db = [k \in Key |-> NotFound]
  /\ pc = [c \in Client |-> "idle"]
  /\ req = [c \in Client |-> None]
  /\ ret = [c \in Client |-> None]
  /\ Done = {}
  /\ storeCh = <<>> /\ sigCh = <<>>
  /\ signing = {}

-----------------------------------------------------------------------------
(* Callers: Store.Read, Store.Write, RequestSignature, RequestTsSugnature  *)

Call(c, r) ==
  /\ pc[c] = "idle"
  /\ pc' = [pc EXCEPT ![c] = "send"]
  /\ req' = [req EXCEPT ![c] = r]
  /\ UNCHANGED <<db, ret, Done, storeCh, sigCh, signing>>

Send(c) ==
  /\ pc[c] = "send"
  /\ IF req[c] \in StoreReq
       THEN /\ Len(storeCh) < StoreCap
            /\ storeCh' = Append(storeCh, c)
            /\ UNCHANGED sigCh
       ELSE /\ Len(sigCh) < SigCap
            /\ sigCh' = Append(sigCh, c)
            /\ UNCHANGED storeCh
  /\ pc' = [pc EXCEPT ![c] = "wait"]
  /\ UNCHANGED <<db, req, ret, Done, signing>>

Return(c) ==
  /\ pc[c] = "wait"
  /\ c \in Done
  /\ Done' = Done \ {c}
  /\ pc' = [pc EXCEPT ![c] = "idle"]
  /\ req' = [req EXCEPT ![c] = None]
  /\ ret' = [ret EXCEPT ![c] = None]
  /\ UNCHANGED <<db, storeCh, sigCh, signing>>

-----------------------------------------------------------------------------
(* Servers                                                                 *)

\* The server fills in the request of c and calls done().
Finish(c, value) ==
  /\ c \notin Done
  /\ ret' = [ret EXCEPT ![c] = value]
  /\ Done' = Done \cup {c}

\* NutsDB.Put: one transaction, which may fail.
Put(k, v, c) ==
  \/ Finish(c, <<"WRITE", "ok">>) /\ db' = [db EXCEPT ![k] = v]
  \/ Finish(c, <<"WRITE", "err">>) /\ UNCHANGED db

\* NutsDB.Get; an absent key is an error.
Get(k, c) == Finish(c, <<"READ", db[k]>>) /\ UNCHANGED db

\* One turn of the goroutine of NewStore.
ServeStore ==
  /\ storeCh # <<>>
  /\ storeCh' = Tail(storeCh)
  /\ LET c == Head(storeCh)
         r == req[c]
     IN  \/ r.typ = "READ" /\ Get(r.key, c)
         \/ r.typ = "WRITE" /\ Put(r.key, r.val, c)
  /\ UNCHANGED <<pc, req, sigCh, signing>>

\* One turn of the goroutine of NewSigService: a signature is made at once, a
\* share by a goroutine of its own.
ServeSig ==
  /\ sigCh # <<>>
  /\ sigCh' = Tail(sigCh)
  /\ LET c == Head(sigCh)
         r == req[c]
     IN  \/ /\ r.typ = "SIG"
            /\ Finish(c, <<"SIG", r.digest>>)
            /\ UNCHANGED signing
         \/ /\ r.typ = "SHARE"
            /\ signing' = signing \cup {c}
            /\ UNCHANGED <<ret, Done>>
  /\ UNCHANGED <<db, pc, req, storeCh>>

\* mutant: the goroutine signs the request the server has taken last
SignShareLatest(c) ==
  /\ c \in signing
  /\ signing' = signing \ {c}
  /\ \E other \in signing :
       /\ signing # {c} => other # c
       /\ Finish(c, <<"SHARE", req[other].digest>>)
  /\ UNCHANGED <<db, pc, req, storeCh, sigCh>>

\* mutant: the goroutine does not call done()
SignShareSilent(c) ==
  /\ c \in signing
  /\ signing' = signing \ {c}
  /\ UNCHANGED <<db, pc, req, ret, Done, storeCh, sigCh>>

\* The goroutine that computes c's share.
SignShare(c) ==
  /\ c \in signing
  /\ signing' = signing \ {c}
  /\ Finish(c, <<"SHARE", req[c].digest>>)
  /\ UNCHANGED <<db, pc, req, storeCh, sigCh>>

Next ==
  \/ ServeStore \/ ServeSig
  \/ \E c \in Client :
       \/ \E r \in Request : Call(c, r)
       \/ Send(c) \/ Return(c) \/ SignShare(c)

Spec == Init /\ [][Next]_vars

\* Every goroutine runs; of the callers blocked on a full channel Go wakes the
\* one that has waited longest, so that each gets its turn.
FairSpec ==
  /\ Spec
  /\ WF_vars(ServeStore) /\ WF_vars(ServeSig)
  /\ \A c \in Client : SF_vars(Send(c)) /\ WF_vars(Return(c)) /\ WF_vars(SignShare(c))

-----------------------------------------------------------------------------
(* Properties                                                              *)

TypeOK ==
  /\ db \in [Key -> Val \cup {NotFound}]
  /\ pc \in [Client -> {"idle", "send", "wait"}]
  /\ req \in [Client -> Request \cup {None}]
  /\ Done \subseteq Client /\ signing \subseteq Client
  /\ storeCh \in Seq(Client) /\ sigCh \in Seq(Client)

Atomic ==
  INSTANCE AtomicCalls WITH
    phase <- [c \in Client |-> IF pc[c] = "idle" THEN "idle"
                               ELSE IF c \in Done THEN "answered"
                               ELSE "called"]

\* Calls of the services are atomic: although requests of several goroutines
\* queue up, are answered through pointers the callers share with the servers,
\* and shares finish in any order, each caller gets the answer to its own
\* request, and a read sees exactly the writes that took effect before it.
CallsAreAtomic == Atomic!Spec

\* Every call returns.
CallsReturn == \A c \in Client : (pc[c] # "idle") ~> (pc[c] = "idle")
=============================================================================
