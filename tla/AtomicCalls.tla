---------------------------- MODULE AtomicCalls ----------------------------
(***************************************************************************)
(* What the store and the signature service promise their callers: a call  *)
(* takes effect at one instant between its start and its return, and       *)
(* returns the answer to its own request as of that instant.               *)
(***************************************************************************)
CONSTANTS Client, Key, Val, Digest, NotFound, None

Request == [typ : {"READ"}, key : Key]
             \cup [typ : {"WRITE"}, key : Key, val : Val]
             \cup [typ : {"SIG", "SHARE"}, digest : Digest]

VARIABLES db,       \* db[k]: the value stored under k, or NotFound
          phase,    \* phase[c]: "idle", "called" or "answered"
          req,      \* req[c]: the request c has made, or None
          ret       \* ret[c]: the answer to it, or None

vars == <<db, phase, req, ret>>

Init ==
  /\ db = [k \in Key |-> NotFound]
  /\ phase = [c \in Client |-> "idle"]
  /\ req = [c \in Client |-> None]
  /\ ret = [c \in Client |-> None]

Call(c, r) ==
  /\ phase[c] = "idle"
  /\ phase' = [phase EXCEPT ![c] = "called"]
  /\ req' = [req EXCEPT ![c] = r]
  /\ UNCHANGED <<db, ret>>

\* A write is done or fails; a signature depends on the digest alone.
Answer(r, value) ==
  \/ r.typ = "READ" /\ value = <<"READ", db[r.key]>> /\ UNCHANGED db
  \/ r.typ = "WRITE" /\ value = <<"WRITE", "ok">> /\ db' = [db EXCEPT ![r.key] = r.val]
  \/ r.typ = "WRITE" /\ value = <<"WRITE", "err">> /\ UNCHANGED db
  \/ r.typ \in {"SIG", "SHARE"} /\ value = <<r.typ, r.digest>> /\ UNCHANGED db

TakeEffect(c, value) ==
  /\ phase[c] = "called"
  /\ Answer(req[c], value)
  /\ phase' = [phase EXCEPT ![c] = "answered"]
  /\ ret' = [ret EXCEPT ![c] = value]
  /\ UNCHANGED req

Return(c) ==
  /\ phase[c] = "answered"
  /\ phase' = [phase EXCEPT ![c] = "idle"]
  /\ req' = [req EXCEPT ![c] = None]
  /\ ret' = [ret EXCEPT ![c] = None]
  /\ UNCHANGED db

Answers == ({"READ"} \X (Val \cup {NotFound}))
             \cup ({"WRITE"} \X {"ok", "err"})
             \cup ({"SIG", "SHARE"} \X Digest)

Next ==
  \E c \in Client :
    \/ \E r \in Request : Call(c, r)
    \/ \E value \in Answers : TakeEffect(c, value)
    \/ Return(c)

Spec == Init /\ [][Next]_vars
=============================================================================
