------------------------------ MODULE Network ------------------------------
(***************************************************************************)
(* The way of the messages of one node, Me, to the cores of its peers      *)
(* (transimtor.go, network.go, codec.go):                                  *)
(*                                                                         *)
(*   core --sendCh--> Sender.Run --connCh[q]--> writer --wire[q]--> reader *)
(*                                                 --inbox[q]--> core of q *)
(*                                                                         *)
(* sendCh stands for Transmitor.msgCh and Sender.msgCh, which a goroutine  *)
(* connects, wire[q] for the buffers of a TCP connection, and inbox[q] for *)
(* Receiver.msg and Transmitor.recvCh, which another one connects.         *)
(* Messages are numbered as they are sent.  The core of Me runs, so every  *)
(* peer accepts connections (Startup), but its core may start later.       *)
(***************************************************************************)
EXTENDS Naturals, SequencesExt

CONSTANTS
  Peer,
  Silent,         \* peers below Parameters.Faults: their core returns at once
  Flaky,          \* peers a dial to which may fail
  Breakable,      \* peers the connection to which may break
  SendCap,        \* capacities of the channels (2000, 1000 and 2000)
  ConnCap, InboxCap,
  WireCap,        \* what fits into the buffers of a connection
  MaxMsgs         \* bound: messages sent

ASSUME NetworkAssumption ==
  /\ Silent \cup Flaky \cup Breakable \subseteq Peer
  /\ SendCap \in Nat \ {0} /\ ConnCap \in Nat \ {0}
  /\ InboxCap \in Nat \ {0} /\ WireCap \in Nat \ {0} /\ MaxMsgs \in Nat

VARIABLES
  running,        \* peers whose core runs
  sent,           \* messages sent so far
  sendCh,
  cur,            \* what Sender.Run works on, as a sequence of at most one
  conns,          \* conns[q]: "none", "open", or "gone": its writer has returned
  connCh,
  link,           \* link[q]: the connection to q is "up" or "down"
  wire, inbox,
  got             \* history: what the core of q has taken

pathVars  == <<conns, connCh, link, wire, inbox, got>>
vars == <<running, sent, sendCh, cur,
          conns, connCh, link, wire, inbox, got>>

Init ==
  /\ running = {}
  /\ sent = 0 /\ sendCh = <<>> /\ cur = <<>>
  /\ conns = [q \in Peer |-> "none"]
  /\ link = [q \in Peer |-> "up"]
  /\ connCh = [q \in Peer |-> <<>>]
  /\ wire = [q \in Peer |-> <<>>]
  /\ inbox = [q \in Peer |-> <<>>]
  /\ got = [q \in Peer |-> <<>>]

-----------------------------------------------------------------------------
(* Me: the transmitor and the sender                                       *)

\* Transmitor.Send: one message to one peer or to all of them, whose addresses
\* BroadCast collects in any order.
Send ==
  /\ sent < MaxMsgs
  /\ Len(sendCh) < SendCap
  /\ sent' = sent + 1
  /\ \E to \in {<<q>> : q \in Peer} \cup SetToSeqs(Peer) :
       sendCh' = Append(sendCh, [msg |-> sent', to |-> to])
  /\ UNCHANGED <<running, cur, pathVars>>

\* Sender.Run takes the next message.
NextMsg ==
  /\ cur = <<>>
  /\ sendCh # <<>>
  /\ cur' = <<Head(sendCh)>>
  /\ sendCh' = Tail(sendCh)
  /\ UNCHANGED <<running, sent, pathVars>>

\* Run is done with the first address left.
NextAddress ==
  LET m == cur[1]
  IN  cur' = IF Len(m.to) = 1 THEN <<>> ELSE <<[m EXCEPT !.to = Tail(@)]>>

\* mutant: the sender does not wait for room
DispatchAlways(q) ==
  /\ cur # <<>> /\ Head(cur[1].to) = q
  /\ conns[q] # "none"
  /\ connCh' = [connCh EXCEPT ![q] = Append(@, cur[1].msg)]
  /\ NextAddress
  /\ UNCHANGED <<running, sent, sendCh, conns, link, wire, inbox, got>>

\* The sender has a channel for the address: it waits until there is room.
Dispatch(q) ==
  /\ cur # <<>> /\ Head(cur[1].to) = q
  /\ conns[q] # "none"
  /\ Len(connCh[q]) < ConnCap
  /\ connCh' = [connCh EXCEPT ![q] = Append(@, cur[1].msg)]
  /\ NextAddress
  /\ UNCHANGED <<running, sent, sendCh, conns, link, wire, inbox, got>>

\* mutant: a channel whose writer has returned is replaced
DialAgain(q) ==
  /\ cur # <<>> /\ Head(cur[1].to) = q
  /\ conns[q] \in {"none", "gone"}
  /\ \/ /\ conns' = [conns EXCEPT ![q] = "open"]
        /\ connCh' = [connCh EXCEPT ![q] = <<cur[1].msg>>]
     \/ /\ q \in Flaky
        /\ UNCHANGED <<conns, connCh>>
  /\ NextAddress
  /\ UNCHANGED <<running, sent, sendCh, link, wire, inbox, got>>

\* connect, when there is none: a failed dial drops the message.
Dial(q) ==
  /\ cur # <<>> /\ Head(cur[1].to) = q
  /\ conns[q] = "none"
  /\ \/ /\ conns' = [conns EXCEPT ![q] = "open"]
        /\ connCh' = [connCh EXCEPT ![q] = <<cur[1].msg>>]
     \/ /\ q \in Flaky
        /\ UNCHANGED <<conns, connCh>>
  /\ NextAddress
  /\ UNCHANGED <<running, sent, sendCh, link, wire, inbox, got>>

-----------------------------------------------------------------------------
(* A connection and its two ends                                           *)

\* mutant: the message is sent again after an error
WriteAgain(q) ==
  /\ conns[q] = "open" /\ connCh[q] # <<>>
  /\ Len(wire[q]) < WireCap
  /\ wire' = [wire EXCEPT ![q] = Append(@, Head(connCh[q]))]
  /\ connCh' \in {connCh, [connCh EXCEPT ![q] = Tail(@)]}
  /\ UNCHANGED <<running, sent, sendCh, cur, conns, link, inbox, got>>

\* mutant: the goroutine returns after a write that succeeds
WriteOnce(q) ==
  /\ conns[q] = "open" /\ connCh[q] # <<>>
  /\ Len(wire[q]) < WireCap
  /\ wire' = [wire EXCEPT ![q] = Append(@, Head(connCh[q]))]
  /\ connCh' = [connCh EXCEPT ![q] = Tail(@)]
  /\ conns' = [conns EXCEPT ![q] = "gone"]
  /\ UNCHANGED <<running, sent, sendCh, cur, link, inbox, got>>

\* The writer goroutine of connect, with Codec.Write.  When the connection is
\* down a write may still seem to succeed; when it fails the goroutine returns
\* and nobody empties connCh[q] from then on.
Write(q) ==
  /\ conns[q] = "open" /\ connCh[q] # <<>>
  /\ connCh' = [connCh EXCEPT ![q] = Tail(@)]
  /\ \/ /\ link[q] = "up"
        /\ Len(wire[q]) < WireCap
        /\ wire' = [wire EXCEPT ![q] = Append(@, Head(connCh[q]))]
        /\ UNCHANGED conns
     \/ /\ link[q] = "down"
        /\ conns' \in {conns, [conns EXCEPT ![q] = "gone"]}
        /\ UNCHANGED wire
  /\ UNCHANGED <<running, sent, sendCh, cur, link, inbox, got>>

\* The connection breaks; the reader gets a part of what was on the way.
Break(q) ==
  /\ q \in Breakable
  /\ conns[q] = "open" /\ link[q] = "up"
  /\ link' = [link EXCEPT ![q] = "down"]
  /\ \E i \in 0 .. Len(wire[q]) : wire' = [wire EXCEPT ![q] = SubSeq(@, 1, i)]
  /\ UNCHANGED <<running, sent, sendCh, cur, conns, connCh, inbox, got>>

\* serveConn, with Codec.Read.
Read(q) ==
  /\ wire[q] # <<>>
  /\ Len(inbox[q]) < InboxCap
  /\ inbox' = [inbox EXCEPT ![q] = Append(@, Head(wire[q]))]
  /\ wire' = [wire EXCEPT ![q] = Tail(@)]
  /\ UNCHANGED <<running, sent, sendCh, cur, conns, connCh, link, got>>

\* The core of q starts: Core.Run, which a silent node leaves at once.
Start(q) ==
  /\ q \notin running \cup Silent
  /\ running' = running \cup {q}
  /\ UNCHANGED <<sent, sendCh, cur, pathVars>>

\* Core.Run takes a message.
Consume(q) ==
  /\ q \in running
  /\ inbox[q] # <<>>
  /\ got' = [got EXCEPT ![q] = Append(@, Head(inbox[q]))]
  /\ inbox' = [inbox EXCEPT ![q] = Tail(@)]
  /\ UNCHANGED <<running, sent, sendCh, cur, conns, connCh, link, wire>>

-----------------------------------------------------------------------------
SenderStep == NextMsg \/ \E q \in Peer : Dispatch(q) \/ Dial(q)

Next ==
  \/ Send \/ SenderStep
  \/ \E q \in Peer : Write(q) \/ Break(q) \/ Read(q) \/ Start(q) \/ Consume(q)

Spec == Init /\ [][Next]_vars

\* Goroutines run; each of these waits for one channel that no other goroutine
\* of its kind uses.  Nobody has to send, and no connection has to break.
FairSpec ==
  /\ Spec
  /\ WF_vars(SenderStep)
  /\ \A q \in Peer : WF_vars(Write(q)) /\ WF_vars(Read(q))
                     /\ WF_vars(Start(q)) /\ WF_vars(Consume(q))

-----------------------------------------------------------------------------
(* Properties                                                              *)

TypeOK ==
  /\ running \subseteq Peer
  /\ sent \in 0 .. MaxMsgs
  /\ \A m \in Range(sendCh) \cup Range(cur) :
       m.msg \in 1 .. sent /\ m.to # <<>> /\ Range(m.to) \subseteq Peer
  /\ conns \in [Peer -> {"none", "open", "gone"}] /\ link \in [Peer -> {"up", "down"}]
  /\ \A q \in Peer : /\ Len(connCh[q]) <= ConnCap
                     /\ Len(wire[q]) <= WireCap
                     /\ Len(inbox[q]) <= InboxCap

\* The messages of a queue of the sender that are for q.
For(q, queue) ==
  LET mine == SelectSeq(queue, LAMBDA m : q \in Range(m.to))
  IN  [i \in DOMAIN mine |-> mine[i].msg]

\* What is on its way to q, oldest first.
Transit(q) == inbox[q] \o wire[q] \o connCh[q] \o For(q, cur \o sendCh)

TheLink ==
  INSTANCE Link WITH Lossy   <- Flaky \cup Breakable,
                     transit <- [q \in Peer |-> Transit(q)]

\* The send path implements the link: through five queues and as many
\* goroutines nothing is repeated or overtaken, nothing that is sent before the
\* peer's core runs is lost, and only failed dials and broken connections lose
\* a message, each of its own peer only.
PathIsLink == TheLink!Spec

\* Sender.Run is blocked on the channel of q for good: its writer has returned,
\* or q reads nothing and every buffer on the way to it is full.
StuckOn(q) ==
  /\ cur # <<>> /\ Head(cur[1].to) = q
  /\ Len(connCh[q]) = ConnCap
  /\ \/ conns[q] = "gone"
     \/ /\ conns[q] = "open" /\ link[q] = "up"
        /\ q \in Silent /\ Len(wire[q]) = WireCap /\ Len(inbox[q]) = InboxCap

Stuck == \E q \in Peer : StuckOn(q)

\* A message to a peer with a good connection reaches its core, whatever happens
\* to the other connections, unless the sender blocks on one of those.
Delivered ==
  \A q \in Peer \ (Silent \cup Flaky \cup Breakable), m \in 1 .. MaxMsgs :
    (m \in Range(Transit(q))) ~> (m \in Range(got[q]) \/ Stuck)

\* Nothing but the end of the connection ends that, and not even the end of the
\* connection when the writer has returned: channels in conns are not replaced
\* and sends have no timeout.
StuckStays ==
  [][\A q \in Peer : StuckOn(q) => StuckOn(q)' \/ link'[q] # link[q]]_vars
=============================================================================
