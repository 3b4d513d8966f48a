------------------------------ MODULE Commitor ------------------------------
(***************************************************************************)
(* core/commitor.go: the goroutine that turns a submitted anchor into      *)
(* executed blocks.  Its local variables are a record; commit2 is cut at   *)
(* every point where it exchanges a message with the DAG goroutine:        *)
(*                                                                         *)
(*   idle --receive--> pull --found--> visit --> pull ... --> gc --> idle  *)
(*                      |                 ^                                *)
(*                      +--> wait --------+   (block not received yet)     *)
(***************************************************************************)
EXTENDS Dag, FiniteSets

SubmitReqs == [slot : Slot, round : Nat]

Commitors == [pc      : {"idle", "pull", "wait", "visit", "gc"},
              q       : Seq(Slot),
              cur     : Block \cup {Nil},
              pulled  : SUBSET Block,
              anchors : SUBSET SubmitReqs]

IdleCommitor ==
  [pc |-> "idle", q |-> <<>>, cur |-> Nil, pulled |-> {}, anchors |-> {}]

SlotsOf(blocks) == {b.header.slot : b \in blocks}

-----------------------------------------------------------------------------
\* commit2 up to its loop.
StartCommit(req) ==
  [pc |-> "pull", q |-> <<req.slot>>, cur |-> Nil, pulled |-> {}, anchors |-> {req}]

\* The "update anchor" part of commit2: the highest pulled block, past the
\* first one of its round, of a leader that is known and not yet committed.
UpdateAnchor(anchors, uncommitted, h) ==
  LET old == {x \in anchors : x.round = h.round}
  IN  IF /\ [leader |-> h.slot.author, round |-> h.round] \in uncommitted
         /\ h.slot.height - h.firstRefH >= 1
         /\ \A x \in old : x.slot.height < h.slot.height
        THEN (anchors \ old) \cup {[slot |-> h.slot, round |-> h.round]}
        ELSE anchors

\* mutant: only the first reference is queued
VisitFirstRef(c, uncommitted) ==
  LET pulled == c.pulled \cup {c.cur}
      refs   == [i \in 1 .. IF c.cur.ref = <<>> THEN 0 ELSE 1 |-> c.cur.ref[i].slot]
  IN  [pc      |-> "pull",
       q       |-> Without(Tail(c.q) \o refs, SlotsOf(pulled)),
       cur     |-> Nil,
       pulled  |-> pulled,
       anchors |-> UpdateAnchor(c.anchors, uncommitted, c.cur.header)]

\* mutant: the slot stays at the head of the queue
VisitNoDequeue(c, uncommitted) ==
  [pc      |-> "pull",
   q       |-> c.q,
   cur     |-> Nil,
   pulled  |-> c.pulled \cup {c.cur},
   anchors |-> UpdateAnchor(c.anchors, uncommitted, c.cur.header)]

\* One turn of the loop after the block has arrived: record it, look its round
\* up in the leaders map (the DAG's own map, shared with its goroutine) and
\* queue its references.  Slots pulled before are skipped when they come up;
\* dropping them here instead is the same.
Visit(c, uncommitted) ==
  LET pulled == c.pulled \cup {c.cur}
      refs   == [i \in 1 .. Len(c.cur.ref) |-> c.cur.ref[i].slot]
  IN  [pc      |-> "pull",
       q       |-> Without(Tail(c.q) \o refs, SlotsOf(pulled)),
       cur     |-> Nil,
       pulled  |-> pulled,
       anchors |-> UpdateAnchor(c.anchors, uncommitted, c.cur.header)]

-----------------------------------------------------------------------------
\* The elements of a finite set in the order of a strict total order on it.
Sorted(S, Before(_, _)) ==
  [i \in 1 .. Cardinality(S) |->
     CHOOSE x \in S : Cardinality({y \in S : Before(y, x)}) = i - 1]

\* The comparison of commitAnchor: by author and height, the anchor's author last.
ExecBefore(anchor, s1, s2) ==
  IF s1.author = s2.author THEN s1.height < s2.height
  ELSE IF s1.author = anchor.author THEN FALSE
  ELSE IF s2.author = anchor.author THEN TRUE
  ELSE s1.author < s2.author

\* The blocks of pulled that commitAnchor reaches from the anchor.
History(anchor, pulled) ==
  LET within[k \in Nat] ==
        IF k = 0
          THEN {b \in pulled : b.header.slot = anchor}
          ELSE LET below == within[k - 1]
               IN  below \cup {b \in pulled : \E c \in below :
                                 \E i \in 1 .. Len(c.ref) : c.ref[i].slot = b.header.slot}
  IN  within[Cardinality(pulled)]

\* commitAnchor: the slots it executes, in order.
CommitAnchor(anchor, pulled) ==
  Sorted(SlotsOf(History(anchor, pulled)),
         LAMBDA s1, s2 : ExecBefore(anchor, s1, s2))

\* mutant: an anchor executes again what the ones before it have executed
ExecOrderRepeating(anchors, pulled) ==
  LET todo == Sorted(anchors, LAMBDA x, y : x.round < y.round)
      done[k \in 0 .. Len(todo)] ==
        IF k = 0 THEN <<>> ELSE done[k - 1] \o CommitAnchor(todo[k].slot, pulled)
  IN  done[Len(todo)]

\* Step 2 of commit2: the anchors in round order, each executing what the ones
\* before it have left.
ExecOrder(anchors, pulled) ==
  LET todo == Sorted(anchors, LAMBDA x, y : x.round < y.round)
      done[k \in 0 .. Len(todo)] ==
        IF k = 0
          THEN <<>>
          ELSE LET before == done[k - 1]
                   seen   == {before[i] : i \in 1 .. Len(before)}
               IN  before \o CommitAnchor(todo[k].slot,
                                {b \in pulled : b.header.slot \notin seen})
  IN  done[Len(todo)]

\* mutant: the lowest height
WatermarkLow(pulled) ==
  [a \in {s.author : s \in SlotsOf(pulled)} |->
     CHOOSE h \in {s.height : s \in {t \in SlotsOf(pulled) : t.author = a}} :
       \A s \in SlotsOf(pulled) : s.author = a => s.height >= h]

\* The new watermark: the highest pulled height of each author pulled from.
Watermark(pulled) ==
  [a \in {s.author : s \in SlotsOf(pulled)} |->
     CHOOSE h \in {s.height : s \in {t \in SlotsOf(pulled) : t.author = a}} :
       \A s \in SlotsOf(pulled) : s.author = a => s.height <= h]
=============================================================================
