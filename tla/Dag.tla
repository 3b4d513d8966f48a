-------------------------------- MODULE Dag --------------------------------
(***************************************************************************)
(* core/dag.go: the local DAG of one node, as a record, and one operator   *)
(* per request its goroutine serves.  The goroutine serves one request at  *)
(* a time, so each operator is atomic; Loom.tla says when it runs and who  *)
(* gets the answer.                                                        *)
(*                                                                         *)
(* cache[a] is the line of author a: index i holds the block of height     *)
(* cacheMark[a] + i, or Nil where the height was not received yet.         *)
(***************************************************************************)
EXTENDS Committee, Sequences

CONSTANT Nil                      \* Go's nil

Slot   == [author : Node, height : Nat]
Header == [slot : Slot, round : Nat, firstRefH : Nat]
Block  == [header : Header, ref : Seq(Header)]

ASSUME NilAssumption == Nil \notin Block

CommitReqs == [leader : Node, round : Nat]

Dags == [cache         : [Node -> Seq(Block \cup {Nil})],
         cacheMark     : [Node -> Nat \cup {-1}],
         uncommitted   : SUBSET CommitReqs,
         commitMark    : Nat \cup {-2},
         pending       : SUBSET Slot,
         pendingCommit : CommitReqs \cup {Nil}]

NewDag ==
  [cache         |-> [a \in Node |-> <<>>],
   cacheMark     |-> [a \in Node |-> -1],
   uncommitted   |-> {},
   commitMark    |-> -2,
   pending       |-> {},
   pendingCommit |-> Nil]

Newest(line) == line[Len(line)]

\* The elements of s that are not in T, in their order: SelectSeq, as a
\* recursive function of the position so that proofs can unfold it.
Without(s, T) ==
  LET upTo[i \in 0 .. Len(s)] ==
        IF i = 0 THEN <<>>
        ELSE IF s[i] \in T THEN upTo[i - 1]
        ELSE Append(upTo[i - 1], s[i])
  IN  upTo[Len(s)]

\* Position of a height in the line of its author; below 1: committed.
Index(d, s) == s.height - d.cacheMark[s.author]

Committed(d, s) == Index(d, s) < 1

Cached(d, s) ==
  /\ Index(d, s) \in 1 .. Len(d.cache[s.author])
  /\ d.cache[s.author][Index(d, s)] # Nil

BlockAt(d, s) == d.cache[s.author][Index(d, s)]

\* The shape of the lines that the operators below rely on: a block sits where
\* its height says, and a line that is not empty ends in a block.
Aligned(d) ==
  \A a \in Node :
    /\ d.cache[a] # <<>> => Newest(d.cache[a]) # Nil
    /\ \A i \in 1 .. Len(d.cache[a]) :
         d.cache[a][i] # Nil =>
           d.cache[a][i].header.slot = [author |-> a, height |-> d.cacheMark[a] + i]

-----------------------------------------------------------------------------
\* mutant: a block past the end is appended without padding
PutAtEnd(line, i, b) ==
  [k \in 1 .. (IF i > Len(line) THEN Len(line) + 1 ELSE Len(line)) |->
     IF k = i \/ k > Len(line) THEN b ELSE line[k]]

\* A line with block b at position i, stretched with Nil when i is past its end.
Put(line, i, b) ==
  [k \in 1 .. (IF i > Len(line) THEN i ELSE Len(line)) |->
     IF k = i THEN b ELSE IF k <= Len(line) THEN line[k] ELSE Nil]

\* handleBlockPushReq, without the reply to a pending pull.
PushBlock(d, b) ==
  LET s == b.header.slot
  IN  IF Committed(d, s)
        THEN d
        ELSE [d EXCEPT !.cache[s.author] = Put(@, Index(d, s), b)]

-----------------------------------------------------------------------------
\* A line whose newest block lets a proposer leave the given round: two blocks
\* on top of the line's first block of an even round, one of an odd round.
Qualified(d, a, round) ==
  /\ d.cache[a] # <<>>
  /\ LET h == Newest(d.cache[a]).header
     IN  \/ h.round > round
         \/ /\ h.round = round
            /\ h.slot.height - h.firstRefH >= IF round % 2 = 0 THEN 2 ELSE 1

\* handleRefReq: the newest block of every qualified line, in author order; if
\* they are fewer than HightThreshold, the newest block of the own line, when
\* the line has one.
Ref(d, self, round) ==
  LET lines == Without([i \in 1 .. N |-> i - 1],
                       {a \in Node : ~Qualified(d, a, round)})
  IN  IF Len(lines) < HightThreshold /\ d.cache[self] # <<>>
        THEN <<Newest(d.cache[self]).header>>
        ELSE [i \in 1 .. Len(lines) |-> Newest(d.cache[lines[i]]).header]

\* mutant: a new round keeps the first height of the old one
GenerateBlockKeeping(d, self, height, round, oldFirstRefH) ==
  LET ref == Ref(d, self, round)
  IN  [header |-> [slot      |-> [author |-> self, height |-> height],
                   round     |-> IF Len(ref) > 1 THEN round + 1 ELSE round,
                   firstRefH |-> oldFirstRefH],
       ref    |-> ref]

\* generateBlock (core/core.go) without the election it may start: more than
\* one reference opens the next round.
GenerateBlock(d, self, height, round, oldFirstRefH) ==
  LET ref   == Ref(d, self, round)
      opens == Len(ref) > 1
  IN  [header |-> [slot      |-> [author |-> self, height |-> height],
                   round     |-> IF opens THEN round + 1 ELSE round,
                   firstRefH |-> IF opens THEN height ELSE oldFirstRefH],
       ref    |-> ref]

-----------------------------------------------------------------------------
\* isAnchorReady: the leader of every even round above commitMark is known.
AnchorReady(d, round) ==
  \A r \in d.commitMark + 2 .. round :
    (r - d.commitMark) % 2 = 0 => \E req \in d.uncommitted : req.round = r

\* The blocks of the leader that certify the one two positions below them.
Certifying(d, req) ==
  {i \in 1 .. Len(d.cache[req.leader]) :
     LET b == d.cache[req.leader][i]
     IN  /\ b # Nil
         /\ b.header.round = req.round
         /\ b.header.slot.height - b.header.firstRefH >= 2}

\* handleCommitReq: the DAG afterwards and the submitReq it sends, if any.
CommitReq(d, req) ==
  LET older == {u \in d.uncommitted : u.round # req.round}
      newest == IF d.pendingCommit = Nil THEN req
                ELSE IF d.pendingCommit.round < req.round THEN req
                ELSE d.pendingCommit
      d1 == [d EXCEPT !.uncommitted = older \cup {req}, !.pendingCommit = newest]
      at == Certifying(d1, newest)
      top == CHOOSE i \in at : \A j \in at : j <= i
  IN  IF ~AnchorReady(d1, newest.round)
        THEN [dag |-> d1, submit |-> <<>>]
      ELSE IF at = {}
        THEN [dag |-> [d1 EXCEPT !.pendingCommit = Nil], submit |-> <<>>]
      ELSE [dag |-> d1,
            submit |-> <<[slot  |-> [author |-> newest.leader,
                                     height |-> d1.cache[newest.leader][top].header.slot.height - 2],
                          round |-> newest.round]>>]

-----------------------------------------------------------------------------
\* handleCleanReq for the watermark wm, a function on some of the authors; the
\* caller makes sure that pendingCommit is not Nil, which the code dereferences.
Clean(d, wm) ==
  LET mark == d.pendingCommit.round
  IN  [d EXCEPT
         !.cache = [a \in Node |->
            IF a \in DOMAIN wm
              THEN SubSeq(d.cache[a], wm[a] - d.cacheMark[a] + 1, Len(d.cache[a]))
              ELSE d.cache[a]],
         !.cacheMark = [a \in Node |->
            IF a \in DOMAIN wm THEN wm[a] ELSE d.cacheMark[a]],
         !.commitMark = mark,
         !.uncommitted = {u \in d.uncommitted : u.round > mark},
         !.pending = {}]
=============================================================================
