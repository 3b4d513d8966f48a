------------------------------ MODULE DagProofs ------------------------------
(***************************************************************************)
(* What the operators of Dag and Commitor return and preserve, for every   *)
(* committee: the lemmas LoomProofs rests on.                              *)
(***************************************************************************)
EXTENDS Commitor, WellFoundedInduction, SequenceTheorems, TLAPS

\* A set of numbers has a least element; used for induction on positions.
LEMMA LeastExists ==
  ASSUME NEW S \in SUBSET Nat, S # {}
  PROVE  \E m \in S : \A x \in S : m <= x
<1>1. PICK m \in S : \A y \in S : ~(<<y, m>> \in OpToRel(<, Nat))
  BY NatLessThanWellFounded, WFMin, Zenon
<1>2. \A y \in S : ~(y < m)
  BY <1>1 DEF OpToRel
<1> QED
  BY <1>2

\* Below a bound it has a greatest: the highest certifying block of
\* handleCommitReq and the watermark of commit2 exist.
LEMMA GreatestExists ==
  ASSUME NEW S \in SUBSET Nat, S # {}, NEW b \in Nat, \A x \in S : x <= b
  PROVE  \E m \in S : \A x \in S : x <= m
<1> DEFINE D == {b - x : x \in S}
<1>1. D \in SUBSET Nat
  BY DEF D
<1> PICK y \in S : TRUE
  OBVIOUS
<1>1a. D # {}
  BY b - y \in D
<1>2. PICK d \in D : \A e \in D : d <= e
  BY <1>1, <1>1a, LeastExists
<1>3. PICK m \in S : d = b - m
  BY <1>2
<1>4. \A x \in S : b - m <= b - x
  BY <1>2, <1>3
<1> QED
  BY <1>4

-----------------------------------------------------------------------------
\* The value upTo of Without(s, T) should have at position i, given f.
UpTo(s, T, f, i) ==
  IF i = 0 THEN <<>>
  ELSE IF s[i] \in T THEN f[i - 1]
  ELSE Append(f[i - 1], s[i])

\* Without filters a sequence (handleRefReq's loop over the lines, the skipped
\* slots of commit2): its result is a sequence of elements of s that are not in T.
LEMMA WithoutType ==
  ASSUME NEW S, NEW s \in Seq(S), NEW T
  PROVE  Without(s, T) \in Seq(S \ T)
<1> DEFINE Solves(f, n) == f = [i \in 0 .. n |-> UpTo(s, T, f, i)]
           B == {n \in 0 .. Len(s) : ~ \E f : Solves(f, n)}
<1>1. Len(s) \in Nat
  OBVIOUS
<1>2. B = {}
  <2> SUFFICES ASSUME B # {} PROVE FALSE
    OBVIOUS
  <2>0. B \in SUBSET Nat
    BY <1>1
  <2>1. PICK n \in B : \A k \in B : n <= k
    <3> HIDE DEF B
    <3> QED
      BY <2>0, LeastExists
  <2>2. n \in 0 .. Len(s) /\ ~ \E f : Solves(f, n)
    BY <2>1
  <2>3. CASE n = 0
    <3> DEFINE f == [i \in 0 .. 0 |-> <<>>]
    <3>1. Solves(f, 0)
      BY DEF UpTo
    <3> QED
      BY <2>2, <2>3, <3>1
  <2>4. CASE n # 0
    <3>1. n - 1 \in 0 .. Len(s) /\ n - 1 \notin B
      BY <2>1, <2>2, <2>4
    <3>2. PICK f : Solves(f, n - 1)
      BY <3>1
    <3> DEFINE g == [i \in 0 .. n |-> UpTo(s, T, f, i)]
    <3>3. \A i \in 0 .. n - 1 : g[i] = f[i]
      <4> HIDE DEF g
      <4>1. \A i \in 0 .. n - 1 : f[i] = UpTo(s, T, f, i)
        BY <3>2, Zenon
      <4>2. \A i \in 0 .. n - 1 : i \in 0 .. n
        BY <2>2
      <4> QED
        BY <4>1, <4>2 DEF g
    <3>4. \A i \in 0 .. n : UpTo(s, T, g, i) = UpTo(s, T, f, i)
      <4> SUFFICES ASSUME NEW i \in 0 .. n PROVE UpTo(s, T, g, i) = UpTo(s, T, f, i)
        OBVIOUS
      <4>1. CASE i = 0
        BY <4>1 DEF UpTo
      <4>2. CASE i # 0
        <5>1. i - 1 \in 0 .. n - 1
          BY <2>2, <4>2
        <5>2. g[i - 1] = f[i - 1]
          BY <3>3, <5>1
        <5> HIDE DEF g
        <5> QED
          BY <5>2 DEF UpTo
      <4> QED
        BY <4>1, <4>2
    <3>5. Solves(g, n)
      <4> HIDE DEF UpTo
      <4> QED
        BY <3>4
    <3> QED
      BY <2>2, <3>5
  <2> QED
    BY <2>3, <2>4
<1> DEFINE u == CHOOSE f : f = [i \in 0 .. Len(s) |->
                   IF i = 0 THEN <<>>
                   ELSE IF s[i] \in T THEN f[i - 1]
                   ELSE Append(f[i - 1], s[i])]
<1>3. Solves(u, Len(s))
  <2>1. Len(s) \in 0 .. Len(s)
    BY <1>1
  <2>2. \E f : Solves(f, Len(s))
    BY <1>2, <2>1
  <2> QED
    BY <2>2 DEF UpTo
<1>4. Without(s, T) = u[Len(s)]
  BY DEF Without
<1> HIDE DEF u
<1>5. \A i \in 0 .. Len(s) : u[i] = UpTo(s, T, u, i)
  <2> HIDE DEF UpTo
  <2> QED
    BY <1>3, Zenon
<1> DEFINE C == {n \in 0 .. Len(s) : u[n] \notin Seq(S \ T)}
<1>6. C = {}
  <2> SUFFICES ASSUME C # {} PROVE FALSE
    OBVIOUS
  <2>0. C \in SUBSET Nat
    BY <1>1
  <2>1. PICK n \in C : \A k \in C : n <= k
    <3> HIDE DEF C
    <3> QED
      BY <2>0, LeastExists
  <2>2. n \in 0 .. Len(s) /\ u[n] \notin Seq(S \ T)
    BY <2>1
  <2>3. CASE n = 0
    <3>1. u[n] = <<>>
      BY <1>5, <2>2, <2>3 DEF UpTo
    <3> QED
      BY <2>2, <3>1
  <2>4. CASE n # 0
    <3>1. n - 1 \in 0 .. Len(s) /\ n - 1 \notin C
      BY <2>1, <2>2, <2>4
    <3>2. u[n - 1] \in Seq(S \ T)
      BY <3>1
    <3>3. s[n] \in S
      BY <1>1, <2>2, <2>4
    <3>4. u[n] = IF s[n] \in T THEN u[n - 1] ELSE Append(u[n - 1], s[n])
      BY <1>5, <2>2, <2>4 DEF UpTo
    <3>5. CASE s[n] \in T
      BY <2>2, <3>2, <3>4, <3>5
    <3>6. CASE s[n] \notin T
      <4>1. s[n] \in S \ T
        BY <3>3, <3>6
      <4>2. Append(u[n - 1], s[n]) \in Seq(S \ T)
        BY <3>2, <4>1, AppendProperties
      <4> QED
        BY <2>2, <3>4, <3>6, <4>2
    <3> QED
      BY <3>5, <3>6
  <2> QED
    BY <2>3, <2>4
<1> QED
  BY <1>1, <1>4, <1>6

-----------------------------------------------------------------------------
\* One line of the cache.
Line == Seq(Block \cup {Nil})

\* The invariant of the DAG goroutine's own state.
DagOK(d) == d \in Dags /\ Aligned(d)

\* handleBlockPushReq pads and assigns: the line afterwards.
LEMMA PutProperties ==
  ASSUME NEW line \in Line, NEW i \in Nat \ {0}, NEW b \in Block
  PROVE  LET new == Put(line, i, b)
         IN  /\ new \in Line
             /\ Len(new) = IF i > Len(line) THEN i ELSE Len(line)
             /\ new # <<>>
             /\ new[i] = b
             /\ \A k \in 1 .. Len(new) :
                  k # i => new[k] = IF k <= Len(line) THEN line[k] ELSE Nil
<1> DEFINE n == IF i > Len(line) THEN i ELSE Len(line)
           new == Put(line, i, b)
<1>1. Len(line) \in Nat /\ n \in Nat /\ i \in 1 .. n
  BY DEF Line
<1>2. new = [k \in 1 .. n |-> IF k = i THEN b ELSE IF k <= Len(line) THEN line[k] ELSE Nil]
  BY DEF Put
<1>3. \A k \in 1 .. n : new[k] \in Block \cup {Nil}
  <2> SUFFICES ASSUME NEW k \in 1 .. n PROVE new[k] \in Block \cup {Nil}
    OBVIOUS
  <2>1. k <= Len(line) => line[k] \in Block \cup {Nil}
    BY <1>1 DEF Line
  <2> HIDE DEF n, new
  <2> QED
    BY <1>2, <2>1
<1>4. new \in [1 .. n -> Block \cup {Nil}]
  <2> HIDE DEF n
  <2> QED
    BY <1>2, <1>3
<1>5. new \in Line /\ Len(new) = n
  <2> HIDE DEF n, new
  <2> QED
    BY <1>1, <1>4, SeqDef, LenProperties DEF Line
<1> HIDE DEF n
<1> QED
  BY <1>1, <1>2, <1>5 DEF n

\* The fields of the dag struct have their types.
LEMMA DagFields ==
  ASSUME NEW d \in Dags
  PROVE  /\ d.cache \in [Node -> Line]
         /\ d.cacheMark \in [Node -> Nat \cup {-1}]
         /\ d.uncommitted \in SUBSET CommitReqs
         /\ d.commitMark \in Nat \cup {-2}
         /\ d.pending \in SUBSET Slot
         /\ d.pendingCommit \in CommitReqs \cup {Nil}
  BY DEF Dags, Line

\* The fields of a Block have their types, and a block is not nil.
LEMMA BlockFields ==
  ASSUME NEW b \in Block
  PROVE  /\ b # Nil
         /\ b.header \in Header
         /\ b.header.slot \in Slot
         /\ b.header.slot.author \in Node
         /\ b.header.slot.height \in Nat
         /\ b.header.slot = [author |-> b.header.slot.author, height |-> b.header.slot.height]
         /\ b.ref \in Seq(Header)
  BY NilAssumption DEF Block, Header, Slot

\* handleBlockPushReq keeps the shape of the lines and changes the one slot only.
LEMMA PushBlockOK ==
  ASSUME NEW d, DagOK(d), NEW b \in Block
  PROVE  LET e == PushBlock(d, b)
         IN  /\ DagOK(e)
             /\ e.cacheMark = d.cacheMark
             /\ e.pending = d.pending
             /\ \A s \in Slot : Cached(d, s) => Cached(e, s)
             /\ \A s \in Slot : s # b.header.slot /\ Cached(e, s) => Cached(d, s)
             /\ ~Committed(d, b.header.slot) => Cached(e, b.header.slot)
<1> DEFINE t == b.header.slot
           a == t.author
           i == Index(d, t)
           new == Put(d.cache[a], i, b)
           e == PushBlock(d, b)
<1>1. d \in Dags /\ Aligned(d)
  BY DEF DagOK
<1>2. CASE Committed(d, t)
  <2>1. e = d
    BY <1>2 DEF PushBlock
  <2> HIDE DEF e
  <2> QED
    BY <1>2, <2>1 DEF e
<1>3. CASE ~Committed(d, t)
  <2>1. /\ a \in Node
        /\ d.cache \in [Node -> Line]
        /\ d.cacheMark \in [Node -> Nat \cup {-1}]
        /\ t.height = d.cacheMark[a] + i
        /\ i \in Nat \ {0}
        /\ t = [author |-> a, height |-> t.height]
    <3>1. /\ a \in Node /\ t.height \in Nat
          /\ t = [author |-> a, height |-> t.height]
      BY BlockFields
    <3>2. d.cache \in [Node -> Line] /\ d.cacheMark \in [Node -> Nat \cup {-1}]
      BY <1>1, DagFields
    <3>3. i = t.height - d.cacheMark[a] /\ ~(i < 1)
      BY <1>3 DEF Committed, Index
    <3>4. d.cacheMark[a] \in Int
      BY <3>1, <3>2
    <3> HIDE DEF i, a, t
    <3> QED
      BY <3>1, <3>2, <3>3, <3>4
  <2>2. e = [d EXCEPT !.cache[a] = new]
    BY <1>3 DEF PushBlock
  <2>3. /\ new \in Line
        /\ Len(new) = IF i > Len(d.cache[a]) THEN i ELSE Len(d.cache[a])
        /\ new # <<>>
        /\ new[i] = b
        /\ \A k \in 1 .. Len(new) :
             k # i => new[k] = IF k <= Len(d.cache[a]) THEN d.cache[a][k] ELSE Nil
    <3>1. d.cache[a] \in Line
      BY <2>1
    <3> HIDE DEF a, i
    <3> QED
      BY <2>1, <3>1, PutProperties
  <2> HIDE DEF new, e, i, a
  <2>4. /\ e \in Dags
        /\ e.cacheMark = d.cacheMark
        /\ e.pending = d.pending
        /\ e.cache = [d.cache EXCEPT ![a] = new]
    BY <1>1, <2>1, <2>2, <2>3 DEF Dags, Line
  <2>5. Aligned(e)
    <3> SUFFICES ASSUME NEW c \in Node
                 PROVE  /\ e.cache[c] # <<>> => Newest(e.cache[c]) # Nil
                        /\ \A k \in 1 .. Len(e.cache[c]) : e.cache[c][k] # Nil =>
                             e.cache[c][k].header.slot =
                               [author |-> c, height |-> e.cacheMark[c] + k]
      BY DEF Aligned
    <3>1. /\ d.cache[c] # <<>> => Newest(d.cache[c]) # Nil
          /\ \A k \in 1 .. Len(d.cache[c]) : d.cache[c][k] # Nil =>
               d.cache[c][k].header.slot = [author |-> c, height |-> d.cacheMark[c] + k]
      BY <1>1 DEF Aligned
    <3>2. CASE c # a
      BY <2>1, <2>4, <3>1, <3>2
    <3>3. CASE c = a
      <4>1. e.cache[c] = new /\ e.cacheMark[c] = d.cacheMark[a]
        BY <2>1, <2>4, <3>3
      <4>2. Newest(new) # Nil
        <5>1. CASE i > Len(d.cache[a])
          BY <2>3, <5>1, BlockFields DEF Newest
        <5>2. CASE ~(i > Len(d.cache[a]))
          <6>1. Len(new) = Len(d.cache[a]) /\ Len(new) \in Nat \ {0}
            BY <2>1, <2>3, <5>2 DEF Line
          <6>2. CASE Len(new) = i
            BY <2>3, <6>2, BlockFields DEF Newest
          <6>3. CASE Len(new) # i
            <7>1. new[Len(new)] = d.cache[a][Len(new)]
              BY <2>3, <6>1, <6>3
            <7>2. d.cache[a] # <<>>
              BY <2>1, <6>1 DEF Line
            <7> QED
              BY <3>1, <3>3, <6>1, <7>1, <7>2 DEF Newest
          <6> QED
            BY <6>2, <6>3
        <5> QED
          BY <5>1, <5>2
      <4>3. ASSUME NEW k \in 1 .. Len(new), new[k] # Nil
            PROVE  new[k].header.slot = [author |-> a, height |-> d.cacheMark[a] + k]
        <5>1. CASE k = i
          BY <2>1, <2>3, <5>1
        <5>2. CASE k # i
          <6>1. k <= Len(d.cache[a]) /\ new[k] = d.cache[a][k]
            BY <2>3, <4>3, <5>2
          <6>2. k \in 1 .. Len(d.cache[a])
            BY <2>1, <2>3, <6>1 DEF Line
          <6> QED
            BY <3>1, <3>3, <4>3, <6>1, <6>2
        <5> QED
          BY <5>1, <5>2
      <4> QED
        BY <3>3, <4>1, <4>2, <4>3
    <3> QED
      BY <3>2, <3>3
  <2>6. ASSUME NEW s \in Slot
        PROVE  /\ Cached(d, s) => Cached(e, s)
               /\ s # t /\ Cached(e, s) => Cached(d, s)
    <3> DEFINE k == Index(d, s)
    <3>1. /\ s.author \in Node
          /\ k \in Int
          /\ s.height = d.cacheMark[s.author] + k
          /\ Index(e, s) = k
          /\ s = [author |-> s.author, height |-> s.height]
      BY <2>1, <2>4 DEF Slot, Index
    <3> HIDE DEF k
    <3>2. CASE s.author # a
      <4>1. e.cache[s.author] = d.cache[s.author]
        BY <2>1, <2>4, <3>1, <3>2
      <4> QED
        BY <3>1, <4>1 DEF Cached, k
    <3>3. CASE s.author = a
      <4>1. e.cache[s.author] = new
        BY <2>1, <2>4, <3>3
      <4>2. Len(d.cache[a]) \in Nat /\ Len(d.cache[a]) <= Len(new)
        BY <2>1, <2>3 DEF Line
      <4>3. CASE k = i
        <5>1. s = t
          BY <2>1, <3>1, <3>3, <4>3
        <5>2. i \in 1 .. Len(new) /\ new[i] # Nil
          BY <2>1, <2>3, <4>2, BlockFields
        <5> QED
          BY <3>1, <4>1, <4>3, <5>1, <5>2 DEF Cached
      <4>4. CASE k # i
        <5>1. k \in 1 .. Len(new) =>
                new[k] = IF k <= Len(d.cache[a]) THEN d.cache[a][k] ELSE Nil
          BY <2>3, <4>4
        <5> QED
          BY <3>1, <3>3, <4>1, <4>2, <5>1 DEF Cached, k
      <4> QED
        BY <4>3, <4>4
    <3> QED
      BY <3>2, <3>3
  <2>7. Cached(e, t)
    <3>1. t.author = a /\ Index(e, t) = i
      BY <2>4 DEF Index, i, a
    <3>2. e.cache[a] = new /\ Len(d.cache[a]) \in Nat
      BY <2>1, <2>4 DEF Line
    <3>3. i \in 1 .. Len(new) /\ new[i] # Nil
      BY <2>1, <2>3, <3>2, BlockFields
    <3> QED
      BY <3>1, <3>2, <3>3 DEF Cached
  <2> QED
    BY <2>4, <2>5, <2>6, <2>7 DEF DagOK, e
<1> QED
  BY <1>2, <1>3

-----------------------------------------------------------------------------
\* The newest element of a line is a block: handleRefReq dereferences it.
LEMMA NewestBlock ==
  ASSUME NEW d, DagOK(d), NEW a \in Node, d.cache[a] # <<>>
  PROVE  Newest(d.cache[a]) \in Block
<1>1. d.cache[a] \in Line
  BY DagFields DEF DagOK
<1>2. Newest(d.cache[a]) \in Block \cup {Nil}
  BY <1>1 DEF Newest, Line
<1>3. Newest(d.cache[a]) # Nil
  BY DEF DagOK, Aligned
<1> QED
  BY <1>2, <1>3

\* handleRefReq answers with headers.
LEMMA RefType ==
  ASSUME NEW d, DagOK(d), NEW self \in Node, NEW round
  PROVE  Ref(d, self, round) \in Seq(Header)
<1> DEFINE all   == [i \in 1 .. N |-> i - 1]
           out   == {a \in Node : ~Qualified(d, a, round)}
           lines == Without(all, out)
<1>1. all \in Seq(Node)
  BY NAssumption DEF Node
<1>2. lines \in Seq(Node \ out)
  <2> HIDE DEF all, out
  <2> QED
    BY <1>1, WithoutType
<1>3. \A i \in 1 .. Len(lines) : Newest(d.cache[lines[i]]).header \in Header
  <2> SUFFICES ASSUME NEW i \in 1 .. Len(lines)
               PROVE  Newest(d.cache[lines[i]]).header \in Header
    OBVIOUS
  <2> HIDE DEF lines
  <2>1. lines[i] \in Node \ out
    BY <1>2
  <2>2. lines[i] \in Node /\ d.cache[lines[i]] # <<>>
    BY <2>1 DEF Qualified
  <2>3. Newest(d.cache[lines[i]]) \in Block
    BY <2>2, NewestBlock
  <2> QED
    BY <2>3, BlockFields
<1>4. [i \in 1 .. Len(lines) |-> Newest(d.cache[lines[i]]).header] \in Seq(Header)
  <2> HIDE DEF lines
  <2> QED
    BY <1>2, <1>3
<1>5. d.cache[self] # <<>> => <<Newest(d.cache[self]).header>> \in Seq(Header)
  <2> SUFFICES ASSUME d.cache[self] # <<>>
               PROVE  <<Newest(d.cache[self]).header>> \in Seq(Header)
    OBVIOUS
  <2>1. Newest(d.cache[self]).header \in Header
    BY NewestBlock, BlockFields
  <2> QED
    BY <2>1
<1>6. Ref(d, self, round) =
        IF Len(lines) < HightThreshold /\ d.cache[self] # <<>>
          THEN <<Newest(d.cache[self]).header>>
          ELSE [i \in 1 .. Len(lines) |-> Newest(d.cache[lines[i]]).header]
  BY DEF Ref
<1> HIDE DEF lines
<1> QED
  BY <1>4, <1>5, <1>6

\* generateBlock makes a block of the author and height it is called with.
LEMMA GenerateBlockType ==
  ASSUME NEW d, DagOK(d), NEW self \in Node,
         NEW height \in Nat, NEW round \in Nat, NEW old \in Nat
  PROVE  /\ GenerateBlock(d, self, height, round, old) \in Block
         /\ GenerateBlock(d, self, height, round, old).header.slot =
              [author |-> self, height |-> height]
<1> DEFINE ref == Ref(d, self, round)
<1>1. ref \in Seq(Header)
  BY RefType
<1> HIDE DEF ref
<1> QED
  BY <1>1 DEF GenerateBlock, Block, Header, Slot, ref

-----------------------------------------------------------------------------
\* handleCommitReq touches neither lines nor pulls, and what it submits is a slot
\* at a height that exists: it subtracts two from a height that is at least two.
LEMMA CommitReqOK ==
  ASSUME NEW d, DagOK(d), NEW req \in CommitReqs
  PROVE  LET r == CommitReq(d, req)
         IN  /\ DagOK(r.dag)
             /\ r.dag.cache = d.cache
             /\ r.dag.cacheMark = d.cacheMark
             /\ r.dag.pending = d.pending
             /\ r.submit \in Seq(SubmitReqs)
<1> DEFINE older  == {u \in d.uncommitted : u.round # req.round}
           newest == IF d.pendingCommit = Nil THEN req
                     ELSE IF d.pendingCommit.round < req.round THEN req
                     ELSE d.pendingCommit
           d1  == [d EXCEPT !.uncommitted = older \cup {req}, !.pendingCommit = newest]
           d2  == [d1 EXCEPT !.pendingCommit = Nil]
           at  == Certifying(d1, newest)
           top == CHOOSE i \in at : \A j \in at : j <= i
           line == d.cache[newest.leader]
           sub == [slot  |-> [author |-> newest.leader,
                              height |-> d1.cache[newest.leader][top].header.slot.height - 2],
                   round |-> newest.round]
           r == CommitReq(d, req)
<1>1. d \in Dags /\ Aligned(d)
  BY DEF DagOK
<1>2. newest \in CommitReqs
  BY <1>1, DagFields
<1>3. newest.leader \in Node /\ newest.round \in Nat
  <2> HIDE DEF newest
  <2> QED
    BY <1>2 DEF CommitReqs
<1>4. older \cup {req} \in SUBSET CommitReqs
  BY <1>1, DagFields
<1> HIDE DEF newest, older
<1>5. /\ d1 \in Dags
      /\ d1.cache = d.cache /\ d1.cacheMark = d.cacheMark /\ d1.pending = d.pending
  BY <1>1, <1>2, <1>4 DEF Dags
<1> HIDE DEF d1
<1>6. /\ d2 \in Dags
      /\ d2.cache = d.cache /\ d2.cacheMark = d.cacheMark /\ d2.pending = d.pending
  BY <1>5 DEF Dags
<1> HIDE DEF d2
<1>7. DagOK(d1) /\ DagOK(d2)
  BY <1>1, <1>5, <1>6 DEF DagOK, Aligned
<1>8. at # {} => sub \in SubmitReqs
  <2> SUFFICES ASSUME at # {} PROVE sub \in SubmitReqs
    OBVIOUS
  <2>1. line \in Line
    BY <1>1, <1>3, DagFields
  <2>2. Len(line) \in Nat
    BY <2>1 DEF Line
  <2>3. at \in SUBSET (1 .. Len(line))
    BY <1>5 DEF Certifying
  <2>4. at \in SUBSET Nat /\ \A x \in at : x <= Len(line)
    <3> HIDE DEF at, line
    <3> QED
      BY <2>2, <2>3
  <2>5. \E m \in at : \A x \in at : x <= m
    <3> HIDE DEF at, line
    <3> QED
      BY <2>2, <2>4, GreatestExists
  <2>6. top \in at
    <3> HIDE DEF at
    <3> QED
      BY <2>5
  <2> HIDE DEF top
  <2> DEFINE b == line[top]
  <2>7. top \in 1 .. Len(line) /\ b # Nil
        /\ b.header.slot.height - b.header.firstRefH >= 2
    BY <1>5, <2>6 DEF Certifying
  <2>8. b \in Block
    <3> HIDE DEF line
    <3> QED
      BY <2>1, <2>7 DEF Line
  <2>9. sub = [slot  |-> [author |-> newest.leader, height |-> b.header.slot.height - 2],
               round |-> newest.round]
    BY <1>5
  <2> HIDE DEF b, sub
  <2>10. b.header.slot.height \in Nat /\ b.header.firstRefH \in Nat
    BY <2>8 DEF Block, Header, Slot
  <2>11. b.header.slot.height - 2 \in Nat
    <3>1. \A x, y \in Nat : x - y >= 2 => x - 2 \in Nat
      OBVIOUS
    <3> QED
      BY <2>7, <2>10, <3>1, Zenon
  <2> QED
    BY <1>3, <2>9, <2>11 DEF SubmitReqs, Slot
<1>9. \/ r = [dag |-> d1, submit |-> <<>>]
      \/ r = [dag |-> d2, submit |-> <<>>]
      \/ at # {} /\ r = [dag |-> d1, submit |-> <<sub>>]
  BY DEF CommitReq, d1, d2, newest, older
<1> HIDE DEF at, sub, r, line, top
<1>10. /\ DagOK(r.dag)
       /\ r.dag.cache = d.cache
       /\ r.dag.cacheMark = d.cacheMark
       /\ r.dag.pending = d.pending
       /\ r.submit \in Seq(SubmitReqs)
  <2>1. CASE r = [dag |-> d1, submit |-> <<>>]
    BY <1>5, <1>7, <2>1
  <2>2. CASE r = [dag |-> d2, submit |-> <<>>]
    BY <1>6, <1>7, <2>2
  <2>3. CASE at # {} /\ r = [dag |-> d1, submit |-> <<sub>>]
    BY <1>5, <1>7, <1>8, <2>3
  <2> QED
    BY <1>9, <2>1, <2>2, <2>3
<1> QED
  BY <1>10, Zenon DEF r

-----------------------------------------------------------------------------
\* What the commitor pulled is in the cache, so each new watermark lies above the
\* old one and inside the line it will cut.
LEMMA WatermarkType ==
  ASSUME NEW d, DagOK(d), NEW pulled \in SUBSET Block,
         \A b \in pulled : Cached(d, b.header.slot)
  PROVE  LET wm == Watermark(pulled)
         IN  \A a \in DOMAIN wm :
               /\ a \in Node
               /\ wm[a] \in Nat
               /\ wm[a] - d.cacheMark[a] \in 1 .. Len(d.cache[a])
<1> DEFINE authors == {s.author : s \in SlotsOf(pulled)}
           wm == Watermark(pulled)
<1>1. ASSUME NEW a \in authors
      PROVE  /\ a \in Node
             /\ wm[a] \in Nat
             /\ wm[a] - d.cacheMark[a] \in 1 .. Len(d.cache[a])
  <2> DEFINE H == {s.height : s \in {t \in SlotsOf(pulled) : t.author = a}}
             Top(h) == \A s \in SlotsOf(pulled) : s.author = a => s.height <= h
             w == CHOOSE h \in H : Top(h)
  <2>1. \A s \in SlotsOf(pulled) : s \in Slot /\ Cached(d, s)
    BY BlockFields DEF SlotsOf
  <2>2. a \in Node /\ H # {}
    BY <2>1 DEF Slot
  <2>3. /\ d.cache[a] \in Line /\ Len(d.cache[a]) \in Nat
        /\ d.cacheMark[a] \in Nat \cup {-1}
    BY <2>2, DagFields DEF DagOK, Line
  <2>4. \A h \in H : h \in Nat /\ h - d.cacheMark[a] \in 1 .. Len(d.cache[a])
    BY <2>1 DEF Cached, Index, Slot
  <2> HIDE DEF H
  <2>5. \E m \in H : \A h \in H : h <= m
    <3> DEFINE top == d.cacheMark[a] + 1 + Len(d.cache[a])
    <3>1. top \in Nat /\ \A h \in H : h \in Nat /\ h <= top
      <4> DEFINE m == d.cacheMark[a]
                 n == Len(d.cache[a])
      <4>1. n \in Nat /\ m \in Nat \cup {-1} /\ top = m + 1 + n
            /\ \A h \in H : h \in Nat /\ h - m \in 1 .. n
        BY <2>3, <2>4
      <4> HIDE DEF m, n, top
      <4> QED
        BY <4>1
    <3> HIDE DEF top
    <3>2. H \in SUBSET Nat
      BY <3>1
    <3> QED
      BY <2>2, <3>1, <3>2, GreatestExists
  <2>6. \E m \in H : Top(m)
    BY <2>5 DEF H
  <2>7. w \in H
    <3> HIDE DEF Top
    <3> QED
      BY <2>6
  <2>8. wm[a] = w
    BY DEF Watermark, H
  <2> HIDE DEF w, wm
  <2> QED
    BY <2>2, <2>4, <2>7, <2>8
<1>2. DOMAIN wm = authors
  BY DEF Watermark
<1> HIDE DEF wm, authors
<1> QED
  BY <1>1, <1>2 DEF wm

\* handleCleanReq cuts a prefix off some lines and raises their watermark by its
\* length: blocks stay where their height says.
LEMMA CleanOK ==
  ASSUME NEW d, DagOK(d), d.pendingCommit # Nil, NEW wm,
         \A a \in DOMAIN wm : /\ a \in Node
                              /\ wm[a] \in Nat
                              /\ wm[a] - d.cacheMark[a] \in 1 .. Len(d.cache[a])
  PROVE  DagOK(Clean(d, wm))
<1> DEFINE e == Clean(d, wm)
<1>1. d \in Dags /\ Aligned(d)
  BY DEF DagOK
<1>2. /\ d.cache \in [Node -> Line]
      /\ d.cacheMark \in [Node -> Nat \cup {-1}]
      /\ d.uncommitted \in SUBSET CommitReqs
      /\ d.pendingCommit \in CommitReqs
      /\ d.pendingCommit.round \in Nat
  BY <1>1, DagFields DEF CommitReqs
<1> DEFINE cache == [a \in Node |->
             IF a \in DOMAIN wm
               THEN SubSeq(d.cache[a], wm[a] - d.cacheMark[a] + 1, Len(d.cache[a]))
               ELSE d.cache[a]]
           mark == [a \in Node |-> IF a \in DOMAIN wm THEN wm[a] ELSE d.cacheMark[a]]
<1>3. ASSUME NEW a \in Node
      PROVE  /\ cache[a] \in Line
             /\ mark[a] \in Nat \cup {-1}
             /\ cache[a] # <<>> => Newest(cache[a]) # Nil
             /\ \A i \in 1 .. Len(cache[a]) : cache[a][i] # Nil =>
                  cache[a][i].header.slot = [author |-> a, height |-> mark[a] + i]
  <2> DEFINE line == d.cache[a]
             k    == wm[a] - d.cacheMark[a]
             new  == SubSeq(line, k + 1, Len(line))
  <2>1. /\ line \in Line /\ Len(line) \in Nat /\ d.cacheMark[a] \in Int
        /\ line # <<>> => Newest(line) # Nil
        /\ \A i \in 1 .. Len(line) : line[i] # Nil =>
             line[i].header.slot = [author |-> a, height |-> d.cacheMark[a] + i]
    BY <1>1, <1>2 DEF Aligned, Line
  <2>2. CASE a \in DOMAIN wm
    <3>1. /\ cache[a] = new /\ mark[a] = wm[a]
          /\ wm[a] \in Nat /\ k \in 1 .. Len(line)
      BY <2>2
    <3>1b. wm[a] = d.cacheMark[a] + k
      <4> DEFINE m == d.cacheMark[a]
                 w == wm[a]
      <4>1. k = w - m /\ m \in Int /\ w \in Nat
        BY <2>1, <3>1
      <4> HIDE DEF k, m, w
      <4>2. w = m + k
        BY <4>1
      <4> QED
        BY <4>2 DEF m, w
    <3> HIDE DEF line, k, cache, mark
    <3>2. /\ new \in Line
          /\ Len(new) = Len(line) - k
          /\ \A i \in 1 .. Len(new) : new[i] = line[k + i]
      <4>1. k + 1 \in 1 .. Len(line) + 1 /\ k + 1 \in Nat
        BY <2>1, <3>1
      <4>2. Len(line) - (k + 1) + 1 = Len(line) - k /\ Len(line) - k \in Nat
        BY <2>1, <3>1
      <4>3. /\ new \in Line
            /\ Len(new) = IF k + 1 <= Len(line) THEN Len(line) - (k + 1) + 1 ELSE 0
            /\ \A i \in 1 .. Len(line) - (k + 1) + 1 : new[i] = line[(k + 1) + i - 1]
        BY <2>1, <4>1, SubSeqProperties, SMTT(30) DEF Line
      <4>4. Len(new) = Len(line) - k
        BY <2>1, <3>1, <4>3
      <4>5. \A i \in 1 .. Len(new) : (k + 1) + i - 1 = k + i
        BY <2>1, <3>1, <4>4
      <4> QED
        BY <4>2, <4>3, <4>4, <4>5
    <3> HIDE DEF new
    <3>3. ASSUME NEW i \in 1 .. Len(new), new[i] # Nil
          PROVE  new[i].header.slot = [author |-> a, height |-> wm[a] + i]
      <4>1. k + i \in 1 .. Len(line) /\ new[i] = line[k + i]
        BY <2>1, <3>1, <3>2
      <4>2. d.cacheMark[a] + (k + i) = wm[a] + i
        BY <2>1, <3>1, <3>1b, <3>2
      <4> QED
        BY <2>1, <3>3, <4>1, <4>2
    <3>4. ASSUME new # <<>>
          PROVE  Newest(new) # Nil
      <4>1. Len(new) \in Nat \ {0}
        BY <3>2, <3>4 DEF Line
      <4>2. new[Len(new)] = line[Len(line)]
        BY <2>1, <3>1, <3>2, <4>1
      <4>3. line # <<>>
        BY <2>1, <3>1
      <4> QED
        BY <2>1, <4>2, <4>3 DEF Newest
    <3> QED
      BY <3>1, <3>2, <3>3, <3>4
  <2>3. CASE a \notin DOMAIN wm
    <3>1. cache[a] = line /\ mark[a] = d.cacheMark[a]
      BY <2>3
    <3> HIDE DEF cache, mark
    <3> QED
      BY <1>2, <2>1, <3>1
  <2> QED
    BY <2>2, <2>3
<1>4. cache \in [Node -> Line] /\ mark \in [Node -> Nat \cup {-1}]
  <2>1. \A a \in Node : cache[a] \in Line /\ mark[a] \in Nat \cup {-1}
    BY <1>3
  <2> QED
    BY <2>1
<1>5. e = [d EXCEPT !.cache = cache, !.cacheMark = mark,
             !.commitMark = d.pendingCommit.round,
             !.uncommitted = {u \in d.uncommitted : u.round > d.pendingCommit.round},
             !.pending = {}]
  BY DEF Clean
<1> HIDE DEF cache, mark, e
<1>6. e \in Dags /\ e.cache = cache /\ e.cacheMark = mark
  BY <1>1, <1>2, <1>4, <1>5 DEF Dags, Line
<1>7. Aligned(e)
  BY <1>3, <1>6 DEF Aligned
<1> QED
  BY <1>6, <1>7 DEF DagOK, e

-----------------------------------------------------------------------------
\* One turn of commit2's loop keeps the types, and adds just the block at hand
\* to what was pulled.
LEMMA VisitType ==
  ASSUME NEW c \in Commitors, c.cur \in Block, c.q # <<>>, NEW U
  PROVE  /\ Visit(c, U) \in Commitors
         /\ Visit(c, U).pc = "pull"
         /\ Visit(c, U).pulled = c.pulled \cup {c.cur}
<1> DEFINE pulled == c.pulled \cup {c.cur}
           refs   == [i \in 1 .. Len(c.cur.ref) |-> c.cur.ref[i].slot]
           q      == Without(Tail(c.q) \o refs, SlotsOf(pulled))
           h      == c.cur.header
           as     == UpdateAnchor(c.anchors, U, h)
<1>1. /\ c.q \in Seq(Slot) /\ c.pulled \in SUBSET Block
      /\ c.anchors \in SUBSET SubmitReqs
  BY DEF Commitors
<1>2. refs \in Seq(Slot)
  <2>1. c.cur.ref \in Seq(Header)
    BY BlockFields
  <2>2. \A i \in 1 .. Len(c.cur.ref) : c.cur.ref[i].slot \in Slot
    <3> SUFFICES ASSUME NEW i \in 1 .. Len(c.cur.ref) PROVE c.cur.ref[i].slot \in Slot
      OBVIOUS
    <3>1. c.cur.ref[i] \in Header
      BY <2>1
    <3> QED
      BY <3>1 DEF Header
  <2> QED
    BY <2>1, <2>2
<1>3. Tail(c.q) \in Seq(Slot)
  BY <1>1
<1> HIDE DEF refs
<1>4. Tail(c.q) \o refs \in Seq(Slot)
  BY <1>2, <1>3
<1>5. q \in Seq(Slot)
  <2> DEFINE full == Tail(c.q) \o refs
             T    == SlotsOf(pulled)
  <2>1. full \in Seq(Slot)
    BY <1>4
  <2> HIDE DEF full, T
  <2>2. Without(full, T) \in Seq(Slot \ T)
    BY <2>1, WithoutType
  <2>3. Without(full, T) \in Seq(Slot)
    BY <2>2
  <2> QED
    BY <2>3 DEF full, T
<1>6. as \in SUBSET SubmitReqs
  <2>1. h.slot \in Slot /\ h.round \in Nat
    BY BlockFields DEF Header
  <2> HIDE DEF h
  <2>2. [slot |-> h.slot, round |-> h.round] \in SubmitReqs
    BY <2>1 DEF SubmitReqs
  <2> QED
    BY <1>1, <2>2 DEF UpdateAnchor
<1>7. Visit(c, U) = [pc |-> "pull", q |-> q, cur |-> Nil, pulled |-> pulled, anchors |-> as]
  BY DEF Visit, refs
<1>8. pulled \in SUBSET Block
  BY <1>1
<1> DEFINE v == [pc |-> "pull", q |-> q, cur |-> Nil, pulled |-> pulled, anchors |-> as]
<1> HIDE DEF q, as, pulled
<1>9. v \in Commitors
  BY <1>5, <1>6, <1>8 DEF Commitors
<1>10. v.pc = "pull" /\ v.pulled = pulled
  OBVIOUS
<1> HIDE DEF v
<1> QED
  BY <1>7, <1>9, <1>10 DEF v, pulled

\* A cached slot holds the block of that slot: what pullBlock is answered with.
LEMMA BlockAtSlot ==
  ASSUME NEW d, DagOK(d), NEW s \in Slot, Cached(d, s)
  PROVE  BlockAt(d, s) \in Block /\ BlockAt(d, s).header.slot = s
<1> DEFINE a == s.author
           i == Index(d, s)
<1>1. a \in Node /\ s.height \in Nat /\ s = [author |-> a, height |-> s.height]
  BY DEF Slot
<1>2. d.cache[a] \in Line /\ d.cacheMark[a] \in Nat \cup {-1}
  BY <1>1, DagFields DEF DagOK
<1>3. i \in 1 .. Len(d.cache[a]) /\ d.cache[a][i] # Nil /\ i = s.height - d.cacheMark[a]
  BY DEF Cached, Index
<1>4. BlockAt(d, s) = d.cache[a][i]
  BY DEF BlockAt
<1>5. d.cache[a][i].header.slot = [author |-> a, height |-> d.cacheMark[a] + i]
  BY <1>1, <1>3 DEF DagOK, Aligned
<1> HIDE DEF a, i
<1>6. d.cacheMark[a] + i = s.height
  BY <1>1, <1>2, <1>3
<1>7. d.cache[a][i] \in Block
  BY <1>2, <1>3 DEF Line
<1>8. d.cache[a][i].header.slot = s
  BY <1>1, <1>5, <1>6
<1> QED
  BY <1>4, <1>7, <1>8
=============================================================================
