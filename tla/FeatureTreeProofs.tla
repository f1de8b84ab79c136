-------------------------- MODULE FeatureTreeProofs --------------------------
(***************************************************************************)
(* Proofs about feature activation, for any features, criteria and         *)
(* evaluation interval that the settings allow, and any tree of blocks.    *)
(*                                                                         *)
(* The inductive invariant bounds the start of the evaluation interval a   *)
(* block is in.  It is a multiple of the length of an interval, and so are *)
(* the heights of the criteria: an interval that begins before one of them *)
(* also ends before it.                                                    *)
(***************************************************************************)
EXTENDS FeatureTree, SequenceTheorems, TLAPS

Blocks ==
    [parent : Nat, height : Nat, offset : 0 .. EvaluationInterval - 1,
     counts : [Bits -> Nat], states : [Features -> States]]

Base(b) == b.height - b.offset

\* What state s at a block of the interval that begins at height base says of that height.
Within(s, base, f) ==
    /\ s = "DEFINED" => base + EvaluationInterval <= Criteria[f].start
    /\ s = "STARTED" =>
           /\ base + EvaluationInterval <= Criteria[f].timeout
           /\ f \in LockInOnTimeout => base + 2 * EvaluationInterval <= Criteria[f].timeout
    /\ s = "MUST_SIGNAL" =>
           f \in LockInOnTimeout /\ base + EvaluationInterval = Criteria[f].timeout
    /\ s = "FAILED" => f \notin LockInOnTimeout

BlockInv(b) ==
    /\ b \in Blocks
    /\ IsBoundary(Base(b))
    /\ \A f \in Features : Within(b.states[f], Base(b), f) /\ IsSignaling(b, f)

Earned(parent, b) ==
    \A f \in Features :
        b.states[f] = "LOCKED_IN" /\ parent.states[f] # "LOCKED_IN"
            => parent.counts[Criteria[f].bit] >= Criteria[f].threshold

TreeInv ==
    /\ tree \in Seq(Blocks) /\ Len(tree) >= 1
    /\ \A i \in 1 .. Len(tree) : BlockInv(tree[i])
    /\ \A i \in 2 .. Len(tree) : tree[i].parent \in 1 .. i - 1
    /\ LockInIsEarned

-----------------------------------------------------------------------------
(* Multiples of the length of an interval *)

\* Two different multiples are at least an interval apart.
LEMMA Apart ==
    ASSUME NEW p \in Nat, NEW q \in Nat, NEW k \in Nat, p * k < q * k
    PROVE  p * k + k <= q * k
<1>1. p < q
  <2>1. SUFFICES ASSUME q <= p PROVE FALSE
    OBVIOUS
  <2>2. PICK d \in Nat : p = q + d
    <3>1. p - q \in Nat /\ p = q + (p - q)
      BY <2>1
    <3> QED
      BY <3>1
  <2>3. p * k = q * k + d * k /\ d * k >= 0
    BY <2>2
  <2> QED
    BY <2>3
<1>2. PICK d \in Nat : q = p + 1 + d
  <2>1. q - p - 1 \in Nat /\ q = p + 1 + (q - p - 1)
    BY <1>1
  <2> QED
    BY <2>1
<1>3. q * k = p * k + k + d * k /\ d * k >= 0
  BY <1>2
<1> QED
  BY <1>3

\* A boundary before another one is at least an interval before it.
LEMMA BoundariesApart ==
    ASSUME NEW g \in Nat, NEW h \in Nat, IsBoundary(g), IsBoundary(h), g < h
    PROVE  g + EvaluationInterval <= h
<1>1. PICK p \in 0 .. g : g = p * EvaluationInterval
  BY DEF IsBoundary
<1>2. PICK q \in 0 .. h : h = q * EvaluationInterval
  BY DEF IsBoundary
<1>3. EvaluationInterval \in Nat
  BY SettingsAssumption
<1> QED
  BY <1>1, <1>2, <1>3, Apart

\* The boundary after a boundary.
LEMMA NextBoundary ==
    ASSUME NEW h \in Nat, IsBoundary(h)
    PROVE  IsBoundary(h + EvaluationInterval)
<1>1. PICK n \in 0 .. h : h = n * EvaluationInterval
  BY DEF IsBoundary
<1>2. EvaluationInterval \in Nat /\ EvaluationInterval >= 1
  BY SettingsAssumption
<1>3. h + EvaluationInterval = (n + 1) * EvaluationInterval
  BY <1>1, <1>2
<1>4. n + 1 \in 0 .. h + EvaluationInterval
  BY <1>2
<1> QED
  BY <1>3, <1>4 DEF IsBoundary
-----------------------------------------------------------------------------
(* The blocks *)

\* What the settings say of a feature.
LEMMA CriteriaFacts ==
    ASSUME NEW f \in Features
    PROVE  /\ Criteria[f].bit \in Bits /\ Criteria[f].threshold \in Nat
           /\ Criteria[f].start \in Nat /\ Criteria[f].timeout \in Nat
           /\ Criteria[f].minActivation \in Nat
           /\ IsBoundary(Criteria[f].start) /\ IsBoundary(Criteria[f].timeout)
           /\ Criteria[f].timeout >= Criteria[f].start + 2 * EvaluationInterval
           /\ Criteria[f].threshold <= EvaluationInterval
           /\ Criteria[f].start > 0
<1>1. ValidCriteria(Criteria[f]) /\ Criteria[f].start # 0
  BY SettingsAssumption, StartAssumption
<1> QED
  BY <1>1 DEF ValidCriteria

LEMMA Interval == EvaluationInterval \in Nat /\ EvaluationInterval >= 1
BY SettingsAssumption

\* The counts of signals.
LEMMA CountsFacts ==
    ASSUME NEW previous \in [Bits -> Nat], NEW signals
    PROVE  /\ Counts(previous, signals) \in [Bits -> Nat]
           /\ \A i \in Bits \cap signals : Counts(previous, signals)[i] = previous[i] + 1
BY DEF Counts

\* The genesis block is before every start.
LEMMA GenesisIsGood == BlockInv(Genesis)
<1>1. Genesis \in Blocks
  BY Interval DEF Genesis, Blocks, States
<1>2. Base(Genesis) = 0
  BY DEF Base, Genesis
<1>3. IsBoundary(0)
  BY Interval DEF IsBoundary
<1>4. ASSUME NEW f \in Features
      PROVE  Within(Genesis.states[f], Base(Genesis), f) /\ IsSignaling(Genesis, f)
  <2>1. Genesis.states[f] = "DEFINED"
    BY DEF Genesis
  <2>2. EvaluationInterval <= Criteria[f].start
    BY <1>3, CriteriaFacts, BoundariesApart, Interval
  <2> QED
    BY <1>2, <2>1, <2>2, Interval DEF Within, IsSignaling
<1> QED
  BY <1>1, <1>2, <1>3, <1>4 DEF BlockInv

\* The new state at the boundary that follows the interval of the old one.
LEMMA NewStateIsWithin ==
    ASSUME NEW f \in Features, NEW base \in Nat, IsBoundary(base), NEW count \in Nat,
           NEW s \in States, Within(s, base, f)
    PROVE  LET h == base + EvaluationInterval
               new == CalculateNewState(f, h, count, s)
           IN  new \in States /\ Within(new, h, f)
<1> DEFINE h == base + EvaluationInterval
           new == CalculateNewState(f, h, count, s)
<1>1. h \in Nat /\ IsBoundary(h)
  BY NextBoundary, Interval
<1>2. h < Criteria[f].start => h + EvaluationInterval <= Criteria[f].start
  BY <1>1, CriteriaFacts, BoundariesApart
<1>3. h < Criteria[f].timeout => h + EvaluationInterval <= Criteria[f].timeout
  BY <1>1, CriteriaFacts, BoundariesApart
<1>4. h + EvaluationInterval < Criteria[f].timeout
          => h + 2 * EvaluationInterval <= Criteria[f].timeout
  <2>1. h + EvaluationInterval \in Nat /\ IsBoundary(h + EvaluationInterval)
    BY <1>1, NextBoundary, Interval
  <2> QED
    BY <1>1, <2>1, CriteriaFacts, BoundariesApart, Interval
<1>5. CASE s = "DEFINED"
  BY <1>1, <1>2, <1>5, CriteriaFacts, Interval DEF Within, CalculateNewState, States
<1>6. CASE s = "STARTED"
  BY <1>1, <1>3, <1>4, <1>6, CriteriaFacts, Interval DEF Within, CalculateNewState, States
<1>7. CASE s = "MUST_SIGNAL"
  BY <1>7 DEF Within, CalculateNewState, States
<1>8. CASE s = "LOCKED_IN"
  BY <1>8 DEF Within, CalculateNewState, States
<1>9. CASE s = "ACTIVE" \/ s = "FAILED"
  BY <1>9 DEF Within, CalculateNewState, States
<1> QED
  BY <1>5, <1>6, <1>7, <1>8, <1>9 DEF States

\* What a block is like on top of block p, at a boundary and elsewhere.
LEMMA ChildFacts ==
    ASSUME NEW p \in 1 .. Len(tree), NEW signals, BlockInv(tree[p])
    PROVE  LET b == tree[p]
               c == Child(p, signals)
           IN  /\ c \in [parent : {p}, height : {b.height + 1}, offset : 0 .. EvaluationInterval - 1,
                         counts : [Bits -> Nat], states : [Features -> States]]
               /\ IsBoundary(Base(c)) /\ Base(c) \in Nat
               /\ \A f \in Features : Within(c.states[f], Base(c), f)
               /\ \/ /\ b.offset + 1 = EvaluationInterval /\ c.offset = 0
                     /\ c.counts = Counts([i \in Bits |-> 0], signals)
                     /\ \A f \in Features : c.states[f] =
                            CalculateNewState(f, b.height + 1, b.counts[Criteria[f].bit], b.states[f])
                  \/ /\ c.offset = b.offset + 1 /\ c.states = b.states
                     /\ c.counts = Counts(b.counts, signals)
<1> DEFINE b == tree[p]
           c == Child(p, signals)
<1>1. /\ b.height \in Nat /\ b.offset \in 0 .. EvaluationInterval - 1
      /\ b.counts \in [Bits -> Nat] /\ b.states \in [Features -> States]
      /\ IsBoundary(Base(b)) /\ \A f \in Features : Within(b.states[f], Base(b), f)
  BY DEF BlockInv, Blocks
<1>2. Base(b) \in Nat /\ b.height = Base(b) + b.offset
  <2>1. Base(b) \in Int /\ b.height = Base(b) + b.offset
    BY <1>1, Interval DEF Base
  <2>2. PICK n \in 0 .. Base(b) : Base(b) = n * EvaluationInterval
    BY <1>1 DEF IsBoundary
  <2> QED
    BY <2>1, <2>2
<1>3. CASE b.offset + 1 = EvaluationInterval
  <2>1. c = [parent |-> p, height |-> b.height + 1, offset |-> 0,
             counts |-> Counts([i \in Bits |-> 0], signals),
             states |-> [f \in Features |->
                 CalculateNewState(f, b.height + 1, b.counts[Criteria[f].bit], b.states[f])]]
    BY <1>3 DEF Child
  <2>2. b.height + 1 = Base(b) + EvaluationInterval
    BY <1>1, <1>2, <1>3, Interval
  <2>3. Base(c) = Base(b) + EvaluationInterval
    BY <2>1, <2>2, <1>1, <1>2, Interval DEF Base
  <2>4. ASSUME NEW f \in Features
        PROVE  c.states[f] \in States /\ Within(c.states[f], Base(c), f)
    <3>1. b.counts[Criteria[f].bit] \in Nat /\ b.states[f] \in States
      BY <1>1, CriteriaFacts
    <3>2. c.states[f] = CalculateNewState(f, Base(b) + EvaluationInterval,
                                          b.counts[Criteria[f].bit], b.states[f])
      BY <2>1, <2>2
    <3> HIDE DEF b, c
    <3> QED
      BY <1>1, <1>2, <2>3, <3>1, <3>2, NewStateIsWithin
  <2>5. Counts([i \in Bits |-> 0], signals) \in [Bits -> Nat]
    BY CountsFacts
  <2>6. c.states \in [Features -> States]
    <3>1. c.states = [f \in Features |-> c.states[f]]
      BY <2>1
    <3> HIDE DEF c
    <3> QED
      BY <2>4, <3>1
  <2>7. IsBoundary(Base(c)) /\ Base(c) \in Nat
    BY <1>1, <1>2, <2>3, NextBoundary, Interval
  <2>8. /\ c.parent = p /\ c.height = b.height + 1 /\ c.offset = 0
        /\ c.counts = Counts([i \in Bits |-> 0], signals)
        /\ \A f \in Features : c.states[f] =
               CalculateNewState(f, b.height + 1, b.counts[Criteria[f].bit], b.states[f])
    BY <2>1
  <2>9. c \in [parent : {p}, height : {b.height + 1}, offset : 0 .. EvaluationInterval - 1,
               counts : [Bits -> Nat], states : [Features -> States]]
    BY <2>1, <2>5, <2>6, Interval
  <2> HIDE DEF b, c
  <2> QED
    BY <1>3, <2>4, <2>7, <2>8, <2>9, Zenon DEF b, c
<1>4. CASE b.offset + 1 # EvaluationInterval
  <2>1. c = [parent |-> p, height |-> b.height + 1, offset |-> b.offset + 1,
             counts |-> Counts(b.counts, signals), states |-> b.states]
    BY <1>4 DEF Child
  <2>2. Base(c) = Base(b) /\ b.offset + 1 \in 0 .. EvaluationInterval - 1
    <3>1. c.height = b.height + 1 /\ c.offset = b.offset + 1
      BY <2>1
    <3> HIDE DEF b, c
    <3> QED
      BY <3>1, <1>1, <1>4, Interval DEF Base
  <2>3. Counts(b.counts, signals) \in [Bits -> Nat]
    BY <1>1, CountsFacts
  <2>4. c.offset = b.offset + 1 /\ c.states = b.states /\ c.counts = Counts(b.counts, signals)
    BY <2>1
  <2>5. c \in [parent : {p}, height : {b.height + 1}, offset : 0 .. EvaluationInterval - 1,
               counts : [Bits -> Nat], states : [Features -> States]]
    BY <1>1, <2>1, <2>2, <2>3
  <2>6. /\ IsBoundary(Base(c)) /\ Base(c) \in Nat
        /\ \A f \in Features : Within(c.states[f], Base(c), f)
    <3> HIDE DEF b, c
    <3> QED
      BY <1>1, <1>2, <2>2, <2>4, Zenon
  <2> HIDE DEF b, c
  <2> QED
    BY <2>4, <2>5, <2>6, Zenon DEF b, c
<1> QED
  BY <1>3, <1>4

\* An accepted block is as good as its parent.
LEMMA ChildIsGood ==
    ASSUME NEW p \in 1 .. Len(tree), NEW signals, BlockInv(tree[p]),
           \A f \in Features : IsSignaling(Child(p, signals), f)
    PROVE  BlockInv(Child(p, signals)) /\ Child(p, signals).parent = p
<1> DEFINE c == Child(p, signals)
<1>1. /\ c \in [parent : {p}, height : {tree[p].height + 1}, offset : 0 .. EvaluationInterval - 1,
                counts : [Bits -> Nat], states : [Features -> States]]
      /\ IsBoundary(Base(c))
      /\ \A f \in Features : Within(c.states[f], Base(c), f)
  BY ChildFacts
<1>2. tree[p].height + 1 \in Nat /\ p \in Nat
  BY DEF BlockInv, Blocks
<1> HIDE DEF c
<1>3. c \in Blocks /\ c.parent = p
  BY <1>1, <1>2 DEF Blocks
<1> QED
  BY <1>1, <1>3 DEF BlockInv, c

\* A feature is locked in after an interval with enough signals.
LEMMA ChildIsEarned ==
    ASSUME NEW p \in 1 .. Len(tree), NEW signals, BlockInv(tree[p])
    PROVE  Earned(tree[p], Child(p, signals))
<1> DEFINE b == tree[p]
           c == Child(p, signals)
<1> SUFFICES ASSUME NEW f \in Features, c.states[f] = "LOCKED_IN", b.states[f] # "LOCKED_IN"
             PROVE  b.counts[Criteria[f].bit] >= Criteria[f].threshold
  BY DEF Earned
<1>1. /\ b.offset + 1 = EvaluationInterval
      /\ c.states[f] = CalculateNewState(f, b.height + 1, b.counts[Criteria[f].bit], b.states[f])
  BY ChildFacts
<1>2. /\ b.states[f] \in States /\ b.counts[Criteria[f].bit] \in Nat
      /\ b.offset \in 0 .. EvaluationInterval - 1 /\ IsSignaling(b, f)
  BY CriteriaFacts DEF BlockInv, Blocks
<1> HIDE DEF b, c
<1>3. b.states[f] = "STARTED" \/ b.states[f] = "MUST_SIGNAL"
  BY <1>1, <1>2 DEF CalculateNewState, States
<1>4. CASE b.states[f] = "STARTED"
  BY <1>1, <1>4 DEF CalculateNewState
<1>5. CASE b.states[f] = "MUST_SIGNAL"
  <2>1. Criteria[f].threshold - b.counts[Criteria[f].bit] <= EvaluationInterval - b.offset - 1
    BY <1>2, <1>5 DEF IsSignaling
  <2>2. Criteria[f].threshold \in Nat
    BY CriteriaFacts
  <2> QED
    BY <1>1, <1>2, <2>1, <2>2, Interval
<1> QED
  BY <1>3, <1>4, <1>5

-----------------------------------------------------------------------------
(* The tree *)

\* The inductive invariant holds for the genesis block alone.
LEMMA TreeInvInit == TreeInit => TreeInv
<1> SUFFICES ASSUME TreeInit PROVE TreeInv
  OBVIOUS
<1>1. tree = <<Genesis>> /\ Len(tree) = 1 /\ tree[1] = Genesis
  BY DEF TreeInit
<1>2. Genesis \in Blocks
  BY GenesisIsGood DEF BlockInv
<1>3. tree \in Seq(Blocks)
  BY <1>1, <1>2
<1>4. \A i \in 1 .. Len(tree) : BlockInv(tree[i])
  BY <1>1, GenesisIsGood
<1> HIDE DEF TreeInit
<1>5. LockInIsEarned /\ \A i \in 2 .. Len(tree) : tree[i].parent \in 1 .. i - 1
  BY <1>1 DEF LockInIsEarned
<1> QED
  BY <1>1, <1>3, <1>4, <1>5 DEF TreeInv

\* Every accepted block keeps it.
LEMMA TreeInvNext == TreeInv /\ [TreeNext]_tree => TreeInv'
<1> SUFFICES ASSUME TreeInv, [TreeNext]_tree PROVE TreeInv'
  OBVIOUS
<1>1. CASE UNCHANGED tree
  BY <1>1 DEF TreeInv, LockInIsEarned
<1>2. CASE TreeNext
  <2>1. PICK p \in 1 .. Len(tree), signals \in SUBSET Bits : AddBlock(p, signals)
    BY <1>2 DEF TreeNext
  <2> DEFINE c == Child(p, signals)
             n == Len(tree)
  <2>2. /\ n \in Nat /\ n >= 1 /\ tree \in Seq(Blocks) /\ BlockInv(tree[p])
        /\ \A i \in 1 .. n : BlockInv(tree[i])
    BY LenProperties DEF TreeInv
  <2>3. tree' = Append(tree, c) /\ \A f \in Features : IsSignaling(c, f)
    BY <2>1 DEF AddBlock
  <2>4. BlockInv(c) /\ c.parent = p /\ Earned(tree[p], c)
    BY <2>2, <2>3, ChildIsGood, ChildIsEarned
  <2>5. c \in Blocks
    BY <2>4 DEF BlockInv
  <2> HIDE DEF c
  <2>6. /\ tree' \in Seq(Blocks) /\ Len(tree') = n + 1
        /\ tree'[n + 1] = c /\ \A i \in 1 .. n : tree'[i] = tree[i]
    BY <2>2, <2>3, <2>5, AppendProperties
  <2>7. \A i \in 1 .. n + 1 : BlockInv(tree'[i])
    BY <2>2, <2>4, <2>6
  <2>8. \A i \in 2 .. n + 1 : tree'[i].parent \in 1 .. i - 1
    <3>1. \A i \in 2 .. n : tree[i].parent \in 1 .. i - 1
      BY DEF TreeInv
    <3> QED
      BY <2>2, <2>4, <2>6, <3>1
  <2>9. LockInIsEarned'
    <3> SUFFICES ASSUME NEW i \in 2 .. n + 1, NEW f \in Features,
                        tree'[i].states[f] = "LOCKED_IN",
                        tree'[tree'[i].parent].states[f] # "LOCKED_IN"
                 PROVE  tree'[tree'[i].parent].counts[Criteria[f].bit] >= Criteria[f].threshold
      BY <2>6 DEF LockInIsEarned
    <3>1. CASE i = n + 1
      <4>1. tree'[i].parent = p /\ tree'[p] = tree[p] /\ tree'[i] = c
        BY <2>4, <2>6, <3>1
      <4> QED
        BY <2>4, <4>1 DEF Earned
    <3>2. CASE i \in 2 .. n
      <4>1. tree'[i] = tree[i] /\ tree[i].parent \in 1 .. n
        BY <2>2, <2>6, <3>2 DEF TreeInv
      <4>2. tree'[tree[i].parent] = tree[tree[i].parent]
        BY <2>6, <4>1
      <4> QED
        BY <3>2, <4>1, <4>2 DEF TreeInv, LockInIsEarned
    <3> QED
      BY <2>2, <3>1, <3>2
  <2> QED
    BY <2>2, <2>6, <2>7, <2>8, <2>9 DEF TreeInv
<1> QED
  BY <1>1, <1>2

\* The inductive invariant is an invariant.
THEOREM TreeIsGood == TreeSpec => []TreeInv
BY TreeInvInit, TreeInvNext, PTL DEF TreeSpec

\* Whatever the criteria and the signals, the activation process of a feature is over at its
\* timeout on every chain, and a feature that is locked in on timeout never fails.
THEOREM ProcessesEnd == TreeSpec => []TimeoutDecides
<1>1. TreeInv => TimeoutDecides
  <2> SUFFICES ASSUME TreeInv, NEW i \in 1 .. Len(tree), NEW f \in Features,
                      tree[i].height >= Criteria[f].timeout
               PROVE  tree[i].states[f] \in {"LOCKED_IN", "ACTIVE"}
                          \cup (IF f \in LockInOnTimeout THEN {} ELSE {"FAILED"})
    BY DEF TimeoutDecides
  <2>1. /\ tree[i].height \in Nat /\ tree[i].offset \in 0 .. EvaluationInterval - 1
        /\ tree[i].states[f] \in States /\ Within(tree[i].states[f], Base(tree[i]), f)
    BY DEF TreeInv, BlockInv, Blocks
  <2>2. Base(tree[i]) + EvaluationInterval > Criteria[f].timeout
    BY <2>1, CriteriaFacts, Interval DEF Base
  <2>3. Base(tree[i]) \in Int
    BY <2>1, Interval DEF Base
  <2>4. tree[i].states[f] \notin {"DEFINED", "STARTED", "MUST_SIGNAL"}
    BY <2>1, <2>2, <2>3, CriteriaFacts, Interval DEF Within
  <2> QED
    BY <2>1, <2>4 DEF Within, States
<1> QED
  BY <1>1, TreeIsGood, PTL

\* No feature is ever locked in without an interval in which enough blocks have signaled.
THEOREM LockInsAreEarned == TreeSpec => []LockInIsEarned
<1>1. TreeInv => LockInIsEarned
  BY DEF TreeInv
<1> QED
  BY <1>1, TreeIsGood, PTL

\* Mandatory signaling never stops a chain: the block that signals every bit is acceptable.
THEOREM ChainsGrow == TreeSpec => []ChainsCanGrow
<1>1. TreeInv => ChainsCanGrow
  <2> SUFFICES ASSUME TreeInv, NEW p \in 1 .. Len(tree), NEW f \in Features
               PROVE  IsSignaling(Child(p, Bits), f)
    BY DEF ChainsCanGrow
  <2> DEFINE b == tree[p]
             c == Child(p, Bits)
             bit == Criteria[f].bit
  <2>1. BlockInv(b)
    BY DEF TreeInv
  <2>2. /\ b.counts \in [Bits -> Nat] /\ b.offset \in 0 .. EvaluationInterval - 1
        /\ IsSignaling(b, f)
    BY <2>1 DEF BlockInv, Blocks
  <2>3. bit \in Bits /\ Criteria[f].threshold \in Nat /\ Criteria[f].threshold <= EvaluationInterval
    BY CriteriaFacts
  <2>4. \/ c.offset = 0 /\ c.counts = Counts([i \in Bits |-> 0], Bits)
        \/ c.offset = b.offset + 1 /\ c.states = b.states /\ c.counts = Counts(b.counts, Bits)
    BY <2>1, ChildFacts
  <2> HIDE DEF b, c, bit
  <2>5. CASE c.offset = 0 /\ c.counts = Counts([i \in Bits |-> 0], Bits)
    <3>1. c.counts[bit] = 1
      BY <2>3, <2>5 DEF Counts
    <3> QED
      BY <2>3, <2>5, <3>1, Interval DEF IsSignaling, c, bit
  <2>6. CASE c.offset = b.offset + 1 /\ c.states = b.states /\ c.counts = Counts(b.counts, Bits)
    <3>1. c.counts[bit] = b.counts[bit] + 1 /\ b.counts[bit] \in Nat
      BY <2>2, <2>3, <2>6, CountsFacts
    <3>2. ASSUME b.states[f] = "MUST_SIGNAL"
          PROVE  Criteria[f].threshold - c.counts[bit] <= EvaluationInterval - c.offset - 1
      <4>1. Criteria[f].threshold - b.counts[bit] <= EvaluationInterval - b.offset - 1
        BY <2>2, <3>2 DEF IsSignaling, bit
      <4> QED
        BY <2>2, <2>3, <2>6, <3>1, <4>1, Interval
    <3> QED
      BY <2>6, <3>2 DEF IsSignaling, c, bit
  <2> QED
    BY <2>4, <2>5, <2>6 DEF c
<1> QED
  BY <1>1, TreeIsGood, PTL

=============================================================================
