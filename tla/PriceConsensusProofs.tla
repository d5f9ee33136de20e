------------------------ MODULE PriceConsensusProofs ------------------------
(* Theorems of PriceConsensus, for every value of its constants.           *)
EXTENDS PriceConsensus, FiniteSetTheorems, SequenceTheorems, TLAPS

-----------------------------------------------------------------------------
(* Least and greatest elements.                                            *)

\* A set of natural numbers that is not empty has a least element.
LEMMA LeastNatural ==
  ASSUME NEW T \in SUBSET Nat, T # {}
  PROVE  \E m \in T : \A x \in T : m <= x
<1>. DEFINE R == OpToRel(<, Nat)
<1>1. IsWellFoundedOn(R, Nat)
  BY NatLessThanWellFounded
<1>2. PICK m \in T : \A x \in T : ~ (<<x, m>> \in R)
  BY <1>1, WFMin
<1>3. \A x \in T : x < m => <<x, m>> \in R
  BY DEF OpToRel
<1>. HIDE DEF R
<1>4. \A x \in T : ~ (x < m)
  BY <1>2, <1>3
<1>. QED BY <1>4

\* A function to the natural numbers is least somewhere.
LEMMA LeastImage ==
  ASSUME NEW S, S # {}, NEW f \in [S -> Nat]
  PROVE  \E x \in S : \A y \in S : f[x] <= f[y]
<1>. DEFINE T == {f[x] : x \in S}
<1>1. T \in SUBSET Nat /\ T # {}
  OBVIOUS
<1>2. PICK m \in T : \A n \in T : m <= n
  BY <1>1, LeastNatural
<1>. QED BY <1>2

\* A subset that lacks an element is smaller.
LEMMA ProperSubset ==
  ASSUME NEW S, IsFiniteSet(S), NEW T \in SUBSET S, NEW x \in S, x \notin T
  PROVE  IsFiniteSet(T) /\ Cardinality(T) < Cardinality(S)
<1>1. /\ IsFiniteSet(T) /\ Cardinality(T) <= Cardinality(S)
      /\ Cardinality(S) = Cardinality(T) => S = T
  BY FS_Subset
<1>2. Cardinality(S) \in Nat /\ Cardinality(T) \in Nat
  BY <1>1, FS_CardinalityType
<1>. QED BY <1>1, <1>2

\* A finite set has an element where a function to the integers is greatest.
LEMMA GreatestImage ==
  ASSUME NEW S, IsFiniteSet(S), S # {}, NEW f \in [S -> Int]
  PROVE  \E x \in S : \A y \in S : f[y] <= f[x]
<1>. DEFINE above(x) == {y \in S : f[y] > f[x]}
            count == [x \in S |-> Cardinality(above(x))]
<1>1. \A x \in S : IsFiniteSet(above(x)) /\ Cardinality(above(x)) \in Nat
  <2>. SUFFICES ASSUME NEW x \in S
                PROVE  IsFiniteSet(above(x)) /\ Cardinality(above(x)) \in Nat
    OBVIOUS
  <2>1. above(x) \in SUBSET S
    OBVIOUS
  <2>. HIDE DEF above
  <2>. QED BY <2>1, FS_Subset, FS_CardinalityType
<1>2. count \in [S -> Nat]
  BY <1>1
<1>3. PICK x \in S : \A y \in S : count[x] <= count[y]
  <2>. HIDE DEF count
  <2>. QED BY <1>2, LeastImage
<1>4. ASSUME NEW y \in S, f[y] > f[x] PROVE FALSE
  <2>1. above(y) \in SUBSET above(x) /\ y \in above(x) /\ y \notin above(y)
    BY <1>4
  <2>. HIDE DEF above
  <2>2. Cardinality(above(y)) < Cardinality(above(x))
    BY <1>1, <2>1, ProperSubset
  <2>3. Cardinality(above(x)) <= Cardinality(above(y))
    BY <1>3
  <2>. QED BY <1>1, <2>2, <2>3
<1>. QED BY <1>4

-----------------------------------------------------------------------------
(* The order statistics that the median is made of.                        *)

\* Some feeds, all with a tick.
Ticking(feeds) ==
  /\ IsFiniteSet(feeds)
  /\ \A f \in feeds : last[f].value \in Nat

AtMost(feeds, p) == {f \in feeds : last[f].value <= p}
Below(feeds, p) == {f \in feeds : last[f].value < p}

LEMMA CountFacts ==
  ASSUME NEW feeds, Ticking(feeds), NEW p \in Nat
  PROVE  /\ IsFiniteSet(AtMost(feeds, p)) /\ Cardinality(AtMost(feeds, p)) \in Nat
         /\ IsFiniteSet(Below(feeds, p)) /\ Cardinality(Below(feeds, p)) \in Nat
         /\ Cardinality(feeds) \in Nat
<1>1. AtMost(feeds, p) \in SUBSET feeds /\ Below(feeds, p) \in SUBSET feeds
  BY DEF AtMost, Below
<1>2. IsFiniteSet(feeds)
  BY DEF Ticking
<1>. QED BY <1>1, <1>2, FS_Subset, FS_CardinalityType

\* For each k there is a k-th lowest price.
LEMMA NthExists ==
  ASSUME NEW feeds, Ticking(feeds), NEW k \in 1 .. Cardinality(feeds)
  PROVE  \E p \in {last[f].value : f \in feeds} :
           Cardinality(Below(feeds, p)) < k /\ Cardinality(AtMost(feeds, p)) >= k
<1>. DEFINE price(f) == last[f].value
            enough == {f \in feeds : Cardinality(AtMost(feeds, price(f))) >= k}
            price_ == [f \in feeds |-> price(f)]
<1>0. IsFiniteSet(feeds) /\ Cardinality(feeds) \in Nat /\ \A f \in feeds : price(f) \in Nat
  BY FS_CardinalityType DEF Ticking
<1>1. enough # {}
  <2>1. feeds # {}
    BY <1>0, FS_EmptySet
  <2>2. PICK top \in feeds : \A f \in feeds : price_[f] <= price_[top]
    <3>1. price_ \in [feeds -> Int]
      BY <1>0
    <3>. HIDE DEF price_
    <3>. QED BY <1>0, <2>1, <3>1, GreatestImage
  <2>3. AtMost(feeds, price(top)) = feeds
    BY <2>2 DEF AtMost
  <2>. QED BY <1>0, <2>3
<1>2. PICK f \in enough : \A g \in enough : price(f) <= price(g)
  <2>1. [g \in enough |-> price(g)] \in [enough -> Nat]
    BY <1>0
  <2>2. \E x \in enough : \A y \in enough :
          [g \in enough |-> price(g)][x] <= [g \in enough |-> price(g)][y]
    BY <1>1, <2>1, LeastImage
  <2>. QED BY <2>2
<1>3. ASSUME Cardinality(Below(feeds, price(f))) >= k PROVE FALSE
  <2>. DEFINE B == Below(feeds, price(f))
  <2>1. IsFiniteSet(B) /\ B \subseteq feeds /\ Cardinality(B) \in Nat /\ B # {}
    <3>1. IsFiniteSet(B) /\ Cardinality(B) \in Nat
      BY <1>0, CountFacts
    <3>. QED BY <1>3, <3>1, FS_EmptySet DEF Below
  <2>2. PICK top \in B : \A g \in B : price(g) <= price(top)
    <3>1. [g \in B |-> price(g)] \in [B -> Int]
      BY <1>0, <2>1
    <3>2. \E x \in B : \A y \in B : [g \in B |-> price(g)][y] <= [g \in B |-> price(g)][x]
      BY <2>1, <3>1, GreatestImage
    <3>. QED BY <3>2
  <2>3. B \in SUBSET AtMost(feeds, price(top)) /\ top \in feeds /\ price(top) < price(f)
    BY <2>2 DEF AtMost, Below
  <2>4. Cardinality(B) <= Cardinality(AtMost(feeds, price(top)))
    BY <1>0, <2>3, CountFacts, FS_Subset
  <2>5. top \in enough
    BY <1>0, <1>3, <2>1, <2>3, <2>4, CountFacts
  <2>. QED BY <1>0, <1>2, <2>3, <2>5
<1>4. Cardinality(Below(feeds, price(f))) < k
  BY <1>0, <1>3, CountFacts
<1>. QED BY <1>2, <1>4

\* Nth finds it.
LEMMA NthFacts ==
  ASSUME NEW feeds, Ticking(feeds), NEW k \in 1 .. Cardinality(feeds)
  PROVE  /\ Nth(feeds, k) \in Nat
         /\ Cardinality(Below(feeds, Nth(feeds, k))) < k
         /\ Cardinality(AtMost(feeds, Nth(feeds, k))) >= k
<1>. DEFINE prices == {last[f].value : f \in feeds}
            fits(p) == Cardinality(Below(feeds, p)) < k /\ Cardinality(AtMost(feeds, p)) >= k
<1>1. \E p \in prices : fits(p)
  BY NthExists
<1>2. Nth(feeds, k) = CHOOSE p \in prices : fits(p)
  BY DEF Nth, Below, AtMost
<1>3. prices \subseteq Nat
  BY DEF Ticking
<1>. HIDE DEF prices, fits
<1>4. Nth(feeds, k) \in prices /\ fits(Nth(feeds, k))
  BY <1>1, <1>2, Zenon
<1>. QED BY <1>3, <1>4 DEF fits

\* The two middle prices of a majority of feeds: twice the median is their
\* sum, and more than half of the feeds are no higher than it, and no lower.
LEMMA MedianFacts ==
  ASSUME NEW feeds, Ticking(feeds), feeds # {}
  PROVE  \E lo, hi \in Nat :
           /\ TwiceMedian(feeds) = lo + hi /\ lo <= hi
           /\ 2 * Cardinality(AtMost(feeds, lo)) >= Cardinality(feeds)
           /\ 2 * Cardinality(feeds \ Below(feeds, hi)) >= Cardinality(feeds)
<1>. DEFINE n == Cardinality(feeds)
            low == (n + 1) \div 2
            high == n \div 2 + 1
            lo == Nth(feeds, low)
            hi == Nth(feeds, high)
<1>1. IsFiniteSet(feeds) /\ n \in Nat \ {0}
  BY FS_EmptySet, FS_CardinalityType DEF Ticking
<1>2. low \in 1 .. n /\ high \in 1 .. n /\ low <= high /\ 2 * low >= n /\ 2 * high <= n + 2
  <2>. HIDE DEF n
  <2>. QED BY <1>1
<1>3. TwiceMedian(feeds) = lo + hi
  BY DEF TwiceMedian
<1>. HIDE DEF low, high
<1>4. /\ lo \in Nat /\ Cardinality(Below(feeds, lo)) < low
      /\ Cardinality(AtMost(feeds, lo)) >= low
  BY <1>2, NthFacts
<1>5. /\ hi \in Nat /\ Cardinality(Below(feeds, hi)) < high
      /\ Cardinality(AtMost(feeds, hi)) >= high
  BY <1>2, NthFacts
<1>. HIDE DEF n, lo, hi
<1>6. /\ IsFiniteSet(Below(feeds, lo)) /\ Cardinality(Below(feeds, lo)) \in Nat
      /\ IsFiniteSet(AtMost(feeds, lo)) /\ Cardinality(AtMost(feeds, lo)) \in Nat
      /\ IsFiniteSet(Below(feeds, hi)) /\ Cardinality(Below(feeds, hi)) \in Nat
      /\ IsFiniteSet(AtMost(feeds, hi)) /\ Cardinality(AtMost(feeds, hi)) \in Nat
  BY <1>4, <1>5, CountFacts
<1>7. lo <= hi
  <2>. SUFFICES ASSUME hi < lo PROVE FALSE
    BY <1>4, <1>5
  <2>1. AtMost(feeds, hi) \in SUBSET Below(feeds, lo)
    BY <1>4, <1>5 DEF AtMost, Below, Ticking
  <2>2. Cardinality(AtMost(feeds, hi)) <= Cardinality(Below(feeds, lo))
    BY <1>6, <2>1, FS_Subset
  <2>. QED BY <1>2, <1>4, <1>5, <1>6, <2>2
<1>8. 2 * Cardinality(AtMost(feeds, lo)) >= n
  BY <1>1, <1>2, <1>4, <1>6
<1>9. 2 * Cardinality(feeds \ Below(feeds, hi)) >= n
  <2>1. feeds \cap Below(feeds, hi) = Below(feeds, hi)
    BY DEF Below
  <2>2. Cardinality(feeds \ Below(feeds, hi)) = n - Cardinality(Below(feeds, hi))
    BY <1>1, <2>1, FS_Difference DEF n
  <2>. QED BY <1>1, <1>2, <1>5, <1>6, <2>2
<1>. QED BY <1>3, <1>4, <1>5, <1>7, <1>8, <1>9 DEF n

\* Half of a set of more than twice as many feeds as are corrupt holds an
\* honest feed.
LEMMA HonestWitness ==
  ASSUME NEW feeds \in SUBSET Feeds, NEW half \in SUBSET feeds,
         Cardinality(feeds) >= Quorum, 2 * Cardinality(half) >= Cardinality(feeds)
  PROVE  \E f \in half : f \in Honest
<1>1. IsFiniteSet(feeds) /\ IsFiniteSet(half) /\ IsFiniteSet(Corrupt)
  BY FeedsAssumption, FS_Subset DEF Feeds
<1>2. /\ Cardinality(feeds) \in Nat /\ Cardinality(half) \in Nat
      /\ Cardinality(Corrupt) \in Nat /\ Quorum \in Nat
  BY <1>1, FS_CardinalityType, ConsensusAssumption
<1>3. ASSUME half \in SUBSET Corrupt PROVE FALSE
  <2>1. Cardinality(half) <= Cardinality(Corrupt)
    BY <1>1, <1>3, FS_Subset
  <2>. QED BY <1>2, <2>1, FeedsAssumption
<1>. QED BY <1>3 DEF Feeds

-----------------------------------------------------------------------------
(* The inductive invariant.                                                *)

Samples == [ts : Nat, twice : Nat]

\* The last tick of an honest feed is the spot price of its moment.
HonestTicks ==
  \A f \in Honest : last[f] # None =>
    last[f].at \in 1 .. now /\ last[f].value = spots[last[f].at]

\* Samples are at least one moment apart.
Apart ==
  \A i, j \in DOMAIN history : i <= j => history[j].ts - history[i].ts >= j - i

\* The deque holds the newest of the samples taken: all of them until it is full.
KeepsNewest ==
  /\ taken \subseteq 1 .. now
  /\ \A i \in DOMAIN history : history[i].ts \in taken
  /\ \A t \in taken :
       \/ \E i \in DOMAIN history : history[i].ts = t
       \/ Len(history) = HistorySize /\ \A i \in DOMAIN history : t < history[i].ts

IInv ==
  /\ TypeOK /\ history \in Seq(Samples) /\ now > 0
  /\ HonestTicks /\ Apart /\ KeepsNewest /\ MinorityOutvoted

\* x lies between twice two of the prices sp[first], ..., sp[end].
Within(sp, x, first, end) ==
  \E s, t \in 1 .. Len(sp) :
    /\ first <= s /\ s <= end /\ first <= t /\ t <= end
    /\ 2 * sp[s] <= x /\ x <= 2 * sp[t]

LEMMA WithinSpots ==
  ASSUME NEW x, NEW first, NEW end
  PROVE  BetweenSpots(x, first, end) <=> Within(spots, x, first, end)
BY DEF BetweenSpots, Within, now

\* It still does when more prices follow, and in a wider range.
LEMMA WithinMore ==
  ASSUME NEW sp \in Seq(Prices), NEW sq \in Seq(Prices), Len(sp) <= Len(sq),
         \A t \in 1 .. Len(sp) : sq[t] = sp[t],
         NEW x, NEW a \in Int, NEW b \in Int, NEW a2 \in Int, NEW b2 \in Int,
         a2 <= a, b <= b2, Within(sp, x, a, b)
  PROVE  Within(sq, x, a2, b2)
<1>1. Len(sp) \in Nat /\ Len(sq) \in Nat
  OBVIOUS
<1>2. PICK s, t \in 1 .. Len(sp) :
        /\ a <= s /\ s <= b /\ a <= t /\ t <= b
        /\ 2 * sp[s] <= x /\ x <= 2 * sp[t]
  BY DEF Within
<1>3. s \in 1 .. Len(sq) /\ t \in 1 .. Len(sq) /\ sq[s] = sp[s] /\ sq[t] = sp[t]
  BY <1>1
<1>4. a2 <= s /\ s <= b2 /\ a2 <= t /\ t <= b2
  BY <1>1, <1>2
<1>. QED BY <1>2, <1>3, <1>4 DEF Within

\* What the bounded deque keeps: all but perhaps the first, and the new one.
LEMMA RecordedFacts ==
  ASSUME history \in Seq(Samples), Len(history) <= HistorySize, NEW sample \in Samples
  PROVE  LET h == Recorded(sample)
             d == Len(history) + 1 - Len(h)
         IN  /\ h \in Seq(Samples) /\ h # <<>> /\ Len(h) \in 1 .. HistorySize
             /\ d \in {0, 1}
             /\ d = 1 => Len(history) = HistorySize /\ Len(h) = HistorySize
             /\ h[Len(h)] = sample
             /\ \A i \in 1 .. Len(h) - 1 :
                  i + d \in 1 .. Len(history) /\ h[i] = history[i + d]
<1>. DEFINE all == Append(history, sample)
<1>0. HistorySize \in Nat \ {0} /\ Len(history) \in Nat
  BY ConsensusAssumption
<1>1. /\ all \in Seq(Samples) /\ all # <<>> /\ Len(all) = Len(history) + 1
      /\ \A i \in 1 .. Len(history) : all[i] = history[i]
      /\ all[Len(history) + 1] = sample
  BY AppendProperties
<1>. HIDE DEF all
<1>2. CASE Len(all) > HistorySize
  <2>1. Recorded(sample) = Tail(all)
    BY <1>2 DEF Recorded, all
  <2>2. /\ Tail(all) \in Seq(Samples) /\ Len(Tail(all)) = Len(all) - 1
        /\ \A i \in 1 .. Len(Tail(all)) : Tail(all)[i] = all[i + 1]
    BY <1>1, HeadTailProperties
  <2>3. Len(history) = HistorySize /\ Len(Tail(all)) = HistorySize
    BY <1>0, <1>1, <1>2, <2>2
  <2>. QED BY <1>0, <1>1, <2>1, <2>2, <2>3
<1>3. CASE ~(Len(all) > HistorySize)
  <2>1. Recorded(sample) = all
    BY <1>3 DEF Recorded, all
  <2>. QED BY <1>0, <1>1, <1>3, <2>1
<1>. QED BY <1>2, <1>3

LEMMA InitIInv == Init => IInv
<1>. SUFFICES ASSUME Init PROVE IInv
  OBVIOUS
<1>1. PICK price \in Prices : spots = <<price>>
  BY DEF Init
<1>2. spots \in Seq(Prices) /\ Len(spots) = 1
  BY <1>1
<1>3. history = <<>> /\ history \in Seq(Samples) /\ Len(history) = 0 /\ DOMAIN history = {}
  BY DEF Init
<1>4. last \in [Feeds -> Tick \cup {None}] /\ \A f \in Honest : last[f] = None
  BY DEF Init, Feeds
<1>5. TypeOK
  BY <1>2, <1>3, <1>4, ConsensusAssumption DEF Init, TypeOK
<1>6. HonestTicks /\ Apart /\ KeepsNewest /\ MinorityOutvoted
  BY <1>3, <1>4 DEF Init, HonestTicks, Apart, KeepsNewest, MinorityOutvoted
<1>. QED BY <1>2, <1>3, <1>5, <1>6 DEF IInv, now

-----------------------------------------------------------------------------
(* Each step keeps the invariant.                                          *)

\* Every price of the feeds is a natural number, and so is their number.
LEMMA WarmFacts ==
  ASSUME TypeOK
  PROVE  /\ Warm \in SUBSET Feeds /\ Ticking(Warm)
         /\ \A f \in Warm : last[f] \in Tick
         /\ now \in Nat
<1>1. Warm \in SUBSET Feeds
  BY DEF Warm
<1>2. IsFiniteSet(Warm)
  BY <1>1, FeedsAssumption, FS_Subset
<1>3. \A f \in Warm : last[f] \in Tick
  BY DEF Warm, TypeOK
<1>4. now \in Nat
  BY DEF now, TypeOK
<1>. QED BY <1>1, <1>2, <1>3, <1>4 DEF Ticking, Tick

\* A sample lies between two prices that honest feeds delivered while fresh.
LEMMA SampledWithin ==
  ASSUME TypeOK, HonestTicks, Cardinality(Warm) >= Quorum
  PROVE  /\ TwiceMedian(Warm) \in Nat
         /\ Within(spots, TwiceMedian(Warm), now - Freshness, now)
<1>1. /\ Warm \in SUBSET Feeds /\ Ticking(Warm) /\ now \in Nat
      /\ \A f \in Warm : last[f] \in Tick
  BY WarmFacts
<1>2. Warm # {}
  BY FS_EmptySet, ConsensusAssumption
<1>3. PICK lo, hi \in Nat :
        /\ TwiceMedian(Warm) = lo + hi /\ lo <= hi
        /\ 2 * Cardinality(AtMost(Warm, lo)) >= Cardinality(Warm)
        /\ 2 * Cardinality(Warm \ Below(Warm, hi)) >= Cardinality(Warm)
  BY <1>1, <1>2, MedianFacts
<1>4. PICK f \in AtMost(Warm, lo) : f \in Honest
  <2>1. AtMost(Warm, lo) \in SUBSET Warm
    BY DEF AtMost
  <2>. QED BY <1>1, <1>3, <2>1, HonestWitness
<1>5. PICK g \in Warm \ Below(Warm, hi) : g \in Honest
  <2>1. Warm \ Below(Warm, hi) \in SUBSET Warm
    OBVIOUS
  <2>. QED BY <1>1, <1>3, <2>1, HonestWitness
<1>6. \A h \in Warm : h \in Honest =>
        /\ last[h].at \in 1 .. now /\ last[h].value = spots[last[h].at]
        /\ now - last[h].at <= Freshness
  BY DEF Warm, HonestTicks
<1>7. last[f].value <= lo /\ f \in Warm
  BY <1>4 DEF AtMost
<1>8. last[g].value >= hi /\ g \in Warm
  BY <1>1, <1>3, <1>5 DEF Below, Tick
<1>9. last[f].value \in Nat /\ last[g].value \in Nat
  BY <1>1, <1>7, <1>8 DEF Tick
<1>. DEFINE s == last[f].at  t == last[g].at
<1>10. /\ s \in 1 .. now /\ now - Freshness <= s /\ spots[s] = last[f].value
       /\ t \in 1 .. now /\ now - Freshness <= t /\ spots[t] = last[g].value
  BY <1>1, <1>4, <1>5, <1>6, <1>7, <1>8, ConsensusAssumption
<1>11. 2 * spots[s] <= lo + hi /\ lo + hi <= 2 * spots[t]
  BY <1>3, <1>7, <1>8, <1>9, <1>10
<1>. QED BY <1>1, <1>3, <1>10, <1>11 DEF Within, now

\* A tick that an honest feed delivers is the spot price.
LEMMA DeliverStep ==
  ASSUME IInv, NEW f \in Feeds, NEW value \in Nat,
         f \in Honest => value = spots[now], Deliver(f, value)
  PROVE  IInv'
<1>. TypeOK /\ HonestTicks
  BY DEF IInv
<1>1. /\ spots' = spots /\ history' = history /\ taken' = taken /\ sampler' = sampler
      /\ last' = [last EXCEPT ![f] = [value |-> value, at |-> now]]
  BY DEF Deliver
<1>2. now' = now /\ now \in Nat /\ now > 0
  BY <1>1 DEF TypeOK, now, IInv
<1>3. [value |-> value, at |-> now] \in Tick
  BY <1>2 DEF Tick
<1>4. last' \in [Feeds -> Tick \cup {None}]
  BY <1>1, <1>3 DEF TypeOK
<1>5. TypeOK'
  BY <1>1, <1>2, <1>4 DEF TypeOK
<1>6. HonestTicks'
  <2>. SUFFICES ASSUME NEW g \in Honest, last'[g] # None
                PROVE  last'[g].at \in 1 .. now' /\ last'[g].value = spots'[last'[g].at]
    BY DEF HonestTicks
  <2>1. g \in Feeds
    BY DEF Feeds
  <2>2. CASE g = f
    <3>1. last'[g] = [value |-> value, at |-> now] /\ value = spots[now]
      BY <1>1, <2>1, <2>2 DEF TypeOK
    <3>. QED BY <1>1, <1>2, <3>1
  <2>3. CASE g # f
    BY <1>1, <1>2, <2>1, <2>3 DEF TypeOK, HonestTicks
  <2>. QED BY <2>2, <2>3
<1>7. Apart' /\ KeepsNewest' /\ MinorityOutvoted'
  BY <1>1, <1>2 DEF IInv, Apart, KeepsNewest, MinorityOutvoted, BetweenSpots
<1>. QED BY <1>1, <1>2, <1>5, <1>6, <1>7 DEF IInv

\* The past prices stay what they were.
LEMMA AdvanceStep ==
  ASSUME IInv, NEW price \in Prices, Advance(price)
  PROVE  IInv'
<1>. TypeOK /\ HonestTicks
  BY DEF IInv
<1>1. /\ last' = last /\ history' = history /\ taken' = taken /\ sampler' = sampler
      /\ spots' = Append(spots, price)
  BY DEF Advance
<1>2. /\ spots' \in Seq(Prices) /\ now' = now + 1 /\ now \in Nat /\ now > 0
      /\ \A t \in 1 .. now : spots'[t] = spots[t]
  BY <1>1, AppendProperties DEF TypeOK, now, IInv
<1>3. TypeOK'
  BY <1>1, <1>2 DEF TypeOK
<1>4. HonestTicks'
  <2>. SUFFICES ASSUME NEW f \in Honest, last[f] # None
                PROVE  last[f].at \in 1 .. now' /\ last[f].value = spots'[last[f].at]
    BY <1>1 DEF HonestTicks
  <2>1. last[f].at \in 1 .. now /\ last[f].value = spots[last[f].at]
    BY DEF HonestTicks
  <2>. QED BY <1>2, <2>1
<1>5. Apart' /\ KeepsNewest'
  BY <1>1, <1>2 DEF IInv, Apart, KeepsNewest
<1>6. MinorityOutvoted'
  <2>0. spots \in Seq(Prices) /\ Len(spots) <= Len(spots')
    BY <1>2 DEF TypeOK, now
  <2>. SUFFICES ASSUME NEW i \in DOMAIN history
                PROVE  BetweenSpots(history[i].twice, history[i].ts - Freshness, history[i].ts)'
    BY <1>1 DEF MinorityOutvoted
  <2>. DEFINE ts == history[i].ts  x == history[i].twice
  <2>1. BetweenSpots(x, ts - Freshness, ts)
    BY DEF IInv, MinorityOutvoted
  <2>2. ts \in Int /\ ts - Freshness \in Int
    <3>1. ts \in 1 .. now
      BY DEF TypeOK
    <3>. QED BY <1>2, <3>1, ConsensusAssumption
  <2>3. ts' = ts /\ x' = x
    BY <1>1
  <2>. HIDE DEF ts, x
  <2>4. Within(spots, x, ts - Freshness, ts)
    BY <2>1, WithinSpots
  <2>5. Within(spots', x, ts - Freshness, ts)
    <3>1. \A t \in 1 .. Len(spots) : spots'[t] = spots[t]
      BY <1>2 DEF now
    <3>2. ts - Freshness <= ts - Freshness /\ ts <= ts
      BY <2>2
    <3>. QED BY <1>2, <2>0, <2>2, <2>4, <3>1, <3>2, WithinMore
  <2>6. BetweenSpots(x, ts - Freshness, ts)'
    BY <2>3, <2>5 DEF BetweenSpots, Within, now
  <2>. QED BY <2>6 DEF ts, x
<1>. QED BY <1>1, <1>2, <1>3, <1>4, <1>5, <1>6 DEF IInv

\* A new sample is later than every other, and the deque forgets its oldest
\* only when it is full.
LEMMA SampleStep ==
  ASSUME IInv, Sample
  PROVE  IInv'
<1>. TypeOK /\ HonestTicks
  BY DEF IInv
<1>. DEFINE new == [ts |-> now, twice |-> TwiceMedian(Warm)]
            d == Len(history) + 1 - Len(history')
            n == Len(history')
<1>1. /\ spots' = spots /\ last' = last /\ sampler' = sampler /\ now \notin taken
      /\ taken' = taken \cup {now} /\ history' = Recorded(new)
      /\ Cardinality(Warm) >= Quorum /\ TwiceMedian(Warm) > 0
  BY DEF Sample
<1>2. now' = now /\ now \in Nat /\ now > 0
  BY <1>1 DEF TypeOK, now, IInv
<1>3. /\ TwiceMedian(Warm) \in Nat
      /\ Within(spots, TwiceMedian(Warm), now - Freshness, now)
  BY <1>1, SampledWithin
<1>4. new \in Samples
  BY <1>2, <1>3 DEF Samples
<1>5. /\ history' \in Seq(Samples) /\ n \in 1 .. HistorySize /\ d \in {0, 1}
      /\ d = 1 => Len(history) = HistorySize /\ n = HistorySize
      /\ history'[n] = new
      /\ \A i \in 1 .. n - 1 : i + d \in 1 .. Len(history) /\ history'[i] = history[i + d]
  <2>1. history \in Seq(Samples) /\ Len(history) <= HistorySize
    BY DEF IInv, TypeOK
  <2>. HIDE DEF new
  <2>. QED BY <1>1, <1>4, <2>1, RecordedFacts
<1>6. /\ Len(history) = n + d - 1 /\ n \in Nat \ {0} /\ Len(history) \in Nat
      /\ DOMAIN history' = 1 .. n /\ DOMAIN history = 1 .. Len(history)
      /\ HistorySize \in Nat
  BY <1>5, ConsensusAssumption DEF IInv
<1>. HIDE DEF n, d, new
<1>7. history'[n].ts = now /\ history'[n].twice = TwiceMedian(Warm)
  BY <1>5 DEF new
<1>8. \A i \in 1 .. Len(history) : /\ history[i].ts \in 1 .. now - 1
                                  /\ history[i].twice \in Nat \ {0}
  <2>. SUFFICES ASSUME NEW i \in 1 .. Len(history)
                PROVE  history[i].ts \in 1 .. now - 1 /\ history[i].twice \in Nat \ {0}
    OBVIOUS
  <2>1. history[i].ts \in 1 .. now /\ history[i].twice \in Nat \ {0}
    BY <1>6 DEF TypeOK
  <2>2. history[i].ts # now
    BY <1>1, <1>6 DEF IInv, KeepsNewest
  <2>. QED BY <1>2, <2>1, <2>2
<1>9. \A i, j \in 1 .. Len(history) : i <= j => history[j].ts - history[i].ts >= j - i
  BY <1>6 DEF IInv, Apart
<1>10. Apart'
  <2>. SUFFICES ASSUME NEW i \in 1 .. n, NEW j \in 1 .. n, i <= j
                PROVE  history'[j].ts - history'[i].ts >= j - i
    BY <1>6 DEF Apart
  <2>1. CASE j < n
    <3>1. /\ i + d \in 1 .. Len(history) /\ history'[i] = history[i + d]
          /\ j + d \in 1 .. Len(history) /\ history'[j] = history[j + d]
      BY <1>5, <1>6, <2>1
    <3>2. history[j + d].ts - history[i + d].ts >= (j + d) - (i + d)
      BY <1>5, <1>9, <3>1
    <3>. QED BY <1>5, <1>6, <3>1, <3>2
  <2>2. CASE i = n
    BY <1>2, <1>6, <1>7, <2>2
  <2>3. CASE i < n /\ j = n
    <3>1. i + d \in 1 .. Len(history) /\ history'[i] = history[i + d]
      BY <1>5, <1>6, <2>3
    <3>2. history[Len(history)].ts - history[i + d].ts >= Len(history) - (i + d)
      BY <1>6, <1>9, <3>1
    <3>3. history[Len(history)].ts \in 1 .. now - 1 /\ history[i + d].ts \in 1 .. now - 1
      BY <1>6, <1>8, <3>1
    <3>4. Len(history) - (i + d) = n - 1 - i
      BY <1>5, <1>6, <3>1
    <3>5. history[Len(history)].ts \in Int /\ history[i + d].ts \in Int
      BY <1>2, <3>3
    <3>6. history[Len(history)].ts <= now - 1
      BY <1>2, <3>3
    <3>7. now - history[i + d].ts >= n - i
      BY <1>2, <1>6, <3>2, <3>4, <3>5, <3>6
    <3>. QED BY <1>7, <2>3, <3>1, <3>7
  <2>. QED BY <1>6, <2>1, <2>2, <2>3
<1>11. TypeOK'
  <2>1. \A i \in 1 .. n : history'[i].ts \in 1 .. now /\ history'[i].twice \in Nat \ {0}
    <3>. SUFFICES ASSUME NEW i \in 1 .. n
                  PROVE  history'[i].ts \in 1 .. now /\ history'[i].twice \in Nat \ {0}
      OBVIOUS
    <3>1. CASE i = n
      BY <1>1, <1>2, <1>3, <1>7, <3>1
    <3>2. CASE i < n
      BY <1>2, <1>5, <1>6, <1>8, <3>2
    <3>. QED BY <1>6, <3>1, <3>2
  <2>2. \A i \in 2 .. n : history'[i - 1].ts < history'[i].ts
    <3>. SUFFICES ASSUME NEW i \in 2 .. n PROVE history'[i - 1].ts < history'[i].ts
      OBVIOUS
    <3>1. history'[i].ts - history'[i - 1].ts >= i - (i - 1)
      BY <1>6, <1>10 DEF Apart
    <3>2. history'[i].ts \in 1 .. now /\ history'[i - 1].ts \in 1 .. now
      BY <1>6, <2>1
    <3>. QED BY <1>2, <3>1, <3>2
  <2>3. spots' \in Seq(Prices) /\ sampler' \in {"new", "on", "off"} /\ last' \in [Feeds -> Tick \cup {None}]
    BY <1>1 DEF TypeOK
  <2>4. \A i \in DOMAIN history' : history'[i].ts \in 1 .. now' /\ history'[i].twice \in Nat \ {0}
    BY <1>2, <1>6, <2>1
  <2>5. Len(history') <= HistorySize
    <3>1. n <= HistorySize
      BY <1>5, <1>6
    <3>. QED BY <3>1 DEF n
  <2>6. \A i \in 2 .. Len(history') : history'[i - 1].ts < history'[i].ts
    BY <2>2 DEF n
  <2>. QED BY <2>3, <2>4, <2>5, <2>6 DEF TypeOK
<1>12. KeepsNewest'
  <2>1. taken' \subseteq 1 .. now'
    BY <1>1, <1>2 DEF IInv, KeepsNewest
  <2>2. \A i \in 1 .. n : history'[i].ts \in taken'
    <3>. SUFFICES ASSUME NEW i \in 1 .. n PROVE history'[i].ts \in taken'
      OBVIOUS
    <3>1. CASE i = n
      BY <1>1, <1>7, <3>1
    <3>2. CASE i < n
      <4>1. i + d \in DOMAIN history /\ history'[i] = history[i + d]
        BY <1>5, <1>6, <3>2
      <4>2. history[i + d].ts \in taken
        BY <4>1 DEF IInv, KeepsNewest
      <4>. QED BY <1>1, <4>1, <4>2
    <3>. QED BY <1>6, <3>1, <3>2
  <2>3. ASSUME NEW t \in taken'
        PROVE  \/ \E i \in 1 .. n : history'[i].ts = t
               \/ n = HistorySize /\ \A i \in 1 .. n : t < history'[i].ts
    <3>1. CASE t = now
      <4>1. n \in 1 .. n
        BY <1>6
      <4>. QED BY <1>7, <3>1, <4>1
    <3>2. CASE t \in taken /\ \E i \in 1 .. Len(history) : history[i].ts = t
      <4>1. PICK i \in 1 .. Len(history) : history[i].ts = t
        BY <3>2
      <4>2. CASE i - d \in 1 .. n - 1
        <5>1. (i - d) + d = i
          BY <1>5, <1>6
        <5>2. history'[i - d] = history[(i - d) + d]
          BY <1>5, <4>2
        <5>3. i - d \in 1 .. n
          BY <1>6, <4>2
        <5>. QED BY <4>1, <5>1, <5>2, <5>3
      <4>3. CASE i - d \notin 1 .. n - 1
        <5>1. d = 1 /\ i = 1
          BY <1>5, <1>6, <4>3
        <5>2. \A j \in 1 .. n : t < history'[j].ts
          <6>. SUFFICES ASSUME NEW j \in 1 .. n PROVE t < history'[j].ts
            OBVIOUS
          <6>1. CASE j = n
            BY <1>2, <1>7, <1>8, <4>1, <6>1
          <6>2. CASE j < n
            <7>1. j + 1 \in 1 .. Len(history) /\ history'[j] = history[j + 1]
              BY <1>5, <1>6, <5>1, <6>2
            <7>2. history[j + 1].ts - history[1].ts >= (j + 1) - 1
              BY <1>6, <1>9, <7>1
            <7>3. history[j + 1].ts \in Nat /\ history[1].ts \in Nat
              BY <1>2, <1>6, <1>8, <7>1
            <7>. QED BY <1>6, <4>1, <5>1, <7>1, <7>2, <7>3
          <6>. QED BY <1>6, <6>1, <6>2
        <5>. QED BY <1>5, <5>1, <5>2
      <4>. QED BY <4>2, <4>3
    <3>3. CASE t \in taken /\ ~ \E i \in 1 .. Len(history) : history[i].ts = t
      <4>1. Len(history) = HistorySize /\ \A i \in 1 .. Len(history) : t < history[i].ts
        BY <1>6, <3>3 DEF IInv, KeepsNewest
      <4>2. n = HistorySize
        BY <1>5, <1>6, <4>1
      <4>3. t < now
        BY <1>1, <1>2, <3>3 DEF IInv, KeepsNewest
      <4>4. \A i \in 1 .. n : t < history'[i].ts
        <5>. SUFFICES ASSUME NEW i \in 1 .. n PROVE t < history'[i].ts
          OBVIOUS
        <5>1. CASE i = n
          BY <1>7, <4>3, <5>1
        <5>2. CASE i < n
          BY <1>5, <1>6, <4>1, <5>2
        <5>. QED BY <1>6, <5>1, <5>2
      <4>. QED BY <4>2, <4>4
    <3>. QED BY <1>1, <3>1, <3>2, <3>3
  <2>. QED BY <1>6, <2>1, <2>2, <2>3 DEF KeepsNewest, n
<1>13. MinorityOutvoted'
  <2>. SUFFICES ASSUME NEW i \in 1 .. n
                PROVE  Within(spots, history'[i].twice, history'[i].ts - Freshness, history'[i].ts)
    BY <1>1, <1>6 DEF MinorityOutvoted, BetweenSpots, Within, now
  <2>1. CASE i = n
    BY <1>3, <1>7, <2>1
  <2>2. CASE i < n
    <3>1. i + d \in DOMAIN history /\ history'[i] = history[i + d]
      BY <1>5, <1>6, <2>2
    <3>2. BetweenSpots(history[i + d].twice, history[i + d].ts - Freshness, history[i + d].ts)
      BY <3>1 DEF IInv, MinorityOutvoted
    <3>. QED BY <3>1, <3>2, WithinSpots
  <2>. QED BY <1>6, <2>1, <2>2
<1>. QED
  BY <1>1, <1>2, <1>5, <1>10, <1>11, <1>12, <1>13 DEF IInv, HonestTicks, now

LEMMA StepIInv == IInv /\ [Next]_vars => IInv'
<1>. SUFFICES ASSUME IInv, [Next]_vars PROVE IInv'
  OBVIOUS
<1>1. CASE Start \/ Stop
  <2>1. /\ spots' = spots /\ last' = last /\ history' = history /\ taken' = taken
        /\ sampler' \in {"on", "off"}
    BY <1>1 DEF Start, Stop
  <2>2. TypeOK' /\ now' = now
    BY <2>1 DEF IInv, TypeOK, now
  <2>3. HonestTicks' /\ Apart' /\ KeepsNewest' /\ MinorityOutvoted'
    BY <2>1, <2>2 DEF IInv, HonestTicks, Apart, KeepsNewest, MinorityOutvoted, BetweenSpots
  <2>. QED BY <2>1, <2>2, <2>3 DEF IInv
<1>2. CASE \E price \in Prices : Advance(price)
  BY <1>2, AdvanceStep
<1>3. CASE \E f \in Honest : Deliver(f, spots[now])
  <2>1. PICK f \in Honest : Deliver(f, spots[now])
    BY <1>3
  <2>2. spots[now] \in Nat
    <3>1. spots \in Seq(Prices) /\ now \in 1 .. Len(spots)
      BY DEF IInv, TypeOK, now
    <3>2. spots[now] \in Prices
      <4>. HIDE DEF now
      <4>. QED BY <3>1
    <3>. QED BY <3>2, ConsensusAssumption
  <2>. QED BY <2>1, <2>2, DeliverStep DEF Feeds
<1>4. CASE \E f \in Corrupt, value \in WrongPrices : Deliver(f, value)
  <2>1. PICK f \in Corrupt, value \in WrongPrices : Deliver(f, value)
    BY <1>4
  <2>2. f \in Feeds /\ f \notin Honest /\ value \in Nat
    BY <2>1, FeedsAssumption, ConsensusAssumption DEF Feeds
  <2>. QED BY <2>1, <2>2, DeliverStep
<1>5. CASE Sample
  BY <1>5, SampleStep
<1>6. CASE UNCHANGED vars
  <2>1. /\ spots' = spots /\ last' = last /\ history' = history /\ taken' = taken
        /\ sampler' = sampler
    BY <1>6 DEF vars
  <2>2. TypeOK' /\ now' = now
    BY <2>1 DEF IInv, TypeOK, now
  <2>3. HonestTicks' /\ Apart' /\ KeepsNewest' /\ MinorityOutvoted'
    BY <2>1, <2>2 DEF IInv, HonestTicks, Apart, KeepsNewest, MinorityOutvoted, BetweenSpots
  <2>. QED BY <2>1, <2>2, <2>3 DEF IInv
<1>. QED BY <1>1, <1>2, <1>3, <1>4, <1>5, <1>6 DEF Next

\* The invariant holds of every behaviour.
THEOREM Invariance == Spec => []IInv
<1>1. Init => IInv
  BY InitIInv
<1>2. IInv /\ [Next]_vars => IInv'
  BY StepIInv
<1>. QED BY <1>1, <1>2, PTL DEF Spec

\* Types; the samples of the bounded deque are always in the order of time.
THEOREM TypeCorrect == Spec => []TypeOK
<1>1. IInv => TypeOK
  BY DEF IInv
<1>. QED BY <1>1, Invariance, PTL

\* A minority of wrong feeds moves no sample out of the range of the prices
\* that the honest feeds delivered while they were fresh.
THEOREM MinorityIsOutvoted == Spec => []MinorityOutvoted
<1>1. IInv => MinorityOutvoted
  BY DEF IInv
<1>. QED BY <1>1, Invariance, PTL

-----------------------------------------------------------------------------
(* The binary search.                                                      *)

\* The history, when there is one, as the search sees it.
LEMMA HistoryFacts ==
  ASSUME IInv, history # <<>>
  PROVE  /\ Len(history) \in Nat \ {0} /\ DOMAIN history = 1 .. Len(history)
         /\ \A i \in DOMAIN history :
              history[i].ts \in Int /\ history[i].ts \in 1 .. now /\ history[i].twice \in Nat \ {0}
         /\ \A i, j \in DOMAIN history :
              i <= j => history[j].ts - history[i].ts >= j - i
         /\ Latest.ts \in Int /\ now \in Nat
<1>1. history \in Seq(Samples) /\ TypeOK /\ Apart
  BY DEF IInv
<1>2. Len(history) \in Nat \ {0} /\ DOMAIN history = 1 .. Len(history)
  BY <1>1, EmptySeq
<1>3. now \in Nat
  BY <1>1 DEF TypeOK, now
<1>4. \A i \in DOMAIN history :
        history[i].ts \in Int /\ history[i].ts \in 1 .. now /\ history[i].twice \in Nat \ {0}
  BY <1>1, <1>3 DEF TypeOK
<1>. QED BY <1>1, <1>2, <1>3, <1>4 DEF Apart, Latest

\* The samples before a moment are a prefix of the deque.
LEMMA PrefixBefore ==
  ASSUME IInv, history # <<>>, NEW target \in Int
  PROVE  LET k == Cardinality({i \in DOMAIN history : history[i].ts < target})
         IN  /\ k \in 0 .. Len(history)
             /\ \A i \in DOMAIN history : history[i].ts < target <=> i <= k
<1>. DEFINE S == {i \in DOMAIN history : history[i].ts < target}
<1>. SUFFICES /\ Cardinality(S) \in 0 .. Len(history)
              /\ \A i \in DOMAIN history : history[i].ts < target <=> i <= Cardinality(S)
  OBVIOUS
<1>1. /\ Len(history) \in Nat \ {0} /\ DOMAIN history = 1 .. Len(history)
      /\ \A i \in DOMAIN history : history[i].ts \in Int
      /\ \A i, j \in DOMAIN history : i <= j => history[j].ts - history[i].ts >= j - i
  BY HistoryFacts
<1>2. CASE S = {}
  <2>1. Cardinality(S) = 0
    BY <1>2, FS_EmptySet
  <2>2. \A i \in DOMAIN history : ~(history[i].ts < target) /\ ~(i <= 0)
    BY <1>1, <1>2
  <2>3. Cardinality(S) \in 0 .. Len(history)
    BY <1>1, <2>1
  <2>4. \A i \in DOMAIN history : history[i].ts < target <=> i <= Cardinality(S)
    BY <2>1, <2>2
  <2>. QED BY <2>3, <2>4
<1>3. CASE S # {}
  <2>1. S \in SUBSET (1 .. Len(history)) /\ IsFiniteSet(1 .. Len(history))
    BY <1>1, FS_Interval
  <2>2. IsFiniteSet(S) /\ [i \in S |-> i] \in [S -> Int]
    BY <2>1, FS_Subset
  <2>3. PICK k \in S : \A i \in S : i <= k
    <3>1. \E k \in S : \A i \in S : [x \in S |-> x][i] <= [x \in S |-> x][k]
      <4>. HIDE DEF S
      <4>. QED BY <1>3, <2>2, GreatestImage
    <3>. QED BY <3>1
  <2>4. \A i \in DOMAIN history : history[i].ts < target <=> i <= k
    <3>. SUFFICES ASSUME NEW i \in DOMAIN history, i <= k PROVE history[i].ts < target
      BY <2>3
    <3>1. k \in DOMAIN history /\ history[k].ts < target
      BY <2>3
    <3>2. history[k].ts - history[i].ts >= k - i
      BY <1>1, <3>1
    <3>. QED BY <1>1, <3>1, <3>2
  <2>5. S = 1 .. k /\ k \in 1 .. Len(history)
    BY <1>1, <2>3, <2>4
  <2>6. Cardinality(S) = k
    <3>1. Cardinality(1 .. k) = k
      BY <1>1, <2>5, FS_Interval
    <3>. HIDE DEF S
    <3>. QED BY <2>5, <3>1
  <2>7. Cardinality(S) \in 0 .. Len(history)
    BY <1>1, <2>5, <2>6
  <2>8. \A i \in DOMAIN history : history[i].ts < target <=> i <= Cardinality(S)
    BY <2>4, <2>6
  <2>. QED BY <2>7, <2>8
<1>. QED BY <1>2, <1>3

\* The samples close enough to a moment.
Near(target) == {i \in DOMAIN history : Distance(i, target) <= Tolerance}

\* The two neighbours of the moment suffice: no sample is closer than both.
LEMMA NeighboursSuffice ==
  ASSUME IInv, history # <<>>, NEW target \in Int, NEW j \in DOMAIN history
  PROVE  LET k == Cardinality({i \in DOMAIN history : history[i].ts < target})
         IN  \E i \in {k, k + 1} \cap DOMAIN history : Distance(i, target) <= Distance(j, target)
<1>. DEFINE k == Cardinality({i \in DOMAIN history : history[i].ts < target})
<1>1. /\ Len(history) \in Nat \ {0} /\ DOMAIN history = 1 .. Len(history)
      /\ \A i \in DOMAIN history : history[i].ts \in Int
      /\ \A a, b \in DOMAIN history : a <= b => history[b].ts - history[a].ts >= b - a
  BY HistoryFacts
<1>2. /\ k \in 0 .. Len(history)
      /\ \A i \in DOMAIN history : history[i].ts < target <=> i <= k
  BY PrefixBefore
<1>. HIDE DEF k
<1>3. CASE j <= k
  <2>1. k \in DOMAIN history /\ history[k].ts < target /\ history[j].ts < target
    BY <1>1, <1>2, <1>3
  <2>2. history[k].ts - history[j].ts >= k - j
    BY <1>1, <1>3, <2>1
  <2>3. Distance(k, target) <= Distance(j, target)
    BY <1>1, <1>2, <1>3, <2>1, <2>2 DEF Distance
  <2>. QED BY <2>1, <2>3 DEF k
<1>4. CASE ~(j <= k)
  <2>1. k + 1 \in DOMAIN history /\ k + 1 <= j /\ ~(k + 1 <= k)
    BY <1>1, <1>2, <1>4
  <2>2. ~(history[k + 1].ts < target) /\ ~(history[j].ts < target)
    BY <1>2, <1>4, <2>1
  <2>3. history[j].ts - history[k + 1].ts >= j - (k + 1)
    BY <1>1, <2>1
  <2>4. history[k + 1].ts <= history[j].ts
    <3>1. history[k + 1].ts \in Int /\ history[j].ts \in Int /\ j - (k + 1) \in Nat
      BY <1>1, <1>2, <2>1
    <3>. QED BY <2>3, <3>1
  <2>5. /\ Distance(k + 1, target) = history[k + 1].ts - target
        /\ Distance(j, target) = history[j].ts - target
    BY <2>2 DEF Distance
  <2>6. Distance(k + 1, target) <= Distance(j, target)
    BY <1>1, <2>1, <2>4, <2>5
  <2>. QED BY <2>1, <2>6 DEF k
<1>. QED BY <1>3, <1>4

\* What the search returns, for every moment asked for.
LEMMA FoundFacts ==
  ASSUME IInv, history # <<>>, NEW off \in Nat
  PROVE  LET target == Latest.ts - off
         IN  /\ Near(target) = {} => SampleAtOffset(off) = None
             /\ Near(target) # {} =>
                  \E i \in Near(target) :
                    /\ history[i].twice = SampleAtOffset(off)
                    /\ \A j \in Near(target) : Distance(i, target) <= Distance(j, target)
<1>. DEFINE target == Latest.ts - off
            k == Cardinality({i \in DOMAIN history : history[i].ts < target})
            two == {i \in {k, k + 1} \cap DOMAIN history : Distance(i, target) <= Tolerance}
            closest == {i \in two : \A j \in two : Distance(i, target) <= Distance(j, target)}
            found == CHOOSE i \in closest : \A j \in closest : i <= j
<1>1. SampleAtOffset(off) = IF two = {} THEN None ELSE history[found].twice
  BY DEF SampleAtOffset
<1>2. /\ DOMAIN history = 1 .. Len(history) /\ Len(history) \in Nat
      /\ \A i \in DOMAIN history : history[i].ts \in Int
      /\ target \in Int
  BY HistoryFacts
<1>3. \A i \in DOMAIN history : Distance(i, target) \in Nat
  BY <1>2 DEF Distance
<1>4. \A j \in DOMAIN history :
        \E i \in {k, k + 1} \cap DOMAIN history : Distance(i, target) <= Distance(j, target)
  <2>. HIDE DEF target
  <2>. QED BY <1>2, NeighboursSuffice
<1>5. Tolerance \in Nat
  BY ConsensusAssumption
<1>6. two \subseteq Near(target)
  BY DEF Near
<1>. HIDE DEF target, k, found
<1>7. \A j \in Near(target) : \E i \in two : Distance(i, target) <= Distance(j, target)
  <2>. SUFFICES ASSUME NEW j \in Near(target)
                PROVE  \E i \in two : Distance(i, target) <= Distance(j, target)
    OBVIOUS
  <2>1. j \in DOMAIN history /\ Distance(j, target) <= Tolerance
    BY DEF Near
  <2>2. PICK i \in {k, k + 1} \cap DOMAIN history : Distance(i, target) <= Distance(j, target)
    BY <1>4, <2>1
  <2>3. Distance(i, target) <= Tolerance
    BY <1>3, <1>5, <2>1, <2>2
  <2>. QED BY <2>2, <2>3
<1>8. CASE two = {}
  <2>1. Near(target) = {}
    BY <1>7, <1>8
  <2>. QED BY <1>1, <1>8, <2>1 DEF target
<1>9. CASE two # {}
  <2>1. \A i \in two : i \in Nat /\ i \in DOMAIN history
    BY <1>2
  <2>. HIDE DEF two
  <2>2. closest # {}
    <3>. DEFINE far == [i \in two |-> Distance(i, target)]
    <3>1. far \in [two -> Nat]
      BY <1>3, <2>1
    <3>2. \E x \in two : \A y \in two : far[x] <= far[y]
      <4>. HIDE DEF far
      <4>. QED BY <1>9, <3>1, LeastImage
    <3>. QED BY <3>2
  <2>3. closest \in SUBSET Nat
    BY <2>1
  <2>4. \E i \in closest : \A j \in closest : i <= j
    <3>. HIDE DEF closest
    <3>. QED BY <2>2, <2>3, LeastNatural
  <2>5. found \in closest
    BY <2>4 DEF found
  <2>6. found \in two /\ \A j \in two : Distance(found, target) <= Distance(j, target)
    BY <2>5
  <2>7. \A j \in Near(target) : Distance(found, target) <= Distance(j, target)
    <3>. SUFFICES ASSUME NEW j \in Near(target)
                  PROVE  Distance(found, target) <= Distance(j, target)
      OBVIOUS
    <3>1. PICK i \in two : Distance(i, target) <= Distance(j, target)
      BY <1>7
    <3>2. /\ Distance(i, target) \in Nat /\ Distance(found, target) \in Nat
          /\ Distance(j, target) \in Nat /\ Distance(found, target) <= Distance(i, target)
      BY <1>3, <2>1, <2>6 DEF Near
    <3>. QED BY <3>1, <3>2
  <2>8. found \in Near(target) /\ SampleAtOffset(off) = history[found].twice
    BY <1>1, <1>6, <1>9, <2>6
  <2>. QED BY <2>7, <2>8 DEF target
<1>. QED BY <1>8, <1>9

\* sample_at_offsets finds a sample that no other is closer than, and finds
\* none only if none is close enough, whatever the history and the offset.
THEOREM SearchFindsClosest == Spec => []ClosestSample
<1>1. ASSUME IInv PROVE ClosestSample
  <2>. SUFFICES ASSUME NEW off \in 0 .. MaxNow, history # <<>>
                PROVE  LET target == Latest.ts - off
                           near == {i \in DOMAIN history : Distance(i, target) <= Tolerance}
                           found == SampleAtOffset(off)
                       IN  IF near = {} THEN found = None
                           ELSE \E i \in near :
                                  /\ history[i].twice = found
                                  /\ \A j \in near : Distance(i, target) <= Distance(j, target)
    BY DEF ClosestSample
  <2>1. off \in Nat
    BY ConsensusAssumption
  <2>. DEFINE target == Latest.ts - off
  <2>2. /\ Near(target) = {} => SampleAtOffset(off) = None
        /\ Near(target) # {} =>
             \E i \in Near(target) :
               /\ history[i].twice = SampleAtOffset(off)
               /\ \A j \in Near(target) : Distance(i, target) <= Distance(j, target)
    BY <1>1, <2>1, FoundFacts
  <2>. QED BY <2>2 DEF Near
<1>. QED BY <1>1, Invariance, PTL

-----------------------------------------------------------------------------
(* Fresh prices.                                                           *)

\* A price between two spot prices stays one in a wider range.
LEMMA WiderRange ==
  ASSUME TypeOK, NEW x, NEW a \in Int, NEW b \in Int, NEW a2 \in Int, NEW b2 \in Int,
         a2 <= a, b <= b2, BetweenSpots(x, a, b)
  PROVE  BetweenSpots(x, a2, b2)
<1>1. spots \in Seq(Prices) /\ Len(spots) <= Len(spots)
  BY DEF TypeOK
<1>2. Within(spots, x, a, b)
  BY WithinSpots
<1>3. Within(spots, x, a2, b2)
  BY <1>1, <1>2, WithinMore
<1>. QED BY <1>3, WithinSpots

\* While is_fresh holds the last sample is a price of the recent past, of two
\* freshness limits at most.
THEOREM FreshIsRecent == Spec => []FreshMeansRecent
<1>1. ASSUME IInv, IsFresh PROVE BetweenSpots(Latest.twice, now - 2 * Freshness, now)
  <2>. DEFINE n == Len(history)
  <2>1. history # <<>> /\ now - Latest.ts <= Freshness
    BY <1>1 DEF IsFresh
  <2>2. n \in DOMAIN history /\ history[n].ts \in 1 .. now /\ now \in Nat /\ Freshness \in Nat
    BY <1>1, <2>1, HistoryFacts, ConsensusAssumption
  <2>3. BetweenSpots(history[n].twice, history[n].ts - Freshness, history[n].ts)
    BY <1>1, <2>2 DEF IInv, MinorityOutvoted
  <2>4. TypeOK /\ now - history[n].ts <= Freshness
    BY <1>1, <2>1 DEF IInv, Latest
  <2>. HIDE DEF n
  <2>5. /\ history[n].ts - Freshness \in Int /\ history[n].ts \in Int
        /\ now - 2 * Freshness \in Int /\ now \in Int
        /\ now - 2 * Freshness <= history[n].ts - Freshness /\ history[n].ts <= now
    BY <2>2, <2>4
  <2>6. BetweenSpots(history[n].twice, now - 2 * Freshness, now)
    BY <2>3, <2>4, <2>5, WiderRange
  <2>. QED BY <2>6 DEF n, Latest
<1>2. IInv => FreshMeansRecent
  BY <1>1 DEF FreshMeansRecent
<1>. QED BY <1>2, Invariance, PTL

-----------------------------------------------------------------------------
(* The drift guard.                                                        *)

\* a is a rise, or a fall, of more than GuardBps from b.
Rises(a, b) == (a - b) * 10000 > GuardBps * b
Falls(a, b) == (b - a) * 10000 > GuardBps * b

\* A rise of the price counts all the more from lower to higher.
LEMMA RiseGrows ==
  ASSUME NEW a \in Nat, NEW b \in Nat, NEW a2 \in Nat, NEW b2 \in Nat,
         a <= a2, b2 <= b, Rises(a, b)
  PROVE  Rises(a2, b2)
<1>1. GuardBps \in Nat
  BY ConsensusAssumption
<1>2. PICK c \in Nat : b = b2 + c
  <2>1. b - b2 \in Nat /\ b = b2 + (b - b2)
    OBVIOUS
  <2>. QED BY <2>1
<1>3. GuardBps * b = GuardBps * b2 + GuardBps * c /\ GuardBps * c >= 0
  BY <1>1, <1>2
<1>. DEFINE p == GuardBps * b  q == GuardBps * b2
<1>4. p \in Int /\ q \in Int /\ q <= p
  BY <1>1, <1>3
<1>5. (a - b) * 10000 > p
  BY DEF Rises
<1>. HIDE DEF p, q
<1>6. (a2 - b2) * 10000 > q
  BY <1>4, <1>5
<1>. QED BY <1>6 DEF q, Rises

\* A fall of the price counts all the more from higher to lower.
LEMMA FallGrows ==
  ASSUME NEW a \in Nat, NEW b \in Nat, NEW a2 \in Nat, NEW b2 \in Nat,
         a2 <= a, b <= b2, Falls(a, b)
  PROVE  Falls(a2, b2)
<1>1. GuardBps \in Nat
  BY ConsensusAssumption
<1>. DEFINE left == 10000 - GuardBps
<1>2. left \in Int /\ left * b = 10000 * b - GuardBps * b /\ left * b2 = 10000 * b2 - GuardBps * b2
  BY <1>1
<1>3. GuardBps * b \in Int /\ GuardBps * b2 \in Int
  BY <1>1
<1>4. left * b > 10000 * a
  BY <1>2, <1>3 DEF Falls
<1>. HIDE DEF left
<1>5. left > 0
  <2>. SUFFICES ASSUME left <= 0 PROVE FALSE
    BY <1>2
  <2>1. left * b <= 0 /\ left * b \in Int
    BY <1>2
  <2>. QED BY <1>4, <2>1
<1>6. left * b2 >= left * b
  <2>1. b2 - b \in Nat /\ left * (b2 - b) >= 0
    BY <1>2, <1>5
  <2>2. left * (b2 - b) = left * b2 - left * b
    BY <1>2
  <2>3. left * b2 \in Int /\ left * b \in Int
    BY <1>2
  <2>. QED BY <2>1, <2>2, <2>3
<1>7. left * b2 > 10000 * a2
  <2>1. left * b2 \in Int /\ left * b \in Int
    BY <1>2
  <2>. QED BY <1>4, <1>6, <2>1
<1>. QED BY <1>2, <1>3, <1>7 DEF Falls

\* Whether two prices drifted apart does not depend on their unit.
LEMMA DriftScales ==
  ASSUME NEW a \in Nat, NEW b \in Nat
  PROVE  /\ Rises(2 * a, 2 * b) <=> Rises(a, b)
         /\ Falls(2 * a, 2 * b) <=> Falls(a, b)
<1>1. GuardBps \in Nat
  BY ConsensusAssumption
<1>. DEFINE g == GuardBps * b
<1>2. GuardBps * (2 * b) = 2 * g /\ g \in Int
  BY <1>1
<1>. HIDE DEF g
<1>3. /\ (2 * a - 2 * b) * 10000 > 2 * g <=> (a - b) * 10000 > g
      /\ (2 * b - 2 * a) * 10000 > 2 * g <=> (b - a) * 10000 > g
  BY <1>2
<1>. QED BY <1>2, <1>3 DEF g, Rises, Falls

\* The sample at the last moment is the last one.
LEMMA CurrentIsLatest ==
  ASSUME IInv, history # <<>>
  PROVE  SampleAtOffset(0) = Latest.twice
<1>. DEFINE n == Len(history)  target == Latest.ts - 0
<1>1. /\ n \in Nat \ {0} /\ DOMAIN history = 1 .. n
      /\ \A i \in DOMAIN history : history[i].ts \in Int
      /\ \A i, j \in DOMAIN history : i <= j => history[j].ts - history[i].ts >= j - i
  BY HistoryFacts
<1>2. target = history[n].ts
  BY <1>1 DEF Latest
<1>. HIDE DEF n
<1>3. n \in DOMAIN history /\ Distance(n, target) = 0
  BY <1>1, <1>2 DEF Distance
<1>4. n \in Near(target)
  BY <1>3, ConsensusAssumption DEF Near
<1>5. PICK i \in Near(target) :
        /\ history[i].twice = SampleAtOffset(0)
        /\ \A j \in Near(target) : Distance(i, target) <= Distance(j, target)
  BY <1>4, FoundFacts
<1>6. i \in DOMAIN history /\ Distance(i, target) <= 0
  BY <1>3, <1>4, <1>5 DEF Near
<1>7. history[i].ts = history[n].ts
  BY <1>1, <1>2, <1>3, <1>6 DEF Distance
<1>8. history[n].ts - history[i].ts >= n - i
  BY <1>1, <1>3, <1>6
<1>9. i = n
  BY <1>1, <1>3, <1>6, <1>7, <1>8
<1>. QED BY <1>5, <1>9 DEF Latest, n

\* What the guard compares: the price of the last sample and that of one about
\* the length of the window before it.
LEMMA CurrentPrice ==
  ASSUME IInv, history # <<>>
  PROVE  /\ Latest.twice \in Nat \ {0}
         /\ \E s, t \in AtLatest : 2 * spots[s] <= Latest.twice /\ Latest.twice <= 2 * spots[t]
<1>. DEFINE n == Len(history)
<1>1. n \in DOMAIN history /\ history[n].twice \in Nat \ {0}
  BY HistoryFacts
<1>2. BetweenSpots(history[n].twice, history[n].ts - Freshness, history[n].ts)
  BY <1>1 DEF IInv, MinorityOutvoted
<1>. QED BY <1>1, <1>2 DEF BetweenSpots, AtLatest, Latest

LEMMA PastPrice ==
  ASSUME IInv, history # <<>>, NEW j \in Near(Latest.ts - Window)
  PROVE  /\ history[j].twice \in Nat \ {0}
         /\ \E s, t \in Around(Latest.ts - Window) :
              2 * spots[s] <= history[j].twice /\ history[j].twice <= 2 * spots[t]
<1>. DEFINE target == Latest.ts - Window
<1>1. {Tolerance, Freshness, Window} \subseteq Nat
  BY ConsensusAssumption
<1>2. target \in Int
  BY <1>1, HistoryFacts
<1>3. j \in DOMAIN history /\ Distance(j, target) <= Tolerance
  BY DEF Near
<1>4. history[j].twice \in Nat \ {0} /\ history[j].ts \in Int
  BY <1>3, HistoryFacts
<1>. HIDE DEF target
<1>5. target - Tolerance <= history[j].ts /\ history[j].ts <= target + Tolerance
  BY <1>1, <1>2, <1>3, <1>4 DEF Distance
<1>6. BetweenSpots(history[j].twice, history[j].ts - Freshness, history[j].ts)
  BY <1>3 DEF IInv, MinorityOutvoted
<1>7. TypeOK
  BY DEF IInv
<1>8. BetweenSpots(history[j].twice, target - Tolerance - Freshness, target + Tolerance)
  <2>1. /\ history[j].ts - Freshness \in Int /\ target - Tolerance - Freshness \in Int
        /\ target + Tolerance \in Int
        /\ target - Tolerance - Freshness <= history[j].ts - Freshness
    BY <1>1, <1>2, <1>4, <1>5
  <2>. QED BY <1>4, <1>5, <1>6, <1>7, <2>1, WiderRange
<1>9. \E s, t \in Around(target) :
        2 * spots[s] <= history[j].twice /\ history[j].twice <= 2 * spots[t]
  BY <1>8 DEF BetweenSpots, Around
<1>. QED BY <1>4, <1>9 DEF target

LEMMA SpotsArePrices ==
  ASSUME IInv
  PROVE  /\ \A s \in AtLatest : spots[s] \in Nat
         /\ \A target \in Int : \A t \in Around(target) : spots[t] \in Nat
<1>1. spots \in Seq(Prices)
  BY DEF IInv, TypeOK
<1>2. \A t \in 1 .. now : spots[t] \in Prices
  BY <1>1 DEF now
<1>3. \A t \in 1 .. now : spots[t] \in Nat
  BY <1>2, ConsensusAssumption
<1>. QED BY <1>3 DEF AtLatest, Around

\* The guard stops the buying only when the spot price itself moved that far.
THEOREM GuardMeansDrift == Spec => []NoFalseAlarm
<1>1. ASSUME IInv, AccumulationGuarded
      PROVE  \E s \in AtLatest, t \in Around(Latest.ts - Window) : Drifted(spots[s], spots[t])
  <2>. DEFINE c == SampleAtOffset(0)  p == SampleAtOffset(Window)  target == Latest.ts - Window
  <2>1. c # None /\ p # None /\ Drifted(c, p)
    BY <1>1 DEF AccumulationGuarded
  <2>2. history # <<>>
    BY <2>1 DEF SampleAtOffset
  <2>3. c = Latest.twice
    BY <1>1, <2>2, CurrentIsLatest
  <2>4. Window \in Nat /\ Latest.ts \in Int
    BY <1>1, <2>2, HistoryFacts, ConsensusAssumption
  <2>5. PICK j \in Near(target) : history[j].twice = p
    BY <1>1, <2>1, <2>2, <2>4, FoundFacts
  <2>6. target \in Int
    BY <2>4
  <2>7. c \in Nat /\ p \in Nat
    BY <1>1, <2>2, <2>3, <2>5, CurrentPrice, PastPrice
  <2>8. PICK s1, s2 \in AtLatest : 2 * spots[s1] <= c /\ c <= 2 * spots[s2]
    BY <1>1, <2>2, <2>3, CurrentPrice
  <2>9. PICK t1, t2 \in Around(target) : 2 * spots[t1] <= p /\ p <= 2 * spots[t2]
    BY <1>1, <2>2, <2>5, PastPrice
  <2>10. {spots[s1], spots[s2], spots[t1], spots[t2]} \subseteq Nat
    BY <1>1, <2>6, <2>8, <2>9, SpotsArePrices
  <2>. HIDE DEF c, p, target
  <2>11. CASE Rises(c, p)
    <3>1. Rises(2 * spots[s2], 2 * spots[t1])
      <4>. DEFINE a == 2 * spots[s2]  b == 2 * spots[t1]
      <4>1. a \in Nat /\ b \in Nat /\ c <= a /\ b <= p
        BY <2>8, <2>9, <2>10
      <4>. HIDE DEF a, b
      <4>2. Rises(a, b)
        BY <2>7, <2>11, <4>1, RiseGrows
      <4>. QED BY <4>2 DEF a, b
    <3>2. Drifted(spots[s2], spots[t1])
      BY <2>10, <3>1, DriftScales DEF Drifted, Rises, Falls
    <3>. QED BY <2>8, <2>9, <3>2 DEF target
  <2>12. CASE Falls(c, p)
    <3>1. Falls(2 * spots[s1], 2 * spots[t2])
      <4>. DEFINE a == 2 * spots[s1]  b == 2 * spots[t2]
      <4>1. a \in Nat /\ b \in Nat /\ a <= c /\ p <= b
        BY <2>8, <2>9, <2>10
      <4>. HIDE DEF a, b
      <4>2. Falls(a, b)
        BY <2>7, <2>12, <4>1, FallGrows
      <4>. QED BY <4>2 DEF a, b
    <3>2. Drifted(spots[s1], spots[t2])
      BY <2>10, <3>1, DriftScales DEF Drifted, Rises, Falls
    <3>. QED BY <2>8, <2>9, <3>2 DEF target
  <2>. QED BY <2>1, <2>11, <2>12 DEF Drifted, Rises, Falls
<1>2. IInv => NoFalseAlarm
  BY <1>1 DEF NoFalseAlarm
<1>. QED BY <1>2, Invariance, PTL

\* A sample taken around the beginning of the window is close to one that the
\* deque still has: it reaches further back than the window.
LEMMA DequeReachesBack ==
  ASSUME IInv, history # <<>>, NEW t \in taken,
         t \in Latest.ts - Window - Tolerance .. Latest.ts - Window + Tolerance
  PROVE  Near(Latest.ts - Window) # {}
<1>. DEFINE target == Latest.ts - Window  n == Len(history)
<1>1. {Tolerance, Window, HistorySize} \subseteq Nat
  BY ConsensusAssumption
<1>2. /\ n \in Nat \ {0} /\ DOMAIN history = 1 .. n
      /\ \A i \in DOMAIN history : history[i].ts \in Int
      /\ \A i, j \in DOMAIN history : i <= j => history[j].ts - history[i].ts >= j - i
      /\ Latest.ts \in Int /\ Latest.ts = history[n].ts
  BY HistoryFacts DEF Latest
<1>3. t \in Int /\ target - Tolerance <= t /\ t <= target + Tolerance /\ target \in Int
  BY <1>1, <1>2
<1>4. \/ \E i \in DOMAIN history : history[i].ts = t
      \/ n = HistorySize /\ \A i \in DOMAIN history : t < history[i].ts
  BY DEF IInv, KeepsNewest
<1>. HIDE DEF n
<1>5. CASE \E i \in DOMAIN history : history[i].ts = t
  <2>1. PICK i \in DOMAIN history : history[i].ts = t
    BY <1>5
  <2>. HIDE DEF target
  <2>2. Distance(i, target) <= Tolerance
    BY <1>1, <1>3, <2>1 DEF Distance
  <2>. QED BY <2>2 DEF Near, target
<1>6. CASE n = HistorySize /\ \A i \in DOMAIN history : t < history[i].ts
  <2>1. 1 \in DOMAIN history /\ n \in DOMAIN history /\ t < history[1].ts
    BY <1>2, <1>6
  <2>2. history[n].ts - history[1].ts >= n - 1
    BY <1>2, <2>1
  <2>3. history[1].ts \in Int /\ Latest.ts - history[1].ts >= HistorySize - 1
    BY <1>2, <1>6, <2>1, <2>2
  <2>4. history[1].ts <= target + Tolerance
    BY <1>1, <1>2, <2>3, HistoryAssumption
  <2>. HIDE DEF target
  <2>5. Distance(1, target) <= Tolerance
    BY <1>1, <1>3, <2>1, <2>3, <2>4 DEF Distance
  <2>. QED BY <2>1, <2>5 DEF Near, target
<1>. QED BY <1>4, <1>5, <1>6

\* And it does stop the buying when the price moved that far, either way.
THEOREM DriftMeansGuard == Spec => []MoveStopsBuying
<1>. DEFINE target == Latest.ts - Window
<1>1. ASSUME IInv, history # <<>>,
             NEW t \in taken, t \in target - Tolerance .. target + Tolerance,
             \A s \in AtLatest, u \in Around(target) : Drifted(spots[s], spots[u]),
             \A s, s2 \in AtLatest, u, u2 \in Around(target) :
               ~(spots[s] < spots[u] /\ spots[s2] > spots[u2])
      PROVE  AccumulationGuarded
  <2>. DEFINE c == SampleAtOffset(0)  p == SampleAtOffset(Window)
  <2>1. Window \in Nat /\ GuardBps \in Nat /\ None \notin Nat /\ target \in Int
    BY <1>1, HistoryFacts, ConsensusAssumption
  <2>2. c = Latest.twice
    BY <1>1, CurrentIsLatest
  <2>3. Near(target) # {}
    BY <1>1, DequeReachesBack
  <2>4. PICK j \in Near(target) : history[j].twice = p
    BY <1>1, <2>1, <2>3, FoundFacts
  <2>5. c \in Nat \ {0} /\ p \in Nat \ {0}
    BY <1>1, <2>2, <2>4, CurrentPrice, PastPrice
  <2>6. PICK s1, s2 \in AtLatest : 2 * spots[s1] <= c /\ c <= 2 * spots[s2]
    BY <1>1, <2>2, CurrentPrice
  <2>7. PICK t1, t2 \in Around(target) : 2 * spots[t1] <= p /\ p <= 2 * spots[t2]
    BY <1>1, <2>4, PastPrice
  <2>8. {spots[s1], spots[s2], spots[t1], spots[t2]} \subseteq Nat
    BY <1>1, <2>1, <2>6, <2>7, SpotsArePrices
  <2>9. \A a, b \in Nat : (a <= b => ~Rises(a, b)) /\ (b <= a => ~Falls(a, b))
    <3>. SUFFICES ASSUME NEW a \in Nat, NEW b \in Nat
                  PROVE  (a <= b => ~Rises(a, b)) /\ (b <= a => ~Falls(a, b))
      OBVIOUS
    <3>. DEFINE g == GuardBps * b
    <3>1. g \in Nat
      BY <2>1
    <3>. HIDE DEF g
    <3>2. /\ a <= b => ~((a - b) * 10000 > g)
          /\ b <= a => ~((b - a) * 10000 > g)
      BY <3>1
    <3>. QED BY <3>2 DEF g, Rises, Falls
  <2>. HIDE DEF c, p
  <2>10. Drifted(c, p)
    <3>1. Drifted(spots[s1], spots[t2])
      BY <1>1, <2>6, <2>7
    <3>2. CASE spots[s1] < spots[t2]
      <4>1. ~(spots[s2] > spots[t1])
        BY <1>1, <2>6, <2>7, <3>2
      <4>2. Drifted(spots[s2], spots[t1])
        BY <1>1, <2>6, <2>7
      <4>3. Falls(spots[s2], spots[t1])
        BY <2>8, <2>9, <4>1, <4>2 DEF Drifted, Rises, Falls
      <4>. DEFINE a == 2 * spots[s2]  b == 2 * spots[t1]
      <4>4. Falls(a, b)
        BY <2>8, <4>3, DriftScales
      <4>5. a \in Nat /\ b \in Nat /\ c <= a /\ b <= p /\ c \in Nat /\ p \in Nat
        BY <2>5, <2>6, <2>7, <2>8
      <4>. HIDE DEF a, b
      <4>6. Falls(c, p)
        BY <4>4, <4>5, FallGrows
      <4>. QED BY <4>6 DEF Drifted, Falls
    <3>3. CASE ~(spots[s1] < spots[t2])
      <4>1. Rises(spots[s1], spots[t2])
        BY <2>8, <2>9, <3>1, <3>3 DEF Drifted, Rises, Falls
      <4>. DEFINE a == 2 * spots[s1]  b == 2 * spots[t2]
      <4>2. Rises(a, b)
        BY <2>8, <4>1, DriftScales
      <4>3. a \in Nat /\ b \in Nat /\ a <= c /\ p <= b /\ c \in Nat /\ p \in Nat
        BY <2>5, <2>6, <2>7, <2>8
      <4>. HIDE DEF a, b
      <4>4. Rises(c, p)
        BY <4>2, <4>3, RiseGrows
      <4>. QED BY <4>4 DEF Drifted, Rises
    <3>. QED BY <3>2, <3>3
  <2>11. c # None /\ p # None /\ p > 0
    BY <2>1, <2>5
  <2>. QED BY <2>10, <2>11 DEF AccumulationGuarded, c, p
<1>2. IInv => MoveStopsBuying
  BY <1>1 DEF MoveStopsBuying
<1>. QED BY <1>2, Invariance, PTL
=============================================================================
