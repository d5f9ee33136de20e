--------------------------- MODULE PriceConsensus ---------------------------
(***************************************************************************)
(* PriceConsensus (consensus/drift_detector.py): the sampled median of the *)
(* price feeds of one asset, and the drift guard with which a QuoteManager *)
(* reads it (state_machine/synchronizer.py).                               *)
(*                                                                         *)
(* Time is counted in samplings and the wall clock does not step back.  An *)
(* honest feed delivers the spot price of the moment, a corrupt one any    *)
(* price; either may be silent.  Medians are kept doubled: the median of   *)
(* an even number of integers may be a half.                               *)
(***************************************************************************)
EXTENDS Integers, Sequences, FiniteSets, FiniteSetsExt

CONSTANTS
  Honest, Corrupt,  \* the feeds
  Quorum,           \* min_quorum
  Freshness,        \* freshness_max_sec
  HistorySize,      \* history_size
  Tolerance,        \* how far a sample may be from the moment asked for
  Window,           \* drift_window_sec
  GuardBps,         \* drift_guard_bps
  Prices,           \* the spot prices
  WrongPrices,      \* what a corrupt feed may deliver
  None,             \* no tick, no sample
  MaxNow            \* bound on the time

Feeds == Honest \cup Corrupt
Tick == [value : Nat, at : Nat]

ASSUME FeedsAssumption ==
  /\ IsFiniteSet(Feeds) /\ Honest \cap Corrupt = {}
  /\ 2 * Cardinality(Corrupt) < Quorum
ASSUME ConsensusAssumption ==
  /\ {Quorum, HistorySize} \subseteq Nat \ {0}
  /\ {Freshness, Tolerance, Window, GuardBps, MaxNow} \subseteq Nat
  /\ Prices \subseteq Nat \ {0} /\ WrongPrices \subseteq Nat
  /\ None \notin Tick \cup Nat
\* The deque reaches further back than the window (minutes, and seconds).
ASSUME HistoryAssumption == Window < HistorySize + Tolerance

VARIABLES
  spots,    \* history: the spot price at each moment up to now
  last,     \* the last tick of each feed
  history,  \* _history: the samples [ts, twice]
  taken,    \* history: the moments of all samples, forgotten ones included
  sampler   \* "new" until start, "on", "off" after stop

vars == <<spots, last, history, taken, sampler>>

now == Len(spots)
Latest == history[Len(history)]

-----------------------------------------------------------------------------
(* The consensus.                                                          *)

\* Mutant: a silent feed still counts.
WarmForever == {f \in Feeds : last[f] # None}

\* The feeds that _warm_prices reads.
Warm == {f \in Feeds : last[f] # None /\ now - last[f].at <= Freshness}

\* The k-th lowest price of some feeds.
Nth(feeds, k) ==
  CHOOSE p \in {last[f].value : f \in feeds} :
    /\ Cardinality({f \in feeds : last[f].value < p}) < k
    /\ Cardinality({f \in feeds : last[f].value <= p}) >= k

\* Mutant: the mean.
TwiceMean(feeds) ==
  (2 * MapThenSumSet(LAMBDA f : last[f].value, feeds)) \div Cardinality(feeds)

\* Twice the _median.
TwiceMedian(feeds) ==
  LET n == Cardinality(feeds)
  IN  Nth(feeds, (n + 1) \div 2) + Nth(feeds, n \div 2 + 1)

\* Mutant: a deque without a bound.
RecordedUnbounded(sample) == Append(history, sample)

\* The bounded deque forgets its oldest sample.
Recorded(sample) ==
  LET all == Append(history, sample)
  IN  IF Len(all) > HistorySize THEN Tail(all) ELSE all

\* Mutant: a quorum suffices.
IsFreshByQuorum == Cardinality(Warm) >= Quorum /\ history # <<>>

IsFresh ==
  /\ Cardinality(Warm) >= Quorum
  /\ history # <<>> /\ now - Latest.ts <= Freshness

-----------------------------------------------------------------------------
(* The past, and the guard.                                                *)

Distance(i, target) ==
  IF history[i].ts < target THEN target - history[i].ts ELSE history[i].ts - target

\* Mutant: the sample after the moment is not looked at.
SampleAtOrBefore(off) ==
  LET target == Latest.ts - off
      near == {i \in DOMAIN history : history[i].ts <= target /\ Distance(i, target) <= Tolerance}
  IN  IF history = <<>> \/ near = {} THEN None
      ELSE history[CHOOSE i \in near : \A j \in near : j <= i].twice

\* sample_at_offsets for one offset, back from the last sample: a binary search
\* finds the neighbours of the moment and the closer one, the earlier of two as
\* close, is taken if it is close enough.
SampleAtOffset(off) ==
  IF history = <<>> THEN None
  ELSE LET target == Latest.ts - off
           before == Cardinality({i \in DOMAIN history : history[i].ts < target})
           near == {i \in {before, before + 1} \cap DOMAIN history :
                      Distance(i, target) <= Tolerance}
           closest == {i \in near : \A j \in near : Distance(i, target) <= Distance(j, target)}
       IN  IF near = {} THEN None
           ELSE history[CHOOSE i \in closest : \A j \in closest : i <= j].twice

\* Mutant: only a rising price counts.
GuardedRising ==
  LET current == SampleAtOffset(0)
      past == SampleAtOffset(Window)
  IN  /\ current # None /\ past # None /\ past > 0
      /\ (current - past) * 10000 > GuardBps * past

\* a and b are more than GuardBps of b apart.
Drifted(a, b) ==
  \/ (a - b) * 10000 > GuardBps * b
  \/ (b - a) * 10000 > GuardBps * b

\* _accumulation_guarded over _underlying_drift_bps
AccumulationGuarded ==
  LET current == SampleAtOffset(0)
      past == SampleAtOffset(Window)
  IN  /\ current # None /\ past # None /\ past > 0
      /\ Drifted(current, past)

-----------------------------------------------------------------------------
(* Actions.                                                                *)

Start == sampler = "new" /\ sampler' = "on" /\ UNCHANGED <<spots, last, history, taken>>
Stop == sampler = "on" /\ sampler' = "off" /\ UNCHANGED <<spots, last, history, taken>>

Advance(price) ==
  /\ now < MaxNow
  /\ spots' = Append(spots, price)
  /\ UNCHANGED <<last, history, taken, sampler>>

Deliver(f, value) ==
  /\ sampler = "on"
  /\ last' = [last EXCEPT ![f] = [value |-> value, at |-> now]]
  /\ UNCHANGED <<spots, history, taken, sampler>>

\* One turn of _sample_loop; it sleeps between two.
Sample ==
  /\ sampler = "on" /\ now \notin taken
  /\ Cardinality(Warm) >= Quorum /\ TwiceMedian(Warm) > 0
  /\ history' = Recorded([ts |-> now, twice |-> TwiceMedian(Warm)])
  /\ taken' = taken \cup {now}
  /\ UNCHANGED <<spots, last, sampler>>

Init ==
  /\ \E price \in Prices : spots = <<price>>
  /\ last = [f \in Feeds |-> None]
  /\ history = <<>> /\ taken = {} /\ sampler = "new"

Next ==
  \/ Start \/ Stop
  \/ \E price \in Prices : Advance(price)
  \/ \E f \in Honest : Deliver(f, spots[now])
  \/ \E f \in Corrupt, value \in WrongPrices : Deliver(f, value)
  \/ Sample

Spec == Init /\ [][Next]_vars

-----------------------------------------------------------------------------
(* Properties.                                                             *)

\* Types; the deque is bounded and "always time-ordered".
TypeOK ==
  /\ spots \in Seq(Prices) /\ sampler \in {"new", "on", "off"}
  /\ last \in [Feeds -> Tick \cup {None}]
  /\ \A i \in DOMAIN history : history[i].ts \in 1 .. now /\ history[i].twice \in Nat \ {0}
  /\ Len(history) <= HistorySize
  /\ \A i \in 2 .. Len(history) : history[i - 1].ts < history[i].ts

\* twice / 2 lies between two spot prices of the moments from first to end.
BetweenSpots(twice, first, end) ==
  LET moments == {t \in 1 .. now : first <= t /\ t <= end}
  IN  \E s, t \in moments : 2 * spots[s] <= twice /\ twice <= 2 * spots[t]

\* A minority of wrong feeds, whatever they say and whichever feeds are silent,
\* moves no sample out of the range of the prices that the honest feeds
\* delivered while they were fresh ("the median is unaffected").
MinorityOutvoted ==
  \A i \in DOMAIN history :
    BetweenSpots(history[i].twice, history[i].ts - Freshness, history[i].ts)

\* sample_at_offsets finds, with two neighbours only, a sample that no other is
\* closer than, and finds none only if none is close enough.
ClosestSample ==
  \A off \in 0 .. MaxNow : history # <<>> =>
    LET target == Latest.ts - off
        near == {i \in DOMAIN history : Distance(i, target) <= Tolerance}
        found == SampleAtOffset(off)
    IN  IF near = {} THEN found = None
        ELSE \E i \in near : /\ history[i].twice = found
                             /\ \A j \in near : Distance(i, target) <= Distance(j, target)

\* While is_fresh holds the last sample is a price of the recent past, of two
\* freshness limits at most: one for the sample and one for its ticks.
FreshMeansRecent == IsFresh => BetweenSpots(Latest.twice, now - 2 * Freshness, now)

Around(target) == {t \in 1 .. now : target - Tolerance - Freshness <= t /\ t <= target + Tolerance}
AtLatest == {t \in 1 .. now : Latest.ts - Freshness <= t /\ t <= Latest.ts}

\* The guard stops the buying only when the spot price itself moved that far
\* about the length of the window, however old the samples are and whatever a
\* minority of feeds says.
NoFalseAlarm == AccumulationGuarded =>
  \E s \in AtLatest, t \in Around(Latest.ts - Window) : Drifted(spots[s], spots[t])

\* And it does stop it when the price moved that far, either way, if only a
\* sample was taken around the beginning of the window: the deque still has it.
MoveStopsBuying ==
  history # <<>> /\ (\E t \in taken : t \in Latest.ts - Window - Tolerance .. Latest.ts - Window + Tolerance) =>
    \/ AccumulationGuarded
    \/ \E s, s2 \in AtLatest, t, t2 \in Around(Latest.ts - Window) :
         ~Drifted(spots[s], spots[t]) \/ (spots[s] < spots[t] /\ spots[s2] > spots[t2])
=============================================================================
