--------------------------- MODULE BreakerProofs ---------------------------
(***************************************************************************)
(* That the halts of CircuitBreaker are in force exactly as long as the    *)
(* breaches behind them count, for every set of engines, every length of   *)
(* day and week, and every cut of a write; and that the market maker's     *)
(* permanent halt, once a finished check has seen its limit breached,      *)
(* stays in force until it is resumed, and the P&L of the day is exact,    *)
(* for all limits, worlds, P&Ls and crashes.                               *)
(***************************************************************************)
EXTENDS MmBreaker, WellFoundedInduction, NaturalsInduction, TLAPS

-----------------------------------------------------------------------------
(* The halts of the engines (CircuitBreaker).                              *)

\* A breach that was answered has its row set, stamped no earlier than it.
Answered ==
  \A key \in Keys : breached[key] # Never =>
    /\ flag[key]
    /\ key \in ExpiringKeys => stamp[key] >= breached[key]

\* A row that is set goes back to a breach, and is stamped no later than it.
\* A trip cut off half way leaves the stamp of an earlier one behind.
Caused ==
  \A key \in Keys : flag[key] =>
    /\ attempted[key] # Never
    /\ key \in ExpiringKeys => stamp[key] <= attempted[key]

IInv == TypeOK /\ Answered /\ Caused

-----------------------------------------------------------------------------
\* Days follow the clock (next_midnight in the three expiry tests).
LEMMA DaysFollow ==
  ASSUME NEW s \in Int, NEW t \in Int, s <= t
  PROVE  DayOf(s) <= DayOf(t)
<1> DEFINE a == s \div TicksPerDay
           b == t \div TicksPerDay
<1>1. TicksPerDay \in Int /\ TicksPerDay > 0
  BY BreakerAssumption
<1>2. /\ a \in Int /\ b \in Int
      /\ TicksPerDay * a <= s
      /\ t < TicksPerDay * b + TicksPerDay
  BY <1>1
<1>3. ASSUME a > b PROVE FALSE
  <2>1. a >= b + 1
    BY <1>2, <1>3
  <2> HIDE DEF a, b
  <2>2. TicksPerDay * a >= TicksPerDay * (b + 1)
    BY <1>1, <1>2, <2>1
  <2>3. TicksPerDay * (b + 1) = TicksPerDay * b + TicksPerDay
    BY <1>1, <1>2
  <2>4. QED
    BY <1>1, <1>2, <2>2, <2>3
<1>4. QED
  BY <1>2, <1>3 DEF DayOf

\* The keys are distinct strings, and the engines are those of force_resume_all.
LEMMA KeyFacts ==
  /\ StickyKeys \subseteq Keys /\ ExpiringKeys \subseteq Keys
  /\ \A key \in Keys : key \in StickyKeys \/ key \in ExpiringKeys
  /\ \A key \in ExpiringKeys : key \notin StickyKeys
  /\ {"daily", "weekly"} \cup Engines \subseteq ExpiringKeys
  /\ DailyKeys \subseteq ExpiringKeys
BY BreakerAssumption DEF Keys, StickyKeys, ExpiringKeys, DailyKeys, ResumedEngines

\* force_resume_all reaches every key.
LEMMA ResumeReachesAll == Keys \subseteq Resumed(Len(ResumeOrder))
<1>1. Len(ResumeOrder) = 11
  BY DEF ResumeOrder
<1>2. ASSUME NEW key \in Keys PROVE \E i \in 1 .. 11 : ResumeOrder[i] = key
  <2>1. /\ ResumeOrder[1] = "manual" /\ ResumeOrder[2] = "capital"
        /\ ResumeOrder[3] = "daily" /\ ResumeOrder[4] = "weekly"
        /\ ResumeOrder[5] = "e3_perm" /\ ResumeOrder[6] = "mm_daily"
        /\ ResumeOrder[7] = "mm_perm" /\ ResumeOrder[8] = "E1"
        /\ ResumeOrder[9] = "E2" /\ ResumeOrder[10] = "E3"
        /\ ResumeOrder[11] = "E4"
    BY DEF ResumeOrder
  <2>2. key \in {"manual", "capital", "daily", "weekly", "e3_perm", "mm_daily",
                 "mm_perm", "E1", "E2", "E3", "E4"}
    BY BreakerAssumption
    DEF Keys, StickyKeys, ExpiringKeys, DailyKeys, ResumedEngines
  <2>3. QED
    BY <2>1, <2>2
<1>3. QED
  BY <1>1, <1>2 DEF Resumed

-----------------------------------------------------------------------------
\* A trip of one key, whole or cut off, keeps the invariant.
LEMMA TripKeeps ==
  ASSUME IInv, NEW key \in Keys, NEW torn \in BOOLEAN, Trip(key, torn), now' = now
  PROVE  IInv'
<1>1. /\ now \in Nat /\ flag \in [Keys -> BOOLEAN] /\ stamp \in [ExpiringKeys -> -1 .. now]
      /\ breached \in [Keys -> -1 .. now] /\ attempted \in [Keys -> -1 .. now]
  BY BreakerAssumption DEF IInv, TypeOK
<1>2. /\ flag' = [flag EXCEPT ![key] = TRUE]
      /\ stamp' = IF torn \/ key \in StickyKeys THEN stamp ELSE [stamp EXCEPT ![key] = now]
      /\ attempted' = Marked(attempted, {key})
      /\ breached' = IF torn THEN breached ELSE Marked(breached, {key})
  BY DEF Trip, WriteTrip, Breach
<1>3. ASSUME NEW marks \in [Keys -> -1 .. now]
      PROVE  /\ Marked(marks, {key}) \in [Keys -> -1 .. now]
             /\ Marked(marks, {key})[key] = (IF key \in StickyKeys THEN 0 ELSE now)
             /\ \A other \in Keys \ {key} : Marked(marks, {key})[other] = marks[other]
  BY <1>1 DEF Marked
<1>4. TypeOK'
  <2>1. flag' \in [Keys -> BOOLEAN]
    BY <1>1, <1>2
  <2>2. stamp' \in [ExpiringKeys -> -1 .. now]
    <3>1. [stamp EXCEPT ![key] = now] \in [ExpiringKeys -> -1 .. now]
      <4> DEFINE stamped == [stamp EXCEPT ![key] = now]
      <4>1. stamped = [k \in ExpiringKeys |-> IF k = key THEN now ELSE stamp[k]]
        BY <1>1
      <4>2. now \in -1 .. now /\ \A k \in ExpiringKeys : stamp[k] \in -1 .. now
        BY <1>1
      <4>3. QED
        BY <4>1, <4>2
    <3>2. QED
      BY <1>1, <1>2, <3>1
  <2>3. breached' \in [Keys -> -1 .. now] /\ attempted' \in [Keys -> -1 .. now]
    BY <1>1, <1>2, <1>3
  <2>4. QED
    BY <2>1, <2>2, <2>3, now' = now DEF IInv, TypeOK
<1>5. Answered'
  <2> SUFFICES ASSUME NEW k \in Keys, breached'[k] # Never
               PROVE  flag'[k] /\ (k \in ExpiringKeys => stamp'[k] >= breached'[k])
    BY DEF Answered
  <2>1. CASE k # key
    <3>1. flag'[k] = flag[k] /\ breached'[k] = breached[k]
      BY <1>1, <1>2, <1>3, <2>1
    <3>2. k \in ExpiringKeys => stamp'[k] = stamp[k]
      BY <1>1, <1>2, <2>1
    <3>3. QED
      BY <3>1, <3>2 DEF IInv, Answered
  <2>2. CASE k = key /\ torn
    BY <1>1, <1>2, <2>2 DEF IInv, Answered
  <2>3. CASE k = key /\ ~torn
    <3>1. flag'[k]
      BY <1>1, <1>2, <2>3
    <3>2. ASSUME k \in ExpiringKeys PROVE stamp'[k] = now /\ breached'[k] = now
      BY <1>1, <1>2, <1>3, <2>3, <3>2, KeyFacts
    <3>3. QED
      BY <1>1, <3>1, <3>2
  <2>4. QED
    BY <2>1, <2>2, <2>3
<1>6. Caused'
  <2> SUFFICES ASSUME NEW k \in Keys, flag'[k]
               PROVE  /\ attempted'[k] # Never
                      /\ k \in ExpiringKeys => stamp'[k] <= attempted'[k]
    BY DEF Caused
  <2>1. CASE k # key
    <3>1. flag'[k] = flag[k] /\ attempted'[k] = attempted[k]
      BY <1>1, <1>2, <1>3, <2>1
    <3>2. k \in ExpiringKeys => stamp'[k] = stamp[k]
      BY <1>1, <1>2, <2>1
    <3>3. QED
      BY <3>1, <3>2 DEF IInv, Caused
  <2>2. CASE k = key
    <3>1. attempted'[k] = (IF k \in StickyKeys THEN 0 ELSE now)
      BY <1>1, <1>2, <1>3, <2>2
    <3>2. attempted'[k] # Never
      BY <1>1, <3>1 DEF Never
    <3>3. ASSUME k \in ExpiringKeys PROVE stamp'[k] <= attempted'[k]
      <4>1. attempted'[k] = now
        BY <3>1, <3>3, KeyFacts
      <4>2. stamp'[k] \in -1 .. now
        BY <1>4, <3>3, now' = now DEF TypeOK
      <4>3. QED
        BY <1>1, <4>1, <4>2
    <3>4. QED
      BY <3>2, <3>3
  <2>3. QED
    BY <2>1, <2>2
<1>7. QED
  BY <1>4, <1>5, <1>6 DEF IInv

\* Clearing the rows of some keys and forgiving at least those that may be
\* cleared keeps the invariant when what is forgiven is what is cleared.
LEMMA ClearKeeps ==
  ASSUME IInv, NEW keys, NEW forgiven, Clear(keys), Forgive(forgiven),
         keys \cap Keys = forgiven \cap Keys, UNCHANGED <<now, stamp>>
  PROVE  IInv'
<1>1. /\ now \in Nat /\ flag \in [Keys -> BOOLEAN] /\ stamp \in [ExpiringKeys -> -1 .. now]
      /\ breached \in [Keys -> -1 .. now] /\ attempted \in [Keys -> -1 .. now]
  BY BreakerAssumption DEF IInv, TypeOK
<1>2. /\ now' = now /\ stamp' = stamp
      /\ flag' \in [Keys -> BOOLEAN]
      /\ breached' \in [Keys -> -1 .. now] /\ attempted' \in [Keys -> -1 .. now]
  BY <1>1 DEF Clear, Forgive, Never
<1>3. TypeOK'
  BY <1>2 DEF IInv, TypeOK
<1>4. ASSUME NEW key \in Keys
      PROVE  /\ key \in keys => ~flag'[key] /\ breached'[key] = Never
             /\ key \notin keys => /\ flag'[key] = flag[key]
                                   /\ breached'[key] = breached[key]
                                   /\ attempted'[key] = attempted[key]
  <2>1. key \in keys <=> key \in forgiven
    OBVIOUS
  <2>2. QED
    BY <1>1, <2>1 DEF Clear, Forgive
<1>5. Answered'
  BY <1>2, <1>4 DEF IInv, Answered
<1>6. Caused'
  BY <1>2, <1>4 DEF IInv, Caused
<1>7. QED
  BY <1>3, <1>5, <1>6 DEF IInv

\* The database starts without a row.
LEMMA InitIInv == Init => IInv
<1> SUFFICES ASSUME Init PROVE IInv
  OBVIOUS
<1>1. TypeOK
  BY BreakerAssumption DEF Init, TypeOK, Never
<1>2. Answered /\ Caused
  BY DEF Init, Answered, Caused
<1>3. QED
  BY <1>1, <1>2 DEF IInv

\* Every handler keeps the invariant.
LEMMA NextIInv == IInv /\ [Next]_vars => IInv'
<1> SUFFICES ASSUME IInv, [Next]_vars PROVE IInv'
  OBVIOUS
<1>0. {"manual", "capital", "e3_perm", "daily", "weekly"} \cup Engines \subseteq Keys
  BY DEF Keys, StickyKeys, ExpiringKeys, DailyKeys
<1>1. CASE Tick
  <2>1. /\ now \in Nat /\ now' = now + 1 /\ now' \in 0 .. MaxNow
        /\ UNCHANGED <<flag, stamp, breached, attempted>>
    BY <1>1, BreakerAssumption DEF Tick, breaker, rows, history, IInv, TypeOK
  <2>2. -1 .. now \subseteq -1 .. now'
    BY <2>1
  <2>3. TypeOK'
    BY <2>1, <2>2 DEF IInv, TypeOK
  <2>4. QED
    BY <2>1, <2>3 DEF IInv, Answered, Caused
<1>2. CASE ManualResume
  BY <1>2, ClearKeeps DEF ManualResume, ManualResumed
<1>3. ASSUME NEW torn \in Torn, ManualHalt(torn) PROVE IInv'
  BY <1>0, <1>3, TripKeeps DEF ManualHalt, Torn
<1>4. ASSUME NEW torn \in Torn, ForceResumeAll(torn) PROVE IInv'
  <2>1. CASE torn
    <3>1. PICK n \in 1 .. Len(ResumeOrder) : Clear(Resumed(n)) /\ Forgive(Resumed(n))
      BY <1>4, <2>1 DEF ForceResumeAll
    <3>2. QED
      BY <1>4, <3>1, ClearKeeps DEF ForceResumeAll
  <2>2. CASE ~torn
    <3>1. Clear(Resumed(Len(ResumeOrder))) /\ Forgive(Keys) /\ UNCHANGED <<now, stamp>>
      BY <1>4, <2>2 DEF ForceResumeAll
    <3>2. Resumed(Len(ResumeOrder)) \cap Keys = Keys \cap Keys
      BY ResumeReachesAll
    <3>3. QED
      BY <3>1, <3>2, ClearKeeps
  <2>3. QED
    BY <2>1, <2>2
<1>5. ASSUME NEW torn \in Torn, CheckE3(torn) PROVE IInv'
  <2>1. CASE ~flag["e3_perm"]
    BY <1>0, <1>5, <2>1, TripKeeps DEF CheckE3, Torn
  <2>2. CASE flag["e3_perm"]
    <3>1. /\ UNCHANGED <<now, flag, stamp>>
          /\ attempted' = Marked(attempted, {"e3_perm"})
          /\ breached' = Marked(breached, {"e3_perm"})
      BY <1>5, <2>2 DEF CheckE3, Breach, rows
    <3>2. /\ now \in Nat /\ "e3_perm" \in StickyKeys
          /\ breached \in [Keys -> -1 .. now] /\ attempted \in [Keys -> -1 .. now]
      BY BreakerAssumption DEF IInv, TypeOK, StickyKeys
    <3>3. ASSUME NEW marks \in [Keys -> -1 .. now]
          PROVE  /\ Marked(marks, {"e3_perm"}) \in [Keys -> -1 .. now]
                 /\ Marked(marks, {"e3_perm"})["e3_perm"] = 0
                 /\ \A k \in Keys \ {"e3_perm"} : Marked(marks, {"e3_perm"})[k] = marks[k]
      BY <1>0, <3>2 DEF Marked
    <3>4. TypeOK'
      BY <3>1, <3>2, <3>3 DEF IInv, TypeOK
    <3>5. "e3_perm" \notin ExpiringKeys
      BY <3>2, KeyFacts
    <3>6. Answered' /\ Caused'
      BY <2>2, <3>1, <3>2, <3>3, <3>5 DEF IInv, Answered, Caused, Never
    <3>7. QED
      BY <3>4, <3>6 DEF IInv
  <2>3. QED
    BY <2>1, <2>2
<1>6. ASSUME NEW torn \in Torn, NEW low \in BOOLEAN, NEW daily \in BOOLEAN,
             NEW weekly \in BOOLEAN, CheckAndTrip(low, daily, weekly, torn)
      PROVE  IInv'
  BY <1>0, <1>6, TripKeeps DEF CheckAndTrip, Torn
<1>7. ASSUME NEW torn \in Torn, NEW engine \in Engines, CheckEngine(engine, torn)
      PROVE  IInv'
  BY <1>0, <1>7, TripKeeps DEF CheckEngine, Torn
<1>8. CASE UNCHANGED vars
  BY <1>8 DEF vars, breaker, rows, history, IInv, TypeOK, Answered, Caused
<1>9. QED
  BY <1>1, <1>2, <1>3, <1>4, <1>5, <1>6, <1>7, <1>8 DEF Next

-----------------------------------------------------------------------------
\* The invariant implies that a breach that counts is honored.
LEMMA AnsweredHonors == IInv => BreachHonored
<1> SUFFICES ASSUME IInv, NEW key \in Keys, Counts(key, breached[key])
             PROVE  InForce(key)
  BY DEF BreachHonored, Honored
<1> DEFINE t == breached[key]
<1>1. now \in Nat /\ t \in -1 .. now /\ t # Never /\ flag[key]
  BY BreakerAssumption DEF IInv, TypeOK, Answered, Counts
<1>2. ASSUME key \in ExpiringKeys
      PROVE  stamp[key] \in t .. now /\ stamp[key] # Never
  BY <1>1, <1>2 DEF IInv, TypeOK, Answered, Never
<1>3. ASSUME key \in DailyKeys PROVE ~DailyExpired(key)
  <2>1. stamp[key] \in t .. now /\ stamp[key] # Never
    BY <1>2, <1>3, KeyFacts
  <2>2. DayOf(t) <= DayOf(stamp[key]) /\ DayOf(stamp[key]) <= DayOf(now)
    BY <1>1, <2>1, DaysFollow
  <2>3. DayOf(t) = DayOf(now)
    BY <1>3 DEF Counts
  <2>4. DayOf(now) \in Int /\ DayOf(stamp[key]) \in Int
    BY <1>1, <2>1, BreakerAssumption DEF DayOf
  <2>5. QED
    BY <2>1, <2>2, <2>3, <2>4 DEF DailyExpired
<1>4. ASSUME key = "weekly" PROVE ~WeeklyExpired(key)
  <2>1. stamp[key] \in t .. now /\ stamp[key] # Never
    BY <1>2, <1>4, KeyFacts
  <2>2. now < t + WeekDays * TicksPerDay
    BY <1>4 DEF Counts
  <2>3. WeekDays * TicksPerDay \in Nat
    BY BreakerAssumption
  <2>4. QED
    BY <1>1, <2>1, <2>2, <2>3 DEF WeeklyExpired
<1>5. QED
  BY <1>1, <1>3, <1>4 DEF InForce

\* The invariant implies that a halt in force has a breach that counts.
LEMMA CausedCounts == IInv => HaltHasCause
<1> SUFFICES ASSUME IInv, NEW key \in Keys, InForce(key)
             PROVE  Counts(key, attempted[key])
  BY DEF HaltHasCause
<1> DEFINE t == attempted[key]
<1>1. now \in Nat /\ t \in -1 .. now /\ t # Never /\ flag[key]
  BY BreakerAssumption DEF IInv, TypeOK, Caused, InForce
<1>2. ASSUME key \in ExpiringKeys PROVE stamp[key] \in -1 .. t
  BY <1>1, <1>2 DEF IInv, TypeOK, Caused
<1>3. ASSUME key \in DailyKeys PROVE DayOf(now) = DayOf(t)
  <2>1. stamp[key] \in -1 .. t /\ stamp[key] # Never
    BY <1>2, <1>3, KeyFacts DEF InForce, DailyExpired
  <2>2. DayOf(stamp[key]) <= DayOf(t) /\ DayOf(t) <= DayOf(now)
    BY <1>1, <2>1, DaysFollow
  <2>3. ~(DayOf(now) > DayOf(stamp[key]))
    BY <1>3 DEF InForce, DailyExpired
  <2>4. DayOf(now) \in Int /\ DayOf(stamp[key]) \in Int /\ DayOf(t) \in Int
    BY <1>1, <2>1, BreakerAssumption DEF DayOf
  <2>5. QED
    BY <2>2, <2>3, <2>4
<1>4. ASSUME key = "weekly" PROVE now < t + WeekDays * TicksPerDay
  <2>1. stamp[key] \in -1 .. t
    BY <1>2, <1>4, KeyFacts
  <2>2. ~(now >= stamp[key] + WeekDays * TicksPerDay)
    BY <1>4 DEF InForce, WeeklyExpired
  <2>3. WeekDays * TicksPerDay \in Nat
    BY BreakerAssumption
  <2>4. QED
    BY <1>1, <2>1, <2>2, <2>3
<1>5. QED
  BY <1>1, <1>3, <1>4 DEF Counts

-----------------------------------------------------------------------------
\* The invariant holds throughout.
THEOREM Invariance == Spec => []IInv
BY InitIInv, NextIInv, PTL DEF Spec

\* No halt is stamped in the future, whatever is cut off.
THEOREM TypeCorrect == Spec => []TypeOK
<1>1. IInv => TypeOK
  BY DEF IInv
<1>2. QED
  BY <1>1, Invariance, PTL

\* A breach that a check answered keeps its halt in force as long as it counts.
THEOREM BreachesAreHonored == Spec => []BreachHonored
BY AnsweredHonors, Invariance, PTL

\* No halt is in force without a breach that counts.
THEOREM HaltsHaveCauses == Spec => []HaltHasCause
BY CausedCounts, Invariance, PTL

-----------------------------------------------------------------------------
(* The market maker's own halts and its P&L (MmBreaker).                   *)

\* A finished check that saw the permanent limit breached left its row set.
PermAnswered == breached["mm_perm"] # Never => flag["mm_perm"]

\* The stored baseline of a world, when its day was begun by a whole read, is
\* what its rows added up to before the history began to count.
Baselined(s) ==
  /\ baseDay[s] = earned[s].day
  /\ \/ baseDay[s] = Never
     \/ earned[s].cut
     \/ base[s] # <<>> /\ base[s][1] + earned[s].pnl = Total(s)

MInv == MmTypeOK /\ PermAnswered /\ \A s \in Scopes : Baselined(s)

-----------------------------------------------------------------------------
(* The sum over the rows of mm_inventory.                                  *)

\* A set of natural numbers that is not empty has a least element.
LEMMA LeastNumber ==
  ASSUME NEW T \in SUBSET Nat, T # {}
  PROVE  \E m \in T : \A x \in T : m <= x
  <1> DEFINE R == OpToRel(<, Nat)
  <1>1. IsWellFoundedOn(R, Nat)
    BY NatLessThanWellFounded
  <1>2. PICK m \in T : \A x \in T : ~ (<<x, m>> \in R)
    BY <1>1, WFMin
  <1>3. \A x \in T : x < m => <<x, m>> \in R
    BY DEF OpToRel
  <1> HIDE DEF R
  <1>4. \A x \in T : ~ (x < m)
    BY <1>2, <1>3
  <1> QED
    BY <1>4

\* f adds up the first n numbers of h.
AddsUp(f, h, n) ==
  /\ f \in [0 .. n -> Int]
  /\ f[0] = 0
  /\ \A m \in 1 .. n : f[m] = f[m - 1] + h[m]

\* Every row of numbers adds up: take the shortest that does not.
LEMMA SumExists ==
  ASSUME NEW h \in [1 .. Markets -> Int]
  PROVE  \E f : AddsUp(f, h, Markets)
  <1> DEFINE T == {n \in 0 .. Markets : ~ \E f : AddsUp(f, h, n)}
  <1>0. Markets \in Nat
    BY MmAssumption
  <1>1. ASSUME T # {} PROVE FALSE
    <2>1. PICK n \in T : \A x \in T : n <= x
      <3>1. T \in SUBSET Nat
        BY <1>0
      <3> HIDE DEF T
      <3> QED
        BY <1>1, <3>1, LeastNumber
    <2>2. CASE n = 0
      <3>1. AddsUp([m \in 0 .. 0 |-> 0], h, 0)
        BY DEF AddsUp
      <3> QED
        BY <2>1, <2>2, <3>1
    <2>3. CASE n # 0
      <3>1. n \in 1 .. Markets /\ n - 1 \in 0 .. Markets /\ n - 1 \notin T
        BY <1>0, <2>1, <2>3
      <3>2. PICK f : AddsUp(f, h, n - 1)
        BY <3>1
      <3> DEFINE g == [m \in 0 .. n |-> IF m = n THEN f[n - 1] + h[n] ELSE f[m]]
      <3>3. f[n - 1] \in Int /\ h[n] \in Int /\ \A m \in 0 .. n - 1 : f[m] \in Int
        BY <3>1, <3>2 DEF AddsUp
      <3>4. g \in [0 .. n -> Int]
        BY <3>1, <3>3
      <3>5. g[0] = 0
        BY <3>1, <3>2 DEF AddsUp
      <3>6. ASSUME NEW m \in 1 .. n PROVE g[m] = g[m - 1] + h[m]
        <4>1. CASE m = n
          BY <3>1, <4>1
        <4>2. CASE m # n
          <5>1. m \in 1 .. n - 1 /\ m - 1 # n /\ m - 1 \in 0 .. n /\ m \in 0 .. n
            BY <3>1, <4>2
          <5>2. f[m] = f[m - 1] + h[m]
            BY <3>2, <5>1 DEF AddsUp
          <5> QED
            BY <4>2, <5>1, <5>2
        <4> QED
          BY <4>1, <4>2
      <3>7. AddsUp(g, h, n)
        BY <3>4, <3>5, <3>6 DEF AddsUp
      <3> QED
        BY <2>1, <3>7
    <2> QED
      BY <2>2, <2>3
  <1>2. Markets \in 0 .. Markets
    BY <1>0
  <1> QED
    BY <1>1, <1>2

\* SumOf is the last of the numbers that add up.
LEMMA SumFacts ==
  ASSUME NEW h \in [1 .. Markets -> Int]
  PROVE  \E f : AddsUp(f, h, Markets) /\ SumOf(h) = f[Markets]
  <1>0. Markets \in Nat
    BY MmAssumption
  <1> DEFINE F(f) == [m \in 0 .. Markets |-> IF m = 0 THEN 0 ELSE f[m - 1] + h[m]]
             u == CHOOSE f : f = F(f)
  <1>1. PICK f : AddsUp(f, h, Markets)
    BY SumExists
  <1>2. f = F(f)
    BY <1>0, <1>1 DEF AddsUp
  <1>3. u = F(u)
    BY <1>2
  <1>4. SumOf(h) = u[Markets]
    BY DEF SumOf
  <1> HIDE DEF u
  <1>5. \A m \in 0 .. Markets : u[m] = IF m = 0 THEN 0 ELSE u[m - 1] + h[m]
    BY <1>3
  <1> DEFINE T == {n \in 0 .. Markets : u[n] \notin Int}
  <1>6. ASSUME T # {} PROVE FALSE
    <2>1. PICK n \in T : \A x \in T : n <= x
      <3>1. T \in SUBSET Nat
        BY <1>0
      <3> HIDE DEF T
      <3> QED
        BY <1>6, <3>1, LeastNumber
    <2>2. n # 0
      BY <1>0, <1>5, <2>1
    <2>3. n - 1 \in 0 .. Markets /\ n \in 1 .. Markets /\ n - 1 \notin T
      BY <1>0, <2>1, <2>2
    <2>4. u[n - 1] \in Int /\ h[n] \in Int
      BY <2>3
    <2> QED
      BY <1>5, <2>1, <2>2, <2>4
  <1>7. u = [m \in 0 .. Markets |-> u[m]]
    BY <1>3
  <1>8. u \in [0 .. Markets -> Int]
    BY <1>6, <1>7
  <1>9. AddsUp(u, h, Markets)
    BY <1>0, <1>5, <1>8 DEF AddsUp
  <1> QED
    BY <1>4, <1>9

\* Replacing one number changes the sum by the difference: take the first place
\* where the partial sums do not differ so.
LEMMA SumChanges ==
  ASSUME NEW h \in [1 .. Markets -> Int], NEW k \in 1 .. Markets, NEW v \in Int
  PROVE  /\ SumOf(h) \in Int
         /\ SumOf([h EXCEPT ![k] = v]) = SumOf(h) + v - h[k]
  <1>0. Markets \in Nat
    BY MmAssumption
  <1> DEFINE e == [h EXCEPT ![k] = v]
  <1>1. e \in [1 .. Markets -> Int]
    OBVIOUS
  <1>2. PICK f : AddsUp(f, h, Markets) /\ SumOf(h) = f[Markets]
    BY SumFacts
  <1>3. PICK g : AddsUp(g, e, Markets) /\ SumOf(e) = g[Markets]
    BY <1>1, SumFacts
  <1> DEFINE d(m) == IF m < k THEN 0 ELSE v - h[k]
             T == {n \in 0 .. Markets : g[n] # f[n] + d(n)}
  <1>4. ASSUME T # {} PROVE FALSE
    <2>1. PICK n \in T : \A x \in T : n <= x
      <3>1. T \in SUBSET Nat
        BY <1>0
      <3> HIDE DEF T
      <3> QED
        BY <1>4, <3>1, LeastNumber
    <2>2. n # 0
      BY <1>0, <1>2, <1>3, <2>1 DEF AddsUp
    <2>3. n - 1 \in 0 .. Markets /\ n \in 1 .. Markets /\ n - 1 \notin T
      BY <1>0, <2>1, <2>2
    <2>4. g[n - 1] = f[n - 1] + d(n - 1)
      BY <2>3
    <2>5. f[n] = f[n - 1] + h[n] /\ g[n] = g[n - 1] + e[n]
      BY <1>2, <1>3, <2>3 DEF AddsUp
    <2>6. f[n - 1] \in Int /\ h[n] \in Int /\ h[k] \in Int
      BY <1>2, <2>3 DEF AddsUp
    <2>7. g[n] = f[n] + d(n)
      <3>1. CASE n < k
        BY <2>3, <2>4, <2>5, <2>6, <3>1
      <3>2. CASE n = k
        BY <2>3, <2>4, <2>5, <2>6, <3>2
      <3>3. CASE n > k
        BY <2>3, <2>4, <2>5, <2>6, <3>3
      <3> QED
        BY <2>3, <3>1, <3>2, <3>3
    <2> QED
      BY <2>1, <2>7
  <1>5. g[Markets] = f[Markets] + d(Markets) /\ ~(Markets < k)
    BY <1>0, <1>4
  <1>6. f[Markets] \in Int /\ h[k] \in Int
    BY <1>0, <1>2 DEF AddsUp
  <1> QED
    BY <1>2, <1>3, <1>5, <1>6

\* Every world has a total.
LEMMA TotalTyped ==
  ASSUME row \in [1 .. Markets -> InventoryRow], NEW s \in Scopes
  PROVE  Total(s) \in Int
  <1> DEFINE h == [m \in 1 .. Markets |-> Share(row[m], s)]
  <1>0. Markets \in Nat
    BY MmAssumption
  <1>1. h \in [1 .. Markets -> Int]
    BY MmAssumption DEF InventoryRow, Share
  <1>2. PICK f : AddsUp(f, h, Markets) /\ SumOf(h) = f[Markets]
    BY <1>1, SumFacts
  <1> QED
    BY <1>0, <1>2 DEF AddsUp, Total

\* Writing a row over counts the new one and no longer counts the old.
LEMMA TotalMoves ==
  ASSUME row \in [1 .. Markets -> InventoryRow], NEW k \in 1 .. Markets,
         NEW new \in InventoryRow, row' = [row EXCEPT ![k] = new], NEW s \in Scopes
  PROVE  Total(s)' = Total(s) + Share(new, s) - Share(row[k], s)
  <1> DEFINE h == [m \in 1 .. Markets |-> Share(row[m], s)]
             v == Share(new, s)
  <1>1. h \in [1 .. Markets -> Int] /\ v \in Int
    BY MmAssumption DEF InventoryRow, Share
  <1>2. [m \in 1 .. Markets |-> Share(row'[m], s)] = [h EXCEPT ![k] = v]
    OBVIOUS
  <1>3. h[k] = Share(row[k], s)
    OBVIOUS
  <1>4. Total(s) = SumOf(h) /\ Total(s)' = SumOf([h EXCEPT ![k] = v])
    BY <1>2 DEF Total
  <1> HIDE DEF h, v
  <1>5. SumOf([h EXCEPT ![k] = v]) = SumOf(h) + v - h[k]
    BY <1>1, SumChanges
  <1> QED
    BY <1>3, <1>4, <1>5 DEF v

-----------------------------------------------------------------------------
LEMMA MmKeys == /\ {"mm_perm", "mm_daily"} \subseteq Keys
                /\ "mm_perm" \in StickyKeys /\ "mm_daily" \in ExpiringKeys
  BY DEF Keys, StickyKeys, ExpiringKeys, DailyKeys

LEMMA ClockFacts ==
  ASSUME TypeOK
  PROVE  now \in Nat /\ DayOf(now) \in Nat /\ DayOf(now) # Never
  <1>1. now \in Nat /\ TicksPerDay \in Nat \ {0}
    BY BreakerAssumption DEF TypeOK
  <1>2. now \div TicksPerDay \in Nat
    BY <1>1
  <1> QED
    BY <1>1, <1>2 DEF DayOf, Never

\* Marking some keys keeps the history within its type.
LEMMA MarksTyped ==
  ASSUME TypeOK, NEW marks \in [Keys -> -1 .. now], NEW keys
  PROVE  /\ Marked(marks, keys) \in [Keys -> -1 .. now]
         /\ \A key \in Keys \ keys : Marked(marks, keys)[key] = marks[key]
  BY ClockFacts DEF Marked

\* A trip of a halt keeps the rows within their type.
LEMMA WriteTyped ==
  ASSUME TypeOK, NEW key \in Keys, NEW torn \in BOOLEAN, WriteTrip(key, torn)
  PROVE  /\ flag' = [flag EXCEPT ![key] = TRUE]
         /\ flag' \in [Keys -> BOOLEAN]
         /\ stamp' \in [ExpiringKeys -> -1 .. now]
  <1>1. now \in -1 .. now
    BY ClockFacts
  <1>2. flag' = [flag EXCEPT ![key] = TRUE] /\ flag' \in [Keys -> BOOLEAN]
    BY DEF WriteTrip, TypeOK
  <1>3. stamp' = stamp \/ stamp' = [stamp EXCEPT ![key] = now]
    BY DEF WriteTrip
  <1> QED
    BY <1>1, <1>2, <1>3 DEF TypeOK

-----------------------------------------------------------------------------
\* Steps that only touch the breaker leave the P&L of the worlds as it was.
LEMMA PnlUntouched ==
  ASSUME MInv, UNCHANGED <<now, scope, row, baseDay, base, earned>>,
         TypeOK', PermAnswered', report' = report \/ report' = NoReport
  PROVE  MInv'
  <1>1. \A s \in Scopes : Total(s)' = Total(s)
    BY DEF Total
  <1> QED
    BY <1>1 DEF MInv, MmTypeOK, Baselined, DayOf

\* check_mm_and_trip.
LEMMA CheckKeeps ==
  ASSUME MInv, NEW unrealized, NEW torn \in BOOLEAN, CheckMm(unrealized, torn)
  PROVE  MInv'
  <1> DEFINE perm  == Lost(unrealized) /\ ~flag["mm_perm"]
             daily == ~perm /\ LostToday /\ ~flag["mm_daily"]
             keys  == {key \in {"mm_perm", "mm_daily"} :
                        \/ key = "mm_perm" /\ report.total + unrealized <= -CumLimit
                        \/ key = "mm_daily" /\ LostToday /\ ~perm
                             /\ earned[scope].day = DayOf(now)}
  <1>1. /\ TypeOK /\ PermAnswered
        /\ breached \in [Keys -> -1 .. now] /\ attempted \in [Keys -> -1 .. now]
    BY DEF MInv, MmTypeOK, TypeOK
  <1>2. /\ \/ perm /\ WriteTrip("mm_perm", torn)
           \/ daily /\ WriteTrip("mm_daily", torn)
           \/ ~perm /\ ~daily /\ ~torn /\ UNCHANGED rows
        /\ attempted' = Marked(attempted, keys)
        /\ breached' = IF torn THEN breached ELSE Marked(breached, keys)
        /\ report' = NoReport
        /\ UNCHANGED <<now, scope, row, baseDay, base, earned>>
    BY DEF CheckMm, Breach
  <1>3. /\ flag' \in [Keys -> BOOLEAN]
        /\ stamp' \in [ExpiringKeys -> -1 .. now]
        /\ flag["mm_perm"] => flag'["mm_perm"]
        /\ perm => flag'["mm_perm"]
    <2>1. CASE perm /\ WriteTrip("mm_perm", torn)
      BY <1>1, <2>1, MmKeys, WriteTyped DEF TypeOK
    <2>2. CASE daily /\ WriteTrip("mm_daily", torn)
      BY <1>1, <2>2, MmKeys, WriteTyped DEF TypeOK
    <2>3. CASE ~perm /\ UNCHANGED rows
      BY <1>1, <2>3 DEF rows, TypeOK
    <2> QED
      BY <1>2, <2>1, <2>2, <2>3
  <1>4. TypeOK'
    <2>1. attempted' \in [Keys -> -1 .. now]
      BY <1>1, <1>2, MarksTyped
    <2>2. breached' \in [Keys -> -1 .. now]
      BY <1>1, <1>2, MarksTyped
    <2> QED
      BY <1>1, <1>2, <1>3, <2>1, <2>2 DEF TypeOK
  <1>5. PermAnswered'
    <2>1. CASE "mm_perm" \in keys
      <3>1. Lost(unrealized)
        BY <2>1 DEF Lost
      <3> QED
        BY <1>3, <3>1 DEF PermAnswered
    <2>2. CASE "mm_perm" \notin keys
      <3>1. breached'["mm_perm"] = breached["mm_perm"]
        BY <1>1, <1>2, <2>2, MmKeys, MarksTyped
      <3> QED
        BY <1>1, <1>3, <3>1 DEF PermAnswered
    <2> QED
      BY <2>1, <2>2
  <1> QED
    BY <1>2, <1>4, <1>5, PnlUntouched

\* force_resume_all, whole or cut.
LEMMA ResumeKeeps ==
  ASSUME MInv, NEW torn \in BOOLEAN, ForceResumeAll(torn), UNCHANGED mm
  PROVE  MInv'
  <1>1. PICK keys, forgiven :
          /\ Clear(keys) /\ Forgive(forgiven) /\ UNCHANGED <<now, stamp>>
          /\ keys \cap Keys = forgiven \cap Keys
    <2>1. CASE torn
      BY <2>1 DEF ForceResumeAll
    <2>2. CASE ~torn
      BY <2>2, ResumeReachesAll DEF ForceResumeAll
    <2> QED
      BY <2>1, <2>2
  <1>2. TypeOK /\ PermAnswered
    BY DEF MInv, MmTypeOK
  <1>3. TypeOK'
    BY <1>1, <1>2, ClockFacts DEF Clear, Forgive, TypeOK, Never
  <1>4. PermAnswered'
    BY <1>1, <1>2, MmKeys DEF Clear, Forgive, PermAnswered
  <1> QED
    BY <1>1, <1>3, <1>4, PnlUntouched DEF mm

\* mm_pnl_today_and_total: the invariant, and what is reported.
LEMMA ReadKeeps ==
  ASSUME MInv, NEW torn \in BOOLEAN, ReadPnl(torn)
  PROVE  /\ MInv'
         /\ report' # NoReport =>
              earned'[scope].cut \/ report'.today = earned'[scope].pnl
  <1> DEFINE sum == Total(scope)
             newDay == baseDay[scope] # DayOf(now)
             baseline == IF newDay \/ base[scope] = <<>> THEN sum ELSE base[scope][1]
  <1>1. /\ torn => newDay
        /\ baseDay' = [baseDay EXCEPT ![scope] = DayOf(now)]
        /\ base' = IF newDay /\ ~torn THEN [base EXCEPT ![scope] = <<sum>>] ELSE base
        /\ report' = IF torn THEN NoReport ELSE [today |-> sum - baseline, total |-> sum]
        /\ earned' = IF earned[scope].day # DayOf(now)
                     THEN [earned EXCEPT ![scope] =
                             [day |-> DayOf(now), pnl |-> 0, cut |-> torn]]
                     ELSE earned
        /\ UNCHANGED <<vars, scope, row>>
    BY DEF ReadPnl, Row, Today
  <1>2. /\ scope \in Scopes /\ sum \in Int
        /\ row \in [1 .. Markets -> InventoryRow]
        /\ baseDay \in [Scopes -> -1 .. DayOf(now)]
        /\ base \in [Scopes -> Seq(Int)] /\ \A s \in Scopes : Len(base[s]) <= 1
        /\ earned \in [Scopes -> [day : -1 .. DayOf(now), pnl : Int, cut : BOOLEAN]]
        /\ TypeOK /\ PermAnswered
        /\ DayOf(now) \in Nat /\ DayOf(now) # Never
    BY ClockFacts, TotalTyped DEF MInv, MmTypeOK
  <1>3. /\ now' = now /\ DayOf(now)' = DayOf(now) /\ TypeOK' /\ PermAnswered'
        /\ scope' = scope /\ row' = row /\ \A s \in Scopes : Total(s)' = Total(s)
    BY <1>1, <1>2 DEF vars, breaker, rows, history, TypeOK, PermAnswered, DayOf, Total
  <1>4. DayOf(now) \in -1 .. DayOf(now)
    BY <1>2
  <1>5. newDay <=> earned[scope].day # DayOf(now)
    BY <1>2 DEF MInv, Baselined
  <1>6. base[scope] # <<>> => base[scope][1] \in Int
    BY <1>2
  <1>7. baseline \in Int
    BY <1>2, <1>6
  <1>8. /\ baseDay' \in [Scopes -> -1 .. DayOf(now)]
        /\ base' \in [Scopes -> Seq(Int)] /\ \A s \in Scopes : Len(base'[s]) <= 1
        /\ earned' \in [Scopes -> [day : -1 .. DayOf(now), pnl : Int, cut : BOOLEAN]]
    BY <1>1, <1>2, <1>4
  <1>9. report' = NoReport \/ report' \in [today : Int, total : Int]
    BY <1>1, <1>2, <1>7
  <1>10. ASSUME NEW s \in Scopes
         PROVE  Baselined(s)'
    <2>1. CASE s # scope
      BY <1>1, <1>2, <1>3, <2>1 DEF MInv, Baselined
    <2>2. CASE s = scope /\ newDay
      BY <1>1, <1>2, <1>3, <1>5, <2>2 DEF Baselined
    <2>3. CASE s = scope /\ ~newDay
      BY <1>1, <1>2, <1>3, <1>5, <2>3 DEF MInv, Baselined
    <2> QED
      BY <2>1, <2>2, <2>3
  <1>11. ASSUME report' # NoReport
         PROVE  earned'[scope].cut \/ report'.today = earned'[scope].pnl
    <2>1. report'.today = sum - baseline
      BY <1>1, <1>11
    <2>2. CASE newDay
      BY <1>1, <1>2, <1>5, <2>1, <2>2
    <2>3. CASE ~newDay
      BY <1>1, <1>2, <1>5, <1>6, <2>1, <2>3 DEF MInv, Baselined
    <2> QED
      BY <2>2, <2>3
  <1> QED
    BY <1>2, <1>3, <1>8, <1>9, <1>10, <1>11 DEF MInv, MmTypeOK

-----------------------------------------------------------------------------
LEMMA MmNextKeeps == MInv /\ [MmNext]_mmVars => MInv'
  <1> SUFFICES ASSUME MInv, [MmNext]_mmVars PROVE MInv'
    OBVIOUS
  <1> USE DEF mm
  <1>1. CASE Realize
    <2>1. PICK m \in 1 .. Markets, pnl \in Pnl :
            LET new == [world |-> scope, pnl |-> pnl]
            IN  /\ row' = [row EXCEPT ![m] = new]
                /\ earned' = [s \in Scopes |->
                     [earned[s] EXCEPT !.pnl = @ + Share(new, s) - Share(row[m], s)]]
      BY <1>1 DEF Realize
    <2> DEFINE new == [world |-> scope, pnl |-> pnl]
    <2>2. UNCHANGED <<now, flag, stamp, breached, attempted, scope, baseDay, base, report>>
      BY <1>1 DEF Realize, vars, breaker, rows, history
    <2>3. row \in [1 .. Markets -> InventoryRow] /\ new \in InventoryRow
      BY DEF MInv, MmTypeOK, InventoryRow
    <2>4. \A s \in Scopes : Share(new, s) \in Int /\ Share(row[m], s) \in Int
      BY <2>3, MmAssumption DEF InventoryRow, Share
    <2>5. row' = [row EXCEPT ![m] = new]
      BY <2>1
    <2>6. \A s \in Scopes : earned'[s] =
            [earned[s] EXCEPT !.pnl = @ + Share(new, s) - Share(row[m], s)]
      BY <2>1
    <2>7. \A s \in Scopes :
            /\ Total(s)' = Total(s) + Share(new, s) - Share(row[m], s)
            /\ Total(s) \in Int
      BY <2>3, <2>5, TotalMoves, TotalTyped
    <2> HIDE DEF new
    <2>8. ASSUME NEW s \in Scopes
          PROVE  /\ earned[s] \in [day : -1 .. DayOf(now), pnl : Int, cut : BOOLEAN]
                 /\ earned'[s] \in [day : -1 .. DayOf(now), pnl : Int, cut : BOOLEAN]
                 /\ earned'[s].day = earned[s].day /\ earned'[s].cut = earned[s].cut
                 /\ earned'[s].pnl =
                      earned[s].pnl + Share(new, s) - Share(row[m], s)
      <3>1. earned[s] \in [day : -1 .. DayOf(now), pnl : Int, cut : BOOLEAN]
        BY DEF MInv, MmTypeOK
      <3> DEFINE p == earned[s].pnl + Share(new, s) - Share(row[m], s)
      <3>2. p \in Int
        BY <2>4, <3>1
      <3>3. earned'[s] = [earned[s] EXCEPT !.pnl = p]
        BY <2>6
      <3> HIDE DEF p
      <3>4. /\ earned'[s] \in [day : -1 .. DayOf(now), pnl : Int, cut : BOOLEAN]
            /\ earned'[s].day = earned[s].day /\ earned'[s].cut = earned[s].cut
            /\ earned'[s].pnl = p
        BY <3>1, <3>2, <3>3
      <3> QED
        BY <3>1, <3>4 DEF p
    <2>9. earned' \in [Scopes -> [day : -1 .. DayOf(now), pnl : Int, cut : BOOLEAN]]
      <3>1. earned' = [s \in Scopes |-> earned'[s]]
        BY <2>1
      <3> QED
        BY <2>8, <3>1
    <2>10. MmTypeOK'
      <3>1. DayOf(now)' = DayOf(now) /\ TypeOK'
        BY <2>2 DEF MInv, MmTypeOK, TypeOK, DayOf
      <3> QED
        BY <2>2, <2>3, <2>5, <2>9, <3>1 DEF MInv, MmTypeOK
    <2>11. ASSUME NEW s \in Scopes
           PROVE  Baselined(s)'
      <3>1. base[s] # <<>> => base[s][1] \in Int
        BY DEF MInv, MmTypeOK
      <3> QED
        BY <2>2, <2>4, <2>7, <2>8, <3>1 DEF MInv, Baselined
    <2> QED
      BY <2>2, <2>10, <2>11 DEF MInv, PermAnswered
  <1>2. CASE Restart
    BY <1>2 DEF Restart, vars, breaker, rows, history, MInv, MmTypeOK, TypeOK,
                PermAnswered, Baselined, DayOf, Total
  <1>3. CASE Tick /\ UNCHANGED mm
    <2>1. /\ now \in Nat /\ now' = now + 1 /\ now' \in 0 .. MaxNow
          /\ UNCHANGED <<flag, stamp, breached, attempted>> /\ UNCHANGED mm
      BY <1>3, BreakerAssumption DEF Tick, breaker, rows, history, MInv, MmTypeOK, TypeOK
    <2>2. -1 .. now \subseteq -1 .. now'
      BY <2>1
    <2>3. TypeOK'
      BY <2>1, <2>2 DEF MInv, MmTypeOK, TypeOK
    <2>4. DayOf(now) \in Nat /\ DayOf(now') \in Nat /\ DayOf(now) <= DayOf(now')
      BY <2>1, BreakerAssumption, DaysFollow DEF DayOf
    <2>5. -1 .. DayOf(now) \subseteq -1 .. DayOf(now')
      BY <2>4
    <2>6. MmTypeOK'
      BY <2>1, <2>3, <2>5 DEF MInv, MmTypeOK, DayOf
    <2> QED
      BY <2>1, <2>6 DEF MInv, PermAnswered, Baselined, Total
  <1>4. ASSUME NEW torn \in Torn, ReadPnl(torn) PROVE MInv'
    BY <1>4, ReadKeeps DEF Torn
  <1>5. ASSUME NEW torn \in Torn, NEW unrealized \in Unrealized,
               CheckMm(unrealized, torn)
        PROVE  MInv'
    BY <1>5, CheckKeeps DEF Torn
  <1>6. ASSUME NEW torn \in Torn, ForceResumeAll(torn), UNCHANGED mm PROVE MInv'
    BY <1>6, ResumeKeeps DEF Torn
  <1>7. CASE UNCHANGED mmVars
    BY <1>7 DEF mmVars, vars, breaker, rows, history, MInv, MmTypeOK, TypeOK,
                PermAnswered, Baselined, DayOf, Total
  <1> QED
    BY <1>1, <1>2, <1>3, <1>4, <1>5, <1>6, <1>7 DEF MmNext

LEMMA MmInitHolds == MmInit => MInv
  <1> SUFFICES ASSUME MmInit PROVE MInv
    OBVIOUS
  <1>1. TypeOK /\ PermAnswered
    BY InitIInv, MmKeys DEF MmInit, Init, IInv, PermAnswered
  <1>2. NoRow \in InventoryRow
    BY MmAssumption DEF NoRow, InventoryRow
  <1>3. Never \in -1 .. DayOf(now)
    BY <1>1, ClockFacts DEF Never
  <1>4. MmTypeOK
    BY <1>1, <1>2, <1>3 DEF MmInit, MmTypeOK
  <1> QED
    BY <1>1, <1>4 DEF MInv, MmInit, Baselined

-----------------------------------------------------------------------------
\* The rows, the baselines and the history agree throughout.
THEOREM MmInvariance == MmSpec => []MInv
  BY MmInitHolds, MmNextKeeps, PTL DEF MmSpec

\* The table holds P&Ls, and no baseline is dated after the UTC day.
THEOREM MmTypeCorrect == MmSpec => []MmTypeOK
  <1>1. MInv => MmTypeOK
    BY DEF MInv
  <1> QED
    BY <1>1, MmInvariance, PTL

\* The permanent halt stays in force from the check that tripped it to the
\* resume: no midnight, restart, recovery of the P&L or cut write ends it.
THEOREM FloorIsHonored == MmSpec => []FloorHonored
  <1>1. MInv => FloorHonored
    <2>1. "mm_perm" \notin DailyKeys
      BY BreakerAssumption DEF DailyKeys, ResumedEngines
    <2> QED
      BY <2>1 DEF MInv, PermAnswered, FloorHonored, Honored, Counts, InForce
  <1> QED
    BY <1>1, MmInvariance, PTL

\* The day's P&L that the loop reads is what the rows of its world have gained
\* since the day's first read, rows that the other world has taken over since
\* counted out, unless that read was cut between its two writes.
THEOREM TodayIsExact == MmSpec => TodayExact
  <1>1. MInv /\ [MmNext]_mmVars =>
          [report = NoReport /\ report' # NoReport =>
             earned'[scope].cut \/ report'.today = earned'[scope].pnl]_mmVars
    <2> SUFFICES ASSUME MInv, MmNext, report = NoReport, report' # NoReport
                 PROVE  earned'[scope].cut \/ report'.today = earned'[scope].pnl
      OBVIOUS
    <2>1. PICK torn \in Torn : ReadPnl(torn)
      BY DEF MmNext, mm, Realize, Restart, CheckMm
    <2> QED
      BY <2>1, ReadKeeps DEF Torn
  <1> QED
    BY <1>1, MmInvariance, PTL DEF MmSpec, TodayExact
=============================================================================
