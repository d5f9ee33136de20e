--------------------------- MODULE CircuitBreaker ---------------------------
(***************************************************************************)
(* The circuit breaker of risk/circuit_breaker.py: halts kept in the       *)
(* circuit_state table, one "1"/"0" row per key and, for the halts that    *)
(* expire, a second row with the time they were set.  There is no state    *)
(* outside the database, so a crash is a handler cut off between two of    *)
(* its writes; torn is TRUE in the executions where that happens.          *)
(*                                                                         *)
(* The clock counts ticks, TicksPerDay of them to a UTC day.  The P&L and  *)
(* balance arguments of the global checks come from callers outside this   *)
(* repository; what matters of them is which limit they breach.            *)
(*                                                                         *)
(* The halts of the market maker share the table and its readers; their    *)
(* checks are in MmBreaker.                                                *)
(***************************************************************************)
EXTENDS Integers, Sequences

CONSTANTS
  Engines,      \* engines with a daily limit in engine_daily_loss_limit_usd
  TicksPerDay,  \* clock ticks in a UTC day
  WeekDays,     \* days a weekly halt lasts: 7
  Crashes,      \* may the process die between two writes?
  MaxNow        \* bound: the last tick

\* The engines force_resume_all names.
ResumedEngines == {"E1", "E2", "E3", "E4"}

ASSUME BreakerAssumption ==
  /\ Engines \subseteq ResumedEngines
  /\ TicksPerDay \in Nat \ {0} /\ WeekDays \in Nat \ {0}
  /\ Crashes \in BOOLEAN /\ MaxNow \in Nat

VARIABLES
  now,       \* the UTC clock
  flag,      \* flag[key]: the row of the key holds "1"
  stamp,     \* stamp[key]: its set_at, or Never; written for every key, but
             \* read only for the expiring ones, which alone are kept here
  breached,  \* history: the last breach of the key whose trip completed,
  attempted  \* and the last breach at all, since the key was last resumed

rows == <<flag, stamp>>
history == <<breached, attempted>>
breaker == <<rows, history>>
vars == <<now, breaker>>

DailyKeys == {"daily", "mm_daily"} \cup Engines
ExpiringKeys == DailyKeys \cup {"weekly"}
StickyKeys == {"manual", "capital", "e3_perm", "mm_perm"}
Keys == StickyKeys \cup ExpiringKeys

Never == -1
DayOf(t) == t \div TicksPerDay

\* _now() is past the midnight that follows set_at, or no set_at can be read.
DailyExpired(key) == stamp[key] = Never \/ DayOf(now) > DayOf(stamp[key])

WeeklyExpired(key) == stamp[key] = Never \/ now >= stamp[key] + WeekDays * TicksPerDay

InForce(key) ==
  /\ flag[key]
  /\ key \in DailyKeys => ~DailyExpired(key)
  /\ key = "weekly" => ~WeeklyExpired(key)

Halted == \E key \in {"manual", "capital", "daily", "weekly"} : InForce(key)
MmHalted == \E key \in {"manual", "capital", "mm_perm", "mm_daily"} : InForce(key)
EngineHalted(engine) == InForce(engine) \/ (engine = "E3" /\ InForce("e3_perm"))

-----------------------------------------------------------------------------
(* The writes.  torn: the process dies after the first of them.            *)

Torn == IF Crashes THEN BOOLEAN ELSE {FALSE}

\* Mutant: the time stored is that of the coming midnight.
WriteTripMidnight(key, torn) ==
  /\ flag' = [flag EXCEPT ![key] = TRUE]
  /\ stamp' = IF torn \/ key \in StickyKeys THEN stamp
              ELSE [stamp EXCEPT ![key] = (DayOf(now) + 1) * TicksPerDay]

\* Mutant: a halt that is set already is not stamped again.
WriteTripOnce(key, torn) ==
  /\ flag' = [flag EXCEPT ![key] = TRUE]
  /\ stamp' = IF torn \/ key \in StickyKeys \/ flag[key] THEN stamp
              ELSE [stamp EXCEPT ![key] = now]

\* _trip: the flag, then the time.
WriteTrip(key, torn) ==
  /\ flag' = [flag EXCEPT ![key] = TRUE]
  /\ stamp' = IF torn \/ key \in StickyKeys THEN stamp ELSE [stamp EXCEPT ![key] = now]

\* The history of breaches that the code answers with a trip, or should; the
\* time matters for the expiring halts only.
Marked(marks, keys) ==
  [key \in Keys |-> IF key \notin keys THEN marks[key]
                    ELSE IF key \in StickyKeys THEN 0 ELSE now]

Breach(keys, torn) ==
  /\ attempted' = Marked(attempted, keys)
  /\ breached' = IF torn THEN breached ELSE Marked(breached, keys)

Trip(key, torn) == WriteTrip(key, torn) /\ Breach({key}, torn)

\* check_and_trip: one halt per call, the first whose limit is breached.
CheckAndTrip(lowBalance, dailyLoss, weeklyLoss, torn) ==
  /\ \/ lowBalance /\ Trip("capital", torn)
     \/ ~lowBalance /\ dailyLoss /\ Trip("daily", torn)
     \/ ~lowBalance /\ ~dailyLoss /\ weeklyLoss /\ Trip("weekly", torn)
  /\ UNCHANGED now

\* check_engine_and_trip: the engine's limit is breached.
CheckEngine(engine, torn) == Trip(engine, torn) /\ UNCHANGED now

\* check_e3_cumulative_and_trip: the limit is breached.
CheckE3(torn) ==
  /\ IF flag["e3_perm"] THEN Breach({"e3_perm"}, FALSE) /\ UNCHANGED rows
                         ELSE Trip("e3_perm", torn)
  /\ UNCHANGED now

ManualHalt(torn) == Trip("manual", torn) /\ UNCHANGED now

\* The rows that manual_resume sets to "0".
ManualResumed == {"manual"}

Clear(keys) == flag' = [key \in Keys |-> flag[key] /\ key \notin keys]

Forgive(keys) ==
  /\ breached' = [key \in Keys |-> IF key \in keys THEN Never ELSE breached[key]]
  /\ attempted' = [key \in Keys |-> IF key \in keys THEN Never ELSE attempted[key]]

ManualResume ==
  /\ Clear(ManualResumed) /\ Forgive({"manual"})
  /\ UNCHANGED <<now, stamp>>

\* Mutant: a key that was added later is missing from the list.
ResumeOrderShort ==
  <<"manual", "capital", "daily", "e3_perm", "mm_daily", "mm_perm",
    "E1", "E2", "E3", "E4">>

ResumeOrder ==
  <<"manual", "capital", "daily", "weekly", "e3_perm", "mm_daily", "mm_perm",
    "E1", "E2", "E3", "E4">>

\* The keys of the first n writes.
Resumed(n) == {ResumeOrder[i] : i \in 1 .. n}

\* force_resume_all clears the keys one write at a time; torn, only the first n.
ForceResumeAll(torn) ==
  /\ IF torn
     THEN \E n \in 1 .. Len(ResumeOrder) : Clear(Resumed(n)) /\ Forgive(Resumed(n))
     ELSE Clear(Resumed(Len(ResumeOrder))) /\ Forgive(Keys)
  /\ UNCHANGED <<now, stamp>>

Tick == now < MaxNow /\ now' = now + 1 /\ UNCHANGED breaker

-----------------------------------------------------------------------------
Init ==
  /\ now = 0
  /\ flag = [key \in Keys |-> FALSE]
  /\ stamp = [key \in ExpiringKeys |-> Never]
  /\ breached = [key \in Keys |-> Never]
  /\ attempted = [key \in Keys |-> Never]

Next ==
  \/ Tick \/ ManualResume
  \/ \E torn \in Torn :
       \/ ManualHalt(torn) \/ ForceResumeAll(torn) \/ CheckE3(torn)
       \/ \E low, daily, weekly \in BOOLEAN : CheckAndTrip(low, daily, weekly, torn)
       \/ \E engine \in Engines : CheckEngine(engine, torn)

Spec == Init /\ [][Next]_vars

-----------------------------------------------------------------------------
(* Properties.                                                             *)

\* Rows hold flags, and no halt is stamped with a time that has not come.
TypeOK ==
  /\ now \in 0 .. MaxNow
  /\ flag \in [Keys -> BOOLEAN]
  /\ stamp \in [ExpiringKeys -> -1 .. now]
  /\ breached \in [Keys -> -1 .. now]
  /\ attempted \in [Keys -> -1 .. now]

\* A breach at time t still counts: for good, until the next midnight, or
\* for seven days.
Counts(key, t) ==
  /\ t # Never
  /\ key \in DailyKeys => DayOf(now) = DayOf(t)
  /\ key = "weekly" => now < t + WeekDays * TicksPerDay

Honored(key) == Counts(key, breached[key]) => InForce(key)

\* As long as a breach that a check answered counts, its halt is in force:
\* neither the halts before it, expired or resumed, nor a trip cut off half
\* way, a partial force_resume_all or the resume of another halt undoes it.
BreachHonored == \A key \in Keys : Honored(key)

\* A halt is in force only while a breach of its own limit counts that nobody
\* has resumed since: none outlasts its midnight or its seven days, a
\* force_resume_all leaves none, and the time of an old trip never revives one.
HaltHasCause == \A key \in Keys : InForce(key) => Counts(key, attempted[key])
=============================================================================
