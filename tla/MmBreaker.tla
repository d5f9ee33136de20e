----------------------------- MODULE MmBreaker -----------------------------
(***************************************************************************)
(* The market maker's part of risk/circuit_breaker.py and the turn of      *)
(* risk_loop in main_daemon.py that drives it: every 30 seconds the loop   *)
(* reads the P&L of the day and the total (mm_pnl_today_and_total) and     *)
(* checks them (check_mm_and_trip); a summary may be awaited in between,   *)
(* while fills are booked and the clock runs.                              *)
(*                                                                         *)
(* The engine trades in one money-world at a time, paper or live, settled  *)
(* when the process starts.  Both worlds share the database, mm_inventory  *)
(* with one row per market included: a world that trades a market takes    *)
(* the row over from the other.                                            *)
(***************************************************************************)
EXTENDS CircuitBreaker

CONSTANTS
  Scopes,      \* the money-worlds the engine may run in: {"paper", "live"}
  DailyLimit,  \* mm_daily_loss_limit_usd
  CumLimit,    \* mm_cumulative_loss_limit_usd
  Unrealized,  \* the unrealized P&L that _unrealized_pnl may return
  NoReport,    \* the loop has read no P&L that it has not checked
  Markets,     \* bound: the engine trades the markets 1 .. Markets
  Pnl          \* bound: the realized P&L that a row may hold

\* The row of a market that no world has traded yet is of no world.
NoRow == [world |-> "none", pnl |-> 0]
InventoryRow == [world : Scopes \cup {"none"}, pnl : Pnl]

ASSUME MmAssumption ==
  /\ Scopes \subseteq {"paper", "live"}
  /\ DailyLimit \in Nat \ {0} /\ CumLimit \in Nat \ {0}
  /\ Markets \in Nat /\ 0 \in Pnl
  /\ Pnl \subseteq Int /\ Unrealized \subseteq Int
  /\ NoReport \notin [today : Int, total : Int]

VARIABLES
  scope,    \* the money-world of the running process
  row,      \* row[m]: the mm_inventory row of a market, its world and P&L
  baseDay,  \* baseDay[row]: mm_day_<scope>, or Never
  base,     \* base[row]: mm_day_baseline_<scope>, or <<>> when it is missing
  report,   \* the P&L that risk_loop has read and not yet checked
  earned    \* history: the day of the world's last read, what its rows have
            \* gained since the first read of that day, and whether that was cut

mm == <<scope, row, baseDay, base, report, earned>>
mmVars == <<vars, mm>>

-----------------------------------------------------------------------------
\* Mutant: the date is taken in a timezone ahead of UTC.
TodayLocal == DayOf(now + 1)

Today == DayOf(now)

\* Mutant: the two worlds share one pair of rows.
RowShared(s) == "live"

Row(s) == s

\* mm_realized_total: the sum over the rows that are a world's.
SumOf(h) ==
  LET upTo[m \in 0 .. Markets] == IF m = 0 THEN 0 ELSE upTo[m - 1] + h[m]
  IN  upTo[Markets]

Share(r, s) == IF r.world = s THEN r.pnl ELSE 0

\* Mutant: the sum is over the rows of both worlds.
TotalOfBoth(s) == SumOf([m \in 1 .. Markets |-> row[m].pnl])

Total(s) == SumOf([m \in 1 .. Markets |-> Share(row[m], s)])

\* A buy, a sale, a settlement or a reconciliation writes the row of its market
\* over, whichever world's it was, with what the running world has realized
\* there: counting on from its own row, or from 0 when the row was the other
\* world's, which load leaves out; earlier writes of it may have failed.  The
\* history counts the row for the one world and no longer for the other.
Realize ==
  /\ \E m \in 1 .. Markets, pnl \in Pnl :
       LET new == [world |-> scope, pnl |-> pnl]
       IN  /\ row' = [row EXCEPT ![m] = new]
           /\ earned' = [s \in Scopes |->
                [earned[s] EXCEPT !.pnl = @ + Share(new, s) - Share(row[m], s)]]
  /\ UNCHANGED <<vars, scope, baseDay, base, report>>

\* mm_pnl_today_and_total.  A new day writes its date, then its baseline;
\* torn, the process dies in between and the next one starts over.
ReadPnl(torn) ==
  LET key == Row(scope)
      sum == Total(scope)
      newDay == baseDay[key] # Today
      baseline == IF newDay \/ base[key] = <<>> THEN sum ELSE base[key][1]
  IN  /\ report = NoReport
      /\ torn => newDay
      /\ baseDay' = [baseDay EXCEPT ![key] = Today]
      /\ base' = IF newDay /\ ~torn THEN [base EXCEPT ![key] = <<sum>>] ELSE base
      /\ report' = IF torn THEN NoReport ELSE [today |-> sum - baseline, total |-> sum]
      /\ earned' = IF earned[scope].day # DayOf(now)
                   THEN [earned EXCEPT ![scope] =
                           [day |-> DayOf(now), pnl |-> 0, cut |-> torn]]
                   ELSE earned
      /\ UNCHANGED <<vars, scope, row>>

\* Mutant: the floor is compared with the realized P&L alone.
LostRealized(unrealized) == report.total <= -CumLimit

\* The permanent floor is breached by realized and unrealized P&L together.
Lost(unrealized) == report.total + unrealized <= -CumLimit

LostToday == report.today <= -DailyLimit

\* check_mm_and_trip: one halt per call, each only when its row is not "1".
\* The history takes a loss of the day from a report of that day only: one
\* read before midnight still trips, but is no evidence for the new day.
CheckMm(unrealized, torn) ==
  LET perm  == Lost(unrealized) /\ ~flag["mm_perm"]
      daily == ~perm /\ LostToday /\ ~flag["mm_daily"]
  IN  /\ report # NoReport
      /\ \/ perm /\ WriteTrip("mm_perm", torn)
         \/ daily /\ WriteTrip("mm_daily", torn)
         \/ ~perm /\ ~daily /\ ~torn /\ UNCHANGED rows
      /\ Breach({key \in {"mm_perm", "mm_daily"} :
                    \/ key = "mm_perm" /\ report.total + unrealized <= -CumLimit
                    \/ key = "mm_daily" /\ LostToday /\ ~perm
                         /\ earned[scope].day = DayOf(now)}, torn)
      /\ report' = NoReport
      /\ UNCHANGED <<now, scope, row, baseDay, base, earned>>

\* The process stops and starts again, in either world.
Restart ==
  /\ scope' \in Scopes
  /\ report' = NoReport
  /\ UNCHANGED <<vars, row, baseDay, base, earned>>

-----------------------------------------------------------------------------
MmInit ==
  /\ Init
  /\ scope \in Scopes
  /\ row = [m \in 1 .. Markets |-> NoRow]
  /\ baseDay = [s \in Scopes |-> Never]
  /\ base = [s \in Scopes |-> <<>>]
  /\ report = NoReport
  /\ earned = [s \in Scopes |-> [day |-> Never, pnl |-> 0, cut |-> FALSE]]

MmNext ==
  \/ Realize \/ Restart
  \/ Tick /\ UNCHANGED mm
  \/ \E torn \in Torn :
       \/ ReadPnl(torn)
       \/ \E unrealized \in Unrealized : CheckMm(unrealized, torn)
       \/ ForceResumeAll(torn) /\ UNCHANGED mm

MmSpec == MmInit /\ [][MmNext]_mmVars

-----------------------------------------------------------------------------
(* Properties.                                                             *)

\* The table holds P&Ls, and no baseline is dated later than the UTC day.
MmTypeOK ==
  /\ TypeOK
  /\ scope \in Scopes
  /\ row \in [1 .. Markets -> InventoryRow]
  /\ baseDay \in [Scopes -> -1 .. DayOf(now)]
  /\ base \in [Scopes -> Seq(Int)] /\ \A s \in Scopes : Len(base[s]) <= 1
  /\ report = NoReport \/ report \in [today : Int, total : Int]
  /\ earned \in [Scopes -> [day : -1 .. DayOf(now), pnl : Int, cut : BOOLEAN]]

\* The P&L of the day that the loop reads is what the rows of the engine's own
\* world have gained since the first read of that UTC day, however often the
\* process restarted or changed worlds in between: what the world realized on
\* them, less all that stood on a row, of earlier days too, when the other world
\* traded its market and took it over.  The exception is a day whose first read
\* was cut between its two writes: its baseline is an old one or missing, until
\* the next day.
TodayExact ==
  [][report = NoReport /\ report' # NoReport =>
       earned'[scope].cut \/ report'.today = earned'[scope].pnl]_mmVars

\* Once a check has seen realized and unrealized P&L at the permanent limit,
\* the permanent halt stays in force until force_resume_all, over midnights,
\* restarts and recoveries of the P&L.
FloorHonored == Honored("mm_perm")

\* The same of the daily limit until midnight ("trip MM daily / cumulative
\* halts on deficit-threshold breach", "daily auto-expires at midnight").
\* An expired halt leaves its row at "1", and then the next is not tripped.
DailyHonored == Honored("mm_daily")
=============================================================================
