------------------------------ MODULE MMEngine ------------------------------
(***************************************************************************)
(* MMEngine of main_daemon.py in LIVE mode: discovery_loop, risk_loop and  *)
(* the QuoteManager tasks they start and cancel, on one event loop, with   *)
(* the breaker they consult, the inventory they all book into and the      *)
(* exchange.  One action is the code between two awaits of one coroutine.  *)
(*                                                                         *)
(* A QuoteManager is reduced here to what the engine can see of it: it     *)
(* bids for one share at a time and may sell all it holds (QuoteManager is *)
(* its full model).  The breaker is reduced to is_mm_halted (CircuitBreaker*)
(* and MmBreaker are its full models).  Both legs are one.                 *)
(***************************************************************************)
EXTENDS Integers, FiniteSets

CONSTANTS
  Markets,   \* the markets that discovery may find
  Faults,    \* what may fail, see below
  MaxShares  \* bound: shares of a market bought, and owned, in a behaviour

\* gamma: a market read fails; book: a market shows no bid; refuse: an order
\* or a sale is refused; raise: a quoting task raises; loop: one of the two
\* loops raises; crash: the process dies.
FaultKinds == {"gamma", "book", "refuse", "raise", "loop", "crash"}

ASSUME EngineAssumption == MaxShares \in Nat /\ Faults \subseteq FaultKinds

VARIABLES
  engine,     \* "up", "stopped" once _stop is set, "closing" and "cancelled"
              \* in stop(), "down" when the process has ended, "dead" if killed
  discovery,  \* where discovery_loop is suspended
  risk,       \* where risk_loop is suspended
  todo,       \* markets its current pass over open_positions() has yet to visit
  halted,     \* is_mm_halted()
  closed,     \* closed[m]: the market is closed and resolved
  task,       \* task[m]: the entry of _tasks, and where it is suspended
  sale,       \* sale[m]: the shares _market_sell was called with
  order,      \* order[m]: the quote the task tracks
  late,       \* late[m]: an order sent by a thread whose task is gone: "flying";
              \* it "slipped" when it landed after cancel_all
  stray,      \* stray[m]: resting orders that no task tracks
  held,       \* held[m]: shares in InventoryManager, and in its table
  chain,      \* chain[m]: shares the account really owns
  bought,     \* history: shares booked as bought
  disposed    \* history: shares booked as sold or settled

loops == <<discovery, risk, todo>>
quotes == <<order, late, stray>>
shares == <<held, bought, disposed>>
vars == <<engine, loops, halted, closed, task, sale, quotes, chain, shares>>

\* The coroutine runs; "none" and "done" tasks do not, and a "done" one keeps
\* its entry in _tasks until discovery prunes it.
Running(m) == task[m] \in {"idle", "place", "sell"}

Open == {m \in Markets : held[m] > 0}
Awake == engine \notin {"down", "dead"}

-----------------------------------------------------------------------------
(* The inventory.                                                          *)

Buy(m) ==
  /\ held' = [held EXCEPT ![m] = @ + 1]
  /\ bought' = [bought EXCEPT ![m] = @ + 1]
  /\ UNCHANGED disposed

\* Mutant: a sale is booked as it was asked for.
SoldUncapped(m, n) == n

\* apply_sell never books more than is held.
Sold(m, n) == IF n < held[m] THEN n ELSE held[m]

\* Mutant: the shares are floored at zero, what they realized is not.
DisposeAsked(m, n) ==
  /\ held' = [held EXCEPT ![m] = @ - Sold(m, n)]
  /\ disposed' = [disposed EXCEPT ![m] = @ + n]
  /\ UNCHANGED bought

Dispose(m, n) ==
  /\ held' = [held EXCEPT ![m] = @ - Sold(m, n)]
  /\ disposed' = [disposed EXCEPT ![m] = @ + Sold(m, n)]
  /\ UNCHANGED bought

-----------------------------------------------------------------------------
(* A quoting task.                                                         *)

Turn(m, to) == task' = [task EXCEPT ![m] = to]

\* _record_quote sends an order.
SendOrder(m) ==
  /\ task[m] = "idle" /\ order[m] = "none" /\ ~closed[m]
  /\ bought[m] + stray[m] < MaxShares /\ late[m] = "no"
  /\ Turn(m, "place")
  /\ UNCHANGED <<engine, loops, halted, closed, sale, quotes, chain, shares>>

OrderAnswered(m) ==
  /\ task[m] = "place"
  /\ \/ order' = [order EXCEPT ![m] = "resting"]
     \/ "refuse" \in Faults /\ UNCHANGED order
  /\ Turn(m, "idle")
  /\ UNCHANGED <<engine, loops, halted, closed, sale, late, stray, chain, shares>>

\* _check_fills_live.
PollFill(m) ==
  /\ task[m] = "idle" /\ order[m] = "filled"
  /\ order' = [order EXCEPT ![m] = "none"]
  /\ Buy(m)
  /\ UNCHANGED <<engine, loops, halted, closed, task, sale, late, stray, chain>>

\* _cancel.
DropQuote(m) ==
  /\ task[m] = "idle" /\ order[m] # "none"
  /\ order' = [order EXCEPT ![m] = "none"]
  /\ UNCHANGED <<engine, loops, halted, closed, task, sale, late, stray, chain, shares>>

\* _market_sell is called with the shares held now, and books what was sold
\* when the exchange has answered.
StartSale(m) ==
  /\ task[m] = "idle" /\ held[m] > 0
  /\ sale' = [sale EXCEPT ![m] = held[m]]
  /\ Turn(m, "sell")
  /\ UNCHANGED <<engine, loops, halted, closed, quotes, chain, shares>>

FinishSale(m) ==
  /\ task[m] = "sell"
  /\ \/ /\ sale[m] <= chain[m]
        /\ chain' = [chain EXCEPT ![m] = @ - sale[m]]
        /\ Dispose(m, sale[m])
     \/ /\ "refuse" \in Faults \/ sale[m] > chain[m]
        /\ UNCHANGED <<chain, shares>>
  /\ sale' = [sale EXCEPT ![m] = 0]
  /\ Turn(m, "idle")
  /\ UNCHANGED <<engine, loops, halted, closed, quotes>>

\* run() returns once the market is closed and its quotes are cancelled.
Leave(m) ==
  /\ task[m] = "idle" /\ closed[m] /\ order[m] = "none"
  /\ Turn(m, "done")
  /\ UNCHANGED <<engine, loops, halted, closed, sale, quotes, chain, shares>>

(* The coroutines of ms end where they are suspended.  Their orders stay   *)
(* on the book, an order or a sale handed to a thread may still land.      *)
Cut(ms) ==
  /\ order' = [m \in Markets |-> IF m \in ms THEN "none" ELSE order[m]]
  /\ stray' = [m \in Markets |->
                 IF m \in ms /\ order[m] = "resting" THEN stray[m] + 1 ELSE stray[m]]
  /\ late' = [m \in Markets |->
                IF m \in ms /\ task[m] = "place" THEN "flying" ELSE late[m]]
  /\ sale' = [m \in Markets |-> IF m \in ms THEN 0 ELSE sale[m]]
  /\ \E landed \in SUBSET {m \in ms : sale[m] \in 1 .. chain[m]} :
       chain' = [m \in Markets |->
                   IF m \in landed THEN chain[m] - sale[m] ELSE chain[m]]

Raise(m) ==
  /\ "raise" \in Faults /\ Running(m)
  /\ Cut({m}) /\ Turn(m, "done")
  /\ UNCHANGED <<engine, loops, halted, closed, shares>>

-----------------------------------------------------------------------------
(* discovery_loop: the halt is read at the top of a pass, the tasks start  *)
(* after each of the two discoveries it awaits.                            *)

DiscoveryTop ==
  /\ discovery = "sleep"
  /\ discovery' = CASE engine # "up" -> "gone"
                     [] engine = "up" /\ halted -> "sleep"
                     [] OTHER -> "updown"
  /\ task' = [m \in Markets |->
                IF engine = "up" /\ task[m] = "done" THEN "none" ELSE task[m]]
  /\ UNCHANGED <<engine, risk, todo, halted, closed, sale, quotes, chain, shares>>

\* A market that has an entry in _tasks is not started again.
Discover ==
  /\ discovery \in {"updown", "events"}
  /\ \E found \in SUBSET {m \in Markets : ~closed[m]} :
       task' = [m \in Markets |->
                  IF m \in found /\ task[m] = "none" THEN "idle" ELSE task[m]]
  /\ discovery' = IF discovery = "updown" THEN "events" ELSE "sleep"
  /\ UNCHANGED <<engine, risk, todo, halted, closed, sale, quotes, chain, shares>>

-----------------------------------------------------------------------------
(* risk_loop.                                                              *)

RiskTop ==
  /\ risk = "top"
  /\ risk' = IF engine = "up" THEN "sleep" ELSE "gone"
  /\ UNCHANGED <<engine, discovery, todo, halted, closed, task, sale, quotes,
                 chain, shares>>

\* Mutant: nothing is reconciled under a halt.
ToSettleUnhalted == IF halted THEN {} ELSE Open

\* reconcile_closed_inventory visits the positions open when it starts.
ToSettle == Open

RiskWake ==
  /\ risk = "sleep"
  /\ risk' = "settle" /\ todo' = ToSettle
  /\ UNCHANGED <<engine, discovery, halted, closed, task, sale, quotes, chain, shares>>

\* mark_resolution settles what is held when the market read returns.
Settle(m) ==
  /\ risk \in {"boot", "settle"} /\ m \in todo
  /\ todo' = todo \ {m}
  /\ \/ closed[m] /\ Dispose(m, held[m])
     \/ (~closed[m] \/ "gamma" \in Faults) /\ UNCHANGED shares
  /\ UNCHANGED <<engine, discovery, risk, halted, closed, task, sale, quotes, chain>>

\* Mutant: the tasks are cancelled only in the turn that trips the breaker.
CancelWhenTripped(tripped, halt) == tripped /\ halt

CancelWhen(tripped, halt) == halt

EndTurn(tripped, halt) ==
  /\ risk' = "top"
  /\ IF CancelWhen(tripped, halt)
     THEN /\ Cut(Markets)
          /\ task' = [m \in Markets |-> "none"]
     ELSE UNCHANGED <<task, sale, quotes, chain>>

\* The P&L is checked: a new halt is answered by _neutralize_all_open, an old
\* one or none is not.
Check ==
  /\ risk = "settle" /\ todo = {}
  /\ \/ /\ ~halted
        /\ halted' = TRUE
        /\ risk' = "neutralize" /\ todo' = Open
        /\ UNCHANGED <<task, sale, quotes, chain>>
     \/ EndTurn(FALSE, halted) /\ UNCHANGED <<halted, todo>>
  /\ UNCHANGED <<engine, discovery, closed, shares>>

\* A position whose market shows a bid is booked as sold at it.
Neutralize(m) ==
  /\ risk = "neutralize" /\ m \in todo
  /\ todo' = todo \ {m}
  /\ \/ Dispose(m, held[m])
     \/ "book" \in Faults /\ UNCHANGED shares
  /\ UNCHANGED <<engine, discovery, risk, halted, closed, task, sale, quotes, chain>>

\* The alert has been sent and the halt is read again.
Neutralized ==
  /\ risk = "neutralize" /\ todo = {}
  /\ EndTurn(TRUE, halted)
  /\ UNCHANGED <<engine, discovery, todo, halted, closed, shares>>

-----------------------------------------------------------------------------
(* The process.                                                            *)

Signal ==
  /\ engine = "up" /\ engine' = "stopped"
  /\ UNCHANGED <<loops, halted, closed, task, sale, quotes, chain, shares>>

\* One of the loops raises: gather returns at once and leaves the other.
LoopFails ==
  /\ "loop" \in Faults /\ engine \in {"up", "stopped"}
  /\ \/ risk \notin {"boot", "gone"} /\ risk' = "gone" /\ UNCHANGED discovery
     \/ discovery \notin {"boot", "gone"} /\ discovery' = "gone" /\ UNCHANGED risk
  /\ engine' = "closing"
  /\ Cut(Markets)
  /\ task' = [m \in Markets |-> IF Running(m) THEN "done" ELSE task[m]]
  /\ UNCHANGED <<todo, halted, closed, shares>>

\* Mutant: stop() leaves the tasks to the end of the process.
StoppedTasksNone == {}

\* The tasks that stop() cancels before it cancels all orders.
StoppedTasks == Markets

\* Both loops have returned: stop() cancels the tasks.
Stop ==
  /\ engine \in {"up", "stopped"} /\ discovery = "gone" /\ risk = "gone"
  /\ engine' = "closing"
  /\ Cut(StoppedTasks)
  /\ task' = [m \in Markets |->
                IF m \in StoppedTasks /\ Running(m) THEN "done" ELSE task[m]]
  /\ UNCHANGED <<loops, halted, closed, shares>>

\* cancel_all takes every order of the account off the book.
CancelAll ==
  /\ engine = "closing" /\ engine' = "cancelled"
  /\ order' = [m \in Markets |-> IF order[m] = "resting" THEN "none" ELSE order[m]]
  /\ stray' = [m \in Markets |-> 0]
  /\ UNCHANGED <<loops, halted, closed, task, sale, late, chain, shares>>

\* The process ends: asyncio.run cancels what is left, or it is killed.
Ends(how) ==
  /\ engine' = how
  /\ discovery' = "gone" /\ risk' = "gone" /\ todo' = {}
  /\ Cut(Markets)
  /\ task' = [m \in Markets |-> "none"]
  /\ UNCHANGED <<halted, closed, shares>>

Exit == engine = "cancelled" /\ Ends("down")
Crash == "crash" \in Faults /\ Awake /\ Ends("dead")

\* run() of the next process: the inventory is loaded, and what has closed is
\* settled before anything is quoted.
Restart ==
  /\ engine \in {"down", "dead"}
  /\ engine' = "up" /\ discovery' = "boot" /\ risk' = "boot" /\ todo' = Open
  /\ late' = [m \in Markets |-> IF late[m] = "slipped" THEN "no" ELSE late[m]]
  /\ UNCHANGED <<halted, closed, task, sale, order, stray, chain, shares>>

Booted ==
  /\ risk = "boot" /\ todo = {}
  /\ risk' = "top" /\ discovery' = "sleep"
  /\ UNCHANGED <<engine, todo, halted, closed, task, sale, quotes, chain, shares>>

-----------------------------------------------------------------------------
(* The exchange, the operator and the clock.                               *)

Fill(m) ==
  /\ ~closed[m] /\ chain[m] < MaxShares
  /\ \/ order[m] = "resting" /\ order' = [order EXCEPT ![m] = "filled"] /\ UNCHANGED stray
     \/ stray[m] > 0 /\ stray' = [stray EXCEPT ![m] = @ - 1] /\ UNCHANGED order
  /\ chain' = [chain EXCEPT ![m] = @ + 1]
  /\ UNCHANGED <<engine, loops, halted, closed, task, sale, late, shares>>

\* The order of a cut-off thread is accepted after all, or refused.
Land(m) ==
  /\ late[m] = "flying"
  /\ \/ /\ stray' = [stray EXCEPT ![m] = @ + 1]
        /\ late' = [late EXCEPT ![m] =
                        IF engine \in {"cancelled", "down"} THEN "slipped" ELSE "no"]
     \/ late' = [late EXCEPT ![m] = "no"] /\ UNCHANGED stray
  /\ UNCHANGED <<engine, loops, halted, closed, task, sale, order, chain, shares>>

\* A halt of another reason is set, or the halt is lifted or expires.
Halt ==
  /\ halted' = ~halted
  /\ UNCHANGED <<engine, loops, closed, task, sale, quotes, chain, shares>>

Close(m) ==
  /\ ~closed[m] /\ closed' = [closed EXCEPT ![m] = TRUE]
  /\ UNCHANGED <<engine, loops, halted, task, sale, quotes, chain, shares>>

-----------------------------------------------------------------------------
Init ==
  /\ engine = "down" /\ discovery = "gone" /\ risk = "gone" /\ todo = {}
  /\ halted = FALSE
  /\ closed = [m \in Markets |-> FALSE]
  /\ task = [m \in Markets |-> "none"]
  /\ sale = [m \in Markets |-> 0]
  /\ order = [m \in Markets |-> "none"]
  /\ late = [m \in Markets |-> "no"]
  /\ stray = [m \in Markets |-> 0]
  /\ held = [m \in Markets |-> 0]
  /\ chain = [m \in Markets |-> 0]
  /\ bought = [m \in Markets |-> 0]
  /\ disposed = [m \in Markets |-> 0]

Quoting(m) ==
  \/ SendOrder(m) \/ OrderAnswered(m) \/ PollFill(m) \/ DropQuote(m)
  \/ StartSale(m) \/ FinishSale(m) \/ Leave(m)

DiscoveryLoop == DiscoveryTop \/ Discover

RiskLoop ==
  \/ RiskTop \/ RiskWake \/ Check \/ Neutralized \/ Booted
  \/ \E m \in Markets : Settle(m) \/ Neutralize(m)

Process == Stop \/ CancelAll \/ Exit

Next ==
  \/ DiscoveryLoop \/ RiskLoop \/ Process
  \/ Signal \/ LoopFails \/ Crash \/ Restart \/ Halt
  \/ \E m \in Markets :
       Quoting(m) \/ Raise(m) \/ Fill(m) \/ Land(m) \/ Close(m)

Spec == Init /\ [][Next]_vars

\* The event loop serves both loops: each of their awaits is a timer, a call
\* with an error path or the database.
FairSpec == Spec /\ WF_vars(DiscoveryLoop) /\ WF_vars(RiskLoop) /\ WF_vars(Process)

-----------------------------------------------------------------------------
(* Properties.                                                             *)

\* Every variable is in its type, and only a running task has a quote or a
\* sale under way.
TypeOK ==
  /\ engine \in {"up", "stopped", "closing", "cancelled", "down", "dead"}
  /\ discovery \in {"boot", "sleep", "updown", "events", "gone"}
  /\ risk \in {"boot", "top", "sleep", "settle", "neutralize", "gone"}
  /\ todo \subseteq Markets /\ halted \in BOOLEAN
  /\ closed \in [Markets -> BOOLEAN]
  /\ task \in [Markets -> {"none", "idle", "place", "sell", "done"}]
  /\ sale \in [Markets -> 0 .. MaxShares]
  /\ order \in [Markets -> {"none", "resting", "filled"}]
  /\ late \in [Markets -> {"no", "flying", "slipped"}]
  /\ {stray, held, chain, bought} \subseteq [Markets -> 0 .. MaxShares]
  /\ disposed \in [Markets -> Nat]
  /\ \A m \in Markets : ~Running(m) => order[m] = "none" /\ sale[m] = 0

\* Every share booked as bought is booked as sold or settled at most once,
\* though a task's sale, the sale of _neutralize_all_open and the settlement
\* of the closed market may all be under way for it: the P&L the breaker
\* reads never counts an exit twice.
DisposedOnce == \A m \in Markets : disposed[m] <= bought[m]

\* After an orderly exit no order is left on the book, except one that a
\* thread had sent when its task was cancelled: the tasks end before
\* cancel_all, and the loops that could start another end before the tasks.
ShutdownQuiet ==
  engine = "down" => \A m \in Markets : stray[m] > 0 => late[m] = "slipped"

\* Once a halt lasts, quoting stops for good: a discovery pass that read the
\* breaker before it may still start tasks, but the next turns of the risk
\* loop, or the exit, end them.
HaltStopsQuoting == <>[]halted => <>[](\A m \in Markets : ~Running(m))

\* A held position in a closed market is settled, halted or not, whoever
\* booked it and whenever, as long as the engine is not stopped.
ClosedSettled ==
  \A m \in Markets : closed[m] /\ held[m] > 0 ~> held[m] = 0 \/ engine # "up"

-----------------------------------------------------------------------------
(* What the docs and messages say and the code does not keep.              *)

\* "On halt: flatten every held leg by selling at its best lower_bound": what
\* _neutralize_all_open books as sold leaves the account.  It books the sale
\* and sends none.
NeutralizeSells ==
  [][\A m \in Markets :
       risk = "neutralize" /\ risk' = "neutralize" /\ m \in todo /\ m \notin todo'
         /\ held'[m] < held[m] => chain'[m] < chain[m]]_vars
=============================================================================
