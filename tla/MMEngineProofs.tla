--------------------------- MODULE MMEngineProofs ---------------------------
(***************************************************************************)
(* Theorems about MMEngine: its books count every share once, whoever      *)
(* sells it, and an orderly exit of an engine whose loops do not raise     *)
(* leaves the book empty.                                                  *)
(***************************************************************************)
EXTENDS MMEngine, TLAPS

-----------------------------------------------------------------------------
(* The inductive invariant of the books.                                   *)

\* A share of m is on its way: an order is being placed, rests, has filled
\* unseen, or was sent by a thread that nobody waits for any more.
OnItsWay(m) == task[m] = "place" \/ order[m] # "none" \/ late[m] = "flying"

Counted(m) == disposed[m] + held[m] = bought[m]

Room(m) ==
  /\ bought[m] + stray[m] <= MaxShares
  /\ OnItsWay(m) => bought[m] + stray[m] < MaxShares

\* At most one share of m is on its way.
Alone(m) ==
  /\ task[m] = "place" => order[m] = "none" /\ late[m] = "no"
  /\ order[m] # "none" => late[m] = "no"

SellsOnce(m) == task[m] # "sell" => sale[m] = 0

Books(m) == Counted(m) /\ Room(m) /\ Alone(m) /\ SellsOnce(m)

IInv == TypeOK /\ \A m \in Markets : Books(m)

-----------------------------------------------------------------------------
\* Whatever Dispose is asked to sell, it takes what it books from what is held.
LEMMA DisposeCounts ==
  ASSUME IInv, NEW m \in Markets, NEW n \in Nat, Dispose(m, n)
  PROVE  /\ held' \in [Markets -> 0 .. MaxShares]
         /\ disposed' \in [Markets -> Nat]
         /\ bought' = bought
         /\ \A k \in Markets : disposed'[k] + held'[k] = bought[k]
  <1>1. Sold(m, n) \in 0 .. held[m]
    BY EngineAssumption DEF IInv, TypeOK, Sold
  <1>2. \A k \in Markets : disposed[k] + held[k] = bought[k]
    BY DEF IInv, Books, Counted
  <1>3. /\ held' = [held EXCEPT ![m] = @ - Sold(m, n)]
        /\ disposed' = [disposed EXCEPT ![m] = @ + Sold(m, n)]
        /\ bought' = bought
    BY DEF Dispose
  <1> QED
    BY <1>1, <1>2, <1>3, EngineAssumption DEF IInv, TypeOK

\* Cutting the coroutines of ms keeps the room and the solitude of orders.
LEMMA CutKeeps ==
  ASSUME IInv, NEW ms \in SUBSET Markets, Cut(ms), UNCHANGED shares,
         task' \in [Markets -> {"none", "idle", "place", "sell", "done"}],
         \A m \in Markets : IF m \in ms THEN task'[m] \in {"none", "done"}
                                        ELSE task'[m] = task[m]
  PROVE  /\ sale' \in [Markets -> 0 .. MaxShares]
         /\ order' \in [Markets -> {"none", "resting", "filled"}]
         /\ late' \in [Markets -> {"no", "flying", "slipped"}]
         /\ stray' \in [Markets -> 0 .. MaxShares]
         /\ chain' \in [Markets -> 0 .. MaxShares]
         /\ \A m \in Markets : Books(m)'
         /\ \A m \in Markets : ~Running(m)' => order'[m] = "none" /\ sale'[m] = 0
  <1> USE EngineAssumption
  <1>1. /\ order' = [m \in Markets |-> IF m \in ms THEN "none" ELSE order[m]]
        /\ stray' = [m \in Markets |->
                       IF m \in ms /\ order[m] = "resting" THEN stray[m] + 1
                                                           ELSE stray[m]]
        /\ late' = [m \in Markets |->
                      IF m \in ms /\ task[m] = "place" THEN "flying" ELSE late[m]]
        /\ sale' = [m \in Markets |-> IF m \in ms THEN 0 ELSE sale[m]]
    BY DEF Cut
  <1>2. chain' \in [Markets -> 0 .. MaxShares]
    <2>1. PICK landed \in SUBSET {m \in ms : sale[m] \in 1 .. chain[m]} :
            chain' = [m \in Markets |->
                        IF m \in landed THEN chain[m] - sale[m] ELSE chain[m]]
      BY DEF Cut
    <2>2. ASSUME NEW m \in Markets
          PROVE  (IF m \in landed THEN chain[m] - sale[m] ELSE chain[m]) \in 0 .. MaxShares
      <3>1. chain[m] \in 0 .. MaxShares /\ sale[m] \in 0 .. MaxShares
        BY DEF IInv, TypeOK
      <3>2. m \in landed => sale[m] \in 1 .. chain[m]
        OBVIOUS
      <3> QED
        BY <3>1, <3>2
    <2> QED
      BY <2>1, <2>2
  <1>3. /\ sale' \in [Markets -> 0 .. MaxShares]
        /\ order' \in [Markets -> {"none", "resting", "filled"}]
        /\ late' \in [Markets -> {"no", "flying", "slipped"}]
    BY <1>1 DEF IInv, TypeOK
  <1>4. ASSUME NEW m \in Markets
        PROVE  stray'[m] \in 0 .. MaxShares /\ Books(m)'
    <2>1. /\ Books(m)
          /\ stray[m] \in 0 .. MaxShares /\ bought[m] \in 0 .. MaxShares
          /\ order[m] \in {"none", "resting", "filled"}
      BY DEF IInv, TypeOK
    <2>2. /\ held' = held /\ bought' = bought /\ disposed' = disposed
      BY DEF shares
    <2>3. Counted(m)'
      BY <2>1, <2>2 DEF Books, Counted
    <2>4. SellsOnce(m)'
      BY <2>1, <1>1 DEF Books, SellsOnce
    <2>5. CASE m \notin ms
      BY <2>1, <2>2, <2>3, <2>4, <2>5, <1>1 DEF Books, Room, Alone, OnItsWay
    <2>6. CASE m \in ms
      <3>1. order'[m] = "none" /\ task'[m] # "place"
        BY <2>6, <1>1
      <3>2. CASE task[m] = "place"
        BY <2>1, <2>2, <2>3, <2>4, <2>6, <1>1, <3>1, <3>2
           DEF Books, Room, Alone, OnItsWay
      <3>3. CASE order[m] = "resting"
        BY <2>1, <2>2, <2>3, <2>4, <2>6, <1>1, <3>1, <3>3
           DEF Books, Room, Alone, OnItsWay
      <3>4. CASE task[m] # "place" /\ order[m] # "resting"
        BY <2>1, <2>2, <2>3, <2>4, <2>6, <1>1, <3>1, <3>4
           DEF Books, Room, Alone, OnItsWay
      <3> QED
        BY <3>2, <3>3, <3>4
    <2> QED
      BY <2>5, <2>6
  <1>5. stray' \in [Markets -> 0 .. MaxShares]
    BY <1>1, <1>4
  <1>6. ASSUME NEW m \in Markets, ~Running(m)'
        PROVE  order'[m] = "none" /\ sale'[m] = 0
    BY <1>1, <1>6 DEF Running, IInv, TypeOK
  <1> QED
    BY <1>2, <1>3, <1>4, <1>5, <1>6

-----------------------------------------------------------------------------
(* The actions preserve it.                                                *)

USE DEF IInv, TypeOK, Books

\* A step that leaves all of a market's trading alone.
LEMMA IdleKeeps ==
  ASSUME IInv,
         UNCHANGED <<sale, quotes, chain, shares>>,
         task' \in [Markets -> {"none", "idle", "place", "sell", "done"}],
         \A m \in Markets :
           task'[m] = task[m] \/ (task[m] \in {"none", "done"}
                                   /\ task'[m] \in {"none", "idle"}),
         engine' \in {"up", "stopped", "closing", "cancelled", "down", "dead"},
         discovery' \in {"boot", "sleep", "updown", "events", "gone"},
         risk' \in {"boot", "top", "sleep", "settle", "neutralize", "gone"},
         todo' \subseteq Markets, halted' \in BOOLEAN,
         closed' \in [Markets -> BOOLEAN]
  PROVE  IInv'
  BY DEF quotes, shares, Counted, Room, Alone, SellsOnce, OnItsWay, Running

\* A step of the quoting task of one market.
LEMMA QuotingKeeps ==
  ASSUME IInv, NEW m \in Markets, Quoting(m)
  PROVE  IInv'
  <1> USE EngineAssumption DEF loops, quotes, shares, Turn, Running
  <1>1. CASE SendOrder(m)
    BY <1>1 DEF SendOrder, Counted, Room, Alone, SellsOnce, OnItsWay
  <1>2. CASE OrderAnswered(m)
    BY <1>2 DEF OrderAnswered, Counted, Room, Alone, SellsOnce, OnItsWay
  <1>3. CASE PollFill(m)
    BY <1>3 DEF PollFill, Buy, Counted, Room, Alone, SellsOnce, OnItsWay
  <1>4. CASE DropQuote(m)
    BY <1>4 DEF DropQuote, Counted, Room, Alone, SellsOnce, OnItsWay
  <1>5. CASE StartSale(m)
    BY <1>5 DEF StartSale, Counted, Room, Alone, SellsOnce, OnItsWay
  <1>6. CASE FinishSale(m)
    <2>1. CASE UNCHANGED <<chain, shares>>
      BY <1>6, <2>1 DEF FinishSale, Counted, Room, Alone, SellsOnce, OnItsWay
    <2>2. CASE /\ sale[m] <= chain[m]
               /\ chain' = [chain EXCEPT ![m] = @ - sale[m]]
               /\ Dispose(m, sale[m])
      <3>1. sale[m] \in Nat
        OBVIOUS
      <3>2. /\ held' \in [Markets -> 0 .. MaxShares]
            /\ disposed' \in [Markets -> Nat]
            /\ bought' = bought
            /\ \A k \in Markets : disposed'[k] + held'[k] = bought[k]
        BY <2>2, <3>1, DisposeCounts
      <3>3. chain' \in [Markets -> 0 .. MaxShares]
        BY <2>2
      <3>4. \A k \in Markets : Books(k)'
        BY <1>6, <3>2 DEF FinishSale, Counted, Room, Alone, SellsOnce, OnItsWay
      <3>5. /\ sale' \in [Markets -> 0 .. MaxShares]
            /\ task' \in [Markets -> {"none", "idle", "place", "sell", "done"}]
            /\ task'[m] = "idle" /\ sale'[m] = 0
            /\ \A k \in Markets \ {m} : task'[k] = task[k] /\ sale'[k] = sale[k]
        BY <1>6 DEF FinishSale
      <3>6. TypeOK'
        BY <1>6, <3>2, <3>3, <3>5 DEF FinishSale
      <3> QED
        BY <3>4, <3>6
    <2> QED
      BY <1>6, <2>1, <2>2 DEF FinishSale
  <1>7. CASE Leave(m)
    BY <1>7 DEF Leave, Counted, Room, Alone, SellsOnce, OnItsWay
  <1> QED
    BY <1>1, <1>2, <1>3, <1>4, <1>5, <1>6, <1>7 DEF Quoting

\* A step of discovery_loop or of the start of a process.
LEMMA DiscoveryKeeps ==
  ASSUME IInv, DiscoveryLoop \/ Booted \/ Signal \/ RiskTop \/ RiskWake \/ Halt
               \/ \E m \in Markets : Close(m)
  PROVE  IInv'
  <1> USE DEF loops
  <1>1. CASE DiscoveryTop
    BY <1>1, IdleKeeps DEF DiscoveryTop
  <1>2. CASE Discover
    BY <1>2, IdleKeeps DEF Discover
  <1>3. CASE Booted
    BY <1>3, IdleKeeps DEF Booted
  <1>4. CASE Signal
    BY <1>4, IdleKeeps DEF Signal
  <1>5. CASE RiskTop
    BY <1>5, IdleKeeps DEF RiskTop
  <1>6. CASE RiskWake
    BY <1>6, IdleKeeps DEF RiskWake, ToSettle, Open
  <1>7. CASE Halt
    BY <1>7, IdleKeeps DEF Halt
  <1>8. CASE \E m \in Markets : Close(m)
    BY <1>8, IdleKeeps DEF Close
  <1> QED
    BY <1>1, <1>2, <1>3, <1>4, <1>5, <1>6, <1>7, <1>8 DEF DiscoveryLoop

\* Settling or neutralizing a position.
LEMMA VisitKeeps ==
  ASSUME IInv, NEW m \in Markets, Settle(m) \/ Neutralize(m)
  PROVE  IInv'
  <1> USE DEF quotes, shares
  <1>1. CASE UNCHANGED shares
    BY <1>1, IdleKeeps DEF Settle, Neutralize
  <1>2. CASE Dispose(m, held[m])
    <2>1. /\ held' \in [Markets -> 0 .. MaxShares]
          /\ disposed' \in [Markets -> Nat]
          /\ bought' = bought
          /\ \A k \in Markets : disposed'[k] + held'[k] = bought[k]
      BY <1>2, DisposeCounts
    <2> QED
      BY <2>1 DEF Settle, Neutralize, Counted, Room, Alone, SellsOnce, OnItsWay, Running
  <1> QED
    BY <1>1, <1>2 DEF Settle, Neutralize

\* A step that cuts coroutines.
LEMMA CuttingKeeps ==
  ASSUME IInv, Check \/ Neutralized \/ LoopFails \/ Stop \/ Exit \/ Crash
               \/ \E m \in Markets : Raise(m)
  PROVE  IInv'
  <1> DEFINE CutAll(ms) ==
        /\ Cut(ms) /\ UNCHANGED <<shares, closed>>
        /\ task' \in [Markets -> {"none", "idle", "place", "sell", "done"}]
        /\ \A m \in Markets : IF m \in ms THEN task'[m] \in {"none", "done"}
                                           ELSE task'[m] = task[m]
        /\ engine' \in {"up", "stopped", "closing", "cancelled", "down", "dead"}
        /\ discovery' \in {"boot", "sleep", "updown", "events", "gone"}
        /\ risk' \in {"boot", "top", "sleep", "settle", "neutralize", "gone"}
        /\ todo' \subseteq Markets /\ halted' \in BOOLEAN
  <1>1. ASSUME NEW ms \in SUBSET Markets, CutAll(ms)
        PROVE  IInv'
    <2>1. UNCHANGED shares
      BY <1>1
    <2>2. /\ sale' \in [Markets -> 0 .. MaxShares]
          /\ order' \in [Markets -> {"none", "resting", "filled"}]
          /\ late' \in [Markets -> {"no", "flying", "slipped"}]
          /\ stray' \in [Markets -> 0 .. MaxShares]
          /\ chain' \in [Markets -> 0 .. MaxShares]
          /\ \A m \in Markets : Books(m)'
          /\ \A m \in Markets : ~Running(m)' => order'[m] = "none" /\ sale'[m] = 0
      BY <1>1, <2>1, CutKeeps
    <2> QED
      BY <1>1, <2>2 DEF shares
  <1>2. CASE Check
    <2>1. CASE UNCHANGED <<task, sale, quotes, chain>> /\ todo' \subseteq Markets
      BY <1>2, <2>1, IdleKeeps DEF Check, EndTurn, Open
    <2>2. CASE Cut(Markets) /\ task' = [m \in Markets |-> "none"]
      BY <1>1, <1>2, <2>2 DEF Check, EndTurn, Open
    <2> QED
      BY <1>2, <2>1, <2>2 DEF Check, EndTurn, Open
  <1>3. CASE Neutralized
    <2>1. CASE UNCHANGED <<task, sale, quotes, chain>>
      BY <1>3, <2>1, IdleKeeps DEF Neutralized, EndTurn
    <2>2. CASE Cut(Markets) /\ task' = [m \in Markets |-> "none"]
      BY <1>1, <1>3, <2>2 DEF Neutralized, EndTurn
    <2> QED
      BY <1>3, <2>1, <2>2 DEF Neutralized, EndTurn
  <1>4. CASE LoopFails
    <2>1. \A m \in Markets : task'[m] \in {"none", "done"}
      BY <1>4 DEF LoopFails, Running
    <2> QED
      BY <1>1, <1>4, <2>1 DEF LoopFails
  <1>5. CASE Stop
    <2>1. \A m \in Markets : task'[m] \in {"none", "done"}
      BY <1>5 DEF Stop, StoppedTasks, Running
    <2> QED
      BY <1>1, <1>5, <2>1 DEF Stop, StoppedTasks, loops
  <1>6. CASE Exit \/ Crash
    BY <1>1, <1>6 DEF Exit, Crash, Ends
  <1>7. ASSUME NEW m \in Markets, Raise(m)
        PROVE  IInv'
    BY <1>1, <1>7 DEF Raise, Turn, loops
  <1> QED
    BY <1>2, <1>3, <1>4, <1>5, <1>6, <1>7

LEMMA NextKeeps == IInv /\ [Next]_vars => IInv'
  <1> SUFFICES ASSUME IInv, [Next]_vars PROVE IInv'
    OBVIOUS
  <1> USE EngineAssumption
  <1>1. CASE \E m \in Markets : Quoting(m)
    BY <1>1, QuotingKeeps
  <1>2. CASE DiscoveryLoop \/ Booted \/ Signal \/ RiskTop \/ RiskWake \/ Halt
             \/ \E m \in Markets : Close(m)
    BY <1>2, DiscoveryKeeps
  <1>3. CASE \E m \in Markets : Settle(m) \/ Neutralize(m)
    BY <1>3, VisitKeeps
  <1>4. CASE Check \/ Neutralized \/ LoopFails \/ Stop \/ Exit \/ Crash
             \/ \E m \in Markets : Raise(m)
    BY <1>4, CuttingKeeps
  <1>5. CASE CancelAll
    BY <1>5 DEF CancelAll, loops, shares, Counted, Room, Alone, SellsOnce, OnItsWay,
                Running
  <1>6. CASE Restart
    BY <1>6 DEF Restart, Open, shares, Counted, Room, Alone, SellsOnce, OnItsWay,
                Running
  <1>7. ASSUME NEW m \in Markets, Fill(m)
        PROVE  IInv'
    <2>1. chain' \in [Markets -> 0 .. MaxShares] /\ stray' \in [Markets -> 0 .. MaxShares]
      BY <1>7 DEF Fill
    <2>2. TypeOK'
      BY <1>7, <2>1 DEF Fill, loops, shares, Running
    <2>3. ASSUME NEW k \in Markets
          PROVE  Books(k)'
      BY <1>7, <2>1 DEF Fill, shares, Counted, Room, Alone, SellsOnce, OnItsWay
    <2> QED
      BY <2>2, <2>3
  <1>8. ASSUME NEW m \in Markets, Land(m)
        PROVE  IInv'
    <2>1. bought[m] + stray[m] < MaxShares
      BY <1>8 DEF Land, Room, OnItsWay
    <2>2. stray' \in [Markets -> 0 .. MaxShares]
      BY <1>8, <2>1 DEF Land
    <2>3. TypeOK'
      BY <1>8, <2>2 DEF Land, loops, shares, Running
    <2>4. ASSUME NEW k \in Markets
          PROVE  Books(k)'
      BY <1>8, <2>1, <2>2 DEF Land, shares, Counted, Room, Alone, SellsOnce, OnItsWay
    <2> QED
      BY <2>3, <2>4
  <1>9. CASE UNCHANGED vars
    BY <1>9, IdleKeeps DEF vars, loops
  <1> QED
    BY <1>1, <1>2, <1>3, <1>4, <1>5, <1>6, <1>7, <1>8, <1>9
       DEF Next, RiskLoop, Process

LEMMA InitHolds == Init => IInv
  <1> SUFFICES ASSUME Init PROVE IInv
    OBVIOUS
  <1>0. [m \in Markets |-> 0] \in [Markets -> 0 .. MaxShares]
    BY EngineAssumption
  <1>1. TypeOK
    BY <1>0, EngineAssumption DEF Init, Running
  <1>2. \A m \in Markets : Books(m)
    BY EngineAssumption DEF Init, Counted, Room, Alone, SellsOnce, OnItsWay
  <1> QED
    BY <1>1, <1>2

-----------------------------------------------------------------------------
\* The books are in order in every reachable state: all that was bought is
\* held or disposed of, and at most one share of a market is on its way.
THEOREM Invariance == Spec => []IInv
  BY InitHolds, NextKeeps, PTL DEF Spec

\* Every variable of the engine stays in its type, and only a running task has
\* a quote or a sale under way.
THEOREM TypeCorrect == Spec => []TypeOK
  BY Invariance, PTL

\* No share is sold or settled twice, whichever of a task's sale, the halt's
\* neutralizing pass and the settlement of its market comes first.
THEOREM NothingDisposedTwice == Spec => []DisposedOnce
  <1>1. IInv => DisposedOnce
    BY DEF DisposedOnce, Counted
  <1> QED
    BY <1>1, Invariance, PTL

-----------------------------------------------------------------------------
(* The orderly exit.                                                       *)

\* Once stop() has cancelled the tasks, both loops have returned and no
\* coroutine is left that could place an order.
Ended ==
  engine \in {"closing", "cancelled", "down", "dead"} =>
    /\ discovery = "gone" /\ risk = "gone"
    /\ \A m \in Markets : ~Running(m)

Swept ==
  engine \in {"cancelled", "down"} =>
    \A m \in Markets : stray[m] > 0 => late[m] = "slipped"

EInv == IInv /\ Ended /\ Swept

\* A step of a coroutine is a step of a process that has not stopped yet.
LEMMA CoroutinesKeep ==
  ASSUME EInv,
         DiscoveryLoop \/ RiskLoop \/ \E m \in Markets : Quoting(m) \/ Raise(m)
  PROVE  engine \in {"up", "stopped"} /\ engine' = engine
  <1>1. CASE DiscoveryLoop
    BY <1>1 DEF EInv, Ended, DiscoveryLoop, DiscoveryTop, Discover
  <1>2. CASE RiskTop \/ RiskWake \/ Check \/ Neutralized \/ Booted
    BY <1>2 DEF EInv, Ended, RiskTop, RiskWake, Check, Neutralized, Booted
  <1>3. CASE \E m \in Markets : Settle(m) \/ Neutralize(m)
    BY <1>3 DEF EInv, Ended, Settle, Neutralize
  <1>4. ASSUME NEW m \in Markets, Quoting(m)
        PROVE  Running(m) /\ engine' = engine
    BY <1>4 DEF Running, Quoting, SendOrder, OrderAnswered, PollFill, DropQuote,
                StartSale, FinishSale, Leave
  <1>5. ASSUME NEW m \in Markets, Raise(m)
        PROVE  Running(m) /\ engine' = engine
    BY <1>5 DEF Raise
  <1> QED
    BY <1>1, <1>2, <1>3, <1>4, <1>5 DEF RiskLoop, EInv, Ended

LEMMA NextEnds ==
  ASSUME "loop" \notin Faults, EInv, [Next]_vars
  PROVE  Ended' /\ Swept'
  <1> USE DEF Running
  <1>1. CASE DiscoveryLoop \/ RiskLoop \/ \E m \in Markets : Quoting(m) \/ Raise(m)
    BY <1>1, CoroutinesKeep DEF Ended, Swept
  <1>2. CASE Stop
    BY <1>2 DEF Stop, StoppedTasks, loops, Ended, Swept
  <1>3. CASE CancelAll
    BY <1>3 DEF CancelAll, loops, EInv, Ended, Swept
  <1>4. CASE Exit
    <2>1. \A m \in Markets : order[m] = "none" /\ task[m] # "place"
      BY <1>4 DEF Exit, EInv, Ended
    <2>2. /\ stray' = [m \in Markets |->
                         IF m \in Markets /\ order[m] = "resting" THEN stray[m] + 1
                                                                  ELSE stray[m]]
          /\ late' = [m \in Markets |->
                        IF m \in Markets /\ task[m] = "place" THEN "flying" ELSE late[m]]
      BY <1>4 DEF Exit, Ends, Cut
    <2>3. Ended'
      BY <1>4 DEF Exit, Ends, Ended
    <2>4. Swept'
      BY <1>4, <2>1, <2>2 DEF Exit, EInv, Swept
    <2> QED
      BY <2>3, <2>4
  <1>5. CASE Crash
    BY <1>5 DEF Crash, Ends, Ended, Swept
  <1>6. CASE Signal \/ Restart
    BY <1>6 DEF Signal, Restart, Ended, Swept
  <1>7. CASE Halt \/ \E m \in Markets : Close(m)
    BY <1>7 DEF Halt, Close, loops, quotes, EInv, Ended, Swept
  <1>8. ASSUME NEW m \in Markets, Fill(m)
        PROVE  Ended' /\ Swept'
    <2>1. Ended'
      BY <1>8 DEF Fill, loops, EInv, Ended
    <2>2. ASSUME engine \in {"cancelled", "down"}
          PROVE  Swept'
      <3>1. order[m] # "resting"
        BY <2>2 DEF EInv, Ended
      <3>2. late' = late /\ stray' = [stray EXCEPT ![m] = @ - 1] /\ stray[m] > 0
        BY <1>8, <3>1 DEF Fill
      <3> QED
        BY <2>2, <3>2 DEF EInv, Swept
    <2> QED
      BY <1>8, <2>1, <2>2 DEF Fill, Swept
  <1>9. ASSUME NEW m \in Markets, Land(m)
        PROVE  Ended' /\ Swept'
    BY <1>9 DEF Land, loops, EInv, Ended, Swept
  <1>10. CASE UNCHANGED vars
    BY <1>10 DEF vars, loops, quotes, EInv, Ended, Swept
  <1>11. ~LoopFails
    BY DEF LoopFails
  <1> QED
    BY <1>1, <1>2, <1>3, <1>4, <1>5, <1>6, <1>7, <1>8, <1>9, <1>10, <1>11
       DEF Next, Process

\* An engine whose loops do not raise leaves no order behind it when it exits,
\* but those its threads had under way: the tasks end before cancel_all, and
\* the loops before the tasks.
THEOREM ExitIsQuiet ==
  ASSUME "loop" \notin Faults
  PROVE  Spec => []ShutdownQuiet
  <1>1. Init => EInv
    BY InitHolds DEF EInv, Init, Ended, Swept, Running
  <1>2. EInv /\ [Next]_vars => EInv'
    BY NextKeeps, NextEnds DEF EInv
  <1>3. EInv => ShutdownQuiet
    BY DEF EInv, Swept, ShutdownQuiet
  <1> QED
    BY <1>1, <1>2, <1>3, PTL DEF Spec
=============================================================================
