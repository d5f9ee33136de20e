-------------------------- MODULE InventoryProofs --------------------------
(* Theorems about Inventory, for any markets, legs and sizes and any number  *)
(* of restarts, failed writes and changes of world.                         *)
EXTENDS Inventory, TLAPS

\* st records no more shares than world w bought and did not sell.
Within(st, w, m) == \A leg \in Legs : st.shares[leg] <= account[w][m].shares[leg]

\* BooksKept and OwnSharesOnly say of the rows what they will be loaded as.
RowsSound == \A w \in Worlds, m \in Markets :
  <<w, m>> \notin torn /\ (w # paper \/ m \notin behind) => Within(Written(w, m), w, m)

StatesSound == \A m \in Markets :
  <<paper, m>> \notin torn => Within(StateOf(m), paper, m)

IInv == TypeOK /\ BooksKept /\ RowsSound /\ StatesSound

LEMMA EmptyType == Empty \in InvState
BY DEF Empty, InvState

LEMMA StateType ==
  ASSUME TypeOK, NEW m \in Markets
  PROVE  /\ StateOf(m) \in InvState
         /\ \A w \in Worlds : Written(w, m) \in InvState
BY EmptyType DEF TypeOK, StateOf, Written, Row

LEMMA InitHolds == Init => IInv
<1> SUFFICES ASSUME Init PROVE IInv
  OBVIOUS
<1>1. TypeOK
  BY EmptyType DEF Init, TypeOK, Worlds, InvState
<1>2. \A m \in Markets : StateOf(m) = Empty /\ \A w \in Worlds : Written(w, m) = Empty
  BY DEF Init, StateOf, Written
<1>3. \A w \in Worlds, m \in Markets : account[w][m] = Empty
  BY DEF Init
<1>4. \A w \in Worlds, m \in Markets : Within(Empty, w, m)
  BY <1>3 DEF Within, Empty
<1> QED BY <1>1, <1>2, <1>3, <1>4 DEF IInv, BooksKept, RowsSound, StatesSound, Init, Worlds

History == [shares : [Legs -> Int], pnl : Int]

\* A change keeps the invariant when the history of its market moves with it.
LEMMA ChangeKeeps ==
  ASSUME IInv, NEW m \in Markets, NEW st \in InvState, NEW history \in History,
         Change(m, st, history),
         <<paper, m>> \notin torn =>
           /\ \A leg \in Legs : st.shares[leg] <= history.shares[leg]
           /\ StateOf(m) = account[paper][m] => st = history
  PROVE  IInv'
<1>1. /\ states' = [states EXCEPT ![m] = st] /\ UNCHANGED <<paper, torn>>
      /\ paper \in Worlds /\ st # None
      /\ states \in [Markets -> InvState \cup {None}]
      /\ account \in [Worlds -> [Markets -> History]]
  BY NoneAssumption DEF Change, IInv, TypeOK, History
<1>2. \/ /\ rows' = [rows EXCEPT ![m] = [paper |-> paper, state |-> st]]
         /\ behind' = behind \ {m}
         /\ overwritten' = IF rows[m] # None /\ rows[m].paper # paper
                           THEN overwritten \cup {<<~paper, m>>} ELSE overwritten
      \/ behind' = behind \cup {m} /\ UNCHANGED <<rows, overwritten>>
  BY DEF Change, Upserted
<1>3. /\ account' \in [Worlds -> [Markets -> History]]
      /\ \A w \in Worlds, o \in Markets :
            w # paper \/ o # m => account'[w][o] = account[w][o]
      /\ <<paper, m>> \notin torn => account'[paper][m] = history
  BY <1>1 DEF Change
<1>4. [paper |-> paper, state |-> st] \in Row /\ [paper |-> paper, state |-> st] # None
  BY <1>1, NoneAssumption DEF Row
<1>5. TypeOK'
  <2>1. states' \in [Markets -> InvState \cup {None}] /\ rows' \in [Markets -> Row \cup {None}]
    BY <1>1, <1>2, <1>4 DEF IInv, TypeOK
  <2>2. <<~paper, m>> \in Worlds \X Markets
    BY DEF Worlds
  <2>3. behind' \subseteq Markets /\ overwritten' \subseteq Worlds \X Markets
    BY <1>2, <2>2 DEF IInv, TypeOK
  <2> QED BY <1>1, <1>3, <2>1, <2>3 DEF IInv, TypeOK, History
<1>6. /\ StateOf(m)' = st
      /\ \A o \in Markets : o # m => StateOf(o)' = StateOf(o)
  BY <1>1 DEF StateOf
<1>7. \A w \in Worlds, o \in Markets :
        o # m => Written(w, o)' = Written(w, o) /\ (o \in behind' <=> o \in behind)
                  /\ (<<w, o>> \in overwritten' <=> <<w, o>> \in overwritten)
  BY <1>2 DEF Written, IInv, TypeOK
<1>8. ASSUME m \notin behind' PROVE Written(paper, m)' = st
  <2>1. rows'[m] = [paper |-> paper, state |-> st]
    BY <1>2, <1>8 DEF IInv, TypeOK
  <2> QED BY <1>1, <1>4, <2>1 DEF Written
<1>9. \A w \in Worlds : w # paper =>
        \/ Written(w, m)' = Written(w, m)
        \/ Written(w, m)' = Empty /\ <<w, m>> \in overwritten'
  <2> SUFFICES ASSUME NEW w \in Worlds, w # paper
               PROVE  \/ Written(w, m)' = Written(w, m)
                      \/ Written(w, m)' = Empty /\ <<w, m>> \in overwritten'
    OBVIOUS
  <2>1. CASE UNCHANGED rows
    BY <2>1 DEF Written
  <2>2. CASE ~UNCHANGED rows
    <3>1. rows'[m] # None /\ rows'[m].paper = paper
      BY <1>2, <1>4, <2>2 DEF IInv, TypeOK
    <3>2. Written(w, m)' = Empty
      BY <3>1 DEF Written
    <3>3. CASE rows[m] # None /\ rows[m].paper # paper
      <4>1. w = ~paper
        BY <1>1 DEF Worlds
      <4>2. <<w, m>> \in overwritten'
        BY <1>2, <2>2, <3>3, <4>1
      <4> QED BY <3>2, <4>2
    <3>4. CASE ~(rows[m] # None /\ rows[m].paper # paper)
      BY <3>2, <3>4 DEF Written
    <3> QED BY <3>3, <3>4
  <2> QED BY <2>1, <2>2
<1>10. \A w \in Worlds, o \in Markets : <<w, o>> \in overwritten => <<w, o>> \in overwritten'
  BY <1>2
<1>11. \A w \in Worlds, o \in Markets :
         w # paper \/ o # m => \A s : Within(s, w, o)' <=> Within(s, w, o)
  BY <1>3 DEF Within
<1>12. BooksKept'
  <2> SUFFICES ASSUME NEW w \in Worlds, NEW o \in Markets,
                      <<w, o>> \notin overwritten' \cup torn'
               PROVE  /\ w = paper' => StateOf(o)' = account'[w][o]
                      /\ w # paper' \/ o \notin behind' => Written(w, o)' = account'[w][o]
    BY DEF BooksKept
  <2>1. <<w, o>> \notin overwritten \cup torn
    BY <1>1, <1>10
  <2>2. /\ w = paper => StateOf(o) = account[w][o]
        /\ w # paper \/ o \notin behind => Written(w, o) = account[w][o]
    BY <2>1 DEF IInv, BooksKept
  <2>3. CASE o # m
    BY <1>1, <1>6, <1>7, <1>3, <2>2, <2>3
  <2>4. CASE o = m /\ w # paper
    BY <1>1, <1>9, <1>3, <2>2, <2>4
  <2>5. CASE o = m /\ w = paper
    <3>1. st = account'[w][o]
      BY <1>1, <1>3, <2>1, <2>2, <2>5
    <3> QED BY <1>1, <1>6, <1>8, <2>5, <3>1
  <2> QED BY <2>3, <2>4, <2>5
<1>13. StatesSound'
  BY <1>1, <1>6, <1>11, <1>3 DEF IInv, StatesSound, Within
<1>14. RowsSound'
  <2> SUFFICES ASSUME NEW w \in Worlds, NEW o \in Markets,
                      <<w, o>> \notin torn', w # paper' \/ o \notin behind'
               PROVE  Within(Written(w, o), w, o)'
    BY DEF RowsSound
  <2>1. CASE o # m
    BY <1>1, <1>7, <1>11, <2>1 DEF IInv, RowsSound, Within
  <2>2. CASE o = m /\ w # paper
    <3>1. Within(Written(w, m), w, m)
      BY <1>1, <2>2 DEF IInv, RowsSound
    <3>2. \A leg \in Legs : Written(w, m).shares[leg] \in Nat /\ account[w][m].shares[leg] \in Int
      BY StateType DEF IInv, TypeOK, InvState
    <3>3. Within(Empty, w, m)
      <4>1. \A leg \in Legs : Empty.shares[leg] = 0
        BY DEF Empty
      <4> QED BY <3>1, <3>2, <4>1 DEF Within
    <3>4. account'[w][m] = account[w][m]
      BY <1>3, <2>2
    <3> QED BY <1>9, <2>2, <3>1, <3>3, <3>4 DEF Within
  <2>3. CASE o = m /\ w = paper
    BY <1>1, <1>8, <1>3, <2>3 DEF Within
  <2> QED BY <2>1, <2>2, <2>3
<1> QED BY <1>5, <1>12, <1>13, <1>14 DEF IInv

LEMMA RestartKeeps ==
  ASSUME IInv, NEW p \in Worlds, Restart(p)
  PROVE  IInv'
<1>1. /\ paper' = p /\ behind' = {} /\ UNCHANGED <<rows, account, overwritten>>
      /\ torn' = torn \cup {<<paper, m>> : m \in behind}
      /\ states' = [m \in Markets |->
           IF rows[m] # None /\ rows[m].paper = p THEN rows[m].state ELSE None]
  BY DEF Restart, Loaded
<1>2. TypeOK'
  BY <1>1 DEF IInv, TypeOK, Row
<1>3. \A m \in Markets : StateOf(m)' = Written(p, m)
  <2> SUFFICES ASSUME NEW m \in Markets PROVE StateOf(m)' = Written(p, m)
    OBVIOUS
  <2>1. CASE rows[m] # None /\ rows[m].paper = p
    <3>1. rows[m].state # None /\ states'[m] = rows[m].state
      BY <1>1, <2>1, NoneAssumption DEF IInv, TypeOK, Row
    <3> QED BY <2>1, <3>1 DEF StateOf, Written
  <2>2. CASE ~(rows[m] # None /\ rows[m].paper = p)
    BY <1>1, <2>2 DEF StateOf, Written
  <2> QED BY <2>1, <2>2
<1>4. \A w \in Worlds, m \in Markets :
        /\ <<w, m>> \notin torn' => <<w, m>> \notin torn /\ (w # paper \/ m \notin behind)
        /\ Written(w, m)' = Written(w, m) /\ account'[w][m] = account[w][m]
  BY <1>1 DEF Written
<1>5. \A w \in Worlds, m \in Markets :
        <<w, m>> \notin torn' => Within(Written(w, m), w, m)
  BY <1>4 DEF IInv, RowsSound
<1>6. BooksKept'
  BY <1>1, <1>3, <1>4 DEF IInv, BooksKept
<1>7. RowsSound' /\ StatesSound'
  BY <1>1, <1>3, <1>4, <1>5 DEF RowsSound, StatesSound, Within
<1> QED BY <1>2, <1>6, <1>7 DEF IInv

-----------------------------------------------------------------------------
(* The operations.                                                         *)

LEMMA MoveKeeps ==
  ASSUME IInv, NEW m \in Markets, NEW leg \in Legs, NEW n \in Int, NEW gain \in Int,
         StateOf(m).shares[leg] + n \in Nat, Move(m, leg, n, gain)
  PROVE  IInv'
<1> DEFINE old == StateOf(m)
           past == account[paper][m]
           st == Moved(old, leg, n, gain)
           history == Moved(past, leg, n, gain)
<1>1. old \in InvState /\ old.shares \in [Legs -> Nat] /\ old.pnl \in Int
  BY StateType DEF IInv, InvState
<1>2. past \in History /\ past.shares \in [Legs -> Int] /\ past.pnl \in Int
  BY DEF IInv, TypeOK, History
<1>3. st \in InvState /\ st.shares = [old.shares EXCEPT ![leg] = @ + n]
  BY <1>1 DEF InvState, Moved
<1>4. history \in History /\ history.shares = [past.shares EXCEPT ![leg] = @ + n]
  BY <1>2 DEF History, Moved
<1>5. ASSUME <<paper, m>> \notin torn
      PROVE  \A l \in Legs : st.shares[l] <= history.shares[l]
  <2>1. \A l \in Legs : old.shares[l] <= past.shares[l]
    BY <1>5 DEF IInv, StatesSound, Within
  <2> HIDE DEF st, history, old, past
  <2> QED BY <1>1, <1>2, <1>3, <1>4, <2>1
<1>6. old = past => st = history
  OBVIOUS
<1>7. Change(m, st, history)
  BY DEF Move
<1> HIDE DEF st, history
<1> QED BY <1>3, <1>4, <1>5, <1>6, <1>7, ChangeKeeps

LEMMA BuyKeeps ==
  ASSUME IInv, NEW m \in Markets, NEW leg \in Legs, NEW qty \in Lots, ApplyBuy(m, leg, qty)
  PROVE  IInv'
<1>1. StateOf(m).shares[leg] \in Nat /\ qty \in Nat
  BY StateType, InventoryAssumption DEF IInv, InvState
<1> QED BY <1>1, MoveKeeps DEF ApplyBuy

LEMMA SellKeeps ==
  ASSUME IInv, NEW m \in Markets, NEW leg \in Legs, NEW qty \in Lots, NEW gain \in Gains,
         ApplySell(m, leg, qty, gain)
  PROVE  IInv'
<1> DEFINE held == StateOf(m).shares[leg]
           sold == Sold(held, qty)
<1>1. held \in Nat /\ qty \in Nat /\ gain \in Int
  BY StateType, InventoryAssumption DEF IInv, InvState
<1>2. sold \in Nat /\ sold <= held
  BY <1>1 DEF Sold
<1>3. Move(m, leg, -sold, gain)
  BY DEF ApplySell
<1> HIDE DEF sold
<1>4. -sold \in Int /\ held + -sold \in Nat
  BY <1>1, <1>2
<1> QED BY <1>1, <1>3, <1>4, MoveKeeps

LEMMA ReconcileKeeps ==
  ASSUME IInv, NEW m \in Markets, NEW leg \in Legs, NEW onchain \in 0 .. MaxShares,
         NEW gain \in Gains, ReconcileLegToChain(m, leg, onchain, gain)
  PROVE  IInv'
<1> DEFINE held == StateOf(m).shares[leg]
           extra == held - onchain
<1>1. held \in Nat /\ onchain \in Nat /\ gain \in Int
  BY StateType, InventoryAssumption DEF IInv, InvState
<1>2. -extra \in Int /\ held + -extra \in Nat
  BY <1>1
<1>3. Move(m, leg, -extra, gain)
  BY DEF ReconcileLegToChain
<1> HIDE DEF extra
<1> QED BY <1>1, <1>2, <1>3, MoveKeeps

LEMMA SettleKeeps ==
  ASSUME IInv, NEW m \in Markets, NEW gain \in Gains, MarkResolution(m, gain)
  PROVE  IInv'
<1> DEFINE old == StateOf(m)
           past == account[paper][m]
           st == Settled(old, old.shares, gain)
           history == Settled(past, old.shares, gain)
<1>1. old \in InvState /\ old.shares \in [Legs -> Nat] /\ old.pnl \in Int /\ gain \in Int
  BY StateType, InventoryAssumption DEF IInv, InvState
<1>2. past \in History /\ past.shares \in [Legs -> Int] /\ past.pnl \in Int
  BY DEF IInv, TypeOK, History
<1>3. st \in InvState /\ st.shares = [leg \in Legs |-> old.shares[leg] - old.shares[leg]]
  BY <1>1 DEF InvState, Settled
<1>4. history \in History /\ history.shares = [leg \in Legs |-> past.shares[leg] - old.shares[leg]]
  BY <1>1, <1>2 DEF History, Settled
<1>5. ASSUME <<paper, m>> \notin torn
      PROVE  \A l \in Legs : st.shares[l] <= history.shares[l]
  <2>1. \A l \in Legs : old.shares[l] <= past.shares[l]
    BY <1>5 DEF IInv, StatesSound, Within
  <2> HIDE DEF st, history, old, past
  <2> QED BY <1>1, <1>2, <1>3, <1>4, <2>1
<1>6. old = past => st = history
  OBVIOUS
<1>7. Change(m, st, history)
  BY DEF MarkResolution
<1> HIDE DEF st, history
<1> QED BY <1>3, <1>4, <1>5, <1>6, <1>7, ChangeKeeps

-----------------------------------------------------------------------------
(* Theorems.                                                               *)

\* The invariant of the books of both worlds.
THEOREM Invariance == Spec => []IInv
<1>1. IInv /\ [Next]_vars => IInv'
  <2> SUFFICES ASSUME IInv, [Next]_vars PROVE IInv'
    OBVIOUS
  <2>1. CASE \E m \in Markets, leg \in Legs, qty \in Lots : ApplyBuy(m, leg, qty)
    BY <2>1, BuyKeeps
  <2>2. CASE \E m \in Markets, leg \in Legs, qty \in Lots, gain \in Gains :
               ApplySell(m, leg, qty, gain)
    BY <2>2, SellKeeps
  <2>3. CASE \E m \in Markets, leg \in Legs, onchain \in 0 .. MaxShares, gain \in Gains :
               ReconcileLegToChain(m, leg, onchain, gain)
    BY <2>3, ReconcileKeeps
  <2>4. CASE \E m \in Markets, gain \in Gains : MarkResolution(m, gain)
    BY <2>4, SettleKeeps
  <2>5. CASE \E p \in Worlds : Restart(p)
    BY <2>5, RestartKeeps
  <2>6. CASE UNCHANGED vars
    BY <2>6 DEF vars, IInv, TypeOK, BooksKept, RowsSound, StatesSound, Within,
       StateOf, Written
  <2> QED BY <2>1, <2>2, <2>3, <2>4, <2>5, <2>6 DEF Next
<1> QED BY <1>1, InitHolds, PTL DEF Spec

\* TypeOK: no leg holds a negative number of shares.
THEOREM TypeCorrect == Spec => []TypeOK
BY Invariance, PTL DEF IInv

\* BooksKept: shares and P&L outlive restarts, with the two exceptions named.
THEOREM BooksAreKept == Spec => []BooksKept
BY Invariance, PTL DEF IInv

\* OwnSharesOnly: no process sells shares of the other world.
THEOREM SharesAreOwn == Spec => []OwnSharesOnly
<1>1. IInv => OwnSharesOnly
  BY DEF IInv, StatesSound, Within, OwnSharesOnly
<1> QED BY <1>1, Invariance, PTL
=============================================================================
