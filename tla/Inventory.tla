----------------------------- MODULE Inventory -----------------------------
(***************************************************************************)
(* InventoryManager (state_machine/memory_manager.py) over the table       *)
(* mm_inventory (db_schema.py), which the paper and the live money-world   *)
(* share: one process at a time runs in one world, keeps what it holds in  *)
(* memory, writes the row of a market after each change and reads its      *)
(* world's rows when it starts.                                            *)
(*                                                                         *)
(* Nothing awaits inside write_lock, so the lock is always free and a      *)
(* change and its write are one step, unless sqlite raises or the process  *)
(* dies between them.  Shares are counted in lots and what a sale earns,   *)
(* sold * (price - cost), is any of Gains.                                 *)
(***************************************************************************)
EXTENDS Integers, FiniteSets

CONSTANTS
  Markets,
  Legs,       \* "UP" and "DOWN"
  Lots,       \* the sizes of fills
  Gains,      \* what a sale or a settlement may earn
  None,       \* a market without a state or a row
  MaxShares,  \* bound on the shares of a leg
  MaxPnl      \* bound on what a world earns in a market

ASSUME InventoryAssumption ==
  /\ Lots \subseteq Nat \ {0} /\ Gains \subseteq Int
  /\ MaxShares \in Nat /\ MaxPnl \in Nat

\* A money-world is the value of the column paper.
Worlds == BOOLEAN

InvState == [shares : [Legs -> Nat], pnl : Int]
Row == [paper : Worlds, state : InvState]

ASSUME NoneAssumption == None \notin InvState /\ None \notin Row

VARIABLES
  paper,        \* the world of the running process
  states,       \* _states
  rows,         \* mm_inventory
  account,      \* history: per world and market, the shares bought and not
                \* sold and what was realized, until the state is torn
  behind,       \* markets whose row is older than their state
  overwritten,  \* history: [world, market] whose row the other world replaced
  torn          \* history: [world, market] whose state was lost with the
                \* process while its row was behind

vars == <<paper, states, rows, account, behind, overwritten, torn>>

Empty == [shares |-> [leg \in Legs |-> 0], pnl |-> 0]

\* _ensure
StateOf(m) == IF states[m] = None THEN Empty ELSE states[m]

-----------------------------------------------------------------------------
\* Mutant: only a new row names its world.
UpsertedKeepingWorld(m, st) ==
  IF rows[m] = None THEN [paper |-> paper, state |-> st] ELSE [rows[m] EXCEPT !.state = st]

\* upsert_mm_inventory: one row per market, whichever world writes it.
Upserted(m, st) == [paper |-> paper, state |-> st]

Bounded(st) ==
  /\ \A leg \in Legs : st.shares[leg] \in -MaxShares .. MaxShares
  /\ st.pnl \in -MaxPnl .. MaxPnl

\* A change of a market's state, and _persist, which may raise.
Change(m, st, history) ==
  /\ Bounded(st) /\ (<<paper, m>> \in torn \/ Bounded(history))
  /\ states' = [states EXCEPT ![m] = st]
  /\ account' = IF <<paper, m>> \in torn THEN account
                ELSE [account EXCEPT ![paper][m] = history]
  /\ \/ /\ rows' = [rows EXCEPT ![m] = Upserted(m, st)]
        /\ behind' = behind \ {m}
        /\ overwritten' = IF rows[m] # None /\ rows[m].paper # paper
                          THEN overwritten \cup {<<~paper, m>>} ELSE overwritten
     \/ behind' = behind \cup {m} /\ UNCHANGED <<rows, overwritten>>
  /\ UNCHANGED <<paper, torn>>

\* n more shares of a leg, for a basis and a price that realize gain.
Moved(st, leg, n, gain) ==
  [shares |-> [st.shares EXCEPT ![leg] = @ + n], pnl |-> st.pnl + gain]

Move(m, leg, n, gain) ==
  Change(m, Moved(StateOf(m), leg, n, gain), Moved(account[paper][m], leg, n, gain))

ApplyBuy(m, leg, qty) == Move(m, leg, qty, 0)

\* Mutant: a sale is not capped at what is held.
SoldUncapped(held, qty) == IF held > 0 THEN qty ELSE 0

Sold(held, qty) == IF qty <= held THEN qty ELSE held

ApplySell(m, leg, qty, gain) ==
  LET sold == Sold(StateOf(m).shares[leg], qty)
  IN  sold > 0 /\ Move(m, leg, -sold, gain)

\* Down to what the chain says is held.
ReconcileLegToChain(m, leg, onchain, gain) ==
  LET extra == StateOf(m).shares[leg] - onchain
  IN  extra > 0 /\ Move(m, leg, -extra, gain)

\* Both legs are settled at once.
Settled(st, held, gain) ==
  [shares |-> [leg \in Legs |-> st.shares[leg] - held[leg]], pnl |-> st.pnl + gain]

MarkResolution(m, gain) ==
  LET held == StateOf(m).shares
  IN  /\ \E leg \in Legs : held[leg] > 0
      /\ Change(m, Settled(StateOf(m), held, gain), Settled(account[paper][m], held, gain))

\* Mutant: a process takes the rows of both worlds for its own.
LoadedAll(p) == [m \in Markets |-> IF rows[m] = None THEN None ELSE rows[m].state]

Loaded(p) ==
  [m \in Markets |-> IF rows[m] # None /\ rows[m].paper = p THEN rows[m].state ELSE None]

\* The process ends and the next one, of either world, loads.
Restart(p) ==
  /\ paper' = p
  /\ states' = Loaded(p)
  /\ torn' = torn \cup {<<paper, m>> : m \in behind}
  /\ behind' = {}
  /\ UNCHANGED <<rows, account, overwritten>>

-----------------------------------------------------------------------------
Init ==
  /\ paper \in Worlds
  /\ states = [m \in Markets |-> None] /\ rows = [m \in Markets |-> None]
  /\ account = [w \in Worlds |-> [m \in Markets |-> Empty]]
  /\ behind = {} /\ overwritten = {} /\ torn = {}

Next ==
  \/ \E m \in Markets, leg \in Legs, qty \in Lots : ApplyBuy(m, leg, qty)
  \/ \E m \in Markets, leg \in Legs, qty \in Lots, gain \in Gains :
       ApplySell(m, leg, qty, gain)
  \/ \E m \in Markets, leg \in Legs, onchain \in 0 .. MaxShares, gain \in Gains :
       ReconcileLegToChain(m, leg, onchain, gain)
  \/ \E m \in Markets, gain \in Gains : MarkResolution(m, gain)
  \/ \E p \in Worlds : Restart(p)

Spec == Init /\ [][Next]_vars

-----------------------------------------------------------------------------
(* Properties.                                                             *)

Written(w, m) ==
  IF rows[m] # None /\ rows[m].paper = w THEN rows[m].state ELSE Empty

\* Types; a leg never holds a negative number of shares.
TypeOK ==
  /\ paper \in Worlds /\ behind \subseteq Markets
  /\ states \in [Markets -> InvState \cup {None}]
  /\ rows \in [Markets -> Row \cup {None}]
  /\ account \in [Worlds -> [Markets -> [shares : [Legs -> Int], pnl : Int]]]
  /\ overwritten \subseteq Worlds \X Markets /\ torn \subseteq Worlds \X Markets

\* A world's shares and realized P&L outlive every restart, change of world and
\* failed write ("This survives restarts"), but for two causes: the other world
\* traded the same market, or the process died while the row was behind.
BooksKept == \A w \in Worlds, m \in Markets :
  <<w, m>> \notin overwritten \cup torn =>
    /\ w = paper => StateOf(m) = account[w][m]
    /\ w # paper \/ m \notin behind => Written(w, m) = account[w][m]

\* A process holds no share its own world did not buy ("otherwise it tries to
\* release units it doesn't hold"), however often the worlds overwrite each
\* other's rows; only a write that failed before a crash brings back what was
\* sold.
OwnSharesOnly == \A m \in Markets, leg \in Legs :
  <<paper, m>> \notin torn => StateOf(m).shares[leg] <= account[paper][m].shares[leg]
=============================================================================
