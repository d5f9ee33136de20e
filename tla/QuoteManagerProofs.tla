------------------------- MODULE QuoteManagerProofs -------------------------
(* Theorems of QuoteManager, for every value of its constants.             *)
EXTENDS QuoteManager, TLAPS

-----------------------------------------------------------------------------
(* Facts about the operators.                                              *)

\* The loop over the legs starts and ends at a leg.
LEMMA LegFacts == FirstLeg \in Legs /\ LastLeg \in Legs
BY LegsAssumption DEF FirstLeg, LastLeg

\* Booking keeps a position a position, and it moves the shares by what is
\* booked, a sale at most to zero.
LEMMA PositionFacts ==
  ASSUME NEW p \in Position, NEW n \in Nat
  PROVE  /\ ApplySell(p, n) \in Position
         /\ ApplySell(p, n).shares = (IF n < p.shares THEN p.shares - n ELSE 0)
         /\ ReconcileToChain(p, n) \in Position
         /\ \A v \in Nat : n > 0 => /\ ApplyBuy(p, n, v) \in Position
                                    /\ ApplyBuy(p, n, v).shares = p.shares + n
<1>1. \A left \in Nat : Reduce(p, left) \in Position /\ Reduce(p, left).shares = left
  BY DEF Reduce, Flat, Position
<1>2. /\ ApplySell(p, n) \in Position
      /\ ApplySell(p, n).shares = (IF n < p.shares THEN p.shares - n ELSE 0)
  <2>1. CASE n < p.shares
    BY <1>1, <2>1 DEF ApplySell, Position
  <2>2. CASE ~(n < p.shares)
    BY <1>1, <2>2 DEF ApplySell, Position
  <2>. QED BY <2>1, <2>2
<1>3. ReconcileToChain(p, n) \in Position
  BY <1>1 DEF ReconcileToChain
<1>4. ASSUME NEW v \in Nat, n > 0
      PROVE  /\ ApplyBuy(p, n, v) \in Position
             /\ ApplyBuy(p, n, v).shares = p.shares + n
  <2>1. p.shares * p.cost + n * v \in Nat /\ p.shares + n \in Nat \ {0}
    BY <1>4 DEF Position
  <2>2. \A a \in Nat, b \in Nat \ {0} : a \div b \in Nat
    OBVIOUS
  <2>3. (p.shares * p.cost + n * v) \div (p.shares + n) \in Nat
    BY <2>1, <2>2
  <2>. QED BY <2>1, <2>3 DEF ApplyBuy, Position
<1>. QED BY <1>2, <1>3, <1>4

\* A minimum lot is at least one share.
LEMMA LotPositive == \A price \in Nat \ {0} : Lot(price) \in Nat \ {0}
<1>. SUFFICES ASSUME NEW price \in Nat \ {0} PROVE Lot(price) \in Nat \ {0}
  OBVIOUS
<1>1. SizeUsd \div price \in Nat
  BY KnobsAssumption
<1>. QED BY <1>1, KnobsAssumption DEF Lot

\* The control operators stay within Control, whatever the plan.
LEMMA ControlFacts ==
  ASSUME pc \in Control, plan \in Plan
  PROVE  /\ AfterLeg \in Control /\ AfterSide \in Control
         /\ AfterPoll \in Control /\ AfterCancel \in Control
         /\ \A at \in Points : Rest(at) \in Control
         /\ \A loop \in Loops, leg \in Legs : Enter(loop, leg) \in Control
<1>1. \A loop \in Loops, leg \in Legs : Enter(loop, leg) \in Control
  BY DEF Enter, Entry, Loops, Points, Awaits, Control, Sides
<1>2. \A at \in Points : Rest(at) \in Control
  BY LegFacts DEF Rest, Loops, Control, Sides
<1>3. AfterLeg \in Control
  <2>1. Enter(pc.loop, LastLeg) \in Control /\ Enter("flatten", FirstLeg) \in Control
    BY <1>1, LegFacts DEF Control, Loops
  <2>2. Rest("sleep") \in Control /\ Rest("done") \in Control
    BY <1>2 DEF Points, Awaits
  <2>. QED BY <2>1, <2>2 DEF AfterLeg
<1>4. AfterSide \in Control
  BY <1>3 DEF AfterSide, Control, Points, Awaits, Sides
<1>5. AfterPoll \in Control /\ AfterCancel \in Control
  BY <1>4 DEF AfterPoll, AfterCancel, Control, Points, Awaits, Sides
<1>. QED BY <1>1, <1>2, <1>3, <1>4, <1>5

\* A plan stays a plan.
LEMMA ContinueFacts ==
  ASSUME plan \in Plan, NEW next, Continue(next)
  PROVE  pc' = next /\ plan' \in Plan
<1>1. Idle \in Plan /\ DropAll \in Plan
  BY DEF Idle, DropAll, Keep, Drop, Plan, Want
<1>. QED BY <1>1 DEF Continue

\* Where the control goes next, spelled out.
LEMMA AfterLegMoves ==
  ASSUME pc \in Control, Continue(AfterLeg)
  PROVE  /\ pc'.at \notin {"place", "sell", "reconcile"}
         /\ pc'.at = "cancel" =>
              /\ plan' = DropAll /\ pc'.loop = "clear" /\ pc'.side = "acquire"
              /\ pc.loop = "clear" /\ pc.leg # LastLeg /\ pc'.leg = LastLeg
         /\ pc'.loop = "clear" => pc'.at = "cancel"
         /\ pc'.at = "flatten" => pc'.loop = "flatten"
         /\ pc'.loop = "flatten" => /\ pc'.at = "flatten"
                                    /\ \/ pc.loop = "flatten"
                                       \/ pc.loop = "clear" /\ pc.leg = LastLeg
         /\ pc'.at = "done" => pc.loop = "flatten"
BY DEF AfterLeg, Continue, Enter, Entry, Rest, Control, Loops

LEMMA AfterSideMoves ==
  ASSUME pc \in Control, Continue(AfterSide), pc.at # "sleep"
  PROVE  \/ /\ pc.side = "acquire" /\ plan' = plan
            /\ pc' = [pc EXCEPT !.at = "cancel", !.side = "release"]
         \/ /\ pc.side = "release" /\ plan.exit > 0 /\ plan' = plan
            /\ pc' = [pc EXCEPT !.at = "sell"]
         \/ pc.side = "release" /\ ~(plan.exit > 0) /\ Continue(AfterLeg)
<1>1. CASE pc.side = "acquire"
  <2>1. AfterSide = [pc EXCEPT !.at = "cancel", !.side = "release"]
    BY <1>1 DEF AfterSide
  <2>2. /\ AfterSide.leg = pc.leg /\ AfterSide.loop = pc.loop
        /\ AfterSide.at = "cancel"
    BY <2>1 DEF Control
  <2>. QED BY <1>1, <2>1, <2>2 DEF Continue
<1>2. CASE pc.side = "release" /\ plan.exit > 0
  <2>1. AfterSide = [pc EXCEPT !.at = "sell"]
    BY <1>2 DEF AfterSide
  <2>2. /\ AfterSide.leg = pc.leg /\ AfterSide.loop = pc.loop
        /\ AfterSide.at = "sell"
    BY <2>1 DEF Control
  <2>. QED BY <1>2, <2>1, <2>2 DEF Continue
<1>3. CASE pc.side = "release" /\ ~(plan.exit > 0)
  <2>1. AfterSide = AfterLeg
    BY <1>3 DEF AfterSide
  <2>. QED BY <1>3, <2>1
<1>. QED BY <1>1, <1>2, <1>3 DEF Control, Sides

-----------------------------------------------------------------------------
(* The inductive invariant.                                                *)

\* An order that is still open has shares left to fill.
OpenHasRoom ==
  \A leg \in Legs, side \in Sides : Resting(leg, side) /\ ex[leg][side].open =>
    ex[leg][side].filled < quote[leg][side].qty

\* What a plan may ask for where it is being carried out: orders for some
\* shares, and a sale only of a leg whose ask is cancelled.
PlanSound ==
  /\ pc.loop = "clear" => pc.at = "cancel" /\ plan = DropAll
  /\ pc.loop = "flatten" => pc.at \in {"flatten", "sell", "reconcile"}
  /\ pc.at = "flatten" => pc.loop = "flatten"
  /\ pc.at = "place" => plan[pc.side].do = "post"
  /\ pc.at \in {"cancel", "place"} =>
       /\ \A side \in Sides : plan[side].do = "post" => plan[side].qty > 0
       /\ plan.exit > 0 => plan.release.do = "drop"

\* Which quotes are known to be gone, from the order the cancels run in.
Cleared ==
  /\ pc.at = "place" => ~Resting(pc.leg, pc.side)
  /\ pc.at \in {"sell", "reconcile"} => ~Resting(pc.leg, "release")
  /\ pc.loop = "clear" /\ pc.side = "release" => ~Resting(pc.leg, "acquire")
  /\ pc.loop = "clear" /\ pc.leg = LastLeg =>
       \A leg \in Legs \ {LastLeg}, side \in Sides : ~Resting(leg, side)
  /\ QuietWhenFlattening

IInv == TypeOK /\ OpenHasRoom /\ PlanSound /\ Cleared

LEMMA InitIInv == Init => IInv
<1>. SUFFICES ASSUME Init PROVE IInv
  OBVIOUS
<1>1. TypeOK
  <2>1. Idle \in Plan /\ Flat \in Position /\ Gone \in Order
    BY DEF Idle, Keep, Plan, Want, Flat, Position, Gone, Order
  <2>2. pc \in Control
    BY LegFacts DEF Init, Rest, Control, Points, Awaits, Loops, Sides
  <2>. QED BY <2>1, <2>2 DEF Init, TypeOK, Touch, Resting
<1>2. OpenHasRoom
  BY DEF Init, OpenHasRoom, Resting, Sides
<1>3. PlanSound
  BY DEF Init, PlanSound, Rest
<1>4. Cleared
  BY DEF Init, Cleared, QuietWhenFlattening, Rest, Resting, Sides
<1>. QED BY <1>1, <1>2, <1>3, <1>4 DEF IInv

-----------------------------------------------------------------------------
(* What the shared parts of the actions do to the state.                   *)

\* Changing one slot of a table of slots changes no other.
LEMMA SlotUpdate ==
  ASSUME NEW S, NEW f \in [Legs -> [Sides -> S]],
         NEW leg \in Legs, NEW side \in Sides, NEW v \in S
  PROVE  LET g == [f EXCEPT ![leg][side] = v]
         IN  /\ g \in [Legs -> [Sides -> S]]
             /\ g[leg][side] = v
             /\ \A l \in Legs, s \in Sides : l # leg \/ s # side => g[l][s] = f[l][s]
OBVIOUS

\* Booking a fill moves one leg by what is booked.
LEMMA BookFillFacts ==
  ASSUME inv \in [Legs -> Position], aged \in [Legs -> BOOLEAN],
         NEW leg \in Legs, NEW side \in Sides, NEW n \in Nat \ {0}, NEW v \in Nat,
         BookFill(leg, side, n, v)
  PROVE  /\ inv' \in [Legs -> Position] /\ aged' \in [Legs -> BOOLEAN]
         /\ \A l \in Legs \ {leg} : inv'[l] = inv[l]
         /\ side = "acquire" => inv'[leg].shares = inv[leg].shares + n
         /\ side = "release" =>
              inv'[leg].shares = (IF n < inv[leg].shares THEN inv[leg].shares - n ELSE 0)
<1>. DEFINE p == IF side = "acquire" THEN ApplyBuy(inv[leg], n, v)
                                     ELSE ApplySell(inv[leg], n)
            a == IF side = "acquire" THEN aged[leg] /\ inv[leg].shares > 0
                                     ELSE aged[leg] \/ p.shares = 0
<1>1. inv' = [inv EXCEPT ![leg] = p] /\ aged' = [aged EXCEPT ![leg] = a]
  BY DEF BookFill
<1>2. /\ p \in Position
      /\ side = "acquire" => p.shares = inv[leg].shares + n
      /\ side = "release" =>
           p.shares = (IF n < inv[leg].shares THEN inv[leg].shares - n ELSE 0)
  <2>1. inv[leg] \in Position
    OBVIOUS
  <2>2. /\ ApplySell(inv[leg], n) \in Position
        /\ ApplySell(inv[leg], n).shares =
             (IF n < inv[leg].shares THEN inv[leg].shares - n ELSE 0)
        /\ ApplyBuy(inv[leg], n, v) \in Position
        /\ ApplyBuy(inv[leg], n, v).shares = inv[leg].shares + n
    BY <2>1, PositionFacts
  <2>. QED BY <2>2 DEF Sides
<1>3. a \in BOOLEAN
  OBVIOUS
<1>. HIDE DEF p, a
<1>4. inv'[leg] = p /\ \A l \in Legs \ {leg} : inv'[l] = inv[l]
  BY <1>1
<1>5. inv' \in [Legs -> Position] /\ aged' \in [Legs -> BOOLEAN]
  BY <1>1, <1>2, <1>3
<1>. QED BY <1>2, <1>4, <1>5

\* Every plan _quote_leg can make is sound for the shares the leg holds.
LEMMA DecideFacts ==
  ASSUME TypeOK, NEW leg \in Legs, NEW guarded \in BOOLEAN
  PROVE  LET d == Decide(leg, touch[leg], guarded)
         IN  /\ d \in Plan
             /\ \A side \in Sides : d[side].do = "post" => d[side].qty > 0
             /\ d.release.do = "post" => d.release.qty <= inv[leg].shares
             /\ d.exit > 0 => d.release.do = "drop"
<1>. DEFINE t == touch[leg]
            d == Decide(leg, t, guarded)
<1>1. t \in Touch /\ inv[leg] \in Position
  BY DEF TypeOK
<1>2. /\ WantAsk(leg, t) \in Want
      /\ WantAsk(leg, t).do = "post" => /\ WantAsk(leg, t).qty > 0
                                        /\ WantAsk(leg, t).qty <= inv[leg].shares
  <2>1. AskPrice(leg, t) \in Nat
    <3>1. inv[leg].cost + MinProfitTicks * Tick \in Nat
      BY <1>1, KnobsAssumption DEF Position
    <3>. QED BY <1>1, <3>1 DEF AskPrice, Touch
  <2>2. Sellable(leg) => inv[leg].shares \in Nat \ {0}
    BY <1>1, KnobsAssumption DEF Sellable, Position
  <2>. QED BY <2>1, <2>2 DEF WantAsk, Want, Keep, Drop, Post
<1>3. t.bid # 0 => /\ WantBid(leg, t, guarded) \in Want
                   /\ WantBid(leg, t, guarded).do = "post" =>
                        WantBid(leg, t, guarded).qty > 0
  BY <1>1, LotPositive DEF WantBid, Want, Keep, Drop, Post, Touch
<1>4. CASE t.bid = 0 \/ t.ask = 0
  <2>1. d = DropAll
    BY <1>4 DEF Decide
  <2>. QED BY <2>1 DEF DropAll, Drop, Plan, Want, Sides
<1>5. CASE t.bid # 0 /\ t.ask # 0 /\ MustExit(leg, t)
  <2>1. d = [acquire |-> Keep, release |-> Drop, exit |-> inv[leg].shares]
    BY <1>5 DEF Decide
  <2>. QED BY <1>1, <2>1 DEF Keep, Drop, Plan, Want, Sides, Position
<1>6. CASE t.bid # 0 /\ t.ask # 0 /\ ~MustExit(leg, t)
  <2>1. d = [acquire |-> WantBid(leg, t, guarded),
             release |-> WantAsk(leg, t), exit |-> 0]
    BY <1>6 DEF Decide
  <2>. QED BY <1>2, <1>3, <1>6, <2>1 DEF Plan, Sides
<1>. QED BY <1>4, <1>5, <1>6

\* Shares resting on the exchange are counted by a natural number.
LEMMA RemainderFacts ==
  ASSUME TypeOK
  PROVE  \A leg \in Legs, side \in Sides : Remainder(leg, side) \in Nat
BY DEF TypeOK, Remainder, Resting, Quote, Order

\* A poll books what is new and touches no other leg.
LEMMA PollFacts ==
  ASSUME TypeOK, Poll,
         NEW leg, leg = pc.leg, NEW side, side = pc.side,
         NEW newly, newly = Newly(leg, side)
  PROVE  /\ leg \in Legs /\ side \in Sides /\ newly \in Nat
         /\ quote[leg][side] \in Quote /\ ex[leg][side] \in Order
         /\ inv' \in [Legs -> Position] /\ aged' \in [Legs -> BOOLEAN]
         /\ \A l \in Legs \ {leg} : inv'[l] = inv[l]
         /\ side = "acquire" => inv'[leg].shares = inv[leg].shares + newly
         /\ side = "release" =>
              inv'[leg].shares =
                (IF newly < inv[leg].shares THEN inv[leg].shares - newly ELSE 0)
<1>1. leg \in Legs /\ side \in Sides
  BY DEF TypeOK, Control
<1>2. Resting(leg, side) /\ quote[leg][side] \in Quote /\ ex[leg][side] \in Order
  BY <1>1 DEF TypeOK, Poll, Resting
<1>3. newly \in Nat
  BY <1>1, <1>2 DEF TypeOK, Newly, Matched, Quote, Order
<1>4. CASE newly > 0
  <2>1. BookFill(leg, side, newly, quote[leg][side].value)
    BY <1>4 DEF Poll
  <2>2. quote[leg][side].value \in Nat /\ newly \in Nat \ {0}
    BY <1>2, <1>3, <1>4 DEF Quote
  <2>3. inv \in [Legs -> Position] /\ aged \in [Legs -> BOOLEAN]
    BY DEF TypeOK
  <2>. QED BY <1>1, <1>2, <1>3, <2>1, <2>2, <2>3, BookFillFacts
<1>5. CASE ~(newly > 0)
  <2>1. inv' = inv /\ aged' = aged
    BY <1>5 DEF Poll
  <2>2. newly = 0 /\ inv[leg] \in Position
    BY <1>1, <1>3, <1>5 DEF TypeOK
  <2>. QED BY <1>1, <1>2, <2>1, <2>2 DEF TypeOK, Position
<1>. QED BY <1>4, <1>5

\* A quote that is forgotten is gone, and no other slot changes.
LEMMA ForgetFacts ==
  ASSUME TypeOK, NEW leg \in Legs, NEW side \in Sides, Forget(leg, side)
  PROVE  /\ quote' \in [Legs -> [Sides -> Quote \cup {NoQuote}]]
         /\ ex' \in [Legs -> [Sides -> Order]]
         /\ quote'[leg][side] = NoQuote
         /\ \A l \in Legs, s \in Sides : l # leg \/ s # side =>
              quote'[l][s] = quote[l][s] /\ ex'[l][s] = ex[l][s]
<1>1. Gone \in Order
  BY DEF Gone, Order
<1>. QED BY <1>1, SlotUpdate DEF Forget, TypeOK

\* What the poll does to its own slot, and that it does nothing to others.
LEMMA PollSlots ==
  ASSUME TypeOK, Poll
  PROVE  /\ quote' \in [Legs -> [Sides -> Quote \cup {NoQuote}]]
         /\ ex' \in [Legs -> [Sides -> Order]]
         /\ \A l \in Legs, s \in Sides : l # pc.leg \/ s # pc.side =>
              quote'[l][s] = quote[l][s] /\ ex'[l][s] = ex[l][s]
         /\ \/ quote'[pc.leg][pc.side] = NoQuote
            \/ /\ ex'[pc.leg][pc.side] = ex[pc.leg][pc.side]
               /\ quote'[pc.leg][pc.side] =
                    [quote[pc.leg][pc.side] EXCEPT !.booked = ex[pc.leg][pc.side].filled]
<1>. DEFINE leg == pc.leg  side == pc.side
<1>1. leg \in Legs /\ side \in Sides /\ quote[leg][side] \in Quote /\ ex[leg][side] \in Order
  BY PollFacts
<1>. HIDE DEF leg, side
<1>2. CASE ex[leg][side].open
  <2>. DEFINE q == [quote[leg][side] EXCEPT !.booked = ex[leg][side].filled]
  <2>1. quote' = [quote EXCEPT ![leg][side] = q] /\ ex' = ex
    BY <1>1, <1>2 DEF Poll, Matched, TypeOK, leg, side
  <2>2. q \in Quote \cup {NoQuote}
    BY <1>1 DEF Quote, Order
  <2>. HIDE DEF q
  <2>3. /\ quote' \in [Legs -> [Sides -> Quote \cup {NoQuote}]]
        /\ quote'[leg][side] = q
        /\ \A l \in Legs, s \in Sides : l # leg \/ s # side => quote'[l][s] = quote[l][s]
    BY <1>1, <2>1, <2>2, SlotUpdate DEF TypeOK
  <2>. QED BY <2>1, <2>3 DEF q, TypeOK, leg, side
<1>3. CASE ~ex[leg][side].open
  <2>1. Forget(leg, side)
    BY <1>3 DEF Poll, leg, side
  <2>. QED BY <1>1, <2>1, ForgetFacts DEF leg, side
<1>. QED BY <1>2, <1>3

\* Abandoning n shares adds them to one slot.
LEMMA AbandonFacts ==
  ASSUME TypeOK, NEW leg \in Legs, NEW side \in Sides, NEW n \in Nat,
         Abandon(leg, side, n)
  PROVE  /\ orphan' \in [Legs -> [Sides -> Nat]]
         /\ \A l \in Legs, s \in Sides : orphan'[l][s] >= orphan[l][s]
<1>1. orphan[leg][side] + n \in Nat
  BY DEF TypeOK
<1>2. orphan' = [orphan EXCEPT ![leg][side] = orphan[leg][side] + n]
  BY DEF Abandon, TypeOK
<1>. QED BY <1>1, <1>2, SlotUpdate DEF TypeOK

\* A trade moves the tokens of one leg by one.
LEMMA TradeFacts ==
  ASSUME TypeOK, NEW leg \in Legs, NEW side \in Sides, CanFill(leg, side),
         Trade(leg, side)
  PROVE  /\ chain' \in [Legs -> Nat]
         /\ chain'[leg] = IF side = "acquire" THEN chain[leg] + 1 ELSE chain[leg] - 1
         /\ \A l \in Legs \ {leg} : chain'[l] = chain[l]
<1>1. (IF side = "acquire" THEN chain[leg] + 1 ELSE chain[leg] - 1) \in Nat
  BY DEF CanFill, TypeOK
<1>. QED BY <1>1 DEF Trade, TypeOK

\* The stamp after a sale.
LEMMA StampFacts ==
  ASSUME TypeOK, StampSold
  PROVE  aged' \in [Legs -> BOOLEAN]
<1>1. (aged[pc.leg] \/ pc.loop = "cycle") \in BOOLEAN
  BY Zenon
<1>. QED BY <1>1 DEF StampSold, TypeOK

\* The balance read after a sale only ever lowers what one leg holds.
LEMMA ReconcileFacts ==
  ASSUME TypeOK, Reconcile
  PROVE  /\ inv' \in [Legs -> Position]
         /\ \A leg \in Legs \ {pc.leg} : inv'[leg] = inv[leg]
<1>1. pc.leg \in Legs
  BY DEF TypeOK, Control
<1>2. CASE inv' = inv
  BY <1>2 DEF TypeOK
<1>3. CASE inv' # inv
  <2>. DEFINE reads == IF "oracle" \in Faults THEN chain[pc.leg] .. MaxChain
                                              ELSE {chain[pc.leg]}
  <2>1. PICK onchain \in reads :
          inv' = [inv EXCEPT ![pc.leg] = ReconcileToChain(@, onchain)]
    BY <1>3 DEF Reconcile
  <2>2. onchain \in Nat
    BY <1>1, KnobsAssumption DEF TypeOK
  <2>3. ReconcileToChain(inv[pc.leg], onchain) \in Position
    BY <1>1, <2>2, PositionFacts DEF TypeOK
  <2>. QED BY <1>1, <2>1, <2>3 DEF TypeOK
<1>. QED BY <1>2, <1>3

\* risk_loop takes shares off the books of some legs and touches nothing else.
LEMMA RiskFacts ==
  ASSUME TypeOK, RiskLoop
  PROVE  /\ inv' \in [Legs -> Position]
         /\ \A leg \in Legs : inv'[leg] = inv[leg] \/ inv'[leg] = Flat
         /\ UNCHANGED <<env, aged, quote, world, plan, pc>>
<1>1. Flat \in Position
  BY DEF Flat, Position
<1>2. CASE MarkResolution
  BY <1>1, <1>2 DEF MarkResolution
<1>3. ASSUME NEW l \in Legs, Neutralize(l)
      PROVE  /\ inv' \in [Legs -> Position]
             /\ \A leg \in Legs : inv'[leg] = inv[leg] \/ inv'[leg] = Flat
             /\ UNCHANGED <<env, aged, quote, world, plan, pc>>
  <2>1. ApplySell(inv[l], inv[l].shares) = Flat
    BY DEF ApplySell, Reduce, TypeOK, Position
  <2>2. inv' = [inv EXCEPT ![l] = Flat]
    BY <1>3, <2>1 DEF Neutralize
  <2>. QED BY <1>1, <1>3, <2>2 DEF Neutralize, TypeOK
<1>. QED BY <1>2, <1>3 DEF RiskLoop

-----------------------------------------------------------------------------
(* Each step keeps the types.                                              *)

LEMMA TypeStep == IInv /\ [Next]_vars => TypeOK'
<1>. SUFFICES ASSUME IInv, [Next]_vars PROVE TypeOK'
  OBVIOUS
<1>. TypeOK
  BY DEF IInv
<1>. pc \in Control /\ plan \in Plan /\ pc.leg \in Legs /\ pc.side \in Sides
  BY DEF TypeOK, Control
<1>1. CASE Wake
  <2>1. pc' \in Control /\ plan' \in Plan
    <3>1. PICK loop \in Loops :
            /\ pc' = [Enter(loop, FirstLeg) EXCEPT !.final = (phase = "closed")]
            /\ plan' \in {DropAll, Idle}
      BY <1>1 DEF Wake, Loops
    <3>2. Enter(loop, FirstLeg) \in Control
      BY ControlFacts, LegFacts
    <3>3. pc' \in Control
      BY <3>1, <3>2 DEF Control
    <3>4. DropAll \in Plan /\ Idle \in Plan
      BY DEF Idle, DropAll, Keep, Drop, Plan, Want
    <3>. QED BY <3>1, <3>3, <3>4
  <2>. QED BY <1>1, <2>1 DEF Wake, TypeOK, env, books, world, Resting
<1>2. CASE Poll
  <2>1. pc' \in Control /\ plan' \in Plan
    BY <1>2, ControlFacts, ContinueFacts DEF Poll
  <2>2. inv' \in [Legs -> Position] /\ aged' \in [Legs -> BOOLEAN]
    BY <1>2, PollFacts
  <2>3. /\ quote' \in [Legs -> [Sides -> Quote \cup {NoQuote}]]
        /\ ex' \in [Legs -> [Sides -> Order]]
        /\ \A leg \in Legs, side \in Sides : quote'[leg][side] # NoQuote =>
             /\ quote'[leg][side].booked <= ex'[leg][side].filled
             /\ ex'[leg][side].filled <= quote'[leg][side].qty
    <3>0. \A l \in Legs, s \in Sides : l # pc.leg \/ s # pc.side =>
            quote'[l][s] = quote[l][s] /\ ex'[l][s] = ex[l][s]
      BY <1>2, PollSlots
    <3>1. SUFFICES ASSUME NEW leg \in Legs, NEW side \in Sides, quote'[leg][side] # NoQuote
          PROVE  /\ quote'[leg][side].booked <= ex'[leg][side].filled
                 /\ ex'[leg][side].filled <= quote'[leg][side].qty
      BY <1>2, PollSlots
    <3>2. CASE leg = pc.leg /\ side = pc.side
      <4>1. /\ ex'[leg][side] = ex[leg][side]
            /\ quote'[leg][side] = [quote[leg][side] EXCEPT !.booked = ex[leg][side].filled]
        BY <1>2, <3>1, <3>2, PollSlots
      <4>2. /\ quote[leg][side] \in Quote /\ ex[leg][side] \in Order
            /\ ex[leg][side].filled <= quote[leg][side].qty
        BY <1>2, <3>2, PollFacts DEF TypeOK, Poll, Resting
      <4>. QED BY <4>1, <4>2 DEF Quote, Order
    <3>3. CASE leg # pc.leg \/ side # pc.side
      <4>1. quote'[leg][side] = quote[leg][side] /\ ex'[leg][side] = ex[leg][side]
        BY <3>0, <3>3
      <4>. QED BY <3>1, <4>1 DEF TypeOK, Resting
    <3>. QED BY <3>2, <3>3
  <2>. QED BY <1>2, <2>1, <2>2, <2>3 DEF Poll, TypeOK, env, Resting
<1>3. CASE PollNothing
  <2>1. pc' \in Control /\ plan' \in Plan
    BY <1>3, ControlFacts, ContinueFacts DEF PollNothing
  <2>. QED BY <1>3, <2>1 DEF PollNothing, TypeOK, env, books, world, Resting
<1>4. CASE QuoteLeg
  <2>1. plan' \in Plan
    BY <1>4, DecideFacts DEF QuoteLeg
  <2>2. pc' \in Control
    BY <1>4 DEF QuoteLeg, Control, Points, Awaits
  <2>. QED BY <1>4, <2>1, <2>2 DEF QuoteLeg, TypeOK, env, books, world, Resting
<1>5. CASE CancelNothing
  <2>1. pc' \in Control /\ plan' \in Plan
    BY <1>5, ControlFacts, ContinueFacts DEF CancelNothing
  <2>. QED BY <1>5, <2>1 DEF CancelNothing, TypeOK, env, books, world, Resting
<1>6. CASE Cancel
  <2>1. pc' \in Control /\ plan' \in Plan
    BY <1>6, ControlFacts, ContinueFacts DEF Cancel
  <2>2. orphan' \in [Legs -> [Sides -> Nat]]
    BY <1>6, RemainderFacts, AbandonFacts DEF Cancel, TypeOK
  <2>3. Forget(pc.leg, pc.side)
    BY <1>6 DEF Cancel
  <2>4. /\ quote' \in [Legs -> [Sides -> Quote \cup {NoQuote}]]
        /\ ex' \in [Legs -> [Sides -> Order]]
        /\ \A leg \in Legs, side \in Sides : quote'[leg][side] # NoQuote =>
             quote'[leg][side] = quote[leg][side] /\ ex'[leg][side] = ex[leg][side]
    BY <2>3, ForgetFacts
  <2>. QED BY <1>6, <2>1, <2>2, <2>4 DEF Cancel, TypeOK, env, Resting
<1>7. CASE Place
  <2>1. pc' \in Control /\ plan' \in Plan
    BY <1>7, ControlFacts, ContinueFacts DEF Place
  <2>2. plan[pc.side].value \in Nat /\ plan[pc.side].qty \in Nat
    BY DEF Plan, Want, Sides
  <2>. QED BY <1>7, <2>1, <2>2
           DEF Place, TypeOK, env, Resting, Quote, Order
<1>8. CASE PlaceFails
  <2>1. pc' \in Control /\ plan' \in Plan
    BY <1>8, ControlFacts, ContinueFacts DEF PlaceFails
  <2>2. plan[pc.side].qty \in Nat
    BY DEF Plan, Want, Sides
  <2>3. orphan' \in [Legs -> [Sides -> Nat]]
    BY <1>8, <2>2, AbandonFacts DEF PlaceFails, TypeOK
  <2>. QED BY <1>8, <2>1, <2>3 DEF PlaceFails, TypeOK, env, books, Resting
<1>9. CASE Flatten
  <2>1. pc' \in Control /\ plan' \in Plan
    <3>1. CASE inv[pc.leg].shares > 0 /\ touch[pc.leg].bid # 0
      <4>1. pc' = [pc EXCEPT !.at = "sell"]
        BY <1>9, <3>1 DEF Flatten
      <4>2. plan' = [Idle EXCEPT !.exit = inv[pc.leg].shares] /\ inv[pc.leg].shares \in Nat
        BY <1>9, <3>1 DEF Flatten, TypeOK, Position
      <4>3. pc' \in Control
        BY <4>1 DEF Control, Points, Awaits
      <4>. QED BY <4>2, <4>3 DEF Idle, Keep, Plan, Want
    <3>2. CASE ~(inv[pc.leg].shares > 0 /\ touch[pc.leg].bid # 0)
      BY <1>9, <3>2, ControlFacts, ContinueFacts DEF Flatten
    <3>. QED BY <3>1, <3>2
  <2>. QED BY <1>9, <2>1 DEF Flatten, TypeOK, env, books, world, Resting
<1>10. CASE Sell
  <2>1. pc' \in Control
    BY <1>10 DEF Sell, Control, Points, Awaits
  <2>2. chain' \in [Legs -> Nat] /\ inv' \in [Legs -> Position]
    <3>1. PICK sold \in SharesSold(plan.exit) :
            \E reported \in SharesReported(plan.exit, sold) :
              /\ chain' = [chain EXCEPT ![pc.leg] = @ - sold]
              /\ inv' = [inv EXCEPT ![pc.leg] = ApplySell(@, reported)]
      BY <1>10 DEF Sell
    <3>2. PICK reported \in SharesReported(plan.exit, sold) :
              /\ chain' = [chain EXCEPT ![pc.leg] = @ - sold]
              /\ inv' = [inv EXCEPT ![pc.leg] = ApplySell(@, reported)]
      BY <3>1
    <3>3. plan.exit \in Nat /\ plan.exit <= chain[pc.leg]
      BY <1>10 DEF Sell, Plan
    <3>4. sold \in Nat /\ sold <= plan.exit /\ reported \in Nat
      BY <3>3 DEF SharesSold, SharesReported
    <3>5. ApplySell(inv[pc.leg], reported) \in Position
      BY <3>4, PositionFacts DEF TypeOK
    <3>6. chain[pc.leg] - sold \in Nat
      BY <3>3, <3>4 DEF TypeOK
    <3>. QED BY <3>2, <3>5, <3>6 DEF TypeOK
  <2>. QED BY <1>10, <2>1, <2>2 DEF Sell, TypeOK, env, Resting
<1>11. CASE SellFails
  <2>1. pc' \in Control /\ plan' \in Plan
    BY <1>11, ControlFacts, ContinueFacts DEF SellFails
  <2>2. chain' \in [Legs -> Nat]
    <3>1. CASE chain' = chain
      BY <3>1 DEF TypeOK
    <3>2. CASE chain' # chain
      <4>1. PICK sold \in SharesSold(plan.exit) :
              chain' = [chain EXCEPT ![pc.leg] = @ - sold]
        BY <1>11, <3>2 DEF SellFails
      <4>2. plan.exit \in Nat /\ plan.exit <= chain[pc.leg]
        BY <1>11, <3>2 DEF SellFails, Plan
      <4>3. sold \in Nat /\ sold <= plan.exit
        BY <4>2 DEF SharesSold
      <4>4. chain[pc.leg] - sold \in Nat
        BY <4>2, <4>3 DEF TypeOK
      <4>. QED BY <4>1, <4>4 DEF TypeOK
    <3>. QED BY <3>1, <3>2
  <2>3. aged' \in [Legs -> BOOLEAN]
    BY <1>11, StampFacts DEF SellFails
  <2>. QED BY <1>11, <2>1, <2>2, <2>3 DEF SellFails, TypeOK, env, Resting
<1>12. CASE Reconcile
  <2>1. pc' \in Control /\ plan' \in Plan
    BY <1>12, ControlFacts, ContinueFacts DEF Reconcile
  <2>2. inv' \in [Legs -> Position]
    BY <1>12, ReconcileFacts
  <2>3. aged' \in [Legs -> BOOLEAN]
    BY <1>12, StampFacts DEF Reconcile
  <2>. QED BY <1>12, <2>1, <2>2, <2>3 DEF Reconcile, TypeOK, env, world, Resting
<1>13. CASE Die
  <2>1. pc' \in Control /\ plan' \in Plan
    BY <1>13, ControlFacts DEF Die, Points, Idle, Keep, Plan, Want
  <2>2. orphan' \in [Legs -> [Sides -> Nat]]
    <3>1. PICK landed \in InFlight(pc.leg, pc.side) :
            orphan' = [leg \in Legs |-> [side \in Sides |-> orphan[leg][side] +
              IF leg = pc.leg /\ side = pc.side THEN landed ELSE Remainder(leg, side)]]
      BY <1>13 DEF Die
    <3>2. landed \in Nat
      BY RemainderFacts DEF InFlight, Plan, Want, Sides
    <3>. QED BY <3>1, <3>2, RemainderFacts DEF TypeOK
  <2>3. chain' \in [Legs -> Nat]
    <3>1. CASE chain' = chain
      BY <3>1 DEF TypeOK
    <3>2. CASE chain' # chain
      <4>1. PICK sold \in SharesSold(plan.exit) :
              chain' = [chain EXCEPT ![pc.leg] = @ - sold]
        BY <1>13, <3>2 DEF Die
      <4>2. plan.exit \in Nat /\ plan.exit <= chain[pc.leg]
        BY <1>13, <3>2 DEF Die, Plan
      <4>3. sold \in Nat /\ sold <= plan.exit
        BY <4>2 DEF SharesSold
      <4>4. chain[pc.leg] - sold \in Nat
        BY <4>2, <4>3 DEF TypeOK
      <4>. QED BY <4>1, <4>4 DEF TypeOK
    <3>. QED BY <3>1, <3>2
  <2>. QED BY <1>13, <2>1, <2>2, <2>3 DEF Die, TypeOK, env, Resting, Gone, Order
<1>14. CASE Respawn
  <2>1. pc' \in Control
    BY <1>14, ControlFacts DEF Respawn, Points, Awaits
  <2>. QED BY <1>14, <2>1 DEF Respawn, TypeOK, env, world, Resting
<1>15. CASE \E leg \in Legs, side \in Sides : Fill(leg, side)
  <2>1. PICK leg \in Legs, side \in Sides : Fill(leg, side)
    BY <1>15
  <2>2. chain' \in [Legs -> Nat]
    BY <2>1, TradeFacts DEF Fill
  <2>. DEFINE o == [filled |-> ex[leg][side].filled + 1,
                    open |-> ex[leg][side].filled + 1 < quote[leg][side].qty]
  <2>3. /\ quote[leg][side] \in Quote /\ ex[leg][side] \in Order
        /\ quote[leg][side].booked <= ex[leg][side].filled
        /\ ex[leg][side].filled < quote[leg][side].qty
    BY <2>1 DEF Fill, TypeOK, IInv, OpenHasRoom, Resting
  <2>4. o \in Order /\ o.filled = ex[leg][side].filled + 1
    BY <2>3 DEF Order, Quote
  <2>5. ex' = [ex EXCEPT ![leg][side] = o] /\ quote' = quote
    BY <2>1 DEF Fill, TypeOK, books
  <2>. HIDE DEF o
  <2>6. /\ ex' \in [Legs -> [Sides -> Order]] /\ ex'[leg][side] = o
        /\ \A l \in Legs, s \in Sides : l # leg \/ s # side => ex'[l][s] = ex[l][s]
    BY <2>4, <2>5, SlotUpdate DEF TypeOK
  <2>7. \A l \in Legs, s \in Sides : quote'[l][s] # NoQuote =>
          quote'[l][s].booked <= ex'[l][s].filled /\ ex'[l][s].filled <= quote'[l][s].qty
    BY <2>3, <2>4, <2>5, <2>6 DEF TypeOK, Resting, Quote, Order
  <2>. QED BY <2>1, <2>2, <2>6, <2>7 DEF Fill, TypeOK, env, books, Resting
<1>16. CASE \E leg \in Legs, side \in Sides : OrphanFill(leg, side)
  <2>1. PICK leg \in Legs, side \in Sides : OrphanFill(leg, side)
    BY <1>16
  <2>2. chain' \in [Legs -> Nat]
    BY <2>1, TradeFacts DEF OrphanFill
  <2>3. orphan' = [orphan EXCEPT ![leg][side] = orphan[leg][side] - 1]
    BY <2>1 DEF OrphanFill, TypeOK
  <2>4. orphan[leg][side] - 1 \in Nat
    BY <2>1 DEF OrphanFill, TypeOK
  <2>5. orphan' \in [Legs -> [Sides -> Nat]]
    BY <2>3, <2>4, SlotUpdate DEF TypeOK
  <2>. QED BY <2>1, <2>2, <2>5 DEF OrphanFill, TypeOK, env, books, Resting
<1>17. CASE \E leg \in Legs, side \in Sides : Terminate(leg, side)
  <2>1. PICK leg \in Legs, side \in Sides : Terminate(leg, side)
    BY <1>17
  <2>. DEFINE o == [ex[leg][side] EXCEPT !.open = FALSE]
  <2>2. o \in Order /\ o.filled = ex[leg][side].filled
    <3>1. ex[leg][side] \in Order
      BY <2>1 DEF TypeOK
    <3>. QED BY <3>1 DEF Order
  <2>3. ex' = [ex EXCEPT ![leg][side] = o] /\ quote' = quote
    BY <2>1 DEF Terminate, TypeOK, books
  <2>. HIDE DEF o
  <2>4. /\ ex' \in [Legs -> [Sides -> Order]] /\ ex'[leg][side] = o
        /\ \A l \in Legs, s \in Sides : l # leg \/ s # side => ex'[l][s] = ex[l][s]
    BY <2>2, <2>3, SlotUpdate DEF TypeOK
  <2>5. \A l \in Legs, s \in Sides : quote'[l][s] # NoQuote =>
          quote'[l][s].booked <= ex'[l][s].filled /\ ex'[l][s].filled <= quote'[l][s].qty
    BY <2>2, <2>3, <2>4 DEF TypeOK, Resting
  <2>. QED BY <2>1, <2>4, <2>5 DEF Terminate, TypeOK, env, books, Resting
<1>18. CASE \E leg \in Legs : MoveBook(leg)
  BY <1>18, BooksAssumption DEF MoveBook, TypeOK, books, world, Resting
<1>19. CASE \E leg \in Legs : Age(leg)
  BY <1>19 DEF Age, TypeOK, env, world, Resting
<1>20. CASE TimePasses
  BY <1>20 DEF TimePasses, TypeOK, books, world, Resting
<1>21. CASE UNCHANGED vars
  BY <1>21 DEF vars, TypeOK, Resting
<1>22. CASE RiskLoop
  BY <1>22, RiskFacts DEF TypeOK, env, world, Resting
<1>. QED
  BY <1>1, <1>2, <1>3, <1>4, <1>5, <1>6, <1>7, <1>8, <1>9, <1>10, <1>11, <1>12,
     <1>13, <1>14, <1>15, <1>16, <1>17, <1>18, <1>19, <1>20, <1>21,
     <1>22
     DEF Next, Step, Environment

-----------------------------------------------------------------------------
(* Each step keeps the other parts of the invariant.                       *)

LEMMA RoomStep == IInv /\ [Next]_vars => OpenHasRoom'
<1>. SUFFICES ASSUME IInv, [Next]_vars PROVE OpenHasRoom'
  OBVIOUS
<1>. TypeOK /\ OpenHasRoom /\ PlanSound
  BY DEF IInv
<1>. pc.leg \in Legs /\ pc.side \in Sides
  BY DEF TypeOK, Control
<1>1. CASE quote' = quote /\ ex' = ex
  BY <1>1 DEF OpenHasRoom, Resting
<1>2. CASE Poll
  <2>. SUFFICES ASSUME NEW leg \in Legs, NEW side \in Sides,
                       quote'[leg][side] # NoQuote, ex'[leg][side].open
                PROVE  ex'[leg][side].filled < quote'[leg][side].qty
    BY DEF OpenHasRoom, Resting
  <2>1. CASE leg = pc.leg /\ side = pc.side
    <3>1. /\ ex'[leg][side] = ex[leg][side]
          /\ quote'[leg][side] = [quote[leg][side] EXCEPT !.booked = ex[leg][side].filled]
      BY <1>2, <2>1, PollSlots
    <3>2. quote[leg][side] \in Quote /\ Resting(leg, side)
      BY <1>2, <2>1 DEF Poll, TypeOK, Resting
    <3>. QED BY <3>1, <3>2 DEF Quote, OpenHasRoom
  <2>2. CASE leg # pc.leg \/ side # pc.side
    BY <1>2, <2>2, PollSlots DEF OpenHasRoom, Resting
  <2>. QED BY <2>1, <2>2
<1>3. CASE Cancel
  <2>1. Forget(pc.leg, pc.side)
    BY <1>3 DEF Cancel
  <2>. QED BY <2>1, ForgetFacts DEF OpenHasRoom, Resting
<1>4. CASE Place
  <2>1. plan[pc.side].qty > 0
    BY <1>4 DEF Place, PlanSound
  <2>2. plan[pc.side].qty \in Nat /\ plan[pc.side].value \in Nat
    BY DEF TypeOK, Plan, Want, Sides
  <2>. QED BY <1>4, <2>1, <2>2 DEF Place, OpenHasRoom, Resting, TypeOK
<1>5. CASE Die
  BY <1>5 DEF Die, OpenHasRoom, Resting
<1>6. ASSUME NEW l \in Legs, NEW s \in Sides, Fill(l, s)
      PROVE  OpenHasRoom'
  BY <1>6 DEF Fill, books, OpenHasRoom, Resting, TypeOK
<1>7. ASSUME NEW l \in Legs, NEW s \in Sides, Terminate(l, s)
      PROVE  OpenHasRoom'
  BY <1>7 DEF Terminate, books, OpenHasRoom, Resting, TypeOK, Order
<1>8. CASE RiskLoop
  BY <1>1, <1>8, RiskFacts DEF world
<1>. QED
  BY <1>1, <1>2, <1>3, <1>4, <1>5, <1>6, <1>7, <1>8
     DEF Next, Step, Environment, vars, books, world, Wake, PollNothing, QuoteLeg,
         CancelNothing, PlaceFails, Flatten, Sell, SellFails, Reconcile, Respawn,
         OrphanFill, MoveBook, Age, TimePasses

\* The plan stays sound at the next quote of the leg, and is dropped with it.
LEMMA SideKeepsPlanSound ==
  ASSUME TypeOK, PlanSound, pc.at \in {"cancel", "place"}, Continue(AfterSide)
  PROVE  PlanSound'
<1>. pc \in Control /\ plan \in Plan
  BY DEF TypeOK
<1>1. CASE /\ pc.side = "acquire" /\ plan' = plan
           /\ pc' = [pc EXCEPT !.at = "cancel", !.side = "release"]
  BY <1>1 DEF PlanSound, Control
<1>2. CASE /\ pc.side = "release" /\ plan.exit > 0 /\ plan' = plan
           /\ pc' = [pc EXCEPT !.at = "sell"]
  BY <1>2 DEF PlanSound, Control, DropAll
<1>3. CASE Continue(AfterLeg)
  BY <1>3, AfterLegMoves DEF PlanSound, DropAll, Drop, Sides
<1>. QED BY <1>1, <1>2, <1>3, AfterSideMoves

LEMMA PlanStep == IInv /\ [Next]_vars => PlanSound'
<1>. SUFFICES ASSUME IInv, [Next]_vars PROVE PlanSound'
  OBVIOUS
<1>. TypeOK /\ PlanSound
  BY DEF IInv
<1>. pc \in Control /\ plan \in Plan /\ pc.leg \in Legs /\ pc.side \in Sides
  BY DEF TypeOK, Control
<1>1. CASE plan' = plan /\ pc' = pc
  BY <1>1 DEF PlanSound
<1>2. CASE Wake
  BY <1>2, LegFacts DEF Wake, PlanSound, Enter, Entry, DropAll, Drop, Idle, Keep, Control, Sides
<1>3. CASE Poll \/ PollNothing
  <2>1. Continue(AfterPoll) /\ pc.at = "poll"
    BY <1>3 DEF Poll, PollNothing
  <2>2. pc' = AfterPoll /\ AfterPoll.at \in {"poll", "quote"} /\ AfterPoll.loop = pc.loop
    BY <2>1 DEF Continue, AfterPoll, Control
  <2>. QED BY <2>1, <2>2 DEF PlanSound
<1>4. CASE QuoteLeg
  <2>1. PICK guarded \in BOOLEAN : plan' = Decide(pc.leg, touch[pc.leg], guarded)
    BY <1>4 DEF QuoteLeg
  <2>2. pc.at = "quote" /\ pc'.at = "cancel" /\ pc'.loop = pc.loop
    BY <1>4 DEF QuoteLeg, Control
  <2>. QED BY <2>1, <2>2, DecideFacts DEF PlanSound
<1>5. CASE CancelNothing \/ Cancel
  <2>1. pc.at = "cancel" /\ (Continue(AfterSide) \/ Continue(AfterCancel))
    BY <1>5 DEF CancelNothing, Cancel
  <2>2. CASE Continue(AfterSide)
    BY <2>1, <2>2, SideKeepsPlanSound
  <2>3. CASE Continue(AfterCancel) /\ plan[pc.side].do # "post"
    <3>1. AfterCancel = AfterSide
      BY <2>3 DEF AfterCancel
    <3>. QED BY <2>1, <2>3, <3>1, SideKeepsPlanSound
  <2>4. CASE Continue(AfterCancel) /\ plan[pc.side].do = "post"
    <3>1. AfterCancel = [pc EXCEPT !.at = "place"]
      BY <2>4 DEF AfterCancel
    <3>2. /\ pc'.at = "place" /\ pc'.loop = pc.loop /\ pc'.leg = pc.leg
          /\ pc'.side = pc.side /\ plan' = plan
      BY <2>4, <3>1 DEF Continue, Control
    <3>3. pc.loop # "clear"
      BY <2>4 DEF PlanSound, DropAll, Drop, Sides
    <3>. QED BY <2>1, <2>4, <3>2, <3>3 DEF PlanSound
  <2>. QED BY <2>1, <2>2, <2>3, <2>4
<1>6. CASE Place \/ PlaceFails
  <2>1. pc.at = "place" /\ Continue(AfterSide)
    BY <1>6 DEF Place, PlaceFails
  <2>. QED BY <2>1, SideKeepsPlanSound
<1>7. CASE Flatten
  <2>1. CASE pc' = [pc EXCEPT !.at = "sell"]
    BY <1>7, <2>1 DEF Flatten, PlanSound, Control
  <2>2. CASE Continue(AfterLeg)
    BY <2>2, AfterLegMoves DEF PlanSound, DropAll, Drop, Sides
  <2>. QED BY <1>7, <2>1, <2>2 DEF Flatten
<1>8. CASE Sell
  BY <1>8 DEF Sell, PlanSound, Control
<1>9. CASE SellFails \/ Reconcile
  <2>1. Continue(AfterLeg)
    BY <1>9 DEF SellFails, Reconcile
  <2>. QED BY <2>1, AfterLegMoves DEF PlanSound, DropAll, Drop, Sides
<1>10. CASE Die \/ Respawn
  BY <1>10 DEF Die, Respawn, Rest, PlanSound
<1>11. CASE RiskLoop
  BY <1>1, <1>11, RiskFacts
<1>. QED
  BY <1>1, <1>2, <1>3, <1>4, <1>5, <1>6, <1>7, <1>8, <1>9, <1>10, <1>11
     DEF Next, Step, Environment, vars, books, Fill,
         OrphanFill, Terminate, MoveBook, Age, TimePasses

\* Once the side the task is at holds no quote, or the plan keeps it, moving on
\* keeps what is known to be gone.
LEMMA SideKeepsCleared ==
  ASSUME TypeOK, TypeOK', PlanSound, Cleared, pc.at \in {"cancel", "place"},
         Continue(AfterSide),
         \A leg \in Legs, side \in Sides :
           ~Resting(leg, side) /\ (leg # pc.leg \/ side # pc.side) => ~Resting(leg, side)',
         plan[pc.side].do = "drop" => quote'[pc.leg][pc.side] = NoQuote
  PROVE  Cleared'
<1>. pc \in Control /\ pc' \in Control /\ pc.leg \in Legs /\ pc.side \in Sides
  BY DEF TypeOK, Control
<1>1. pc.loop = "clear" => quote'[pc.leg][pc.side] = NoQuote
  BY DEF PlanSound, DropAll, Drop, Sides
<1>2. pc.loop # "flatten" /\ pc.at # "done"
  BY DEF PlanSound
<1>3. CASE /\ pc.side = "acquire" /\ plan' = plan
           /\ pc' = [pc EXCEPT !.at = "cancel", !.side = "release"]
  <2>1. /\ pc'.at = "cancel" /\ pc'.side = "release"
        /\ pc'.loop = pc.loop /\ pc'.leg = pc.leg
    BY <1>3 DEF Control
  <2>. QED BY <1>1, <1>2, <1>3, <2>1 DEF Cleared, QuietWhenFlattening, Resting, Sides
<1>4. CASE /\ pc.side = "release" /\ plan.exit > 0 /\ plan' = plan
           /\ pc' = [pc EXCEPT !.at = "sell"]
  <2>1. pc.loop # "clear" /\ plan.release.do = "drop"
    BY <1>4 DEF PlanSound, DropAll
  <2>2. /\ pc'.at = "sell" /\ pc'.side = pc.side
        /\ pc'.loop = pc.loop /\ pc'.leg = pc.leg
    BY <1>4 DEF Control
  <2>3. quote'[pc.leg]["release"] = NoQuote
    BY <1>4, <2>1
  <2>. QED BY <1>2, <2>1, <2>2, <2>3 DEF Cleared, QuietWhenFlattening, Resting
<1>5. CASE pc.side = "release" /\ Continue(AfterLeg)
  <2>1. \A leg \in Legs, side \in Sides :
          pc.loop = "clear" /\ (leg = pc.leg \/ pc.leg = LastLeg) => ~Resting(leg, side)'
    BY <1>1, <1>5 DEF Cleared, Sides, Resting
  <2>2. /\ pc'.at \notin {"place", "sell", "reconcile"}
        /\ pc'.at # "done"
        /\ pc'.loop = "flatten" => pc.loop = "clear" /\ pc.leg = LastLeg
        /\ pc'.loop = "clear" => /\ pc'.side = "acquire" /\ pc.loop = "clear"
                                 /\ pc.leg # LastLeg /\ pc'.leg = LastLeg
    BY <1>2, <1>5, AfterLegMoves
  <2>3. \A leg \in Legs \ {LastLeg} : pc.leg # LastLeg => leg = pc.leg
    BY LegsAssumption DEF LastLeg
  <2>. QED BY <2>1, <2>2, <2>3 DEF Cleared, QuietWhenFlattening
<1>. QED BY <1>3, <1>4, <1>5, AfterSideMoves

LEMMA ClearedStep == IInv /\ [Next]_vars => Cleared'
<1>. SUFFICES ASSUME IInv, [Next]_vars PROVE Cleared'
  OBVIOUS
<1>. TypeOK /\ TypeOK' /\ PlanSound /\ Cleared
  BY TypeStep DEF IInv
<1>. pc \in Control /\ plan \in Plan /\ pc.leg \in Legs /\ pc.side \in Sides
  BY DEF TypeOK, Control
<1>1. CASE pc' = pc /\ quote' = quote
  BY <1>1 DEF Cleared, QuietWhenFlattening, Resting
<1>2. CASE Wake
  <2>1. /\ pc'.at \in {"poll", "cancel"} /\ pc'.loop \in {"cycle", "clear"}
        /\ pc'.side = "acquire" /\ pc'.leg = FirstLeg
    BY <1>2 DEF Wake, Enter, Entry, Control
  <2>2. FirstLeg = LastLeg => Legs = {LastLeg}
    BY LegsAssumption DEF FirstLeg, LastLeg
  <2>. QED BY <2>1, <2>2 DEF Cleared, QuietWhenFlattening
<1>3. CASE Poll \/ PollNothing
  <2>1. pc.at = "poll" /\ pc' = AfterPoll
    BY <1>3 DEF Poll, PollNothing, Continue
  <2>2. pc'.at \in {"poll", "quote"} /\ pc'.loop = pc.loop /\ pc.loop = "cycle"
    BY <2>1 DEF AfterPoll, Control, PlanSound, Loops
  <2>. QED BY <2>2 DEF Cleared, QuietWhenFlattening
<1>4. CASE QuoteLeg
  <2>1. pc'.at = "cancel" /\ pc'.loop = pc.loop /\ pc.loop = "cycle"
    BY <1>4 DEF QuoteLeg, Control, PlanSound, Loops
  <2>. QED BY <2>1 DEF Cleared, QuietWhenFlattening
<1>5. CASE CancelNothing \/ Cancel
  <2>1. /\ pc.at = "cancel"
        /\ \A leg \in Legs, side \in Sides : ~Resting(leg, side) => ~Resting(leg, side)'
    <3>1. CASE CancelNothing
      BY <3>1 DEF CancelNothing, books, Resting
    <3>2. CASE Cancel
      BY <3>2, ForgetFacts DEF Cancel, Resting
    <3>. QED BY <1>5, <3>1, <3>2
  <2>2. plan[pc.side].do # "keep" => quote'[pc.leg][pc.side] = NoQuote
    <3>1. CASE CancelNothing
      BY <3>1 DEF CancelNothing, books, Resting
    <3>2. CASE Cancel
      BY <3>2, ForgetFacts DEF Cancel, Resting
    <3>. QED BY <1>5, <3>1, <3>2
  <2>3. CASE Continue(AfterSide)
    BY <2>1, <2>2, <2>3, SideKeepsCleared
  <2>4. CASE Continue(AfterCancel) /\ plan[pc.side].do # "post"
    <3>1. AfterCancel = AfterSide
      BY <2>4 DEF AfterCancel
    <3>. QED BY <2>1, <2>2, <2>4, <3>1, SideKeepsCleared
  <2>5. CASE Continue(AfterCancel) /\ plan[pc.side].do = "post"
    <3>1. AfterCancel = [pc EXCEPT !.at = "place"]
      BY <2>5 DEF AfterCancel
    <3>2. /\ pc'.at = "place" /\ pc'.loop = pc.loop /\ pc'.leg = pc.leg
          /\ pc'.side = pc.side
      BY <2>5, <3>1 DEF Continue, Control
    <3>3. pc.loop = "cycle"
      BY <2>1, <2>5 DEF PlanSound, DropAll, Drop, Sides, Control, Loops
    <3>. QED BY <2>2, <2>5, <3>2, <3>3 DEF Cleared, QuietWhenFlattening, Resting
  <2>. QED BY <1>5, <2>3, <2>4, <2>5 DEF CancelNothing, Cancel
<1>6. CASE Place \/ PlaceFails
  <2>1. pc.at = "place" /\ Continue(AfterSide) /\ plan[pc.side].do = "post"
    BY <1>6 DEF Place, PlaceFails, PlanSound
  <2>2. \A leg \in Legs, side \in Sides :
          leg # pc.leg \/ side # pc.side => (~Resting(leg, side) => ~Resting(leg, side)')
    BY <1>6 DEF Place, PlaceFails, books, Resting, TypeOK
  <2>. QED BY <2>1, <2>2, SideKeepsCleared
<1>7. CASE Flatten
  <2>1. /\ pc.at = "flatten" /\ quote' = quote
        /\ pc' = [pc EXCEPT !.at = "sell"] \/ Continue(AfterLeg)
    BY <1>7 DEF Flatten, books
  <2>2. pc.loop = "flatten" /\ \A leg \in Legs, side \in Sides : ~Resting(leg, side)'
    BY <2>1 DEF PlanSound, Cleared, QuietWhenFlattening, Resting
  <2>3. CASE pc' = [pc EXCEPT !.at = "sell"]
    BY <2>2, <2>3 DEF Cleared, QuietWhenFlattening, Control, Sides
  <2>4. CASE Continue(AfterLeg)
    BY <2>2, <2>4, AfterLegMoves DEF Cleared, QuietWhenFlattening
  <2>. QED BY <2>1, <2>3, <2>4
<1>8. CASE Sell
  <2>1. /\ pc.at = "sell" /\ quote' = quote
        /\ pc'.at = "reconcile" /\ pc'.loop = pc.loop /\ pc'.leg = pc.leg
        /\ pc'.side = pc.side
    BY <1>8 DEF Sell, Control
  <2>. QED BY <2>1 DEF Cleared, QuietWhenFlattening, Resting
<1>9. CASE SellFails \/ Reconcile
  <2>1. pc.at \in {"sell", "reconcile"} /\ quote' = quote /\ Continue(AfterLeg)
    BY <1>9 DEF SellFails, Reconcile
  <2>2. /\ pc.loop # "clear"
        /\ pc.loop = "flatten" => \A leg \in Legs, side \in Sides : ~Resting(leg, side)'
    BY <2>1 DEF PlanSound, Cleared, QuietWhenFlattening, Resting
  <2>. QED BY <2>1, <2>2, AfterLegMoves DEF Cleared, QuietWhenFlattening
<1>10. CASE Die \/ Respawn
  BY <1>10 DEF Die, Respawn, Rest, Cleared, QuietWhenFlattening
<1>11. CASE RiskLoop
  BY <1>1, <1>11, RiskFacts
<1>. QED
  BY <1>1, <1>2, <1>3, <1>4, <1>5, <1>6, <1>7, <1>8, <1>9, <1>10, <1>11
     DEF Next, Step, Environment, vars, books, Fill,
         OrphanFill, Terminate, MoveBook, Age, TimePasses

-----------------------------------------------------------------------------
(* What a step does to the shortfall of the asks of a leg.                 *)

LEMMA AskFacts ==
  ASSUME TypeOK, NEW leg \in Legs
  PROVE  AskDue(leg) \in Nat /\ AskSized(leg) \in Nat /\ inv[leg].shares \in Nat
<1>1. "release" \in Sides
  BY DEF Sides
<1>2. AskDue(leg) \in Nat
  BY <1>1 DEF TypeOK, AskDue, Resting, Quote, Order
<1>3. AskSized(leg) \in Nat /\ inv[leg].shares \in Nat
  BY DEF TypeOK, AskSized, Plan, Want, Position
<1>. QED BY <1>2, <1>3

\* The shortfall does not grow when each of the two asks it is taken of is
\* covered after the step, or exceeds the shares no more than one did before.
LEMMA ShortfallFalls ==
  ASSUME TypeOK, TypeOK', NEW leg \in Legs,
         \A n \in {AskDue(leg)', AskSized(leg)'} :
           \/ n <= inv'[leg].shares
           \/ n - inv'[leg].shares <= AskDue(leg) - inv[leg].shares
           \/ n - inv'[leg].shares <= AskSized(leg) - inv[leg].shares
  PROVE  Uncovered(leg)' <= Uncovered(leg)
<1>. DEFINE d == AskDue(leg)  z == AskSized(leg)  h == inv[leg].shares
            dd == AskDue(leg)'  zz == AskSized(leg)'  hh == inv'[leg].shares
<1>1. {d, z, h, dd, zz, hh} \subseteq Nat
  <2>1. d \in Nat /\ z \in Nat /\ h \in Nat
    BY AskFacts
  <2>2. dd \in Nat /\ zz \in Nat /\ hh \in Nat
    <3>1. "release" \in Sides
      BY DEF Sides
    <3>2. dd \in Nat
      BY <3>1 DEF TypeOK, AskDue, Resting, Quote, Order
    <3>. QED BY <3>2 DEF TypeOK, AskSized, Plan, Want, Position
  <2>. QED BY <2>1, <2>2
<1>2. /\ dd <= hh \/ dd - hh <= d - h \/ dd - hh <= z - h
      /\ zz <= hh \/ zz - hh <= d - h \/ zz - hh <= z - h
  OBVIOUS
<1>3. Uncovered(leg) = LET due == IF d > z THEN d ELSE z
                       IN  IF due > h THEN due - h ELSE 0
  BY DEF Uncovered
<1>4. Uncovered(leg)' = LET due == IF dd > zz THEN dd ELSE zz
                        IN  IF due > hh THEN due - hh ELSE 0
  BY DEF Uncovered
<1>. HIDE DEF d, z, h, dd, zz, hh
<1>. QED BY <1>1, <1>2, <1>3, <1>4

\* The size decided on is carried to the ask that is placed, or is dropped.
LEMMA SizedMoves ==
  ASSUME TypeOK, pc.at \in {"cancel", "place"},
         Continue(AfterSide) \/ Continue(AfterCancel), NEW leg \in Legs
  PROVE  AskSized(leg)' \in {0, AskSized(leg)}
<1>. pc \in Control
  BY DEF TypeOK
<1>1. CASE /\ plan' = plan /\ pc'.leg = pc.leg /\ pc'.at \in {"cancel", "place"}
  BY <1>1 DEF AskSized
<1>2. CASE Continue(AfterSide)
  <2>1. CASE /\ pc.side = "acquire" /\ plan' = plan
             /\ pc' = [pc EXCEPT !.at = "cancel", !.side = "release"]
    BY <1>1, <2>1 DEF Control
  <2>2. CASE pc' = [pc EXCEPT !.at = "sell"]
    BY <2>2 DEF AskSized, Control
  <2>3. CASE Continue(AfterLeg)
    BY <2>3, AfterLegMoves DEF AskSized, DropAll, Drop
  <2>. QED BY <1>2, <2>1, <2>2, <2>3, AfterSideMoves
<1>3. CASE Continue(AfterCancel) /\ plan[pc.side].do = "post"
  <2>1. AfterCancel = [pc EXCEPT !.at = "place"]
    BY <1>3 DEF AfterCancel
  <2>2. /\ pc'.at = "place" /\ pc'.loop = pc.loop /\ pc'.leg = pc.leg /\ plan' = plan
    BY <1>3, <2>1 DEF Continue, Control
  <2>. QED BY <1>1, <2>2
<1>4. CASE Continue(AfterCancel) /\ plan[pc.side].do # "post"
  <2>1. AfterCancel = AfterSide
    BY <1>4 DEF AfterCancel
  <2>. QED BY <1>2, <1>4, <2>1
<1>. QED BY <1>2, <1>3, <1>4

\* A step that keeps the quotes and the inventory of a leg, and at most drops
\* the size decided on, keeps the shortfall.
LEMMA SameShortfall ==
  ASSUME TypeOK, TypeOK', NEW leg \in Legs, inv'[leg].shares = inv[leg].shares,
         quote'[leg]["release"] \in {quote[leg]["release"], NoQuote},
         AskSized(leg)' \in {0, AskSized(leg)}
  PROVE  Uncovered(leg)' <= Uncovered(leg)
<1>1. inv[leg].shares \in Nat /\ AskDue(leg) \in Nat /\ AskSized(leg) \in Nat
  BY AskFacts
<1>2. AskDue(leg)' \in {0, AskDue(leg)}
  BY DEF AskDue, Resting
<1>. QED BY <1>1, <1>2, ShortfallFalls

LEMMA CoverStep ==
  ASSUME IInv, TypeOK', [Next]_vars, NEW leg \in Legs
  PROVE  Uncovered(leg)' <= Uncovered(leg) \/ RiskLoop
<1>. TypeOK /\ PlanSound /\ Cleared
  BY DEF IInv
<1>. pc \in Control /\ plan \in Plan /\ pc.leg \in Legs /\ pc.side \in Sides
  BY DEF TypeOK, Control
<1>. "release" \in Sides
  BY DEF Sides
<1>1. inv[leg].shares \in Nat /\ AskDue(leg) \in Nat /\ AskSized(leg) \in Nat
  BY AskFacts
<1>2. CASE inv' = inv /\ quote' = quote /\ plan' = plan /\ pc' = pc
  <2>1. AskSized(leg)' = AskSized(leg)
    BY <1>2 DEF AskSized
  <2>. QED BY <1>2, <2>1, SameShortfall
<1>3. CASE inv' = inv /\ quote' = quote /\ pc'.at \notin {"cancel", "place"}
  <2>1. AskSized(leg)' = 0
    BY <1>3 DEF AskSized
  <2>. QED BY <1>3, <2>1, SameShortfall
<1>4. CASE Wake
  <2>1. /\ inv' = inv /\ quote' = quote
        /\ pc'.at # "place" /\ (pc'.at = "cancel" => plan' = DropAll)
    BY <1>4, LegFacts DEF Wake, books, Enter, Entry, Control
  <2>2. AskSized(leg)' = 0
    BY <2>1 DEF AskSized, DropAll, Drop
  <2>. QED BY <2>1, <2>2, SameShortfall
<1>5. CASE Poll
  <2>1. pc'.at \in {"poll", "quote"}
    BY <1>5 DEF Poll, Continue, AfterPoll, Control
  <2>2. AskSized(leg)' = 0
    BY <2>1 DEF AskSized
  <2>3. CASE leg # pc.leg \/ pc.side # "release"
    <3>1. quote'[leg]["release"] = quote[leg]["release"] /\ AskDue(leg)' = AskDue(leg)
      BY <1>5, <2>3, PollSlots DEF AskDue, Resting
    <3>2. inv'[leg].shares \in Nat /\ inv'[leg].shares >= inv[leg].shares
      BY <1>1, <1>5, <2>3, PollFacts DEF Sides
    <3>. QED BY <1>1, <2>2, <3>1, <3>2, ShortfallFalls
  <2>4. CASE leg = pc.leg /\ pc.side = "release"
    <3>. DEFINE n == Newly(leg, "release")
    <3>1. /\ quote[leg]["release"] \in Quote /\ ex[leg]["release"] \in Order /\ n \in Nat
          /\ inv'[leg].shares =
               (IF n < inv[leg].shares THEN inv[leg].shares - n ELSE 0)
      BY <1>5, <2>4, PollFacts
    <3>2. Resting(leg, "release") /\ n = ex[leg]["release"].filled - quote[leg]["release"].booked
      BY <1>5, <2>4 DEF Poll, Newly, Matched
    <3>3. AskDue(leg)' = 0 \/ AskDue(leg)' = AskDue(leg) - n
      <4>1. CASE quote'[leg]["release"] = NoQuote
        BY <4>1 DEF AskDue, Resting
      <4>2. CASE quote'[leg]["release"] =
                   [quote[leg]["release"] EXCEPT !.booked = ex[leg]["release"].filled]
        <5>1. quote'[leg]["release"] \in Quote
          BY <3>1, <4>2 DEF Quote, Order
        <5>2. /\ quote'[leg]["release"].qty = quote[leg]["release"].qty
              /\ quote'[leg]["release"].booked = ex[leg]["release"].filled
          BY <3>1, <4>2 DEF Quote
        <5>3. AskDue(leg)' = quote[leg]["release"].qty - ex[leg]["release"].filled
          BY <5>1, <5>2, NoQuoteAssumption DEF AskDue, Resting
        <5>. QED BY <3>1, <3>2, <5>3 DEF AskDue, Quote, Order
      <4>. QED BY <1>5, <2>4, <4>1, <4>2, PollSlots
    <3>. HIDE DEF n
    <3>4. \/ AskDue(leg)' <= inv'[leg].shares
          \/ AskDue(leg)' - inv'[leg].shares <= AskDue(leg) - inv[leg].shares
      BY <1>1, <3>1, <3>3
    <3>5. AskSized(leg)' <= inv'[leg].shares
      BY <1>1, <2>2, <3>1
    <3>. QED BY <3>4, <3>5, ShortfallFalls
  <2>. QED BY <2>3, <2>4
<1>6. CASE QuoteLeg
  <2>1. PICK guarded \in BOOLEAN : plan' = Decide(pc.leg, touch[pc.leg], guarded)
    BY <1>6 DEF QuoteLeg
  <2>2. inv' = inv /\ quote' = quote /\ pc'.leg = pc.leg
    BY <1>6 DEF QuoteLeg, books, Control
  <2>3. plan'.release.do = "post" => plan'.release.qty <= inv[pc.leg].shares
    BY <2>1, DecideFacts
  <2>4. AskSized(leg)' <= inv'[leg].shares
    BY <1>1, <2>2, <2>3 DEF AskSized
  <2>5. AskDue(leg)' = AskDue(leg)
    BY <2>2 DEF AskDue, Resting
  <2>. QED BY <1>1, <2>2, <2>4, <2>5, ShortfallFalls
<1>7. CASE CancelNothing \/ Cancel
  <2>1. AskSized(leg)' \in {0, AskSized(leg)} /\ inv' = inv
    BY <1>7, SizedMoves DEF CancelNothing, Cancel, books
  <2>2. quote'[leg]["release"] \in {quote[leg]["release"], NoQuote}
    <3>1. CASE CancelNothing
      BY <3>1 DEF CancelNothing, books
    <3>2. CASE Cancel
      BY <3>2, ForgetFacts DEF Cancel
    <3>. QED BY <1>7, <3>1, <3>2
  <2>. QED BY <2>1, <2>2, SameShortfall
<1>8. CASE PlaceFails
  <2>1. AskSized(leg)' \in {0, AskSized(leg)} /\ inv' = inv /\ quote' = quote
    BY <1>8, SizedMoves DEF PlaceFails, books
  <2>. QED BY <2>1, SameShortfall
<1>9. CASE Place
  <2>1. AskSized(leg)' \in {0, AskSized(leg)} /\ inv' = inv /\ pc.at = "place"
    BY <1>9, SizedMoves DEF Place
  <2>2. CASE leg # pc.leg \/ pc.side # "release"
    <3>1. quote'[leg]["release"] = quote[leg]["release"]
      BY <1>9, <2>2 DEF Place, TypeOK
    <3>. QED BY <2>1, <3>1, SameShortfall
  <2>3. CASE leg = pc.leg /\ pc.side = "release"
    <3>1. plan.release.do = "post" /\ AskSized(leg) = plan.release.qty
      BY <2>1, <2>3 DEF PlanSound, AskSized
    <3>2. quote'[leg]["release"] =
            [value |-> plan.release.value, qty |-> plan.release.qty, booked |-> 0]
      BY <1>9, <2>3 DEF Place, TypeOK
    <3>3. quote'[leg]["release"] \in Quote /\ plan.release.qty \in Nat
      BY <3>2 DEF Quote, Plan, Want
    <3>4. AskDue(leg)' = AskSized(leg)
      BY <3>1, <3>2, <3>3, NoQuoteAssumption DEF AskDue, Resting, Quote
    <3>. QED BY <1>1, <2>1, <3>4, ShortfallFalls
  <2>. QED BY <2>2, <2>3
<1>10. CASE Flatten
  <2>1. /\ inv' = inv /\ quote' = quote
        /\ pc'.at # "place" /\ (pc'.at = "cancel" => plan' = DropAll)
    BY <1>10, AfterLegMoves DEF Flatten, books, Control
  <2>2. AskSized(leg)' = 0
    BY <2>1 DEF AskSized, DropAll, Drop
  <2>. QED BY <2>1, <2>2, SameShortfall
<1>11. CASE Sell \/ SellFails \/ Reconcile
  <2>1. /\ quote' = quote /\ pc.at \in {"sell", "reconcile"}
        /\ pc'.at # "place" /\ (pc'.at = "cancel" => plan' = DropAll)
    BY <1>11, AfterLegMoves DEF Sell, SellFails, Reconcile, world, Control
  <2>2. AskSized(leg)' = 0
    BY <2>1 DEF AskSized, DropAll, Drop
  <2>3. CASE leg # pc.leg
    <3>1. inv'[leg] = inv[leg]
      BY <1>11, <2>3, ReconcileFacts DEF Sell, SellFails, TypeOK
    <3>. QED BY <2>1, <2>2, <3>1, SameShortfall
  <2>4. CASE leg = pc.leg
    <3>1. AskDue(leg)' = 0
      BY <2>1, <2>4 DEF Cleared, AskDue, Resting
    <3>2. inv'[leg].shares \in Nat
      BY DEF TypeOK, Position
    <3>. QED BY <2>2, <3>1, <3>2, ShortfallFalls
  <2>. QED BY <2>3, <2>4
<1>12. CASE Die
  <2>1. inv' = inv /\ quote'[leg]["release"] = NoQuote /\ pc'.at = "dead"
    BY <1>12 DEF Die, Rest
  <2>2. AskSized(leg)' = 0
    BY <2>1 DEF AskSized
  <2>. QED BY <2>1, <2>2, SameShortfall
<1>13. CASE PollNothing \/ Respawn
  <2>1. inv' = inv /\ quote' = quote /\ pc'.at \notin {"cancel", "place"}
    <3>1. CASE PollNothing
      BY <3>1 DEF PollNothing, books, Continue, AfterPoll, Control
    <3>2. CASE Respawn
      BY <3>2 DEF Respawn, Rest
    <3>. QED BY <1>13, <3>1, <3>2
  <2>. QED BY <1>3, <2>1
<1>. QED
  BY <1>2, <1>4, <1>5, <1>6, <1>7, <1>8, <1>9, <1>10, <1>11, <1>12, <1>13
     DEF Next, Step, Environment, vars, books, Fill,
         OrphanFill, Terminate, MoveBook, Age, TimePasses

-----------------------------------------------------------------------------
(* What a step does to the gap between the chain and the books of a leg.   *)

\* A tracked order is never booked beyond what it filled.
LEMMA UnbookedFacts ==
  ASSUME TypeOK, NEW leg \in Legs, NEW side \in Sides
  PROVE  Unbooked(leg, side) \in Nat
BY DEF TypeOK, Unbooked, Resting, Quote, Order

\* A slot that keeps its quote and its fills keeps its count.
LEMMA SlotCountsSame ==
  ASSUME NEW leg \in Legs, NEW side \in Sides,
         quote'[leg][side] = quote[leg][side],
         ex'[leg][side].filled = ex[leg][side].filled
  PROVE  Unbooked(leg, side)' = Unbooked(leg, side)
BY DEF Unbooked, Resting

\* A gap is made of four counts of its leg.
LEMMA SameGap ==
  ASSUME NEW leg \in Legs, chain'[leg] = chain[leg],
         inv'[leg].shares = inv[leg].shares,
         \A side \in Sides : Unbooked(leg, side)' = Unbooked(leg, side)
  PROVE  Gap(leg)' = Gap(leg)
BY DEF Gap, Drift, Sides

\* A poll books exactly what it takes off the count of its order, unless more of
\* an ask was filled than the leg holds.
LEMMA PollKeepsGap ==
  ASSUME IInv, Poll, NEW leg \in Legs
  PROVE  \/ Gap(leg)' = Gap(leg)
         \/ /\ leg = pc.leg /\ pc.side = "release"
            /\ Unbooked(leg, "release") > inv[leg].shares
            /\ inv'[leg].shares = 0
<1>. TypeOK
  BY DEF IInv
<1>1. chain' = chain
  BY DEF Poll
<1>2. CASE leg # pc.leg
  <2>1. \A side \in Sides : Unbooked(leg, side)' = Unbooked(leg, side)
    BY <1>2, PollSlots, SlotCountsSame
  <2>2. inv'[leg] = inv[leg]
    BY <1>2, PollFacts
  <2>. QED BY <1>1, <2>1, <2>2, SameGap
<1>3. CASE leg = pc.leg
  <2>. DEFINE side == pc.side  newly == Newly(leg, side)
  <2>1. /\ side \in Sides /\ newly \in Nat /\ quote[leg][side] \in Quote
        /\ ex[leg][side] \in Order
        /\ side = "acquire" => inv'[leg].shares = inv[leg].shares + newly
        /\ side = "release" =>
             inv'[leg].shares =
               (IF newly < inv[leg].shares THEN inv[leg].shares - newly ELSE 0)
    BY <1>3, PollFacts
  <2>2. /\ Resting(leg, side) /\ newly = ex[leg][side].filled - quote[leg][side].booked
        /\ ex[leg][side].filled <= quote[leg][side].qty
    BY <1>3, <2>1 DEF Poll, Newly, Matched, TypeOK
  <2>3. Unbooked(leg, side) = newly
    BY <2>2 DEF Unbooked
  <2>. HIDE DEF newly
  <2>4. \A s \in Sides : s # pc.side => Unbooked(leg, s)' = Unbooked(leg, s)
    BY <1>3, PollSlots, SlotCountsSame
  <2>5. /\ pc.side = "acquire" => Unbooked(leg, "acquire")' = 0
        /\ pc.side = "release" => Unbooked(leg, "release")' = 0
    <3>1. CASE quote'[leg][pc.side] = NoQuote
      BY <3>1 DEF Unbooked, Resting
    <3>2. CASE /\ ex'[leg][pc.side] = ex[leg][pc.side]
               /\ quote'[leg][pc.side] =
                    [quote[leg][pc.side] EXCEPT !.booked = ex[leg][pc.side].filled]
      <4>1. quote'[leg][pc.side].booked = ex'[leg][pc.side].filled
        BY <2>1, <3>2 DEF Quote
      <4>2. ex'[leg][pc.side].filled \in Nat
        BY <2>1, <3>2 DEF Order
      <4>. QED BY <4>1, <4>2 DEF Unbooked, Resting
    <3>. QED BY <1>3, <3>1, <3>2, PollSlots
  <2>6. inv[leg].shares \in Nat /\ chain[leg] \in Nat
    BY DEF TypeOK, Position
  <2>7. CASE pc.side = "acquire"
    <3>1. /\ Unbooked(leg, "acquire") = newly /\ Unbooked(leg, "acquire")' = 0
          /\ Unbooked(leg, "release")' = Unbooked(leg, "release")
          /\ inv'[leg].shares = inv[leg].shares + newly
      BY <2>1, <2>3, <2>4, <2>5, <2>7 DEF Sides
    <3>2. Unbooked(leg, "release") \in Nat
      BY UnbookedFacts DEF Sides
    <3>. QED BY <1>1, <2>1, <2>6, <3>1, <3>2 DEF Gap, Drift
  <2>8. CASE pc.side = "release"
    <3>1. /\ Unbooked(leg, "release") = newly /\ Unbooked(leg, "release")' = 0
          /\ Unbooked(leg, "acquire")' = Unbooked(leg, "acquire")
      BY <2>1, <2>3, <2>4, <2>5, <2>8 DEF Sides
    <3>2. Unbooked(leg, "acquire") \in Nat
      BY UnbookedFacts DEF Sides
    <3>3. CASE newly <= inv[leg].shares
      <4>1. inv'[leg].shares = inv[leg].shares - newly
        BY <2>1, <2>6, <2>8, <3>3
      <4>. QED BY <1>1, <2>1, <2>6, <3>1, <3>2, <4>1 DEF Gap, Drift
    <3>4. CASE ~(newly <= inv[leg].shares)
      BY <1>3, <2>1, <2>6, <2>8, <3>1, <3>4
    <3>. QED BY <3>3, <3>4
  <2>. QED BY <2>1, <2>7, <2>8 DEF Sides
<1>. QED BY <1>2, <1>3

\* A fill of a tracked order moves the chain and the count of the order alike.
LEMMA FillKeepsGap ==
  ASSUME IInv, NEW l \in Legs, NEW s \in Sides, Fill(l, s), NEW leg \in Legs
  PROVE  Gap(leg)' = Gap(leg)
<1>. TypeOK
  BY DEF IInv
<1>. DEFINE o == [filled |-> ex[l][s].filled + 1,
                  open   |-> ex[l][s].filled + 1 < quote[l][s].qty]
<1>1. /\ ex' = [ex EXCEPT ![l][s] = o] /\ quote' = quote /\ inv' = inv
      /\ Resting(l, s) /\ quote[l][s] \in Quote /\ ex[l][s] \in Order
  BY DEF Fill, TypeOK, books, Resting
<1>2. o \in Order /\ o.filled = ex[l][s].filled + 1
  BY <1>1 DEF Order, Quote
<1>. HIDE DEF o
<1>3. /\ ex'[l][s] = o
      /\ \A k \in Legs, t \in Sides : k # l \/ t # s => ex'[k][t] = ex[k][t]
  BY <1>1, <1>2, SlotUpdate DEF TypeOK
<1>4. Unbooked(l, s)' = Unbooked(l, s) + 1
  BY <1>1, <1>2, <1>3 DEF Unbooked, Resting, Quote, Order
<1>5. \A k \in Legs, t \in Sides : k # l \/ t # s => Unbooked(k, t)' = Unbooked(k, t)
  BY <1>1, <1>3, SlotCountsSame
<1>6. /\ chain'[l] = IF s = "acquire" THEN chain[l] + 1 ELSE chain[l] - 1
      /\ \A k \in Legs \ {l} : chain'[k] = chain[k]
  BY TradeFacts DEF Fill
<1>7. CASE leg # l
  BY <1>1, <1>5, <1>6, <1>7, SameGap
<1>8. CASE leg = l
  <2>1. /\ inv[leg].shares \in Nat /\ chain[leg] \in Nat
        /\ Unbooked(leg, "acquire") \in Nat /\ Unbooked(leg, "release") \in Nat
    BY UnbookedFacts DEF TypeOK, Position, Sides
  <2>2. CASE s = "acquire"
    <3>1. /\ chain'[leg] = chain[leg] + 1
          /\ Unbooked(leg, "acquire")' = Unbooked(leg, "acquire") + 1
          /\ Unbooked(leg, "release")' = Unbooked(leg, "release")
      BY <1>4, <1>5, <1>6, <1>8, <2>2 DEF Sides
    <3>. QED BY <1>1, <2>1, <3>1 DEF Gap, Drift
  <2>3. CASE s = "release"
    <3>1. /\ chain'[leg] = chain[leg] - 1
          /\ Unbooked(leg, "release")' = Unbooked(leg, "release") + 1
          /\ Unbooked(leg, "acquire")' = Unbooked(leg, "acquire")
      BY <1>4, <1>5, <1>6, <1>8, <2>3 DEF Sides
    <3>. QED BY <1>1, <2>1, <3>1 DEF Gap, Drift
  <2>. QED BY <2>2, <2>3 DEF Sides
<1>. QED BY <1>7, <1>8

\* Every step keeps the gap of a leg or is one of those that may not.
LEMMA GapStep ==
  ASSUME IInv, [Next]_vars, NEW leg \in Legs
  PROVE  \/ Gap(leg)' = Gap(leg)
         \/ (Cancel \/ Die) /\ Drift(leg)' = Drift(leg)
         \/ leg = pc.leg /\ pc.at = "sell" /\ (Sell \/ SellFails \/ Die)
         \/ leg = pc.leg /\ Reconcile
         \/ \E side \in Sides : OrphanFill(leg, side)
         \/ RiskLoop
         \/ /\ Poll /\ leg = pc.leg /\ pc.side = "release"
            /\ Unbooked(leg, "release") > inv[leg].shares
            /\ inv'[leg].shares = 0
<1>. TypeOK /\ PlanSound /\ Cleared
  BY DEF IInv
<1>. pc \in Control /\ pc.leg \in Legs /\ pc.side \in Sides
  BY DEF TypeOK, Control
<1>1. CASE inv' = inv /\ quote' = quote /\ ex' = ex /\ chain' = chain
  BY <1>1, SlotCountsSame, SameGap
<1>2. CASE Poll
  BY <1>2, PollKeepsGap
<1>3. CASE Cancel
  <2>1. inv' = inv /\ chain' = chain
    BY <1>3 DEF Cancel
  <2>. QED BY <1>3, <2>1 DEF Drift
<1>4. CASE Place
  <2>1. /\ inv' = inv /\ chain' = chain /\ ~Resting(pc.leg, pc.side)
        /\ quote'[pc.leg][pc.side].booked = 0 /\ ex'[pc.leg][pc.side].filled = 0
        /\ \A l \in Legs, s \in Sides : l # pc.leg \/ s # pc.side =>
             quote'[l][s] = quote[l][s] /\ ex'[l][s] = ex[l][s]
    BY <1>4 DEF Place, TypeOK, Cleared
  <2>2. \A side \in Sides : Unbooked(leg, side)' = Unbooked(leg, side)
    <3>1. ASSUME NEW side \in Sides, leg = pc.leg, side = pc.side
          PROVE  Unbooked(leg, side)' = 0 /\ Unbooked(leg, side) = 0
      BY <2>1, <3>1 DEF Unbooked, Resting
    <3>. QED BY <2>1, <3>1, SlotCountsSame
  <2>. QED BY <2>1, <2>2, SameGap
<1>5. CASE Sell \/ SellFails \/ Reconcile
  <2>1. quote' = quote /\ ex' = ex
    BY <1>5 DEF Sell, SellFails, Reconcile, world
  <2>2. CASE leg # pc.leg
    <3>1. inv'[leg] = inv[leg] /\ chain'[leg] = chain[leg]
      BY <1>5, <2>2, ReconcileFacts DEF Sell, SellFails, Reconcile, world, TypeOK
    <3>. QED BY <2>1, <3>1, SlotCountsSame, SameGap
  <2>. QED BY <1>5, <2>2 DEF Sell, SellFails
<1>6. CASE Die
  <2>1. inv' = inv /\ (chain'[leg] = chain[leg] \/ (leg = pc.leg /\ pc.at = "sell"))
    BY <1>6 DEF Die, TypeOK
  <2>. QED BY <1>6, <2>1 DEF Drift
<1>7. CASE \E l \in Legs, s \in Sides : Fill(l, s)
  BY <1>7, FillKeepsGap
<1>8. CASE \E l \in Legs, s \in Sides : OrphanFill(l, s)
  <2>1. PICK l \in Legs, s \in Sides : OrphanFill(l, s)
    BY <1>8
  <2>2. quote' = quote /\ inv' = inv /\ ex' = ex
    BY <2>1 DEF OrphanFill, books
  <2>3. CASE leg # l
    <3>1. chain'[leg] = chain[leg]
      BY <2>1, <2>3, TradeFacts DEF OrphanFill
    <3>. QED BY <2>2, <3>1, SlotCountsSame, SameGap
  <2>4. CASE leg = l
    BY <2>1, <2>4
  <2>. QED BY <2>3, <2>4
<1>9. CASE \E l \in Legs, s \in Sides : Terminate(l, s)
  <2>1. PICK l \in Legs, s \in Sides : Terminate(l, s)
    BY <1>9
  <2>2. quote' = quote /\ inv' = inv /\ chain' = chain
    BY <2>1 DEF Terminate, books
  <2>3. \A side \in Sides : ex'[leg][side].filled = ex[leg][side].filled
    BY <2>1 DEF Terminate, TypeOK, Order
  <2>. QED BY <2>2, <2>3, SlotCountsSame, SameGap
<1>. QED
  BY <1>1, <1>2, <1>3, <1>4, <1>5, <1>6, <1>7, <1>8, <1>9
     DEF Next, Step, Environment, vars, books, world, Wake, PollNothing, QuoteLeg,
         CancelNothing, PlaceFails, Flatten, Respawn, MoveBook, Age, TimePasses

-----------------------------------------------------------------------------
(* How far the end is.                                                     *)

LEMMA StepsFacts ==
  ASSUME NEW c \in Control
  PROVE  /\ StepsInLeg(c) \in 1 .. 9
         /\ StepsFrom(c) \in 0 .. 73
         /\ c.at \in {"done", "dead"} <=> StepsFrom(c) = 0
<1>1. StepsInLeg(c) \in 1 .. 9
  BY DEF StepsInLeg
<1>. QED BY <1>1 DEF StepsFrom

\* Leaving a leg, for the next one, the next loop or the next sleep, from
\* anywhere in it.
LEMMA AfterLegNears ==
  ASSUME pc \in Control, pc.at \notin {"sleep", "done", "dead"}
  PROVE  StepsFrom(AfterLeg) < StepsFrom(pc)
<1>. DEFINE rest == IF pc.loop # "cycle" /\ pc.final THEN 0 ELSE 37
<1>1. /\ StepsInLeg(pc) \in 1 .. 9 /\ rest \in {0, 37}
      /\ StepsFrom(pc) = StepsInLeg(pc) + (IF pc.leg = LastLeg THEN 0 ELSE 9)
                           + (IF pc.loop = "clear" THEN 18 ELSE 0) + rest
  BY StepsFacts DEF StepsFrom
<1>2. CASE pc.leg # LastLeg
  <2>. DEFINE c == Enter(pc.loop, LastLeg)
  <2>1. /\ c \in Control /\ c.at \in {"poll", "cancel", "flatten"}
        /\ c.leg = LastLeg /\ c.loop = pc.loop /\ c.final = pc.final
    BY LegFacts DEF Enter, Entry, Control, Points, Awaits, Loops, Sides
  <2>2. StepsInLeg(c) \in 1 .. 9
    BY <2>1, StepsFacts
  <2>3. StepsFrom(c) = StepsInLeg(c) + (IF pc.loop = "clear" THEN 18 ELSE 0) + rest
    <3>. HIDE DEF c
    <3>. QED BY <2>1, <2>2 DEF StepsFrom
  <2>4. AfterLeg = c
    BY <1>2 DEF AfterLeg
  <2>. HIDE DEF c, rest
  <2>. QED BY <1>1, <1>2, <2>2, <2>3, <2>4
<1>3. CASE pc.leg = LastLeg /\ pc.loop = "clear"
  <2>. DEFINE c == Enter("flatten", FirstLeg)
  <2>1. /\ c.at = "flatten" /\ c.loop = "flatten" /\ c.final = pc.final
    BY DEF Enter, Entry, Control
  <2>2. StepsFrom(c) <= 12 + rest
    <3>1. StepsInLeg(c) = 3
      BY <2>1 DEF StepsInLeg
    <3>. HIDE DEF c
    <3>. QED BY <1>3, <2>1, <3>1 DEF StepsFrom
  <2>3. StepsFrom(c) \in Int
    <3>1. c \in Control
      BY LegFacts DEF Enter, Entry, Control, Points, Loops, Sides
    <3>. HIDE DEF c
    <3>. QED BY <3>1, StepsFacts
  <2>4. AfterLeg = c
    BY <1>3 DEF AfterLeg
  <2>. HIDE DEF c, rest
  <2>. QED BY <1>1, <1>3, <2>2, <2>3, <2>4
<1>4. CASE pc.leg = LastLeg /\ pc.loop # "clear"
  <2>1. \/ AfterLeg = Rest("sleep") /\ rest = 37
        \/ AfterLeg = Rest("done")
    BY <1>4 DEF AfterLeg, Control, Loops
  <2>2. StepsFrom(Rest("sleep")) = 37 /\ StepsFrom(Rest("done")) = 0
    BY DEF StepsFrom, Rest
  <2>. HIDE DEF rest
  <2>. QED BY <1>1, <1>4, <2>1, <2>2
<1>. QED BY <1>2, <1>3, <1>4

\* Going on within a leg.
LEMMA SameLegNears ==
  ASSUME NEW c \in Control, NEW d \in Control,
         c.at \notin {"sleep", "done", "dead"}, d.at \notin {"sleep", "done", "dead"},
         d.leg = c.leg, d.loop = c.loop, d.final = c.final,
         StepsInLeg(d) < StepsInLeg(c)
  PROVE  StepsFrom(d) < StepsFrom(c)
<1>1. StepsInLeg(c) \in 1 .. 9 /\ StepsInLeg(d) \in 1 .. 9
  BY StepsFacts
<1>. QED BY <1>1 DEF StepsFrom

LEMMA AfterSideNears ==
  ASSUME pc \in Control, pc.at \in {"cancel", "place"}
  PROVE  StepsFrom(AfterSide) < StepsFrom(pc)
<1>1. CASE pc.side = "acquire"
  <2>. DEFINE c == [pc EXCEPT !.at = "cancel", !.side = "release"]
  <2>1. /\ c \in Control /\ c.at = "cancel" /\ c.side = "release"
        /\ c.leg = pc.leg /\ c.loop = pc.loop /\ c.final = pc.final
    BY DEF Control, Points, Awaits, Sides
  <2>2. AfterSide = c
    BY <1>1 DEF AfterSide
  <2>. HIDE DEF c
  <2>3. StepsInLeg(c) = 4 /\ StepsInLeg(pc) \in {5, 6}
    BY <1>1, <2>1 DEF StepsInLeg
  <2>. QED BY <2>1, <2>2, <2>3, SameLegNears
<1>2. CASE pc.side = "release" /\ plan.exit > 0
  <2>. DEFINE c == [pc EXCEPT !.at = "sell"]
  <2>1. /\ c \in Control /\ c.at = "sell"
        /\ c.leg = pc.leg /\ c.loop = pc.loop /\ c.final = pc.final
    BY DEF Control, Points, Awaits, Sides
  <2>2. AfterSide = c
    BY <1>2 DEF AfterSide
  <2>. HIDE DEF c
  <2>3. StepsInLeg(c) = 2 /\ StepsInLeg(pc) \in {3, 4}
    BY <1>2, <2>1 DEF StepsInLeg
  <2>. QED BY <2>1, <2>2, <2>3, SameLegNears
<1>3. CASE AfterSide = AfterLeg
  BY <1>3, AfterLegNears
<1>. QED BY <1>1, <1>2, <1>3 DEF AfterSide, Control, Sides

\* Each step of the task is nearer to the end.
LEMMA StepNears ==
  ASSUME TypeOK, phase = "closed", Step
  PROVE  StepsFrom(pc') < StepsFrom(pc)
<1>. pc \in Control /\ pc.side \in Sides
  BY DEF TypeOK, Control
<1>1. CASE Wake
  <2>1. pc' = [Enter("clear", FirstLeg) EXCEPT !.final = TRUE] /\ pc.at = "sleep"
    BY <1>1 DEF Wake
  <2>2. StepsFrom(pc) = 37
    BY <2>1 DEF StepsFrom
  <2>3. pc'.at = "cancel" /\ pc'.side = "acquire" /\ pc'.loop = "clear" /\ pc'.final = TRUE
    BY <2>1 DEF Enter, Entry, Control
  <2>4. StepsFrom(pc') \in 0 .. 33
    BY <2>3 DEF StepsFrom, StepsInLeg
  <2>. QED BY <2>2, <2>4
<1>2. CASE Poll \/ PollNothing
  <2>1. pc' = AfterPoll /\ pc.at = "poll"
    BY <1>2 DEF Poll, PollNothing, Continue
  <2>2. /\ AfterPoll \in Control
        /\ AfterPoll.leg = pc.leg /\ AfterPoll.loop = pc.loop /\ AfterPoll.final = pc.final
        /\ pc.side = "acquire" => AfterPoll.at = "poll" /\ AfterPoll.side = "release"
        /\ pc.side = "release" => AfterPoll.at = "quote"
    BY <2>1 DEF AfterPoll, Control, Points, Awaits, Sides
  <2>3. StepsInLeg(AfterPoll) < StepsInLeg(pc)
    BY <2>1, <2>2 DEF StepsInLeg, Sides
  <2>4. AfterPoll.at \in {"poll", "quote"}
    BY <2>2 DEF Sides
  <2>. QED BY <2>1, <2>2, <2>3, <2>4, SameLegNears
<1>3. CASE QuoteLeg
  <2>. DEFINE c == [pc EXCEPT !.at = "cancel"]
  <2>1. pc' = c /\ pc.at = "quote"
    BY <1>3 DEF QuoteLeg
  <2>2. /\ c \in Control /\ c.at = "cancel"
        /\ c.leg = pc.leg /\ c.loop = pc.loop /\ c.final = pc.final
        /\ StepsInLeg(c) < StepsInLeg(pc)
    BY <2>1 DEF Control, Points, Awaits, Sides, StepsInLeg
  <2>. HIDE DEF c
  <2>. QED BY <2>1, <2>2, SameLegNears
<1>4. CASE CancelNothing \/ Cancel \/ Place \/ PlaceFails
  <2>1. /\ pc.at \in {"cancel", "place"}
        /\ \/ pc' = AfterSide
           \/ pc.at = "cancel" /\ pc' = [pc EXCEPT !.at = "place"]
    BY <1>4 DEF CancelNothing, Cancel, Place, PlaceFails, Continue, AfterCancel
  <2>2. CASE pc' = AfterSide
    BY <2>1, <2>2, AfterSideNears
  <2>3. CASE pc.at = "cancel" /\ pc' = [pc EXCEPT !.at = "place"]
    <3>. DEFINE c == [pc EXCEPT !.at = "place"]
    <3>1. /\ c \in Control /\ c.at = "place"
          /\ c.leg = pc.leg /\ c.loop = pc.loop /\ c.final = pc.final
          /\ StepsInLeg(c) < StepsInLeg(pc)
      BY <2>3 DEF Control, Points, Awaits, Sides, StepsInLeg
    <3>. HIDE DEF c
    <3>. QED BY <2>3, <3>1, SameLegNears DEF c
  <2>. QED BY <2>1, <2>2, <2>3
<1>5. CASE Flatten \/ Sell
  <2>1. CASE pc' = AfterLeg /\ pc.at = "flatten"
    BY <2>1, AfterLegNears
  <2>2. CASE \/ pc.at = "flatten" /\ pc' = [pc EXCEPT !.at = "sell"]
             \/ pc.at = "sell" /\ pc' = [pc EXCEPT !.at = "reconcile"]
    <3>1. /\ pc' \in Control /\ pc'.at \in {"sell", "reconcile"}
          /\ pc'.leg = pc.leg /\ pc'.loop = pc.loop /\ pc'.final = pc.final
          /\ StepsInLeg(pc') < StepsInLeg(pc)
      BY <2>2 DEF Control, Points, Awaits, Sides, StepsInLeg
    <3>. QED BY <2>2, <3>1, SameLegNears
  <2>. QED BY <1>5, <2>1, <2>2 DEF Flatten, Sell, Continue
<1>6. CASE SellFails \/ Reconcile
  <2>1. pc' = AfterLeg /\ pc.at \in {"sell", "reconcile"}
    BY <1>6 DEF SellFails, Reconcile, Continue
  <2>. QED BY <2>1, AfterLegNears
<1>. QED BY <1>1, <1>2, <1>3, <1>4, <1>5, <1>6 DEF Step

-----------------------------------------------------------------------------
(* The theorems.                                                           *)

\* The invariant holds in every reachable state.
THEOREM Invariance == Spec => []IInv
<1>1. IInv /\ [Next]_vars => IInv'
  BY TypeStep, RoomStep, PlanStep, ClearedStep DEF IInv
<1>. QED BY InitIInv, <1>1, PTL DEF Spec

\* Type correctness: in particular no order is booked beyond its fills.
THEOREM TypeCorrect == Spec => []TypeOK
<1>1. IInv => TypeOK
  BY DEF IInv
<1>. QED BY Invariance, <1>1, PTL

\* Whatever fails, and whatever risk_loop books under a live ask, no step of the
\* task or of the exchange makes an ask exceed the shares booked by more than it
\* did: an ask nobody undercut stays covered until its last fill.
THEOREM AsksAreCovered == Spec => AsksStayCovered
<1>1. IInv /\ IInv' /\ [Next]_vars =>
        [\A leg \in Legs : Uncovered(leg)' <= Uncovered(leg) \/ RiskLoop]_vars
  <2>1. IInv' => TypeOK'
    BY DEF IInv
  <2>. QED BY <2>1, CoverStep
<1>. QED BY Invariance, <1>1, PTL DEF Spec, AsksStayCovered

\* Whatever fails, the task tracks no quote while it flattens or once it ends.
THEOREM FlattensQuietly == Spec => []QuietWhenFlattening
<1>1. IInv => QuietWhenFlattening
  BY DEF IInv, Cleared
<1>. QED BY Invariance, <1>1, PTL

\* Books and chain come apart only at a cancel or a death, by fills nobody had
\* polled; at a market sale or the balance read after it; where an untracked
\* order fills; where risk_loop books; and where an ask it left uncovered fills
\* past the shares held.  Every other poll keeps the difference.
THEOREM DriftIsExplained == Spec => GapExplained
<1>1. IInv /\ [Next]_vars =>
        [\A leg \in Legs :
           \/ Gap(leg)' = Gap(leg)
           \/ (Cancel \/ Die) /\ Drift(leg)' = Drift(leg)
           \/ leg = pc.leg /\ pc.at = "sell" /\ (Sell \/ SellFails \/ Die)
           \/ leg = pc.leg /\ Reconcile
           \/ \E side \in Sides : OrphanFill(leg, side)
           \/ RiskLoop
           \/ /\ Poll /\ leg = pc.leg /\ pc.side = "release"
              /\ Unbooked(leg, "release") > inv[leg].shares
              /\ inv'[leg].shares = 0]_vars
  BY GapStep
<1>. QED BY Invariance, <1>1, PTL DEF Spec, GapExplained

\* After the close each call brings the task nearer to its end: from wherever
\* it is, it makes at most 73 more, whatever they answer, and it has none left
\* exactly when it has ended.
THEOREM TaskEndsSoon ==
  Spec => /\ EndsSoon
          /\ [](StepsFrom(pc) \in 0 .. 73)
          /\ [](StepsFrom(pc) = 0 <=> pc.at \in {"done", "dead"})
<1>1. IInv /\ [Next]_vars =>
        [phase = "closed" /\ Step => StepsFrom(pc') < StepsFrom(pc)]_vars
  BY StepNears DEF IInv
<1>2. IInv => StepsFrom(pc) \in 0 .. 73 /\ (StepsFrom(pc) = 0 <=> pc.at \in {"done", "dead"})
  BY StepsFacts DEF IInv, TypeOK
<1>. QED BY Invariance, <1>1, <1>2, PTL DEF Spec, EndsSoon
=============================================================================
