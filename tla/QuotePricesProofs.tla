------------------------- MODULE QuotePricesProofs -------------------------
(* Theorems of QuoteManager about prices and amounts: what a leg may cost,  *)
(* what its average cost may do, and what its ask may be worth.             *)
EXTENDS QuoteManagerProofs

-----------------------------------------------------------------------------
(* Arithmetic.                                                             *)

\* Division rounds down.
LEMMA QuotientBounds ==
  ASSUME NEW a \in Nat, NEW b \in Nat \ {0}
  PROVE  /\ a \div b \in Nat
         /\ b * (a \div b) <= a
         /\ a < b * (a \div b) + b
OBVIOUS

\* What goes into a dividend so often is in the quotient.
LEMMA QuotientAtLeast ==
  ASSUME NEW a \in Nat, NEW b \in Nat \ {0}, NEW c \in Nat, b * c <= a
  PROVE  c <= a \div b
<1>. DEFINE q == a \div b
<1>1. q \in Nat /\ a < b * q + b
  BY QuotientBounds
<1>. HIDE DEF q
<1>2. q + 1 <= c => b * (q + 1) <= b * c
  BY <1>1
<1>3. b * (q + 1) = b * q + b
  BY <1>1
<1>4. ~(q + 1 <= c)
  BY <1>1, <1>2, <1>3
<1>. QED BY <1>1, <1>4 DEF q

LEMMA QuotientAtMost ==
  ASSUME NEW a \in Nat, NEW b \in Nat \ {0}, NEW c \in Nat, a <= b * c
  PROVE  a \div b <= c
<1>. DEFINE q == a \div b
<1>1. q \in Nat /\ b * q <= a
  BY QuotientBounds
<1>. HIDE DEF q
<1>2. c + 1 <= q => b * (c + 1) <= b * q
  BY <1>1
<1>3. b * (c + 1) = b * c + b
  OBVIOUS
<1>4. ~(c + 1 <= q)
  BY <1>1, <1>2, <1>3
<1>. QED BY <1>1, <1>4 DEF q

LEMMA ProductMonotone ==
  ASSUME NEW a \in Nat, NEW b \in Nat, NEW c \in Nat, a <= b
  PROVE  a * c <= b * c /\ c * a <= c * b
OBVIOUS

-----------------------------------------------------------------------------
(* What booking does to the cost of a position.                            *)

\* A position that was sold from: worth no more, at the same average cost or
\* flat.
Lowered(p, r) ==
  /\ r.shares * r.cost <= p.shares * p.cost
  /\ r.cost <= p.cost
  /\ r.shares > 0 => p.shares > 0 /\ r.cost = p.cost

LEMMA SoldPosition ==
  ASSUME NEW p \in Position, NEW n \in Nat
  PROVE  Lowered(p, ApplySell(p, n)) /\ Lowered(p, ReconcileToChain(p, n))
<1>1. ASSUME NEW left \in Nat, left <= p.shares PROVE Lowered(p, Reduce(p, left))
  <2>1. CASE left = 0
    <3>1. Reduce(p, left) = [shares |-> 0, cost |-> 0]
      BY <2>1 DEF Reduce, Flat
    <3>2. p.shares * p.cost \in Nat /\ p.cost \in Nat
      BY DEF Position
    <3>. QED BY <3>1, <3>2 DEF Lowered
  <2>2. CASE left # 0
    <3>1. Reduce(p, left).shares = left /\ Reduce(p, left).cost = p.cost
      BY <2>2 DEF Reduce, Position
    <3>2. p.shares \in Nat /\ p.cost \in Nat
      BY DEF Position
    <3>3. left * p.cost <= p.shares * p.cost
      BY <1>1, <3>2, ProductMonotone
    <3>. QED BY <1>1, <2>2, <3>1, <3>2, <3>3 DEF Lowered
  <2>. QED BY <2>1, <2>2
<1>2. Lowered(p, p)
  BY DEF Lowered, Position
<1>3. Lowered(p, ApplySell(p, n))
  <2>1. CASE n < p.shares
    BY <1>1, <2>1 DEF ApplySell, Position
  <2>2. CASE ~(n < p.shares)
    BY <1>1, <2>2 DEF ApplySell, Position
  <2>. QED BY <2>1, <2>2
<1>4. Lowered(p, ReconcileToChain(p, n))
  BY <1>1, <1>2 DEF ReconcileToChain, Position
<1>. QED BY <1>3, <1>4

\* A purchase adds at most what was paid, and the average stays between the
\* old cost and the price when the price is no lower.
LEMMA BoughtPosition ==
  ASSUME NEW p \in Position, NEW n \in Nat \ {0}, NEW v \in Nat
  PROVE  LET r == ApplyBuy(p, n, v)
         IN  /\ r \in Position
             /\ r.shares * r.cost <= p.shares * p.cost + n * v
             /\ p.shares > 0 /\ p.cost <= v => p.cost <= r.cost /\ r.cost <= v
             /\ p.shares = 0 => r.cost <= v
<1>. DEFINE r == ApplyBuy(p, n, v)
            s == p.shares  c == p.cost
            paid == s * c + n * v
            total == s + n
<1>1. s \in Nat /\ c \in Nat /\ paid \in Nat /\ total \in Nat \ {0}
  BY DEF Position
<1>2. r.shares = total /\ r.cost = paid \div total
  BY DEF ApplyBuy
<1>3. r \in Position
  BY <1>1, <1>2, QuotientBounds DEF ApplyBuy, Position
<1>4. r.shares * r.cost <= paid
  BY <1>1, <1>2, QuotientBounds
<1>5. ASSUME c <= v PROVE c <= r.cost /\ r.cost <= v
  <2>1. total * c = s * c + n * c /\ total * v = s * v + n * v
    BY <1>1
  <2>2. n * c <= n * v /\ s * c <= s * v
    BY <1>1, <1>5, ProductMonotone
  <2>3. n * c \in Nat /\ n * v \in Nat /\ s * c \in Nat /\ s * v \in Nat
    BY <1>1
  <2>4. total * c <= paid /\ paid <= total * v
    BY <2>1, <2>2, <2>3
  <2>. HIDE DEF paid, total, s, c, r
  <2>. QED BY <1>1, <1>2, <2>4, QuotientAtLeast, QuotientAtMost
<1>6. ASSUME s = 0 PROVE r.cost <= v
  <2>1. paid = n * v /\ total = n
    BY <1>1, <1>6
  <2>2. paid <= total * v
    BY <1>1, <2>1
  <2>. HIDE DEF paid, total, s, c, r
  <2>. QED BY <1>1, <1>2, <2>2, QuotientAtMost
<1>. QED BY <1>3, <1>4, <1>5, <1>6

-----------------------------------------------------------------------------
(* The inductive invariant.                                                *)

\* A touch that has a bid came from the poller.
FromBook == \A leg \in Legs : touch[leg].bid > 0 => touch[leg] \in Books

BookBid(v) == \E t \in Books : t.bid > 0 /\ v = t.bid

\* The bid about to be placed was decided for the leg as it still is.
BidPlanned ==
  pc.at \in {"cancel", "place"} /\ pc.side = "acquire" /\ plan.acquire.do = "post" =>
    /\ BookBid(plan.acquire.value) /\ plan.acquire.qty = Lot(plan.acquire.value)
    /\ Held(pc.leg) < InvCap
    /\ NoAverageDown /\ inv[pc.leg].shares > 0 => plan.acquire.value >= inv[pc.leg].cost

\* What a resting bid may still cost, as far as its fills are booked.
Due(q) == (q.qty - q.booked) * q.value

\* A resting bid has room for all its fills, and averages nothing down.
BidFits(leg, q) ==
  /\ BookBid(q.value)
  /\ Held(leg) + Due(q) < InvCap + Lot(q.value) * q.value
  /\ NoAverageDown /\ inv[leg].shares > 0 => q.value >= inv[leg].cost

BidsFit == \A leg \in Legs : Resting(leg, "acquire") => BidFits(leg, quote[leg]["acquire"])

Floor(leg) == inv[leg].cost + MinProfitTicks * Tick

\* The handler of this leg has not yet dealt with its ask.
Requoting(leg) ==
  /\ leg = pc.leg
  /\ \/ pc.at \in {"poll", "quote"}
     \/ pc.at \in {"cancel", "place"} /\ plan.release.do # "keep"

\* A resting ask is a full profit above the cost, or about to be looked at.
AsksPriced ==
  \A leg \in Legs : Resting(leg, "release") =>
    quote[leg]["release"].value >= Floor(leg) \/ Requoting(leg)

AskPlanned ==
  pc.at \in {"cancel", "place"} /\ plan.release.do = "post" =>
    plan.release.value >= Floor(pc.leg)

Priced == FromBook /\ BidPlanned /\ BidsFit /\ ExposureBound /\ AsksPriced /\ AskPlanned

LEMMA InitPriced == Init => Priced
BY DEF Init, Priced, FromBook, BidPlanned, BidsFit, ExposureBound, AsksPriced,
       AskPlanned, Held, Flat, Resting, Rest, Sides

-----------------------------------------------------------------------------
(* What a step does to a position, and to a bid.                           *)

\* Booking the fills of a bid.
BidBooked(leg) ==
  /\ Poll /\ leg = pc.leg /\ pc.side = "acquire"
  /\ Newly(leg, "acquire") \in Nat \ {0}
  /\ inv'[leg] = ApplyBuy(inv[leg], Newly(leg, "acquire"), quote[leg]["acquire"].value)

LEMMA PositionMoves ==
  ASSUME TypeOK, [Next]_vars, NEW leg \in Legs
  PROVE  inv'[leg] = inv[leg] \/ Lowered(inv[leg], inv'[leg]) \/ BidBooked(leg)
<1>. inv[leg] \in Position /\ pc.leg \in Legs /\ pc.side \in Sides /\ plan \in Plan
  BY DEF TypeOK, Control
<1>1. CASE Poll
  <2>. DEFINE newly == Newly(pc.leg, pc.side)  v == quote[pc.leg][pc.side].value
  <2>1. newly \in Nat /\ quote[pc.leg][pc.side] \in Quote
    BY <1>1, PollFacts
  <2>2. CASE newly > 0 /\ leg = pc.leg
    <3>1. BookFill(leg, pc.side, newly, v)
      BY <1>1, <2>2 DEF Poll
    <3>2. inv'[leg] = IF pc.side = "acquire" THEN ApplyBuy(inv[leg], newly, v)
                                             ELSE ApplySell(inv[leg], newly)
      BY <3>1 DEF BookFill, TypeOK
    <3>3. Lowered(inv[leg], ApplySell(inv[leg], newly))
      BY <2>1, SoldPosition
    <3>. QED BY <1>1, <2>1, <2>2, <3>2, <3>3 DEF BidBooked, Sides
  <2>3. CASE ~(newly > 0) \/ leg # pc.leg
    BY <1>1, <2>3 DEF Poll, BookFill, TypeOK
  <2>. QED BY <2>2, <2>3
<1>2. CASE Sell
  <2>1. PICK reported \in Nat : inv' = [inv EXCEPT ![pc.leg] = ApplySell(@, reported)]
    <3>1. PICK sold \in SharesSold(plan.exit) :
            \E reported \in SharesReported(plan.exit, sold) :
              inv' = [inv EXCEPT ![pc.leg] = ApplySell(@, reported)]
      BY <1>2 DEF Sell
    <3>2. plan.exit \in Nat
      BY DEF Plan
    <3>3. SharesReported(plan.exit, sold) \subseteq Nat
      BY <3>2 DEF SharesSold, SharesReported
    <3>. QED BY <3>1, <3>3
  <2>2. CASE leg = pc.leg
    <3>1. inv'[leg] = ApplySell(inv[leg], reported)
      BY <2>1, <2>2 DEF TypeOK
    <3>. QED BY <3>1, SoldPosition
  <2>3. CASE leg # pc.leg
    BY <2>1, <2>3 DEF TypeOK
  <2>. QED BY <2>2, <2>3
<1>3. CASE Reconcile
  <2>1. CASE leg # pc.leg \/ inv' = inv
    BY <1>3, <2>1, ReconcileFacts
  <2>2. CASE leg = pc.leg /\ inv' # inv
    <3>1. PICK onchain \in Nat : inv' = [inv EXCEPT ![pc.leg] = ReconcileToChain(@, onchain)]
      BY <1>3, <2>2, KnobsAssumption DEF Reconcile, TypeOK
    <3>2. inv'[leg] = ReconcileToChain(inv[leg], onchain)
      BY <2>2, <3>1 DEF TypeOK
    <3>. QED BY <3>2, SoldPosition
  <2>. QED BY <2>1, <2>2
<1>4. CASE RiskLoop
  <2>1. inv'[leg] = inv[leg] \/ inv'[leg] = Flat
    BY <1>4, RiskFacts
  <2>2. Lowered(inv[leg], Flat)
    BY DEF Lowered, Flat, Position
  <2>. QED BY <2>1, <2>2
<1>. QED
  BY <1>1, <1>2, <1>3, <1>4
     DEF Next, Step, Environment, vars, books, Wake, PollNothing, QuoteLeg,
         CancelNothing, Cancel, Place, PlaceFails, Flatten, SellFails, Die, Respawn,
         Fill, Terminate, OrphanFill, MoveBook, Age, TimePasses

\* The quote of a slot stays, is forgotten, is polled or is placed.
LEMMA QuoteMoves ==
  ASSUME TypeOK, [Next]_vars, NEW leg \in Legs, NEW side \in Sides
  PROVE  \/ quote'[leg][side] = quote[leg][side]
         \/ quote'[leg][side] = NoQuote
         \/ /\ leg = pc.leg /\ side = pc.side
            /\ \/ /\ Poll
                  /\ quote'[leg][side] =
                       [quote[leg][side] EXCEPT !.booked = ex[leg][side].filled]
               \/ /\ Place
                  /\ quote'[leg][side] =
                       [value |-> plan[side].value, qty |-> plan[side].qty, booked |-> 0]
<1>. pc.leg \in Legs /\ pc.side \in Sides
  BY DEF TypeOK, Control
<1>1. CASE Poll
  BY <1>1, PollSlots
<1>2. CASE Cancel
  BY <1>2, ForgetFacts DEF Cancel
<1>3. CASE Place
  BY <1>3 DEF Place, TypeOK
<1>4. CASE Die
  BY <1>4 DEF Die
<1>5. CASE RiskLoop
  BY <1>5, RiskFacts
<1>. QED
  BY <1>1, <1>2, <1>3, <1>4, <1>5
     DEF Next, Step, Environment, vars, books, Wake, PollNothing, QuoteLeg,
         CancelNothing, PlaceFails, Flatten, Sell, SellFails, Reconcile, Respawn,
         Fill, Terminate, OrphanFill, MoveBook, Age, TimePasses

-----------------------------------------------------------------------------
(* Each step keeps the parts about bids.                                   *)

LEMMA BookStep == TypeOK /\ FromBook /\ [Next]_vars => FromBook'
<1>. SUFFICES ASSUME TypeOK, FromBook, [Next]_vars PROVE FromBook'
  OBVIOUS
<1>1. CASE touch' = touch
  BY <1>1 DEF FromBook
<1>2. CASE \E leg \in Legs : MoveBook(leg)
  BY <1>2 DEF MoveBook, FromBook, TypeOK
<1>3. CASE RiskLoop
  BY <1>1, <1>3, RiskFacts DEF env
<1>. QED
  BY <1>1, <1>2, <1>3
     DEF Next, Step, Environment, vars, env, Wake, Poll, PollNothing, QuoteLeg,
         CancelNothing, Cancel, Place, PlaceFails, Flatten, Sell, SellFails,
         Reconcile, Die, Respawn, Fill, Terminate, OrphanFill, Age, TimePasses

\* A bid that _quote_leg decides to post is within the cap and averages nothing
\* down, and a bid it decides to keep or post is one of the book.
LEMMA DecidedBid ==
  ASSUME TypeOK, FromBook, NEW leg \in Legs, NEW guarded \in BOOLEAN,
         Decide(leg, touch[leg], guarded).acquire.do = "post"
  PROVE  LET want == Decide(leg, touch[leg], guarded).acquire
         IN  /\ BookBid(want.value) /\ want.qty = Lot(want.value)
             /\ Held(leg) < InvCap
             /\ NoAverageDown /\ inv[leg].shares > 0 => want.value >= inv[leg].cost
<1>. DEFINE t == touch[leg]
            d == Decide(leg, t, guarded)
<1>1. /\ t \in Touch /\ inv[leg] \in Position
  BY DEF TypeOK
<1>2. t.bid # 0 /\ t.ask # 0 /\ ~MustExit(leg, t)
  BY DEF Decide, DropAll, Drop, Keep
<1>3. d.acquire = WantBid(leg, t, guarded)
  BY <1>2 DEF Decide
<1>4. MayAccumulate(leg, t, guarded) /\ WantBid(leg, t, guarded) = Post(t.bid, Lot(t.bid))
  BY <1>3 DEF WantBid, Drop, Keep
<1>5. t.bid > 0 /\ t \in Books
  BY <1>1, <1>2 DEF FromBook, Touch
<1>. QED BY <1>1, <1>3, <1>4, <1>5
         DEF MayAccumulate, AveragingDown, Post, BookBid, Touch, Position

LEMMA BidPlanStep ==
  ASSUME TypeOK, PlanSound, FromBook, BidPlanned, [Next]_vars
  PROVE  BidPlanned'
<1>. pc \in Control /\ plan \in Plan /\ pc.leg \in Legs /\ pc.side \in Sides
  BY DEF TypeOK, Control
<1>1. CASE pc' = pc /\ plan' = plan /\ inv' = inv
  BY <1>1 DEF BidPlanned, Held
<1>2. CASE Wake
  BY <1>2 DEF Wake, Enter, Entry, BidPlanned, DropAll, Drop, Control
<1>3. CASE Poll \/ PollNothing
  <2>1. pc' = AfterPoll /\ pc.at = "poll"
    BY <1>3 DEF Poll, PollNothing, Continue
  <2>. QED BY <2>1 DEF AfterPoll, BidPlanned, Control
<1>4. CASE QuoteLeg
  <2>1. PICK guarded \in BOOLEAN : plan' = Decide(pc.leg, touch[pc.leg], guarded)
    BY <1>4 DEF QuoteLeg
  <2>2. inv' = inv /\ pc'.leg = pc.leg
    BY <1>4 DEF QuoteLeg, books, Control
  <2>. QED BY <2>1, <2>2, DecidedBid DEF BidPlanned, Held
<1>5. CASE CancelNothing \/ Cancel \/ Place \/ PlaceFails
  <2>1. /\ pc.at \in {"cancel", "place"} /\ inv' = inv
        /\ Continue(AfterSide) \/ (Continue(AfterCancel) /\ pc.at = "cancel")
    BY <1>5 DEF CancelNothing, Cancel, Place, PlaceFails, books
  <2>2. CASE Continue(AfterSide)
    <3>1. pc'.at \in {"cancel", "place"} =>
            pc'.side = "release" \/ plan'.acquire.do # "post"
      <4>1. Continue(AfterLeg) =>
              (pc'.at \in {"cancel", "place"} => plan'.acquire.do # "post")
        BY AfterLegMoves DEF DropAll, Drop
      <4>. QED BY <2>1, <2>2, <4>1, AfterSideMoves DEF Control
    <3>. QED BY <3>1 DEF BidPlanned
  <2>3. CASE Continue(AfterCancel) /\ plan[pc.side].do = "post" /\ pc.at = "cancel"
    <3>1. AfterCancel = [pc EXCEPT !.at = "place"]
      BY <2>3 DEF AfterCancel
    <3>2. pc'.leg = pc.leg /\ pc'.side = pc.side /\ plan' = plan
      BY <2>3, <3>1 DEF Continue, Control
    <3>. QED BY <2>1, <2>3, <3>2 DEF BidPlanned, Held
  <2>4. Continue(AfterCancel) /\ plan[pc.side].do # "post" => Continue(AfterSide)
    BY DEF AfterCancel
  <2>. QED BY <2>1, <2>2, <2>3, <2>4
<1>6. CASE Flatten
  <2>1. CASE pc' = [pc EXCEPT !.at = "sell"]
    BY <2>1 DEF BidPlanned, Control
  <2>2. CASE Continue(AfterLeg)
    BY <2>2, AfterLegMoves DEF BidPlanned, DropAll, Drop
  <2>. QED BY <1>6, <2>1, <2>2 DEF Flatten
<1>7. CASE Sell
  BY <1>7 DEF Sell, BidPlanned, Control
<1>8. CASE SellFails \/ Reconcile
  <2>1. Continue(AfterLeg)
    BY <1>8 DEF SellFails, Reconcile
  <2>. QED BY <2>1, AfterLegMoves DEF BidPlanned, DropAll, Drop
<1>9. CASE Die \/ Respawn
  BY <1>9 DEF Die, Respawn, Rest, BidPlanned
<1>10. CASE RiskLoop
  <2>1. /\ pc' = pc /\ plan' = plan
        /\ inv'[pc.leg] = inv[pc.leg] \/ inv'[pc.leg] = Flat
    BY <1>10, RiskFacts
  <2>2. inv[pc.leg] \in Position /\ Held(pc.leg) \in Nat /\ InvCap \in Nat
    BY KnobsAssumption DEF TypeOK, Held, Position
  <2>3. inv'[pc.leg] = Flat => Held(pc.leg)' = 0 /\ ~(inv'[pc.leg].shares > 0)
    BY <2>1 DEF Held, Flat
  <2>. QED BY <2>1, <2>2, <2>3 DEF BidPlanned, Held
<1>. QED
  BY <1>1, <1>2, <1>3, <1>4, <1>5, <1>6, <1>7, <1>8, <1>9, <1>10
     DEF Next, Step, Environment, vars, books, Fill,
         OrphanFill, Terminate, MoveBook, Age, TimePasses

\* A poll of a bid books all it filled, or nothing if there is nothing new.
LEMMA BidPoll ==
  ASSUME TypeOK, Poll, pc.side = "acquire"
  PROVE  BidBooked(pc.leg) \/ (Newly(pc.leg, "acquire") = 0 /\ inv' = inv)
<1>. DEFINE leg == pc.leg
            n == Newly(leg, "acquire")
<1>1. n \in Nat /\ leg \in Legs
  BY PollFacts
<1>2. CASE n > 0
  <2>1. BookFill(leg, "acquire", n, quote[leg]["acquire"].value)
    BY <1>2 DEF Poll
  <2>. QED BY <1>1, <1>2, <2>1 DEF BookFill, BidBooked, TypeOK
<1>3. CASE ~(n > 0)
  BY <1>1, <1>3 DEF Poll
<1>. QED BY <1>2, <1>3

\* What booking the fills of a bid costs is what the bid owes less afterwards.
LEMMA BookedWithinDue ==
  ASSUME TypeOK, NEW leg \in Legs, BidBooked(leg), BidFits(leg, quote[leg]["acquire"]),
         NEW q, q = quote[leg]["acquire"],
         NEW r, r = [q EXCEPT !.booked = ex[leg]["acquire"].filled]
  PROVE  /\ Held(leg)' + Due(r) < InvCap + Lot(q.value) * q.value
         /\ Due(r) \in Nat /\ Held(leg)' \in Nat
         /\ r.value = q.value
         /\ NoAverageDown => q.value >= inv'[leg].cost
         /\ NoAverageDown /\ inv[leg].shares > 0 => inv'[leg].cost >= inv[leg].cost
<1>. DEFINE n == Newly(leg, "acquire")  v == q.value
            rest == q.qty - ex[leg]["acquire"].filled
<1>1. /\ q \in Quote /\ ex[leg]["acquire"] \in Order /\ inv[leg] \in Position
      /\ ex[leg]["acquire"].filled <= q.qty
  BY DEF BidBooked, TypeOK, Poll, Resting, Sides
<1>2. n = ex[leg]["acquire"].filled - q.booked /\ n \in Nat \ {0}
  BY DEF BidBooked, Newly, Matched
<1>3. rest \in Nat /\ q.qty - q.booked = n + rest /\ v \in Nat
  BY <1>1, <1>2 DEF Quote, Order
<1>4. r.value = v /\ Due(r) = rest * v /\ Due(q) = (n + rest) * v
  BY <1>1, <1>3 DEF Due, Quote
<1>5. /\ inv'[leg] \in Position
      /\ Held(leg)' <= Held(leg) + n * v
      /\ inv[leg].shares > 0 /\ inv[leg].cost <= v =>
           inv[leg].cost <= inv'[leg].cost /\ inv'[leg].cost <= v
      /\ inv[leg].shares = 0 => inv'[leg].cost <= v
  BY <1>1, <1>2, <1>3, BoughtPosition DEF BidBooked, Held
<1>. HIDE DEF n, v, rest
<1>6. /\ Held(leg) \in Nat /\ Held(leg)' \in Nat
      /\ rest * v \in Nat /\ n * v \in Nat /\ (n + rest) * v = n * v + rest * v
  <2>1. Held(leg) \in Nat /\ Held(leg)' \in Nat
    BY <1>1, <1>5 DEF Held, Position
  <2>2. \A a, b, c \in Nat : a * c \in Nat /\ b * c \in Nat /\ (a + b) * c = a * c + b * c
    OBVIOUS
  <2>. QED BY <1>2, <1>3, <2>1, <2>2
<1>7. BookBid(v) /\ v \in Nat \ {0}
  BY <1>3 DEF BidFits, BookBid, v
<1>8. Lot(v) * v \in Nat /\ InvCap \in Nat
  BY <1>7, LotPositive, KnobsAssumption
<1>9. Held(leg) + (n + rest) * v < InvCap + Lot(v) * v
  BY <1>4 DEF BidFits, v
<1>10. NoAverageDown /\ inv[leg].shares > 0 => inv[leg].cost <= v
  BY <1>1, <1>3 DEF BidFits, v, Position
<1>11. inv[leg].shares \in Nat /\ inv'[leg].cost \in Nat /\ inv[leg].cost \in Nat
  BY <1>1, <1>5 DEF Position
<1>12. Held(leg)' + rest * v < InvCap + Lot(v) * v
  BY <1>5, <1>6, <1>8, <1>9
<1>13. NoAverageDown => v >= inv'[leg].cost
  BY <1>3, <1>5, <1>10, <1>11
<1>14. NoAverageDown /\ inv[leg].shares > 0 => inv'[leg].cost >= inv[leg].cost
  BY <1>3, <1>5, <1>10, <1>11
<1>. QED BY <1>4, <1>6, <1>12, <1>13, <1>14 DEF v

LEMMA BidsStep ==
  ASSUME TypeOK, TypeOK', PlanSound, BidPlanned, BidsFit, [Next]_vars
  PROVE  BidsFit'
<1>. SUFFICES ASSUME NEW leg \in Legs, quote'[leg]["acquire"] # NoQuote
              PROVE  BidFits(leg, quote[leg]["acquire"])'
  BY DEF BidsFit, Resting
<1>. DEFINE q == quote[leg]["acquire"]
<1>. pc.leg \in Legs /\ pc.side \in Sides /\ "acquire" \in Sides /\ plan \in Plan
  BY DEF TypeOK, Control, Sides
<1>1. inv[leg] \in Position /\ inv'[leg] \in Position
  BY DEF TypeOK
<1>2. Held(leg) \in Nat /\ Held(leg)' \in Nat
  BY <1>1 DEF Held, Position
<1>3. CASE BidBooked(leg)
  <2>. DEFINE r == [q EXCEPT !.booked = ex[leg]["acquire"].filled]
  <2>1. quote'[leg]["acquire"] = r
    BY <1>3, PollSlots DEF BidBooked
  <2>2. Resting(leg, "acquire")
    BY <1>3 DEF BidBooked, Poll
  <2>3. BidFits(leg, q)
    BY <2>2 DEF BidsFit
  <2>4. /\ Held(leg)' + Due(r) < InvCap + Lot(q.value) * q.value
        /\ r.value = q.value
        /\ NoAverageDown => q.value >= inv'[leg].cost
    BY <1>3, <2>3, BookedWithinDue
  <2>. HIDE DEF q, r
  <2>5. BookBid(r.value)
    BY <2>3, <2>4 DEF BidFits
  <2>. QED BY <2>1, <2>4, <2>5 DEF BidFits, Due
<1>4. CASE Place /\ leg = pc.leg /\ pc.side = "acquire"
  <2>. DEFINE want == plan.acquire
  <2>1. quote'[leg]["acquire"] = [value |-> want.value, qty |-> want.qty, booked |-> 0]
    BY <1>4 DEF Place, TypeOK
  <2>2. inv' = inv /\ pc.at = "place" /\ want \in Want
    BY <1>4 DEF Place, Plan
  <2>3. want.qty \in Nat /\ want.value \in Nat
    BY <2>2 DEF Want
  <2>4. Due(quote'[leg]["acquire"]) = want.qty * want.value /\ want.qty * want.value \in Nat
    BY <2>1, <2>3 DEF Due
  <2>5. want.do = "post"
    BY <1>4 DEF PlanSound, Place
  <2>. QED BY <1>2, <1>4, <2>1, <2>2, <2>4, <2>5, KnobsAssumption DEF BidPlanned, BidFits, Held
<1>5. CASE quote'[leg]["acquire"] = q /\ (inv'[leg] = inv[leg] \/ Lowered(inv[leg], inv'[leg]))
  <2>1. BidFits(leg, q) /\ q \in Quote
    BY <1>5 DEF BidsFit, Resting, TypeOK
  <2>2. /\ Held(leg)' <= Held(leg)
        /\ inv'[leg].shares > 0 => inv[leg].shares > 0 /\ inv'[leg].cost = inv[leg].cost
    BY <1>1, <1>2, <1>5 DEF Lowered, Held, Position
  <2>3. q.value \in Nat \ {0} /\ q.qty - q.booked \in Int
    BY <2>1 DEF BidFits, BookBid, Quote
  <2>4. Due(q) \in Int /\ Lot(q.value) * q.value \in Int
    BY <2>3, LotPositive DEF Due
  <2>. HIDE DEF q
  <2>5. Held(leg)' + Due(q) < InvCap + Lot(q.value) * q.value
    BY <1>2, <2>1, <2>2, <2>4, KnobsAssumption DEF BidFits
  <2>. QED BY <1>5, <2>1, <2>2, <2>5 DEF BidFits
<1>6. CASE Poll /\ leg = pc.leg /\ pc.side = "acquire" /\ ~BidBooked(leg)
  <2>1. Newly(leg, "acquire") = 0 /\ inv' = inv
    BY <1>6, BidPoll
  <2>2. quote'[leg]["acquire"] = [q EXCEPT !.booked = ex[leg]["acquire"].filled]
    BY <1>6, PollSlots
  <2>3. q \in Quote /\ ex[leg]["acquire"] \in Order
    BY <1>6, PollFacts
  <2>4. quote'[leg]["acquire"] = q
    BY <2>1, <2>2, <2>3 DEF Newly, Matched, Quote, Order
  <2>. QED BY <1>5, <2>1, <2>4
<1>7. \/ quote'[leg]["acquire"] = q
      \/ leg = pc.leg /\ pc.side = "acquire" /\ (Poll \/ Place)
  BY QuoteMoves
<1>. QED BY <1>3, <1>4, <1>5, <1>6, <1>7, PositionMoves

LEMMA ExposureStep ==
  ASSUME TypeOK, TypeOK', BidsFit, ExposureBound, [Next]_vars
  PROVE  ExposureBound'
<1>. SUFFICES ASSUME NEW leg \in Legs, Held(leg)' > 0
              PROVE  \E t \in Books : t.bid > 0 /\ Held(leg)' < InvCap + Lot(t.bid) * t.bid
  BY DEF ExposureBound
<1>. DEFINE q == quote[leg]["acquire"]
<1>1. inv[leg] \in Position /\ inv'[leg] \in Position
  BY DEF TypeOK
<1>2. Held(leg) \in Nat /\ Held(leg)' \in Nat
  BY <1>1 DEF Held, Position
<1>3. \A t \in Books : t.bid > 0 => InvCap + Lot(t.bid) * t.bid \in Nat
  <2>1. \A t \in Books : t.bid \in Nat
    BY BooksAssumption DEF Touch
  <2>. QED BY <2>1, LotPositive, KnobsAssumption
<1>4. CASE BidBooked(leg)
  <2>1. BidFits(leg, q)
    BY <1>4 DEF BidBooked, Poll, BidsFit
  <2>. DEFINE r == [q EXCEPT !.booked = ex[leg]["acquire"].filled]
  <2>2. Held(leg)' + Due(r) < InvCap + Lot(q.value) * q.value /\ Due(r) \in Nat
    BY <1>4, <2>1, BookedWithinDue
  <2>3. PICK t \in Books : t.bid > 0 /\ q.value = t.bid
    BY <2>1 DEF BidFits, BookBid
  <2>. HIDE DEF r
  <2>4. Held(leg)' < InvCap + Lot(t.bid) * t.bid
    BY <1>2, <1>3, <2>2, <2>3
  <2>. QED BY <2>3, <2>4
<1>5. CASE inv'[leg] = inv[leg] \/ Lowered(inv[leg], inv'[leg])
  <2>1. Held(leg)' <= Held(leg)
    BY <1>1, <1>2, <1>5 DEF Lowered, Held
  <2>2. PICK t \in Books : t.bid > 0 /\ Held(leg) < InvCap + Lot(t.bid) * t.bid
    BY <1>2, <2>1 DEF ExposureBound
  <2>3. Held(leg)' < InvCap + Lot(t.bid) * t.bid
    BY <1>2, <1>3, <2>1, <2>2
  <2>. QED BY <2>2, <2>3
<1>. QED BY <1>4, <1>5, PositionMoves

-----------------------------------------------------------------------------
(* Each step keeps the parts about asks.                                   *)

\* An ask that _quote_leg decides to post, or to keep, is at or above the floor.
LEMMA DecidedAsk ==
  ASSUME TypeOK, NEW leg \in Legs, NEW guarded \in BOOLEAN,
         NEW want, want = Decide(leg, touch[leg], guarded).release
  PROVE  /\ want.do = "post" => want.value >= Floor(leg)
         /\ want.do = "keep" => /\ Resting(leg, "release")
                                /\ quote[leg]["release"].value >= Floor(leg)
<1>. DEFINE t == touch[leg]
<1>1. t \in Touch /\ inv[leg] \in Position
  BY DEF TypeOK
<1>2. Floor(leg) \in Nat
  BY <1>1, KnobsAssumption DEF Floor, Position
<1>3. AskPrice(leg, t) >= Floor(leg)
  BY <1>1, <1>2 DEF AskPrice, Floor, Touch
<1>4. want = Drop \/ want = WantAsk(leg, t)
  BY DEF Decide, DropAll
<1>5. \/ want = Drop
      \/ want = Post(AskPrice(leg, t), inv[leg].shares)
      \/ want = Keep /\ Resting(leg, "release") /\ quote[leg]["release"].value = AskPrice(leg, t)
  BY <1>4 DEF WantAsk
<1>. QED BY <1>3, <1>5 DEF Drop, Post, Keep

\* A leg that risk_loop books as gone has the lowest floor.
LEMMA RiskFloor ==
  ASSUME TypeOK, RiskLoop, NEW leg \in Legs
  PROVE  Floor(leg) \in Nat /\ Floor(leg)' \in Nat /\ Floor(leg)' <= Floor(leg)
<1>1. inv'[leg] = inv[leg] \/ inv'[leg] = Flat
  BY RiskFacts
<1>2. inv[leg].cost \in Nat /\ MinProfitTicks * Tick \in Nat
  BY KnobsAssumption DEF TypeOK, Position
<1>. QED BY <1>1, <1>2 DEF Floor, Flat

LEMMA AskPlanStep ==
  ASSUME TypeOK, PlanSound, AskPlanned, [Next]_vars
  PROVE  AskPlanned'
<1>. pc \in Control /\ plan \in Plan /\ pc.leg \in Legs /\ pc.side \in Sides
  BY DEF TypeOK, Control
<1>1. CASE pc' = pc /\ plan' = plan /\ inv' = inv
  BY <1>1 DEF AskPlanned, Floor
<1>2. CASE Wake
  BY <1>2 DEF Wake, Enter, Entry, AskPlanned, DropAll, Drop, Control
<1>3. CASE Poll \/ PollNothing
  <2>1. pc' = AfterPoll /\ pc.at = "poll"
    BY <1>3 DEF Poll, PollNothing, Continue
  <2>. QED BY <2>1 DEF AfterPoll, AskPlanned, Control
<1>4. CASE QuoteLeg
  <2>1. PICK guarded \in BOOLEAN : plan' = Decide(pc.leg, touch[pc.leg], guarded)
    BY <1>4 DEF QuoteLeg
  <2>2. inv' = inv /\ pc'.leg = pc.leg
    BY <1>4 DEF QuoteLeg, books, Control
  <2>. QED BY <2>1, <2>2, DecidedAsk DEF AskPlanned, Floor
<1>5. CASE CancelNothing \/ Cancel \/ Place \/ PlaceFails
  <2>1. /\ pc.at \in {"cancel", "place"} /\ inv' = inv
        /\ Continue(AfterSide) \/ Continue(AfterCancel)
    BY <1>5 DEF CancelNothing, Cancel, Place, PlaceFails, books
  <2>2. CASE pc'.leg = pc.leg /\ plan' = plan
    BY <2>1, <2>2 DEF AskPlanned, Floor
  <2>3. CASE pc'.at \in {"cancel", "place"} => plan'.release.do # "post"
    BY <2>3 DEF AskPlanned
  <2>4. Continue(AfterLeg) =>
          (pc'.at \in {"cancel", "place"} => plan'.release.do # "post")
    BY AfterLegMoves DEF DropAll, Drop
  <2>5. CASE Continue(AfterSide)
    BY <2>1, <2>2, <2>3, <2>4, <2>5, AfterSideMoves DEF Control
  <2>6. CASE Continue(AfterCancel) /\ plan[pc.side].do = "post"
    <3>1. AfterCancel = [pc EXCEPT !.at = "place"]
      BY <2>6 DEF AfterCancel
    <3>. QED BY <2>2, <2>6, <3>1 DEF Continue, Control
  <2>7. Continue(AfterCancel) /\ plan[pc.side].do # "post" => Continue(AfterSide)
    BY DEF AfterCancel
  <2>. QED BY <2>1, <2>5, <2>6, <2>7
<1>6. CASE Flatten
  <2>1. CASE pc' = [pc EXCEPT !.at = "sell"]
    BY <2>1 DEF AskPlanned, Control
  <2>2. CASE Continue(AfterLeg)
    BY <2>2, AfterLegMoves DEF AskPlanned, DropAll, Drop
  <2>. QED BY <1>6, <2>1, <2>2 DEF Flatten
<1>7. CASE Sell
  BY <1>7 DEF Sell, AskPlanned, Control
<1>8. CASE SellFails \/ Reconcile
  <2>1. Continue(AfterLeg)
    BY <1>8 DEF SellFails, Reconcile
  <2>. QED BY <2>1, AfterLegMoves DEF AskPlanned, DropAll, Drop
<1>9. CASE Die \/ Respawn
  BY <1>9 DEF Die, Respawn, Rest, AskPlanned
<1>10. CASE RiskLoop
  <2>1. pc' = pc /\ plan' = plan
    BY <1>10, RiskFacts
  <2>. DEFINE leg == pc.leg
  <2>2. Floor(leg) \in Nat /\ Floor(leg)' \in Nat /\ Floor(leg)' <= Floor(leg)
    <3>1. \A l \in Legs : Floor(l) \in Nat /\ Floor(l)' \in Nat /\ Floor(l)' <= Floor(l)
      BY <1>10, RiskFloor
    <3>. QED BY <2>1, <3>1
  <2>. QED BY <2>1, <2>2 DEF AskPlanned, Plan, Want
<1>. QED
  BY <1>1, <1>2, <1>3, <1>4, <1>5, <1>6, <1>7, <1>8, <1>9, <1>10
     DEF Next, Step, Environment, vars, books, Fill,
         OrphanFill, Terminate, MoveBook, Age, TimePasses

LEMMA AsksStep ==
  ASSUME TypeOK, PlanSound, Cleared, AskPlanned, AsksPriced, [Next]_vars
  PROVE  AsksPriced'
<1>. SUFFICES ASSUME NEW leg \in Legs, quote'[leg]["release"] # NoQuote
              PROVE  quote'[leg]["release"].value >= Floor(leg)' \/ Requoting(leg)'
  BY DEF AsksPriced, Resting
<1>. pc \in Control /\ plan \in Plan /\ pc.leg \in Legs /\ pc.side \in Sides
  BY DEF TypeOK, Control
<1>1. CASE /\ quote'[leg]["release"] = quote[leg]["release"] /\ inv'[leg] = inv[leg]
           /\ Requoting(leg) => Requoting(leg)'
  BY <1>1 DEF AsksPriced, Resting, Floor
<1>2. CASE Wake
  BY <1>1, <1>2 DEF Wake, books, Requoting
<1>3. CASE Poll \/ PollNothing
  <2>1. pc' = AfterPoll /\ pc.at = "poll"
    BY <1>3 DEF Poll, PollNothing, Continue
  <2>2. CASE leg = pc.leg
    BY <2>1, <2>2 DEF AfterPoll, Requoting, Control
  <2>3. CASE leg # pc.leg
    <3>1. quote'[leg]["release"] = quote[leg]["release"] /\ inv'[leg] = inv[leg]
      BY <1>3, <2>3, PollFacts, PollSlots DEF PollNothing, books, Sides
    <3>. QED BY <1>1, <2>3, <3>1 DEF Requoting
  <2>. QED BY <2>2, <2>3
<1>4. CASE QuoteLeg
  <2>1. PICK guarded \in BOOLEAN : plan' = Decide(pc.leg, touch[pc.leg], guarded)
    BY <1>4 DEF QuoteLeg
  <2>2. /\ pc.at = "quote" /\ pc'.at = "cancel" /\ pc'.leg = pc.leg
        /\ inv' = inv /\ quote' = quote
    BY <1>4 DEF QuoteLeg, books, Control
  <2>3. CASE leg = pc.leg /\ plan'.release.do = "keep"
    BY <2>1, <2>2, <2>3, DecidedAsk DEF Floor
  <2>4. CASE leg = pc.leg /\ plan'.release.do # "keep"
    BY <2>2, <2>4 DEF Requoting
  <2>5. CASE leg # pc.leg
    BY <1>1, <2>2, <2>5 DEF Requoting
  <2>. QED BY <2>3, <2>4, <2>5
<1>5. CASE CancelNothing \/ Cancel \/ Place \/ PlaceFails
  <2>1. /\ pc.at \in {"cancel", "place"} /\ inv' = inv
        /\ Continue(AfterSide) \/ (Continue(AfterCancel) /\ pc.at = "cancel")
    BY <1>5 DEF CancelNothing, Cancel, Place, PlaceFails, books
  <2>2. CASE leg # pc.leg \/ pc.side = "acquire"
    <3>1. quote'[leg]["release"] = quote[leg]["release"]
      BY <1>5, <2>2, ForgetFacts
         DEF CancelNothing, Cancel, Place, PlaceFails, books, TypeOK, Sides
    <3>2. CASE leg # pc.leg
      BY <1>1, <2>1, <3>1, <3>2 DEF Requoting
    <3>3. CASE pc.side = "acquire" /\ plan' = plan /\ pc'.leg = pc.leg
               /\ pc'.at \in {"cancel", "place"}
      BY <1>1, <2>1, <3>1, <3>3 DEF Requoting
    <3>4. CASE pc.side = "acquire" /\ Continue(AfterSide)
      BY <2>1, <3>3, <3>4, AfterSideMoves DEF Control
    <3>5. CASE pc.side = "acquire" /\ Continue(AfterCancel) /\ plan[pc.side].do = "post"
      <4>1. AfterCancel = [pc EXCEPT !.at = "place"]
        BY <3>5 DEF AfterCancel
      <4>. QED BY <3>3, <3>5, <4>1 DEF Continue, Control
    <3>6. Continue(AfterCancel) /\ plan[pc.side].do # "post" => Continue(AfterSide)
      BY DEF AfterCancel
    <3>. QED BY <2>1, <2>2, <3>2, <3>4, <3>5, <3>6
  <2>3. CASE leg = pc.leg /\ pc.side = "release"
    <3>1. CASE CancelNothing \/ PlaceFails
      <4>1. quote' = quote
        BY <3>1 DEF CancelNothing, PlaceFails, books
      <4>2. Resting(leg, "release")
        BY <4>1 DEF Resting
      <4>3. plan.release.do = "keep"
        BY <2>3, <3>1, <4>2 DEF CancelNothing, PlaceFails, Cleared
      <4>4. pc.at = "cancel"
        BY <2>3, <3>1, <4>2 DEF CancelNothing, PlaceFails, Cleared
      <4>5. ~Requoting(leg)
        BY <4>3, <4>4 DEF Requoting
      <4>. QED BY <1>1, <2>1, <4>1, <4>5
    <3>2. CASE Cancel
      BY <2>3, <3>2, ForgetFacts DEF Cancel
    <3>3. CASE Place
      <4>1. quote'[leg]["release"].value = plan.release.value
        BY <2>3, <3>3 DEF Place, TypeOK
      <4>2. plan.release.do = "post"
        BY <2>3, <3>3 DEF Place, PlanSound
      <4>. QED BY <2>1, <2>3, <4>1, <4>2 DEF AskPlanned, Floor
    <3>. QED BY <1>5, <3>1, <3>2, <3>3
  <2>. QED BY <2>2, <2>3 DEF Sides
<1>6. CASE Flatten
  BY <1>1, <1>6 DEF Flatten, books, Requoting
<1>7. CASE Sell \/ SellFails \/ Reconcile
  <2>1. /\ pc.at \in {"sell", "reconcile"} /\ quote' = quote
        /\ \A l \in Legs \ {pc.leg} : inv'[l] = inv[l]
    BY <1>7, ReconcileFacts DEF Sell, SellFails, Reconcile, TypeOK
  <2>2. leg # pc.leg
    BY <2>1 DEF Cleared, Resting
  <2>. QED BY <1>1, <2>1, <2>2 DEF Requoting
<1>8. CASE Die
  BY <1>8 DEF Die, Sides
<1>9. CASE Respawn
  BY <1>1, <1>9 DEF Respawn, Requoting
<1>10. CASE RiskLoop
  <2>1. pc' = pc /\ plan' = plan /\ quote' = quote
    BY <1>10, RiskFacts
  <2>2. Floor(leg) \in Nat /\ Floor(leg)' \in Nat /\ Floor(leg)' <= Floor(leg)
    BY <1>10, RiskFloor
  <2>3. quote[leg]["release"].value \in Nat
    BY <2>1 DEF TypeOK, Quote, Sides
  <2>4. Requoting(leg) => Requoting(leg)'
    BY <2>1 DEF Requoting
  <2>. QED BY <2>1, <2>2, <2>3, <2>4 DEF AsksPriced, Resting
<1>. QED
  BY <1>1, <1>2, <1>3, <1>4, <1>5, <1>6, <1>7, <1>8, <1>9, <1>10
     DEF Next, Step, Environment, vars, books, Requoting, Fill,
         OrphanFill, Terminate, MoveBook, Age, TimePasses

\* Rounding to a tick moves a price by half a tick at most.
LEMMA PostedFacts ==
  ASSUME NEW value \in Nat
  PROVE  Posted(value) \in Nat /\ 2 * Posted(value) >= 2 * value - Tick
<1>. DEFINE a == 2 * value + Tick - 1
            b == 2 * Tick
            n == a \div b
<1>1. Tick \in Nat \ {0} /\ a \in Nat /\ b \in Nat \ {0}
  BY KnobsAssumption
<1>2. n \in Nat /\ a < b * n + b
  BY <1>1, QuotientBounds
<1>3. Posted(value) = n * Tick
  BY DEF Posted
<1>. HIDE DEF n
<1>4. n * Tick \in Nat /\ b * n = 2 * (n * Tick)
  BY <1>1, <1>2
<1>. QED BY <1>1, <1>2, <1>3, <1>4

-----------------------------------------------------------------------------
(* The theorems.                                                           *)

\* The invariant about prices holds in every reachable state.
THEOREM PricesInvariance == Spec => [](IInv /\ Priced)
<1>1. IInv /\ Priced /\ [Next]_vars => Priced'
  <2>. SUFFICES ASSUME IInv, Priced, [Next]_vars PROVE Priced'
    OBVIOUS
  <2>1. TypeOK /\ TypeOK' /\ PlanSound /\ Cleared
    BY TypeStep DEF IInv
  <2>2. FromBook' /\ BidPlanned'
    BY <2>1, BookStep, BidPlanStep DEF Priced
  <2>3. BidsFit' /\ ExposureBound'
    BY <2>1, BidsStep, ExposureStep DEF Priced
  <2>4. AsksPriced' /\ AskPlanned'
    BY <2>1, AsksStep, AskPlanStep DEF Priced
  <2>. QED BY <2>2, <2>3, <2>4 DEF Priced
<1>. QED BY InitPriced, Invariance, <1>1, PTL DEF Spec

\* Whatever fills, fails or moves, what is booked on a leg costs less than the
\* inventory cap plus one lot at a price of the book.
THEOREM ExposureIsBounded == Spec => []ExposureBound
<1>1. Priced => ExposureBound
  BY DEF Priced
<1>. QED BY PricesInvariance, <1>1, PTL

\* What is rounded by at most half a tick from a tick above a cost is above it.
LEMMA RoundedStaysAbove ==
  ASSUME NEW p \in Nat, NEW v \in Nat, NEW c \in Nat, NEW t \in Nat \ {0},
         v >= c + t, 2 * p >= 2 * v - t
  PROVE  p > c
OBVIOUS

\* While the task sleeps every resting ask is a full profit above the average
\* cost, and even its rounded price is above that cost.
THEOREM AsksAreProfitable == Spec => []AskProfitable
<1>1. IInv /\ Priced => AskProfitable
  <2>. SUFFICES ASSUME IInv, Priced, pc.at = "sleep", MinProfitTicks > 0,
                       NEW leg \in Legs, Resting(leg, "release")
                PROVE  /\ quote[leg]["release"].value >= Floor(leg)
                       /\ Posted(quote[leg]["release"].value) > inv[leg].cost
    BY DEF AskProfitable, Floor
  <2>. DEFINE v == quote[leg]["release"].value
  <2>1. v \in Nat /\ inv[leg].cost \in Nat
    BY DEF IInv, TypeOK, Resting, Quote, Position, Sides
  <2>2. v >= Floor(leg)
    BY DEF Priced, AsksPriced, Requoting
  <2>3. Tick \in Nat \ {0} /\ MinProfitTicks \in Nat \ {0}
    BY KnobsAssumption
  <2>4. MinProfitTicks * Tick >= Tick /\ MinProfitTicks * Tick \in Nat
    BY <2>3
  <2>5. v >= inv[leg].cost + Tick
    BY <2>1, <2>2, <2>3, <2>4 DEF Floor
  <2>6. Posted(v) \in Nat /\ 2 * Posted(v) >= 2 * v - Tick
    BY <2>1, PostedFacts
  <2>7. Posted(v) > inv[leg].cost
    <3>. HIDE DEF v
    <3>. QED BY <2>1, <2>3, <2>5, <2>6, RoundedStaysAbove
  <2>. QED BY <2>2, <2>7
<1>. QED BY PricesInvariance, <1>1, PTL

\* With no_average_down, no booking lowers the average cost of a held leg.
THEOREM CostsNeverFall == Spec => CostNeverFalls
<1>1. IInv /\ Priced /\ [Next]_vars =>
        [NoAverageDown =>
           \A leg \in Legs : inv[leg].shares > 0 /\ inv'[leg].shares > 0 =>
                               inv'[leg].cost >= inv[leg].cost]_vars
  <2>. SUFFICES ASSUME IInv, Priced, [Next]_vars, NoAverageDown, NEW leg \in Legs,
                       inv[leg].shares > 0, inv'[leg].shares > 0
                PROVE  inv'[leg].cost >= inv[leg].cost
    OBVIOUS
  <2>1. TypeOK /\ inv[leg].cost \in Nat
    BY DEF IInv, TypeOK, Position
  <2>2. CASE BidBooked(leg)
    <3>1. BidFits(leg, quote[leg]["acquire"])
      BY <2>2 DEF BidBooked, Poll, Priced, BidsFit
    <3>. QED BY <2>1, <2>2, <3>1, BookedWithinDue
  <2>3. CASE inv'[leg] = inv[leg] \/ Lowered(inv[leg], inv'[leg])
    BY <2>1, <2>3 DEF Lowered
  <2>. QED BY <2>1, <2>2, <2>3, PositionMoves
<1>. QED BY PricesInvariance, <1>1, PTL DEF Spec, CostNeverFalls
=============================================================================
